---------------------------- MODULE BootstrapIndex ----------------------------
(***************************************************************************)
(* .github/workflows/bootstrap.sh, as the workflow for pull requests runs  *)
(* it: three downloads go on in the background while the machine is        *)
(* prepared, and the downloaded PortIndex is then brought up to date with  *)
(* the pull request.  portindex generates the entry of a port anew when    *)
(* its Portfile is newer than the index, so the script checks out an older *)
(* commit and comes back, to touch what recent commits changed.            *)
(***************************************************************************)
EXTENDS Naturals

CONSTANTS
    Ports,
    Versions,   \* contents of a port directory
    NoPort,     \* no such directory, or no entry
    Tip,        \* number of the newest commit of macports/master
    Window      \* the "10" of macports/master~10

ASSUME WindowAssumption == Tip \in Nat /\ Window \in Nat /\ Window < Tip

Tree == [Ports -> Versions \cup {NoPort}]
Files == {"getopt", "base", "PortIndex"}
None == [at |-> 0, entry |-> [p \in Ports |-> NoPort]]

VARIABLES
    master,     \* the tree of every commit of macports/master
    mergeBase,  \* the commit the pull request branched off
    head,       \* the tree of the pull request
    indexed,    \* the commit the PortIndex on the server is made from
    download,   \* of each file: "running", "here" or "failed"
    arrived,    \* when the PortIndex was written
    line, tree, \* the line the script is at, and what is checked out
    mtime,      \* when each port directory was last written
    index,      \* ports/PortIndex
    clock

repo == <<master, mergeBase, head, indexed>>
bootstrapVars == <<repo, download, arrived, line, tree, mtime, index, clock>>

\* Trees of which one follows the other change one port.
Follows(t, u) == t = u \/ \E p \in Ports, v \in Versions \cup {NoPort} : u = [t EXCEPT ![p] = v]

BootstrapInit ==
    /\ master \in [1 .. Tip -> Tree]
    /\ \A c \in 1 .. (Tip - 1) : Follows(master[c], master[c + 1])
    /\ mergeBase \in 1 .. Tip
    /\ head \in Tree /\ Follows(master[mergeBase], head)
    /\ indexed \in 1 .. Tip
    /\ download = [f \in Files |-> "running"]
    /\ arrived = 0
    /\ line = "getopt"
    /\ tree = head
    /\ mtime = [p \in Ports |-> 0]
    /\ index = None
    /\ clock = 0

-----------------------------------------------------------------------------
(* The downloads in the background. *)

Arrive(f) ==
    /\ download[f] = "running"
    /\ download' = [download EXCEPT ![f] = "here"]
    /\ arrived' = IF f = "PortIndex" THEN clock + 1 ELSE arrived
    /\ clock' = IF f = "PortIndex" THEN clock + 1 ELSE clock
    /\ UNCHANGED <<repo, line, tree, mtime, index>>

Lose(f) ==
    /\ download[f] = "running"
    /\ download' = [download EXCEPT ![f] = "failed"]
    /\ UNCHANGED <<repo, arrived, line, tree, mtime, index, clock>>

-----------------------------------------------------------------------------
(* The script. *)

\* A failed download is only reported; the command that needs the file then
\* fails and ends the script (set -e).
Install(f, then) ==
    /\ line = f
    /\ download[f] # "running"
    /\ line' = IF download[f] = "here" THEN then ELSE "failed"
    /\ UNCHANGED <<repo, download, arrived, tree, mtime, index, clock>>

\* git checkout writes the files that differ.
Checkout(from, t, then) ==
    /\ line = from
    /\ line' = then
    /\ tree' = t
    /\ mtime' = [p \in Ports |-> IF tree[p] = t[p] THEN mtime[p] ELSE clock + 1]
    /\ clock' = clock + 1
    /\ UNCHANGED <<repo, download, arrived, index>>

\* Mutant: the older commit is not checked out.
CheckoutOldSkipped == Checkout("old", head, "back")

CheckoutOld == Checkout("old", master[Tip - Window], "back")

CheckoutBack == Checkout("back", head, "mergebase")

CheckoutBase == Checkout("mergebase", master[mergeBase], "PortIndex")

CheckoutHead == Checkout("head", head, "indexhead")

UsePortIndex ==
    /\ line = "PortIndex"
    /\ download["PortIndex"] # "running"
    /\ line' = "indexbase"
    /\ index' = IF download["PortIndex"] = "here"
                THEN [at |-> arrived, entry |-> master[indexed]] ELSE index
    /\ UNCHANGED <<repo, download, arrived, tree, mtime, clock>>

Portindex(from, then) ==
    /\ line = from
    /\ line' = then
    /\ index' = [at |-> clock + 1,
                 entry |-> [p \in Ports |->
                    IF tree[p] # NoPort /\ index.entry[p] # NoPort /\ mtime[p] <= index.at
                    THEN index.entry[p] ELSE tree[p]]]
    /\ clock' = clock + 1
    /\ UNCHANGED <<repo, download, arrived, tree, mtime>>

Script ==
    \/ Install("getopt", "base") \/ Install("base", "old")
    \/ CheckoutOld \/ CheckoutBack \/ CheckoutBase
    \/ UsePortIndex
    \/ Portindex("indexbase", "head") \/ CheckoutHead
    \/ Portindex("indexhead", "ready")

BootstrapNext == Script \/ \E f \in Files : Arrive(f) \/ Lose(f)

BootstrapSpec == BootstrapInit /\ [][BootstrapNext]_bootstrapVars

-----------------------------------------------------------------------------
(* Properties. *)

\* Every variable keeps its type, and portindex does not run beside the
\* download of its input.
BootstrapTypeOK ==
    /\ master \in [1 .. Tip -> Tree] /\ head \in Tree /\ tree \in Tree
    /\ mergeBase \in 1 .. Tip /\ indexed \in 1 .. Tip
    /\ download \in [Files -> {"running", "here", "failed"}]
    /\ line \in Files \cup {"old", "back", "mergebase", "indexbase", "head",
                            "indexhead", "ready", "failed"}
    /\ clock \in Nat /\ arrived \in 0 .. clock /\ mtime \in [Ports -> 0 .. clock]
    /\ index \in [at : 0 .. clock, entry : Tree]
    /\ line \in {"indexbase", "head", "indexhead", "ready"} =>
          download["PortIndex"] # "running"

\* The causes for which the entry of p may be another port version's.

\* The index is not made from one of the last Window commits up to the merge
\* base: it lags behind, or the pull request is older than it.
TooOld == indexed < Tip - Window
TooNew == indexed > mergeBase

\* The index arrived after the checkout that was to touch p.
Late(p) == mtime[p] # 0 /\ mtime[p] <= arrived

\* A change of the last Window commits was taken back by the merge base, and
\* the index is made from a commit in between.
TakenBack(p) ==
    /\ ~TooOld /\ ~TooNew
    /\ master[Tip - Window][p] = master[mergeBase][p]
    /\ master[indexed][p] # master[mergeBase][p]

Right(p) == index.entry[p] = head[p]

\* When the script is through, the index that the ports are built with has
\* the entry of the pull request's tree for every port, unless the downloaded
\* index is too old, too new or too late, or a change was taken back.
IndexIsHead ==
    line = "ready" =>
        \A p \in Ports : Right(p) \/ TooOld \/ TooNew \/ Late(p) \/ TakenBack(p)
=============================================================================
