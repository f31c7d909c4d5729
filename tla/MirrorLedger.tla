----------------------------- MODULE MirrorLedger -----------------------------
(***************************************************************************)
(* What the mirroring workflow promises to those who read the status       *)
(* database, without saying how runs, steps and failures come to it:       *)
(* mirror.last_commit names a commit only once the PortIndex tarball of    *)
(* that commit is published and every port of it is accounted for.  Both   *)
(* stay true of a commit for ever.  A commit with a port that was left out *)
(* of the list of changed ports is missed, and the second half of the      *)
(* promise does not hold of it; once a run had to guess where its range    *)
(* starts it is off altogether.                                            *)
(***************************************************************************)
EXTENDS Naturals

VARIABLES
    last,       \* the commit in mirror.last_commit, 0 if none
    published,  \* commits with a PortIndex tarball
    covered,    \* commits whose ports are all accounted for
    missed,     \* commits with a port no list had
    lossy       \* a guessed range was committed

Init ==
    /\ published \in SUBSET Nat
    /\ covered \in SUBSET Nat /\ missed = {}
    /\ last = 0 \/ last \in published \cap covered
    /\ lossy \in BOOLEAN

Publish ==
    /\ published \subseteq published'
    /\ published' \subseteq Nat
    /\ UNCHANGED <<last, covered, missed, lossy>>

\* Mirroring, or a failure report, accounts for the ports of more commits; a
\* list that is not whole misses some.
Cover ==
    /\ covered \subseteq covered' /\ missed \subseteq missed'
    /\ covered' \cup missed' \subseteq Nat
    /\ UNCHANGED <<last, published, lossy>>

Advance ==
    /\ \E c \in published : last' = c /\ (c \in covered \cup missed \/ lossy')
    /\ lossy' \in {TRUE, lossy}
    /\ UNCHANGED <<published, covered, missed>>

Next == Publish \/ Cover \/ Advance

Spec == Init /\ [][Next]_<<last, published, covered, missed, lossy>>
=============================================================================
