---------------------------- MODULE MirrorPipeline ----------------------------
(***************************************************************************)
(* The "Index & mirror changed ports" workflow, .github/workflows/         *)
(* mirror.yml.  A push to master queues a run of the job `build'.  The     *)
(* job's concurrency group lets one run execute and one wait; a newly      *)
(* queued run replaces the one that waits.  A run executes on a fresh      *)
(* virtual machine, so what outlives it is the status database             *)
(* (mirror.last_commit and the mirrored records), the distfiles server,    *)
(* the upload server that keeps one PortIndex tarball per commit, and the  *)
(* Actions cache.  Any step can fail; nothing retries it but a later run.  *)
(*                                                                         *)
(* Commits of master are numbered, and tree[c] is the ports tree at commit *)
(* c.  The commits up to Base are history that is older than the model.    *)
(***************************************************************************)
EXTENDS Integers, Sequences, FiniteSets

CONSTANTS
    Ports,           \* port directories
    Base,            \* number of commits in the initial history
    MaxCommit,       \* bound: number of commits
    DepthLimit,      \* the clone depth past which a run gives up (500)
    GiveUpDistance,  \* the "10" of HEAD~10
    OldestDarwin,    \* OLDEST_DARWIN and NEWEST_DARWIN (9 and 27)
    NewestDarwin,
    Native,          \* <<major, arch>> of the runner
    MaxFaults,       \* bound: failed steps and garbled answers
    MaxReruns        \* bound: runs re-run by hand

ASSUME BaseAssumption ==
    /\ Base \in Nat
    /\ GiveUpDistance \in Nat \ {0}
    /\ Base > GiveUpDistance
    /\ DepthLimit \in Nat \ {0}

VARIABLES
    tree,       \* the ports tree at every commit of master
    asked,      \* the newest commit whose push triggered the workflow
    pending,    \* the run waiting in the concurrency group, or NoRun
    pc,         \* the step the running job is at
    run,        \* what the running job keeps: step outputs and local files
    failed,     \* commits whose run failed
    reruns,     \* number of re-runs so far
    faults,     \* number of faults so far
    dbLast,     \* mirror.last_commit, 0 when unset
    dbDone,     \* mirrored records of the database
    distfiles,  \* ports whose distfiles are on the distfiles server
    server,     \* PortIndex tarballs on the upload server, by commit
    cache,      \* PortIndex tarballs in the Actions cache, by commit
    sqlAt,      \* commit PortIndex.sql was last deployed from, 0 if never
    reported,   \* history: ports whose mirroring failed in a run
    moved,      \* history: ports a diff showed as renamed
    lost,       \* history: ports left out of a list because its pipe broke
    lossy       \* history: a run that guessed its range was committed

vars == <<tree, asked, pending, pc, run, failed, reruns, faults, dbLast,
          dbDone, distfiles, server, cache, sqlAt, reported, moved, lost, lossy>>

history == <<reported, moved, lost, lossy>>
storage == <<dbLast, dbDone, distfiles, server, cache, sqlAt>>

-----------------------------------------------------------------------------
(* The repository. *)

Tip == Len(tree)

\* Content of a port directory: the file it descends from through renames, and
\* the commit that last changed it.
Absent == [lineage |-> <<>>, at |-> 0]
Content == {Absent} \cup [lineage : Ports \X Nat, at : Nat]

Tree == [Ports -> Content]
Present(t) == {p \in Ports : t[p] # Absent}

\* The trees commit number c can produce from t: edit, add, delete or rename
\* one port, or touch none.
NextTrees(t, c) ==
    {t}
    \cup {[t EXCEPT ![p].at = c] : p \in Present(t)}
    \cup {[t EXCEPT ![p] = [lineage |-> <<p, c>>, at |-> c]] : p \in Ports \ Present(t)}
    \cup {[t EXCEPT ![p] = Absent] : p \in Present(t)}
    \cup {[t EXCEPT ![p] = Absent, ![q] = [lineage |-> t[p].lineage, at |-> c]] :
            p \in Present(t), q \in Ports \ Present(t)}

-----------------------------------------------------------------------------
(* git diff --name-only --diff-filter=AM LAST..HEAD, with git's default     *)
(* rename detection: an added file that continues a deleted one has status *)
(* R and is not printed.                                                   *)

Added(t, u) == Present(u) \ Present(t)
Modified(t, u) == {p \in Present(t) \cap Present(u) : t[p] # u[p]}
Renamed(t, u) ==
    {q \in Added(t, u) :
        \E p \in Present(t) \ Present(u) : t[p].lineage = u[q].lineage}

\* Mutant: new ports are left out of the list (--diff-filter=M).
PortlistModifiedOnly(t, u) == Modified(t, u)

Portlist(t, u) == (Added(t, u) \ Renamed(t, u)) \cup Modified(t, u)

\* Named ports together with their content in t.
At(ports, t) == {<<p, t[p]>> : p \in ports}

-----------------------------------------------------------------------------
(* PortIndex tarballs. *)

ArchsOf(major) ==
    IF major >= 27 THEN {"arm"}
    ELSE IF major >= 20 THEN {"arm", "i386"}
    ELSE IF major <= 9 THEN {"i386", "powerpc"}
    ELSE {"i386"}

Platforms ==
    UNION {{<<major, arch>> : arch \in ArchsOf(major)} :
             major \in (OldestDarwin .. NewestDarwin) \ {26}}

\* A tarball: the commit in ports/.git_commit, and per platform what each
\* port's entry of the index was generated from.
NoIndex == <<>>
Indexes == Platforms \cup {Native}
Tarball == [commit : Nat, index : [Indexes -> Tree \cup {NoIndex}]]
NoTarball == [commit |-> 0, index |-> [pl \in Indexes |-> NoIndex]]

\* portindex run over tree u, whose timestamps are those of the tree t that
\* the old index was made from, except where git rewrote a file.
Reindex(old, t, u) ==
    IF old = NoIndex THEN u
    ELSE [p \in Ports |-> IF t[p] = u[p] THEN old[p] ELSE u[p]]

-----------------------------------------------------------------------------
NoRun == [sha |-> 0, rerun |-> FALSE]
Queued == [sha : Nat, rerun : BOOLEAN]

NewRun(q) ==
    [sha |-> q.sha, rerun |-> q.rerun, last |-> 0, hashed |-> FALSE,
     guessed |-> FALSE, ports |-> {}, found |-> NoTarball,
     tarball |-> NoTarball, got |-> {}]

Steps == <<"range", "restore", "prepare", "mirror", "upload", "status",
           "index", "deploy", "save", "commit", "sql">>
Running == {Steps[i] : i \in 1 .. Len(Steps)}

Init ==
    /\ \E some \in SUBSET Ports :
          tree = [c \in 1 .. Base |->
                    [p \in Ports |-> IF p \in some
                                     THEN [lineage |-> <<p, 1>>, at |-> 1]
                                     ELSE Absent]]
    /\ dbLast \in {0, Base}
    /\ dbDone = At(Present(tree[Base]), tree[Base])
    /\ distfiles = dbDone
    /\ server = [c \in {dbLast} \ {0} |->
                   [commit |-> c, index |-> [pl \in Indexes |-> tree[c]]]]
    /\ cache = server
    /\ sqlAt = dbLast
    /\ asked = Base
    /\ pending = NoRun
    /\ pc = "idle"
    /\ run = NewRun(NoRun)
    /\ failed = {} /\ reruns = 0 /\ faults = 0
    /\ reported = {} /\ moved = {} /\ lost = {}
    /\ lossy = (dbLast = 0)

-----------------------------------------------------------------------------
(* The repository and the scheduler. *)

\* Mutant: a queued run keeps its place and the newer one is dropped.
CommitKeepsPending(triggers) ==
    /\ Tip < MaxCommit
    /\ \E t \in NextTrees(tree[Tip], Tip + 1) : tree' = Append(tree, t)
    /\ IF triggers
         THEN /\ asked' = Tip + 1
              /\ pending' = IF pending = NoRun
                            THEN [sha |-> Tip + 1, rerun |-> FALSE] ELSE pending
         ELSE UNCHANGED <<asked, pending>>
    /\ UNCHANGED <<pc, run, failed, reruns, faults, storage, history>>

\* A commit lands on master.  It does not trigger the workflow when a later
\* commit of the same push does, or when the push only touches .github.
Commit(triggers) ==
    /\ Tip < MaxCommit
    /\ \E t \in NextTrees(tree[Tip], Tip + 1) : tree' = Append(tree, t)
    /\ IF triggers
         THEN /\ asked' = Tip + 1
              /\ pending' = [sha |-> Tip + 1, rerun |-> FALSE]
         ELSE UNCHANGED <<asked, pending>>
    /\ UNCHANGED <<pc, run, failed, reruns, faults, storage, history>>

\* A maintainer re-runs a failed run, which joins the group as a new run does.
Rerun ==
    /\ reruns < MaxReruns
    /\ \E c \in failed : pending' = [sha |-> c, rerun |-> TRUE]
    /\ reruns' = reruns + 1
    /\ UNCHANGED <<tree, asked, pc, run, failed, faults, storage, history>>

Start ==
    /\ pc = "idle"
    /\ pending # NoRun
    /\ run' = NewRun(pending)
    /\ pending' = NoRun
    /\ pc' = "range"
    /\ UNCHANGED <<tree, asked, failed, reruns, faults, storage, history>>

-----------------------------------------------------------------------------
(* The steps of the job. *)

\* The deepest history the clone is extended to: the depth doubles from 2
\* until it is past the limit.
DeepestFetch ==
    CHOOSE d \in (DepthLimit + 1) .. (2 * DepthLimit) :
        \E k \in 1 .. d : d = 2 ^ k

\* git merge-base --is-ancestor c HEAD succeeds at some depth.  The checkout
\* holds HEAD and its parent; the fetches count from the tip of the branch.
Reachable(c, sha) ==
    /\ c <= sha
    /\ c >= sha - 1 \/ Tip - c < DeepestFetch

\* An answer of 0 is an empty one; a garbled one is no commit at all.  The list
\* comes out of a pipe, which fails only when its last command does: with a
\* broken one before, the step goes on with what got through.
RangeFrom(answer, garbled, broken) ==
    LET sha == run.sha
        known == answer # 0 /\ ~garbled
        found == known /\ Reachable(answer, sha)
        last == IF found THEN answer
                ELSE IF answer = 0 THEN sha - 1
                ELSE sha - GiveUpDistance
        all == Portlist(tree[last], tree[sha])
    IN  \E listed \in IF broken THEN (SUBSET all) \ {all} ELSE {all} :
          /\ run' = [run EXCEPT !.last = last,
                                !.hashed = found \/ answer = 0,
                                !.guessed = ~found,
                                !.ports = listed]
          /\ moved' = moved \cup At(Renamed(tree[last], tree[sha]), tree[sha])
          /\ lost' = lost \cup At(all \ listed, tree[sha])

DetermineRange ==
    /\ pc = "range"
    /\ \E garbled, broken \in BOOLEAN :
          /\ garbled => dbLast # 0
          /\ faults' = faults + (IF garbled THEN 1 ELSE 0) + (IF broken THEN 1 ELSE 0)
          /\ faults' = faults \/ faults' <= MaxFaults
          /\ RangeFrom(dbLast, garbled, broken)
    /\ pc' = "restore"
    /\ UNCHANGED <<tree, asked, pending, failed, reruns, storage, reported, lossy>>

\* A cache lookup misses, hits its key, or falls back on another entry.
RestoreCache ==
    /\ pc = "restore"
    /\ \E hit \in {NoTarball} \cup {cache[c] : c \in DOMAIN cache} :
          run' = [run EXCEPT !.found = hit]
    /\ pc' = "prepare"
    /\ UNCHANGED <<tree, asked, pending, failed, reruns, faults, storage, history>>

\* Mutant: a restored cache entry is used without looking at .git_commit.
StartingPointsUnchecked ==
    IF run.hashed /\ run.found # NoTarball
      THEN {run.found}
      ELSE {NoTarball}
             \cup {server[c] : c \in {d \in DOMAIN server : run.hashed /\ d = run.last}}

\* The tree and index the run starts from: the cached tarball if it is the
\* one of LAST_COMMIT, else the uploaded one, else nothing.
StartingPoints ==
    IF run.hashed /\ run.found.commit = run.last
      THEN {run.found}
      ELSE {NoTarball}
             \cup {server[c] : c \in {d \in DOMAIN server : run.hashed /\ d = run.last}}

IndexOf(pl, tarball) ==
    Reindex(tarball.index[pl], tree[run.last], tree[run.sha])

\* Prepare ports tree: .git_commit is set, and the runner's index made.
PreparePorts ==
    /\ pc = "prepare"
    /\ \E start \in StartingPoints :
          run' = [run EXCEPT
                    !.found = NoTarball,
                    !.tarball = [commit |-> run.sha,
                                 index |-> [start.index EXCEPT
                                              ![Native] = IndexOf(Native, start)]]]
    /\ pc' = "mirror"
    /\ UNCHANGED <<tree, asked, pending, failed, reruns, faults, storage, history>>

\* mirror-multi.tcl fetches what the database does not record as mirrored;
\* ports that fail are reported and the step goes on.
MirrorPorts ==
    /\ pc = "mirror"
    /\ LET todo == At(run.ports, tree[run.sha]) \ dbDone
       IN  \E ok \in SUBSET todo :
              /\ run' = [run EXCEPT !.got = ok]
              /\ reported' = reported \cup (todo \ ok)
    /\ pc' = "upload"
    /\ UNCHANGED <<tree, asked, pending, failed, reruns, faults, storage, moved, lost, lossy>>

\* Mutant: a failing rsync is tolerated, as mirror-multi is.
UploadDistfilesTolerant ==
    /\ pc = "upload"
    /\ \E some \in SUBSET run.got : distfiles' = distfiles \cup some
    /\ pc' = "status"
    /\ UNCHANGED <<tree, asked, pending, run, failed, reruns, faults, dbLast,
                   dbDone, server, cache, sqlAt, history>>

UploadDistfiles ==
    /\ pc = "upload"
    /\ distfiles' = distfiles \cup run.got
    /\ pc' = "status"
    /\ UNCHANGED <<tree, asked, pending, run, failed, reruns, faults, dbLast,
                   dbDone, server, cache, sqlAt, history>>

UpdateMirrorDB ==
    /\ pc = "status"
    /\ dbDone' = dbDone \cup run.got
    /\ pc' = "index"
    /\ UNCHANGED <<tree, asked, pending, run, failed, reruns, faults, dbLast,
                   distfiles, server, cache, sqlAt, history>>

\* The index of every platform but the runner's is brought up to date.
UpdatePortIndex ==
    /\ pc = "index"
    /\ run' = [run EXCEPT !.tarball.index =
                  [pl \in Indexes |-> IF pl \in Platforms \ {Native}
                                      THEN IndexOf(pl, run.tarball)
                                      ELSE run.tarball.index[pl]]]
    /\ pc' = "deploy"
    /\ UNCHANGED <<tree, asked, pending, failed, reruns, faults, storage, history>>

Store(at, tarball) ==
    [c \in DOMAIN at \cup {tarball.commit} |->
        IF c = tarball.commit THEN tarball ELSE at[c]]

DeployPortIndex ==
    /\ pc = "deploy"
    /\ server' = Store(server, run.tarball)
    /\ pc' = "save"
    /\ UNCHANGED <<tree, asked, pending, run, failed, reruns, faults, dbLast,
                   dbDone, distfiles, cache, sqlAt, history>>

\* A cache key is written once; saving it again only warns.
SavePortIndex ==
    /\ pc = "save"
    /\ cache' = IF run.sha \in DOMAIN cache THEN cache
                ELSE Store(cache, run.tarball)
    /\ pc' = "commit"
    /\ UNCHANGED <<tree, asked, pending, run, failed, reruns, faults, dbLast,
                   dbDone, distfiles, server, sqlAt, history>>

\* Mutant: LAST_COMMIT is written back in place of CURRENT_COMMIT.
UpdateStatusToLast ==
    /\ pc = "commit"
    /\ dbLast' = run.last
    /\ lossy' = (lossy \/ run.guessed)
    /\ pc' = "sql"
    /\ UNCHANGED <<tree, asked, pending, run, failed, reruns, faults, dbDone,
                   distfiles, server, cache, sqlAt, reported, moved, lost>>

\* Mutant: the status is updated before the tarball is deployed.
UpdateStatusEarly ==
    /\ pc = "deploy"
    /\ dbLast' = run.sha
    /\ lossy' = (lossy \/ run.guessed)
    /\ pc' = "sql"
    /\ UNCHANGED <<tree, asked, pending, run, failed, reruns, faults, dbDone,
                   distfiles, server, cache, sqlAt, reported, moved, lost>>

UpdateStatus ==
    /\ pc = "commit"
    /\ dbLast' = run.sha
    /\ lossy' = (lossy \/ run.guessed)
    /\ pc' = "sql"
    /\ UNCHANGED <<tree, asked, pending, run, failed, reruns, faults, dbDone,
                   distfiles, server, cache, sqlAt, reported, moved, lost>>

UpdateSQL ==
    /\ pc = "sql"
    /\ sqlAt' = run.sha
    /\ pc' = "idle"
    /\ run' = NewRun(NoRun)
    /\ UNCHANGED <<tree, asked, pending, failed, reruns, faults, dbLast, dbDone,
                   distfiles, server, cache, history>>

\* A step fails, or the machine is lost; with it goes all the run kept.  A
\* step that writes to a server may have had some or all of its effect.
Fail ==
    /\ pc # "idle"
    /\ faults < MaxFaults
    /\ faults' = faults + 1
    /\ \/ UNCHANGED <<storage, lossy>>
       \/ /\ pc = "upload"
          /\ \E some \in SUBSET run.got : distfiles' = distfiles \cup some
          /\ UNCHANGED <<dbLast, dbDone, server, cache, sqlAt, lossy>>
       \/ /\ pc = "status"
          /\ \E some \in SUBSET run.got : dbDone' = dbDone \cup some
          /\ UNCHANGED <<dbLast, distfiles, server, cache, sqlAt, lossy>>
       \/ /\ pc = "deploy"
          /\ server' = Store(server, run.tarball)
          /\ UNCHANGED <<dbLast, dbDone, distfiles, cache, sqlAt, lossy>>
       \/ /\ pc = "commit"
          /\ dbLast' = run.sha
          /\ lossy' = (lossy \/ run.guessed)
          /\ UNCHANGED <<dbDone, distfiles, server, cache, sqlAt>>
    /\ failed' = failed \cup {run.sha}
    /\ pc' = "idle"
    /\ run' = NewRun(NoRun)
    /\ UNCHANGED <<tree, asked, pending, reruns, reported, moved, lost>>

-----------------------------------------------------------------------------
Job ==
    \/ DetermineRange \/ RestoreCache \/ PreparePorts \/ MirrorPorts
    \/ UploadDistfiles \/ UpdateMirrorDB \/ UpdatePortIndex
    \/ DeployPortIndex \/ SavePortIndex \/ UpdateStatus \/ UpdateSQL

Next ==
    \/ \E triggers \in BOOLEAN : Commit(triggers)
    \/ Rerun \/ Start \/ Job \/ Fail

Spec == Init /\ [][Next]_vars

\* A queued run is started and a step that is started ends.
FairSpec == Spec /\ WF_vars(Start) /\ WF_vars(Job)

-----------------------------------------------------------------------------
(* Properties. *)

RunRecord ==
    [sha : Nat, rerun : BOOLEAN, last : Nat, hashed : BOOLEAN,
     guessed : BOOLEAN, ports : SUBSET Ports, found : Tarball,
     tarball : Tarball, got : SUBSET (Ports \X Content)]

\* Every variable keeps its type: commits of the run, the queue and the
\* servers are commits of master, and a running job has one.
TypeOK ==
    /\ tree \in Seq(Tree) /\ Tip >= Base
    /\ asked \in Base .. Tip
    /\ pending \in Queued /\ (pending = NoRun \/ pending.sha \in Base .. Tip)
    /\ pc \in {"idle"} \cup Running
    /\ run \in RunRecord
    /\ pc # "idle" => run.sha \in Base .. Tip
    /\ pc \notin {"idle", "range"} => run.last \in 1 .. run.sha
    /\ failed \subseteq Base .. Tip
    /\ reruns \in Nat /\ faults \in Nat
    /\ dbLast \in {0} \cup Base .. Tip
    /\ dbDone \subseteq Ports \X Content
    /\ distfiles \subseteq Ports \X Content
    /\ DOMAIN server \subseteq Base .. Tip /\ server \in [DOMAIN server -> Tarball]
    /\ DOMAIN cache \subseteq Base .. Tip /\ cache \in [DOMAIN cache -> Tarball]
    /\ sqlAt \in {0} \cup Base .. Tip
    /\ reported \subseteq Ports \X Content
    /\ moved \subseteq Ports \X Content /\ lost \subseteq Ports \X Content
    /\ lossy \in BOOLEAN

\* Ports of commit c are accounted for: mirrored, reported as failed, or
\* hidden from the diff by a rename.
Covered(c) == At(Present(tree[c]), tree[c]) \subseteq distfiles \cup reported \cup moved

\* A port of commit c was left out of a list.
Missed(c) == At(Present(tree[c]), tree[c]) \cap lost # {}

\* Every port of commit c is accounted for or was left out of a list.
Known(c) == At(Present(tree[c]), tree[c]) \subseteq distfiles \cup reported \cup moved \cup lost

\* mirror.last_commit only ever names a commit all of whose ports are
\* accounted for, but for those that a broken pipe left out of their list,
\* whatever steps failed, pushes were superseded or runs were re-run before,
\* unless some run had to guess the start of its range (the two fallbacks of
\* the step "Determine list of changed ports").
NoPortForgotten == dbLast # 0 /\ ~lossy => Known(dbLast)

\* The database records a port as mirrored only when its distfiles are on
\* the server, however the two uploads fail: mirror-multi would never fetch
\* it again.
DoneIsUploaded == dbDone \subseteq distfiles

\* The commit in mirror.last_commit has a tarball on the upload server, from
\* which the next run can restore the index and its timestamps.
LastHasTarball == dbLast # 0 => dbLast \in DOMAIN server

\* Every index of a tarball is the one of the tree it is named after.
Matches(tarball) == \A pl \in Indexes : tarball.index[pl] = tree[tarball.commit]

\* A tarball that is published or cached indexes, for every platform, exactly
\* the tree of the commit it is named after: the incremental portindex never
\* carries an entry over from a tree in which the port was different.
IndexMatchesTree ==
    \A store \in {server, cache} : \A c \in DOMAIN store :
        store[c].commit = c /\ Matches(store[c])

\* The next run restores the index of the commit the last one handled, and not
\* of another: its tarball is there, and says what it is of.
IndexRestorable == LastHasTarball /\ IndexMatchesTree

\* With the group idle, the newest push that triggered the workflow has been
\* published (by its own run: a superseded one leaves its ports to the run
\* that superseded it), or its run failed, or runs were re-run by hand.
CaughtUp ==
    pc = "idle" /\ pending = NoRun
      => dbLast >= asked \/ asked \in failed \/ reruns > 0 \/ asked = Base

\* The inductive invariant behind NoPortForgotten: what a run knows at each
\* step about its range, its port list and what it has already stored.
RunInv ==
    /\ pc \notin {"idle", "range"} =>
          /\ ~lossy /\ ~run.guessed => Known(run.last)
          /\ At(Portlist(tree[run.last], tree[run.sha]) \ run.ports, tree[run.sha]) \subseteq lost
          /\ At(Renamed(tree[run.last], tree[run.sha]), tree[run.sha]) \subseteq moved
    /\ pc = "upload" =>
          At(run.ports, tree[run.sha]) \subseteq dbDone \cup run.got \cup reported
    /\ pc = "status" => run.got \subseteq distfiles
    /\ pc \in {"status", "index", "deploy", "save", "commit", "sql"} =>
          At(run.ports, tree[run.sha]) \subseteq distfiles \cup reported
    /\ pc \in {"save", "commit"} => run.sha \in DOMAIN server

\* The same for IndexMatchesTree: what the run's own tarball holds.
RunIndexInv ==
    /\ pc = "prepare" =>
          \/ run.found = NoTarball
          \/ run.found.commit \in 1 .. Tip /\ Matches(run.found)
    /\ pc \in {"mirror", "upload", "status", "index"} =>
          /\ run.tarball.commit = run.sha
          /\ \A pl \in Indexes :
                run.tarball.index[pl] \in IF pl = Native THEN {tree[run.sha]}
                                         ELSE {NoIndex, tree[run.last]}
    /\ pc \in {"deploy", "save", "commit", "sql"} =>
          run.tarball.commit = run.sha /\ Matches(run.tarball)

IInv ==
    /\ TypeOK
    /\ NoPortForgotten
    /\ DoneIsUploaded
    /\ LastHasTarball
    /\ IndexMatchesTree
    /\ RunInv
    /\ RunIndexInv

\* The workflow implements the promise of MirrorLedger: last_commit advances
\* to a commit only after its tarball was published and its ports were
\* accounted for or missing from a list, and none of it is ever taken back.
Ledger == INSTANCE MirrorLedger WITH
    last <- dbLast,
    published <- DOMAIN server,
    covered <- {c \in 1 .. Tip : Covered(c)},
    missed <- {c \in 1 .. Tip : Missed(c)}
LedgerSpec == Ledger!Spec

\* mirror.last_commit moves back only when a re-run of an older commit ends.
RegressOnlyByRerun == [][dbLast' < dbLast => run.rerun]_vars

\* PortIndex.sql is deployed from the commit mirror.last_commit names at that
\* moment.
SQLFollowsLast == [][sqlAt' # sqlAt => sqlAt' = dbLast]_vars

\* What is recorded of the last commit moves in the order of the pushes, and
\* PortIndex.sql with it.
StatusInOrder == RegressOnlyByRerun /\ SQLFollowsLast

\* Every push that triggers the workflow is published, by its run or by a
\* later one, unless such a run fails or re-runs displace it from the queue.
PushHandled ==
    \A c \in (Base + 1) .. MaxCommit :
        asked = c ~> (dbLast >= c \/ (\E f \in failed : f >= c) \/ reruns > 0)
=============================================================================
