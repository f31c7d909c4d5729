------------------------- MODULE MirrorPipelineProofs -------------------------
(***************************************************************************)
(* Proofs about MirrorPipeline for every set of ports, every history and   *)
(* every bound.  The invariant IInv is inductive: its parts say what a run *)
(* knows at each step about its range, its port list and what it stored.   *)
(***************************************************************************)
EXTENDS MirrorPipeline, TLAPS

-----------------------------------------------------------------------------
(* Lemmas about the data. *)

\* A commit makes a tree from a tree.
LEMMA NextTreesType ==
    ASSUME NEW t \in Tree, NEW c \in Nat, NEW u \in NextTrees(t, c)
    PROVE  u \in Tree
BY DEF NextTrees, Tree, Content, Absent, Present

\* The portindex step makes an index of a tree from an old one or from none.
LEMMA ReindexType ==
    ASSUME NEW t \in Tree, NEW u \in Tree, NEW old \in Tree \cup {NoIndex}
    PROVE  Reindex(old, t, u) \in Tree
BY DEF Reindex, Tree

\* Nothing is a tarball whose indexes are all missing.
LEMMA NoTarballType == NoTarball \in Tarball
BY DEF NoTarball, Tarball

\* An idle job keeps nothing.
LEMMA NewRunType == \A q \in Queued : NewRun(q) \in RunRecord
BY NoTarballType DEF NewRun, RunRecord, Queued

\* A port of u is a port of t with the same content, or is on the port list,
\* or was left out of it or renamed: so whoever accounts for the four accounts
\* for u.
LEMMA RangeCovers ==
    ASSUME NEW t \in Tree, NEW u \in Tree, NEW D, NEW listed,
           At(Present(t), t) \subseteq D,
           At(listed, u) \subseteq D,
           At(Portlist(t, u) \ listed, u) \subseteq D,
           At(Renamed(t, u), u) \subseteq D
    PROVE  At(Present(u), u) \subseteq D
<1> SUFFICES ASSUME NEW p \in Present(u) PROVE <<p, u[p]>> \in D
  BY DEF At
<1>0. p \in Portlist(t, u) => <<p, u[p]>> \in D
  BY DEF At
<1>1. CASE p \in Present(t) /\ t[p] = u[p]
  BY <1>1 DEF At
<1>2. CASE p \in Present(t) /\ t[p] # u[p]
  BY <1>0, <1>2 DEF Portlist, Modified
<1>3. CASE p \notin Present(t)
  BY <1>0, <1>3 DEF At, Portlist, Added
<1> QED BY <1>1, <1>2, <1>3

-----------------------------------------------------------------------------
(* The invariant holds initially. *)

LEMMA InitIInv == Init => IInv
<1> SUFFICES ASSUME Init PROVE IInv
  OBVIOUS
<1> USE BaseAssumption
<1>1. PICK some \in SUBSET Ports :
         tree = [c \in 1 .. Base |->
                   [p \in Ports |-> IF p \in some
                                    THEN [lineage |-> <<p, 1>>, at |-> 1]
                                    ELSE Absent]]
  BY DEF Init
<1>2. /\ dbLast \in {0, Base}
      /\ dbDone = At(Present(tree[Base]), tree[Base])
      /\ distfiles = dbDone
      /\ cache = server
      /\ sqlAt = dbLast /\ asked = Base /\ failed = {}
      /\ reruns = 0 /\ faults = 0 /\ reported = {} /\ moved = {} /\ lost = {}
      /\ pc = "idle" /\ pending = NoRun /\ run = NewRun(NoRun)
  BY DEF Init
<1>3. server = [c \in {dbLast} \ {0} |->
                  [commit |-> c, index |-> [pl \in Indexes |-> tree[c]]]]
  BY DEF Init
<1>4. lossy \in BOOLEAN
  BY DEF Init
<1>5. \A c \in 1 .. Base : tree[c] \in Tree
  <2> SUFFICES ASSUME NEW c \in 1 .. Base PROVE tree[c] \in Tree
    OBVIOUS
  <2>1. tree[c] = [p \in Ports |-> IF p \in some
                                   THEN [lineage |-> <<p, 1>>, at |-> 1]
                                   ELSE Absent]
    BY <1>1
  <2>2. \A p \in Ports : [lineage |-> <<p, 1>>, at |-> 1] \in Content
    BY DEF Content
  <2> QED BY <2>1, <2>2 DEF Tree, Content
<1>6. tree \in Seq(Tree) /\ Tip = Base
  <2>1. tree = [c \in 1 .. Base |-> tree[c]]
    BY <1>1
  <2> QED BY <1>5, <2>1 DEF Tip
<1>7. tree[Base] \in Tree
  BY <1>5
<1>8. dbDone \subseteq Ports \X Content
  BY <1>2, <1>7 DEF At, Present, Tree
<1>9. [commit |-> Base, index |-> [pl \in Indexes |-> tree[Base]]] \in Tarball
  BY <1>7 DEF Tarball
<1>10. /\ DOMAIN server \subseteq Base .. Tip /\ server \in [DOMAIN server -> Tarball]
       /\ dbLast # 0 => dbLast \in DOMAIN server
  BY <1>2, <1>3, <1>6, <1>9
<1>11. TypeOK
  <2>1. pending \in Queued /\ run \in RunRecord
    BY <1>2, NewRunType DEF NoRun, Queued
  <2>2. /\ asked \in Base .. Tip /\ failed \subseteq Base .. Tip
        /\ dbLast \in {0} \cup Base .. Tip /\ sqlAt \in {0} \cup Base .. Tip
        /\ Tip >= Base /\ reruns \in Nat /\ faults \in Nat
    BY <1>2, <1>6
  <2>3. /\ distfiles \subseteq Ports \X Content
        /\ reported \subseteq Ports \X Content /\ moved \subseteq Ports \X Content
        /\ lost \subseteq Ports \X Content
        /\ DOMAIN cache \subseteq Base .. Tip /\ cache \in [DOMAIN cache -> Tarball]
    BY <1>2, <1>8, <1>10
  <2> QED
    BY <1>2, <1>4, <1>6, <1>8, <1>10, <2>1, <2>2, <2>3 DEF TypeOK
<1>12. NoPortForgotten
  BY <1>2 DEF NoPortForgotten, Known
<1>13. DoneIsUploaded /\ LastHasTarball /\ RunInv
  BY <1>2, <1>10 DEF DoneIsUploaded, LastHasTarball, RunInv
<1>14. IndexMatchesTree /\ RunIndexInv
  BY <1>2, <1>3 DEF IndexMatchesTree, Matches, RunIndexInv
<1> QED BY <1>11, <1>12, <1>13, <1>14 DEF IInv

-----------------------------------------------------------------------------
(* Every action preserves the invariant. *)

\* Appending a commit leaves the earlier trees as they are.
LEMMA AppendTree ==
    ASSUME TypeOK, NEW t \in Tree, tree' = Append(tree, t)
    PROVE  /\ tree' \in Seq(Tree) /\ Tip' = Tip + 1 /\ Tip \in Nat
           /\ \A c \in 1 .. Tip : tree'[c] = tree[c] /\ tree[c] \in Tree
BY DEF TypeOK, Tip

LEMMA CommitStep ==
    ASSUME IInv, NEW triggers \in BOOLEAN, Commit(triggers)
    PROVE  IInv'
<1> USE BaseAssumption DEF history, storage
<1>1. PICK t \in NextTrees(tree[Tip], Tip + 1) : tree' = Append(tree, t)
  BY DEF Commit
<1>2. Tip \in Nat /\ Tip >= Base /\ tree[Tip] \in Tree
  BY DEF IInv, TypeOK, Tip
<1>3. t \in Tree
  BY <1>2, NextTreesType
<1>4. /\ tree' \in Seq(Tree) /\ Tip' = Tip + 1
      /\ \A c \in 1 .. Tip : tree'[c] = tree[c]
  BY <1>1, <1>3, AppendTree DEF IInv
<1>5. \A c \in Base .. Tip : c \in Base .. Tip' /\ c \in 1 .. Tip
  BY <1>2, <1>4
<1>6. TypeOK'
  <2>1. asked' \in Base .. Tip' /\ pending' \in Queued
        /\ (pending' = NoRun \/ pending'.sha \in Base .. Tip')
    <3>1. CASE triggers
      <4>1. asked' = Tip + 1 /\ pending' = [sha |-> Tip + 1, rerun |-> FALSE]
        BY <3>1 DEF Commit
      <4> QED BY <4>1, <1>2, <1>4 DEF Queued
    <3>2. CASE ~triggers
      <4>1. UNCHANGED <<asked, pending>>
        BY <3>2 DEF Commit
      <4> QED BY <4>1, <1>4, <1>5 DEF IInv, TypeOK
    <3> QED BY <3>1, <3>2
  <2>2. UNCHANGED <<pc, run, failed, reruns, faults, dbLast, dbDone, distfiles,
                    server, cache, sqlAt, reported, moved, lost, lossy>>
    BY DEF Commit
  <2>3. Tip' >= Base
    BY <1>2, <1>4
  <2> QED
    BY <1>4, <1>5, <2>1, <2>2, <2>3 DEF IInv, TypeOK
<1>7. \A c \in 1 .. Tip : Known(c)' <=> Known(c)
  BY <1>4 DEF Known, Commit
<1>8. NoPortForgotten'
  BY <1>2, <1>5, <1>7 DEF Commit, IInv, TypeOK, NoPortForgotten
<1>9. RunInv'
  <2>1. pc \notin {"idle", "range"} => run.last \in 1 .. Tip /\ run.sha \in 1 .. Tip
    BY <1>2, <1>5 DEF IInv, TypeOK
  <2>2. pc # "idle" => run.sha \in 1 .. Tip
    BY <1>5 DEF IInv, TypeOK
  <2> QED
    BY <1>4, <1>7, <2>1, <2>2 DEF Commit, IInv, RunInv
<1>10. DoneIsUploaded' /\ LastHasTarball'
  BY DEF Commit, IInv, DoneIsUploaded, LastHasTarball
<1>11. \A tb : tb.commit \in 1 .. Tip => (Matches(tb) => Matches(tb)')
  BY <1>4 DEF Matches
<1>12. IndexMatchesTree'
  BY <1>5, <1>11 DEF Commit, IInv, TypeOK, IndexMatchesTree
<1>13. RunIndexInv'
  <2>1. UNCHANGED <<pc, run>>
    BY DEF Commit
  <2>2. pc # "idle" => run.sha \in 1 .. Tip
    BY <1>5 DEF IInv, TypeOK
  <2>3. pc \notin {"idle", "range"} => run.last \in 1 .. Tip
    BY <1>2, <2>2 DEF IInv, TypeOK
  <2>4. \A c \in 1 .. Tip : c \in 1 .. Tip'
    BY <1>2, <1>4
  <2>5. CASE pc \in {"mirror", "upload", "status", "index"}
    BY <1>4, <2>1, <2>2, <2>3, <2>5 DEF IInv, RunIndexInv
  <2>6. CASE pc \in {"prepare", "deploy", "save", "commit", "sql"}
    BY <1>11, <2>1, <2>2, <2>4, <2>6 DEF IInv, RunIndexInv
  <2> QED BY <2>1, <2>5, <2>6 DEF RunIndexInv
<1> QED BY <1>6, <1>8, <1>9, <1>10, <1>12, <1>13 DEF IInv

\* A queued run is a run of a commit of master.
LEMMA RerunStep == ASSUME IInv, Rerun PROVE IInv'
<1> USE DEF history, storage
<1>1. UNCHANGED <<tree, asked, pc, run, failed, faults, dbLast, dbDone, distfiles,
                  server, cache, sqlAt, reported, moved, lost, lossy>>
  BY DEF Rerun
<1>2. /\ pending' \in Queued /\ pending'.sha \in Base .. Tip
      /\ reruns' \in Nat
  BY BaseAssumption DEF Rerun, IInv, TypeOK, Queued, Tip
<1>3. TypeOK'
  BY <1>1, <1>2 DEF IInv, TypeOK, Tip
<1>4. NoPortForgotten' /\ DoneIsUploaded' /\ LastHasTarball' /\ RunInv'
  BY <1>1 DEF IInv, NoPortForgotten, DoneIsUploaded, LastHasTarball, RunInv, Known
<1>5. IndexMatchesTree' /\ RunIndexInv'
  BY <1>1 DEF IInv, IndexMatchesTree, RunIndexInv, Matches, Tip
<1> QED BY <1>3, <1>4, <1>5 DEF IInv

LEMMA StartStep == ASSUME IInv, Start PROVE IInv'
<1> USE DEF history, storage
<1>1. UNCHANGED <<tree, asked, failed, reruns, faults, dbLast, dbDone, distfiles,
                  server, cache, sqlAt, reported, moved, lost, lossy>>
  BY DEF Start
<1>2. /\ run' \in RunRecord /\ run'.sha \in Base .. Tip
      /\ pending' = NoRun /\ NoRun \in Queued /\ pc' = "range"
  BY NewRunType DEF Start, IInv, TypeOK, Queued, NoRun, NewRun
<1>3. TypeOK'
  BY <1>1, <1>2, SMTT(30) DEF IInv, TypeOK, Tip, Running, Steps
<1>4. NoPortForgotten' /\ DoneIsUploaded' /\ LastHasTarball' /\ RunInv'
  BY <1>1, <1>2 DEF IInv, NoPortForgotten, DoneIsUploaded, LastHasTarball, RunInv, Known
<1>5. IndexMatchesTree' /\ RunIndexInv'
  BY <1>1, <1>2 DEF IInv, IndexMatchesTree, RunIndexInv, Matches
<1> QED BY <1>3, <1>4, <1>5 DEF IInv

\* The guessed or found start of a range is a commit of master before or at
\* the run's, because the history is longer than the give-up distance.
LEMMA RangeFromType ==
    ASSUME TypeOK, LastHasTarball, pc = "range",
           NEW garbled \in BOOLEAN, NEW broken \in BOOLEAN,
           RangeFrom(dbLast, garbled, broken)
    PROVE  /\ run' \in RunRecord
           /\ run'.sha = run.sha
           /\ run'.last \in 1 .. run.sha
           /\ ~run'.guessed => run'.last = dbLast /\ dbLast # 0
           /\ moved' = moved \cup At(Renamed(tree[run'.last], tree[run.sha]), tree[run.sha])
           /\ lost' = lost \cup At(Portlist(tree[run'.last], tree[run.sha]) \ run'.ports,
                                   tree[run.sha])
<1> USE BaseAssumption
<1> DEFINE found == (dbLast # 0 /\ ~garbled) /\ Reachable(dbLast, run.sha)
           last == IF found THEN dbLast
                   ELSE IF dbLast = 0 THEN run.sha - 1
                   ELSE run.sha - GiveUpDistance
           all == Portlist(tree[last], tree[run.sha])
<1>1. PICK listed \in SUBSET all :
        /\ run' = [run EXCEPT !.last = last, !.hashed = found \/ dbLast = 0,
                              !.guessed = ~found, !.ports = listed]
        /\ moved' = moved \cup At(Renamed(tree[last], tree[run.sha]), tree[run.sha])
        /\ lost' = lost \cup At(all \ listed, tree[run.sha])
  BY DEF RangeFrom
<1>2. run \in RunRecord /\ run.sha \in Base .. Tip /\ Tip \in Nat
      /\ dbLast \in {0} \cup Base .. Tip
  BY DEF TypeOK, Tip
<1>3. found => dbLast \in 1 .. run.sha
  BY <1>2 DEF Reachable
<1>4. last \in 1 .. run.sha
  BY <1>2, <1>3
<1>5. listed \subseteq Ports
  BY DEF Portlist, Added, Modified, Renamed, Present
<1> HIDE DEF last, found
<1>6. /\ run'.last = last /\ run'.sha = run.sha /\ run'.guessed = ~found
      /\ run'.hashed = (found \/ dbLast = 0)
      /\ run'.ports = listed
  BY <1>1, <1>2 DEF RunRecord
<1>7. run' \in RunRecord
  <2>1. PICK h \in BOOLEAN, g \in BOOLEAN :
           run' = [run EXCEPT !.last = last, !.hashed = h, !.guessed = g,
                             !.ports = listed]
    <3>1. (found \/ dbLast = 0) \in BOOLEAN /\ (~found) \in BOOLEAN
      BY Zenon DEF found
    <3> QED BY <1>1, <3>1, Zenon
  <2>2. last \in Nat
    BY <1>2, <1>4
  <2> HIDE DEF all
  <2> QED BY <1>2, <1>5, <2>1, <2>2 DEF RunRecord
<1>8. found => last = dbLast /\ dbLast # 0
  BY DEF last, found
<1> QED BY <1>1, <1>4, <1>6, <1>7, <1>8

\* The range is found: with no guess it starts at mirror.last_commit, whose
\* ports are accounted for or were left out of a list; so are those of the
\* range that a broken pipe leaves out of this one.
LEMMA DetermineRangeStep == ASSUME IInv, DetermineRange PROVE IInv'
<1> USE DEF history, storage
<1>1. PICK garbled \in BOOLEAN, broken \in BOOLEAN : RangeFrom(dbLast, garbled, broken)
  BY DEF DetermineRange
<1>2. /\ pc = "range" /\ pc' = "restore"
      /\ UNCHANGED <<tree, asked, pending, failed, reruns, dbLast, dbDone,
                     distfiles, server, cache, sqlAt, reported, lossy>>
      /\ faults' \in Nat
  <2>1. faults' \in {faults, faults + 1, faults + 2} /\ faults \in Nat
    BY DEF DetermineRange, IInv, TypeOK
  <2> QED BY <2>1 DEF DetermineRange
<1>3. /\ run' \in RunRecord
      /\ run'.sha = run.sha
      /\ run'.last \in 1 .. run.sha
      /\ ~run'.guessed => run'.last = dbLast /\ dbLast # 0
      /\ moved' = moved \cup At(Renamed(tree[run'.last], tree[run.sha]), tree[run.sha])
      /\ lost' = lost \cup At(Portlist(tree[run'.last], tree[run.sha]) \ run'.ports,
                              tree[run.sha])
  BY <1>1, <1>2, RangeFromType DEF IInv
<1>4. run.sha \in Base .. Tip /\ tree[run.sha] \in Tree
  BY <1>2, BaseAssumption DEF IInv, TypeOK, Tip
<1>5. moved' \subseteq Ports \X Content /\ moved \subseteq moved'
  BY <1>3, <1>4 DEF IInv, TypeOK, At, Renamed, Added, Present, Tree
<1>12. lost' \subseteq Ports \X Content /\ lost \subseteq lost'
  <2> DEFINE all == Portlist(tree[run'.last], tree[run.sha])
  <2>1. all \subseteq Ports
    BY DEF Portlist, Added, Modified, Present
  <2> HIDE DEF all
  <2>2. lost' = lost \cup At(all \ run'.ports, tree[run.sha])
    BY <1>3 DEF all
  <2> QED BY <1>4, <2>1, <2>2 DEF IInv, TypeOK, At, Tree
<1>6. TypeOK'
  <2>1. pc' \in {"idle"} \cup Running /\ Tip' = Tip
    BY <1>2 DEF Running, Steps, Tip
  <2>2. run'.sha \in Base .. Tip /\ run'.last \in 1 .. run'.sha
    BY <1>3, <1>4
  <2>3. run' \in RunRecord
    BY <1>3
  <2>4. moved' \subseteq Ports \X Content /\ lost' \subseteq Ports \X Content
    BY <1>5, <1>12
  <2>5. TypeOK /\ UNCHANGED <<tree, asked, pending, failed, reruns, dbLast, dbDone,
                             distfiles, server, cache, sqlAt, reported, lossy>>
        /\ faults' \in Nat
    BY <1>2 DEF IInv
  <2> QED BY <2>1, <2>2, <2>3, <2>4, <2>5, SMTT(30) DEF TypeOK
<1>7. \A c \in Nat : Known(c) => Known(c)'
  BY <1>2, <1>5, <1>12 DEF Known
<1>8. NoPortForgotten'
  BY <1>2, <1>7, BaseAssumption DEF IInv, TypeOK, NoPortForgotten, Tip
<1>9. RunInv'
  BY <1>2, <1>3, <1>8 DEF RunInv, NoPortForgotten
<1>10. DoneIsUploaded' /\ LastHasTarball'
  BY <1>2 DEF IInv, DoneIsUploaded, LastHasTarball
<1>11. IndexMatchesTree' /\ RunIndexInv'
  BY <1>2 DEF IInv, IndexMatchesTree, RunIndexInv, Matches
<1> QED BY <1>6, <1>8, <1>9, <1>10, <1>11 DEF IInv

LEMMA RestoreCacheStep == ASSUME IInv, RestoreCache PROVE IInv'
<1> USE DEF history, storage
<1>1. /\ pc = "restore" /\ pc' = "prepare"
      /\ UNCHANGED <<tree, asked, pending, failed, reruns, faults, dbLast, dbDone,
                     distfiles, server, cache, sqlAt, reported, moved, lost, lossy>>
  BY DEF RestoreCache
<1>2. PICK hit \in Tarball :
         /\ run' = [run EXCEPT !.found = hit]
         /\ hit = NoTarball \/ \E c \in DOMAIN cache : hit = cache[c]
  BY NoTarballType DEF RestoreCache, IInv, TypeOK
<1>3. run' \in RunRecord /\ run'.sha = run.sha /\ run'.last = run.last
      /\ run'.guessed = run.guessed /\ run'.ports = run.ports /\ run'.found = hit
  BY <1>2 DEF IInv, TypeOK, RunRecord
<1>4. TypeOK'
  BY <1>1, <1>3, SMTT(30) DEF IInv, TypeOK, Tip, Running, Steps
<1>5. NoPortForgotten' /\ DoneIsUploaded' /\ LastHasTarball' /\ RunInv'
  BY <1>1, <1>3
     DEF IInv, NoPortForgotten, DoneIsUploaded, LastHasTarball, RunInv, Known
<1>6. \A c \in DOMAIN cache : cache[c].commit \in 1 .. Tip /\ Matches(cache[c])
  BY BaseAssumption DEF IInv, TypeOK, IndexMatchesTree, Tip
<1>7. IndexMatchesTree' /\ RunIndexInv'
  BY <1>1, <1>2, <1>3, <1>6 DEF IInv, IndexMatchesTree, RunIndexInv, Matches, Tip
<1> QED BY <1>4, <1>5, <1>7 DEF IInv

LEMMA PreparePortsStep == ASSUME IInv, PreparePorts PROVE IInv'
<1> USE DEF history, storage
<1>1. /\ pc = "prepare" /\ pc' = "mirror"
      /\ UNCHANGED <<tree, asked, pending, failed, reruns, faults, dbLast, dbDone,
                     distfiles, server, cache, sqlAt, reported, moved, lost, lossy>>
  BY DEF PreparePorts
<1>2. PICK start \in StartingPoints :
         run' = [run EXCEPT !.found = NoTarball,
                   !.tarball = [commit |-> run.sha,
                                index |-> [start.index EXCEPT
                                             ![Native] = IndexOf(Native, start)]]]
  BY DEF PreparePorts
<1>3. start \in Tarball
  BY NoTarballType DEF StartingPoints, IInv, TypeOK, RunRecord
<1>4. /\ run \in RunRecord /\ run.sha \in Nat
      /\ tree[run.last] \in Tree /\ tree[run.sha] \in Tree
  BY <1>1, BaseAssumption DEF IInv, TypeOK, Tip
<1>5. start.index[Native] \in Tree \cup {NoIndex}
  BY <1>3 DEF Tarball, Indexes
<1>6. IndexOf(Native, start) \in Tree
  BY <1>4, <1>5, ReindexType DEF IndexOf
<1>7. [commit |-> run.sha,
       index |-> [start.index EXCEPT ![Native] = IndexOf(Native, start)]] \in Tarball
  BY <1>3, <1>4, <1>6 DEF Tarball
<1>8. run' \in RunRecord /\ run'.sha = run.sha /\ run'.last = run.last
      /\ run'.guessed = run.guessed /\ run'.ports = run.ports
  BY <1>2, <1>4, <1>7, NoTarballType DEF RunRecord
<1>9. TypeOK'
  BY <1>1, <1>8, SMTT(30) DEF IInv, TypeOK, Tip, Running, Steps
<1>10. NoPortForgotten' /\ DoneIsUploaded' /\ LastHasTarball' /\ RunInv'
  BY <1>1, <1>8
     DEF IInv, NoPortForgotten, DoneIsUploaded, LastHasTarball, RunInv, Known
<1>11. \A pl \in Indexes : start.index[pl] \in {NoIndex, tree[run.last]}
  <2>1. \/ start = NoTarball
        \/ start = run.found /\ run.found.commit = run.last /\ run.last # 0
        \/ run.last \in DOMAIN server /\ start = server[run.last]
    BY <1>1, <1>2 DEF StartingPoints, IInv, TypeOK
  <2>2. CASE start = NoTarball
    BY <2>2 DEF NoTarball
  <2>3. CASE start = run.found /\ run.found.commit = run.last /\ run.last # 0
    BY <1>1, <2>3 DEF IInv, RunIndexInv, Matches, NoTarball
  <2>4. CASE run.last \in DOMAIN server /\ start = server[run.last]
    BY <2>4 DEF IInv, IndexMatchesTree, Matches
  <2> QED BY <2>1, <2>2, <2>3, <2>4
<1>12. IndexOf(Native, start) = tree[run.sha]
  BY <1>4, <1>11 DEF IndexOf, Reindex, Indexes, Tree
<1>13. /\ run'.tarball.commit = run.sha
       /\ run'.tarball.index = [start.index EXCEPT ![Native] = tree[run.sha]]
  BY <1>2, <1>4, <1>12 DEF RunRecord
<1>14. \A pl \in Indexes :
          run'.tarball.index[pl] \in IF pl = Native THEN {tree[run.sha]}
                                    ELSE {NoIndex, tree[run.last]}
  BY <1>3, <1>11, <1>13 DEF Tarball
<1>15. RunIndexInv'
  BY <1>1, <1>8, <1>13, <1>14 DEF RunIndexInv
<1>16. IndexMatchesTree'
  BY <1>1 DEF IInv, IndexMatchesTree, Matches
<1> QED BY <1>9, <1>10, <1>15, <1>16 DEF IInv

LEMMA MirrorPortsStep == ASSUME IInv, MirrorPorts PROVE IInv'
<1> USE DEF history, storage
<1> DEFINE todo == At(run.ports, tree[run.sha]) \ dbDone
<1>1. /\ pc = "mirror" /\ pc' = "upload"
      /\ UNCHANGED <<tree, asked, pending, failed, reruns, faults, dbLast, dbDone,
                     distfiles, server, cache, sqlAt, moved, lost, lossy>>
  BY DEF MirrorPorts
<1>2. PICK ok \in SUBSET todo :
         run' = [run EXCEPT !.got = ok] /\ reported' = reported \cup (todo \ ok)
  BY DEF MirrorPorts
<1>3. run \in RunRecord /\ tree[run.sha] \in Tree
  BY <1>1, BaseAssumption DEF IInv, TypeOK, Tip
<1>4. todo \subseteq Ports \X Content
  BY <1>3 DEF At, RunRecord, Tree
<1>5. run' \in RunRecord /\ run'.sha = run.sha /\ run'.last = run.last
      /\ run'.guessed = run.guessed /\ run'.ports = run.ports /\ run'.got = ok
      /\ run'.tarball = run.tarball
  BY <1>2, <1>3, <1>4 DEF RunRecord
<1>6. TypeOK'
  BY <1>1, <1>2, <1>4, <1>5, SMTT(30) DEF IInv, TypeOK, Tip, Running, Steps
<1>7. \A c : Known(c) => Known(c)'
  BY <1>1, <1>2 DEF Known
<1>8. NoPortForgotten' /\ DoneIsUploaded' /\ LastHasTarball'
  BY <1>1, <1>7 DEF IInv, NoPortForgotten, DoneIsUploaded, LastHasTarball
<1>9. RunInv'
  BY <1>1, <1>2, <1>5, <1>7 DEF IInv, RunInv
<1>10. IndexMatchesTree' /\ RunIndexInv'
  BY <1>1, <1>5 DEF IInv, IndexMatchesTree, RunIndexInv, Matches
<1> QED BY <1>6, <1>8, <1>9, <1>10 DEF IInv

LEMMA UploadDistfilesStep == ASSUME IInv, UploadDistfiles PROVE IInv'
<1> USE DEF history, storage
<1>1. /\ pc = "upload" /\ pc' = "status" /\ distfiles' = distfiles \cup run.got
      /\ UNCHANGED <<tree, asked, pending, run, failed, reruns, faults, dbLast,
                     dbDone, server, cache, sqlAt, reported, moved, lost, lossy>>
  BY DEF UploadDistfiles
<1>2. distfiles' \subseteq Ports \X Content
  BY <1>1 DEF IInv, TypeOK, RunRecord
<1>3. TypeOK'
  BY <1>1, <1>2, SMTT(30) DEF IInv, TypeOK, Tip, Running, Steps
<1>4. \A c : Known(c) => Known(c)'
  BY <1>1 DEF Known
<1>5. NoPortForgotten' /\ DoneIsUploaded' /\ LastHasTarball'
  BY <1>1, <1>4 DEF IInv, NoPortForgotten, DoneIsUploaded, LastHasTarball
<1>6. RunInv'
  BY <1>1, <1>4 DEF IInv, RunInv, DoneIsUploaded
<1>7. IndexMatchesTree' /\ RunIndexInv'
  BY <1>1 DEF IInv, IndexMatchesTree, RunIndexInv, Matches
<1> QED BY <1>3, <1>5, <1>6, <1>7 DEF IInv

LEMMA UpdateMirrorDBStep == ASSUME IInv, UpdateMirrorDB PROVE IInv'
<1> USE DEF history, storage
<1>1. /\ pc = "status" /\ pc' = "index" /\ dbDone' = dbDone \cup run.got
      /\ UNCHANGED <<tree, asked, pending, run, failed, reruns, faults, dbLast,
                     distfiles, server, cache, sqlAt, reported, moved, lost, lossy>>
  BY DEF UpdateMirrorDB
<1>2. dbDone' \subseteq Ports \X Content
  BY <1>1 DEF IInv, TypeOK, RunRecord
<1>3. TypeOK'
  BY <1>1, <1>2, SMTT(30) DEF IInv, TypeOK, Tip, Running, Steps
<1>4. NoPortForgotten' /\ DoneIsUploaded' /\ LastHasTarball' /\ RunInv'
  BY <1>1
     DEF IInv, NoPortForgotten, DoneIsUploaded, LastHasTarball, RunInv, Known
<1>5. IndexMatchesTree' /\ RunIndexInv'
  BY <1>1 DEF IInv, IndexMatchesTree, RunIndexInv, Matches
<1> QED BY <1>3, <1>4, <1>5 DEF IInv

LEMMA UpdatePortIndexStep == ASSUME IInv, UpdatePortIndex PROVE IInv'
<1> USE DEF history, storage
<1> DEFINE index == [pl \in Indexes |-> IF pl \in Platforms \ {Native}
                                       THEN IndexOf(pl, run.tarball)
                                       ELSE run.tarball.index[pl]]
<1>1. /\ pc = "index" /\ pc' = "deploy" /\ run' = [run EXCEPT !.tarball.index = index]
      /\ UNCHANGED <<tree, asked, pending, failed, reruns, faults, dbLast, dbDone,
                     distfiles, server, cache, sqlAt, reported, moved, lost, lossy>>
  BY DEF UpdatePortIndex
<1>2. run \in RunRecord /\ tree[run.last] \in Tree /\ tree[run.sha] \in Tree
  BY <1>1, BaseAssumption DEF IInv, TypeOK, Tip
<1>3. \A pl \in Indexes : run.tarball.index[pl] \in Tree \cup {NoIndex}
  BY <1>2 DEF RunRecord, Tarball
<1>4. index \in [Indexes -> Tree \cup {NoIndex}]
  BY <1>2, <1>3, ReindexType DEF IndexOf
<1>5. \A pl \in Indexes : index[pl] = tree[run.sha]
  <2> SUFFICES ASSUME NEW pl \in Indexes PROVE index[pl] = tree[run.sha]
    OBVIOUS
  <2>1. CASE pl = Native
    BY <1>1, <2>1 DEF IInv, RunIndexInv
  <2>2. CASE pl # Native
    <3>1. run.tarball.index[pl] \in {NoIndex, tree[run.last]}
      BY <1>1, <2>2 DEF IInv, RunIndexInv
    <3>2. Reindex(run.tarball.index[pl], tree[run.last], tree[run.sha]) = tree[run.sha]
      BY <1>2, <3>1 DEF Reindex, Tree
    <3> QED BY <2>2, <3>2 DEF IndexOf, Indexes
  <2> QED BY <2>1, <2>2
<1> HIDE DEF index
<1>6. run' \in RunRecord /\ run'.sha = run.sha /\ run'.last = run.last
      /\ run'.guessed = run.guessed /\ run'.ports = run.ports
  <2>1. [run.tarball EXCEPT !.index = index] \in Tarball
    BY <1>2, <1>4 DEF RunRecord, Tarball
  <2>2. run' = [run EXCEPT !.tarball = [run.tarball EXCEPT !.index = index]]
    BY <1>1
  <2> QED BY <1>2, <2>1, <2>2 DEF RunRecord
<1>7. run'.tarball.index = index /\ run'.tarball.commit = run.tarball.commit
  BY <1>1, <1>2 DEF RunRecord, Tarball
<1>8. TypeOK'
  BY <1>1, <1>6, SMTT(30) DEF IInv, TypeOK, Tip, Running, Steps
<1>9. NoPortForgotten' /\ DoneIsUploaded' /\ LastHasTarball' /\ RunInv'
  BY <1>1, <1>6
     DEF IInv, NoPortForgotten, DoneIsUploaded, LastHasTarball, RunInv, Known
<1>10. IndexMatchesTree' /\ RunIndexInv'
  BY <1>1, <1>6, <1>5, <1>7 DEF IInv, IndexMatchesTree, RunIndexInv, Matches
<1> QED BY <1>8, <1>9, <1>10 DEF IInv

\* A store of tarballs that index the commits they are named after.
GoodStore(at) ==
    /\ DOMAIN at \subseteq Base .. Tip
    /\ at \in [DOMAIN at -> Tarball]
    /\ \A c \in DOMAIN at : at[c].commit = c /\ Matches(at[c])

\* Storing the run's finished tarball keeps such a store.
LEMMA StoreRun ==
    ASSUME TypeOK, run.sha \in Base .. Tip,
           run.tarball.commit = run.sha, Matches(run.tarball)
    PROVE  \A at : GoodStore(at) =>
              /\ GoodStore(Store(at, run.tarball))
              /\ DOMAIN Store(at, run.tarball) = DOMAIN at \cup {run.sha}
<1> SUFFICES ASSUME NEW at, GoodStore(at)
             PROVE  /\ GoodStore(Store(at, run.tarball))
                    /\ DOMAIN Store(at, run.tarball) = DOMAIN at \cup {run.sha}
  OBVIOUS
<1> DEFINE new == Store(at, run.tarball)
<1>1. run.tarball \in Tarball
  BY DEF TypeOK, RunRecord
<1>2. new = [c \in DOMAIN at \cup {run.sha} |-> IF c = run.sha THEN run.tarball ELSE at[c]]
  BY DEF Store
<1> HIDE DEF new
<1>3. DOMAIN new = DOMAIN at \cup {run.sha}
  BY <1>2
<1>4. \A c \in DOMAIN new : new[c] = IF c = run.sha THEN run.tarball ELSE at[c]
  BY <1>2
<1>5. \A c \in DOMAIN at : at[c] \in Tarball
  BY DEF GoodStore
<1>6. new \in [DOMAIN new -> Tarball]
  BY <1>1, <1>2, <1>3, <1>4, <1>5
<1>7. \A c \in DOMAIN new : new[c].commit = c /\ Matches(new[c])
  BY <1>3, <1>4 DEF GoodStore
<1>8. DOMAIN new \subseteq Base .. Tip
  BY <1>3 DEF GoodStore
<1>9. GoodStore(new)
  BY <1>6, <1>7, <1>8 DEF GoodStore
<1> QED BY <1>3, <1>9 DEF new

\* What a step does to the servers, when it touches nothing else but pc.
LEMMA DeployPortIndexStep == ASSUME IInv, DeployPortIndex PROVE IInv'
<1> USE DEF history, storage
<1>1. /\ pc = "deploy" /\ pc' = "save" /\ server' = Store(server, run.tarball)
      /\ UNCHANGED <<tree, asked, pending, run, failed, reruns, faults, dbLast,
                     dbDone, distfiles, cache, sqlAt, reported, moved, lost, lossy>>
  BY DEF DeployPortIndex
<1>2. /\ DOMAIN server' = DOMAIN server \cup {run.sha}
      /\ DOMAIN server' \subseteq Base .. Tip
      /\ server' \in [DOMAIN server' -> Tarball]
      /\ \A c \in DOMAIN server' : server'[c].commit = c /\ Matches(server'[c])
  <2>1. GoodStore(server)
    BY DEF GoodStore, IInv, TypeOK, IndexMatchesTree
  <2>2. TypeOK /\ run.sha \in Base .. Tip
        /\ run.tarball.commit = run.sha /\ Matches(run.tarball)
    BY <1>1 DEF IInv, TypeOK, RunIndexInv
  <2>3. GoodStore(server') /\ DOMAIN server' = DOMAIN server \cup {run.sha}
    BY <1>1, <2>1, <2>2, StoreRun
  <2> QED BY <2>3 DEF GoodStore
<1>3. TypeOK'
  BY <1>1, <1>2, SMTT(30) DEF IInv, TypeOK, Tip, Running, Steps
<1>4. NoPortForgotten' /\ DoneIsUploaded' /\ LastHasTarball' /\ RunInv'
  BY <1>1, <1>2
     DEF IInv, NoPortForgotten, DoneIsUploaded, LastHasTarball, RunInv, Known
<1>5. IndexMatchesTree' /\ RunIndexInv'
  BY <1>1, <1>2 DEF IInv, IndexMatchesTree, RunIndexInv, Matches
<1> QED BY <1>3, <1>4, <1>5 DEF IInv

LEMMA SavePortIndexStep == ASSUME IInv, SavePortIndex PROVE IInv'
<1> USE DEF history, storage
<1>1. /\ pc = "save" /\ pc' = "commit"
      /\ cache' = cache \/ cache' = Store(cache, run.tarball)
      /\ UNCHANGED <<tree, asked, pending, run, failed, reruns, faults, dbLast,
                     dbDone, distfiles, server, sqlAt, reported, moved, lost, lossy>>
  BY DEF SavePortIndex
<1>2. /\ DOMAIN cache' \subseteq Base .. Tip
      /\ cache' \in [DOMAIN cache' -> Tarball]
      /\ \A c \in DOMAIN cache' : cache'[c].commit = c /\ Matches(cache'[c])
  <2>1. GoodStore(cache)
    BY DEF GoodStore, IInv, TypeOK, IndexMatchesTree
  <2>2. TypeOK /\ run.sha \in Base .. Tip
        /\ run.tarball.commit = run.sha /\ Matches(run.tarball)
    BY <1>1 DEF IInv, TypeOK, RunIndexInv
  <2>3. GoodStore(cache')
    BY <1>1, <2>1, <2>2, StoreRun
  <2> QED BY <2>3 DEF GoodStore
<1>3. TypeOK'
  BY <1>1, <1>2, SMTT(30) DEF IInv, TypeOK, Tip, Running, Steps
<1>4. NoPortForgotten' /\ DoneIsUploaded' /\ LastHasTarball' /\ RunInv'
  BY <1>1
     DEF IInv, NoPortForgotten, DoneIsUploaded, LastHasTarball, RunInv, Known
<1>5. IndexMatchesTree' /\ RunIndexInv'
  BY <1>1, <1>2 DEF IInv, IndexMatchesTree, RunIndexInv, Matches
<1> QED BY <1>3, <1>4, <1>5 DEF IInv

\* When a run may commit, the ports of the commit it ran for are accounted for
\* or were left out of a list, unless its range was guessed or an earlier
\* guessed one was committed.
LEMMA RunCovers ==
    ASSUME IInv, pc = "commit", ~lossy, ~run.guessed
    PROVE  Known(run.sha)
<1>1. tree[run.last] \in Tree /\ tree[run.sha] \in Tree
  BY BaseAssumption DEF IInv, TypeOK, Tip
<1> DEFINE D == distfiles \cup reported \cup moved \cup lost
<1>2. At(Present(tree[run.last]), tree[run.last]) \subseteq D
  BY DEF IInv, RunInv, Known
<1>3. /\ At(run.ports, tree[run.sha]) \subseteq D
      /\ At(Portlist(tree[run.last], tree[run.sha]) \ run.ports, tree[run.sha]) \subseteq D
      /\ At(Renamed(tree[run.last], tree[run.sha]), tree[run.sha]) \subseteq D
  BY DEF IInv, RunInv
<1> HIDE DEF D
<1>4. At(Present(tree[run.sha]), tree[run.sha]) \subseteq D
  BY <1>1, <1>2, <1>3, RangeCovers
<1> QED BY <1>4 DEF D, Known

LEMMA UpdateStatusStep == ASSUME IInv, UpdateStatus PROVE IInv'
<1> USE DEF history, storage
<1>1. /\ pc = "commit" /\ pc' = "sql" /\ dbLast' = run.sha
      /\ UNCHANGED <<tree, asked, pending, run, failed, reruns, faults, dbDone,
                     distfiles, server, cache, sqlAt, reported, moved, lost>>
  BY DEF UpdateStatus
<1>2. lossy' \in BOOLEAN /\ (~lossy' => ~lossy /\ ~run.guessed)
  BY DEF UpdateStatus, IInv, TypeOK, RunRecord
<1>3. TypeOK'
  <2>1. dbLast' \in {0} \cup Base .. Tip /\ pc' \in {"idle"} \cup Running
    BY <1>1 DEF IInv, TypeOK, Running, Steps
  <2> QED BY <1>1, <1>2, <2>1 DEF IInv, TypeOK, Tip
<1>4. NoPortForgotten'
  BY <1>1, <1>2, RunCovers DEF NoPortForgotten, Known
<1>5. DoneIsUploaded' /\ LastHasTarball' /\ RunInv'
  BY <1>1, <1>2 DEF IInv, DoneIsUploaded, LastHasTarball, RunInv, Known
<1>6. IndexMatchesTree' /\ RunIndexInv'
  BY <1>1 DEF IInv, IndexMatchesTree, RunIndexInv, Matches
<1> QED BY <1>3, <1>4, <1>5, <1>6 DEF IInv

LEMMA UpdateSQLStep == ASSUME IInv, UpdateSQL PROVE IInv'
<1> USE DEF history, storage
<1>1. /\ pc = "sql" /\ pc' = "idle" /\ sqlAt' = run.sha /\ run' = NewRun(NoRun)
      /\ UNCHANGED <<tree, asked, pending, failed, reruns, faults, dbLast, dbDone,
                     distfiles, server, cache, reported, moved, lost, lossy>>
  BY DEF UpdateSQL
<1>2. run' \in RunRecord
  BY <1>1, NewRunType DEF NoRun, Queued
<1>3. TypeOK'
  BY <1>1, <1>2 DEF IInv, TypeOK, Tip
<1>4. NoPortForgotten' /\ DoneIsUploaded' /\ LastHasTarball' /\ RunInv'
  BY <1>1
     DEF IInv, NoPortForgotten, DoneIsUploaded, LastHasTarball, RunInv, Known
<1>5. IndexMatchesTree' /\ RunIndexInv'
  BY <1>1 DEF IInv, IndexMatchesTree, RunIndexInv, Matches
<1> QED BY <1>3, <1>4, <1>5 DEF IInv

\* A failed step leaves the machine idle, and the servers as they were or with
\* some of what the step was storing.
LEMMA FailStep == ASSUME IInv, Fail PROVE IInv'
<1> USE DEF history, storage
<1>1. /\ pc # "idle" /\ pc' = "idle" /\ run' = NewRun(NoRun)
      /\ failed' = failed \cup {run.sha} /\ faults' = faults + 1
      /\ UNCHANGED <<tree, asked, pending, reruns, cache, sqlAt, reported, moved, lost>>
  BY DEF Fail
<1>2. /\ run' \in RunRecord /\ failed' \subseteq Base .. Tip /\ faults' \in Nat
      /\ run.sha \in Base .. Tip
  <2>1. run.sha \in Base .. Tip /\ failed \subseteq Base .. Tip /\ faults \in Nat
    BY <1>1 DEF IInv, TypeOK
  <2>2. run' \in RunRecord
    BY <1>1, NewRunType DEF NoRun, Queued
  <2>3. failed' \subseteq Base .. Tip
    BY <1>1, <2>1
  <2>4. faults' \in Nat
    BY <1>1, <2>1
  <2> QED BY <2>1, <2>2, <2>3, <2>4
<1>3. RunInv' /\ RunIndexInv'
  BY <1>1 DEF RunInv, RunIndexInv
<1>4. CASE UNCHANGED <<dbLast, dbDone, distfiles, server, lossy>>
  <2>1. TypeOK'
    BY <1>1, <1>2, <1>4 DEF IInv, TypeOK, Tip
  <2>2. NoPortForgotten' /\ DoneIsUploaded' /\ LastHasTarball' /\ IndexMatchesTree'
    BY <1>1, <1>4 DEF IInv, NoPortForgotten, Known, DoneIsUploaded,
                      LastHasTarball, IndexMatchesTree, Matches
  <2> QED BY <1>3, <2>1, <2>2 DEF IInv
<1>5. CASE /\ \E some \in SUBSET run.got : distfiles' = distfiles \cup some
           /\ UNCHANGED <<dbLast, dbDone, server, lossy>>
  <2>1. distfiles' \subseteq Ports \X Content /\ distfiles \subseteq distfiles'
    BY <1>5 DEF IInv, TypeOK, RunRecord
  <2>2. TypeOK'
    BY <1>1, <1>2, <1>5, <2>1 DEF IInv, TypeOK, Tip
  <2>3. NoPortForgotten' /\ DoneIsUploaded' /\ LastHasTarball' /\ IndexMatchesTree'
    BY <1>1, <1>5, <2>1 DEF IInv, NoPortForgotten, Known, DoneIsUploaded,
                            LastHasTarball, IndexMatchesTree, Matches
  <2> QED BY <1>3, <2>2, <2>3 DEF IInv
<1>6. CASE /\ pc = "status"
           /\ \E some \in SUBSET run.got : dbDone' = dbDone \cup some
           /\ UNCHANGED <<dbLast, distfiles, server, lossy>>
  <2>1. dbDone' \subseteq Ports \X Content /\ dbDone' \subseteq distfiles
    BY <1>6 DEF IInv, TypeOK, RunRecord, RunInv, DoneIsUploaded
  <2>2. TypeOK'
    BY <1>1, <1>2, <1>6, <2>1 DEF IInv, TypeOK, Tip
  <2>3. NoPortForgotten' /\ DoneIsUploaded' /\ LastHasTarball' /\ IndexMatchesTree'
    BY <1>1, <1>6, <2>1 DEF IInv, NoPortForgotten, Known, DoneIsUploaded,
                            LastHasTarball, IndexMatchesTree, Matches
  <2> QED BY <1>3, <2>2, <2>3 DEF IInv
<1>7. CASE /\ pc = "deploy" /\ server' = Store(server, run.tarball)
           /\ UNCHANGED <<dbLast, dbDone, distfiles, lossy>>
  <2>1. GoodStore(server)
    BY DEF GoodStore, IInv, TypeOK, IndexMatchesTree
  <2>2. TypeOK /\ run.tarball.commit = run.sha /\ Matches(run.tarball)
    BY <1>7 DEF IInv, RunIndexInv
  <2>3. GoodStore(server') /\ DOMAIN server' = DOMAIN server \cup {run.sha}
    BY <1>2, <1>7, <2>1, <2>2, StoreRun
  <2>4. TypeOK'
    BY <1>1, <1>2, <1>7, <2>3 DEF IInv, TypeOK, Tip, GoodStore
  <2>5. NoPortForgotten' /\ DoneIsUploaded' /\ LastHasTarball' /\ IndexMatchesTree'
    BY <1>1, <1>7, <2>3 DEF IInv, NoPortForgotten, Known, DoneIsUploaded,
                            LastHasTarball, IndexMatchesTree, Matches, GoodStore
  <2> QED BY <1>3, <2>4, <2>5 DEF IInv
<1>8. CASE /\ pc = "commit" /\ dbLast' = run.sha /\ lossy' = (lossy \/ run.guessed)
           /\ UNCHANGED <<dbDone, distfiles, server>>
  <2>1. lossy' \in BOOLEAN /\ (~lossy' => ~lossy /\ ~run.guessed)
    BY <1>8 DEF IInv, TypeOK, RunRecord
  <2>2. dbLast' \in {0} \cup Base .. Tip /\ dbLast' \in DOMAIN server
    BY <1>2, <1>8 DEF IInv, RunInv
  <2>3. UNCHANGED <<dbDone, distfiles, server>>
    BY <1>8
  <2>4. TypeOK'
    BY <1>1, <1>2, <2>1, <2>2, <2>3 DEF IInv, TypeOK, Tip
  <2>5. NoPortForgotten'
    BY <1>1, <1>8, <2>1, <2>3, RunCovers DEF NoPortForgotten, Known
  <2>6. DoneIsUploaded' /\ LastHasTarball' /\ IndexMatchesTree'
    BY <1>1, <2>2, <2>3
       DEF IInv, DoneIsUploaded, LastHasTarball, IndexMatchesTree, Matches
  <2> QED BY <1>3, <2>4, <2>5, <2>6 DEF IInv
<1> QED BY <1>4, <1>5, <1>6, <1>7, <1>8 DEF Fail

LEMMA StutterStep == ASSUME IInv, UNCHANGED vars PROVE IInv'
<1>1. TypeOK'
  BY DEF vars, IInv, TypeOK, Tip
<1>2. NoPortForgotten' /\ DoneIsUploaded' /\ LastHasTarball' /\ RunInv'
  BY DEF vars, IInv, NoPortForgotten, DoneIsUploaded, LastHasTarball, RunInv, Known
<1>3. IndexMatchesTree' /\ RunIndexInv'
  BY DEF vars, IInv, IndexMatchesTree, RunIndexInv, Matches, Tip
<1> QED BY <1>1, <1>2, <1>3 DEF IInv

LEMMA NextIInv == IInv /\ [Next]_vars => IInv'
<1> SUFFICES ASSUME IInv, [Next]_vars PROVE IInv'
  OBVIOUS
<1>1. CASE \E triggers \in BOOLEAN : Commit(triggers)
  BY <1>1, CommitStep
<1>2. CASE Rerun BY <1>2, RerunStep
<1>3. CASE Start BY <1>3, StartStep
<1>4. CASE Job
  BY <1>4, DetermineRangeStep, RestoreCacheStep, PreparePortsStep, MirrorPortsStep,
     UploadDistfilesStep, UpdateMirrorDBStep, UpdatePortIndexStep,
     DeployPortIndexStep, SavePortIndexStep, UpdateStatusStep, UpdateSQLStep
     DEF Job
<1>5. CASE Fail BY <1>5, FailStep
<1>6. CASE UNCHANGED vars BY <1>6, StutterStep
<1> QED BY <1>1, <1>2, <1>3, <1>4, <1>5, <1>6 DEF Next

-----------------------------------------------------------------------------
(* The theorems. *)

\* The inductive invariant holds in every reachable state.
THEOREM Invariance == Spec => []IInv
BY InitIInv, NextIInv, PTL DEF Spec

\* Every variable keeps its type, and names only commits of master.
THEOREM TypeCorrect == Spec => []TypeOK
<1>1. IInv => TypeOK
  BY DEF IInv
<1> QED BY <1>1, Invariance, PTL

\* Whatever fails, is superseded or is re-run: mirror.last_commit never passes
\* a port by, but for those that a broken pipe left out of a list, as long as
\* no guessed range is committed.
THEOREM NothingForgotten == Spec => []NoPortForgotten
<1>1. IInv => NoPortForgotten
  BY DEF IInv
<1> QED BY <1>1, Invariance, PTL

\* What the database records as mirrored is on the distfiles server.
THEOREM DoneUploaded == Spec => []DoneIsUploaded
<1>1. IInv => DoneIsUploaded
  BY DEF IInv
<1> QED BY <1>1, Invariance, PTL

\* The commit mirror.last_commit names has a tarball to restore from, and every
\* published or cached tarball indexes its own commit, on any chain of
\* incremental updates.
THEOREM IndexesRight == Spec => []IndexRestorable
<1>1. IInv => IndexRestorable
  BY DEF IInv, IndexRestorable
<1> QED BY <1>1, Invariance, PTL

-----------------------------------------------------------------------------
(* The queue and the order of runs. *)

\* No run is newer than the newest push that triggered one, and only one that
\* was re-run by hand can be older than mirror.last_commit.  Until the first
\* re-run the newest push waits, runs, or was seen to by the time the group
\* was idle.
OrderInv ==
    /\ dbLast <= asked
    /\ \A c \in failed : c <= asked
    /\ pending # NoRun => pending.sha <= asked /\ (~pending.rerun => pending.sha = asked)
    /\ pc # "idle" => run.sha <= asked /\ (~run.rerun => run.sha >= dbLast)
    /\ pc = "sql" => dbLast = run.sha
    /\ reruns = 0 =>
          /\ ~pending.rerun
          /\ pending = NoRun /\ pc # "idle" => run.sha = asked
          /\ pending = NoRun /\ pc = "idle" =>
                dbLast >= asked \/ asked \in failed \/ asked = Base

LEMMA InitOrderInv == Init => OrderInv
BY BaseAssumption DEF Init, OrderInv, NoRun

\* The numbers the order is about are numbers.
LEMMA OrderTypes ==
    IInv => /\ asked \in Nat /\ dbLast \in Nat /\ failed \subseteq Nat
            /\ Tip \in Nat /\ reruns \in Nat
            /\ run.sha \in Nat /\ run.rerun \in BOOLEAN
            /\ pending.sha \in Nat /\ pending.rerun \in BOOLEAN
<1> SUFFICES ASSUME IInv
             PROVE  /\ asked \in Nat /\ dbLast \in Nat /\ failed \subseteq Nat
                    /\ Tip \in Nat /\ reruns \in Nat
                    /\ run.sha \in Nat /\ run.rerun \in BOOLEAN
                    /\ pending.sha \in Nat /\ pending.rerun \in BOOLEAN
  OBVIOUS
<1>1. TypeOK
  BY DEF IInv
<1>2. Tip \in Nat
  BY <1>1 DEF TypeOK, Tip
<1>3. asked \in Nat /\ dbLast \in Nat /\ failed \subseteq Nat /\ reruns \in Nat
  BY <1>1, <1>2, BaseAssumption DEF TypeOK
<1>4. run.sha \in Nat /\ run.rerun \in BOOLEAN
  BY <1>1 DEF TypeOK, RunRecord
<1>5. pending.sha \in Nat /\ pending.rerun \in BOOLEAN
  BY <1>1 DEF TypeOK, Queued
<1> QED BY <1>2, <1>3, <1>4, <1>5

\* A push is the newest there is, and takes the place in the queue.
LEMMA CommitOrder ==
    ASSUME IInv, OrderInv, NEW triggers \in BOOLEAN, Commit(triggers)
    PROVE  OrderInv'
<1>1. UNCHANGED <<pc, run, failed, reruns, dbLast>>
  BY DEF Commit, storage
<1>2. CASE triggers
  <2>1. asked' = Tip + 1 /\ pending' = [sha |-> Tip + 1, rerun |-> FALSE]
    BY <1>2 DEF Commit
  <2>2. asked <= Tip /\ asked \in Nat /\ Tip \in Nat /\ dbLast \in Nat /\ failed \subseteq Nat
        /\ run.sha \in Nat
    BY OrderTypes DEF IInv, TypeOK
  <2>3. pending' # NoRun /\ pending'.sha = asked' /\ ~pending'.rerun
    <3>1. pending'.sha = Tip + 1 /\ pending'.rerun = FALSE /\ NoRun.sha = 0
      BY <2>1 DEF NoRun
    <3> QED BY <2>1, <2>2, <3>1
  <2>4. dbLast <= asked' /\ (\A c \in failed : c <= asked')
        /\ (pc # "idle" => run.sha <= asked')
    BY <2>1, <2>2 DEF OrderInv
  <2> QED BY <1>1, <2>1, <2>2, <2>3, <2>4 DEF OrderInv
<1>3. CASE ~triggers
  <2>1. UNCHANGED <<asked, pending>>
    BY <1>3 DEF Commit
  <2> QED BY <1>1, <2>1 DEF OrderInv
<1> QED BY <1>2, <1>3

LEMMA RerunOrder == ASSUME IInv, OrderInv, Rerun PROVE OrderInv'
<1>1. /\ UNCHANGED <<asked, pc, run, failed, dbLast>>
      /\ reruns' = reruns + 1
      /\ \E c \in failed : pending' = [sha |-> c, rerun |-> TRUE]
  BY DEF Rerun, storage
<1>2. reruns' # 0
  BY <1>1, OrderTypes
<1>3. pending'.rerun /\ pending'.sha <= asked'
  BY <1>1 DEF OrderInv
<1> QED BY <1>1, <1>2, <1>3 DEF OrderInv

LEMMA StartOrder == ASSUME IInv, OrderInv, Start PROVE OrderInv'
<1>1. /\ UNCHANGED <<asked, failed, reruns, dbLast>>
      /\ pending # NoRun /\ pending' = NoRun /\ pc' = "range"
      /\ run' = NewRun(pending)
  BY DEF Start, storage
<1>2. run'.sha = pending.sha /\ run'.rerun = pending.rerun /\ ~pending'.rerun
  BY <1>1 DEF NewRun, NoRun
<1>3. run'.sha <= asked' /\ (~run'.rerun => run'.sha >= dbLast')
  BY <1>1, <1>2, OrderTypes DEF OrderInv
<1>4. reruns' = 0 => run'.sha = asked'
  BY <1>1, <1>2 DEF OrderInv
<1> QED BY <1>1, <1>2, <1>3, <1>4 DEF OrderInv

\* Most steps of the job change nothing the order is about.
LEMMA StepOrder ==
    ASSUME IInv, OrderInv, pc # "idle", pc' \notin {"idle", "sql"},
           UNCHANGED <<asked, pending, failed, reruns, dbLast>>,
           run'.sha = run.sha, run'.rerun = run.rerun
    PROVE  OrderInv'
BY DEF OrderInv

\* What the steps that fill in the run's record leave alone.
LEMMA RecordOrder ==
    ASSUME IInv, DetermineRange \/ RestoreCache \/ PreparePorts \/ MirrorPorts \/ UpdatePortIndex
    PROVE  run'.sha = run.sha /\ run'.rerun = run.rerun
<1>1. run \in RunRecord
  BY DEF IInv, TypeOK
<1>2. CASE DetermineRange
  BY <1>1, <1>2 DEF DetermineRange, RangeFrom, RunRecord
<1>3. CASE RestoreCache
  BY <1>1, <1>3 DEF RestoreCache, RunRecord
<1>4. CASE PreparePorts
  BY <1>1, <1>4 DEF PreparePorts, RunRecord
<1>5. CASE MirrorPorts
  BY <1>1, <1>5 DEF MirrorPorts, RunRecord
<1>6. CASE UpdatePortIndex
  BY <1>1, <1>6 DEF UpdatePortIndex, RunRecord
<1> QED BY <1>2, <1>3, <1>4, <1>5, <1>6

LEMMA JobOrder == ASSUME IInv, OrderInv, Job PROVE OrderInv'
<1> USE DEF storage
<1>1. CASE DetermineRange
  BY <1>1, RecordOrder, StepOrder DEF DetermineRange
<1>2. CASE RestoreCache
  BY <1>2, RecordOrder, StepOrder DEF RestoreCache
<1>3. CASE PreparePorts
  BY <1>3, RecordOrder, StepOrder DEF PreparePorts
<1>4. CASE MirrorPorts
  BY <1>4, RecordOrder, StepOrder DEF MirrorPorts
<1>5. CASE UpdatePortIndex
  BY <1>5, RecordOrder, StepOrder DEF UpdatePortIndex
<1>6. CASE UploadDistfiles \/ UpdateMirrorDB \/ DeployPortIndex \/ SavePortIndex
  BY <1>6, StepOrder DEF UploadDistfiles, UpdateMirrorDB, DeployPortIndex, SavePortIndex
<1>7. CASE UpdateStatus
  <2>1. /\ pc = "commit" /\ pc' = "sql" /\ dbLast' = run.sha
        /\ UNCHANGED <<asked, pending, run, failed, reruns>>
    BY <1>7 DEF UpdateStatus
  <2>2. run.sha \in Nat
    BY OrderTypes
  <2> QED BY <2>1, <2>2 DEF OrderInv
<1>8. CASE UpdateSQL
  <2>1. /\ pc = "sql" /\ pc' = "idle"
        /\ UNCHANGED <<asked, pending, failed, reruns, dbLast>>
    BY <1>8 DEF UpdateSQL
  <2>2. asked \in Nat /\ dbLast \in Nat
    BY OrderTypes
  <2> QED BY <2>1, <2>2 DEF OrderInv
<1> QED BY <1>1, <1>2, <1>3, <1>4, <1>5, <1>6, <1>7, <1>8 DEF Job

LEMMA FailOrder == ASSUME IInv, OrderInv, Fail PROVE OrderInv'
<1> USE DEF storage
<1>1. /\ pc # "idle" /\ pc' = "idle" /\ failed' = failed \cup {run.sha}
      /\ UNCHANGED <<asked, pending, reruns>>
  BY DEF Fail
<1>2. dbLast' = dbLast \/ dbLast' = run.sha
  BY DEF Fail
<1>3. dbLast' <= asked' /\ \A c \in failed' : c <= asked'
  BY <1>1, <1>2 DEF OrderInv
<1>4. reruns' = 0 /\ pending' = NoRun => asked' \in failed'
  BY <1>1 DEF OrderInv
<1> QED BY <1>1, <1>3, <1>4 DEF OrderInv

LEMMA OrderInductive == IInv /\ OrderInv /\ [Next]_vars => OrderInv'
<1> SUFFICES ASSUME IInv, OrderInv, [Next]_vars PROVE OrderInv'
  OBVIOUS
<1>1. CASE \E triggers \in BOOLEAN : Commit(triggers)
  BY <1>1, CommitOrder
<1>2. CASE Rerun BY <1>2, RerunOrder
<1>3. CASE Start BY <1>3, StartOrder
<1>4. CASE Job BY <1>4, JobOrder
<1>5. CASE Fail BY <1>5, FailOrder
<1>6. CASE UNCHANGED vars BY <1>6 DEF vars, OrderInv
<1> QED BY <1>1, <1>2, <1>3, <1>4, <1>5, <1>6 DEF Next

LEMMA Ordered == Spec => []OrderInv
BY InitOrderInv, OrderInductive, Invariance, PTL DEF Spec

\* With the group idle, the newest push has been seen to, unless its run
\* failed or runs were re-run by hand.
THEOREM CatchesUp == Spec => []CaughtUp
<1>1. IInv /\ OrderInv => CaughtUp
  <2> SUFFICES ASSUME IInv, OrderInv, reruns = 0 PROVE CaughtUp
    BY OrderTypes DEF CaughtUp
  <2> QED BY DEF OrderInv, CaughtUp
<1> QED BY <1>1, Ordered, Invariance, PTL

\* Only a re-run of an older commit takes mirror.last_commit back.
THEOREM OnlyRerunsRegress == Spec => RegressOnlyByRerun
<1>1. IInv /\ OrderInv /\ [Next]_vars => [dbLast' < dbLast => run.rerun]_vars
  <2> SUFFICES ASSUME IInv, OrderInv, Next, dbLast' < dbLast PROVE run.rerun
    OBVIOUS
  <2>1. dbLast \in Nat /\ run.sha \in Nat /\ run.rerun \in BOOLEAN
    BY OrderTypes
  <2>2. dbLast' # dbLast
    BY <2>1
  <2>3. pc # "idle" /\ dbLast' = run.sha
    BY <2>2 DEF Next, Commit, Rerun, Start, Job, DetermineRange, RestoreCache,
                PreparePorts, MirrorPorts, UploadDistfiles, UpdateMirrorDB,
                UpdatePortIndex, DeployPortIndex, SavePortIndex, UpdateStatus,
                UpdateSQL, Fail, storage
  <2>4. run.rerun \/ run.sha >= dbLast
    BY <2>3 DEF OrderInv
  <2> QED BY <2>1, <2>3, <2>4
<1> QED BY <1>1, Ordered, Invariance, PTL DEF Spec, RegressOnlyByRerun

\* PortIndex.sql is deployed from the commit mirror.last_commit names.
THEOREM SQLInStep == Spec => SQLFollowsLast
<1>1. IInv /\ OrderInv /\ [Next]_vars => [sqlAt' # sqlAt => sqlAt' = dbLast]_vars
  <2> SUFFICES ASSUME IInv, OrderInv, Next, sqlAt' # sqlAt PROVE sqlAt' = dbLast
    OBVIOUS
  <2>1. pc = "sql" /\ sqlAt' = run.sha
    BY DEF Next, Commit, Rerun, Start, Job, DetermineRange, RestoreCache,
           PreparePorts, MirrorPorts, UploadDistfiles, UpdateMirrorDB,
           UpdatePortIndex, DeployPortIndex, SavePortIndex, UpdateStatus,
           UpdateSQL, Fail, storage
  <2> QED BY <2>1 DEF OrderInv
<1> QED BY <1>1, Ordered, Invariance, PTL DEF Spec, SQLFollowsLast

\* Both keep their order.
THEOREM StatusOrdered == Spec => StatusInOrder
BY OnlyRerunsRegress, SQLInStep, PTL DEF StatusInOrder

-----------------------------------------------------------------------------
(* The workflow implements MirrorLedger. *)

\* The initial states map to initial states of the ledger.
LEMMA InitLedger == Init => Ledger!Init
<1> SUFFICES ASSUME Init PROVE Ledger!Init
  OBVIOUS
<1>1. IInv
  BY InitIInv
<1>2. DOMAIN server \subseteq Nat /\ Tip \in Nat /\ lossy \in BOOLEAN
  BY <1>1, BaseAssumption DEF IInv, TypeOK, Tip
<1>3. dbLast # 0 => dbLast \in DOMAIN server /\ dbLast \in 1 .. Tip
  BY <1>1, BaseAssumption DEF IInv, TypeOK, LastHasTarball, Tip
<1>4. dbLast # 0 => Covered(dbLast)
  BY <1>3 DEF Init, Covered
<1>5. {c \in 1 .. Tip : Missed(c)} = {}
  BY DEF Init, Missed
<1> QED BY <1>2, <1>3, <1>4, <1>5 DEF Ledger!Init

\* Every step of the workflow is a step of the ledger or leaves it alone.
LEMMA StepLedger ==
    IInv /\ [Next]_vars =>
        [Ledger!Next]_<<dbLast, DOMAIN server, {c \in 1 .. Tip : Covered(c)},
                        {c \in 1 .. Tip : Missed(c)}, lossy>>
<1> DEFINE covered == {c \in 1 .. Tip : Covered(c)}
           missed == {c \in 1 .. Tip : Missed(c)}
<1> SUFFICES ASSUME IInv, [Next]_vars
             PROVE  [Ledger!Next]_<<dbLast, DOMAIN server, covered, missed, lossy>>
  OBVIOUS
<1> USE DEF history, storage
<1>1. TypeOK /\ Tip \in Nat /\ Tip' \in Nat
  <2>1. TypeOK /\ TypeOK'
    BY NextIInv DEF IInv
  <2> QED BY <2>1, SMTT(30) DEF TypeOK, Tip
<1>2. ASSUME UNCHANGED <<dbLast, server, lossy>>, covered \subseteq covered',
             missed \subseteq missed'
      PROVE  Ledger!Next
  <2>1. covered' \cup missed' \subseteq Nat
    BY <1>1
  <2> QED BY <1>2, <2>1 DEF Ledger!Next, Ledger!Cover
<1>3. ASSUME tree' = tree, distfiles \subseteq distfiles', reported \subseteq reported',
             moved \subseteq moved', lost \subseteq lost'
      PROVE  covered \subseteq covered' /\ missed \subseteq missed'
  <2>1. \A c \in Nat : (Covered(c) => Covered(c)') /\ (Missed(c) => Missed(c)')
    BY <1>3 DEF Covered, Missed
  <2>2. Tip' = Tip
    BY <1>3 DEF Tip
  <2> QED BY <2>1, <2>2, <1>1
<1>4. ASSUME UNCHANGED <<tree, distfiles, reported, moved, lost>>
      PROVE  covered' = covered /\ missed' = missed
  BY <1>4 DEF Covered, Missed, Tip
<1>5. ASSUME server' = Store(server, run.tarball), run.tarball.commit = run.sha,
             run.sha \in Base .. Tip,
             UNCHANGED <<tree, dbLast, distfiles, reported, moved, lost, lossy>>
      PROVE  Ledger!Next
  <2>1. DOMAIN server' = DOMAIN server \cup {run.sha}
    BY <1>5 DEF Store
  <2>2. DOMAIN server' \subseteq Nat
    <3>1. DOMAIN server \subseteq Base .. Tip
      BY <1>1 DEF TypeOK
    <3> QED BY <1>1, <1>5, <2>1, <3>1, BaseAssumption
  <2>3. covered' = covered /\ missed' = missed
    BY <1>4, <1>5
  <2> QED BY <1>5, <2>1, <2>2, <2>3 DEF Ledger!Next, Ledger!Publish
<1>6. ASSUME pc = "commit", dbLast' = run.sha, lossy' = (lossy \/ run.guessed),
             UNCHANGED <<tree, distfiles, reported, moved, lost, server>>
      PROVE  Ledger!Next
  <2>1. run.sha \in DOMAIN server /\ run.sha \in 1 .. Tip
    BY <1>1, <1>6, BaseAssumption DEF IInv, TypeOK, RunInv
  <2>2. lossy' \in {TRUE, lossy}
    BY <1>6 DEF IInv, TypeOK, RunRecord
  <2>3. run.sha \in covered \cup missed \/ lossy'
    <3>1. ~lossy' => Known(run.sha)
      BY <1>6, RunCovers DEF IInv, TypeOK, RunRecord
    <3>2. Known(run.sha) => Covered(run.sha) \/ Missed(run.sha)
      BY DEF Known, Covered, Missed
    <3> QED BY <2>1, <3>1, <3>2
  <2>4. covered' = covered /\ missed' = missed
    BY <1>4, <1>6
  <2> QED BY <1>6, <2>1, <2>2, <2>3, <2>4 DEF Ledger!Next, Ledger!Advance
<1>7. CASE \E triggers \in BOOLEAN : Commit(triggers)
  <2>1. PICK t \in NextTrees(tree[Tip], Tip + 1) : tree' = Append(tree, t)
    BY <1>7 DEF Commit
  <2>2. t \in Tree
    <3>1. tree[Tip] \in Tree /\ Tip + 1 \in Nat
      BY <1>1, BaseAssumption DEF TypeOK, Tip
    <3> QED BY <2>1, <3>1, NextTreesType
  <2>3. Tip' = Tip + 1 /\ \A c \in 1 .. Tip : tree'[c] = tree[c]
    BY <1>1, <2>1, <2>2, AppendTree
  <2>4. UNCHANGED <<distfiles, reported, moved, lost, dbLast, server, lossy>>
    BY <1>7 DEF Commit
  <2>5. covered \subseteq covered' /\ missed \subseteq missed'
    <3>1. \A c \in 1 .. Tip : /\ c \in 1 .. Tip'
                              /\ Covered(c) => Covered(c)'
                              /\ Missed(c) => Missed(c)'
      BY <1>1, <2>3, <2>4 DEF Covered, Missed
    <3> QED BY <3>1
  <2> QED BY <1>2, <2>4, <2>5
<1>8. CASE Rerun \/ Start \/ RestoreCache \/ PreparePorts \/ UpdateMirrorDB
           \/ UpdatePortIndex \/ SavePortIndex \/ UpdateSQL \/ UNCHANGED vars
  <2>1. UNCHANGED <<tree, distfiles, reported, moved, lost, dbLast, server, lossy>>
    BY <1>8 DEF Rerun, Start, RestoreCache, PreparePorts, UpdateMirrorDB,
                UpdatePortIndex, SavePortIndex, UpdateSQL, vars
  <2> QED BY <2>1, <1>4
<1>9. CASE DetermineRange \/ MirrorPorts \/ UploadDistfiles
  <2>1. /\ tree' = tree /\ UNCHANGED <<dbLast, server, lossy>>
        /\ distfiles \subseteq distfiles' /\ reported \subseteq reported'
        /\ moved \subseteq moved' /\ lost \subseteq lost'
    BY <1>9 DEF DetermineRange, RangeFrom, MirrorPorts, UploadDistfiles
  <2> QED BY <2>1, <1>2, <1>3
<1>10. CASE DeployPortIndex
  <2>1. run.tarball.commit = run.sha /\ run.sha \in Base .. Tip
    BY <1>10 DEF DeployPortIndex, IInv, TypeOK, RunIndexInv
  <2> QED BY <1>5, <1>10, <2>1 DEF DeployPortIndex
<1>11. CASE UpdateStatus
  BY <1>6, <1>11 DEF UpdateStatus
<1>12. CASE Fail
  <2>1. UNCHANGED <<tree, reported, moved, lost>>
    BY <1>12 DEF Fail
  <2>2. CASE UNCHANGED <<distfiles, dbLast, server, lossy>>
    BY <1>4, <2>1, <2>2
  <2>3. CASE /\ \E some \in SUBSET run.got : distfiles' = distfiles \cup some
             /\ UNCHANGED <<dbLast, server, lossy>>
    <3>1. distfiles \subseteq distfiles'
      BY <2>3
    <3> QED BY <1>2, <1>3, <2>1, <2>3, <3>1
  <2>4. CASE /\ pc = "deploy" /\ server' = Store(server, run.tarball)
             /\ UNCHANGED <<dbLast, distfiles, lossy>>
    <3>1. run.tarball.commit = run.sha /\ run.sha \in Base .. Tip
      BY <2>4 DEF IInv, TypeOK, RunIndexInv
    <3> QED BY <1>5, <2>1, <2>4, <3>1
  <2>5. CASE /\ pc = "commit" /\ dbLast' = run.sha /\ lossy' = (lossy \/ run.guessed)
             /\ UNCHANGED <<distfiles, server>>
    BY <1>6, <2>1, <2>5
  <2> QED BY <1>12, <2>2, <2>3, <2>4, <2>5 DEF Fail
<1> QED BY <1>7, <1>8, <1>9, <1>10, <1>11, <1>12 DEF Next, Job

\* The workflow keeps the ledger's promise for every history of pushes,
\* failures and re-runs.
THEOREM ImplementsLedger == Spec => LedgerSpec
BY InitLedger, StepLedger, Invariance, PTL DEF Spec, LedgerSpec, Ledger!Spec
=============================================================================
