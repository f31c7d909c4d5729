------------------------- MODULE PullRequestProofs --------------------------
(* Why the colour of the job is right for the subports it listed, for every  *)
(* number of directories, subports and failing commands; and why, in the     *)
(* index that bootstrap.sh leaves to the job, a wrong entry has one of the   *)
(* four causes of IndexIsHead.                                               *)
EXTENDS PullRequestBuild, BootstrapIndex, TLAPS

-----------------------------------------------------------------------------
Looping == {"next", "deps", "install", "test"}
Linted(s) == lint[s] \in {"ok", "warning"}

Marks == {"lint", "build", "test"} \X Subports \X
             {"passed", "warned", "failed", "no dependencies", "built"}

\* One more mark keeps the type of the summary.
LEMMA OneMark ==
    ASSUME TypeOK, NEW step \in {"lint", "build", "test"}, NEW s \in Subports,
           NEW m \in {"passed", "warned", "failed", "no dependencies", "built"},
           summary' = summary \cup {<<step, s, m>>}
    PROVE  summary' \subseteq Marks
  <1>1. <<step, s, m>> \in Marks
    BY DEF Marks
  <1>2. summary \subseteq Marks
    BY DEF TypeOK, Marks
  <1> QED
    BY <1>1, <1>2

-----------------------------------------------------------------------------
(* The inductive invariant. *)

\* The subports the lint loop has been over have their verdicts, and the shell
\* variable fail says whether one of them is an error.
LintInv ==
    pc = "lint" =>
        /\ \A s \in subportlist \ todo : lint[s] # "none"
        /\ fail = 0 => \A s \in subportlist \ todo : Linted(s)
        /\ fail = 1 => \E s \in subportlist \ todo : LintError(s)

\* The build step begins only when all are linted, and fail then speaks of
\* the subports its loop has been over.
BuildInv ==
    /\ \A s \in Subports : install[s] = "ok" => deps[s] # "none"
    /\ pc \in Looping =>
        /\ \A s \in subportlist : Linted(s)
        /\ \A s \in subportlist \ todo : deps[s] # "none"
        /\ fail = 0 => \A s \in subportlist \ todo : install[s] = "ok"
        /\ fail = 1 => \E s \in subportlist \ todo : Failed(s)

\* What is true of the subports once the steps have ended.
EndInv ==
    /\ pc \notin {"archive", "end"} => job = "running"
    /\ pc = "end" => job # "running"
    /\ pc \in {"archive", "end"} /\ job # "failure" =>
          \A s \in subportlist : Linted(s) /\ install[s] = "ok"
    /\ job = "failure" => faults > 0 \/ \E s \in Subports : Failed(s)
    /\ pc \in {"archive", "end"} /\ faults = 0 =>
          /\ \A s \in subportlist : lint[s] # "none"
          /\ \/ \E s \in subportlist : LintError(s)
             \/ \A s \in subportlist : deps[s] # "none"

IInv == TypeOK /\ LintInv /\ BuildInv /\ EndInv

LEMMA InitIInv == Init => IInv
  <1> SUFFICES ASSUME Init PROVE IInv
    OBVIOUS
  <1>1. TypeOK
    BY DEF Init, TypeOK, Untried
  <1>2. LintInv /\ BuildInv /\ EndInv
    BY DEF Init, LintInv, BuildInv, EndInv, Looping
  <1> QED
    BY <1>1, <1>2 DEF IInv

-----------------------------------------------------------------------------
(* The steps of the lists and of the lint loop. *)

LEMMA ListPortsStep ==
    ASSUME IInv, ListPorts PROVE IInv'
  <1> USE DEF IInv
  <1>1. portlist' \subseteq Dirs /\ faults' \in Nat
    <2>1. faults \in Nat
      BY DEF TypeOK
    <2>2. CASE portlist' = {d \in Dirs : changed[d] \in {"A", "M"}} /\ UNCHANGED faults
      BY <2>1, <2>2
    <2>3. CASE faults' = faults + 1 /\ portlist' = {}
      BY <2>1, <2>3
    <2> QED
      BY <2>2, <2>3 DEF ListPorts
  <1>2. /\ pc = "portlist" /\ pc' = "subports"
        /\ UNCHANGED <<changed, subportlist, todo, fail, testFail, lint, deps,
                       install, test, summary, job>>
    BY DEF ListPorts, verdicts
  <1>3. TypeOK'
    BY <1>1, <1>2 DEF TypeOK
  <1>4. LintInv' /\ BuildInv' /\ EndInv'
    BY <1>2 DEF LintInv, BuildInv, EndInv, Looping
  <1> QED
    BY <1>3, <1>4

LEMMA ListSubportsStep ==
    ASSUME IInv, ListSubports PROVE IInv'
  <1> USE DEF IInv
  <1> DEFINE all == UNION {SubportsOf[d] : d \in portlist}
  <1>1. all \subseteq Subports
    <2>1. portlist \subseteq Dirs
      BY DEF TypeOK
    <2>2. \A d \in portlist : SubportsOf[d] \subseteq Subports
      BY <2>1, SubportAssumption
    <2> QED
      BY <2>2
  <1>2. subportlist' \subseteq Subports /\ faults' \in Nat
    <2>1. faults \in Nat
      BY DEF TypeOK
    <2>2. \/ subportlist' = all /\ faults' = faults
          \/ faults' = faults + 1 /\ subportlist' \in SUBSET all
      BY DEF ListSubports
    <2> HIDE DEF all
    <2> QED
      BY <1>1, <2>1, <2>2
  <1>3. /\ pc = "subports" /\ pc' = "lint" /\ todo' = subportlist' /\ fail' = 0
        /\ UNCHANGED <<changed, portlist, testFail, lint, deps, install, test,
                       summary, job>>
    BY DEF ListSubports, verdicts
  <1>4. TypeOK'
    BY <1>2, <1>3 DEF TypeOK
  <1>5. LintInv' /\ BuildInv' /\ EndInv'
    BY <1>3 DEF LintInv, BuildInv, EndInv, Looping
  <1> QED
    BY <1>4, <1>5

\* What port lint does sets fail, and what it says chooses the mark.
LintMark(r) == IF r \in {"ok", "silent"} THEN "passed"
               ELSE IF fail' = 1 THEN "failed" ELSE "warned"

LEMMA LintCases ==
    ASSUME NEW s \in Subports, Lint(s)
    PROVE  \E r \in {"ok", "warning", "error", "silent"} :
              /\ lint' = [lint EXCEPT ![s] = r]
              /\ fail' = IF r \in {"error", "silent"} THEN 1 ELSE fail
              /\ summary' = summary \cup {<<"lint", s, LintMark(r)>>}
              /\ LintMark(r) \in {"passed", "failed", "warned"}
  <1>1. PICK succeeds \in BOOLEAN, messages \in BOOLEAN :
            /\ lint' = [lint EXCEPT ![s] = LintResult(succeeds, messages)]
            /\ fail' = IF succeeds THEN fail ELSE 1
            /\ summary' = summary \cup
                 {<<"lint", s, IF ~messages THEN "passed"
                               ELSE IF fail' = 1 THEN "failed" ELSE "warned">>}
    BY DEF Lint
  <1> DEFINE r == LintResult(succeeds, messages)
  <1>2. /\ r \in {"ok", "warning", "error", "silent"}
        /\ r \in {"error", "silent"} <=> ~succeeds
        /\ r \in {"ok", "silent"} <=> ~messages
    BY DEF LintResult
  <1>3. LintMark(r) = IF ~messages THEN "passed"
                      ELSE IF fail' = 1 THEN "failed" ELSE "warned"
    BY <1>2 DEF LintMark
  <1> QED
    BY <1>1, <1>2, <1>3

LEMMA LintStep ==
    ASSUME IInv, NEW s \in Subports, Lint(s) PROVE IInv'
  <1> USE DEF IInv
  <1>1. PICK r \in {"ok", "warning", "error", "silent"} :
            /\ lint' = [lint EXCEPT ![s] = r]
            /\ fail' = IF r \in {"error", "silent"} THEN 1 ELSE fail
            /\ \E m \in {"passed", "failed", "warned"} :
                  summary' = summary \cup {<<"lint", s, m>>}
    BY LintCases
  <1>2. /\ pc = "lint" /\ s \in todo /\ todo' = todo \ {s}
        /\ UNCHANGED <<changed, pc, portlist, subportlist, testFail, deps, install,
                       test, job, faults>>
    BY DEF Lint
  <1>3. /\ lint'[s] = r /\ \A x \in Subports : x # s => lint'[x] = lint[x]
        /\ lint' \in [Subports -> {"none", "ok", "warning", "error", "silent"}]
    BY <1>1 DEF TypeOK
  <1>4. fail' \in {0, 1} /\ (fail' = 0 <=> fail = 0 /\ r \notin {"error", "silent"})
    <2>1. fail \in {0, 1}
      BY DEF TypeOK
    <2> QED
      BY <1>1, <2>1
  <1>5. TypeOK'
    <2>1. PICK m \in {"passed", "failed", "warned"} : summary' = summary \cup {<<"lint", s, m>>}
      BY <1>1
    <2>2. summary' \subseteq Marks
      BY <2>1, OneMark
    <2> QED
      BY <1>2, <1>3, <1>4, <2>2 DEF TypeOK, Marks
  <1>6. LintInv'
    <2>1. subportlist \subseteq Subports /\ s \in subportlist
      BY <1>2 DEF TypeOK
    <2>2. \A x \in subportlist' \ todo' : x = s \/ (x \in subportlist \ todo /\ x # s)
      BY <1>2
    <2>3. \A x \in subportlist' \ todo' : lint'[x] # "none"
      BY <1>2, <1>3, <2>1, <2>2 DEF LintInv
    <2>4. fail' = 0 => \A x \in subportlist' \ todo' : Linted(x)'
      BY <1>2, <1>3, <1>4, <2>1, <2>2 DEF LintInv, Linted
    <2>5. fail' = 1 => \E x \in subportlist' \ todo' : LintError(x)'
      <3>1. CASE r \in {"error", "silent"}
        BY <1>2, <1>3, <2>1, <3>1 DEF LintError
      <3>2. CASE fail = 1
        BY <1>2, <1>3, <2>1, <3>2 DEF LintInv, LintError
      <3> QED
        BY <1>1, <3>1, <3>2
    <2> QED
      BY <2>3, <2>4, <2>5 DEF LintInv
  <1>7. BuildInv' /\ EndInv'
    BY <1>2 DEF BuildInv, EndInv, Looping
  <1> QED
    BY <1>5, <1>6, <1>7

LEMMA EndLintStep ==
    ASSUME IInv, EndLint PROVE IInv'
  <1> USE DEF IInv
  <1>1. /\ pc = "lint" /\ todo = {}
        /\ UNCHANGED <<changed, portlist, subportlist, fail, testFail, lint, deps,
                       install, test, summary, faults>>
        /\ subportlist \subseteq Subports /\ fail \in {0, 1}
    BY DEF EndLint, TypeOK, verdicts
  <1>2. CASE fail = 1
    <2>1. pc' = "archive" /\ job' = "failure" /\ todo' = {}
      BY <1>1, <1>2 DEF EndLint
    <2>2. \E s \in subportlist : LintError(s)
      BY <1>1, <1>2 DEF LintInv
    <2>3. TypeOK'
      BY <1>1, <2>1 DEF TypeOK
    <2>4. LintInv' /\ BuildInv'
      BY <1>1, <2>1 DEF LintInv, BuildInv, Looping
    <2>5. EndInv'
      BY <1>1, <2>1, <2>2 DEF EndInv, LintInv, Failed, LintError
    <2> QED
      BY <2>3, <2>4, <2>5
  <1>3. CASE fail = 0
    <2>1. pc' = "next" /\ todo' = subportlist /\ job' = job
      BY <1>1, <1>3 DEF EndLint
    <2>2. TypeOK'
      BY <1>1, <2>1 DEF TypeOK
    <2>3. LintInv' /\ BuildInv' /\ EndInv'
      BY <1>1, <1>3, <2>1 DEF LintInv, BuildInv, EndInv, Linted, Looping
    <2> QED
      BY <2>2, <2>3
  <1> QED
    BY <1>1, <1>2, <1>3

-----------------------------------------------------------------------------
(* The steps of the build loop. *)

LEMMA CleanUpStep ==
    ASSUME IInv, CleanUp PROVE IInv'
  <1> USE DEF IInv
  <1>1. /\ pc = "next" /\ pc' = "deps" /\ todo # {}
        /\ UNCHANGED <<changed, portlist, subportlist, todo, fail, testFail, lint, deps,
                       install, test, summary, job, faults>>
    BY DEF CleanUp, verdicts
  <1>2. TypeOK'
    BY <1>1 DEF TypeOK
  <1>3. LintInv' /\ BuildInv' /\ EndInv'
    BY <1>1 DEF LintInv, BuildInv, EndInv, Linted, Failed, Looping, LintError
  <1> QED
    BY <1>2, <1>3

\* A subport that has failed, or whose tests are over, leaves the loop's list.
LEMMA LeaveLoop ==
    ASSUME IInv, pc \in Looping, pc' = "next", NEW s \in todo, todo' = todo \ {s},
           UNCHANGED <<subportlist, lint, job, faults>>,
           \A x \in Subports : x # s => deps'[x] = deps[x] /\ install'[x] = install[x],
           deps'[s] # "none",
           \/ fail' = fail /\ install'[s] = "ok" /\ deps'[s] = deps[s] /\ install'[s] = install[s]
           \/ fail' = 1 /\ Failed(s)'
    PROVE  LintInv' /\ BuildInv' /\ EndInv'
  <1> USE DEF IInv
  <1>1. subportlist \subseteq Subports /\ s \in subportlist /\ fail \in {0, 1}
    BY DEF TypeOK
  <1>2. \A x \in subportlist' \ todo' : x = s \/ (x \in subportlist \ todo /\ x # s)
    OBVIOUS
  <1>3. \A x \in subportlist \ todo : Failed(x) => Failed(x)'
    BY <1>1 DEF Failed, LintError
  <1>4. BuildInv'
    BY <1>1, <1>2, <1>3 DEF BuildInv, Linted, Looping
  <1> QED
    BY <1>4 DEF LintInv, EndInv, Looping

\* A subport that succeeds in a command stays in the list for the next one.
LEMMA StayInLoop ==
    ASSUME IInv, pc \in Looping, pc' \in Looping, NEW s \in todo,
           UNCHANGED <<subportlist, todo, fail, lint, job, faults>>,
           \A x \in Subports : x # s => deps'[x] = deps[x] /\ install'[x] = install[x],
           deps'[s] # "none"
    PROVE  LintInv' /\ BuildInv' /\ EndInv'
  <1> USE DEF IInv
  <1>1. subportlist \subseteq Subports
    BY DEF TypeOK
  <1>2. \A x \in subportlist \ todo : Failed(x) => Failed(x)'
    BY <1>1 DEF Failed, LintError
  <1>3. BuildInv'
    BY <1>1, <1>2 DEF BuildInv, Linted, Looping
  <1> QED
    BY <1>3 DEF LintInv, EndInv, Looping

\* Noting a failure only touches the loop's list, the mark and fail.
LEMMA NoteFailureTypes ==
    ASSUME TypeOK, NEW s \in Subports, NEW mark \in {"failed", "no dependencies"},
           NoteFailure(s, mark)
    PROVE  /\ fail' = 1 /\ pc' = "next" /\ todo' = todo \ {s}
           /\ summary' \subseteq Marks
  <1>1. summary' = summary \cup {<<"build", s, mark>>}
    BY DEF NoteFailure
  <1>2. summary' \subseteq Marks
    BY <1>1, OneMark
  <1> QED
    BY <1>2 DEF NoteFailure

LEMMA DependenciesStep ==
    ASSUME IInv, NEW s \in Subports, InstallDependencies(s) PROVE IInv'
  <1> USE DEF IInv
  <1>1. /\ pc = "deps" /\ s \in todo
        /\ UNCHANGED <<changed, portlist, subportlist, testFail, lint, install, test,
                       job, faults>>
    BY DEF InstallDependencies
  <1>2. PICK r \in {"ok", "error"} :
            /\ deps' = [deps EXCEPT ![s] = r]
            /\ IF r = "ok"
                 THEN pc' = "install" /\ UNCHANGED <<fail, summary, todo>>
                 ELSE NoteFailure(s, "no dependencies")
    BY DEF InstallDependencies
  <1>3. /\ deps'[s] = r /\ \A x \in Subports : x # s => deps'[x] = deps[x]
        /\ deps' \in [Subports -> {"none", "ok", "error"}]
    BY <1>2 DEF TypeOK
  <1>4. CASE r = "ok"
    <2>1. pc' = "install" /\ UNCHANGED <<fail, summary, todo>>
      BY <1>2, <1>4
    <2>2. TypeOK'
      BY <1>1, <1>3, <1>4, <2>1 DEF TypeOK
    <2>3. LintInv' /\ BuildInv' /\ EndInv'
      BY <1>1, <1>3, <2>1, StayInLoop DEF Looping
    <2> QED
      BY <2>2, <2>3
  <1>5. CASE r = "error"
    <2>1. /\ fail' = 1 /\ pc' = "next" /\ todo' = todo \ {s}
          /\ summary' \subseteq Marks
      BY <1>2, <1>5, NoteFailureTypes
    <2>2. TypeOK'
      BY <1>1, <1>3, <2>1 DEF TypeOK, Marks
    <2>3. Failed(s)'
      BY <1>3, <1>5 DEF Failed
    <2>4. LintInv' /\ BuildInv' /\ EndInv'
      BY <1>1, <1>3, <1>5, <2>1, <2>3, LeaveLoop DEF Looping
    <2> QED
      BY <2>2, <2>4
  <1> QED
    BY <1>4, <1>5

LEMMA InstallStep ==
    ASSUME IInv, NEW s \in Subports, InstallPort(s) PROVE IInv'
  <1> USE DEF IInv
  <1>1. /\ pc = "install" /\ s \in todo /\ deps[s] = "ok"
        /\ UNCHANGED <<changed, portlist, subportlist, testFail, lint, deps, test,
                       job, faults>>
    BY DEF InstallPort
  <1>2. PICK r \in {"ok", "error"} :
            /\ install' = [install EXCEPT ![s] = r]
            /\ IF r = "ok"
                 THEN /\ pc' = "test"
                      /\ summary' = summary \cup {<<"build", s, "built">>}
                      /\ UNCHANGED <<fail, todo>>
                 ELSE NoteFailure(s, "failed")
    BY DEF InstallPort
  <1>3. /\ install'[s] = r /\ \A x \in Subports : x # s => install'[x] = install[x]
        /\ install' \in [Subports -> {"none", "ok", "error"}]
    BY <1>2 DEF TypeOK
  <1>4. CASE r = "ok"
    <2>1. /\ pc' = "test" /\ UNCHANGED <<fail, todo>>
          /\ summary' = summary \cup {<<"build", s, "built">>}
      BY <1>2, <1>4
    <2>2. summary' \subseteq Marks
      BY <2>1, OneMark
    <2>3. TypeOK'
      BY <1>1, <1>3, <1>4, <2>1, <2>2 DEF TypeOK, Marks
    <2>4. LintInv' /\ BuildInv' /\ EndInv'
      BY <1>1, <1>3, <2>1, StayInLoop DEF Looping
    <2> QED
      BY <2>3, <2>4
  <1>5. CASE r = "error"
    <2>1. /\ fail' = 1 /\ pc' = "next" /\ todo' = todo \ {s}
          /\ summary' \subseteq Marks
      BY <1>2, <1>5, NoteFailureTypes
    <2>2. TypeOK'
      BY <1>1, <1>3, <2>1 DEF TypeOK, Marks
    <2>3. Failed(s)'
      BY <1>3, <1>5 DEF Failed
    <2>4. LintInv' /\ BuildInv' /\ EndInv'
      BY <1>1, <1>3, <1>5, <2>1, <2>3, LeaveLoop DEF Looping
    <2> QED
      BY <2>2, <2>4
  <1> QED
    BY <1>4, <1>5

LEMMA TestStep ==
    ASSUME IInv, NEW s \in Subports, TestPort(s) PROVE IInv'
  <1> USE DEF IInv
  <1>1. /\ pc = "test" /\ pc' = "next" /\ s \in todo /\ todo' = todo \ {s}
        /\ install[s] = "ok"
        /\ UNCHANGED <<changed, portlist, subportlist, fail, lint, deps, install, job, faults>>
    BY DEF TestPort
  <1>2. PICK r \in SUBSET {"failed", "warned"} :
            /\ test' = [test EXCEPT ![s] = {"done"} \cup r]
            /\ testFail' = IF "failed" \in r THEN 1 ELSE 0
            /\ summary' = summary \cup TestMarks(s, r, testFail')
    BY DEF TestPort
  <1>3. test' \in [Subports -> SUBSET {"done", "failed", "warned"}] /\ testFail' \in {0, 1}
    <2>1. test \in [Subports -> SUBSET {"done", "failed", "warned"}]
      BY DEF TypeOK
    <2>2. {"done"} \cup r \in SUBSET {"done", "failed", "warned"}
      OBVIOUS
    <2> QED
      BY <1>2, <2>1, <2>2
  <1>4. summary' \subseteq Marks
    <2>1. \A m \in {"failed", "warned", "passed"} : <<"test", s, m>> \in Marks
      BY DEF Marks
    <2>2. TestMarks(s, r, testFail') \subseteq Marks
      BY <2>1 DEF TestMarks
    <2>3. summary \subseteq Marks
      BY DEF TypeOK, Marks
    <2> QED
      BY <1>2, <2>2, <2>3
  <1>5. TypeOK'
    BY <1>1, <1>3, <1>4 DEF TypeOK, Marks
  <1>6. deps[s] # "none"
    BY <1>1 DEF BuildInv
  <1>7. LintInv' /\ BuildInv' /\ EndInv'
    BY <1>1, <1>6, LeaveLoop DEF Looping
  <1> QED
    BY <1>5, <1>7

-----------------------------------------------------------------------------
(* The ends of the steps. *)

LEMMA EndBuildStep ==
    ASSUME IInv, EndBuild PROVE IInv'
  <1> USE DEF IInv
  <1>1. /\ pc = "next" /\ todo = {} /\ pc' = "archive"
        /\ job' = IF fail = 1 THEN "failure" ELSE job
        /\ UNCHANGED <<changed, portlist, subportlist, todo, fail, testFail, lint, deps,
                       install, test, summary, faults>>
        /\ subportlist \subseteq Subports /\ fail \in {0, 1}
    BY DEF EndBuild, TypeOK, verdicts
  <1>2. TypeOK'
    BY <1>1 DEF TypeOK
  <1>3. LintInv' /\ BuildInv'
    BY <1>1 DEF LintInv, BuildInv, Looping
  <1>4. /\ \A s \in subportlist : Linted(s) /\ deps[s] # "none"
        /\ fail = 0 => \A s \in subportlist : install[s] = "ok"
        /\ fail = 1 => \E s \in subportlist : Failed(s)
    BY <1>1 DEF BuildInv, Looping
  <1>5. EndInv'
    BY <1>1, <1>4 DEF EndInv, Linted, Failed, LintError
  <1> QED
    BY <1>2, <1>3, <1>5

LEMMA AbortStep ==
    ASSUME IInv, Abort PROVE IInv'
  <1> USE DEF IInv
  <1>1. /\ pc \notin {"archive", "end"} /\ pc' = "archive" /\ job' = "failure"
        /\ faults' = faults + 1 /\ faults \in Nat
        /\ UNCHANGED <<changed, portlist, subportlist, todo, fail, testFail, lint, deps,
                       install, test, summary>>
    BY DEF Abort, TypeOK, verdicts
  <1>2. TypeOK'
    <2>1. faults' \in Nat /\ job' \in {"running", "success", "failure"}
      BY <1>1
    <2> QED
      BY <1>1, <2>1 DEF TypeOK
  <1>3. LintInv' /\ BuildInv'
    BY <1>1 DEF LintInv, BuildInv, Looping
  <1>4. EndInv'
    BY <1>1 DEF EndInv
  <1> QED
    BY <1>2, <1>3, <1>4

LEMMA ArchiveStep ==
    ASSUME IInv, Archive PROVE IInv'
  <1> USE DEF IInv
  <1>1. /\ pc = "archive" /\ pc' = "end"
        /\ job' = IF job = "running" THEN "success" ELSE job
        /\ UNCHANGED <<changed, portlist, subportlist, todo, fail, testFail, lint, deps,
                       install, test, summary, faults>>
    BY DEF Archive, verdicts
  <1>2. TypeOK'
    <2>1. job' \in {"running", "success", "failure"}
      BY <1>1 DEF TypeOK
    <2> QED
      BY <1>1, <2>1 DEF TypeOK
  <1>3. LintInv' /\ BuildInv'
    BY <1>1 DEF LintInv, BuildInv, Looping
  <1>4. EndInv'
    BY <1>1 DEF EndInv, Linted, Failed, LintError
  <1> QED
    BY <1>2, <1>3, <1>4

LEMMA Inductive == IInv /\ [Next]_vars => IInv'
  <1> SUFFICES ASSUME IInv, [Next]_vars PROVE IInv'
    OBVIOUS
  <1>1. CASE Next
    BY <1>1, ListPortsStep, ListSubportsStep, LintStep, EndLintStep, CleanUpStep,
       DependenciesStep, InstallStep, TestStep, EndBuildStep, AbortStep, ArchiveStep
       DEF Next
  <1>2. CASE UNCHANGED vars
    <2>1. /\ UNCHANGED <<changed, pc, portlist, subportlist, todo, fail, testFail>>
          /\ UNCHANGED <<lint, deps, install, test, summary, job, faults>>
      BY <1>2 DEF vars, verdicts
    <2>2. TypeOK'
      BY <2>1 DEF IInv, TypeOK
    <2>3. LintInv' /\ BuildInv' /\ EndInv'
      BY <2>1 DEF IInv, LintInv, BuildInv, EndInv, Linted, Failed, LintError
    <2> QED
      BY <2>2, <2>3 DEF IInv
  <1> QED
    BY <1>1, <1>2

\* The invariant holds of every run of the job.
THEOREM Invariance == Spec => []IInv
  <1> QED
    BY InitIInv, Inductive, PTL DEF Spec

\* No variable leaves its type, and the loop works on one subport at a time.
THEOREM TypeCorrect == Spec => []TypeOK
  <1>1. IInv => TypeOK
    BY DEF IInv
  <1> QED
    BY <1>1, Invariance, PTL

\* A green job has linted and installed all it listed, however many subports
\* there are and in whatever order the loops take them.
THEOREM GreenBuilt == Spec => []GreenIsBuilt
  <1>1. IInv => GreenIsBuilt
    BY DEF IInv, EndInv, Linted, GreenIsBuilt
  <1> QED
    BY <1>1, Invariance, PTL

\* A red job has a reason.
THEOREM RedReason == Spec => []RedHasReason
  <1>1. IInv => RedHasReason
    BY DEF IInv, EndInv, RedHasReason
  <1> QED
    BY <1>1, Invariance, PTL

\* A job that was not aborted has tried every subport it listed.
THEOREM AllTried == Spec => []EveryPortTried
  <1>1. IInv => EveryPortTried
    BY DEF IInv, EndInv, EveryPortTried
  <1> QED
    BY <1>1, Invariance, PTL

\* The colour of the job tells all three.
THEOREM ColourRight == Spec => []ColourIsRight
  BY GreenBuilt, RedReason, AllTried, PTL DEF ColourIsRight

-----------------------------------------------------------------------------
(* The lists. *)

\* With no command failed, the lists are of all that the pull request adds or
\* changes.
ListInv ==
    faults = 0 =>
        /\ pc # "portlist" => portlist = {d \in Dirs : changed[d] \in {"A", "M"}}
        /\ pc \notin {"portlist", "subports"} =>
              subportlist = UNION {SubportsOf[d] : d \in portlist}

LEMMA InitListInv == Init => ListInv
  BY DEF Init, ListInv

\* The listing steps make the lists, and what comes after keeps them.
LEMMA ListInductive == IInv /\ ListInv /\ [Next]_vars => ListInv'
  <1> SUFFICES ASSUME IInv, ListInv, [Next]_vars PROVE ListInv'
    OBVIOUS
  <1> USE DEF ListInv
  <1>1. faults \in Nat
    BY DEF IInv, TypeOK
  <1>2. CASE ListPorts
    BY <1>1, <1>2 DEF ListPorts
  <1>3. CASE ListSubports
    BY <1>1, <1>3 DEF ListSubports
  <1>4. ASSUME pc \notin {"portlist", "subports"},
               UNCHANGED <<changed, portlist, subportlist, faults>>
        PROVE  ListInv'
    BY <1>4
  <1>5. CASE \E s \in Subports : Lint(s) \/ InstallDependencies(s) \/ InstallPort(s) \/ TestPort(s)
    BY <1>4, <1>5 DEF Lint, InstallDependencies, InstallPort, TestPort
  <1>6. CASE EndLint \/ CleanUp \/ EndBuild \/ Archive
    BY <1>4, <1>6 DEF EndLint, CleanUp, EndBuild, Archive
  <1>7. CASE Abort
    BY <1>1, <1>7 DEF Abort
  <1>8. CASE UNCHANGED vars
    BY <1>8 DEF vars
  <1> QED
    BY <1>2, <1>3, <1>5, <1>6, <1>7, <1>8 DEF Next

\* A green job has built every subport of the ports that the pull request adds
\* or changes, unless a command failed.
THEOREM ChangedBuilt == Spec => []ChangedPortsBuilt
  <1>1. IInv /\ ListInv => ChangedPortsBuilt
    <2> SUFFICES ASSUME IInv, ListInv, job = "success", faults = 0
                 PROVE  \A d \in Dirs : changed[d] \in {"A", "M"} =>
                            \A s \in SubportsOf[d] : install[s] = "ok"
      BY DEF ChangedPortsBuilt
    <2>1. pc \in {"archive", "end"} /\ \A s \in subportlist : install[s] = "ok"
      BY DEF IInv, TypeOK, EndInv
    <2>2. subportlist = UNION {SubportsOf[d] : d \in {d \in Dirs : changed[d] \in {"A", "M"}}}
      BY <2>1 DEF ListInv
    <2> QED
      BY <2>1, <2>2
  <1>2. Spec => []ListInv
    BY InitListInv, ListInductive, Invariance, PTL DEF Spec
  <1> QED
    BY <1>1, <1>2, Invariance, PTL

-----------------------------------------------------------------------------
(* The marks of the summary. *)

MarkOf(step, s, m) == <<step, s, m>> \in summary

\* A subport has marks for its tests only once they were run, and those of its
\* own result; what the loop has still to do was not tested.
TestInv ==
    /\ \A s \in Subports : test[s] = {} =>
          ~MarkOf("test", s, "failed") /\ ~MarkOf("test", s, "warned") /\ ~MarkOf("test", s, "passed")
    /\ \A s \in Subports : test[s] # {} =>
          /\ MarkOf("test", s, "failed") <=> "failed" \in test[s]
          /\ MarkOf("test", s, "warned") <=> "warned" \in test[s]
          /\ MarkOf("test", s, "passed") <=> test[s] = {"done"}
    /\ pc \in {"portlist", "subports", "lint"} => \A s \in Subports : test[s] = {}
    /\ pc \in Looping => \A s \in todo : test[s] = {}

\* The same of linting, where a warning may be marked as a failure after an
\* error of another, and a failure that says nothing is marked as passed.
LintMarkInv ==
    /\ \A s \in Subports :
          /\ lint[s] = "none" =>
                ~MarkOf("lint", s, "failed") /\ ~MarkOf("lint", s, "warned") /\ ~MarkOf("lint", s, "passed")
          /\ lint[s] # "none" => (MarkOf("lint", s, "passed") <=> lint[s] \in {"ok", "silent"})
          /\ lint[s] # "warning" => ~MarkOf("lint", s, "warned")
          /\ lint[s] \in {"ok", "silent"} => ~MarkOf("lint", s, "failed")
          /\ lint[s] = "error" => MarkOf("lint", s, "failed")
          /\ lint[s] = "warning" =>
                \/ MarkOf("lint", s, "warned") /\ ~MarkOf("lint", s, "failed")
                \/ /\ MarkOf("lint", s, "failed") /\ ~MarkOf("lint", s, "warned")
                   /\ \E t \in Subports \ {s} : LintError(t)
    /\ pc \in {"portlist", "subports"} => \A s \in Subports : lint[s] = "none"
    /\ pc = "lint" => \A s \in todo : lint[s] = "none"

MarkInv == TestInv /\ LintMarkInv

LEMMA InitMarkInv == Init => MarkInv
  BY DEF Init, MarkInv, TestInv, LintMarkInv, MarkOf, Untried, Looping

\* A step that adds only marks of the build step, and tries nothing, keeps
\* the others true.
LEMMA MarksKept ==
    ASSUME TypeOK, MarkInv, UNCHANGED <<lint, test>>,
           \A s \in Subports : \A m \in {"failed", "warned", "passed"} :
               /\ MarkOf("test", s, m)' = MarkOf("test", s, m)
               /\ MarkOf("lint", s, m)' = MarkOf("lint", s, m),
           \/ pc \in Looping /\ pc' \in Looping /\ todo' \subseteq todo
           \/ pc' \in {"archive", "end"}
           \/ pc = "portlist" /\ pc' = "subports"
           \/ pc = "subports" /\ pc' = "lint" /\ todo' \subseteq Subports
           \/ pc = "lint" /\ pc' = "next" /\ todo' \subseteq Subports
    PROVE  MarkInv'
  <1>1. TestInv'
    BY DEF MarkInv, TestInv, Looping
  <1>2. LintMarkInv'
    BY DEF MarkInv, LintMarkInv, Looping, LintError
  <1> QED
    BY <1>1, <1>2 DEF MarkInv

LEMMA LintMarks ==
    ASSUME IInv, MarkInv, NEW s \in Subports, Lint(s) PROVE MarkInv'
  <1>1. PICK r \in {"ok", "warning", "error", "silent"} :
            /\ lint' = [lint EXCEPT ![s] = r]
            /\ fail' = IF r \in {"error", "silent"} THEN 1 ELSE fail
            /\ summary' = summary \cup {<<"lint", s, LintMark(r)>>}
    BY LintCases
  <1>2. /\ pc = "lint" /\ pc' = "lint" /\ s \in todo /\ todo' = todo \ {s} /\ test' = test
        /\ todo \subseteq Subports /\ subportlist \subseteq Subports /\ fail \in {0, 1}
    BY DEF Lint, IInv, TypeOK
  <1>3. lint'[s] = r /\ \A x \in Subports : x # s => lint'[x] = lint[x]
    BY <1>1 DEF IInv, TypeOK
  <1>4. lint[s] = "none"
    BY <1>2 DEF MarkInv, LintMarkInv
  <1>5. \A x \in Subports : \A m : MarkOf("test", x, m)' = MarkOf("test", x, m)
    BY <1>1 DEF MarkOf
  <1>6. \A x \in Subports \ {s} : \A m : MarkOf("lint", x, m)' = MarkOf("lint", x, m)
    BY <1>1 DEF MarkOf
  <1>7. \A m \in {"failed", "warned", "passed"} : MarkOf("lint", s, m)' <=> m = LintMark(r)
    <2>1. /\ ~MarkOf("lint", s, "failed") /\ ~MarkOf("lint", s, "warned")
          /\ ~MarkOf("lint", s, "passed")
      BY <1>4 DEF MarkInv, LintMarkInv
    <2>2. \A m : MarkOf("lint", s, m)' <=> MarkOf("lint", s, m) \/ m = LintMark(r)
      BY <1>1 DEF MarkOf
    <2> QED
      BY <2>1, <2>2
  <1>8. TestInv'
    BY <1>2, <1>5 DEF MarkInv, TestInv, Looping
  <1>9. r = "warning" /\ fail' = 1 => \E t \in Subports \ {s} : LintError(t)'
    <2>1. ASSUME r = "warning", fail' = 1
          PROVE  \E t \in subportlist \ todo : LintError(t)
      BY <1>1, <1>2, <2>1 DEF IInv, LintInv
    <2> QED
      BY <1>2, <1>3, <2>1 DEF LintError
  <1>10. LintMarkInv'
    <2>1. \A x \in Subports \ {s} : \A t \in Subports \ {x} : LintError(t) => LintError(t)'
      BY <1>3, <1>4 DEF LintError
    <2>2. \A x \in Subports \ {s} :
              /\ lint'[x] = lint[x]
              /\ MarkOf("lint", x, "failed")' = MarkOf("lint", x, "failed")
              /\ MarkOf("lint", x, "warned")' = MarkOf("lint", x, "warned")
              /\ MarkOf("lint", x, "passed")' = MarkOf("lint", x, "passed")
      BY <1>3, <1>6
    <2>2a. \A x \in Subports \ {s} :
              /\ lint'[x] = "none" =>
                    ~MarkOf("lint", x, "failed")' /\ ~MarkOf("lint", x, "warned")' /\ ~MarkOf("lint", x, "passed")'
              /\ lint'[x] # "none" => (MarkOf("lint", x, "passed")' <=> lint'[x] \in {"ok", "silent"})
              /\ lint'[x] # "warning" => ~MarkOf("lint", x, "warned")'
              /\ lint'[x] \in {"ok", "silent"} => ~MarkOf("lint", x, "failed")'
              /\ lint'[x] = "error" => MarkOf("lint", x, "failed")'
      BY <2>2 DEF MarkInv, LintMarkInv
    <2>2b. \A x \in Subports \ {s} : lint'[x] = "warning" =>
              \/ MarkOf("lint", x, "warned")' /\ ~MarkOf("lint", x, "failed")'
              \/ /\ MarkOf("lint", x, "failed")' /\ ~MarkOf("lint", x, "warned")'
                 /\ \E t \in Subports \ {x} : LintError(t)'
      BY <2>1, <2>2 DEF MarkInv, LintMarkInv
    <2>3. /\ MarkOf("lint", s, "failed")' <=> (r \notin {"ok", "silent"} /\ fail' = 1)
          /\ MarkOf("lint", s, "warned")' <=> (r \notin {"ok", "silent"} /\ fail' # 1)
          /\ MarkOf("lint", s, "passed")' <=> (r \in {"ok", "silent"})
      BY <1>7 DEF LintMark
    <2>4. r = "error" => fail' = 1
      BY <1>1
    <2>5. \A x \in todo' : lint'[x] = "none"
      BY <1>2, <1>3 DEF MarkInv, LintMarkInv
    <2>6. pc' = "lint"
      BY <1>2
    <2>7. lint'[s] \in {"ok", "warning", "error", "silent"}
      BY <1>3
    <2> QED
      BY <1>3, <1>9, <2>2a, <2>2b, <2>3, <2>4, <2>5, <2>6, <2>7 DEF LintMarkInv
  <1> QED
    BY <1>8, <1>10 DEF MarkInv

LEMMA TestMarksStep ==
    ASSUME IInv, MarkInv, NEW s \in Subports, TestPort(s) PROVE MarkInv'
  <1>1. PICK r \in SUBSET {"failed", "warned"} :
            /\ test' = [test EXCEPT ![s] = {"done"} \cup r]
            /\ testFail' = IF "failed" \in r THEN 1 ELSE 0
            /\ summary' = summary \cup TestMarks(s, r, testFail')
    BY DEF TestPort
  <1>2. /\ pc = "test" /\ pc' = "next" /\ s \in todo /\ todo' = todo \ {s} /\ lint' = lint
        /\ todo \subseteq Subports
    BY DEF TestPort, IInv, TypeOK
  <1>3. test'[s] = {"done"} \cup r /\ \A x \in Subports : x # s => test'[x] = test[x]
    BY <1>1 DEF IInv, TypeOK
  <1>4. test[s] = {}
    BY <1>2 DEF MarkInv, TestInv, Looping
  <1>5. \A x \in Subports : \A m : MarkOf("lint", x, m)' = MarkOf("lint", x, m)
    BY <1>1 DEF MarkOf, TestMarks
  <1>6. \A x \in Subports \ {s} : \A m : MarkOf("test", x, m)' = MarkOf("test", x, m)
    BY <1>1 DEF MarkOf, TestMarks
  <1>7. /\ MarkOf("test", s, "failed")' <=> "failed" \in r
        /\ MarkOf("test", s, "warned")' <=> "warned" \in r
        /\ MarkOf("test", s, "passed")' <=> r = {}
    <2>1. /\ ~MarkOf("test", s, "failed") /\ ~MarkOf("test", s, "warned")
          /\ ~MarkOf("test", s, "passed")
      BY <1>4 DEF MarkInv, TestInv
    <2>2. \A m \in {"failed", "warned", "passed"} :
              MarkOf("test", s, m)' = (<<"test", s, m>> \in TestMarks(s, r, testFail'))
      BY <1>1, <2>1 DEF MarkOf
    <2>3. \A m \in {"failed", "warned"} : (<<"test", s, m>> \in TestMarks(s, r, testFail')) = (m \in r)
      BY DEF TestMarks
    <2>4. (<<"test", s, "passed">> \in TestMarks(s, r, testFail')) = ("warned" \notin r /\ testFail' = 0)
      BY DEF TestMarks
    <2>5. (testFail' = 0) = ("failed" \notin r)
      BY <1>1
    <2>6. (r = {}) = ("failed" \notin r /\ "warned" \notin r)
      OBVIOUS
    <2> QED
      BY <2>2, <2>3, <2>4, <2>5, <2>6
  <1>8. /\ test'[s] # {}
        /\ "failed" \in test'[s] <=> "failed" \in r
        /\ "warned" \in test'[s] <=> "warned" \in r
        /\ test'[s] = {"done"} <=> r = {}
    <2>1. "done" \notin r
      OBVIOUS
    <2>2. \A m : m \in test'[s] <=> m = "done" \/ m \in r
      BY <1>3
    <2>3. "done" \in test'[s]
      BY <2>2
    <2>4. "failed" \in test'[s] <=> "failed" \in r
      BY <2>2
    <2>5. "warned" \in test'[s] <=> "warned" \in r
      BY <2>2
    <2>6. r = {} => test'[s] = {"done"}
      BY <1>3
    <2>7. test'[s] = {"done"} => r = {}
      BY <2>1, <2>2
    <2> QED
      BY <2>3, <2>4, <2>5, <2>6, <2>7
  <1>9. TestInv'
    <2>1. \A x \in Subports \ {s} :
              /\ test'[x] = test[x]
              /\ MarkOf("test", x, "failed")' <=> MarkOf("test", x, "failed")
              /\ MarkOf("test", x, "warned")' <=> MarkOf("test", x, "warned")
              /\ MarkOf("test", x, "passed")' <=> MarkOf("test", x, "passed")
      BY <1>3, <1>6
    <2>2. \A x \in Subports : test'[x] = {} =>
              /\ ~MarkOf("test", x, "failed")' /\ ~MarkOf("test", x, "warned")'
              /\ ~MarkOf("test", x, "passed")'
      BY <1>8, <2>1 DEF MarkInv, TestInv
    <2>3. \A x \in Subports \ {s} : test'[x] # {} =>
              /\ MarkOf("test", x, "failed")' <=> "failed" \in test'[x]
              /\ MarkOf("test", x, "warned")' <=> "warned" \in test'[x]
              /\ MarkOf("test", x, "passed")' <=> test'[x] = {"done"}
      BY <2>1 DEF MarkInv, TestInv
    <2>4. \A x \in todo' : test'[x] = {}
      BY <1>2, <1>3 DEF MarkInv, TestInv, Looping
    <2>5. pc' = "next"
      BY <1>2
    <2> QED
      BY <1>7, <1>8, <2>2, <2>3, <2>4, <2>5 DEF TestInv
  <1>10. LintMarkInv'
    BY <1>2, <1>5 DEF MarkInv, LintMarkInv, LintError
  <1> QED
    BY <1>9, <1>10 DEF MarkInv

LEMMA MarksInductive == IInv /\ MarkInv /\ [Next]_vars => MarkInv'
  <1> SUFFICES ASSUME IInv, MarkInv, [Next]_vars PROVE MarkInv'
    OBVIOUS
  <1>1. TypeOK /\ subportlist \subseteq Subports /\ todo \subseteq Subports
    BY DEF IInv, TypeOK
  <1>2. ASSUME summary' = summary
        PROVE  \A s \in Subports : \A m \in {"failed", "warned", "passed"} :
                   /\ MarkOf("test", s, m)' = MarkOf("test", s, m)
                   /\ MarkOf("lint", s, m)' = MarkOf("lint", s, m)
    BY <1>2 DEF MarkOf
  <1>3. ASSUME NEW x \in Subports, NEW mark, summary' = summary \cup {<<"build", x, mark>>}
        PROVE  \A s \in Subports : \A m \in {"failed", "warned", "passed"} :
                   /\ MarkOf("test", s, m)' = MarkOf("test", s, m)
                   /\ MarkOf("lint", s, m)' = MarkOf("lint", s, m)
    BY <1>3 DEF MarkOf
  <1>4. CASE ListPorts
    BY <1>1, <1>2, <1>4, MarksKept DEF ListPorts, verdicts
  <1>5. CASE ListSubports
    <2>1. todo' \subseteq Subports
      BY <1>5, ListSubportsStep DEF IInv, TypeOK
    <2> QED
      BY <1>1, <1>2, <1>5, <2>1, MarksKept DEF ListSubports, verdicts
  <1>6. CASE EndLint
    BY <1>1, <1>2, <1>6, MarksKept DEF EndLint, verdicts
  <1>7. CASE CleanUp
    BY <1>1, <1>2, <1>7, MarksKept DEF CleanUp, verdicts, Looping
  <1>8. CASE EndBuild \/ Abort \/ Archive
    BY <1>1, <1>2, <1>8, MarksKept DEF EndBuild, Abort, Archive, verdicts
  <1>9. ASSUME NEW s \in Subports, InstallDependencies(s) PROVE MarkInv'
    <2>1. /\ pc \in Looping /\ pc' \in Looping /\ todo' \subseteq todo /\ UNCHANGED <<lint, test>>
          /\ summary' = summary \/ summary' = summary \cup {<<"build", s, "no dependencies">>}
      BY <1>9 DEF InstallDependencies, NoteFailure, Looping
    <2> QED
      BY <1>1, <1>2, <1>3, <2>1, MarksKept
  <1>10. ASSUME NEW s \in Subports, InstallPort(s) PROVE MarkInv'
    <2>1. /\ pc \in Looping /\ pc' \in Looping /\ todo' \subseteq todo /\ UNCHANGED <<lint, test>>
          /\ \E m \in {"built", "failed"} : summary' = summary \cup {<<"build", s, m>>}
      BY <1>10 DEF InstallPort, NoteFailure, Looping
    <2> QED
      BY <1>1, <1>3, <2>1, MarksKept
  <1>11. CASE \E s \in Subports : Lint(s) \/ TestPort(s)
    BY <1>11, LintMarks, TestMarksStep
  <1>12. CASE UNCHANGED vars
    BY <1>12 DEF vars, verdicts, MarkInv, TestInv, LintMarkInv, MarkOf, LintError
  <1> QED
    BY <1>4, <1>5, <1>6, <1>7, <1>8, <1>9, <1>10, <1>11, <1>12 DEF Next

LEMMA Marked == Spec => []MarkInv
  BY InitMarkInv, MarksInductive, Invariance, PTL DEF Spec

\* The summary says of a port's tests what happened to that port.
THEOREM TestsMarkedRight == Spec => []TestMarksTrue
  <1>1. IInv /\ MarkInv => TestMarksTrue
    <2> SUFFICES ASSUME IInv, MarkInv, NEW s \in Subports, test[s] # {}
                 PROVE  {m \in {"failed", "warned", "passed"} : <<"test", s, m>> \in summary} =
                            IF test[s] = {"done"} THEN {"passed"} ELSE test[s] \ {"done"}
      BY DEF TestMarksTrue
    <2>1. test[s] \subseteq {"done", "failed", "warned"}
      BY DEF IInv, TypeOK
    <2>2. /\ <<"test", s, "failed">> \in summary <=> "failed" \in test[s]
          /\ <<"test", s, "warned">> \in summary <=> "warned" \in test[s]
          /\ <<"test", s, "passed">> \in summary <=> test[s] = {"done"}
      BY DEF MarkInv, TestInv, MarkOf
    <2>3. CASE test[s] = {"done"}
      BY <2>2, <2>3
    <2>4. CASE test[s] # {"done"}
      BY <2>1, <2>2, <2>4
    <2> QED
      BY <2>3, <2>4
  <1> QED
    BY <1>1, Marked, Invariance, PTL

\* A lint that failed is of a listed subport, and keeps every port from the
\* build loop.
SilentInv ==
    /\ \A s \in Subports : lint[s] # "none" => s \in subportlist
    /\ pc \in {"portlist", "subports", "lint"} => \A t \in Subports : deps[t] = "none"
    /\ (\E s \in Subports : LintError(s)) => \A t \in Subports : deps[t] = "none"

LEMMA SilentKept == Spec => []SilentInv
  <1>1. Init => SilentInv
    BY DEF Init, SilentInv, Untried, LintError
  <1>2. IInv /\ MarkInv /\ SilentInv /\ [Next]_vars => SilentInv'
    <2> SUFFICES ASSUME IInv, MarkInv, SilentInv, [Next]_vars PROVE SilentInv'
      OBVIOUS
    <2> USE DEF SilentInv, LintError
    <2>1. CASE ListPorts
      BY <2>1 DEF ListPorts, verdicts
    <2>2. CASE ListSubports
      BY <2>2 DEF ListSubports, verdicts, MarkInv, LintMarkInv
    <2>3. ASSUME NEW s \in Subports, Lint(s) PROVE SilentInv'
      <3>1. /\ pc = "lint" /\ pc' = "lint" /\ s \in subportlist
            /\ subportlist' = subportlist /\ deps' = deps
        BY <2>3 DEF Lint, IInv, TypeOK
      <3>2. \A x \in Subports \ {s} : lint'[x] = lint[x]
        BY <2>3 DEF Lint, IInv, TypeOK
      <3> QED
        BY <3>1, <3>2
    <2>4. CASE EndLint \/ CleanUp \/ EndBuild \/ Abort \/ Archive
      BY <2>4 DEF EndLint, CleanUp, EndBuild, Abort, Archive, verdicts
    <2>5. ASSUME NEW s \in Subports, InstallDependencies(s) PROVE SilentInv'
      <3>1. /\ pc = "deps" /\ pc' \notin {"portlist", "subports", "lint"}
            /\ UNCHANGED <<subportlist, lint>>
        BY <2>5 DEF InstallDependencies, NoteFailure
      <3>2. \A x \in Subports : ~LintError(x)
        BY <3>1 DEF IInv, BuildInv, Looping, Linted
      <3> QED
        BY <3>1, <3>2
    <2>6. ASSUME NEW s \in Subports, InstallPort(s) \/ TestPort(s) PROVE SilentInv'
      BY <2>6 DEF InstallPort, TestPort, NoteFailure
    <2>7. CASE UNCHANGED vars
      BY <2>7 DEF vars, verdicts
    <2> QED
      BY <2>1, <2>2, <2>3, <2>4, <2>5, <2>6, <2>7 DEF Next
  <1> QED
    BY <1>1, <1>2, Invariance, Marked, PTL DEF Spec

\* And of its linting, but for warnings after an error of another and failures
\* without a message, which only the colour of the job shows.
THEOREM LintsMarkedRight == Spec => []LintMarksButFor
  <1>1. IInv /\ MarkInv /\ SilentInv => LintMarksButFor
    <2> SUFFICES ASSUME IInv, MarkInv, SilentInv PROVE LintMarksButFor
      OBVIOUS
    <2> DEFINE marks(s) == {m \in {"passed", "warned", "failed"} : <<"lint", s, m>> \in summary}
    <2>1. \A s \in Subports : lint[s] \in {"none", "ok", "warning", "error", "silent"}
      BY DEF IInv, TypeOK
    <2>2. \A s \in Subports : \A m \in {"passed", "warned", "failed"} :
              m \in marks(s) <=> MarkOf("lint", s, m)
      BY DEF MarkOf
    <2>3. \A s \in Subports : marks(s) \subseteq {"passed", "warned", "failed"}
      OBVIOUS
    <2> HIDE DEF marks
    <2>4. \A s \in Subports : lint[s] = "ok" => marks(s) = {"passed"}
      BY <2>2, <2>3 DEF MarkInv, LintMarkInv
    <2>5. \A s \in Subports : lint[s] = "error" => marks(s) = {"failed"}
      BY <2>2, <2>3 DEF MarkInv, LintMarkInv
    <2>6. \A s \in Subports : lint[s] = "warning" =>
              \/ marks(s) = {"warned"}
              \/ marks(s) = {"failed"} /\ \E t \in Subports \ {s} : LintError(t)
      BY <2>2, <2>3 DEF MarkInv, LintMarkInv
    <2>7. \A s \in Subports : lint[s] = "silent" => marks(s) = {"passed"}
      BY <2>2, <2>3 DEF MarkInv, LintMarkInv
    <2>8. \A s \in Subports : lint[s] = "silent" =>
              /\ \A t \in Subports : deps[t] = "none"
              /\ pc = "end" => job = "failure"
      BY DEF SilentInv, LintError, IInv, EndInv, Linted
    <2> QED
      BY <2>1, <2>4, <2>5, <2>6, <2>7, <2>8 DEF LintMarksButFor, marks
  <1> QED
    BY <1>1, Marked, SilentKept, Invariance, PTL

\* So the marks of the summary are right.
THEOREM MarkedRight == Spec => []MarksRight
  BY TestsMarkedRight, LintsMarkedRight, PTL DEF MarksRight

-----------------------------------------------------------------------------
\* What each port's file time says at every line of the script: it is 0 until
\* a checkout changed the port, and a port no checkout has changed has the
\* same content everywhere the script has been.
Old == master[Tip - Window]
Merged == master[mergeBase]

\* The entry of p is the one of the merge base, or one of the causes holds.
AtBase(p) == index.entry[p] = Merged[p] \/ TooOld \/ TooNew \/ Late(p) \/ TakenBack(p)

PortInv(p) ==
    /\ line \in {"getopt", "base", "old"} => mtime[p] = 0
    /\ line \in {"back", "mergebase"} /\ mtime[p] = 0 => Old[p] = head[p]
    /\ line \in {"PortIndex", "indexbase"} /\ mtime[p] = 0 =>
          Old[p] = head[p] /\ Merged[p] = head[p]
    /\ line = "head" => AtBase(p)
    /\ line = "indexhead" /\ Merged[p] = head[p] => AtBase(p)
    /\ line = "head" => mtime[p] <= index.at
    /\ line = "indexhead" => IF Merged[p] = head[p] THEN mtime[p] <= index.at
                                                  ELSE mtime[p] > index.at
    /\ line = "ready" =>
          Right(p) \/ TooOld \/ TooNew \/ Late(p) \/ TakenBack(p)

ScriptInv ==
    /\ line \in {"getopt", "base", "old", "mergebase", "indexhead", "ready"} => tree = head
    /\ line = "back" => tree = Old
    /\ line \in {"PortIndex", "indexbase", "head"} => tree = Merged
    /\ line \in {"getopt", "base", "old", "back", "mergebase", "PortIndex"} => index = None
    /\ line = "indexbase" => index = None \/ index = [at |-> arrived, entry |-> master[indexed]]
    /\ line \in {"head", "indexhead"} => index.at <= clock

BootstrapInv == BootstrapTypeOK /\ ScriptInv /\ \A p \in Ports : PortInv(p)

LEMMA BootstrapInitInv == BootstrapInit => BootstrapInv
  <1> SUFFICES ASSUME BootstrapInit PROVE BootstrapInv
    OBVIOUS
  <1>1. BootstrapTypeOK
    BY WindowAssumption DEF BootstrapInit, BootstrapTypeOK, None, Files, Tree
  <1>2. ScriptInv
    BY DEF BootstrapInit, ScriptInv
  <1>3. ASSUME NEW p \in Ports PROVE PortInv(p)
    BY DEF BootstrapInit, PortInv
  <1> QED
    BY <1>1, <1>2, <1>3 DEF BootstrapInv

\* The steps of the downloads touch nothing the invariant is about but the
\* time of arrival, and that only while nothing depends on it.
LEMMA DownloadStep ==
    ASSUME BootstrapInv, NEW f \in Files, Arrive(f) \/ Lose(f)
    PROVE  BootstrapInv'
  <1> USE DEF BootstrapInv
  <1>1. /\ UNCHANGED <<repo, line, tree, mtime, index>>
        /\ clock \in Nat /\ clock' \in {clock, clock + 1}
        /\ arrived' \in {arrived, clock'}
        /\ arrived' = arrived \/ f = "PortIndex"
        /\ download[f] = "running"
        /\ download' \in [Files -> {"running", "here", "failed"}]
        /\ \A g \in Files \ {f} : download'[g] = download[g]
    BY DEF Arrive, Lose, BootstrapTypeOK, Files
  <1>2. BootstrapTypeOK'
    <2>1. /\ (master \in [1 .. Tip -> Tree] /\ head \in Tree /\ tree \in Tree)'
          /\ (mergeBase \in 1 .. Tip /\ indexed \in 1 .. Tip)'
          /\ download' \in [Files -> {"running", "here", "failed"}]
      BY <1>1 DEF BootstrapTypeOK, repo
    <2>2. (line \in Files \cup {"old", "back", "mergebase", "indexbase", "head",
                          "indexhead", "ready", "failed"})'
      BY <1>1 DEF BootstrapTypeOK
    <2>3. clock' \in Nat /\ arrived' \in 0 .. clock'
      BY <1>1 DEF BootstrapTypeOK
    <2>4. mtime' \in [Ports -> 0 .. clock'] /\ index' \in [at : 0 .. clock', entry : Tree]
      BY <1>1 DEF BootstrapTypeOK
    <2>5. (line \in {"indexbase", "head", "indexhead", "ready"} =>
              download["PortIndex"] # "running")'
      BY <1>1 DEF BootstrapTypeOK, Files
    <2> QED
      BY <2>1, <2>2, <2>3, <2>4, <2>5 DEF BootstrapTypeOK
  <1>3. line \in {"indexbase", "head", "indexhead", "ready"} => arrived' = arrived
    BY <1>1 DEF BootstrapTypeOK
  <1>4. ScriptInv'
    BY <1>1, <1>3 DEF ScriptInv, repo, Old, Merged, BootstrapTypeOK
  <1>5. ASSUME NEW p \in Ports PROVE PortInv(p)'
    BY <1>1, <1>3 DEF PortInv, repo, Old, Merged, AtBase, Right, TooOld, TooNew, Late,
       TakenBack, BootstrapTypeOK
  <1> QED
    BY <1>2, <1>4, <1>5

\* A checkout keeps the types and writes the ports that differ.
LEMMA CheckoutStep ==
    ASSUME BootstrapTypeOK, NEW from, NEW t \in Tree, NEW then, Checkout(from, t, then),
           then \in {"back", "mergebase", "PortIndex", "indexhead"},
           then = "indexhead" => download["PortIndex"] # "running"
    PROVE  /\ BootstrapTypeOK'
           /\ line = from /\ line' = then /\ tree' = t /\ clock' = clock + 1
           /\ UNCHANGED <<repo, download, arrived, index>>
           /\ \A p \in Ports : mtime'[p] = IF tree[p] = t[p] THEN mtime[p] ELSE clock + 1
           /\ clock \in Nat /\ mtime \in [Ports -> 0 .. clock]
  <1>1. mtime' \in [Ports -> 0 .. clock']
    BY DEF Checkout, BootstrapTypeOK
  <1>2. clock' \in Nat /\ arrived' \in 0 .. clock' /\ index' \in [at : 0 .. clock', entry : Tree]
    BY DEF Checkout, BootstrapTypeOK
  <1>3. /\ (master \in [1 .. Tip -> Tree] /\ head \in Tree /\ tree \in Tree)'
        /\ (mergeBase \in 1 .. Tip /\ indexed \in 1 .. Tip)'
        /\ download' \in [Files -> {"running", "here", "failed"}]
    BY DEF Checkout, BootstrapTypeOK, repo
  <1>4. (line \in Files \cup {"old", "back", "mergebase", "indexbase", "head",
                          "indexhead", "ready", "failed"})'
    BY DEF Checkout, Files
  <1>5. (line \in {"indexbase", "head", "indexhead", "ready"} =>
              download["PortIndex"] # "running")'
    BY DEF Checkout
  <1>6. BootstrapTypeOK'
    BY <1>1, <1>2, <1>3, <1>4, <1>5 DEF BootstrapTypeOK
  <1> QED
    BY <1>6 DEF Checkout, BootstrapTypeOK

\* portindex keeps an entry or makes it anew, and its index is newer than all
\* it has read.
LEMMA PortindexStep ==
    ASSUME BootstrapTypeOK, NEW from, NEW then, Portindex(from, then),
           from \in {"indexbase", "indexhead"}, then \in {"head", "ready"}
    PROVE  /\ BootstrapTypeOK'
           /\ line = from /\ line' = then
           /\ UNCHANGED <<repo, download, arrived, tree, mtime>>
           /\ clock' = clock + 1 /\ index'.at = clock + 1
           /\ \A p \in Ports : index'.entry[p] =
                 IF tree[p] # NoPort /\ index.entry[p] # NoPort /\ mtime[p] <= index.at
                 THEN index.entry[p] ELSE tree[p]
           /\ clock \in Nat /\ mtime \in [Ports -> 0 .. clock]
  <1> DEFINE e == [p \in Ports |->
                     IF tree[p] # NoPort /\ index.entry[p] # NoPort /\ mtime[p] <= index.at
                     THEN index.entry[p] ELSE tree[p]]
  <1>1. e \in Tree
    BY DEF BootstrapTypeOK, Tree
  <1>2. index' = [at |-> clock + 1, entry |-> e]
    BY DEF Portindex
  <1>3. clock' = clock + 1 /\ clock' \in Nat /\ arrived' \in 0 .. clock'
    BY DEF Portindex, BootstrapTypeOK
  <1>4. index' \in [at : 0 .. clock', entry : Tree] /\ mtime' \in [Ports -> 0 .. clock']
    BY <1>1, <1>2, <1>3 DEF Portindex, BootstrapTypeOK
  <1>5. BootstrapTypeOK'
    BY <1>3, <1>4 DEF Portindex, BootstrapTypeOK, repo, Files
  <1>6. \A p \in Ports : index'.entry[p] = e[p]
    BY <1>2
  <1> QED
    BY <1>2, <1>3, <1>5, <1>6 DEF Portindex, BootstrapTypeOK

\* The commits the script visits are commits of master.
LEMMA Trees == BootstrapTypeOK => Old \in Tree /\ Merged \in Tree /\ master[indexed] \in Tree
  BY WindowAssumption DEF BootstrapTypeOK, Old, Merged

LEMMA BootstrapInstallStep ==
    ASSUME BootstrapInv, Install("getopt", "base") \/ Install("base", "old")
    PROVE  BootstrapInv'
  <1> USE DEF BootstrapInv
  <1>1. /\ UNCHANGED <<repo, download, arrived, tree, mtime, index, clock>>
        /\ line \in {"getopt", "base"} /\ line' \in {"base", "old", "failed"}
    BY DEF Install
  <1>2. BootstrapTypeOK'
    BY <1>1 DEF BootstrapTypeOK, repo, Files
  <1>3. ScriptInv'
    BY <1>1 DEF ScriptInv, repo
  <1>4. ASSUME NEW p \in Ports PROVE PortInv(p)'
    BY <1>1 DEF PortInv
  <1> QED
    BY <1>2, <1>3, <1>4

\* Each checkout on the way to the merge base leaves the time of a port at 0
\* only if the port is the same on both sides.
LEMMA CheckoutsStep ==
    ASSUME BootstrapInv, CheckoutOld \/ CheckoutBack \/ CheckoutBase
    PROVE  BootstrapInv'
  <1> USE DEF BootstrapInv
  <1>0. Old \in Tree /\ Merged \in Tree /\ head \in Tree
    BY Trees DEF BootstrapTypeOK
  <1>1. CASE CheckoutOld
    <2>1. /\ BootstrapTypeOK' /\ line = "old" /\ line' = "back" /\ tree' = Old
          /\ UNCHANGED <<repo, download, arrived, index>>
          /\ \A p \in Ports : mtime'[p] = IF tree[p] = Old[p] THEN mtime[p] ELSE clock + 1
          /\ clock \in Nat /\ mtime \in [Ports -> 0 .. clock]
      BY <1>0, <1>1, CheckoutStep DEF CheckoutOld, Old
    <2>2. ScriptInv'
      BY <2>1 DEF ScriptInv, Old, repo
    <2>3. ASSUME NEW p \in Ports PROVE PortInv(p)'
      BY <2>1 DEF PortInv, ScriptInv, Old, repo
    <2> QED
      BY <2>1, <2>2, <2>3
  <1>2. CASE CheckoutBack
    <2>1. /\ BootstrapTypeOK' /\ line = "back" /\ line' = "mergebase" /\ tree' = head
          /\ UNCHANGED <<repo, download, arrived, index>>
          /\ \A p \in Ports : mtime'[p] = IF tree[p] = head[p] THEN mtime[p] ELSE clock + 1
          /\ clock \in Nat /\ mtime \in [Ports -> 0 .. clock]
      BY <1>0, <1>2, CheckoutStep DEF CheckoutBack
    <2>2. ScriptInv'
      BY <2>1 DEF ScriptInv, repo
    <2>3. ASSUME NEW p \in Ports PROVE PortInv(p)'
      BY <2>1 DEF PortInv, ScriptInv, Old, repo
    <2> QED
      BY <2>1, <2>2, <2>3
  <1>3. CASE CheckoutBase
    <2>1. /\ BootstrapTypeOK' /\ line = "mergebase" /\ line' = "PortIndex" /\ tree' = Merged
          /\ UNCHANGED <<repo, download, arrived, index>>
          /\ \A p \in Ports : mtime'[p] = IF tree[p] = Merged[p] THEN mtime[p] ELSE clock + 1
          /\ clock \in Nat /\ mtime \in [Ports -> 0 .. clock]
      BY <1>0, <1>3, CheckoutStep DEF CheckoutBase, Merged
    <2>2. ScriptInv'
      BY <2>1 DEF ScriptInv, Merged, repo
    <2>3. ASSUME NEW p \in Ports PROVE PortInv(p)'
      BY <2>1 DEF PortInv, ScriptInv, Old, Merged, repo
    <2> QED
      BY <2>1, <2>2, <2>3
  <1> QED
    BY <1>1, <1>2, <1>3

LEMMA UseStep ==
    ASSUME BootstrapInv, UsePortIndex
    PROVE  BootstrapInv'
  <1> USE DEF BootstrapInv
  <1>0. master[indexed] \in Tree
    BY Trees
  <1>1. /\ UNCHANGED <<repo, download, arrived, tree, mtime, clock>>
        /\ line = "PortIndex" /\ line' = "indexbase" /\ download["PortIndex"] # "running"
        /\ index' = index \/ index' = [at |-> arrived, entry |-> master[indexed]]
    BY DEF UsePortIndex
  <1>2. index' \in [at : 0 .. clock, entry : Tree]
    BY <1>0, <1>1 DEF BootstrapTypeOK
  <1>3. BootstrapTypeOK'
    BY <1>1, <1>2 DEF BootstrapTypeOK, repo, Files
  <1>4. ASSUME NEW p \in Ports PROVE PortInv(p)'
    BY <1>1 DEF PortInv, repo, Old, Merged
  <1>5. index = None /\ tree = Merged
    BY <1>1 DEF ScriptInv
  <1>6. ScriptInv'
    BY <1>1, <1>5 DEF ScriptInv, repo, Merged
  <1> QED
    BY <1>3, <1>4, <1>6

\* At the merge base portindex keeps a wrong entry only of a port that no
\* checkout touched, or touched before the index arrived.
LEMMA IndexBaseStep ==
    ASSUME BootstrapInv, Portindex("indexbase", "head")
    PROVE  BootstrapInv'
  <1> USE DEF BootstrapInv
  <1>1. /\ BootstrapTypeOK' /\ line = "indexbase" /\ line' = "head"
        /\ UNCHANGED <<repo, download, arrived, tree, mtime>>
        /\ clock' = clock + 1 /\ index'.at = clock + 1
        /\ \A p \in Ports : index'.entry[p] =
              IF tree[p] # NoPort /\ index.entry[p] # NoPort /\ mtime[p] <= index.at
              THEN index.entry[p] ELSE tree[p]
        /\ clock \in Nat /\ mtime \in [Ports -> 0 .. clock]
    BY PortindexStep
  <1>2. tree = Merged
    BY <1>1 DEF ScriptInv
  <1>3. ASSUME NEW p \in Ports PROVE AtBase(p)'
    <2>1. CASE index'.entry[p] = Merged[p]
      BY <1>1, <2>1 DEF AtBase, Merged, repo
    <2>2. CASE index'.entry[p] # Merged[p]
      <3>1. index.entry[p] # NoPort /\ mtime[p] <= index.at /\ index'.entry[p] = index.entry[p]
        BY <1>1, <1>2, <2>2
      <3>2. index = [at |-> arrived, entry |-> master[indexed]]
        BY <1>1, <3>1 DEF ScriptInv, None
      <3>3. CASE mtime[p] = 0
        BY <1>1, <2>2, <3>1, <3>2, <3>3 DEF PortInv, AtBase, TakenBack, TooOld, TooNew,
           Old, Merged, repo
      <3>4. CASE mtime[p] # 0
        BY <1>1, <3>1, <3>2, <3>4 DEF AtBase, Late
      <3> QED
        BY <3>3, <3>4
    <2> QED
      BY <2>1, <2>2
  <1>4. ASSUME NEW p \in Ports PROVE PortInv(p)'
    BY <1>1, <1>3 DEF PortInv
  <1>5. ScriptInv'
    BY <1>1, <1>2 DEF ScriptInv, Merged, repo
  <1> QED
    BY <1>1, <1>4, <1>5

\* Going back to the pull request touches the ports it changes.
LEMMA CheckoutHeadStep ==
    ASSUME BootstrapInv, CheckoutHead
    PROVE  BootstrapInv'
  <1> USE DEF BootstrapInv
  <1>1. line = "head" /\ download["PortIndex"] # "running" /\ head \in Tree
    BY DEF CheckoutHead, Checkout, BootstrapTypeOK
  <1>2. /\ BootstrapTypeOK' /\ line = "head" /\ line' = "indexhead" /\ tree' = head
        /\ UNCHANGED <<repo, download, arrived, index>>
        /\ \A p \in Ports : mtime'[p] = IF tree[p] = head[p] THEN mtime[p] ELSE clock + 1
        /\ clock' = clock + 1
        /\ clock \in Nat /\ mtime \in [Ports -> 0 .. clock]
    BY <1>1, CheckoutStep DEF CheckoutHead
  <1>3. tree = Merged /\ index.at <= clock /\ index.at \in Nat
    BY <1>1 DEF ScriptInv, BootstrapTypeOK
  <1>4. ScriptInv'
    BY <1>2, <1>3 DEF ScriptInv, repo
  <1>5. ASSUME NEW p \in Ports PROVE PortInv(p)'
    <2>1. AtBase(p)' \/ Merged[p] # head[p]
      BY <1>1, <1>2, <1>3 DEF PortInv, AtBase, Late, TakenBack, TooOld, TooNew, Merged, repo
    <2> QED
      BY <1>1, <1>2, <1>3, <2>1 DEF PortInv, Merged, repo
  <1> QED
    BY <1>2, <1>4, <1>5

LEMMA IndexHeadStep ==
    ASSUME BootstrapInv, Portindex("indexhead", "ready")
    PROVE  BootstrapInv'
  <1> USE DEF BootstrapInv
  <1>1. /\ BootstrapTypeOK' /\ line = "indexhead" /\ line' = "ready"
        /\ UNCHANGED <<repo, download, arrived, tree, mtime>>
        /\ \A p \in Ports : index'.entry[p] =
              IF tree[p] # NoPort /\ index.entry[p] # NoPort /\ mtime[p] <= index.at
              THEN index.entry[p] ELSE tree[p]
        /\ clock \in Nat /\ mtime \in [Ports -> 0 .. clock]
    BY PortindexStep
  <1>2. tree = head /\ index.at \in Nat
    BY <1>1 DEF ScriptInv, BootstrapTypeOK
  <1>3. ASSUME NEW p \in Ports
        PROVE  (Right(p) \/ TooOld \/ TooNew \/ Late(p) \/ TakenBack(p))'
    <2>1. CASE Merged[p] = head[p]
      BY <1>1, <1>2, <2>1 DEF PortInv, AtBase, Right, TooOld, TooNew, Late, TakenBack, repo
    <2>2. CASE Merged[p] # head[p]
      <3>1. index'.entry[p] = tree[p]
        BY <1>1, <1>2, <2>2 DEF PortInv
      <3> QED
        BY <1>1, <1>2, <3>1 DEF Right, repo
    <2> QED
      BY <2>1, <2>2
  <1>4. ASSUME NEW p \in Ports PROVE PortInv(p)'
    BY <1>1, <1>3 DEF PortInv
  <1>5. ScriptInv'
    BY <1>1, <1>2 DEF ScriptInv, repo
  <1> QED
    BY <1>1, <1>4, <1>5

LEMMA BootstrapKept == BootstrapInv /\ [BootstrapNext]_bootstrapVars => BootstrapInv'
  <1> SUFFICES ASSUME BootstrapInv, [BootstrapNext]_bootstrapVars PROVE BootstrapInv'
    OBVIOUS
  <1>1. CASE Script
    BY <1>1, BootstrapInstallStep, CheckoutsStep, UseStep, IndexBaseStep, CheckoutHeadStep,
       IndexHeadStep DEF Script
  <1>2. CASE \E f \in Files : Arrive(f) \/ Lose(f)
    BY <1>2, DownloadStep
  <1>3. CASE UNCHANGED bootstrapVars
    BY <1>3 DEF bootstrapVars, repo, BootstrapInv, BootstrapTypeOK, ScriptInv, PortInv, AtBase, Right, TooOld,
       TooNew, Late, TakenBack, Old, Merged
  <1> QED
    BY <1>1, <1>2, <1>3 DEF BootstrapNext

\* The invariant holds of every behaviour of the script.
THEOREM BootstrapAlways == BootstrapSpec => []BootstrapInv
  <1> QED
    BY BootstrapInitInv, BootstrapKept, PTL DEF BootstrapSpec

\* Types are kept, and portindex never runs beside the download of its input,
\* for every set of ports and every window.
THEOREM BootstrapTypeCorrect == BootstrapSpec => []BootstrapTypeOK
  <1>1. BootstrapInv => BootstrapTypeOK
    BY DEF BootstrapInv
  <1> QED
    BY <1>1, BootstrapAlways, PTL

\* However many ports, versions and commits there are and however large the
\* window is, an entry that is not the pull request's has one of the causes
\* that IndexIsHead names: no interleaving of the downloads with the script
\* and no failing download adds another.
THEOREM WrongForACause == BootstrapSpec => []IndexIsHead
  <1>1. BootstrapInv => IndexIsHead
    BY DEF BootstrapInv, PortInv, IndexIsHead
  <1> QED
    BY <1>1, BootstrapAlways, PTL
=============================================================================
