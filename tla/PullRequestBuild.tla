--------------------------- MODULE PullRequestBuild ---------------------------
(***************************************************************************)
(* The job of .github/workflows/main.yml, "lint & build changed ports": it *)
(* lists the ports a pull request changes and their subports, lints them   *)
(* all, and builds and tests one after the other.  A subport that fails is *)
(* noted and the loop goes on; any other command that fails ends its step. *)
(***************************************************************************)
EXTENDS Naturals

CONSTANTS
    Dirs,         \* port directories
    Subports,     \* ports defined in them
    SubportsOf,   \* by directory
    MaxFaults     \* bound: failing commands that are no port's fault

ASSUME SubportAssumption == SubportsOf \in [Dirs -> SUBSET Subports]

VARIABLES
    changed,   \* git's status of the directories the pull request touches
    pc,
    portlist, subportlist,   \* outputs of the listing steps
    todo,      \* subports the loop has still to do
    fail,      \* the shell variable of the step
    testFail,  \* test_fail
    lint, deps, install, test,   \* how each subport did, "none" before
    summary,   \* marks in the step summary
    job,       \* "running", "success" or "failure"
    faults

verdicts == <<lint, deps, install, test>>
vars == <<changed, pc, portlist, subportlist, todo, fail, testFail, verdicts,
          summary, job, faults>>

Untried == [s \in Subports |-> "none"]

Init ==
    /\ changed \in [Dirs -> {"A", "M", "R", "no"}]
    /\ pc = "portlist"
    /\ portlist = {} /\ subportlist = {} /\ todo = {}
    /\ fail = 0 /\ testFail = 0
    /\ lint = Untried /\ deps = Untried /\ install = Untried 
    /\ test = [s \in Subports |-> {}]
    /\ summary = {}
    /\ job = "running"
    /\ faults = 0

-----------------------------------------------------------------------------
(* The lists.  Each comes out of a pipe, and a pipe fails only when its last *)
(* command does.                                                            *)

\* Mutant: added ports are not listed.
ListPortsModified ==
    /\ pc = "portlist"
    /\ portlist' = {d \in Dirs : changed[d] = "M"}
    /\ pc' = "subports"
    /\ UNCHANGED <<changed, subportlist, todo, fail, testFail, verdicts, summary, job, faults>>

ListPorts ==
    /\ pc = "portlist"
    /\ \/ portlist' = {d \in Dirs : changed[d] \in {"A", "M"}} /\ UNCHANGED faults
       \/ /\ faults < MaxFaults /\ faults' = faults + 1
          /\ portlist' = {}
    /\ pc' = "subports"
    /\ UNCHANGED <<changed, subportlist, todo, fail, testFail, verdicts, summary, job>>

\* mpbb list-subports prints what it gets to before it fails.
ListSubports ==
    /\ pc = "subports"
    /\ LET all == UNION {SubportsOf[d] : d \in portlist}
       IN  \/ subportlist' = all /\ UNCHANGED faults
           \/ /\ faults < MaxFaults /\ faults' = faults + 1
              /\ subportlist' \in (SUBSET all) \ {all}
    /\ todo' = subportlist'
    /\ fail' = 0
    /\ pc' = "lint"
    /\ UNCHANGED <<changed, portlist, testFail, verdicts, summary, job>>

-----------------------------------------------------------------------------
(* The lint step. *)

\* port lint succeeds or fails, and says something or nothing.  What it does
\* sets fail, and what it says chooses the mark; "silent" is a failure that
\* says nothing.
LintResult(succeeds, messages) ==
    IF succeeds THEN IF messages THEN "warning" ELSE "ok"
                ELSE IF messages THEN "error" ELSE "silent"

Lint(s) ==
    /\ pc = "lint"
    /\ s \in todo
    /\ todo' = todo \ {s}
    /\ \E succeeds, messages \in BOOLEAN :
          /\ lint' = [lint EXCEPT ![s] = LintResult(succeeds, messages)]
          /\ fail' = IF succeeds THEN fail ELSE 1
          /\ summary' = summary \cup
                {<<"lint", s, IF ~messages THEN "passed"
                              ELSE IF fail' = 1 THEN "failed" ELSE "warned">>}
    /\ UNCHANGED <<changed, pc, portlist, subportlist, testFail, deps, install,
                   test, job, faults>>

\* exit "$fail": the build step runs only if this one succeeds.
EndLint ==
    /\ pc = "lint"
    /\ todo = {}
    /\ IF fail = 1
         THEN pc' = "archive" /\ job' = "failure" /\ UNCHANGED todo
         ELSE pc' = "next" /\ todo' = subportlist /\ UNCHANGED job
    /\ UNCHANGED <<changed, portlist, subportlist, fail, testFail, verdicts,
                   summary, faults>>

-----------------------------------------------------------------------------
(* The build step. *)

\* mpbb cleanup, between ports.
CleanUp ==
    /\ pc = "next"
    /\ todo # {}
    /\ pc' = "deps"
    /\ UNCHANGED <<changed, portlist, subportlist, todo, fail, testFail,
                   verdicts, summary, job, faults>>

\* Mutant: fail is not set.
NoteFailureLost(s, mark) ==
    /\ summary' = summary \cup {<<"build", s, mark>>}
    /\ todo' = todo \ {s}
    /\ pc' = "next"
    /\ UNCHANGED fail

\* A failure of subport s, after which the loop continues with the next.
NoteFailure(s, mark) ==
    /\ fail' = 1
    /\ summary' = summary \cup {<<"build", s, mark>>}
    /\ todo' = todo \ {s}
    /\ pc' = "next"

InstallDependencies(s) ==
    /\ pc = "deps"
    /\ s \in todo
    /\ \E r \in {"ok", "error"} :
          /\ deps' = [deps EXCEPT ![s] = r]
          /\ IF r = "ok"
               THEN pc' = "install" /\ UNCHANGED <<fail, summary, todo>>
               ELSE NoteFailure(s, "no dependencies")
    /\ UNCHANGED <<changed, portlist, subportlist, testFail, lint, install, test,
                   job, faults>>

InstallPort(s) ==
    /\ pc = "install"
    /\ s \in todo /\ deps[s] = "ok"
    /\ \E r \in {"ok", "error"} :
          /\ install' = [install EXCEPT ![s] = r]
          /\ IF r = "ok"
               THEN /\ pc' = "test"
                    /\ summary' = summary \cup {<<"build", s, "built">>}
                    /\ UNCHANGED <<fail, todo>>
               ELSE NoteFailure(s, "failed")
    /\ UNCHANGED <<changed, portlist, subportlist, testFail, lint, deps, test,
                   job, faults>>

\* The marks for a test of s; "passed" looks at the shell variable.
TestMarks(s, result, failed) ==
    {<<"test", s, m>> : m \in
        {m \in {"failed", "warned", "passed"} :
            IF m = "passed" THEN "warned" \notin result /\ failed = 0
                            ELSE m \in result}}

\* Mutant: test_fail is not reset for the next port.
TestPortSticky(s) ==
    /\ pc = "test"
    /\ s \in todo /\ install[s] = "ok"
    /\ \E r \in SUBSET {"failed", "warned"} :
          /\ test' = [test EXCEPT ![s] = {"done"} \cup r]
          /\ testFail' = IF "failed" \in r THEN 1 ELSE testFail
          /\ summary' = summary \cup TestMarks(s, r, testFail')
    /\ todo' = todo \ {s}
    /\ pc' = "next"
    /\ UNCHANGED <<changed, portlist, subportlist, fail, lint, deps, install, job, faults>>

TestPort(s) ==
    /\ pc = "test"
    /\ s \in todo /\ install[s] = "ok"
    /\ \E r \in SUBSET {"failed", "warned"} :
          /\ test' = [test EXCEPT ![s] = {"done"} \cup r]
          /\ testFail' = IF "failed" \in r THEN 1 ELSE 0
          /\ summary' = summary \cup TestMarks(s, r, testFail')
    /\ todo' = todo \ {s}
    /\ pc' = "next"
    /\ UNCHANGED <<changed, portlist, subportlist, fail, lint, deps, install, job, faults>>

EndBuild ==
    /\ pc = "next"
    /\ todo = {}
    /\ pc' = "archive"
    /\ job' = IF fail = 1 THEN "failure" ELSE job
    /\ UNCHANGED <<changed, portlist, subportlist, todo, fail, testFail,
                   verdicts, summary, faults>>

\* A command outside the conditions above fails, for example mpbb cleanup or
\* port log: set -e ends the step, and the steps that follow are skipped.
Abort ==
    /\ pc \notin {"archive", "end"}
    /\ faults < MaxFaults /\ faults' = faults + 1
    /\ pc' = "archive"
    /\ job' = "failure"
    /\ UNCHANGED <<changed, portlist, subportlist, todo, fail, testFail,
                   verdicts, summary>>

\* The logs are archived whatever happened.
Archive ==
    /\ pc = "archive"
    /\ pc' = "end"
    /\ job' = IF job = "running" THEN "success" ELSE job
    /\ UNCHANGED <<changed, portlist, subportlist, todo, fail, testFail,
                   verdicts, summary, faults>>

Next ==
    \/ ListPorts \/ ListSubports
    \/ \E s \in Subports : Lint(s) \/ InstallDependencies(s) \/ InstallPort(s) \/ TestPort(s)
    \/ EndLint \/ CleanUp \/ EndBuild \/ Abort \/ Archive

Spec == Init /\ [][Next]_vars

-----------------------------------------------------------------------------
(* Properties. *)

\* Every variable keeps its type, and the subport a later command of the loop
\* works on is one the earlier commands succeeded for.
TypeOK ==
    /\ changed \in [Dirs -> {"A", "M", "R", "no"}]
    /\ pc \in {"portlist", "subports", "lint", "next", "deps", "install", "test",
               "archive", "end"}
    /\ portlist \subseteq Dirs
    /\ subportlist \subseteq Subports /\ todo \subseteq subportlist
    /\ fail \in {0, 1} /\ testFail \in {0, 1}
    /\ lint \in [Subports -> {"none", "ok", "warning", "error", "silent"}]
    /\ deps \in [Subports -> {"none", "ok", "error"}]
    /\ install \in [Subports -> {"none", "ok", "error"}]
    /\ test \in [Subports -> SUBSET {"done", "failed", "warned"}]
    /\ summary \subseteq {"lint", "build", "test"} \X Subports \X
          {"passed", "warned", "failed", "no dependencies", "built"}
    /\ job \in {"running", "success", "failure"}
    /\ faults \in Nat
    /\ pc = "deps" => todo # {}
    /\ pc = "install" => \E s \in todo : deps[s] = "ok"
    /\ pc = "test" => \E s \in todo : install[s] = "ok"

LintError(s) == lint[s] \in {"error", "silent"}
Failed(s) == LintError(s) \/ deps[s] = "error" \/ install[s] = "error"

\* A green job has linted without error and installed every subport of its
\* list: no failure of one is lost over the ports that follow, nor between
\* the two loops.
GreenIsBuilt ==
    job = "success" =>
        \A s \in subportlist : lint[s] \in {"ok", "warning"} /\ install[s] = "ok"

\* A red job has a reason: a port that failed, and not merely its tests, or a
\* command that is no port's fault.
RedHasReason == job = "failure" => faults > 0 \/ \E s \in Subports : Failed(s)

\* One port's failure keeps no other from being tried: a job that was not
\* aborted has linted every subport of its list, and built them all unless
\* one had a lint error.
EveryPortTried ==
    pc = "end" /\ faults = 0 =>
        /\ \A s \in subportlist : lint[s] # "none"
        /\ \/ \E s \in subportlist : LintError(s)
           \/ \A s \in subportlist : deps[s] # "none"

\* The job's colour tells what happened to the ports, all of which were tried.
ColourIsRight == GreenIsBuilt /\ RedHasReason /\ EveryPortTried

\* The summary says of a port's tests what happened to that port.
TestMarksTrue ==
    \A s \in Subports : test[s] # {} =>
        {m \in {"failed", "warned", "passed"} : <<"test", s, m>> \in summary} =
            IF test[s] = {"done"} THEN {"passed"} ELSE test[s] \ {"done"}

\* And of its linting, with two exceptions.  The variable that chooses between
\* two marks is that of the whole loop, so a port with mere warnings may be
\* marked as failed, and is so only if another port had errors.  And a port
\* whose lint fails without a message is marked as passed: the failure shows
\* only in the colour of the job, which nothing builds any more.
LintMarksButFor ==
    \A s \in Subports : lint[s] # "none" =>
        LET marks == {m \in {"passed", "warned", "failed"} : <<"lint", s, m>> \in summary}
        IN  CASE lint[s] = "ok" -> marks = {"passed"}
              [] lint[s] = "silent" ->
                    /\ marks = {"passed"}
                    /\ \A t \in Subports : deps[t] = "none"
                    /\ pc = "end" => job = "failure"
              [] lint[s] = "error" -> marks = {"failed"}
              [] lint[s] = "warning" ->
                    \/ marks = {"warned"}
                    \/ marks = {"failed"} /\ \E t \in Subports \ {s} : LintError(t)

\* The marks of the summary tell what happened to each port, but for those
\* exceptions, although one variable serves all ports of a loop.
MarksRight == TestMarksTrue /\ LintMarksButFor

\* "lint & build changed ports": a green job has built every subport of the
\* ports that the pull request adds or changes, unless a listing failed at the
\* head of its pipe.
ChangedPortsBuilt ==
    job = "success" /\ faults = 0 =>
        \A d \in Dirs : changed[d] \in {"A", "M"} =>
            \A s \in SubportsOf[d] : install[s] = "ok"
=============================================================================
