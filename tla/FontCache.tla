------------------------------- MODULE FontCache -------------------------------
(***************************************************************************)
(* x11/xinit/files/font_cache.sh: several copies of the script, started by *)
(* launchd and by users, take a lock file and bring the X11 font caches of *)
(* a directory up to date, while fonts come and go and copies are killed.  *)
(*                                                                         *)
(* The lock is taken with lockfile(1) where it is installed, and otherwise *)
(* with a file that holds the owner's PID.  A file is an inode, which keeps *)
(* its data for those who have it open when the name is gone; it is named  *)
(* here for the process that created it.                                   *)
(***************************************************************************)
EXTENDS Naturals, FiniteSets

CONSTANTS
    Procs,        \* processes running the script, each once
    Forced,       \* those started with --force
    Fonts,        \* font file names in the directory
    None,         \* no file
    HaveLockfile, \* whether the system has lockfile(1): TRUE, FALSE or either
    MaxChanges,   \* bound: changes to font files
    MaxFaults     \* bound: kills, signals and failing tools

ASSUME FontAssumption ==
    /\ None \notin Procs /\ None \notin [Fonts -> Nat]
    /\ Forced \subseteq Procs
    /\ HaveLockfile \subseteq BOOLEAN

VARIABLES
    lockfile,   \* /usr/bin/lockfile is executable
    pc,         \* the line each process is at
    path,       \* the inode the lock's name refers to, or None
    data,       \* the PID each inode holds, None while it holds nothing
    aged,       \* the lock file is older than 240 seconds
    fd,         \* the inode a process has open for writing
    old,        \* OLD_PID
    seen,       \* fontfiles
    snap,       \* what a process's mkfontscale has read
    file,       \* the time each font file last changed, 0 when there is none
    list,       \* fonts.list
    scale,      \* fonts.scale
    dir,        \* fonts.dir (and encodings.dir): time and content
    clock, faults,
    collided,   \* history: two processes were taking the lock at a time
    overstayed, \* history: a lock aged while its owner was at work
    disturbed   \* history: a run of the tools was cut short, failed or met
                \* another process, a font arrived after the fonts were
                \* listed and before they were scanned, or a listed font was
                \* replaced after that

lockVars == <<path, data, aged, fd, old>>
cacheVars == <<seen, snap, list, scale, dir>>
history == <<collided, overstayed, disturbed>>
vars == <<lockfile, pc, lockVars, cacheVars, file, clock, faults, history>>

\* Where a process is when it does not hold a lock and wants none, when it is
\* taking one, and when it works under one.
Resting == {"new", "done", "dead"}
Taking == {"read", "kill", "rmstale", "open", "write", "verify"}
Working == {"trap", "find", "judge", "scan", "scale", "dir", "unlock"}
Acquiring == Taking \cup {"test", "suspend"}

Contents == [Fonts -> Nat]
Present == {f \in Fonts : file[f] # 0}

Init ==
    /\ lockfile \in HaveLockfile
    /\ pc = [p \in Procs |-> "new"]
    /\ path = None
    /\ data = [p \in Procs |-> None]
    /\ aged = FALSE
    /\ fd = [p \in Procs |-> None]
    /\ old = [p \in Procs |-> None]
    /\ seen = [p \in Procs |-> {}]
    /\ snap = [p \in Procs |-> [f \in Fonts |-> 0]]
    /\ file \in [Fonts -> {0, 1}]
    /\ list = None /\ scale = None /\ dir = None
    /\ clock = 1 /\ faults = 0
    /\ collided = FALSE /\ overstayed = FALSE /\ disturbed = FALSE

\* Process p goes from one line to another; a second process among those that
\* take the lock, or among those that work, is noted.
GoTo(p, from, to) ==
    /\ pc[p] = from
    /\ pc' = [pc EXCEPT ![p] = to]
    /\ UNCHANGED lockfile
    /\ collided' = (collided \/ (to \in Acquiring
                        /\ \E q \in Procs \ {p} : pc[q] \in Acquiring))

Disturb(when) == disturbed' = (disturbed \/ when)

\* What p finds on its way into the work: another process already in it.
Enter(p, from) ==
    /\ GoTo(p, from, "trap")
    /\ Disturb(\E q \in Procs \ {p} : pc[q] \in Working)

Exit(p, from) == GoTo(p, from, "done")

-----------------------------------------------------------------------------
(* Taking the lock. *)

Start(p) ==
    /\ GoTo(p, "new", "test")
    /\ UNCHANGED <<lockVars, cacheVars, file, clock, faults, overstayed, disturbed>>

\* lockfile -r 0 -l 240 -s 4: create the file, or give up on a young one, or
\* remove an old one and try again after a while.
TryLockfile(p) ==
    /\ lockfile
    /\ \E from \in {"test", "suspend"} :
          \/ /\ path = None
             /\ Enter(p, from)
             /\ path' = p /\ aged' = FALSE
          \/ /\ path # None /\ ~aged
             /\ Exit(p, from)
             /\ UNCHANGED <<path, aged, disturbed>>
          \/ /\ path # None /\ aged
             /\ GoTo(p, from, "suspend")
             /\ path' = None /\ aged' = FALSE
             /\ UNCHANGED disturbed
    /\ UNCHANGED <<data, fd, old, cacheVars, file, clock, faults, overstayed>>

\* 240 seconds pass over a lock file.
Age ==
    /\ lockfile
    /\ path # None /\ ~aged
    /\ aged' = TRUE
    /\ overstayed' = (overstayed \/ pc[path] \in Working)
    /\ UNCHANGED <<lockfile, pc, path, data, fd, old, cacheVars, file, clock, faults,
                   collided, disturbed>>

TestLock(p) ==
    /\ ~lockfile
    /\ GoTo(p, "test", IF path = None THEN "open" ELSE "read")
    /\ UNCHANGED <<lockVars, cacheVars, file, clock, faults, overstayed, disturbed>>

ReadLock(p) ==
    /\ GoTo(p, "read", "kill")
    /\ old' = [old EXCEPT ![p] = IF path = None THEN None ELSE data[path]]
    /\ UNCHANGED <<path, data, aged, fd, cacheVars, file, clock, faults,
                   overstayed, disturbed>>

\* kill -0 succeeds for the PID of a process that has not ended.
Alive(q) == q # None /\ pc[q] \notin Resting

\* Mutant: every lock is taken for a stale one.
CheckAliveNever(p) ==
    /\ GoTo(p, "kill", "rmstale")
    /\ UNCHANGED <<lockVars, cacheVars, file, clock, faults, overstayed, disturbed>>

\* Mutant: no lock is ever taken for a stale one.
CheckAliveAlways(p) ==
    /\ GoTo(p, "kill", "done")
    /\ UNCHANGED <<lockVars, cacheVars, file, clock, faults, overstayed, disturbed>>

CheckAlive(p) ==
    /\ GoTo(p, "kill", IF Alive(old[p]) THEN "done" ELSE "rmstale")
    /\ UNCHANGED <<lockVars, cacheVars, file, clock, faults, overstayed, disturbed>>

RemoveStale(p) ==
    /\ GoTo(p, "rmstale", "open")
    /\ path' = None
    /\ UNCHANGED <<data, aged, fd, old, cacheVars, file, clock, faults,
                   overstayed, disturbed>>

\* The shell opens and truncates the file, then echo writes it.
OpenLock(p) ==
    /\ GoTo(p, "open", "write")
    /\ LET inode == IF path = None THEN p ELSE path
       IN  /\ path' = inode
           /\ fd' = [fd EXCEPT ![p] = inode]
           /\ data' = [data EXCEPT ![inode] = None]
    /\ UNCHANGED <<aged, old, cacheVars, file, clock, faults, overstayed, disturbed>>

WriteLock(p) ==
    /\ GoTo(p, "write", "verify")
    /\ data' = [data EXCEPT ![fd[p]] = p]
    /\ UNCHANGED <<path, aged, fd, old, cacheVars, file, clock, faults,
                   overstayed, disturbed>>

\* "Now make sure we didn't collide mid-air".
VerifyLock(p) ==
    /\ IF path # None /\ data[path] = p
         THEN Enter(p, "verify")
         ELSE Exit(p, "verify") /\ UNCHANGED disturbed
    /\ UNCHANGED <<lockVars, cacheVars, file, clock, faults, overstayed>>

SetTrap(p) ==
    /\ GoTo(p, "trap", "find")
    /\ UNCHANGED <<lockVars, cacheVars, file, clock, faults, overstayed, disturbed>>

Unlock(p) ==
    /\ Exit(p, "unlock")
    /\ path' = None
    /\ UNCHANGED <<data, aged, fd, old, cacheVars, file, clock, faults,
                   overstayed, disturbed>>

-----------------------------------------------------------------------------
(* check_dirty and the tools. *)

\* The list of fonts is taken; with no font the caches go.
FindFonts(p) ==
    /\ seen' = [seen EXCEPT ![p] = Present]
    /\ IF Present = {}
         THEN /\ GoTo(p, "find", "unlock")
              /\ list' = None /\ scale' = None /\ dir' = None
         ELSE /\ GoTo(p, "find", "judge")
              /\ UNCHANGED <<list, scale, dir>>
    /\ UNCHANGED <<lockVars, snap, file, clock, faults, overstayed, disturbed>>

\* Mutant: no comparison with fonts.list.
DirtyByTime(p) ==
    \/ p \in Forced
    \/ list = None \/ dir = None
    \/ \E f \in Present : file[f] > dir.at

Dirty(p) ==
    \/ p \in Forced
    \/ list = None \/ dir = None
    \/ list # seen[p]
    \/ \E f \in Present : file[f] > dir.at

\* fonts.list is written as soon as the directory is found dirty, before the
\* tools run.
Judge(p) ==
    /\ IF Dirty(p)
         THEN GoTo(p, "judge", "scan") /\ list' = seen[p]
         ELSE GoTo(p, "judge", "unlock") /\ UNCHANGED list
    /\ UNCHANGED <<lockVars, seen, snap, scale, dir, file, clock, faults,
                   overstayed, disturbed>>

\* mkfontscale reads the fonts and writes fonts.scale, from which mkfontdir
\* makes fonts.dir.
ScanFonts(p) ==
    /\ GoTo(p, "scan", "scale")
    /\ snap' = [snap EXCEPT ![p] = file]
    /\ UNCHANGED <<lockVars, seen, list, scale, dir, file, clock, faults,
                   overstayed, disturbed>>

WriteScale(p) ==
    /\ GoTo(p, "scale", "dir")
    /\ scale' = snap[p]
    /\ UNCHANGED <<lockVars, seen, snap, list, dir, file, clock, faults,
                   overstayed, disturbed>>

WriteDir(p) ==
    /\ GoTo(p, "dir", "unlock")
    /\ clock' = clock + 1
    /\ dir' = [at |-> clock + 1,
               of |-> IF scale = None THEN [f \in Fonts |-> 0] ELSE scale]
    /\ UNCHANGED <<lockVars, seen, snap, list, scale, file, faults,
                   overstayed, disturbed>>

\* Nobody looks at the exit status of the tools.
ToolFails(p) ==
    /\ faults < MaxFaults /\ faults' = faults + 1
    /\ \/ GoTo(p, "scan", "dir")
       \/ GoTo(p, "dir", "unlock")
    /\ Disturb(TRUE)
    /\ UNCHANGED <<lockVars, cacheVars, file, clock, overstayed>>

-----------------------------------------------------------------------------
(* The world around. *)

\* A font is installed, replaced or removed.
ChangeFont(f) ==
    /\ clock < MaxChanges + Cardinality(Procs)
    /\ clock' = clock + 1
    /\ \E now \in {0, clock + 1} :
          /\ now # file[f]
          /\ file' = [file EXCEPT ![f] = now]
          /\ Disturb(now # 0 /\ \E p \in Procs :
                        \/ pc[p] \in {"judge", "scan"} /\ f \notin seen[p]
                        \/ pc[p] \in {"scale", "dir"} /\ f \in seen[p])
    /\ UNCHANGED <<lockfile, pc, lockVars, cacheVars, faults, collided, overstayed>>

\* A process is killed, or gets a signal it traps once the trap is set.
Kill(p) ==
    /\ faults < MaxFaults /\ faults' = faults + 1
    /\ pc[p] \notin Resting
    /\ GoTo(p, pc[p], "dead")
    /\ path' \in IF pc[p] \in Working \ {"trap"} THEN {path, None} ELSE {path}
    /\ Disturb(pc[p] \in {"scan", "scale", "dir"})
    /\ UNCHANGED <<data, aged, fd, old, cacheVars, file, clock, overstayed>>

Step(p) ==
    \/ TryLockfile(p)
    \/ TestLock(p) \/ ReadLock(p) \/ CheckAlive(p) \/ RemoveStale(p)
    \/ OpenLock(p) \/ WriteLock(p) \/ VerifyLock(p) \/ SetTrap(p)
    \/ FindFonts(p) \/ Judge(p) \/ ScanFonts(p) \/ WriteScale(p) \/ WriteDir(p)
    \/ Unlock(p)

Next ==
    \/ \E p \in Procs : Start(p) \/ Step(p) \/ ToolFails(p) \/ Kill(p)
    \/ Age
    \/ \E f \in Fonts : ChangeFont(f)

Spec == Init /\ [][Next]_vars

-----------------------------------------------------------------------------
(* Properties. *)

Files == {None} \cup Procs

\* Every variable keeps its type, and a process writes only to a file it has
\* open.
TypeOK ==
    /\ lockfile \in BOOLEAN
    /\ pc \in [Procs -> Resting \cup Acquiring \cup Working]
    /\ path \in Files /\ aged \in BOOLEAN
    /\ data \in [Procs -> Files] /\ fd \in [Procs -> Files]
    /\ old \in [Procs -> Files]
    /\ seen \in [Procs -> SUBSET Fonts] /\ snap \in [Procs -> Contents]
    /\ file \in Contents
    /\ list \in {None} \cup SUBSET Fonts
    /\ scale \in {None} \cup Contents
    /\ dir \in {None} \cup [at : Nat, of : Contents]
    /\ clock \in Nat /\ faults \in Nat
    /\ {collided, overstayed, disturbed} \subseteq BOOLEAN
    /\ \A p \in Procs : pc[p] = "write" => fd[p] # None

\* The lock's purpose, "font_cache is already running": no two processes work
\* on the caches at a time.
MutualExclusion ==
    \A p, q \in Procs : pc[p] \in Working /\ pc[q] \in Working => p = q

\* Two processes get to work together only after two were taking the lock at
\* the same time or, with lockfile(1), after one outlived the 240 seconds of
\* its lock: crashes, signals and stale locks alone do not break the lock.
ExclusiveButFor == (IF lockfile THEN overstayed ELSE collided) \/ MutualExclusion

\* A directory that check_dirty passes as clean has the fonts.dir of the fonts
\* in it, whatever was installed, replaced or removed while caches were made,
\* unless a run of the tools was disturbed.
CleanIsFresh ==
    [][\A p \in Procs :
          pc[p] = "judge" /\ pc'[p] = "unlock" /\ seen[p] = Present
            => disturbed \/ dir.of = file]_vars

\* A copy gives up only to somebody: no lock that a killed copy left behind
\* turns away one that is alone, but with lockfile(1) for its 240 seconds.
GivesUpToSomebody ==
    [][\A p \in Procs :
          pc[p] \in Acquiring /\ pc'[p] = "done"
            => \/ collided \/ (lockfile /\ ~aged)
               \/ \E q \in Procs \ {p} : pc[q] \notin Resting]_vars
=============================================================================
