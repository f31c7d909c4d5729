--------------------------- MODULE FontCacheProofs ---------------------------
(* Why two copies of font_cache get to work together in two cases only, for *)
(* any number of copies, fonts, changes and faults.                         *)
EXTENDS FontCache, TLAPS

-----------------------------------------------------------------------------
(* Types, one action after the other. *)

\* The two procs every step is made of.
LEMMA GoToTypes ==
    ASSUME TypeOK, NEW p \in Procs, NEW from,
           NEW to \in Resting \cup Acquiring \cup Working, GoTo(p, from, to)
    PROVE  /\ pc' \in [Procs -> Resting \cup Acquiring \cup Working]
           /\ pc' = [pc EXCEPT ![p] = to] /\ pc[p] = from
           /\ collided' \in BOOLEAN /\ lockfile' = lockfile
           /\ \A q \in Procs : q # p => pc'[q] = pc[q]
  <1>1. pc \in [Procs -> Resting \cup Acquiring \cup Working] /\ collided \in BOOLEAN
    BY DEF TypeOK
  <1>2. pc' = [pc EXCEPT ![p] = to] /\ pc[p] = from /\ lockfile' = lockfile
    BY DEF GoTo
  <1>3. collided' = (collided \/ (to \in Acquiring
                        /\ \E q \in Procs \ {p} : pc[q] \in Acquiring))
    BY DEF GoTo
  <1>4. collided' \in BOOLEAN
    BY <1>3
  <1> QED
    BY <1>1, <1>2, <1>4

LEMMA Places ==
    /\ {"test", "suspend", "read", "kill", "rmstale", "open", "write", "verify", "trap",
        "find", "judge", "scan", "scale", "dir", "unlock", "done", "dead", "new"}
          \subseteq Resting \cup Acquiring \cup Working
    /\ \A x \in Resting \cup Working : x \notin Acquiring
    /\ \A x \in Working : x \notin Resting
  BY DEF Resting, Acquiring, Taking, Working

LEMMA NoProc == None \notin Procs
  BY FontAssumption

LEMMA TypesKept == TypeOK /\ [Next]_vars => TypeOK'
  <1> SUFFICES ASSUME TypeOK, [Next]_vars PROVE TypeOK'
    OBVIOUS
  <1>1. ASSUME NEW p \in Procs, Start(p) PROVE TypeOK'
    BY <1>1, NoProc
    DEF Start, GoTo, Enter, Exit, Disturb, TypeOK, Files, Contents, Present, Resting, Acquiring,
        Taking, Working, lockVars, cacheVars, history
  <1>2. ASSUME NEW p \in Procs, TryLockfile(p) PROVE TypeOK'
    <2>1. PICK from \in {"test", "suspend"}, to \in {"trap", "done", "suspend"} : GoTo(p, from, to)
      BY <1>2 DEF TryLockfile, Enter, Exit
    <2>2. /\ pc' \in [Procs -> Resting \cup Acquiring \cup Working] /\ pc' = [pc EXCEPT ![p] = to]
          /\ collided' \in BOOLEAN /\ lockfile' = lockfile
      BY <2>1, GoToTypes, Places
    <2>3. disturbed' \in BOOLEAN
      BY <1>2 DEF TryLockfile, Enter, Disturb, TypeOK
    <2>4. path' \in Files /\ aged' \in BOOLEAN
      BY <1>2 DEF TryLockfile, Files, TypeOK
    <2>5. to # "write"
      OBVIOUS
    <2>6. UNCHANGED <<data, fd, old, cacheVars, file, clock, faults, overstayed>>
      BY <1>2 DEF TryLockfile
    <2>7. \A q \in Procs : pc'[q] = "write" => pc[q] = "write"
      BY <2>2, <2>5
    <2> QED
      BY <2>2, <2>3, <2>4, <2>6, <2>7 DEF TypeOK, cacheVars
  <1>3. ASSUME NEW p \in Procs, TestLock(p) PROVE TypeOK'
    BY <1>3, NoProc
    DEF TestLock, GoTo, Enter, Exit, Disturb, TypeOK, Files, Contents, Present, Resting, Acquiring,
        Taking, Working, lockVars, cacheVars, history
  <1>4. ASSUME NEW p \in Procs, ReadLock(p) PROVE TypeOK'
    BY <1>4, NoProc
    DEF ReadLock, GoTo, Enter, Exit, Disturb, TypeOK, Files, Contents, Present, Resting, Acquiring,
        Taking, Working, lockVars, cacheVars, history
  <1>5. ASSUME NEW p \in Procs, CheckAlive(p) PROVE TypeOK'
    BY <1>5, NoProc
    DEF CheckAlive, GoTo, Enter, Exit, Disturb, TypeOK, Files, Contents, Present, Resting, Acquiring,
        Taking, Working, lockVars, cacheVars, history
  <1>6. ASSUME NEW p \in Procs, RemoveStale(p) PROVE TypeOK'
    BY <1>6, NoProc
    DEF RemoveStale, GoTo, Enter, Exit, Disturb, TypeOK, Files, Contents, Present, Resting, Acquiring,
        Taking, Working, lockVars, cacheVars, history
  <1>7. ASSUME NEW p \in Procs, OpenLock(p) PROVE TypeOK'
    BY <1>7, NoProc
    DEF OpenLock, GoTo, Enter, Exit, Disturb, TypeOK, Files, Contents, Present, Resting, Acquiring,
        Taking, Working, lockVars, cacheVars, history
  <1>8. ASSUME NEW p \in Procs, WriteLock(p) PROVE TypeOK'
    BY <1>8, NoProc
    DEF WriteLock, GoTo, Enter, Exit, Disturb, TypeOK, Files, Contents, Present, Resting, Acquiring,
        Taking, Working, lockVars, cacheVars, history
  <1>9. ASSUME NEW p \in Procs, VerifyLock(p) PROVE TypeOK'
    <2>1. PICK to \in {"trap", "done"} : GoTo(p, "verify", to)
      BY <1>9 DEF VerifyLock, Enter, Exit
    <2>2. /\ pc' \in [Procs -> Resting \cup Acquiring \cup Working] /\ pc' = [pc EXCEPT ![p] = to]
          /\ collided' \in BOOLEAN /\ lockfile' = lockfile
      BY <2>1, GoToTypes, Places
    <2>3. disturbed' \in BOOLEAN
      BY <1>9 DEF VerifyLock, Enter, Disturb, TypeOK
    <2>4. UNCHANGED <<lockVars, cacheVars, file, clock, faults, overstayed>>
      BY <1>9 DEF VerifyLock
    <2>5. \A q \in Procs : pc'[q] = "write" => pc[q] = "write"
      BY <2>2
    <2> QED
      BY <2>2, <2>3, <2>4, <2>5 DEF TypeOK, lockVars, cacheVars
  <1>a. ASSUME NEW p \in Procs, SetTrap(p) PROVE TypeOK'
    BY <1>a, NoProc
    DEF SetTrap, GoTo, Enter, Exit, Disturb, TypeOK, Files, Contents, Present, Resting, Acquiring,
        Taking, Working, lockVars, cacheVars, history
  <1>b. ASSUME NEW p \in Procs, Unlock(p) PROVE TypeOK'
    BY <1>b, NoProc
    DEF Unlock, GoTo, Enter, Exit, Disturb, TypeOK, Files, Contents, Present, Resting, Acquiring,
        Taking, Working, lockVars, cacheVars, history
  <1>c. ASSUME NEW p \in Procs, FindFonts(p) PROVE TypeOK'
    <2>1. PICK to \in {"unlock", "judge"} : GoTo(p, "find", to)
      BY <1>c DEF FindFonts
    <2>2. /\ pc' \in [Procs -> Resting \cup Acquiring \cup Working] /\ pc' = [pc EXCEPT ![p] = to]
          /\ collided' \in BOOLEAN /\ lockfile' = lockfile
      BY <2>1, GoToTypes, Places
    <2>3. seen' \in [Procs -> SUBSET Fonts]
      BY <1>c DEF FindFonts, Present, TypeOK
    <2>4. UNCHANGED <<lockVars, snap, file, clock, faults, overstayed, disturbed>>
      BY <1>c DEF FindFonts
    <2>5. /\ list' \in {None} \cup SUBSET Fonts /\ scale' \in {None} \cup Contents
          /\ dir' \in {None} \cup [at : Nat, of : Contents]
      BY <1>c DEF FindFonts, TypeOK
    <2>6. \A q \in Procs : pc'[q] = "write" => fd'[q] # None
      BY <2>2, <2>4 DEF TypeOK, lockVars
    <2>7. /\ path' \in Files /\ aged' \in BOOLEAN
          /\ data' \in [Procs -> Files] /\ fd' \in [Procs -> Files] /\ old' \in [Procs -> Files]
          /\ snap' \in [Procs -> Contents] /\ file' \in Contents
      BY <2>4 DEF TypeOK, lockVars
    <2>8. clock' \in Nat /\ faults' \in Nat /\ overstayed' \in BOOLEAN /\ disturbed' \in BOOLEAN
      BY <2>4 DEF TypeOK
    <2>9. lockfile' \in BOOLEAN
      BY <2>2 DEF TypeOK
    <2> QED
      BY <2>2, <2>3, <2>5, <2>6, <2>7, <2>8, <2>9 DEF TypeOK
  <1>d. ASSUME NEW p \in Procs, Judge(p) PROVE TypeOK'
    <2>1. PICK to \in {"unlock", "scan"} : GoTo(p, "judge", to)
      BY <1>d DEF Judge
    <2>2. /\ pc' \in [Procs -> Resting \cup Acquiring \cup Working] /\ pc' = [pc EXCEPT ![p] = to]
          /\ collided' \in BOOLEAN /\ lockfile' = lockfile
      BY <2>1, GoToTypes, Places
    <2>3. UNCHANGED <<lockVars, seen, snap, scale, dir, file, clock, faults, overstayed, disturbed>>
      BY <1>d DEF Judge
    <2>4. list' \in {None} \cup SUBSET Fonts
      <3>1. seen[p] \in SUBSET Fonts /\ list \in {None} \cup SUBSET Fonts
        BY DEF TypeOK
      <3>2. list' = seen[p] \/ list' = list
        BY <1>d DEF Judge
      <3> QED
        BY <3>1, <3>2
    <2>5. \A q \in Procs : pc'[q] = "write" => fd'[q] # None
      BY <2>2, <2>3 DEF TypeOK, lockVars
    <2>6. /\ path' \in Files /\ aged' \in BOOLEAN
          /\ data' \in [Procs -> Files] /\ fd' \in [Procs -> Files] /\ old' \in [Procs -> Files]
          /\ seen' \in [Procs -> SUBSET Fonts] /\ snap' \in [Procs -> Contents] /\ file' \in Contents
          /\ scale' \in {None} \cup Contents /\ dir' \in {None} \cup [at : Nat, of : Contents]
      BY <2>3 DEF TypeOK, lockVars
    <2>7. /\ clock' \in Nat /\ faults' \in Nat /\ overstayed' \in BOOLEAN /\ disturbed' \in BOOLEAN
          /\ lockfile' \in BOOLEAN
      BY <2>2, <2>3 DEF TypeOK
    <2> QED
      BY <2>2, <2>4, <2>5, <2>6, <2>7 DEF TypeOK
  <1>e. ASSUME NEW p \in Procs, ScanFonts(p) PROVE TypeOK'
    BY <1>e, NoProc
    DEF ScanFonts, GoTo, Enter, Exit, Disturb, TypeOK, Files, Contents, Present, Resting, Acquiring,
        Taking, Working, lockVars, cacheVars, history
  <1>f. ASSUME NEW p \in Procs, WriteScale(p) PROVE TypeOK'
    BY <1>f, NoProc
    DEF WriteScale, GoTo, Enter, Exit, Disturb, TypeOK, Files, Contents, Present, Resting, Acquiring,
        Taking, Working, lockVars, cacheVars, history
  <1>g. ASSUME NEW p \in Procs, WriteDir(p) PROVE TypeOK'
    <2>1. GoTo(p, "dir", "unlock")
      BY <1>g DEF WriteDir
    <2>2. /\ pc' \in [Procs -> Resting \cup Acquiring \cup Working] /\ pc' = [pc EXCEPT ![p] = "unlock"]
          /\ collided' \in BOOLEAN /\ lockfile' = lockfile
      BY <2>1, GoToTypes, Places
    <2>3. clock \in Nat /\ scale \in {None} \cup Contents
      BY DEF TypeOK
    <2>4. [f \in Fonts |-> 0] \in Contents
      BY DEF Contents
    <2>5. clock' \in Nat /\ dir' \in [at : Nat, of : Contents]
      BY <1>g, <2>3, <2>4 DEF WriteDir
    <2>6. UNCHANGED <<lockVars, seen, snap, list, scale, file, faults, overstayed, disturbed>>
      BY <1>g DEF WriteDir
    <2>7. \A q \in Procs : pc'[q] = "write" => fd'[q] # None
      BY <2>2, <2>6 DEF TypeOK, lockVars
    <2>8. /\ path' \in Files /\ aged' \in BOOLEAN
          /\ data' \in [Procs -> Files] /\ fd' \in [Procs -> Files] /\ old' \in [Procs -> Files]
          /\ seen' \in [Procs -> SUBSET Fonts] /\ snap' \in [Procs -> Contents] /\ file' \in Contents
          /\ list' \in {None} \cup SUBSET Fonts /\ scale' \in {None} \cup Contents
      BY <2>6 DEF TypeOK, lockVars
    <2>9. faults' \in Nat /\ overstayed' \in BOOLEAN /\ disturbed' \in BOOLEAN
      BY <2>6 DEF TypeOK
    <2>10. lockfile' \in BOOLEAN
      BY <2>2 DEF TypeOK
    <2> QED
      BY <2>2, <2>5, <2>7, <2>8, <2>9, <2>10 DEF TypeOK
  <1>h. ASSUME NEW p \in Procs, ToolFails(p) PROVE TypeOK'
    <2>1. PICK from \in {"scan", "dir"}, to \in {"dir", "unlock"} : GoTo(p, from, to)
      BY <1>h DEF ToolFails
    <2>2. /\ pc' \in [Procs -> Resting \cup Acquiring \cup Working] /\ pc' = [pc EXCEPT ![p] = to]
          /\ collided' \in BOOLEAN /\ lockfile' = lockfile
      BY <2>1, GoToTypes, Places
    <2>3. UNCHANGED <<lockVars, cacheVars, file, clock, overstayed>>
      BY <1>h DEF ToolFails
    <2>4. faults' \in Nat /\ disturbed' \in BOOLEAN
      BY <1>h DEF ToolFails, Disturb, TypeOK
    <2>5. \A q \in Procs : pc'[q] = "write" => fd'[q] # None
      BY <2>2, <2>3 DEF TypeOK, lockVars
    <2>6. /\ path' \in Files /\ aged' \in BOOLEAN
          /\ data' \in [Procs -> Files] /\ fd' \in [Procs -> Files] /\ old' \in [Procs -> Files]
          /\ seen' \in [Procs -> SUBSET Fonts] /\ snap' \in [Procs -> Contents] /\ file' \in Contents
          /\ list' \in {None} \cup SUBSET Fonts /\ scale' \in {None} \cup Contents
          /\ dir' \in {None} \cup [at : Nat, of : Contents]
      BY <2>3 DEF TypeOK, lockVars, cacheVars
    <2>7. clock' \in Nat /\ overstayed' \in BOOLEAN /\ lockfile' \in BOOLEAN
      BY <2>2, <2>3 DEF TypeOK
    <2> QED
      BY <2>2, <2>4, <2>5, <2>6, <2>7 DEF TypeOK
  <1>i. ASSUME NEW p \in Procs, Kill(p) PROVE TypeOK'
    BY <1>i, NoProc
    DEF Kill, GoTo, Enter, Exit, Disturb, TypeOK, Files, Contents, Present, Resting, Acquiring,
        Taking, Working, lockVars, cacheVars, history
  <1>j. CASE Age
    BY <1>j DEF Age, TypeOK, cacheVars
  <1>k. ASSUME NEW f \in Fonts, ChangeFont(f) PROVE TypeOK'
    BY <1>k DEF ChangeFont, Disturb, TypeOK, Contents, lockVars, cacheVars
  <1>l. CASE UNCHANGED vars
    BY <1>l DEF vars, lockVars, cacheVars, history, TypeOK
  <1> QED
    BY <1>1, <1>2, <1>3, <1>4, <1>5, <1>6, <1>7, <1>8, <1>9, <1>a, <1>b, <1>c, <1>d, <1>e, <1>f, <1>g, <1>h, <1>i, <1>j, <1>k, <1>l DEF Next, Step

LEMMA InitTypes == Init => TypeOK
  <1> SUFFICES ASSUME Init PROVE TypeOK
    OBVIOUS
  <1>1. pc \in [Procs -> Resting \cup Acquiring \cup Working]
    BY DEF Init, Resting
  <1>2. file \in Contents
    BY DEF Init, Contents
  <1> QED
    BY <1>1, <1>2, FontAssumption DEF Init, TypeOK, Files, Contents

-----------------------------------------------------------------------------
(* The lock of lockfile(1). *)

\* Who works under lockfile(1) has a young lock of its own, and nobody takes
\* the other kind of lock.
LockfileInv ==
    lockfile =>
        /\ \A p \in Procs : pc[p] \notin Taking
        /\ ~overstayed => \A p \in Procs : pc[p] \in Working => path = p /\ ~aged

\* A process that starts, or goes on with its work, and lets the lock be.
Quiet(p) ==
    /\ UNCHANGED <<lockfile, lockVars, overstayed>>
    /\ \/ GoTo(p, "new", "test")
       \/ \E from \in Working, to \in Working : GoTo(p, from, to)

LEMMA QuietSteps ==
    ASSUME NEW p \in Procs,
           \/ Start(p) \/ SetTrap(p) \/ FindFonts(p) \/ Judge(p) \/ ScanFonts(p)
           \/ WriteScale(p) \/ WriteDir(p) \/ ToolFails(p)
    PROVE  Quiet(p)
  <1>1. CASE Start(p)
    BY <1>1 DEF Start, Quiet, GoTo
  <1>2. CASE ~Start(p)
    <2>1. \E from \in Working, to \in Working : GoTo(p, from, to)
      BY <1>2 DEF SetTrap, FindFonts, Judge, ScanFonts, WriteScale, WriteDir, ToolFails, Working
    <2>2. UNCHANGED <<lockfile, lockVars, overstayed>>
      BY <1>2 DEF SetTrap, FindFonts, Judge, ScanFonts, WriteScale, WriteDir, ToolFails, GoTo
    <2> QED
      BY <2>1, <2>2 DEF Quiet
  <1> QED
    BY <1>1, <1>2

\* A step of the world, or none.
LEMMA OtherSteps ==
    ASSUME \/ \E f \in Fonts : ChangeFont(f)
           \/ UNCHANGED vars
    PROVE  UNCHANGED <<lockfile, pc, lockVars, collided, overstayed>>
  BY DEF ChangeFont, vars, history

\* A process that works takes no lock, and one that takes a lock does not rest.
LEMMA Apart ==
    /\ \A x \in Working : x \notin Resting \cup Acquiring
    /\ \A x \in Taking \cup {"test", "suspend"} : x \in Acquiring /\ x \notin Resting
    /\ \A x \in {"test", "suspend", "done", "dead", "new"} : x \notin Taking \cup Working
  BY DEF Resting, Acquiring, Taking, Working

LEMMA LockfileKept == TypeOK /\ LockfileInv /\ [Next]_vars => LockfileInv'
  <1> SUFFICES ASSUME TypeOK, LockfileInv, [Next]_vars, lockfile' PROVE LockfileInv'
    BY DEF LockfileInv
  <1>1. lockfile
    BY DEF Next, Step, vars, GoTo, Start, TryLockfile, TestLock, ReadLock, CheckAlive,
           RemoveStale, OpenLock, WriteLock, VerifyLock, SetTrap, Unlock, FindFonts, Judge,
           ScanFonts, WriteScale, WriteDir, ToolFails, Kill, Age, ChangeFont, Enter, Exit
  <1>2. /\ pc \in [Procs -> Resting \cup Acquiring \cup Working]
        /\ overstayed \in BOOLEAN /\ aged \in BOOLEAN
        /\ \A p \in Procs : pc[p] \notin Taking
        /\ ~overstayed => \A p \in Procs : pc[p] \in Working => path = p /\ ~aged
    BY <1>1 DEF TypeOK, LockfileInv
  <1>3. ASSUME NEW p \in Procs, Quiet(p) PROVE LockfileInv'
    <2>1. PICK to \in Working \cup {"test"} :
              /\ pc' = [pc EXCEPT ![p] = to]
              /\ to \in Working => pc[p] \in Working
      BY <1>3 DEF Quiet, GoTo, Working
    <2>2. UNCHANGED <<path, aged, overstayed>>
      BY <1>3 DEF Quiet, lockVars
    <2>3. to \notin Taking
      BY Apart, <2>1 DEF Taking, Working
    <2> QED
      BY <1>2, <2>1, <2>2, <2>3 DEF LockfileInv
  <1>4. ASSUME NEW p \in Procs, TryLockfile(p) PROVE LockfileInv'
    <2>1. overstayed' = overstayed
      BY <1>4 DEF TryLockfile
    <2>2. CASE path = None
      <3>1. pc' = [pc EXCEPT ![p] = "trap"] /\ path' = p /\ ~aged'
        BY <1>4, <2>2 DEF TryLockfile, Enter, GoTo
      <3>2. ~overstayed => \A q \in Procs : pc[q] \notin Working
        BY <1>2, <2>2, FontAssumption
      <3>3. "trap" \notin Taking
        BY DEF Taking
      <3> QED
        BY <1>2, <2>1, <3>1, <3>2, <3>3 DEF LockfileInv
    <2>3. CASE path # None /\ ~aged
      <3>1. pc' = [pc EXCEPT ![p] = "done"] /\ path' = path /\ aged' = aged
        BY <1>4, <2>3 DEF TryLockfile, Exit, GoTo
      <3> QED
        BY <1>2, <2>1, <3>1, Apart DEF LockfileInv
    <2>4. CASE path # None /\ aged
      <3>1. pc' = [pc EXCEPT ![p] = "suspend"]
        BY <1>4, <2>4 DEF TryLockfile, GoTo
      <3>2. ~overstayed => \A q \in Procs : pc[q] \notin Working
        BY <1>2, <2>4
      <3> QED
        BY <1>2, <2>1, <3>1, <3>2, Apart DEF LockfileInv
    <2> QED
      BY <1>2, <2>2, <2>3, <2>4
  <1>5. ASSUME NEW p \in Procs,
               \/ TestLock(p) \/ ReadLock(p) \/ CheckAlive(p) \/ RemoveStale(p)
               \/ OpenLock(p) \/ WriteLock(p) \/ VerifyLock(p)
        PROVE  FALSE
    <2>1. pc[p] \in Taking
      BY <1>1, <1>5 DEF TestLock, ReadLock, CheckAlive, RemoveStale, OpenLock, WriteLock,
                        VerifyLock, Enter, Exit, GoTo, Taking
    <2> QED
      BY <1>2, <2>1
  <1>6. ASSUME NEW p \in Procs, Unlock(p) PROVE LockfileInv'
    <2>1. /\ pc[p] = "unlock" /\ pc' = [pc EXCEPT ![p] = "done"]
          /\ UNCHANGED <<aged, overstayed>>
      BY <1>6 DEF Unlock, Exit, GoTo
    <2>2. ~overstayed => \A q \in Procs : pc[q] \in Working => q = p
      BY <1>2, <2>1 DEF Working
    <2> QED
      BY <1>2, <2>1, <2>2, Apart DEF LockfileInv
  <1>7. ASSUME NEW p \in Procs, Kill(p) PROVE LockfileInv'
    <2>1. /\ pc' = [pc EXCEPT ![p] = "dead"] /\ UNCHANGED <<aged, overstayed>>
          /\ pc[p] \notin Working => path' = path
          /\ path' \in {path, None}
      BY <1>7 DEF Kill, GoTo
    <2>2. ~overstayed /\ pc[p] \in Working => \A q \in Procs : pc[q] \in Working => q = p
      BY <1>2
    <2> QED
      BY <1>2, <2>1, <2>2, Apart DEF LockfileInv
  <1>8. CASE Age
    <2>1. /\ path # None /\ path' = path /\ pc' = pc
          /\ overstayed' = (overstayed \/ pc[path] \in Working)
      BY <1>8 DEF Age
    <2>2. path \in Procs
      BY <2>1 DEF TypeOK, Files
    <2> QED
      BY <1>2, <2>1, <2>2 DEF LockfileInv
  <1>9. CASE (\E f \in Fonts : ChangeFont(f)) \/ UNCHANGED vars
    <2>1. UNCHANGED <<pc, path, aged, overstayed>>
      BY <1>9, OtherSteps DEF lockVars
    <2> QED
      BY <1>2, <2>1 DEF LockfileInv
  <1> QED
    BY <1>3, <1>4, <1>5, <1>6, <1>7, <1>8, <1>9, QuietSteps DEF Next, Step

-----------------------------------------------------------------------------
(* The lock that holds a PID. *)

\* While no two processes take the lock at a time: the lock is of the one that
\* works; one that takes it finds it, or is past that because nobody works.
PidInv ==
    ~lockfile /\ ~collided =>
        /\ \A p, q \in Procs : pc[p] \in Acquiring /\ pc[q] \in Acquiring => p = q
        /\ \A p \in Procs : pc[p] \in Working => path # None /\ data[path] = p
        /\ \A p, q \in Procs :
              pc[q] \in {"rmstale", "open", "write", "verify"} => pc[p] \notin Working
        /\ \A p, q \in Procs : pc[q] = "kill" /\ pc[p] \in Working => old[q] = p

\* A step of one process that starts nobody else keeps takers alone.
LEMMA Takers ==
    ASSUME TypeOK, NEW p \in Procs, NEW from, NEW to, GoTo(p, from, to), ~collided',
           \A q, r \in Procs : pc[q] \in Acquiring /\ pc[r] \in Acquiring => q = r
    PROVE  /\ ~collided
           /\ pc' = [pc EXCEPT ![p] = to] /\ pc[p] = from
           /\ \A q, r \in Procs : pc'[q] \in Acquiring /\ pc'[r] \in Acquiring => q = r
           /\ to \in Acquiring => \A q \in Procs : pc[q] \in Acquiring => q = p
  <1>1. /\ pc' = [pc EXCEPT ![p] = to] /\ pc[p] = from
        /\ pc \in [Procs -> Resting \cup Acquiring \cup Working]
    BY DEF GoTo, TypeOK
  <1>2. ~collided /\ (to \in Acquiring => \A q \in Procs \ {p} : pc[q] \notin Acquiring)
    BY DEF GoTo
  <1> QED
    BY <1>1, <1>2

LEMMA PidKept == TypeOK /\ PidInv /\ [Next]_vars => PidInv'
  <1> SUFFICES ASSUME TypeOK, PidInv, [Next]_vars, ~lockfile', ~collided' PROVE PidInv'
    BY DEF PidInv
  <1>1. ~lockfile
    BY DEF Next, Step, vars, GoTo, Start, TryLockfile, TestLock, ReadLock, CheckAlive,
           RemoveStale, OpenLock, WriteLock, VerifyLock, SetTrap, Unlock, FindFonts, Judge,
           ScanFonts, WriteScale, WriteDir, ToolFails, Kill, Age, ChangeFont, Enter, Exit
  <1>2. ~collided
    BY DEF Next, Step, vars, history, GoTo, Start, TryLockfile, TestLock, ReadLock, CheckAlive,
           RemoveStale, OpenLock, WriteLock, VerifyLock, SetTrap, Unlock, FindFonts, Judge,
           ScanFonts, WriteScale, WriteDir, ToolFails, Kill, Age, ChangeFont, Enter, Exit
  <1>3. /\ \A p, q \in Procs : pc[p] \in Acquiring /\ pc[q] \in Acquiring => p = q
        /\ \A p \in Procs : pc[p] \in Working => path # None /\ data[path] = p
        /\ \A p, q \in Procs :
              pc[q] \in {"rmstale", "open", "write", "verify"} => pc[p] \notin Working
        /\ \A p, q \in Procs : pc[q] = "kill" /\ pc[p] \in Working => old[q] = p
    BY <1>1, <1>2 DEF PidInv
  <1>4. /\ pc \in [Procs -> Resting \cup Acquiring \cup Working]
        /\ path \in Files /\ data \in [Procs -> Files] /\ old \in [Procs -> Files]
        /\ fd \in [Procs -> Files]
    BY DEF TypeOK
  <1>5. ASSUME NEW p \in Procs, NEW from, NEW to, GoTo(p, from, to)
        PROVE  /\ pc' = [pc EXCEPT ![p] = to] /\ pc[p] = from
               /\ \A q, r \in Procs : pc'[q] \in Acquiring /\ pc'[r] \in Acquiring => q = r
               /\ to \in Acquiring => \A q \in Procs : pc[q] \in Acquiring => q = p
    BY <1>3, <1>5, Takers
  <1>6. ASSUME NEW p \in Procs, Quiet(p) PROVE PidInv'
    <2>1. UNCHANGED <<path, data, old>>
      BY <1>6 DEF Quiet, lockVars
    <2>2. CASE GoTo(p, "new", "test")
      <3>1. /\ pc' = [pc EXCEPT ![p] = "test"]
            /\ \A q, r \in Procs : pc'[q] \in Acquiring /\ pc'[r] \in Acquiring => q = r
        BY <2>2, <1>5
      <3> QED
        BY <1>3, <1>4, <2>1, <3>1, Apart DEF PidInv
    <2>3. CASE \E from \in Working, to \in Working : GoTo(p, from, to)
      <3>1. PICK to \in Working :
                /\ pc[p] \in Working /\ pc' = [pc EXCEPT ![p] = to]
                /\ \A q, r \in Procs : pc'[q] \in Acquiring /\ pc'[r] \in Acquiring => q = r
        BY <2>3, <1>5
      <3>2. to \notin {"rmstale", "open", "write", "verify", "kill"}
        BY DEF Working
      <3> QED
        BY <1>3, <1>4, <2>1, <3>1, <3>2 DEF PidInv
    <2> QED
      BY <1>6, <2>2, <2>3 DEF Quiet
  <1>7. ASSUME NEW p \in Procs, TestLock(p) PROVE PidInv'
    <2>1. PICK to \in {"open", "read"} :
              /\ GoTo(p, "test", to) /\ (to = "open" => path = None)
      BY <1>7 DEF TestLock
    <2>2. /\ pc' = [pc EXCEPT ![p] = to]
          /\ \A q, r \in Procs : pc'[q] \in Acquiring /\ pc'[r] \in Acquiring => q = r
      BY <2>1, <1>5
    <2>3. UNCHANGED <<path, data, old>>
      BY <1>7 DEF TestLock, lockVars
    <2>4. to \notin Working /\ (to = "open" => \A q \in Procs : pc[q] \notin Working)
      BY <1>3, <2>1 DEF Working
    <2> QED
      BY <1>3, <1>4, <2>2, <2>3, <2>4 DEF PidInv
  <1>8. ASSUME NEW p \in Procs, ReadLock(p) PROVE PidInv'
    <2>1. /\ pc' = [pc EXCEPT ![p] = "kill"]
          /\ \A q, r \in Procs : pc'[q] \in Acquiring /\ pc'[r] \in Acquiring => q = r
      BY <1>8, <1>5 DEF ReadLock
    <2>2. /\ UNCHANGED <<path, data>>
          /\ old' = [old EXCEPT ![p] = IF path = None THEN None ELSE data[path]]
      BY <1>8 DEF ReadLock
    <2>3. "kill" \notin Working
      BY DEF Working
    <2>4. \A q \in Procs : pc[q] \in Working => old'[p] = q
      BY <1>3, <1>4, <2>2
    <2> QED
      BY <1>3, <1>4, <2>1, <2>2, <2>3, <2>4 DEF PidInv
  <1>9. ASSUME NEW p \in Procs, CheckAlive(p) PROVE PidInv'
    <2>1. PICK to \in {"done", "rmstale"} :
              /\ GoTo(p, "kill", to) /\ (to = "rmstale" => ~Alive(old[p]))
      BY <1>9 DEF CheckAlive
    <2>2. /\ pc' = [pc EXCEPT ![p] = to] /\ pc[p] = "kill"
          /\ \A q, r \in Procs : pc'[q] \in Acquiring /\ pc'[r] \in Acquiring => q = r
      BY <2>1, <1>5
    <2>3. UNCHANGED <<path, data, old>>
      BY <1>9 DEF CheckAlive, lockVars
    <2>4. \A q \in Procs : pc[q] \in Working => Alive(old[p])
      BY <1>3, <2>2, Apart, FontAssumption DEF Alive
    <2>5. to \notin Working
      BY <2>1 DEF Working
    <2> QED
      BY <1>3, <1>4, <2>1, <2>2, <2>3, <2>4, <2>5 DEF PidInv
  <1>a. ASSUME NEW p \in Procs, RemoveStale(p) PROVE PidInv'
    <2>1. /\ pc' = [pc EXCEPT ![p] = "open"] /\ pc[p] = "rmstale"
          /\ \A q, r \in Procs : pc'[q] \in Acquiring /\ pc'[r] \in Acquiring => q = r
      BY <1>a, <1>5 DEF RemoveStale
    <2>2. \A q \in Procs : pc'[q] \notin Working
      BY <1>3, <1>4, <2>1 DEF Working
    <2> QED
      BY <2>1, <2>2 DEF PidInv
  <1>b. ASSUME NEW p \in Procs, OpenLock(p) \/ WriteLock(p) PROVE PidInv'
    <2>1. PICK to \in {"write", "verify"} :
              /\ pc' = [pc EXCEPT ![p] = to] /\ pc[p] \in {"open", "write"}
              /\ \A q, r \in Procs : pc'[q] \in Acquiring /\ pc'[r] \in Acquiring => q = r
      BY <1>b, <1>5 DEF OpenLock, WriteLock
    <2>2. \A q \in Procs : pc'[q] \notin Working
      BY <1>3, <1>4, <2>1 DEF Working
    <2> QED
      BY <2>1, <2>2 DEF PidInv
  <1>c. ASSUME NEW p \in Procs, VerifyLock(p) PROVE PidInv'
    <2>1. PICK to \in {"trap", "done"} :
              /\ GoTo(p, "verify", to) /\ (to = "trap" => path # None /\ data[path] = p)
      BY <1>c DEF VerifyLock, Enter, Exit
    <2>2. /\ pc' = [pc EXCEPT ![p] = to] /\ pc[p] = "verify"
          /\ \A q, r \in Procs : pc'[q] \in Acquiring /\ pc'[r] \in Acquiring => q = r
      BY <2>1, <1>5
    <2>3. UNCHANGED <<path, data, old>>
      BY <1>c DEF VerifyLock, lockVars
    <2>4. \A q \in Procs : pc[q] \notin Working /\ (pc[q] \in Acquiring => q = p)
      BY <1>3, <2>2, Apart DEF Taking
    <2>5. \A q \in Procs :
              /\ pc'[q] \notin {"rmstale", "open", "write", "verify", "kill"}
              /\ pc'[q] \in Working => q = p /\ to = "trap"
      BY <1>4, <2>1, <2>2, <2>4, Apart DEF Taking
    <2> QED
      BY <2>1, <2>2, <2>3, <2>5 DEF PidInv
  <1>d. ASSUME NEW p \in Procs, Unlock(p) PROVE PidInv'
    <2>1. /\ pc' = [pc EXCEPT ![p] = "done"] /\ pc[p] = "unlock"
          /\ \A q, r \in Procs : pc'[q] \in Acquiring /\ pc'[r] \in Acquiring => q = r
      BY <1>d, <1>5 DEF Unlock, Exit
    <2>2. \A q \in Procs : pc'[q] \notin Working
      BY <1>3, <1>4, <2>1 DEF Working
    <2> QED
      BY <2>1, <2>2 DEF PidInv
  <1>e. ASSUME NEW p \in Procs, Kill(p) PROVE PidInv'
    <2>1. /\ pc' = [pc EXCEPT ![p] = "dead"]
          /\ \A q, r \in Procs : pc'[q] \in Acquiring /\ pc'[r] \in Acquiring => q = r
      BY <1>e, <1>5 DEF Kill
    <2>2. /\ UNCHANGED <<data, old>>
          /\ pc[p] \notin Working => path' = path
      BY <1>e DEF Kill
    <2>3. pc[p] \in Working => \A q \in Procs : pc'[q] \notin Working
      BY <1>3, <1>4, <2>1, Apart
    <2> QED
      BY <1>3, <1>4, <2>1, <2>2, <2>3, Apart DEF PidInv
  <1>f. CASE (\E f \in Fonts : ChangeFont(f)) \/ UNCHANGED vars
    <2>1. UNCHANGED <<pc, path, data, old>>
      BY <1>f, OtherSteps DEF lockVars
    <2> QED
      BY <1>3, <2>1 DEF PidInv
  <1>g. ASSUME NEW p \in Procs, TryLockfile(p) PROVE FALSE
    BY <1>1, <1>g DEF TryLockfile
  <1>h. CASE Age
    BY <1>1, <1>h DEF Age
  <1> QED
    BY <1>6, <1>7, <1>8, <1>9, <1>a, <1>b, <1>c, <1>d, <1>e, <1>f, <1>g, <1>h, QuietSteps
    DEF Next, Step

-----------------------------------------------------------------------------
(* Whom a copy gives up to. *)

Early == {"new", "test", "read", "kill", "rmstale", "open", "write"}

\* No file holds the PID of a copy that has not written one; none that checks
\* whether the owner lives takes itself for it; and while no two take the lock
\* at a time, the file a copy writes stays the lock until it has verified it.
OwnInv ==
    /\ \A p, i \in Procs : pc[p] \in Early => data[i] # p
    /\ \A p \in Procs : pc[p] = "kill" => old[p] # p
    /\ ~lockfile /\ ~collided =>
          \A p \in Procs :
              /\ pc[p] = "write" => path # None /\ fd[p] = path
              /\ pc[p] = "verify" => path # None /\ data[path] = p

\* Steps that let the files and the lock be.
LEMMA OwnQuiet ==
    ASSUME TypeOK, OwnInv, UNCHANGED <<path, data, fd, old>>,
           lockfile' = lockfile, ~collided' => ~collided,
           \A p \in Procs :
              /\ pc'[p] \in Early => pc[p] \in Early
              /\ pc'[p] \in {"kill", "write", "verify"} => pc'[p] = pc[p]
    PROVE  OwnInv'
  BY DEF OwnInv

LEMMA OwnKept == TypeOK /\ LockfileInv /\ PidInv /\ OwnInv /\ [Next]_vars => OwnInv'
  <1> SUFFICES ASSUME TypeOK, LockfileInv, PidInv, OwnInv, [Next]_vars PROVE OwnInv'
    OBVIOUS
  <1>1. lockfile' = lockfile /\ (~collided' => ~collided)
    <2>1. lockfile' = lockfile
      BY DEF Next, Step, vars, history, GoTo, Start, TryLockfile, TestLock, ReadLock, CheckAlive,
           RemoveStale, OpenLock, WriteLock, VerifyLock, SetTrap, Unlock, FindFonts, Judge,
           ScanFonts, WriteScale, WriteDir, ToolFails, Kill, Age, ChangeFont, Enter, Exit
    <2>2. ASSUME ~collided' PROVE ~collided
      BY <2>2 DEF Next, Step, vars, history, GoTo, Start, TryLockfile, TestLock, ReadLock, CheckAlive,
           RemoveStale, OpenLock, WriteLock, VerifyLock, SetTrap, Unlock, FindFonts, Judge,
           ScanFonts, WriteScale, WriteDir, ToolFails, Kill, Age, ChangeFont, Enter, Exit
    <2> QED
      BY <2>1, <2>2
  <1>2. /\ pc \in [Procs -> Resting \cup Acquiring \cup Working]
        /\ path \in Files /\ data \in [Procs -> Files] /\ old \in [Procs -> Files]
        /\ fd \in [Procs -> Files] /\ None \notin Procs
    BY FontAssumption DEF TypeOK
  <1>3. /\ \A p, i \in Procs : pc[p] \in Early => data[i] # p
        /\ \A p \in Procs : pc[p] = "kill" => old[p] # p
        /\ ~lockfile /\ ~collided =>
              \A p \in Procs :
                  /\ pc[p] = "write" => path # None /\ fd[p] = path
                  /\ pc[p] = "verify" => path # None /\ data[path] = p
    BY DEF OwnInv
  <1>4. ASSUME NEW p \in Procs, NEW from, NEW to, GoTo(p, from, to)
        PROVE  /\ pc' = [pc EXCEPT ![p] = to] /\ pc[p] = from
               /\ \A q \in Procs : q # p => pc'[q] = pc[q]
               /\ ~lockfile /\ ~collided' => \A q \in Procs :
                     to \in Acquiring /\ pc[q] \in Acquiring => q = p
    BY <1>2, <1>4 DEF GoTo
  <1>5. ASSUME NEW p \in Procs, Quiet(p) PROVE OwnInv'
    <2>1. UNCHANGED <<path, data, fd, old>>
      BY <1>5 DEF Quiet, lockVars
    <2>2. \E from, to : /\ GoTo(p, from, to)
                        /\ to \notin {"kill", "write", "verify"}
                        /\ to \in Early => from \in Early
      BY <1>5 DEF Quiet, Early, Working
    <2>3. \A q \in Procs :
              /\ pc'[q] \in Early => pc[q] \in Early
              /\ pc'[q] \in {"kill", "write", "verify"} => pc'[q] = pc[q]
      BY <1>2, <1>4, <2>2
    <2> QED
      BY <1>1, <2>1, <2>3, OwnQuiet
  <1>6. ASSUME NEW p \in Procs, TestLock(p) \/ CheckAlive(p) PROVE OwnInv'
    <2>1. UNCHANGED <<path, data, fd, old>>
      BY <1>6 DEF TestLock, CheckAlive, lockVars
    <2>2. \E from, to : /\ GoTo(p, from, to) /\ from \in Early
                        /\ to \notin {"kill", "write", "verify"}
      BY <1>6 DEF TestLock, CheckAlive, Early
    <2>3. \A q \in Procs :
              /\ pc'[q] \in Early => pc[q] \in Early
              /\ pc'[q] \in {"kill", "write", "verify"} => pc'[q] = pc[q]
      BY <1>2, <1>4, <2>2
    <2> QED
      BY <1>1, <2>1, <2>3, OwnQuiet
  <1>7. ASSUME NEW p \in Procs, VerifyLock(p) PROVE OwnInv'
    <2>1. UNCHANGED <<path, data, fd, old>>
      BY <1>7 DEF VerifyLock, lockVars
    <2>2. \E to \in {"trap", "done"} : GoTo(p, "verify", to)
      BY <1>7 DEF VerifyLock, Enter, Exit
    <2>3. \A q \in Procs :
              /\ pc'[q] \in Early => pc[q] \in Early
              /\ pc'[q] \in {"kill", "write", "verify"} => pc'[q] = pc[q]
      BY <1>2, <1>4, <2>2 DEF Early
    <2> QED
      BY <1>1, <2>1, <2>3, OwnQuiet
  <1>8. ASSUME NEW p \in Procs, ReadLock(p) PROVE OwnInv'
    <2>1. /\ pc' = [pc EXCEPT ![p] = "kill"] /\ pc[p] = "read"
          /\ old' = [old EXCEPT ![p] = IF path = None THEN None ELSE data[path]]
          /\ UNCHANGED <<path, data, fd>>
      BY <1>8, <1>4 DEF ReadLock
    <2>2. "read" \in Early /\ (path # None => path \in Procs)
      BY <1>2 DEF Early, Files
    <2>3. old'[p] # p
      BY <1>2, <1>3, <2>1, <2>2
    <2> QED
      BY <1>1, <1>2, <1>3, <2>1, <2>2, <2>3 DEF OwnInv
  <1>9. ASSUME NEW p \in Procs, RemoveStale(p) PROVE OwnInv'
    <2>1. /\ GoTo(p, "rmstale", "open") /\ pc' = [pc EXCEPT ![p] = "open"] /\ pc[p] = "rmstale"
          /\ UNCHANGED <<data, fd, old>>
      BY <1>9, <1>4 DEF RemoveStale
    <2>2. "rmstale" \in Early /\ \A x \in {"open", "write", "verify"} : x \in Acquiring
      BY DEF Early, Acquiring, Taking
    <2>3. ~lockfile' /\ ~collided' => \A q \in Procs : pc'[q] \notin {"write", "verify"}
      BY <1>1, <1>2, <1>4, <2>1, <2>2
    <2> QED
      BY <1>2, <1>3, <2>1, <2>2, <2>3 DEF OwnInv
  <1>a. ASSUME NEW p \in Procs, OpenLock(p) PROVE OwnInv'
    <2> DEFINE inode == IF path = None THEN p ELSE path
    <2>1. /\ GoTo(p, "open", "write") /\ pc' = [pc EXCEPT ![p] = "write"] /\ pc[p] = "open"
          /\ path' = inode /\ fd' = [fd EXCEPT ![p] = inode]
          /\ data' = [data EXCEPT ![inode] = None] /\ old' = old
      BY <1>a, <1>4 DEF OpenLock
    <2>2. "open" \in Early /\ inode \in Procs /\ \A x \in {"write", "verify"} : x \in Acquiring
      BY <1>2 DEF Early, Files, Acquiring, Taking
    <2> HIDE DEF inode
    <2>3. ~lockfile' /\ ~collided' => \A q \in Procs : pc'[q] \in {"write", "verify"} => q = p
      BY <1>1, <1>2, <1>4, <2>1, <2>2
    <2>4. path' # None /\ fd'[p] = path' /\ pc'[p] = "write"
      BY <1>2, <2>1, <2>2
    <2>5. \A q, i \in Procs : pc'[q] \in Early => data'[i] # q
      BY <1>2, <1>3, <2>1, <2>2
    <2>6. \A q \in Procs : pc'[q] = "kill" => old'[q] # q
      BY <1>2, <1>3, <2>1
    <2>7. ~lockfile' /\ ~collided' =>
              \A q \in Procs :
                  /\ pc'[q] = "write" => path' # None /\ fd'[q] = path'
                  /\ pc'[q] = "verify" => path' # None /\ data'[path'] = q
      BY <2>3, <2>4
    <2> QED
      BY <2>5, <2>6, <2>7 DEF OwnInv
  <1>b. ASSUME NEW p \in Procs, WriteLock(p) PROVE OwnInv'
    <2>1. /\ GoTo(p, "write", "verify") /\ pc' = [pc EXCEPT ![p] = "verify"] /\ pc[p] = "write"
          /\ data' = [data EXCEPT ![fd[p]] = p] /\ UNCHANGED <<path, fd, old>>
      BY <1>b, <1>4 DEF WriteLock
    <2>2. "verify" \notin Early /\ \A x \in {"write", "verify"} : x \in Acquiring
      BY DEF Early, Acquiring, Taking
    <2>3. ~lockfile' /\ ~collided' => \A q \in Procs : pc'[q] \in {"write", "verify"} => q = p
      BY <1>1, <1>2, <1>4, <2>1, <2>2
    <2>4. ~lockfile' /\ ~collided' => path' # None /\ data'[path'] = p
      BY <1>1, <1>2, <1>3, <2>1 DEF Files
    <2>5. \A q, i \in Procs : pc'[q] \in Early => data'[i] # q
      BY <1>2, <1>3, <2>1, <2>2
    <2>6. \A q \in Procs : pc'[q] = "kill" => old'[q] # q
      BY <1>2, <1>3, <2>1
    <2>7. pc'[p] = "verify"
      BY <1>2, <2>1
    <2>8. ~lockfile' /\ ~collided' =>
              \A q \in Procs :
                  /\ pc'[q] = "write" => path' # None /\ fd'[q] = path'
                  /\ pc'[q] = "verify" => path' # None /\ data'[path'] = q
      BY <2>3, <2>4, <2>7
    <2> QED
      BY <2>5, <2>6, <2>8 DEF OwnInv
  <1>c. ASSUME NEW p \in Procs, TryLockfile(p) \/ Unlock(p) \/ Kill(p) PROVE OwnInv'
    <2>1. \E from, to : GoTo(p, from, to) /\ to \notin Early \cup {"verify"}
      <3>1. {"trap", "done", "dead", "suspend"} \cap (Early \cup {"verify"}) = {}
        BY DEF Early
      <3>2. CASE TryLockfile(p)
        <4>1. \E from \in {"test", "suspend"}, to \in {"trap", "done", "suspend"} : GoTo(p, from, to)
          BY <3>2 DEF TryLockfile, Enter, Exit
        <4> QED
          BY <3>1, <4>1
      <3>3. CASE Unlock(p)
        BY <3>1, <3>3 DEF Unlock, Exit
      <3>4. CASE Kill(p)
        BY <3>1, <3>4 DEF Kill
      <3> QED
        BY <1>c, <3>2, <3>3, <3>4
    <2>2. \A q \in Procs :
              /\ pc'[q] \in Early => pc[q] \in Early
              /\ pc'[q] \in {"kill", "write", "verify"} => pc'[q] = pc[q] /\ q # p
      BY <1>2, <1>4, <2>1 DEF Early
    <2>3. UNCHANGED <<data, fd, old>>
      BY <1>c DEF TryLockfile, Unlock, Kill
    <2>4. ~lockfile /\ pc[p] \notin Working => path' = path
      BY <1>c DEF TryLockfile, Unlock, Exit, GoTo, Kill, Working
    <2>5. ~lockfile' /\ ~collided' /\ (\E q \in Procs : pc'[q] \in {"write", "verify"})
              => pc[p] \notin Working
      BY <1>1, <2>2 DEF PidInv
    <2>6. ~lockfile' /\ ~collided' =>
              \A q \in Procs :
                  /\ pc'[q] = "write" => path' # None /\ fd'[q] = path'
                  /\ pc'[q] = "verify" => path' # None /\ data'[path'] = q
      BY <1>1, <1>3, <2>2, <2>3, <2>4, <2>5
    <2> QED
      BY <1>3, <2>2, <2>3, <2>6 DEF OwnInv
  <1>d. CASE Age \/ (\E f \in Fonts : ChangeFont(f)) \/ UNCHANGED vars
    <2>1. UNCHANGED <<pc, path, data, fd, old>>
      BY <1>d, OtherSteps DEF Age, lockVars
    <2> QED
      BY <1>1, <2>1, OwnQuiet
  <1> QED
    BY <1>5, <1>6, <1>7, <1>8, <1>9, <1>a, <1>b, <1>c, <1>d, QuietSteps DEF Next, Step

-----------------------------------------------------------------------------
(* The theorems. *)

IInv == TypeOK /\ LockfileInv /\ PidInv /\ OwnInv

\* What every step of every copy keeps, and every change of the world.
THEOREM Invariance == Spec => []IInv
  <1>1. Init => IInv
    <2>1. Init => \A p \in Procs : pc[p] = "new"
      BY DEF Init
    <2>2. "new" \notin Taking \cup Working /\ "new" \notin Acquiring
      BY DEF Acquiring, Taking, Working
    <2>3. "new" \notin {"rmstale", "open", "write", "verify", "kill"}
      OBVIOUS
    <2>4. Init => LockfileInv /\ PidInv
      BY <2>1, <2>2, <2>3 DEF LockfileInv, PidInv
    <2>5. Init => OwnInv
      <3>1. "new" \notin {"kill", "write", "verify"}
        OBVIOUS
      <3>2. Init => \A i \in Procs : data[i] = None
        BY DEF Init
      <3> QED
        BY <2>1, <3>1, <3>2, FontAssumption DEF OwnInv
    <2> QED
      BY <2>4, <2>5, InitTypes DEF IInv
  <1>2. IInv /\ [Next]_vars => IInv'
    BY TypesKept, LockfileKept, PidKept, OwnKept DEF IInv
  <1> QED
    BY <1>1, <1>2, PTL DEF Spec

\* The variables keep their types, and who writes has a file open.
THEOREM TypeCorrect == Spec => []TypeOK
  <1>1. IInv => TypeOK
    BY DEF IInv
  <1> QED
    BY <1>1, Invariance, PTL

\* Two copies work together only after two took the lock at the same time or
\* one outlived its lock.
THEOREM LockExcludes == Spec => []ExclusiveButFor
  <1>1. ASSUME IInv PROVE ExclusiveButFor
    <2>1. lockfile \in BOOLEAN /\ overstayed \in BOOLEAN /\ collided \in BOOLEAN
      BY <1>1 DEF IInv, TypeOK
    <2>2. lockfile /\ ~overstayed => MutualExclusion
      BY <1>1 DEF IInv, LockfileInv, MutualExclusion
    <2>3. ~lockfile /\ ~collided => MutualExclusion
      BY <1>1 DEF IInv, PidInv, MutualExclusion
    <2> QED
      BY <2>1, <2>2, <2>3 DEF ExclusiveButFor
  <1>2. IInv => ExclusiveButFor
    BY <1>1
  <1> QED
    BY <1>2, Invariance, PTL

\* A copy gives up only to one that is there, or to a young lock.
THEOREM NobodyTurnedAway == Spec => GivesUpToSomebody
  <1>1. ASSUME IInv, [Next]_vars, NEW p \in Procs, pc[p] \in Acquiring, pc'[p] = "done",
               ~collided, ~(lockfile /\ ~aged)
        PROVE  \E q \in Procs \ {p} : pc[q] \notin Resting
    <2>1. /\ pc \in [Procs -> Resting \cup Acquiring \cup Working]
          /\ "done" \notin Acquiring /\ \A x \in Working : x \notin Acquiring
      BY <1>1, Apart DEF IInv, TypeOK, Acquiring, Taking
    <2>2. ASSUME NEW q \in Procs, NEW from, NEW to, GoTo(q, from, to)
          PROVE  q = p /\ pc[p] = from /\ to = "done"
      BY <1>1, <2>1, <2>2 DEF GoTo
    <2>3. ASSUME NEW q \in Procs, CheckAlive(q) PROVE \E r \in Procs \ {p} : pc[r] \notin Resting
      <3>1. q = p /\ pc[p] = "kill" /\ Alive(old[p])
        BY <2>2, <2>3 DEF CheckAlive
      <3>2. old[p] # p /\ old[p] \in Procs
        BY <1>1, <3>1 DEF IInv, OwnInv, TypeOK, Files, Alive
      <3> QED
        BY <3>1, <3>2 DEF Alive
    <2>4. ASSUME NEW q \in Procs, VerifyLock(q) PROVE FALSE
      <3>1. ~(path # None /\ data[path] = q) /\ q = p /\ pc[p] = "verify"
        <4>1. CASE path # None /\ data[path] = q
          BY <2>2, <2>4, <4>1 DEF VerifyLock, Enter
        <4>2. CASE ~(path # None /\ data[path] = q)
          BY <2>2, <2>4, <4>2 DEF VerifyLock, Exit
        <4> QED
          BY <4>1, <4>2
      <3>2. ~lockfile
        BY <1>1, <3>1 DEF IInv, LockfileInv, Taking
      <3> QED
        BY <1>1, <3>1, <3>2 DEF IInv, OwnInv
    <2>5. ASSUME NEW q \in Procs, TryLockfile(q) PROVE FALSE
      <3>1. \E from, to : GoTo(q, from, to) /\ to \in {"trap", "suspend"}
        <4>1. lockfile /\ (path = None \/ aged)
          BY <1>1, <2>5 DEF TryLockfile, IInv, TypeOK
        <4> QED
          BY <2>5, <4>1 DEF TryLockfile, Enter
      <3> QED
        BY <2>2, <3>1
    <2>6. ASSUME NEW q \in Procs,
                 \/ Start(q) \/ TestLock(q) \/ ReadLock(q) \/ RemoveStale(q) \/ OpenLock(q)
                 \/ WriteLock(q) \/ SetTrap(q) \/ FindFonts(q) \/ Judge(q) \/ ScanFonts(q)
                 \/ WriteScale(q) \/ WriteDir(q) \/ ToolFails(q) \/ Kill(q) \/ Unlock(q)
          PROVE  FALSE
      <3>1. CASE \/ Start(q) \/ SetTrap(q) \/ FindFonts(q) \/ Judge(q) \/ ScanFonts(q)
                 \/ WriteScale(q) \/ WriteDir(q) \/ ToolFails(q)
        <4>1. Quiet(q) /\ "done" \notin Working
          BY <3>1, QuietSteps DEF Working
        <4> QED
          BY <2>2, <4>1 DEF Quiet
      <3>2. CASE \/ TestLock(q) \/ ReadLock(q) \/ RemoveStale(q) \/ OpenLock(q)
                 \/ WriteLock(q)
        <4>1. \E from, to : GoTo(q, from, to) /\ to \in Taking
          BY <3>2 DEF TestLock, ReadLock, RemoveStale, OpenLock, WriteLock, Taking
        <4> QED
          BY <2>2, <4>1, Apart
      <3>3. CASE Kill(q)
        <4>1. GoTo(q, pc[q], "dead")
          BY <3>3 DEF Kill
        <4> QED
          BY <2>2, <4>1
      <3>4. CASE Unlock(q)
        <4>1. GoTo(q, "unlock", "done") /\ "unlock" \in Working
          BY <3>4 DEF Unlock, Exit, Working
        <4> QED
          BY <1>1, <2>1, <2>2, <4>1
      <3> QED
        BY <2>6, <3>1, <3>2, <3>3, <3>4
    <2>7. CASE Age \/ (\E f \in Fonts : ChangeFont(f)) \/ UNCHANGED vars
      BY <1>1, <2>1, <2>7, OtherSteps DEF Age
    <2> QED
      BY <1>1, <2>3, <2>4, <2>5, <2>6, <2>7 DEF Next, Step
  <1>2. IInv /\ [Next]_vars =>
            [\A p \in Procs :
                pc[p] \in Acquiring /\ pc'[p] = "done"
                  => \/ collided \/ (lockfile /\ ~aged)
                     \/ \E q \in Procs \ {p} : pc[q] \notin Resting]_vars
    BY <1>1
  <1> QED
    BY <1>2, Invariance, PTL DEF Spec, GivesUpToSomebody

-----------------------------------------------------------------------------
(* What a directory passed as clean holds. *)

Busy == {"scan", "scale", "dir"}

\* No file is newer than the clock.
TimeInv == (dir # None => dir.at <= clock) /\ \A f \in Fonts : file[f] <= clock

\* What a copy that looks at the fonts or runs the tools knows of them.
Follows(p) ==
    /\ pc[p] \in {"judge", "scan"} => \A f \in Fonts \ seen[p] : file[f] = 0
    /\ pc[p] \in Busy => list = seen[p]
    /\ pc[p] \in {"scale", "dir"} =>
          \A f \in Fonts : /\ f \in seen[p] /\ file[f] # 0 => snap[p][f] = file[f]
                           /\ f \notin seen[p] => snap[p][f] = 0
    /\ pc[p] = "dir" => scale = snap[p]

\* While no tools run, fonts.dir has every listed font that is not newer than
\* it, and no font that is not listed.
Made ==
    (\A p \in Procs : pc[p] \notin Busy) /\ list # None /\ dir # None =>
        \A f \in Fonts : /\ f \in list /\ file[f] # 0 /\ file[f] <= dir.at => dir.of[f] = file[f]
                         /\ f \notin list => dir.of[f] = 0

CleanInv == ~disturbed => MutualExclusion /\ (\A p \in Procs : Follows(p)) /\ Made

CacheInv == TimeInv /\ CleanInv

LEMMA InitCacheInv == Init => CacheInv
  <1> SUFFICES ASSUME Init PROVE CacheInv
    OBVIOUS
  <1>1. "new" \notin Working /\ "new" \notin Busy
    BY DEF Working, Busy
  <1>2. TimeInv
    BY DEF Init, TimeInv
  <1>3. CleanInv
    BY <1>1 DEF Init, CleanInv, MutualExclusion, Follows, Made, Busy
  <1> QED
    BY <1>2, <1>3 DEF CacheInv

\* The types of what the caches are about.
LEMMA CacheTypes ==
    ASSUME TypeOK
    PROVE  /\ clock \in Nat /\ disturbed \in BOOLEAN /\ file \in [Fonts -> Nat]
           /\ dir # None => dir.at \in Nat /\ dir.of \in [Fonts -> Nat]
           /\ seen \in [Procs -> SUBSET Fonts] /\ snap \in [Procs -> [Fonts -> Nat]]
           /\ pc \in [Procs -> Resting \cup Acquiring \cup Working]
           /\ list # None => list \subseteq Fonts
  <1>1. dir # None => dir \in [at : Nat, of : [Fonts -> Nat]]
    BY DEF TypeOK, Contents
  <1>2. dir # None => dir.at \in Nat /\ dir.of \in [Fonts -> Nat]
    BY <1>1
  <1> QED
    BY <1>2 DEF TypeOK, Contents

LEMMA WorkingPlaces ==
    /\ Busy \subseteq Working
    /\ {"trap", "find", "judge", "unlock"} \subseteq Working
    /\ {"new", "done", "dead", "test", "suspend", "read", "kill", "rmstale", "open", "write",
        "verify"} \cap (Working \cup Busy \cup {"judge"}) = {}
    /\ {"trap", "find", "unlock"} \cap (Busy \cup {"judge"}) = {}
  BY DEF Busy, Working

\* A step of p that leaves the fonts and the caches alone, and is disturbed
\* itself or takes p neither out of the tools nor to them.
Walk(p) ==
    /\ UNCHANGED <<cacheVars, file, clock>>
    /\ \A q \in Procs : q # p => pc'[q] = pc[q]
    /\ ~disturbed' =>
          /\ ~disturbed
          /\ pc[p] \notin Busy
          /\ pc'[p] \notin Busy \cup {"judge"}
          /\ \/ pc'[p] \in Working => pc[p] \in Working
             \/ \A q \in Procs \ {p} : pc[q] \notin Working

LEMMA WalkKeeps ==
    ASSUME TypeOK, CacheInv, NEW p \in Procs, Walk(p) PROVE CacheInv'
  <1>1. UNCHANGED <<seen, snap, list, scale, dir, file, clock>>
    BY DEF Walk, cacheVars
  <1>2. TimeInv'
    BY <1>1 DEF CacheInv, TimeInv
  <1>3. ASSUME ~disturbed' PROVE MutualExclusion' /\ (\A q \in Procs : Follows(q)') /\ Made'
    <2>1. /\ \A q \in Procs : q # p => pc'[q] = pc[q]
          /\ pc[p] \notin Busy /\ pc'[p] \notin Busy \cup {"judge"}
          /\ \/ pc'[p] \in Working => pc[p] \in Working
             \/ \A q \in Procs \ {p} : pc[q] \notin Working
      BY <1>3 DEF Walk
    <2>2. MutualExclusion /\ (\A q \in Procs : Follows(q)) /\ Made
      BY <1>3 DEF Walk, CacheInv, CleanInv
    <2>3. MutualExclusion'
      BY <2>1, <2>2 DEF MutualExclusion
    <2>4. ASSUME NEW q \in Procs PROVE Follows(q)'
      <3>1. CASE q = p
        BY <2>1, <3>1 DEF Follows, Busy
      <3>2. CASE q # p
        BY <1>1, <2>1, <2>2, <3>2 DEF Follows
      <3> QED
        BY <3>1, <3>2
    <2>5. (\A q \in Procs : pc'[q] \notin Busy) => \A q \in Procs : pc[q] \notin Busy
      BY <2>1
    <2>6. Made'
      BY <1>1, <2>2, <2>5 DEF Made
    <2> QED
      BY <2>3, <2>4, <2>6
  <1> QED
    BY <1>2, <1>3 DEF CacheInv, CleanInv

\* All that does not look at the fonts is such a step.
LEMMA Walks ==
    ASSUME TypeOK, NEW p \in Procs,
           \/ Start(p) \/ TryLockfile(p) \/ TestLock(p) \/ ReadLock(p) \/ CheckAlive(p)
           \/ RemoveStale(p) \/ OpenLock(p) \/ WriteLock(p) \/ VerifyLock(p) \/ SetTrap(p)
           \/ Unlock(p) \/ ToolFails(p) \/ Kill(p)
    PROVE  Walk(p)
  <1>1. UNCHANGED <<cacheVars, file, clock>>
    BY DEF Start, TryLockfile, TestLock, ReadLock, CheckAlive, RemoveStale, OpenLock,
           WriteLock, VerifyLock, SetTrap, Unlock, ToolFails, Kill
  <1>2. disturbed \in BOOLEAN
    BY DEF TypeOK
  <1>3. ASSUME NEW from, NEW to, GoTo(p, from, to)
        PROVE  pc[p] = from /\ pc'[p] = to /\ \A q \in Procs : q # p => pc'[q] = pc[q]
    BY <1>3 DEF GoTo, TypeOK
  <1>4. ASSUME NEW from, NEW to, GoTo(p, from, to), disturbed' = disturbed, from \notin Busy,
               to \notin Working \cup Busy \cup {"judge"}
        PROVE  Walk(p)
    BY <1>1, <1>3, <1>4 DEF Walk
  <1>5. ASSUME NEW from, Enter(p, from), from \notin Busy PROVE Walk(p)
    <2>1. /\ GoTo(p, from, "trap")
          /\ disturbed' = (disturbed \/ \E q \in Procs \ {p} : pc[q] \in Working)
      BY <1>5 DEF Enter, Disturb
    <2>2. "trap" \notin Busy \cup {"judge"}
      BY WorkingPlaces
    <2> QED
      BY <1>1, <1>2, <1>3, <1>5, <2>1, <2>2 DEF Walk
  <1>6. CASE Start(p) \/ TestLock(p) \/ ReadLock(p) \/ CheckAlive(p)
    BY <1>4, <1>6, WorkingPlaces DEF Start, TestLock, ReadLock, CheckAlive
  <1>7. CASE RemoveStale(p) \/ OpenLock(p) \/ WriteLock(p)
    BY <1>4, <1>7, WorkingPlaces DEF RemoveStale, OpenLock, WriteLock
  <1>8. CASE TryLockfile(p)
    <2>1. PICK from \in {"test", "suspend"} :
              \/ Enter(p, from)
              \/ Exit(p, from) /\ UNCHANGED disturbed
              \/ GoTo(p, from, "suspend") /\ UNCHANGED disturbed
      BY <1>8 DEF TryLockfile
    <2>2. from \notin Busy
      BY WorkingPlaces
    <2> QED
      BY <1>4, <1>5, <2>1, <2>2, WorkingPlaces DEF Exit
  <1>9. CASE VerifyLock(p)
    <2>1. Enter(p, "verify") \/ (Exit(p, "verify") /\ UNCHANGED disturbed)
      <3>1. CASE path # None /\ data[path] = p
        BY <1>9, <3>1 DEF VerifyLock
      <3>2. CASE ~(path # None /\ data[path] = p)
        BY <1>9, <3>2 DEF VerifyLock
      <3> QED
        BY <3>1, <3>2
    <2>2. "verify" \notin Busy
      BY WorkingPlaces
    <2> QED
      BY <1>4, <1>5, <2>1, <2>2, WorkingPlaces DEF Exit
  <1>10. CASE SetTrap(p)
    <2>1. GoTo(p, "trap", "find") /\ disturbed' = disturbed
      BY <1>10 DEF SetTrap
    <2> QED
      BY <1>1, <1>3, <2>1, WorkingPlaces DEF Walk
  <1>11. CASE Unlock(p)
    <2>1. GoTo(p, "unlock", "done") /\ disturbed' = disturbed
      BY <1>11 DEF Unlock, Exit
    <2> QED
      BY <1>4, <2>1, WorkingPlaces
  <1>12. CASE ToolFails(p)
    <2>1. disturbed' /\ \E from, to : GoTo(p, from, to)
      BY <1>12 DEF ToolFails, Disturb
    <2> QED
      BY <1>1, <1>3, <2>1 DEF Walk
  <1>13. CASE Kill(p)
    <2>1. GoTo(p, pc[p], "dead") /\ disturbed' = (disturbed \/ pc[p] \in Busy)
      BY <1>13 DEF Kill, Disturb, Busy
    <2>2. "dead" \notin Working \cup Busy \cup {"judge"}
      BY WorkingPlaces
    <2> QED
      BY <1>1, <1>2, <1>3, <2>1, <2>2 DEF Walk
  <1> QED
    BY <1>6, <1>7, <1>8, <1>9, <1>10, <1>11, <1>12, <1>13

\* A step of the one that works: what it leaves to show.
LEMMA WorkStep ==
    ASSUME TypeOK, CacheInv, NEW p \in Procs, NEW from \in Working, NEW to \in Working,
           GoTo(p, from, to), disturbed' = disturbed,
           UNCHANGED file, TimeInv',
           \A q \in Procs : q # p => seen'[q] = seen[q] /\ snap'[q] = snap[q],
           ~disturbed /\ Follows(p) /\ Made /\ (\A q \in Procs \ {p} : pc[q] \notin Working)
               => Follows(p)' /\ Made'
    PROVE  CacheInv'
  <1>1. pc[p] = from /\ pc'[p] = to /\ \A q \in Procs : q # p => pc'[q] = pc[q]
    BY DEF GoTo, TypeOK
  <1>2. ASSUME ~disturbed PROVE MutualExclusion' /\ (\A q \in Procs : Follows(q)') /\ Made'
    <2>1. MutualExclusion /\ (\A q \in Procs : Follows(q)) /\ Made
      BY <1>2 DEF CacheInv, CleanInv
    <2>2. \A q \in Procs \ {p} : pc[q] \notin Working
      BY <1>1, <2>1 DEF MutualExclusion
    <2>3. Follows(p)' /\ Made'
      BY <1>2, <2>1, <2>2
    <2>4. \A q \in Procs \ {p} : pc'[q] \notin Working
      BY <1>1, <2>2
    <2>5. \A q \in Procs \ {p} : Follows(q)'
      BY <2>4, WorkingPlaces DEF Follows, Busy
    <2> QED
      BY <2>3, <2>4, <2>5 DEF MutualExclusion
  <1> QED
    BY <1>2 DEF CacheInv, CleanInv

LEMMA FindKeeps ==
    ASSUME TypeOK, CacheInv, NEW p \in Procs, FindFonts(p) PROVE CacheInv'
  <1>1. /\ seen' = [seen EXCEPT ![p] = Present]
        /\ UNCHANGED <<snap, file, clock, disturbed>>
    BY DEF FindFonts
  <1>2. seen'[p] = Present /\ \A q \in Procs : q # p => seen'[q] = seen[q]
    BY <1>1, CacheTypes
  <1>3. CASE Present = {}
    <2>1. GoTo(p, "find", "unlock") /\ list' = None /\ dir' = None
      BY <1>3 DEF FindFonts
    <2>2. TimeInv'
      BY <1>1, <2>1 DEF CacheInv, TimeInv
    <2>3. pc'[p] = "unlock"
      BY <2>1, CacheTypes DEF GoTo
    <2>4. Follows(p)' /\ Made'
      BY <2>1, <2>3 DEF Follows, Made, Busy
    <2> QED
      BY <1>1, <1>2, <2>1, <2>2, <2>4, WorkStep, WorkingPlaces
  <1>4. CASE Present # {}
    <2>1. GoTo(p, "find", "judge") /\ UNCHANGED <<list, scale, dir>>
      BY <1>4 DEF FindFonts
    <2>2. TimeInv'
      BY <1>1, <2>1 DEF CacheInv, TimeInv
    <2>3. pc[p] = "find" /\ pc'[p] = "judge" /\ \A q \in Procs : q # p => pc'[q] = pc[q]
      BY <2>1, CacheTypes DEF GoTo
    <2>4. Follows(p)'
      BY <1>1, <1>2, <2>3 DEF Follows, Busy, Present
    <2>5. Made => Made'
      BY <1>1, <2>1, <2>3 DEF Made, Busy
    <2> QED
      BY <1>1, <1>2, <2>1, <2>2, <2>4, <2>5, WorkStep, WorkingPlaces
  <1> QED
    BY <1>3, <1>4

LEMMA JudgeKeeps ==
    ASSUME TypeOK, CacheInv, NEW p \in Procs, Judge(p) PROVE CacheInv'
  <1>1. UNCHANGED <<seen, snap, scale, dir, file, clock, disturbed>>
    BY DEF Judge
  <1>2. TimeInv'
    BY <1>1 DEF CacheInv, TimeInv
  <1>3. CASE Dirty(p)
    <2>1. GoTo(p, "judge", "scan") /\ list' = seen[p]
      BY <1>3 DEF Judge
    <2>2. pc[p] = "judge" /\ pc'[p] = "scan"
      BY <2>1, CacheTypes DEF GoTo
    <2>3. Follows(p) => Follows(p)'
      BY <1>1, <2>1, <2>2 DEF Follows
    <2>4. Made'
      BY <2>2 DEF Made, Busy
    <2> QED
      BY <1>1, <1>2, <2>1, <2>3, <2>4, WorkStep, WorkingPlaces DEF Busy
  <1>4. CASE ~Dirty(p)
    <2>1. GoTo(p, "judge", "unlock") /\ list' = list
      BY <1>4 DEF Judge
    <2>2. pc[p] = "judge" /\ pc'[p] = "unlock" /\ \A q \in Procs : q # p => pc'[q] = pc[q]
      BY <2>1, CacheTypes DEF GoTo
    <2>3. Follows(p)'
      BY <2>2 DEF Follows, Busy
    <2>4. Made => Made'
      BY <1>1, <2>1, <2>2 DEF Made, Busy
    <2> QED
      BY <1>1, <1>2, <2>1, <2>3, <2>4, WorkStep, WorkingPlaces
  <1> QED
    BY <1>3, <1>4

LEMMA ToolsKeep ==
    ASSUME TypeOK, CacheInv, NEW p \in Procs, ScanFonts(p) \/ WriteScale(p) PROVE CacheInv'
  <1>1. UNCHANGED <<seen, list, dir, file, clock, disturbed>>
    BY DEF ScanFonts, WriteScale
  <1>2. TimeInv'
    BY <1>1 DEF CacheInv, TimeInv
  <1>3. CASE ScanFonts(p)
    <2>1. GoTo(p, "scan", "scale") /\ snap' = [snap EXCEPT ![p] = file]
      BY <1>3 DEF ScanFonts
    <2>2. /\ pc[p] = "scan" /\ pc'[p] = "scale" /\ snap'[p] = file
          /\ \A q \in Procs : q # p => snap'[q] = snap[q]
      BY <2>1, CacheTypes DEF GoTo
    <2>3. Follows(p) => Follows(p)'
      BY <1>1, <2>2 DEF Follows, Busy
    <2>4. Made'
      BY <2>2 DEF Made, Busy
    <2> QED
      BY <1>1, <1>2, <2>1, <2>2, <2>3, <2>4, WorkStep, WorkingPlaces DEF Busy
  <1>4. CASE WriteScale(p)
    <2>1. GoTo(p, "scale", "dir") /\ snap' = snap /\ scale' = snap[p]
      BY <1>4 DEF WriteScale
    <2>2. pc[p] = "scale" /\ pc'[p] = "dir"
      BY <2>1, CacheTypes DEF GoTo
    <2>3. Follows(p) => Follows(p)'
      BY <1>1, <2>1, <2>2 DEF Follows, Busy
    <2>4. Made'
      BY <2>2 DEF Made, Busy
    <2> QED
      BY <1>1, <1>2, <2>1, <2>3, <2>4, WorkStep, WorkingPlaces DEF Busy
  <1> QED
    BY <1>3, <1>4

LEMMA WriteDirKeeps ==
    ASSUME TypeOK, CacheInv, NEW p \in Procs, WriteDir(p) PROVE CacheInv'
  <1>1. /\ GoTo(p, "dir", "unlock") /\ clock' = clock + 1
        /\ dir' = [at |-> clock + 1, of |-> IF scale = None THEN [f \in Fonts |-> 0] ELSE scale]
        /\ UNCHANGED <<seen, snap, list, scale, file, disturbed>>
    BY DEF WriteDir
  <1>2. clock \in Nat /\ file \in [Fonts -> Nat] /\ snap[p] \in [Fonts -> Nat]
    BY CacheTypes
  <1>3. dir'.at = clock + 1 /\ \A f \in Fonts : file[f] <= clock
    BY <1>1 DEF CacheInv, TimeInv
  <1>4. TimeInv'
    BY <1>1, <1>2, <1>3 DEF TimeInv
  <1>5. pc[p] = "dir" /\ pc'[p] = "unlock"
    BY <1>1, CacheTypes DEF GoTo
  <1>6. Follows(p)'
    BY <1>5 DEF Follows, Busy
  <1>7. ASSUME Follows(p) PROVE Made'
    <2>1. scale = snap[p] /\ list = seen[p]
      BY <1>5, <1>7 DEF Follows, Busy
    <2>2. dir'.of = snap[p]
      BY <1>1, <1>2, <2>1, FontAssumption
    <2>3. \A f \in Fonts : /\ f \in list /\ file[f] # 0 => snap[p][f] = file[f]
                           /\ f \notin list => snap[p][f] = 0
      BY <1>5, <1>7, <2>1 DEF Follows
    <2> QED
      BY <1>1, <2>2, <2>3 DEF Made
  <1> QED
    BY <1>1, <1>4, <1>6, <1>7, WorkStep, WorkingPlaces DEF Busy

LEMMA ChangeKeeps ==
    ASSUME TypeOK, CacheInv, NEW f \in Fonts, ChangeFont(f) PROVE CacheInv'
  <1>1. PICK now \in {0, clock + 1} :
            /\ file' = [file EXCEPT ![f] = now]
            /\ disturbed' = (disturbed \/ (now # 0 /\ \E p \in Procs :
                                  \/ pc[p] \in {"judge", "scan"} /\ f \notin seen[p]
                                  \/ pc[p] \in {"scale", "dir"} /\ f \in seen[p]))
    BY DEF ChangeFont, Disturb
  <1>2. clock' = clock + 1 /\ UNCHANGED <<pc, seen, snap, list, scale, dir>>
    BY DEF ChangeFont, cacheVars
  <1>3. /\ clock \in Nat /\ file \in [Fonts -> Nat] /\ disturbed \in BOOLEAN
        /\ dir # None => dir.at \in Nat
    BY CacheTypes
  <1>4. file'[f] = now /\ \A g \in Fonts : g # f => file'[g] = file[g]
    BY <1>1, <1>3
  <1>5. TimeInv'
    BY <1>2, <1>3, <1>4 DEF CacheInv, TimeInv
  <1>6. ASSUME ~disturbed' PROVE MutualExclusion' /\ (\A p \in Procs : Follows(p)') /\ Made'
    <2>1. /\ ~disturbed
          /\ now # 0 => \A p \in Procs :
                            /\ pc[p] \in {"judge", "scan"} => f \in seen[p]
                            /\ pc[p] \in {"scale", "dir"} => f \notin seen[p]
      BY <1>1, <1>3, <1>6
    <2>2. MutualExclusion /\ (\A p \in Procs : Follows(p)) /\ Made
      BY <2>1 DEF CacheInv, CleanInv
    <2>3. MutualExclusion'
      BY <1>2, <2>2 DEF MutualExclusion
    <2>4. ASSUME NEW p \in Procs PROVE Follows(p)'
      <3>1. Follows(p)
        BY <2>2
      <3>2. pc[p] \in {"judge", "scan"} => \A g \in Fonts \ seen[p] : file'[g] = 0
        BY <1>4, <2>1, <3>1 DEF Follows
      <3>3. pc[p] \in {"scale", "dir"} =>
                \A g \in Fonts : /\ g \in seen[p] /\ file'[g] # 0 => snap[p][g] = file'[g]
                                 /\ g \notin seen[p] => snap[p][g] = 0
        BY <1>4, <2>1, <3>1 DEF Follows
      <3> QED
        BY <1>2, <3>1, <3>2, <3>3 DEF Follows
    <2>5. dir # None => dir.at <= clock
      BY DEF CacheInv, TimeInv
    <2>6. dir # None /\ file'[f] # 0 => ~(file'[f] <= dir.at)
      BY <1>3, <1>4, <2>5
    <2>7. Made'
      BY <1>2, <1>4, <2>2, <2>6 DEF Made
    <2> QED
      BY <2>3, <2>4, <2>7
  <1> QED
    BY <1>5, <1>6 DEF CacheInv, CleanInv

LEMMA CacheKept == TypeOK /\ CacheInv /\ [Next]_vars => CacheInv'
  <1> SUFFICES ASSUME TypeOK, CacheInv, [Next]_vars PROVE CacheInv'
    OBVIOUS
  <1>1. CASE Age \/ UNCHANGED vars
    <2>1. UNCHANGED <<pc, seen, snap, list, scale, dir, file, clock, disturbed>>
      BY <1>1 DEF Age, vars, cacheVars, history
    <2> QED
      BY <2>1 DEF CacheInv, TimeInv, CleanInv, MutualExclusion, Follows, Made
  <1> QED
    BY <1>1, WalkKeeps, Walks, FindKeeps, JudgeKeeps, ToolsKeep, WriteDirKeeps, ChangeKeeps
    DEF Next, Step

\* What passes as clean is the fonts.dir of the fonts in the directory.
THEOREM CleanMeansFresh == Spec => CleanIsFresh
  <1>1. ASSUME TypeOK, CacheInv, [Next]_vars, NEW p \in Procs, pc[p] = "judge", pc'[p] = "unlock",
               seen[p] = Present, ~disturbed
        PROVE  dir.of = file
    <2>1. pc \in [Procs -> Resting \cup Acquiring \cup Working] /\ "judge" # "unlock"
      BY <1>1, CacheTypes
    <2>2. ASSUME NEW q \in Procs, NEW from, NEW to, GoTo(q, from, to)
          PROVE  q = p /\ from = "judge" /\ to = "unlock"
      BY <1>1, <2>1, <2>2 DEF GoTo
    <2>3. PICK q \in Procs : Start(q) \/ Step(q) \/ ToolFails(q) \/ Kill(q)
      <3>1. ~UNCHANGED pc
        BY <1>1, <2>1
      <3> QED
        BY <1>1, <3>1 DEF Next, Age, ChangeFont, vars
    <2>4. Judge(p) /\ ~Dirty(p)
      <3>1. Judge(q)
        <4>1. ~(Start(q) \/ TestLock(q) \/ ReadLock(q) \/ CheckAlive(q) \/ RemoveStale(q))
          BY <2>2 DEF Start, TestLock, ReadLock, CheckAlive, RemoveStale
        <4>2. ~(OpenLock(q) \/ WriteLock(q))
          BY <2>2 DEF OpenLock, WriteLock
        <4>5. ASSUME VerifyLock(q) PROVE FALSE
          <5>1. \E to \in {"trap", "done"} : GoTo(q, "verify", to)
            BY <4>5 DEF VerifyLock, Enter, Exit
          <5> QED
            BY <2>2, <5>1
        <4>6. ASSUME TryLockfile(q) PROVE FALSE
          <5>1. \E from \in {"test", "suspend"}, to \in {"trap", "done", "suspend"} : GoTo(q, from, to)
            BY <4>6 DEF TryLockfile, Enter, Exit
          <5> QED
            BY <2>2, <5>1
        <4>3. ~(SetTrap(q) \/ FindFonts(q) \/ ScanFonts(q) \/ WriteScale(q) \/ WriteDir(q))
          BY <2>2 DEF SetTrap, FindFonts, ScanFonts, WriteScale, WriteDir
        <4>4. ~Unlock(q)
          BY <2>2 DEF Unlock, Exit
        <4>7. ASSUME ToolFails(q) PROVE FALSE
          <5>1. GoTo(q, "scan", "dir") \/ GoTo(q, "dir", "unlock")
            BY <4>7 DEF ToolFails
          <5>2. ~GoTo(q, "scan", "dir")
            BY <2>2
          <5>3. ~GoTo(q, "dir", "unlock")
            BY <2>2
          <5> QED
            BY <5>1, <5>2, <5>3
        <4>8. ASSUME Kill(q) PROVE FALSE
          <5>1. GoTo(q, pc[q], "dead")
            BY <4>8 DEF Kill
          <5> QED
            BY <2>2, <5>1
        <4> QED
          BY <2>3, <4>1, <4>2, <4>3, <4>4, <4>5, <4>6, <4>7, <4>8 DEF Step
      <3>2. CASE Dirty(q)
        BY <2>2, <3>1, <3>2 DEF Judge
      <3>3. CASE ~Dirty(q)
        <4>1. q = p
          BY <2>2, <3>1, <3>3 DEF Judge
        <4> QED
          BY <3>1, <3>3, <4>1
      <3> QED
        BY <3>2, <3>3
    <2>5. /\ list # None /\ dir # None /\ list = Present
          /\ \A f \in Present : ~(file[f] > dir.at)
      BY <1>1, <2>4 DEF Dirty
    <2>6. MutualExclusion /\ Made
      BY <1>1 DEF CacheInv, CleanInv
    <2>7. \A r \in Procs : pc[r] \notin Busy
      BY <1>1, <2>6, WorkingPlaces DEF MutualExclusion, Busy
    <2>8. /\ \A f \in Fonts : (f \in list /\ file[f] # 0 /\ file[f] <= dir.at) => dir.of[f] = file[f]
          /\ \A f \in Fonts : f \notin list => dir.of[f] = 0
      BY <2>5, <2>6, <2>7 DEF Made
    <2>9. dir.at \in Nat /\ dir.of \in [Fonts -> Nat] /\ file \in [Fonts -> Nat]
      BY <1>1, <2>5, CacheTypes
    <2>10. \A f \in Fonts : f \in Present => dir.of[f] = file[f]
      <3>1. \A f \in Fonts : f \in Present => f \in list /\ file[f] # 0
        BY <2>5 DEF Present
      <3>2. \A f \in Fonts : f \in Present => file[f] <= dir.at
        BY <2>5, <2>9
      <3> QED
        BY <2>8, <3>1, <3>2
    <2>11. \A f \in Fonts : f \notin Present => dir.of[f] = file[f]
      <3>1. \A f \in Fonts : f \notin Present => f \notin list /\ file[f] = 0
        BY <2>5 DEF Present
      <3> QED
        BY <2>8, <3>1
    <2>12. \A f \in Fonts : dir.of[f] = file[f]
      BY <2>10, <2>11
    <2> QED
      BY <2>9, <2>12
  <1>2. TypeOK /\ CacheInv /\ [Next]_vars =>
            [\A p \in Procs :
                pc[p] = "judge" /\ pc'[p] = "unlock" /\ seen[p] = Present
                  => disturbed \/ dir.of = file]_vars
    BY <1>1
  <1>3. Spec => []CacheInv
    BY InitCacheInv, CacheKept, TypeCorrect, PTL DEF Spec
  <1> QED
    BY <1>2, <1>3, TypeCorrect, PTL DEF Spec, CleanIsFresh
=============================================================================
