--------------------------- MODULE CertsyncProofs ---------------------------
(* Why certsync exports what stays trusted and nothing else, and when the   *)
(* bundle is fresh or gone, for any set of certificates and any number of   *)
(* changes, faults and runs.                                                *)
EXTENDS Certsync, FiniteSetTheorems, TLAPS

-----------------------------------------------------------------------------
(* The steps of a run. *)

ListSteps == {"listUser", "listAdmin", "listSystem"}
FilterSteps == {"filterUser", "filterAdmin", "filterSystem"}

FilterOf(d) ==
    IF d = "user" THEN "filterUser" ELSE IF d = "admin" THEN "filterAdmin" ELSE "filterSystem"

\* Where a run has done with domain d.
Past(d) ==
    IF d = "user" THEN {"listAdmin", "filterAdmin", "listSystem", "filterSystem", "write"}
    ELSE IF d = "admin" THEN {"listSystem", "filterSystem", "write"}
    ELSE {"write"}

LEMMA StepFacts ==
    /\ \A step \in ListSteps :
          /\ step \in Steps /\ After[step] \in Steps \ {"write"} /\ DomainOf(step) \in Domains
          /\ After[step] = FilterOf(DomainOf(step))
          /\ \A d \in Domains : /\ After[step] \in Past(d) <=> step \in Past(d)
                                /\ step # FilterOf(d)
                                /\ After[step] = FilterOf(d) => d = DomainOf(step)
          /\ step = "listUser" <=> DomainOf(step) = "user"
          /\ After[step] = "filterUser" => step = "listUser"
    /\ \A step \in FilterSteps :
          /\ step \in Steps /\ After[step] \in Steps /\ DomainOf(step) \in Domains
          /\ step = FilterOf(DomainOf(step))
          /\ \A d \in Domains : /\ After[step] \in Past(d) <=> (d = DomainOf(step) \/ step \in Past(d))
                                /\ After[step] # FilterOf(d)
          /\ step = "filterUser" <=> DomainOf(step) = "user"
          /\ After[step] \notin {"listUser", "filterUser"}
    /\ \A d \in Domains : "write" \in Past(d) /\ "write" # FilterOf(d)
    /\ \A d \in Domains : "idle" \notin Past(d) /\ "idle" # FilterOf(d)
    /\ "idle" \notin Steps
    /\ \A d \in Domains :
          /\ "listUser" \notin Past(d) /\ "listUser" # FilterOf(d) /\ "listAdmin" # FilterOf(d)
          /\ "listAdmin" \in Past(d) => d = "user"
  <1>1. ListSteps \cup FilterSteps \subseteq DOMAIN After
    BY DEF ListSteps, FilterSteps, After
  <1>2. \A step \in ListSteps :
          /\ step \in Steps /\ After[step] \in Steps \ {"write"} /\ DomainOf(step) \in Domains
          /\ After[step] = FilterOf(DomainOf(step))
          /\ \A d \in Domains : /\ After[step] \in Past(d) <=> step \in Past(d)
                                /\ step # FilterOf(d)
                                /\ After[step] = FilterOf(d) => d = DomainOf(step)
          /\ step = "listUser" <=> DomainOf(step) = "user"
          /\ After[step] = "filterUser" => step = "listUser"
    BY DEF ListSteps, Steps, After, DomainOf, Domains, FilterOf, Past
  <1>3. \A step \in FilterSteps :
          /\ step \in Steps /\ After[step] \in Steps /\ DomainOf(step) \in Domains
          /\ step = FilterOf(DomainOf(step))
          /\ \A d \in Domains : /\ After[step] \in Past(d) <=> (d = DomainOf(step) \/ step \in Past(d))
                                /\ After[step] # FilterOf(d)
          /\ step = "filterUser" <=> DomainOf(step) = "user"
          /\ After[step] \notin {"listUser", "filterUser"}
    BY DEF FilterSteps, Steps, After, DomainOf, Domains, FilterOf, Past
  <1> QED
    BY <1>2, <1>3 DEF Domains, Past, FilterOf, Steps

\* The settings of the domains, and what counts of them.
LEMMA SettingsFacts ==
    ASSUME TypeOK, NEW c \in Certs
    PROVE  /\ settings["user"][c] \in Settings /\ settings["admin"][c] \in Settings
           /\ settings["system"][c] \in Settings
           /\ Valid(settings, expired, c, TRUE) =>
                 \/ Valid(settings, expired, c, FALSE)
                 \/ settings["user"][c] = "trust"
           /\ Valid(settings, expired, c, FALSE) =>
                 settings["admin"][c] = "trust" \/ settings["system"][c] = "trust"
  <1>1. /\ settings["user"][c] \in Settings /\ settings["admin"][c] \in Settings
        /\ settings["system"][c] \in Settings
    BY DEF TypeOK, Domains
  <1>2. Valid(settings, expired, c, TRUE) =>
            Valid(settings, expired, c, FALSE) \/ settings["user"][c] = "trust"
    BY <1>1 DEF Valid, Opinion
  <1>3. Valid(settings, expired, c, FALSE) =>
            settings["admin"][c] = "trust" \/ settings["system"][c] = "trust"
    BY <1>1 DEF Valid, Opinion
  <1> QED
    BY <1>1, <1>2, <1>3

-----------------------------------------------------------------------------
(* The inductive invariant. *)

\* What run r may still count on is in hand, as far as it has come, and what
\* it may not export is not.
Exports(r) ==
    /\ kept[r] \subseteq GoodIn(settings, expired, userAnchors(r))
    /\ \A dc \in kept[r] :
          /\ pc[r] \in Past(dc[1]) => dc[2] \in anchors[r]
          /\ pc[r] = FilterOf(dc[1]) => dc[2] \in trusted[r]
    /\ barred[r] \cap Exportable(userAnchors(r)) = {}
    /\ anchors[r] \cap barred[r] = {}
    /\ pc[r] \in {"listUser", "filterUser"} => userAnchors(r)

ExportInv == \A r \in Runs : Exports(r)

\* The bundle is gone when the port is, unless a run outlived it.
GoneInv ==
    /\ port # "inactive" => ~rival
    /\ ~outlived /\ port \in {"deactivating", "inactive"} => Running = {}
    /\ ~outlived /\ port = "deactivating" => bundle = None
    /\ NothingLeft

\* What run r has in hand is what the administrator and the system trust now.
Exact(r) ==
    /\ \A c \in anchors[r] : Valid(settings, expired, c, FALSE)
    /\ \A d \in {"admin", "system"} : \A c \in ListedIn(settings, d) :
          Valid(settings, expired, c, FALSE) =>
              /\ pc[r] \in Past(d) => c \in anchors[r]
              /\ pc[r] = FilterOf(d) => c \in trusted[r]

\* A run is exact while it has the keychains to itself, or while there is
\* neither an excuse nor an event; then it is the only one.
FreshInv ==
    /\ anchorsAPI => \A c \in Certs : settings["admin"][c] = "none"
    /\ \A r \in Runs : alone[r] => \A q \in Running : q = r
    /\ ~excused => \A q, r \in Running : q = r
    /\ \A r \in Running :
          ~userAnchors(r) /\ (alone[r] \/ (~excused /\ ~pending)) => Exact(r)
    /\ ~excused /\ ~pending /\ port = "active" /\ Running = {} => bundle = Exportable(FALSE)

-----------------------------------------------------------------------------
(* The actions, in the words the invariant needs. *)

\* A run goes on by a step, and gets what the step gives but for what it loses.
LEMMA ListDoes ==
    ASSUME TypeOK, NEW r \in Runs, List(r)
    PROVE  \E step \in ListSteps, lost \in SUBSET Certs :
              LET d == DomainOf(step) IN
              /\ pc[r] = step /\ pc' = [pc EXCEPT ![r] = After[step]]
              /\ lost \subseteq ListedIn(settings, d)
              /\ trusted' = [trusted EXCEPT ![r] = trusted[r] \cup (ListedIn(settings, d) \ lost)]
              /\ anchors' = anchors
              /\ kept' = [kept EXCEPT ![r] = kept[r] \ ({d} \X lost)]
              /\ alone' = [alone EXCEPT ![r] = alone[r] /\ lost = {}]
              /\ excused' = (excused \/ lost # {})
              /\ faults' \in Nat
              /\ UNCHANGED <<env, mac, job, bundle, barred, outlived>>
  <1>1. PICK step \in ListSteps :
            /\ Goes(r, step)
            /\ Gets(r, DomainOf(step), ListedIn(settings, DomainOf(step)), trusted)
            /\ UNCHANGED anchors
    BY DEF List, ListSteps
  <1> DEFINE cs == ListedIn(settings, DomainOf(step))
  <1>2. PICK lost \in {{}} \cup {{c} : c \in cs} :
            /\ faults' = faults + Cardinality(lost)
            /\ trusted' = [trusted EXCEPT ![r] = trusted[r] \cup (cs \ lost)]
            /\ kept' = [kept EXCEPT ![r] = kept[r] \ ({DomainOf(step)} \X lost)]
            /\ alone' = [alone EXCEPT ![r] = alone[r] /\ lost = {}]
            /\ excused' = (excused \/ lost # {})
            /\ UNCHANGED <<env, mac, job, bundle, barred, outlived>>
    BY <1>1 DEF Gets
  <1>3. lost \subseteq cs /\ cs \subseteq Certs
    BY DEF ListedIn
  <1>4. faults' \in Nat
    <2>1. Cardinality(lost) \in {0, 1}
      BY <1>2, FS_EmptySet, FS_Singleton
    <2> QED
      BY <1>2, <2>1 DEF TypeOK
  <1>5. pc[r] = step /\ pc' = [pc EXCEPT ![r] = After[step]]
    BY <1>1 DEF Goes
  <1>6. lost \in SUBSET Certs
    BY <1>3
  <1> QED
    BY <1>1, <1>2, <1>3, <1>4, <1>5, <1>6

LEMMA FilterDoes ==
    ASSUME TypeOK, NEW r \in Runs, Filter(r)
    PROVE  \E step \in FilterSteps, lost \in SUBSET Certs :
              LET d == DomainOf(step)
                  valid == {c \in trusted[r] : Valid(settings, expired, c, d = "user")} IN
              /\ pc[r] = step /\ pc' = [pc EXCEPT ![r] = After[step]]
              /\ lost \subseteq valid
              /\ anchors' = [anchors EXCEPT ![r] = anchors[r] \cup (valid \ lost)]
              /\ trusted' = [trusted EXCEPT ![r] = {}]
              /\ kept' = [kept EXCEPT ![r] = kept[r] \ ({d} \X lost)]
              /\ alone' = [alone EXCEPT ![r] = alone[r] /\ lost = {}]
              /\ excused' = (excused \/ lost # {})
              /\ faults' \in Nat
              /\ UNCHANGED <<env, mac, job, bundle, barred, outlived>>
  <1>1. PICK step \in FilterSteps :
            /\ Goes(r, step)
            /\ Gets(r, DomainOf(step),
                    {c \in trusted[r] : ValidateSystemTrust(c, step = "filterUser")}, anchors)
            /\ trusted' = [trusted EXCEPT ![r] = {}]
    BY DEF Filter, FilterSteps
  <1> DEFINE cs == {c \in trusted[r] : ValidateSystemTrust(c, step = "filterUser")}
  <1>2. PICK lost \in {{}} \cup {{c} : c \in cs} :
            /\ faults' = faults + Cardinality(lost)
            /\ anchors' = [anchors EXCEPT ![r] = anchors[r] \cup (cs \ lost)]
            /\ kept' = [kept EXCEPT ![r] = kept[r] \ ({DomainOf(step)} \X lost)]
            /\ alone' = [alone EXCEPT ![r] = alone[r] /\ lost = {}]
            /\ excused' = (excused \/ lost # {})
            /\ UNCHANGED <<env, mac, job, bundle, barred, outlived>>
    BY <1>1 DEF Gets
  <1>3. (step = "filterUser") = (DomainOf(step) = "user")
    BY StepFacts
  <1>4. cs = {c \in trusted[r] : Valid(settings, expired, c, DomainOf(step) = "user")}
    BY <1>3 DEF ValidateSystemTrust
  <1>5. lost \subseteq cs /\ cs \subseteq Certs
    BY DEF TypeOK
  <1>6. faults' \in Nat
    <2>1. Cardinality(lost) \in {0, 1}
      BY <1>2, FS_EmptySet, FS_Singleton
    <2> QED
      BY <1>2, <2>1 DEF TypeOK
  <1>7. pc[r] = step /\ pc' = [pc EXCEPT ![r] = After[step]]
    BY <1>1 DEF Goes
  <1>8. lost \in SUBSET Certs
    BY <1>5
  <1> HIDE DEF cs
  <1> QED
    BY <1>1, <1>2, <1>4, <1>5, <1>6, <1>7, <1>8

-----------------------------------------------------------------------------
(* Types. *)

LEMMA TypesKept == TypeOK /\ [Next]_vars => TypeOK'
  <1> SUFFICES ASSUME TypeOK, [Next]_vars PROVE TypeOK'
    OBVIOUS
  <1>1. ASSUME NEW r \in Runs, List(r) PROVE TypeOK'
    <2>1. PICK step \in ListSteps, lost \in SUBSET Certs :
              /\ pc[r] = step /\ pc' = [pc EXCEPT ![r] = After[step]]
              /\ trusted' = [trusted EXCEPT ![r] =
                                 trusted[r] \cup (ListedIn(settings, DomainOf(step)) \ lost)]
              /\ anchors' = anchors
              /\ kept' = [kept EXCEPT ![r] = kept[r] \ ({DomainOf(step)} \X lost)]
              /\ alone' = [alone EXCEPT ![r] = alone[r] /\ lost = {}]
              /\ excused' = (excused \/ lost # {})
              /\ faults' \in Nat
              /\ UNCHANGED <<env, mac, job, bundle, barred, outlived>>
      BY <1>1, ListDoes
    <2>2. step \in Steps /\ After[step] \in Steps /\ "idle" \notin Steps
      BY StepFacts
    <2>3. trusted' \in [Runs -> SUBSET Certs]
      BY <2>1 DEF TypeOK, ListedIn
    <2>4. kept' \in [Runs -> SUBSET (Domains \X Certs)]
      BY <2>1 DEF TypeOK
    <2>5. alone' \in [Runs -> BOOLEAN] /\ excused' \in BOOLEAN
      <3>1. (alone[r] /\ lost = {}) \in BOOLEAN /\ (excused \/ lost # {}) \in BOOLEAN
        BY DEF TypeOK
      <3> QED
        BY <2>1, <3>1 DEF TypeOK
    <2>6. pc' \in [Runs -> Steps \cup {"idle"}] /\ (pc'["port"] # "idle" <=> pc["port"] # "idle")
      BY <2>1, <2>2 DEF TypeOK, Runs
    <2> QED
      BY <2>1, <2>3, <2>4, <2>5, <2>6 DEF TypeOK, env, mac, job
  <1>2. ASSUME NEW r \in Runs, Filter(r) PROVE TypeOK'
    <2>1. PICK step \in FilterSteps, lost \in SUBSET Certs :
              /\ pc[r] = step /\ pc' = [pc EXCEPT ![r] = After[step]]
              /\ anchors' = [anchors EXCEPT ![r] = anchors[r] \cup
                     ({c \in trusted[r] : Valid(settings, expired, c, DomainOf(step) = "user")} \ lost)]
              /\ trusted' = [trusted EXCEPT ![r] = {}]
              /\ kept' = [kept EXCEPT ![r] = kept[r] \ ({DomainOf(step)} \X lost)]
              /\ alone' = [alone EXCEPT ![r] = alone[r] /\ lost = {}]
              /\ excused' = (excused \/ lost # {})
              /\ faults' \in Nat
              /\ UNCHANGED <<env, mac, job, bundle, barred, outlived>>
      BY <1>2, FilterDoes
    <2>2. step \in Steps /\ After[step] \in Steps /\ "idle" \notin Steps
      BY StepFacts
    <2>3. trusted' \in [Runs -> SUBSET Certs] /\ anchors' \in [Runs -> SUBSET Certs]
      BY <2>1 DEF TypeOK
    <2>4. kept' \in [Runs -> SUBSET (Domains \X Certs)]
      BY <2>1 DEF TypeOK
    <2>5. alone' \in [Runs -> BOOLEAN] /\ excused' \in BOOLEAN
      <3>1. (alone[r] /\ lost = {}) \in BOOLEAN /\ (excused \/ lost # {}) \in BOOLEAN
        BY DEF TypeOK
      <3> QED
        BY <2>1, <3>1 DEF TypeOK
    <2>6. pc' \in [Runs -> Steps \cup {"idle"}] /\ (pc'["port"] # "idle" <=> pc["port"] # "idle")
      BY <2>1, <2>2 DEF TypeOK, Runs
    <2> QED
      BY <2>1, <2>3, <2>4, <2>5, <2>6 DEF TypeOK, env, mac, job
  <1>3. ASSUME NEW r \in Runs, End(r)
        PROVE  /\ pc' \in [Runs -> Steps \cup {"idle"}]
               /\ trusted' \in [Runs -> SUBSET Certs] /\ anchors' \in [Runs -> SUBSET Certs]
               /\ kept' \in [Runs -> SUBSET (Domains \X Certs)]
               /\ barred' \in [Runs -> SUBSET Certs] /\ alone' \in [Runs -> BOOLEAN]
               /\ pc'[r] = "idle" /\ \A q \in Runs \ {r} : pc'[q] = pc[q]
    BY <1>3 DEF End, TypeOK
  <1>4. ASSUME NEW r \in Runs, Activated(r), End(r), pc[r] # "idle"
        PROVE  /\ port' \in {"inactive", "activating", "active", "deactivating"}
               /\ pc'["port"] # "idle" <=> port' = "activating"
    BY <1>3, <1>4 DEF Activated, TypeOK, Runs
  <1>5. ASSUME NEW r \in Runs, Write(r) PROVE TypeOK'
    <2>1. /\ pc[r] = "write" /\ End(r) /\ Activated(r)
          /\ bundle' = anchors[r] /\ excused' = (userAnchors(r) \/ (excused /\ ~alone[r]))
          /\ UNCHANGED <<env, rival, job, faults, outlived>>
      BY <1>5 DEF Write
    <2>2. excused' \in BOOLEAN /\ bundle' \in {None, Mozilla} \cup SUBSET Certs
      <3>1. anchors[r] \in SUBSET Certs
        BY DEF TypeOK
      <3> QED
        BY <2>1, <3>1 DEF TypeOK
    <2> QED
      BY <1>3, <1>4, <2>1, <2>2 DEF TypeOK, env, job
  <1>6. ASSUME NEW r \in Runs, Fail(r) PROVE TypeOK'
    <2>1. /\ pc[r] # "idle" /\ faults' = faults + 1 /\ End(r) /\ Activated(r) /\ excused' = TRUE
          /\ UNCHANGED <<env, rival, job, bundle, outlived>>
      BY <1>6 DEF Fail
    <2>2. faults' \in Nat
      BY <2>1 DEF TypeOK
    <2> QED
      BY <1>3, <1>4, <2>1, <2>2 DEF TypeOK, env, job
  <1>7. ASSUME NEW r \in Runs, Begin(r)
        PROVE  /\ pc' \in [Runs -> Steps \cup {"idle"}]
               /\ trusted' \in [Runs -> SUBSET Certs] /\ anchors' \in [Runs -> SUBSET Certs]
               /\ kept' \in [Runs -> SUBSET (Domains \X Certs)]
               /\ barred' \in [Runs -> SUBSET Certs] /\ alone' \in [Runs -> BOOLEAN]
               /\ excused' \in BOOLEAN
               /\ pc'[r] # "idle" /\ \A q \in Runs \ {r} : pc'[q] = pc[q]
    <2>1. (IF userAnchors(r) THEN "listUser" ELSE "listAdmin") \in Steps
      BY DEF Steps
    <2>2. GoodIn(settings, expired, userAnchors(r)) \in SUBSET (Domains \X Certs)
      BY DEF GoodIn
    <2>3. alone' \in [Runs -> BOOLEAN]
      BY <1>7 DEF Begin
    <2>4. excused' \in BOOLEAN
      BY <1>7 DEF Begin, TypeOK
    <2>5. pc' \in [Runs -> Steps \cup {"idle"}]
               /\ pc'[r] # "idle" /\ \A q \in Runs \ {r} : pc'[q] = pc[q]
      BY <1>7, <2>1 DEF Begin, TypeOK
    <2> QED
      BY <1>7, <2>2, <2>3, <2>4, <2>5 DEF Begin, TypeOK
  <1>8. CASE Activate
    <2>1. "port" \in Runs
      BY DEF Runs
    <2>2. Begin("port") /\ port' = "activating" /\ UNCHANGED <<env, rival, job, bundle, faults, outlived>>
      BY <1>8 DEF Activate
    <2> QED
      BY <1>7, <2>1, <2>2 DEF TypeOK, env, job
  <1>9. ASSUME NEW r \in Runs \ {"port"}, Begin(r), UNCHANGED <<env, mac, loaded, bundle, faults>>,
               pending' = FALSE \/ pending' = pending, outlived' = (outlived \/ port = "deactivating")
        PROVE  TypeOK'
    <2>1. pc'["port"] = pc["port"] /\ outlived' \in BOOLEAN /\ pending' \in BOOLEAN
      BY <1>7, <1>9 DEF Runs, TypeOK
    <2> QED
      BY <1>7, <1>9, <2>1 DEF TypeOK, env, mac
  <1>a. CASE Launch \/ RunByHand
    <2>1. {"launchd", "hand"} \subseteq Runs \ {"port"}
      BY DEF Runs
    <2> QED
      BY <1>9, <1>a, <2>1 DEF Launch, RunByHand, job
  <1>b. CASE PreDeactivate \/ Deactivate \/ ActivateRival \/ DeactivateRival \/ Load
    <2>1. CASE PreDeactivate
      <3>1. outlived' \in BOOLEAN /\ bundle' = None
        BY <2>1 DEF PreDeactivate, TypeOK
      <3> QED
        BY <2>1, <3>1 DEF PreDeactivate, TypeOK, env, job, work, ghosts
    <2>2. CASE Deactivate
      BY <2>2 DEF Deactivate, TypeOK, env, job, work, ghosts
    <2>3. CASE ActivateRival
      BY <2>3 DEF ActivateRival, TypeOK, env, job, work, ghosts
    <2>4. CASE DeactivateRival
      BY <2>4 DEF DeactivateRival, TypeOK, env, job, work, ghosts
    <2>5. CASE Load
      BY <2>5 DEF Load, TypeOK, env, mac, work, ghosts
    <2> QED
      BY <1>b, <2>1, <2>2, <2>3, <2>4, <2>5
  <1>c. CASE Unload
    <2>1. /\ loaded' = FALSE /\ pending' = FALSE /\ End("launchd") /\ excused' = TRUE
          /\ UNCHANGED <<env, mac, bundle, faults, outlived>>
      BY <1>c DEF Unload
    <2>2. "launchd" \in Runs /\ "port" \in Runs \ {"launchd"}
      BY DEF Runs
    <2> QED
      BY <1>3, <2>1, <2>2 DEF TypeOK, env, mac
  <1>d. ASSUME NEW s, NEW x, Track(s, x)
        PROVE  /\ kept' \in [Runs -> SUBSET (Domains \X Certs)]
               /\ barred' \in [Runs -> SUBSET Certs] /\ alone' \in [Runs -> BOOLEAN]
    BY <1>d DEF Track, TypeOK
  <1>e. ASSUME NEW d \in Domains, NEW c \in Certs, ChangeTrust(d, c) PROVE TypeOK'
    <2>1. settings' \in [Domains -> [Certs -> Settings]]
      BY <1>e DEF ChangeTrust, TypeOK
    <2>2. changes' \in Nat
      BY <1>e DEF ChangeTrust, TypeOK
    <2>3. pending' \in BOOLEAN /\ excused' \in BOOLEAN /\ (pending' => loaded)
      BY <1>e DEF ChangeTrust, TypeOK
    <2>4. Track(settings', expired)
          /\ UNCHANGED <<expired, anchorsAPI, mac, loaded, bundle, pc, work, faults, outlived>>
      BY <1>e DEF ChangeTrust
    <2> QED
      BY <1>d, <2>1, <2>2, <2>3, <2>4 DEF TypeOK, mac, work
  <1>f. ASSUME NEW c \in Certs, Expire(c) PROVE TypeOK'
    <2>1. /\ changes' \in Nat /\ expired' \subseteq Certs /\ excused' = TRUE
          /\ Track(settings, expired')
          /\ UNCHANGED <<settings, anchorsAPI, mac, job, bundle, pc, work, faults, outlived>>
      BY <1>f DEF Expire, TypeOK
    <2> QED
      BY <1>d, <2>1 DEF TypeOK, mac, job, work
  <1>g. CASE UNCHANGED vars
    BY <1>g DEF vars, env, mac, job, work, ghosts, TypeOK
  <1> QED
    BY <1>1, <1>2, <1>5, <1>6, <1>8, <1>a, <1>b, <1>c, <1>e, <1>f, <1>g DEF Next, Run

-----------------------------------------------------------------------------
(* What a run exports. *)

\* A step of another run, or of nothing that matters to r.
LEMMA ExportsFrame ==
    ASSUME NEW r \in Runs, Exports(r), UNCHANGED <<settings, expired, anchorsAPI>>,
           pc'[r] = pc[r], trusted'[r] = trusted[r], anchors'[r] = anchors[r],
           kept'[r] = kept[r], barred'[r] = barred[r]
    PROVE  Exports(r)'
  <1>1. GoodIn(settings, expired, userAnchors(r))' = GoodIn(settings, expired, userAnchors(r))
    BY DEF GoodIn, ListedIn, userAnchors
  <1>2. Exportable(userAnchors(r))' = Exportable(userAnchors(r))
    BY DEF Exportable, ExportableIn, userAnchors
  <1> QED
    BY <1>1, <1>2 DEF Exports, userAnchors

\* A run that has ended counts on nothing.
LEMMA ExportsIdle ==
    ASSUME NEW r \in Runs, kept'[r] = {}, barred'[r] = {}, pc'[r] = "idle"
    PROVE  Exports(r)'
  BY DEF Exports

LEMMA ExportKept == TypeOK /\ ExportInv /\ [Next]_vars => ExportInv'
  <1> SUFFICES ASSUME TypeOK, ExportInv, [Next]_vars, NEW q \in Runs PROVE Exports(q)'
    BY DEF ExportInv
  <1>1. Exports(q)
    BY DEF ExportInv
  <1>2. /\ pc \in [Runs -> Steps \cup {"idle"}]
        /\ trusted \in [Runs -> SUBSET Certs] /\ anchors \in [Runs -> SUBSET Certs]
        /\ kept \in [Runs -> SUBSET (Domains \X Certs)] /\ barred \in [Runs -> SUBSET Certs]
    BY DEF TypeOK
  <1>3. ASSUME NEW r \in Runs, List(r) PROVE Exports(q)'
    <2>1. PICK step \in ListSteps, lost \in SUBSET Certs :
              /\ pc[r] = step /\ pc' = [pc EXCEPT ![r] = After[step]]
              /\ trusted' = [trusted EXCEPT ![r] =
                                 trusted[r] \cup (ListedIn(settings, DomainOf(step)) \ lost)]
              /\ anchors' = anchors
              /\ kept' = [kept EXCEPT ![r] = kept[r] \ ({DomainOf(step)} \X lost)]
              /\ UNCHANGED <<env, barred>>
      BY <1>3, ListDoes
    <2>2. CASE q # r
      BY <1>1, <1>2, <2>1, <2>2, ExportsFrame DEF env
    <2>3. CASE q = r
      <3> DEFINE d == DomainOf(step)
      <3>1. /\ pc'[q] = After[step] /\ anchors'[q] = anchors[q] /\ barred'[q] = barred[q]
            /\ trusted'[q] = trusted[q] \cup (ListedIn(settings, d) \ lost)
            /\ kept'[q] = kept[q] \ ({d} \X lost)
            /\ UNCHANGED <<settings, expired, anchorsAPI>>
        BY <1>2, <2>1, <2>3 DEF env
      <3>2. /\ d \in Domains /\ After[step] = FilterOf(d)
            /\ \A x \in Domains : /\ After[step] \in Past(x) <=> step \in Past(x)
                                  /\ After[step] = FilterOf(x) => x = d
            /\ After[step] = "filterUser" => step = "listUser"
            /\ After[step] # "listUser"
        BY StepFacts DEF ListSteps, After
      <3>3. GoodIn(settings, expired, userAnchors(q))' = GoodIn(settings, expired, userAnchors(q))
        BY <3>1 DEF GoodIn, ListedIn, userAnchors
      <3>4. Exportable(userAnchors(q))' = Exportable(userAnchors(q))
        BY <3>1 DEF Exportable, ExportableIn, userAnchors
      <3> HIDE DEF d
      <3>5. ASSUME NEW dc \in kept'[q]
            PROVE  /\ pc'[q] \in Past(dc[1]) => dc[2] \in anchors'[q]
                   /\ pc'[q] = FilterOf(dc[1]) => dc[2] \in trusted'[q]
        <4>1. dc \in kept[q] /\ dc[1] \in Domains /\ dc[2] \in Certs /\ dc = <<dc[1], dc[2]>>
          BY <1>2, <3>1, <3>5
        <4>2. pc[q] \in Past(dc[1]) => dc[2] \in anchors[q]
          BY <1>1, <4>1 DEF Exports
        <4>3. pc'[q] \in Past(dc[1]) => dc[2] \in anchors'[q]
          BY <2>1, <2>3, <3>1, <3>2, <4>1, <4>2
        <4>4. ASSUME pc'[q] = FilterOf(dc[1]) PROVE dc[2] \in trusted'[q]
          <5>1. dc[1] = d
            BY <3>1, <3>2, <4>1, <4>4
          <5>2. dc[2] \in ListedIn(settings, d)
            BY <1>1, <4>1, <5>1 DEF Exports, GoodIn
          <5>3. dc[2] \notin lost
            BY <3>1, <3>5, <4>1, <5>1
          <5> QED
            BY <3>1, <5>2, <5>3
        <4> QED
          BY <4>3, <4>4
      <3>6. kept'[q] \subseteq kept[q]
        BY <3>1
      <3>7. pc'[q] \in {"listUser", "filterUser"} => userAnchors(q)
        BY <1>1, <2>1, <2>3, <3>1, <3>2 DEF Exports
      <3> QED
        BY <1>1, <3>1, <3>3, <3>4, <3>5, <3>6, <3>7 DEF Exports, userAnchors
    <2> QED
      BY <2>2, <2>3
  <1>4. ASSUME NEW r \in Runs, Filter(r) PROVE Exports(q)'
    <2>1. PICK step \in FilterSteps, lost \in SUBSET Certs :
              /\ pc[r] = step /\ pc' = [pc EXCEPT ![r] = After[step]]
              /\ anchors' = [anchors EXCEPT ![r] = anchors[r] \cup
                     ({c \in trusted[r] : Valid(settings, expired, c, DomainOf(step) = "user")} \ lost)]
              /\ trusted' = [trusted EXCEPT ![r] = {}]
              /\ kept' = [kept EXCEPT ![r] = kept[r] \ ({DomainOf(step)} \X lost)]
              /\ UNCHANGED <<env, barred>>
      BY <1>4, FilterDoes
    <2>2. CASE q # r
      BY <1>1, <1>2, <2>1, <2>2, ExportsFrame DEF env
    <2>3. CASE q = r
      <3> DEFINE d == DomainOf(step)
                 valid == {c \in trusted[q] : Valid(settings, expired, c, d = "user")}
      <3>1. /\ pc'[q] = After[step] /\ anchors'[q] = anchors[q] \cup (valid \ lost)
            /\ barred'[q] = barred[q]
            /\ kept'[q] = kept[q] \ ({d} \X lost)
            /\ UNCHANGED <<settings, expired, anchorsAPI>>
        BY <1>2, <2>1, <2>3 DEF env
      <3>2. /\ d \in Domains /\ step = FilterOf(d)
            /\ \A x \in Domains : /\ After[step] \in Past(x) <=> (x = d \/ step \in Past(x))
                                  /\ After[step] # FilterOf(x)
            /\ step = "filterUser" <=> d = "user"
            /\ After[step] \notin {"listUser", "filterUser"}
        BY StepFacts
      <3>3. GoodIn(settings, expired, userAnchors(q))' = GoodIn(settings, expired, userAnchors(q))
        BY <3>1 DEF GoodIn, ListedIn, userAnchors
      <3>4. Exportable(userAnchors(q))' = Exportable(userAnchors(q))
        BY <3>1 DEF Exportable, ExportableIn, userAnchors
      <3>5. valid \subseteq Exportable(userAnchors(q))
        <4> SUFFICES ASSUME NEW c \in Certs, Valid(settings, expired, c, d = "user")
                     PROVE  c \in Exportable(userAnchors(q))
          BY <1>2
        <4>1. CASE d = "user"
          <5>1. userAnchors(q)
            BY <1>1, <2>1, <2>3, <3>2, <4>1 DEF Exports
          <5>2. Valid(settings, expired, c, TRUE)
            BY <4>1
          <5>3. \/ Valid(settings, expired, c, FALSE)
                \/ settings["user"][c] = "trust"
            BY <5>2, SettingsFacts
          <5> QED
            BY <5>1, <5>2, <5>3 DEF Exportable, ExportableIn
        <4>2. CASE d # "user"
          <5>1. Valid(settings, expired, c, FALSE)
            BY <4>2
          <5> QED
            BY <5>1 DEF Exportable, ExportableIn
        <4> QED
          BY <4>1, <4>2
      <3>6. ASSUME NEW dc \in kept'[q]
            PROVE  /\ pc'[q] \in Past(dc[1]) => dc[2] \in anchors'[q]
                   /\ pc'[q] = FilterOf(dc[1]) => dc[2] \in trusted'[q]
        <4>1. dc \in kept[q] /\ dc[1] \in Domains /\ dc[2] \in Certs /\ dc = <<dc[1], dc[2]>>
          BY <1>2, <3>1, <3>6
        <4>2. pc'[q] # FilterOf(dc[1])
          BY <3>1, <3>2, <4>1
        <4>3. CASE dc[1] = d
          <5>1. dc[2] \in trusted[q]
            BY <1>1, <2>1, <2>3, <3>2, <4>1, <4>3 DEF Exports
          <5>2. Valid(settings, expired, dc[2], dc[1] = "user")
            BY <1>1, <4>1 DEF Exports, GoodIn
          <5>3. dc[2] \in valid
            BY <4>3, <5>1, <5>2
          <5>4. dc[2] \notin lost
            BY <3>1, <3>6, <4>1, <4>3
          <5> QED
            BY <3>1, <4>2, <5>3, <5>4
        <4>4. CASE dc[1] # d
          <5>1. pc[q] \in Past(dc[1]) => dc[2] \in anchors[q]
            BY <1>1, <4>1 DEF Exports
          <5> HIDE DEF d, valid
          <5> QED
            BY <2>1, <2>3, <3>1, <3>2, <4>1, <4>2, <4>4, <5>1
        <4> QED
          BY <4>3, <4>4
      <3> HIDE DEF d, valid
      <3>7. kept'[q] \subseteq kept[q]
        BY <3>1
      <3>8. anchors'[q] \cap barred'[q] = {}
        BY <1>1, <3>1, <3>5 DEF Exports
      <3> QED
        BY <1>1, <3>1, <3>2, <3>3, <3>4, <3>6, <3>7, <3>8 DEF Exports, userAnchors
    <2> QED
      BY <2>2, <2>3
  <1>5. ASSUME NEW r \in Runs, End(r), UNCHANGED env PROVE Exports(q)'
    <2>1. CASE q = r
      BY <1>2, <1>5, <2>1, ExportsIdle DEF End
    <2>2. CASE q # r
      BY <1>1, <1>2, <1>5, <2>2, ExportsFrame DEF End, env
    <2> QED
      BY <2>1, <2>2
  <1>6. ASSUME NEW r \in Runs, Begin(r), UNCHANGED env PROVE Exports(q)'
    <2>1. CASE q # r
      BY <1>1, <1>2, <1>6, <2>1, ExportsFrame DEF Begin, env
    <2>2. CASE q = r
      <3>1. /\ pc'[q] = IF userAnchors(q) THEN "listUser" ELSE "listAdmin"
            /\ anchors'[q] = {} /\ kept'[q] = GoodIn(settings, expired, userAnchors(q))
            /\ barred'[q] = Certs \ Exportable(userAnchors(q))
            /\ UNCHANGED <<settings, expired, anchorsAPI>>
        BY <1>2, <1>6, <2>2 DEF Begin, env
      <3>2. GoodIn(settings, expired, userAnchors(q))' = GoodIn(settings, expired, userAnchors(q))
        BY <3>1 DEF GoodIn, ListedIn, userAnchors
      <3>3. Exportable(userAnchors(q))' = Exportable(userAnchors(q))
        BY <3>1 DEF Exportable, ExportableIn, userAnchors
      <3>4. \A dc \in kept'[q] :
               /\ pc'[q] \notin Past(dc[1]) /\ pc'[q] # FilterOf(dc[1])
        <4>1. \A dc \in GoodIn(settings, expired, userAnchors(q)) :
                 dc[1] \in Domains /\ (dc[1] = "user" => userAnchors(q))
          BY DEF GoodIn
        <4> QED
          BY <3>1, <4>1, StepFacts
      <3> QED
        BY <3>1, <3>2, <3>3, <3>4 DEF Exports, userAnchors
    <2> QED
      BY <2>1, <2>2
  <1>7. ASSUME NEW r \in Runs, Write(r) \/ Fail(r) PROVE Exports(q)'
    BY <1>5, <1>7 DEF Write, Fail
  <1>8. CASE Activate \/ Launch \/ RunByHand \/ Unload
    BY <1>5, <1>6, <1>8 DEF Activate, Launch, RunByHand, Unload, Runs
  <1>9. CASE \/ PreDeactivate \/ Deactivate \/ ActivateRival \/ DeactivateRival \/ Load
             \/ UNCHANGED vars
    <2>1. UNCHANGED <<env, pc, work, ghosts>>
      BY <1>9 DEF PreDeactivate, Deactivate, ActivateRival, DeactivateRival, Load, vars
    <2> QED
      BY <1>1, <2>1, ExportsFrame DEF env, work, ghosts
  <1>a. ASSUME Track(settings', expired'), UNCHANGED <<pc, work, anchorsAPI>> PROVE Exports(q)'
    <2>1. /\ kept'[q] = kept[q] \cap GoodIn(settings, expired, userAnchors(q))'
          /\ barred'[q] = barred[q] \ Exportable(userAnchors(q))'
      BY <1>a DEF Track, Exportable, ExportableIn, GoodIn, ListedIn, userAnchors
    <2> QED
      BY <1>1, <1>a, <2>1 DEF Exports, work, userAnchors
  <1>b. CASE \/ \E d \in Domains, c \in Certs : ChangeTrust(d, c)
             \/ \E c \in Certs : Expire(c)
    BY <1>a, <1>b DEF ChangeTrust, Expire
  <1> QED
    BY <1>3, <1>4, <1>7, <1>8, <1>9, <1>b DEF Next, Run

-----------------------------------------------------------------------------
(* When the bundle is gone. *)

LEMMA RunningAfter ==
    ASSUME TypeOK, NEW r \in Runs
    PROVE  /\ End(r) => Running' = Running \ {r}
           /\ Begin(r) => Running' = Running \cup {r} /\ r \notin Running
  <1>1. pc \in [Runs -> Steps \cup {"idle"}]
    BY DEF TypeOK
  <1>2. ASSUME End(r) PROVE Running' = Running \ {r}
    BY <1>1, <1>2 DEF End, Running
  <1>3. ASSUME Begin(r) PROVE Running' = Running \cup {r} /\ r \notin Running
    BY <1>1, <1>3 DEF Begin, Running
  <1> QED
    BY <1>2, <1>3

\* The steps within a run leave it running.
LEMMA RunningSame ==
    ASSUME TypeOK, NEW r \in Runs, List(r) \/ Filter(r)
    PROVE  /\ Running' = Running /\ r \in Running
           /\ UNCHANGED <<env, mac, job, bundle, outlived>>
  <1>1. \E step \in ListSteps \cup FilterSteps :
            /\ pc[r] = step /\ pc' = [pc EXCEPT ![r] = After[step]]
            /\ UNCHANGED <<env, mac, job, bundle, outlived>>
    BY ListDoes, FilterDoes
  <1>2. \A step \in ListSteps \cup FilterSteps : step # "idle" /\ After[step] # "idle"
    BY StepFacts
  <1> QED
    BY <1>1, <1>2 DEF Running, TypeOK

LEMMA GoneKept == TypeOK /\ GoneInv /\ [Next]_vars => GoneInv'
  <1> SUFFICES ASSUME TypeOK, GoneInv, [Next]_vars PROVE GoneInv'
    OBVIOUS
  <1>1. /\ port # "inactive" => ~rival
        /\ ~outlived /\ port \in {"deactivating", "inactive"} => Running = {}
        /\ ~outlived /\ port = "deactivating" => bundle = None
        /\ port = "inactive" => outlived \/ bundle = IF rival THEN Mozilla ELSE None
        /\ outlived \in BOOLEAN
    BY DEF GoneInv, NothingLeft, TypeOK
  <1>2. ASSUME NEW r \in Runs, List(r) \/ Filter(r) PROVE GoneInv'
    BY <1>1, <1>2, RunningSame DEF GoneInv, NothingLeft, mac
  <1>3. ASSUME NEW r \in Runs, Write(r) \/ Fail(r) PROVE GoneInv'
    <2>1. /\ End(r) /\ Activated(r) /\ r \in Running /\ UNCHANGED <<rival, outlived>>
          /\ port = "activating" <=> pc["port"] # "idle"
      BY <1>3 DEF Write, Fail, Running, TypeOK
    <2>2. Running' \subseteq Running
      BY <2>1, RunningAfter
    <2>3. outlived \/ port \notin {"deactivating", "inactive"}
      BY <1>1, <2>1
    <2>4. r = "port" => port = "activating"
      BY <2>1 DEF Running
    <2> QED
      BY <1>1, <2>1, <2>2, <2>3, <2>4 DEF GoneInv, NothingLeft, Activated
  <1>4. CASE Activate
    BY <1>1, <1>4 DEF Activate, GoneInv, NothingLeft
  <1>5. CASE PreDeactivate
    <2>1. /\ Running' = Running /\ outlived' = (outlived \/ Running # {})
          /\ port = "active" /\ port' = "deactivating" /\ bundle' = None /\ rival' = rival
      BY <1>5 DEF PreDeactivate, Running
    <2> QED
      BY <1>1, <2>1 DEF GoneInv, NothingLeft
  <1>6. CASE Deactivate
    <2>1. /\ Running' = Running /\ UNCHANGED <<outlived, bundle, rival>>
          /\ port = "deactivating" /\ port' = "inactive"
      BY <1>6 DEF Deactivate, Running
    <2> QED
      BY <1>1, <2>1 DEF GoneInv, NothingLeft
  <1>7. CASE ActivateRival \/ DeactivateRival
    <2>1. /\ Running' = Running /\ UNCHANGED <<outlived, port>> /\ port = "inactive"
          /\ bundle' = IF rival' THEN Mozilla ELSE None
      BY <1>1, <1>7 DEF ActivateRival, DeactivateRival, Running
    <2> QED
      BY <1>1, <2>1 DEF GoneInv, NothingLeft
  <1>8. CASE Unload
    <2>1. Running' \subseteq Running
      BY <1>8, RunningAfter DEF Unload, Runs
    <2> QED
      BY <1>1, <1>8, <2>1 DEF Unload, GoneInv, NothingLeft, mac
  <1>9. CASE Launch \/ RunByHand
    <2>1. /\ port # "inactive" /\ UNCHANGED <<port, rival, bundle>>
          /\ outlived' = (outlived \/ port = "deactivating")
      BY <1>9 DEF Launch, RunByHand, mac
    <2> QED
      BY <1>1, <2>1 DEF GoneInv, NothingLeft
  <1>a. CASE \/ Load \/ UNCHANGED vars
             \/ \E d \in Domains, c \in Certs : ChangeTrust(d, c)
             \/ \E c \in Certs : Expire(c)
    <2>1. UNCHANGED <<pc, mac, bundle, outlived>>
      BY <1>a DEF Load, vars, ChangeTrust, Expire
    <2>2. Running' = Running
      BY <2>1 DEF Running
    <2> QED
      BY <1>1, <2>1, <2>2 DEF GoneInv, NothingLeft, mac
  <1> QED
    BY <1>2, <1>3, <1>4, <1>5, <1>6, <1>7, <1>8, <1>9, <1>a DEF Next, Run

-----------------------------------------------------------------------------
(* When the bundle is fresh. *)

\* What a run is exact about, as long as the administrator's and the system's
\* settings stay.
LEMMA ExactFrame ==
    ASSUME NEW r \in Runs, Exact(r), expired' = expired, anchorsAPI' = anchorsAPI,
           settings'["admin"] = settings["admin"], settings'["system"] = settings["system"],
           pc'[r] = pc[r], trusted'[r] = trusted[r], anchors'[r] = anchors[r]
    PROVE  Exact(r)'
  <1>1. \A c : Valid(settings, expired, c, FALSE)' = Valid(settings, expired, c, FALSE)
    BY DEF Valid, Opinion
  <1>2. \A d \in {"admin", "system"} : ListedIn(settings, d)' = ListedIn(settings, d)
    BY DEF ListedIn
  <1> QED
    BY <1>1, <1>2 DEF Exact

LEMMA ExportableFrame ==
    ASSUME expired' = expired,
           settings'["admin"] = settings["admin"], settings'["system"] = settings["system"]
    PROVE  Exportable(FALSE)' = Exportable(FALSE)
  <1>1. \A c : Valid(settings, expired, c, FALSE)' = Valid(settings, expired, c, FALSE)
    BY DEF Valid, Opinion
  <1> QED
    BY <1>1 DEF Exportable, ExportableIn

\* The steps of a run keep it exact, but for what it loses.
LEMMA ExactSteps ==
    ASSUME TypeOK, ExportInv, NEW r \in Runs, ~userAnchors(r), Exact(r),
           List(r) \/ Filter(r), ~excused' \/ alone'[r]
    PROVE  Exact(r)'
  <1>0. /\ pc \in [Runs -> Steps \cup {"idle"}]
        /\ trusted \in [Runs -> SUBSET Certs] /\ anchors \in [Runs -> SUBSET Certs]
        /\ alone \in [Runs -> BOOLEAN] /\ excused \in BOOLEAN
        /\ pc[r] \notin {"listUser", "filterUser"}
    BY DEF TypeOK, ExportInv, Exports
  <1>1. CASE List(r)
    <2>1. PICK step \in ListSteps, lost \in SUBSET Certs :
              /\ pc[r] = step /\ pc' = [pc EXCEPT ![r] = After[step]]
              /\ trusted' = [trusted EXCEPT ![r] =
                                 trusted[r] \cup (ListedIn(settings, DomainOf(step)) \ lost)]
              /\ anchors' = anchors
              /\ alone' = [alone EXCEPT ![r] = alone[r] /\ lost = {}]
              /\ excused' = (excused \/ lost # {})
              /\ UNCHANGED env
      BY <1>1, ListDoes
    <2> DEFINE d == DomainOf(step)
    <2>2. lost = {}
      BY <1>0, <2>1
    <2>3. /\ pc'[r] = After[step] /\ anchors'[r] = anchors[r]
          /\ trusted'[r] = trusted[r] \cup ListedIn(settings, d)
          /\ UNCHANGED <<settings, expired, anchorsAPI>>
      BY <1>0, <2>1, <2>2 DEF env
    <2>4. \A x \in {"admin", "system"} : /\ After[step] \in Past(x) <=> step \in Past(x)
                                         /\ After[step] = FilterOf(x) => x = d
      BY StepFacts DEF Domains
    <2>5. \A c : Valid(settings, expired, c, FALSE)' = Valid(settings, expired, c, FALSE)
      BY <2>3 DEF Valid, Opinion
    <2>6. \A x \in {"admin", "system"} : ListedIn(settings, x)' = ListedIn(settings, x)
      BY <2>3 DEF ListedIn
    <2> HIDE DEF d
    <2> QED
      BY <2>1, <2>3, <2>4, <2>5, <2>6 DEF Exact
  <1>2. CASE Filter(r)
    <2>1. PICK step \in FilterSteps, lost \in SUBSET Certs :
              /\ pc[r] = step /\ pc' = [pc EXCEPT ![r] = After[step]]
              /\ anchors' = [anchors EXCEPT ![r] = anchors[r] \cup
                     ({c \in trusted[r] : Valid(settings, expired, c, DomainOf(step) = "user")} \ lost)]
              /\ alone' = [alone EXCEPT ![r] = alone[r] /\ lost = {}]
              /\ excused' = (excused \/ lost # {})
              /\ UNCHANGED env
      BY <1>2, FilterDoes
    <2> DEFINE d == DomainOf(step)
    <2>2. lost = {}
      BY <1>0, <2>1
    <2>3. step = FilterOf(d) /\ d # "user" /\ d \in Domains
      BY <1>0, <2>1, StepFacts
    <2>4. (d = "user") = FALSE
      BY <2>3
    <2>5. /\ pc'[r] = After[step]
          /\ anchors'[r] = anchors[r] \cup {c \in trusted[r] : Valid(settings, expired, c, FALSE)}
          /\ UNCHANGED <<settings, expired, anchorsAPI>>
      BY <1>0, <2>1, <2>2, <2>4 DEF env
    <2>6. \A x \in {"admin", "system"} :
              /\ After[step] \in Past(x) <=> (x = d \/ step \in Past(x))
              /\ After[step] # FilterOf(x)
      BY StepFacts DEF Domains
    <2>7. \A c : Valid(settings, expired, c, FALSE)' = Valid(settings, expired, c, FALSE)
      BY <2>5 DEF Valid, Opinion
    <2>8. \A x \in {"admin", "system"} : ListedIn(settings, x)' = ListedIn(settings, x)
      BY <2>5 DEF ListedIn
    <2> HIDE DEF d
    <2> QED
      BY <2>1, <2>3, <2>5, <2>6, <2>7, <2>8 DEF Exact
  <1> QED
    BY <1>1, <1>2

\* An exact run that has come to its end writes what is trusted.
LEMMA ExactWrites ==
    ASSUME TypeOK, NEW r \in Runs, Exact(r), pc[r] = "write",
           anchorsAPI => \A c \in Certs : settings["admin"][c] = "none"
    PROVE  anchors[r] = Exportable(FALSE)
  <1>1. Exportable(FALSE) = {c \in Certs : Valid(settings, expired, c, FALSE)}
    BY DEF Exportable, ExportableIn
  <1>2. anchors[r] \subseteq Certs
    BY DEF TypeOK
  <1>3. ASSUME NEW c \in Certs, Valid(settings, expired, c, FALSE) PROVE c \in anchors[r]
    <2>1. settings["admin"][c] = "trust" \/ settings["system"][c] = "trust"
      BY <1>3, SettingsFacts
    <2>2. \E d \in {"admin", "system"} : c \in ListedIn(settings, d)
      BY <1>3, <2>1 DEF ListedIn
    <2>3. \A d \in {"admin", "system"} : pc[r] \in Past(d)
      BY DEF Past
    <2> QED
      BY <1>3, <2>2, <2>3 DEF Exact
  <1> QED
    BY <1>1, <1>2, <1>3 DEF Exact

LEMMA FreshKept == TypeOK /\ ExportInv /\ GoneInv /\ FreshInv /\ [Next]_vars => FreshInv'
  <1> SUFFICES ASSUME TypeOK, ExportInv, GoneInv, FreshInv, [Next]_vars PROVE FreshInv'
    OBVIOUS
  <1>1. /\ anchorsAPI => \A c \in Certs : settings["admin"][c] = "none"
        /\ \A r \in Runs : alone[r] => \A q \in Running : q = r
        /\ ~excused => \A q, r \in Running : q = r
        /\ \A r \in Running :
              ~userAnchors(r) /\ (alone[r] \/ (~excused /\ ~pending)) => Exact(r)
        /\ ~excused /\ ~pending /\ port = "active" /\ Running = {} => bundle = Exportable(FALSE)
    BY DEF FreshInv
  <1>2. /\ pc \in [Runs -> Steps \cup {"idle"}] /\ alone \in [Runs -> BOOLEAN]
        /\ trusted \in [Runs -> SUBSET Certs] /\ anchors \in [Runs -> SUBSET Certs]
        /\ excused \in BOOLEAN /\ pending \in BOOLEAN /\ Running \subseteq Runs
    BY DEF TypeOK, Running
  <1>3. ASSUME NEW r \in Runs, List(r) \/ Filter(r) PROVE FreshInv'
    <2>1. Running' = Running /\ r \in Running /\ UNCHANGED <<env, mac, job, bundle, outlived>>
      BY <1>3, RunningSame
    <2>2. PICK step \in ListSteps \cup FilterSteps, lost \in SUBSET Certs :
              /\ alone' = [alone EXCEPT ![r] = alone[r] /\ lost = {}]
              /\ excused' = (excused \/ lost # {})
      BY <1>3, ListDoes, FilterDoes
    <2>3. \A q \in Runs : (alone'[q] => alone[q]) /\ (~excused' => ~excused)
      BY <1>2, <2>2
    <2>4. \A q \in Runs \ {r} : /\ pc'[q] = pc[q] /\ trusted'[q] = trusted[q]
                                /\ anchors'[q] = anchors[q]
      <3>1. CASE List(r)
        BY <1>2, <3>1, ListDoes
      <3>2. CASE Filter(r)
        BY <1>2, <3>2, FilterDoes
      <3> QED
        BY <1>3, <3>1, <3>2
    <2>5. ASSUME NEW q \in Running, ~userAnchors(q), alone'[q] \/ (~excused' /\ ~pending')
          PROVE  Exact(q)'
      <3>1. Exact(q)
        BY <1>1, <1>2, <2>1, <2>3, <2>5 DEF job
      <3>2. CASE q = r
        BY <1>3, <2>5, <3>1, <3>2, ExactSteps
      <3>3. CASE q # r
        BY <1>2, <2>1, <2>4, <2>5, <3>1, <3>3, ExactFrame DEF env
      <3> QED
        BY <3>2, <3>3
    <2>6. Running' # {}
      BY <2>1
    <2> QED
      BY <1>1, <1>2, <2>1, <2>3, <2>5, <2>6 DEF FreshInv, env, userAnchors
  <1>4. ASSUME NEW r \in Runs, Write(r) PROVE FreshInv'
    <2>1. /\ End(r) /\ r \in Running /\ Running' = Running \ {r} /\ pc[r] = "write"
          /\ bundle' = anchors[r] /\ excused' = (userAnchors(r) \/ (excused /\ ~alone[r]))
          /\ UNCHANGED <<env, job>>
      BY <1>4, RunningAfter DEF Write, Running
    <2>2. \A q \in Runs : alone'[q] => alone[q] /\ q # r
      BY <1>2, <2>1 DEF End
    <2>3. ASSUME ~excused'
          PROVE  /\ ~userAnchors(r) /\ Running' = {}
                 /\ ~pending' => bundle' = Exportable(FALSE)'
      <3>1. ~userAnchors(r) /\ (~excused \/ alone[r])
        BY <1>2, <2>1, <2>3
      <3>2. Running' = {}
        BY <1>1, <1>2, <2>1, <3>1
      <3>3. ~pending => Exact(r)
        BY <1>1, <2>1, <3>1
      <3>4. ~pending => anchors[r] = Exportable(FALSE)
        BY <1>1, <2>1, <3>3, ExactWrites
      <3>5. Exportable(FALSE)' = Exportable(FALSE)
        BY <2>1, ExportableFrame DEF env
      <3> QED
        BY <2>1, <3>1, <3>2, <3>4, <3>5 DEF job
    <2>4. \A q \in Runs : ~alone'[q]
      BY <1>1, <2>1, <2>2
    <2> QED
      BY <1>1, <2>1, <2>3, <2>4 DEF FreshInv, env, Running
  <1>5. ASSUME NEW r \in Runs, End(r), excused' = TRUE, UNCHANGED env PROVE FreshInv'
    <2>1. /\ Running' = Running \ {r}
          /\ \A q \in Runs : alone'[q] => alone[q] /\ q # r
          /\ \A q \in Runs \ {r} : /\ pc'[q] = pc[q] /\ trusted'[q] = trusted[q]
                                   /\ anchors'[q] = anchors[q]
      BY <1>2, <1>5, RunningAfter DEF End
    <2>2. ASSUME NEW q \in Running', ~userAnchors(q), alone'[q] PROVE Exact(q)'
      <3>1. q \in Running /\ q \in Runs /\ q # r /\ alone[q]
        BY <1>2, <2>1, <2>2
      <3>2. Exact(q)
        BY <1>1, <2>2, <3>1
      <3> QED
        BY <1>5, <2>1, <3>1, <3>2, ExactFrame DEF env
    <2> QED
      BY <1>1, <1>2, <1>5, <2>1, <2>2 DEF FreshInv, env, userAnchors
  <1>6. ASSUME NEW r \in Runs, Begin(r), UNCHANGED env PROVE FreshInv'
    <2>1. /\ Running' = Running \cup {r}
          /\ pc'[r] = IF userAnchors(r) THEN "listUser" ELSE "listAdmin"
          /\ anchors'[r] = {}
          /\ \A q \in Runs : alone'[q] => q = r /\ Running = {}
          /\ ~excused' => ~excused /\ Running = {}
      BY <1>2, <1>6, RunningAfter DEF Begin
    <2>2. ~userAnchors(r) => Exact(r)'
      <3>1. \A d \in {"admin", "system"} : "listAdmin" \notin Past(d) /\ "listAdmin" # FilterOf(d)
        BY StepFacts DEF Domains
      <3> QED
        BY <2>1, <3>1 DEF Exact
    <2> QED
      BY <1>1, <1>2, <1>6, <2>1, <2>2 DEF FreshInv, env, userAnchors
  <1>7. ASSUME NEW r \in Runs, Fail(r) PROVE FreshInv'
    BY <1>5, <1>7 DEF Fail
  <1>8. CASE Activate \/ Launch \/ RunByHand \/ Unload
    BY <1>5, <1>6, <1>8 DEF Activate, Launch, RunByHand, Unload, Runs
  <1>9. CASE \/ PreDeactivate \/ Deactivate \/ ActivateRival \/ DeactivateRival \/ Load
             \/ UNCHANGED vars
    <2>1. /\ UNCHANGED <<settings, expired, anchorsAPI, pc, trusted, anchors, alone, excused, pending>>
          /\ port' = "active" => port = "active" /\ bundle' = bundle
      BY <1>9 DEF PreDeactivate, Deactivate, ActivateRival, DeactivateRival, Load, vars,
                  env, mac, job, work, ghosts, GoneInv
    <2>2. Running' = Running /\ Exportable(FALSE)' = Exportable(FALSE)
      BY <2>1, ExportableFrame DEF Running
    <2>3. \A q \in Runs : Exact(q) => Exact(q)'
      BY <2>1, ExactFrame
    <2> QED
      BY <1>1, <1>2, <2>1, <2>2, <2>3 DEF FreshInv, userAnchors
  <1>a. ASSUME NEW d \in Domains, NEW c \in Certs, ChangeTrust(d, c) PROVE FreshInv'
    <2>1. /\ \A q \in Runs : ~alone'[q]
          /\ UNCHANGED <<expired, anchorsAPI, port, bundle, pc, trusted, anchors>>
          /\ anchorsAPI => d = "system"
          /\ ~excused' /\ ~pending' => ~excused /\ ~pending /\ d = "user"
      BY <1>a DEF ChangeTrust, Track, mac, work
    <2>2. \E v \in Settings : settings' = [settings EXCEPT ![d][c] = v]
      BY <1>a DEF ChangeTrust
    <2>3. \A x \in Domains : x # d => settings'[x] = settings[x]
      BY <2>2 DEF TypeOK
    <2>4. anchorsAPI' => \A x \in Certs : settings'["admin"][x] = "none"
      BY <1>1, <2>1, <2>3 DEF Domains
    <2>5. Running' = Running /\ (~excused' => ~excused)
      BY <1>a, <2>1 DEF Running, ChangeTrust
    <2>6. ASSUME ~excused', ~pending'
          PROVE  /\ \A q \in Runs : Exact(q) => Exact(q)'
                 /\ Exportable(FALSE)' = Exportable(FALSE)
      <3>1. settings'["admin"] = settings["admin"] /\ settings'["system"] = settings["system"]
        BY <2>1, <2>3, <2>6 DEF Domains
      <3> QED
        BY <2>1, <3>1, ExactFrame, ExportableFrame
    <2> QED
      BY <1>1, <1>2, <2>1, <2>4, <2>5, <2>6 DEF FreshInv, userAnchors
  <1>b. ASSUME NEW c \in Certs, Expire(c) PROVE FreshInv'
    <2>1. /\ \A q \in Runs : ~alone'[q]
          /\ excused' = TRUE /\ UNCHANGED <<settings, anchorsAPI, pc>>
      BY <1>b DEF Expire, Track
    <2> QED
      BY <1>1, <2>1 DEF FreshInv, Running
  <1> QED
    BY <1>3, <1>4, <1>7, <1>8, <1>9, <1>a, <1>b DEF Next, Run

-----------------------------------------------------------------------------
(* The theorems. *)

IInv == TypeOK /\ ExportInv /\ GoneInv /\ FreshInv

\* What every run, port and change of the keychains keeps.
THEOREM Invariance == Spec => []IInv
  <1>1. ASSUME Init PROVE IInv
    <2>1. TypeOK
      <3>1. settings \in [Domains -> [Certs -> Settings]]
        BY <1>1 DEF Init
      <3>2. pc \in [Runs -> Steps \cup {"idle"}] /\ pc["port"] = "idle"
        BY <1>1 DEF Init, Runs
      <3> QED
        BY <1>1, <3>1, <3>2 DEF Init, TypeOK
    <2>2. ExportInv
      BY <1>1 DEF Init, ExportInv, Exports
    <2>3. Running = {}
      BY <1>1 DEF Init, Running
    <2>4. GoneInv /\ FreshInv
      <3>1. anchorsAPI => \A c \in Certs : settings["admin"][c] = "none"
        BY <1>1 DEF Init
      <3> QED
        BY <1>1, <2>3, <3>1 DEF Init, GoneInv, NothingLeft, FreshInv
    <2> QED
      BY <2>1, <2>2, <2>4 DEF IInv
  <1>2. IInv /\ [Next]_vars => IInv'
    BY TypesKept, ExportKept, GoneKept, FreshKept DEF IInv
  <1> QED
    BY <1>1, <1>2, PTL DEF Spec

\* The variables keep their types.
THEOREM TypeCorrect == Spec => []TypeOK
  <1>1. IInv => TypeOK
    BY DEF IInv
  <1> QED
    BY <1>1, Invariance, PTL

\* What stays trusted from the first line of a run to the last is exported.
THEOREM AllExported == Spec => []ExportsKept
  <1>1. ASSUME IInv PROVE ExportsKept
    <2> SUFFICES ASSUME NEW r \in Runs, pc[r] = "write", NEW dc \in kept[r]
                 PROVE  dc[2] \in anchors[r]
      BY DEF ExportsKept
    <2>1. dc[1] \in Domains
      BY <1>1 DEF IInv, TypeOK
    <2> QED
      BY <1>1, <2>1, StepFacts DEF IInv, ExportInv, Exports
  <1>2. IInv => ExportsKept
    BY <1>1
  <1> QED
    BY <1>2, Invariance, PTL

\* What was never to be exported since a run began is not.
THEOREM NoneBarredExported == Spec => []ExportsNoneBarred
  <1>1. IInv => ExportsNoneBarred
    BY DEF IInv, ExportInv, Exports, ExportsNoneBarred
  <1> QED
    BY <1>1, Invariance, PTL

\* A run exports what it should, no more and no less.
THEOREM ExportsAreRight == Spec => []ExportsRight
  BY AllExported, NoneBarredExported, PTL DEF ExportsRight

\* A bundle that nothing excuses is what the keychains say.
THEOREM FreshWhenQuiet == Spec => []FreshButFor
  <1>1. ASSUME IInv PROVE FreshButFor
    BY <1>1 DEF IInv, FreshInv, FreshButFor, TypeOK
  <1>2. IInv => FreshButFor
    BY <1>1
  <1> QED
    BY <1>2, Invariance, PTL

\* Nothing of certsync is left behind, and its rival's file stays.
THEOREM GoneWithThePort == Spec => []NothingLeft
  <1>1. IInv => NothingLeft
    BY DEF IInv, GoneInv
  <1> QED
    BY <1>1, Invariance, PTL
=============================================================================
