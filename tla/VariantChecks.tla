----------------------------- MODULE VariantChecks -----------------------------
(***************************************************************************)
(* The PortGroups active_variants 1.1 and conflicts_build 1.0: what they   *)
(* check of the registry while a port is built, fetched as an archive and  *)
(* activated, and what they may miss because other processes activate and  *)
(* deactivate ports between two checks, and between a check and the phase  *)
(* it was made for.                                                        *)
(*                                                                         *)
(* base runs the phases in order, each after its hooks, and resumes a port *)
(* that failed at the phase that failed: what was checked before an        *)
(* earlier phase is not checked again.                                     *)
(***************************************************************************)
EXTENDS Naturals, Sequences

CONSTANTS
    Ports,          \* other ports
    VariantsOf,     \* the variants each of them has
    Requirements,   \* _require_active_variants_list: port, required, forbidden
    ConflictsBuild, \* conflicts_build
    MaxChanges      \* bound: changes of the registry

ASSUME VariantsAssumption ==
    /\ Requirements \in
          Seq([port : Ports, required : SUBSET UNION {VariantsOf[p] : p \in Ports},
               forbidden : SUBSET UNION {VariantsOf[p] : p \in Ports}])
    /\ ConflictsBuild \in Seq(Ports)
    /\ MaxChanges \in Nat

VARIABLES
    depends,   \* the types of dependency each port is declared as
    active,    \* the registry: the ports that are active
    variants,  \* ... and with which variants
    hook,      \* the hook or phase that is next
    n,         \* where the loop of a hook is
    result,    \* the variable of _check_require_active_variants
    image,     \* "none", "source" or "archive": what is installed
    warnings,  \* requirements this activation has warned of
    changes,
    steady,    \* history: ports active ever since the hooks of the phase began,
               \* which no query has failed to find since then
    moved      \* history: requirements whose port has changed since they were
               \* last checked

registry == <<active, variants>>
checkVars == <<depends, registry, hook, n, result, image, warnings, changes, steady, moved>>

Required == {Requirements[i].port : i \in 1 .. Len(Requirements)}
Registrable == {v \in [Ports -> SUBSET UNION {VariantsOf[p] : p \in Ports}] :
                   \A p \in Ports : v[p] \subseteq VariantsOf[p]}

DepTypes == {"fetch", "extract", "lib", "build", "run"}
Unset == "unset"

Phases == {"configure", "build", "destroot"}

\* The dependency types a pass considers.
Considered(method) == IF method = "source" THEN DepTypes ELSE {"lib", "run"}

Concerns(r, method) == depends[r.port] \cap Considered(method) # {}

\* active_variants, for a port that is active.
Accepts(r) == r.required \subseteq variants[r.port] /\ r.forbidden \cap variants[r.port] = {}

Holds(r) == r.port \in active /\ Accepts(r)

ChecksInit ==
    /\ depends \in [Required -> SUBSET {"build", "lib"}]
    /\ active \in SUBSET Ports
    /\ variants \in Registrable
    /\ \A p \in Ports \ active : variants[p] = {}
    /\ hook = "start" /\ n = 1 /\ result = Unset
    /\ image = "none" /\ warnings = {} /\ changes = 0
    /\ steady = {} /\ moved = {}

Enter(next) ==
    /\ hook' = next /\ n' = 1 /\ result' = Unset
    /\ steady' = active

\* The port is built, or its archive is fetched, which no hook checks.
Install ==
    /\ hook = "start"
    /\ \/ Enter("preConfigure") /\ UNCHANGED image
       \/ /\ hook' = "installed" /\ image' = "archive"
          /\ UNCHANGED <<n, result, steady>>
    /\ UNCHANGED <<depends, registry, warnings, changes, moved>>

-----------------------------------------------------------------------------
(* active_variants *)

\* Mutant: the pass warns where it has to stop.
CheckSourceWarns ==
    /\ hook = "preConfigure"
    /\ n <= Len(Requirements)
    /\ LET r == Requirements[n]
       IN  warnings' = IF Concerns(r, "source") /\ ~Holds(r) THEN warnings \cup {n} ELSE warnings
    /\ n' = n + 1
    /\ moved' = moved \ {n}
    /\ UNCHANGED <<depends, registry, hook, result, image, changes, steady>>

\* Mutant: of a requirement only the first half is looked at.
CheckSourceHalf ==
    /\ hook = "preConfigure"
    /\ n <= Len(Requirements)
    /\ LET r == Requirements[n]
       IN  IF ~Concerns(r, "source")
             THEN n' = n + 1 /\ UNCHANGED <<hook, result, moved>>
           ELSE IF r.port \in active /\ r.required \subseteq variants[r.port]
             THEN n' = n + 1 /\ result' = "1" /\ moved' = moved \ {n} /\ UNCHANGED hook
           ELSE hook' = "failedConfigure" /\ UNCHANGED <<n, result, moved>>
    /\ UNCHANGED <<depends, registry, image, warnings, changes, steady>>

\* _check_require_active_variants source, for one requirement.
CheckSource ==
    /\ hook = "preConfigure"
    /\ n <= Len(Requirements)
    /\ LET r == Requirements[n]
       IN  IF ~Concerns(r, "source")
             THEN n' = n + 1 /\ UNCHANGED <<hook, result, moved>>
           ELSE IF Holds(r)
             THEN n' = n + 1 /\ result' = "1" /\ moved' = moved \ {n} /\ UNCHANGED hook
           ELSE hook' = "failedConfigure" /\ UNCHANGED <<n, result, moved>>
    /\ UNCHANGED <<depends, registry, image, warnings, changes, steady>>

\* Mutant: a dependency that is not active ends the loop.
CheckActivateBreak ==
    /\ hook = "preActivate"
    /\ n <= Len(Requirements)
    /\ LET r == Requirements[n]
       IN  IF ~Concerns(r, "activate")
             THEN n' = n + 1 /\ UNCHANGED <<hook, result, warnings, moved>>
           ELSE IF r.port \in active
             THEN /\ moved' = moved \ {n}
                  /\ result' = IF Accepts(r) THEN "1" ELSE "0"
                  /\ warnings' = IF Accepts(r) THEN warnings ELSE warnings \cup {n}
                  /\ n' = n + 1 /\ UNCHANGED hook
           ELSE /\ moved' = moved \ {n}
                /\ warnings' = warnings \cup {n}
                /\ n' = Len(Requirements) + 1
                /\ UNCHANGED <<hook, result>>
    /\ UNCHANGED <<depends, registry, image, changes, steady>>

\* ... activate.  After the warning that a dependency is not active the code
\* goes on to result, which is that of the requirement before, if there is one.
CheckActivate ==
    /\ hook = "preActivate"
    /\ n <= Len(Requirements)
    /\ LET r == Requirements[n]
       IN  IF ~Concerns(r, "activate")
             THEN n' = n + 1 /\ UNCHANGED <<hook, result, warnings, moved>>
           ELSE IF r.port \in active
             THEN /\ moved' = moved \ {n}
                  /\ result' = IF Accepts(r) THEN "1" ELSE "0"
                  /\ warnings' = IF Accepts(r) THEN warnings ELSE warnings \cup {n}
                  /\ n' = n + 1 /\ UNCHANGED hook
           ELSE /\ moved' = moved \ {n}
                /\ warnings' = warnings \cup {n}
                /\ IF result = Unset THEN hook' = "refused" /\ UNCHANGED n
                                     ELSE n' = n + 1 /\ UNCHANGED hook
                /\ UNCHANGED result
    /\ UNCHANGED <<depends, registry, image, changes, steady>>

EndChecks ==
    /\ n > Len(Requirements)
    /\ \/ hook = "preConfigure" /\ hook' = "conflictsConfigure"
       \/ hook = "preActivate" /\ hook' = "active"
    /\ n' = 1
    /\ UNCHANGED <<depends, registry, result, image, warnings, changes, steady, moved>>

-----------------------------------------------------------------------------
(* conflicts_build, and the phases of base *)

\* The phase after each pass of conflicts_build, and the state it fails in.
PhaseOf == [conflictsConfigure |-> "configure", conflictsBuild |-> "build",
            conflictsDestroot |-> "destroot"]
FailureOf == [conflictsConfigure |-> "failedConfigure", conflictsBuild |-> "failedBuild",
              conflictsDestroot |-> "failedDestroot"]

\* Mutant: only the first port of the list is looked at.
CheckConflictFirst ==
    /\ hook \in DOMAIN PhaseOf
    /\ hook' = IF Len(ConflictsBuild) > 0 /\ ConflictsBuild[1] \in active THEN FailureOf[hook]
                                                                   ELSE PhaseOf[hook]
    /\ n' = 1
    /\ UNCHANGED <<depends, registry, result, image, warnings, changes, steady, moved>>

\* conflicts_build._check_for_conflicting_ports, for one port.  A query of the
\* registry that fails says to the loop what one for an inactive port does.
CheckConflict ==
    /\ hook \in DOMAIN PhaseOf
    /\ \/ n > Len(ConflictsBuild) /\ hook' = PhaseOf[hook] /\ n' = 1 /\ UNCHANGED steady
       \/ /\ n <= Len(ConflictsBuild) /\ ConflictsBuild[n] \in active
          /\ hook' = FailureOf[hook]
          /\ UNCHANGED <<n, steady>>
       \/ /\ n <= Len(ConflictsBuild)
          /\ steady' = steady \ {ConflictsBuild[n]}
          /\ n' = n + 1 /\ UNCHANGED hook
    /\ UNCHANGED <<depends, registry, result, image, warnings, changes, moved>>

\* A phase is worked through, with the ports that are active.
Work ==
    /\ hook \in Phases
    /\ CASE hook = "configure" -> Enter("conflictsBuild") /\ UNCHANGED image
         [] hook = "build" -> Enter("conflictsDestroot") /\ UNCHANGED image
         [] hook = "destroot" -> /\ hook' = "installed" /\ image' = "source"
                               /\ UNCHANGED <<n, result, steady>>
    /\ UNCHANGED <<depends, registry, warnings, changes, moved>>

\* port install again: base goes on at the phase that failed.
Resume ==
    /\ \/ hook = "failedConfigure" /\ Enter("preConfigure")
       \/ hook = "failedBuild" /\ Enter("conflictsBuild")
       \/ hook = "failedDestroot" /\ Enter("conflictsDestroot")
    /\ UNCHANGED <<depends, registry, image, warnings, changes, moved>>

Activate ==
    /\ hook \in {"installed", "refused"}
    /\ Enter("preActivate")
    /\ warnings' = {}
    /\ UNCHANGED <<depends, registry, image, changes, moved>>

Deactivate ==
    /\ hook = "active"
    /\ hook' = "installed"
    /\ UNCHANGED <<depends, registry, n, result, image, warnings, changes, steady, moved>>

\* Another process, or the user, activates, exchanges or deactivates a port.
ChangeRegistry(p) ==
    /\ changes < MaxChanges /\ changes' = changes + 1
    /\ \/ /\ p \in active
          /\ active' = active \ {p}
          /\ variants' = [variants EXCEPT ![p] = {}]
       \/ /\ active' = active \cup {p}
          /\ \E v \in SUBSET VariantsOf[p] : variants' = [variants EXCEPT ![p] = v]
    /\ steady' = steady \cap active'
    /\ moved' = moved \cup {i \in 1 .. Len(Requirements) : Requirements[i].port = p}
    /\ UNCHANGED <<depends, hook, n, result, image, warnings>>

ChecksNext ==
    \/ Install \/ CheckSource \/ CheckActivate \/ EndChecks \/ CheckConflict
    \/ Work \/ Resume \/ Activate \/ Deactivate
    \/ \E p \in Ports : ChangeRegistry(p)

ChecksSpec == ChecksInit /\ [][ChecksNext]_checkVars

-----------------------------------------------------------------------------
(* Properties. *)

\* Every variable keeps its type; only an activation warns.
ChecksTypeOK ==
    /\ depends \in [Required -> SUBSET DepTypes]
    /\ active \subseteq Ports /\ variants \in Registrable
    /\ hook \in {"start", "preConfigure", "conflictsConfigure", "configure",
               "conflictsBuild", "build", "conflictsDestroot", "destroot",
               "failedConfigure", "failedBuild", "failedDestroot",
               "installed", "preActivate", "refused", "active"}
    /\ n \in 1 .. Len(Requirements) + Len(ConflictsBuild) + 1
    /\ result \in {Unset, "0", "1"}
    /\ image \in {"none", "source", "archive"}
    /\ warnings \subseteq {i \in 1 .. Len(Requirements) : Concerns(Requirements[i], "activate")}
    /\ changes \in Nat
    /\ steady \subseteq Ports /\ moved \subseteq 1 .. Len(Requirements)
    /\ image = "none" => warnings = {}

\* What a phase of the build finds active is what was required, for every
\* dependency and through every retry, unless the dependency was exchanged
\* after it had been checked.
BuiltAsRequired ==
    hook \in Phases =>
        \A i \in 1 .. Len(Requirements) :
            Concerns(Requirements[i], "source") => Holds(Requirements[i]) \/ i \in moved

\* "fail to build properly if certain other ports are installed at configure,
\* build and/or destroot time": no phase runs whose hooks such a port was
\* active through; one that comes between hook and phase is not seen, nor one
\* whose query fails.
NoConflict ==
    hook \in Phases => \A k \in 1 .. Len(ConflictsBuild) : ConflictsBuild[k] \notin steady

\* "be sure that a required variant was not changed since this port was built
\* or fetched": an activation warns of every dependency of type lib or run that
\* is not as required and of no other, though it goes on with the result of
\* another requirement after one whose port is not active.
WarnedOf ==
    hook = "active" =>
        \A i \in 1 .. Len(Requirements) :
            Concerns(Requirements[i], "activate") /\ i \notin moved =>
                (i \in warnings <=> ~Holds(Requirements[i]))

\* Activation is to warn and never to fail, with one exception: the first
\* dependency it looks at is not active, and there is no result to go on with.
RefusedOnlyForFirst ==
    hook = "refused" =>
        /\ n \in moved \/ Requirements[n].port \notin active
        /\ \A i \in 1 .. n - 1 : ~Concerns(Requirements[i], "activate")

\* An activation warns of what it should warn of, and goes on.
ActivationWarns == WarnedOf /\ RefusedOnlyForFirst
=============================================================================
