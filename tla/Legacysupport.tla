---------------------------- MODULE Legacysupport ----------------------------
(***************************************************************************)
(* The PortGroup legacysupport 1.1 while one Portfile is evaluated.  On a   *)
(* system older than an option says it makes the port use a library of     *)
(* what that system lacks: when the option is set, and once more when the  *)
(* Portfile ends.  A cache names the flags to take back before new ones    *)
(* are added.                                                              *)
(*                                                                         *)
(* A list of flags is the set of them, and a list of dependencies the set  *)
(* of those the group adds.  Of the environments of the phases, which do   *)
(* not touch each other, the model has one, any.  Of a variable that is    *)
(* appended to the environment each time, it keeps the value that counts,  *)
(* the last; of *_INCLUDE_PATH, from which values are taken back, all; of  *)
(* the labels both.                                                        *)
(***************************************************************************)
EXTENDS Naturals

CONSTANTS
    OsMajor,        \* version of the system's kernel
    Newest,         \* what Portfiles set newest_darwin_requires_legacy to
    DefaultNewest,
    MaxStatements   \* bound: statements of the Portfile that matter here

ASSUME LegacyAssumption ==
    /\ OsMajor \in Nat /\ MaxStatements \in Nat
    /\ Newest \subseteq Nat /\ DefaultNewest \in Newest

LinkFlags == {"search", "dynamic", "archive", "search libcxx"}
CppFlags == {"isystem", "nostdinc++", "isystem libcxx"}
Dirs == {"legacy", "libcxx"}
Labels == {"ENABLED", "DISABLED"}
Stdlibs == {"libc++", "macports-libstdc++"}

Options == [
    newest : Newest, static : BOOLEAN, libcxx : BOOLEAN,   \* legacysupport.*
    limit : BOOLEAN, stdlib : Stdlibs,   \* compiler.limit_flags, cxx_stdlib
    darwin : BOOLEAN]                    \* os.platform

Port == [
    dependsLib : SUBSET {"legacy-support", "macports-libcxx"},
    dependsBuild : SUBSET {"legacy-support"},
    ldflags : SUBSET LinkFlags, cppflags : SUBSET CppFlags,
    envLdflags : SUBSET LinkFlags, envCppflags : SUBSET CppFlags,
    includePaths : SUBSET SUBSET Dirs,
    labels : SUBSET Labels, dyldPath : BOOLEAN]

Cache == [incpath : SUBSET Dirs, ldflags : SUBSET LinkFlags, cppflags : SUBSET CppFlags]

VARIABLES
    options,
    port,      \* the options of the port the group changes
    cache,     \* ls_cache_incpath, ls_cache_ldflags, ls_cache_cppflags
    pc,        \* "portfile", "callbacks" or "done"
    statements,
    last,      \* history: the options at the last evaluation, at first none
    evals,     \* history: the options at every evaluation
    envEvals,  \* history: at every one since the Portfile assigned the environment
    ownLink,   \* history: the Portfile has changed configure.ldflags
    ownDepends \* history: the Portfile has assigned a list of dependencies

vars == <<options, port, cache, pc, statements, last, evals, envEvals, ownLink, ownDepends>>

Init ==
    /\ \E stdlib \in Stdlibs, darwin \in BOOLEAN :
          options = [newest |-> DefaultNewest, static |-> FALSE, libcxx |-> FALSE,
                     limit |-> FALSE, stdlib |-> stdlib, darwin |-> darwin]
    /\ port = [dependsLib |-> {}, dependsBuild |-> {}, ldflags |-> {"search"},
               cppflags |-> {}, envLdflags |-> {}, envCppflags |-> {},
               includePaths |-> {}, labels |-> {}, dyldPath |-> FALSE]
    /\ cache = [incpath |-> {}, ldflags |-> {}, cppflags |-> {}]
    /\ pc = "portfile"
    /\ statements = 0
    /\ last = {} /\ evals = {} /\ envEvals = {}
    /\ ownLink = FALSE /\ ownDepends = FALSE

-----------------------------------------------------------------------------
(* The procs. *)

Enabled(o) == o.darwin /\ OsMajor <= o.newest

UsesLibcxx(o) == o.libcxx /\ o.stdlib = "libc++"

\* legacysupport::get_library_link_flags, with the directory of libcxx
Link(o) ==
    (IF o.static THEN {"archive"} ELSE {"search", "dynamic"})
        \cup (IF UsesLibcxx(o) THEN {"search libcxx"} ELSE {})

\* legacysupport::get_cpp_flags, with those for libcxx
Cpp(o) == {"isystem"} \cup (IF UsesLibcxx(o) THEN {"nostdinc++", "isystem libcxx"} ELSE {})

Include(o) == {"legacy"} \cup (IF UsesLibcxx(o) THEN {"libcxx"} ELSE {})

\* Mutant: what the present options name is taken back, not what the cache does.
CleanAsNow(p, o) ==
    IF cache.incpath = {} THEN p
    ELSE [p EXCEPT !.ldflags = @ \ Link(o), !.cppflags = @ \ Cpp(o),
                   !.includePaths = @ \ {Include(o)}]

\* "First clean out any old settings", whoever else wanted them
Clean(p, o) ==
    IF cache.incpath = {} THEN p
    ELSE [p EXCEPT !.ldflags = @ \ cache.ldflags, !.cppflags = @ \ cache.cppflags,
                   !.includePaths = @ \ {cache.incpath}]

\* legacysupport::get_depends_type and the dependencies
Depend(p, o) ==
    [p EXCEPT !.dependsBuild = IF o.static THEN @ \cup {"legacy-support"} ELSE @,
              !.dependsLib =
                  @ \cup (IF o.static THEN {} ELSE {"legacy-support"})
                    \cup (IF UsesLibcxx(o) THEN {"macports-libcxx"} ELSE {})]

AddFlags(p, o) ==
    [p EXCEPT !.ldflags = @ \cup Link(o), !.envLdflags = Link(o),
              !.cppflags = IF o.limit THEN @ ELSE @ \cup Cpp(o),
              !.envCppflags = IF o.limit THEN @ ELSE Cpp(o),
              !.includePaths = @ \cup {Include(o)}]

\* legacysupport::set_label_environment_vars, and the path for libstdc++
Label(p, o) ==
    [p EXCEPT !.labels = @ \cup {IF Enabled(o) THEN "ENABLED" ELSE "DISABLED"},
              !.dyldPath = @ \/ (o.darwin /\ o.stdlib = "macports-libstdc++")]

\* Mutant: the platform is not asked for.
EvaluateAnywhere(o) ==
    /\ last' = {o} /\ evals' = evals \cup {o} /\ envEvals' = envEvals \cup {o}
    /\ IF OsMajor <= o.newest
         THEN /\ port' = Label(AddFlags(Clean(Depend(port, o), o), o), o)
              /\ cache' = [incpath |-> Include(o), ldflags |-> Link(o), cppflags |-> Cpp(o)]
         ELSE /\ port' = Label(port, o)
              /\ UNCHANGED cache

\* legacysupport::add_legacysupport
Evaluate(o) ==
    /\ last' = {o} /\ evals' = evals \cup {o} /\ envEvals' = envEvals \cup {o}
    /\ IF Enabled(o)
         THEN /\ port' = Label(AddFlags(Clean(Depend(port, o), o), o), o)
              /\ cache' = [incpath |-> Include(o), ldflags |-> Link(o), cppflags |-> Cpp(o)]
         ELSE /\ port' = Label(port, o)
              /\ UNCHANGED cache

-----------------------------------------------------------------------------
(* The Portfile, and the callbacks of other PortGroups after this one's.    *)

Statement ==
    /\ pc \in {"portfile", "callbacks"}
    /\ statements < MaxStatements
    /\ statements' = statements + 1
    /\ UNCHANGED pc

\* legacysupport_proc runs
SetNewest(n) ==
    /\ Statement
    /\ options' = [options EXCEPT !.newest = n]
    /\ Evaluate(options')
    /\ UNCHANGED <<ownLink, ownDepends>>

\* The option procs of the first two watch options of other names, and nothing
\* watches the others: no proc runs.
SetOther ==
    /\ Statement
    /\ \E b \in BOOLEAN, s \in Stdlibs :
          options' \in {[options EXCEPT !.static = b], [options EXCEPT !.libcxx = b],
                        [options EXCEPT !.limit = b], [options EXCEPT !.stdlib = s]}
    /\ UNCHANGED <<port, cache, last, evals, envEvals, ownLink, ownDepends>>

\* The Portfile deletes the directory of libraries, or assigns the flags.
ChangeLink ==
    /\ pc = "portfile"
    /\ Statement
    /\ \E kept \in {{}, port.ldflags \ {"search"}} : port' = [port EXCEPT !.ldflags = kept]
    /\ ownLink' = TRUE
    /\ UNCHANGED <<options, cache, last, evals, envEvals, ownDepends>>

\* It assigns depends_lib or depends_build, without the libraries.
AssignDepends ==
    /\ pc = "portfile"
    /\ Statement
    /\ port' \in {[port EXCEPT !.dependsLib = {}], [port EXCEPT !.dependsBuild = {}]}
    /\ ownDepends' = TRUE
    /\ UNCHANGED <<options, cache, last, evals, envEvals, ownLink>>

\* It assigns the environment of the phase.
AssignEnv ==
    /\ pc = "portfile"
    /\ Statement
    /\ port' = [port EXCEPT !.envLdflags = {}, !.envCppflags = {}, !.includePaths = {},
                            !.labels = {}, !.dyldPath = FALSE]
    /\ envEvals' = {}
    /\ UNCHANGED <<options, cache, last, evals, ownLink, ownDepends>>

\* Mutant: the callback is not registered.
CallbackUnregistered ==
    /\ pc = "portfile"
    /\ pc' = "callbacks"
    /\ UNCHANGED <<options, port, cache, statements, last, evals, envEvals, ownLink, ownDepends>>

\* callback after port is parsed
Callback ==
    /\ pc = "portfile"
    /\ Evaluate(options)
    /\ pc' = "callbacks"
    /\ UNCHANGED <<options, statements, ownLink, ownDepends>>

End ==
    /\ pc = "callbacks"
    /\ pc' = "done"
    /\ UNCHANGED <<options, port, cache, statements, last, evals, envEvals, ownLink, ownDepends>>

Next ==
    \/ \E n \in Newest : SetNewest(n)
    \/ SetOther \/ ChangeLink \/ AssignDepends \/ AssignEnv \/ Callback \/ End

Spec == Init /\ [][Next]_vars

-----------------------------------------------------------------------------
(* Properties. *)

\* Options, flags and cache keep their types, and the last evaluation is one
\* of the evaluations.
TypeOK ==
    /\ options \in Options /\ port \in Port /\ cache \in Cache
    /\ pc \in {"portfile", "callbacks", "done"}
    /\ statements \in 0 .. MaxStatements
    /\ last \subseteq evals /\ envEvals \subseteq evals /\ evals \subseteq Options
    /\ ownLink \in BOOLEAN /\ ownDepends \in BOOLEAN

Added == {o \in evals : Enabled(o)}

Parsed == pc # "portfile"

\* When the Portfile has ended with support enabled, the port is linked and
\* compiled as the options were at the last evaluation, in the flags and in
\* the environment alike: nothing of an earlier evaluation is left beside it,
\* however the options changed and whatever the Portfile did with the flags.
\* The directory of libraries may be the port's own.
LinkedAsLast ==
    \A o \in last : Parsed /\ Enabled(o) =>
        /\ Link(o) \subseteq port.ldflags
        /\ port.ldflags \subseteq Link(o) \cup {"search"}
        /\ port.cppflags = (IF o.limit THEN {} ELSE Cpp(o))
        /\ port.envLdflags = Link(o)
        /\ o.limit \/ port.envCppflags = Cpp(o)
        /\ port.includePaths = {Include(o)}

\* The directory of libraries, which every port is linked with, is lost just
\* when the Portfile drops it, or when an evaluation that links statically
\* follows one that did not and takes its flags back.
SearchPathKept ==
    ~ownLink =>
        ("search" \notin port.ldflags <=>
            "archive" \in port.ldflags /\ \E o \in Added : ~o.static)

\* A finished port has the flags of its last evaluation and those it had itself.
FlagsRight == LinkedAsLast /\ SearchPathKept

\* A port that no evaluation found in need of the library has none of its
\* flags, depends on nothing of it and is not labelled as supported.
NothingWhereUnneeded ==
    Added = {} =>
        /\ port.ldflags \subseteq {"search"} /\ port.cppflags = {}
        /\ port.envLdflags = {} /\ port.envCppflags = {} /\ port.includePaths = {}
        /\ port.dependsLib = {} /\ port.dependsBuild = {}
        /\ "ENABLED" \notin port.labels

\* The environment says what the evaluations found since the Portfile assigned
\* it; it says both just when they did not find the same.
Labelled ==
    /\ "ENABLED" \in port.labels <=> \E o \in envEvals : Enabled(o)
    /\ "DISABLED" \in port.labels <=> \E o \in envEvals : ~Enabled(o)

\* A port has flags, dependencies and labels of the library where an evaluation
\* found it in need, and nowhere else.
OnlyWhereNeeded == NothingWhereUnneeded /\ Labelled

\* A port that has flags for a library, in its options, its environment or
\* the cache, depends on that library in the way the flags need: at run time
\* for a dynamic one, when it is built for the archive.  A Portfile that assigns
\* its dependencies after an evaluation drops the library's; when it ends they
\* are there again, but for the flags of an evaluation that a later one, which
\* found the port in no need, did not take back.
DependsOnIt ==
    LET flags == port.ldflags \cup port.envLdflags \cup cache.ldflags
        restored == Parsed /\ \E o \in last : Enabled(o)
    IN  restored \/ ~ownDepends =>
            /\ "archive" \in flags => "legacy-support" \in port.dependsBuild
            /\ "dynamic" \in flags => "legacy-support" \in port.dependsLib
            /\ "search libcxx" \in flags \/ "isystem libcxx" \in port.cppflags
                  => "macports-libcxx" \in port.dependsLib
=============================================================================
