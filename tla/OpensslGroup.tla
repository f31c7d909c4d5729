----------------------------- MODULE OpensslGroup -----------------------------
(***************************************************************************)
(* The PortGroup openssl 1.0 while one Portfile is evaluated.  It sets a   *)
(* port up to build against one of several versions of OpenSSL, again at   *)
(* each assignment to its options and once more when the Portfile ends,    *)
(* and takes back what it has set before with the help of a cache.         *)
(*                                                                         *)
(* In the options it changes a version stands for the flag, directory or   *)
(* variable that names it, and "own" for what the Portfile puts there.     *)
(* Of a list of flags or directories the model keeps what is in it and     *)
(* what comes first, for the first is where a version is found.  Options   *)
(* that are always changed together are one: the flags for C, C++ and the  *)
(* preprocessor with compiler.cpath, and the environments of the phases.   *)
(***************************************************************************)
EXTENDS Naturals, Sequences

CONSTANTS
    Versions,       \* branches of OpenSSL
    DefaultBranch,
    DependsTypes,   \* "lib", "build" and so on
    Settings,       \* what Portfiles set openssl.configure to
    MaxStatements   \* bound: statements of the Portfile that matter here

Branches == Versions \cup {"no_version"}
Methods == {"env_vars", "pkgconfig", "build_flags", "cmake", "compiler_wrap"}
Unknown == "unknown"   \* a branch or a method that does not exist
None == "none"         \* an empty cache variable

ASSUME OpensslAssumption ==
    /\ DefaultBranch \in Versions
    /\ Versions \cap {"no_version", "own", "shim", Unknown, None} = {}
    /\ "lib" \in DependsTypes /\ None \notin DependsTypes
    /\ Settings \subseteq Seq(Methods \cup {Unknown})
    /\ MaxStatements \in Nat

VARIABLES
    port,   \* the options of the port and the cache variables
    pc,     \* "portfile", the callback that is next, "done" or "failed"
    statements

vars == <<port, pc, statements>>

List == [first : Versions \cup {"own", None}, all : SUBSET (Versions \cup {"own"})]
Empty == [first |-> None, all |-> {}]
Only(x) == [first |-> x, all |-> {x}]
Prepend(list, x) == [first |-> x, all |-> list.all \cup {x}]
Replace(list, old, new) == [first |-> new, all |-> (list.all \ {old}) \cup {new}]

Port == [
    branch : Branches \cup {Unknown}, dependsType : DependsTypes,
    configure : Seq(Methods \cup {Unknown}), usesCmake : BOOLEAN,
    depends : SUBSET (DependsTypes \X (Versions \cup {"shim"})),
    env : SUBSET Versions, args : SUBSET Versions,
    pkg : List, includes : List, libs : List, wrapped : BOOLEAN,
    cachedBranch : Versions \cup {None}, cachedDepends : DependsTypes \cup {None},
    cachedConfigure : Seq(Methods \cup {Unknown}),
    cachedEnv : Versions \cup {None}, cachedDirs : Versions \cup {None},
    cachedCmake : Versions \cup {None}]

Init ==
    /\ \E cmake \in BOOLEAN :
          port = [branch |-> DefaultBranch, dependsType |-> "lib",
                  configure |-> <<"env_vars", "pkgconfig", "build_flags">>,
                  usesCmake |-> cmake, depends |-> {}, env |-> {}, args |-> {},
                  pkg |-> Empty, includes |-> Empty, libs |-> Empty, wrapped |-> FALSE,
                  cachedBranch |-> None, cachedDepends |-> None, cachedConfigure |-> <<>>,
                  cachedEnv |-> None, cachedDirs |-> None, cachedCmake |-> None]
    /\ pc = "portfile"
    /\ statements = 0

-----------------------------------------------------------------------------
(* The procs, as functions of the options. *)

Enabled(p) == p.branch \in Versions

\* Mutant: the cache of the configuration is not cleared.
SetDependencyKeep(p) ==
    IF ~Enabled(p) THEN p ELSE
    [p EXCEPT !.depends = (@ \ {<<"lib", "shim">>, <<p.cachedDepends, p.cachedBranch>>})
                          \cup {<<p.dependsType, p.branch>>},
              !.cachedBranch = p.branch, !.cachedDepends = p.dependsType]

\* Mutant: the dependency is deleted from the list of the present type.
SetDependencySwapped(p) ==
    IF ~Enabled(p) THEN p ELSE
    [p EXCEPT !.depends = (@ \ {<<"lib", "shim">>, <<p.dependsType, p.cachedBranch>>})
                          \cup {<<p.dependsType, p.branch>>},
              !.cachedBranch = p.branch, !.cachedDepends = p.dependsType,
              !.cachedConfigure = <<>>]

\* openssl::set_openssl_dependency
SetDependency(p) ==
    IF ~Enabled(p) THEN p ELSE
    [p EXCEPT !.depends = (@ \ {<<"lib", "shim">>, <<p.cachedDepends, p.cachedBranch>>})
                          \cup {<<p.dependsType, p.branch>>},
              !.cachedBranch = p.branch, !.cachedDepends = p.dependsType,
              !.cachedConfigure = <<>>]

\* "Has configuration changed in any way ?"
Changed(p) ==
    \/ p.cachedBranch # p.branch
    \/ p.cachedDepends # p.dependsType
    \/ p.cachedConfigure # p.configure

Does(p, method) == \E n \in 1 .. Len(p.configure) : p.configure[n] = method

Reprepend(list, old, new) == Prepend(IF old = None THEN list ELSE Prepend(list, old), new)

\* Mutant: the flags that are in place are not taken back.
FlagsKept(p) ==
    IF ~Does(p, "build_flags") THEN p ELSE
    [p EXCEPT !.includes = Prepend(@, p.branch),
              !.libs = Reprepend(@, p.cachedDirs, p.branch),
              !.cachedDirs = p.branch]

\* Method build_flags.  The flags for the compilers that are in place are
\* deleted, the ones for the linker are prepended once more.
Flags(p) ==
    IF ~Does(p, "build_flags") THEN p ELSE
    [p EXCEPT !.includes = Replace(@, p.cachedDirs, p.branch),
              !.libs = Reprepend(@, p.cachedDirs, p.branch),
              !.cachedDirs = p.branch]

Environment(p) ==
    IF ~Does(p, "env_vars") THEN p ELSE
    [p EXCEPT !.env = (@ \ {p.cachedEnv}) \cup {p.branch}, !.cachedEnv = p.branch]

Cmake(p) ==
    IF ~Does(p, "cmake") THEN p ELSE
    [p EXCEPT !.args = (@ \ {p.cachedCmake}) \cup {p.branch}, !.cachedCmake = p.branch]

PkgConfig(p) ==
    IF ~Does(p, "pkgconfig") THEN p ELSE [p EXCEPT !.pkg = Prepend(@, p.branch)]

\* The compilers are wrapped before the phase configure, for the branch that
\* is set then.
Wrap(p) == IF ~Does(p, "compiler_wrap") THEN p ELSE [p EXCEPT !.wrapped = TRUE]

\* openssl::configure_build; the methods do not touch each other's options.
ConfigureBuild(p) ==
    IF ~Enabled(p) \/ ~Changed(p) THEN p
    ELSE [Wrap(PkgConfig(Cmake(Environment(Flags(p))))) EXCEPT !.cachedConfigure = p.configure]

\* An unknown method is an error.
Invalid(p) == Enabled(p) /\ Changed(p) /\ Does(p, Unknown)

Evaluate(p, next) ==
    /\ port' = ConfigureBuild(p)
    /\ pc' = IF Invalid(p) THEN "failed" ELSE next

-----------------------------------------------------------------------------
(* The Portfile. *)

Statement ==
    /\ pc = "portfile"
    /\ statements < MaxStatements
    /\ statements' = statements + 1

\* openssl::branch_proc
SetBranch(b) ==
    /\ Statement
    /\ IF b \in Branches
         THEN Evaluate(SetDependency([port EXCEPT !.branch = b]), "portfile")
         ELSE port' = [port EXCEPT !.branch = b] /\ pc' = "failed"

\* openssl::configure_proc
SetConfigure(methods) ==
    /\ Statement
    /\ Evaluate([port EXCEPT !.configure = methods], "portfile")

\* Nothing watches openssl.depends_type.
SetDependsType(type) ==
    /\ Statement
    /\ port' = [port EXCEPT !.dependsType = type]
    /\ UNCHANGED pc

\* The Portfile, or a PortGroup, assigns the options the group changes.
AssignDepends(type) ==
    /\ Statement
    /\ \E own \in SUBSET {<<type, "shim">>} :
          port' = [port EXCEPT !.depends = {d \in @ : d[1] # type} \cup own]
    /\ UNCHANGED pc

AssignFlags ==
    /\ Statement
    /\ \/ port' = [port EXCEPT !.env = {}]
       \/ port' = [port EXCEPT !.args = {}]
       \/ port' = [port EXCEPT !.pkg = Only("own")]
       \/ port' = [port EXCEPT !.includes = Only("own")]
       \/ port' = [port EXCEPT !.libs = Only("own")]
    /\ UNCHANGED pc

PrependFlags ==
    /\ Statement
    /\ \/ port' = [port EXCEPT !.pkg = Prepend(@, "own")]
       \/ port' = [port EXCEPT !.includes = Prepend(@, "own")]
       \/ port' = [port EXCEPT !.libs = Prepend(@, "own")]
    /\ UNCHANGED pc

-----------------------------------------------------------------------------
(* The callbacks at its end, in the order they are registered in. *)

CallDependency ==
    /\ pc = "portfile"
    /\ port' = SetDependency(port)
    /\ pc' = "cmake"
    /\ UNCHANGED statements

\* openssl::check_for_cmake, whose append runs configure_proc
CallCmake ==
    /\ pc = "cmake"
    /\ IF Enabled(port) /\ port.usesCmake /\ ~Does(port, "cmake")
         THEN Evaluate([port EXCEPT !.configure = Append(@, "cmake")], "configure")
         ELSE pc' = "configure" /\ UNCHANGED port
    /\ UNCHANGED statements

CallConfigure ==
    /\ pc = "configure"
    /\ Evaluate(port, "done")
    /\ UNCHANGED statements

Next ==
    \/ \E b \in Branches \cup {Unknown} : SetBranch(b)
    \/ \E s \in Settings : SetConfigure(s)
    \/ \E t \in DependsTypes : SetDependsType(t) \/ AssignDepends(t)
    \/ AssignFlags \/ PrependFlags
    \/ CallDependency \/ CallCmake \/ CallConfigure

Spec == Init /\ [][Next]_vars

-----------------------------------------------------------------------------
(* Properties. *)

\* The options keep their types, and a Portfile that goes on has a branch that
\* exists.
TypeOK ==
    /\ port \in Port
    /\ pc \in {"portfile", "cmake", "configure", "done", "failed"}
    /\ statements \in Nat
    /\ pc # "failed" => port.branch \in Branches

Ready == pc = "done" /\ Enabled(port)

\* The port depends on the version it asks for, in the way it asks for, and
\* on no other, whatever it asked for before and did with the lists.
DependsOnBranch ==
    Ready => {d \in port.depends : d[2] \in Versions \/ d = <<"lib", "shim">>} =
                 {<<port.dependsType, port.branch>>}

\* Every method finds that version, and before anything else that is in its
\* list, though the Portfile has assigned the list after the group did.
FoundFirst ==
    Ready =>
        /\ Does(port, "env_vars") => port.branch \in port.env
        /\ Does(port, "cmake") => port.branch \in port.args
        /\ Does(port, "pkgconfig") => port.pkg.first = port.branch
        /\ Does(port, "build_flags") =>
              port.includes.first = port.branch /\ port.libs.first = port.branch
        /\ Does(port, "compiler_wrap") => port.wrapped
        /\ port.usesCmake => Does(port, "cmake")

\* What the cache takes back never names two versions at once, not even
\* between two statements: the environment, the arguments of cmake and the
\* flags of the compilers.
OneVersion ==
    \A named \in {port.env, port.args, port.includes.all \cap Versions} :
        \A v, w \in named : v = w
=============================================================================
