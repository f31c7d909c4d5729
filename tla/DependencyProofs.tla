-------------------------- MODULE DependencyProofs --------------------------
(* Why a port finds its dependencies as it asks for them.  With PortGroup    *)
(* openssl it depends on the version of OpenSSL it asks for and finds that   *)
(* first, for every set of versions and every Portfile of any length.  With  *)
(* active_variants and conflicts_build its phases find the ports that were   *)
(* required and none that was excluded, for every list of either.            *)
EXTENDS OpensslGroup, VariantChecks, TLAPS

-----------------------------------------------------------------------------
(* PortGroup openssl: what a Portfile that has not failed keeps. *)

\* The cache knows every version that the options it guards name.
Cached(p) ==
    /\ p.env \subseteq {p.cachedEnv}
    /\ p.args \subseteq {p.cachedCmake}
    /\ p.includes.all \cap Versions \subseteq {p.cachedDirs}
    /\ \A d \in p.depends : d[2] \in Versions => d = <<p.cachedDepends, p.cachedBranch>>

Consistent(p) == p \in Port /\ p.branch \in Branches /\ Cached(p)

\* Every method finds the version of p first.
Found(p) ==
    /\ Does(p, "env_vars") => p.branch \in p.env
    /\ Does(p, "cmake") => p.branch \in p.args
    /\ Does(p, "pkgconfig") => p.pkg.first = p.branch
    /\ Does(p, "build_flags") => p.includes.first = p.branch /\ p.libs.first = p.branch
    /\ Does(p, "compiler_wrap") => p.wrapped

\* A method changes its own options only.
Settings4(p) == <<p.branch, p.dependsType, p.configure, p.usesCmake>>
Dependency(p) == <<p.depends, p.cachedBranch, p.cachedDepends, p.cachedConfigure>>

\* Lists name what they named before and what is prepended.
LEMMA Lists ==
    /\ \A l \in List : \A v \in Versions \cup {"own"} :
          /\ Prepend(l, v) \in List /\ Prepend(l, v).first = v
          /\ Prepend(l, v).all = l.all \cup {v}
    /\ \A l \in List : \A v \in Versions : \A c \in Versions \cup {None} :
          /\ Replace(l, c, v) \in List /\ Replace(l, c, v).first = v
          /\ Replace(l, c, v).all = (l.all \ {c}) \cup {v}
    /\ \A l \in List : \A v \in Versions : \A c \in Versions \cup {None} :
          Reprepend(l, c, v) \in List /\ Reprepend(l, c, v).first = v
  <1>1. \A l \in List : \A v \in Versions \cup {"own"} :
            Prepend(l, v) \in List /\ Prepend(l, v).first = v /\ Prepend(l, v).all = l.all \cup {v}
    BY DEF Prepend, List
  <1>2. \A l \in List : \A v \in Versions : \A c \in Versions \cup {None} :
            /\ Replace(l, c, v) \in List /\ Replace(l, c, v).first = v
            /\ Replace(l, c, v).all = (l.all \ {c}) \cup {v}
    BY DEF Replace, List
  <1>3. \A l \in List : \A v \in Versions : \A c \in Versions \cup {None} :
            Reprepend(l, c, v) \in List /\ Reprepend(l, c, v).first = v
    BY <1>1 DEF Reprepend
  <1> QED
    BY <1>1, <1>2, <1>3

LEMMA FlagsDo ==
    ASSUME NEW p, Consistent(p), Enabled(p)
    PROVE  /\ Consistent(Flags(p))
           /\ Settings4(Flags(p)) = Settings4(p) /\ Dependency(Flags(p)) = Dependency(p)
           /\ Does(p, "build_flags") => Flags(p).includes.first = p.branch /\ Flags(p).libs.first = p.branch
  <1>1. CASE ~Does(p, "build_flags")
    BY <1>1 DEF Flags
  <1>2. CASE Does(p, "build_flags")
    <2> DEFINE q == Flags(p)
    <2>1. p \in Port /\ p.branch \in Versions /\ Cached(p)
      BY DEF Consistent, Enabled
    <2>2. p.includes \in List /\ p.libs \in List /\ p.cachedDirs \in Versions \cup {None}
      BY <2>1 DEF Port
    <2>3. q = [p EXCEPT !.includes = Replace(p.includes, p.cachedDirs, p.branch),
                        !.libs = Reprepend(p.libs, p.cachedDirs, p.branch),
                        !.cachedDirs = p.branch]
      BY <1>2 DEF Flags
    <2>4. /\ Replace(p.includes, p.cachedDirs, p.branch) \in List
          /\ Replace(p.includes, p.cachedDirs, p.branch).first = p.branch
          /\ Replace(p.includes, p.cachedDirs, p.branch).all = (p.includes.all \ {p.cachedDirs}) \cup {p.branch}
          /\ Reprepend(p.libs, p.cachedDirs, p.branch) \in List
          /\ Reprepend(p.libs, p.cachedDirs, p.branch).first = p.branch
      <3>1. \A v \in Versions : \A c \in Versions \cup {None} :
               /\ Replace(p.includes, c, v) \in List /\ Replace(p.includes, c, v).first = v
               /\ Replace(p.includes, c, v).all = (p.includes.all \ {c}) \cup {v}
        BY <2>2, Lists
      <3>2. \A v \in Versions : \A c \in Versions \cup {None} :
               Reprepend(p.libs, c, v) \in List /\ Reprepend(p.libs, c, v).first = v
        BY <2>2, Lists
      <3> QED
        BY <2>1, <2>2, <3>1, <3>2
    <2>5. q \in Port
      BY <2>1, <2>3, <2>4 DEF Port
    <2>6. /\ q.includes = Replace(p.includes, p.cachedDirs, p.branch)
          /\ q.libs = Reprepend(p.libs, p.cachedDirs, p.branch)
          /\ q.cachedDirs = p.branch
          /\ q.env = p.env /\ q.args = p.args /\ q.cachedEnv = p.cachedEnv /\ q.cachedCmake = p.cachedCmake
          /\ Settings4(q) = Settings4(p) /\ Dependency(q) = Dependency(p)
      BY <2>1, <2>3 DEF Port, Settings4, Dependency
    <2> HIDE DEF q
    <2>7. Cached(q) /\ q.branch = p.branch
      BY <2>1, <2>4, <2>6 DEF Cached, Settings4, Dependency
    <2> QED
      BY <2>1, <2>4, <2>5, <2>6, <2>7 DEF Consistent, q
  <1> QED
    BY <1>1, <1>2

LEMMA EnvironmentDoes ==
    ASSUME NEW p, Consistent(p), Enabled(p)
    PROVE  /\ Consistent(Environment(p))
           /\ Settings4(Environment(p)) = Settings4(p)
           /\ Dependency(Environment(p)) = Dependency(p)
           /\ Environment(p).includes = p.includes /\ Environment(p).libs = p.libs
           /\ Does(p, "env_vars") => p.branch \in Environment(p).env
  <1>1. CASE ~Does(p, "env_vars")
    BY <1>1 DEF Environment
  <1>2. CASE Does(p, "env_vars")
    <2> DEFINE q == Environment(p)
    <2>1. p \in Port /\ p.branch \in Versions /\ Cached(p)
      BY DEF Consistent, Enabled
    <2>2. q = [p EXCEPT !.env = (p.env \ {p.cachedEnv}) \cup {p.branch}, !.cachedEnv = p.branch]
      BY <1>2 DEF Environment
    <2>3. q \in Port
      <3>1. p.env \subseteq Versions
        BY <2>1 DEF Port
      <3>2. (p.env \ {p.cachedEnv}) \cup {p.branch} \in SUBSET Versions
        BY <2>1, <3>1
      <3> QED
        BY <2>1, <2>2, <3>2 DEF Port
    <2>4. /\ q.env = (p.env \ {p.cachedEnv}) \cup {p.branch} /\ q.cachedEnv = p.branch
          /\ q.includes = p.includes /\ q.libs = p.libs /\ q.cachedDirs = p.cachedDirs
          /\ q.args = p.args /\ q.cachedCmake = p.cachedCmake
          /\ Settings4(q) = Settings4(p) /\ Dependency(q) = Dependency(p)
      BY <2>1, <2>2 DEF Port, Settings4, Dependency
    <2> HIDE DEF q
    <2>5. Cached(q) /\ q.branch = p.branch
      BY <2>1, <2>4 DEF Cached, Settings4, Dependency
    <2> QED
      BY <2>1, <2>3, <2>4, <2>5 DEF Consistent, q
  <1> QED
    BY <1>1, <1>2

LEMMA CmakeDoes ==
    ASSUME NEW p, Consistent(p), Enabled(p)
    PROVE  /\ Consistent(Cmake(p))
           /\ Settings4(Cmake(p)) = Settings4(p) /\ Dependency(Cmake(p)) = Dependency(p)
           /\ Cmake(p).includes = p.includes /\ Cmake(p).libs = p.libs /\ Cmake(p).env = p.env
           /\ Does(p, "cmake") => p.branch \in Cmake(p).args
  <1>1. CASE ~Does(p, "cmake")
    BY <1>1 DEF Cmake
  <1>2. CASE Does(p, "cmake")
    <2> DEFINE q == Cmake(p)
    <2>1. p \in Port /\ p.branch \in Versions /\ Cached(p)
      BY DEF Consistent, Enabled
    <2>2. q = [p EXCEPT !.args = (p.args \ {p.cachedCmake}) \cup {p.branch}, !.cachedCmake = p.branch]
      BY <1>2 DEF Cmake
    <2>3. q \in Port
      <3>1. p.args \subseteq Versions
        BY <2>1 DEF Port
      <3>2. (p.args \ {p.cachedCmake}) \cup {p.branch} \in SUBSET Versions
        BY <2>1, <3>1
      <3> QED
        BY <2>1, <2>2, <3>2 DEF Port
    <2>4. /\ q.args = (p.args \ {p.cachedCmake}) \cup {p.branch} /\ q.cachedCmake = p.branch
          /\ q.includes = p.includes /\ q.libs = p.libs /\ q.cachedDirs = p.cachedDirs
          /\ q.env = p.env /\ q.cachedEnv = p.cachedEnv
          /\ Settings4(q) = Settings4(p) /\ Dependency(q) = Dependency(p)
      BY <2>1, <2>2 DEF Port, Settings4, Dependency
    <2> HIDE DEF q
    <2>5. Cached(q) /\ q.branch = p.branch
      BY <2>1, <2>4 DEF Cached, Settings4, Dependency
    <2> QED
      BY <2>1, <2>3, <2>4, <2>5 DEF Consistent, q
  <1> QED
    BY <1>1, <1>2

\* The two methods that are not taken back.
LEMMA OthersDo ==
    ASSUME NEW p, Consistent(p), Enabled(p)
    PROVE  LET q == Wrap(PkgConfig(p))
           IN  /\ Consistent(q) /\ Settings4(q) = Settings4(p) /\ Dependency(q) = Dependency(p)
               /\ q.includes = p.includes /\ q.libs = p.libs /\ q.env = p.env /\ q.args = p.args
               /\ Does(p, "pkgconfig") => q.pkg.first = p.branch
               /\ Does(p, "compiler_wrap") => q.wrapped
  <1> DEFINE r == PkgConfig(p)
             q == Wrap(r)
  <1>1. p \in Port /\ p.branch \in Versions /\ Cached(p)
    BY DEF Consistent, Enabled
  <1>2. /\ r \in Port /\ Settings4(r) = Settings4(p) /\ Dependency(r) = Dependency(p)
        /\ r.includes = p.includes /\ r.libs = p.libs /\ r.env = p.env /\ r.args = p.args
        /\ r.cachedEnv = p.cachedEnv /\ r.cachedCmake = p.cachedCmake /\ r.cachedDirs = p.cachedDirs
        /\ Does(p, "pkgconfig") => r.pkg.first = p.branch
    <2>1. CASE ~Does(p, "pkgconfig")
      BY <1>1, <2>1 DEF PkgConfig
    <2>2. CASE Does(p, "pkgconfig")
      <3>1. p.pkg \in List
        BY <1>1 DEF Port
      <3>2. Prepend(p.pkg, p.branch) \in List /\ Prepend(p.pkg, p.branch).first = p.branch
        BY <1>1, <3>1, Lists
      <3>3. r = [p EXCEPT !.pkg = Prepend(p.pkg, p.branch)]
        BY <2>2 DEF PkgConfig
      <3> QED
        BY <1>1, <3>2, <3>3 DEF Port, Settings4, Dependency
    <2> QED
      BY <2>1, <2>2
  <1> HIDE DEF r
  <1>3. Does(r, "compiler_wrap") <=> Does(p, "compiler_wrap")
    BY <1>2 DEF Does, Settings4
  <1>4. /\ q \in Port /\ Settings4(q) = Settings4(r) /\ Dependency(q) = Dependency(r)
        /\ q.includes = r.includes /\ q.libs = r.libs /\ q.env = r.env /\ q.args = r.args
        /\ q.cachedEnv = r.cachedEnv /\ q.cachedCmake = r.cachedCmake /\ q.cachedDirs = r.cachedDirs
        /\ q.pkg = r.pkg
        /\ Does(r, "compiler_wrap") => q.wrapped
    <2>1. CASE ~Does(r, "compiler_wrap")
      BY <1>2, <2>1 DEF Wrap
    <2>2. CASE Does(r, "compiler_wrap")
      <3>1. q = [r EXCEPT !.wrapped = TRUE]
        BY <2>2 DEF Wrap
      <3> QED
        BY <1>2, <3>1 DEF Port, Settings4, Dependency
    <2> QED
      BY <2>1, <2>2
  <1> HIDE DEF q
  <1>5. Cached(q) /\ q.branch = p.branch
    BY <1>1, <1>2, <1>4 DEF Cached, Settings4, Dependency
  <1>6. Consistent(q)
    BY <1>1, <1>4, <1>5 DEF Consistent
  <1> QED
    BY <1>2, <1>3, <1>4, <1>6 DEF q, r

-----------------------------------------------------------------------------
(* The two procs. *)

LEMMA ConfigureDoes ==
    ASSUME NEW p, Consistent(p)
    PROVE  LET q == ConfigureBuild(p)
           IN  /\ Consistent(q) /\ Settings4(q) = Settings4(p)
               /\ q.depends = p.depends /\ q.cachedBranch = p.cachedBranch
               /\ q.cachedDepends = p.cachedDepends
               /\ Enabled(p) /\ Changed(p) => Found(q) /\ q.cachedConfigure = q.configure
               /\ ~(Enabled(p) /\ Changed(p)) => q = p
  <1>1. CASE ~(Enabled(p) /\ Changed(p))
    BY <1>1 DEF ConfigureBuild
  <1>2. CASE Enabled(p) /\ Changed(p)
    <2> DEFINE a == Flags(p)
               b == Environment(a)
               c == Cmake(b)
               d == Wrap(PkgConfig(c))
               q == [d EXCEPT !.cachedConfigure = p.configure]
    <2>1. ConfigureBuild(p) = q
      BY <1>2 DEF ConfigureBuild
    <2>2. /\ Consistent(a) /\ Settings4(a) = Settings4(p) /\ Dependency(a) = Dependency(p)
          /\ Does(p, "build_flags") => a.includes.first = p.branch /\ a.libs.first = p.branch
      BY <1>2, FlagsDo
    <2> HIDE DEF a
    <2>3. Enabled(a) /\ a.branch = p.branch /\ \A m : Does(a, m) <=> Does(p, m)
      BY <1>2, <2>2 DEF Settings4, Enabled, Does
    <2>4. /\ Consistent(b) /\ Settings4(b) = Settings4(a) /\ Dependency(b) = Dependency(a)
          /\ b.includes = a.includes /\ b.libs = a.libs
          /\ Does(a, "env_vars") => a.branch \in b.env
      BY <2>2, <2>3, EnvironmentDoes
    <2> HIDE DEF b
    <2>5. Enabled(b) /\ b.branch = p.branch /\ \A m : Does(b, m) <=> Does(p, m)
      BY <2>2, <2>3, <2>4 DEF Settings4, Enabled, Does
    <2>6. /\ Consistent(c) /\ Settings4(c) = Settings4(b) /\ Dependency(c) = Dependency(b)
          /\ c.includes = b.includes /\ c.libs = b.libs /\ c.env = b.env
          /\ Does(b, "cmake") => b.branch \in c.args
      BY <2>4, <2>5, CmakeDoes
    <2> HIDE DEF c
    <2>7. Enabled(c) /\ c.branch = p.branch /\ \A m : Does(c, m) <=> Does(p, m)
      BY <2>5, <2>6 DEF Settings4, Enabled, Does
    <2>8. /\ Consistent(d) /\ Settings4(d) = Settings4(c) /\ Dependency(d) = Dependency(c)
          /\ d.includes = c.includes /\ d.libs = c.libs /\ d.env = c.env /\ d.args = c.args
          /\ Does(c, "pkgconfig") => d.pkg.first = c.branch
          /\ Does(c, "compiler_wrap") => d.wrapped
      BY <2>6, <2>7, OthersDo
    <2> HIDE DEF d
    <2>9. p.configure \in Seq(Methods \cup {Unknown}) /\ d \in Port
      BY <2>8 DEF Consistent, Port
    <2>10. /\ q \in Port /\ Settings4(q) = Settings4(d) /\ q.depends = d.depends
           /\ q.cachedBranch = d.cachedBranch /\ q.cachedDepends = d.cachedDepends
           /\ q.cachedConfigure = p.configure /\ q.pkg = d.pkg /\ q.includes = d.includes
           /\ q.libs = d.libs /\ q.env = d.env /\ q.args = d.args /\ q.wrapped = d.wrapped
           /\ q.cachedEnv = d.cachedEnv /\ q.cachedCmake = d.cachedCmake
           /\ q.cachedDirs = d.cachedDirs
      BY <2>9 DEF Port, Settings4
    <2> HIDE DEF q
    <2>11. /\ Settings4(q) = Settings4(p) /\ q.depends = p.depends
           /\ q.cachedBranch = p.cachedBranch /\ q.cachedDepends = p.cachedDepends
      BY <2>2, <2>4, <2>6, <2>8, <2>10 DEF Dependency
    <2>12. q.branch = p.branch /\ q.configure = p.configure /\ \A m : Does(q, m) <=> Does(p, m)
      BY <2>11 DEF Settings4, Does
    <2>13. Consistent(q)
      BY <2>8, <2>10 DEF Consistent, Cached, Settings4
    <2>14. Found(q)
      BY <2>2, <2>3, <2>4, <2>5, <2>6, <2>7, <2>8, <2>10, <2>12 DEF Found
    <2> QED
      BY <1>2, <2>1, <2>10, <2>11, <2>12, <2>13, <2>14
  <1> QED
    BY <1>1, <1>2

LEMMA DependencyDoes ==
    ASSUME NEW p, Consistent(p)
    PROVE  LET q == SetDependency(p)
           IN  /\ Consistent(q) /\ Settings4(q) = Settings4(p)
               /\ Enabled(p) => /\ q.cachedBranch = q.branch /\ q.cachedDepends = q.dependsType
                                /\ <<q.dependsType, q.branch>> \in q.depends
                                /\ <<"lib", "shim">> \notin q.depends
                                /\ q.cachedConfigure = <<>>
  <1>1. CASE ~Enabled(p)
    BY <1>1 DEF SetDependency
  <1>2. CASE Enabled(p)
    <2> DEFINE q == SetDependency(p)
               deps == (p.depends \ {<<"lib", "shim">>, <<p.cachedDepends, p.cachedBranch>>})
                          \cup {<<p.dependsType, p.branch>>}
    <2>1. /\ p \in Port /\ p.branch \in Versions /\ Cached(p) /\ p.dependsType \in DependsTypes
          /\ "shim" \notin Versions
      BY <1>2, OpensslAssumption DEF Consistent, Enabled, Port
    <2>2. q = [p EXCEPT !.depends = deps, !.cachedBranch = p.branch,
                        !.cachedDepends = p.dependsType, !.cachedConfigure = <<>>]
      BY <1>2 DEF SetDependency
    <2>3. deps \subseteq DependsTypes \X (Versions \cup {"shim"})
      BY <2>1 DEF Port
    <2>4. \A d \in deps : d[2] \in Versions => d = <<p.dependsType, p.branch>>
      BY <2>1 DEF Cached
    <2>5. <<p.dependsType, p.branch>> \in deps /\ <<"lib", "shim">> \notin deps
      BY <2>1
    <2> HIDE DEF deps
    <2>6. <<>> \in Seq(Methods \cup {Unknown})
      OBVIOUS
    <2>7. q \in Port
      BY <2>1, <2>2, <2>3, <2>6, ZenonT(40) DEF Port
    <2>8. /\ Settings4(q) = Settings4(p) /\ q.depends = deps /\ q.cachedBranch = p.branch
          /\ q.branch = p.branch /\ q.dependsType = p.dependsType
          /\ q.cachedDepends = p.dependsType /\ q.cachedConfigure = <<>>
          /\ q.env = p.env /\ q.args = p.args /\ q.includes = p.includes
          /\ q.cachedEnv = p.cachedEnv /\ q.cachedCmake = p.cachedCmake
          /\ q.cachedDirs = p.cachedDirs
      BY <2>1, <2>2 DEF Port, Settings4
    <2> HIDE DEF q
    <2>9. Cached(q)
      BY <2>1, <2>4, <2>8 DEF Cached
    <2>10. Consistent(q)
      BY <2>1, <2>7, <2>8, <2>9 DEF Consistent, Branches
    <2> QED
      BY <2>5, <2>8, <2>10 DEF q
  <1> QED
    BY <1>1, <1>2

-----------------------------------------------------------------------------
(* The inductive invariant. *)

\* When the dependency has been set for the last time it is right, and what
\* the cache says is configured can be found.
DependencyRight(p) ==
    /\ p.cachedBranch = p.branch /\ p.cachedDepends = p.dependsType
    /\ <<p.dependsType, p.branch>> \in p.depends /\ <<"lib", "shim">> \notin p.depends

CallbackInv ==
    /\ pc \in {"cmake", "configure", "done"} /\ Enabled(port) =>
          DependencyRight(port) /\ (port.cachedConfigure = port.configure => Found(port))
    /\ pc = "cmake" /\ Enabled(port) => port.cachedConfigure = <<>>
    /\ pc \in {"configure", "done"} /\ Enabled(port) /\ port.usesCmake => Does(port, "cmake")
    /\ pc = "done" /\ Enabled(port) => Found(port)

IInv == TypeOK /\ Cached(port) /\ CallbackInv

LEMMA InitIInv == Init => IInv
  <1> SUFFICES ASSUME Init PROVE IInv
    OBVIOUS
  <1>1. <<"env_vars", "pkgconfig", "build_flags">> \in Seq(Methods \cup {Unknown})
    BY DEF Methods
  <1>2. Empty \in List /\ Empty.all = {}
    BY DEF Empty, List
  <1>3. PICK cmake \in BOOLEAN :
          port = [branch |-> DefaultBranch, dependsType |-> "lib",
                  configure |-> <<"env_vars", "pkgconfig", "build_flags">>,
                  usesCmake |-> cmake, depends |-> {}, env |-> {}, args |-> {},
                  pkg |-> Empty, includes |-> Empty, libs |-> Empty, wrapped |-> FALSE,
                  cachedBranch |-> None, cachedDepends |-> None, cachedConfigure |-> <<>>,
                  cachedEnv |-> None, cachedDirs |-> None, cachedCmake |-> None]
    BY DEF Init
  <1>4. port \in Port /\ port.branch \in Branches
    BY <1>1, <1>2, <1>3, OpensslAssumption DEF Port, Branches
  <1>5. Cached(port)
    BY <1>2, <1>3 DEF Cached
  <1> QED
    BY <1>4, <1>5 DEF Init, IInv, TypeOK, CallbackInv

\* What an evaluation does to the port.
LEMMA Evaluated ==
    ASSUME NEW p, Consistent(p), NEW next, Evaluate(p, next)
    PROVE  /\ Consistent(port') /\ Settings4(port') = Settings4(p)
           /\ port'.depends = p.depends /\ port'.cachedBranch = p.cachedBranch
           /\ port'.cachedDepends = p.cachedDepends
           /\ Enabled(p) /\ Changed(p) => Found(port')
           /\ ~(Enabled(p) /\ Changed(p)) => port' = p
           /\ pc' \in {"failed", next}
  BY ConfigureDoes DEF Evaluate

\* A step of the Portfile that leaves it consistent keeps the invariant.
LEMMA PortfileStep ==
    ASSUME IInv, Statement, Consistent(port'), pc' \in {"portfile", "failed"}
    PROVE  IInv'
  <1>1. statements' \in Nat
    BY DEF IInv, TypeOK, Statement
  <1>2. TypeOK' /\ Cached(port')
    BY <1>1 DEF TypeOK, Consistent
  <1>3. CallbackInv'
    BY DEF CallbackInv
  <1> QED
    BY <1>2, <1>3 DEF IInv

LEMMA SetBranchStep ==
    ASSUME IInv, NEW b \in Branches \cup {Unknown}, SetBranch(b) PROVE IInv'
  <1> DEFINE p == [port EXCEPT !.branch = b]
  <1>1. port \in Port /\ Cached(port)
    BY DEF IInv, TypeOK
  <1>2. p \in Port /\ p.branch = b /\ p.env = port.env /\ p.args = port.args
        /\ p.includes = port.includes /\ p.depends = port.depends
        /\ p.cachedEnv = port.cachedEnv /\ p.cachedCmake = port.cachedCmake
        /\ p.cachedDirs = port.cachedDirs /\ p.cachedBranch = port.cachedBranch
        /\ p.cachedDepends = port.cachedDepends
    BY <1>1 DEF Port
  <1>3. CASE b \in Branches
    <2>1. Consistent(p)
      BY <1>1, <1>2, <1>3 DEF Consistent, Cached
    <2> HIDE DEF p
    <2>2. Consistent(SetDependency(p)) /\ Evaluate(SetDependency(p), "portfile")
      BY <1>3, <2>1, DependencyDoes DEF SetBranch, p
    <2>3. Consistent(port') /\ pc' \in {"failed", "portfile"}
      BY <2>2, Evaluated
    <2> QED
      BY <2>3, PortfileStep DEF SetBranch
  <1>4. CASE b \notin Branches
    <2>1. port' = p /\ pc' = "failed" /\ Statement
      BY <1>4 DEF SetBranch
    <2> HIDE DEF p
    <2>2. Cached(port')
      BY <1>1, <1>2, <2>1 DEF Cached
    <2>3. TypeOK'
      BY <1>2, <2>1 DEF IInv, TypeOK, Statement
    <2>4. CallbackInv'
      BY <2>1 DEF CallbackInv
    <2> QED
      BY <2>2, <2>3, <2>4 DEF IInv
  <1> QED
    BY <1>3, <1>4

LEMMA SetConfigureStep ==
    ASSUME IInv, NEW s \in Settings, SetConfigure(s) PROVE IInv'
  <1> DEFINE p == [port EXCEPT !.configure = s]
  <1>1. port \in Port /\ Cached(port) /\ port.branch \in Branches
    BY DEF IInv, TypeOK, SetConfigure, Statement
  <1>2. s \in Seq(Methods \cup {Unknown})
    BY OpensslAssumption
  <1>3. p \in Port /\ p.branch = port.branch /\ p.env = port.env /\ p.args = port.args
        /\ p.includes = port.includes /\ p.depends = port.depends
        /\ p.cachedEnv = port.cachedEnv /\ p.cachedCmake = port.cachedCmake
        /\ p.cachedDirs = port.cachedDirs /\ p.cachedBranch = port.cachedBranch
        /\ p.cachedDepends = port.cachedDepends
    BY <1>1, <1>2 DEF Port
  <1>4. Consistent(p)
    BY <1>1, <1>3 DEF Consistent, Cached
  <1>5. Evaluate(p, "portfile")
    BY DEF SetConfigure
  <1> HIDE DEF p
  <1>6. Consistent(port') /\ pc' \in {"failed", "portfile"}
    BY <1>4, <1>5, Evaluated
  <1> QED
    BY <1>6, PortfileStep DEF SetConfigure

LEMMA AssignStep ==
    ASSUME IInv,
           \/ \E t \in DependsTypes : SetDependsType(t) \/ AssignDepends(t)
           \/ AssignFlags \/ PrependFlags
    PROVE  IInv'
  <1>1. port \in Port /\ Cached(port) /\ port.branch \in Branches /\ Statement
        /\ pc' \in {"portfile", "failed"}
    BY DEF IInv, TypeOK, SetDependsType, AssignDepends, AssignFlags, PrependFlags, Statement
  <1>2. "own" \notin Versions /\ "shim" \notin Versions
    BY OpensslAssumption
  <1>3. Only("own") \in List /\ Only("own").all = {"own"}
    BY DEF Only, List
  <1>4. \A l \in {port.pkg, port.includes, port.libs} :
            Prepend(l, "own") \in List /\ Prepend(l, "own").all = l.all \cup {"own"}
    <2>1. {port.pkg, port.includes, port.libs} \subseteq List
      BY <1>1 DEF Port
    <2> QED
      BY <2>1, Lists
  <1>5. ASSUME NEW t \in DependsTypes, SetDependsType(t) PROVE Consistent(port')
    BY <1>1, <1>5 DEF SetDependsType, Consistent, Cached, Port
  <1>6. ASSUME NEW t \in DependsTypes, AssignDepends(t) PROVE Consistent(port')
    <2>1. PICK own \in SUBSET {<<t, "shim">>} :
             port' = [port EXCEPT !.depends = {d \in port.depends : d[1] # t} \cup own]
      BY <1>6 DEF AssignDepends
    <2> DEFINE deps == {d \in port.depends : d[1] # t} \cup own
    <2>2. deps \subseteq DependsTypes \X (Versions \cup {"shim"})
      BY <1>1 DEF Port
    <2>3. \A d \in deps : d[2] \in Versions => d \in port.depends
      BY <1>2
    <2>4. port' = [port EXCEPT !.depends = deps]
      BY <2>1
    <2> HIDE DEF deps
    <2>5. port' \in Port
      BY <1>1, <2>2, <2>4 DEF Port
    <2>6. /\ port'.depends = deps /\ port'.branch = port.branch /\ port'.env = port.env
          /\ port'.args = port.args /\ port'.includes = port.includes
          /\ port'.cachedEnv = port.cachedEnv /\ port'.cachedCmake = port.cachedCmake
          /\ port'.cachedDirs = port.cachedDirs /\ port'.cachedBranch = port.cachedBranch
          /\ port'.cachedDepends = port.cachedDepends
      BY <1>1, <2>4 DEF Port
    <2> QED
      BY <1>1, <2>3, <2>5, <2>6 DEF Consistent, Cached
  <1>7. ASSUME AssignFlags PROVE Consistent(port')
    <2>1. CASE port' = [port EXCEPT !.env = {}]
      BY <1>1, <2>1 DEF Consistent, Cached, Port
    <2>2. CASE port' = [port EXCEPT !.args = {}]
      BY <1>1, <2>2 DEF Consistent, Cached, Port
    <2>3. CASE port' = [port EXCEPT !.pkg = Only("own")]
      BY <1>1, <1>3, <2>3 DEF Consistent, Cached, Port
    <2>4. CASE port' = [port EXCEPT !.includes = Only("own")]
      BY <1>1, <1>2, <1>3, <2>4 DEF Consistent, Cached, Port
    <2>5. CASE port' = [port EXCEPT !.libs = Only("own")]
      BY <1>1, <1>3, <2>5 DEF Consistent, Cached, Port
    <2> QED
      BY <1>7, <2>1, <2>2, <2>3, <2>4, <2>5 DEF AssignFlags
  <1>8. ASSUME PrependFlags PROVE Consistent(port')
    <2>1. CASE port' = [port EXCEPT !.pkg = Prepend(port.pkg, "own")]
      BY <1>1, <1>4, <2>1 DEF Consistent, Cached, Port
    <2>2. CASE port' = [port EXCEPT !.includes = Prepend(port.includes, "own")]
      BY <1>1, <1>2, <1>4, <2>2 DEF Consistent, Cached, Port
    <2>3. CASE port' = [port EXCEPT !.libs = Prepend(port.libs, "own")]
      BY <1>1, <1>4, <2>3 DEF Consistent, Cached, Port
    <2> QED
      BY <1>8, <2>1, <2>2, <2>3 DEF PrependFlags
  <1> QED
    BY <1>1, <1>5, <1>6, <1>7, <1>8, PortfileStep

LEMMA CallDependencyStep ==
    ASSUME IInv, CallDependency PROVE IInv'
  <1>1. Consistent(port) /\ statements' \in Nat
    BY DEF IInv, TypeOK, CallDependency, Consistent
  <1>2. /\ port' = SetDependency(port) /\ pc' = "cmake" /\ Consistent(port')
        /\ Settings4(port') = Settings4(port)
        /\ Enabled(port) => DependencyRight(port') /\ port'.cachedConfigure = <<>>
    BY <1>1, DependencyDoes DEF CallDependency, DependencyRight
  <1>3. Enabled(port') => Enabled(port)
    BY <1>2 DEF Enabled, Settings4
  <1>4. port'.configure = <<>> => Found(port')
    BY DEF Found, Does
  <1>5. TypeOK' /\ Cached(port')
    BY <1>1, <1>2 DEF TypeOK, Consistent
  <1>6. CallbackInv'
    BY <1>2, <1>3, <1>4 DEF CallbackInv
  <1> QED
    BY <1>5, <1>6 DEF IInv

LEMMA CallCmakeStep ==
    ASSUME IInv, CallCmake PROVE IInv'
  <1>1. Consistent(port) /\ pc = "cmake" /\ statements' \in Nat
    BY DEF IInv, TypeOK, CallCmake, Consistent
  <1>2. CASE ~(Enabled(port) /\ port.usesCmake /\ ~Does(port, "cmake"))
    <2>1. port' = port /\ pc' = "configure"
      BY <1>2 DEF CallCmake
    <2>2. TypeOK' /\ Cached(port')
      BY <1>1, <2>1 DEF TypeOK, Consistent
    <2>3. CallbackInv'
      BY <1>1, <1>2, <2>1 DEF CallbackInv, IInv
    <2> QED
      BY <2>2, <2>3 DEF IInv
  <1>3. CASE Enabled(port) /\ port.usesCmake /\ ~Does(port, "cmake")
    <2> DEFINE s == Append(port.configure, "cmake")
               p == [port EXCEPT !.configure = s]
    <2>1. Evaluate(p, "configure")
      BY <1>3 DEF CallCmake
    <2>2. port \in Port /\ Cached(port) /\ port.branch \in Branches
      BY <1>1 DEF Consistent
    <2>3. port.configure \in Seq(Methods \cup {Unknown}) /\ "cmake" \in Methods
      BY <2>2 DEF Port, Methods
    <2>4. /\ s \in Seq(Methods \cup {Unknown}) /\ s # <<>>
          /\ Len(s) \in 1 .. Len(s) /\ s[Len(s)] = "cmake"
      BY <2>3
    <2> HIDE DEF s
    <2>5. p \in Port /\ p.branch = port.branch /\ p.env = port.env /\ p.args = port.args
          /\ p.includes = port.includes /\ p.depends = port.depends /\ p.configure = s
          /\ p.cachedEnv = port.cachedEnv /\ p.cachedCmake = port.cachedCmake
          /\ p.cachedDirs = port.cachedDirs /\ p.cachedBranch = port.cachedBranch
          /\ p.cachedDepends = port.cachedDepends /\ p.dependsType = port.dependsType
          /\ p.cachedConfigure = port.cachedConfigure
      BY <2>2, <2>4 DEF Port
    <2> HIDE DEF p
    <2>6. Consistent(p) /\ Enabled(p)
      BY <1>3, <2>2, <2>5 DEF Consistent, Cached, Enabled
    <2>7. DependencyRight(port) /\ port.cachedConfigure = <<>>
      BY <1>1, <1>3 DEF IInv, CallbackInv
    <2>8. Changed(p)
      BY <2>4, <2>5, <2>7 DEF Changed
    <2>9. /\ Consistent(port') /\ Settings4(port') = Settings4(p) /\ Found(port')
          /\ port'.depends = p.depends /\ port'.cachedBranch = p.cachedBranch
          /\ port'.cachedDepends = p.cachedDepends /\ pc' \in {"failed", "configure"}
      BY <2>1, <2>6, <2>8, Evaluated
    <2>10. DependencyRight(port') /\ Does(port', "cmake")
      BY <2>4, <2>5, <2>7, <2>9 DEF DependencyRight, Settings4, Does
    <2>11. TypeOK' /\ Cached(port')
      BY <1>1, <2>9 DEF TypeOK, Consistent
    <2>12. CallbackInv'
      BY <2>9, <2>10 DEF CallbackInv
    <2> QED
      BY <2>11, <2>12 DEF IInv
  <1> QED
    BY <1>2, <1>3

LEMMA CallConfigureStep ==
    ASSUME IInv, CallConfigure PROVE IInv'
  <1>1. Consistent(port) /\ pc = "configure" /\ statements' \in Nat /\ Evaluate(port, "done")
    BY DEF IInv, TypeOK, CallConfigure, Consistent
  <1>2. /\ Consistent(port') /\ Settings4(port') = Settings4(port)
        /\ port'.depends = port.depends /\ port'.cachedBranch = port.cachedBranch
        /\ port'.cachedDepends = port.cachedDepends
        /\ Enabled(port) /\ Changed(port) => Found(port')
        /\ ~(Enabled(port) /\ Changed(port)) => port' = port
        /\ pc' \in {"failed", "done"}
    BY <1>1, Evaluated
  <1>3. /\ Enabled(port') <=> Enabled(port)
        /\ Does(port', "cmake") <=> Does(port, "cmake")
        /\ port'.usesCmake = port.usesCmake
        /\ port'.branch = port.branch /\ port'.dependsType = port.dependsType
    BY <1>2 DEF Settings4, Enabled, Does
  <1>4. Enabled(port) => Found(port')
    <2>1. CASE Enabled(port) /\ ~Changed(port)
      BY <1>1, <1>2, <2>1 DEF Changed, IInv, CallbackInv
    <2> QED
      BY <1>2, <2>1
  <1>5. Enabled(port) => DependencyRight(port')
    BY <1>1, <1>2, <1>3 DEF IInv, CallbackInv, DependencyRight
  <1>6. TypeOK' /\ Cached(port')
    BY <1>1, <1>2 DEF TypeOK, Consistent
  <1>7. CallbackInv'
    BY <1>1, <1>2, <1>3, <1>4, <1>5 DEF IInv, CallbackInv
  <1> QED
    BY <1>6, <1>7 DEF IInv

LEMMA Inductive == IInv /\ [Next]_vars => IInv'
  <1> SUFFICES ASSUME IInv, [Next]_vars PROVE IInv'
    OBVIOUS
  <1>1. CASE Next
    BY <1>1, SetBranchStep, SetConfigureStep, AssignStep, CallDependencyStep,
       CallCmakeStep, CallConfigureStep DEF Next
  <1>2. CASE UNCHANGED vars
    BY <1>2 DEF vars, IInv, TypeOK, CallbackInv
  <1> QED
    BY <1>1, <1>2

\* The invariant holds of the evaluation of every Portfile.
THEOREM Invariance == Spec => []IInv
  <1> QED
    BY InitIInv, Inductive, PTL DEF Spec

\* The options keep their types, and only a Portfile that has failed has a
\* branch that does not exist.
THEOREM TypeCorrect == Spec => []TypeOK
  <1>1. IInv => TypeOK
    BY DEF IInv
  <1> QED
    BY <1>1, Invariance, PTL

\* A port depends on the version it asks for last and on no other.
THEOREM DependsOnOne == Spec => []DependsOnBranch
  <1>1. IInv => DependsOnBranch
    <2> SUFFICES ASSUME IInv, Ready
                 PROVE  {d \in port.depends : d[2] \in Versions \/ d = <<"lib", "shim">>} =
                            {<<port.dependsType, port.branch>>}
      BY DEF DependsOnBranch
    <2>1. DependencyRight(port) /\ Cached(port) /\ port.branch \in Versions
      BY DEF IInv, CallbackInv, Ready, Enabled
    <2> QED
      BY <2>1 DEF DependencyRight, Cached
  <1> QED
    BY <1>1, Invariance, PTL

\* Every method finds that version, and before anything else in its list.
THEOREM EveryMethodFinds == Spec => []FoundFirst
  <1>1. IInv => FoundFirst
    BY DEF IInv, CallbackInv, FoundFirst, Found, Ready
  <1> QED
    BY <1>1, Invariance, PTL

\* What the cache takes back never names two versions at once.
THEOREM OneVersionAtOnce == Spec => []OneVersion
  <1>1. IInv => OneVersion
    BY DEF IInv, Cached, OneVersion
  <1> QED
    BY <1>1, Invariance, PTL

-----------------------------------------------------------------------------
(* PortGroups active_variants and conflicts_build: the inductive invariant.  *)

\* Requirement i held when it was checked, or a dependency has changed since.
Checked(i) == ~Concerns(Requirements[i], "source") \/ Holds(Requirements[i]) \/ i \in moved

\* The hooks that come after the requirements have been checked.
Passed == {"conflictsConfigure", "conflictsBuild", "conflictsDestroot", "failedBuild",
           "failedDestroot"} \cup Phases

\* All requirements before the one to be checked have been, and all of them
\* once the phases run.
RequiredInv ==
    /\ hook = "preConfigure" => \A i \in 1 .. n - 1 : i \in 1 .. Len(Requirements) => Checked(i)
    /\ hook \in Passed => \A i \in 1 .. Len(Requirements) : Checked(i)

\* No conflict before the one to be looked for is active since the phase began.
ConflictInv ==
    /\ steady \subseteq active
    /\ hook \in DOMAIN PhaseOf =>
          \A k \in 1 .. n - 1 : k \in 1 .. Len(ConflictsBuild) => ConflictsBuild[k] \notin steady
    /\ NoConflict

\* The warnings are right for requirement i.
Told(i) ==
    Concerns(Requirements[i], "activate") /\ i \notin moved =>
        (i \in warnings <=> ~Holds(Requirements[i]))

\* An activation has warned of what it has come to, and of nothing else.
WarningInv ==
    /\ hook = "preActivate" =>
          /\ \A i \in 1 .. Len(Requirements) : IF i < n THEN Told(i) ELSE i \notin warnings
          /\ result = Unset => \A i \in 1 .. n - 1 : ~Concerns(Requirements[i], "activate")
    /\ ActivationWarns

\* Hooks with a list are at a place of it, and what is installed has an image.
PlaceInv ==
    /\ hook \in {"preConfigure", "preActivate"} => n \in 1 .. Len(Requirements) + 1
    /\ hook = "refused" => n \in 1 .. Len(Requirements)
    /\ hook \in DOMAIN PhaseOf => n \in 1 .. Len(ConflictsBuild) + 1
    /\ image = "none" => hook \notin {"installed", "preActivate", "refused", "active"}

ChecksInv == ChecksTypeOK /\ PlaceInv /\ RequiredInv /\ ConflictInv /\ WarningInv

-----------------------------------------------------------------------------
(* What the invariant is made of. *)

LEMMA RequirementType ==
    \A i \in 1 .. Len(Requirements) :
        Requirements[i].port \in Ports /\ Requirements[i].port \in Required
  <1> DEFINE V == SUBSET UNION {VariantsOf[p] : p \in Ports}
             R == [port : Ports, required : V, forbidden : V]
  <1>1. Requirements \in Seq(R)
    BY VariantsAssumption
  <1> HIDE DEF V
  <1>2. \A i \in 1 .. Len(Requirements) : Requirements[i] \in R
    <2> HIDE DEF R
    <2> QED
      BY <1>1
  <1> QED
    BY <1>2 DEF Required

LEMMA Lengths == Len(Requirements) \in Nat /\ Len(ConflictsBuild) \in Nat
  BY VariantsAssumption

\* What the registry says of a requirement, and what it concerns, depend on the
\* registry and on the dependencies alone.
LEMMA SameRegistry ==
    ASSUME active' = active, variants' = variants, depends' = depends
    PROVE  \A i \in 1 .. Len(Requirements) :
              /\ Holds(Requirements[i])' <=> Holds(Requirements[i])
              /\ \A m : Concerns(Requirements[i], m)' <=> Concerns(Requirements[i], m)
  BY DEF Holds, Accepts, Concerns

LEMMA SameConcerns ==
    ASSUME depends' = depends
    PROVE  {i \in 1 .. Len(Requirements) : Concerns(Requirements[i], "activate")}' =
               {i \in 1 .. Len(Requirements) : Concerns(Requirements[i], "activate")}
  BY DEF Concerns

LEMMA ChecksInitInv == ChecksInit => ChecksInv
  <1> SUFFICES ASSUME ChecksInit PROVE ChecksInv
    OBVIOUS
  <1>1. ChecksTypeOK
    BY Lengths DEF ChecksInit, ChecksTypeOK, DepTypes, Unset
  <1>2. PlaceInv /\ RequiredInv
    BY DEF ChecksInit, PlaceInv, RequiredInv, PhaseOf, Passed, Phases
  <1>3. ConflictInv
    BY DEF ChecksInit, ConflictInv, NoConflict, PhaseOf, Phases
  <1>4. WarningInv
    BY DEF ChecksInit, WarningInv, ActivationWarns, WarnedOf, RefusedOnlyForFirst
  <1> QED
    BY <1>1, <1>2, <1>3, <1>4 DEF ChecksInv

LEMMA InstallStep == ASSUME ChecksInv, Install PROVE ChecksInv'
  <1>1. /\ hook = "start" /\ hook' \in {"preConfigure", "installed"}
        /\ hook' = "preConfigure" => n' = 1 /\ result' = Unset /\ steady' = active /\ image' = image
        /\ hook' = "installed" => image' = "archive" /\ n' = n /\ result' = result /\ steady' = steady
        /\ active' = active /\ variants' = variants /\ depends' = depends
        /\ warnings' = warnings /\ changes' = changes /\ moved' = moved
    BY DEF Install, Enter, registry
  <1>2. ChecksTypeOK'
    <2>1. {i \in 1 .. Len(Requirements) : Concerns(Requirements[i], "activate")}' =
              {i \in 1 .. Len(Requirements) : Concerns(Requirements[i], "activate")}
      BY <1>1, SameConcerns
    <2> QED
      BY <1>1, Lengths, <2>1 DEF ChecksInv, ChecksTypeOK, PlaceInv
  <1>3. PlaceInv'
    BY <1>1, Lengths DEF ChecksInv, PlaceInv, PhaseOf
  <1>4. RequiredInv'
    BY <1>1 DEF RequiredInv, Passed, Phases
  <1>5. ConflictInv'
    BY <1>1 DEF ChecksInv, ConflictInv, NoConflict, PhaseOf, Phases
  <1>6. WarningInv'
    BY <1>1 DEF WarningInv, ActivationWarns, WarnedOf, RefusedOnlyForFirst
  <1> QED
    BY <1>2, <1>3, <1>4, <1>5, <1>6 DEF ChecksInv

LEMMA CheckSourceStep == ASSUME ChecksInv, CheckSource PROVE ChecksInv'
  <1> DEFINE r == Requirements[n]
  <1>1. /\ hook = "preConfigure" /\ n \in 1 .. Len(Requirements)
        /\ active' = active /\ variants' = variants /\ depends' = depends /\ image' = image
        /\ warnings' = warnings /\ changes' = changes /\ steady' = steady
        /\ \/ ~Concerns(r, "source") /\ n' = n + 1 /\ hook' = hook /\ result' = result /\ moved' = moved
           \/ Holds(r) /\ n' = n + 1 /\ hook' = hook /\ result' = "1" /\ moved' = moved \ {n}
           \/ hook' = "failedConfigure" /\ n' = n /\ result' = result /\ moved' = moved
    BY Lengths DEF CheckSource, registry, ChecksInv, PlaceInv
  <1>2. ChecksTypeOK'
    <2>1. {i \in 1 .. Len(Requirements) : Concerns(Requirements[i], "activate")}' =
              {i \in 1 .. Len(Requirements) : Concerns(Requirements[i], "activate")}
      BY <1>1, SameConcerns
    <2>2. /\ n' \in 1 .. Len(Requirements) + Len(ConflictsBuild) + 1
          /\ result' \in {Unset, "0", "1"} /\ moved' \subseteq 1 .. Len(Requirements)
      <3>1. result \in {Unset, "0", "1"} /\ moved \subseteq 1 .. Len(Requirements)
        BY DEF ChecksInv, ChecksTypeOK
      <3>2. n' = n \/ n' = n + 1
        BY <1>1
      <3>3. n' \in 1 .. Len(Requirements) + Len(ConflictsBuild) + 1
        BY <1>1, <3>2, Lengths
      <3>4. result' \in {Unset, "0", "1"}
        BY <1>1, <3>1
      <3>5. moved' \subseteq 1 .. Len(Requirements)
        BY <1>1, <3>1
      <3> QED
        BY <3>3, <3>4, <3>5
    <2>3. hook' \in {"preConfigure", "failedConfigure"}
      BY <1>1
    <2> QED
      BY <1>1, <2>1, <2>2, <2>3 DEF ChecksInv, ChecksTypeOK
  <1>3. PlaceInv'
    BY <1>1, Lengths DEF ChecksInv, PlaceInv, PhaseOf
  <1>4. RequiredInv'
    <2>1. CASE hook' = hook
      <3> SUFFICES ASSUME NEW i \in 1 .. n' - 1, i \in 1 .. Len(Requirements) PROVE Checked(i)'
        BY <1>1, <2>1 DEF RequiredInv, Passed, Phases
      <3>1. CASE i = n
        BY <1>1, <2>1, <3>1, SameRegistry DEF Checked
      <3>2. CASE i # n
        <4>1. i \in 1 .. n - 1 /\ Checked(i)
          BY <1>1, <2>1, <3>2, Lengths DEF ChecksInv, RequiredInv
        <4> QED
          BY <1>1, <4>1, <3>2, SameRegistry DEF Checked
      <3> QED
        BY <3>1, <3>2
    <2>2. CASE hook' = "failedConfigure"
      BY <2>2 DEF RequiredInv, Passed, Phases
    <2> QED
      BY <1>1, <2>1, <2>2
  <1>5. ConflictInv'
    BY <1>1 DEF ChecksInv, ConflictInv, NoConflict, PhaseOf, Phases
  <1>6. WarningInv'
    BY <1>1 DEF WarningInv, ActivationWarns, WarnedOf, RefusedOnlyForFirst
  <1> QED
    BY <1>2, <1>3, <1>4, <1>5, <1>6 DEF ChecksInv

LEMMA CheckActivateStep == ASSUME ChecksInv, CheckActivate PROVE ChecksInv'
  <1> DEFINE r == Requirements[n]
  <1>1. /\ hook = "preActivate" /\ n \in 1 .. Len(Requirements) /\ image # "none"
        /\ active' = active /\ variants' = variants /\ depends' = depends /\ image' = image
        /\ changes' = changes /\ steady' = steady
        /\ \/ /\ ~Concerns(r, "activate") /\ n' = n + 1 /\ hook' = hook
              /\ result' = result /\ moved' = moved /\ warnings' = warnings
           \/ /\ Concerns(r, "activate") /\ moved' = moved \ {n} /\ n' = n + 1 /\ hook' = hook
              /\ result' # Unset /\ result' \in {"0", "1"}
              /\ warnings' = IF Holds(r) THEN warnings ELSE warnings \cup {n}
           \/ /\ Concerns(r, "activate") /\ moved' = moved \ {n} /\ ~Holds(r) /\ r.port \notin active
              /\ warnings' = warnings \cup {n} /\ result' = result
              /\ IF result = Unset THEN hook' = "refused" /\ n' = n ELSE n' = n + 1 /\ hook' = hook
    BY Lengths DEF CheckActivate, registry, ChecksInv, PlaceInv, Holds, Unset
  <1>2. ChecksTypeOK'
    <2>1. {i \in 1 .. Len(Requirements) : Concerns(Requirements[i], "activate")}' =
              {i \in 1 .. Len(Requirements) : Concerns(Requirements[i], "activate")}
      BY <1>1, SameConcerns
    <2>2. /\ n' \in 1 .. Len(Requirements) + Len(ConflictsBuild) + 1
          /\ result' \in {Unset, "0", "1"} /\ moved' \subseteq 1 .. Len(Requirements)
      <3>1. result \in {Unset, "0", "1"} /\ moved \subseteq 1 .. Len(Requirements)
        BY DEF ChecksInv, ChecksTypeOK
      <3>2. n' = n \/ n' = n + 1
        BY <1>1
      <3>3. n' \in 1 .. Len(Requirements) + Len(ConflictsBuild) + 1
        BY <1>1, <3>2, Lengths
      <3>4. result' \in {Unset, "0", "1"}
        BY <1>1, <3>1
      <3>5. moved' \subseteq 1 .. Len(Requirements)
        BY <1>1, <3>1
      <3> QED
        BY <3>3, <3>4, <3>5
    <2>3. hook' \in {"preActivate", "refused"}
      BY <1>1
    <2>4. warnings' \subseteq {i \in 1 .. Len(Requirements) : Concerns(Requirements[i], "activate")}
      BY <1>1 DEF ChecksInv, ChecksTypeOK
    <2> QED
      BY <1>1, <2>1, <2>2, <2>3, <2>4 DEF ChecksInv, ChecksTypeOK
  <1>3. PlaceInv'
    BY <1>1, Lengths DEF ChecksInv, PlaceInv, PhaseOf
  <1>4. RequiredInv'
    BY <1>1 DEF RequiredInv, Passed, Phases
  <1>5. ConflictInv'
    BY <1>1 DEF ChecksInv, ConflictInv, NoConflict, PhaseOf, Phases
  <1>6. WarningInv'
    <2>1. \A i \in 1 .. Len(Requirements) : IF i < n THEN Told(i) ELSE i \notin warnings
      BY <1>1 DEF ChecksInv, WarningInv
    <2>2. \A i \in 1 .. Len(Requirements) : i # n /\ Told(i) => Told(i)'
      BY <1>1, SameRegistry DEF Told
    <2>3. \A i \in 1 .. Len(Requirements) : i = n /\ n' = n + 1 => Told(i)'
      <3> SUFFICES ASSUME NEW i \in 1 .. Len(Requirements), i = n, n' = n + 1,
                          Concerns(Requirements[i], "activate")', i \notin moved'
                   PROVE  i \in warnings' <=> ~Holds(Requirements[i])'
        BY DEF Told
      <3>1. i \notin warnings /\ Concerns(Requirements[i], "activate")
        BY <1>1, <2>1, SameRegistry, Lengths
      <3>2. i \in warnings' <=> ~Holds(Requirements[i])
        BY <1>1, <3>1
      <3> QED
        BY <1>1, <3>2, SameRegistry
    <2>4. hook' = "preActivate" =>
              \A i \in 1 .. Len(Requirements) : IF i < n' THEN Told(i)' ELSE i \notin warnings'
      <3> SUFFICES ASSUME hook' = "preActivate", NEW i \in 1 .. Len(Requirements)
                   PROVE  IF i < n' THEN Told(i)' ELSE i \notin warnings'
        OBVIOUS
      <3>0. n' = n + 1
        BY <1>1
      <3>1. CASE i < n
        BY <1>1, <2>1, <2>2, <3>0, <3>1, Lengths
      <3>2. CASE i = n
        BY <2>3, <3>0, <3>2, Lengths
      <3>3. CASE i > n
        BY <1>1, <2>1, <3>0, <3>3, Lengths
      <3> QED
        BY <1>1, <3>1, <3>2, <3>3, Lengths
    <2>5. result = Unset => \A i \in 1 .. n - 1 : ~Concerns(Requirements[i], "activate")
      BY <1>1 DEF ChecksInv, WarningInv
    <2>6. \A i \in 1 .. n : Concerns(Requirements[i], "activate")' <=> Concerns(Requirements[i], "activate")
      BY <1>1, SameRegistry, Lengths
    <2>7. result' = Unset => result = Unset
      BY <1>1
    <2>8. hook' = "preActivate" /\ result' = Unset =>
              \A i \in 1 .. n' - 1 : ~Concerns(Requirements[i], "activate")'
      <3> SUFFICES ASSUME hook' = "preActivate", result' = Unset, NEW i \in 1 .. n' - 1
                   PROVE  ~Concerns(Requirements[i], "activate")'
        OBVIOUS
      <3>1. n' = n + 1 /\ ~Concerns(r, "activate")
        BY <1>1, <2>7
      <3>2. i \in 1 .. n /\ (i = n \/ i \in 1 .. n - 1)
        BY <1>1, <3>1, Lengths
      <3> QED
        BY <2>5, <2>6, <2>7, <3>1, <3>2
    <2>9. RefusedOnlyForFirst'
      <3> SUFFICES ASSUME hook' = "refused"
                   PROVE  /\ Requirements[n'].port \notin active'
                          /\ \A i \in 1 .. n' - 1 : ~Concerns(Requirements[i], "activate")'
        BY DEF RefusedOnlyForFirst
      <3>1. n' = n /\ result = Unset /\ r.port \notin active
        BY <1>1
      <3> QED
        BY <1>1, <2>5, <2>6, <3>1, Lengths
    <2>10. WarnedOf'
      BY <1>1 DEF WarnedOf
    <2> QED
      BY <2>4, <2>8, <2>9, <2>10 DEF WarningInv, ActivationWarns
  <1> QED
    BY <1>2, <1>3, <1>4, <1>5, <1>6 DEF ChecksInv

LEMMA EndChecksStep == ASSUME ChecksInv, EndChecks PROVE ChecksInv'
  <1>1. /\ n = Len(Requirements) + 1 /\ n' = 1
        /\ \/ hook = "preConfigure" /\ hook' = "conflictsConfigure"
           \/ hook = "preActivate" /\ hook' = "active"
        /\ active' = active /\ variants' = variants /\ depends' = depends /\ image' = image
        /\ warnings' = warnings /\ changes' = changes /\ steady' = steady /\ moved' = moved
        /\ result' = result
    BY Lengths DEF EndChecks, registry, ChecksInv, PlaceInv
  <1>2. ChecksTypeOK'
    <2>1. {i \in 1 .. Len(Requirements) : Concerns(Requirements[i], "activate")}' =
              {i \in 1 .. Len(Requirements) : Concerns(Requirements[i], "activate")}
      BY <1>1, SameConcerns
    <2> QED
      BY <1>1, Lengths, <2>1 DEF ChecksInv, ChecksTypeOK
  <1>3. PlaceInv'
    BY <1>1, Lengths DEF ChecksInv, PlaceInv, PhaseOf
  <1>4. RequiredInv'
    <2>1. hook' = "conflictsConfigure" => \A i \in 1 .. Len(Requirements) : Checked(i)
      BY <1>1, Lengths DEF ChecksInv, RequiredInv
    <2>2. \A i \in 1 .. Len(Requirements) : Checked(i) => Checked(i)'
      BY <1>1, SameRegistry DEF Checked
    <2> QED
      BY <1>1, <2>1, <2>2 DEF RequiredInv, Passed, Phases
  <1>5. ConflictInv'
    BY <1>1 DEF ChecksInv, ConflictInv, NoConflict, PhaseOf, Phases
  <1>6. WarningInv'
    <2>1. hook' = "active" => \A i \in 1 .. Len(Requirements) : Told(i)
      BY <1>1, Lengths DEF ChecksInv, WarningInv
    <2>2. \A i \in 1 .. Len(Requirements) : Told(i) => Told(i)'
      BY <1>1, SameRegistry DEF Told
    <2> QED
      BY <1>1, <2>1, <2>2 DEF WarningInv, ActivationWarns, WarnedOf, RefusedOnlyForFirst, Told
  <1> QED
    BY <1>2, <1>3, <1>4, <1>5, <1>6 DEF ChecksInv

LEMMA CheckConflictStep == ASSUME ChecksInv, CheckConflict PROVE ChecksInv'
  <1>1. /\ hook \in DOMAIN PhaseOf /\ n \in 1 .. Len(ConflictsBuild) + 1
        /\ active' = active /\ variants' = variants /\ depends' = depends /\ image' = image
        /\ warnings' = warnings /\ changes' = changes /\ moved' = moved
        /\ result' = result /\ steady' \subseteq steady
        /\ \/ n = Len(ConflictsBuild) + 1 /\ hook' = PhaseOf[hook] /\ n' = 1
           \/ n <= Len(ConflictsBuild) /\ hook' = FailureOf[hook] /\ n' = n
           \/ /\ n <= Len(ConflictsBuild) /\ ConflictsBuild[n] \notin steady'
              /\ n' = n + 1 /\ hook' = hook
    BY Lengths DEF CheckConflict, registry, ChecksInv, PlaceInv
  <1>2. /\ hook \in {"conflictsConfigure", "conflictsBuild", "conflictsDestroot"}
        /\ PhaseOf[hook] \in Phases
        /\ FailureOf[hook] \in {"failedConfigure", "failedBuild", "failedDestroot"}
    BY <1>1 DEF PhaseOf, FailureOf, Phases
  <1>3. ChecksTypeOK'
    <2>1. {i \in 1 .. Len(Requirements) : Concerns(Requirements[i], "activate")}' =
              {i \in 1 .. Len(Requirements) : Concerns(Requirements[i], "activate")}
      BY <1>1, SameConcerns
    <2> QED
      BY <1>1, <1>2, Lengths, <2>1 DEF ChecksInv, ChecksTypeOK, Phases
  <1>4. PlaceInv'
    BY <1>1, <1>2, Lengths DEF ChecksInv, PlaceInv, PhaseOf, Phases
  <1>5. RequiredInv'
    <2>1. \A i \in 1 .. Len(Requirements) : Checked(i)
      BY <1>2 DEF ChecksInv, RequiredInv, Passed
    <2>2. \A i \in 1 .. Len(Requirements) : Checked(i) => Checked(i)'
      BY <1>1, SameRegistry DEF Checked
    <2>3. hook' # "preConfigure"
      BY <1>1, <1>2 DEF Phases
    <2> QED
      BY <2>1, <2>2, <2>3 DEF RequiredInv
  <1>6. ConflictInv'
    <2>1. /\ steady \subseteq active
          /\ \A k \in 1 .. n - 1 : k \in 1 .. Len(ConflictsBuild) => ConflictsBuild[k] \notin steady
      BY <1>1 DEF ChecksInv, ConflictInv
    <2>2. hook' \in DOMAIN PhaseOf =>
              \A k \in 1 .. n' - 1 : k \in 1 .. Len(ConflictsBuild) => ConflictsBuild[k] \notin steady'
      <3> SUFFICES ASSUME hook' \in DOMAIN PhaseOf, NEW k \in 1 .. n' - 1, k \in 1 .. Len(ConflictsBuild)
                   PROVE  ConflictsBuild[k] \notin steady'
        OBVIOUS
      <3>1. n' = n + 1 /\ ConflictsBuild[n] \notin steady'
        BY <1>1, <1>2 DEF PhaseOf, Phases
      <3>2. k = n \/ k \in 1 .. n - 1
        BY <1>1, <3>1, Lengths
      <3> QED
        BY <1>1, <2>1, <3>1, <3>2
    <2>3. NoConflict'
      <3> SUFFICES ASSUME hook' \in Phases, NEW k \in 1 .. Len(ConflictsBuild)
                   PROVE  ConflictsBuild[k] \notin steady'
        BY <1>1 DEF NoConflict
      <3>1. n = Len(ConflictsBuild) + 1
        BY <1>1, <1>2 DEF Phases
      <3> QED
        BY <1>1, <2>1, <3>1, Lengths
    <2> QED
      BY <1>1, <2>1, <2>2, <2>3 DEF ConflictInv
  <1>7. WarningInv'
    BY <1>1, <1>2 DEF WarningInv, ActivationWarns, WarnedOf, RefusedOnlyForFirst, Phases
  <1> QED
    BY <1>3, <1>4, <1>5, <1>6, <1>7 DEF ChecksInv

LEMMA WorkStep == ASSUME ChecksInv, Work PROVE ChecksInv'
  <1>1. /\ active' = active /\ variants' = variants /\ depends' = depends
        /\ warnings' = warnings /\ changes' = changes /\ moved' = moved
        /\ \/ /\ hook \in Phases /\ hook' \in {"conflictsBuild", "conflictsDestroot"}
              /\ n' = 1 /\ result' = Unset /\ steady' = active /\ image' = image
           \/ /\ hook \in Phases /\ hook' = "installed" /\ image' = "source"
              /\ n' = n /\ result' = result /\ steady' = steady
    BY DEF Work, Enter, registry, Phases
  <1>2. ChecksTypeOK'
    <2>1. {i \in 1 .. Len(Requirements) : Concerns(Requirements[i], "activate")}' =
              {i \in 1 .. Len(Requirements) : Concerns(Requirements[i], "activate")}
      BY <1>1, SameConcerns
    <2> QED
      BY <1>1, Lengths, <2>1 DEF ChecksInv, ChecksTypeOK
  <1>3. PlaceInv'
    BY <1>1, Lengths DEF ChecksInv, PlaceInv, PhaseOf
  <1>4. RequiredInv'
    <2>1. \A i \in 1 .. Len(Requirements) : Checked(i)
      BY <1>1 DEF ChecksInv, RequiredInv, Passed
    <2>2. \A i \in 1 .. Len(Requirements) : Checked(i) => Checked(i)'
      BY <1>1, SameRegistry DEF Checked
    <2> QED
      BY <1>1, <2>1, <2>2 DEF RequiredInv
  <1>5. ConflictInv'
    BY <1>1 DEF ChecksInv, ConflictInv, NoConflict, PhaseOf, Phases
  <1>6. WarningInv'
    BY <1>1 DEF WarningInv, ActivationWarns, WarnedOf, RefusedOnlyForFirst
  <1> QED
    BY <1>2, <1>3, <1>4, <1>5, <1>6 DEF ChecksInv

LEMMA ResumeStep == ASSUME ChecksInv, Resume PROVE ChecksInv'
  <1>1. /\ \/ hook = "failedConfigure" /\ hook' = "preConfigure"
           \/ hook = "failedBuild" /\ hook' = "conflictsBuild"
           \/ hook = "failedDestroot" /\ hook' = "conflictsDestroot"
        /\ n' = 1 /\ result' = Unset /\ steady' = active
        /\ active' = active /\ variants' = variants /\ depends' = depends /\ image' = image
        /\ warnings' = warnings /\ changes' = changes /\ moved' = moved
    BY DEF Resume, Enter, registry
  <1>2. ChecksTypeOK'
    <2>1. {i \in 1 .. Len(Requirements) : Concerns(Requirements[i], "activate")}' =
              {i \in 1 .. Len(Requirements) : Concerns(Requirements[i], "activate")}
      BY <1>1, SameConcerns
    <2> QED
      BY <1>1, Lengths, <2>1 DEF ChecksInv, ChecksTypeOK
  <1>3. PlaceInv'
    BY <1>1, Lengths DEF ChecksInv, PlaceInv, PhaseOf
  <1>4. RequiredInv'
    <2>1. hook' # "preConfigure" => \A i \in 1 .. Len(Requirements) : Checked(i)
      BY <1>1 DEF ChecksInv, RequiredInv, Passed
    <2>2. \A i \in 1 .. Len(Requirements) : Checked(i) => Checked(i)'
      BY <1>1, SameRegistry DEF Checked
    <2> QED
      BY <1>1, <2>1, <2>2 DEF RequiredInv, Passed, Phases
  <1>5. ConflictInv'
    BY <1>1 DEF ConflictInv, NoConflict, PhaseOf, Phases
  <1>6. WarningInv'
    BY <1>1 DEF WarningInv, ActivationWarns, WarnedOf, RefusedOnlyForFirst
  <1> QED
    BY <1>2, <1>3, <1>4, <1>5, <1>6 DEF ChecksInv

LEMMA ActivateStep == ASSUME ChecksInv, Activate PROVE ChecksInv'
  <1>1. /\ hook \in {"installed", "refused"} /\ hook' = "preActivate"
        /\ n' = 1 /\ result' = Unset /\ steady' = active /\ warnings' = {}
        /\ active' = active /\ variants' = variants /\ depends' = depends /\ image' = image
        /\ changes' = changes /\ moved' = moved
    BY DEF Activate, Enter, registry
  <1>2. ChecksTypeOK'
    <2>1. {i \in 1 .. Len(Requirements) : Concerns(Requirements[i], "activate")}' =
              {i \in 1 .. Len(Requirements) : Concerns(Requirements[i], "activate")}
      BY <1>1, SameConcerns
    <2> QED
      BY <1>1, Lengths, <2>1 DEF ChecksInv, ChecksTypeOK
  <1>3. PlaceInv'
    BY <1>1, Lengths DEF ChecksInv, PlaceInv, PhaseOf
  <1>4. RequiredInv'
    BY <1>1 DEF RequiredInv, Passed, Phases
  <1>5. ConflictInv'
    BY <1>1 DEF ConflictInv, NoConflict, PhaseOf, Phases
  <1>6. WarningInv'
    BY <1>1 DEF WarningInv, ActivationWarns, WarnedOf, RefusedOnlyForFirst
  <1> QED
    BY <1>2, <1>3, <1>4, <1>5, <1>6 DEF ChecksInv

LEMMA DeactivateStep == ASSUME ChecksInv, Deactivate PROVE ChecksInv'
  <1>1. /\ hook = "active" /\ hook' = "installed"
        /\ n' = n /\ result' = result /\ steady' = steady /\ warnings' = warnings
        /\ active' = active /\ variants' = variants /\ depends' = depends /\ image' = image
        /\ changes' = changes /\ moved' = moved
    BY DEF Deactivate, registry
  <1>2. ChecksTypeOK'
    <2>1. {i \in 1 .. Len(Requirements) : Concerns(Requirements[i], "activate")}' =
              {i \in 1 .. Len(Requirements) : Concerns(Requirements[i], "activate")}
      BY <1>1, SameConcerns
    <2> QED
      BY <1>1, Lengths, <2>1 DEF ChecksInv, ChecksTypeOK
  <1>3. PlaceInv'
    BY <1>1, Lengths DEF ChecksInv, PlaceInv, PhaseOf
  <1>4. RequiredInv'
    BY <1>1 DEF RequiredInv, Passed, Phases
  <1>5. ConflictInv'
    BY <1>1 DEF ChecksInv, ConflictInv, NoConflict, PhaseOf, Phases
  <1>6. WarningInv'
    BY <1>1 DEF WarningInv, ActivationWarns, WarnedOf, RefusedOnlyForFirst
  <1> QED
    BY <1>2, <1>3, <1>4, <1>5, <1>6 DEF ChecksInv

\* A change of the registry is seen by the requirements of that port, which are
\* known to have moved, and by no others.
LEMMA ChangeRegistryStep ==
    ASSUME ChecksInv, NEW p \in Ports, ChangeRegistry(p) PROVE ChecksInv'
  <1>1. /\ changes' = changes + 1 /\ steady' = steady \cap active'
        /\ moved' = moved \cup {i \in 1 .. Len(Requirements) : Requirements[i].port = p}
        /\ depends' = depends /\ hook' = hook /\ n' = n /\ result' = result
        /\ image' = image /\ warnings' = warnings
    BY DEF ChangeRegistry
  <1>2. /\ active' = active \ {p} \/ active' = active \cup {p}
        /\ \E v \in SUBSET VariantsOf[p] : variants' = [variants EXCEPT ![p] = v]
    BY DEF ChangeRegistry
  <1>3. variants' \in Registrable /\ active' \subseteq Ports
    BY <1>2 DEF ChecksInv, ChecksTypeOK, Registrable
  <1>4. \A i \in 1 .. Len(Requirements) :
            /\ \A m : Concerns(Requirements[i], m)' <=> Concerns(Requirements[i], m)
            /\ i \notin moved' => (Holds(Requirements[i])' <=> Holds(Requirements[i]))
    <2> SUFFICES ASSUME NEW i \in 1 .. Len(Requirements)
                 PROVE  /\ \A m : Concerns(Requirements[i], m)' <=> Concerns(Requirements[i], m)
                        /\ i \notin moved' => (Holds(Requirements[i])' <=> Holds(Requirements[i]))
      OBVIOUS
    <2>1. \A m : Concerns(Requirements[i], m)' <=> Concerns(Requirements[i], m)
      BY <1>1 DEF Concerns
    <2>2. ASSUME i \notin moved' PROVE Holds(Requirements[i])' <=> Holds(Requirements[i])
      <3> DEFINE q == Requirements[i].port
      <3>1. q # p /\ q \in Ports
        BY <1>1, <2>2, RequirementType
      <3>2. variants'[q] = variants[q] /\ (q \in active' <=> q \in active)
        BY <1>2, <3>1 DEF ChecksInv, ChecksTypeOK, Registrable
      <3> QED
        BY <3>2 DEF Holds, Accepts
    <2> QED
      BY <2>1, <2>2
  <1>5. ChecksTypeOK'
    <2>0. changes \in Nat /\ moved \subseteq 1 .. Len(Requirements)
      BY DEF ChecksInv, ChecksTypeOK
    <2>1. changes' \in Nat /\ steady' \subseteq Ports /\ moved' \subseteq 1 .. Len(Requirements)
      <3>1. changes' \in Nat
        BY <1>1, <2>0
      <3>2. steady' \subseteq Ports
        BY <1>1, <1>3
      <3>3. moved' \subseteq 1 .. Len(Requirements)
        BY <1>1, <2>0
      <3> QED
        BY <3>1, <3>2, <3>3
    <2>2. warnings' \subseteq {i \in 1 .. Len(Requirements) : Concerns(Requirements[i], "activate")'}
      BY <1>1, <1>4 DEF ChecksInv, ChecksTypeOK
    <2> QED
      BY <1>1, <1>3, <2>1, <2>2 DEF ChecksInv, ChecksTypeOK
  <1>6. PlaceInv'
    BY <1>1 DEF ChecksInv, PlaceInv, PhaseOf
  <1>7. \A i \in 1 .. Len(Requirements) : (Checked(i) => Checked(i)') /\ (Told(i) => Told(i)')
    BY <1>1, <1>4 DEF Checked, Told
  <1>8. RequiredInv'
    BY <1>1, <1>7 DEF ChecksInv, RequiredInv
  <1>9. ConflictInv'
    BY <1>1 DEF ChecksInv, ConflictInv, NoConflict
  <1>10. WarningInv'
    <2>1. hook' = "preActivate" =>
              \A i \in 1 .. Len(Requirements) : IF i < n' THEN Told(i)' ELSE i \notin warnings'
      BY <1>1, <1>7 DEF ChecksInv, WarningInv
    <2>2. hook = "preActivate" => n \in 1 .. Len(Requirements) + 1
      BY DEF ChecksInv, PlaceInv
    <2>3. hook' = "preActivate" /\ result' = Unset =>
              \A i \in 1 .. n' - 1 : ~Concerns(Requirements[i], "activate")'
      BY <1>1, <1>4, <2>2, Lengths DEF ChecksInv, WarningInv
    <2>4. WarnedOf'
      BY <1>1, <1>7 DEF ChecksInv, WarningInv, ActivationWarns, WarnedOf, Told
    <2>5. RefusedOnlyForFirst'
      <3> SUFFICES ASSUME hook = "refused"
                   PROVE  /\ n \in moved' \/ Requirements[n].port \notin active'
                          /\ \A i \in 1 .. n - 1 : ~Concerns(Requirements[i], "activate")'
        BY <1>1 DEF RefusedOnlyForFirst
      <3>1. n \in 1 .. Len(Requirements)
        BY DEF ChecksInv, PlaceInv
      <3>2. /\ n \in moved \/ Requirements[n].port \notin active
            /\ \A i \in 1 .. n - 1 : ~Concerns(Requirements[i], "activate")
        BY DEF ChecksInv, WarningInv, ActivationWarns, RefusedOnlyForFirst
      <3>3. n \in moved' \/ Requirements[n].port \notin active'
        BY <1>1, <1>2, <3>1, <3>2
      <3>4. \A i \in 1 .. n - 1 : i \in 1 .. Len(Requirements)
        BY <3>1, Lengths
      <3> QED
        BY <1>4, <3>2, <3>3, <3>4
    <2> QED
      BY <2>1, <2>3, <2>4, <2>5 DEF WarningInv, ActivationWarns
  <1> QED
    BY <1>5, <1>6, <1>8, <1>9, <1>10 DEF ChecksInv

LEMMA ChecksInductive == ChecksInv /\ [ChecksNext]_checkVars => ChecksInv'
  <1> SUFFICES ASSUME ChecksInv, [ChecksNext]_checkVars PROVE ChecksInv'
    OBVIOUS
  <1>1. CASE ChecksNext
    BY <1>1, InstallStep, CheckSourceStep, CheckActivateStep, EndChecksStep, CheckConflictStep,
       WorkStep, ResumeStep, ActivateStep, DeactivateStep, ChangeRegistryStep DEF ChecksNext
  <1>2. CASE UNCHANGED checkVars
    <2>1. /\ hook' = hook /\ n' = n /\ result' = result /\ steady' = steady /\ warnings' = warnings
          /\ active' = active /\ variants' = variants /\ depends' = depends /\ image' = image
          /\ changes' = changes /\ moved' = moved
      BY <1>2 DEF checkVars, registry
    <2>2. ChecksTypeOK' /\ PlaceInv'
      BY <2>1, SameRegistry DEF ChecksInv, ChecksTypeOK, PlaceInv
    <2>3. \A i \in 1 .. Len(Requirements) : (Checked(i) => Checked(i)') /\ (Told(i) => Told(i)')
      BY <2>1, SameRegistry DEF Checked, Told
    <2>4. RequiredInv' /\ ConflictInv'
      BY <2>1, <2>3 DEF ChecksInv, RequiredInv, ConflictInv, NoConflict
    <2>5. WarningInv'
      BY <2>1, <2>3 DEF ChecksInv, WarningInv, ActivationWarns, WarnedOf, RefusedOnlyForFirst, Told,
                        Concerns
    <2> QED
      BY <2>2, <2>4, <2>5 DEF ChecksInv
  <1> QED
    BY <1>1, <1>2

\* The invariant holds for every list of requirements and of conflicts.
THEOREM ChecksInvariance == ChecksSpec => []ChecksInv
  <1> QED
    BY ChecksInitInv, ChecksInductive, PTL DEF ChecksSpec

\* The variables keep their types, and only an activation warns.
THEOREM ChecksTypeCorrect == ChecksSpec => []ChecksTypeOK
  <1>1. ChecksInv => ChecksTypeOK
    BY DEF ChecksInv
  <1> QED
    BY <1>1, ChecksInvariance, PTL

\* Every phase of a build finds its dependencies as they were required, but for
\* those exchanged since they were checked.
THEOREM PhasesFindRequired == ChecksSpec => []BuiltAsRequired
  <1>1. ChecksInv => BuiltAsRequired
    BY DEF ChecksInv, RequiredInv, BuiltAsRequired, Passed, Checked
  <1> QED
    BY <1>1, ChecksInvariance, PTL

\* No phase runs whose hooks a conflicting port was active through, unless a
\* query of it failed.
THEOREM ConflictsSeen == ChecksSpec => []NoConflict
  <1>1. ChecksInv => NoConflict
    BY DEF ChecksInv, ConflictInv
  <1> QED
    BY <1>1, ChecksInvariance, PTL

\* An activation warns of exactly the dependencies that are not as required,
\* and is refused for the first of them only.
THEOREM WarnsRightly == ChecksSpec => []ActivationWarns
  <1>1. ChecksInv => ActivationWarns
    BY DEF ChecksInv, WarningInv
  <1> QED
    BY <1>1, ChecksInvariance, PTL
=============================================================================
