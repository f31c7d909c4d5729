-------------------------- MODULE PortGroupProofs ---------------------------
(* What three PortGroups keep.  With legacysupport a port's flags are those  *)
(* of the last evaluation and of no other, for every system, every set of    *)
(* versions and every Portfile of any length.  With muniversal each          *)
(* architecture works in directories of its own, at most two are left where  *)
(* three cannot be merged, each finds its own in the tree that is merged at  *)
(* the end, and merges fail only for a reason, for every port, host and set  *)
(* of files.  With xmlcatalog active ports are served and nothing is left    *)
(* over, for all Portfiles, ports and numbers of failing hooks.              *)
EXTENDS Legacysupport, Muniversal, XmlCatalog, FiniteSetTheorems, SequenceTheorems,
        WellFoundedInduction, TLAPS

-----------------------------------------------------------------------------
(* PortGroup legacysupport: what an evaluation that enables support does,    *)
(* option by option.                                                         *)

\* The flags that are left when the old settings are cleaned out.
Rest(flags, cached) == IF cache.incpath = {} THEN flags ELSE flags \ cached

CacheOf(o) == [incpath |-> Include(o), ldflags |-> Link(o), cppflags |-> Cpp(o)]

\* The flags of any options are of the types of flags, and there are some.
LEMMA FlagTypes ==
    \A o \in Options :
        /\ Link(o) \in SUBSET LinkFlags /\ Cpp(o) \in SUBSET CppFlags
        /\ Include(o) \in SUBSET Dirs /\ Include(o) # {}
        /\ CacheOf(o) \in Cache
  <1> SUFFICES ASSUME NEW o \in Options
               PROVE  /\ Link(o) \in SUBSET LinkFlags /\ Cpp(o) \in SUBSET CppFlags
                      /\ Include(o) \in SUBSET Dirs /\ Include(o) # {}
                      /\ CacheOf(o) \in Cache
    OBVIOUS
  <1>1. Link(o) \in SUBSET LinkFlags
    BY DEF Link, LinkFlags
  <1>2. Cpp(o) \in SUBSET CppFlags
    BY DEF Cpp, CppFlags
  <1>3. Include(o) \in SUBSET Dirs /\ Include(o) # {}
    BY DEF Include, Dirs
  <1> QED
    BY <1>1, <1>2, <1>3 DEF CacheOf, Cache

\* The four procs one after the other.
LEMMA EvaluateDoes ==
    ASSUME NEW o \in Options, port \in Port, cache \in Cache, Evaluate(o), Enabled(o)
    PROVE  /\ port' \in Port
           /\ port'.ldflags = Rest(port.ldflags, cache.ldflags) \cup Link(o)
           /\ port'.cppflags = Rest(port.cppflags, cache.cppflags)
                                   \cup (IF o.limit THEN {} ELSE Cpp(o))
           /\ port'.includePaths = Rest(port.includePaths, {cache.incpath}) \cup {Include(o)}
           /\ port'.envLdflags = Link(o)
           /\ ~o.limit => port'.envCppflags = Cpp(o)
           /\ port'.labels = port.labels \cup {"ENABLED"}
           /\ port'.dependsLib = port.dependsLib
                  \cup (IF o.static THEN {} ELSE {"legacy-support"})
                  \cup (IF UsesLibcxx(o) THEN {"macports-libcxx"} ELSE {})
           /\ port'.dependsBuild = port.dependsBuild
                  \cup (IF o.static THEN {"legacy-support"} ELSE {})
  <1> DEFINE d == Depend(port, o)
             c == Clean(d, o)
             a == AddFlags(c, o)
  <1>1. port' = Label(a, o)
    BY DEF Evaluate
  <1>2. d = [port EXCEPT
               !.dependsBuild = port.dependsBuild
                   \cup (IF o.static THEN {"legacy-support"} ELSE {}),
               !.dependsLib = port.dependsLib
                   \cup (IF o.static THEN {} ELSE {"legacy-support"})
                   \cup (IF UsesLibcxx(o) THEN {"macports-libcxx"} ELSE {})]
    BY DEF Depend, Port
  <1>3. d \in Port
    <2>1. /\ port.dependsBuild \cup (IF o.static THEN {"legacy-support"} ELSE {})
                \in SUBSET {"legacy-support"}
          /\ port.dependsLib \cup (IF o.static THEN {} ELSE {"legacy-support"})
                \cup (IF UsesLibcxx(o) THEN {"macports-libcxx"} ELSE {})
                \in SUBSET {"legacy-support", "macports-libcxx"}
      BY DEF Port
    <2> QED
      BY <1>2, <2>1 DEF Port
  <1>4. c = [d EXCEPT !.ldflags = Rest(d.ldflags, cache.ldflags),
                      !.cppflags = Rest(d.cppflags, cache.cppflags),
                      !.includePaths = Rest(d.includePaths, {cache.incpath})]
    <2>1. CASE cache.incpath = {}
      BY <1>3, <2>1 DEF Clean, Rest, Port
    <2>2. CASE cache.incpath # {}
      BY <1>3, <2>2 DEF Clean, Rest
    <2> QED
      BY <2>1, <2>2
  <1>5. c \in Port
    <2>1. /\ Rest(d.ldflags, cache.ldflags) \in SUBSET LinkFlags
          /\ Rest(d.cppflags, cache.cppflags) \in SUBSET CppFlags
          /\ Rest(d.includePaths, {cache.incpath}) \in SUBSET SUBSET Dirs
      BY <1>3 DEF Rest, Port
    <2> QED
      BY <1>3, <1>4, <2>1 DEF Port
  <1>6. a = [c EXCEPT !.ldflags = c.ldflags \cup Link(o), !.envLdflags = Link(o),
                      !.cppflags = c.cppflags \cup (IF o.limit THEN {} ELSE Cpp(o)),
                      !.envCppflags = IF o.limit THEN c.envCppflags ELSE Cpp(o),
                      !.includePaths = c.includePaths \cup {Include(o)}]
    BY <1>5 DEF AddFlags, Port
  <1>7. a \in Port
    <2>1. /\ c.ldflags \cup Link(o) \in SUBSET LinkFlags
          /\ Link(o) \in SUBSET LinkFlags
          /\ c.cppflags \cup (IF o.limit THEN {} ELSE Cpp(o)) \in SUBSET CppFlags
          /\ (IF o.limit THEN c.envCppflags ELSE Cpp(o)) \in SUBSET CppFlags
          /\ c.includePaths \cup {Include(o)} \in SUBSET SUBSET Dirs
      <3>1. /\ c.ldflags \in SUBSET LinkFlags /\ c.cppflags \in SUBSET CppFlags
            /\ c.envCppflags \in SUBSET CppFlags /\ c.includePaths \in SUBSET SUBSET Dirs
        BY <1>5 DEF Port
      <3>2. /\ Link(o) \in SUBSET LinkFlags /\ Cpp(o) \in SUBSET CppFlags
            /\ Include(o) \in SUBSET Dirs
        BY FlagTypes
      <3> HIDE DEF c
      <3> QED
        BY <3>1, <3>2
    <2> QED
      BY <1>5, <1>6, <2>1 DEF Port
  <1>8. port' = [a EXCEPT !.labels = a.labels \cup {"ENABLED"},
                          !.dyldPath = a.dyldPath \/ (o.darwin /\ o.stdlib = "macports-libstdc++")]
    BY <1>1 DEF Label
  <1>9. port' \in Port
    BY <1>7, <1>8 DEF Port, Labels
  <1> HIDE DEF d, c, a
  <1>a. /\ d.ldflags = port.ldflags /\ d.cppflags = port.cppflags
        /\ d.includePaths = port.includePaths /\ d.labels = port.labels
        /\ d.dependsLib = port.dependsLib
               \cup (IF o.static THEN {} ELSE {"legacy-support"})
               \cup (IF UsesLibcxx(o) THEN {"macports-libcxx"} ELSE {})
        /\ d.dependsBuild = port.dependsBuild \cup (IF o.static THEN {"legacy-support"} ELSE {})
    BY <1>2 DEF Port
  <1>b. /\ c.ldflags = Rest(d.ldflags, cache.ldflags)
        /\ c.cppflags = Rest(d.cppflags, cache.cppflags)
        /\ c.includePaths = Rest(d.includePaths, {cache.incpath})
        /\ c.labels = d.labels /\ c.dependsLib = d.dependsLib /\ c.dependsBuild = d.dependsBuild
    BY <1>3, <1>4 DEF Port
  <1>c. /\ a.ldflags = c.ldflags \cup Link(o) /\ a.envLdflags = Link(o)
        /\ a.cppflags = c.cppflags \cup (IF o.limit THEN {} ELSE Cpp(o))
        /\ ~o.limit => a.envCppflags = Cpp(o)
        /\ a.includePaths = c.includePaths \cup {Include(o)}
        /\ a.labels = c.labels /\ a.dependsLib = c.dependsLib /\ a.dependsBuild = c.dependsBuild
    BY <1>5, <1>6 DEF Port
  <1>d. /\ port'.ldflags = a.ldflags /\ port'.cppflags = a.cppflags
        /\ port'.envLdflags = a.envLdflags /\ port'.envCppflags = a.envCppflags
        /\ port'.includePaths = a.includePaths /\ port'.labels = a.labels \cup {"ENABLED"}
        /\ port'.dependsLib = a.dependsLib /\ port'.dependsBuild = a.dependsBuild
    BY <1>7, <1>8 DEF Port
  <1> QED
    BY <1>9, <1>a, <1>b, <1>c, <1>d

\* One that does not only labels the port.
LEMMA EvaluateLabels ==
    ASSUME NEW o \in Options, port \in Port, Evaluate(o), ~Enabled(o)
    PROVE  /\ port' \in Port
           /\ port'.ldflags = port.ldflags /\ port'.cppflags = port.cppflags
           /\ port'.includePaths = port.includePaths
           /\ port'.envLdflags = port.envLdflags /\ port'.envCppflags = port.envCppflags
           /\ port'.dependsLib = port.dependsLib /\ port'.dependsBuild = port.dependsBuild
           /\ port'.labels = port.labels \cup {"DISABLED"}
           /\ cache' = cache
  <1>1. port' = [port EXCEPT !.labels = port.labels \cup {"DISABLED"},
                             !.dyldPath = port.dyldPath \/ (o.darwin /\ o.stdlib = "macports-libstdc++")]
    BY DEF Evaluate, Label
  <1>2. cache' = cache
    BY DEF Evaluate
  <1> QED
    BY <1>1, <1>2 DEF Port, Labels

-----------------------------------------------------------------------------
(* The inductive invariant. *)

\* The cache is empty until an evaluation enables support, and from then on
\* holds what one of them did: the last, if the last did.
CacheInv ==
    /\ cache.incpath = {} => Added = {} /\ cache.ldflags = {} /\ cache.cppflags = {}
    /\ cache.incpath # {} => \E o \in Added : cache = CacheOf(o)
    /\ \A o \in last : last = {o} /\ (Enabled(o) => cache = CacheOf(o))

\* What there is to take back is in the cache, and what is in the cache is in
\* place, unless the Portfile has changed it: the flags or the environment.
FlagsInv ==
    /\ port.ldflags \subseteq cache.ldflags \cup {"search"}
    /\ port.cppflags \subseteq cache.cppflags
    /\ port.includePaths \subseteq {cache.incpath}
    /\ cache.incpath = {} => port.includePaths = {}
    /\ ~ownLink => cache.ldflags \subseteq port.ldflags
    /\ port.envLdflags \in {cache.ldflags, {}}

\* The dependencies the flags of an evaluation need.
DependsFor(o) ==
    /\ o.static => "legacy-support" \in port.dependsBuild
    /\ ~o.static => "legacy-support" \in port.dependsLib
    /\ UsesLibcxx(o) => "macports-libcxx" \in port.dependsLib

\* They stay, unless the Portfile assigns its dependencies, and those of the
\* last evaluation are there when it has ended.
DependsInv ==
    /\ ~ownDepends => \A o \in Added : DependsFor(o)
    /\ Parsed => \A o \in last : Enabled(o) => DependsFor(o)

IInv ==
    /\ TypeOK /\ CacheInv /\ FlagsInv /\ DependsInv
    /\ LinkedAsLast /\ SearchPathKept /\ NothingWhereUnneeded /\ Labelled

LEMMA InitIInv == Init => IInv
  <1> SUFFICES ASSUME Init PROVE IInv
    OBVIOUS
  <1>1. PICK stdlib \in Stdlibs, darwin \in BOOLEAN :
            options = [newest |-> DefaultNewest, static |-> FALSE, libcxx |-> FALSE,
                       limit |-> FALSE, stdlib |-> stdlib, darwin |-> darwin]
    BY DEF Init
  <1>2. options \in Options
    BY <1>1, LegacyAssumption DEF Options
  <1>3. port \in Port /\ cache \in Cache
    BY DEF Init, Port, Cache, LinkFlags, Labels
  <1>4. TypeOK
    <2>1. statements \in 0 .. MaxStatements
      BY LegacyAssumption DEF Init
    <2>2. /\ last \subseteq evals /\ envEvals \subseteq evals /\ evals \subseteq Options
          /\ ownLink \in BOOLEAN /\ ownDepends \in BOOLEAN
      BY DEF Init
    <2> QED
      BY <1>2, <1>3, <2>1, <2>2 DEF Init, TypeOK
  <1>5. Added = {} /\ last = {} /\ evals = {} /\ envEvals = {}
    BY DEF Init, Added
  <1>6. CacheInv /\ FlagsInv /\ DependsInv
    BY <1>5 DEF Init, CacheInv, FlagsInv, DependsInv
  <1>7. LinkedAsLast /\ NothingWhereUnneeded /\ Labelled
    BY <1>5 DEF Init, LinkedAsLast, NothingWhereUnneeded, Labelled
  <1>8. SearchPathKept
    BY <1>5 DEF Init, SearchPathKept
  <1> QED
    BY <1>4, <1>6, <1>7, <1>8 DEF IInv

\* An evaluation that enables support restores every part.
LEMMA EnabledKeeps ==
    ASSUME NEW o \in Options, IInv, Evaluate(o), Enabled(o),
           ownLink' = ownLink, ownDepends' = ownDepends, options' \in Options,
           pc' \in {"portfile", "callbacks", "done"}, statements' \in 0 .. MaxStatements
    PROVE  IInv'
  <1> DEFINE rest == Rest(port.ldflags, cache.ldflags)
  <1>1. TypeOK /\ port \in Port /\ cache \in Cache
    BY DEF IInv, TypeOK
  <1>2. /\ port' \in Port
        /\ port'.ldflags = rest \cup Link(o)
        /\ port'.cppflags = Rest(port.cppflags, cache.cppflags)
                                \cup (IF o.limit THEN {} ELSE Cpp(o))
        /\ port'.includePaths = Rest(port.includePaths, {cache.incpath}) \cup {Include(o)}
        /\ port'.envLdflags = Link(o)
        /\ ~o.limit => port'.envCppflags = Cpp(o)
        /\ port'.labels = port.labels \cup {"ENABLED"}
        /\ port'.dependsLib = port.dependsLib
               \cup (IF o.static THEN {} ELSE {"legacy-support"})
               \cup (IF UsesLibcxx(o) THEN {"macports-libcxx"} ELSE {})
        /\ port'.dependsBuild = port.dependsBuild
               \cup (IF o.static THEN {"legacy-support"} ELSE {})
    BY <1>1, EvaluateDoes
  <1>3. /\ last' = {o} /\ evals' = evals \cup {o} /\ envEvals' = envEvals \cup {o}
        /\ cache' = CacheOf(o)
    BY DEF Evaluate, CacheOf
  <1>4. Added' = Added \cup {o}
    BY <1>3 DEF Added, Enabled
  <1>5. cache'.incpath = Include(o) /\ cache'.ldflags = Link(o) /\ cache'.cppflags = Cpp(o)
    BY <1>3 DEF CacheOf
  <1>6. cache' \in Cache /\ Include(o) # {}
    BY <1>3, FlagTypes
  <1>7. TypeOK'
    BY <1>1, <1>2, <1>3, <1>6 DEF TypeOK
  <1>8. /\ rest \subseteq {"search"}
        /\ Rest(port.cppflags, cache.cppflags) = {}
        /\ Rest(port.includePaths, {cache.incpath}) = {}
    BY DEF IInv, CacheInv, FlagsInv, Rest
  <1>9. CacheInv'
    <2>1. \E q \in Added' : cache' = CacheOf(q)
      BY <1>3, <1>4
    <2>2. \A q \in last' : last' = {q} /\ cache' = CacheOf(q)
      BY <1>3
    <2>3. cache'.incpath # {}
      BY <1>5, <1>6
    <2> QED
      BY <2>1, <2>2, <2>3 DEF CacheInv, CacheOf, Include, Link, Cpp, UsesLibcxx, Enabled
  <1> HIDE DEF rest
  <1>a. FlagsInv'
    BY <1>2, <1>5, <1>6, <1>8 DEF FlagsInv
  <1>b. DependsInv'
    <2>1. DependsFor(o)'
      BY <1>2 DEF DependsFor, UsesLibcxx
    <2>2. ASSUME NEW q \in Added, DependsFor(q) PROVE DependsFor(q)'
      BY <1>2, <2>2 DEF DependsFor, UsesLibcxx
    <2>3. ~ownDepends => \A q \in Added' : DependsFor(q)'
      BY <1>4, <2>1, <2>2 DEF IInv, DependsInv
    <2>4. \A q \in last' : DependsFor(q)'
      BY <1>3, <2>1
    <2> QED
      BY <2>3, <2>4 DEF DependsInv
  <1>c. LinkedAsLast'
    <2>1. /\ Link(o) \subseteq port'.ldflags
          /\ port'.ldflags \subseteq Link(o) \cup {"search"}
          /\ port'.cppflags = (IF o.limit THEN {} ELSE Cpp(o))
          /\ port'.envLdflags = Link(o)
          /\ o.limit \/ port'.envCppflags = Cpp(o)
          /\ port'.includePaths = {Include(o)}
      BY <1>2, <1>8
    <2> QED
      BY <2>1, <1>3 DEF LinkedAsLast, Link, Cpp, Include, UsesLibcxx, Enabled
  <1>d. NothingWhereUnneeded'
    BY <1>4 DEF NothingWhereUnneeded
  <1>e. Labelled'
    <2>1. "ENABLED" \in port'.labels /\ ("DISABLED" \in port'.labels <=> "DISABLED" \in port.labels)
      BY <1>2
    <2>2. "DISABLED" \in port.labels <=> \E q \in envEvals : ~Enabled(q)
      BY DEF IInv, Labelled
    <2>3. /\ \E q \in envEvals' : Enabled(q)
          /\ (\E q \in envEvals' : ~Enabled(q)) <=> \E q \in envEvals : ~Enabled(q)
      BY <1>3
    <2> QED
      BY <2>1, <2>2, <2>3 DEF Labelled, Enabled
  <1>f. SearchPathKept'
    <2> SUFFICES ASSUME ~ownLink
                 PROVE  "search" \notin port'.ldflags <=>
                            "archive" \in port'.ldflags /\ \E q \in Added' : ~q.static
      BY DEF SearchPathKept
    <2>1. CASE ~o.static
      <3>1. "search" \in Link(o) /\ "archive" \notin Link(o)
        BY <2>1 DEF Link
      <3> QED
        BY <3>1, <1>2, <1>8
    <2>2. CASE o.static
      <3>1. "archive" \in port'.ldflags /\ ("search" \in port'.ldflags <=> "search" \in rest)
        BY <2>2, <1>2 DEF Link
      <3>2. (\E q \in Added' : ~q.static) <=> (\E q \in Added : ~q.static)
        BY <1>4, <2>2
      <3>3. "search" \notin rest <=> \E q \in Added : ~q.static
        <4>1. CASE cache.incpath = {}
          BY <4>1 DEF rest, Rest, IInv, CacheInv, FlagsInv, SearchPathKept
        <4>2. CASE cache.incpath # {}
          <5>1. PICK q \in Added : cache = CacheOf(q)
            BY <4>2 DEF IInv, CacheInv
          <5>2. cache.ldflags = Link(q) /\ cache.ldflags \subseteq port.ldflags
            BY <5>1 DEF CacheOf, IInv, FlagsInv
          <5>3. CASE ~q.static
            BY <5>2, <5>3, <4>2 DEF Link, rest, Rest
          <5>4. CASE q.static
            <6>1. "archive" \in port.ldflags /\ "search" \notin cache.ldflags
              BY <5>2, <5>4 DEF Link
            <6>2. "search" \notin rest <=> "search" \notin port.ldflags
              BY <6>1 DEF rest, Rest
            <6> QED
              BY <6>1, <6>2 DEF IInv, SearchPathKept
          <5> QED
            BY <5>3, <5>4
        <4> QED
          BY <4>1, <4>2
      <3> QED
        BY <3>1, <3>2, <3>3
    <2> QED
      BY <2>1, <2>2
  <1> QED
    BY <1>7, <1>9, <1>a, <1>b, <1>c, <1>d, <1>e, <1>f DEF IInv

\* So does one that only labels.
LEMMA DisabledKeeps ==
    ASSUME NEW o \in Options, IInv, Evaluate(o), ~Enabled(o),
           ownLink' = ownLink, ownDepends' = ownDepends, options' \in Options,
           pc' \in {"portfile", "callbacks", "done"}, statements' \in 0 .. MaxStatements
    PROVE  IInv'
  <1>1. TypeOK /\ port \in Port /\ cache \in Cache
    BY DEF IInv, TypeOK
  <1>2. /\ port' \in Port
        /\ port'.ldflags = port.ldflags /\ port'.cppflags = port.cppflags
        /\ port'.includePaths = port.includePaths
        /\ port'.envLdflags = port.envLdflags /\ port'.envCppflags = port.envCppflags
        /\ port'.dependsLib = port.dependsLib /\ port'.dependsBuild = port.dependsBuild
        /\ port'.labels = port.labels \cup {"DISABLED"}
        /\ cache' = cache
    BY <1>1, EvaluateLabels
  <1>3. last' = {o} /\ evals' = evals \cup {o} /\ envEvals' = envEvals \cup {o}
    BY DEF Evaluate
  <1>4. Added' = Added
    BY <1>3 DEF Added, Enabled
  <1>5. TypeOK'
    BY <1>1, <1>2, <1>3 DEF TypeOK
  <1>6. CacheInv'
    <2>1. \A q \in last' : last' = {q} /\ ~Enabled(q)
      BY <1>3
    <2>2. /\ cache.incpath = {} => Added = {} /\ cache.ldflags = {} /\ cache.cppflags = {}
          /\ cache.incpath # {} => \E q \in Added : cache = CacheOf(q)
      BY DEF IInv, CacheInv
    <2>3. \A q \in last' : ~Enabled(q)'
      BY <2>1 DEF Enabled
    <2>4. cache'.incpath # {} => \E q \in Added' : cache' = CacheOf(q)'
      BY <1>2, <1>4, <2>2 DEF CacheOf, Include, Link, Cpp, UsesLibcxx
    <2> QED
      BY <1>2, <1>4, <2>1, <2>2, <2>3, <2>4 DEF CacheInv
  <1>7. FlagsInv'
    BY <1>2 DEF IInv, FlagsInv
  <1>8. DependsInv'
    <2>1. ASSUME NEW q \in Added, DependsFor(q) PROVE DependsFor(q)'
      BY <1>2, <2>1 DEF DependsFor, UsesLibcxx
    <2>2. ~ownDepends => \A q \in Added' : DependsFor(q)'
      BY <1>4, <2>1 DEF IInv, DependsInv
    <2>3. \A q \in last' : ~Enabled(q)'
      BY <1>3 DEF Enabled
    <2> QED
      BY <2>2, <2>3 DEF DependsInv
  <1>9. LinkedAsLast'
    BY <1>3 DEF LinkedAsLast, Enabled
  <1>a. NothingWhereUnneeded'
    BY <1>2, <1>4 DEF IInv, NothingWhereUnneeded
  <1>b. Labelled'
    <2>1. "DISABLED" \in port'.labels /\ ("ENABLED" \in port'.labels <=> "ENABLED" \in port.labels)
      BY <1>2
    <2>2. "ENABLED" \in port.labels <=> \E q \in envEvals : Enabled(q)
      BY DEF IInv, Labelled
    <2>3. /\ \E q \in envEvals' : ~Enabled(q)
          /\ (\E q \in envEvals' : Enabled(q)) <=> \E q \in envEvals : Enabled(q)
      BY <1>3
    <2> QED
      BY <2>1, <2>2, <2>3 DEF Labelled, Enabled
  <1>c. SearchPathKept'
    BY <1>2, <1>4 DEF IInv, SearchPathKept
  <1> QED
    BY <1>5, <1>6, <1>7, <1>8, <1>9, <1>a, <1>b, <1>c DEF IInv

LEMMA EvaluateKeeps ==
    ASSUME NEW o \in Options, IInv, Evaluate(o),
           ownLink' = ownLink, ownDepends' = ownDepends, options' \in Options,
           pc' \in {"portfile", "callbacks", "done"}, statements' \in 0 .. MaxStatements
    PROVE  IInv'
  <1>1. CASE Enabled(o)
    BY <1>1, EnabledKeeps
  <1>2. CASE ~Enabled(o)
    BY <1>2, DisabledKeeps
  <1> QED
    BY <1>1, <1>2

LEMMA SetNewestKeeps ==
    ASSUME IInv, NEW n \in Newest, SetNewest(n)
    PROVE  IInv'
  <1>1. options' \in Options
    BY DEF SetNewest, IInv, TypeOK, Options
  <1>2. pc' \in {"portfile", "callbacks", "done"} /\ statements' \in 0 .. MaxStatements
    BY LegacyAssumption DEF SetNewest, Statement, IInv, TypeOK
  <1>3. Evaluate(options') /\ ownLink' = ownLink /\ ownDepends' = ownDepends
    BY DEF SetNewest
  <1> DEFINE o == options'
  <1>4. o \in Options /\ Evaluate(o)
    BY <1>1, <1>3
  <1> HIDE DEF o
  <1> QED
    BY <1>1, <1>2, <1>3, <1>4, EvaluateKeeps

LEMMA CallbackKeeps ==
    ASSUME IInv, Callback
    PROVE  IInv'
  <1>1. /\ options \in Options /\ Evaluate(options)
        /\ ownLink' = ownLink /\ ownDepends' = ownDepends
        /\ options' \in Options /\ pc' \in {"portfile", "callbacks", "done"}
        /\ statements' \in 0 .. MaxStatements
    BY DEF Callback, IInv, TypeOK
  <1> QED
    BY <1>1, EvaluateKeeps

\* A step that leaves the port, the cache and the evaluations alone.
LEMMA OthersKeep ==
    ASSUME IInv, UNCHANGED <<port, cache, last, evals, envEvals, ownLink, ownDepends>>,
           options' \in Options, statements' \in 0 .. MaxStatements,
           pc' = pc \/ (pc = "callbacks" /\ pc' = "done")
    PROVE  IInv'
  <1>1. TypeOK' /\ Added' = Added /\ (Parsed' <=> Parsed)
    BY DEF IInv, TypeOK, Added, Parsed, Enabled
  <1>2. CacheInv'
    BY <1>1 DEF IInv, CacheInv, CacheOf, Enabled, Include, Link, Cpp, UsesLibcxx
  <1>3. FlagsInv' /\ DependsInv'
    BY <1>1 DEF IInv, FlagsInv, DependsInv, DependsFor, UsesLibcxx, Enabled
  <1>4. LinkedAsLast'
    BY <1>1 DEF IInv, LinkedAsLast, Enabled, Include, Link, Cpp, UsesLibcxx
  <1>5. SearchPathKept' /\ NothingWhereUnneeded' /\ Labelled'
    BY <1>1 DEF IInv, SearchPathKept, NothingWhereUnneeded, Labelled, Enabled
  <1> QED
    BY <1>1, <1>2, <1>3, <1>4, <1>5 DEF IInv

LEMMA SetOtherKeeps ==
    ASSUME IInv, SetOther
    PROVE  IInv'
  <1>1. options' \in Options
    BY DEF SetOther, IInv, TypeOK, Options
  <1>2. statements' \in 0 .. MaxStatements /\ pc' = pc
    BY LegacyAssumption DEF SetOther, Statement, IInv, TypeOK
  <1>3. UNCHANGED <<port, cache, last, evals, envEvals, ownLink, ownDepends>>
    BY DEF SetOther
  <1> QED
    BY <1>1, <1>2, <1>3, OthersKeep

\* The Portfile takes flags away before its end, and evaluates nothing.
LEMMA ChangeLinkKeeps ==
    ASSUME IInv, ChangeLink
    PROVE  IInv'
  <1>1. PICK kept \in {{}, port.ldflags \ {"search"}} : port' = [port EXCEPT !.ldflags = kept]
    BY DEF ChangeLink
  <1>2. /\ port \in Port /\ port'.ldflags = kept /\ kept \subseteq port.ldflags
        /\ port'.cppflags = port.cppflags /\ port'.includePaths = port.includePaths
        /\ port'.envLdflags = port.envLdflags /\ port'.envCppflags = port.envCppflags
        /\ port'.dependsLib = port.dependsLib /\ port'.dependsBuild = port.dependsBuild
        /\ port'.labels = port.labels
    BY <1>1 DEF IInv, TypeOK, Port
  <1>3. port' \in Port
    <2>1. kept \in SUBSET LinkFlags
      BY <1>2 DEF Port
    <2> QED
      BY <1>1, <1>2, <2>1 DEF Port
  <1>4. /\ pc' = "portfile" /\ statements' \in 0 .. MaxStatements
        /\ ownLink' = TRUE /\ UNCHANGED <<options, cache, last, evals, envEvals, ownDepends>>
    BY LegacyAssumption DEF ChangeLink, Statement, IInv, TypeOK
  <1>5. TypeOK' /\ Added' = Added
    BY <1>3, <1>4 DEF IInv, TypeOK, Added, Enabled
  <1>6. CacheInv'
    BY <1>4, <1>5 DEF IInv, CacheInv, CacheOf, Enabled, Include, Link, Cpp, UsesLibcxx
  <1>7. FlagsInv'
    BY <1>2, <1>4 DEF IInv, FlagsInv
  <1>8. DependsInv' /\ NothingWhereUnneeded' /\ Labelled'
    BY <1>2, <1>4, <1>5 DEF IInv, DependsInv, DependsFor, UsesLibcxx, Parsed,
       NothingWhereUnneeded, Labelled, Enabled
  <1>9. LinkedAsLast' /\ SearchPathKept'
    BY <1>4 DEF LinkedAsLast, SearchPathKept, Parsed
  <1> QED
    BY <1>5, <1>6, <1>7, <1>8, <1>9 DEF IInv

\* What it assigns to its dependencies is not asked for before its end.
LEMMA AssignDependsKeeps ==
    ASSUME IInv, AssignDepends
    PROVE  IInv'
  <1>1. port \in Port
    BY DEF IInv, TypeOK
  <1>2. /\ port' \in Port
        /\ port'.ldflags = port.ldflags /\ port'.cppflags = port.cppflags
        /\ port'.includePaths = port.includePaths
        /\ port'.envLdflags = port.envLdflags /\ port'.envCppflags = port.envCppflags
        /\ port'.dependsLib \subseteq port.dependsLib
        /\ port'.dependsBuild \subseteq port.dependsBuild
        /\ port'.labels = port.labels
    <2>1. CASE port' = [port EXCEPT !.dependsLib = {}]
      BY <1>1, <2>1 DEF Port
    <2>2. CASE port' = [port EXCEPT !.dependsBuild = {}]
      BY <1>1, <2>2 DEF Port
    <2> QED
      BY <2>1, <2>2 DEF AssignDepends
  <1>3. /\ pc' = "portfile" /\ statements' \in 0 .. MaxStatements
        /\ ownDepends' = TRUE /\ UNCHANGED <<options, cache, last, evals, envEvals, ownLink>>
    BY LegacyAssumption DEF AssignDepends, Statement, IInv, TypeOK
  <1>4. TypeOK' /\ Added' = Added
    BY <1>2, <1>3 DEF IInv, TypeOK, Added, Enabled
  <1>5. CacheInv'
    BY <1>3, <1>4 DEF IInv, CacheInv, CacheOf, Enabled, Include, Link, Cpp, UsesLibcxx
  <1>6. FlagsInv'
    BY <1>2, <1>3 DEF IInv, FlagsInv
  <1>7. DependsInv' /\ LinkedAsLast'
    BY <1>3 DEF DependsInv, LinkedAsLast, Parsed
  <1>8. SearchPathKept' /\ NothingWhereUnneeded' /\ Labelled'
    BY <1>2, <1>3, <1>4 DEF IInv, SearchPathKept, NothingWhereUnneeded, Labelled, Enabled
  <1> QED
    BY <1>4, <1>5, <1>6, <1>7, <1>8 DEF IInv

\* Nor is what it assigns to the environment, and no label is left there.
LEMMA AssignEnvKeeps ==
    ASSUME IInv, AssignEnv
    PROVE  IInv'
  <1>1. port \in Port
    BY DEF IInv, TypeOK
  <1>2. /\ port' \in Port
        /\ port'.ldflags = port.ldflags /\ port'.cppflags = port.cppflags
        /\ port'.includePaths = {} /\ port'.envLdflags = {} /\ port'.envCppflags = {}
        /\ port'.dependsLib = port.dependsLib /\ port'.dependsBuild = port.dependsBuild
        /\ port'.labels = {}
    BY <1>1 DEF AssignEnv, Port
  <1>3. /\ pc' = "portfile" /\ statements' \in 0 .. MaxStatements /\ envEvals' = {}
        /\ UNCHANGED <<options, cache, last, evals, ownLink, ownDepends>>
    BY LegacyAssumption DEF AssignEnv, Statement, IInv, TypeOK
  <1>4. TypeOK' /\ Added' = Added
    BY <1>2, <1>3 DEF IInv, TypeOK, Added, Enabled
  <1>5. CacheInv'
    BY <1>3, <1>4 DEF IInv, CacheInv, CacheOf, Enabled, Include, Link, Cpp, UsesLibcxx
  <1>6. FlagsInv'
    BY <1>2, <1>3 DEF IInv, FlagsInv
  <1>7. DependsInv' /\ LinkedAsLast'
    BY <1>2, <1>3, <1>4 DEF IInv, DependsInv, DependsFor, UsesLibcxx, LinkedAsLast, Parsed
  <1>8. SearchPathKept' /\ NothingWhereUnneeded'
    BY <1>2, <1>3, <1>4 DEF IInv, SearchPathKept, NothingWhereUnneeded
  <1>9. Labelled'
    BY <1>2, <1>3 DEF Labelled
  <1> QED
    BY <1>4, <1>5, <1>6, <1>7, <1>8, <1>9 DEF IInv

LEMMA Inductive == IInv /\ [Next]_vars => IInv'
  <1> SUFFICES ASSUME IInv, [Next]_vars PROVE IInv'
    OBVIOUS
  <1>1. ASSUME NEW n \in Newest, SetNewest(n) PROVE IInv'
    BY <1>1, SetNewestKeeps
  <1>2. CASE SetOther
    BY <1>2, SetOtherKeeps
  <1>3. CASE ChangeLink
    BY <1>3, ChangeLinkKeeps
  <1>7. CASE AssignDepends
    BY <1>7, AssignDependsKeeps
  <1>8. CASE AssignEnv
    BY <1>8, AssignEnvKeeps
  <1>4. CASE Callback
    BY <1>4, CallbackKeeps
  <1>5. CASE End
    <2>1. /\ UNCHANGED <<port, cache, last, evals, envEvals, ownLink, ownDepends>>
          /\ options' \in Options /\ statements' \in 0 .. MaxStatements
          /\ pc = "callbacks" /\ pc' = "done"
      BY <1>5 DEF End, IInv, TypeOK
    <2> QED
      BY <2>1, OthersKeep
  <1>6. CASE UNCHANGED vars
    <2>1. /\ UNCHANGED <<port, cache, last, evals, envEvals, ownLink, ownDepends>>
          /\ options' \in Options /\ statements' \in 0 .. MaxStatements /\ pc' = pc
      BY <1>6 DEF vars, IInv, TypeOK
    <2> QED
      BY <2>1, OthersKeep
  <1> QED
    BY <1>1, <1>2, <1>3, <1>4, <1>5, <1>6, <1>7, <1>8 DEF Next

-----------------------------------------------------------------------------
(* The theorems. *)

\* What every evaluation, statement and callback keeps.
THEOREM Invariance == Spec => []IInv
  <1> QED
    BY InitIInv, Inductive, PTL DEF Spec

\* The options, the flags and the cache keep their types.
THEOREM TypeCorrect == Spec => []TypeOK
  <1>1. IInv => TypeOK
    BY DEF IInv
  <1> QED
    BY <1>1, Invariance, PTL

\* A finished port is linked and compiled as the last evaluation says and as
\* no other did.
THEOREM FlagsOfTheLast == Spec => []LinkedAsLast
  <1>1. IInv => LinkedAsLast
    BY DEF IInv
  <1> QED
    BY <1>1, Invariance, PTL

\* The port's own directory of libraries is lost in two ways only.
THEOREM SearchPathLostRarely == Spec => []SearchPathKept
  <1>1. IInv => SearchPathKept
    BY DEF IInv
  <1> QED
    BY <1>1, Invariance, PTL

\* So its flags are those of the last evaluation and its own.
THEOREM FlagsAreRight == Spec => []FlagsRight
  BY FlagsOfTheLast, SearchPathLostRarely, PTL DEF FlagsRight

\* A port that needs no support has nothing of it.
THEOREM NothingAdded == Spec => []NothingWhereUnneeded
  <1>1. IInv => NothingWhereUnneeded
    BY DEF IInv
  <1> QED
    BY <1>1, Invariance, PTL

\* The labels say what the evaluations found.
THEOREM LabelsTrue == Spec => []Labelled
  <1>1. IInv => Labelled
    BY DEF IInv
  <1> QED
    BY <1>1, Invariance, PTL

\* So a port has of the library what an evaluation found it to need.
THEOREM NeededOnly == Spec => []OnlyWhereNeeded
  BY NothingAdded, LabelsTrue, PTL DEF OnlyWhereNeeded

\* A port that has flags for a library depends on it, while the Portfile leaves
\* the dependencies alone and, whatever it does with them, once it has ended and
\* its last evaluation found the port in need.
THEOREM FlagsHaveDependencies == Spec => []DependsOnIt
  <1>1. ASSUME IInv PROVE DependsOnIt
    <2> DEFINE flags == port.ldflags \cup port.envLdflags \cup cache.ldflags
    <2>1. /\ flags \subseteq cache.ldflags \cup {"search"}
          /\ port.cppflags \subseteq cache.cppflags
      BY <1>1 DEF IInv, FlagsInv
    <2>2. CASE cache.incpath = {}
      <3>1. cache.ldflags = {} /\ cache.cppflags = {}
        BY <1>1, <2>2 DEF IInv, CacheInv
      <3> QED
        BY <2>1, <3>1 DEF DependsOnIt
    <2>3. ASSUME NEW q \in Options, cache = CacheOf(q), DependsFor(q)
          PROVE  DependsOnIt
      <3>1. cache.ldflags = Link(q) /\ cache.cppflags = Cpp(q)
        BY <2>3 DEF CacheOf
      <3>2. /\ "archive" \in Link(q) => q.static
            /\ "dynamic" \in Link(q) => ~q.static
            /\ "search libcxx" \in Link(q) \/ "isystem libcxx" \in Cpp(q) => UsesLibcxx(q)
        BY DEF Link, Cpp
      <3>3. /\ "archive" \in flags => "archive" \in Link(q)
            /\ "dynamic" \in flags => "dynamic" \in Link(q)
            /\ "search libcxx" \in flags => "search libcxx" \in Link(q)
            /\ "isystem libcxx" \in port.cppflags => "isystem libcxx" \in Cpp(q)
        BY <2>1, <3>1
      <3> QED
        BY <2>3, <3>2, <3>3 DEF DependsOnIt, DependsFor
    <2>4. CASE Parsed /\ \E o \in last : Enabled(o)
      <3>1. PICK o \in last : Enabled(o)
        BY <2>4
      <3>2. o \in Options /\ cache = CacheOf(o) /\ DependsFor(o)
        BY <1>1, <2>4, <3>1 DEF IInv, TypeOK, CacheInv, DependsInv
      <3> QED
        BY <2>3, <3>2
    <2>5. CASE ~ownDepends /\ cache.incpath # {}
      <3>1. PICK q \in Added : cache = CacheOf(q)
        BY <1>1, <2>5 DEF IInv, CacheInv
      <3>2. q \in Options /\ DependsFor(q)
        BY <1>1, <2>5 DEF IInv, TypeOK, DependsInv, Added
      <3> QED
        BY <2>3, <3>1, <3>2
    <2> QED
      BY <2>2, <2>4, <2>5 DEF DependsOnIt
  <1>2. IInv => DependsOnIt
    BY <1>1
  <1> QED
    BY <1>2, Invariance, PTL

-----------------------------------------------------------------------------
(* PortGroup muniversal: the inductive invariant. *)

Stops == {"extract", "phases", "copy", "install", "merge"}

\* The target that is run, or is to be taken up again.
Doing == IF target = "stopped" THEN Last(stopped) ELSE target

\* The copies of the sources are complete once they have been made.
SourceInv ==
    /\ input \in Inputs
    /\ stopped \in Seq(Stops)
    /\ target = "stopped" => stopped # <<>>
    /\ target = "choose" => archs = {}
    /\ Doing = "extract" => archs # {}
    /\ Doing \in {"phases", "copy", "install", "merge", "done"} => archs # {} /\ DOMAIN source = archs

\* What the options are before the wrapper first ran, and what it saves.
Values == [d \in Directories |-> ValueOf(InitialOptions, d)]

DirInv ==
    IF arch = "none" THEN directories \in {InitialOptions, Values}
    ELSE /\ saved = Values
         /\ DOMAIN directories = Directories
         /\ \A d \in Directories :
               /\ directories[d].set
               /\ directories[d].by = "Portfile" \/ directories[d] = ArchDir(Values[d], arch)

\* No destroot is there before the first is copied, but for one of a target that
\* was stopped.
Orderly == ToSet(stopped) \cap {"copy", "install", "merge"} = {}
StrayInv ==
    Orderly => /\ stray = {}
               /\ Doing \in {"choose", "extract", "phases"} => DOMAIN trees = {}
               /\ target = "copy" => DOMAIN trees \cap left = {}

MuniversalInv ==
    MuniversalTypeOK /\ SourceInv /\ TwoArchsLeft /\ DirInv /\ StrayInv /\ CleanButFor

-----------------------------------------------------------------------------
(* The choice of architectures. *)

LEMMA Pairwise ==
    ASSUME NEW a, NEW b, NEW S, S \subseteq {a, b}
    PROVE  Cardinality(S) \in Nat /\ Cardinality(S) <= 2
  <1>1. IsFiniteSet({a}) /\ Cardinality({a}) = 1
    BY FS_Singleton
  <1>2. IsFiniteSet({a} \cup {b}) /\ Cardinality({a} \cup {b}) \in {1, 2}
    BY <1>1, FS_AddElement
  <1>3. S \in SUBSET ({a} \cup {b})
    OBVIOUS
  <1>4. IsFiniteSet(S) /\ Cardinality(S) <= Cardinality({a} \cup {b})
    BY <1>2, <1>3, FS_Subset
  <1>5. Cardinality(S) \in Nat
    BY <1>4, FS_CardinalityType
  <1> QED
    BY <1>2, <1>4, <1>5

LEMMA Threefold ==
    ASSUME NEW a, NEW b, NEW c, NEW S, S \subseteq {a, b, c}, Cardinality(S) >= 3
    PROVE  S = {a, b, c}
  <1>1. SUFFICES ASSUME NEW x \in {a, b, c}, x \notin S PROVE FALSE
    OBVIOUS
  <1>2. \E y, z : S \subseteq {y, z}
    <2>1. CASE x = a
      BY <1>1, <2>1
    <2>2. CASE x = b
      BY <1>1, <2>2
    <2>3. CASE x = c
      BY <1>1, <2>3
    <2> QED
      BY <2>1, <2>2, <2>3
  <1>3. Cardinality(S) \in Nat /\ Cardinality(S) <= 2
    BY <1>2, Pairwise
  <1> QED
    BY <1>3

LEMMA ArchitecturesFinite ==
    ASSUME NEW S \in SUBSET Architectures
    PROVE  IsFiniteSet(S) /\ Cardinality(S) \in Nat
  <1>1. IsFiniteSet({"arm64"})
    BY FS_Singleton
  <1>2. IsFiniteSet({"arm64"} \cup {"x86_64"})
    BY <1>1, FS_AddElement
  <1>3. IsFiniteSet(({"arm64"} \cup {"x86_64"}) \cup {"i386"})
    BY <1>2, FS_AddElement
  <1>4. IsFiniteSet((({"arm64"} \cup {"x86_64"}) \cup {"i386"}) \cup {"ppc"})
    BY <1>3, FS_AddElement
  <1>5. IsFiniteSet(((({"arm64"} \cup {"x86_64"}) \cup {"i386"}) \cup {"ppc"}) \cup {"ppc64"})
    BY <1>4, FS_AddElement
  <1>6. Architectures = ((({"arm64"} \cup {"x86_64"}) \cup {"i386"}) \cup {"ppc"}) \cup {"ppc64"}
    BY DEF Architectures
  <1>7. IsFiniteSet(S)
    BY <1>5, <1>6, FS_Subset
  <1> QED
    BY <1>7, FS_CardinalityType

\* A step removes its architecture from three or more, and leaves fewer alone.
LEMMA WithoutOne ==
    ASSUME NEW S \in SUBSET Architectures, NEW a
    PROVE  /\ Without(S, a) \subseteq S
           /\ S \ {a} \subseteq Without(S, a)
           /\ Cardinality(Without(S, a)) >= 3 => a \notin Without(S, a) /\ Cardinality(S) >= 3
  <1>1. Cardinality(S) \in Nat
    BY ArchitecturesFinite
  <1> QED
    BY <1>1 DEF Without

\* What pruning leaves of three or more are the architectures no step removes.
LEMMA Pruned ==
    ASSUME NEW S \in SUBSET Architectures, NEW host, host.arch \in {"arm", "i386", "powerpc"}
    PROVE  /\ Prune(S, host) \subseteq S
           /\ Cardinality(Prune(S, host)) >= 3 =>
                 host.arch = "i386" /\ Prune(S, host) = {"arm64", "x86_64", "i386"}
           /\ \A a \in S : (\A k \in 1 .. 4 : Removed[k][host.arch] # a) => a \in Prune(S, host)
  <1> DEFINE r1 == Removed[1][host.arch]
             r2 == Removed[2][host.arch]
             r3 == Removed[3][host.arch]
             r4 == Removed[4][host.arch]
             s1 == Without(S, r1)
             s2 == Without(s1, r2)
             s3 == Without(s2, r3)
             s4 == Without(s3, r4)
  <1>0. Prune(S, host) = s4
    BY DEF Prune
  <1>1. s1 \subseteq S /\ S \ {r1} \subseteq s1 /\ (Cardinality(s1) >= 3 => r1 \notin s1)
    BY WithoutOne
  <1>2. s2 \subseteq s1 /\ s1 \ {r2} \subseteq s2 /\ (Cardinality(s2) >= 3 => r2 \notin s2 /\ Cardinality(s1) >= 3)
    BY <1>1, WithoutOne
  <1>3. s3 \subseteq s2 /\ s2 \ {r3} \subseteq s3 /\ (Cardinality(s3) >= 3 => r3 \notin s3 /\ Cardinality(s2) >= 3)
    BY <1>1, <1>2, WithoutOne
  <1>4. s4 \subseteq s3 /\ s3 \ {r4} \subseteq s4 /\ (Cardinality(s4) >= 3 => r4 \notin s4 /\ Cardinality(s3) >= 3)
    BY <1>1, <1>2, <1>3, WithoutOne
  <1> HIDE DEF s1, s2, s3, s4
  <1>5. s4 \subseteq S
    BY <1>1, <1>2, <1>3, <1>4
  <1>6. ASSUME Cardinality(s4) >= 3
        PROVE  host.arch = "i386" /\ s4 = {"arm64", "x86_64", "i386"}
    <2>1. s4 \subseteq Architectures /\ {r1, r2, r3, r4} \cap s4 = {}
      BY <1>1, <1>2, <1>3, <1>4, <1>5, <1>6
    <2>2. CASE host.arch = "powerpc"
      <3>1. r2 = "arm64" /\ r3 = "x86_64" /\ r4 = "i386"
        BY <2>2 DEF Removed
      <3>2. s4 \subseteq {"ppc", "ppc64"}
        BY <2>1, <3>1 DEF Architectures
      <3>3. Cardinality(s4) \in Nat /\ Cardinality(s4) <= 2
        BY <3>2, Pairwise
      <3> QED
        BY <1>6, <3>3
    <2>3. CASE host.arch = "arm"
      <3>1. r1 = "ppc64" /\ r2 = "ppc" /\ r3 = "i386"
        BY <2>3 DEF Removed
      <3>2. s4 \subseteq {"arm64", "x86_64"}
        BY <2>1, <3>1 DEF Architectures
      <3>3. Cardinality(s4) \in Nat /\ Cardinality(s4) <= 2
        BY <3>2, Pairwise
      <3> QED
        BY <1>6, <3>3
    <2>4. CASE host.arch = "i386"
      <3>1. r1 = "ppc64" /\ r4 = "ppc"
        BY <2>4 DEF Removed
      <3>2. s4 \subseteq {"arm64", "x86_64", "i386"}
        BY <2>1, <3>1 DEF Architectures
      <3> QED
        BY <1>6, <2>4, <3>2, Threefold
    <2> QED
      BY <2>2, <2>3, <2>4
  <1>7. \A a \in S : (\A k \in 1 .. 4 : Removed[k][host.arch] # a) => a \in s4
    <2> SUFFICES ASSUME NEW a \in S, \A k \in 1 .. 4 : Removed[k][host.arch] # a PROVE a \in s4
      OBVIOUS
    <2>1. a # r1 /\ a # r2 /\ a # r3 /\ a # r4
      OBVIOUS
    <2> QED
      BY <1>1, <1>2, <1>3, <1>4, <2>1
  <1> QED
    BY <1>0, <1>5, <1>6, <1>7

-----------------------------------------------------------------------------
(* Directories. *)

Full(o) == DOMAIN o = Directories /\ \A d \in Directories : o[d].set

Settings == [set : {TRUE}, by : Directories, marks : {<<>>}]

\* The value of a directory depends on what it follows, at most twice.
LEMMA ValueDepends ==
    ASSUME NEW o, NEW p, NEW d \in Directories,
           o[d] = p[d], o[Follows[d]] = p[Follows[d]], o[Follows[Follows[d]]] = p[Follows[Follows[d]]]
    PROVE  ValueOf(o, d) = ValueOf(p, d)
  BY DEF ValueOf

LEMMA Following ==
    /\ Follows["test.dir"] = "build.dir" /\ Follows["destroot.dir"] = "build.dir"
    /\ Follows["build.dir"] = "worksrcpath" /\ Follows["autoreconf.dir"] = "worksrcpath"
    /\ Follows["autoconf.dir"] = "worksrcpath" /\ Follows["configure.dir"] = "worksrcpath"
    /\ Follows["destroot"] = "destroot" /\ Follows["worksrcpath"] = "worksrcpath"
  BY DEF Follows, Directories

\* A directory that is not set has the value of one that is, or of worksrcpath.
LEMMA InitialValues ==
    /\ DOMAIN InitialOptions = Directories
    /\ Values \in [Directories -> Settings]
    /\ \A d \in Directories : Values[d] = ValueOf(InitialOptions, d)
  <1>1. DOMAIN InitialOptions = Directories
    BY DEF InitialOptions
  <1>2. \A d \in Directories : InitialOptions[d] \in Settings \/ ~InitialOptions[d].set
    BY DEF InitialOptions, Unset, Dir, Settings
  <1>3. InitialOptions["destroot"].set /\ InitialOptions["worksrcpath"].set
    BY DEF InitialOptions, Directories, Dir
  <1>4. \A d \in Directories : ValueOf(InitialOptions, d) \in Settings
    <2> SUFFICES ASSUME NEW d \in Directories PROVE ValueOf(InitialOptions, d) \in Settings
      OBVIOUS
    <2>1. Follows[Follows[d]] \in {"destroot", "worksrcpath"} /\ Follows[d] \in Directories
      BY Following DEF Directories
    <2>2. InitialOptions[Follows[Follows[d]]].set /\ Follows[Follows[d]] \in Directories
      BY <1>3, <2>1 DEF Directories
    <2>3. CASE InitialOptions[d].set
      BY <1>2, <2>3 DEF ValueOf
    <2>4. CASE ~InitialOptions[d].set /\ InitialOptions[Follows[d]].set
      BY <1>2, <2>1, <2>4 DEF ValueOf
    <2>5. CASE ~InitialOptions[d].set /\ ~InitialOptions[Follows[d]].set
      BY <1>2, <2>2, <2>5 DEF ValueOf
    <2> QED
      BY <2>3, <2>4, <2>5
  <1> QED
    BY <1>1, <1>4 DEF Values

\* A directory that is set has its own value.
LEMMA FullValues == ASSUME NEW o, Full(o), NEW d \in Directories PROVE ValueOf(o, d) = o[d]
  BY DEF Full, ValueOf

LEMMA RenameOne ==
    ASSUME NEW o, NEW a, NEW d \in Directories, DOMAIN o = Directories
    PROVE  /\ DOMAIN Rename(o, d, a) = Directories
           /\ \A e \in Directories :
                 Rename(o, d, a)[e] = IF e = d THEN ArchDir(ValueOf(o, d), a) ELSE o[e]
  BY DEF Rename

\* Every directory is renamed once, from the value it had: none it follows was
\* renamed before it.
LEMMA RenamedOnce ==
    ASSUME NEW o, NEW a, DOMAIN o = Directories, NEW v \in [Directories -> Settings],
           \A d \in Directories : ValueOf(o, d) = v[d]
    PROVE  Renamed(o, a) = [d \in Directories |-> ArchDir(v[d], a)]
  <1> DEFINE p1 == Rename(o, "test.dir", a)
             p2 == Rename(p1, "destroot.dir", a)
             p3 == Rename(p2, "destroot", a)
             p4 == Rename(p3, "build.dir", a)
             p5 == Rename(p4, "autoreconf.dir", a)
             p6 == Rename(p5, "autoconf.dir", a)
             p7 == Rename(p6, "configure.dir", a)
             p8 == [p7 EXCEPT !["worksrcpath"] = ArchDir(@, a)]
             New(d) == ArchDir(v[d], a)
  <1>1. Renamed(o, a) = p8
    BY DEF Renamed
  <1>2. \A d \in {"test.dir", "destroot.dir", "destroot", "build.dir", "autoreconf.dir", "autoconf.dir",
                 "configure.dir", "worksrcpath"} : d \in Directories
    BY DEF Directories
  <1>3. /\ DOMAIN p1 = Directories
        /\ \A e \in Directories : p1[e] = IF e = "test.dir" THEN New(e) ELSE o[e]
    BY <1>2, RenameOne
  <1>4. /\ DOMAIN p2 = Directories
        /\ \A e \in Directories : p2[e] = IF e \in {"test.dir", "destroot.dir"} THEN New(e) ELSE o[e]
    <2> HIDE DEF p1
    <2>1. ValueOf(p1, "destroot.dir") = ValueOf(o, "destroot.dir")
      BY <1>2, <1>3, Following, ValueDepends
    <2> QED
      BY <1>2, <1>3, <2>1, RenameOne
  <1>5. /\ DOMAIN p3 = Directories
        /\ \A e \in Directories :
              p3[e] = IF e \in {"test.dir", "destroot.dir", "destroot"} THEN New(e) ELSE o[e]
    <2> HIDE DEF p2
    <2>1. ValueOf(p2, "destroot") = ValueOf(o, "destroot")
      BY <1>2, <1>4, Following, ValueDepends
    <2> QED
      BY <1>2, <1>4, <2>1, RenameOne
  <1>6. /\ DOMAIN p4 = Directories
        /\ \A e \in Directories :
              p4[e] = IF e \in {"test.dir", "destroot.dir", "destroot", "build.dir"} THEN New(e) ELSE o[e]
    <2> HIDE DEF p3
    <2>1. ValueOf(p3, "build.dir") = ValueOf(o, "build.dir")
      BY <1>2, <1>5, Following, ValueDepends
    <2> QED
      BY <1>2, <1>5, <2>1, RenameOne
  <1>7. /\ DOMAIN p5 = Directories
        /\ \A e \in Directories :
              p5[e] = IF e \in {"test.dir", "destroot.dir", "destroot", "build.dir", "autoreconf.dir"}
                        THEN New(e) ELSE o[e]
    <2> HIDE DEF p4
    <2>1. ValueOf(p4, "autoreconf.dir") = ValueOf(o, "autoreconf.dir")
      BY <1>2, <1>6, Following, ValueDepends
    <2> QED
      BY <1>2, <1>6, <2>1, RenameOne
  <1>8. /\ DOMAIN p6 = Directories
        /\ \A e \in Directories :
              p6[e] = IF e \in {"test.dir", "destroot.dir", "destroot", "build.dir", "autoreconf.dir",
                                "autoconf.dir"} THEN New(e) ELSE o[e]
    <2> HIDE DEF p5
    <2>1. ValueOf(p5, "autoconf.dir") = ValueOf(o, "autoconf.dir")
      BY <1>2, <1>7, Following, ValueDepends
    <2> QED
      BY <1>2, <1>7, <2>1, RenameOne
  <1>9. /\ DOMAIN p7 = Directories
        /\ \A e \in Directories : p7[e] = IF e = "worksrcpath" THEN o[e] ELSE New(e)
    <2> HIDE DEF p6
    <2>1. ValueOf(p6, "configure.dir") = ValueOf(o, "configure.dir")
      BY <1>2, <1>8, Following, ValueDepends
    <2>2. \A e \in Directories : e = "configure.dir" \/ e = "worksrcpath" \/
              e \in {"test.dir", "destroot.dir", "destroot", "build.dir", "autoreconf.dir", "autoconf.dir"}
      BY DEF Directories
    <2> QED
      BY <1>2, <1>8, <2>1, <2>2, RenameOne
  <1> HIDE DEF p7
  <1>10. o["worksrcpath"] = v["worksrcpath"]
    <2>1. ValueOf(o, "worksrcpath") = o["worksrcpath"]
      BY Following DEF ValueOf
    <2> QED
      BY <1>2, <2>1
  <1>11. DOMAIN p8 = Directories /\ \A e \in Directories : p8[e] = New(e)
    BY <1>2, <1>9, <1>10
  <1>12. p8 = [d \in Directories |-> New(d)]
    BY <1>11
  <1> QED
    BY <1>1, <1>12

-----------------------------------------------------------------------------
(* What a step that leaves it alone preserves. *)

LEMMA Appended ==
    ASSUME NEW s \in Seq(Stops), NEW x \in Stops
    PROVE  /\ Append(s, x) \in Seq(Stops) /\ Append(s, x) # <<>>
           /\ Last(Append(s, x)) = x
           /\ ToSet(Append(s, x)) = ToSet(s) \cup {x}
  <1>1. Len(s) \in Nat /\ Len(Append(s, x)) = Len(s) + 1
    OBVIOUS
  <1>2. Append(s, x) \in Seq(Stops) /\ Append(s, x)[Len(s) + 1] = x
    OBVIOUS
  <1>3. \A i \in 1 .. Len(s) : Append(s, x)[i] = s[i]
    OBVIOUS
  <1>4. ToSet(Append(s, x)) = ToSet(s) \cup {x}
    <2>1. ToSet(Append(s, x)) = {Append(s, x)[i] : i \in 1 .. Len(s) + 1}
      BY <1>1, <1>2 DEF ToSet
    <2>2. ToSet(s) = {s[i] : i \in 1 .. Len(s)}
      BY DEF ToSet
    <2>3. 1 .. Len(s) + 1 = (1 .. Len(s)) \cup {Len(s) + 1}
      BY <1>1
    <2> QED
      BY <1>2, <1>3, <2>1, <2>2, <2>3
  <1>5. Append(s, x) # <<>>
    BY <1>1
  <1>6. Last(Append(s, x)) = x
    BY <1>1, <1>2 DEF Last
  <1> QED
    BY <1>2, <1>4, <1>5, <1>6

LEMMA Stopping ==
    ASSUME stopped \in Seq(Stops), stopped # <<>>
    PROVE  Last(stopped) \in Stops /\ Last(stopped) \in ToSet(stopped)
  <1>1. Len(stopped) \in 1 .. Len(stopped)
    OBVIOUS
  <1> QED
    BY <1>1 DEF Last, ToSet

LEMMA DirectoriesKept ==
    ASSUME DirInv, UNCHANGED <<input, directories, arch, saved>>
    PROVE  DirInv'
  <1>1. InitialOptions' = InitialOptions
    BY DEF InitialOptions
  <1>2. Values' = Values
    BY <1>1 DEF Values, ValueOf
  <1> QED
    BY <1>1, <1>2 DEF DirInv

\* Two architectures are left once they have been chosen.
LEMMA ArchsKept ==
    ASSUME TwoArchsLeft, UNCHANGED <<input, archs>>, target # "choose", target' # "choose",
           target' # "error" => target # "error", target' = "error" => DOMAIN source' # {} \/ ~SourceFound(input.work)
    PROVE  TwoArchsLeft'
  BY DEF TwoArchsLeft

LEMMA MuniversalInitInv == MuniversalInit => MuniversalInv
  <1> SUFFICES ASSUME MuniversalInit PROVE MuniversalInv
    OBVIOUS
  <1> USE DEF MuniversalInit
  <1>1. MuniversalTypeOK
    BY DEF MuniversalTypeOK, Pairs
  <1>2. SourceInv
    BY DEF SourceInv, Doing
  <1>3. TwoArchsLeft
    BY DEF TwoArchsLeft
  <1>4. DirInv
    BY DEF DirInv
  <1>5. StrayInv /\ CleanButFor
    BY DEF StrayInv, CleanButFor
  <1> QED
    BY <1>1, <1>2, <1>3, <1>4, <1>5 DEF MuniversalInv

-----------------------------------------------------------------------------
(* Each step keeps the invariant. *)

LEMMA ChooseStep == ASSUME MuniversalInv, Choose PROVE MuniversalInv'
  <1> USE DEF MuniversalInv
  <1> DEFINE runnable == IF input.runBinaries THEN {a \in input.archs : CanRun(a, input.host)} ELSE input.archs
             own == [powerpc |-> "ppc", i386 |-> "x86_64", arm |-> "arm64"][input.host.arch]
  <1>1. /\ input.host.arch \in {"arm", "i386", "powerpc"}
        /\ runnable \in SUBSET Architectures /\ runnable \subseteq input.archs
    BY InputsAssumption DEF SourceInv
  <1>2. /\ archs' = IF input.no3Archs THEN Prune(runnable, input.host) ELSE runnable
        /\ target' = IF input.no3Archs /\ Cardinality(archs') >= 3 THEN "error"
                     ELSE IF Cardinality(archs') < 2 THEN "single" ELSE "extract"
        /\ UNCHANGED <<input, build, destroots, stopped>>
    BY DEF Choose
  <1> HIDE DEF runnable
  <1>3. Prune(runnable, input.host) \subseteq runnable
    BY <1>1, Pruned
  <1>4. archs' \in SUBSET Architectures
    BY <1>1, <1>2, <1>3
  <1>5. Cardinality(archs') \in Nat
    BY <1>4, ArchitecturesFinite
  <1>6. target = "choose" /\ archs = {} /\ DOMAIN source = {} /\ left = {}
    BY DEF Choose, SourceInv, MuniversalTypeOK
  <1>7. MuniversalTypeOK'
    BY <1>2, <1>4, <1>6 DEF MuniversalTypeOK, build, destroots
  <1>8. SourceInv'
    <2>1. archs' = {} => Cardinality(archs') = 0
      BY FS_EmptySet
    <2>2. target' \in {"error", "single", "extract"} /\ (target' = "extract" => archs' # {})
      BY <1>2, <2>1
    <2>3. Doing' = target'
      BY <2>2 DEF Doing
    <2> QED
      BY <1>2, <2>2, <2>3 DEF SourceInv
  <1>9. TwoArchsLeft'
    <2> SUFFICES ASSUME input.no3Archs
                 PROVE  /\ target' = "error" => input.host.arch = "i386" /\ archs' = {"arm64", "x86_64", "i386"}
                        /\ target' # "error" => Cardinality(archs') <= 2
                        /\ own \in input.archs /\ CanRun(own, input.host) => own \in archs'
      BY <1>2 DEF TwoArchsLeft, CanRun
    <2>1. archs' = Prune(runnable, input.host)
      BY <1>2
    <2>2. target' = "error" <=> Cardinality(archs') >= 3
      BY <1>2
    <2>3. Cardinality(archs') >= 3 => input.host.arch = "i386" /\ archs' = {"arm64", "x86_64", "i386"}
      <3>1. Cardinality(Prune(runnable, input.host)) >= 3 =>
              input.host.arch = "i386" /\ Prune(runnable, input.host) = {"arm64", "x86_64", "i386"}
        BY <1>1, Pruned
      <3> QED
        BY <2>1, <3>1
    <2>4. ASSUME own \in input.archs, CanRun(own, input.host) PROVE own \in archs'
      <3>1. own \in runnable
        BY <2>4 DEF runnable
      <3>2. \A k \in 1 .. 4 : Removed[k][input.host.arch] # own
        BY <1>1 DEF Removed
      <3> QED
        BY <1>1, <2>1, <3>1, <3>2, Pruned
    <2> QED
      BY <1>5, <2>2, <2>3, <2>4
  <1>10. DirInv'
    BY <1>2, DirectoriesKept DEF build
  <1>11. StrayInv' /\ CleanButFor'
    BY <1>2, <1>6 DEF StrayInv, CleanButFor, Orderly, Doing, build, destroots
  <1> QED
    BY <1>7, <1>8, <1>9, <1>10, <1>11

LEMMA CopySourceStep == ASSUME MuniversalInv, CopySource PROVE MuniversalInv'
  <1> USE DEF MuniversalInv
  <1>1. PICK a \in Uncopied :
            IF SourceFound(input.work)
              THEN /\ source' = [b \in DOMAIN source \cup {a} |-> IF b = a THEN "whole" ELSE source[b]]
                   /\ UNCHANGED target
              ELSE target' = "error" /\ UNCHANGED source
    BY DEF CopySource
  <1>2. /\ target = "extract" /\ archs # {} /\ a \in archs
        /\ UNCHANGED <<input, archs, directories, arch, ran, saved, destroots, stopped>>
    BY <1>1 DEF CopySource, Uncopied, SourceInv, Doing
  <1>3. /\ target' = target \/ (target' = "error" /\ ~SourceFound(input.work))
        /\ DOMAIN source' \subseteq DOMAIN source \cup {a}
        /\ \A b \in DOMAIN source' : source'[b] = "part" => b \in DOMAIN source /\ source[b] = "part"
    BY <1>1
  <1>4. MuniversalTypeOK'
    BY <1>2, <1>3 DEF MuniversalTypeOK, destroots
  <1>5. SourceInv'
    BY <1>2, <1>3 DEF SourceInv, Doing
  <1>6. TwoArchsLeft'
    BY <1>2, <1>3, ArchsKept
  <1>7. DirInv'
    BY <1>2, DirectoriesKept
  <1>8. StrayInv'
    BY <1>2, <1>3 DEF StrayInv, Orderly, Doing, destroots
  <1>9. CleanButFor'
    BY <1>2, <1>3 DEF CleanButFor, destroots
  <1> QED
    BY <1>4, <1>5, <1>6, <1>7, <1>8, <1>9

LEMMA ExtractedStep == ASSUME MuniversalInv, Extracted PROVE MuniversalInv'
  <1> USE DEF MuniversalInv
  <1>1. /\ target = "extract" /\ target' = "phases" /\ archs # {} /\ DOMAIN source = archs
        /\ UNCHANGED <<input, archs, build, destroots, stopped>>
    BY DEF Extracted, Uncopied, SourceInv, MuniversalTypeOK, Doing
  <1>2. MuniversalTypeOK'
    BY <1>1 DEF MuniversalTypeOK, build, destroots
  <1>3. SourceInv'
    BY <1>1 DEF SourceInv, Doing, build
  <1>4. TwoArchsLeft'
    BY <1>1, ArchsKept
  <1>5. DirInv'
    BY <1>1, DirectoriesKept DEF build
  <1>6. StrayInv' /\ CleanButFor'
    BY <1>1 DEF StrayInv, CleanButFor, Orderly, Doing, build, destroots
  <1> QED
    BY <1>2, <1>3, <1>4, <1>5, <1>6

\* A directory that no procedure has renamed has the value it began with.
LEMMA ValuesBetween ==
    ASSUME DirInv, arch = "none"
    PROVE  DOMAIN directories = Directories /\ \A d \in Directories : ValueOf(directories, d) = Values[d]
  <1>1. CASE directories = InitialOptions
    BY <1>1, InitialValues
  <1>2. CASE directories = Values
    <2>1. Full(Values)
      BY InitialValues DEF Full, Settings
    <2> QED
      BY <1>2, <2>1, FullValues, InitialValues
  <1> QED
    BY <1>1, <1>2 DEF DirInv

LEMMA EnterStep == ASSUME MuniversalInv, Enter PROVE MuniversalInv'
  <1> USE DEF MuniversalInv
  <1>1. PICK w \in Due :
            /\ ran' = ran \cup {w} /\ arch' = w[2]
            /\ saved' = [d \in DOMAIN directories |-> ValueOf(directories, d)]
            /\ directories' = Renamed(directories, w[2])
    BY DEF Enter
  <1>2. /\ target = "phases" /\ arch = "none"
        /\ UNCHANGED <<input, target, archs, source, destroots, stopped>>
    BY DEF Enter
  <1>3. w[1] \in Procedures /\ w[2] \in archs /\ w = <<w[1], w[2]>>
    BY DEF Due
  <1>4. arch' \in Architectures /\ arch' # "none"
    BY <1>1, <1>3 DEF MuniversalTypeOK, Architectures
  <1>5. DOMAIN directories = Directories /\ \A d \in Directories : ValueOf(directories, d) = Values[d]
    BY <1>2, ValuesBetween
  <1>6. saved' = Values
    BY <1>1, <1>5 DEF Values
  <1>7. directories' = [d \in Directories |-> ArchDir(Values[d], arch')]
    BY <1>1, <1>5, RenamedOnce, InitialValues
  <1>8. Values' = Values /\ InitialOptions' = InitialOptions
    BY <1>2 DEF Values, ValueOf, InitialOptions
  <1>9. MuniversalTypeOK'
    <2>1. saved' # <<>>
      <3>1. DOMAIN saved' = Directories /\ "destroot" \in Directories
        BY <1>6, InitialValues DEF Directories
      <3> QED
        BY <3>1
    <2>2. <<w[1], arch'>> \in ran'
      BY <1>1, <1>3
    <2>3. \E p \in Procedures : <<p, arch'>> \in ran'
      BY <1>3, <2>2
    <2> QED
      BY <1>2, <1>4, <2>1, <2>3 DEF MuniversalTypeOK, destroots
  <1>10. SourceInv'
    BY <1>2 DEF SourceInv, Doing
  <1>11. TwoArchsLeft'
    BY <1>2, ArchsKept
  <1>12. DirInv'
    <2>1. DOMAIN directories' = Directories
      BY <1>7
    <2>2. \A d \in Directories : directories'[d] = ArchDir(Values[d], arch') /\ directories'[d].set
      <3> TAKE d \in Directories
      <3>1. Values[d].set
        BY InitialValues DEF Settings
      <3>2. directories'[d] = ArchDir(Values[d], arch')
        BY <1>7
      <3>3. ArchDir(Values[d], arch').set = Values[d].set
        BY InitialValues DEF ArchDir, Settings
      <3> QED
        BY <3>1, <3>2, <3>3
    <2> QED
      BY <1>4, <1>6, <1>8, <2>1, <2>2 DEF DirInv
  <1>13. StrayInv' /\ CleanButFor'
    BY <1>2 DEF StrayInv, CleanButFor, Orderly, Doing, destroots
  <1> QED
    BY <1>9, <1>10, <1>11, <1>12, <1>13

LEMMA SetDirStep == ASSUME MuniversalInv, SetDir PROVE MuniversalInv'
  <1> USE DEF MuniversalInv
  <1>1. PICK d \in input.sets : directories' = [directories EXCEPT ![d] = Dir("Portfile", <<arch>>)]
    BY DEF SetDir
  <1>2. /\ target = "phases" /\ arch # "none"
        /\ UNCHANGED <<input, target, archs, source, arch, ran, saved, destroots, stopped>>
    BY DEF SetDir
  <1>3. d \in Directories
    BY InputsAssumption DEF SourceInv
  <1>4. MuniversalTypeOK'
    BY <1>2 DEF MuniversalTypeOK, destroots
  <1>5. SourceInv'
    BY <1>2 DEF SourceInv, Doing
  <1>6. TwoArchsLeft'
    BY <1>2, ArchsKept
  <1>7. DirInv'
    <2>1. Values' = Values
      BY <1>2 DEF Values, ValueOf, InitialOptions
    <2>2. saved = Values /\ DOMAIN directories = Directories
      BY <1>2 DEF DirInv
    <2>3. \A e \in Directories :
              /\ directories'[e].set
              /\ directories'[e].by = "Portfile" \/ directories'[e] = ArchDir(Values[e], arch)
      <3> TAKE e \in Directories
      <3>1. CASE e = d
        BY <1>1, <2>2, <3>1 DEF Dir
      <3>2. CASE e # d
        BY <1>1, <1>2, <2>2, <3>2 DEF DirInv
      <3> QED
        BY <3>1, <3>2
    <2> QED
      BY <1>1, <1>2, <2>1, <2>2, <2>3 DEF DirInv
  <1>8. StrayInv' /\ CleanButFor'
    BY <1>2 DEF StrayInv, CleanButFor, Orderly, Doing, destroots
  <1> QED
    BY <1>4, <1>5, <1>6, <1>7, <1>8

LEMMA LeaveStep == ASSUME MuniversalInv, Leave PROVE MuniversalInv'
  <1> USE DEF MuniversalInv
  <1>1. /\ target = "phases" /\ arch # "none"
        /\ directories' = saved /\ saved' = <<>> /\ arch' = "none"
        /\ UNCHANGED <<input, target, archs, source, ran, destroots, stopped>>
    BY DEF Leave
  <1>2. MuniversalTypeOK'
    BY <1>1 DEF MuniversalTypeOK, destroots
  <1>3. SourceInv'
    BY <1>1 DEF SourceInv, Doing
  <1>4. TwoArchsLeft'
    BY <1>1, ArchsKept
  <1>5. DirInv'
    <2>1. Values' = Values
      BY <1>1 DEF Values, ValueOf, InitialOptions
    <2> QED
      BY <1>1, <2>1 DEF DirInv
  <1>6. StrayInv' /\ CleanButFor'
    BY <1>1 DEF StrayInv, CleanButFor, Orderly, Doing, destroots
  <1> QED
    BY <1>2, <1>3, <1>4, <1>5, <1>6

LEMMA StartDestrootStep == ASSUME MuniversalInv, StartDestroot PROVE MuniversalInv'
  <1> USE DEF MuniversalInv
  <1>1. /\ target = "phases" /\ target' = "copy" /\ left' = archs
        /\ UNCHANGED <<input, archs, build, trees, step, stray, cut, stopped>>
    BY DEF StartDestroot
  <1>2. MuniversalTypeOK'
    BY <1>1 DEF MuniversalTypeOK, build
  <1>3. SourceInv'
    BY <1>1 DEF SourceInv, Doing, build
  <1>4. TwoArchsLeft'
    BY <1>1, ArchsKept
  <1>5. DirInv'
    BY <1>1, DirectoriesKept DEF build
  <1>6. StrayInv' /\ CleanButFor'
    BY <1>1 DEF StrayInv, CleanButFor, Orderly, Doing, build
  <1> QED
    BY <1>2, <1>3, <1>4, <1>5, <1>6

\* What the steps that make destroots have in common: they take a port whose
\* sources are whole, and touch neither these nor its directories.
DestrootStep ==
    /\ target \in {"copy", "install", "merge"} /\ target' \in {"copy", "install", "merge", "done", "error"}
    /\ UNCHANGED <<input, archs, build, stopped>>

LEMMA DestrootKeeps ==
    ASSUME MuniversalInv, DestrootStep
    PROVE  SourceInv' /\ TwoArchsLeft' /\ DirInv' /\ Doing' = target'
  <1> USE DEF MuniversalInv
  <1>1. archs # {} /\ DOMAIN source = archs /\ source' = source
    BY DEF DestrootStep, SourceInv, Doing, build
  <1>2. SourceInv'
    BY <1>1 DEF DestrootStep, SourceInv, Doing, build
  <1>3. TwoArchsLeft'
    BY <1>1, ArchsKept DEF DestrootStep
  <1>4. DirInv'
    BY DirectoriesKept DEF DestrootStep, build
  <1> QED
    BY <1>2, <1>3, <1>4 DEF Doing, DestrootStep

LEMMA CopyDestrootStep == ASSUME MuniversalInv, CopyDestroot PROVE MuniversalInv'
  <1> USE DEF MuniversalInv
  <1>1. PICK a \in left :
            IF a \in stray
              THEN target' = "error" /\ UNCHANGED <<trees, left, stray>>
              ELSE /\ left' = left \ {a}
                   /\ trees' = IF a \in DOMAIN trees THEN trees ELSE With(a, NoFiles)
                   /\ stray' = IF a \in DOMAIN trees THEN stray \cup {a} ELSE stray
                   /\ UNCHANGED target
    BY DEF CopyDestroot
  <1>2. target = "copy" /\ UNCHANGED <<input, archs, build, step, cut, stopped>>
    BY DEF CopyDestroot
  <1>3. DestrootStep
    BY <1>1, <1>2 DEF DestrootStep
  <1>4. DOMAIN With(a, NoFiles) = DOMAIN trees \cup {a}
    BY DEF With
  <1>5. MuniversalTypeOK'
    BY <1>1, <1>2, <1>4 DEF MuniversalTypeOK, build
  <1>6. ASSUME Orderly PROVE stray' = {} /\ (target' = "copy" => DOMAIN trees' \cap left' = {})
    <2>1. stray = {} /\ DOMAIN trees \cap left = {}
      BY <1>2, <1>6 DEF StrayInv
    <2> QED
      BY <1>1, <1>4, <2>1
  <1>7. StrayInv' /\ CleanButFor'
    BY <1>1, <1>2, <1>6 DEF StrayInv, CleanButFor, Orderly, Doing, build
  <1> QED
    BY <1>3, <1>5, <1>7, DestrootKeeps

LEMMA CopiedStep == ASSUME MuniversalInv, Copied PROVE MuniversalInv'
  <1> USE DEF MuniversalInv
  <1>1. /\ target = "copy" /\ target' = "install" /\ left' = archs
        /\ DOMAIN trees' = DOMAIN trees \ {"destroot"}
        /\ stray' = stray \ {"destroot"}
        /\ UNCHANGED <<input, archs, build, step, cut, stopped>>
    BY DEF Copied
  <1>2. DestrootStep
    BY <1>1 DEF DestrootStep
  <1>3. MuniversalTypeOK'
    BY <1>1 DEF MuniversalTypeOK, build
  <1>4. StrayInv' /\ CleanButFor'
    BY <1>1 DEF StrayInv, CleanButFor, Orderly, Doing, build
  <1> QED
    BY <1>2, <1>3, <1>4, DestrootKeeps

LEMMA InstallStep == ASSUME MuniversalInv, Install PROVE MuniversalInv'
  <1> USE DEF MuniversalInv
  <1>1. PICK a \in left :
            /\ left' = left \ {a}
            /\ trees' = IF a \in DOMAIN input.files THEN With(a, Single(<<"f">>, input.files[a])) ELSE trees
    BY DEF Install
  <1>2. target = "install" /\ UNCHANGED <<input, target, archs, build, step, stray, cut, stopped>>
    BY DEF Install
  <1>3. DOMAIN trees \subseteq DOMAIN trees'
    BY <1>1 DEF With
  <1>4. DestrootStep
    BY <1>2 DEF DestrootStep
  <1>5. MuniversalTypeOK'
    BY <1>1, <1>2, <1>3 DEF MuniversalTypeOK, build
  <1>6. StrayInv' /\ CleanButFor'
    BY <1>2 DEF StrayInv, CleanButFor, Orderly, Doing, build
  <1> QED
    BY <1>4, <1>5, <1>6, DestrootKeeps

LEMMA InstalledStep == ASSUME MuniversalInv, Installed PROVE MuniversalInv'
  <1> USE DEF MuniversalInv
  <1>1. /\ target = "install" /\ target' = "merge" /\ step' = 0
        /\ UNCHANGED <<input, archs, build, trees, left, stray, cut, stopped>>
    BY DEF Installed
  <1>2. DestrootStep
    BY <1>1 DEF DestrootStep
  <1>3. MuniversalTypeOK'
    BY <1>1 DEF MuniversalTypeOK, build, Pairs
  <1>4. StrayInv' /\ CleanButFor'
    BY <1>1 DEF StrayInv, CleanButFor, Orderly, Doing, build
  <1> QED
    BY <1>2, <1>3, <1>4, DestrootKeeps

LEMMA MergeStep == ASSUME MuniversalInv, Merge PROVE MuniversalInv'
  <1> USE DEF MuniversalInv
  <1> DEFINE pair == Pairs[step + 1]
             merged == MergeTree(Tree(pair.into), Tree(pair.one), Tree(pair.two), pair, input.deleteLa)
  <1>1. /\ target = "merge" /\ step < Len(Pairs)
        /\ UNCHANGED <<input, archs, build, left, stopped>>
        /\ \/ target' = "error" /\ UNCHANGED <<trees, step, stray, cut>>
           \/ /\ trees' = With(pair.into, merged.tree)
              /\ stray' = IF {pair.one, pair.two} \cap stray = {} THEN stray ELSE stray \cup {pair.into}
              /\ step' = step + 1 /\ UNCHANGED target
    BY DEF Merge
  <1> HIDE DEF pair, merged
  <1>2. DestrootStep
    BY <1>1 DEF DestrootStep
  <1>3. Len(Pairs) = 4
    BY DEF Pairs
  <1>4. step' \in 0 .. Len(Pairs)
    BY <1>1, <1>3 DEF MuniversalTypeOK
  <1>5. DOMAIN With(pair.into, merged.tree) = DOMAIN trees \cup {pair.into}
    BY DEF With
  <1>6. stray' \subseteq DOMAIN trees'
    BY <1>1, <1>5 DEF MuniversalTypeOK
  <1>7. MuniversalTypeOK'
    BY <1>1, <1>4, <1>6 DEF MuniversalTypeOK, build
  <1>8. ASSUME Orderly PROVE stray' = {}
    BY <1>1, <1>8 DEF StrayInv
  <1>9. StrayInv' /\ CleanButFor'
    BY <1>1, <1>8 DEF StrayInv, CleanButFor, Orderly, Doing, build
  <1> QED
    BY <1>2, <1>7, <1>9, DestrootKeeps

LEMMA FinishStep == ASSUME MuniversalInv, Finish PROVE MuniversalInv'
  <1> USE DEF MuniversalInv
  <1>1. target = "merge" /\ target' = "done" /\ UNCHANGED <<input, archs, build, destroots, stopped>>
    BY DEF Finish
  <1>2. DestrootStep
    BY <1>1 DEF DestrootStep
  <1>3. MuniversalTypeOK'
    BY <1>1 DEF MuniversalTypeOK, build, destroots
  <1>4. StrayInv' /\ CleanButFor'
    BY <1>1 DEF StrayInv, CleanButFor, Orderly, Doing, build, destroots
  <1> QED
    BY <1>2, <1>3, <1>4, DestrootKeeps

LEMMA StopStep == ASSUME MuniversalInv, Stop PROVE MuniversalInv'
  <1> USE DEF MuniversalInv
  <1>1. /\ target \in Stops /\ target' = "stopped" /\ stopped' = Append(stopped, target)
        /\ UNCHANGED <<input, archs, directories, arch, ran, saved, destroots>>
    BY DEF Stop, Stops
  <1>2. \/ source' = source
        \/ /\ target = "extract"
           /\ \E a \in Uncopied : source' = [b \in DOMAIN source \cup {a} |-> IF b = a THEN "part" ELSE source[b]]
    BY DEF Stop
  <1>3. stopped \in Seq(Stops)
    BY DEF SourceInv
  <1>4. /\ stopped' \in Seq(Stops) /\ stopped' # <<>> /\ Last(stopped') = target
        /\ ToSet(stopped') = ToSet(stopped) \cup {target}
    BY <1>1, <1>3, Appended
  <1>5. Doing = target /\ Doing' = target
    BY <1>1, <1>4 DEF Doing, Stops
  <1>6. DOMAIN source' \subseteq archs /\ (target # "extract" => source' = source)
    BY <1>2 DEF Uncopied, MuniversalTypeOK
  <1>7. MuniversalTypeOK'
    BY <1>1, <1>6 DEF MuniversalTypeOK, destroots
  <1>8. SourceInv'
    BY <1>1, <1>4, <1>5, <1>6 DEF SourceInv, Stops
  <1>9. TwoArchsLeft'
    BY <1>1, ArchsKept DEF Stops
  <1>10. DirInv'
    BY <1>1, DirectoriesKept
  <1>11. StrayInv'
    BY <1>1, <1>4, <1>5 DEF StrayInv, Orderly, destroots
  <1>12. CleanButFor'
    <2>1. ASSUME NEW a \in DOMAIN source', source'[a] = "part" PROVE "extract" \in ToSet(stopped')
      BY <1>2, <1>4, <2>1 DEF CleanButFor
    <2> QED
      BY <1>1, <1>4, <2>1 DEF CleanButFor, destroots
  <1> QED
    BY <1>7, <1>8, <1>9, <1>10, <1>11, <1>12

LEMMA ResumeStep == ASSUME MuniversalInv, Resume PROVE MuniversalInv'
  <1> USE DEF MuniversalInv
  <1> DEFINE at == Last(stopped)
  <1>1. /\ target = "stopped"
        /\ target' = IF at \in {"extract", "phases"} THEN at ELSE "copy"
        /\ left' = IF at \in {"extract", "phases"} THEN left ELSE archs
        /\ directories' = InitialOptions /\ arch' = "none" /\ saved' = <<>>
        /\ UNCHANGED <<input, archs, source, trees, step, stray, cut, stopped>>
    BY DEF Resume
  <1>2. Doing = at /\ at \in Stops /\ at \in ToSet(stopped)
    BY <1>1, Stopping DEF SourceInv, Doing
  <1> HIDE DEF at
  <1>3. target' \in {"extract", "phases", "copy"} /\ Doing' = target'
    BY <1>1 DEF Doing
  <1>4. MuniversalTypeOK'
    BY <1>1, <1>3 DEF MuniversalTypeOK
  <1>5. SourceInv'
    BY <1>1, <1>2, <1>3 DEF SourceInv, Stops
  <1>6. TwoArchsLeft'
    BY <1>1, <1>3, ArchsKept
  <1>7. DirInv'
    <2>1. InitialOptions' = InitialOptions
      BY <1>1 DEF InitialOptions
    <2> QED
      BY <1>1, <2>1 DEF DirInv
  <1>8. ASSUME Orderly PROVE at \in {"extract", "phases"}
    BY <1>2, <1>8 DEF Orderly, Stops
  <1>9. StrayInv' /\ CleanButFor'
    BY <1>1, <1>2, <1>3, <1>8 DEF StrayInv, CleanButFor, Orderly
  <1> QED
    BY <1>4, <1>5, <1>6, <1>7, <1>9

LEMMA MuniversalInductive == MuniversalInv /\ [MuniversalNext]_mergeVars => MuniversalInv'
  <1> SUFFICES ASSUME MuniversalInv, [MuniversalNext]_mergeVars PROVE MuniversalInv'
    OBVIOUS
  <1>1. CASE UNCHANGED mergeVars
    <2> USE <1>1 DEF mergeVars, MuniversalInv
    <2>1. MuniversalTypeOK'
      BY DEF MuniversalTypeOK
    <2>2. SourceInv'
      BY DEF SourceInv, Doing
    <2>3. TwoArchsLeft'
      BY DEF TwoArchsLeft
    <2>4. DirInv'
      BY DirectoriesKept
    <2>5. StrayInv' /\ CleanButFor'
      BY DEF StrayInv, CleanButFor, Orderly, Doing
    <2> QED
      BY <2>1, <2>2, <2>3, <2>4, <2>5
  <1>2. CASE Choose \/ CopySource \/ Extracted
    BY <1>2, ChooseStep, CopySourceStep, ExtractedStep
  <1>3. CASE Enter \/ SetDir \/ Leave
    BY <1>3, EnterStep, SetDirStep, LeaveStep
  <1>4. CASE StartDestroot \/ CopyDestroot \/ Copied
    BY <1>4, StartDestrootStep, CopyDestrootStep, CopiedStep
  <1>5. CASE Install \/ Installed \/ Merge \/ Finish
    BY <1>5, InstallStep, InstalledStep, MergeStep, FinishStep
  <1>6. CASE Stop \/ Resume
    BY <1>6, StopStep, ResumeStep
  <1> QED
    BY <1>1, <1>2, <1>3, <1>4, <1>5, <1>6 DEF MuniversalNext

-----------------------------------------------------------------------------
(* What the invariant says of the port. *)

\* MuniversalInv holds of every port, host and choice of options, however often
\* the port is stopped.
THEOREM MuniversalInvariance == MuniversalSpec => []MuniversalInv
  BY MuniversalInitInv, MuniversalInductive, PTL DEF MuniversalSpec

\* Every variable of the PortGroup keeps its type, and a procedure that runs for
\* an architecture has the options to restore.
THEOREM MuniversalTypeCorrect == MuniversalSpec => []MuniversalTypeOK
  <1>1. MuniversalInv => MuniversalTypeOK
    BY DEF MuniversalInv
  <1> QED
    BY <1>1, MuniversalInvariance, PTL

\* Of every set of architectures muniversal.no_3_archs leaves at most two, the
\* host's own with them, but on a host of arch i386 that may also run arm64.
THEOREM AtMostTwo == MuniversalSpec => []TwoArchsLeft
  <1>1. MuniversalInv => TwoArchsLeft
    BY DEF MuniversalInv
  <1> QED
    BY <1>1, MuniversalInvariance, PTL

\* The wrapper of a procedure renames every directory once for its architecture
\* and restores all of them, whichever the Portfile set, also after an
\* interruption; what is left in part was interrupted while it was made.
THEOREM EachInItsOwn == MuniversalSpec => []EachToItsOwn
  <1>1. ASSUME MuniversalInv PROVE OwnTree
    <2>1. DirInv
      BY <1>1 DEF MuniversalInv
    <2>2. CASE arch = "none"
      BY <2>1, <2>2, ValuesBetween, InitialValues DEF OwnTree
    <2>3. CASE arch # "none"
      <3>1. Full(directories)
        BY <2>1, <2>3 DEF DirInv, Full
      <3>2. \A d \in Directories : ValueOf(directories, d) = directories[d]
        BY <3>1, FullValues
      <3> QED
        BY <2>1, <2>3, <3>2, InitialValues DEF DirInv, OwnTree
    <2> QED
      BY <2>2, <2>3
  <1>2. MuniversalInv => EachToItsOwn
    BY <1>1 DEF MuniversalInv, EachToItsOwn
  <1> QED
    BY <1>2, MuniversalInvariance, PTL

-----------------------------------------------------------------------------
(* Induction, as a statement about sets: what holds at 0 and is handed on    *)
(* holds up to N.                                                            *)

LEMMA UpTo ==
    ASSUME NEW N \in Nat, NEW T, 0 \in T, \A m \in 0 .. N - 1 : m \in T => m + 1 \in T
    PROVE  \A m \in 0 .. N : m \in T
  <1> DEFINE Missing == {m \in 0 .. N : m \notin T}
  <1> SUFFICES ASSUME Missing # {} PROVE FALSE
    OBVIOUS
  <1>1. PICK least \in Missing : \A m \in Missing : ~ (<<m, least>> \in OpToRel(<, Nat))
    <2>1. Missing \subseteq Nat
      OBVIOUS
    <2> QED
      BY <2>1, NatLessThanWellFounded, WFMin
  <1>2. least \in Nat /\ least # 0 /\ least - 1 \in 0 .. N - 1
    OBVIOUS
  <1>3. least - 1 \in Missing
    BY <1>2
  <1>4. <<least - 1, least>> \in OpToRel(<, Nat)
    BY <1>2 DEF OpToRel
  <1> QED
    BY <1>1, <1>3, <1>4

-----------------------------------------------------------------------------
(* The preprocessor. *)

Word == STRING \cup {"if", "else", "endif", "include", "", "f", "mods32", "mods64", "powerpc", "x86", "ppcintel",
                      "lp64", "not_lp64", "intel", "not_arm64"} \cup AnyMark
Line == Word \X (Word \cup Seq(Word)) \X (STRING \cup {""})
Printed == Word \X (Word \cup Seq(Word))
Output == Seq(Printed)
Frame == [on : BOOLEAN, else : BOOLEAN]
Text == Seq(Line)
Reader == [stack : Seq(Frame), out : Output, bad : BOOLEAN]

\* All of a sequence but its last element.
LEMMA FrontOf ==
    ASSUME NEW S, NEW b \in Seq(S), b # <<>>
    PROVE  /\ Front(b) \in Seq(S) /\ Len(Front(b)) = Len(b) - 1 /\ Len(b) \in Nat \ {0}
           /\ \A i \in 1 .. Len(b) - 1 : Front(b)[i] = b[i]
           /\ Last(b) = b[Len(b)] /\ Last(b) \in S
  <1> DEFINE n == Len(b) - 1
             one == 1
  <1>1. Len(b) \in Nat \ {0} /\ n \in Nat /\ one \in Int /\ \A i \in one .. n : b[i] \in S
    BY ElementOfSeq
  <1>2. Last(b) = b[Len(b)] /\ Last(b) \in S
    BY <1>1, ElementOfSeq DEF Last
  <1>3. Front(b) = SubSeq(b, one, n)
    BY DEF Front
  <1> HIDE DEF n, one
  <1>4. /\ SubSeq(b, one, n) \in Seq(S) /\ Len(SubSeq(b, one, n)) = IF one <= n THEN n - one + 1 ELSE 0
        /\ \A i \in 1 .. n - one + 1 : SubSeq(b, one, n)[i] = b[one + i - 1]
    BY <1>1, SubSeqProperties
  <1>5. Front(b) \in Seq(S) /\ Len(Front(b)) = n
    <2>1. (IF one <= n THEN n - one + 1 ELSE 0) = n
      BY <1>1 DEF one
    <2> QED
      BY <1>3, <1>4, <2>1
  <1>6. \A i \in 1 .. n : Front(b)[i] = b[i]
    <2> TAKE i \in 1 .. n
    <2>1. i \in 1 .. n - one + 1 /\ one + i - 1 = i
      BY <1>1 DEF n, one
    <2> QED
      BY <1>3, <1>4, <2>1
  <1> QED
    BY <1>1, <1>2, <1>5, <1>6 DEF n

\* Sequences that begin with another one.
LEMMA Behind ==
    ASSUME NEW S, NEW a \in Seq(S), NEW b \in Seq(S)
    PROVE  /\ \A x \in S : Append(a \o b, x) = a \o Append(b, x)
           /\ b # <<>> => Front(a \o b) = a \o Front(b) /\ Last(a \o b) = Last(b) /\ a \o b # <<>>
  <1>1. \A x \in S : Append(a \o b, x) = a \o Append(b, x)
    OBVIOUS
  <1>2. ASSUME b # <<>> PROVE Front(a \o b) = a \o Front(b) /\ Last(a \o b) = Last(b) /\ a \o b # <<>>
    <2> DEFINE c == a \o b
               f == Front(b)
               e == Front(c)
    <2>1. /\ Len(a) \in Nat /\ Len(b) \in Nat \ {0} /\ c \in Seq(S) /\ c # <<>> /\ Len(c) = Len(a) + Len(b)
          /\ \A i \in 1 .. Len(c) : c[i] = IF i <= Len(a) THEN a[i] ELSE b[i - Len(a)]
      BY <1>2, EmptySeq
    <2>2. /\ f \in Seq(S) /\ Len(f) = Len(b) - 1 /\ \A i \in 1 .. Len(b) - 1 : f[i] = b[i]
          /\ Last(b) = b[Len(b)]
      BY <1>2, FrontOf
    <2>3. c \in Seq(S) /\ c # <<>>
      BY <2>1
    <2> HIDE DEF c
    <2>4. /\ e \in Seq(S) /\ Len(e) = Len(c) - 1 /\ \A i \in 1 .. Len(c) - 1 : e[i] = c[i]
          /\ Last(c) = c[Len(c)]
      BY <2>3, FrontOf
    <2> HIDE DEF e, f
    <2>5. Last(c) = Last(b)
      BY <2>1, <2>2, <2>4
    <2>6. a \o f \in Seq(S) /\ Len(a \o f) = Len(e)
          /\ \A i \in 1 .. Len(e) : (a \o f)[i] = IF i <= Len(a) THEN a[i] ELSE f[i - Len(a)]
      <3>1. f \in Seq(S) /\ Len(a) \in Nat /\ Len(f) \in Nat /\ Len(e) = Len(a) + Len(f)
        BY <2>1, <2>2, <2>4
      <3>2. a \o f \in Seq(S) /\ Len(a \o f) = Len(a) + Len(f)
            /\ \A i \in 1 .. Len(a) + Len(f) : (a \o f)[i] = IF i <= Len(a) THEN a[i] ELSE f[i - Len(a)]
        BY <3>1, ConcatProperties
      <3> QED
        BY <3>1, <3>2
    <2>7. \A i \in 1 .. Len(e) : e[i] = (a \o f)[i]
      <3> TAKE i \in 1 .. Len(e)
      <3>1. e[i] = c[i] /\ c[i] = (IF i <= Len(a) THEN a[i] ELSE b[i - Len(a)])
        <4>1. i \in 1 .. Len(c) /\ i \in 1 .. Len(c) - 1
          BY <2>1, <2>4
        <4> QED
          BY <2>1, <2>4, <4>1
      <3>2. i > Len(a) => f[i - Len(a)] = b[i - Len(a)]
        BY <2>1, <2>2, <2>4
      <3> QED
        BY <2>6, <3>1, <3>2, <2>1
    <2>8. e = a \o f
      BY <2>4, <2>6, <2>7, SeqEqual
    <2> QED
      BY <2>1, <2>5, <2>8 DEF c, e, f
  <1> QED
    BY <1>1, <1>2

LEMMA BareTyped == ASSUME NEW line \in Line PROVE Bare(line) \in Printed
  BY DEF Line, Printed, Bare

LEMMA ReadType ==
    ASSUME NEW w \in Reader, NEW line \in Line, NEW conds
    PROVE  ReadLine(w, line, conds) \in Reader
  <1>0. w.stack \in Seq(Frame) /\ w.out \in Output /\ w.bad \in BOOLEAN /\ <<>> \in Seq(Frame)
        /\ w = [stack |-> w.stack, out |-> w.out, bad |-> w.bad]
    BY EmptySeq DEF Reader
  <1>1. \A x \in Frame : Append(w.stack, x) \in Seq(Frame)
    BY <1>0
  <1>2. Append(w.out, Bare(line)) \in Output
    BY <1>0, BareTyped DEF Output
  <1>3. \A c : [on |-> c \in conds, else |-> FALSE] \in Frame
    BY DEF Frame
  <1>4. w.stack # <<>> => /\ Front(w.stack) \in Seq(Frame)
                          /\ [on |-> ~Last(w.stack).on, else |-> TRUE] \in Frame
                          /\ Append(Front(w.stack), [on |-> ~Last(w.stack).on, else |-> TRUE]) \in Seq(Frame)
    <2> SUFFICES ASSUME w.stack # <<>>
                 PROVE  /\ Front(w.stack) \in Seq(Frame)
                        /\ [on |-> ~Last(w.stack).on, else |-> TRUE] \in Frame
                        /\ Append(Front(w.stack), [on |-> ~Last(w.stack).on, else |-> TRUE]) \in Seq(Frame)
      OBVIOUS
    <2> DEFINE x == [on |-> ~Last(w.stack).on, else |-> TRUE]
    <2>1. x \in Frame
      BY DEF Frame
    <2>2. Front(w.stack) \in Seq(Frame)
      BY <1>0, FrontOf
    <2> QED
      BY <2>1, <2>2
  <1>5. CASE line[1] = "if"
    BY <1>0, <1>1, <1>3, <1>5 DEF ReadLine, Reader
  <1>6. CASE line[1] = "else"
    BY <1>0, <1>4, <1>6 DEF ReadLine, Reader
  <1>7. CASE line[1] = "endif"
    BY <1>0, <1>4, <1>7 DEF ReadLine, Reader
  <1>8. CASE line[1] \notin {"if", "else", "endif"}
    BY <1>0, <1>2, <1>8 DEF ReadLine, Reader
  <1> QED
    BY <1>5, <1>6, <1>7, <1>8

\* What has been read after each line.
Reading(r, w, lines, conds) ==
    /\ r[0] = w
    /\ \A m \in 1 .. Len(lines) : r[m] = ReadLine(r[m - 1], lines[m], conds)

ReadTo(f, w, lines, conds, N) ==
    f = [m \in 0 .. N |-> IF m = 0 THEN w ELSE ReadLine(f[m - 1], lines[m], conds)]

LEMMA ReadExists ==
    ASSUME NEW w, NEW lines, NEW conds, NEW N \in Nat
    PROVE  \E f : ReadTo(f, w, lines, conds, N)
  <1> DEFINE T == {M \in Nat : \E f : ReadTo(f, w, lines, conds, M)}
  <1>1. 0 \in T
    <2> DEFINE f == [m \in 0 .. 0 |-> w]
    <2>1. ReadTo(f, w, lines, conds, 0)
      BY DEF ReadTo
    <2> QED
      BY <2>1
  <1>2. ASSUME NEW M \in 0 .. N - 1, M \in T PROVE M + 1 \in T
    <2>1. PICK f : ReadTo(f, w, lines, conds, M)
      BY <1>2
    <2> DEFINE g == [m \in 0 .. M + 1 |-> IF m = 0 THEN w ELSE ReadLine(f[m - 1], lines[m], conds)]
    <2>2. \A m \in 0 .. M : f[m] = g[m]
      BY <2>1 DEF ReadTo
    <2>3. \A m \in 0 .. M + 1 : m # 0 => m - 1 \in 0 .. M
      OBVIOUS
    <2>4. \A m \in 0 .. M + 1 : g[m] = IF m = 0 THEN w ELSE ReadLine(g[m - 1], lines[m], conds)
      BY <2>2, <2>3
    <2>5. ReadTo(g, w, lines, conds, M + 1)
      <3>1. g = [m \in 0 .. M + 1 |-> g[m]]
        OBVIOUS
      <3> HIDE DEF g
      <3> QED
        BY <2>4, <3>1 DEF ReadTo
    <2> QED
      BY <2>5
  <1> HIDE DEF T
  <1>3. N \in T
    BY <1>1, <1>2, UpTo
  <1> QED
    BY <1>3 DEF T

LEMMA ReadSteps ==
    ASSUME NEW w \in Reader, NEW lines \in Text, NEW conds
    PROVE  \E r : /\ Reading(r, w, lines, conds) /\ ReadFrom(w, lines, conds) = r[Len(lines)]
                  /\ \A m \in 0 .. Len(lines) : r[m] \in Reader
  <1> DEFINE r == CHOOSE f : f = [m \in 0 .. Len(lines) |->
                                     IF m = 0 THEN w ELSE ReadLine(f[m - 1], lines[m], conds)]
  <1>1. Len(lines) \in Nat
    BY DEF Text
  <1>2. ReadTo(r, w, lines, conds, Len(lines))
    <2>1. \E f : ReadTo(f, w, lines, conds, Len(lines))
      BY <1>1, ReadExists
    <2> QED
      BY <2>1 DEF ReadTo
  <1>3. ReadFrom(w, lines, conds) = r[Len(lines)]
    BY DEF ReadFrom
  <1> HIDE DEF r
  <1>4. Reading(r, w, lines, conds)
    BY <1>1, <1>2 DEF ReadTo, Reading
  <1>5. \A m \in 0 .. Len(lines) : r[m] \in Reader
    <2> DEFINE T == {m \in 0 .. Len(lines) : r[m] \in Reader}
    <2>1. 0 \in T
      BY <1>1, <1>4 DEF Reading
    <2>2. ASSUME NEW m \in 0 .. Len(lines) - 1, m \in T PROVE m + 1 \in T
      <3>1. m + 1 \in 1 .. Len(lines) /\ (m + 1) - 1 = m /\ r[m] \in Reader /\ lines[m + 1] \in Line
        BY <1>1, <2>2, ElementOfSeq DEF Text
      <3>2. r[m + 1] = ReadLine(r[m], lines[m + 1], conds)
        BY <1>4, <3>1 DEF Reading
      <3> QED
        BY <3>1, <3>2, ReadType
    <2> HIDE DEF T
    <2>3. \A m \in 0 .. Len(lines) : m \in T
      BY <1>1, <2>1, <2>2, UpTo
    <2> QED
      BY <2>3 DEF T
  <1> QED
    BY <1>3, <1>4, <1>5

\* Nothing is read, and something is.
LEMMA ReadNothing ==
    ASSUME NEW w \in Reader, NEW conds
    PROVE  ReadFrom(w, <<>>, conds) = w
  <1> DEFINE none == <<>>
  <1>1. none \in Text /\ Len(none) = 0
    BY DEF Text
  <1> HIDE DEF none
  <1>2. PICK p : Reading(p, w, none, conds) /\ ReadFrom(w, none, conds) = p[Len(none)]
    BY <1>1, ReadSteps
  <1>3. ReadFrom(w, none, conds) = w
    BY <1>1, <1>2 DEF Reading
  <1> QED
    BY <1>3 DEF none

LEMMA ReadTyped ==
    ASSUME NEW w \in Reader, NEW lines \in Text, NEW conds
    PROVE  ReadFrom(w, lines, conds) \in Reader
  <1>1. Len(lines) \in 0 .. Len(lines)
    BY DEF Text
  <1> QED
    BY <1>1, ReadSteps

\* What is left to read is read where the reader is.
LEMMA ReadAppend ==
    ASSUME NEW w \in Reader, NEW lines \in Text, NEW line \in Line, NEW conds
    PROVE  ReadFrom(w, Append(lines, line), conds) = ReadLine(ReadFrom(w, lines, conds), line, conds)
  <1>1. Len(lines) \in Nat /\ \A m \in 1 .. Len(lines) : lines[m] \in Line
    BY ElementOfSeq DEF Text
  <1> DEFINE more == Append(lines, line)
  <1>2. /\ more \in Text /\ Len(more) = Len(lines) + 1 /\ more[Len(lines) + 1] = line
        /\ \A m \in 1 .. Len(lines) : more[m] = lines[m]
    BY <1>1 DEF Text
  <1> HIDE DEF more
  <1>3. PICK r : /\ Reading(r, w, lines, conds) /\ ReadFrom(w, lines, conds) = r[Len(lines)]
                 /\ \A m \in 0 .. Len(lines) : r[m] \in Reader
    BY ReadSteps
  <1>4. PICK q : /\ Reading(q, w, more, conds) /\ ReadFrom(w, more, conds) = q[Len(more)]
                 /\ \A m \in 0 .. Len(more) : q[m] \in Reader
    BY <1>2, ReadSteps
  <1>5. \A m \in 0 .. Len(lines) : q[m] = r[m]
    <2> DEFINE T == {m \in 0 .. Len(lines) : q[m] = r[m]}
    <2>1. 0 \in T
      BY <1>1, <1>3, <1>4 DEF Reading
    <2>2. ASSUME NEW m \in 0 .. Len(lines) - 1, m \in T PROVE m + 1 \in T
      <3>1. /\ m + 1 \in 1 .. Len(lines) /\ m + 1 \in 1 .. Len(more) /\ (m + 1) - 1 = m /\ q[m] = r[m]
        BY <1>1, <1>2, <2>2
      <3>2. q[m + 1] = ReadLine(q[m], more[m + 1], conds) /\ r[m + 1] = ReadLine(r[m], lines[m + 1], conds)
        BY <1>3, <1>4, <3>1 DEF Reading
      <3> QED
        BY <1>2, <3>1, <3>2
    <2> HIDE DEF T
    <2>3. \A m \in 0 .. Len(lines) : m \in T
      BY <1>1, <2>1, <2>2, UpTo
    <2> QED
      BY <2>3 DEF T
  <1>6. q[Len(more)] = ReadLine(q[Len(lines)], line, conds)
    <2>1. Len(more) \in 1 .. Len(more) /\ Len(more) - 1 = Len(lines)
      BY <1>1, <1>2
    <2> QED
      BY <1>2, <1>4, <2>1 DEF Reading
  <1>7. q[Len(lines)] = r[Len(lines)]
    BY <1>1, <1>3, <1>5
  <1> QED
    BY <1>3, <1>4, <1>6, <1>7 DEF more

\* A sequence of lines that grows by a line.
LEMMA Growing ==
    ASSUME NEW S, NEW lines \in Seq(S), NEW m \in 0 .. Len(lines) - 1
    PROVE  /\ SubSeq(lines, 1, m) \in Seq(S) /\ lines[m + 1] \in S
           /\ SubSeq(lines, 1, m + 1) = Append(SubSeq(lines, 1, m), lines[m + 1])
  <1> DEFINE one == 1
             short == SubSeq(lines, one, m)
             long == SubSeq(lines, one, m + 1)
             x == lines[m + 1]
  <1>1. Len(lines) \in Nat /\ m \in Nat /\ m + 1 \in 1 .. Len(lines) /\ one = 1 /\ one \in Int /\ m + 1 \in Nat
    OBVIOUS
  <1>2. x \in S /\ \A i \in one .. m + 1 : lines[i] \in S
    BY <1>1, ElementOfSeq
  <1> HIDE DEF one
  <1>3. /\ short \in Seq(S) /\ Len(short) = IF one <= m THEN m - one + 1 ELSE 0
        /\ \A i \in 1 .. m - one + 1 : short[i] = lines[one + i - 1]
    BY <1>1, <1>2, SubSeqProperties
  <1>4. /\ long \in Seq(S) /\ Len(long) = IF one <= m + 1 THEN (m + 1) - one + 1 ELSE 0
        /\ \A i \in 1 .. (m + 1) - one + 1 : long[i] = lines[one + i - 1]
    BY <1>1, <1>2, SubSeqProperties
  <1> HIDE DEF short, long, x
  <1>5. Len(short) = m /\ Len(long) = m + 1
    BY <1>1, <1>3, <1>4
  <1>6. \A i \in 1 .. m : short[i] = lines[i]
    <2> TAKE i \in 1 .. m
    <2>1. i \in 1 .. m - one + 1 /\ one + i - 1 = i
      BY <1>1
    <2> QED
      BY <1>3, <2>1
  <1>7. \A i \in 1 .. m + 1 : long[i] = lines[i]
    <2> TAKE i \in 1 .. m + 1
    <2>1. i \in 1 .. (m + 1) - one + 1 /\ one + i - 1 = i
      BY <1>1
    <2> QED
      BY <1>4, <2>1
  <1>8. /\ Append(short, x) \in Seq(S) /\ Len(Append(short, x)) = m + 1 /\ Append(short, x)[m + 1] = x
        /\ \A i \in 1 .. m : Append(short, x)[i] = short[i]
    BY <1>1, <1>2, <1>3, <1>5
  <1>9. \A i \in 1 .. m + 1 : long[i] = Append(short, x)[i]
    BY <1>1, <1>6, <1>7, <1>8 DEF x
  <1>10. long = Append(short, x)
    BY <1>4, <1>5, <1>8, <1>9, SeqEqual
  <1> QED
    BY <1>2, <1>3, <1>10 DEF one, short, long, x

LEMMA AllOf ==
    ASSUME NEW S, NEW lines \in Seq(S)
    PROVE  SubSeq(lines, 1, 0) = <<>> /\ SubSeq(lines, 1, Len(lines)) = lines
  <1> DEFINE one == 1
             n == Len(lines)
             all == SubSeq(lines, one, n)
  <1>1. n \in Nat /\ one = 1 /\ one \in Int /\ n = Len(lines)
    OBVIOUS
  <1>2. \A i \in one .. n : lines[i] \in S
    BY <1>1, ElementOfSeq
  <1> HIDE DEF one, n
  <1>3. /\ all \in Seq(S) /\ Len(all) = IF one <= n THEN n - one + 1 ELSE 0
        /\ \A i \in 1 .. n - one + 1 : all[i] = lines[one + i - 1]
    BY <1>1, <1>2, SubSeqProperties
  <1> HIDE DEF all
  <1>4. Len(all) = n
    BY <1>1, <1>3
  <1>5. \A i \in 1 .. n : all[i] = lines[i]
    <2> TAKE i \in 1 .. n
    <2>1. i \in 1 .. n - one + 1 /\ one + i - 1 = i
      BY <1>1
    <2> QED
      BY <1>3, <2>1
  <1>6. all = lines
    BY <1>1, <1>3, <1>4, <1>5, SeqEqual
  <1>7. SubSeq(lines, 1, 0) = <<>>
    BY SubSeqEmpty
  <1> QED
    BY <1>1, <1>6, <1>7 DEF one, n, all

LEMMA ReadConcat ==
    ASSUME NEW w \in Reader, NEW a \in Text, NEW b \in Text, NEW conds
    PROVE  ReadFrom(w, a \o b, conds) = ReadFrom(ReadFrom(w, a, conds), b, conds)
  <1> DEFINE Up(m) == SubSeq(b, 1, m)
             T == {m \in 0 .. Len(b) :
                      ReadFrom(w, a \o Up(m), conds) = ReadFrom(ReadFrom(w, a, conds), Up(m), conds)}
             v == ReadFrom(w, a, conds)
  <1>1. Len(b) \in Nat /\ v \in Reader
    BY ReadTyped DEF Text
  <1>2. Up(0) = <<>> /\ Up(Len(b)) = b
    BY AllOf DEF Text
  <1>3. 0 \in T
    <2>1. a \o <<>> = a
      BY DEF Text
    <2>2. ReadFrom(v, <<>>, conds) = v
      BY <1>1, ReadNothing
    <2>3. 0 \in 0 .. Len(b) /\ Up(0) = <<>>
      BY <1>1, <1>2
    <2> HIDE DEF Up
    <2>4. ReadFrom(w, a \o Up(0), conds) = ReadFrom(v, Up(0), conds)
      BY <2>1, <2>2, <2>3
    <2> QED
      BY <2>3, <2>4
  <1>4. ASSUME NEW m \in 0 .. Len(b) - 1, m \in T PROVE m + 1 \in T
    <2>1. Up(m) \in Text /\ b[m + 1] \in Line /\ Up(m + 1) = Append(Up(m), b[m + 1])
      BY Growing DEF Text
    <2>2. m + 1 \in 0 .. Len(b) /\ ReadFrom(w, a \o Up(m), conds) = ReadFrom(v, Up(m), conds)
      BY <1>1, <1>4
    <2> DEFINE c == a \o Up(m)
               x == b[m + 1]
    <2> HIDE DEF Up, v
    <2>3. c \in Text /\ a \o Append(Up(m), x) = Append(c, x)
      <3>1. a \in Seq(Line) /\ Up(m) \in Seq(Line) /\ x \in Line
        BY <2>1 DEF Text
      <3>2. Append(a \o Up(m), x) = a \o Append(Up(m), x)
        <4> DEFINE u == Up(m)
        <4> HIDE DEF u, x
        <4>1. a \in Seq(Line) /\ u \in Seq(Line) /\ x \in Line
          BY <3>1 DEF u
        <4>2. Append(a \o u, x) = a \o Append(u, x)
          BY <4>1, Behind
        <4> QED
          BY <4>2 DEF u
      <3> QED
        BY <3>1, <3>2 DEF Text
    <2> HIDE DEF c, x
    <2>4. ReadFrom(w, Append(c, x), conds) = ReadLine(ReadFrom(w, c, conds), x, conds)
      BY <2>1, <2>3, ReadAppend DEF x
    <2>5. ReadFrom(v, Append(Up(m), x), conds) = ReadLine(ReadFrom(v, Up(m), conds), x, conds)
      BY <1>1, <2>1, ReadAppend DEF x
    <2>6. ReadFrom(w, a \o Up(m + 1), conds) = ReadFrom(v, Up(m + 1), conds)
      BY <2>1, <2>2, <2>3, <2>4, <2>5 DEF c, x
    <2> QED
      BY <2>2, <2>6 DEF v
  <1> HIDE DEF T, Up
  <1>5. \A m \in 0 .. Len(b) : m \in T
    BY <1>1, <1>3, <1>4, UpTo
  <1>6. Len(b) \in T
    BY <1>1, <1>5
  <1> QED
    BY <1>2, <1>6 DEF T

LEMMA UnreadIsReader == Unread \in Reader
  <1>1. <<>> \in Seq(Frame) /\ <<>> \in Output
    BY EmptySeq DEF Output
  <1> QED
    BY <1>1 DEF Unread, Reader

\* One line is read.
LEMMA ReadOne ==
    ASSUME NEW w \in Reader, NEW line \in Line, NEW conds
    PROVE  ReadFrom(w, <<line>>, conds) = ReadLine(w, line, conds)
  <1> DEFINE none == <<>>
  <1>1. none \in Text /\ Append(none, line) = <<line>>
    BY DEF Text
  <1>2. ReadFrom(w, none, conds) = w
    BY ReadNothing
  <1> HIDE DEF none
  <1>3. ReadFrom(w, Append(none, line), conds) = ReadLine(ReadFrom(w, none, conds), line, conds)
    BY <1>1, ReadAppend
  <1> QED
    BY <1>1, <1>2, <1>3

\* The same conditionals are open, whichever conditions hold.
Alike(u, v) ==
    /\ Len(u.stack) = Len(v.stack)
    /\ \A k \in 1 .. Len(u.stack) : u.stack[k].else = v.stack[k].else

\* r reads from w on what u reads from the start, and v under no condition.
Framed(w, u, v, r) ==
    /\ ~u.bad /\ Alike(u, v)
    /\ r = [stack |-> w.stack \o u.stack, bad |-> w.bad,
            out |-> IF On(w) THEN w.out \o u.out ELSE w.out]

LEMMA OnBehind ==
    ASSUME NEW w \in Reader, NEW u \in Reader, NEW r \in Reader, r.stack = w.stack \o u.stack
    PROVE  On(r) <=> On(w) /\ On(u)
  <1> DEFINE a == w.stack
             b == u.stack
             c == r.stack
  <1>1. a \in Seq(Frame) /\ b \in Seq(Frame) /\ c = a \o b
    BY DEF Reader
  <1> HIDE DEF a, b, c
  <1>2. /\ Len(a) \in Nat /\ Len(b) \in Nat /\ Len(c) = Len(a) + Len(b)
        /\ \A i \in 1 .. Len(a) + Len(b) : c[i] = IF i <= Len(a) THEN a[i] ELSE b[i - Len(a)]
    BY <1>1, ConcatProperties
  <1>3. (\A m \in 1 .. Len(c) : c[m].on) => (\A m \in 1 .. Len(a) : a[m].on)
    <2> SUFFICES ASSUME \A m \in 1 .. Len(c) : c[m].on, NEW m \in 1 .. Len(a) PROVE a[m].on
      OBVIOUS
    <2>1. m \in 1 .. Len(c) /\ m \in 1 .. Len(a) + Len(b) /\ m <= Len(a)
      BY <1>2
    <2> QED
      BY <1>2, <2>1
  <1>4. (\A m \in 1 .. Len(c) : c[m].on) => (\A m \in 1 .. Len(b) : b[m].on)
    <2> SUFFICES ASSUME \A m \in 1 .. Len(c) : c[m].on, NEW m \in 1 .. Len(b) PROVE b[m].on
      OBVIOUS
    <2>1. /\ m + Len(a) \in 1 .. Len(c) /\ m + Len(a) \in 1 .. Len(a) + Len(b)
          /\ ~(m + Len(a) <= Len(a)) /\ m + Len(a) - Len(a) = m
      BY <1>2
    <2>2. c[m + Len(a)] = b[m] /\ c[m + Len(a)].on
      BY <1>2, <2>1
    <2> QED
      BY <2>2
  <1>5. (\A m \in 1 .. Len(a) : a[m].on) /\ (\A m \in 1 .. Len(b) : b[m].on) => \A m \in 1 .. Len(c) : c[m].on
    <2> SUFFICES ASSUME \A m \in 1 .. Len(a) : a[m].on, \A m \in 1 .. Len(b) : b[m].on, NEW m \in 1 .. Len(c)
                 PROVE  c[m].on
      OBVIOUS
    <2>1. CASE m <= Len(a)
      <3>1. m \in 1 .. Len(a) /\ m \in 1 .. Len(a) + Len(b)
        BY <1>2, <2>1
      <3> QED
        BY <1>2, <2>1, <3>1
    <2>2. CASE ~(m <= Len(a))
      <3>1. m - Len(a) \in 1 .. Len(b) /\ m \in 1 .. Len(a) + Len(b)
        BY <1>2, <2>2
      <3> QED
        BY <1>2, <2>2, <3>1
    <2> QED
      BY <2>1, <2>2
  <1> QED
    BY <1>3, <1>4, <1>5 DEF On, a, b, c

\* A reader, with parts of it changed.
LEMMA AnyReader ==
    ASSUME NEW w \in Reader
    PROVE  /\ w = [stack |-> w.stack, out |-> w.out, bad |-> w.bad]
           /\ w.stack \in Seq(Frame) /\ w.out \in Output /\ w.bad \in BOOLEAN
  BY DEF Reader

\* The last of conditionals that are alike.
LEMMA AlikeLast ==
    ASSUME NEW u \in Reader, NEW v \in Reader, Alike(u, v)
    PROVE  /\ (u.stack = <<>>) <=> (v.stack = <<>>)
           /\ u.stack # <<>> => Last(u.stack).else = Last(v.stack).else
  <1> DEFINE a == u.stack
             b == v.stack
  <1>1. a \in Seq(Frame) /\ b \in Seq(Frame) /\ Len(a) = Len(b) /\ Len(a) \in Nat
        /\ \A k \in 1 .. Len(a) : a[k].else = b[k].else
    BY AnyReader DEF Alike
  <1> HIDE DEF a, b
  <1>2. (a = <<>> <=> Len(a) = 0) /\ (b = <<>> <=> Len(b) = 0)
    BY <1>1
  <1>3. a # <<>> => Len(a) \in 1 .. Len(a)
    BY <1>1, <1>2
  <1> QED
    BY <1>1, <1>2, <1>3 DEF Last, a, b

\* A conditional more, one less, and the last one changed.
LEMMA AlikeMore ==
    ASSUME NEW u \in Reader, NEW v \in Reader, Alike(u, v),
           NEW x \in Frame, NEW y \in Frame, x.else = y.else, NEW u1, NEW v1
    PROVE  /\ u1.stack = Append(u.stack, x) /\ v1.stack = Append(v.stack, y) => Alike(u1, v1)
           /\ u.stack # <<>> /\ u1.stack = Front(u.stack) /\ v1.stack = Front(v.stack) => Alike(u1, v1)
           /\ u.stack # <<>> /\ u1.stack = Append(Front(u.stack), x) /\ v1.stack = Append(Front(v.stack), y)
                 => Alike(u1, v1)
  <1> DEFINE a == u.stack
             b == v.stack
  <1>1. a \in Seq(Frame) /\ b \in Seq(Frame) /\ Len(a) = Len(b) /\ Len(a) \in Nat
        /\ (a # <<>> => b # <<>>)
        /\ \A k \in 1 .. Len(a) : a[k].else = b[k].else
    BY AnyReader, AlikeLast DEF Alike
  <1>2. ASSUME a # <<>>
        PROVE  /\ Front(a) \in Seq(Frame) /\ Front(b) \in Seq(Frame) /\ Len(Front(a)) = Len(Front(b))
               /\ \A k \in 1 .. Len(Front(a)) : Front(a)[k].else = Front(b)[k].else
    <2> HIDE DEF a, b
    <2>1. /\ Front(a) \in Seq(Frame) /\ Len(Front(a)) = Len(a) - 1
          /\ \A i \in 1 .. Len(a) - 1 : Front(a)[i] = a[i]
      BY <1>1, <1>2, FrontOf
    <2>2. /\ Front(b) \in Seq(Frame) /\ Len(Front(b)) = Len(b) - 1
          /\ \A i \in 1 .. Len(b) - 1 : Front(b)[i] = b[i]
      BY <1>1, <1>2, FrontOf
    <2> QED
      BY <1>1, <2>1, <2>2
  <1>3. ASSUME NEW c \in Seq(Frame), NEW d \in Seq(Frame), Len(c) = Len(d),
               \A k \in 1 .. Len(c) : c[k].else = d[k].else
        PROVE  /\ Len(Append(c, x)) = Len(Append(d, y))
               /\ \A k \in 1 .. Len(Append(c, x)) : Append(c, x)[k].else = Append(d, y)[k].else
    <2>1. /\ Len(Append(c, x)) = Len(c) + 1 /\ Len(Append(d, y)) = Len(c) + 1 /\ Len(c) \in Nat
          /\ Append(c, x)[Len(c) + 1] = x /\ Append(d, y)[Len(c) + 1] = y
          /\ \A k \in 1 .. Len(c) : Append(c, x)[k] = c[k] /\ Append(d, y)[k] = d[k]
      BY <1>3
    <2>2. \A k \in 1 .. Len(c) + 1 : k = Len(c) + 1 \/ k \in 1 .. Len(c)
      BY <2>1
    <2> QED
      BY <1>3, <2>1, <2>2
  <1> HIDE DEF a, b
  <1>4. u1.stack = Append(a, x) /\ v1.stack = Append(b, y) => Alike(u1, v1)
    <2>1. /\ Len(Append(a, x)) = Len(Append(b, y))
          /\ \A k \in 1 .. Len(Append(a, x)) : Append(a, x)[k].else = Append(b, y)[k].else
      BY <1>1, <1>3
    <2> QED
      BY <2>1 DEF Alike
  <1>5. a # <<>> /\ u1.stack = Front(a) /\ v1.stack = Front(b) => Alike(u1, v1)
    BY <1>2 DEF Alike
  <1>6. a # <<>> /\ u1.stack = Append(Front(a), x) /\ v1.stack = Append(Front(b), y) => Alike(u1, v1)
    <2> SUFFICES ASSUME a # <<>>, u1.stack = Append(Front(a), x), v1.stack = Append(Front(b), y)
                 PROVE  Alike(u1, v1)
      OBVIOUS
    <2> DEFINE c == Front(a)
               d == Front(b)
    <2>1. c \in Seq(Frame) /\ d \in Seq(Frame) /\ Len(c) = Len(d) /\ \A k \in 1 .. Len(c) : c[k].else = d[k].else
      BY <1>2
    <2> HIDE DEF c, d
    <2>2. /\ Len(Append(c, x)) = Len(Append(d, y))
          /\ \A k \in 1 .. Len(Append(c, x)) : Append(c, x)[k].else = Append(d, y)[k].else
      BY <1>3, <2>1
    <2> QED
      BY <2>2 DEF Alike, c, d
  <1> QED
    BY <1>4, <1>5, <1>6 DEF a, b

LEMMA FramesBehind ==
    ASSUME NEW a \in Seq(Frame), NEW b \in Seq(Frame)
    PROVE  /\ \A x \in Frame : Append(a \o b, x) = a \o Append(b, x)
           /\ b # <<>> => /\ Front(a \o b) = a \o Front(b) /\ Last(a \o b) = Last(b) /\ a \o b # <<>>
                          /\ Front(b) \in Seq(Frame)
  <1> DEFINE S == Frame
  <1>1. a \in Seq(S) /\ b \in Seq(S)
    OBVIOUS
  <1> HIDE DEF S
  <1>2. \A x \in S : Append(a \o b, x) = a \o Append(b, x)
    BY <1>1
  <1>3. b # <<>> => Front(a \o b) = a \o Front(b) /\ Last(a \o b) = Last(b) /\ a \o b # <<>>
    BY <1>1, Behind
  <1>4. b # <<>> => Front(b) \in Seq(S)
    BY <1>1, FrontOf
  <1> QED
    BY <1>2, <1>3, <1>4 DEF S

\* What a line does.
LEMMA LineIf ==
    ASSUME NEW w \in Reader, NEW line \in Line, NEW conds, line[1] = "if"
    PROVE  LET x == [on |-> line[2] \in conds, else |-> FALSE] IN
           /\ x \in Frame
           /\ ReadLine(w, line, conds) = [stack |-> Append(w.stack, x), out |-> w.out, bad |-> w.bad]
  <1>1. w = [stack |-> w.stack, out |-> w.out, bad |-> w.bad]
    BY AnyReader
  <1>2. ReadLine(w, line, conds) = [w EXCEPT !.stack = Append(@, [on |-> line[2] \in conds, else |-> FALSE])]
    BY DEF ReadLine
  <1>3. [on |-> line[2] \in conds, else |-> FALSE] \in Frame
    BY DEF Frame
  <1> QED
    BY <1>1, <1>2, <1>3

LEMMA LineElse ==
    ASSUME NEW w \in Reader, NEW line \in Line, NEW conds, line[1] = "else"
    PROVE  LET x == [on |-> ~Last(w.stack).on, else |-> TRUE] IN
           /\ x \in Frame
           /\ w.stack # <<>> /\ ~Last(w.stack).else =>
                 ReadLine(w, line, conds) = [stack |-> Append(Front(w.stack), x), out |-> w.out, bad |-> w.bad]
           /\ ~(w.stack # <<>> /\ ~Last(w.stack).else) =>
                 ReadLine(w, line, conds) = [stack |-> w.stack, out |-> w.out, bad |-> TRUE]
  <1>1. w = [stack |-> w.stack, out |-> w.out, bad |-> w.bad]
    BY AnyReader
  <1>2. ASSUME w.stack # <<>>, ~Last(w.stack).else
        PROVE  ReadLine(w, line, conds) =
                  [w EXCEPT !.stack = Append(Front(@), [on |-> ~Last(@).on, else |-> TRUE])]
    BY <1>2 DEF ReadLine
  <1>3. ASSUME ~(w.stack # <<>> /\ ~Last(w.stack).else)
        PROVE  ReadLine(w, line, conds) = [w EXCEPT !.bad = TRUE]
    BY <1>3 DEF ReadLine
  <1>4. [on |-> ~Last(w.stack).on, else |-> TRUE] \in Frame
    BY DEF Frame
  <1> QED
    BY <1>1, <1>2, <1>3, <1>4

LEMMA LineEndif ==
    ASSUME NEW w \in Reader, NEW line \in Line, NEW conds, line[1] = "endif"
    PROVE  /\ w.stack # <<>> =>
                 ReadLine(w, line, conds) = [stack |-> Front(w.stack), out |-> w.out, bad |-> w.bad]
           /\ w.stack = <<>> => ReadLine(w, line, conds) = [stack |-> w.stack, out |-> w.out, bad |-> TRUE]
  <1>1. w = [stack |-> w.stack, out |-> w.out, bad |-> w.bad]
    BY AnyReader
  <1>2. ASSUME w.stack # <<>> PROVE ReadLine(w, line, conds) = [w EXCEPT !.stack = Front(@)]
    BY <1>2 DEF ReadLine
  <1>3. ASSUME w.stack = <<>> PROVE ReadLine(w, line, conds) = [w EXCEPT !.bad = TRUE]
    BY <1>3 DEF ReadLine
  <1> QED
    BY <1>1, <1>2, <1>3

LEMMA LineOther ==
    ASSUME NEW w \in Reader, NEW line \in Line, NEW conds, line[1] \notin {"if", "else", "endif"}
    PROVE  ReadLine(w, line, conds) =
              [stack |-> w.stack, out |-> IF On(w) THEN Append(w.out, Bare(line)) ELSE w.out, bad |-> w.bad]
  <1>1. w = [stack |-> w.stack, out |-> w.out, bad |-> w.bad]
    BY AnyReader
  <1>2. ReadLine(w, line, conds) = IF On(w) THEN [w EXCEPT !.out = Append(@, Bare(line))] ELSE w
    BY DEF ReadLine
  <1> QED
    BY <1>1, <1>2

LEMMA FramedStep ==
    ASSUME NEW w \in Reader, NEW u \in Reader, NEW v \in Reader, NEW r \in Reader,
           NEW line \in Line, NEW conds, ~v.bad, Framed(w, u, v, r), ~ReadLine(v, line, {}).bad
    PROVE  Framed(w, ReadLine(u, line, conds), ReadLine(v, line, {}), ReadLine(r, line, conds))
  <1> DEFINE u1 == ReadLine(u, line, conds)
             v1 == ReadLine(v, line, {})
             r1 == ReadLine(r, line, conds)
             s == u.stack
             t == v.stack
             q == w.stack
  <1>1. s \in Seq(Frame) /\ t \in Seq(Frame) /\ q \in Seq(Frame) /\ w.out \in Output /\ u.out \in Output
    BY AnyReader
  <1>2. /\ u.bad = FALSE /\ v.bad = FALSE /\ Alike(u, v)
        /\ r.stack = q \o s /\ r.bad = w.bad /\ r.out = IF On(w) THEN w.out \o u.out ELSE w.out
    <2>1. u.bad \in BOOLEAN /\ v.bad \in BOOLEAN
      BY AnyReader
    <2> QED
      BY <2>1 DEF Framed
  <1>3. /\ (s = <<>>) <=> (t = <<>>)
        /\ s # <<>> => Last(s).else = Last(t).else
    BY <1>2, AlikeLast
  <1>10. q \in Seq(Frame) /\ s \in Seq(Frame)
    BY <1>1
  <1>4. ASSUME NEW x \in Frame PROVE Append(q \o s, x) = q \o Append(s, x)
    <2> HIDE DEF q, s
    <2> QED
      BY <1>10, FramesBehind
  <1>5. ASSUME s # <<>>
        PROVE  /\ Front(q \o s) = q \o Front(s) /\ Last(q \o s) = Last(s) /\ q \o s # <<>>
               /\ Front(s) \in Seq(Frame)
    <2> HIDE DEF q, s
    <2> QED
      BY <1>10, <1>5, FramesBehind
  <1>6. CASE line[1] = "if"
    <2> DEFINE x == [on |-> line[2] \in conds, else |-> FALSE]
               y == [on |-> line[2] \in {}, else |-> FALSE]
    <2>1. x \in Frame /\ y \in Frame /\ x.else = y.else
      BY <1>6, LineIf
    <2>2. u1.stack = Append(s, x) /\ u1.out = u.out /\ u1.bad = FALSE
      BY <1>2, <1>6, LineIf
    <2>3. v1.stack = Append(t, y)
      BY <1>6, LineIf
    <2>4. r1 = [stack |-> Append(q \o s, x), out |-> r.out, bad |-> w.bad]
      BY <1>2, <1>6, LineIf
    <2> HIDE DEF x, y, u1, v1, r1
    <2>5. Alike(u1, v1)
      BY <1>2, <2>1, <2>2, <2>3, AlikeMore
    <2>6. r1 = [stack |-> q \o u1.stack, bad |-> w.bad, out |-> IF On(w) THEN w.out \o u1.out ELSE w.out]
      <3> HIDE DEF q, s
      <3> QED
        BY <1>2, <1>4, <2>1, <2>2, <2>4
    <2> QED
      BY <2>2, <2>5, <2>6 DEF Framed, u1, v1, r1
  <1>7. CASE line[1] = "else"
    <2> DEFINE x == [on |-> ~Last(s).on, else |-> TRUE]
               y == [on |-> ~Last(t).on, else |-> TRUE]
    <2>1. t # <<>> /\ ~Last(t).else
      <3> SUFFICES ASSUME ~(t # <<>> /\ ~Last(t).else) PROVE FALSE
        OBVIOUS
      <3>1. v1 = [stack |-> v.stack, out |-> v.out, bad |-> TRUE]
        BY <1>7, LineElse
      <3> QED
        BY <3>1
    <2>2. s # <<>> /\ ~Last(s).else
      BY <1>3, <2>1
    <2>3. x \in Frame /\ y \in Frame /\ x.else = y.else
      BY <1>7, LineElse
    <2>4. u1.stack = Append(Front(s), x) /\ u1.out = u.out /\ u1.bad = FALSE
      BY <1>2, <1>7, <2>2, LineElse
    <2>5. v1.stack = Append(Front(t), y)
      BY <1>7, <2>1, LineElse
    <2>6. r1 = [stack |-> Append(Front(q \o s), x), out |-> r.out, bad |-> w.bad]
      <3> DEFINE c == r.stack
      <3>1. c # <<>> /\ Last(c) = Last(s) /\ ~Last(c).else /\ c = q \o s
        BY <1>2, <1>5, <2>2
      <3>2. r1 = [stack |-> Append(Front(c), [on |-> ~Last(c).on, else |-> TRUE]), out |-> r.out, bad |-> r.bad]
        BY <1>7, <3>1, LineElse
      <3> QED
        BY <1>2, <3>1, <3>2
    <2> HIDE DEF x, y, u1, v1, r1
    <2>7. Alike(u1, v1)
      BY <1>2, <2>2, <2>3, <2>4, <2>5, AlikeMore
    <2>8. Append(Front(q \o s), x) = q \o Append(Front(s), x)
      <3> DEFINE f == Front(s)
      <3>1. f \in Seq(Frame) /\ Front(q \o s) = q \o f
        BY <1>5, <2>2
      <3>3. q \in Seq(Frame) /\ f \in Seq(Frame) /\ x \in Frame
        BY <1>10, <2>3, <3>1
      <3> HIDE DEF f, q, s
      <3>2. Append(q \o f, x) = q \o Append(f, x)
        BY <3>3, FramesBehind
      <3> QED
        BY <3>1, <3>2 DEF f
    <2>9. r1 = [stack |-> q \o u1.stack, bad |-> w.bad, out |-> IF On(w) THEN w.out \o u1.out ELSE w.out]
      <3> HIDE DEF q, s
      <3> QED
        BY <1>2, <2>4, <2>6, <2>8
    <2> QED
      BY <2>4, <2>7, <2>9 DEF Framed, u1, v1, r1
  <1>8. CASE line[1] = "endif"
    <2>1. t # <<>> /\ s # <<>>
      <3>1. t # <<>>
        BY <1>8, LineEndif
      <3> QED
        BY <1>3, <3>1
    <2>2. u1.stack = Front(s) /\ u1.out = u.out /\ u1.bad = FALSE
      BY <1>2, <1>8, <2>1, LineEndif
    <2>3. v1.stack = Front(t)
      BY <1>8, <2>1, LineEndif
    <2>4. r1 = [stack |-> q \o Front(s), out |-> r.out, bad |-> w.bad]
      <3> DEFINE c == r.stack
      <3>1. c # <<>> /\ Front(c) = q \o Front(s)
        BY <1>2, <1>5, <2>1
      <3>2. r1 = [stack |-> Front(c), out |-> r.out, bad |-> r.bad]
        BY <1>8, <3>1, LineEndif
      <3> QED
        BY <1>2, <3>1, <3>2
    <2> DEFINE x == [on |-> TRUE, else |-> TRUE]
    <2>5. x \in Frame
      BY DEF Frame
    <2> HIDE DEF x, u1, v1, r1
    <2>6. Alike(u1, v1)
      BY <1>2, <2>1, <2>2, <2>3, <2>5, AlikeMore
    <2>7. r1 = [stack |-> q \o u1.stack, bad |-> w.bad, out |-> IF On(w) THEN w.out \o u1.out ELSE w.out]
      <3> HIDE DEF q, s
      <3> QED
        BY <1>2, <2>2, <2>4
    <2> QED
      BY <2>2, <2>6, <2>7 DEF Framed, u1, v1, r1
  <1>9. CASE line[1] \notin {"if", "else", "endif"}
    <2>1. /\ u1.stack = s /\ u1.out = (IF On(u) THEN Append(u.out, Bare(line)) ELSE u.out) /\ u1.bad = FALSE
      <3>1. u1 = [stack |-> u.stack, out |-> IF On(u) THEN Append(u.out, Bare(line)) ELSE u.out, bad |-> u.bad]
        BY <1>9, LineOther
      <3> QED
        BY <1>2, <3>1
    <2>2. v1.stack = t
      BY <1>9, LineOther
    <2>3. r1 = [stack |-> q \o s, out |-> IF On(r) THEN Append(r.out, Bare(line)) ELSE r.out, bad |-> w.bad]
      BY <1>2, <1>9, LineOther
    <2>4. On(r) <=> On(w) /\ On(u)
      BY <1>2, OnBehind
    <2>5. Append(w.out \o u.out, Bare(line)) = w.out \o Append(u.out, Bare(line))
      <3> DEFINE a == w.out
                 b == u.out
                 x == Bare(line)
      <3>1. a \in Seq(Printed) /\ b \in Seq(Printed) /\ x \in Printed
        BY <1>1, BareTyped DEF Output
      <3> HIDE DEF a, b, x
      <3>2. Append(a \o b, x) = a \o Append(b, x)
        BY <3>1, Behind
      <3> QED
        BY <3>2 DEF a, b, x
    <2> HIDE DEF u1, v1, r1
    <2>6. Alike(u1, v1)
      BY <1>2, <2>1, <2>2 DEF Alike
    <2>7. (IF On(r) THEN Append(r.out, Bare(line)) ELSE r.out) = (IF On(w) THEN w.out \o u1.out ELSE w.out)
      BY <1>2, <2>1, <2>4, <2>5
    <2>8. r1 = [stack |-> q \o u1.stack, bad |-> w.bad, out |-> IF On(w) THEN w.out \o u1.out ELSE w.out]
      BY <2>1, <2>3, <2>7
    <2> QED
      BY <2>1, <2>6, <2>8 DEF Framed, u1, v1, r1
  <1> QED
    BY <1>6, <1>7, <1>8, <1>9

\* A file that is bad stays so.
LEMMA StaysBad ==
    ASSUME NEW v \in Reader, NEW line \in Line, NEW conds, v.bad
    PROVE  ReadLine(v, line, conds).bad
  <1> DEFINE x == ReadLine(v, line, conds)
  <1>1. v.bad = TRUE
    BY AnyReader
  <1>2. ASSUME line[1] = "if" PROVE x.bad = TRUE
    <2>1. x = [stack |-> Append(v.stack, [on |-> line[2] \in conds, else |-> FALSE]), out |-> v.out, bad |-> v.bad]
      BY <1>2, LineIf
    <2> HIDE DEF x
    <2> QED
      BY <1>1, <2>1
  <1>3. ASSUME line[1] = "else" PROVE x.bad = TRUE
    <2>1. CASE v.stack # <<>> /\ ~Last(v.stack).else
      <3>1. x = [stack |-> Append(Front(v.stack), [on |-> ~Last(v.stack).on, else |-> TRUE]),
                 out |-> v.out, bad |-> v.bad]
        BY <1>3, <2>1, LineElse
      <3> HIDE DEF x
      <3> QED
        BY <1>1, <3>1
    <2>2. CASE ~(v.stack # <<>> /\ ~Last(v.stack).else)
      <3>1. x = [stack |-> v.stack, out |-> v.out, bad |-> TRUE]
        BY <1>3, <2>2, LineElse
      <3> HIDE DEF x
      <3> QED
        BY <3>1
    <2> QED
      BY <2>1, <2>2
  <1>4. line[1] = "endif" => x.bad = TRUE
    BY <1>1, LineEndif
  <1>5. line[1] \notin {"if", "else", "endif"} => x.bad = TRUE
    BY <1>1, LineOther
  <1> QED
    BY <1>2, <1>3, <1>4, <1>5

\* Lines that open and close their conditionals add to what is read what they give
\* alone, wherever they stand.
LEMMA WholeReads ==
    ASSUME NEW w \in Reader, NEW p \in Text, Whole(p), NEW conds
    PROVE  LET effect == ReadFrom(Unread, p, conds).out IN
           /\ effect \in Output
           /\ ReadFrom(w, p, conds) = [stack |-> w.stack, bad |-> w.bad,
                                      out |-> IF On(w) THEN w.out \o effect ELSE w.out]
  <1> DEFINE Up(m) == SubSeq(p, 1, m)
             U(m) == ReadFrom(Unread, Up(m), conds)
             V(m) == ReadFrom(Unread, Up(m), {})
             R(m) == ReadFrom(w, Up(m), conds)
             T == {m \in 0 .. Len(p) : ~V(m).bad => Framed(w, U(m), V(m), R(m))}
  <1>1. Len(p) \in Nat /\ Unread \in Reader /\ Up(0) = <<>> /\ Up(Len(p)) = p
    BY AllOf, UnreadIsReader DEF Text
  <1>2. 0 \in T
    <2>1. U(0) = Unread /\ V(0) = Unread /\ R(0) = w
      <3> HIDE DEF Up
      <3> QED
        BY <1>1, ReadNothing
    <2>2. w = [stack |-> w.stack, out |-> w.out, bad |-> w.bad] /\ w.stack \in Seq(Frame) /\ w.out \in Output
      BY AnyReader
    <2>3. Unread.bad = FALSE /\ Unread.stack = <<>> /\ Unread.out = <<>>
      BY DEF Unread
    <2>4. w.stack \o <<>> = w.stack /\ w.out \o <<>> = w.out
      BY <2>2 DEF Output
    <2>5. Alike(Unread, Unread)
      BY DEF Alike
    <2>6. Framed(w, Unread, Unread, w)
      BY <2>2, <2>3, <2>4, <2>5 DEF Framed
    <2>7. Framed(w, U(0), V(0), R(0))
      BY <2>1, <2>6
    <2> HIDE DEF U, V, R
    <2> QED
      BY <1>1, <2>7
  <1>3. ASSUME NEW m \in 0 .. Len(p) - 1, m \in T PROVE m + 1 \in T
    <2> SUFFICES ASSUME ~V(m + 1).bad PROVE Framed(w, U(m + 1), V(m + 1), R(m + 1))
      <3> HIDE DEF U, V, R
      <3> QED
        BY <1>1
    <2>1. Up(m) \in Text /\ p[m + 1] \in Line /\ Up(m + 1) = Append(Up(m), p[m + 1])
      BY Growing DEF Text
    <2>2. ~V(m).bad => Framed(w, U(m), V(m), R(m))
      <3> HIDE DEF U, V, R
      <3> QED
        BY <1>3
    <2>3. U(m) \in Reader /\ V(m) \in Reader /\ R(m) \in Reader
      <3> HIDE DEF Up
      <3> QED
        BY <1>1, <2>1, ReadTyped
    <2>4. /\ U(m + 1) = ReadLine(U(m), p[m + 1], conds)
          /\ V(m + 1) = ReadLine(V(m), p[m + 1], {})
          /\ R(m + 1) = ReadLine(R(m), p[m + 1], conds)
      <3> DEFINE s == Up(m)
                 x == p[m + 1]
                 t == Up(m + 1)
      <3>1. s \in Text /\ x \in Line /\ t = Append(s, x) /\ Unread \in Reader
        BY <1>1, <2>1
      <3> HIDE DEF s, x, t
      <3>2. ReadFrom(Unread, t, conds) = ReadLine(ReadFrom(Unread, s, conds), x, conds)
        BY <3>1, ReadAppend
      <3>3. ReadFrom(Unread, t, {}) = ReadLine(ReadFrom(Unread, s, {}), x, {})
        BY <3>1, ReadAppend
      <3>4. ReadFrom(w, t, conds) = ReadLine(ReadFrom(w, s, conds), x, conds)
        BY <3>1, ReadAppend
      <3> QED
        BY <3>2, <3>3, <3>4 DEF s, x, t
    <2> HIDE DEF U, V, R
    <2>5. ~V(m).bad
      BY <2>1, <2>3, <2>4, StaysBad
    <2> QED
      BY <2>1, <2>2, <2>3, <2>4, <2>5, FramedStep
  <1> HIDE DEF T
  <1>4. \A m \in 0 .. Len(p) : m \in T
    BY <1>1, <1>2, <1>3, UpTo
  <1> DEFINE u == ReadFrom(Unread, p, conds)
             v == ReadFrom(Unread, p, {})
             r == ReadFrom(w, p, conds)
  <1>5. ~v.bad => Framed(w, u, v, r)
    <2>1. Len(p) \in T
      BY <1>1, <1>4
    <2> HIDE DEF Up
    <2> QED
      BY <1>1, <2>1 DEF T
  <1>6. u \in Reader /\ v \in Reader
    BY UnreadIsReader, ReadTyped
  <1>7. ~v.bad /\ v.stack = <<>>
    BY DEF Whole
  <1> HIDE DEF u, v, r
  <1>8. /\ Framed(w, u, v, r) /\ Alike(u, v)
        /\ r = [stack |-> w.stack \o u.stack, bad |-> w.bad, out |-> IF On(w) THEN w.out \o u.out ELSE w.out]
    BY <1>5, <1>7 DEF Framed
  <1>9. u.stack = <<>>
    BY <1>6, <1>7, <1>8, AlikeLast
  <1>10. w.stack \o <<>> = w.stack
    BY AnyReader
  <1>11. r = [stack |-> w.stack, bad |-> w.bad, out |-> IF On(w) THEN w.out \o u.out ELSE w.out]
    BY <1>8, <1>9, <1>10
  <1>12. u.out \in Output
    BY <1>6, AnyReader
  <1> QED
    BY <1>11, <1>12 DEF u, r

\* What is on when a conditional more is open, and when it is closed again.
LEMMA OnTop ==
    ASSUME NEW w \in Reader, NEW x \in Frame, NEW u \in Reader, u.stack = Append(w.stack, x)
    PROVE  /\ On(u) <=> On(w) /\ x.on
           /\ u.stack # <<>> /\ Front(u.stack) = w.stack /\ Last(u.stack) = x
  <1> DEFINE a == w.stack
             b == u.stack
  <1>1. a \in Seq(Frame) /\ b = Append(a, x)
    BY AnyReader
  <1> HIDE DEF a, b
  <1>2. /\ Len(a) \in Nat /\ Len(b) = Len(a) + 1 /\ b[Len(a) + 1] = x /\ b \in Seq(Frame)
        /\ \A i \in 1 .. Len(a) : b[i] = a[i]
    BY <1>1
  <1>3. \A i \in 1 .. Len(b) : i \in 1 .. Len(a) \/ i = Len(a) + 1
    BY <1>2
  <1>4. (\A m \in 1 .. Len(b) : b[m].on) <=> (\A m \in 1 .. Len(a) : a[m].on) /\ x.on
    <2>1. \A m \in 1 .. Len(a) : m \in 1 .. Len(b)
      BY <1>2
    <2>2. Len(a) + 1 \in 1 .. Len(b)
      BY <1>2
    <2> QED
      BY <1>2, <1>3, <2>1, <2>2
  <1>5. b # <<>>
    BY <1>2
  <1>6. Front(b) \in Seq(Frame) /\ Len(Front(b)) = Len(a) /\ \A i \in 1 .. Len(a) : Front(b)[i] = b[i]
    <2>1. /\ Front(b) \in Seq(Frame) /\ Len(Front(b)) = Len(b) - 1
          /\ \A i \in 1 .. Len(b) - 1 : Front(b)[i] = b[i]
      BY <1>2, <1>5, FrontOf
    <2> QED
      BY <1>2, <2>1
  <1>7. Front(b) = a
    <2> DEFINE f == Front(b)
    <2>1. f \in Seq(Frame) /\ Len(f) = Len(a) /\ \A i \in 1 .. Len(a) : f[i] = a[i]
      BY <1>2, <1>6
    <2> HIDE DEF f
    <2>2. f = a
      BY <1>1, <2>1, SeqEqual
    <2> QED
      BY <2>2 DEF f
  <1>8. Last(b) = x
    BY <1>2 DEF Last
  <1> QED
    BY <1>4, <1>5, <1>7, <1>8 DEF On, a, b

LEMMA MarksAreLines ==
    /\ Else \in Line /\ Endif \in Line /\ Else[1] = "else" /\ Endif[1] = "endif"
    /\ \A c \in Word : IfLine(c) \in Line /\ IfLine(c)[1] = "if" /\ IfLine(c)[2] = c
  <1>1. \A a, b \in Word : <<a, b, "">> \in Line /\ <<a, b, "">>[1] = a /\ <<a, b, "">>[2] = b
    BY DEF Line
  <1>2. "else" \in Word /\ "endif" \in Word /\ "if" \in Word /\ "" \in Word
    BY DEF Word
  <1>3. Else \in Line /\ Else[1] = "else"
    BY <1>1, <1>2 DEF Else
  <1>4. Endif \in Line /\ Endif[1] = "endif"
    BY <1>1, <1>2 DEF Endif
  <1>5. \A c \in Word : IfLine(c) \in Line /\ IfLine(c)[1] = "if" /\ IfLine(c)[2] = c
    BY <1>1, <1>2 DEF IfLine
  <1> QED
    BY <1>3, <1>4, <1>5

\* The lines of one of the two files, and a format that tells which it is.
Side(old, new, first) == IF first THEN old ELSE new
Tells(format, conds, first) ==
    /\ format # DiffFormatCombine /\ format.old \in Word /\ format.new \in Word
    /\ first => format.old \in conds /\ format.new \notin conds
    /\ ~first => format.old \notin conds /\ format.new \in conds

LEMMA IfFrame ==
    ASSUME NEW conds, NEW c
    PROVE  LET x == [on |-> c \in conds, else |-> FALSE] IN
           /\ x \in Frame
           /\ x.on <=> c \in conds
           /\ ~x.else
  <1> DEFINE x == [on |-> c \in conds, else |-> FALSE]
  <1>1. x.on = (c \in conds) /\ x.else = FALSE
    OBVIOUS
  <1>2. (c \in conds) \in BOOLEAN
    OBVIOUS
  <1>3. x \in Frame
    BY <1>2 DEF Frame
  <1>4. x.on <=> c \in conds
    OBVIOUS
  <1> QED
    BY <1>1, <1>3, <1>4

\* What is read up to the end of one part of a conditional, and of the other.
Opened(u, w, z, c, conds) ==
    /\ u \in Reader /\ u.stack = Append(w.stack, [on |-> c \in conds, else |-> FALSE]) /\ u.bad = w.bad
    /\ u.out = IF c \in conds THEN z.out ELSE w.out
Turned(u, w, v, x, effect) ==
    /\ u \in Reader /\ u.stack = Append(w.stack, [on |-> ~x.on, else |-> TRUE]) /\ u.bad = w.bad
    /\ u.out = IF ~x.on /\ On(w) THEN v.out \o effect ELSE v.out

\* A conditional around lines that are whole.
LEMMA ReadOpen ==
    ASSUME NEW w \in Reader, NEW a \in Text, Whole(a), NEW conds, NEW c \in Word
    PROVE  Opened(ReadFrom(w, <<IfLine(c)>> \o a, conds), w, ReadFrom(w, a, conds), c, conds)
  <1> DEFINE x == [on |-> c \in conds, else |-> FALSE]
             line == IfLine(c)
             one == <<line>>
             v == ReadLine(w, line, conds)
             effect == ReadFrom(Unread, a, conds).out
             u == ReadFrom(w, one \o a, conds)
             z == ReadFrom(w, a, conds)
  <1>1. line \in Line /\ line[1] = "if" /\ line[2] = c
    BY MarksAreLines
  <1>2. one \in Text
    BY <1>1 DEF Text
  <1>3. x \in Frame /\ (x.on <=> c \in conds)
    BY IfFrame
  <1>4. v \in Reader
    BY <1>1, ReadType
  <1> HIDE DEF line
  <1>5. v = [stack |-> Append(w.stack, x), out |-> w.out, bad |-> w.bad]
    <2>1. v = [stack |-> Append(w.stack, [on |-> line[2] \in conds, else |-> FALSE]), out |-> w.out, bad |-> w.bad]
      BY <1>1, LineIf
    <2> QED
      BY <1>1, <2>1
  <1>6. ReadFrom(w, one, conds) = v
    BY <1>1, ReadOne
  <1> HIDE DEF one, v, x
  <1>7. u = ReadFrom(v, a, conds)
    BY <1>2, <1>6, ReadConcat
  <1>8. u = [stack |-> v.stack, bad |-> v.bad, out |-> IF On(v) THEN v.out \o effect ELSE v.out]
    BY <1>4, <1>7, WholeReads
  <1>9. z = [stack |-> w.stack, bad |-> w.bad, out |-> IF On(w) THEN w.out \o effect ELSE w.out]
    BY WholeReads
  <1>10. v.stack = Append(w.stack, x) /\ v.out = w.out /\ v.bad = w.bad
    BY <1>5
  <1>11. On(v) <=> On(w) /\ c \in conds
    BY <1>3, <1>4, <1>10, OnTop
  <1>12. u \in Reader
    BY <1>4, <1>7, ReadTyped
  <1> HIDE DEF u, effect, z
  <1>13. u.stack = Append(w.stack, x) /\ u.bad = w.bad
    BY <1>8, <1>10
  <1>14. u.out = IF c \in conds THEN z.out ELSE w.out
    BY <1>8, <1>9, <1>10, <1>11
  <1> QED
    BY <1>12, <1>13, <1>14 DEF u, x, one, line, z, Opened

\* The other part of it.
LEMMA ReadElse ==
    ASSUME NEW w \in Reader, NEW v \in Reader, NEW b \in Text, Whole(b), NEW conds, NEW x \in Frame, ~x.else,
           v.stack = Append(w.stack, x), v.bad = w.bad
    PROVE  Turned(ReadFrom(v, <<Else>> \o b, conds), w, v, x, ReadFrom(Unread, b, conds).out)
  <1> DEFINE y == [on |-> ~x.on, else |-> TRUE]
             one == <<Else>>
             t == ReadLine(v, Else, conds)
             effect == ReadFrom(Unread, b, conds).out
             u == ReadFrom(v, one \o b, conds)
  <1>1. Else \in Line /\ Else[1] = "else"
    BY MarksAreLines
  <1>2. one \in Text
    BY <1>1 DEF Text
  <1>3. y \in Frame /\ (y.on <=> ~x.on)
    BY DEF Frame
  <1>4. t \in Reader
    BY <1>1, ReadType
  <1>5. v.stack # <<>> /\ Front(v.stack) = w.stack /\ Last(v.stack) = x
    BY <1>3, OnTop
  <1>6. t = [stack |-> Append(w.stack, y), out |-> v.out, bad |-> w.bad]
    <2>1. ~Last(v.stack).else
      BY <1>3, <1>5
    <2>2. t = [stack |-> Append(Front(v.stack), [on |-> ~Last(v.stack).on, else |-> TRUE]), out |-> v.out, bad |-> v.bad]
      BY <1>1, <1>5, <2>1, LineElse
    <2>3. [on |-> ~Last(v.stack).on, else |-> TRUE] = y
      BY <1>3, <1>5
    <2> QED
      BY <1>5, <2>2, <2>3
  <1>7. ReadFrom(v, one, conds) = t
    BY <1>1, ReadOne
  <1> HIDE DEF one, t, y
  <1>8. u = ReadFrom(t, b, conds)
    BY <1>2, <1>7, ReadConcat
  <1>9. u = [stack |-> t.stack, bad |-> t.bad, out |-> IF On(t) THEN t.out \o effect ELSE t.out]
    BY <1>4, <1>8, WholeReads
  <1>10. t.stack = Append(w.stack, y) /\ t.out = v.out /\ t.bad = w.bad
    BY <1>6
  <1>11. On(t) <=> On(w) /\ ~x.on
    BY <1>3, <1>4, <1>10, OnTop
  <1>12. u \in Reader
    BY <1>4, <1>8, ReadTyped
  <1> HIDE DEF u, effect
  <1>13. u.stack = Append(w.stack, y) /\ u.bad = w.bad
    BY <1>9, <1>10
  <1>14. u.out = IF ~x.on /\ On(w) THEN v.out \o effect ELSE v.out
    BY <1>9, <1>10, <1>11
  <1> QED
    BY <1>12, <1>13, <1>14 DEF u, y, one, effect, Turned

\* Its end.
LEMMA ReadEndif ==
    ASSUME NEW w \in Reader, NEW v \in Reader, NEW conds, NEW x \in Frame,
           v.stack = Append(w.stack, x), v.bad = w.bad
    PROVE  ReadFrom(v, <<Endif>>, conds) = [stack |-> w.stack, out |-> v.out, bad |-> w.bad]
  <1>1. Endif \in Line /\ Endif[1] = "endif"
    BY MarksAreLines
  <1>2. v.stack # <<>> /\ Front(v.stack) = w.stack
    BY OnTop
  <1>3. ReadLine(v, Endif, conds) = [stack |-> Front(v.stack), out |-> v.out, bad |-> v.bad]
    BY <1>1, <1>2, LineEndif
  <1> QED
    BY <1>1, <1>2, <1>3, ReadOne

\* Of a group that differs each finds its own lines.
LEMMA GroupReads ==
    ASSUME NEW w \in Reader, NEW a \in Text, NEW b \in Text, Whole(a), Whole(b),
           NEW format, NEW conds, NEW first \in BOOLEAN, Tells(format, conds, first)
    PROVE  /\ Group(a, b, format) \in Text
           /\ ReadFrom(w, Group(a, b, format), conds) = ReadFrom(w, Side(a, b, first), conds)
  <1> DEFINE if == <<IfLine(format.old)>>
             ifnew == <<IfLine(format.new)>>
             else == <<Else>>
             endif == <<Endif>>
             none == <<>>
             ea == ReadFrom(Unread, a, conds).out
             eb == ReadFrom(Unread, b, conds).out
  <1>1. /\ format # DiffFormatCombine /\ format.old \in Word /\ format.new \in Word
        /\ first <=> format.old \in conds
        /\ ~first <=> format.new \in conds
    BY DEF Tells
  <1>0. /\ IfLine(format.old) \in Line /\ IfLine(format.new) \in Line
        /\ Else \in Line /\ Endif \in Line
    BY <1>1, MarksAreLines
  <1>2. if \in Text /\ ifnew \in Text /\ else \in Text /\ endif \in Text /\ none \in Text
    BY <1>0 DEF Text
  <1>3. ReadFrom(w, a, conds) = [stack |-> w.stack, bad |-> w.bad, out |-> IF On(w) THEN w.out \o ea ELSE w.out]
    BY WholeReads
  <1>4. ReadFrom(w, b, conds) = [stack |-> w.stack, bad |-> w.bad, out |-> IF On(w) THEN w.out \o eb ELSE w.out]
    BY WholeReads
  <1>5. w = [stack |-> w.stack, out |-> w.out, bad |-> w.bad]
    BY AnyReader
  <1>6. CASE a # <<>> /\ b # <<>>
    <2> DEFINE g == ((if \o a) \o (else \o b)) \o endif
               v == ReadFrom(w, if \o a, conds)
               u == ReadFrom(v, else \o b, conds)
               x == [on |-> format.old \in conds, else |-> FALSE]
               y == [on |-> ~x.on, else |-> TRUE]
    <2>1. Group(a, b, format) = g
      <3>1. Group(a, b, format) = if \o a \o else \o b \o endif
        BY <1>1, <1>6 DEF Group
      <3> HIDE DEF if, else, endif
      <3>2. if \o a \o else \o b \o endif = g
        BY <1>2 DEF Text
      <3> QED
        BY <3>1, <3>2
    <2>2. /\ v \in Reader /\ v.stack = Append(w.stack, x) /\ v.bad = w.bad
          /\ v.out = IF first THEN ReadFrom(w, a, conds).out ELSE w.out
      <3>1. Opened(v, w, ReadFrom(w, a, conds), format.old, conds)
        BY <1>1, ReadOpen
      <3>2. v.out = IF format.old \in conds THEN ReadFrom(w, a, conds).out ELSE w.out
        BY <3>1 DEF Opened
      <3>3. v \in Reader /\ v.stack = Append(w.stack, x) /\ v.bad = w.bad
        BY <3>1 DEF Opened
      <3> HIDE DEF v, x
      <3> QED
        BY <1>1, <3>2, <3>3
    <2>3. /\ u \in Reader /\ u.stack = Append(w.stack, y) /\ u.bad = w.bad
          /\ u.out = IF ~first /\ On(w) THEN v.out \o eb ELSE v.out
      <3>1. x \in Frame /\ ~x.else /\ (x.on <=> first)
        <4>1. x \in Frame /\ (x.on <=> format.old \in conds) /\ ~x.else
          BY IfFrame
        <4> HIDE DEF x
        <4> QED
          BY <1>1, <4>1
      <3> HIDE DEF v, x
      <3>4. Turned(u, w, v, x, eb)
        BY <2>2, <3>1, ReadElse
      <3>2. u \in Reader /\ u.stack = Append(w.stack, y) /\ u.bad = w.bad
        BY <3>4 DEF Turned
      <3>3. u.out = IF ~x.on /\ On(w) THEN v.out \o eb ELSE v.out
        BY <3>4 DEF Turned
      <3> HIDE DEF u, y
      <3> QED
        BY <3>1, <3>2, <3>3
    <2>4. y \in Frame
      BY DEF Frame
    <2>5. g \in Text /\ ReadFrom(w, g, conds) = ReadFrom(u, endif, conds)
      <3> DEFINE c == if \o a
                 d == else \o b
      <3>1. c \in Text /\ d \in Text /\ c \o d \in Text /\ (c \o d) \o endif \in Text
        <4> HIDE DEF if, else, endif
        <4> QED
          BY <1>2 DEF Text
      <3> HIDE DEF c, d
      <3>2. ReadFrom(w, (c \o d) \o endif, conds) = ReadFrom(ReadFrom(w, c \o d, conds), endif, conds)
        BY <1>2, <3>1, ReadConcat
      <3>3. ReadFrom(w, c \o d, conds) = ReadFrom(ReadFrom(w, c, conds), d, conds)
        BY <3>1, ReadConcat
      <3> QED
        BY <3>1, <3>2, <3>3 DEF c, d
    <2> HIDE DEF v, u, y, x, g
    <2>6. ReadFrom(u, endif, conds) = [stack |-> w.stack, out |-> u.out, bad |-> w.bad]
      BY <2>3, <2>4, ReadEndif
    <2>7. u.out = ReadFrom(w, Side(a, b, first), conds).out
      <3> DEFINE za == ReadFrom(w, a, conds)
                 zb == ReadFrom(w, b, conds)
      <3> HIDE DEF za, zb, ea, eb
      <3>1. za = [stack |-> w.stack, bad |-> w.bad, out |-> IF On(w) THEN w.out \o ea ELSE w.out]
        BY <1>3 DEF za
      <3>2. zb = [stack |-> w.stack, bad |-> w.bad, out |-> IF On(w) THEN w.out \o eb ELSE w.out]
        BY <1>4 DEF zb
      <3>3. v.out = IF first THEN za.out ELSE w.out
        BY <2>2 DEF za
      <3>4. u.out = IF first THEN za.out ELSE zb.out
        BY <2>3, <3>1, <3>2, <3>3
      <3> QED
        BY <3>4 DEF Side, za, zb
    <2>8. ReadFrom(w, Side(a, b, first), conds) = [stack |-> w.stack, out |-> u.out, bad |-> w.bad]
      BY <1>3, <1>4, <2>7 DEF Side
    <2> QED
      BY <2>1, <2>5, <2>6, <2>8
  <1>7. ASSUME NEW p \in Text, Whole(p), NEW c \in Word
        PROVE  LET g == <<IfLine(c)>> \o p \o <<Endif>> IN
               /\ g \in Text
               /\ ReadFrom(w, g, conds) = IF c \in conds THEN ReadFrom(w, p, conds) ELSE w
    <2> DEFINE h == <<IfLine(c)>>
               d == h \o p
               v == ReadFrom(w, d, conds)
               x == [on |-> c \in conds, else |-> FALSE]
    <2>1. /\ v \in Reader /\ v.stack = Append(w.stack, x) /\ v.bad = w.bad
          /\ v.out = IF c \in conds THEN ReadFrom(w, p, conds).out ELSE w.out
      BY <1>7, ReadOpen DEF Opened
    <2>2. x \in Frame
      BY IfFrame
    <2>3. h \in Text
      BY MarksAreLines DEF Text
    <2>4. d \in Text /\ d \o endif \in Text
      <3> HIDE DEF h, endif
      <3> QED
        BY <1>2, <2>3 DEF Text
    <2>5. ReadFrom(v, endif, conds) = [stack |-> w.stack, out |-> v.out, bad |-> w.bad]
      <3> HIDE DEF v, x
      <3> QED
        BY <2>1, <2>2, ReadEndif
    <2>6. ReadFrom(w, d \o endif, conds) = ReadFrom(v, endif, conds)
      <3> HIDE DEF d, endif
      <3> QED
        BY <1>2, <2>4, ReadConcat
    <2>7. ReadFrom(w, p, conds).stack = w.stack /\ ReadFrom(w, p, conds).bad = w.bad
          /\ ReadFrom(w, p, conds) = [stack |-> w.stack, bad |-> w.bad, out |-> ReadFrom(w, p, conds).out]
      <3> DEFINE z == ReadFrom(w, p, conds)
      <3>1. z = [stack |-> w.stack, bad |-> w.bad, out |-> IF On(w) THEN w.out \o ReadFrom(Unread, p, conds).out ELSE w.out]
        BY <1>7, WholeReads
      <3> HIDE DEF z
      <3>2. z.stack = w.stack /\ z.bad = w.bad
        BY <3>1
      <3>3. z = [stack |-> w.stack, bad |-> w.bad, out |-> z.out]
        BY <3>1
      <3> QED
        BY <3>2, <3>3 DEF z
    <2>8. [stack |-> w.stack, out |-> v.out, bad |-> w.bad] = IF c \in conds THEN ReadFrom(w, p, conds) ELSE w
      <3> HIDE DEF v
      <3> QED
        BY <1>5, <2>1, <2>7
    <2> QED
      BY <2>4, <2>5, <2>6, <2>8
  <1>8. CASE a # <<>> /\ b = <<>>
    <2>1. Group(a, b, format) = <<IfLine(format.old)>> \o a \o <<Endif>>
      BY <1>1, <1>8 DEF Group
    <2>2. ReadFrom(w, b, conds) = w
      BY <1>8, ReadNothing
    <2> QED
      BY <1>1, <1>7, <2>1, <2>2 DEF Side
  <1>9. CASE a = <<>> /\ b # <<>>
    <2>1. Group(a, b, format) = <<IfLine(format.new)>> \o b \o <<Endif>>
      BY <1>1, <1>9 DEF Group
    <2>2. ReadFrom(w, a, conds) = w
      BY <1>9, ReadNothing
    <2> QED
      BY <1>1, <1>7, <2>1, <2>2 DEF Side
  <1>10. CASE a = <<>> /\ b = <<>>
    <2>1. Group(a, b, format) = <<>>
      BY <1>1, <1>10 DEF Group
    <2> QED
      BY <1>2, <1>10, <2>1 DEF Side
  <1> QED
    BY <1>6, <1>8, <1>9, <1>10

Formatted(format) == format = DiffFormatCombine \/ (format.old \in Word /\ format.new \in Word)

LEMMA GroupTyped ==
    ASSUME NEW a \in Text, NEW b \in Text, NEW format, Formatted(format)
    PROVE  Group(a, b, format) \in Text
  <1> DEFINE if == <<IfLine(format.old)>>
             ifnew == <<IfLine(format.new)>>
             else == <<Else>>
             endif == <<Endif>>
  <1>1. CASE format = DiffFormatCombine
    <2>1. a \o b \in Text
      BY DEF Text
    <2> QED
      BY <1>1, <2>1 DEF Group
  <1>2. CASE format # DiffFormatCombine
    <2>1. format.old \in Word /\ format.new \in Word
      BY <1>2 DEF Formatted
    <2>2. if \in Text /\ ifnew \in Text /\ else \in Text /\ endif \in Text
      <3>1. IfLine(format.old) \in Line /\ IfLine(format.new) \in Line /\ Else \in Line /\ Endif \in Line
        BY <2>1, MarksAreLines
      <3> QED
        BY <3>1 DEF Text
    <2>3. \/ Group(a, b, format) = if \o a \o else \o b \o endif
          \/ Group(a, b, format) = if \o a \o endif
          \/ Group(a, b, format) = ifnew \o b \o endif
          \/ Group(a, b, format) = <<>>
      BY <1>2 DEF Group
    <2> HIDE DEF if, ifnew, else, endif
    <2>4. <<>> \in Text /\ if \o a \o else \o b \o endif \in Text /\ if \o a \o endif \in Text
          /\ ifnew \o b \o endif \in Text
      BY <2>2 DEF Text
    <2> QED
      BY <2>3, <2>4
  <1> QED
    BY <1>1, <1>2

\* How far the comparison of two files has come.
Walker == [i : Nat, j : Nat, old : Text, new : Text, lines : Text, cut : BOOLEAN]
Walking(w, old, new) == w \in Walker /\ w.i \in 1 .. Len(old) + 1 /\ w.j \in 1 .. Len(new) + 1

AtEnd(v, w, old, new) == w.i = Len(old) + 1 /\ w.j = Len(new) + 1 /\ v = w
BothOn(v, w, old, new, format) ==
    /\ w.i <= Len(old) /\ w.j <= Len(new) /\ SameLine(old[w.i], new[w.j])
    /\ v = [i |-> w.i + 1, j |-> w.j + 1, old |-> <<>>, new |-> <<>>,
            lines |-> Append(w.lines \o Group(w.old, w.new, format), old[w.i]),
            cut |-> w.cut \/ ~Whole(w.old) \/ ~Whole(w.new)]
OldOn(v, w, old) ==
    /\ w.i <= Len(old)
    /\ v = [i |-> w.i + 1, j |-> w.j, old |-> Append(w.old, old[w.i]), new |-> w.new,
            lines |-> w.lines, cut |-> w.cut]
NewOn(v, w, new) ==
    /\ w.j <= Len(new)
    /\ v = [i |-> w.i, j |-> w.j + 1, old |-> w.old, new |-> Append(w.new, new[w.j]),
            lines |-> w.lines, cut |-> w.cut]

LEMMA AnyWalker ==
    ASSUME NEW w \in Walker
    PROVE  /\ w = [i |-> w.i, j |-> w.j, old |-> w.old, new |-> w.new, lines |-> w.lines, cut |-> w.cut]
           /\ w.i \in Nat /\ w.j \in Nat /\ w.old \in Text /\ w.new \in Text /\ w.lines \in Text
           /\ w.cut \in BOOLEAN
  BY DEF Walker

\* What is written.
LEMMA WrittenIs ==
    ASSUME NEW w \in Walker, NEW format
    PROVE  Written(w, format) =
              [i |-> w.i, j |-> w.j, old |-> <<>>, new |-> <<>>,
               lines |-> w.lines \o Group(w.old, w.new, format),
               cut |-> w.cut \/ ~Whole(w.old) \/ ~Whole(w.new)]
  <1> DEFINE c == w.cut \/ ~Whole(w.old) \/ ~Whole(w.new)
             l == w.lines \o Group(w.old, w.new, format)
  <1>1. Written(w, format) = [w EXCEPT !.lines = l, !.old = <<>>, !.new = <<>>, !.cut = c]
    BY DEF Written
  <1>2. w = [i |-> w.i, j |-> w.j, old |-> w.old, new |-> w.new, lines |-> w.lines, cut |-> w.cut]
    BY AnyWalker
  <1> HIDE DEF c, l
  <1>3. Written(w, format) = [i |-> w.i, j |-> w.j, old |-> <<>>, new |-> <<>>, lines |-> l, cut |-> c]
    BY <1>1, <1>2
  <1> QED
    BY <1>3 DEF c, l

LEMMA CompareDoes ==
    ASSUME NEW old \in Text, NEW new \in Text, NEW w, Walking(w, old, new), NEW table, NEW format,
           NEW v, v = Compare(w, old, new, table, format)
    PROVE  AtEnd(v, w, old, new) \/ BothOn(v, w, old, new, format) \/ OldOn(v, w, old) \/ NewOn(v, w, new)
  <1>1. /\ w = [i |-> w.i, j |-> w.j, old |-> w.old, new |-> w.new, lines |-> w.lines, cut |-> w.cut]
        /\ w \in Walker /\ w.i \in 1 .. Len(old) + 1 /\ w.j \in 1 .. Len(new) + 1
        /\ Len(old) \in Nat /\ Len(new) \in Nat
    BY AnyWalker DEF Walking, Text
  <1>2. CASE w.i > Len(old) /\ w.j > Len(new)
    <2>3. ~(w.i <= Len(old)) /\ ~(w.j <= Len(new))
      BY <1>1, <1>2
    <2>1. v = w
      BY <1>2, <2>3 DEF Compare
    <2> QED
      BY <1>1, <1>2, <2>1 DEF AtEnd
  <1>3. CASE w.i <= Len(old) /\ w.j <= Len(new) /\ SameLine(old[w.i], new[w.j])
    <2>1. v = [Written(w, format) EXCEPT !.i = @ + 1, !.j = @ + 1, !.lines = Append(@, old[w.i])]
      BY <1>1, <1>3 DEF Compare
    <2> DEFINE c == w.cut \/ ~Whole(w.old) \/ ~Whole(w.new)
               l == w.lines \o Group(w.old, w.new, format)
    <2>2. Written(w, format) = [i |-> w.i, j |-> w.j, old |-> <<>>, new |-> <<>>, lines |-> l, cut |-> c]
      BY <1>1, WrittenIs
    <2> HIDE DEF c, l
    <2>3. v = [i |-> w.i + 1, j |-> w.j + 1, old |-> <<>>, new |-> <<>>, lines |-> Append(l, old[w.i]), cut |-> c]
      <3> DEFINE z == Written(w, format)
                 i == w.i + 1
                 j == w.j + 1
                 more == Append(l, old[w.i])
      <3>1. z = [i |-> w.i, j |-> w.j, old |-> <<>>, new |-> <<>>, lines |-> l, cut |-> c]
        BY <2>2
      <3>2. v = [z EXCEPT !.i = z.i + 1, !.j = z.j + 1, !.lines = Append(z.lines, old[w.i])]
        BY <2>1
      <3> HIDE DEF z
      <3>3. z.i + 1 = i /\ z.j + 1 = j /\ Append(z.lines, old[w.i]) = more
        BY <3>1
      <3> HIDE DEF i, j, more
      <3>4. v = [z EXCEPT !.i = i, !.j = j, !.lines = more]
        BY <3>2, <3>3
      <3>5. v = [i |-> i, j |-> j, old |-> <<>>, new |-> <<>>, lines |-> more, cut |-> c]
        BY <3>1, <3>4
      <3> QED
        BY <3>5 DEF i, j, more
    <2> QED
      BY <1>3, <2>3 DEF BothOn, c, l
  <1>4. CASE w.i <= Len(old) /\ (w.j > Len(new) \/ (~SameLine(old[w.i], new[w.j])
                                /\ table[w.i + 1][w.j] >= table[w.i][w.j + 1]))
    <2>1. v = [w EXCEPT !.i = @ + 1, !.old = Append(@, old[w.i])]
      BY <1>1, <1>4 DEF Compare
    <2> QED
      BY <1>1, <1>4, <2>1 DEF OldOn
  <1>5. CASE /\ ~(w.i > Len(old) /\ w.j > Len(new))
             /\ ~(w.i <= Len(old) /\ w.j <= Len(new) /\ SameLine(old[w.i], new[w.j]))
             /\ ~(w.i <= Len(old) /\ (w.j > Len(new) \/ (~SameLine(old[w.i], new[w.j])
                                /\ table[w.i + 1][w.j] >= table[w.i][w.j + 1])))
    <2>1. v = [w EXCEPT !.j = @ + 1, !.new = Append(@, new[w.j])]
      BY <1>5 DEF Compare
    <2>2. w.j <= Len(new)
      BY <1>1, <1>5
    <2> QED
      BY <1>1, <2>1, <2>2 DEF NewOn
  <1> QED
    BY <1>2, <1>3, <1>4, <1>5

\* A step keeps to the files, and comes closer to their ends.
LEMMA WalkOn ==
    ASSUME NEW old \in Text, NEW new \in Text, NEW w, Walking(w, old, new), NEW table, NEW format,
           Formatted(format), NEW v, v = Compare(w, old, new, table, format)
    PROVE  /\ Walking(v, old, new)
           /\ v.i + v.j = w.i + w.j + 1 \/ v.i + v.j = w.i + w.j + 2 \/ v.i + v.j = Len(old) + Len(new) + 2
  <1>1. /\ w \in Walker /\ w.i \in 1 .. Len(old) + 1 /\ w.j \in 1 .. Len(new) + 1
        /\ Len(old) \in Nat /\ Len(new) \in Nat
        /\ w.i \in Nat /\ w.j \in Nat /\ w.old \in Text /\ w.new \in Text /\ w.lines \in Text
        /\ w.cut \in BOOLEAN
    BY AnyWalker DEF Walking, Text
  <1>2. AtEnd(v, w, old, new) \/ BothOn(v, w, old, new, format) \/ OldOn(v, w, old) \/ NewOn(v, w, new)
    BY CompareDoes
  <1>3. /\ w.i <= Len(old) => old[w.i] \in Line
        /\ w.j <= Len(new) => new[w.j] \in Line
    BY <1>1, ElementOfSeq DEF Text
  <1>4. \A t \in Text, x \in Line : Append(t, x) \in Text
    BY DEF Text
  <1>5. CASE AtEnd(v, w, old, new)
    <2>1. v = w /\ w.i = Len(old) + 1 /\ w.j = Len(new) + 1
      BY <1>5 DEF AtEnd
    <2> QED
      BY <1>1, <2>1 DEF Walking
  <1>6. CASE BothOn(v, w, old, new, format)
    <2> DEFINE g == Group(w.old, w.new, format)
               l == w.lines \o g
               none == <<>>
               c == w.cut \/ ~Whole(w.old) \/ ~Whole(w.new)
    <2>1. g \in Text /\ none \in Text /\ c \in BOOLEAN
      <3>1. g \in Text
        BY <1>1, GroupTyped
      <3>2. none \in Text
        BY DEF Text
      <3>3. c \in BOOLEAN
        OBVIOUS
      <3> QED
        BY <3>1, <3>2, <3>3
    <2> HIDE DEF g
    <2>2. l \in Text
      BY <1>1, <2>1 DEF Text
    <2>3. /\ w.i <= Len(old) /\ w.j <= Len(new)
          /\ v = [i |-> w.i + 1, j |-> w.j + 1, old |-> none, new |-> none, lines |-> Append(l, old[w.i]), cut |-> c]
      BY <1>6 DEF BothOn, g
    <2> HIDE DEF l, none, c
    <2>4. Append(l, old[w.i]) \in Text
      BY <1>3, <1>4, <2>2, <2>3
    <2>5. v \in Walker
      BY <1>1, <2>1, <2>3, <2>4 DEF Walker
    <2>6. v.i = w.i + 1 /\ v.j = w.j + 1
      BY <2>3
    <2>7. v.i \in 1 .. Len(old) + 1 /\ v.j \in 1 .. Len(new) + 1 /\ v.i + v.j = w.i + w.j + 2
      <3>1. w.i \in 1 .. Len(old) /\ w.j \in 1 .. Len(new) /\ Len(old) \in Nat /\ Len(new) \in Nat
        BY <1>1, <2>3
      <3>2. v.i \in 1 .. Len(old) + 1 /\ v.j \in 1 .. Len(new) + 1
        BY <2>6, <3>1
      <3>3. v.i + v.j = w.i + w.j + 2
        BY <2>6, <3>1
      <3> QED
        BY <3>2, <3>3
    <2> QED
      BY <2>5, <2>7 DEF Walking
  <1>7. CASE OldOn(v, w, old)
    <2>1. w.i <= Len(old) /\ v = [i |-> w.i + 1, j |-> w.j, old |-> Append(w.old, old[w.i]), new |-> w.new,
                                  lines |-> w.lines, cut |-> w.cut]
      BY <1>7 DEF OldOn
    <2>2. Append(w.old, old[w.i]) \in Text
      BY <1>1, <1>3, <1>4, <2>1
    <2>3. v \in Walker /\ v.i = w.i + 1 /\ v.j = w.j
      BY <1>1, <2>1, <2>2 DEF Walker
    <2>4. v.i \in 1 .. Len(old) + 1 /\ v.j \in 1 .. Len(new) + 1 /\ v.i + v.j = w.i + w.j + 1
      <3>1. w.i \in 1 .. Len(old)
        BY <1>1, <2>1
      <3> QED
        BY <1>1, <2>3, <3>1
    <2> QED
      BY <2>3, <2>4 DEF Walking
  <1>8. CASE NewOn(v, w, new)
    <2>1. w.j <= Len(new) /\ v = [i |-> w.i, j |-> w.j + 1, old |-> w.old, new |-> Append(w.new, new[w.j]),
                                  lines |-> w.lines, cut |-> w.cut]
      BY <1>8 DEF NewOn
    <2>2. Append(w.new, new[w.j]) \in Text
      BY <1>1, <1>3, <1>4, <2>1
    <2>3. v \in Walker /\ v.i = w.i /\ v.j = w.j + 1
      BY <1>1, <2>1, <2>2 DEF Walker
    <2>4. v.i \in 1 .. Len(old) + 1 /\ v.j \in 1 .. Len(new) + 1 /\ v.i + v.j = w.i + w.j + 1
      <3>1. w.j \in 1 .. Len(new)
        BY <1>1, <2>1
      <3> QED
        BY <1>1, <2>3, <3>1
    <2> QED
      BY <2>3, <2>4 DEF Walking
  <1> QED
    BY <1>2, <1>5, <1>6, <1>7, <1>8

\* What has been compared after each step.
CompareTo(f, old, new, table, format, N) ==
    f = [m \in 0 .. N |-> IF m = 0 THEN Unwritten ELSE Compare(f[m - 1], old, new, table, format)]

LEMMA CompareExists ==
    ASSUME NEW old, NEW new, NEW table, NEW format, NEW N \in Nat
    PROVE  \E f : CompareTo(f, old, new, table, format, N)
  <1> DEFINE T == {M \in Nat : \E f : CompareTo(f, old, new, table, format, M)}
  <1>1. 0 \in T
    <2> DEFINE f == [m \in 0 .. 0 |-> Unwritten]
    <2>1. CompareTo(f, old, new, table, format, 0)
      BY DEF CompareTo
    <2> QED
      BY <2>1
  <1>2. ASSUME NEW M \in 0 .. N - 1, M \in T PROVE M + 1 \in T
    <2>1. PICK f : CompareTo(f, old, new, table, format, M)
      BY <1>2
    <2> DEFINE g == [m \in 0 .. M + 1 |-> IF m = 0 THEN Unwritten ELSE Compare(f[m - 1], old, new, table, format)]
    <2>2. \A m \in 0 .. M : f[m] = g[m]
      BY <2>1 DEF CompareTo
    <2>3. \A m \in 0 .. M + 1 : m # 0 => m - 1 \in 0 .. M
      OBVIOUS
    <2>4. \A m \in 0 .. M + 1 : g[m] = IF m = 0 THEN Unwritten ELSE Compare(g[m - 1], old, new, table, format)
      BY <2>2, <2>3
    <2>5. CompareTo(g, old, new, table, format, M + 1)
      <3>1. g = [m \in 0 .. M + 1 |-> g[m]]
        OBVIOUS
      <3> HIDE DEF g
      <3> QED
        BY <2>4, <3>1 DEF CompareTo
    <2> QED
      BY <2>5
  <1> HIDE DEF T
  <1>3. N \in T
    BY <1>1, <1>2, UpTo
  <1> QED
    BY <1>3 DEF T

\* The walk through two files.
Walk(r, old, new, table, format) ==
    /\ r[0] = Unwritten
    /\ \A m \in 1 .. Len(old) + Len(new) : r[m] = Compare(r[m - 1], old, new, table, format)
    /\ \A m \in 0 .. Len(old) + Len(new) : Walking(r[m], old, new)
    /\ Compared(old, new, format) = Written(r[Len(old) + Len(new)], format)
    /\ r[Len(old) + Len(new)].i = Len(old) + 1 /\ r[Len(old) + Len(new)].j = Len(new) + 1

LEMMA WalkExists ==
    ASSUME NEW old \in Text, NEW new \in Text, NEW format, Formatted(format)
    PROVE  \E r, table : Walk(r, old, new, table, format)
  <1> DEFINE table == Common(old, new)
             N == Len(old) + Len(new)
             r == CHOOSE f : f = [m \in 0 .. N |->
                                    IF m = 0 THEN Unwritten ELSE Compare(f[m - 1], old, new, table, format)]
  <1>1. Len(old) \in Nat /\ Len(new) \in Nat /\ N \in Nat /\ N = Len(old) + Len(new)
    BY DEF Text
  <1>2. CompareTo(r, old, new, table, format, N)
    <2>1. \E f : CompareTo(f, old, new, table, format, N)
      BY <1>1, CompareExists
    <2> QED
      BY <2>1 DEF CompareTo
  <1>3. Compared(old, new, format) = Written(r[N], format)
    BY DEF Compared
  <1> HIDE DEF r, table, N
  <1>4. r[0] = Unwritten
    BY <1>1, <1>2 DEF CompareTo
  <1>5. \A m \in 1 .. N : r[m] = Compare(r[m - 1], old, new, table, format)
    BY <1>1, <1>2 DEF CompareTo
  <1> DEFINE T == {m \in 0 .. N : Walking(r[m], old, new)
                                  /\ (r[m].i + r[m].j >= m + 2 \/ r[m].i + r[m].j = N + 2)}
  <1>6. 0 \in T
    <2>1. Unwritten \in Walker /\ Unwritten.i = 1 /\ Unwritten.j = 1
      <3>1. <<>> \in Text
        BY DEF Text
      <3> QED
        BY <3>1 DEF Unwritten, Walker
    <2>2. Walking(Unwritten, old, new)
      BY <1>1, <2>1 DEF Walking
    <2> QED
      BY <1>1, <1>4, <2>1, <2>2
  <1>7. ASSUME NEW m \in 0 .. N - 1, m \in T PROVE m + 1 \in T
    <2> DEFINE w == r[m]
               v == r[m + 1]
    <2>1. Walking(w, old, new) /\ (w.i + w.j >= m + 2 \/ w.i + w.j = N + 2) /\ m + 1 \in 0 .. N
      BY <1>1, <1>7
    <2>2. v = Compare(w, old, new, table, format)
      <3>1. m + 1 \in 1 .. N /\ (m + 1) - 1 = m
        BY <1>1
      <3> QED
        BY <1>5, <3>1
    <2> HIDE DEF w, v
    <2>3. /\ Walking(v, old, new)
          /\ v.i + v.j = w.i + w.j + 1 \/ v.i + v.j = w.i + w.j + 2 \/ v.i + v.j = Len(old) + Len(new) + 2
      BY <2>1, <2>2, WalkOn
    <2>4. w.i \in Nat /\ w.j \in Nat /\ v.i \in Nat /\ v.j \in Nat
          /\ v.i <= Len(old) + 1 /\ v.j <= Len(new) + 1
      <3>1. /\ w.i \in 1 .. Len(old) + 1 /\ w.j \in 1 .. Len(new) + 1
            /\ v.i \in 1 .. Len(old) + 1 /\ v.j \in 1 .. Len(new) + 1
        BY <2>1, <2>3 DEF Walking
      <3> QED
        BY <1>1, <3>1
    <2>5. v.i + v.j >= (m + 1) + 2 \/ v.i + v.j = N + 2
      <3> DEFINE p == w.i + w.j
                 q == v.i + v.j
      <3>0. m \in Nat
        BY <1>1
      <3>1. p \in Nat /\ q \in Nat /\ q <= N + 2
        <4>1. N = Len(old) + Len(new) /\ Len(old) \in Nat /\ Len(new) \in Nat
          BY <1>1
        <4>2. p \in Nat /\ q \in Nat
          BY <2>4
        <4>3. v.i + v.j <= (Len(old) + 1) + (Len(new) + 1)
          BY <2>4, <4>1
        <4>4. (Len(old) + 1) + (Len(new) + 1) = N + 2
          BY <4>1
        <4> QED
          BY <4>2, <4>3, <4>4
      <3>2. (p >= m + 2 \/ p = N + 2) /\ (q = p + 1 \/ q = p + 2 \/ q = N + 2)
        BY <1>1, <2>1, <2>3
      <3> HIDE DEF p, q
      <3>3. q >= (m + 1) + 2 \/ q = N + 2
        BY <1>1, <3>0, <3>1, <3>2
      <3> QED
        BY <3>3 DEF q
    <2> QED
      BY <2>1, <2>3, <2>5 DEF v
  <1> HIDE DEF T
  <1>8. \A m \in 0 .. N : m \in T
    BY <1>1, <1>6, <1>7, UpTo
  <1>9. \A m \in 0 .. N : Walking(r[m], old, new)
    BY <1>8 DEF T
  <1>10. r[N].i = Len(old) + 1 /\ r[N].j = Len(new) + 1
    <2> DEFINE w == r[N]
    <2>1. Walking(w, old, new) /\ (w.i + w.j >= N + 2 \/ w.i + w.j = N + 2)
      BY <1>1, <1>8 DEF T
    <2> HIDE DEF w
    <2>2. w.i \in 1 .. Len(old) + 1 /\ w.j \in 1 .. Len(new) + 1
      BY <2>1 DEF Walking
    <2>3. w.i = Len(old) + 1 /\ w.j = Len(new) + 1
      BY <1>1, <2>1, <2>2
    <2> QED
      BY <2>3 DEF w
  <1>11. Walk(r, old, new, table, format)
    BY <1>1, <1>3, <1>4, <1>5, <1>9, <1>10 DEF Walk
  <1> QED
    BY <1>11

\* Of a comparison in which nothing was cut, each reads its own file.
SameRead(w, old, new, first, conds) ==
    ~w.cut => ReadFrom(ReadFrom(Unread, w.lines, conds), Side(w.old, w.new, first), conds)
              = ReadFrom(Unread, Side(SubSeq(old, 1, w.i - 1), SubSeq(new, 1, w.j - 1), first), conds)

LEMMA WrittenReads ==
    ASSUME NEW w \in Walker, NEW format, NEW conds, NEW first \in BOOLEAN, Tells(format, conds, first),
           Whole(w.old), Whole(w.new)
    PROVE  /\ w.lines \o Group(w.old, w.new, format) \in Text
           /\ ReadFrom(Unread, w.lines \o Group(w.old, w.new, format), conds)
                = ReadFrom(ReadFrom(Unread, w.lines, conds), Side(w.old, w.new, first), conds)
  <1> DEFINE g == Group(w.old, w.new, format)
             l == w.lines
             a == w.old
             b == w.new
             u == ReadFrom(Unread, l, conds)
  <1>1. l \in Text /\ a \in Text /\ b \in Text /\ Unread \in Reader
    BY AnyWalker, UnreadIsReader
  <1>2. u \in Reader
    BY <1>1, ReadTyped
  <1>3. Whole(a) /\ Whole(b)
    OBVIOUS
  <1> HIDE DEF l, a, b, u
  <1>4. Group(a, b, format) \in Text /\ ReadFrom(u, Group(a, b, format), conds) = ReadFrom(u, Side(a, b, first), conds)
    BY <1>1, <1>2, <1>3, GroupReads
  <1>5. g \in Text
    BY <1>4 DEF a, b
  <1>6. ReadFrom(u, g, conds) = ReadFrom(u, Side(a, b, first), conds)
    BY <1>4 DEF a, b
  <1> HIDE DEF g
  <1>7. l \o g \in Text
    BY <1>1, <1>5 DEF Text
  <1>8. ReadFrom(Unread, l \o g, conds) = ReadFrom(u, g, conds)
    BY <1>1, <1>5, ReadConcat DEF u
  <1> QED
    BY <1>6, <1>7, <1>8 DEF l, a, b, u, g

\* One line more of a file, also where there is no more to be read.
LEMMA OneMore ==
    ASSUME NEW file \in Text, NEW k \in 1 .. Len(file), NEW w \in Reader, NEW conds
    PROVE  /\ SubSeq(file, 1, k - 1) \in Text /\ SubSeq(file, 1, (k + 1) - 1) \in Text /\ file[k] \in Line
           /\ ReadFrom(w, SubSeq(file, 1, (k + 1) - 1), conds)
                = ReadLine(ReadFrom(w, SubSeq(file, 1, k - 1), conds), file[k], conds)
  <1> DEFINE m == k - 1
             short == SubSeq(file, 1, m)
             long == SubSeq(file, 1, m + 1)
             x == file[m + 1]
  <1>1. m \in 0 .. Len(file) - 1 /\ m + 1 = k /\ (k + 1) - 1 = m + 1
    BY DEF Text
  <1>2. file \in Seq(Line)
    BY DEF Text
  <1> HIDE DEF m
  <1>3. short \in Seq(Line) /\ x \in Line /\ long = Append(short, x)
    BY <1>1, <1>2, Growing
  <1> HIDE DEF short, long, x
  <1>4. short \in Text /\ x \in Line /\ long \in Text
    BY <1>3 DEF Text
  <1>5. ReadFrom(w, long, conds) = ReadLine(ReadFrom(w, short, conds), x, conds)
    BY <1>3, <1>4, ReadAppend
  <1> QED
    BY <1>1, <1>4, <1>5 DEF m, short, long, x

LEMMA FieldsOf ==
    ASSUME NEW v, NEW i, NEW j, NEW old, NEW new, NEW lines, NEW c,
           v = [i |-> i, j |-> j, old |-> old, new |-> new, lines |-> lines, cut |-> c]
    PROVE  v.i = i /\ v.j = j /\ v.old = old /\ v.new = new /\ v.lines = lines /\ v.cut = c
  OBVIOUS

\* Of lines that are alike either may be read.
LEMMA ReadAlike ==
    ASSUME NEW u \in Reader, NEW x \in Line, NEW y \in Line, SameLine(x, y), NEW conds
    PROVE  ReadLine(u, x, conds) = ReadLine(u, y, conds)
  <1>1. Bare(x) = Bare(y) /\ x[1] = y[1] /\ x[2] = y[2]
    BY DEF SameLine, Bare
  <1>2. CASE x[1] = "if"
    BY <1>1, <1>2 DEF ReadLine
  <1>3. CASE x[1] = "else"
    BY <1>1, <1>3 DEF ReadLine
  <1>4. CASE x[1] = "endif"
    BY <1>1, <1>4 DEF ReadLine
  <1>5. CASE x[1] \notin {"if", "else", "endif"}
    BY <1>1, <1>5 DEF ReadLine
  <1> QED
    BY <1>2, <1>3, <1>4, <1>5

LEMMA SameReadKept ==
    ASSUME NEW old \in Text, NEW new \in Text, NEW w, Walking(w, old, new), NEW table, NEW format,
           NEW conds, NEW first \in BOOLEAN, Tells(format, conds, first),
           NEW v, v = Compare(w, old, new, table, format), SameRead(w, old, new, first, conds)
    PROVE  SameRead(v, old, new, first, conds)
  <1>1. /\ w.i \in 1 .. Len(old) + 1 /\ w.j \in 1 .. Len(new) + 1
        /\ Len(old) \in Nat /\ Len(new) \in Nat
        /\ w \in Walker /\ w.old \in Text /\ w.new \in Text /\ w.lines \in Text /\ Unread \in Reader
    <2>1. /\ w.i \in 1 .. Len(old) + 1 /\ w.j \in 1 .. Len(new) + 1 /\ w \in Walker
      BY DEF Walking
    <2>2. Len(old) \in Nat /\ Len(new) \in Nat
      BY DEF Text
    <2> QED
      BY <2>1, <2>2, AnyWalker, UnreadIsReader
  <1>2. AtEnd(v, w, old, new) \/ BothOn(v, w, old, new, format) \/ OldOn(v, w, old) \/ NewOn(v, w, new)
    BY CompareDoes
  <1> DEFINE at == ReadFrom(Unread, w.lines, conds)
             so == SubSeq(old, 1, w.i - 1)
             sn == SubSeq(new, 1, w.j - 1)
             so1 == SubSeq(old, 1, (w.i + 1) - 1)
             sn1 == SubSeq(new, 1, (w.j + 1) - 1)
  <1>3. at \in Reader
    BY <1>1, ReadTyped
  <1>4. ~w.cut => ReadFrom(at, Side(w.old, w.new, first), conds) = ReadFrom(Unread, Side(so, sn, first), conds)
    BY DEF SameRead
  <1>5. ASSUME w.i <= Len(old)
        PROVE  old[w.i] \in Line
               /\ ReadFrom(Unread, so1, conds) = ReadLine(ReadFrom(Unread, so, conds), old[w.i], conds)
    <2>1. w.i \in 1 .. Len(old)
      BY <1>1, <1>5
    <2> QED
      BY <1>1, <2>1, OneMore
  <1>6. ASSUME w.j <= Len(new)
        PROVE  new[w.j] \in Line
               /\ ReadFrom(Unread, sn1, conds) = ReadLine(ReadFrom(Unread, sn, conds), new[w.j], conds)
    <2>1. w.j \in 1 .. Len(new)
      BY <1>1, <1>6
    <2> QED
      BY <1>1, <2>1, OneMore
  <1>7. CASE AtEnd(v, w, old, new)
    BY <1>7 DEF AtEnd
  <1>8. CASE BothOn(v, w, old, new, format)
    <2> DEFINE l == w.lines \o Group(w.old, w.new, format)
               x == old[w.i]
               c == w.cut \/ ~Whole(w.old) \/ ~Whole(w.new)
    <2>1. /\ w.i <= Len(old) /\ w.j <= Len(new) /\ SameLine(x, new[w.j])
          /\ v = [i |-> w.i + 1, j |-> w.j + 1, old |-> <<>>, new |-> <<>>, lines |-> Append(l, x), cut |-> c]
      BY <1>8 DEF BothOn
    <2>12. v.cut = c
      <3> HIDE DEF l, x, c
      <3> QED
        BY <2>1, FieldsOf
    <2> SUFFICES ASSUME ~v.cut
                 PROVE  ReadFrom(ReadFrom(Unread, v.lines, conds), Side(v.old, v.new, first), conds)
                        = ReadFrom(Unread, Side(SubSeq(old, 1, v.i - 1), SubSeq(new, 1, v.j - 1), first), conds)
      BY DEF SameRead
    <2>2. ~w.cut /\ Whole(w.old) /\ Whole(w.new)
      <3>1. ~c
        <4> HIDE DEF c
        <4> QED
          BY <2>12
      <3> QED
        BY <3>1
    <2>3. l \in Text /\ ReadFrom(Unread, l, conds) = ReadFrom(at, Side(w.old, w.new, first), conds)
      BY <1>1, <2>2, WrittenReads
    <2>4. v.i = w.i + 1 /\ v.j = w.j + 1 /\ v.old = <<>> /\ v.new = <<>> /\ v.lines = Append(l, x)
      <3> HIDE DEF l, x, c
      <3> QED
        BY <2>1, FieldsOf
    <2>5. x \in Line /\ ReadFrom(Unread, so1, conds) = ReadLine(ReadFrom(Unread, so, conds), x, conds)
                     /\ ReadFrom(Unread, sn1, conds) = ReadLine(ReadFrom(Unread, sn, conds), x, conds)
      <3> DEFINE y == new[w.j]
                 u == ReadFrom(Unread, sn, conds)
      <3>1. y \in Line /\ ReadFrom(Unread, sn1, conds) = ReadLine(u, y, conds)
        BY <1>6, <2>1
      <3>2. x \in Line /\ ReadFrom(Unread, so1, conds) = ReadLine(ReadFrom(Unread, so, conds), x, conds)
        BY <1>5, <2>1
      <3>3. u \in Reader
        <4>1. w.j \in 1 .. Len(new)
          BY <1>1, <2>1
        <4>2. sn \in Text
          BY <1>1, <4>1, OneMore
        <4> HIDE DEF sn
        <4> QED
          BY <1>1, <4>2, ReadTyped
      <3>4. SameLine(x, y)
        BY <2>1
      <3> HIDE DEF x, y, u, so, so1, sn, sn1
      <3>5. ReadLine(u, x, conds) = ReadLine(u, y, conds)
        BY <3>1, <3>2, <3>3, <3>4, ReadAlike
      <3> QED
        BY <3>1, <3>2, <3>5 DEF u
    <2> HIDE DEF l, x, at, so, sn, so1, sn1
    <2>6. ReadFrom(Unread, Append(l, x), conds) = ReadLine(ReadFrom(Unread, l, conds), x, conds)
      BY <1>1, <2>3, <2>5, ReadAppend
    <2>7. ReadLine(ReadFrom(Unread, Side(so, sn, first), conds), x, conds) = ReadFrom(Unread, Side(so1, sn1, first), conds)
      BY <2>5 DEF Side
    <2>8. ReadFrom(Unread, Append(l, x), conds) = ReadFrom(Unread, Side(so1, sn1, first), conds)
      BY <1>4, <2>2, <2>3, <2>6, <2>7
    <2>9. Append(l, x) \in Text
      BY <2>3, <2>5 DEF Text
    <2>10. ReadFrom(ReadFrom(Unread, Append(l, x), conds), <<>>, conds) = ReadFrom(Unread, Append(l, x), conds)
      <3> DEFINE z == ReadFrom(Unread, Append(l, x), conds)
      <3>1. z \in Reader
        BY <1>1, <2>9, ReadTyped
      <3> HIDE DEF z
      <3>2. ReadFrom(z, <<>>, conds) = z
        BY <3>1, ReadNothing
      <3> QED
        BY <3>2 DEF z
    <2>11. Side(v.old, v.new, first) = <<>>
      BY <2>4 DEF Side
    <2> QED
      BY <2>4, <2>8, <2>10, <2>11 DEF so1, sn1
  <1>9. CASE OldOn(v, w, old)
    <2> DEFINE x == old[w.i]
    <2>1. /\ w.i <= Len(old)
          /\ v = [i |-> w.i + 1, j |-> w.j, old |-> Append(w.old, x), new |-> w.new,
                  lines |-> w.lines, cut |-> w.cut]
      BY <1>9 DEF OldOn
    <2>2. v.i = w.i + 1 /\ v.j = w.j /\ v.old = Append(w.old, x) /\ v.new = w.new /\ v.lines = w.lines /\ v.cut = w.cut
      <3> HIDE DEF x
      <3> QED
        BY <2>1, FieldsOf
    <2> SUFFICES ASSUME ~v.cut
                 PROVE  ReadFrom(ReadFrom(Unread, v.lines, conds), Side(v.old, v.new, first), conds)
                        = ReadFrom(Unread, Side(SubSeq(old, 1, v.i - 1), SubSeq(new, 1, v.j - 1), first), conds)
      BY DEF SameRead
    <2>6. ~w.cut
      BY <2>2
    <2>3. x \in Line /\ ReadFrom(Unread, so1, conds) = ReadLine(ReadFrom(Unread, so, conds), x, conds)
      BY <1>5, <2>1
    <2> HIDE DEF x, at, so, sn, so1, sn1
    <2>4. ReadFrom(at, Append(w.old, x), conds) = ReadLine(ReadFrom(at, w.old, conds), x, conds)
      BY <1>1, <1>3, <2>3, ReadAppend
    <2>5. ReadFrom(at, Side(Append(w.old, x), w.new, first), conds) = ReadFrom(Unread, Side(so1, sn, first), conds)
      BY <1>4, <2>3, <2>4, <2>6 DEF Side
    <2> QED
      BY <2>2, <2>5 DEF at, so1, sn
  <1>10. CASE NewOn(v, w, new)
    <2> DEFINE x == new[w.j]
    <2>1. /\ w.j <= Len(new)
          /\ v = [i |-> w.i, j |-> w.j + 1, old |-> w.old, new |-> Append(w.new, x),
                  lines |-> w.lines, cut |-> w.cut]
      BY <1>10 DEF NewOn
    <2>2. v.i = w.i /\ v.j = w.j + 1 /\ v.old = w.old /\ v.new = Append(w.new, x) /\ v.lines = w.lines /\ v.cut = w.cut
      <3> HIDE DEF x
      <3> QED
        BY <2>1, FieldsOf
    <2> SUFFICES ASSUME ~v.cut
                 PROVE  ReadFrom(ReadFrom(Unread, v.lines, conds), Side(v.old, v.new, first), conds)
                        = ReadFrom(Unread, Side(SubSeq(old, 1, v.i - 1), SubSeq(new, 1, v.j - 1), first), conds)
      BY DEF SameRead
    <2>6. ~w.cut
      BY <2>2
    <2>3. x \in Line /\ ReadFrom(Unread, sn1, conds) = ReadLine(ReadFrom(Unread, sn, conds), x, conds)
      BY <1>6, <2>1
    <2> HIDE DEF x, at, so, sn, so1, sn1
    <2>4. ReadFrom(at, Append(w.new, x), conds) = ReadLine(ReadFrom(at, w.new, conds), x, conds)
      BY <1>1, <1>3, <2>3, ReadAppend
    <2>5. ReadFrom(at, Side(w.old, Append(w.new, x), first), conds) = ReadFrom(Unread, Side(so, sn1, first), conds)
      BY <1>4, <2>3, <2>4, <2>6 DEF Side
    <2> QED
      BY <2>2, <2>5 DEF at, so, sn1
  <1> QED
    BY <1>2, <1>7, <1>8, <1>9, <1>10

\* What a comparison gives is text, and, if nothing was cut, what each of the two
\* files is for the architectures it is for.
LEMMA DiffReads ==
    ASSUME NEW old \in Text, NEW new \in Text, NEW format, NEW conds, NEW first \in BOOLEAN,
           Tells(format, conds, first), NothingCut(old, new, format)
    PROVE  ReadFrom(Unread, Diff(old, new, format), conds) = ReadFrom(Unread, Side(old, new, first), conds)
  <1>1. Formatted(format)
    BY DEF Tells, Formatted
  <1>2. PICK r, table : Walk(r, old, new, table, format)
    BY <1>1, WalkExists
  <1> DEFINE N == Len(old) + Len(new)
  <1>3. Len(old) \in Nat /\ Len(new) \in Nat /\ N \in Nat /\ Unread \in Reader
    BY UnreadIsReader DEF Text
  <1>4. /\ r[0] = Unwritten
        /\ \A m \in 1 .. N : r[m] = Compare(r[m - 1], old, new, table, format)
        /\ \A m \in 0 .. N : Walking(r[m], old, new)
        /\ Compared(old, new, format) = Written(r[N], format)
        /\ r[N].i = Len(old) + 1 /\ r[N].j = Len(new) + 1
    BY <1>2 DEF Walk
  <1> HIDE DEF N
  <1> DEFINE T == {m \in 0 .. N : SameRead(r[m], old, new, first, conds)}
  <1>5. 0 \in T
    <2>1. Unwritten.lines = <<>> /\ Unwritten.old = <<>> /\ Unwritten.new = <<>> /\ Unwritten.i - 1 = 0 /\ Unwritten.j - 1 = 0
      <3>1. Unwritten.lines = <<>> /\ Unwritten.old = <<>> /\ Unwritten.new = <<>>
        BY DEF Unwritten
      <3>2. Unwritten.i = 1 /\ Unwritten.j = 1
        BY DEF Unwritten
      <3>3. Unwritten.i - 1 = 0 /\ Unwritten.j - 1 = 0
        <4> DEFINE a == Unwritten.i
                   b == Unwritten.j
        <4>1. a = 1 /\ b = 1
          BY <3>2
        <4> HIDE DEF a, b
        <4>2. a - 1 = 0 /\ b - 1 = 0
          BY <4>1
        <4> QED
          BY <4>2 DEF a, b
      <3> QED
        BY <3>1, <3>3
    <2>2. SubSeq(old, 1, 0) = <<>> /\ SubSeq(new, 1, 0) = <<>>
      BY AllOf DEF Text
    <2>3. Side(<<>>, <<>>, first) = <<>>
      BY DEF Side
    <2>4. ReadFrom(Unread, <<>>, conds) = Unread
      BY <1>3, ReadNothing
    <2>5. SameRead(Unwritten, old, new, first, conds)
      BY <2>1, <2>2, <2>3, <2>4 DEF SameRead
    <2> QED
      BY <1>3, <1>4, <2>5
  <1>6. ASSUME NEW m \in 0 .. N - 1, m \in T PROVE m + 1 \in T
    <2>1. m + 1 \in 1 .. N /\ (m + 1) - 1 = m /\ m \in 0 .. N /\ SameRead(r[m], old, new, first, conds)
      BY <1>3, <1>6
    <2> DEFINE w == r[m]
               v == r[m + 1]
    <2>2. Walking(w, old, new) /\ v = Compare(w, old, new, table, format) /\ SameRead(w, old, new, first, conds)
      BY <1>4, <2>1
    <2> HIDE DEF w, v
    <2>3. SameRead(v, old, new, first, conds)
      BY <2>2, SameReadKept
    <2> QED
      BY <2>1, <2>3 DEF v
  <1> HIDE DEF T
  <1>7. \A m \in 0 .. N : m \in T
    BY <1>3, <1>5, <1>6, UpTo
  <1> DEFINE w == r[N]
             l == w.lines \o Group(w.old, w.new, format)
             c == w.cut \/ ~Whole(w.old) \/ ~Whole(w.new)
  <1>8. /\ SameRead(w, old, new, first, conds) /\ w \in Walker /\ w.i - 1 = Len(old) /\ w.j - 1 = Len(new)
        /\ Compared(old, new, format) = Written(w, format)
    <2>1. N \in T /\ Walking(w, old, new)
      BY <1>3, <1>4, <1>7
    <2> QED
      BY <1>3, <1>4, <2>1 DEF T, Walking
  <1> HIDE DEF w
  <1>9. Compared(old, new, format) = [i |-> w.i, j |-> w.j, old |-> <<>>, new |-> <<>>, lines |-> l, cut |-> c]
    BY <1>8, WrittenIs
  <1>10. ~w.cut /\ Whole(w.old) /\ Whole(w.new)
    <2> DEFINE z == Compared(old, new, format)
    <2>1. ~z.cut
      BY DEF NothingCut
    <2>2. z = [i |-> w.i, j |-> w.j, old |-> <<>>, new |-> <<>>, lines |-> l, cut |-> c]
      BY <1>9
    <2> HIDE DEF z, l, c
    <2>3. z.cut = c
      BY <2>2
    <2>4. ~c
      BY <2>1, <2>3
    <2> QED
      BY <2>4 DEF c
  <1>11. Diff(old, new, format) = l
    <2> DEFINE z == Compared(old, new, format)
    <2>1. z = [i |-> w.i, j |-> w.j, old |-> <<>>, new |-> <<>>, lines |-> l, cut |-> c]
      BY <1>9
    <2>2. Diff(old, new, format) = z.lines
      BY DEF Diff
    <2> HIDE DEF z, l, c
    <2> QED
      BY <2>1, <2>2
  <1>12. ReadFrom(Unread, l, conds) = ReadFrom(ReadFrom(Unread, w.lines, conds), Side(w.old, w.new, first), conds)
    BY <1>8, <1>10, WrittenReads
  <1>13. SubSeq(old, 1, Len(old)) = old /\ SubSeq(new, 1, Len(new)) = new
    BY AllOf DEF Text
  <1> QED
    BY <1>8, <1>10, <1>11, <1>12, <1>13 DEF SameRead

\* What is put out are lines of the file.
LEMMA ReadOut ==
    ASSUME NEW S, S \subseteq Line, NEW lines \in Seq(S), NEW conds,
           NEW B, B = {Bare(x) : x \in S}
    PROVE  ReadFrom(Unread, lines, conds).out \in Seq(B)
  <1> DEFINE Up(m) == SubSeq(lines, 1, m)
             U(m) == ReadFrom(Unread, Up(m), conds)
             T == {m \in 0 .. Len(lines) : Up(m) \in Text /\ U(m) \in Reader /\ U(m).out \in Seq(B)}
  <1>1. Len(lines) \in Nat /\ Unread \in Reader /\ Up(0) = <<>> /\ Up(Len(lines)) = lines
    BY AllOf, UnreadIsReader
  <1>2. 0 \in T
    <2>1. Up(0) = <<>> /\ <<>> \in Text /\ <<>> \in Seq(B)
      BY <1>1 DEF Text
    <2> HIDE DEF Up
    <2>2. U(0) = Unread /\ Unread.out = <<>>
      BY <1>1, <2>1, ReadNothing DEF Unread
    <2> HIDE DEF U
    <2>3. 0 \in 0 .. Len(lines) /\ Up(0) \in Text /\ U(0) \in Reader
      BY <1>1, <2>1, <2>2
    <2>4. U(0).out \in Seq(B)
      BY <2>1, <2>2
    <2> QED
      BY <2>3, <2>4
  <1>3. ASSUME NEW m \in 0 .. Len(lines) - 1, m \in T PROVE m + 1 \in T
    <2> DEFINE p == Up(m)
               q == Up(m + 1)
               x == lines[m + 1]
               u == U(m)
               v == U(m + 1)
    <2>1. p \in Seq(S) /\ x \in S /\ q = Append(p, x)
      BY Growing
    <2>2. p \in Text /\ u \in Reader /\ u.out \in Seq(B) /\ m + 1 \in 0 .. Len(lines) /\ u = ReadFrom(Unread, p, conds)
      BY <1>1, <1>3
    <2>3. v = ReadFrom(Unread, q, conds)
      OBVIOUS
    <2> HIDE DEF p, q, x, u, v
    <2>4. x \in Line /\ q \in Text
      BY <2>1, <2>2 DEF Text
    <2>5. v = ReadLine(u, x, conds) /\ v \in Reader
      BY <1>1, <2>1, <2>2, <2>3, <2>4, ReadAppend, ReadTyped
    <2>6. v.out = u.out \/ v.out = Append(u.out, Bare(x))
      <3>1. CASE x[1] = "if"
        <4>1. v = [stack |-> Append(u.stack, [on |-> x[2] \in conds, else |-> FALSE]), out |-> u.out, bad |-> u.bad]
          BY <2>2, <2>4, <2>5, <3>1, LineIf
        <4> QED
          BY <4>1
      <3>2. CASE x[1] = "else"
        <4>1. \/ v = [stack |-> Append(Front(u.stack), [on |-> ~Last(u.stack).on, else |-> TRUE]), out |-> u.out, bad |-> u.bad]
              \/ v = [stack |-> u.stack, out |-> u.out, bad |-> TRUE]
          BY <2>2, <2>4, <2>5, <3>2, LineElse
        <4> QED
          BY <4>1
      <3>3. CASE x[1] = "endif"
        <4>1. \/ v = [stack |-> Front(u.stack), out |-> u.out, bad |-> u.bad]
              \/ v = [stack |-> u.stack, out |-> u.out, bad |-> TRUE]
          BY <2>2, <2>4, <2>5, <3>3, LineEndif
        <4> QED
          BY <4>1
      <3>4. CASE x[1] \notin {"if", "else", "endif"}
        <4>1. v = [stack |-> u.stack, out |-> IF On(u) THEN Append(u.out, Bare(x)) ELSE u.out, bad |-> u.bad]
          BY <2>2, <2>4, <2>5, <3>4, LineOther
        <4> QED
          BY <4>1
      <3> QED
        BY <3>1, <3>2, <3>3, <3>4
    <2>7. v.out \in Seq(B)
      <3> DEFINE o == u.out
                 y == Bare(x)
      <3>1. o \in Seq(B) /\ y \in B
        BY <2>1, <2>2
      <3>2. v.out = o \/ v.out = Append(o, y)
        BY <2>6
      <3> HIDE DEF o, y
      <3>3. Append(o, y) \in Seq(B)
        BY <3>1
      <3> QED
        BY <3>1, <3>2, <3>3
    <2> QED
      BY <2>2, <2>4, <2>5, <2>7 DEF q, v
  <1> HIDE DEF T, Up
  <1>4. \A m \in 0 .. Len(lines) : m \in T
    BY <1>1, <1>2, <1>3, UpTo
  <1>5. Len(lines) \in T
    BY <1>1, <1>4
  <1> QED
    BY <1>1, <1>5 DEF T

\* Lines without conditionals are whole, and are put out.
Plain == {line \in Line : line[1] \notin {"if", "else", "endif"}}

LEMMA PlainWhole ==
    ASSUME NEW p \in Seq(Plain)
    PROVE  p \in Text /\ Whole(p)
  <1> DEFINE Up(m) == SubSeq(p, 1, m)
             U(m) == ReadFrom(Unread, Up(m), {})
             T == {m \in 0 .. Len(p) : Up(m) \in Text /\ U(m) \in Reader /\ U(m).bad = FALSE /\ U(m).stack = <<>>}
  <1>1. Len(p) \in Nat /\ Unread \in Reader /\ Up(0) = <<>> /\ Up(Len(p)) = p
    BY AllOf, UnreadIsReader
  <1>2. 0 \in T
    <2>1. Up(0) = <<>> /\ <<>> \in Text
      BY <1>1 DEF Text
    <2> HIDE DEF Up
    <2>2. U(0) = Unread /\ Unread.bad = FALSE /\ Unread.stack = <<>>
      BY <1>1, <2>1, ReadNothing DEF Unread
    <2> HIDE DEF U
    <2> QED
      BY <1>1, <2>1, <2>2
  <1>3. ASSUME NEW m \in 0 .. Len(p) - 1, m \in T PROVE m + 1 \in T
    <2> DEFINE r == Up(m)
               q == Up(m + 1)
               x == p[m + 1]
               u == U(m)
               v == U(m + 1)
    <2>1. r \in Seq(Plain) /\ x \in Plain /\ q = Append(r, x)
      BY Growing
    <2>2. r \in Text /\ u \in Reader /\ u.bad = FALSE /\ u.stack = <<>> /\ m + 1 \in 0 .. Len(p) /\ u = ReadFrom(Unread, r, {})
      BY <1>1, <1>3
    <2>3. v = ReadFrom(Unread, q, {})
      OBVIOUS
    <2> HIDE DEF r, q, x, u, v
    <2>4. x \in Line /\ q \in Text /\ x[1] \notin {"if", "else", "endif"}
      BY <2>1, <2>2 DEF Text, Plain
    <2>5. v = ReadLine(u, x, {}) /\ v \in Reader
      BY <1>1, <2>1, <2>2, <2>3, <2>4, ReadAppend, ReadTyped
    <2>6. v = [stack |-> u.stack, out |-> IF On(u) THEN Append(u.out, Bare(x)) ELSE u.out, bad |-> u.bad]
      BY <2>2, <2>4, <2>5, LineOther
    <2>7. v.bad = FALSE /\ v.stack = <<>>
      BY <2>2, <2>6
    <2> QED
      BY <2>2, <2>4, <2>5, <2>7 DEF q, v
  <1> HIDE DEF T
  <1>4. \A m \in 0 .. Len(p) : m \in T
    BY <1>1, <1>2, <1>3, UpTo
  <1> HIDE DEF Up
  <1>5. Len(p) \in T
    BY <1>1, <1>4
  <1>6. p \in Text /\ ReadFrom(Unread, p, {}).bad = FALSE /\ ReadFrom(Unread, p, {}).stack = <<>>
    BY <1>1, <1>5 DEF T
  <1> QED
    BY <1>6 DEF Whole

\* A comparison of files without conditionals cuts none.
LEMMA PlainUncut ==
    ASSUME NEW old \in Seq(Plain), NEW new \in Seq(Plain), NEW format, Formatted(format)
    PROVE  NothingCut(old, new, format)
  <1>1. old \in Text /\ new \in Text
    BY PlainWhole
  <1>2. PICK r, table : Walk(r, old, new, table, format)
    BY <1>1, WalkExists
  <1> DEFINE N == Len(old) + Len(new)
  <1>3. Len(old) \in Nat /\ Len(new) \in Nat /\ N \in Nat
    OBVIOUS
  <1>4. /\ r[0] = Unwritten
        /\ \A m \in 1 .. N : r[m] = Compare(r[m - 1], old, new, table, format)
        /\ \A m \in 0 .. N : Walking(r[m], old, new)
        /\ Compared(old, new, format) = Written(r[N], format)
    BY <1>2 DEF Walk
  <1> HIDE DEF N
  <1> DEFINE Whether(w) == w.cut = FALSE /\ w.old \in Seq(Plain) /\ w.new \in Seq(Plain)
             T == {m \in 0 .. N : Whether(r[m])}
  <1>5. 0 \in T
    <2>1. Unwritten.old = <<>> /\ Unwritten.new = <<>> /\ Unwritten.cut = FALSE
      BY DEF Unwritten
    <2>2. <<>> \in Seq(Plain)
      OBVIOUS
    <2>3. Whether(Unwritten)
      BY <2>1, <2>2
    <2> HIDE DEF Whether
    <2> QED
      BY <1>3, <1>4, <2>3
  <1>6. ASSUME NEW m \in 0 .. N - 1, m \in T PROVE m + 1 \in T
    <2>1. m + 1 \in 1 .. N /\ m + 1 \in 0 .. N /\ (m + 1) - 1 = m /\ m \in 0 .. N /\ Whether(r[m])
      <3> HIDE DEF Whether
      <3> QED
        BY <1>3, <1>6
    <2> DEFINE w == r[m]
               v == r[m + 1]
    <2>2. Walking(w, old, new) /\ v = Compare(w, old, new, table, format)
      BY <1>4, <2>1
    <2>3. w.cut = FALSE /\ w.old \in Seq(Plain) /\ w.new \in Seq(Plain)
      BY <2>1
    <2> HIDE DEF w, v
    <2>4. AtEnd(v, w, old, new) \/ BothOn(v, w, old, new, format) \/ OldOn(v, w, old) \/ NewOn(v, w, new)
      BY <1>1, <2>2, CompareDoes
    <2>5. /\ w.i <= Len(old) => old[w.i] \in Plain
          /\ w.j <= Len(new) => new[w.j] \in Plain
      <3>1. w.i \in 1 .. Len(old) + 1 /\ w.j \in 1 .. Len(new) + 1
        BY <2>2 DEF Walking
      <3>2. w.i <= Len(old) => w.i \in 1 .. Len(old)
        BY <1>3, <3>1
      <3>3. w.j <= Len(new) => w.j \in 1 .. Len(new)
        BY <1>3, <3>1
      <3> QED
        BY <3>2, <3>3, ElementOfSeq
    <2>6. CASE AtEnd(v, w, old, new)
      BY <2>1, <2>6 DEF AtEnd, v, w
    <2>7. CASE BothOn(v, w, old, new, format)
      <3> DEFINE c == w.cut \/ ~Whole(w.old) \/ ~Whole(w.new)
                 l == Append(w.lines \o Group(w.old, w.new, format), old[w.i])
      <3>1. v = [i |-> w.i + 1, j |-> w.j + 1, old |-> <<>>, new |-> <<>>, lines |-> l, cut |-> c]
        BY <2>7 DEF BothOn
      <3>2. c = FALSE
        <4>1. Whole(w.old) /\ Whole(w.new)
          BY <2>3, PlainWhole
        <4> QED
          BY <2>3, <4>1
      <3> HIDE DEF c, l
      <3>3. v.old = <<>> /\ v.new = <<>> /\ v.cut = FALSE
        BY <3>1, <3>2, FieldsOf
      <3>4. <<>> \in Seq(Plain)
        OBVIOUS
      <3> QED
        BY <2>1, <3>3, <3>4 DEF v
    <2>8. CASE OldOn(v, w, old)
      <3>1. /\ w.i <= Len(old)
            /\ v = [i |-> w.i + 1, j |-> w.j, old |-> Append(w.old, old[w.i]), new |-> w.new,
                    lines |-> w.lines, cut |-> w.cut]
        BY <2>8 DEF OldOn
      <3>2. v.old = Append(w.old, old[w.i]) /\ v.new = w.new /\ v.cut = w.cut
        BY <3>1, FieldsOf
      <3>3. v.old \in Seq(Plain)
        BY <2>3, <2>5, <3>1, <3>2
      <3> QED
        BY <2>1, <2>3, <3>2, <3>3 DEF v
    <2>9. CASE NewOn(v, w, new)
      <3>1. /\ w.j <= Len(new)
            /\ v = [i |-> w.i, j |-> w.j + 1, old |-> w.old, new |-> Append(w.new, new[w.j]),
                    lines |-> w.lines, cut |-> w.cut]
        BY <2>9 DEF NewOn
      <3>2. v.new = Append(w.new, new[w.j]) /\ v.old = w.old /\ v.cut = w.cut
        BY <3>1, FieldsOf
      <3>3. v.new \in Seq(Plain)
        BY <2>3, <2>5, <3>1, <3>2
      <3> QED
        BY <2>1, <2>3, <3>2, <3>3 DEF v
    <2> QED
      BY <2>4, <2>6, <2>7, <2>8, <2>9
  <1> HIDE DEF T
  <1>7. \A m \in 0 .. N : m \in T
    BY <1>3, <1>5, <1>6, UpTo
  <1> DEFINE w == r[N]
             c == w.cut \/ ~Whole(w.old) \/ ~Whole(w.new)
             z == Compared(old, new, format)
             l == w.lines \o Group(w.old, w.new, format)
  <1>8. w \in Walker /\ w.cut = FALSE /\ w.old \in Seq(Plain) /\ w.new \in Seq(Plain) /\ z = Written(w, format)
    BY <1>3, <1>4, <1>7 DEF T, Walking
  <1> HIDE DEF w
  <1>9. z = [i |-> w.i, j |-> w.j, old |-> <<>>, new |-> <<>>, lines |-> l, cut |-> c]
    BY <1>8, WrittenIs
  <1>10. c = FALSE
    <2>1. Whole(w.old) /\ Whole(w.new)
      BY <1>8, PlainWhole
    <2> QED
      BY <1>8, <2>1
  <1> HIDE DEF z, c, l
  <1>11. z.cut = FALSE
    BY <1>9, <1>10, FieldsOf
  <1> QED
    BY <1>11 DEF NothingCut, z

LEMMA LinesOf ==
    ASSUME NEW s \in Text, NEW t \in Text
    PROVE  /\ BareLines(s \o t) = BareLines(s) \cup BareLines(t)
           /\ \A x \in Line : BareLines(Append(s, x)) = BareLines(s) \cup {Bare(x)}
  <1>0. s \in Seq(Line) /\ t \in Seq(Line) /\ Len(s) \in Nat /\ Len(t) \in Nat
    BY DEF Text
  <1>1. BareLines(s \o t) = BareLines(s) \cup BareLines(t)
    <2> DEFINE r == s \o t
    <2>1. /\ r \in Seq(Line) /\ Len(r) = Len(s) + Len(t)
          /\ \A i \in 1 .. Len(s) + Len(t) : r[i] = IF i <= Len(s) THEN s[i] ELSE t[i - Len(s)]
      BY <1>0, ConcatProperties
    <2> HIDE DEF r
    <2>3. \A i \in 1 .. Len(s) : i \in 1 .. Len(r) /\ r[i] = s[i]
      BY <1>0, <2>1
    <2>4. \A i \in 1 .. Len(t) : i + Len(s) \in 1 .. Len(r) /\ r[i + Len(s)] = t[i]
      <3> TAKE i \in 1 .. Len(t)
      <3>1. i + Len(s) \in 1 .. Len(s) + Len(t) /\ ~(i + Len(s) <= Len(s)) /\ (i + Len(s)) - Len(s) = i
        BY <1>0
      <3> QED
        BY <2>1, <3>1
    <2>5. \A i \in 1 .. Len(r) : (i \in 1 .. Len(s) /\ r[i] = s[i]) \/ (i - Len(s) \in 1 .. Len(t) /\ r[i] = t[i - Len(s)])
      <3> TAKE i \in 1 .. Len(r)
      <3>1. i \in 1 .. Len(s) + Len(t)
        BY <2>1
      <3>2. i <= Len(s) => i \in 1 .. Len(s)
        BY <1>0, <3>1
      <3>3. ~(i <= Len(s)) => i - Len(s) \in 1 .. Len(t)
        BY <1>0, <3>1
      <3> QED
        BY <2>1, <3>1, <3>2, <3>3
    <2>6. BareLines(r) \subseteq BareLines(s) \cup BareLines(t)
      BY <2>5 DEF BareLines
    <2>7. BareLines(s) \subseteq BareLines(r)
      BY <2>3 DEF BareLines
    <2>8. BareLines(t) \subseteq BareLines(r)
      <3> SUFFICES ASSUME NEW i \in 1 .. Len(t) PROVE Bare(t[i]) \in BareLines(r)
        BY DEF BareLines
      <3>1. i + Len(s) \in 1 .. Len(r) /\ r[i + Len(s)] = t[i]
        BY <2>4
      <3> QED
        BY <3>1 DEF BareLines
    <2> QED
      BY <2>6, <2>7, <2>8 DEF r
  <1>2. ASSUME NEW x \in Line PROVE BareLines(Append(s, x)) = BareLines(s) \cup {Bare(x)}
    <2> DEFINE r == Append(s, x)
    <2>1. /\ Len(r) = Len(s) + 1 /\ r[Len(s) + 1] = x /\ \A i \in 1 .. Len(s) : r[i] = s[i]
      BY <1>0
    <2> HIDE DEF r
    <2>2. \A i \in 1 .. Len(r) : i \in 1 .. Len(s) \/ i = Len(s) + 1
      BY <1>0, <2>1
    <2>3. \A i \in 1 .. Len(s) : i \in 1 .. Len(r)
      BY <1>0, <2>1
    <2>4. Len(s) + 1 \in 1 .. Len(r)
      BY <1>0, <2>1
    <2>5. BareLines(r) \subseteq BareLines(s) \cup {Bare(x)}
      BY <2>1, <2>2 DEF BareLines
    <2>6. BareLines(s) \subseteq BareLines(r)
      BY <2>1, <2>3 DEF BareLines
    <2>7. Bare(x) \in BareLines(r)
      BY <2>1, <2>4 DEF BareLines
    <2> QED
      BY <2>5, <2>6, <2>7 DEF r
  <1> QED
    BY <1>1, <1>2

\* A group holds the lines it was made of, and may hold conditions besides.
LEMMA GroupKeeps ==
    ASSUME NEW a \in Text, NEW b \in Text, NEW format, Formatted(format)
    PROVE  BareLines(a) \cup BareLines(b) \subseteq BareLines(Group(a, b, format))
  <1> DEFINE if == <<IfLine(format.old)>>
             ifnew == <<IfLine(format.new)>>
             else == <<Else>>
             endif == <<Endif>>
  <1>1. BareLines(<<>>) = {}
    BY DEF BareLines
  <1>2. CASE format = DiffFormatCombine
    BY <1>2, LinesOf DEF Group
  <1>3. CASE format # DiffFormatCombine
    <2>1. format.old \in Word /\ format.new \in Word
      BY <1>3 DEF Formatted
    <2>2. if \in Text /\ ifnew \in Text /\ else \in Text /\ endif \in Text
      <3>1. IfLine(format.old) \in Line /\ IfLine(format.new) \in Line /\ Else \in Line /\ Endif \in Line
        BY <2>1, MarksAreLines
      <3> QED
        BY <3>1 DEF Text
    <2>3. ASSUME NEW c \in Text, NEW d \in Text, NEW e \in Text
          PROVE  c \o d \o e \in Text /\ BareLines(c \o d \o e) = BareLines(c) \cup BareLines(d) \cup BareLines(e)
      <3> DEFINE cd == c \o d
      <3>1. cd \in Text /\ cd \o e \in Text
        BY DEF Text
      <3>2. BareLines(cd) = BareLines(c) \cup BareLines(d)
        BY LinesOf
      <3> HIDE DEF cd
      <3>3. BareLines(cd \o e) = BareLines(cd) \cup BareLines(e)
        BY <3>1, LinesOf
      <3> QED
        BY <3>1, <3>2, <3>3 DEF cd
    <2>4. CASE a # <<>> /\ b # <<>>
      <3> DEFINE front == if \o a \o else
                 whole == front \o b \o endif
      <3>1. Group(a, b, format) = if \o a \o else \o b \o endif
        BY <1>3, <2>4 DEF Group
      <3>2. front \in Text /\ BareLines(a) \subseteq BareLines(front)
        <4> HIDE DEF if, else
        <4> QED
          BY <2>2, <2>3
      <3> HIDE DEF front, if, else, endif
      <3>3. BareLines(front) \cup BareLines(b) \subseteq BareLines(whole)
        BY <2>2, <2>3, <3>2
      <3>4. Group(a, b, format) = whole
        BY <3>1 DEF front
      <3> QED
        BY <3>2, <3>3, <3>4
    <2>5. CASE a # <<>> /\ b = <<>>
      <3>1. Group(a, b, format) = if \o a \o endif
        BY <1>3, <2>5 DEF Group
      <3> HIDE DEF if, endif
      <3>2. BareLines(if \o a \o endif) = BareLines(if) \cup BareLines(a) \cup BareLines(endif)
        BY <2>2, <2>3
      <3>3. BareLines(b) = {}
        BY <1>1, <2>5
      <3> QED
        BY <3>1, <3>2, <3>3
    <2>6. CASE a = <<>> /\ b # <<>>
      <3>1. Group(a, b, format) = ifnew \o b \o endif
        BY <1>3, <2>6 DEF Group
      <3> HIDE DEF ifnew, endif
      <3>2. BareLines(ifnew \o b \o endif) = BareLines(ifnew) \cup BareLines(b) \cup BareLines(endif)
        BY <2>2, <2>3
      <3>3. BareLines(a) = {}
        BY <1>1, <2>6
      <3> QED
        BY <3>1, <3>2, <3>3
    <2>7. CASE a = <<>> /\ b = <<>>
      BY <1>1, <2>7
    <2> QED
      BY <2>4, <2>5, <2>6, <2>7
  <1> QED
    BY <1>2, <1>3

\* The lines that were passed are in what was written or in the group that is gathered.
LinesKept(w, old, new) ==
    /\ \A k \in 1 .. Len(old) : k < w.i => Bare(old[k]) \in BareLines(w.lines) \cup BareLines(w.old)
    /\ \A k \in 1 .. Len(new) : k < w.j => Bare(new[k]) \in BareLines(w.lines) \cup BareLines(w.new)

LEMMA LinesKeptOn ==
    ASSUME NEW old \in Text, NEW new \in Text, NEW w, Walking(w, old, new), NEW table, NEW format,
           Formatted(format), NEW v, v = Compare(w, old, new, table, format), LinesKept(w, old, new)
    PROVE  LinesKept(v, old, new)
  <1> DEFINE wl == BareLines(w.lines)
             wo == BareLines(w.old)
             wn == BareLines(w.new)
  <1>1. /\ w.i \in 1 .. Len(old) + 1 /\ w.j \in 1 .. Len(new) + 1
        /\ Len(old) \in Nat /\ Len(new) \in Nat
        /\ w.old \in Text /\ w.new \in Text /\ w.lines \in Text
    <2>1. /\ w.i \in 1 .. Len(old) + 1 /\ w.j \in 1 .. Len(new) + 1 /\ w \in Walker
      BY DEF Walking
    <2>2. Len(old) \in Nat /\ Len(new) \in Nat
      BY DEF Text
    <2> QED
      BY <2>1, <2>2, AnyWalker
  <1>2. AtEnd(v, w, old, new) \/ BothOn(v, w, old, new, format) \/ OldOn(v, w, old) \/ NewOn(v, w, new)
    BY CompareDoes
  <1>3. /\ w.i <= Len(old) => old[w.i] \in Line
        /\ w.j <= Len(new) => new[w.j] \in Line
    <2>1. w.i <= Len(old) => w.i \in 1 .. Len(old)
      BY <1>1
    <2>2. w.j <= Len(new) => w.j \in 1 .. Len(new)
      BY <1>1
    <2> QED
      BY <2>1, <2>2, ElementOfSeq DEF Text
  <1>4. /\ \A k \in 1 .. Len(old) : k < w.i => Bare(old[k]) \in wl \cup wo
        /\ \A k \in 1 .. Len(new) : k < w.j => Bare(new[k]) \in wl \cup wn
    BY DEF LinesKept
  <1>5. /\ \A k \in 1 .. Len(old) : k < w.i + 1 => k < w.i \/ k = w.i
        /\ \A k \in 1 .. Len(new) : k < w.j + 1 => k < w.j \/ k = w.j
    BY <1>1
  <1>6. CASE AtEnd(v, w, old, new)
    BY <1>6 DEF AtEnd
  <1>7. CASE BothOn(v, w, old, new, format)
    <2> DEFINE g == Group(w.old, w.new, format)
               l == w.lines \o g
               x == old[w.i]
    <2>1. w.i <= Len(old) /\ w.j <= Len(new) /\ Bare(x) = Bare(new[w.j])
      BY <1>7 DEF BothOn, SameLine
    <2>2. v.i = w.i + 1 /\ v.j = w.j + 1 /\ v.old = <<>> /\ v.new = <<>> /\ v.lines = Append(l, x)
      <3> DEFINE c == w.cut \/ ~Whole(w.old) \/ ~Whole(w.new)
      <3>2. v = [i |-> w.i + 1, j |-> w.j + 1, old |-> <<>>, new |-> <<>>, lines |-> Append(l, x), cut |-> c]
        BY <1>7 DEF BothOn
      <3> HIDE DEF c, l, x
      <3> QED
        BY <3>2, FieldsOf
    <2>3. g \in Text /\ wo \cup wn \subseteq BareLines(g)
      BY <1>1, GroupTyped, GroupKeeps
    <2> HIDE DEF g
    <2>4. l \in Text /\ BareLines(l) = wl \cup BareLines(g)
      <3>1. l \in Text
        BY <1>1, <2>3 DEF Text
      <3> QED
        BY <1>1, <2>3, <3>1, LinesOf
    <2>5. BareLines(Append(l, x)) = wl \cup BareLines(g) \cup {Bare(x)}
      <3>1. x \in Line
        BY <1>3, <2>1
      <3> HIDE DEF l, x
      <3> QED
        BY <2>4, <3>1, LinesOf
    <2> DEFINE b == Bare(x)
               n == Bare(new[w.j])
               lines == BareLines(v.lines)
    <2>8. wl \cup wo \cup wn \cup {b} \subseteq lines /\ b = n
      <3> HIDE DEF wl, wo, wn, l, x
      <3> QED
        BY <2>1, <2>2, <2>3, <2>5
    <2>6. \A k \in 1 .. Len(old) : k < v.i => Bare(old[k]) \in lines
      <3> HIDE DEF wl, wo, wn, lines
      <3> QED
        BY <1>4, <1>5, <2>2, <2>8
    <2>7. \A k \in 1 .. Len(new) : k < v.j => Bare(new[k]) \in lines
      <3> HIDE DEF wl, wo, wn, lines, b
      <3> QED
        BY <1>4, <1>5, <2>2, <2>8
    <2> QED
      BY <2>6, <2>7 DEF LinesKept
  <1>8. CASE OldOn(v, w, old)
    <2> DEFINE x == old[w.i]
    <2>1. /\ w.i <= Len(old)
          /\ v = [i |-> w.i + 1, j |-> w.j, old |-> Append(w.old, x), new |-> w.new,
                  lines |-> w.lines, cut |-> w.cut]
      BY <1>8 DEF OldOn
    <2>2. v.i = w.i + 1 /\ v.j = w.j /\ v.old = Append(w.old, x) /\ v.new = w.new /\ v.lines = w.lines
      <3> HIDE DEF x
      <3> QED
        BY <2>1, FieldsOf
    <2>3. BareLines(v.old) = wo \cup {Bare(x)}
      <3>1. x \in Line
        BY <1>3, <2>1
      <3> HIDE DEF x
      <3>2. BareLines(Append(w.old, x)) = BareLines(w.old) \cup {Bare(x)}
        BY <1>1, <3>1, LinesOf
      <3> QED
        BY <2>2, <3>2
    <2> HIDE DEF wl, wo, wn
    <2>4. \A k \in 1 .. Len(old) : k < v.i => Bare(old[k]) \in wl \cup BareLines(v.old)
      BY <1>4, <1>5, <2>2, <2>3
    <2> QED
      BY <1>4, <2>2, <2>4 DEF LinesKept, wl, wn
  <1>9. CASE NewOn(v, w, new)
    <2> DEFINE x == new[w.j]
    <2>1. /\ w.j <= Len(new)
          /\ v = [i |-> w.i, j |-> w.j + 1, old |-> w.old, new |-> Append(w.new, x),
                  lines |-> w.lines, cut |-> w.cut]
      BY <1>9 DEF NewOn
    <2>2. v.i = w.i /\ v.j = w.j + 1 /\ v.old = w.old /\ v.new = Append(w.new, x) /\ v.lines = w.lines
      <3> HIDE DEF x
      <3> QED
        BY <2>1, FieldsOf
    <2>3. BareLines(v.new) = wn \cup {Bare(x)}
      <3>1. x \in Line
        BY <1>3, <2>1
      <3> HIDE DEF x
      <3>2. BareLines(Append(w.new, x)) = BareLines(w.new) \cup {Bare(x)}
        BY <1>1, <3>1, LinesOf
      <3> QED
        BY <2>2, <3>2
    <2> HIDE DEF wl, wo, wn
    <2>4. \A k \in 1 .. Len(new) : k < v.j => Bare(new[k]) \in wl \cup BareLines(v.new)
      BY <1>4, <1>5, <2>2, <2>3
    <2> QED
      BY <1>4, <2>2, <2>4 DEF LinesKept, wl, wo
  <1> QED
    BY <1>2, <1>6, <1>7, <1>8, <1>9

\* A comparison gives text, and keeps every line of both files.
LEMMA DiffIsText ==
    ASSUME NEW old \in Text, NEW new \in Text, NEW format, Formatted(format)
    PROVE  Diff(old, new, format) \in Text
  <1>1. PICK r, table : Walk(r, old, new, table, format)
    BY WalkExists
  <1> DEFINE w == r[Len(old) + Len(new)]
             g == Group(w.old, w.new, format)
  <1>2. Walking(w, old, new) /\ Compared(old, new, format) = Written(w, format)
    <2>1. Len(old) + Len(new) \in 0 .. Len(old) + Len(new)
      BY DEF Text
    <2> QED
      BY <1>1, <2>1 DEF Walk
  <1> HIDE DEF w
  <1>3. w \in Walker
    BY <1>2 DEF Walking
  <1>4. Written(w, format).lines = w.lines \o g
    <2> DEFINE z == Written(w, format)
               c == w.cut \/ ~Whole(w.old) \/ ~Whole(w.new)
               l == w.lines \o g
    <2>1. z = [i |-> w.i, j |-> w.j, old |-> <<>>, new |-> <<>>, lines |-> l, cut |-> c]
      BY <1>3, WrittenIs
    <2> HIDE DEF z, c, l
    <2>2. z.lines = l
      BY <2>1, FieldsOf
    <2> QED
      BY <2>2 DEF z, l
  <1>5. w.old \in Text /\ w.new \in Text /\ w.lines \in Text
    BY <1>3, AnyWalker
  <1>6. g \in Text
    BY <1>5, GroupTyped
  <1> HIDE DEF g
  <1>7. w.lines \o g \in Text
    BY <1>5, <1>6 DEF Text
  <1> QED
    BY <1>2, <1>4, <1>7 DEF Diff

LEMMA CombineFormatted == Formatted(DiffFormatCombine)
  BY DEF Formatted

LEMMA DiffKeepsLines ==
    ASSUME NEW old \in Text, NEW new \in Text, NEW format, Formatted(format)
    PROVE  BareLines(old) \cup BareLines(new) \subseteq BareLines(Diff(old, new, format))
  <1> DEFINE N == Len(old) + Len(new)
  <1>1. PICK r, table : Walk(r, old, new, table, format)
    BY WalkExists
  <1>3. Len(old) \in Nat /\ Len(new) \in Nat /\ N \in Nat
    BY DEF Text
  <1>4. /\ r[0] = Unwritten
        /\ \A m \in 1 .. N : r[m] = Compare(r[m - 1], old, new, table, format)
        /\ \A m \in 0 .. N : Walking(r[m], old, new)
        /\ Compared(old, new, format) = Written(r[N], format)
        /\ r[N].i = Len(old) + 1 /\ r[N].j = Len(new) + 1
    BY <1>1 DEF Walk
  <1> HIDE DEF N
  <1> DEFINE T == {m \in 0 .. N : LinesKept(r[m], old, new)}
  <1>5. 0 \in T
    <2>1. Unwritten.i = 1 /\ Unwritten.j = 1
      BY DEF Unwritten
    <2>2. LinesKept(Unwritten, old, new)
      BY <1>3, <2>1 DEF LinesKept
    <2> QED
      BY <1>3, <1>4, <2>2
  <1>6. ASSUME NEW m \in 0 .. N - 1, m \in T PROVE m + 1 \in T
    <2>1. m + 1 \in 1 .. N /\ (m + 1) - 1 = m /\ m \in 0 .. N /\ LinesKept(r[m], old, new)
      BY <1>3, <1>6
    <2> DEFINE w == r[m]
               v == r[m + 1]
    <2>2. Walking(w, old, new) /\ v = Compare(w, old, new, table, format) /\ LinesKept(w, old, new)
      BY <1>4, <2>1
    <2> HIDE DEF w, v
    <2>3. LinesKept(v, old, new)
      BY <2>2, LinesKeptOn
    <2> QED
      BY <2>1, <2>3 DEF v
  <1> HIDE DEF T
  <1>7. \A m \in 0 .. N : m \in T
    BY <1>3, <1>5, <1>6, UpTo
  <1> DEFINE w == r[N]
             g == Group(w.old, w.new, format)
             l == w.lines \o g
  <1>8. LinesKept(w, old, new) /\ w \in Walker /\ w.i = Len(old) + 1 /\ w.j = Len(new) + 1
        /\ Compared(old, new, format) = Written(w, format)
    BY <1>3, <1>4, <1>7 DEF T, Walking
  <1> HIDE DEF w
  <1>9. Diff(old, new, format) = l
    <2> DEFINE z == Written(w, format)
               c == w.cut \/ ~Whole(w.old) \/ ~Whole(w.new)
    <2>2. z = [i |-> w.i, j |-> w.j, old |-> <<>>, new |-> <<>>, lines |-> l, cut |-> c]
      BY <1>8, WrittenIs
    <2>3. Diff(old, new, format) = z.lines
      BY <1>8 DEF Diff
    <2> HIDE DEF z, c, l
    <2> QED
      BY <2>2, <2>3, FieldsOf
  <1>10. w.old \in Text /\ w.new \in Text /\ w.lines \in Text
    BY <1>8, AnyWalker
  <1>11. g \in Text /\ BareLines(w.old) \cup BareLines(w.new) \subseteq BareLines(g)
    BY <1>10, GroupTyped, GroupKeeps
  <1> HIDE DEF g
  <1>12. BareLines(l) = BareLines(w.lines) \cup BareLines(g)
    BY <1>10, <1>11, LinesOf
  <1> HIDE DEF l
  <1>13. /\ \A k \in 1 .. Len(old) : Bare(old[k]) \in BareLines(l)
         /\ \A k \in 1 .. Len(new) : Bare(new[k]) \in BareLines(l)
    <2>1. /\ \A k \in 1 .. Len(old) : k < w.i
          /\ \A k \in 1 .. Len(new) : k < w.j
      BY <1>3, <1>8
    <2> QED
      BY <1>8, <1>11, <1>12, <2>1 DEF LinesKept
  <1>14. \A b \in BareLines(old) \cup BareLines(new) : b \in BareLines(l)
    BY <1>13 DEF BareLines
  <1> QED
    BY <1>9, <1>14

-----------------------------------------------------------------------------
(* Paths, files and trees. *)

Top == <<"f">>
Path == Seq(Word)
IsFile(file) == file = [kind |-> file.kind, data |-> file.data]

LEMMA PathNamed ==
    ASSUME NEW n \in Word, NEW p \in Path
    PROVE  <<n>> \o p \in Path /\ (<<n>> \o p)[1] = n /\ Len(<<n>> \o p) = Len(p) + 1
  BY DEF Path

LEMMA TopIsPath == Top \in Path /\ Top[1] = "f" /\ Len(Top) = 1
  BY DEF Path, Top, Word

\* A file that is in both trees alike.
LEMMA MergeSame ==
    ASSUME NEW path, NEW one, NEW two, NEW pair, NEW del, one.kind = two.kind, one.data = two.data
    PROVE  /\ MergeFile(path, one, two, pair, del).files = Single(path, one)
           /\ ~MergeFile(path, one, two, pair, del).failed
  BY DEF MergeFile, Puts, Writes

LEMMA MergeKinds ==
    ASSUME NEW path, NEW one, NEW two, NEW pair, NEW del, ~MergeFile(path, one, two, pair, del).failed
    PROVE  one.kind = two.kind
  BY DEF MergeFile, Fails

\* What comes of two files of a kind that differ.
OfDiffering(r, path, one, two, pair, del) ==
    /\ one.kind \in {"link", "xz"} => r = Fails
    /\ one.kind \in {"binary", "archive"} => r = MergeBinary(path, one, two)
    /\ one.kind = "dont_diff" => r = Divide(path, one, two, pair)
    /\ one.kind = "combine" =>
          r = Writes(Single(path, [one EXCEPT !.data = Diff(one.data, two.data, DiffFormatCombine)]))
    /\ one.kind \in {"equivalent", "assumed"} => r = Puts(Single(path, one))
    /\ one.kind = "mod" => r = DivideModules(path, one, two, pair)
    /\ one.kind = "flags" => r = MergeStripped(path, Stripped(one, AnyMark), Stripped(two, AnyMark))
    /\ one.kind = "gir" =>
          r = MergeStripped(path, Stripped(one, {pair.name1}), Stripped(two, {pair.name2}))
    /\ one.kind = "la" => r = IF del THEN Writes(<<>>) ELSE Fails
    /\ one.kind = "packed" => r = IF one.data[1] = two.data[1] THEN Puts(Single(path, one)) ELSE Fails
    /\ one.kind \in {"header", "text"} =>
          r = Writes(Single(path, [one EXCEPT !.data = Diff(one.data, two.data, pair.format)]))

LEMMA MergeDiffer ==
    ASSUME NEW path, NEW one, NEW two, NEW pair, NEW del, one.kind = two.kind, one.data # two.data,
           NEW r, r = MergeFile(path, one, two, pair, del)
    PROVE  OfDiffering(r, path, one, two, pair, del)
  BY DEF MergeFile, OfDiffering

LEMMA SingleIs ==
    ASSUME NEW path, NEW file
    PROVE  DOMAIN Single(path, file) = {path} /\ Single(path, file)[path] = file
  BY DEF Single

LEMMA ResultIs ==
    ASSUME NEW puts
    PROVE  /\ Puts(puts).files = puts /\ ~Puts(puts).failed /\ Puts(puts).copies = DOMAIN puts
           /\ Writes(puts).files = puts /\ ~Writes(puts).failed /\ Writes(puts).copies = {}
           /\ Fails.failed
  BY DEF Puts, Writes, Fails

LEMMA PutOne ==
    ASSUME NEW r, NEW path, NEW file, r.files = Single(path, file)
    PROVE  DOMAIN r.files = {path} /\ r.files[path] = file /\ \A q \in DOMAIN r.files : q = path /\ r.files[q] = file
  <1>1. DOMAIN Single(path, file) = {path} /\ Single(path, file)[path] = file
    BY SingleIs
  <1> DEFINE s == Single(path, file)
  <1>2. r.files = s /\ DOMAIN s = {path} /\ s[path] = file
    BY <1>1
  <1> HIDE DEF s
  <1> QED
    BY <1>2

\* A division, and one of modules.
DividedAs(r, path, p1, p2, one, two, format) ==
    /\ ~r.failed /\ r.copies = {}
    /\ DOMAIN r.files = {path, p1, p2} /\ r.files[p1] = one /\ r.files[p2] = two
    /\ r.files[path] = [kind |-> one.kind, data |-> Diff(<<IncludeLine(p1)>>, <<IncludeLine(p2)>>, format)]
    /\ p1 # path /\ p2 # path /\ p1 # p2

LEMMA Divided ==
    ASSUME NEW path \in Path, NEW one, NEW two, NEW pair, pair.name1 \in Word, pair.name2 \in Word,
           pair.name1 # pair.name2, IsFile(one)
    PROVE  DividedAs(Divide(path, one, two, pair), path, <<pair.name1>> \o path, <<pair.name2>> \o path,
                     one, two, pair.format)
  <1> DEFINE r == Divide(path, one, two, pair)
             p1 == <<pair.name1>> \o path
             p2 == <<pair.name2>> \o path
             mid == [kind |-> one.kind, data |-> Diff(<<IncludeLine(p1)>>, <<IncludeLine(p2)>>, pair.format)]
             puts == [p \in {path, p1, p2} |-> IF p = p1 THEN one ELSE IF p = p2 THEN two ELSE mid]
  <1>1. [one EXCEPT !.data = Diff(<<IncludeLine(p1)>>, <<IncludeLine(p2)>>, pair.format)] = mid
    BY DEF IsFile
  <1>2. r = Writes(puts)
    BY <1>1 DEF Divide
  <1>3. p1 # path /\ p2 # path /\ p1 # p2
    <2>1. /\ p1[1] = pair.name1 /\ p2[1] = pair.name2 /\ Len(p1) = Len(path) + 1 /\ Len(p2) = Len(path) + 1
          /\ Len(path) \in Nat
      BY PathNamed DEF Path
    <2> QED
      BY <2>1
  <1> HIDE DEF mid, p1, p2, r
  <1>4. DOMAIN puts = {path, p1, p2} /\ puts[p1] = one /\ puts[p2] = two /\ puts[path] = mid
    BY <1>3
  <1> HIDE DEF puts
  <1>5. /\ r.files = puts /\ r.copies = {}
        /\ ~r.failed
    <2>1. /\ Writes(puts).files = puts /\ Writes(puts).copies = {}
          /\ ~Writes(puts).failed
      BY ResultIs
    <2> QED
      BY <1>2, <2>1
  <1> QED
    <2>1. DividedAs(r, path, p1, p2, one, two, pair.format)
      BY <1>3, <1>4, <1>5 DEF mid, DividedAs
    <2> QED
      BY <2>1 DEF r, p1, p2

ModulesAs(r, p1, p2, one, two) ==
    /\ ~r.failed /\ r.copies = {p1, p2}
    /\ DOMAIN r.files = {p1, p2} /\ p1[1] = "mods32" /\ p2[1] = "mods64"
    /\ \/ r.files[p1] = one /\ r.files[p2] = two
       \/ r.files[p1] = two /\ r.files[p2] = one

LEMMA ModulesDivided ==
    ASSUME NEW path \in Path, NEW one, NEW two, NEW pair
    PROVE  ModulesAs(DivideModules(path, one, two, pair), <<"mods32">> \o path, <<"mods64">> \o path, one, two)
  <1> DEFINE r == DivideModules(path, one, two, pair)
             p1 == <<"mods32">> \o path
             p2 == <<"mods64">> \o path
             first32 == pair.name1 \in {"i386", "ppc"}
             puts == [p \in {p1, p2} |-> IF (p[1] = "mods32") = first32 THEN one ELSE two]
  <1>1. r = Puts(puts)
    BY DEF DivideModules
  <1>2. p1[1] = "mods32" /\ p2[1] = "mods64"
    BY DEF Path
  <1> HIDE DEF p1, p2, r
  <1>3. DOMAIN puts = {p1, p2}
    OBVIOUS
  <1>4. \/ puts[p1] = one /\ puts[p2] = two
        \/ puts[p1] = two /\ puts[p2] = one
    <2>1. CASE first32
      <3>1. puts = [p \in {p1, p2} |-> IF p[1] = "mods32" THEN one ELSE two]
        BY <2>1
      <3> QED
        BY <1>2, <3>1
    <2>2. CASE ~first32
      <3>1. puts = [p \in {p1, p2} |-> IF p[1] = "mods32" THEN two ELSE one]
        BY <2>2
      <3> QED
        BY <1>2, <3>1
    <2> QED
      BY <2>1, <2>2
  <1> HIDE DEF puts
  <1>5. /\ r.files = puts /\ r.copies = DOMAIN puts
        /\ ~r.failed
    <2>1. /\ Puts(puts).files = puts /\ Puts(puts).copies = DOMAIN puts
          /\ ~Puts(puts).failed
      BY ResultIs
    <2> QED
      BY <1>1, <2>1
  <1>6. ModulesAs(r, p1, p2, one, two)
    BY <1>2, <1>3, <1>4, <1>5 DEF ModulesAs
  <1> QED
    BY <1>6 DEF r, p1, p2

-----------------------------------------------------------------------------
(* Two trees. *)

\* What is in the tree that comes of a merge that did not fail.
LEMMA MergedFile ==
    ASSUME NEW into, NEW t1, NEW t2, NEW pair, NEW del,
           NEW M, M = MergeTree(into, t1, t2, pair, del), ~M.failed,
           NEW p \in DOMAIN t1 \cup DOMAIN t2
    PROVE  /\ ~At(p, t1, t2, pair, del).failed
           /\ \A q \in DOMAIN At(p, t1, t2, pair, del).files :
                 q \in DOMAIN M.tree /\ M.tree[q] = At(p, t1, t2, pair, del).files[q]
  <1> DEFINE paths == DOMAIN t1 \cup DOMAIN t2
             results == [x \in paths |-> At(x, t1, t2, pair, del)]
             put == UNION {DOMAIN results[x].files : x \in paths}
             By(q) == CHOOSE x \in paths : q \in DOMAIN results[x].files
             tree == [q \in put \cup DOMAIN into |-> IF q \in put THEN results[By(q)].files[q] ELSE into[q]]
             fails == \/ \E x \in paths : results[x].failed
                      \/ \E x \in paths : results[x].copies \cap DOMAIN into # {}
                      \/ \E x, y \in paths : x # y /\ DOMAIN results[x].files \cap DOMAIN results[y].files # {}
             cuts == \E x \in DOMAIN t1 \cap DOMAIN t2 :
                    t1[x].kind = "header" /\ t2[x].kind = "header" /\ ~NothingCut(t1[x].data, t2[x].data, pair.format)
  <1>1. M = [tree |-> tree, cut |-> cuts, failed |-> fails]
    BY DEF MergeTree
  <1>2. M.tree = tree /\ ~fails
    <2> HIDE DEF tree, fails, cuts
    <2>1. M.tree = tree /\ M.failed = fails
      BY <1>1
    <2> QED
      BY <2>1
  <1>3. results[p] = At(p, t1, t2, pair, del)
    OBVIOUS
  <1>4. ~results[p].failed
    BY <1>2
  <1>5. ASSUME NEW q \in DOMAIN results[p].files
        PROVE  q \in DOMAIN tree /\ tree[q] = results[p].files[q]
    <2>1. q \in put
      BY <1>5
    <2>2. By(q) \in paths /\ q \in DOMAIN results[By(q)].files
      BY <1>5
    <2>3. \A x, y \in paths : x # y => DOMAIN results[x].files \cap DOMAIN results[y].files = {}
      BY <1>2
    <2> HIDE DEF results, By
    <2>4. By(q) = p
      BY <1>5, <2>2, <2>3
    <2> QED
      BY <2>1, <2>4
  <1> HIDE DEF results, tree
  <1> QED
    BY <1>2, <1>3, <1>4, <1>5

LEMMA MergedDomain ==
    ASSUME NEW into, NEW t1, NEW t2, NEW pair, NEW del,
           NEW M, M = MergeTree(into, t1, t2, pair, del), ~M.failed,
           NEW q \in DOMAIN M.tree
    PROVE  \/ q \in DOMAIN into /\ M.tree[q] = into[q]
           \/ \E p \in DOMAIN t1 \cup DOMAIN t2 : q \in DOMAIN At(p, t1, t2, pair, del).files
  <1> DEFINE paths == DOMAIN t1 \cup DOMAIN t2
             results == [x \in paths |-> At(x, t1, t2, pair, del)]
             put == UNION {DOMAIN results[x].files : x \in paths}
             By(z) == CHOOSE x \in paths : z \in DOMAIN results[x].files
             tree == [z \in put \cup DOMAIN into |-> IF z \in put THEN results[By(z)].files[z] ELSE into[z]]
  <1>1. M.tree = tree
    BY DEF MergeTree
  <1>2. q \in put \/ (q \in DOMAIN into /\ tree[q] = into[q])
    BY <1>1
  <1>3. q \in put => \E p \in paths : q \in DOMAIN At(p, t1, t2, pair, del).files
    OBVIOUS
  <1> QED
    BY <1>1, <1>2, <1>3

LEMMA MergedUncut ==
    ASSUME NEW into, NEW t1, NEW t2, NEW pair, NEW del,
           NEW M, M = MergeTree(into, t1, t2, pair, del), ~M.cut,
           NEW p \in DOMAIN t1 \cap DOMAIN t2, t1[p].kind = "header", t2[p].kind = "header"
    PROVE  NothingCut(t1[p].data, t2[p].data, pair.format)
  <1>1. M.cut = \E x \in DOMAIN t1 \cap DOMAIN t2 :
                    t1[x].kind = "header" /\ t2[x].kind = "header" /\ ~NothingCut(t1[x].data, t2[x].data, pair.format)
    BY DEF MergeTree
  <1> QED
    BY <1>1

-----------------------------------------------------------------------------
(* What is in any tree. *)

LEMMA Redone ==
    ASSUME NEW one, IsFile(one), NEW d, NEW f, f = [one EXCEPT !.data = d]
    PROVE  f.kind = one.kind /\ f.data = d /\ IsFile(f)
  <1>1. f = [kind |-> one.kind, data |-> d]
    BY DEF IsFile
  <1> QED
    BY <1>1 DEF IsFile

LEMMA StrippedIs ==
    ASSUME NEW one, IsFile(one), NEW x, NEW y, one.data = <<x, y>>, NEW marks,
           NEW f, f = Stripped(one, marks)
    PROVE  f.kind = one.kind /\ f.data = <<x, IF y \in marks THEN "none" ELSE y>> /\ IsFile(f)
  <1>1. one = [kind |-> one.kind, data |-> <<x, y>>] /\ one.data[2] = y
    BY DEF IsFile
  <1>2. CASE y \in marks
    <2>1. f = [kind |-> one.kind, data |-> <<x, "none">>]
      BY <1>1, <1>2 DEF Stripped
    <2> QED
      BY <1>2, <2>1 DEF IsFile
  <1>3. CASE y \notin marks
    <2>1. f = one
      BY <1>1, <1>3 DEF Stripped
    <2> QED
      BY <1>1, <1>3, <2>1 DEF IsFile
  <1> QED
    BY <1>2, <1>3

\* A file as the port installs it for some architecture, or made of such.
Fit(file) ==
    /\ IsFile(file) /\ file.kind \in FileKinds
    /\ file.kind \in {"header", "text", "dont_diff", "combine"} => file.data \in Text
    /\ file.kind = "equivalent" =>
          \A b \in DOMAIN input.files : input.files[b].kind = file.kind => input.files[b].data[1] = file.data[1]
    /\ file.kind = "assumed" => \E b \in DOMAIN input.files : file = input.files[b]
    /\ file.kind \in {"flags", "gir"} => file.data = <<file.data[1], file.data[2]>>

\* Where the files of a tree may be.
Marks == AnyMark \cup {"powerpc", "x86", "ppcintel"}
ModuleDirs == {"mods32", "mods64"}
Placed(t, names) ==
    \A p \in DOMAIN t : p \in Path /\ (p = Top \/ p[1] \in names \cup ModuleDirs) /\ Fit(t[p])

\* A pair of trees whose files are in directories of the names n1 and n2.
Joins(pair, n1, n2, n) ==
    /\ n \subseteq Marks /\ pair.name1 \in n /\ pair.name2 \in n /\ n1 \subseteq n /\ n2 \subseteq n
    /\ n1 \cap n2 = {} /\ pair.name1 \notin n1 \cup n2 /\ pair.name2 \notin n1 \cup n2
    /\ pair.name1 # pair.name2
    /\ Formatted(pair.format) /\ pair.format # DiffFormatCombine

LEMMA MarksAreWords ==
    /\ Marks \subseteq Word /\ "f" \notin Marks /\ ModuleDirs \cap Marks = {} /\ "f" \notin ModuleDirs
    /\ ModuleDirs \subseteq Word
  BY DEF Marks, Word, ModuleDirs, AnyMark

LEMMA IncludeIsLine ==
    ASSUME NEW p \in Path
    PROVE  /\ IncludeLine(p) \in Line /\ IncludeLine(p) \in Plain /\ IncludeLine(p)[1] = "include"
           /\ IncludeLine(p)[2] = p /\ Bare(IncludeLine(p)) = <<"include", p>>
           /\ <<IncludeLine(p)>> \in Text /\ <<IncludeLine(p)>> \in Seq(Plain)
  <1>1. "include" \in Word
    BY DEF Word
  <1>2. IncludeLine(p) \in Line
    BY <1>1 DEF IncludeLine, Line, Path
  <1>3. IncludeLine(p)[1] = "include" /\ IncludeLine(p)[2] = p /\ Bare(IncludeLine(p)) = <<"include", p>>
    BY DEF IncludeLine, Bare
  <1>4. IncludeLine(p) \in Plain
    BY <1>2, <1>3 DEF Plain
  <1> QED
    BY <1>2, <1>3, <1>4 DEF Text

\* What may come of a file: where it is put and that it fits.
Within(q, path, names) == q \in Path /\ (q = path \/ q[1] \in names \cup ModuleDirs)

LEMMA StrippedFits ==
    ASSUME NEW one, Fit(one), one.kind \in {"flags", "gir"}, NEW marks
    PROVE  Fit(Stripped(one, marks)) /\ Stripped(one, marks).kind = one.kind
  <1> DEFINE f == Stripped(one, marks)
  <1>1. IsFile(one) /\ one.data = <<one.data[1], one.data[2]>> /\ one.kind \in FileKinds
    BY DEF Fit
  <1>2. f.kind = one.kind /\ f.data = <<one.data[1], IF one.data[2] \in marks THEN "none" ELSE one.data[2]>> /\ IsFile(f)
    BY <1>1, StrippedIs
  <1> HIDE DEF f
  <1>3. f.data = <<f.data[1], f.data[2]>>
    BY <1>2
  <1>4. f.kind \notin {"header", "text", "dont_diff", "combine", "equivalent", "assumed"}
    BY <1>2
  <1>5. Fit(f)
    BY <1>1, <1>2, <1>3, <1>4 DEF Fit
  <1> QED
    BY <1>2, <1>5 DEF f

LEMMA FileFits ==
    ASSUME NEW path \in Path, NEW one, NEW two, Fit(one), Fit(two), NEW pair, NEW n1, NEW n2, NEW n,
           Joins(pair, n1, n2, n), NEW del, NEW r, r = MergeFile(path, one, two, pair, del), ~r.failed,
           NEW q \in DOMAIN r.files
    PROVE  Within(q, path, n) /\ Fit(r.files[q])
  <1> DEFINE k == one.kind
  <1>1. two.kind = k /\ IsFile(one) /\ IsFile(two) /\ k \in FileKinds
    BY MergeKinds DEF Fit
  <1>2. pair.name1 \in Word /\ pair.name2 \in Word /\ pair.name1 # pair.name2 /\ Formatted(pair.format)
        /\ pair.name1 \in n /\ pair.name2 \in n
    BY MarksAreWords DEF Joins
  <1>3. ASSUME NEW f, r.files = Single(path, f), Fit(f)
        PROVE  Within(q, path, n) /\ Fit(r.files[q])
    <2>1. q = path /\ r.files[q] = f
      BY <1>3, PutOne
    <2> QED
      BY <1>3, <2>1 DEF Within
  <1>4. CASE one.data = two.data
    <2>1. r.files = Single(path, one)
      BY <1>1, <1>4, MergeSame
    <2> QED
      BY <1>3, <2>1
  <1>5. ASSUME one.data # two.data PROVE Within(q, path, n) /\ Fit(r.files[q])
    <2>0. OfDiffering(r, path, one, two, pair, del)
      BY <1>1, <1>5, MergeDiffer
    <2> HIDE DEF k
    <2>1. CASE k \in {"link", "xz"}
      BY <2>0, <2>1, ResultIs DEF OfDiffering, k
    <2>2. CASE k \in {"binary", "archive"}
      <3> DEFINE f == [one EXCEPT !.data = @ \cup two.data]
      <3>1. r = MergeBinary(path, one, two)
        BY <2>0, <2>2 DEF OfDiffering, k
      <3>2. r = Writes(Single(path, f))
        BY <3>1, ResultIs DEF MergeBinary
      <3>3. f = [one EXCEPT !.data = one.data \cup two.data]
        OBVIOUS
      <3>4. f.kind = k /\ IsFile(f)
        <4> HIDE DEF f
        <4> QED
          BY <1>1, <3>3, Redone DEF k
      <3> HIDE DEF f
      <3>5. Fit(f)
        BY <1>1, <2>2, <3>4 DEF Fit
      <3> QED
        BY <1>3, <3>2, <3>5, ResultIs
    <2>3. CASE k = "dont_diff"
      <3> DEFINE p1 == <<pair.name1>> \o path
                 p2 == <<pair.name2>> \o path
                 d == Diff(<<IncludeLine(p1)>>, <<IncludeLine(p2)>>, pair.format)
      <3>1. r = Divide(path, one, two, pair)
        BY <2>0, <2>3 DEF OfDiffering, k
      <3>2. p1 \in Path /\ p2 \in Path /\ p1[1] = pair.name1 /\ p2[1] = pair.name2
        BY <1>2, PathNamed
      <3>a. DividedAs(r, path, p1, p2, one, two, pair.format)
        BY <1>1, <1>2, <3>1, Divided
      <3> HIDE DEF p1, p2
      <3>3. /\ DOMAIN r.files = {path, p1, p2} /\ r.files[p1] = one /\ r.files[p2] = two
            /\ r.files[path] = [kind |-> k, data |-> d]
        BY <3>a DEF DividedAs, k
      <3>4. d \in Text
        BY <1>2, <3>2, IncludeIsLine, DiffIsText
      <3> HIDE DEF d
      <3>5. Fit([kind |-> k, data |-> d])
        BY <1>1, <2>3, <3>4 DEF Fit, IsFile
      <3>6. Within(path, path, n) /\ Within(p1, path, n) /\ Within(p2, path, n)
        BY <1>2, <3>2 DEF Within
      <3> QED
        BY <3>3, <3>5, <3>6
    <2>4. CASE k \in {"combine", "header", "text"}
      <3> DEFINE e == IF k = "combine" THEN DiffFormatCombine ELSE pair.format
                 d == Diff(one.data, two.data, e)
                 f == [one EXCEPT !.data = d]
      <3>1. r = Writes(Single(path, f))
        BY <2>0, <2>4 DEF OfDiffering, k
      <3>2. Formatted(e)
        BY <1>2, CombineFormatted
      <3> HIDE DEF e
      <3>3. d \in Text
        BY <1>1, <2>4, <3>2, DiffIsText DEF Fit, k
      <3> HIDE DEF d
      <3>4. f.kind = k /\ f.data = d /\ IsFile(f)
        BY <1>1, Redone DEF k
      <3> HIDE DEF f
      <3>5. Fit(f)
        BY <1>1, <2>4, <3>3, <3>4 DEF Fit
      <3> QED
        BY <1>3, <3>1, <3>5, ResultIs
    <2>5. CASE k \in {"equivalent", "assumed", "packed"}
      <3>1. r = Puts(Single(path, one))
        BY <2>0, <2>5, ResultIs DEF OfDiffering, k
      <3> QED
        BY <1>3, <3>1, ResultIs
    <2>6. CASE k = "mod"
      <3> DEFINE p1 == <<"mods32">> \o path
                 p2 == <<"mods64">> \o path
      <3>1. r = DivideModules(path, one, two, pair)
        BY <2>0, <2>6 DEF OfDiffering, k
      <3>2. p1 \in Path /\ p2 \in Path /\ p1[1] = "mods32" /\ p2[1] = "mods64"
        <4>1. "mods32" \in Word /\ "mods64" \in Word
          BY DEF Word
        <4> QED
          BY <4>1, PathNamed
      <3>a. ModulesAs(r, p1, p2, one, two)
        BY <3>1, ModulesDivided
      <3> HIDE DEF p1, p2
      <3>3. /\ DOMAIN r.files = {p1, p2}
            /\ \/ r.files[p1] = one /\ r.files[p2] = two
               \/ r.files[p1] = two /\ r.files[p2] = one
        BY <3>a DEF ModulesAs
      <3>4. Within(p1, path, n) /\ Within(p2, path, n)
        BY <3>2 DEF Within, ModuleDirs
      <3> QED
        BY <3>3, <3>4
    <2>7. CASE k = "flags"
      <3> DEFINE f == Stripped(one, AnyMark)
                 g == Stripped(two, AnyMark)
      <3>1. r = MergeStripped(path, f, g)
        BY <2>0, <2>7 DEF OfDiffering, k
      <3>2. Fit(f)
        BY <2>7, StrippedFits DEF k
      <3> HIDE DEF f, g
      <3>3. r = Puts(Single(path, f))
        BY <3>1, ResultIs DEF MergeStripped
      <3> QED
        BY <1>3, <3>2, <3>3, ResultIs
    <2>8. CASE k = "gir"
      <3> DEFINE f == Stripped(one, {pair.name1})
                 g == Stripped(two, {pair.name2})
      <3>1. r = MergeStripped(path, f, g)
        BY <2>0, <2>8 DEF OfDiffering, k
      <3>2. Fit(f)
        BY <2>8, StrippedFits DEF k
      <3> HIDE DEF f, g
      <3>3. r = Puts(Single(path, f))
        BY <3>1, ResultIs DEF MergeStripped
      <3> QED
        BY <1>3, <3>2, <3>3, ResultIs
    <2>9. CASE k = "la"
      <3>1. r = Writes(<<>>)
        BY <2>0, <2>9, ResultIs DEF OfDiffering, k
      <3>2. DOMAIN <<>> = {}
        OBVIOUS
      <3> QED
        BY <3>1, <3>2, ResultIs
    <2> QED
      BY <1>1, <2>1, <2>2, <2>3, <2>4, <2>5, <2>6, <2>7, <2>8, <2>9 DEF FileKinds, k
  <1> QED
    BY <1>4, <1>5

LEMMA AtFits ==
    ASSUME NEW t1, NEW t2, NEW pair, NEW n1, NEW n2, NEW n, Joins(pair, n1, n2, n), Placed(t1, n1), Placed(t2, n2),
           NEW del, NEW p \in DOMAIN t1 \cup DOMAIN t2,
           NEW r, r = At(p, t1, t2, pair, del), ~r.failed, NEW q \in DOMAIN r.files
    PROVE  q \in Path /\ (q = Top \/ q[1] \in n \cup ModuleDirs) /\ Fit(r.files[q])
  <1>1. p \in Path /\ (p = Top \/ p[1] \in n \cup ModuleDirs)
    BY DEF Placed, Joins
  <1>2. CASE p \notin DOMAIN t1
    <2> DEFINE f == t2[p]
    <2>1. r = Puts(Single(p, f)) /\ Fit(f)
      BY <1>2 DEF At, Placed
    <2> HIDE DEF f
    <2>2. r.files = Single(p, f)
      BY <2>1, ResultIs
    <2>3. q = p /\ r.files[q] = f
      BY <2>2, PutOne
    <2> QED
      BY <1>1, <2>1, <2>3
  <1>3. CASE p \in DOMAIN t1 /\ p \notin DOMAIN t2
    <2> DEFINE f == t1[p]
    <2>1. r = Puts(Single(p, f)) /\ Fit(f)
      BY <1>3 DEF At, Placed
    <2> HIDE DEF f
    <2>2. r.files = Single(p, f)
      BY <2>1, ResultIs
    <2>3. q = p /\ r.files[q] = f
      BY <2>2, PutOne
    <2> QED
      BY <1>1, <2>1, <2>3
  <1>4. CASE p \in DOMAIN t1 /\ p \in DOMAIN t2
    <2>1. r = MergeFile(p, t1[p], t2[p], pair, del) /\ Fit(t1[p]) /\ Fit(t2[p])
      BY <1>4 DEF At, Placed
    <2>2. Within(q, p, n) /\ Fit(r.files[q])
      BY <1>1, <2>1, FileFits
    <2> QED
      BY <1>1, <2>2 DEF Within
  <1> QED
    BY <1>2, <1>3, <1>4

LEMMA MergedPlaced ==
    ASSUME NEW into, NEW t1, NEW t2, NEW pair, NEW n1, NEW n2, NEW n, Joins(pair, n1, n2, n),
           Placed(into, n), Placed(t1, n1), Placed(t2, n2), NEW del,
           NEW M, M = MergeTree(into, t1, t2, pair, del), ~M.failed
    PROVE  Placed(M.tree, n)
  <1> SUFFICES ASSUME NEW q \in DOMAIN M.tree
               PROVE  q \in Path /\ (q = Top \/ q[1] \in n \cup ModuleDirs) /\ Fit(M.tree[q])
    BY DEF Placed
  <1>1. CASE q \in DOMAIN into /\ M.tree[q] = into[q]
    BY <1>1 DEF Placed
  <1>2. ASSUME NEW p \in DOMAIN t1 \cup DOMAIN t2, q \in DOMAIN At(p, t1, t2, pair, del).files
        PROVE  q \in Path /\ (q = Top \/ q[1] \in n \cup ModuleDirs) /\ Fit(M.tree[q])
    <2>1. ~At(p, t1, t2, pair, del).failed /\ M.tree[q] = At(p, t1, t2, pair, del).files[q]
      BY <1>2, MergedFile
    <2> QED
      BY <1>2, <2>1, AtFits
  <1> QED
    BY <1>1, <1>2, MergedDomain

-----------------------------------------------------------------------------
(* What a merge leaves an architecture of a file that was at the top. *)

\* The format of a pair of trees tells an architecture which of the two is its own.
Speaks(pair, a, first) == \A more \in SUBSET {"X"} : Tells(pair.format, Holds(a) \cup more, first)

\* A file that serves an architecture as the one that was installed for it.
Good(a, file) ==
    /\ file.kind = input.files[a].kind
    /\ file.kind = "header" => \A more \in SUBSET {"X"} :
          ReadFrom(Unread, file.data, Holds(a) \cup more) = ReadFrom(Unread, input.files[a].data, Holds(a) \cup more)
    /\ file.kind \in {"combine", "text"} => BareLines(input.files[a].data) \subseteq BareLines(file.data)
    /\ file.kind \in {"binary", "archive"} => input.files[a].data \subseteq file.data
    /\ file.kind = "la" => file.data = input.files[a].data
    /\ file.kind \in {"link", "equivalent", "flags", "gir", "packed", "xz"} =>
          file.data[1] = input.files[a].data[1]

LEMMA GoodItself == ASSUME NEW a PROVE Good(a, input.files[a])
  BY DEF Good

\* Files of the same kind and contents serve alike.
LEMMA GoodAlike ==
    ASSUME NEW a, NEW one, NEW two, Good(a, one), two.kind = one.kind, two.data = one.data
    PROVE  Good(a, two)
  BY DEF Good

LEMMA StrippedGood ==
    ASSUME NEW a, NEW file, Good(a, file), Fit(file), file.kind \in {"flags", "gir"}, NEW marks,
           NEW f, f.kind = file.kind, f.data = Stripped(file, marks).data
    PROVE  Good(a, f)
  <1>1. IsFile(file) /\ file.data = <<file.data[1], file.data[2]>>
    BY DEF Fit
  <1>2. f.data = <<file.data[1], IF file.data[2] \in marks THEN "none" ELSE file.data[2]>>
    BY <1>1, StrippedIs
  <1>3. f.data[1] = file.data[1]
    BY <1>2
  <1> QED
    BY <1>3 DEF Good

LEMMA GoodMerged ==
    ASSUME NEW a \in DOMAIN input.files, Fit(input.files[a]),
           NEW one, NEW two, Fit(one), Fit(two), NEW first \in BOOLEAN, Good(a, Side(one, two, first)),
           input.files[a].kind \notin {"mod", "dont_diff"}, ~(input.files[a].kind = "la" /\ input.deleteLa),
           NEW pair, NEW n1, NEW n2, NEW n, Joins(pair, n1, n2, n), Speaks(pair, a, first),
           one.kind = "header" /\ two.kind = "header" => NothingCut(one.data, two.data, pair.format),
           NEW r, r = MergeFile(Top, one, two, pair, input.deleteLa), ~r.failed
    PROVE  \E f : r.files = Single(Top, f) /\ Good(a, f)
  <1> DEFINE k == one.kind
             mine == Side(one, two, first)
             own == input.files[a]
  <1>1. /\ two.kind = k /\ IsFile(one) /\ IsFile(two) /\ k \in FileKinds
        /\ mine \in {one, two} /\ Good(a, mine) /\ own.kind = k
        /\ k \notin {"mod", "dont_diff"} /\ ~(k = "la" /\ input.deleteLa)
    <2>1. two.kind = k
      BY MergeKinds
    <2>2. mine \in {one, two}
      BY DEF Side
    <2>3. own.kind = mine.kind
      BY DEF Good
    <2>4. IsFile(one) /\ IsFile(two) /\ k \in FileKinds
      BY DEF Fit
    <2> HIDE DEF mine
    <2> QED
      BY <2>1, <2>2, <2>3, <2>4 DEF mine
  <1>2. pair.format # DiffFormatCombine /\ Formatted(pair.format)
    BY DEF Joins
  <1>3. CASE one.data = two.data
    <2>1. r.files = Single(Top, one)
      BY <1>1, <1>3, MergeSame
    <2>2. one.kind = mine.kind /\ one.data = mine.data
      <3> HIDE DEF mine
      <3> QED
        BY <1>1, <1>3
    <2> HIDE DEF mine
    <2>3. Good(a, one)
      BY <1>1, <2>2, GoodAlike
    <2> QED
      BY <2>1, <2>3
  <1>4. ASSUME one.data # two.data PROVE \E f : r.files = Single(Top, f) /\ Good(a, f)
    <2>0. OfDiffering(r, Top, one, two, pair, input.deleteLa)
      BY <1>1, <1>4, MergeDiffer
    <2> HIDE DEF k, mine, own
    <2>1. CASE k \in {"link", "xz"}
      BY <2>0, <2>1, ResultIs DEF OfDiffering, k
    <2>2. CASE k \in {"binary", "archive"}
      <3> DEFINE f == [one EXCEPT !.data = @ \cup two.data]
      <3>1. r = MergeBinary(Top, one, two)
        BY <2>0, <2>2 DEF OfDiffering, k
      <3>2. r = Writes(Single(Top, f))
        BY <3>1, ResultIs DEF MergeBinary
      <3>3. f = [one EXCEPT !.data = one.data \cup two.data]
        OBVIOUS
      <3>4. f.kind = k /\ f.data = one.data \cup two.data
        <4> HIDE DEF f
        <4> QED
          BY <1>1, <3>3, Redone DEF k
      <3> HIDE DEF f
      <3>5. own.data \subseteq mine.data
        BY <1>1, <2>2 DEF Good, own
      <3>6. mine.data \subseteq f.data
        BY <1>1, <3>4
      <3>7. Good(a, f)
        BY <1>1, <2>2, <3>4, <3>5, <3>6 DEF Good, own
      <3>8. r.files = Single(Top, f)
        BY <3>2, ResultIs
      <3> QED
        BY <3>7, <3>8
    <2>3. CASE k \in {"combine", "text"}
      <3> DEFINE e == IF k = "combine" THEN DiffFormatCombine ELSE pair.format
                 d == Diff(one.data, two.data, e)
                 f == [one EXCEPT !.data = d]
      <3>1. r = Writes(Single(Top, f))
        BY <2>0, <2>3 DEF OfDiffering, k
      <3>2. one.data \in Text /\ two.data \in Text
        BY <1>1, <2>3 DEF Fit, k
      <3>0. Formatted(e)
        BY <1>2, CombineFormatted
      <3> HIDE DEF e
      <3>3. BareLines(one.data) \cup BareLines(two.data) \subseteq BareLines(d)
        BY <3>0, <3>2, DiffKeepsLines
      <3> HIDE DEF d
      <3>4. f.kind = k /\ f.data = d
        BY <1>1, Redone DEF k
      <3> HIDE DEF f
      <3>5. BareLines(own.data) \subseteq BareLines(mine.data)
        BY <1>1, <2>3 DEF Good, own
      <3>6. BareLines(mine.data) \subseteq BareLines(d)
        <4>1. mine.data = one.data \/ mine.data = two.data
          BY <1>1
        <4> QED
          BY <3>3, <4>1
      <3>7. Good(a, f)
        BY <1>1, <2>3, <3>4, <3>5, <3>6 DEF Good, own
      <3>8. r.files = Single(Top, f)
        BY <3>1, ResultIs
      <3> QED
        BY <3>7, <3>8
    <2>4. CASE k = "header"
      <3> DEFINE d == Diff(one.data, two.data, pair.format)
                 f == [one EXCEPT !.data = d]
      <3>1. r = Writes(Single(Top, f))
        BY <2>0, <2>4 DEF OfDiffering, k
      <3>2. one.data \in Text /\ two.data \in Text
        BY <1>1, <2>4 DEF Fit, k
      <3>3. NothingCut(one.data, two.data, pair.format)
        BY <1>1, <2>4 DEF k
      <3>4. ASSUME NEW more \in SUBSET {"X"}
            PROVE  ReadFrom(Unread, d, Holds(a) \cup more) = ReadFrom(Unread, mine.data, Holds(a) \cup more)
        <4> DEFINE conds == Holds(a) \cup more
        <4>1. Tells(pair.format, conds, first)
          BY DEF Speaks
        <4> HIDE DEF conds
        <4>2. ReadFrom(Unread, d, conds) = ReadFrom(Unread, Side(one.data, two.data, first), conds)
          BY <3>2, <3>3, <4>1, DiffReads
        <4>3. Side(one.data, two.data, first) = mine.data
          BY DEF Side, mine
        <4> QED
          BY <4>2, <4>3 DEF conds
      <3> HIDE DEF d
      <3>5. f.kind = k /\ f.data = d
        BY <1>1, Redone DEF k
      <3> HIDE DEF f
      <3>6. \A more \in SUBSET {"X"} :
              ReadFrom(Unread, mine.data, Holds(a) \cup more) = ReadFrom(Unread, own.data, Holds(a) \cup more)
        BY <1>1, <2>4 DEF Good, own
      <3>7. Good(a, f)
        BY <1>1, <2>4, <3>4, <3>5, <3>6 DEF Good, own
      <3>8. r.files = Single(Top, f)
        BY <3>1, ResultIs
      <3> QED
        BY <3>7, <3>8
    <2>5. CASE k \in {"equivalent", "assumed"}
      <3>1. r = Puts(Single(Top, one))
        BY <2>0, <2>5 DEF OfDiffering, k
      <3>2. k = "equivalent" => own.data[1] = one.data[1]
        BY <1>1 DEF Fit, own, k
      <3>3. Good(a, one)
        BY <1>1, <2>5, <3>2 DEF Good, own, k
      <3> QED
        BY <3>1, <3>3, ResultIs
    <2>6. CASE k = "packed"
      <3>1. r = Puts(Single(Top, one)) /\ one.data[1] = two.data[1]
        BY <2>0, <2>6, ResultIs DEF OfDiffering, k
      <3>2. own.data[1] = one.data[1]
        <4>1. mine.data[1] = own.data[1]
          BY <1>1, <2>6 DEF Good, own
        <4> QED
          BY <1>1, <3>1, <4>1
      <3>3. Good(a, one)
        BY <1>1, <2>6, <3>2 DEF Good, own, k
      <3> QED
        BY <3>1, <3>3, ResultIs
    <2>7. ASSUME k \in {"flags", "gir"}, NEW m1, NEW m2,
                 r = MergeStripped(Top, Stripped(one, m1), Stripped(two, m2))
          PROVE  \E f : r.files = Single(Top, f) /\ Good(a, f)
      <3> DEFINE f == Stripped(one, m1)
                 g == Stripped(two, m2)
      <3>1. f.kind = k
        BY <1>1, <2>7, StrippedFits DEF k
      <3> HIDE DEF f, g
      <3>2. r = Puts(Single(Top, f)) /\ f.data = g.data
        BY <2>7, ResultIs DEF MergeStripped, f, g
      <3>3. Good(a, f)
        <4>1. CASE mine = one
          BY <1>1, <2>7, <3>1, <4>1, StrippedGood DEF f, k
        <4>2. CASE mine = two
          <5>1. f.data = Stripped(two, m2).data /\ f.kind = two.kind /\ two.kind \in {"flags", "gir"} /\ Good(a, two)
            BY <1>1, <2>7, <3>1, <3>2, <4>2 DEF g
          <5> QED
            BY <5>1, StrippedGood
        <4> QED
          BY <1>1, <4>1, <4>2
      <3> QED
        BY <3>2, <3>3, ResultIs
    <2>8. CASE k = "flags"
      BY <2>0, <2>7, <2>8 DEF OfDiffering, k
    <2>9. CASE k = "gir"
      BY <2>0, <2>7, <2>9 DEF OfDiffering, k
    <2>10. CASE k = "la"
      BY <1>1, <2>0, <2>10, ResultIs DEF OfDiffering, k
    <2> QED
      BY <1>1, <2>1, <2>2, <2>3, <2>4, <2>5, <2>6, <2>8, <2>9, <2>10 DEF FileKinds
  <1> QED
    BY <1>3, <1>4

-----------------------------------------------------------------------------
(* The includes a division makes lead to the file of an architecture. *)

LEMMA IncludeReads ==
    ASSUME NEW p \in Path, NEW conds
    PROVE  Preprocess(<<IncludeLine(p)>>, conds) = <<Bare(IncludeLine(p))>>
  <1> DEFINE x == IncludeLine(p)
             y == Bare(x)
  <1>1. x \in Line /\ x[1] = "include" /\ x[1] \notin {"if", "else", "endif"}
    BY IncludeIsLine
  <1> HIDE DEF x
  <1>2. Unread \in Reader
    BY UnreadIsReader
  <1>3. Unread.stack = <<>> /\ Unread.out = <<>> /\ Unread.bad = FALSE /\ On(Unread)
    BY DEF Unread, On
  <1>4. Append(<<>>, y) = <<y>>
    OBVIOUS
  <1> DEFINE r == ReadFrom(Unread, <<x>>, conds)
  <1>5. r = ReadLine(Unread, x, conds)
    BY <1>1, <1>2, ReadOne
  <1>6. r = [stack |-> Unread.stack, out |-> IF On(Unread) THEN Append(Unread.out, y) ELSE Unread.out,
             bad |-> Unread.bad]
    BY <1>1, <1>2, <1>5, LineOther
  <1> HIDE DEF y
  <1>7. r = [stack |-> <<>>, out |-> <<y>>, bad |-> FALSE]
    BY <1>3, <1>4, <1>6
  <1> HIDE DEF r
  <1>8. r.stack = <<>> /\ r.out = <<y>> /\ ~r.bad
    BY <1>7
  <1> QED
    BY <1>8 DEF Preprocess, r, x, y

\* A file divided reads, for an architecture, as the include of the one of the two that has its own.
LEMMA DividedReads ==
    ASSUME NEW p1 \in Path, NEW p2 \in Path, NEW pair, Formatted(pair.format),
           NEW a, NEW first \in BOOLEAN, Speaks(pair, a, first)
    PROVE  Preprocess(Diff(<<IncludeLine(p1)>>, <<IncludeLine(p2)>>, pair.format), Holds(a))
              = <<Bare(IncludeLine(IF first THEN p1 ELSE p2))>>
  <1> DEFINE l1 == <<IncludeLine(p1)>>
             l2 == <<IncludeLine(p2)>>
             conds == Holds(a)
             l == <<Bare(IncludeLine(IF first THEN p1 ELSE p2))>>
  <1>1. l1 \in Text /\ l2 \in Text /\ l1 \in Seq(Plain) /\ l2 \in Seq(Plain)
    BY IncludeIsLine
  <1>2. /\ Preprocess(l1, conds) = <<Bare(IncludeLine(p1))>>
        /\ Preprocess(l2, conds) = <<Bare(IncludeLine(p2))>>
    BY IncludeReads
  <1>3. Tells(pair.format, conds, first)
    <2>1. {} \in SUBSET {"X"} /\ Holds(a) \cup {} = Holds(a)
      OBVIOUS
    <2> QED
      BY <2>1 DEF Speaks
  <1> HIDE DEF l1, l2, conds
  <1>4. ReadFrom(Unread, Diff(l1, l2, pair.format), conds) = ReadFrom(Unread, Side(l1, l2, first), conds)
    BY <1>1, <1>3, PlainUncut, DiffReads
  <1>5. Preprocess(Diff(l1, l2, pair.format), conds) = Preprocess(Side(l1, l2, first), conds)
    BY <1>4 DEF Preprocess
  <1>6. Preprocess(Side(l1, l2, first), conds) = l
    BY <1>2 DEF Side
  <1> HIDE DEF l
  <1>7. Preprocess(Diff(l1, l2, pair.format), conds) = l
    BY <1>5, <1>6
  <1> QED
    BY <1>7 DEF l1, l2, conds, l

\* The files that are, or by includes come to, the one of an architecture.
Apart(t, p) == (p = Top \/ p[1] \in Marks) /\ p \in DOMAIN t /\ t[p].kind = "dont_diff"
Homes(t, a) == {p \in DOMAIN t : Apart(t, p) /\ t[p].data = input.files[a].data}
Before(t, a, S) ==
    S \cup {p \in DOMAIN t : Apart(t, p) /\ \E q \in S \ {Top} : Preprocess(t[p].data, Holds(a)) = <<Bare(IncludeLine(q))>>}
Near1(t, a) == Before(t, a, Homes(t, a))
Near2(t, a) == Before(t, a, Near1(t, a))
Near3(t, a) == Before(t, a, Near2(t, a))

\* What is in S of one tree is in U of another, and so would be a copy of the top.
Carried(t, S, t2, U) ==
    /\ S \ {Top} \subseteq U
    /\ Top \in S => \A q \in DOMAIN t2 : Apart(t2, q) /\ t2[q].data = t[Top].data => q \in U

\* Whatever is apart in t is in t2, where the top may have been moved.
Keeps(t, t2) ==
    \A p \in DOMAIN t : Apart(t, p) /\ p # Top => p \in DOMAIN t2 /\ t2[p] = t[p]

LEMMA HomesCarried ==
    ASSUME NEW t, NEW t2, NEW a, Keeps(t, t2)
    PROVE  Carried(t, Homes(t, a), t2, Homes(t2, a))
  <1>1. ASSUME NEW p \in Homes(t, a), p # Top PROVE p \in Homes(t2, a)
    BY <1>1 DEF Homes, Keeps, Apart
  <1>2. ASSUME Top \in Homes(t, a), NEW q \in DOMAIN t2, Apart(t2, q), t2[q].data = t[Top].data
        PROVE  q \in Homes(t2, a)
    BY <1>2 DEF Homes
  <1> QED
    BY <1>1, <1>2 DEF Carried

LEMMA BeforeCarried ==
    ASSUME NEW t, NEW t2, NEW a, Keeps(t, t2), NEW S, NEW U, Carried(t, S, t2, U)
    PROVE  Carried(t, Before(t, a, S), t2, Before(t2, a, U))
  <1>0. S \ {Top} \subseteq U \ {Top}
    BY DEF Carried
  <1>1. ASSUME NEW p \in Before(t, a, S), p # Top PROVE p \in Before(t2, a, U)
    <2>1. CASE p \in S
      BY <1>1, <2>1 DEF Carried, Before
    <2>2. ASSUME p \notin S PROVE p \in Before(t2, a, U)
      <3>1. PICK q \in S \ {Top} : Preprocess(t[p].data, Holds(a)) = <<Bare(IncludeLine(q))>>
        BY <2>2 DEF Before
      <3>2. p \in DOMAIN t /\ Apart(t, p)
        BY <2>2 DEF Before
      <3>3. p \in DOMAIN t2 /\ t2[p] = t[p] /\ Apart(t2, p)
        BY <1>1, <3>2 DEF Keeps, Apart
      <3>4. q \in U \ {Top}
        BY <1>0
      <3> QED
        BY <3>1, <3>3, <3>4 DEF Before
    <2> QED
      BY <2>1, <2>2
  <1>2. ASSUME Top \in Before(t, a, S), NEW x \in DOMAIN t2, Apart(t2, x), t2[x].data = t[Top].data
        PROVE  x \in Before(t2, a, U)
    <2>1. CASE Top \in S
      BY <1>2, <2>1 DEF Carried, Before
    <2>2. ASSUME Top \notin S PROVE x \in Before(t2, a, U)
      <3>1. PICK q \in S \ {Top} : Preprocess(t[Top].data, Holds(a)) = <<Bare(IncludeLine(q))>>
        BY <1>2, <2>2 DEF Before
      <3>2. q \in U \ {Top}
        BY <1>0
      <3>3. Preprocess(t2[x].data, Holds(a)) = <<Bare(IncludeLine(q))>>
        BY <1>2, <3>1
      <3> QED
        BY <1>2, <3>2, <3>3 DEF Before
    <2> QED
      BY <2>1, <2>2
  <1> QED
    BY <1>1, <1>2 DEF Carried

\* The file at the top after a merge: it is the one there was, or it includes a copy of it.
LEMMA TopAfter ==
    ASSUME NEW t, NEW t2, NEW a, NEW S, NEW U, Carried(t, S, t2, U), Top \in S,
           NEW q \in DOMAIN t2, Apart(t2, q), t2[q].data = t[Top].data,
           Top \in DOMAIN t2, Apart(t2, Top),
           q = Top \/ Preprocess(t2[Top].data, Holds(a)) = <<Bare(IncludeLine(q))>>
    PROVE  Top \in Before(t2, a, U)
  <1>1. q \in U
    BY DEF Carried
  <1>2. CASE q = Top
    BY <1>1, <1>2 DEF Before
  <1>3. CASE q # Top
    BY <1>1, <1>3 DEF Before
  <1> QED
    BY <1>2, <1>3

-----------------------------------------------------------------------------
(* A merge keeps what is apart. *)

LEMMA ApartKept ==
    ASSUME NEW into, NEW t1, NEW t2, NEW pair, NEW n1, NEW n2, NEW n, Joins(pair, n1, n2, n),
           Placed(t1, n1), Placed(t2, n2), NEW del,
           NEW M, M = MergeTree(into, t1, t2, pair, del), ~M.failed, NEW first \in BOOLEAN
    PROVE  Keeps(Side(t1, t2, first), M.tree)
  <1> DEFINE t == Side(t1, t2, first)
  <1> SUFFICES ASSUME NEW p \in DOMAIN t, Apart(t, p), p # Top
               PROVE  p \in DOMAIN M.tree /\ M.tree[p] = t[p]
    BY DEF Keeps
  <1>1. p[1] \in Marks /\ p[1] \notin ModuleDirs
    BY MarksAreWords DEF Apart
  <1>2. n1 \cap n2 = {}
    BY DEF Joins
  <1>3. CASE first
    <2>1. t = t1
      BY <1>3 DEF Side
    <2>2. p \in DOMAIN t1 /\ p \notin DOMAIN t2
      BY <1>1, <1>2, <2>1 DEF Placed
    <2>3. At(p, t1, t2, pair, del) = Puts(Single(p, t1[p]))
      BY <2>2 DEF At
    <2> DEFINE r == At(p, t1, t2, pair, del)
    <2> HIDE DEF t
    <2>4. DOMAIN r.files = {p} /\ r.files[p] = t1[p]
      <3> DEFINE f == t1[p]
      <3>1. r.files = Single(p, f)
        BY <2>3, ResultIs
      <3> HIDE DEF r, f
      <3>2. DOMAIN r.files = {p} /\ r.files[p] = f
        BY <3>1, PutOne
      <3> QED
        BY <3>2 DEF f
    <2>5. p \in DOMAIN M.tree /\ M.tree[p] = r.files[p]
      BY <2>2, <2>4, MergedFile
    <2> QED
      BY <2>1, <2>4, <2>5
  <1>4. CASE ~first
    <2>1. t = t2
      BY <1>4 DEF Side
    <2>2. p \in DOMAIN t2 /\ p \notin DOMAIN t1
      BY <1>1, <1>2, <2>1 DEF Placed
    <2>3. At(p, t1, t2, pair, del) = Puts(Single(p, t2[p]))
      BY <2>2 DEF At
    <2> DEFINE r == At(p, t1, t2, pair, del)
    <2> HIDE DEF t
    <2>4. DOMAIN r.files = {p} /\ r.files[p] = t2[p]
      <3> DEFINE f == t2[p]
      <3>1. r.files = Single(p, f)
        BY <2>3, ResultIs
      <3> HIDE DEF r, f
      <3>2. DOMAIN r.files = {p} /\ r.files[p] = f
        BY <3>1, PutOne
      <3> QED
        BY <3>2 DEF f
    <2>5. p \in DOMAIN M.tree /\ M.tree[p] = r.files[p]
      BY <2>2, <2>4, MergedFile
    <2> QED
      BY <2>1, <2>4, <2>5
  <1> QED
    BY <1>3, <1>4

-----------------------------------------------------------------------------
(* A merge serves whom one of its trees served. *)

\* S are the paths from where the includes lead to the architecture's own file.
Serves(t, a, S) ==
    IF input.files[a].kind = "mod"
      THEN \E p \in DOMAIN t : t[p].kind = "mod" /\ t[p].data = input.files[a].data
    ELSE IF input.files[a].kind = "dont_diff" THEN Top \in S
    ELSE (input.files[a].kind = "la" /\ input.deleteLa) \/ (Top \in DOMAIN t /\ Good(a, t[Top]))

\* A merge of t1 and t2 that did not fail and cut nothing, and one of the two trees.
Merging(M, into, t1, t2, pair, n1, n2, n) ==
    /\ Joins(pair, n1, n2, n) /\ Placed(t1, n1) /\ Placed(t2, n2)
    /\ M = MergeTree(into, t1, t2, pair, input.deleteLa) /\ ~M.failed

\* Either the path is only in the tree, or it is in both.
LEMMA InOneOrBoth ==
    ASSUME NEW M, NEW into, NEW t1, NEW t2, NEW pair, NEW n1, NEW n2, NEW n,
           Merging(M, into, t1, t2, pair, n1, n2, n), NEW first \in BOOLEAN,
           NEW p \in DOMAIN Side(t1, t2, first)
    PROVE  \/ p \in DOMAIN M.tree /\ M.tree[p] = Side(t1, t2, first)[p]
           \/ /\ p \in DOMAIN t1 \cap DOMAIN t2
              /\ \E r : /\ r = MergeFile(p, t1[p], t2[p], pair, input.deleteLa) /\ ~r.failed
                        /\ \A q \in DOMAIN r.files : q \in DOMAIN M.tree /\ M.tree[q] = r.files[q]
              /\ Side(t1, t2, first)[p] = Side(t1[p], t2[p], first)
              /\ Fit(t1[p]) /\ Fit(t2[p]) /\ p \in Path
  <1> DEFINE r == At(p, t1, t2, pair, input.deleteLa)
             t == Side(t1, t2, first)
  <1>1. p \in DOMAIN t1 \cup DOMAIN t2
    BY DEF Side
  <1>2. ~r.failed /\ \A q \in DOMAIN r.files : q \in DOMAIN M.tree /\ M.tree[q] = r.files[q]
    BY <1>1, MergedFile DEF Merging
  <1>3. CASE p \in DOMAIN t1 \cap DOMAIN t2
    <2>1. r = MergeFile(p, t1[p], t2[p], pair, input.deleteLa)
      BY <1>3 DEF At
    <2>2. Fit(t1[p]) /\ Fit(t2[p]) /\ p \in Path
      BY <1>3 DEF Merging, Placed
    <2>3. t[p] = Side(t1[p], t2[p], first)
      BY DEF Side
    <2> HIDE DEF r
    <2> QED
      BY <1>2, <1>3, <2>1, <2>2, <2>3
  <1>4. CASE ~(p \in DOMAIN t1 \cap DOMAIN t2)
    <2> DEFINE f == t[p]
    <2>1. r = Puts(Single(p, f))
      <3>1. CASE first
        <4>1. t = t1
          BY <3>1 DEF Side
        <4> QED
          BY <1>4, <4>1 DEF At
      <3>2. CASE ~first
        <4>1. t = t2
          BY <3>2 DEF Side
        <4> QED
          BY <1>4, <4>1 DEF At
      <3> QED
        BY <3>1, <3>2
    <2> HIDE DEF f, r
    <2>2. r.files = Single(p, f)
      BY <2>1, ResultIs
    <2>3. DOMAIN r.files = {p} /\ r.files[p] = f
      BY <2>2, PutOne
    <2>4. p \in DOMAIN M.tree /\ M.tree[p] = f
      BY <1>2, <2>3
    <2> QED
      BY <2>4 DEF f
  <1> QED
    BY <1>3, <1>4

LEMMA ApartMerged ==
    ASSUME NEW M, NEW into, NEW t1, NEW t2, NEW pair, NEW n1, NEW n2, NEW n,
           Merging(M, into, t1, t2, pair, n1, n2, n), NEW first \in BOOLEAN,
           NEW a, Speaks(pair, a, first), NEW t, t = Side(t1, t2, first),
           NEW S, NEW U, Carried(t, S, M.tree, U), Top \in S, Top \in DOMAIN t, Apart(t, Top)
    PROVE  Top \in Before(M.tree, a, U)
  <1>1. t[Top].kind = "dont_diff"
    BY DEF Apart
  <1>2. CASE Top \in DOMAIN M.tree /\ M.tree[Top] = t[Top]
    <2>1. Apart(M.tree, Top) /\ M.tree[Top].data = t[Top].data
      BY <1>1, <1>2 DEF Apart
    <2> QED
      BY <1>2, <2>1, TopAfter
  <1>3. ASSUME Top \in DOMAIN t1 \cap DOMAIN t2,
               NEW r, r = MergeFile(Top, t1[Top], t2[Top], pair, input.deleteLa), ~r.failed,
               \A q \in DOMAIN r.files : q \in DOMAIN M.tree /\ M.tree[q] = r.files[q],
               t[Top] = Side(t1[Top], t2[Top], first), Fit(t1[Top]), Fit(t2[Top])
        PROVE  Top \in Before(M.tree, a, U)
    <2> DEFINE one == t1[Top]
               two == t2[Top]
               mine == t[Top]
               del == input.deleteLa
    <2>1. /\ r = MergeFile(Top, one, two, pair, del) /\ ~r.failed /\ mine = Side(one, two, first)
          /\ IsFile(one) /\ IsFile(two) /\ mine.kind = "dont_diff"
      BY <1>1, <1>3 DEF Fit
    <2> HIDE DEF one, two, mine, del
    <2>2. one.kind = two.kind
      BY <2>1, MergeKinds
    <2>3. mine = IF first THEN one ELSE two
      BY <2>1 DEF Side
    <2>4. one.kind = "dont_diff"
      BY <2>1, <2>2, <2>3
    <2>5. CASE one.data = two.data
      <3>1. r.files = Single(Top, one)
        BY <2>1, <2>2, <2>5, MergeSame
      <3>2. DOMAIN r.files = {Top} /\ r.files[Top] = one
        BY <3>1, PutOne
      <3>3. Top \in DOMAIN M.tree /\ M.tree[Top] = one
        BY <1>3, <3>2
      <3>4. Apart(M.tree, Top) /\ M.tree[Top].data = mine.data
        BY <2>3, <2>4, <2>5, <3>3 DEF Apart
      <3> QED
        BY <3>3, <3>4, TopAfter DEF mine
    <2>6. CASE one.data # two.data
      <3> DEFINE p1 == <<pair.name1>> \o Top
                 p2 == <<pair.name2>> \o Top
                 q == IF first THEN p1 ELSE p2
      <3>0. /\ pair.name1 \in Word /\ pair.name2 \in Word /\ pair.name1 # pair.name2
            /\ pair.name1 \in Marks /\ pair.name2 \in Marks /\ Formatted(pair.format)
        BY MarksAreWords DEF Merging, Joins
      <3>1. OfDiffering(r, Top, one, two, pair, del)
        BY <2>1, <2>2, <2>6, MergeDiffer
      <3>2. r = Divide(Top, one, two, pair)
        BY <2>4, <3>1 DEF OfDiffering
      <3>3. DividedAs(r, Top, p1, p2, one, two, pair.format)
        BY <2>1, <3>0, <3>2, TopIsPath, Divided
      <3>4. p1 \in Path /\ p2 \in Path /\ p1[1] = pair.name1 /\ p2[1] = pair.name2
        BY <3>0, TopIsPath, PathNamed
      <3> HIDE DEF p1, p2
      <3>5. /\ DOMAIN r.files = {Top, p1, p2} /\ r.files[p1] = one /\ r.files[p2] = two
            /\ r.files[Top] = [kind |-> "dont_diff",
                               data |-> Diff(<<IncludeLine(p1)>>, <<IncludeLine(p2)>>, pair.format)]
        BY <2>4, <3>3 DEF DividedAs
      <3>6. q \in DOMAIN r.files /\ r.files[q] = mine /\ q[1] \in Marks
        BY <2>3, <3>0, <3>4, <3>5
      <3>7. q \in DOMAIN M.tree /\ M.tree[q] = mine /\ Top \in DOMAIN M.tree /\ M.tree[Top] = r.files[Top]
        BY <1>3, <3>5, <3>6
      <3> DEFINE d == Diff(<<IncludeLine(p1)>>, <<IncludeLine(p2)>>, pair.format)
      <3>8. Preprocess(d, Holds(a)) = <<Bare(IncludeLine(q))>>
        BY <3>0, <3>4, DividedReads
      <3> HIDE DEF d, q
      <3>9. M.tree[Top].kind = "dont_diff" /\ M.tree[Top].data = d
        BY <3>5, <3>7 DEF d
      <3>10. Apart(M.tree, Top) /\ Apart(M.tree, q) /\ M.tree[q].data = mine.data
        BY <2>1, <3>6, <3>7, <3>9 DEF Apart
      <3>11. Preprocess(M.tree[Top].data, Holds(a)) = <<Bare(IncludeLine(q))>>
        BY <3>8, <3>9
      <3> QED
        BY <3>7, <3>10, <3>11, TopAfter DEF mine
    <2> QED
      BY <2>5, <2>6
  <1> QED
    BY <1>2, <1>3, InOneOrBoth

LEMMA ModuleMerged ==
    ASSUME NEW M, NEW into, NEW t1, NEW t2, NEW pair, NEW n1, NEW n2, NEW n,
           Merging(M, into, t1, t2, pair, n1, n2, n), NEW first \in BOOLEAN,
           NEW t, t = Side(t1, t2, first), NEW p \in DOMAIN t, t[p].kind = "mod"
    PROVE  \E q \in DOMAIN M.tree : M.tree[q].kind = "mod" /\ M.tree[q].data = t[p].data
  <1>1. CASE p \in DOMAIN M.tree /\ M.tree[p] = t[p]
    BY <1>1
  <1>2. ASSUME NEW r, r = MergeFile(p, t1[p], t2[p], pair, input.deleteLa), ~r.failed,
               \A q \in DOMAIN r.files : q \in DOMAIN M.tree /\ M.tree[q] = r.files[q],
               t[p] = Side(t1[p], t2[p], first), Fit(t1[p]), Fit(t2[p]), p \in Path
        PROVE  \E q \in DOMAIN M.tree : M.tree[q].kind = "mod" /\ M.tree[q].data = t[p].data
    <2> DEFINE one == t1[p]
               two == t2[p]
               mine == t[p]
               del == input.deleteLa
    <2>1. /\ r = MergeFile(p, one, two, pair, del) /\ ~r.failed /\ mine = Side(one, two, first)
          /\ mine.kind = "mod"
      BY <1>2
    <2> HIDE DEF one, two, mine, del
    <2>2. one.kind = two.kind
      BY <2>1, MergeKinds
    <2>3. mine = IF first THEN one ELSE two
      BY <2>1 DEF Side
    <2>4. one.kind = "mod" /\ two.kind = "mod"
      BY <2>1, <2>2, <2>3
    <2>5. \E q \in DOMAIN r.files : r.files[q].kind = "mod" /\ r.files[q].data = mine.data
      <3>1. CASE one.data = two.data
        <4>1. r.files = Single(p, one)
          BY <2>1, <2>2, <3>1, MergeSame
        <4>2. DOMAIN r.files = {p} /\ r.files[p] = one
          BY <4>1, PutOne
        <4>3. mine.data = one.data
          BY <2>3, <3>1
        <4> QED
          BY <2>4, <4>2, <4>3
      <3>2. CASE one.data # two.data
        <4> DEFINE p1 == <<"mods32">> \o p
                   p2 == <<"mods64">> \o p
        <4>1. OfDiffering(r, p, one, two, pair, del)
          BY <2>1, <2>2, <3>2, MergeDiffer
        <4>2. r = DivideModules(p, one, two, pair)
          BY <2>4, <4>1 DEF OfDiffering
        <4>3. ModulesAs(r, p1, p2, one, two)
          BY <1>2, <4>2, ModulesDivided
        <4> HIDE DEF p1, p2
        <4>4. /\ DOMAIN r.files = {p1, p2}
              /\ \/ r.files[p1] = one /\ r.files[p2] = two
                 \/ r.files[p1] = two /\ r.files[p2] = one
          BY <4>3 DEF ModulesAs
        <4>5. \E q \in DOMAIN r.files : r.files[q] = mine
          BY <2>3, <4>4
        <4> QED
          BY <2>1, <4>5
      <3> QED
        BY <3>1, <3>2
    <2>6. PICK q \in DOMAIN r.files : r.files[q].kind = "mod" /\ r.files[q].data = mine.data
      BY <2>5
    <2>7. q \in DOMAIN M.tree /\ M.tree[q] = r.files[q]
      BY <1>2
    <2> QED
      BY <2>6, <2>7 DEF mine
  <1> QED
    BY <1>1, <1>2, InOneOrBoth

LEMMA TopMerged ==
    ASSUME NEW M, NEW into, NEW t1, NEW t2, NEW pair, NEW n1, NEW n2, NEW n,
           Merging(M, into, t1, t2, pair, n1, n2, n), ~M.cut, NEW first \in BOOLEAN,
           NEW a \in DOMAIN input.files, Fit(input.files[a]), Speaks(pair, a, first),
           input.files[a].kind \notin {"mod", "dont_diff"}, ~(input.files[a].kind = "la" /\ input.deleteLa),
           NEW t, t = Side(t1, t2, first), Top \in DOMAIN t, Good(a, t[Top])
    PROVE  Top \in DOMAIN M.tree /\ Good(a, M.tree[Top])
  <1>1. CASE Top \in DOMAIN M.tree /\ M.tree[Top] = t[Top]
    BY <1>1
  <1>2. ASSUME Top \in DOMAIN t1 \cap DOMAIN t2,
               NEW r, r = MergeFile(Top, t1[Top], t2[Top], pair, input.deleteLa), ~r.failed,
               \A q \in DOMAIN r.files : q \in DOMAIN M.tree /\ M.tree[q] = r.files[q],
               t[Top] = Side(t1[Top], t2[Top], first), Fit(t1[Top]), Fit(t2[Top])
        PROVE  Top \in DOMAIN M.tree /\ Good(a, M.tree[Top])
    <2> DEFINE one == t1[Top]
               two == t2[Top]
    <2>1. one.kind = "header" /\ two.kind = "header" => NothingCut(one.data, two.data, pair.format)
      BY <1>2, MergedUncut DEF Merging
    <2>2. /\ r = MergeFile(Top, one, two, pair, input.deleteLa) /\ Good(a, Side(one, two, first))
          /\ Fit(one) /\ Fit(two) /\ Joins(pair, n1, n2, n)
      BY <1>2 DEF Merging
    <2> HIDE DEF one, two
    <2>3. PICK f : r.files = Single(Top, f) /\ Good(a, f)
      BY <1>2, <2>1, <2>2, GoodMerged
    <2>4. DOMAIN r.files = {Top} /\ r.files[Top] = f
      BY <2>3, PutOne
    <2> QED
      BY <1>2, <2>3, <2>4
  <1> QED
    BY <1>1, <1>2, InOneOrBoth

LEMMA ServesMerged ==
    ASSUME NEW M, NEW into, NEW t1, NEW t2, NEW pair, NEW n1, NEW n2, NEW n,
           Merging(M, into, t1, t2, pair, n1, n2, n), ~M.cut, NEW first \in BOOLEAN,
           NEW a \in DOMAIN input.files, Fit(input.files[a]), Speaks(pair, a, first),
           NEW t, t = Side(t1, t2, first), NEW S, NEW U, Serves(t, a, S), Carried(t, S, M.tree, U),
           S \subseteq {p \in DOMAIN t : Apart(t, p)}
    PROVE  Serves(M.tree, a, Before(M.tree, a, U))
  <1>1. CASE input.files[a].kind = "mod"
    <2>1. PICK p \in DOMAIN t : t[p].kind = "mod" /\ t[p].data = input.files[a].data
      BY <1>1 DEF Serves
    <2>2. \E q \in DOMAIN M.tree : M.tree[q].kind = "mod" /\ M.tree[q].data = t[p].data
      BY <2>1, ModuleMerged
    <2> QED
      BY <1>1, <2>1, <2>2 DEF Serves
  <1>2. CASE input.files[a].kind = "dont_diff"
    <2>1. Top \in S
      BY <1>2 DEF Serves
    <2>2. Top \in DOMAIN t /\ Apart(t, Top)
      BY <2>1
    <2>3. Top \in Before(M.tree, a, U)
      BY <2>1, <2>2, ApartMerged
    <2> QED
      BY <1>2, <2>3 DEF Serves
  <1>3. CASE input.files[a].kind = "la" /\ input.deleteLa
    BY <1>3 DEF Serves
  <1>4. CASE input.files[a].kind \notin {"mod", "dont_diff"} /\ ~(input.files[a].kind = "la" /\ input.deleteLa)
    <2>1. Top \in DOMAIN t /\ Good(a, t[Top])
      BY <1>4 DEF Serves
    <2>2. Top \in DOMAIN M.tree /\ Good(a, M.tree[Top])
      BY <1>4, <2>1, TopMerged
    <2> QED
      BY <1>4, <2>2 DEF Serves
  <1> QED
    BY <1>1, <1>2, <1>3, <1>4

-----------------------------------------------------------------------------
(* The files of a port, and what is found of them at the end. *)

LEMMA MoreOf == ASSUME NEW A, NEW B, A \subseteq B PROVE Seq(A) \subseteq Seq(B)
  <1> SUFFICES ASSUME NEW x \in Seq(A) PROVE x \in Seq(B)
    OBVIOUS
  <1>1. Len(x) \in Nat /\ x \in [1 .. Len(x) -> A]
    OBVIOUS
  <1>2. x \in [1 .. Len(x) -> B]
    BY <1>1
  <1> QED
    BY <1>1, <1>2

LEMMA LinesAreText == ASSUME NEW x \in Seq(FileLine) PROVE x \in Text
  <1>1. Seq(STRING) \subseteq Seq(Word)
    <2>1. STRING \subseteq Word
      BY DEF Word
    <2> QED
      BY <2>1, MoreOf
  <1>2. STRING \subseteq Word /\ STRING \cup Seq(STRING) \subseteq Word \cup Seq(Word)
    BY <1>1 DEF Word
  <1>3. FileLine \subseteq Line
    BY <1>2 DEF FileLine, Line
  <1> QED
    BY <1>3, MoreOf DEF Text

LEMMA LinesIn ==
    ASSUME NEW x \in Text, NEW S, \A m \in 1 .. Len(x) : x[m] \in S
    PROVE  x \in Seq(S)
  <1>1. Len(x) \in Nat /\ x = [m \in 1 .. Len(x) |-> x[m]]
    BY DEF Text
  <1>2. x \in [1 .. Len(x) -> S]
    BY <1>1
  <1> QED
    BY <1>1, <1>2

Included == {line \in Line : line[1] = "include"}

LEMMA OwnFits ==
    ASSUME input \in Inputs, NEW a \in DOMAIN input.files
    PROVE  /\ Fit(input.files[a]) /\ a \in Architectures
           /\ input.files[a].kind = "dont_diff" => input.files[a].data \in Seq(Line \ Included)
  <1> DEFINE file == input.files[a]
  <1>1. /\ DOMAIN input.files \subseteq Architectures
        /\ file.kind \in FileKinds /\ file = [kind |-> file.kind, data |-> file.data]
        /\ file.kind \in {"header", "text", "dont_diff", "combine"} =>
              file.data \in Seq(FileLine) /\ \A m \in 1 .. Len(file.data) : file.data[m][1] # "include"
        /\ file.kind = "equivalent" =>
              \A b \in DOMAIN input.files : input.files[b].kind = file.kind => input.files[b].data[1] = file.data[1]
        /\ file.kind \in {"flags", "gir"} =>
              file.data \in STRING \X (IF file.kind = "gir" THEN {"none", a} ELSE AnyMark \cup {"none"})
    BY FilesAssumption
  <1> HIDE DEF file
  <1>2. file.kind \in {"header", "text", "dont_diff", "combine"} => file.data \in Text /\ file.data \in Seq(Line \ Included)
    <2> DEFINE x == file.data
    <2> SUFFICES ASSUME file.kind \in {"header", "text", "dont_diff", "combine"}
                 PROVE  x \in Text /\ x \in Seq(Line \ Included)
      OBVIOUS
    <2>1. x \in Seq(FileLine) /\ \A m \in 1 .. Len(x) : x[m][1] # "include"
      BY <1>1
    <2> HIDE DEF x
    <2>2. x \in Text
      BY <2>1, LinesAreText
    <2>3. \A m \in 1 .. Len(x) : x[m] \in Line
      BY <2>2, ElementOfSeq DEF Text
    <2>4. \A m \in 1 .. Len(x) : x[m] \in Line \ Included
      BY <2>1, <2>3 DEF Included
    <2> DEFINE S == Line \ Included
    <2> HIDE DEF S
    <2>5. x \in Seq(S)
      BY <2>2, <2>4, LinesIn DEF S
    <2> QED
      BY <2>2, <2>5 DEF S
  <1>4. file.kind \in {"flags", "gir"} => file.data = <<file.data[1], file.data[2]>>
    BY <1>1
  <1>5. \E b \in DOMAIN input.files : file = input.files[b]
    BY DEF file
  <1>6. Fit(file)
    BY <1>1, <1>2, <1>4, <1>5 DEF Fit, IsFile
  <1> QED
    BY <1>1, <1>2, <1>6 DEF file

\* The file an include leads to, and where no include is left.
Target1(t, a, p) ==
    LET lines == Preprocess(t[p].data, Holds(a))
    IN  IF Len(lines) = 1 /\ lines[1][1] = "include" THEN lines[1][2] ELSE p

LEMMA FollowedIs ==
    ASSUME NEW a, NEW p
    PROVE  Followed(a, p) = Target1(trees["destroot"], a,
                               Target1(trees["destroot"], a, Target1(trees["destroot"], a, p)))
  BY DEF Followed, Target1

LEMMA HomeStays ==
    ASSUME input \in Inputs, NEW a \in DOMAIN input.files, input.files[a].kind = "dont_diff",
           NEW t, NEW p \in Homes(t, a)
    PROVE  Target1(t, a, p) = p
  <1> DEFINE own == input.files[a].data
             conds == Holds(a)
             w == ReadFrom(Unread, own, conds)
             S == Line \ Included
             B == {Bare(x) : x \in S}
  <1>1. own \in Seq(S) /\ S \subseteq Line
    BY OwnFits
  <1> HIDE DEF own, conds
  <1>2. w.out \in Seq(B)
    <2> HIDE DEF S
    <2> QED
      BY <1>1, ReadOut
  <1> HIDE DEF w
  <1>3. t[p].data = own
    BY DEF Homes, own
  <1> DEFINE lines == Preprocess(own, conds)
  <1>4. ~(Len(lines) = 1 /\ lines[1][1] = "include")
    <2>1. CASE lines = <<<<"bad", "">>>>
      <3> DEFINE e == <<"bad", "">>
      <3>2. e[1] = "bad"
        OBVIOUS
      <3> HIDE DEF e
      <3>3. lines = <<e>>
        BY <2>1 DEF e
      <3>4. lines[1] = e
        BY <3>3
      <3>1. lines[1][1] = "bad"
        BY <3>2, <3>4
      <3> QED
        BY <3>1
    <2>2. CASE lines = w.out
      <3>1. Len(w.out) = 1 => w.out[1] \in B
        BY <1>2, ElementOfSeq
      <3>2. \A y \in B : y[1] # "include"
        <4>1. \A x \in S : x[1] # "include"
          BY DEF Included
        <4> HIDE DEF S
        <4>2. \A x \in S : Bare(x)[1] = x[1]
          BY DEF Bare
        <4> QED
          BY <4>1, <4>2
      <3> HIDE DEF B
      <3> QED
        BY <2>2, <3>1, <3>2
    <2>3. lines = <<<<"bad", "">>>> \/ lines = w.out
      BY DEF Preprocess, w
    <2> QED
      BY <2>1, <2>2, <2>3
  <1> HIDE DEF lines
  <1> QED
    BY <1>3, <1>4 DEF Target1, lines, conds

LEMMA BeforeLeads ==
    ASSUME NEW t, NEW a, NEW S, \A p \in S : Target1(t, a, p) \in S, NEW p \in Before(t, a, S)
    PROVE  Target1(t, a, p) \in S
  <1>1. CASE p \in S
    BY <1>1
  <1>2. ASSUME NEW q \in S \ {Top}, Preprocess(t[p].data, Holds(a)) = <<Bare(IncludeLine(q))>>
        PROVE  Target1(t, a, p) \in S
    <2> DEFINE lines == Preprocess(t[p].data, Holds(a))
    <2>1. Len(lines) = 1 /\ lines[1] = Bare(IncludeLine(q))
      BY <1>2
    <2>2. Bare(IncludeLine(q))[1] = "include" /\ Bare(IncludeLine(q))[2] = q
      BY DEF IncludeLine, Bare
    <2>3. lines[1][1] = "include" /\ lines[1][2] = q
      BY <2>1, <2>2
    <2>4. Target1(t, a, p) = q
      BY <2>1, <2>3 DEF Target1
    <2> QED
      BY <2>4
  <1> QED
    BY <1>1, <1>2 DEF Before

LEMMA FollowedHome ==
    ASSUME input \in Inputs, NEW a \in DOMAIN input.files, input.files[a].kind = "dont_diff",
           Top \in Near3(trees["destroot"], a)
    PROVE  trees["destroot"][Followed(a, Top)].data = input.files[a].data
  <1> DEFINE t == trees["destroot"]
             g == Target1(t, a, Top)
             h == Target1(t, a, g)
             k == Target1(t, a, h)
  <1>1. Followed(a, Top) = k
    BY FollowedIs
  <1> HIDE DEF t
  <1>2. \A p \in Homes(t, a) : Target1(t, a, p) \in Homes(t, a)
    BY HomeStays
  <1>3. \A p \in Near1(t, a) : Target1(t, a, p) \in Homes(t, a)
    BY <1>2, BeforeLeads DEF Near1
  <1>4. \A p \in Near1(t, a) : Target1(t, a, p) \in Near1(t, a)
    BY <1>3 DEF Near1, Before
  <1>5. \A p \in Near2(t, a) : Target1(t, a, p) \in Near1(t, a)
    BY <1>4, BeforeLeads DEF Near2
  <1>6. \A p \in Near2(t, a) : Target1(t, a, p) \in Near2(t, a)
    BY <1>5 DEF Near2, Before
  <1>7. \A p \in Near3(t, a) : Target1(t, a, p) \in Near2(t, a)
    BY <1>6, BeforeLeads DEF Near3
  <1>8. k \in Homes(t, a)
    BY <1>3, <1>5, <1>7 DEF t
  <1>9. t[k].data = input.files[a].data
    BY <1>8 DEF Homes
  <1> QED
    BY <1>1, <1>9 DEF t

LEMMA ServesIsServed ==
    ASSUME input \in Inputs, NEW a \in DOMAIN input.files,
           Serves(trees["destroot"], a, Near3(trees["destroot"], a)),
           NEW names, Placed(trees["destroot"], names)
    PROVE  Served(a)
  <1> DEFINE own == input.files[a]
             t == trees["destroot"]
  <1>1. own.kind \in FileKinds
    BY OwnFits DEF Fit
  <1>2. CASE own.kind = "dont_diff"
    <2>1. t[Followed(a, Top)].data = own.data
      BY <1>2, FollowedHome DEF Serves
    <2> QED
      BY <1>2, <2>1 DEF Served, Top
  <1>3. CASE own.kind = "mod"
    <2>1. \E p \in DOMAIN t : t[p].kind = "mod" /\ t[p].data = own.data
      BY <1>3 DEF Serves
    <2> QED
      BY <1>3, <2>1 DEF Served
  <1>4. CASE own.kind = "la" /\ input.deleteLa
    BY <1>4 DEF Served
  <1>5. ASSUME own.kind \notin {"mod", "dont_diff"}, ~(own.kind = "la" /\ input.deleteLa)
        PROVE  Served(a)
    <2>1. Top \in DOMAIN t /\ Good(a, t[Top])
      BY <1>5 DEF Serves
    <2>2. t[Top].kind = own.kind
      BY <2>1 DEF Good
    <2>3. CASE own.kind = "header"
      <3>1. \A more \in SUBSET {"X"} :
              ReadFrom(Unread, t[Top].data, Holds(a) \cup more) = ReadFrom(Unread, own.data, Holds(a) \cup more)
        BY <2>1, <2>2, <2>3 DEF Good
      <3>2. \A more \in SUBSET {"X"} :
              Preprocess(t[Top].data, Holds(a) \cup more) = Preprocess(own.data, Holds(a) \cup more)
        BY <3>1 DEF Preprocess
      <3> QED
        BY <2>1, <2>3, <3>2 DEF Served, Top
    <2>4. CASE own.kind \in {"combine", "text"}
      BY <2>1, <2>2, <2>4 DEF Good, Served, Top
    <2>5. CASE own.kind \in {"binary", "archive"}
      BY <2>1, <2>2, <2>5 DEF Good, Served, Top
    <2>6. CASE own.kind = "la"
      BY <2>1, <2>2, <2>6 DEF Good, Served, Top
    <2>7. CASE own.kind \in {"link", "equivalent", "flags", "gir", "packed", "xz"}
      BY <2>1, <2>2, <2>7 DEF Good, Served, Top
    <2>8. CASE own.kind = "assumed"
      <3>1. \E b \in DOMAIN input.files : t[Top] = input.files[b]
        BY <2>1, <2>2, <2>8 DEF Placed, Fit
      <3> QED
        BY <2>8, <3>1 DEF Served, Top
    <2> QED
      BY <1>1, <1>5, <2>3, <2>4, <2>5, <2>6, <2>7, <2>8 DEF FileKinds
  <1> QED
    BY <1>2, <1>3, <1>4, <1>5

-----------------------------------------------------------------------------
(* The four merges. *)

\* The names of the directories a division may have made in a tree.
NamesOf(x) ==
    CASE x = "powerpc" -> {"ppc", "ppc64"}
      [] x = "intel" -> {"i386", "x86_64"}
      [] x = "ppc-intel" -> {"ppc", "ppc64", "i386", "x86_64", "powerpc", "x86"}
      [] x = "destroot" -> Marks
      [] OTHER -> {}

LEMMA PairsAre ==
    /\ Len(Pairs) = 4
    /\ Pairs[1] = Pair("ppc", "ppc64", "powerpc", "ppc", "ppc64", DiffFormatM)
    /\ Pairs[2] = Pair("i386", "x86_64", "intel", "i386", "x86_64", DiffFormatM)
    /\ Pairs[3] = Pair("powerpc", "intel", "ppc-intel", "powerpc", "x86", DiffFormatProc)
    /\ Pairs[4] = Pair("arm64", "ppc-intel", "destroot", "arm64", "ppcintel", DiffFormatArmElse)
  BY DEF Pairs

PairIs(pair, one, two, into, name1, name2, format) ==
    /\ pair.one = one /\ pair.two = two /\ pair.into = into
    /\ pair.name1 = name1 /\ pair.name2 = name2 /\ pair.format = format

LEMMA PairFields ==
    ASSUME NEW one, NEW two, NEW into, NEW name1, NEW name2, NEW format
    PROVE  PairIs(Pair(one, two, into, name1, name2, format), one, two, into, name1, name2, format)
  BY DEF PairIs, Pair

LEMMA FormatsAre ==
    /\ DiffFormatM.old = "not_lp64" /\ DiffFormatM.new = "lp64"
    /\ DiffFormatProc.old = "powerpc" /\ DiffFormatProc.new = "intel"
    /\ DiffFormatArmElse.old = "arm64" /\ DiffFormatArmElse.new = "not_arm64"
    /\ DiffFormatCombine.old = "any"
  BY DEF DiffFormatM, DiffFormatProc, DiffFormatArmElse, DiffFormatCombine

LEMMA FormatsTold ==
    /\ Formatted(DiffFormatM) /\ Formatted(DiffFormatProc) /\ Formatted(DiffFormatArmElse)
    /\ DiffFormatM # DiffFormatCombine /\ DiffFormatProc # DiffFormatCombine
    /\ DiffFormatArmElse # DiffFormatCombine
  <1>1. /\ Formatted(DiffFormatM) /\ Formatted(DiffFormatProc) /\ Formatted(DiffFormatArmElse)
    BY FormatsAre DEF Formatted, Word, AnyMark
  <1>2. DiffFormatM.old # DiffFormatCombine.old /\ DiffFormatProc.old # DiffFormatCombine.old
        /\ DiffFormatArmElse.old # DiffFormatCombine.old
    BY FormatsAre
  <1> QED
    BY <1>1, <1>2

LEMMA PairsJoin ==
    ASSUME NEW s \in 1 .. 4
    PROVE  Joins(Pairs[s], NamesOf(Pairs[s].one), NamesOf(Pairs[s].two), NamesOf(Pairs[s].into))
  <1>1. ASSUME NEW one, NEW two, NEW into, NEW name1, NEW name2, NEW format,
               Pairs[s] = Pair(one, two, into, name1, name2, format),
               /\ NamesOf(into) \subseteq Marks /\ name1 \in NamesOf(into) /\ name2 \in NamesOf(into)
               /\ NamesOf(one) \subseteq NamesOf(into) /\ NamesOf(two) \subseteq NamesOf(into)
               /\ NamesOf(one) \cap NamesOf(two) = {} /\ name1 \notin NamesOf(one) \cup NamesOf(two)
               /\ name2 \notin NamesOf(one) \cup NamesOf(two) /\ name1 # name2,
               Formatted(format), format # DiffFormatCombine
        PROVE  Joins(Pairs[s], NamesOf(Pairs[s].one), NamesOf(Pairs[s].two), NamesOf(Pairs[s].into))
    <2>1. PairIs(Pairs[s], one, two, into, name1, name2, format)
      BY <1>1, PairFields
    <2> QED
      BY <1>1, <2>1 DEF Joins, PairIs
  <1>2. CASE s = 1
    BY <1>1, <1>2, PairsAre, FormatsTold DEF NamesOf, Marks, AnyMark
  <1>3. CASE s = 2
    BY <1>1, <1>3, PairsAre, FormatsTold DEF NamesOf, Marks, AnyMark
  <1>4. CASE s = 3
    BY <1>1, <1>4, PairsAre, FormatsTold DEF NamesOf, Marks, AnyMark
  <1>5. CASE s = 4
    BY <1>1, <1>5, PairsAre, FormatsTold DEF NamesOf, Marks, AnyMark
  <1> QED
    BY <1>2, <1>3, <1>4, <1>5

\* The tree that has the file of an architecture after s merges.
Where(a, s) ==
    IF a = "arm64" THEN IF s = 4 THEN "destroot" ELSE a
    ELSE IF s = 4 THEN "destroot" ELSE IF s = 3 THEN "ppc-intel"
    ELSE IF a \in {"ppc", "ppc64"} THEN IF s = 0 THEN a ELSE "powerpc"
    ELSE IF s = 2 THEN "intel" ELSE a

\* The paths there from where the includes lead to that file.
Leading(x, t, a) ==
    IF x \in {"powerpc", "intel"} THEN Near1(t, a) ELSE IF x = "ppc-intel" THEN Near2(t, a)
    ELSE IF x = "destroot" THEN Near3(t, a) ELSE Homes(t, a)

Goes(a, s, pair, first) ==
    /\ Where(a, s) = IF first THEN pair.one ELSE pair.two
    /\ Where(a, s + 1) = pair.into
    /\ Speaks(pair, a, first)

LEMMA Told ==
    ASSUME NEW a, NEW first \in BOOLEAN, NEW pair, pair.format # DiffFormatCombine,
           pair.format.old \in Word, pair.format.new \in Word, pair.format.old # "X", pair.format.new # "X",
           first => pair.format.old \in Holds(a) /\ pair.format.new \notin Holds(a),
           ~first => pair.format.old \notin Holds(a) /\ pair.format.new \in Holds(a)
    PROVE  Speaks(pair, a, first)
  BY DEF Speaks, Tells

LEMMA HoldsAre ==
    /\ Holds("ppc") = {"not_lp64", "powerpc", "not_arm64"} /\ Holds("ppc64") = {"lp64", "powerpc", "not_arm64"}
    /\ Holds("i386") = {"not_lp64", "intel", "not_arm64"} /\ Holds("x86_64") = {"lp64", "intel", "not_arm64"}
    /\ Holds("arm64") = {"lp64", "arm64"}
  BY DEF Holds

LEMMA GoesOn ==
    ASSUME NEW a \in Architectures, NEW s \in 0 .. 3, NEW pair, pair = Pairs[s + 1]
    PROVE  \/ Where(a, s + 1) = Where(a, s) /\ Where(a, s) # pair.into
           \/ \E first \in BOOLEAN : Goes(a, s, pair, first)
  <1>1. s + 1 \in 1 .. 4
    OBVIOUS
  <1>2. Joins(pair, NamesOf(pair.one), NamesOf(pair.two), NamesOf(pair.into))
    BY <1>1, PairsJoin
  <1>3. pair.format # DiffFormatCombine /\ pair.format.old \in Word /\ pair.format.new \in Word
    BY <1>2 DEF Joins, Formatted
  <1>4. CASE s = 0
    <2>1. PairIs(pair, "ppc", "ppc64", "powerpc", "ppc", "ppc64", DiffFormatM)
      BY <1>4, PairsAre, PairFields
    <2>2. /\ pair.one = "ppc" /\ pair.two = "ppc64" /\ pair.into = "powerpc"
          /\ pair.format.old = "not_lp64" /\ pair.format.new = "lp64"
      BY <2>1, FormatsAre DEF PairIs
    <2>3. CASE a = "ppc"
      <3>1. Speaks(pair, a, TRUE)
        BY <1>3, <2>2, <2>3, HoldsAre, Told
      <3>3. /\ Where(a, s) = IF TRUE THEN pair.one ELSE pair.two
            /\ Where(a, s + 1) = pair.into
        BY <1>4, <2>2, <2>3 DEF Where
      <3>2. Goes(a, s, pair, TRUE)
        BY <3>1, <3>3 DEF Goes
      <3> QED
        BY <3>2
    <2>4. CASE a = "ppc64"
      <3>1. Speaks(pair, a, FALSE)
        BY <1>3, <2>2, <2>4, HoldsAre, Told
      <3>3. /\ Where(a, s) = IF FALSE THEN pair.one ELSE pair.two
            /\ Where(a, s + 1) = pair.into
        BY <1>4, <2>2, <2>4 DEF Where
      <3>2. Goes(a, s, pair, FALSE)
        BY <3>1, <3>3 DEF Goes
      <3> QED
        BY <3>2
    <2>5. CASE a \in {"arm64", "i386", "x86_64"}
      BY <1>4, <2>2, <2>5 DEF Where
    <2> QED
      BY <2>3, <2>4, <2>5 DEF Architectures
  <1>5. CASE s = 1
    <2>1. PairIs(pair, "i386", "x86_64", "intel", "i386", "x86_64", DiffFormatM)
      BY <1>5, PairsAre, PairFields
    <2>2. /\ pair.one = "i386" /\ pair.two = "x86_64" /\ pair.into = "intel"
          /\ pair.format.old = "not_lp64" /\ pair.format.new = "lp64"
      BY <2>1, FormatsAre DEF PairIs
    <2>3. CASE a = "i386"
      <3>1. Speaks(pair, a, TRUE)
        BY <1>3, <2>2, <2>3, HoldsAre, Told
      <3>3. /\ Where(a, s) = IF TRUE THEN pair.one ELSE pair.two
            /\ Where(a, s + 1) = pair.into
        BY <1>5, <2>2, <2>3 DEF Where
      <3>2. Goes(a, s, pair, TRUE)
        BY <3>1, <3>3 DEF Goes
      <3> QED
        BY <3>2
    <2>4. CASE a = "x86_64"
      <3>1. Speaks(pair, a, FALSE)
        BY <1>3, <2>2, <2>4, HoldsAre, Told
      <3>3. /\ Where(a, s) = IF FALSE THEN pair.one ELSE pair.two
            /\ Where(a, s + 1) = pair.into
        BY <1>5, <2>2, <2>4 DEF Where
      <3>2. Goes(a, s, pair, FALSE)
        BY <3>1, <3>3 DEF Goes
      <3> QED
        BY <3>2
    <2>5. CASE a \in {"arm64", "ppc", "ppc64"}
      BY <1>5, <2>2, <2>5 DEF Where
    <2> QED
      BY <2>3, <2>4, <2>5 DEF Architectures
  <1>6. CASE s = 2
    <2>1. PairIs(pair, "powerpc", "intel", "ppc-intel", "powerpc", "x86", DiffFormatProc)
      BY <1>6, PairsAre, PairFields
    <2>2. /\ pair.one = "powerpc" /\ pair.two = "intel" /\ pair.into = "ppc-intel"
          /\ pair.format.old = "powerpc" /\ pair.format.new = "intel"
      BY <2>1, FormatsAre DEF PairIs
    <2>3. CASE a \in {"ppc", "ppc64"}
      <3>1. Speaks(pair, a, TRUE)
        BY <1>3, <2>2, <2>3, HoldsAre, Told
      <3>3. /\ Where(a, s) = IF TRUE THEN pair.one ELSE pair.two
            /\ Where(a, s + 1) = pair.into
        BY <1>6, <2>2, <2>3 DEF Where
      <3>2. Goes(a, s, pair, TRUE)
        BY <3>1, <3>3 DEF Goes
      <3> QED
        BY <3>2
    <2>4. CASE a \in {"i386", "x86_64"}
      <3>1. Speaks(pair, a, FALSE)
        BY <1>3, <2>2, <2>4, HoldsAre, Told
      <3>3. /\ Where(a, s) = IF FALSE THEN pair.one ELSE pair.two
            /\ Where(a, s + 1) = pair.into
        BY <1>6, <2>2, <2>4 DEF Where
      <3>2. Goes(a, s, pair, FALSE)
        BY <3>1, <3>3 DEF Goes
      <3> QED
        BY <3>2
    <2>5. CASE a = "arm64"
      BY <1>6, <2>2, <2>5 DEF Where
    <2> QED
      BY <2>3, <2>4, <2>5 DEF Architectures
  <1>7. CASE s = 3
    <2>1. PairIs(pair, "arm64", "ppc-intel", "destroot", "arm64", "ppcintel", DiffFormatArmElse)
      BY <1>7, PairsAre, PairFields
    <2>2. /\ pair.one = "arm64" /\ pair.two = "ppc-intel" /\ pair.into = "destroot"
          /\ pair.format.old = "arm64" /\ pair.format.new = "not_arm64"
      BY <2>1, FormatsAre DEF PairIs
    <2>3. CASE a = "arm64"
      <3>1. Speaks(pair, a, TRUE)
        BY <1>3, <2>2, <2>3, HoldsAre, Told
      <3>3. /\ Where(a, s) = IF TRUE THEN pair.one ELSE pair.two
            /\ Where(a, s + 1) = pair.into
        BY <1>7, <2>2, <2>3 DEF Where
      <3>2. Goes(a, s, pair, TRUE)
        BY <3>1, <3>3 DEF Goes
      <3> QED
        BY <3>2
    <2>4. CASE a \in {"ppc", "ppc64", "i386", "x86_64"}
      <3>1. Speaks(pair, a, FALSE)
        BY <1>3, <2>2, <2>4, HoldsAre, Told
      <3>3. /\ Where(a, s) = IF FALSE THEN pair.one ELSE pair.two
            /\ Where(a, s + 1) = pair.into
        BY <1>7, <2>2, <2>4 DEF Where
      <3>2. Goes(a, s, pair, FALSE)
        BY <3>1, <3>3 DEF Goes
      <3> QED
        BY <3>2
    <2> QED
      BY <2>3, <2>4 DEF Architectures
  <1> QED
    BY <1>4, <1>5, <1>6, <1>7

LEMMA Nearer ==
    ASSUME NEW t, NEW a
    PROVE  /\ Homes(t, a) \subseteq Near1(t, a) /\ Near1(t, a) \subseteq Near2(t, a)
           /\ Near2(t, a) \subseteq Near3(t, a)
           /\ Near3(t, a) \subseteq {p \in DOMAIN t : Apart(t, p)}
  BY DEF Homes, Near1, Near2, Near3, Before

LEMMA ServesMore ==
    ASSUME NEW t, NEW a, NEW S, NEW U, S \subseteq U, Serves(t, a, S)
    PROVE  Serves(t, a, U)
  BY DEF Serves

\* An architecture that was served by one of the two trees is served by the merged one.
LEMMA ServedOn ==
    ASSUME NEW M, NEW into, NEW t1, NEW t2, NEW a \in Architectures, a \in DOMAIN input.files,
           Fit(input.files[a]), NEW s \in 0 .. 3, NEW pair, pair = Pairs[s + 1],
           Merging(M, into, t1, t2, pair, NamesOf(pair.one), NamesOf(pair.two), NamesOf(pair.into)), ~M.cut,
           NEW first \in BOOLEAN, Goes(a, s, pair, first),
           NEW t, t = Side(t1, t2, first), Serves(t, a, Leading(Where(a, s), t, a))
    PROVE  Serves(M.tree, a, Leading(pair.into, M.tree, a))
  <1>1. Speaks(pair, a, first)
    BY DEF Goes
  <1>2. Keeps(t, M.tree)
    BY ApartKept DEF Merging
  <1>3. /\ Carried(t, Homes(t, a), M.tree, Homes(M.tree, a))
        /\ Carried(t, Near1(t, a), M.tree, Near1(M.tree, a))
        /\ Carried(t, Near2(t, a), M.tree, Near2(M.tree, a))
    <2>1. Carried(t, Homes(t, a), M.tree, Homes(M.tree, a))
      BY <1>2, HomesCarried
    <2>2. Carried(t, Near1(t, a), M.tree, Near1(M.tree, a))
      BY <1>2, <2>1, BeforeCarried DEF Near1
    <2>3. Carried(t, Near2(t, a), M.tree, Near2(M.tree, a))
      BY <1>2, <2>2, BeforeCarried DEF Near2
    <2> QED
      BY <2>1, <2>2, <2>3
  <1>4. ASSUME NEW S, NEW U, Serves(t, a, S), Carried(t, S, M.tree, U), S \subseteq Near3(t, a)
        PROVE  Serves(M.tree, a, Before(M.tree, a, U))
    <2>1. S \subseteq {p \in DOMAIN t : Apart(t, p)}
      BY <1>4, Nearer
    <2> QED
      BY <1>1, <1>4, <2>1, ServesMerged
  <1>5. /\ Homes(t, a) \subseteq Near3(t, a) /\ Near1(t, a) \subseteq Near3(t, a) /\ Near2(t, a) \subseteq Near3(t, a)
    BY Nearer
  <1>6. Serves(t, a, Homes(t, a)) => Serves(M.tree, a, Near1(M.tree, a))
    BY <1>3, <1>4, <1>5 DEF Near1
  <1>7. Serves(t, a, Near1(t, a)) => Serves(M.tree, a, Near2(M.tree, a))
    BY <1>3, <1>4, <1>5 DEF Near2
  <1>8. Serves(t, a, Near2(t, a)) => Serves(M.tree, a, Near3(M.tree, a))
    BY <1>3, <1>4, <1>5 DEF Near3
  <1>9. Serves(M.tree, a, Near1(M.tree, a)) => Serves(M.tree, a, Near3(M.tree, a))
    BY Nearer, ServesMore
  <1>10. \/ Where(a, s) \notin {"powerpc", "intel", "ppc-intel", "destroot"} /\ pair.into \in {"powerpc", "intel", "destroot"}
         \/ Where(a, s) \in {"powerpc", "intel"} /\ pair.into = "ppc-intel"
         \/ Where(a, s) = "ppc-intel" /\ pair.into = "destroot"
    <2>1. pair.into = Where(a, s + 1) /\ Where(a, s) \in {pair.one, pair.two}
      BY DEF Goes
    <2>2. /\ s = 0 => PairIs(pair, "ppc", "ppc64", "powerpc", "ppc", "ppc64", DiffFormatM)
          /\ s = 1 => PairIs(pair, "i386", "x86_64", "intel", "i386", "x86_64", DiffFormatM)
          /\ s = 2 => PairIs(pair, "powerpc", "intel", "ppc-intel", "powerpc", "x86", DiffFormatProc)
          /\ s = 3 => PairIs(pair, "arm64", "ppc-intel", "destroot", "arm64", "ppcintel", DiffFormatArmElse)
      BY PairsAre, PairFields
    <2> QED
      BY <2>1, <2>2 DEF PairIs
  <1> QED
    BY <1>6, <1>7, <1>8, <1>9, <1>10 DEF Leading

-----------------------------------------------------------------------------
(* Whom the trees serve while they are merged. *)

Present == archs \cap DOMAIN input.files
Content(x, t, a) == Serves(t, a, Leading(x, t, a))

\* The files of every tree there is fit, and are where merges put them.
TreesPlaced == \A x \in DOMAIN trees : \A t \in {trees[x]} : Placed(t, NamesOf(x))

\* The tree that has come to have the file of an architecture serves it.
ServedSoFar ==
    /\ target = "install" => \A a \in Present \ left : \A t \in {Tree(a)} : Content(a, t, a)
    /\ target \in {"merge", "done"} /\ ~cut =>
          \A a \in Present : \A x \in {Where(a, step)} : \A t \in {Tree(x)} : Content(x, t, a)
    /\ target \in {"merge", "done"} /\ step = 4 => "destroot" \in DOMAIN trees
    /\ target = "done" => step = 4

ServedInv == TreesPlaced /\ ServedSoFar

LEMMA PlacedKept == ASSUME input' = input PROVE \A t, n : Placed(t, n)' = Placed(t, n)
  BY DEF Placed, Fit
LEMMA ContentKept == ASSUME input' = input PROVE \A x, t, a : Content(x, t, a)' = Content(x, t, a)
  BY DEF Content, Serves, Good, Leading, Near1, Near2, Near3, Before, Homes, Apart

LEMMA NoneIsPlaced == ASSUME NEW n PROVE Placed(NoFiles, n)
  BY DEF Placed, NoFiles

LEMMA TreesArePlaced ==
    ASSUME TreesPlaced, NEW x
    PROVE  Placed(Tree(x), NamesOf(x))
  <1>1. CASE x \in DOMAIN trees
    BY <1>1 DEF TreesPlaced, Tree
  <1>2. CASE x \notin DOMAIN trees
    BY <1>2, NoneIsPlaced DEF Tree
  <1> QED
    BY <1>1, <1>2

\* A tree more, and the others as they were.
LEMMA OneTreeMore ==
    ASSUME NEW x, NEW t, TreesPlaced, Placed(t, NamesOf(x)), input' = input, trees' = With(x, t)
    PROVE  /\ TreesPlaced'
           /\ Tree(x)' = t /\ \A y : y # x => Tree(y)' = Tree(y)
           /\ DOMAIN trees' = DOMAIN trees \cup {x}
  <1>1. /\ DOMAIN trees' = DOMAIN trees \cup {x} /\ trees'[x] = t
        /\ \A y \in DOMAIN trees : y # x => trees'[y] = trees[y]
    BY DEF With
  <1>2. Tree(x)' = t /\ \A y : y # x => Tree(y)' = Tree(y)
    BY <1>1 DEF Tree
  <1>3. ASSUME NEW y \in DOMAIN trees', NEW u \in {trees'[y]}
        PROVE  Placed(u, NamesOf(y))'
    <2>1. Placed(u, NamesOf(y))
      BY <1>1, <1>3 DEF TreesPlaced
    <2>2. \A z, n : Placed(z, n)' = Placed(z, n)
      BY PlacedKept
    <2> QED
      BY <2>1, <2>2 DEF NamesOf, Marks
  <1> QED
    BY <1>1, <1>2, <1>3 DEF TreesPlaced

LEMMA FewerTrees ==
    ASSUME TreesPlaced, input' = input, \A y \in DOMAIN trees' : y \in DOMAIN trees /\ trees'[y] = trees[y]
    PROVE  TreesPlaced'
  <1>1. ASSUME NEW y \in DOMAIN trees', NEW u \in {trees'[y]}
        PROVE  Placed(u, NamesOf(y))'
    <2>1. Placed(u, NamesOf(y))
      BY <1>1 DEF TreesPlaced
    <2>2. \A z, n : Placed(z, n)' = Placed(z, n)
      BY PlacedKept
    <2> QED
      BY <2>1, <2>2 DEF NamesOf, Marks
  <1> QED
    BY <1>1 DEF TreesPlaced

\* The tree of an architecture where its file is installed.
LEMMA OwnTreeServes ==
    ASSUME input \in Inputs, NEW a \in DOMAIN input.files, NEW t, t = Single(Top, input.files[a])
    PROVE  Placed(t, NamesOf(a)) /\ Content(a, t, a)
  <1> DEFINE own == input.files[a]
  <1>1. DOMAIN t = {Top} /\ t[Top] = own
    BY SingleIs
  <1>2. Fit(own) /\ a \in Architectures
    BY OwnFits
  <1>3. Placed(t, NamesOf(a))
    BY <1>1, <1>2, TopIsPath DEF Placed
  <1>4. Leading(a, t, a) = Homes(t, a)
    BY <1>2 DEF Leading, Architectures
  <1>5. Good(a, t[Top])
    BY <1>1, GoodItself
  <1>6. own.kind = "dont_diff" => Top \in Homes(t, a)
    BY <1>1 DEF Homes, Apart
  <1>7. Serves(t, a, Homes(t, a))
    BY <1>1, <1>5, <1>6 DEF Serves
  <1> QED
    BY <1>3, <1>4, <1>7 DEF Content

-----------------------------------------------------------------------------
(* The steps. *)

LEMMA ServedInit == MuniversalInit => ServedInv
  BY DEF MuniversalInit, ServedInv, TreesPlaced, ServedSoFar

\* Steps that leave the trees and do not go on to install, merge or finish.
LEMMA ServedElsewhere ==
    ASSUME ServedInv, input' = input, trees' = trees, target' \notin {"install", "merge", "done"}
    PROVE  ServedInv'
  <1>1. TreesPlaced'
    BY FewerTrees DEF ServedInv
  <1>2. ServedSoFar'
    BY DEF ServedSoFar
  <1> QED
    BY <1>1, <1>2 DEF ServedInv

LEMMA ServedUnchanged ==
    ASSUME ServedInv, UNCHANGED <<input, target, archs, trees, left, step, cut>>
    PROVE  ServedInv'
  <1>1. TreesPlaced'
    BY FewerTrees DEF ServedInv
  <1>2. \A x, t, a : Content(x, t, a)' = Content(x, t, a)
    BY ContentKept
  <1>3. \A x : Tree(x)' = Tree(x)
    BY DEF Tree
  <1>4. Present' = Present
    BY DEF Present
  <1>5. ServedSoFar'
    BY <1>2, <1>3, <1>4 DEF ServedInv, ServedSoFar, Where
  <1> QED
    BY <1>1, <1>5 DEF ServedInv

LEMMA ServedCopyDestroot == ASSUME MuniversalInv, ServedInv, CopyDestroot PROVE ServedInv'
  <1>1. PICK a \in left :
            IF a \in stray
              THEN target' = "error" /\ UNCHANGED <<trees, left, stray>>
              ELSE /\ left' = left \ {a}
                   /\ trees' = IF a \in DOMAIN trees THEN trees ELSE With(a, NoFiles)
                   /\ stray' = IF a \in DOMAIN trees THEN stray \cup {a} ELSE stray
                   /\ UNCHANGED target
    BY DEF CopyDestroot
  <1>2. target = "copy" /\ input' = input
    BY DEF CopyDestroot
  <1>3. target' \notin {"install", "merge", "done"}
    BY <1>1, <1>2
  <1>4. TreesPlaced'
    <2>1. CASE trees' = trees
      BY <1>2, <2>1, FewerTrees DEF ServedInv
    <2>2. CASE trees' = With(a, NoFiles)
      BY <1>2, <2>2, NoneIsPlaced, OneTreeMore DEF ServedInv
    <2> QED
      BY <1>1, <2>1, <2>2
  <1>5. ServedSoFar'
    BY <1>3 DEF ServedSoFar
  <1> QED
    BY <1>4, <1>5 DEF ServedInv

LEMMA ServedCopied == ASSUME MuniversalInv, ServedInv, Copied PROVE ServedInv'
  <1>1. /\ target' = "install" /\ left' = archs /\ input' = input /\ archs' = archs
        /\ trees' = [n \in DOMAIN trees \ {"destroot"} |-> trees[n]]
    BY DEF Copied
  <1>2. TreesPlaced'
    BY <1>1, FewerTrees DEF ServedInv
  <1>3. Present' \ left' = {}
    BY <1>1 DEF Present
  <1>4. ServedSoFar'
    BY <1>1, <1>3 DEF ServedSoFar
  <1> QED
    BY <1>2, <1>4 DEF ServedInv

LEMMA ServedInstall == ASSUME MuniversalInv, ServedInv, Install PROVE ServedInv'
  <1>1. PICK a \in left :
            /\ left' = left \ {a}
            /\ trees' = IF a \in DOMAIN input.files THEN With(a, Single(<<"f">>, input.files[a])) ELSE trees
    BY DEF Install
  <1>2. target = "install" /\ UNCHANGED <<input, target, archs>>
    BY DEF Install
  <1>3. input \in Inputs /\ left \subseteq archs
    BY DEF MuniversalInv, SourceInv, MuniversalTypeOK
  <1>4. \A x, t, b : Content(x, t, b)' = Content(x, t, b)
    BY <1>2, ContentKept
  <1>5. Present' = Present
    BY <1>2 DEF Present
  <1>6. \A b \in Present \ left : \A t \in {Tree(b)} : Content(b, t, b)
    BY <1>2 DEF ServedInv, ServedSoFar
  <1>7. CASE a \in DOMAIN input.files
    <2> DEFINE t == Single(Top, input.files[a])
    <2>1. trees' = With(a, t)
      BY <1>1, <1>7 DEF Top
    <2>2. Placed(t, NamesOf(a)) /\ Content(a, t, a)
      BY <1>3, <1>7, OwnTreeServes
    <2> HIDE DEF t
    <2>3. TreesPlaced' /\ Tree(a)' = t /\ \A y : y # a => Tree(y)' = Tree(y)
      BY <1>2, <2>1, <2>2, OneTreeMore DEF ServedInv
    <2>4. ASSUME NEW b \in Present' \ left', NEW u \in {Tree(b)'}
          PROVE  Content(b, u, b)'
      <3>1. CASE b = a
        BY <1>4, <2>2, <2>3, <2>4, <3>1
      <3>2. CASE b # a
        <4>1. b \in Present \ left /\ u \in {Tree(b)}
          BY <1>1, <1>5, <2>3, <2>4, <3>2
        <4>2. Content(b, u, b)
          BY <1>6, <4>1
        <4> QED
          BY <1>4, <4>2
      <3> QED
        BY <3>1, <3>2
    <2>5. ServedSoFar'
      BY <1>2, <2>4 DEF ServedSoFar
    <2> QED
      BY <2>3, <2>5 DEF ServedInv
  <1>8. CASE a \notin DOMAIN input.files
    <2>1. trees' = trees
      BY <1>1, <1>8
    <2>2. TreesPlaced'
      BY <1>2, <2>1, FewerTrees DEF ServedInv
    <2>3. \A y : Tree(y)' = Tree(y)
      BY <2>1 DEF Tree
    <2>4. Present' \ left' = Present \ left
      BY <1>1, <1>5, <1>8 DEF Present
    <2>5. ServedSoFar'
      BY <1>2, <1>4, <1>6, <2>3, <2>4 DEF ServedSoFar
    <2> QED
      BY <2>2, <2>5 DEF ServedInv
  <1> QED
    BY <1>7, <1>8

LEMMA ServedInstalled == ASSUME MuniversalInv, ServedInv, Installed PROVE ServedInv'
  <1>1. /\ target = "install" /\ target' = "merge" /\ left = {} /\ step' = 0
        /\ UNCHANGED <<input, archs, trees, cut>>
    BY DEF Installed, build
  <1>2. TreesPlaced'
    BY <1>1, FewerTrees DEF ServedInv
  <1>3. \A x, t, a : Content(x, t, a)' = Content(x, t, a)
    BY <1>1, ContentKept
  <1>4. Present' = Present /\ \A x : Tree(x)' = Tree(x)
    BY <1>1 DEF Present, Tree
  <1>5. \A a \in Present : \A t \in {Tree(a)} : Content(a, t, a)
    BY <1>1 DEF ServedInv, ServedSoFar
  <1>6. \A a : Where(a, 0) = a
    BY DEF Where
  <1>7. ServedSoFar'
    BY <1>1, <1>3, <1>4, <1>5, <1>6 DEF ServedSoFar
  <1> QED
    BY <1>2, <1>7 DEF ServedInv

LEMMA ServedMerge == ASSUME MuniversalInv, ServedInv, Merge PROVE ServedInv'
  <1> DEFINE pair == Pairs[step + 1]
             t1 == Tree(pair.one)
             t2 == Tree(pair.two)
             into == Tree(pair.into)
             M == MergeTree(into, t1, t2, pair, input.deleteLa)
  <1>1. /\ target = "merge" /\ step < Len(Pairs) /\ UNCHANGED <<input, archs>>
        /\ \/ target' = "error" /\ UNCHANGED <<trees, step, stray, cut>>
           \/ /\ ~M.failed /\ trees' = With(pair.into, M.tree) /\ cut' = (cut \/ M.cut)
              /\ step' = step + 1 /\ UNCHANGED target
    BY DEF Merge
  <1>2. step \in 0 .. 3 /\ step + 1 \in 1 .. 4 /\ input \in Inputs /\ archs \subseteq Architectures
    BY <1>1, PairsAre DEF MuniversalInv, MuniversalTypeOK, SourceInv
  <1>3. CASE target' = "error" /\ UNCHANGED <<trees, step, stray, cut>>
    BY <1>1, <1>3, ServedElsewhere
  <1>4. ASSUME ~M.failed, trees' = With(pair.into, M.tree), cut' = (cut \/ M.cut),
               step' = step + 1, target' = target
        PROVE  ServedInv'
    <2>1. Joins(pair, NamesOf(pair.one), NamesOf(pair.two), NamesOf(pair.into))
      BY <1>2, PairsJoin
    <2>2. /\ Placed(t1, NamesOf(pair.one)) /\ Placed(t2, NamesOf(pair.two)) /\ Placed(into, NamesOf(pair.into))
      BY TreesArePlaced DEF ServedInv
    <2>3. pair = Pairs[step + 1] /\ M = MergeTree(into, t1, t2, pair, input.deleteLa)
          /\ t1 = Tree(pair.one) /\ t2 = Tree(pair.two)
      OBVIOUS
    <2> HIDE DEF pair, t1, t2, into, M
    <2>4. Merging(M, into, t1, t2, pair, NamesOf(pair.one), NamesOf(pair.two), NamesOf(pair.into))
      BY <1>4, <2>1, <2>2, <2>3 DEF Merging
    <2>5. Placed(M.tree, NamesOf(pair.into))
      BY <1>4, <2>1, <2>2, <2>3, MergedPlaced
    <2> PICK x : x = pair.into
      OBVIOUS
    <2> PICK m : m = M.tree
      OBVIOUS
    <2>6. TreesPlaced' /\ Tree(x)' = m /\ (\A y : y # x => Tree(y)' = Tree(y))
          /\ DOMAIN trees' = DOMAIN trees \cup {x}
      <3>1. Placed(m, NamesOf(x)) /\ trees' = With(x, m) /\ input' = input /\ TreesPlaced
        BY <1>1, <1>4, <2>5 DEF ServedInv
      <3> QED
        BY <3>1, OneTreeMore
    <2>7. \A z, t, a : Content(z, t, a)' = Content(z, t, a)
      BY <1>1, ContentKept
    <2>8. Present' = Present /\ Present \subseteq Architectures /\ Present \subseteq DOMAIN input.files
      BY <1>1, <1>2 DEF Present
    <2>9. ASSUME ~cut', NEW a \in Present, NEW y, y = Where(a, step + 1), NEW t, t = Tree(y)'
          PROVE  Content(y, t, a)
      <3>1. ~cut /\ ~M.cut
        BY <1>4, <2>9
      <3>2. \A z \in {Where(a, step)} : \A u \in {Tree(z)} : Content(z, u, a)
        BY <1>1, <3>1 DEF ServedInv, ServedSoFar
      <3>3. CASE Where(a, step + 1) = Where(a, step) /\ Where(a, step) # pair.into
        <4>1. y = Where(a, step) /\ t = Tree(y)
          BY <2>6, <2>9, <3>3
        <4> QED
          BY <3>2, <4>1
      <3>4. ASSUME NEW first \in BOOLEAN, Goes(a, step, pair, first)
            PROVE  Content(y, t, a)
        <4> DEFINE u == Side(t1, t2, first)
        <4>1. u = Tree(Where(a, step))
          BY <2>3, <3>4 DEF Goes, Side
        <4>2. y = pair.into
          BY <2>9, <3>4 DEF Goes
        <4>6. t = M.tree
          BY <2>6, <2>9, <4>2
        <4> HIDE DEF u
        <4>3. Serves(u, a, Leading(Where(a, step), u, a))
          BY <3>2, <4>1 DEF Content
        <4>4. Fit(input.files[a])
          BY <1>2, <2>8, OwnFits
        <4>5. Serves(M.tree, a, Leading(pair.into, M.tree, a))
          BY <1>2, <2>3, <2>4, <2>8, <3>1, <3>4, <4>3, <4>4, ServedOn DEF u
        <4> QED
          BY <4>2, <4>5, <4>6 DEF Content
      <3> QED
        BY <1>2, <2>3, <2>8, <3>3, <3>4, GoesOn
    <2>10. step + 1 = 4 => "destroot" \in DOMAIN trees'
      <3>1. step + 1 = 4 => PairIs(pair, "arm64", "ppc-intel", "destroot", "arm64", "ppcintel", DiffFormatArmElse)
        BY <2>3, PairsAre, PairFields
      <3> QED
        BY <2>6, <3>1 DEF PairIs
    <2>11. ServedSoFar'
      <3>1. target' = "merge" /\ step' = step + 1
        BY <1>1, <1>4
      <3>2. ASSUME ~cut', NEW a \in Present', NEW y \in {Where(a, step)'}, NEW t \in {Tree(y)'}
            PROVE  Content(y, t, a)'
        <4>1. a \in Present /\ y = Where(a, step + 1) /\ t = Tree(y)'
          BY <2>8, <3>1, <3>2 DEF Where
        <4>2. Content(y, t, a)
          BY <2>9, <3>2, <4>1
        <4> QED
          BY <2>7, <4>2
      <3> QED
        BY <2>10, <3>1, <3>2 DEF ServedSoFar
    <2> QED
      BY <2>6, <2>11 DEF ServedInv
  <1> QED
    BY <1>1, <1>3, <1>4

LEMMA ServedFinish == ASSUME MuniversalInv, ServedInv, Finish PROVE ServedInv'
  <1>1. /\ target = "merge" /\ target' = "done" /\ step = 4
        /\ UNCHANGED <<input, archs, trees, left, step, cut>>
    BY PairsAre DEF Finish, destroots
  <1>2. TreesPlaced'
    BY <1>1, FewerTrees DEF ServedInv
  <1>3. \A x, t, a : Content(x, t, a)' = Content(x, t, a)
    BY <1>1, ContentKept
  <1>4. Present' = Present /\ \A x : Tree(x)' = Tree(x)
    BY <1>1 DEF Present, Tree
  <1>5. ServedSoFar'
    BY <1>1, <1>3, <1>4 DEF ServedInv, ServedSoFar, Where
  <1> QED
    BY <1>2, <1>5 DEF ServedInv

LEMMA ServedInductive == MuniversalInv /\ ServedInv /\ [MuniversalNext]_mergeVars => ServedInv'
  <1> SUFFICES ASSUME MuniversalInv, ServedInv, [MuniversalNext]_mergeVars PROVE ServedInv'
    OBVIOUS
  <1>1. CASE UNCHANGED mergeVars
    BY <1>1, ServedUnchanged DEF mergeVars
  <1>2. CASE Choose
    BY <1>2, ServedElsewhere DEF Choose, destroots
  <1>3. CASE CopySource
    BY <1>3, ServedElsewhere DEF CopySource, destroots
  <1>4. CASE Extracted
    BY <1>4, ServedElsewhere DEF Extracted, destroots
  <1>5. CASE Enter
    BY <1>5, ServedElsewhere DEF Enter, destroots
  <1>6. CASE SetDir
    BY <1>6, ServedElsewhere DEF SetDir, destroots
  <1>7. CASE Leave
    BY <1>7, ServedElsewhere DEF Leave, destroots
  <1>8. CASE StartDestroot
    BY <1>8, ServedElsewhere DEF StartDestroot
  <1>9. CASE Stop
    BY <1>9, ServedElsewhere DEF Stop, destroots
  <1>10. CASE Resume
    <2>1. target' \in {"extract", "phases", "copy"} /\ input' = input /\ trees' = trees
      BY <1>10 DEF Resume
    <2> QED
      BY <2>1, ServedElsewhere
  <1> QED
    BY <1>1, <1>2, <1>3, <1>4, <1>5, <1>6, <1>7, <1>8, <1>9, <1>10, ServedCopyDestroot, ServedCopied,
       ServedInstall, ServedInstalled, ServedMerge, ServedFinish DEF MuniversalNext

\* While the four merges are made, the tree that has come to have the file of an
\* architecture serves it (ServedInv), for every port, host and set of files:
\* destroot_finish_muniversal and muniversal::merge.
THEOREM ServedAlways == MuniversalSpec => []ServedInv
  BY MuniversalInvariance, ServedInit, ServedInductive, PTL DEF MuniversalSpec

\* Once the destroots are merged each architecture finds what it installed: a
\* header preprocessed as its own was, white space aside, whatever other conditions
\* it tests, a file included in place of the one that was divided, its own code,
\* lines, modules or the common core; of a file the PortGroup takes for alike on
\* all, one of those that were installed; unless a diff put a condition around a
\* part of a conditional.  destroot_finish_muniversal.
THEOREM AllServed == MuniversalSpec => []EachArchServed
  <1>1. ASSUME MuniversalInv, ServedInv, target = "done", ~cut, NEW a \in archs \cap DOMAIN input.files
        PROVE  Served(a)
    <2>1. step = 4 /\ "destroot" \in DOMAIN trees
      BY <1>1 DEF ServedInv, ServedSoFar
    <2>2. Where(a, step) = "destroot" /\ Tree("destroot") = trees["destroot"]
      BY <2>1 DEF Where, Tree
    <2>3. Content("destroot", trees["destroot"], a)
      BY <1>1, <2>2 DEF ServedInv, ServedSoFar, Present
    <2>4. Serves(trees["destroot"], a, Near3(trees["destroot"], a))
      BY <2>3 DEF Content, Leading
    <2>5. input \in Inputs
      BY <1>1 DEF MuniversalInv, SourceInv
    <2>6. Placed(trees["destroot"], NamesOf("destroot"))
      BY <1>1, <2>1 DEF ServedInv, TreesPlaced
    <2> QED
      BY <2>4, <2>5, <2>6, ServesIsServed
  <1>2. MuniversalInv /\ ServedInv => EachArchServed
    BY <1>1 DEF EachArchServed
  <1> QED
    BY <1>2, MuniversalInvariance, ServedAlways, PTL

-----------------------------------------------------------------------------
(* Merges of files that do not differ in what they are. *)

NoReason ==
    /\ ~DirNameKept /\ ~ModulesMet
    /\ \A a, b \in Present : a # b => ~Differ(input.files[a], input.files[b])

OfKind(k) == \A a \in Present : input.files[a].kind = k
OneFile == \A a, b \in Present : input.files[a] = input.files[b]

\* The architectures whose files come into a tree, and the marks left there.
Under(x) ==
    CASE x = "powerpc" -> {"ppc", "ppc64"}
      [] x = "intel" -> {"i386", "x86_64"}
      [] x = "ppc-intel" -> {"ppc", "ppc64", "i386", "x86_64"}
      [] x = "destroot" -> Architectures
      [] OTHER -> {x}
Members(x) == Under(x) \cap Present
MarksOf(x) == {"none"} \cup ({x} \cap Architectures)

\* A file of a tree is like the ones it comes of in what must not differ.
AgreesAs(k, x, data) ==
    /\ k \in {"link", "xz", "la"} => \E a \in Members(x) : data = input.files[a].data
    /\ k \in {"packed", "flags", "gir"} => \E a \in Members(x) : data[1] = input.files[a].data[1]
    /\ k = "flags" => data[2] \in AnyMark \cup {"none"}
    /\ k = "gir" => data[2] \in MarksOf(x)
    /\ k = "binary" => /\ \A c \in data : \E a \in Members(x) : c \in input.files[a].data
                       /\ OneFile => \E a \in Members(x) : data = input.files[a].data
Agrees(k, x, file) == file.kind = k /\ AgreesAs(k, x, file.data)

\* The two halves of a pair.
Halves(pair) ==
    /\ Members(pair.one) \cap Members(pair.two) = {} /\ pair.one # pair.two
    /\ Members(pair.one) \subseteq Members(pair.into) /\ Members(pair.two) \subseteq Members(pair.into)
    /\ pair.one \in Architectures => pair.name1 = pair.one
    /\ pair.two \in Architectures => pair.name2 = pair.two

\* What a merge puts for a path is there and agrees.
Gives(r, k, x, path) == \A q \in DOMAIN r.files : q = path /\ Agrees(k, x, r.files[q])

LEMMA NoDifference ==
    ASSUME NoReason, NEW a \in Present, NEW b \in Present, a # b
    PROVE  /\ input.files[a].kind = input.files[b].kind
           /\ input.files[a].kind \in {"packed", "flags", "gir"} => input.files[a].data[1] = input.files[b].data[1]
           /\ input.files[a].kind \in {"link", "la", "xz"} =>
                 \/ input.files[a].data = input.files[b].data
                 \/ input.files[a].kind = "la" /\ input.deleteLa
           /\ input.files[a].kind = "binary" /\ (\E c \in input.files[a].data, d \in input.files[b].data : c[1] = d[1])
                 => OneFile
  <1>1. ~Differ(input.files[a], input.files[b])
    BY DEF NoReason
  <1> DEFINE one == input.files[a]
             two == input.files[b]
  <1>2. /\ one.kind = two.kind
        /\ one.kind \in {"packed", "flags", "gir"} => one.data[1] = two.data[1]
        /\ one.kind \in {"link", "la", "xz"} => one.data = two.data \/ (one.kind = "la" /\ input.deleteLa)
        /\ one.kind = "binary" /\ (\E c \in one.data, d \in two.data : c[1] = d[1])
              => \A e \in Present : input.files[e] = one
    <2> HIDE DEF one, two
    <2>1. ~Differ(one, two)
      BY <1>1 DEF one, two
    <2> QED
      BY <2>1 DEF Differ, Present
  <1> QED
    BY <1>2 DEF OneFile

\* A file goes on into the tree of a pair, but for its mark.
LEMMA GoesInto ==
    ASSUME NEW k, NEW pair, Halves(pair), NEW x \in {pair.one, pair.two}, NEW data, AgreesAs(k, x, data),
           k = "gir" => data[2] \in MarksOf(pair.into)
    PROVE  AgreesAs(k, pair.into, data)
  <1>1. Members(x) \subseteq Members(pair.into)
    BY DEF Halves
  <1> QED
    BY <1>1 DEF AgreesAs

LEMMA StrippedAgrees ==
    ASSUME NEW k \in {"flags", "gir"}, NEW pair, Halves(pair), NEW x \in {pair.one, pair.two},
           NEW file, Fit(file), Agrees(k, x, file),
           NEW marks, marks = IF k = "flags" THEN AnyMark ELSE {IF x = pair.one THEN pair.name1 ELSE pair.name2},
           NEW f, f = Stripped(file, marks)
    PROVE  /\ Agrees(k, pair.into, f) /\ f.data = <<file.data[1], "none">>
           /\ \E a \in Members(x) : file.data[1] = input.files[a].data[1]
  <1>1. /\ file.kind = k /\ IsFile(file) /\ file.data = <<file.data[1], file.data[2]>>
        /\ k = "flags" => file.data[2] \in AnyMark \cup {"none"}
        /\ k = "gir" => file.data[2] \in MarksOf(x)
        /\ \E a \in Members(x) : file.data[1] = input.files[a].data[1]
    BY DEF Fit, Agrees, AgreesAs
  <1>2. f.kind = k /\ f.data = <<file.data[1], IF file.data[2] \in marks THEN "none" ELSE file.data[2]>>
    BY <1>1, StrippedIs
  <1>3. file.data[2] \in marks \/ file.data[2] = "none"
    <2>1. CASE k = "flags"
      BY <1>1, <2>1
    <2>2. CASE k = "gir" /\ x = pair.one
      BY <1>1, <2>2 DEF MarksOf, Halves
    <2>3. CASE k = "gir" /\ x = pair.two
      BY <1>1, <2>3 DEF MarksOf, Halves
    <2> QED
      BY <2>1, <2>2, <2>3
  <1>4. f.data = <<file.data[1], "none">>
    BY <1>2, <1>3
  <1>5. f.data[1] = file.data[1] /\ f.data[2] = "none"
    BY <1>4
  <1>6. Members(x) \subseteq Members(pair.into)
    BY DEF Halves
  <1>7. AgreesAs(k, pair.into, f.data)
    BY <1>1, <1>5, <1>6 DEF AgreesAs, MarksOf
  <1> QED
    BY <1>1, <1>2, <1>4, <1>7 DEF Agrees

\* Both halves of a pair have the file: merging it does not fail.
LEMMA AgreeMerged ==
    ASSUME NoReason, NEW k \in FileKinds, k \notin {"mod", "dont_diff"}, OfKind(k),
           NEW path, NEW one, NEW two, Fit(one), Fit(two), NEW pair, Halves(pair),
           Agrees(k, pair.one, one), Agrees(k, pair.two, two),
           NEW r, r = MergeFile(path, one, two, pair, input.deleteLa)
    PROVE  ~r.failed /\ Gives(r, k, pair.into, path)
  <1>1. one.kind = k /\ two.kind = k /\ IsFile(one) /\ IsFile(two)
        /\ AgreesAs(k, pair.one, one.data) /\ AgreesAs(k, pair.two, two.data)
    BY DEF Agrees, Fit
  <1>2. ASSUME NEW f, r.files = Single(path, f), Agrees(k, pair.into, f)
        PROVE  Gives(r, k, pair.into, path)
    <2>1. \A q \in DOMAIN r.files : q = path /\ r.files[q] = f
      BY <1>2, PutOne
    <2> QED
      BY <1>2, <2>1 DEF Gives
  <1>3. ASSUME NEW a \in Members(pair.one), NEW b \in Members(pair.two)
        PROVE  a \in Present /\ b \in Present /\ a # b /\ input.files[a].kind = k /\ input.files[b].kind = k
    BY <1>3 DEF Halves, Members, OfKind
  <1>4. CASE one.data = two.data
    <2>1. r.files = Single(path, one) /\ ~r.failed
      BY <1>1, <1>4, MergeSame
    <2>2. k = "gir" => one.data[2] \in MarksOf(pair.into)
      BY <1>1, <1>4 DEF AgreesAs, MarksOf, Halves
    <2>3. Agrees(k, pair.into, one)
      BY <1>1, <2>2, GoesInto DEF Agrees
    <2> QED
      BY <1>2, <2>1, <2>3
  <1>5. ASSUME one.data # two.data PROVE ~r.failed /\ Gives(r, k, pair.into, path)
    <2>0. OfDiffering(r, path, one, two, pair, input.deleteLa)
      BY <1>1, <1>5, MergeDiffer
    <2>1. CASE k \in {"link", "xz", "la"}
      <3>1. PICK a \in Members(pair.one), b \in Members(pair.two) :
                one.data = input.files[a].data /\ two.data = input.files[b].data
        BY <1>1, <2>1 DEF AgreesAs
      <3>2. k = "la" /\ input.deleteLa
        BY <1>3, <1>5, <2>1, <3>1, NoDifference
      <3>3. r = Writes(<<>>)
        BY <1>1, <2>0, <3>2 DEF OfDiffering
      <3>4. DOMAIN <<>> = {}
        OBVIOUS
      <3> QED
        BY <3>3, <3>4, ResultIs DEF Gives
    <2>2. CASE k = "binary"
      <3>1. ASSUME NEW c \in one.data, NEW d \in two.data, c[1] = d[1] PROVE FALSE
        <4>1. PICK a \in Members(pair.one), b \in Members(pair.two) :
                  c \in input.files[a].data /\ d \in input.files[b].data
          BY <1>1, <2>2, <3>1 DEF AgreesAs
        <4>2. OneFile
          BY <1>3, <2>2, <3>1, <4>1, NoDifference
        <4>3. PICK e \in Members(pair.one), g \in Members(pair.two) :
                  one.data = input.files[e].data /\ two.data = input.files[g].data
          BY <1>1, <2>2, <4>2 DEF AgreesAs
        <4>4. input.files[e] = input.files[g]
          BY <1>3, <4>2, <4>3 DEF OneFile
        <4> QED
          BY <1>5, <4>3, <4>4
      <3> DEFINE data == one.data \cup two.data
                 f == [one EXCEPT !.data = @ \cup two.data]
      <3>2. r = Writes(Single(path, f))
        BY <1>1, <2>0, <2>2, <3>1 DEF OfDiffering, MergeBinary
      <3>3. f = [one EXCEPT !.data = data]
        OBVIOUS
      <3>4. ~OneFile
        <4>1. SUFFICES ASSUME OneFile PROVE FALSE
          OBVIOUS
        <4>2. PICK e \in Members(pair.one), g \in Members(pair.two) :
                  one.data = input.files[e].data /\ two.data = input.files[g].data
          BY <1>1, <2>2, <4>1 DEF AgreesAs
        <4>3. input.files[e] = input.files[g]
          BY <1>3, <4>1, <4>2 DEF OneFile
        <4> QED
          BY <1>5, <4>2, <4>3
      <3>5. Members(pair.one) \subseteq Members(pair.into) /\ Members(pair.two) \subseteq Members(pair.into)
        BY DEF Halves
      <3>6. AgreesAs(k, pair.into, data)
        BY <1>1, <2>2, <3>4, <3>5 DEF AgreesAs
      <3> HIDE DEF f, data
      <3>7. f.kind = k /\ f.data = data
        BY <1>1, <3>3, Redone
      <3> QED
        BY <1>2, <3>2, <3>6, <3>7, ResultIs DEF Agrees
    <2>3. CASE k = "archive"
      <3> DEFINE f == [one EXCEPT !.data = @ \cup two.data]
                 data == one.data \cup two.data
      <3>1. r = Writes(Single(path, f))
        BY <1>1, <2>0, <2>3 DEF OfDiffering, MergeBinary
      <3>2. f = [one EXCEPT !.data = data]
        OBVIOUS
      <3> HIDE DEF f, data
      <3>3. f.kind = k
        BY <1>1, <3>2, Redone
      <3>4. Agrees(k, pair.into, f)
        BY <2>3, <3>3 DEF Agrees, AgreesAs
      <3> QED
        BY <1>2, <3>1, <3>4, ResultIs
    <2>4. CASE k \in {"header", "text", "combine"}
      <3> DEFINE data == Diff(one.data, two.data, IF k = "combine" THEN DiffFormatCombine ELSE pair.format)
                 f == [one EXCEPT !.data = data]
      <3>1. r = Writes(Single(path, f))
        BY <1>1, <2>0, <2>4 DEF OfDiffering
      <3> HIDE DEF data
      <3>2. f.kind = k
        BY <1>1, Redone
      <3> HIDE DEF f
      <3>3. Agrees(k, pair.into, f)
        BY <2>4, <3>2 DEF Agrees, AgreesAs
      <3> QED
        BY <1>2, <3>1, <3>3, ResultIs
    <2>5. CASE k \in {"equivalent", "assumed"}
      <3>1. r = Puts(Single(path, one))
        BY <1>1, <2>0, <2>5 DEF OfDiffering
      <3>2. Agrees(k, pair.into, one)
        BY <1>1, <2>5 DEF Agrees, AgreesAs
      <3> QED
        BY <1>2, <3>1, <3>2, ResultIs
    <2>6. CASE k = "packed"
      <3>1. PICK a \in Members(pair.one), b \in Members(pair.two) :
                one.data[1] = input.files[a].data[1] /\ two.data[1] = input.files[b].data[1]
        BY <1>1, <2>6 DEF AgreesAs
      <3>2. one.data[1] = two.data[1]
        BY <1>3, <2>6, <3>1, NoDifference
      <3>3. r = Puts(Single(path, one))
        BY <1>1, <2>0, <2>6, <3>2 DEF OfDiffering
      <3>4. Agrees(k, pair.into, one)
        BY <1>1, <2>6, GoesInto DEF Agrees
      <3> QED
        BY <1>2, <3>3, <3>4, ResultIs
    <2>7. CASE k \in {"flags", "gir"}
      <3> DEFINE f == Stripped(one, IF k = "flags" THEN AnyMark ELSE {pair.name1})
                 g == Stripped(two, IF k = "flags" THEN AnyMark ELSE {pair.name2})
      <3>1. r = MergeStripped(path, f, g)
        BY <1>1, <2>0, <2>7 DEF OfDiffering
      <3>2. Agrees(k, pair.into, f) /\ f.data = <<one.data[1], "none">>
            /\ \E a \in Members(pair.one) : one.data[1] = input.files[a].data[1]
        BY <2>7, StrippedAgrees
      <3>3. g.data = <<two.data[1], "none">>
            /\ \E b \in Members(pair.two) : two.data[1] = input.files[b].data[1]
        <4>1. pair.two # pair.one
          BY DEF Halves
        <4> QED
          BY <2>7, <4>1, StrippedAgrees
      <3> HIDE DEF f, g
      <3>4. one.data[1] = two.data[1]
        BY <1>3, <2>7, <3>2, <3>3, NoDifference
      <3>5. r = Puts(Single(path, f))
        BY <3>1, <3>2, <3>3, <3>4 DEF MergeStripped
      <3> QED
        BY <1>2, <3>2, <3>5, ResultIs
    <2> QED
      BY <2>1, <2>2, <2>3, <2>4, <2>5, <2>6, <2>7 DEF FileKinds
  <1> QED
    BY <1>4, <1>5

-----------------------------------------------------------------------------
(* Merges of trees that do not fail. *)

LEMMA NamedApart ==
    ASSUME NEW n, NEW m, NEW p \in Path, NEW q \in Path, n \in Word, m \in Word, <<n>> \o p = <<m>> \o q
    PROVE  n = m /\ p = q
  <1>1. n = m /\ Len(p) = Len(q) /\ Len(p) \in Nat
    BY PathNamed DEF Path
  <1>2. ASSUME NEW i \in 1 .. Len(p) PROVE p[i] = q[i]
    <2>1. (<<n>> \o p)[i + 1] = p[i] /\ (<<m>> \o q)[i + 1] = q[i]
      BY <1>1, <1>2 DEF Path
    <2> QED
      BY <2>1
  <1> QED
    BY <1>1, <1>2 DEF Path

\* Nothing is in the way of what is put, and no two paths put the same file.
LEMMA MergeSucceeds ==
    ASSUME NEW into, DOMAIN into = {}, NEW t1, NEW t2, NEW pair, NEW del,
           NEW M, M = MergeTree(into, t1, t2, pair, del),
           \A p \in DOMAIN t1 \cup DOMAIN t2 : ~At(p, t1, t2, pair, del).failed,
           \A p, q \in DOMAIN t1 \cup DOMAIN t2 : p # q =>
              DOMAIN At(p, t1, t2, pair, del).files \cap DOMAIN At(q, t1, t2, pair, del).files = {}
    PROVE  ~M.failed
  <1> DEFINE paths == DOMAIN t1 \cup DOMAIN t2
             results == [x \in paths |-> At(x, t1, t2, pair, del)]
             fails == \/ \E x \in paths : results[x].failed
                      \/ \E x \in paths : results[x].copies \cap DOMAIN into # {}
                      \/ \E x, y \in paths : x # y /\ DOMAIN results[x].files \cap DOMAIN results[y].files # {}
  <1>1. M.failed = fails
    BY DEF MergeTree
  <1>2. ~fails
    OBVIOUS
  <1> HIDE DEF fails
  <1> QED
    BY <1>1, <1>2

\* What a merge puts for a path is there or in a directory of one of the names.
Spread(r, p, pair) == DOMAIN r.files \subseteq {p, <<pair.name1>> \o p, <<pair.name2>> \o p}

LEMMA SpreadApart ==
    ASSUME NEW t1, NEW t2, NEW pair, NEW n1, NEW n2, NEW n, Joins(pair, n1, n2, n), Placed(t1, n1), Placed(t2, n2),
           NEW p \in DOMAIN t1 \cup DOMAIN t2, NEW q \in DOMAIN t1 \cup DOMAIN t2, p # q,
           NEW r1, NEW r2, Spread(r1, p, pair), Spread(r2, q, pair)
    PROVE  DOMAIN r1.files \cap DOMAIN r2.files = {}
  <1>1. p \in Path /\ q \in Path /\ pair.name1 \in Word /\ pair.name2 \in Word /\ pair.name1 # pair.name2
    BY MarksAreWords DEF Placed, Joins
  <1>2. ASSUME NEW z \in DOMAIN t1 \cup DOMAIN t2 PROVE z[1] \notin {pair.name1, pair.name2}
    <2>1. z = Top \/ z[1] \in n1 \cup n2 \cup ModuleDirs
      BY DEF Placed
    <2>2. pair.name1 \in Marks /\ pair.name2 \in Marks
      BY DEF Joins
    <2> QED
      BY <2>1, <2>2, MarksAreWords, TopIsPath DEF Joins
  <1>3. /\ (<<pair.name1>> \o p)[1] = pair.name1 /\ (<<pair.name2>> \o p)[1] = pair.name2
        /\ (<<pair.name1>> \o q)[1] = pair.name1 /\ (<<pair.name2>> \o q)[1] = pair.name2
    BY <1>1, PathNamed
  <1>4. <<pair.name1>> \o p # <<pair.name1>> \o q /\ <<pair.name2>> \o p # <<pair.name2>> \o q
    BY <1>1, NamedApart
  <1> DEFINE p1 == <<pair.name1>> \o p
             p2 == <<pair.name2>> \o p
             q1 == <<pair.name1>> \o q
             q2 == <<pair.name2>> \o q
  <1>5. /\ p1[1] = pair.name1 /\ p2[1] = pair.name2 /\ q1[1] = pair.name1 /\ q2[1] = pair.name2
        /\ p1 # q1 /\ p2 # q2 /\ p[1] \notin {pair.name1, pair.name2} /\ q[1] \notin {pair.name1, pair.name2}
        /\ DOMAIN r1.files \subseteq {p, p1, p2} /\ DOMAIN r2.files \subseteq {q, q1, q2}
    BY <1>2, <1>3, <1>4 DEF Spread
  <1> HIDE DEF p1, p2, q1, q2
  <1> QED
    BY <1>1, <1>5

\* One tree, of files of a kind.
Sound(k, x, t) ==
    /\ \A p \in DOMAIN t : t[p].kind = k
    /\ k \notin {"dont_diff", "mod"} => \A p \in DOMAIN t : p = Top /\ Agrees(k, x, t[p])

\* Two halves, and the mark of one that finds no other.
Pairing(k, pair, t1, t2) ==
    /\ Halves(pair)
    /\ Sound(k, pair.one, t1) /\ Sound(k, pair.two, t2)

\* The mark in a file that only one half has is one that may stay.
Unmarked(k, pair, t1, t2) ==
    k = "gir" => /\ \A p \in DOMAIN t1 \ DOMAIN t2 : t1[p].data[2] \in MarksOf(pair.into)
                 /\ \A p \in DOMAIN t2 \ DOMAIN t1 : t2[p].data[2] \in MarksOf(pair.into)

\* For each path of the two.
LEMMA EachMerged ==
    ASSUME NoReason, NEW k \in FileKinds, k # "mod", OfKind(k), NEW t1, NEW t2, NEW pair,
           NEW n1, NEW n2, NEW n, Joins(pair, n1, n2, n), Placed(t1, n1), Placed(t2, n2),
           Pairing(k, pair, t1, t2), NEW p \in DOMAIN t1 \cup DOMAIN t2,
           NEW r, r = At(p, t1, t2, pair, input.deleteLa)
    PROVE  /\ ~r.failed /\ Spread(r, p, pair)
           /\ \A q \in DOMAIN r.files : r.files[q].kind = k
           /\ Unmarked(k, pair, t1, t2) /\ k # "dont_diff" => Gives(r, k, pair.into, p)
  <1>1. ASSUME NEW x \in {pair.one, pair.two}, NEW file, r = Puts(Single(p, file)), file.kind = k,
               k # "dont_diff" => p = Top /\ Agrees(k, x, file),
               Unmarked(k, pair, t1, t2) /\ k = "gir" => file.data[2] \in MarksOf(pair.into)
        PROVE  /\ ~r.failed /\ Spread(r, p, pair)
               /\ \A q \in DOMAIN r.files : r.files[q].kind = k
               /\ Unmarked(k, pair, t1, t2) /\ k # "dont_diff" => Gives(r, k, pair.into, p)
    <2>1. r.files = Single(p, file) /\ ~r.failed
      BY <1>1, ResultIs
    <2>4. r.files = Single(p, file)
      BY <2>1
    <2>2. DOMAIN r.files = {p} /\ \A q \in DOMAIN r.files : q = p /\ r.files[q] = file
      BY ONLY <2>4, PutOne
    <2>3. Unmarked(k, pair, t1, t2) /\ k # "dont_diff" => Agrees(k, pair.into, file)
      <3>1. Halves(pair)
        BY DEF Pairing
      <3> QED
        BY <1>1, <3>1, GoesInto DEF Agrees
    <2> QED
      BY <1>1, <2>1, <2>2, <2>3 DEF Spread, Gives
  <1>2. CASE p \notin DOMAIN t1
    <2> DEFINE file == t2[p]
    <2>1. r = Puts(Single(p, file)) /\ file.kind = k /\ (k # "dont_diff" => p = Top /\ Agrees(k, pair.two, file))
          /\ (Unmarked(k, pair, t1, t2) /\ k = "gir" => file.data[2] \in MarksOf(pair.into))
      BY <1>2 DEF At, Pairing, Sound, Unmarked
    <2> HIDE DEF file
    <2> QED
      BY <1>1, <2>1
  <1>3. CASE p \in DOMAIN t1 /\ p \notin DOMAIN t2
    <2> DEFINE file == t1[p]
    <2>1. r = Puts(Single(p, file)) /\ file.kind = k /\ (k # "dont_diff" => p = Top /\ Agrees(k, pair.one, file))
          /\ (Unmarked(k, pair, t1, t2) /\ k = "gir" => file.data[2] \in MarksOf(pair.into))
      BY <1>3 DEF At, Pairing, Sound, Unmarked
    <2> HIDE DEF file
    <2> QED
      BY <1>1, <2>1
  <1>4. CASE p \in DOMAIN t1 /\ p \in DOMAIN t2
    <2> DEFINE one == t1[p]
               two == t2[p]
    <2>1. /\ r = MergeFile(p, one, two, pair, input.deleteLa) /\ Fit(one) /\ Fit(two) /\ p \in Path
          /\ one.kind = k /\ two.kind = k
          /\ k # "dont_diff" => p = Top /\ Agrees(k, pair.one, one) /\ Agrees(k, pair.two, two)
      BY <1>4 DEF At, Placed, Pairing, Sound
    <2> HIDE DEF one, two
    <2>2. CASE k # "dont_diff"
      <3>1. ~r.failed /\ Gives(r, k, pair.into, p)
        BY <2>1, <2>2, AgreeMerged DEF Pairing
      <3> QED
        BY <3>1 DEF Gives, Agrees, Spread
    <2>3. CASE k = "dont_diff" /\ one.data = two.data
      <3>1. r.files = Single(p, one) /\ ~r.failed
        BY <2>1, <2>3, MergeSame
      <3>2. DOMAIN r.files = {p} /\ \A q \in DOMAIN r.files : q = p /\ r.files[q] = one
        BY <3>1, PutOne
      <3> QED
        BY <2>1, <2>3, <3>1, <3>2 DEF Spread
    <2>4. CASE k = "dont_diff" /\ one.data # two.data
      <3>1. r = Divide(p, one, two, pair)
        <4>1. OfDiffering(r, p, one, two, pair, input.deleteLa)
          BY <2>1, <2>4, MergeDiffer
        <4> QED
          BY <2>1, <2>4, <4>1 DEF OfDiffering
      <3> DEFINE p1 == <<pair.name1>> \o p
                 p2 == <<pair.name2>> \o p
      <3>2. DividedAs(r, p, p1, p2, one, two, pair.format)
        <4>1. pair.name1 \in Word /\ pair.name2 \in Word /\ pair.name1 # pair.name2 /\ IsFile(one)
          BY <2>1, MarksAreWords DEF Joins, Fit
        <4> QED
          BY <2>1, <3>1, <4>1, Divided
      <3>3. Spread(r, p, pair)
        BY <3>2 DEF DividedAs, Spread
      <3> HIDE DEF p1, p2
      <3>4. ~r.failed /\ \A q \in DOMAIN r.files : r.files[q].kind = k
        BY <2>1, <3>2 DEF DividedAs
      <3> QED
        BY <2>4, <3>3, <3>4
    <2> QED
      BY <2>2, <2>3, <2>4
  <1> QED
    BY <1>2, <1>3, <1>4

\* The two trees.
LEMMA TreesMerged ==
    ASSUME NoReason, NEW k \in FileKinds, k # "mod", OfKind(k), NEW into, DOMAIN into = {}, NEW t1, NEW t2, NEW pair,
           NEW n1, NEW n2, NEW n, Joins(pair, n1, n2, n), Placed(t1, n1), Placed(t2, n2),
           Pairing(k, pair, t1, t2),
           NEW M, M = MergeTree(into, t1, t2, pair, input.deleteLa)
    PROVE  ~M.failed /\ (Unmarked(k, pair, t1, t2) => Sound(k, pair.into, M.tree))
  <1> DEFINE R(p) == At(p, t1, t2, pair, input.deleteLa)
             paths == DOMAIN t1 \cup DOMAIN t2
  <1>1. \A p \in paths : ~R(p).failed /\ Spread(R(p), p, pair) /\ (\A q \in DOMAIN R(p).files : R(p).files[q].kind = k)
          /\ (Unmarked(k, pair, t1, t2) /\ k # "dont_diff" => Gives(R(p), k, pair.into, p))
    BY EachMerged
  <1>2. \A p, q \in paths : p # q => DOMAIN R(p).files \cap DOMAIN R(q).files = {}
    BY <1>1, SpreadApart
  <1>3. ~M.failed
    BY <1>1, <1>2, MergeSucceeds
  <1>4. ASSUME Unmarked(k, pair, t1, t2), NEW q \in DOMAIN M.tree
        PROVE  M.tree[q].kind = k /\ (k # "dont_diff" => q = Top /\ Agrees(k, pair.into, M.tree[q]))
    <2>1. PICK p \in paths : q \in DOMAIN R(p).files
      BY <1>3, MergedDomain
    <2>2. M.tree[q] = R(p).files[q]
      BY <1>3, <2>1, MergedFile
    <2>3. k # "dont_diff" => p = Top
      BY DEF Pairing, Sound
    <2> HIDE DEF R, paths
    <2>4. M.tree[q].kind = k
      BY <1>1, <2>1, <2>2
    <2>5. k # "dont_diff" => q = Top /\ Agrees(k, pair.into, M.tree[q])
      BY <1>1, <1>4, <2>1, <2>2, <2>3 DEF Gives
    <2> QED
      BY <2>4, <2>5
  <1>5. Unmarked(k, pair, t1, t2) => Sound(k, pair.into, M.tree)
    BY <1>4 DEF Sound
  <1> QED
    BY <1>3, <1>5

-----------------------------------------------------------------------------
(* Merges of modules of Fortran. *)

First(p) == <<"mods32">> \o p
Second(p) == <<"mods64">> \o p
OfModules(t) == \A p \in DOMAIN t : p \in Path /\ t[p].kind = "mod"

\* A tree with one module at most, that of one of its architectures.
Lone(x, t) == DOMAIN t \subseteq {Top} /\ (Top \in DOMAIN t => \E c \in Members(x) : t[Top] = input.files[c])

\* The module at the top is that of one architecture; another family was divided.
TopKept(x, t) ==
    \E c \in Members(x) :
       /\ t[Top] = input.files[c]
       /\ \/ DOMAIN t = {Top}
          \/ \E a, b \in Members(x) : b \in Family(a) /\ c \notin Family(a) /\ input.files[a] # input.files[b]

\* That of a family, and that of both of them.
FamilyModules(x, t) ==
    \/ Lone(x, t)
    \/ /\ DOMAIN t = {First(Top), Second(Top)}
       /\ \E a, b \in Members(x) : input.files[a] # input.files[b]
AllModules(x, t) == Top \in DOMAIN t => TopKept(x, t)

\* What is put for a path: two files if the trees differ there.
Differing(t1, t2, p) == p \in DOMAIN t1 /\ p \in DOMAIN t2 /\ t1[p].data # t2[p].data
ModulesPut(r, t1, t2, p) ==
    /\ ~r.failed /\ \A q \in DOMAIN r.files : r.files[q].kind = "mod"
    /\ Differing(t1, t2, p) => DOMAIN r.files = {First(p), Second(p)}
    /\ ~Differing(t1, t2, p) => DOMAIN r.files = {p} /\ r.files[p] = IF p \in DOMAIN t1 THEN t1[p] ELSE t2[p]

LEMMA ModulesAt ==
    ASSUME NEW t1, NEW t2, OfModules(t1), OfModules(t2), NEW p \in DOMAIN t1 \cup DOMAIN t2, NEW pair, NEW del,
           NEW r, r = At(p, t1, t2, pair, del)
    PROVE  ModulesPut(r, t1, t2, p)
  <1>1. ASSUME NEW file, file.kind = "mod", r.files = Single(p, file), ~r.failed, ~Differing(t1, t2, p),
               file = IF p \in DOMAIN t1 THEN t1[p] ELSE t2[p]
        PROVE  ModulesPut(r, t1, t2, p)
    <2>0. r.files = Single(p, file)
      BY <1>1
    <2>1. DOMAIN r.files = {p} /\ r.files[p] = file
      BY ONLY <2>0, PutOne
    <2> QED
      BY <1>1, <2>1 DEF ModulesPut
  <1>2. CASE p \notin DOMAIN t1
    <2> DEFINE file == t2[p]
    <2>1. r = Puts(Single(p, file)) /\ file.kind = "mod"
      BY <1>2 DEF At, OfModules
    <2>2. file = IF p \in DOMAIN t1 THEN t1[p] ELSE t2[p]
      BY <1>2
    <2> HIDE DEF file
    <2> QED
      BY <1>1, <1>2, <2>1, <2>2, ResultIs DEF Differing
  <1>3. CASE p \in DOMAIN t1 /\ p \notin DOMAIN t2
    <2> DEFINE file == t1[p]
    <2>1. r = Puts(Single(p, file)) /\ file.kind = "mod"
      BY <1>3 DEF At, OfModules
    <2>2. file = IF p \in DOMAIN t1 THEN t1[p] ELSE t2[p]
      BY <1>3
    <2> HIDE DEF file
    <2> QED
      BY <1>1, <1>3, <2>1, <2>2, ResultIs DEF Differing
  <1>4. CASE p \in DOMAIN t1 /\ p \in DOMAIN t2
    <2> DEFINE one == t1[p]
               two == t2[p]
    <2>1. r = MergeFile(p, one, two, pair, del) /\ one.kind = "mod" /\ two.kind = "mod" /\ p \in Path
      BY <1>4 DEF At, OfModules
    <2>2. one = (IF p \in DOMAIN t1 THEN t1[p] ELSE t2[p]) /\ (Differing(t1, t2, p) <=> one.data # two.data)
      BY <1>4 DEF Differing
    <2> HIDE DEF one, two
    <2>3. CASE one.data = two.data
      <3>1. r.files = Single(p, one) /\ ~r.failed
        BY <2>1, <2>3, MergeSame
      <3> QED
        BY <1>1, <2>1, <2>2, <2>3, <3>1
    <2>4. CASE one.data # two.data
      <3>1. OfDiffering(r, p, one, two, pair, del)
        BY <2>1, <2>4, MergeDiffer
      <3>2. r = DivideModules(p, one, two, pair)
        BY <2>1, <3>1 DEF OfDiffering
      <3>3. ModulesAs(r, First(p), Second(p), one, two)
        BY <2>1, <3>2, ModulesDivided DEF First, Second
      <3> QED
        BY <2>1, <2>2, <2>4, <3>3 DEF ModulesAs, ModulesPut
    <2> QED
      BY <2>3, <2>4
  <1> QED
    BY <1>2, <1>3, <1>4

LEMMA ModulePaths ==
    /\ Top \in Path /\ First(Top) \in Path /\ Second(Top) \in Path
    /\ \A p \in Path : Len(First(p)) = Len(p) + 1 /\ Len(Second(p)) = Len(p) + 1 /\ Len(p) \in Nat
    /\ \A p, q \in Path : First(p) # Second(q) /\ (p # q => First(p) # First(q) /\ Second(p) # Second(q))
    /\ Len(Top) = 1
  <1>1. "mods32" \in Word /\ "mods64" \in Word
    BY DEF Word
  <1>2. \A p \in Path : Len(p) \in Nat
    BY DEF Path
  <1> QED
    BY <1>1, <1>2, PathNamed, NamedApart, TopIsPath DEF First, Second

\* What becomes of two trees of modules that do not get in the way of each other.
LEMMA ModulesMerged ==
    ASSUME NEW t1, NEW t2, OfModules(t1), OfModules(t2), NEW into, DOMAIN into = {}, NEW pair, NEW del,
           NEW M, M = MergeTree(into, t1, t2, pair, del),
           \A p, q \in DOMAIN t1 \cup DOMAIN t2 : p # q /\ Differing(t1, t2, p) =>
              q \notin {First(p), Second(p)}
    PROVE  /\ ~M.failed /\ \A q \in DOMAIN M.tree : M.tree[q].kind = "mod"
           /\ \A q \in DOMAIN M.tree : \E p \in DOMAIN t1 \cup DOMAIN t2 :
                 IF Differing(t1, t2, p) THEN q \in {First(p), Second(p)} ELSE q = p
           /\ \A p \in DOMAIN t1 \cup DOMAIN t2 :
                 IF Differing(t1, t2, p) THEN {First(p), Second(p)} \subseteq DOMAIN M.tree
                 ELSE p \in DOMAIN M.tree /\ M.tree[p] = IF p \in DOMAIN t1 THEN t1[p] ELSE t2[p]
  <1> DEFINE R(p) == At(p, t1, t2, pair, del)
             paths == DOMAIN t1 \cup DOMAIN t2
  <1>1. \A p \in paths : ModulesPut(R(p), t1, t2, p)
    BY ModulesAt
  <1>2. ASSUME NEW p \in paths, NEW q \in paths, p # q
        PROVE  DOMAIN R(p).files \cap DOMAIN R(q).files = {}
    <2>1. p \in Path /\ q \in Path
      BY DEF OfModules
    <2>2. First(p) # Second(q) /\ First(p) # First(q) /\ Second(p) # Second(q) /\ First(q) # Second(p)
      BY <1>2, <2>1, ModulePaths
    <2>3. DOMAIN R(p).files = IF Differing(t1, t2, p) THEN {First(p), Second(p)} ELSE {p}
      BY <1>1 DEF ModulesPut
    <2>4. DOMAIN R(q).files = IF Differing(t1, t2, q) THEN {First(q), Second(q)} ELSE {q}
      BY <1>1 DEF ModulesPut
    <2>5. /\ Differing(t1, t2, p) => q \notin {First(p), Second(p)}
          /\ Differing(t1, t2, q) => p \notin {First(q), Second(q)}
      BY <1>2
    <2> HIDE DEF R, paths
    <2> QED
      BY <1>2, <2>2, <2>3, <2>4, <2>5
  <1>3. ~M.failed
    <2>1. \A p \in paths : ~R(p).failed
      BY <1>1 DEF ModulesPut
    <2> QED
      BY <1>2, <2>1, MergeSucceeds
  <1>4. ASSUME NEW p \in paths, NEW q \in DOMAIN R(p).files PROVE q \in DOMAIN M.tree /\ M.tree[q] = R(p).files[q]
    BY <1>3, <1>4, MergedFile
  <1>5. ASSUME NEW q \in DOMAIN M.tree PROVE \E p \in paths : q \in DOMAIN R(p).files
    BY <1>3, <1>5, MergedDomain
  <1> HIDE DEF R, paths
  <1>6. ASSUME NEW q \in DOMAIN M.tree
        PROVE  /\ M.tree[q].kind = "mod"
               /\ \E p \in paths : IF Differing(t1, t2, p) THEN q \in {First(p), Second(p)} ELSE q = p
    <2>1. PICK p \in paths : q \in DOMAIN R(p).files
      BY <1>5
    <2>2. M.tree[q] = R(p).files[q] /\ ModulesPut(R(p), t1, t2, p)
      BY <1>1, <1>4, <2>1
    <2> QED
      BY <2>1, <2>2 DEF ModulesPut
  <1>7. ASSUME NEW p \in paths
        PROVE  IF Differing(t1, t2, p) THEN {First(p), Second(p)} \subseteq DOMAIN M.tree
               ELSE p \in DOMAIN M.tree /\ M.tree[p] = IF p \in DOMAIN t1 THEN t1[p] ELSE t2[p]
    <2>1. ModulesPut(R(p), t1, t2, p) /\ DOMAIN R(p).files \subseteq DOMAIN M.tree
      BY <1>1, <1>4
    <2> QED
      BY <1>4, <2>1 DEF ModulesPut
  <1> QED
    BY <1>3, <1>6, <1>7 DEF paths

\* Two of a family.
LEMMA FamilyMerged ==
    ASSUME NEW t1, NEW t2, OfModules(t1), OfModules(t2), NEW into, DOMAIN into = {}, NEW pair, NEW del, Halves(pair),
           Lone(pair.one, t1), Lone(pair.two, t2), NEW M, M = MergeTree(into, t1, t2, pair, del)
    PROVE  ~M.failed /\ (\A q \in DOMAIN M.tree : M.tree[q].kind = "mod") /\ FamilyModules(pair.into, M.tree)
  <1>1. DOMAIN t1 \cup DOMAIN t2 \subseteq {Top}
    BY DEF Lone
  <1>2. \A p, q \in DOMAIN t1 \cup DOMAIN t2 : p # q /\ Differing(t1, t2, p) => q \notin {First(p), Second(p)}
    BY <1>1
  <1>3. Members(pair.one) \subseteq Members(pair.into) /\ Members(pair.two) \subseteq Members(pair.into)
    BY DEF Halves
  <1>4. /\ ~M.failed /\ \A q \in DOMAIN M.tree : M.tree[q].kind = "mod"
        /\ \A q \in DOMAIN M.tree : \E p \in DOMAIN t1 \cup DOMAIN t2 :
              IF Differing(t1, t2, p) THEN q \in {First(p), Second(p)} ELSE q = p
        /\ \A p \in DOMAIN t1 \cup DOMAIN t2 :
              IF Differing(t1, t2, p) THEN {First(p), Second(p)} \subseteq DOMAIN M.tree
              ELSE p \in DOMAIN M.tree /\ M.tree[p] = IF p \in DOMAIN t1 THEN t1[p] ELSE t2[p]
    BY <1>2, ModulesMerged
  <1>5. CASE Differing(t1, t2, Top)
    <2>1. Top \in DOMAIN t1 /\ Top \in DOMAIN t2 /\ t1[Top].data # t2[Top].data
      BY <1>5 DEF Differing
    <2>2. DOMAIN M.tree = {First(Top), Second(Top)}
      <3>1. {First(Top), Second(Top)} \subseteq DOMAIN M.tree
        BY <1>4, <1>5, <2>1
      <3>2. \A q \in DOMAIN M.tree : q \in {First(Top), Second(Top)}
        BY <1>1, <1>4, <1>5
      <3> QED
        BY <3>1, <3>2
    <2>3. PICK a \in Members(pair.one), b \in Members(pair.two) : t1[Top] = input.files[a] /\ t2[Top] = input.files[b]
      BY <2>1 DEF Lone
    <2>4. a \in Members(pair.into) /\ b \in Members(pair.into) /\ input.files[a] # input.files[b]
      BY <1>3, <2>1, <2>3
    <2> QED
      BY <1>4, <2>2, <2>4 DEF FamilyModules
  <1>6. CASE ~Differing(t1, t2, Top)
    <2>1. DOMAIN M.tree \subseteq {Top}
      BY <1>1, <1>4, <1>6
    <2>2. ASSUME Top \in DOMAIN M.tree PROVE \E c \in Members(pair.into) : M.tree[Top] = input.files[c]
      <3>1. Top \in DOMAIN t1 \cup DOMAIN t2
        BY <1>1, <1>4, <2>2
      <3>2. M.tree[Top] = IF Top \in DOMAIN t1 THEN t1[Top] ELSE t2[Top]
        BY <1>4, <1>6, <3>1
      <3> QED
        BY <1>3, <3>1, <3>2 DEF Lone
    <2> QED
      BY <1>4, <2>1, <2>2 DEF FamilyModules, Lone
  <1> QED
    BY <1>5, <1>6

\* Two families.
LEMMA FamiliesMerged ==
    ASSUME NEW A, A = First(Top), NEW B, B = Second(Top), NEW t1, NEW t2, OfModules(t1), OfModules(t2), NEW into, DOMAIN into = {}, NEW pair, NEW del, Halves(pair),
           FamilyModules(pair.one, t1), FamilyModules(pair.two, t2),
           \A x \in {pair.one, pair.two} : \A a, b \in Members(x) : b \in Family(a),
           \A a \in Members(pair.one), b \in Members(pair.two) : b \notin Family(a) /\ a \notin Family(b),
           NEW M, M = MergeTree(into, t1, t2, pair, del)
    PROVE  ~M.failed /\ (\A q \in DOMAIN M.tree : M.tree[q].kind = "mod") /\ AllModules(pair.into, M.tree)
  <1> DEFINE paths == DOMAIN t1 \cup DOMAIN t2
  <1>1. /\ Top \in Path /\ A \in Path /\ B \in Path /\ Len(Top) = 1 /\ Len(A) = 2 /\ Len(B) = 2
        /\ A # Top /\ B # Top
    <2>1. Len(First(Top)) = Len(Top) + 1 /\ Len(Second(Top)) = Len(Top) + 1 /\ Len(Top) = 1 /\ Top \in Path
          /\ First(Top) \in Path /\ Second(Top) \in Path
      BY ModulePaths
    <2>2. Len(A) = Len(Top) + 1 /\ Len(B) = Len(Top) + 1 /\ A \in Path /\ B \in Path
      BY <2>1
    <2> QED
      BY <2>1, <2>2
  <1>8. \A p \in Path : Len(First(p)) = Len(p) + 1 /\ Len(Second(p)) = Len(p) + 1 /\ Len(p) \in Nat
    BY ModulePaths
  <1>2. Members(pair.one) \subseteq Members(pair.into) /\ Members(pair.two) \subseteq Members(pair.into)
    BY DEF Halves
  <1>3. /\ Lone(pair.one, t1) \/ (DOMAIN t1 = {A, B} /\ \E a, b \in Members(pair.one) : input.files[a] # input.files[b])
        /\ Lone(pair.two, t2) \/ (DOMAIN t2 = {A, B} /\ \E a, b \in Members(pair.two) : input.files[a] # input.files[b])
    BY DEF FamilyModules
  <1>9. /\ Lone(pair.one, t1) => DOMAIN t1 \subseteq {Top} /\ (Top \in DOMAIN t1 =>
              \E c \in Members(pair.one) : t1[Top] = input.files[c])
        /\ Lone(pair.two, t2) => DOMAIN t2 \subseteq {Top} /\ (Top \in DOMAIN t2 =>
              \E c \in Members(pair.two) : t2[Top] = input.files[c])
    BY DEF Lone
  <1>4. ASSUME NEW p \in paths, NEW q \in paths, p # q, Differing(t1, t2, p) PROVE q \notin {First(p), Second(p)}
    <2>1. p \in DOMAIN t1 /\ p \in DOMAIN t2
      BY <1>4 DEF Differing
    <2>2. p \in {A, B} /\ q \in {A, B}
      BY <1>1, <1>3, <1>4, <1>9, <2>1
    <2> QED
      BY <1>1, <1>8, <2>2
  <1>5. /\ ~M.failed /\ \A q \in DOMAIN M.tree : M.tree[q].kind = "mod"
        /\ \A q \in DOMAIN M.tree : \E p \in paths :
              IF Differing(t1, t2, p) THEN q \in {First(p), Second(p)} ELSE q = p
        /\ \A p \in paths :
              IF Differing(t1, t2, p) THEN {First(p), Second(p)} \subseteq DOMAIN M.tree
              ELSE p \in DOMAIN M.tree /\ M.tree[p] = IF p \in DOMAIN t1 THEN t1[p] ELSE t2[p]
    BY <1>4, ModulesMerged
  <1>6. ASSUME Top \in DOMAIN M.tree PROVE TopKept(pair.into, M.tree)
    <2>1. Top \in paths /\ ~Differing(t1, t2, Top)
      <3>1. PICK p \in paths : IF Differing(t1, t2, p) THEN Top \in {First(p), Second(p)} ELSE Top = p
        BY <1>5, <1>6
      <3>2. p \in {Top, A, B}
        BY <1>3, <1>9
      <3>3. p \in Path /\ Len(p) \in {1, 2}
        <4>1. CASE p = Top
          BY <1>1, <4>1
        <4>2. CASE p = A
          BY <1>1, <4>2
        <4>3. CASE p = B
          BY <1>1, <4>3
        <4> QED
          BY <3>2, <4>1, <4>2, <4>3
      <3>5. Len(First(p)) = Len(p) + 1 /\ Len(Second(p)) = Len(p) + 1
        BY <1>8, <3>3
      <3>6. Len(First(p)) # 1 /\ Len(Second(p)) # 1
        BY <3>3, <3>5
      <3>4. Top \notin {First(p), Second(p)}
        BY <1>1, <3>6
      <3> QED
        BY <3>1, <3>4
    <2>2. M.tree[Top] = IF Top \in DOMAIN t1 THEN t1[Top] ELSE t2[Top]
      BY <1>5, <2>1
    <2>3. CASE paths = {Top}
      <3>1. DOMAIN M.tree = {Top}
        BY <1>5, <2>1, <2>3
      <3>2. \E c \in Members(pair.into) : M.tree[Top] = input.files[c]
        <4>1. Lone(pair.one, t1) /\ Lone(pair.two, t2)
          BY <1>1, <1>3, <2>3
        <4> QED
          BY <1>2, <1>9, <2>1, <2>2, <4>1
      <3> QED
        BY <3>1, <3>2 DEF TopKept
    <2>4. ASSUME paths # {Top}, Top \in DOMAIN t1 PROVE TopKept(pair.into, M.tree)
      <3>5. Lone(pair.one, t1) /\ DOMAIN t1 = {Top}
        <4>1. DOMAIN t1 # {A, B}
          BY <1>1, <2>4
        <4>2. Lone(pair.one, t1)
          BY <1>3, <4>1
        <4>3. DOMAIN t1 \subseteq {Top} /\ Top \in DOMAIN t1
          BY <1>9, <2>4, <4>2
        <4> QED
          BY ONLY <4>2, <4>3
      <3>6. ~Lone(pair.two, t2)
        BY <1>9, <2>4, <3>5
      <3>1. DOMAIN t1 = {Top} /\ DOMAIN t2 = {A, B}
        BY <1>3, <3>5, <3>6
      <3>2. PICK c \in Members(pair.one) : t1[Top] = input.files[c]
        BY <1>1, <1>3, <1>9, <3>1
      <3>3. PICK a \in Members(pair.two), b \in Members(pair.two) : input.files[a] # input.files[b]
        BY <1>1, <1>3, <1>9, <3>1
      <3>4. M.tree[Top] = input.files[c] /\ b \in Family(a) /\ c \notin Family(a)
        BY <2>2, <3>1, <3>2, <3>3
      <3> QED
        BY <1>2, <3>2, <3>3, <3>4 DEF TopKept
    <2>5. ASSUME paths # {Top}, Top \notin DOMAIN t1 PROVE TopKept(pair.into, M.tree)
      <3>5. Lone(pair.two, t2) /\ DOMAIN t2 = {Top}
        <4>1. Top \in DOMAIN t2
          BY <2>1, <2>5
        <4>2. DOMAIN t2 # {A, B}
          BY <1>1, <4>1
        <4>3. Lone(pair.two, t2)
          BY <1>3, <4>2
        <4> QED
          BY <1>9, <4>1, <4>3
      <3>6. ~Lone(pair.one, t1)
        BY <1>9, <2>1, <2>5, <3>5
      <3>1. DOMAIN t2 = {Top} /\ DOMAIN t1 = {A, B}
        BY <1>3, <3>5, <3>6
      <3>2. PICK c \in Members(pair.two) : t2[Top] = input.files[c]
        BY <1>1, <1>3, <1>9, <3>1
      <3>3. PICK a \in Members(pair.one), b \in Members(pair.one) : input.files[a] # input.files[b]
        BY <1>1, <1>3, <1>9, <3>1
      <3>4. M.tree[Top] = input.files[c] /\ b \in Family(a) /\ c \notin Family(a)
        BY <2>2, <2>5, <3>2, <3>3
      <3> QED
        BY <1>2, <3>2, <3>3, <3>4 DEF TopKept
    <2> QED
      BY <2>3, <2>4, <2>5
  <1>7. AllModules(pair.into, M.tree)
    BY <1>6 DEF AllModules
  <1> QED
    BY <1>5, <1>7

\* What is divided at the end was not divided before, or was met.
LEMMA LastMerged ==
    ASSUME ~ModulesMet, OfKind("mod"), NEW t1, NEW t2, OfModules(t1), OfModules(t2), NEW into, DOMAIN into = {},
           NEW pair, NEW del, pair.one = "arm64", pair.two = "ppc-intel", Lone(pair.one, t1), AllModules(pair.two, t2),
           NEW M, M = MergeTree(into, t1, t2, pair, del)
    PROVE  ~M.failed
  <1>1. ASSUME NEW p \in DOMAIN t1 \cup DOMAIN t2, NEW q \in DOMAIN t1 \cup DOMAIN t2, p # q, Differing(t1, t2, p)
        PROVE  FALSE
    <2>1. p \in DOMAIN t1 /\ p \in DOMAIN t2 /\ t1[p].data # t2[p].data
      BY <1>1 DEF Differing
    <2>2. DOMAIN t1 \subseteq {Top} /\ p = Top
      BY <2>1 DEF Lone
    <2>3. PICK d \in Members("arm64") : t1[Top] = input.files[d]
      BY <2>1, <2>2 DEF Lone
    <2>4. PICK c \in Members("ppc-intel") :
              /\ t2[Top] = input.files[c]
              /\ \/ DOMAIN t2 = {Top}
                 \/ \E a, b \in Members("ppc-intel") :
                       b \in Family(a) /\ c \notin Family(a) /\ input.files[a] # input.files[b]
      <3>1. Top \in DOMAIN t2
        BY <2>1, <2>2
      <3>2. TopKept("ppc-intel", t2)
        BY <3>1 DEF AllModules
      <3> QED
        BY <3>2 DEF TopKept
    <2>5. DOMAIN t2 # {Top}
      BY <1>1, <2>2
    <2>6. PICK a \in Members("ppc-intel"), b \in Members("ppc-intel") :
              b \in Family(a) /\ c \notin Family(a) /\ input.files[a] # input.files[b]
      BY <2>4, <2>5
    <2>7. d = "arm64" /\ d \in Present
      BY DEF Members, Under
    <2>8. {a, b, c} \subseteq Architectures \ {"arm64"} /\ {a, b, c} \subseteq Present
      BY DEF Members, Under, Architectures
    <2>9. input.files[c] # input.files["arm64"]
      BY <2>1, <2>2, <2>3, <2>4, <2>7
    <2>10. \A e \in Present : e \in archs \cap DOMAIN input.files /\ input.files[e].kind = "mod"
      BY DEF Present, OfKind
    <2> QED
      BY <2>6, <2>7, <2>8, <2>9, <2>10 DEF ModulesMet
  <1> QED
    BY <1>1, ModulesMerged

-----------------------------------------------------------------------------
(* The four merges fail for a reason only. *)

\* The tree of a group of architectures, and either half of a pair.
Right(k, x, t) ==
    IF k = "mod"
      THEN /\ \A p \in DOMAIN t : t[p].kind = "mod"
           /\ IF x = "ppc-intel" THEN AllModules(x, t) ELSE FamilyModules(x, t)
      ELSE Sound(k, x, t)
Half(k, x, t) ==
    /\ Placed(t, NamesOf(x))
    /\ IF x \in Architectures THEN t = IF x \in Present THEN Single(Top, input.files[x]) ELSE NoFiles
       ELSE Right(k, x, t)

LEMMA PairsHalve ==
    ASSUME archs \subseteq Architectures, NEW s \in 1 .. 4, NEW pair, pair = Pairs[s]
    PROVE  Halves(pair)
  <1>1. Present \subseteq Architectures
    BY DEF Present
  <1>2. CASE s = 1
    <2>1. PairIs(pair, "ppc", "ppc64", "powerpc", "ppc", "ppc64", DiffFormatM)
      BY <1>2, PairsAre, PairFields
    <2> QED
      BY <2>1 DEF PairIs, Halves, Members, Under
  <1>3. CASE s = 2
    <2>1. PairIs(pair, "i386", "x86_64", "intel", "i386", "x86_64", DiffFormatM)
      BY <1>3, PairsAre, PairFields
    <2> QED
      BY <2>1 DEF PairIs, Halves, Members, Under
  <1>4. CASE s = 3
    <2>1. PairIs(pair, "powerpc", "intel", "ppc-intel", "powerpc", "x86", DiffFormatProc)
      BY <1>4, PairsAre, PairFields
    <2> QED
      BY <2>1 DEF PairIs, Halves, Members, Under, Architectures
  <1>5. CASE s = 4
    <2>1. PairIs(pair, "arm64", "ppc-intel", "destroot", "arm64", "ppcintel", DiffFormatArmElse)
      BY <1>5, PairsAre, PairFields
    <2> QED
      BY <1>1, <2>1 DEF PairIs, Halves, Members, Under, Architectures
  <1> QED
    BY <1>2, <1>3, <1>4, <1>5

\* The file an architecture installs agrees with itself.
LEMMA OwnAgrees ==
    ASSUME input \in Inputs, NEW k, OfKind(k), NEW x \in Present, x \in Architectures
    PROVE  Agrees(k, x, input.files[x]) /\ x \in Members(x)
  <1> DEFINE file == input.files[x]
  <1>1. /\ x \in DOMAIN input.files /\ file.kind = k
        /\ k \in {"flags", "gir"} =>
              file.data \in STRING \X (IF k = "gir" THEN {"none", x} ELSE AnyMark \cup {"none"})
    <2>1. x \in DOMAIN input.files /\ file.kind = k
      BY DEF Present, OfKind
    <2>2. file.kind \in {"flags", "gir"} =>
              file.data \in STRING \X (IF file.kind = "gir" THEN {"none", x} ELSE AnyMark \cup {"none"})
      BY <2>1, FilesAssumption
    <2> HIDE DEF file
    <2> QED
      BY <2>1, <2>2
  <1>2. x \in Members(x)
    BY DEF Members, Under, Architectures
  <1> HIDE DEF file
  <1>3. k = "flags" => file.data[2] \in AnyMark \cup {"none"}
    BY <1>1
  <1>4. k = "gir" => file.data[2] \in MarksOf(x)
    BY <1>1 DEF MarksOf
  <1>5. AgreesAs(k, x, file.data)
    BY <1>2, <1>3, <1>4 DEF AgreesAs, file
  <1> QED
    BY <1>1, <1>2, <1>5 DEF Agrees, file

LEMMA HalfIs ==
    ASSUME input \in Inputs, NEW k, OfKind(k), NEW x, NEW t, Half(k, x, t)
    PROVE  /\ k # "mod" => Sound(k, x, t)
           /\ k = "mod" => OfModules(t) /\ (x \in Architectures => Lone(x, t))
           /\ x \in Architectures => (Top \in DOMAIN t <=> x \in Present)
  <1>1. Placed(t, NamesOf(x))
    BY DEF Half
  <1>2. CASE x \in Architectures /\ x \in Present
    <2>1. t = Single(Top, input.files[x])
      BY <1>2 DEF Half
    <2>2. DOMAIN t = {Top} /\ t[Top] = input.files[x]
      BY <2>1, SingleIs
    <2>3. Agrees(k, x, t[Top]) /\ x \in Members(x)
      BY <1>2, <2>2, OwnAgrees
    <2> QED
      BY <1>2, <2>2, <2>3, TopIsPath DEF Sound, OfModules, Lone, Agrees
  <1>3. CASE x \in Architectures /\ x \notin Present
    <2>1. DOMAIN t = {}
      BY <1>3 DEF Half, NoFiles
    <2> QED
      BY <1>3, <2>1 DEF Sound, OfModules, Lone
  <1>4. CASE x \notin Architectures
    <2>1. Right(k, x, t)
      BY <1>4 DEF Half
    <2> QED
      BY <1>1, <1>4, <2>1 DEF Right, OfModules, Placed
  <1> QED
    BY <1>2, <1>3, <1>4

\* The mark of an architecture that finds no other of its family was removed.
LEMMA HalvesUnmarked ==
    ASSUME input \in Inputs, NoReason, NEW k, OfKind(k), NEW pair, Halves(pair), NEW t1, NEW t2,
           Half(k, pair.one, t1), Half(k, pair.two, t2),
           pair.one \in Architectures <=> pair.two \in Architectures,
           pair.one \in Architectures => /\ pair.one # "arm64" /\ pair.two # "arm64"
                                         /\ Family(pair.one) = {pair.one, pair.two} /\ Family(pair.two) = {pair.one, pair.two}
    PROVE  Unmarked(k, pair, t1, t2)
  <1> SUFFICES ASSUME k = "gir" PROVE Unmarked(k, pair, t1, t2)
    BY DEF Unmarked
  <1>1. /\ \A p \in DOMAIN t1 : p = Top /\ AgreesAs("gir", pair.one, t1[p].data)
        /\ \A p \in DOMAIN t2 : p = Top /\ AgreesAs("gir", pair.two, t2[p].data)
    BY HalfIs DEF Sound, Agrees
  <1>2. /\ \A p \in DOMAIN t1 : p = Top /\ t1[p].data[2] \in MarksOf(pair.one)
        /\ \A p \in DOMAIN t2 : p = Top /\ t2[p].data[2] \in MarksOf(pair.two)
    BY <1>1 DEF AgreesAs
  <1>3. CASE pair.one \notin Architectures
    BY <1>2, <1>3 DEF Unmarked, MarksOf
  <1>4. CASE pair.one \in Architectures
    <2>1. /\ Top \in DOMAIN t1 <=> pair.one \in Present
          /\ Top \in DOMAIN t2 <=> pair.two \in Present
          /\ pair.one \in Present => t1 = Single(Top, input.files[pair.one])
          /\ pair.two \in Present => t2 = Single(Top, input.files[pair.two])
      BY <1>4, HalfIs DEF Half
    <2>2. ASSUME NEW a \in Present, a # "arm64", NEW b, Family(a) = {a, b}, b \notin Present
          PROVE  input.files[a].data[2] # a
      BY <2>2 DEF NoReason, DirNameKept, OfKind, Present
    <2>3. ASSUME Top \in DOMAIN t1 \ DOMAIN t2 PROVE t1[Top].data[2] = "none"
      <3>1. pair.one \in Present /\ pair.two \notin Present
        BY <2>1, <2>3
      <3>2. t1[Top] = input.files[pair.one]
        BY <2>1, <3>1, SingleIs
      <3>3. input.files[pair.one].data[2] # pair.one
        BY <1>4, <2>2, <3>1
      <3> QED
        BY <1>2, <2>3, <3>2, <3>3 DEF MarksOf
    <2>4. ASSUME Top \in DOMAIN t2 \ DOMAIN t1 PROVE t2[Top].data[2] = "none"
      <3>1. pair.two \in Present /\ pair.one \notin Present
        BY <2>1, <2>4
      <3>2. t2[Top] = input.files[pair.two]
        BY <2>1, <3>1, SingleIs
      <3>3. input.files[pair.two].data[2] # pair.two
        BY <1>4, <2>2, <3>1
      <3> QED
        BY <1>2, <2>4, <3>2, <3>3 DEF MarksOf
    <2> QED
      BY <1>2, <2>3, <2>4 DEF Unmarked, MarksOf
  <1> QED
    BY <1>3, <1>4

\* One merge.
LEMMA PairMerged ==
    ASSUME input \in Inputs, archs \subseteq Architectures, NoReason, NEW k \in FileKinds, OfKind(k),
           NEW s \in 1 .. 4, NEW pair, pair = Pairs[s], NEW t1, NEW t2, Half(k, pair.one, t1), Half(k, pair.two, t2),
           NEW into, DOMAIN into = {}, NEW M, M = MergeTree(into, t1, t2, pair, input.deleteLa)
    PROVE  ~M.failed /\ (s # 4 => Right(k, pair.into, M.tree))
  <1>1. Halves(pair)
    BY PairsHalve
  <1>2. Joins(pair, NamesOf(pair.one), NamesOf(pair.two), NamesOf(pair.into))
    BY PairsJoin
  <1>3. Placed(t1, NamesOf(pair.one)) /\ Placed(t2, NamesOf(pair.two))
    BY DEF Half
  <1>4. CASE s = 1 \/ s = 2
    <2>1. /\ pair.one \in Architectures /\ pair.two \in Architectures /\ pair.one # "arm64" /\ pair.two # "arm64"
          /\ Family(pair.one) = {pair.one, pair.two} /\ Family(pair.two) = {pair.one, pair.two}
          /\ pair.into # "ppc-intel"
      <3>1. CASE s = 1
        <4>1. PairIs(pair, "ppc", "ppc64", "powerpc", "ppc", "ppc64", DiffFormatM)
          BY <3>1, PairsAre, PairFields
        <4> QED
          BY <4>1 DEF PairIs, Family, Architectures
      <3>2. CASE s = 2
        <4>1. PairIs(pair, "i386", "x86_64", "intel", "i386", "x86_64", DiffFormatM)
          BY <3>2, PairsAre, PairFields
        <4> QED
          BY <4>1 DEF PairIs, Family, Architectures
      <3> QED
        BY <1>4, <3>1, <3>2
    <2>2. CASE k # "mod"
      <3>1. Pairing(k, pair, t1, t2)
        BY <1>1, <2>2, HalfIs DEF Pairing
      <3>2. Unmarked(k, pair, t1, t2)
        BY <1>1, <2>1, HalvesUnmarked
      <3> QED
        BY <1>2, <1>3, <2>2, <3>1, <3>2, TreesMerged DEF Right
    <2>3. CASE k = "mod"
      <3>1. OfModules(t1) /\ OfModules(t2) /\ Lone(pair.one, t1) /\ Lone(pair.two, t2)
        BY <2>1, <2>3, HalfIs
      <3> QED
        BY <1>1, <2>1, <2>3, <3>1, FamilyMerged DEF Right
    <2> QED
      BY <2>2, <2>3
  <1>5. CASE s = 3
    <2>1. PairIs(pair, "powerpc", "intel", "ppc-intel", "powerpc", "x86", DiffFormatProc)
      BY <1>5, PairsAre, PairFields
    <2>2. pair.one = "powerpc" /\ pair.two = "intel" /\ pair.into = "ppc-intel"
          /\ pair.one \notin Architectures /\ pair.two \notin Architectures
      BY <2>1 DEF PairIs, Architectures
    <2>3. CASE k # "mod"
      <3>1. Pairing(k, pair, t1, t2)
        BY <1>1, <2>3, HalfIs DEF Pairing
      <3>2. Unmarked(k, pair, t1, t2)
        BY <1>1, <2>2, HalvesUnmarked
      <3> QED
        BY <1>2, <1>3, <2>3, <3>1, <3>2, TreesMerged DEF Right
    <2>4. CASE k = "mod"
      <3>1. OfModules(t1) /\ OfModules(t2)
        BY <2>4, HalfIs
      <3>2. FamilyModules(pair.one, t1) /\ FamilyModules(pair.two, t2)
        BY <2>2, <2>4 DEF Half, Right
      <3>3. /\ \A x \in {pair.one, pair.two} : \A a, b \in Members(x) : b \in Family(a)
            /\ \A a \in Members(pair.one), b \in Members(pair.two) : b \notin Family(a) /\ a \notin Family(b)
        BY <2>2 DEF Members, Under, Family
      <3> QED
        BY <1>1, <2>2, <2>4, <3>1, <3>2, <3>3, FamiliesMerged DEF Right
    <2> QED
      BY <2>3, <2>4
  <1>6. CASE s = 4
    <2>1. PairIs(pair, "arm64", "ppc-intel", "destroot", "arm64", "ppcintel", DiffFormatArmElse)
      BY <1>6, PairsAre, PairFields
    <2>2. pair.one = "arm64" /\ pair.two = "ppc-intel" /\ pair.one \in Architectures /\ pair.two \notin Architectures
      BY <2>1 DEF PairIs, Architectures
    <2>3. CASE k # "mod"
      <3>1. Pairing(k, pair, t1, t2)
        BY <1>1, <2>3, HalfIs DEF Pairing
      <3> QED
        BY <1>2, <1>3, <1>6, <2>3, <3>1, TreesMerged
    <2>4. CASE k = "mod"
      <3>1. OfModules(t1) /\ OfModules(t2) /\ Lone(pair.one, t1)
        BY <2>2, <2>4, HalfIs
      <3>2. AllModules(pair.two, t2)
        BY <2>2, <2>4 DEF Half, Right
      <3> QED
        BY <1>6, <2>2, <2>4, <3>1, <3>2, LastMerged DEF NoReason
    <2> QED
      BY <2>3, <2>4
  <1> QED
    BY <1>4, <1>5, <1>6

-----------------------------------------------------------------------------
(* What there is to merge, if the port was not stopped while it was merged. *)

Groups == {"powerpc", "intel", "ppc-intel"}
Made(s) == {Pairs[r].into : r \in 1 .. s}

\* The trees of the architectures, of which S have still to install theirs.
OwnTrees(S) ==
    \A x \in Architectures : \A t \in {Tree(x)} :
       t = IF x \in Present \ S THEN Single(Top, input.files[x]) ELSE NoFiles
MergedSoFar == \E k \in FileKinds : OfKind(k) /\ \A x \in Groups : \A t \in {Tree(x)} : Right(k, x, t)

RightSoFar ==
    /\ target = "copy" => DOMAIN trees \subseteq archs /\ OwnTrees(archs)
    /\ target = "install" => DOMAIN trees \subseteq archs /\ OwnTrees(left)
    /\ target = "merge" => /\ DOMAIN trees \subseteq archs \cup Made(step) /\ OwnTrees({})
                           /\ NoReason => MergedSoFar
    /\ target = "error" /\ source # <<>> => ~NoReason

RightInv == (target = "choose" => source = <<>>) /\ (Orderly => RightSoFar)

LEMMA PairsInto ==
    /\ Made(0) = {} /\ \A s \in 0 .. 3 : Made(s + 1) = Made(s) \cup {Pairs[s + 1].into}
    /\ \A s \in 0 .. 3 : Pairs[s + 1].into \notin Made(s) \cup Architectures
    /\ \A s \in 0 .. 3 : s # 3 <=> Pairs[s + 1].into \in Groups
    /\ \A s \in 1 .. 4 : /\ Pairs[s].one \in Architectures \cup Groups
                         /\ Pairs[s].two \in Architectures \cup Groups
  <1>1. /\ Pairs[1].into = "powerpc" /\ Pairs[1].one = "ppc" /\ Pairs[1].two = "ppc64"
        /\ Pairs[2].into = "intel" /\ Pairs[2].one = "i386" /\ Pairs[2].two = "x86_64"
        /\ Pairs[3].into = "ppc-intel" /\ Pairs[3].one = "powerpc" /\ Pairs[3].two = "intel"
        /\ Pairs[4].into = "destroot" /\ Pairs[4].one = "arm64" /\ Pairs[4].two = "ppc-intel"
    BY PairsAre, PairFields DEF PairIs
  <1>2. Made(0) = {} /\ \A s \in 0 .. 3 : Made(s + 1) = Made(s) \cup {Pairs[s + 1].into}
    <2>1. ASSUME NEW s \in 0 .. 3 PROVE 1 .. (s + 1) = (1 .. s) \cup {s + 1}
      OBVIOUS
    <2> QED
      BY <2>1 DEF Made
  <1>3. Made(0) = {} /\ Made(1) = {"powerpc"} /\ Made(2) = {"powerpc", "intel"}
        /\ Made(3) = {"powerpc", "intel", "ppc-intel"}
    <2>1. Made(1) = Made(0) \cup {Pairs[1].into} /\ Made(2) = Made(1) \cup {Pairs[2].into}
          /\ Made(3) = Made(2) \cup {Pairs[3].into}
      <3>1. Made(0 + 1) = Made(0) \cup {Pairs[0 + 1].into} /\ Made(1 + 1) = Made(1) \cup {Pairs[1 + 1].into}
            /\ Made(2 + 1) = Made(2) \cup {Pairs[2 + 1].into}
        BY <1>2
      <3> QED
        BY <3>1
    <2> QED
      BY <1>1, <1>2, <2>1
  <1>4. \A s \in 0 .. 3 : s = 0 \/ s = 1 \/ s = 2 \/ s = 3
    OBVIOUS
  <1>5. \A s \in 1 .. 4 : s = 1 \/ s = 2 \/ s = 3 \/ s = 4
    OBVIOUS
  <1>6. ASSUME NEW s \in 0 .. 3
        PROVE  Pairs[s + 1].into \notin Made(s) \cup Architectures /\ (s # 3 <=> Pairs[s + 1].into \in Groups)
    BY <1>1, <1>3, <1>4 DEF Groups, Architectures
  <1>7. ASSUME NEW s \in 1 .. 4
        PROVE  Pairs[s].one \in Architectures \cup Groups /\ Pairs[s].two \in Architectures \cup Groups
    BY <1>1, <1>5 DEF Groups, Architectures
  <1> QED
    BY <1>2, <1>6, <1>7

LEMMA NoReasonKept ==
    ASSUME input' = input, archs' = archs
    PROVE  /\ Present' = Present /\ (NoReason' <=> NoReason)
           /\ \A k : OfKind(k)' <=> OfKind(k)
  <1>1. Present' = Present
    BY DEF Present
  <1>2. DirNameKept' <=> DirNameKept
    BY DEF DirNameKept
  <1>3. ModulesMet' <=> ModulesMet
    BY DEF ModulesMet
  <1>4. \A one, two : Differ(one, two)' <=> Differ(one, two)
    BY DEF Differ
  <1> QED
    BY <1>1, <1>2, <1>3, <1>4 DEF NoReason, OfKind

LEMMA RightKept ==
    ASSUME input' = input, archs' = archs
    PROVE  \A k, x, t : Right(k, x, t)' <=> Right(k, x, t)
  <1>1. \A x : Members(x)' = Members(x)
    BY NoReasonKept DEF Members, Under
  <1>2. OneFile' <=> OneFile
    BY NoReasonKept DEF OneFile
  <1>3. \A k, x, file : Agrees(k, x, file)' <=> Agrees(k, x, file)
    BY <1>1, <1>2 DEF Agrees, AgreesAs
  <1>4. \A k, x, t : Sound(k, x, t)' <=> Sound(k, x, t)
    BY <1>3 DEF Sound
  <1>5. \A x, t : TopKept(x, t)' <=> TopKept(x, t)
    BY <1>1 DEF TopKept
  <1>6. \A x, t : (AllModules(x, t)' <=> AllModules(x, t)) /\ (FamilyModules(x, t)' <=> FamilyModules(x, t))
    BY <1>1, <1>5 DEF AllModules, FamilyModules, Lone
  <1> QED
    BY <1>4, <1>6 DEF Right

LEMMA RightInit == MuniversalInit => RightInv
  BY DEF MuniversalInit, RightInv, RightSoFar

\* Steps that do not touch the trees, before the first is copied.
LEMMA RightElsewhere ==
    ASSUME target' \notin {"choose", "copy", "install", "merge", "error"}
    PROVE  RightInv'
  BY DEF RightInv, RightSoFar

LEMMA RightUnchanged ==
    ASSUME RightInv, UNCHANGED <<input, target, archs, source, trees, left, step, stopped>>
    PROVE  RightInv'
  <1>1. (Orderly' <=> Orderly) /\ Present' = Present /\ (NoReason' <=> NoReason)
    BY NoReasonKept DEF Orderly
  <1>2. \A x : Tree(x)' = Tree(x)
    BY DEF Tree
  <1>4. MergedSoFar => MergedSoFar'
    BY <1>2, NoReasonKept, RightKept DEF MergedSoFar
  <1>5. OwnTrees(archs) => OwnTrees(archs)'
    BY <1>1, <1>2 DEF OwnTrees
  <1>6. OwnTrees(left) => OwnTrees(left)'
    BY <1>1, <1>2 DEF OwnTrees
  <1>7. OwnTrees({}) => OwnTrees({})'
    BY <1>1, <1>2 DEF OwnTrees
  <1>8. RightSoFar => RightSoFar'
    BY <1>1, <1>4, <1>5, <1>6, <1>7 DEF RightSoFar, Made
  <1> QED
    BY <1>1, <1>8 DEF RightInv

LEMMA RightChoose == ASSUME MuniversalInv, RightInv, Choose PROVE RightInv'
  <1>1. target = "choose" /\ target' \in {"error", "single", "extract"} /\ source' = source
    BY DEF Choose, build
  <1>2. source' = <<>>
    BY <1>1 DEF RightInv
  <1> QED
    BY <1>1, <1>2 DEF RightInv, RightSoFar

LEMMA RightStartDestroot == ASSUME MuniversalInv, RightInv, StartDestroot PROVE RightInv'
  <1>1. target = "phases" /\ target' = "copy" /\ UNCHANGED <<input, archs, trees, stopped>>
    BY DEF StartDestroot, build
  <1>2. ASSUME Orderly' PROVE DOMAIN trees' \subseteq archs' /\ OwnTrees(archs)'
    <2>1. DOMAIN trees = {}
      BY <1>1, <1>2 DEF MuniversalInv, StrayInv, Orderly, Doing
    <2>2. \A x : Tree(x)' = NoFiles
      BY <1>1, <2>1 DEF Tree
    <2>3. OwnTrees(archs)'
      BY <2>2 DEF OwnTrees, Present
    <2> QED
      BY <1>1, <2>1, <2>3
  <1> QED
    BY <1>1, <1>2 DEF RightInv, RightSoFar

LEMMA RightCopyDestroot == ASSUME MuniversalInv, RightInv, CopyDestroot PROVE RightInv'
  <1>1. PICK a \in left :
            IF a \in stray
              THEN target' = "error" /\ UNCHANGED <<trees, left, stray>>
              ELSE /\ left' = left \ {a}
                   /\ trees' = IF a \in DOMAIN trees THEN trees ELSE With(a, NoFiles)
                   /\ stray' = IF a \in DOMAIN trees THEN stray \cup {a} ELSE stray
                   /\ UNCHANGED target
    BY DEF CopyDestroot
  <1>2. target = "copy" /\ UNCHANGED <<input, archs, stopped>> /\ a \in archs
    BY DEF CopyDestroot, MuniversalInv, MuniversalTypeOK
  <1>3. Orderly' => Orderly /\ stray = {}
    BY <1>2 DEF Orderly, MuniversalInv, StrayInv
  <1>4. ASSUME Orderly' PROVE target' = "copy" /\ DOMAIN trees' \subseteq archs' /\ OwnTrees(archs)'
    <2>1. target' = "copy" /\ trees' = IF a \in DOMAIN trees THEN trees ELSE With(a, NoFiles)
      BY <1>1, <1>2, <1>3, <1>4
    <2>2. DOMAIN trees \subseteq archs /\ OwnTrees(archs)
      BY <1>2, <1>3, <1>4 DEF RightInv, RightSoFar
    <2>3. DOMAIN trees' \subseteq archs'
      BY <1>2, <2>1, <2>2 DEF With
    <2>4. \A x : Tree(x)' = Tree(x)
      BY <2>1 DEF Tree, With
    <2>5. OwnTrees(archs)'
      BY <1>2, <2>2, <2>4, NoReasonKept DEF OwnTrees
    <2> QED
      BY <2>1, <2>3, <2>5
  <1>5. target' # "choose"
    BY <1>1, <1>2
  <1> QED
    BY <1>4, <1>5 DEF RightInv, RightSoFar

LEMMA RightCopied == ASSUME MuniversalInv, RightInv, Copied PROVE RightInv'
  <1>1. /\ target = "copy" /\ target' = "install" /\ left' = archs /\ UNCHANGED <<input, archs, stopped>>
        /\ trees' = [n \in DOMAIN trees \ {"destroot"} |-> trees[n]]
    BY DEF Copied, build
  <1>2. ASSUME Orderly' PROVE DOMAIN trees' \subseteq archs' /\ OwnTrees(left)'
    <2>1. DOMAIN trees \subseteq archs /\ OwnTrees(archs)
      BY <1>1, <1>2 DEF RightInv, RightSoFar, Orderly
    <2>2. \A x \in Architectures : Tree(x)' = Tree(x)
      BY <1>1 DEF Tree, Architectures
    <2>3. Present' = Present
      BY <1>1 DEF Present
    <2>4. OwnTrees(left)'
      BY <1>1, <2>1, <2>2, <2>3 DEF OwnTrees
    <2> QED
      BY <1>1, <2>1, <2>4
  <1> QED
    BY <1>1, <1>2 DEF RightInv, RightSoFar

LEMMA RightInstall == ASSUME MuniversalInv, RightInv, Install PROVE RightInv'
  <1>1. PICK a \in left :
            /\ left' = left \ {a}
            /\ trees' = IF a \in DOMAIN input.files THEN With(a, Single(<<"f">>, input.files[a])) ELSE trees
    BY DEF Install
  <1>2. target = "install" /\ target' = "install" /\ UNCHANGED <<input, archs, stopped>> /\ a \in archs
    BY DEF Install, MuniversalInv, MuniversalTypeOK
  <1>3. Present' = Present
    BY <1>2 DEF Present
  <1>4. ASSUME Orderly' PROVE DOMAIN trees' \subseteq archs' /\ OwnTrees(left)'
    <2>1. DOMAIN trees \subseteq archs /\ OwnTrees(left)
      BY <1>2, <1>4 DEF RightInv, RightSoFar, Orderly
    <2>2. DOMAIN trees' \subseteq archs'
      BY <1>1, <1>2, <2>1 DEF With
    <2>3. ASSUME NEW x \in Architectures, NEW t \in {Tree(x)'}
          PROVE  t = IF x \in Present \ left' THEN Single(Top, input.files[x]) ELSE NoFiles
      <3>1. CASE x = a /\ a \in DOMAIN input.files
        <4>1. t = Single(Top, input.files[x])
          BY <1>1, <2>3, <3>1 DEF Tree, With, Top
        <4>2. x \in Present \ left'
          BY <1>1, <1>2, <3>1 DEF Present
        <4> QED
          BY <4>1, <4>2
      <3>2. CASE ~(x = a /\ a \in DOMAIN input.files)
        <4>1. t = Tree(x)
          BY <1>1, <2>3, <3>2 DEF Tree, With
        <4>2. x \in Present \ left' <=> x \in Present \ left
          BY <1>1, <3>2 DEF Present
        <4> QED
          BY <2>1, <4>1, <4>2 DEF OwnTrees
      <3> QED
        BY <3>1, <3>2
    <2>4. OwnTrees(left)'
      BY <1>2, <1>3, <2>3 DEF OwnTrees
    <2> QED
      BY <2>2, <2>4
  <1> QED
    BY <1>2, <1>4 DEF RightInv, RightSoFar

LEMMA RightInstalled == ASSUME MuniversalInv, RightInv, Installed PROVE RightInv'
  <1>1. /\ target = "install" /\ target' = "merge" /\ left = {} /\ step' = 0
        /\ UNCHANGED <<input, archs, trees, stopped>>
    BY DEF Installed, build
  <1>2. ASSUME Orderly'
        PROVE  /\ DOMAIN trees' \subseteq archs' \cup Made(step)' /\ OwnTrees({})'
               /\ NoReason' => MergedSoFar'
    <2>1. DOMAIN trees \subseteq archs /\ OwnTrees({})
      BY <1>1, <1>2 DEF RightInv, RightSoFar, Orderly
    <2>2. \A x : Tree(x)' = Tree(x)
      BY <1>1 DEF Tree
    <2>3. OwnTrees({})'
      BY <1>1, <2>1, <2>2, NoReasonKept DEF OwnTrees
    <2>4. ASSUME NoReason PROVE MergedSoFar'
      <3>1. \E k \in FileKinds : OfKind(k)
        <4>1. CASE Present = {}
          BY <4>1 DEF OfKind, FileKinds
        <4>2. ASSUME NEW a \in Present PROVE \E k \in FileKinds : OfKind(k)
          <5>1. Fit(input.files[a])
            BY <4>2, OwnFits DEF Present, MuniversalInv, SourceInv
          <5>2. \A b \in Present : input.files[b].kind = input.files[a].kind
            BY <2>4, NoDifference
          <5> QED
            BY <5>1, <5>2 DEF Fit, OfKind
        <4> QED
          BY <4>1, <4>2
      <3>2. PICK k \in FileKinds : OfKind(k)
        BY <3>1
      <3>3. ASSUME NEW x \in Groups, NEW t \in {Tree(x)'} PROVE Right(k, x, t)
        <4>1. x \notin DOMAIN trees
          <5>1. archs \subseteq Architectures
            BY DEF MuniversalInv, MuniversalTypeOK
          <5> QED
            BY <2>1, <5>1 DEF Groups, Architectures
        <4>2. DOMAIN t = {}
          BY <2>2, <3>3, <4>1 DEF Tree, NoFiles
        <4> QED
          BY <4>2 DEF Right, Sound, AllModules, FamilyModules, Lone
      <3> QED
        BY <1>1, <3>2, <3>3, NoReasonKept, RightKept DEF MergedSoFar
    <2> QED
      BY <1>1, <2>1, <2>3, <2>4, NoReasonKept
  <1> QED
    BY <1>1, <1>2 DEF RightInv, RightSoFar

LEMMA HalvesAre ==
    ASSUME ServedInv, OwnTrees({}), NEW k, \A x \in Groups : \A t \in {Tree(x)} : Right(k, x, t),
           NEW y \in Architectures \cup Groups
    PROVE  Half(k, y, Tree(y))
  <1>1. Placed(Tree(y), NamesOf(y))
    BY TreesArePlaced DEF ServedInv
  <1>2. CASE y \in Architectures
    BY <1>1, <1>2 DEF Half, OwnTrees
  <1>3. CASE y \in Groups
    <2>1. y \notin Architectures
      BY <1>3 DEF Groups, Architectures
    <2> QED
      BY <1>1, <1>3, <2>1 DEF Half
  <1> QED
    BY <1>2, <1>3

\* A merge of what there is, where nothing was merged into yet.
LEMMA MergedAsHalves ==
    ASSUME MuniversalInv, ServedInv, OwnTrees({}), NoReason, MergedSoFar, step \in 0 .. 3,
           NEW pair, pair = Pairs[step + 1], NEW into, DOMAIN into = {},
           NEW M, M = MergeTree(into, Tree(pair.one), Tree(pair.two), pair, input.deleteLa)
    PROVE  /\ ~M.failed
           /\ \E k \in FileKinds :
                 /\ OfKind(k) /\ \A x \in Groups : \A t \in {Tree(x)} : Right(k, x, t)
                 /\ pair.into \in Groups => Right(k, pair.into, M.tree)
  <1>1. PICK k \in FileKinds : OfKind(k) /\ \A x \in Groups : \A t \in {Tree(x)} : Right(k, x, t)
    BY DEF MergedSoFar
  <1>2. step + 1 \in 1 .. 4 /\ pair.one \in Architectures \cup Groups /\ pair.two \in Architectures \cup Groups
        /\ (step + 1 # 4 <=> pair.into \in Groups)
    <2>1. step + 1 \in 1 .. 4 /\ (step + 1 # 4 <=> step # 3)
      OBVIOUS
    <2> QED
      BY <2>1, PairsInto
  <1>3. Half(k, pair.one, Tree(pair.one)) /\ Half(k, pair.two, Tree(pair.two))
    BY <1>1, <1>2, HalvesAre
  <1>4. input \in Inputs /\ archs \subseteq Architectures
    BY DEF MuniversalInv, SourceInv, MuniversalTypeOK
  <1>5. ~M.failed /\ (step + 1 # 4 => Right(k, pair.into, M.tree))
    BY <1>1, <1>2, <1>3, <1>4, PairMerged
  <1> QED
    BY <1>1, <1>2, <1>5

LEMMA RightMerge == ASSUME MuniversalInv, ServedInv, RightInv, Merge PROVE RightInv'
  <1> DEFINE pair == Pairs[step + 1]
             into == Tree(pair.into)
             M == MergeTree(into, Tree(pair.one), Tree(pair.two), pair, input.deleteLa)
  <1>1. /\ target = "merge" /\ step < Len(Pairs) /\ UNCHANGED <<input, archs, source, stopped>>
        /\ IF M.failed \/ (pair.into \in stray /\ {pair.one, pair.two} \cap stray # {})
             THEN target' = "error" /\ UNCHANGED <<trees, step, stray, cut>>
             ELSE trees' = With(pair.into, M.tree) /\ step' = step + 1 /\ target' = target
    BY DEF Merge, build
  <1>2. step \in 0 .. 3
    BY <1>1, PairsAre DEF MuniversalInv, MuniversalTypeOK
  <1>3. pair = Pairs[step + 1] /\ into = Tree(pair.into)
        /\ M = MergeTree(into, Tree(pair.one), Tree(pair.two), pair, input.deleteLa)
    OBVIOUS
  <1> HIDE DEF pair, into, M
  <1>4. SUFFICES ASSUME Orderly' PROVE RightSoFar'
    BY <1>1 DEF RightInv
  <1>5. /\ stray = {} /\ DOMAIN trees \subseteq archs \cup Made(step) /\ OwnTrees({}) /\ (NoReason => MergedSoFar)
        /\ archs \subseteq Architectures
    BY <1>1, <1>4 DEF Orderly, RightInv, RightSoFar, MuniversalInv, StrayInv, MuniversalTypeOK
  <1>6. pair.into \notin DOMAIN trees /\ pair.into \notin Architectures /\ Made(step + 1) = Made(step) \cup {pair.into}
    BY <1>2, <1>3, <1>5, PairsInto
  <1>7. DOMAIN into = {}
    BY <1>3, <1>6 DEF Tree, NoFiles
  <1>8. ASSUME NoReason
        PROVE  /\ ~M.failed
               /\ \E k \in FileKinds :
                     /\ OfKind(k) /\ \A x \in Groups : \A t \in {Tree(x)} : Right(k, x, t)
                     /\ pair.into \in Groups => Right(k, pair.into, M.tree)
    BY <1>2, <1>3, <1>5, <1>7, <1>8, MergedAsHalves
  <1>9. CASE M.failed
    <2>1. target' = "error" /\ ~NoReason
      BY <1>1, <1>8, <1>9
    <2>2. ~NoReason'
      BY <1>1, <2>1, NoReasonKept
    <2> QED
      BY <2>1, <2>2 DEF RightSoFar
  <1>10. CASE ~M.failed
    <2>1. target' = "merge" /\ step' = step + 1
      BY <1>1, <1>5, <1>10
    <2> PICK y : y = pair.into
      OBVIOUS
    <2> PICK m : m = M.tree
      OBVIOUS
    <2>2. trees' = With(y, m)
      BY <1>1, <1>5, <1>10
    <2>3. DOMAIN trees' = DOMAIN trees \cup {y} /\ Tree(y)' = m /\ \A x : x # y => Tree(x)' = Tree(x)
      BY <2>2 DEF With, Tree
    <2>4. DOMAIN trees' \subseteq archs' \cup Made(step)'
      <3>1. Made(step)' = Made(step + 1)
        BY <2>1 DEF Made
      <3> QED
        BY <1>1, <1>5, <1>6, <2>3, <3>1
    <2>5. OwnTrees({})'
      BY <1>1, <1>5, <1>6, <2>3, NoReasonKept DEF OwnTrees
    <2>6. ASSUME NoReason PROVE MergedSoFar'
      <3>1. PICK k \in FileKinds :
                /\ OfKind(k) /\ \A x \in Groups : \A t \in {Tree(x)} : Right(k, x, t)
                /\ y \in Groups => Right(k, y, m)
        BY <1>8, <2>6
      <3>2. ASSUME NEW x \in Groups, NEW t \in {Tree(x)'} PROVE Right(k, x, t)
        BY <2>3, <3>1, <3>2
      <3> QED
        BY <1>1, <3>1, <3>2, NoReasonKept, RightKept DEF MergedSoFar
    <2> QED
      BY <1>1, <2>1, <2>4, <2>5, <2>6, NoReasonKept DEF RightSoFar
  <1> QED
    BY <1>9, <1>10

LEMMA RightResume == ASSUME MuniversalInv, RightInv, Resume PROVE RightInv'
  <1> DEFINE at == Last(stopped)
  <1>1. /\ target = "stopped" /\ stopped' = stopped
        /\ target' = IF at \in {"extract", "phases"} THEN at ELSE "copy"
    BY DEF Resume
  <1>2. at \in Stops /\ at \in ToSet(stopped)
    BY <1>1, Stopping DEF SourceInv, MuniversalInv
  <1> HIDE DEF at
  <1>3. Orderly' => at \in {"extract", "phases"}
    BY <1>1, <1>2 DEF Orderly, Stops
  <1> QED
    BY <1>1, <1>3 DEF RightInv, RightSoFar

\* Nothing is copied of sources that are not found.
SourceThere == source # <<>> => SourceFound(input.work)

LEMMA SourceStays == SourceThere /\ [MuniversalNext]_mergeVars => SourceThere'
  <1> SUFFICES ASSUME SourceThere, [MuniversalNext]_mergeVars PROVE SourceThere'
    OBVIOUS
  <1>1. CASE UNCHANGED <<input, source>>
    BY <1>1 DEF SourceThere
  <1>2. CASE CopySource
    BY <1>2 DEF CopySource, SourceThere
  <1>3. CASE Stop
    BY <1>3 DEF Stop, SourceThere
  <1>4. CASE Choose \/ Extracted \/ StartDestroot \/ CopyDestroot \/ Copied \/ Install \/ Installed \/ Merge
    BY <1>1, <1>4 DEF Choose, Extracted, StartDestroot, CopyDestroot, Copied, Install, Installed, Merge, build
  <1>5. CASE Enter \/ SetDir \/ Leave \/ Finish \/ Resume
    BY <1>1, <1>5 DEF Enter, SetDir, Leave, Finish, Resume, build
  <1> QED
    BY <1>1, <1>2, <1>3, <1>4, <1>5 DEF MuniversalNext, mergeVars

LEMMA SourceAlways == MuniversalSpec => []SourceThere
  <1>1. MuniversalInit => SourceThere
    BY DEF MuniversalInit, SourceThere
  <1> QED
    BY <1>1, SourceStays, PTL DEF MuniversalSpec

LEMMA RightInductive ==
    MuniversalInv /\ ServedInv /\ SourceThere /\ RightInv /\ [MuniversalNext]_mergeVars => RightInv'
  <1> SUFFICES ASSUME MuniversalInv, ServedInv, SourceThere, RightInv, [MuniversalNext]_mergeVars PROVE RightInv'
    OBVIOUS
  <1>1. CASE UNCHANGED mergeVars
    BY <1>1, RightUnchanged DEF mergeVars
  <1>2. CASE CopySource
    <2>1. target' = "extract" \/ (target' = "error" /\ source' = <<>>)
      BY <1>2 DEF CopySource, SourceThere
    <2>2. CASE target' = "extract"
      BY <2>2, RightElsewhere
    <2>3. CASE target' = "error" /\ source' = <<>>
      BY <2>3 DEF RightInv, RightSoFar
    <2> QED
      BY <2>1, <2>2, <2>3
  <1>3. CASE Extracted
    BY <1>3, RightElsewhere DEF Extracted
  <1>4. CASE Enter
    BY <1>4, RightElsewhere DEF Enter
  <1>5. CASE SetDir
    BY <1>5, RightElsewhere DEF SetDir
  <1>6. CASE Leave
    BY <1>6, RightElsewhere DEF Leave
  <1>7. CASE Stop
    BY <1>7, RightElsewhere DEF Stop
  <1>8. CASE Finish
    BY <1>8, RightElsewhere DEF Finish
  <1> QED
    BY <1>1, <1>2, <1>3, <1>4, <1>5, <1>6, <1>7, <1>8, RightChoose, RightStartDestroot, RightCopyDestroot,
       RightCopied, RightInstall, RightInstalled, RightMerge, RightResume DEF MuniversalNext

\* As long as the port was not stopped while its destroots were copied or merged,
\* there is in each tree what its architectures installed, and where no two of
\* their files differ in what they are, what the merges made of them fits
\* together (RightInv): destroot_start_muniversal, destroot_finish_muniversal.
THEOREM RightAlways == MuniversalSpec => []RightInv
  BY MuniversalInvariance, ServedAlways, SourceAlways, RightInit, RightInductive, PTL DEF MuniversalSpec

\* The merges keep what each architecture needs, and fail only for files that
\* differ in what they are, names of architectures that are kept and modules that
\* meet others, for every port, host and set of files: muniversal::merge.
THEOREM FilesMerged == MuniversalSpec => []MergedRightly
  <1>1. RightInv => FailsRightly
    <2> SUFFICES ASSUME RightInv, target = "error", source # <<>>,
                        ToSet(stopped) \cap {"copy", "install", "merge"} = {}
                 PROVE  \/ DirNameKept \/ ModulesMet
                        \/ \E a, b \in archs \cap DOMAIN input.files : a # b /\ Differ(input.files[a], input.files[b])
      BY DEF FailsRightly
    <2>1. ~NoReason
      BY DEF RightInv, RightSoFar, Orderly
    <2> QED
      BY <2>1 DEF NoReason, Present
  <1>2. EachArchServed /\ RightInv => MergedRightly
    BY <1>1 DEF MergedRightly
  <1> QED
    BY <1>2, AllServed, RightAlways, PTL

-----------------------------------------------------------------------------
(* Sequences of entries. *)

\* The elements of a concatenation are those of its parts.
LEMMA ConcatElements ==
    ASSUME NEW S, NEW s \in Seq(S), NEW t \in Seq(S)
    PROVE  Elements(s \o t) = Elements(s) \cup Elements(t)
  <1>1. ASSUME NEW x \in Elements(s \o t) PROVE x \in Elements(s) \cup Elements(t)
    BY DEF Elements
  <1>2. ASSUME NEW x \in Elements(s) PROVE x \in Elements(s \o t)
    BY DEF Elements
  <1>3. ASSUME NEW x \in Elements(t) PROVE x \in Elements(s \o t)
    <2>1. PICK n \in 1 .. Len(t) : x = t[n]
      BY DEF Elements
    <2>2. Len(s) + n \in 1 .. Len(s \o t) /\ (s \o t)[Len(s) + n] = t[n]
      OBVIOUS
    <2> QED
      BY <2>1, <2>2 DEF Elements
  <1> QED
    BY <1>1, <1>2, <1>3

\* A sequence has its head and what its tail has.
LEMMA TailElements ==
    ASSUME NEW S, NEW s \in Seq(S), s # <<>>
    PROVE  Elements(s) = {Head(s)} \cup Elements(Tail(s)) /\ Tail(s) \in Seq(S) /\ Head(s) \in S
  <1>1. ASSUME NEW x \in Elements(s), x # Head(s) PROVE x \in Elements(Tail(s))
    <2>1. PICK n \in 1 .. Len(s) : x = s[n]
      BY DEF Elements
    <2>2. n # 1
      BY <1>1, <2>1
    <2>3. n - 1 \in 1 .. Len(Tail(s)) /\ Tail(s)[n - 1] = s[n]
      BY <2>1, <2>2
    <2> QED
      BY <2>1, <2>3 DEF Elements
  <1>2. ASSUME NEW x \in Elements(Tail(s)) PROVE x \in Elements(s)
    <2>1. PICK n \in 1 .. Len(Tail(s)) : x = Tail(s)[n]
      BY DEF Elements
    <2>2. n + 1 \in 1 .. Len(s) /\ s[n + 1] = x
      BY <2>1
    <2> QED
      BY <2>2 DEF Elements
  <1>3. Head(s) \in Elements(s)
    BY DEF Elements
  <1> QED
    BY <1>1, <1>2, <1>3

LEMMA EmptyElements == Elements(<<>>) = {}
  BY DEF Elements

\* What a statement adds is a sequence of entries.
LEMMA StatementEntries ==
    ASSUME NEW s \in Declaration PROVE EntriesOf(s) \in Seq(Entry)
  <1>1. s.keys \in Seq(Names) /\ s.file \in Files /\ s.type \in Types
    BY DEF Declaration
  <1>2. \A n \in 1 .. Len(s.keys) : s.keys[n] \in Names
    BY <1>1
  <1> QED
    BY <1>1, <1>2 DEF EntriesOf, Entry

\* One more statement declares its entries on top of those before.
LEMMA DeclaredNext ==
    ASSUME NEW i \in Images, NEW n \in Nat, n \in 1 .. Len(Portfile[i])
    PROVE  DeclaredBy(i, n + 1) = DeclaredBy(i, n) \cup Elements(EntriesOf(Portfile[i][n]))
  <1>1. Len(Portfile[i]) \in Nat
    BY CatalogAssumption
  <1>2. {m \in 1 .. Len(Portfile[i]) : m < n + 1} = {m \in 1 .. Len(Portfile[i]) : m < n} \cup {n}
    BY <1>1
  <1> QED
    BY <1>2 DEF DeclaredBy

-----------------------------------------------------------------------------
(* The inductive invariant. *)

Gathered == UNION {Elements(lists[k]) : k \in Kinds}

\* Only one image of a port is not off.
OneImage ==
    \A i, j \in Images : PortOf[i] = PortOf[j] /\ status[i] # "off" /\ status[j] # "off" => i = j

\* What the option procs have gathered is what the Portfile has declared so
\* far, and what a hook has not done yet is in its list.
HookInv ==
    /\ next >= 1
    /\ doing = "portfile" =>
          next <= Len(Portfile[image]) + 1 /\ Gathered = DeclaredBy(image, next)
    /\ doing \in {"post-activate", "pre-deactivate"} =>
          Elements(todo) \subseteq Declared(image)
    /\ doing = "post-activate" =>
          \A e \in Declared(image) : e \in Elements(todo) \/ Lookup(e.file, e.key)
    /\ doing = "pre-deactivate" =>
          \A e \in Declared(image) : e \in Elements(todo) \/ e \notin content \/ e \in skipped

CatalogInv == CatalogTypeOK /\ OneImage /\ NoOrphans /\ HookInv

LEMMA CatalogInitInv == CatalogInit => CatalogInv
  <1> SUFFICES ASSUME CatalogInit PROVE CatalogInv
    OBVIOUS
  <1>1. content \subseteq [file : {Root, SgmlRoot}, type : Types, key : Names]
    BY CatalogAssumption DEF CatalogInit
  <1>2. content \subseteq Entry /\ files \subseteq Files /\ \A e \in content : e.file \in files
    BY <1>1, CatalogAssumption DEF CatalogInit, Entry
  <1>3. lists \in [Kinds -> Seq(Entry)] /\ todo \in Seq(Entry)
    BY DEF CatalogInit
  <1>4. CatalogTypeOK
    BY <1>2, <1>3 DEF CatalogInit, CatalogTypeOK
  <1>5. OneImage /\ NoOrphans /\ HookInv
    BY DEF CatalogInit, OneImage, NoOrphans, HookInv
  <1> QED
    BY <1>4, <1>5 DEF CatalogInv

-----------------------------------------------------------------------------
(* The steps. *)

LEMMA BeginStep ==
    ASSUME CatalogInv, NEW i \in Images, NEW h \in {"post-activate", "pre-deactivate"}, Begin(i, h)
    PROVE  CatalogInv'
  <1> USE DEF CatalogInv
  <1>1. lists' \in [Kinds -> Seq(Entry)] /\ \A k \in Kinds : lists'[k] = <<>>
    BY DEF Begin
  <1>2. CatalogTypeOK'
    BY <1>1 DEF Begin, CatalogTypeOK
  <1>3. \A j \in Images : status'[j] # "off" => status[j] # "off" \/ j = i
    BY DEF Begin, CatalogTypeOK
  <1>4. \A j \in Images : status[j] # "off" => status'[j] # "off"
    BY DEF Begin, CatalogTypeOK
  <1>5. OneImage'
    <2>1. CASE h = "post-activate"
      BY <1>3, <2>1 DEF Begin, OneImage
    <2>2. CASE h = "pre-deactivate"
      BY <1>3, <2>2 DEF Begin, OneImage
    <2> QED
      BY <2>1, <2>2
  <1>6. NoOrphans'
    BY <1>4 DEF Begin, NoOrphans
  <1>7. DeclaredBy(i, 1) = {} /\ Gathered' = {} /\ Len(Portfile[i]) \in Nat
    <2>1. Len(Portfile[i]) \in Nat
      BY CatalogAssumption
    <2>2. {m \in 1 .. Len(Portfile[i]) : m < 1} = {}
      BY <2>1
    <2> QED
      BY <1>1, <2>1, <2>2, EmptyElements DEF DeclaredBy, Gathered
  <1>8. HookInv'
    BY <1>7 DEF Begin, HookInv
  <1> QED
    BY <1>2, <1>5, <1>6, <1>8

LEMMA SetOptionStep ==
    ASSUME CatalogInv, SetOption
    PROVE  CatalogInv'
  <1> USE DEF CatalogInv
  <1> DEFINE s == Portfile[image][next]
  <1>1. /\ image \in Images /\ next \in Nat /\ next \in 1 .. Len(Portfile[image])
        /\ doing = "portfile" /\ next' = next + 1
        /\ UNCHANGED <<status, files, content, doing, image, hook, todo, faults, skipped>>
    BY CatalogAssumption DEF SetOption, CatalogTypeOK, HookInv
  <1>2. s \in Declaration /\ s.kind \in Kinds /\ EntriesOf(s) \in Seq(Entry)
    <2>1. s \in Declaration
      BY <1>1, CatalogAssumption
    <2> QED
      BY <2>1, StatementEntries DEF Declaration
  <1>3. lists' = [lists EXCEPT ![s.kind] = @ \o EntriesOf(s)]
    BY DEF SetOption
  <1>4. lists' \in [Kinds -> Seq(Entry)]
    BY <1>2, <1>3 DEF CatalogTypeOK
  <1>5. CatalogTypeOK'
    BY <1>1, <1>4 DEF CatalogTypeOK
  <1>6. \A k \in Kinds : Elements(lists'[k]) =
            IF k = s.kind THEN Elements(lists[k]) \cup Elements(EntriesOf(s)) ELSE Elements(lists[k])
    <2>1. lists[s.kind] \in Seq(Entry)
      BY <1>2 DEF CatalogTypeOK
    <2>2. Elements(lists[s.kind] \o EntriesOf(s)) =
             Elements(lists[s.kind]) \cup Elements(EntriesOf(s))
      BY <1>2, <2>1, ConcatElements
    <2>3. \A k \in Kinds : lists'[k] = IF k = s.kind THEN lists[k] \o EntriesOf(s) ELSE lists[k]
      BY <1>3 DEF CatalogTypeOK
    <2> QED
      BY <2>2, <2>3
  <1>7. Gathered' = Gathered \cup Elements(EntriesOf(s))
    BY <1>2, <1>6 DEF Gathered
  <1>8. Gathered' = DeclaredBy(image, next + 1)
    BY <1>1, <1>7, DeclaredNext DEF HookInv
  <1>9. HookInv'
    BY <1>1, <1>8, CatalogAssumption DEF HookInv
  <1>10. OneImage' /\ NoOrphans'
    BY <1>1 DEF OneImage, NoOrphans
  <1> QED
    BY <1>5, <1>9, <1>10

\* The order in which a hook takes the lists leaves nothing out.
LEMMA OrderElements ==
    ASSUME CatalogTypeOK
    PROVE  Order \in Seq(Entry) /\ Elements(Order) = Gathered
  <1> DEFINE x == lists["xml"]  e == lists["entity"]  r == lists["rewrite"]  g == lists["sgml"]
  <1>1. x \in Seq(Entry) /\ e \in Seq(Entry) /\ r \in Seq(Entry) /\ g \in Seq(Entry)
    BY DEF CatalogTypeOK, Kinds
  <1>2. Gathered = Elements(x) \cup Elements(e) \cup Elements(r) \cup Elements(g)
    BY DEF Gathered, Kinds
  <1> HIDE DEF x, e, r, g
  <1>3. CASE hook = "post-activate"
    <2>1. Order = ((x \o e) \o r) \o g
      BY <1>3 DEF Order, x, e, r, g
    <2>2. x \o e \in Seq(Entry) /\ (x \o e) \o r \in Seq(Entry) /\ ((x \o e) \o r) \o g \in Seq(Entry)
      BY <1>1
    <2>3. Elements(x \o e) = Elements(x) \cup Elements(e)
      BY <1>1, ConcatElements, ZenonT(40)
    <2>4. Elements((x \o e) \o r) = Elements(x \o e) \cup Elements(r)
      BY <1>1, <2>2, ConcatElements, ZenonT(40)
    <2>5. Elements(((x \o e) \o r) \o g) = Elements((x \o e) \o r) \cup Elements(g)
      BY <1>1, <2>2, ConcatElements, ZenonT(40)
    <2> QED
      BY <1>2, <2>1, <2>2, <2>3, <2>4, <2>5
  <1>4. CASE hook # "post-activate"
    <2>1. Order = ((g \o x) \o e) \o r
      BY <1>4 DEF Order, x, e, r, g
    <2>2. g \o x \in Seq(Entry) /\ (g \o x) \o e \in Seq(Entry) /\ ((g \o x) \o e) \o r \in Seq(Entry)
      BY <1>1
    <2>3. Elements(g \o x) = Elements(g) \cup Elements(x)
      BY <1>1, ConcatElements, ZenonT(40)
    <2>4. Elements((g \o x) \o e) = Elements(g \o x) \cup Elements(e)
      BY <1>1, <2>2, ConcatElements, ZenonT(40)
    <2>5. Elements(((g \o x) \o e) \o r) = Elements((g \o x) \o e) \cup Elements(r)
      BY <1>1, <2>2, ConcatElements, ZenonT(40)
    <2> QED
      BY <1>2, <2>1, <2>2, <2>3, <2>4, <2>5
  <1> QED
    BY <1>3, <1>4

LEMMA RunHookStep ==
    ASSUME CatalogInv, RunHook
    PROVE  CatalogInv'
  <1> USE DEF CatalogInv
  <1>1. /\ doing = "portfile" /\ doing' = hook /\ todo' = Order
        /\ UNCHANGED <<status, content, image, hook, next, lists, faults, skipped>>
    BY DEF RunHook
  <1>2. todo' \in Seq(Entry) /\ Elements(todo') = Gathered
    BY <1>1, OrderElements
  <1>3. Gathered = Declared(image)
    <2>1. next = Len(Portfile[image]) + 1
      BY CatalogAssumption DEF RunHook, HookInv, CatalogTypeOK
    <2> QED
      BY <1>1, <2>1 DEF HookInv, Declared
  <1>4. files \subseteq files' /\ files' \subseteq Files
    BY CatalogAssumption DEF RunHook, CatalogTypeOK
  <1>5. CatalogTypeOK'
    BY <1>1, <1>2, <1>4 DEF CatalogTypeOK
  <1>6. OneImage' /\ NoOrphans'
    BY <1>1 DEF OneImage, NoOrphans
  <1>7. HookInv'
    BY <1>1, <1>2, <1>3 DEF HookInv, CatalogTypeOK
  <1> QED
    BY <1>5, <1>6, <1>7

LEMMA CreateStep ==
    ASSUME CatalogInv, CreateCatalog
    PROVE  CatalogInv'
  <1> USE DEF CatalogInv
  <1>1. Head(todo) \in Entry
    BY TailElements DEF CreateCatalog, CatalogTypeOK
  <1>2. CatalogTypeOK'
    BY <1>1 DEF CreateCatalog, CatalogTypeOK, Entry
  <1>3. OneImage' /\ NoOrphans' /\ HookInv'
    BY DEF CreateCatalog, OneImage, NoOrphans, HookInv, Lookup, Gathered
  <1> QED
    BY <1>2, <1>3

LEMMA CatalogInstallStep ==
    ASSUME CatalogInv, InstallEntry
    PROVE  CatalogInv'
  <1> USE DEF CatalogInv
  <1> DEFINE e == Head(todo)
  <1>1. /\ doing = "post-activate" /\ todo # <<>> /\ e.file \in files /\ todo' = Tail(todo)
        /\ UNCHANGED <<status, files, doing, image, hook, next, lists, skipped>>
        /\ faults' \in Nat
        /\ \/ content' = content /\ Lookup(e.file, e.key)
           \/ content' = content \cup {e}
    BY DEF InstallEntry, LookupFails, Found, CatalogTypeOK
  <1>2. /\ Elements(todo) = {e} \cup Elements(todo') /\ todo' \in Seq(Entry) /\ e \in Entry
        /\ e \in Declared(image) /\ status[image] # "off" /\ image \in Images
    BY <1>1, TailElements DEF CatalogTypeOK, HookInv
  <1> HIDE DEF e
  <1>3. content \subseteq content' /\ content' \subseteq content \cup {e}
    BY <1>1
  <1>4. CatalogTypeOK'
    BY <1>1, <1>2, <1>3 DEF CatalogTypeOK
  <1>5. NoOrphans'
    BY <1>1, <1>2, <1>3 DEF NoOrphans
  <1>6. \E x \in content' : x.file = e.file /\ x.key = e.key
    BY <1>1 DEF Lookup
  <1>7. \A f \in Declared(image) : f \in Elements(todo') \/ Lookup(f.file, f.key)'
    BY <1>1, <1>2, <1>3, <1>6 DEF HookInv, Lookup
  <1>8. HookInv'
    BY <1>1, <1>2, <1>7 DEF HookInv
  <1>9. OneImage'
    BY <1>1 DEF OneImage
  <1> QED
    BY <1>4, <1>5, <1>8, <1>9

\* An entry that is not removed is not there, or was skipped.
LEMMA UninstallCases ==
    ASSUME UninstallEntry
    PROVE  LET e == Head(todo)
           IN  \/ content' = content \ {e} /\ skipped' = skipped \ {e}
               \/ content' = content /\ skipped' = skipped \cup {e}
  <1> DEFINE e == Head(todo)
  <1>1. PICK fails \in BOOLEAN :
           /\ content' = IF Found(e, fails) THEN content \ {e} ELSE content
           /\ skipped' = IF fails THEN skipped \cup {e} ELSE skipped \ {e}
    BY DEF UninstallEntry
  <1>2. ~Lookup(e.file, e.key) => e \notin content
    BY DEF Lookup
  <1> HIDE DEF e
  <1>3. CASE fails
    BY <1>1, <1>3 DEF Found, e
  <1>4. CASE ~fails /\ Lookup(e.file, e.key)
    BY <1>1, <1>4 DEF Found, e
  <1>5. CASE ~fails /\ ~Lookup(e.file, e.key)
    <2>1. content' = content /\ skipped' = skipped \ {e} /\ content \ {e} = content
      BY <1>1, <1>2, <1>5 DEF Found
    <2> QED
      BY <2>1 DEF e
  <1> QED
    BY <1>3, <1>4, <1>5

LEMMA UninstallStep ==
    ASSUME CatalogInv, UninstallEntry
    PROVE  CatalogInv'
  <1> USE DEF CatalogInv
  <1> DEFINE e == Head(todo)
  <1>1. /\ doing = "pre-deactivate" /\ todo # <<>> /\ todo' = Tail(todo)
        /\ UNCHANGED <<status, files, doing, image, hook, next, lists>>
        /\ faults' \in Nat
        /\ content' \subseteq content
        /\ \/ e \notin content' /\ skipped' = skipped \ {e}
           \/ skipped' = skipped \cup {e}
    BY UninstallCases DEF UninstallEntry, LookupFails, CatalogTypeOK
  <1>2. Elements(todo) = {e} \cup Elements(todo') /\ todo' \in Seq(Entry) /\ e \in Entry
    BY <1>1, TailElements DEF CatalogTypeOK
  <1> HIDE DEF e
  <1>3. CatalogTypeOK'
    BY <1>1, <1>2 DEF CatalogTypeOK
  <1>4. OneImage' /\ NoOrphans'
    <2>1. \A x \in content' : x \in skipped => x \in skipped'
      BY <1>1
    <2> QED
      BY <1>1, <2>1 DEF OneImage, NoOrphans
  <1>5. HookInv'
    <2>1. \A x : x \notin content \/ x \in skipped => x \notin content' \/ x \in skipped'
      BY <1>1
    <2>2. e \notin content' \/ e \in skipped'
      BY <1>1
    <2> QED
      BY <1>1, <1>2, <2>1, <2>2 DEF HookInv
  <1> QED
    BY <1>3, <1>4, <1>5

LEMMA EndStep ==
    ASSUME CatalogInv, EndHook
    PROVE  CatalogInv'
  <1> USE DEF CatalogInv
  <1>1. /\ doing \in {"post-activate", "pre-deactivate"} /\ doing' = "idle" /\ image \in Images
        /\ UNCHANGED <<files, content, image, hook, next, lists, todo, faults, skipped>>
        /\ status[image] = "part"
        /\ \A i \in Images \ {image} : status'[i] = status[i]
        /\ status'[image] = IF doing = "post-activate" THEN "on" ELSE "off"
        /\ status' \in [Images -> {"off", "on", "part"}]
        /\ Elements(todo) = {}
    BY EmptyElements DEF EndHook, CatalogTypeOK
  <1>2. CatalogTypeOK'
    BY <1>1 DEF CatalogTypeOK
  <1>3. OneImage'
    BY <1>1 DEF OneImage
  <1>4. NoOrphans'
    BY <1>1 DEF NoOrphans, HookInv
  <1>5. HookInv'
    BY <1>1 DEF HookInv
  <1> QED
    BY <1>2, <1>3, <1>4, <1>5

LEMMA FailStep ==
    ASSUME CatalogInv, HookFails
    PROVE  CatalogInv'
  <1> USE DEF CatalogInv
  <1>1. /\ doing' = "idle" /\ todo' = <<>> /\ faults' \in Nat
        /\ UNCHANGED <<status, files, content, image, hook, next, lists, skipped>>
    BY DEF HookFails, Abandon, CatalogTypeOK
  <1>2. CatalogTypeOK'
    BY <1>1 DEF CatalogTypeOK
  <1>3. OneImage' /\ NoOrphans' /\ HookInv'
    BY <1>1 DEF OneImage, NoOrphans, HookInv
  <1> QED
    BY <1>2, <1>3

LEMMA CatalogKept == CatalogInv /\ [CatalogNext]_catalogVars => CatalogInv'
  <1> SUFFICES ASSUME CatalogInv, [CatalogNext]_catalogVars PROVE CatalogInv'
    OBVIOUS
  <1>1. CASE CatalogNext
    BY <1>1, BeginStep, SetOptionStep, RunHookStep, CreateStep, CatalogInstallStep,
       UninstallStep, EndStep, FailStep DEF CatalogNext
  <1>2. CASE UNCHANGED catalogVars
    BY <1>2 DEF catalogVars, CatalogInv, CatalogTypeOK, OneImage, NoOrphans, HookInv, Lookup, Gathered
  <1> QED
    BY <1>1, <1>2

\* The invariant holds of every behaviour of the ports and their hooks.
THEOREM CatalogAlways == CatalogSpec => []CatalogInv
  <1> QED
    BY CatalogInitInv, CatalogKept, PTL DEF CatalogSpec

\* No variable leaves its type, whatever Portfiles declare and hooks fail.
THEOREM CatalogTypeCorrect == CatalogSpec => []CatalogTypeOK
  <1>1. CatalogInv => CatalogTypeOK
    BY DEF CatalogInv
  <1> QED
    BY <1>1, CatalogAlways, PTL

\* Nothing is left over in a catalog, however many hooks fail half way, but
\* for entries whose lookup failed when they were to be removed.
THEOREM NothingLeft == CatalogSpec => []NoOrphans
  <1>1. CatalogInv => NoOrphans
    BY DEF CatalogInv
  <1> QED
    BY <1>1, CatalogAlways, PTL

-----------------------------------------------------------------------------
(* Ports that share no key do not hurt each other. *)

\* The image whose entries are removed is half way, so an entry of another
\* image that is not off belongs to another port, and has another key.
LEMMA RemovedIsOwn ==
    ASSUME KeysDisjoint, CatalogInv, UninstallEntry,
           NEW i \in Images, i # image, status[i] # "off",
           NEW f \in Declared(i), f.file = Head(todo).file
    PROVE  f.key # Head(todo).key
  <1>1. Head(todo) \in Declared(image)
    <2>1. Elements(todo) = {Head(todo)} \cup Elements(Tail(todo))
      BY TailElements DEF UninstallEntry, CatalogInv, CatalogTypeOK
    <2> QED
      BY <2>1 DEF UninstallEntry, CatalogInv, HookInv
  <1>2. image \in Images /\ status[image] # "off"
    BY DEF UninstallEntry, CatalogInv, CatalogTypeOK
  <1>3. PortOf[i] # PortOf[image]
    BY <1>2 DEF CatalogInv, OneImage
  <1> QED
    BY <1>1, <1>2, <1>3 DEF KeysDisjoint

\* What is declared is found again after a step that removes nothing.
LEMMA ListedGrows ==
    ASSUME ActiveListed, content \subseteq content',
           \A i \in Images : status'[i] = "on" => status[i] = "on"
    PROVE  ActiveListed'
  BY DEF ActiveListed, Lookup

LEMMA ListedInductive ==
    KeysDisjoint /\ CatalogInv /\ ActiveListed /\ [CatalogNext]_catalogVars => ActiveListed'
  <1> SUFFICES ASSUME KeysDisjoint, CatalogInv, ActiveListed, [CatalogNext]_catalogVars PROVE ActiveListed'
    OBVIOUS
  <1>1. ASSUME NEW i \in Images, NEW h \in {"post-activate", "pre-deactivate"}, Begin(i, h)
        PROVE  ActiveListed'
    <2>1. content' = content /\ \A j \in Images : status'[j] = "on" => status[j] = "on"
      BY <1>1 DEF Begin, CatalogInv, CatalogTypeOK
    <2> QED
      BY <2>1, ListedGrows
  <1>2. CASE SetOption \/ RunHook \/ CreateCatalog \/ HookFails
    <2>1. UNCHANGED <<content, status>>
      BY <1>2 DEF SetOption, RunHook, CreateCatalog, HookFails, Abandon
    <2> QED
      BY <2>1, ListedGrows
  <1>3. CASE InstallEntry
    <2>1. content \subseteq content' /\ UNCHANGED status
      BY <1>3 DEF InstallEntry
    <2> QED
      BY <2>1, ListedGrows
  <1>4. CASE UninstallEntry
    <2>1. content \ {Head(todo)} \subseteq content' /\ UNCHANGED status /\ status[image] = "part"
      BY <1>4, UninstallCases DEF UninstallEntry, CatalogInv, CatalogTypeOK
    <2>2. SUFFICES ASSUME NEW i \in Images, status[i] = "on", NEW f \in Declared(i)
                   PROVE  Lookup(f.file, f.key)'
      BY <2>1 DEF ActiveListed
    <2>3. PICK x \in content : x.file = f.file /\ x.key = f.key
      BY <2>2 DEF ActiveListed, Lookup
    <2>4. x # Head(todo)
      BY <1>4, <2>1, <2>2, <2>3, RemovedIsOwn
    <2> QED
      BY <2>1, <2>3, <2>4 DEF Lookup
  <1>5. CASE EndHook
    <2>1. /\ content' = content /\ image \in Images /\ Elements(todo) = {}
          /\ doing \in {"post-activate", "pre-deactivate"}
          /\ \A i \in Images \ {image} : status'[i] = status[i]
          /\ status'[image] = IF doing = "post-activate" THEN "on" ELSE "off"
      BY <1>5, EmptyElements DEF EndHook, CatalogInv, CatalogTypeOK
    <2>2. status'[image] = "on" => \A f \in Declared(image) : Lookup(f.file, f.key)
      BY <2>1 DEF CatalogInv, HookInv
    <2> QED
      BY <2>1, <2>2 DEF ActiveListed, Lookup
  <1>6. CASE UNCHANGED catalogVars
    <2>1. UNCHANGED <<content, status>>
      BY <1>6 DEF catalogVars
    <2> QED
      BY <2>1, ListedGrows
  <1> QED
    BY <1>1, <1>2, <1>3, <1>4, <1>5, <1>6 DEF CatalogNext

\* If no two ports claim the same key of a catalog, every key an active port
\* declares is found, whatever hooks of other ports did or left undone.
THEOREM ActiveServed == KeysDisjoint => (CatalogSpec => []ActiveListed)
  <1> SUFFICES ASSUME KeysDisjoint PROVE CatalogSpec => []ActiveListed
    OBVIOUS
  <1>1. CatalogInit => ActiveListed
    BY DEF CatalogInit, ActiveListed
  <1>2. CatalogInv /\ ActiveListed /\ [CatalogNext]_catalogVars => ActiveListed'
    BY ListedInductive
  <1> QED
    BY <1>1, <1>2, CatalogAlways, PTL DEF CatalogSpec

\* Under the same condition, no step takes an entry that another port which
\* has not been deactivated declares.
THEOREM OthersUntouched == KeysDisjoint => (CatalogSpec => OthersKeepEntries)
  <1> DEFINE Step == \A e \in content \ content' :
                         \A i \in Images : status[i] # "off" /\ e \in Declared(i) => i = image
  <1> SUFFICES ASSUME KeysDisjoint PROVE CatalogSpec => OthersKeepEntries
    OBVIOUS
  <1>1. CatalogInv /\ [CatalogNext]_catalogVars => [Step]_catalogVars
    <2> SUFFICES ASSUME CatalogInv, CatalogNext PROVE Step
      OBVIOUS
    <2>1. CASE UninstallEntry
      <3>1. content \ {Head(todo)} \subseteq content'
        BY <2>1, UninstallCases
      <3> QED
        BY <2>1, <3>1, RemovedIsOwn
    <2>2. CASE InstallEntry
      BY <2>2 DEF InstallEntry
    <2>3. CASE SetOption \/ RunHook \/ CreateCatalog \/ EndHook \/ HookFails
      BY <2>3 DEF SetOption, RunHook, CreateCatalog, EndHook, HookFails, Abandon
    <2>4. ASSUME NEW i \in Images, NEW h \in {"post-activate", "pre-deactivate"}, Begin(i, h)
          PROVE  Step
      BY <2>4 DEF Begin
    <2> QED
      BY <2>1, <2>2, <2>3, <2>4 DEF CatalogNext
  <1> QED
    BY <1>1, CatalogAlways, PTL DEF CatalogSpec, OthersKeepEntries
=============================================================================
