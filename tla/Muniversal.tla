------------------------------ MODULE Muniversal ------------------------------
(***************************************************************************)
(* PortGroup muniversal 1.1: a port is built for each of several           *)
(* architectures in a copy of its sources and merged at the end.           *)
(*                                                                         *)
(* The model takes one port through the choice of architectures, the copies*)
(* of the sources, the procedures of the phases, which are wrapped to run  *)
(* once for each architecture with every directory renamed, the destroot of*)
(* each architecture and the four merges.  It can be stopped at any step   *)
(* and is then taken up again at the target that was not finished, as base *)
(* does; what the PortGroup left behind is still there.                    *)
(*                                                                         *)
(* Directories are abstracted to the option that named them and the        *)
(* architectures appended to them.  The commands and flags of a phase, the *)
(* triplets and patches by architecture are left out.                      *)
(***************************************************************************)
EXTENDS MergeTrees

CONSTANTS
    Inputs,    \* what a port, its options and its host may be
    MaxStops   \* bound: how often a port is stopped

Architectures == {"arm64", "x86_64", "i386", "ppc", "ppc64"}
Directories == {"test.dir", "destroot.dir", "destroot", "build.dir", "autoreconf.dir",
                "autoconf.dir", "configure.dir", "worksrcpath"}

\* Hosts, architectures and directories are the ones the PortGroup names.
ASSUME InputsAssumption ==
    /\ MaxStops \in Nat
    /\ \A i \in Inputs :
          /\ i.host.arch \in {"arm", "i386", "powerpc"}
          /\ i.archs \subseteq Architectures
          /\ i.no3Archs \in BOOLEAN /\ i.runBinaries \in BOOLEAN
          /\ i.set \subseteq Directories /\ i.sets \subseteq Directories
          /\ i.work.links \in Nat /\ i.work.end \in {"directory", "file", "missing"}

FileKinds == {"header", "text", "dont_diff", "combine", "binary", "archive", "link", "equivalent", "assumed",
              "mod", "flags", "gir", "la", "packed", "xz"}
FileLine == STRING \X (STRING \cup Seq(STRING)) \X STRING

\* The file a port installs for an architecture: of its lines only the includes
\* muniversal writes count as such; it has one core on all architectures where the
\* Portfile lists it as equivalent, and may name the architecture it is for.
ASSUME FilesAssumption ==
    \A i \in Inputs :
        /\ DOMAIN i.files \subseteq Architectures /\ i.deleteLa \in BOOLEAN
        /\ \A a \in DOMAIN i.files :
              LET file == i.files[a] IN
              /\ file.kind \in FileKinds /\ file = [kind |-> file.kind, data |-> file.data]
              /\ file.kind \in {"header", "text", "dont_diff", "combine"} =>
                    file.data \in Seq(FileLine) /\ \A m \in 1 .. Len(file.data) : file.data[m][1] # "include"
              /\ file.kind = "equivalent" =>
                    \A b \in DOMAIN i.files : i.files[b].kind = "equivalent" => i.files[b].data[1] = file.data[1]
              /\ file.kind \in {"flags", "gir"} =>
                    file.data \in STRING \X (IF file.kind = "gir" THEN {"none", a} ELSE AnyMark \cup {"none"})

VARIABLES
    input,
    target,        \* of base: the one that is run, or how it ended
    archs,         \* configure.universal_archs
    source,        \* the copies of worksrcpath: "part" or "whole", by architecture
    directories,   \* the options that are directories
    arch,          \* muniversal.current_arch, or "none"
    ran,           \* the procedures that were run, with their architectures
    saved,         \* the options saved while one runs
    trees,         \* the destroots there are, by name
    left,          \* the architectures the loop of a step has still to do
    step,          \* merges made
    stray,         \* the destroots with a copy of a destroot inside
    cut,           \* a diff cut a conditional
    stopped        \* the targets the port was stopped in

mergeVars == <<input, target, archs, source, directories, arch, ran, saved,
               trees, left, step, stray, cut, stopped>>
build == <<source, directories, arch, ran, saved>>
destroots == <<trees, left, step, stray, cut>>

-----------------------------------------------------------------------------
(* The choice of architectures. *)

\* muniversal.can_run.*, for a host of an architecture and a major version.
CanRun(a, host) ==
    CASE a = "arm64" -> host.arch = "arm"
      [] a = "x86_64" -> (host.arch = "i386" /\ host.capable64) \/ host.arch = "arm"
      [] a = "i386" -> host.arch = "i386" /\ host.major < 19
      [] a = "ppc" -> host.arch = "powerpc" \/ (host.arch = "i386" /\ host.major < 11)
      [] a = "ppc64" -> host.arch = "powerpc" /\ host.capable64

\* What each of the four steps of muniversal.no_3_archs removes.
Removed == << [powerpc |-> "none", i386 |-> "ppc64", arm |-> "ppc64"],
              [powerpc |-> "arm64", i386 |-> "none", arm |-> "ppc"],
              [powerpc |-> "x86_64", i386 |-> "none", arm |-> "i386"],
              [powerpc |-> "i386", i386 |-> "ppc", arm |-> "none"] >>

\* One step, if there are three architectures or more.
Without(chosen, a) == IF Cardinality(chosen) >= 3 THEN chosen \ {a} ELSE chosen

\* Mutant: the last step is left out.
PruneTwice(chosen, host) ==
    LET first == Without(chosen, Removed[1][host.arch])
        second == Without(first, Removed[2][host.arch])
    IN  Without(second, Removed[3][host.arch])

Prune(chosen, host) ==
    LET first == Without(chosen, Removed[1][host.arch])
        second == Without(first, Removed[2][host.arch])
        third == Without(second, Removed[3][host.arch])
    IN  Without(third, Removed[4][host.arch])

\* portconfigure::choose_supported_archs
Choose ==
    /\ target = "choose"
    /\ LET runnable == IF input.runBinaries THEN {a \in input.archs : CanRun(a, input.host)} ELSE input.archs
       IN  archs' = IF input.no3Archs THEN Prune(runnable, input.host) ELSE runnable
    /\ target' = IF input.no3Archs /\ Cardinality(archs') >= 3 THEN "error"   \* Should Not Happen
             ELSE IF Cardinality(archs') < 2 THEN "single"                 \* no variant universal
             ELSE "extract"
    /\ UNCHANGED <<input, build, destroots, stopped>>

-----------------------------------------------------------------------------
(* Copies of the sources. *)

Uncopied == {a \in archs : a \notin DOMAIN source}

\* worksrcpath is a directory, or a link; a chain of links that does not end
\* nowhere is followed, up to a length.
LinkDepth == 50
SourceFound(work) == IF work.links = 0 THEN work.end = "directory" ELSE work.end # "missing" /\ work.links < LinkDepth

\* extract_finish: a copy that is there is not made again.
CopySource ==
    /\ target = "extract"
    /\ \E a \in Uncopied :
          IF SourceFound(input.work)
            THEN /\ source' = [b \in DOMAIN source \cup {a} |-> IF b = a THEN "whole" ELSE source[b]]
                 /\ UNCHANGED target
            ELSE target' = "error" /\ UNCHANGED source
    /\ UNCHANGED <<input, archs, directories, arch, ran, saved, destroots, stopped>>

Extracted ==
    /\ target = "extract" /\ Uncopied = {}
    /\ target' = "phases"
    /\ UNCHANGED <<input, archs, build, destroots, stopped>>

-----------------------------------------------------------------------------
(* Wrapped procedures. *)

\* The option whose value a directory has that is not set, as base defines it.
Follows == [d \in Directories |->
               CASE d \in {"test.dir", "destroot.dir"} -> "build.dir"
                 [] d \in {"build.dir", "autoreconf.dir", "autoconf.dir", "configure.dir"} -> "worksrcpath"
                 [] OTHER -> d]

Dir(by, marks) == [set |-> TRUE, by |-> by, marks |-> marks]
Unset == [set |-> FALSE, by |-> "none", marks |-> <<>>]

ValueOf(o, d) ==
    LET Up(x) == IF o[x].set THEN x ELSE Follows[x]
    IN  o[Up(Up(d))]

InitialOptions == [d \in Directories |->
    IF d \in input.set \cup {"destroot", "worksrcpath"} THEN Dir(d, <<>>) ELSE Unset]

\* get_arch_dir
ArchDir(dir, a) == [dir EXCEPT !.marks = Append(@, a)]

\* One directory renamed for an architecture, or its value, if it is not set.
Rename(o, d, a) == [o EXCEPT ![d] = ArchDir(ValueOf(o, d), a)]

\* Mutant: the directories others follow are renamed first.
RenamedUpwards(o, a) ==
    LET below == Rename(Rename(Rename(Rename(o, "configure.dir", a), "autoconf.dir", a),
                               "autoreconf.dir", a), "build.dir", a)
        all == Rename(Rename(Rename(below, "destroot", a), "destroot.dir", a), "test.dir", a)
    IN  [all EXCEPT !["worksrcpath"] = ArchDir(@, a)]

\* The wrapper renames a directory before the ones it may follow.
Renamed(o, a) ==
    LET above == Rename(Rename(Rename(o, "test.dir", a), "destroot.dir", a), "destroot", a)
        all == Rename(Rename(Rename(Rename(above, "build.dir", a), "autoreconf.dir", a),
                             "autoconf.dir", a), "configure.dir", a)
    IN  [all EXCEPT !["worksrcpath"] = ArchDir(@, a)]

Procedures == 1 .. 2
Due == {w \in Procedures \X archs : w \notin ran}

\* The next procedure, for one more architecture.
Enter ==
    /\ target = "phases" /\ arch = "none"
    /\ \E w \in Due :
          /\ \A v \in Due : w[1] <= v[1]
          /\ ran' = ran \cup {w}
          /\ arch' = w[2]
          /\ saved' = [d \in DOMAIN directories |-> ValueOf(directories, d)]
          /\ directories' = Renamed(directories, w[2])
    /\ UNCHANGED <<input, target, archs, source, destroots, stopped>>

\* The procedure is the Portfile's and sets a directory.
SetDir ==
    /\ target = "phases" /\ arch # "none"
    /\ \E d \in input.sets : directories' = [directories EXCEPT ![d] = Dir("Portfile", <<arch>>)]
    /\ UNCHANGED <<input, target, archs, source, arch, ran, saved, destroots, stopped>>

Leave ==
    /\ target = "phases" /\ arch # "none"
    /\ directories' = saved
    /\ saved' = <<>>
    /\ arch' = "none"
    /\ UNCHANGED <<input, target, archs, source, ran, destroots, stopped>>

-----------------------------------------------------------------------------
(* Destroots. *)

With(name, tree) == [n \in DOMAIN trees \cup {name} |-> IF n = name THEN tree ELSE trees[n]]
NoFiles == <<>>

StartDestroot ==
    /\ target = "phases" /\ arch = "none" /\ Due = {}
    /\ target' = "copy"
    /\ left' = archs
    /\ UNCHANGED <<input, archs, build, trees, step, stray, cut, stopped>>

\* destroot_start_muniversal: the empty destroot is copied for an architecture;
\* into the one that is there, if it was left by a target that did not finish.
CopyDestroot ==
    /\ target = "copy"
    /\ \E a \in left :
          IF a \in stray
            THEN target' = "error" /\ UNCHANGED <<trees, left, stray>>
            ELSE /\ left' = left \ {a}
                 /\ trees' = IF a \in DOMAIN trees THEN trees ELSE With(a, NoFiles)
                 /\ stray' = IF a \in DOMAIN trees THEN stray \cup {a} ELSE stray
                 /\ UNCHANGED target
    /\ UNCHANGED <<input, archs, build, step, cut, stopped>>

\* The destroot itself is deleted.
Copied ==
    /\ target = "copy" /\ left = {}
    /\ target' = "install"
    /\ left' = archs
    /\ trees' = [n \in DOMAIN trees \ {"destroot"} |-> trees[n]]
    /\ stray' = stray \ {"destroot"}
    /\ UNCHANGED <<input, archs, build, step, cut, stopped>>

\* The port installs its file for an architecture, if it has one.
Install ==
    /\ target = "install"
    /\ \E a \in left :
          /\ left' = left \ {a}
          /\ trees' = IF a \in DOMAIN input.files THEN With(a, Single(<<"f">>, input.files[a])) ELSE trees
    /\ UNCHANGED <<input, target, archs, build, step, stray, cut, stopped>>

Installed ==
    /\ target = "install" /\ left = {}
    /\ target' = "merge"
    /\ step' = 0
    /\ UNCHANGED <<input, archs, build, trees, left, stray, cut, stopped>>

\* The formats of diff for a pair: the conditions of old and of new groups.
DiffFormatM == [old |-> "not_lp64", new |-> "lp64"]
DiffFormatProc == [old |-> "powerpc", new |-> "intel"]
DiffFormatArmElse == [old |-> "arm64", new |-> "not_arm64"]

Pair(one, two, into, name1, name2, format) ==
    [one |-> one, two |-> two, into |-> into, name1 |-> name1, name2 |-> name2, format |-> format]

Pairs == << Pair("ppc", "ppc64", "powerpc", "ppc", "ppc64", DiffFormatM),
            Pair("i386", "x86_64", "intel", "i386", "x86_64", DiffFormatM),
            Pair("powerpc", "intel", "ppc-intel", "powerpc", "x86", DiffFormatProc),
            Pair("arm64", "ppc-intel", "destroot", "arm64", "ppcintel", DiffFormatArmElse) >>

\* A tree that is not there is merged as one without files.
Tree(name) == IF name \in DOMAIN trees THEN trees[name] ELSE NoFiles

\* destroot_finish_muniversal, one merge.
Merge ==
    /\ target = "merge" /\ step < Len(Pairs)
    /\ LET pair == Pairs[step + 1]
           merged == MergeTree(Tree(pair.into), Tree(pair.one), Tree(pair.two), pair, input.deleteLa)
       IN  IF merged.failed \/ (pair.into \in stray /\ {pair.one, pair.two} \cap stray # {})
             THEN target' = "error" /\ UNCHANGED <<trees, step, stray, cut>>
             ELSE /\ trees' = With(pair.into, merged.tree)
                  /\ stray' = IF {pair.one, pair.two} \cap stray = {} THEN stray
                              ELSE stray \cup {pair.into}
                  /\ cut' = (cut \/ merged.cut)
                  /\ step' = step + 1
                  /\ UNCHANGED target
    /\ UNCHANGED <<input, archs, build, left, stopped>>

Finish ==
    /\ target = "merge" /\ step = Len(Pairs)
    /\ target' = "done"
    /\ UNCHANGED <<input, archs, build, destroots, stopped>>

-----------------------------------------------------------------------------
(* Interruptions. *)

\* The port is stopped: while it copies, so that a copy is partly there, or
\* between two steps.
Stop ==
    /\ target \in {"extract", "phases", "copy", "install", "merge"}
    /\ Len(stopped) < MaxStops
    /\ stopped' = Append(stopped, target)
    /\ target' = "stopped"
    /\ source' \in {source} \cup
          IF target = "extract"
            THEN {[b \in DOMAIN source \cup {a} |-> IF b = a THEN "part" ELSE source[b]] :
                     a \in {a \in Uncopied : SourceFound(input.work)}}
            ELSE {}
    /\ UNCHANGED <<input, archs, directories, arch, ran, saved, destroots>>

\* Mutant: the current architecture is kept.
ResumeInside ==
    /\ target = "stopped"
    /\ target' = CASE Last(stopped) \in {"extract", "phases"} -> Last(stopped)
               [] OTHER -> "copy"
    /\ directories' = InitialOptions
    /\ saved' = <<>>
    /\ ran' = IF Last(stopped) = "phases" THEN {} ELSE ran
    /\ left' = IF Last(stopped) \in {"extract", "phases"} THEN left ELSE archs
    /\ UNCHANGED <<input, archs, source, arch, trees, step, stray, cut, stopped>>

\* A new process takes up the target that was not finished.
Resume ==
    /\ target = "stopped"
    /\ target' = CASE Last(stopped) \in {"extract", "phases"} -> Last(stopped)
               [] OTHER -> "copy"
    /\ directories' = InitialOptions
    /\ arch' = "none" /\ saved' = <<>>
    /\ ran' = IF Last(stopped) = "phases" THEN {} ELSE ran
    /\ left' = IF Last(stopped) \in {"extract", "phases"} THEN left ELSE archs
    /\ UNCHANGED <<input, archs, source, trees, step, stray, cut, stopped>>

MuniversalInit ==
    /\ input \in Inputs
    /\ target = "choose"
    /\ archs = {} /\ source = <<>> /\ directories = InitialOptions
    /\ arch = "none" /\ ran = {} /\ saved = <<>>
    /\ trees = <<>> /\ left = {} /\ step = 0 /\ stray = {} /\ cut = FALSE
    /\ stopped = <<>>

MuniversalNext ==
    \/ Choose \/ CopySource \/ Extracted
    \/ Enter \/ SetDir \/ Leave
    \/ StartDestroot \/ CopyDestroot \/ Copied \/ Install \/ Installed \/ Merge \/ Finish
    \/ Stop \/ Resume

MuniversalSpec == MuniversalInit /\ [][MuniversalNext]_mergeVars

-----------------------------------------------------------------------------
(* Properties. *)

\* Every variable keeps its type; while a procedure runs it is known which
\* architecture it runs for, and what to restore.
MuniversalTypeOK ==
    /\ target \in {"choose", "single", "extract", "phases", "copy", "install", "merge",
               "done", "error", "stopped"}
    /\ archs \subseteq Architectures /\ DOMAIN source \subseteq archs /\ left \subseteq archs
    /\ step \in 0 .. Len(Pairs) /\ stray \subseteq DOMAIN trees
    /\ (arch # "none") = (saved # <<>>)
    /\ arch # "none" => \E p \in Procedures : <<p, arch>> \in ran

\* "at least one arch should have been removed": muniversal.no_3_archs leaves at
\* most two architectures, the host's own among them if it was there, on every
\* host and for every choice but one: a host of arch i386 is also given arm64,
\* with both of its own.
TwoArchsLeft ==
    LET own == [powerpc |-> "ppc", i386 |-> "x86_64", arm |-> "arm64"][input.host.arch]
    IN  input.no3Archs =>
          /\ target = "error" /\ archs \notin {{}} /\ source = <<>> /\ SourceFound(input.work) =>
                input.host.arch = "i386" /\ archs = {"arm64", "x86_64", "i386"}
          /\ target \notin {"choose", "error"} => Cardinality(archs) <= 2
          /\ target # "choose" /\ own \in input.archs /\ CanRun(own, input.host) => own \in archs

\* A wrapped procedure finds every directory renamed for its architecture, once,
\* whichever of them the Portfile set and whichever follow another; after it
\* each is what it was, also one it set.
OwnTree ==
    \A d \in DOMAIN directories :
        LET value == ValueOf(directories, d) first == ValueOf(InitialOptions, d)
        IN  IF arch # "none"
              THEN value.by = "Portfile" \/ value = ArchDir(first, arch)
              ELSE value = first

\* What one architecture finds, when it compiles, of the file installed for it,
\* with conditions of its own that hold or not.
Holds(a) ==
    {IF a \in {"arm64", "x86_64", "ppc64"} THEN "lp64" ELSE "not_lp64",
     CASE a \in {"ppc", "ppc64"} -> "powerpc" [] a \in {"i386", "x86_64"} -> "intel" [] OTHER -> "arm64"}
    \cup IF a = "arm64" THEN {} ELSE {"not_arm64"}

\* The file that is left after the includes a division by architecture made.
Followed(a, path) ==
    LET lines(p) == Preprocess(trees["destroot"][p].data, Holds(a))
        Target(p) == IF Len(lines(p)) = 1 /\ lines(p)[1][1] = "include" THEN lines(p)[1][2] ELSE p
    IN  Target(Target(Target(path)))

Served(a) ==
    LET own == input.files[a]
        merged == trees["destroot"]
        path == <<"f">>
        Core(file) == file.data[1]
    IN  CASE own.kind = "header" ->
               \A more \in SUBSET {"X"} :
                   path \in DOMAIN merged
                   /\ Preprocess(merged[path].data, Holds(a) \cup more) =
                      Preprocess(own.data, Holds(a) \cup more)
          [] own.kind = "dont_diff" -> merged[Followed(a, path)].data = own.data
          [] own.kind \in {"combine", "text"} -> BareLines(own.data) \subseteq BareLines(merged[path].data)
          [] own.kind \in {"binary", "archive"} -> own.data \subseteq merged[path].data
          [] own.kind = "mod" -> \E p \in DOMAIN merged : merged[p].kind = "mod" /\ merged[p].data = own.data
          [] own.kind = "la" -> input.deleteLa \/ merged[path].data = own.data
          [] own.kind = "assumed" -> \E b \in DOMAIN input.files : merged[path] = input.files[b]
          [] OTHER -> Core(merged[path]) = Core(own)

\* Nothing that was installed for an architecture is lost in four merges, and
\* each finds its own where the others find theirs, unless a diff put a
\* condition around a part of a conditional of the file.  Of files of a kind the
\* group assumes to be alike, and of lines that differ in white space, it finds
\* those of one architecture.
EachArchServed ==
    target = "done" /\ ~cut => \A a \in archs \cap DOMAIN input.files : Served(a)

\* Files of a pair of architectures that no merge could make one.
Differ(one, two) ==
    \/ one.kind # two.kind
    \/ /\ one.kind \in {"packed", "flags", "gir"} /\ one.data[1] # two.data[1]
    \/ /\ one.kind = "binary" /\ \E c \in one.data, d \in two.data : c[1] = d[1]
       /\ \E a \in archs \cap DOMAIN input.files : input.files[a] # one
    \/ /\ one.kind \in {"link", "la", "xz"} /\ one.data # two.data
       /\ ~(one.kind = "la" /\ input.deleteLa)

\* The name of an architecture in a file is removed in the merge with the other
\* of its family, and that of arm64 in the last; where the other of the family
\* has no such file, the name stays and the files differ.
Family(a) == IF a \in {"i386", "x86_64"} THEN {"i386", "x86_64"}
             ELSE IF a \in {"ppc", "ppc64"} THEN {"ppc", "ppc64"} ELSE {a}
DirNameKept ==
    \E a \in archs \cap DOMAIN input.files :
        /\ input.files[a].kind = "gir" /\ input.files[a].data[2] = a /\ a # "arm64"
        /\ archs \cap DOMAIN input.files \cap Family(a) = {a}

\* Modules that are divided in the last merge, after those of one family were and
\* those of the other were not: the directories for modules are there already.
ModulesMet ==
    LET Is(a) == a \in archs \cap DOMAIN input.files /\ input.files[a].kind = "mod"
    IN  \E a, b, c \in Architectures \ {"arm64"} :
            /\ Is(a) /\ Is(b) /\ Is(c) /\ Is("arm64") /\ b \in Family(a) /\ c \notin Family(a)
            /\ input.files[a] # input.files[b] /\ input.files[c] # input.files["arm64"]

\* A merge fails for files that differ in what they are, and for nothing else,
\* unless the port was stopped while it merged or copied destroots.
FailsRightly ==
    target = "error" /\ source # <<>> /\ ToSet(stopped) \cap {"copy", "install", "merge"} = {} =>
        \/ DirNameKept \/ ModulesMet
        \/ \E a, b \in archs \cap DOMAIN input.files : a # b /\ Differ(input.files[a], input.files[b])

\* The merges keep what each architecture needs, or fail for a reason.
MergedRightly == EachArchServed /\ FailsRightly

\* A copy of sources that is not whole was interrupted while it was made, and a
\* destroot inside a destroot comes of a destroot that was begun twice; a port
\* that was not stopped there has neither.
CleanButFor ==
    /\ \A a \in DOMAIN source : source[a] = "part" => "extract" \in ToSet(stopped)
    /\ stray # {} => ToSet(stopped) \cap {"copy", "install", "merge"} # {}

\* Each architecture works in directories, sources and destroots of its own,
\* whole and made once.
EachToItsOwn == OwnTree /\ CleanButFor
=============================================================================
