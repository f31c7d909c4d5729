# MacPorts ports tree: formal models

This directory holds TLA+ models of the programs that live in the MacPorts
ports tree (`macports-ports`), the TLC configurations that check them on small
instances, and proofs, checked by the TLA+ proof system, that hold for every
instance.

The repository is unusual: of its 35 000 files nearly all are *Portfiles*,
declarative recipes that say where a program is fetched from and how it is
built. The interpreter that runs them, `macports-base`, is in another
repository. What is left is still a system of programs with state,
concurrency and failures, and that is what is modelled here.

## 1. Inventory

For each part: the state it keeps, its operations, who it interacts with,
what makes it hard, and what it means for it to be correct.

### 1.1 Continuous integration (`.github/workflows`)

**Index & mirror workflow (`mirror.yml`).** Every push to `master` queues a run
of one job. The job finds the ports changed since the last commit it handled,
mirrors their distfiles, brings the PortIndex of every supported platform up to
date, publishes it as a tarball and records the commit.
*State:* outside a run, the status database (`mirror.last_commit`, the mirrored
records), the distfiles server, the upload server with one PortIndex tarball
per commit, the Actions cache, and the concurrency group (one run executing,
one waiting); inside a run, step outputs and the working tree.
*Interacts with* git history (shallow clone deepened on demand), `portindex`,
`mirror-multi.tcl`, `update-mirrordb.tcl`, three servers.
*Hard:* any step may fail and nothing retries it but a later run; queued runs
are superseded; a run may be repeated by hand after newer ones; the PortIndex
is updated incrementally from whatever tarball is found, relying on file
timestamps. *Correct* when no changed port is passed by, nothing is recorded
that was not done, and the published index is the one of its commit.

**Pull request workflow (`main.yml`).** Per pull request and per macOS version:
bootstrap, list the changed ports and their subports, lint, build, test.
*State:* the list of subports, the installed ports, the flags `fail` and
`test_fail`, the log directory. *Hard:* one port's failure must not end the
loop nor be forgotten; a background `tail` and a background installer.
*Correct* when the job fails exactly if some port failed to lint, to install
its dependencies or to install.

**Bootstrap script (`bootstrap.sh`).** Shared by both workflows. Starts three
downloads in the background, prepares the machine, waits for them, installs
MacPorts and brings the downloaded PortIndex up to the pull request's tree.
*State:* files being downloaded, file times of the checkout, the PortIndex.
*Hard:* the downloads race with the steps that set the file times on which the
incremental `portindex` relies. *Correct* when the index describes the tree
that is built.

### 1.2 PortGroups (`_resources/port1.0/group`, 107 files)

PortGroups are Tcl code that a Portfile includes. Their state is the set of
*options* of the port being evaluated plus namespace variables; they react to
assignments (`option_proc`), to the end of the Portfile
(`port::register_callback`) and to the phases of a build.

- **xmlcatalog 1.0** keeps the shared XML and SGML root catalogs: a port's
  entries are added after activation and removed before deactivation. Shared
  state between ports, steps that fail half way, upgrades. Correct when the
  catalogs hold the entries of the active ports.
- **openssl 1.0**, **legacysupport 1.1**, **mpi**, **wxWidgets**, **java**:
  option-driven configuration with a cache of what was applied last; a later
  assignment has to undo an earlier one. Correct when the outcome depends on
  the last assignment only. The two with a cache, openssl and legacysupport,
  are modelled.
- **muniversal 1.0/1.1**: builds a port once per architecture and merges the
  results into one tree. State: the current architecture, saved options, one
  copy of the sources and one destroot per architecture. Hard: directories that
  follow one another are renamed and restored one by one; the trees differ in
  contents, kinds of file and names; a build can be interrupted anywhere. Correct
  when each architecture works in directories of its own and the merged tree
  serves each as its own did.
- **active_variants 1.1**, **conflicts_build**: conditions on other active
  ports, which change between the time they are looked at and used. State: the
  list of requirements, the place in it, and a `result` kept from one
  requirement to the next. Correct when no phase works with what was refused
  and an activation warns of the right ports.
- **compilers 1.0**, **compiler_wrapper**, **xcode**: which compiler a port is
  built with, from blacklists, variants and defaults.
- **texlive 1.0**: regenerates shared TeX configuration from the fragments of
  the active ports after each activation.
- **obsolete**, **deprecated**, **stub**: ports replaced by others.
- Language groups (**rust**, **golang**, **python**, **perl5**, **ruby**,
  **haskell**, **php**, **ocaml**, **cmake**, **qt**...): set options from a
  table; little state of their own.

### 1.3 Programs shipped with ports (`*/files`)

- **X11 font cache script** (`x11/xinit/files/font_cache.sh`), started by
  launchd and by users, builds the font caches of directories under a lock.
  State: the lock file, the caches, `fonts.list`. Hard: several copies, kills,
  stale locks, fonts that change meanwhile. Correct when one copy works at a
  time and a directory taken for clean has current caches.
- **certsync** (`security/certsync`) writes the certificate bundle from the
  keychains when the port is activated, when launchd sees them change and when a
  user asks. State: the bundle, the keychains' trust settings in three domains,
  the job and its pending event, what a run has read so far. Hard: runs overlap
  and settings change while they read; launchd's run may outlive the port. Correct
  when what is exported was trusted and what stays trusted is exported.
- **darts-clone** (`textproc/mecab-base/files/darts.h`), the dictionary that the
  port's variant builds MeCab with: a double array made from sorted keys, or from
  a minimal automaton of keys with values. State: the automaton's open and closed
  states, the array and the ring of its free units. Hard: states are shared over
  distances that do not fit into a unit, and only the last blocks are kept track
  of. Correct when every search answers what the keys say.
- **ClamavScanIt.sh**, **sshguard-launchd**, **privoxy_merge.sh**,
  **mpstats.tcl** and other launch and maintenance scripts.

### 1.4 Interactions

`mirror.yml` reads git, calls `bootstrap.sh` and writes what `main.yml`'s
bootstrap downloads. PortGroups are evaluated by `macports-base`, which calls
their hooks in phase order; several of them meet in one port's options.
`font_cache.sh` copies meet only in the file system.

## 2. Modules

| Module | Models | Kind |
|---|---|---|
| `MirrorPipeline` | the job of `mirror.yml`, the concurrency group, the servers | detailed specification |
| `MirrorLedger` | what `mirror.last_commit` promises to its readers | abstract specification, implemented by `MirrorPipeline` |
| `MirrorPipelineProofs` | invariants of `MirrorPipeline`, and that it implements `MirrorLedger` | proofs |
| `BootstrapIndex` | `bootstrap.sh`: downloads in the background, the PortIndex | specification |
| `PullRequestBuild` | the job of `main.yml` | specification |
| `PullRequestProofs` | why the job's colour is right, and why an entry of the PortIndex can be wrong | proofs about `PullRequestBuild` and `BootstrapIndex` |
| `FontCache` | `font_cache.sh`, several copies, one directory | specification |
| `FontCacheProofs` | when two copies work at once, and when caches are stale | proofs |
| `XmlCatalog` | the PortGroup xmlcatalog, several ports | specification |
| `OpensslGroup` | the PortGroup openssl, one Portfile | specification |
| `Certsync` | certsync, launchd, the two ports that own the bundle | specification |
| `CertsyncProofs` | what is exported, and when it is fresh or gone | proofs |
| `VariantChecks` | the PortGroups active_variants and conflicts_build, one port | specification |
| `DependencyProofs` | why a port gets the version it asks for, and which phases run with which dependencies | proofs about `OpensslGroup` and `VariantChecks` |
| `Dawg` | the automaton of `darts.h` | operators |
| `DoubleArray` | `build` of `darts.h` from the automaton or the keys, and the searches | specification on top of `Dawg` |
| `DawgProofs` | why the automaton is minimal and holds the words of the keys; when insert throws; what each operation on the array does | proofs |
| `DoubleArrayProofs` | why units and offsets are right, what `build` throws for, and why searches answer what the keys say | proofs, on top of `DawgProofs` |
| `MergeTrees` | the merge of two trees in muniversal | operators |
| `Muniversal` | the PortGroup muniversal, one port | specification on top of `MergeTrees` |
| `Legacysupport` | the PortGroup legacysupport, one Portfile | specification |
| `PortGroupProofs` | why flags are those of the last evaluation, architectures work apart and each is served by the merged tree, and catalogs serve the active ports | proofs about `Legacysupport`, `Muniversal` and `XmlCatalog` |
| `MC...` | values of the constants | for TLC |

Where one proof module extends several components, `Init`, `Next`, `Spec`, `TypeOK`
and `vars` of all but one have a prefix (`CatalogInit`, `BootstrapNext`,
`ChecksTypeOK`, `MuniversalSpec`, `buildVars`), so that no two have one name.

Definitions whose comment begins with `Mutant:` are deliberate mistakes, one for
each property; with the mistake in place of the definition it sits next to, TLC
finds the property violated. They are never used by the specifications.

### 2.1 MirrorPipeline

One action per step of the job, in the order of the file: `DetermineRange`,
`RestoreCache`, `PreparePorts`, `MirrorPorts`, `UploadDistfiles`,
`UpdateMirrorDB`, `UpdatePortIndex`, `DeployPortIndex`, `SavePortIndex`,
`UpdateStatus`, `UpdateSQL`. A step that writes to a server by one atomic
request (a `PUT`, a redis `SET`) is one action; the step "Mirror all changed
ports" makes three separate effects and is three actions. `Fail` is the failure
of whichever step is running: every `run:` block starts with `set -eu`, so a
failing command ends the job, and everything on the virtual machine is lost; a
step that writes remotely may have had part of its effect.

`Commit(triggers)` is a commit on `master`. Several commits can be pushed at
once, and a push that touches only `.github` is ignored (`on.push`), so a commit
may or may not trigger. `Start` and the assignment to `pending` are the
concurrency group `mirror` with `cancel-in-progress: false`. `Rerun` is a
maintainer's re-run.

A port directory's content is what it descends from (`lineage`, for git's
rename detection) and the commit that last changed it. `Portlist` is
`git diff --diff-filter=AM`, whose answer goes through a pipe: `set -eu` without
`pipefail` sees the last command only, so that `RangeFrom` may go on with a part of
the list, or with none. A tarball holds a commit and, per platform, the
tree its index was generated from; `Reindex` is the incremental `portindex`,
which generates the entry of a port anew only if git rewrote its files after
the restored index was made.

*History variables*: `reported` (mirror-multi lists failed ports and goes on, by
design), `moved` (renames the diff showed), `lost` (ports a broken pipe left out of
their list) and `lossy` (a run that had to guess the start of its range was
committed) separate the intended gaps of the
workflow from unintended ones.

### 2.2 FontCache

A process is at a line of the script (`pc`). Taking the lock is one action per
system call that another copy can come between: `TestLock`, `ReadLock`,
`CheckAlive`, `RemoveStale`, `OpenLock` (the shell truncates), `WriteLock`,
`VerifyLock`. Where `lockfile` is true the script uses `lockfile(1)`, which is
`TryLockfile` and `Age`; `HaveLockfile` says which systems a run is about. The rest is `check_dirty` (`FindFonts`, `Judge`) and
the tools (`ScanFonts`, `WriteScale`, `WriteDir`), with `ToolFails`, `Kill` and
`ChangeFont` at any moment. Times are a logical clock; the script compares
times with `find -cnewer`, which is `>`.

### 2.3 BootstrapIndex

The script is at a `line`. `Arrive` and `Lose` are the ends of the three `curl &`; `Install` is a `wait`
and the command that needs the file (without it `set -e` ends the script). The
rest is "Updating PortIndex" in the order of the script: `CheckoutOld`,
`CheckoutBack`, `CheckoutBase` (which write the files that differ, and so touch
them), `UsePortIndex` (the `wait` and `mv`), and `Portindex` twice with
`CheckoutHead` in between. Time is a logical clock; `Portindex` keeps the entry
of a port whose directory is not newer than the index it starts from. The
history of master, the merge base, the pull request and the commit of the
published index are chosen in `Init` and never change.

### 2.4 PullRequestBuild

`ListPorts` and `ListSubports` are the two listings, each at the head of a pipe
whose failure nobody sees; `Lint` and `EndLint` the lint loop; `CleanUp`,
`InstallDependencies`, `InstallPort`, `TestPort` one turn of the build loop and
`EndBuild` its end; `Archive` the step that always runs. `NoteFailure` is the
`fail=1; ...; continue` that three places share. `Abort` is a command outside
any condition that fails. Each subport's outcome is kept in a variable of its
own (`lint`, `deps`, `install`, `test`) beside what the script keeps of it
(`fail`, `test_fail`, the summary), and the properties compare the two. A lint
succeeds or fails, and has messages or none (`LintResult`): the one decides `fail`,
the other the mark.

### 2.5 XmlCatalog

An image is one build of a port. `Begin` is base starting to activate or
deactivate an image (`doing`); `SetOption` evaluates one statement of its Portfile,
and `RunHook` enters the hook. `CreateCatalog`, `InstallEntry` and `UninstallEntry`
handle one entry each, so that `HookFails` can come between any two. Each lookup is
under `catch`, so one that fails has not found its key (`Found`, `LookupFails`);
`skipped` is a history variable with the entries that were to be removed then. An
activation that fails leaves the port active (`"part"`), as does a deactivation
that fails before its files are removed.

### 2.6 OpensslGroup

The options of the port and the group's cache are one record, `port`, and each
proc is a function of it (`SetDependency`, `Flags`, `Environment`, `Cmake`,
`PkgConfig`, `Wrap`, `ConfigureBuild`), because the procs call one another
in ways that no other code comes between. Actions are the statements of the
Portfile (`SetBranch`, `SetConfigure`, `SetDependsType`, `AssignDepends`,
`AssignFlags`, `PrependFlags`) and the three callbacks at its end. Of a list of
flags the model keeps what it names and what comes first.

### 2.7 Certsync

A run (`"port"`, `"launchd"`, `"hand"`) goes through `List` and `Filter` once per
domain and ends in `Write`; `Gets` loses a certificate to a call that fails, as
the code passes it by and goes on. `Fail` is a failing call that ends the run, or
a kill. `Activate`, `PreDeactivate` and `Deactivate` are the port's hooks,
`ActivateRival` and `DeactivateRival` the port curl-ca-bundle, which installs a
file of the same name. `Load`, `Unload` and `Launch` are launchd with the watched
paths of `certsync.plist`, `ChangeTrust` and `Expire` the world. Trust settings are
kept per domain, with the precedence the Security framework gives them.
*History variables*: `kept` and `barred` say what a run is bound to export and
bound not to, `excused` and `outlived` whether one of the known gaps was met.

### 2.8 VariantChecks

`Enter` is base starting the hooks of a phase; `CheckSource`, `CheckActivate` and
`CheckConflict` are one turn of a hook's loop, one query of the registry; one of
`CheckConflict` may fail, which is under `catch` and passes for an inactive port. A
query of active_variants that fails is under `catch` as well, but ends on the safe
side, in an error or a warning too many, and is left out. `Work` is the phase itself, `Resume` a failed phase taken up again, `Install` the two ways
to an image, `Activate` and `Deactivate` the end. `ChangeRegistry` is another
process, between any two of these.

### 2.9 Dawg and DoubleArray

`Dawg` holds `DawgBuilder` as operators on a record: `Insert` one key, `Close` the
last open state (the body of `flush`), `Finish`. An equal state is looked for in the
hash table, from the slot of the hash on (`FindNode`), and where there is none the
state is put into the slot the search ended at; when the table is three quarters full
it is doubled and each state put in anew (`ExpandTable`, `FindUnit`). `HashOf` is a
constant operator: the run computes it as the code does, from the hashes of the
transitions, and the proofs ask nothing of it.
`DoubleArray` is `DoubleArrayBuilder` with an action per key (`InsertKey`) and per
call of `build_from_dawg` (`ReuseState`, `ArrangeState`) or `build_from_keyset`
(`ArrangeKeys`), whose recursion is the list `work` of calls still to make: of a
state or of an interval of keys (`begin`, `end`) at a depth, `Where` saying which
children have calls of their own. `Reserve` and `Fix` take a unit from the ring of
those that are free in the last blocks; `Expand` closes the first of these
(`FixBlock`, a unit at a time by `FixUnit`) and adds a block (`Fresh`), which `Join`
links into the ring. The searches are operators on the array that was built. Sizes
are constants: the code's labels have eight bits and its offsets twenty-one, those
of the run two and three. So is exclusive or, `XorOf`, of which `XorAssumption` says
what the code relies on; the run computes it bit by bit, and TLC checks the
assumption with it.

### 2.10 MergeTrees and Muniversal

`Choose` takes the architectures and prunes them step by step (`Prune`);
`CopySource` copies the sources, from a directory or from where a chain of links ends
(`SourceFound`). `Enter`, `SetDir` and `Leave` are a procedure of a
phase run for one architecture: `Renamed` renames the directories in the code's
order, `Leave` restores what was saved. `StartDestroot`, `CopyDestroot` and
`Install` make a destroot for each architecture, `Merge` is one of the four merges
and `Finish` the end. `Stop` interrupts the port anywhere, and
`Resume` takes it up at the target that was not finished. `MergeTrees` has the merge
of one file (`MergeFile`, by what the code looks at), with `diff`'s groups and a
preprocessor that reads what `diff` wrote, as a compiler on each
architecture would. Both go line by line with a state (`Compare`, `ReadLine`), so
that what one writes and the other reads can be followed from line to line. A line
has what it says and its white space; `diff -w` compares the first alone (`Bare`).
Text files that no preprocessor reads (`text`) get the same groups; of them the
property asks that each line is there.
`FilesAssumption` says what files a port may install: an include that is followed is
one muniversal wrote, files the Portfile declares equivalent have one core, and a
`.gir` file names no architecture but its own. Of the kinds the group itself assumes
to be alike (533-560, `assumed`) nothing is assumed.

### 2.11 Legacysupport

One statement of the Portfile is one action (`SetNewest`, `SetOther`,
`ChangeLink`, `AssignDepends`, `AssignEnv`); `SetNewest` evaluates the group at once, by the option proc, and
`Callback` once more at the end of the Portfile. `Evaluate` is
`add_legacysupport`: `Clean` takes back what the cache names, `Depend`,
`AddFlags` and `Label` do the rest. The other three are the Portfile's own: it
changes its linker flags, assigns its dependencies, as tmux does after it has set the
newest version, or assigns the environment of a phase, as edbrowse does. What the
group put there before is then gone until it is evaluated again.

## 3. Runs

Eleven runs pass, each an answer to one question; `font_race` shows a comment of
the code to be wrong (section 6).

| Run | Question | Properties |
|---|---|---|
| `mirror` | Whatever fails, is superseded or re-run, is the ledger right, and is every push published? | `NoPortForgotten`, `DoneIsUploaded`, `IndexRestorable`, `CaughtUp`, `StatusInOrder`, `LedgerSpec`, `PushHandled` |
| `bootstrap` | When is an entry of the index not the pull request's? | `IndexIsHead` |
| `pull_request` | Do the job's colour and its marks tell what happened to the ports? | `ColourIsRight`, `MarksRight`, `ChangedPortsBuilt` |
| `font` | When can two copies work at a time, who is turned away, and is a clean directory up to date? | `ExclusiveButFor`, `GivesUpToSomebody`, `CleanIsFresh` |
| `xml` | Are active ports served, nothing left over, nobody else's entry taken? | `ActiveListed`, `NoOrphans`, `OthersKeepEntries` |
| `openssl` | Does a port get the version it asks for last, and only it? | `DependsOnBranch`, `FoundFirst`, `OneVersion` |
| `certsync` | Is what is exported trusted, what is trusted exported, and the bundle fresh or gone? | `ExportsRight`, `FreshButFor`, `NothingLeft`, `CatchesUp` |
| `variants` | Does any phase work with what was refused, or with what was not looked at again? | `ChecksTypeOK`, `BuiltAsRequired`, `NoConflict`, `ActivationWarns` |
| `darts` | Does the dictionary answer what its keys say, and throw when it should? | `BuildTypeOK`, `DawgMinimal`, `ArraySound`, `ThrowsRightly`, `SearchesRight` |
| `muniversal` | Does the pruning end, does each architecture work on its own, and do merges lose nothing? | `MuniversalTypeOK`, `TwoArchsLeft`, `EachToItsOwn`, `MergedRightly` |
| `legacysupport` | Has a port the flags of its last evaluation and no others, and what they need? | `FlagsRight`, `OnlyWhereNeeded`, `DependsOnIt` |
| `font_race` | violation of `MutualExclusion` | |

Several properties are conjunctions of named parts, each with a comment of its
own: `IndexRestorable` (`LastHasTarball`, `IndexMatchesTree`), `StatusInOrder`
(`RegressOnlyByRerun`, `SQLFollowsLast`), `ColourIsRight` (`GreenIsBuilt`,
`RedHasReason`, `EveryPortTried`), `MarksRight` (`TestMarksTrue`,
`LintMarksButFor`), `ExportsRight` (`ExportsKept`, `ExportsNoneBarred`),
`ActivationWarns` (`WarnedOf`, `RefusedOnlyForFirst`), `ArraySound`
(`RingIsFree`, `OffsetsFit`), `SearchesRight` (`AnswersRight`,
`TraversesRight`), `EachToItsOwn` (`OwnTree`, `CleanButFor`), `MergedRightly`
(`EachArchServed`, `FailsRightly`), `FlagsRight` (`LinkedAsLast`,
`SearchPathKept`), `OnlyWhereNeeded` (`NothingWhereUnneeded`, `Labelled`).

Each module has a type invariant, `TypeOK` or a prefix and `TypeOK`, and each of them
is proved. Runs check those that say more than the types: `BuildTypeOK`, that what is
still to be called belongs to a unit that is fixed, `ChecksTypeOK`, that only an
activation warns, and `MuniversalTypeOK`, that while a procedure runs it is known for
which architecture and what to restore.

Deadlock is checked in `xml` only, where ports come and go for ever: a workflow
with no more pushes, a script that has ended, a port that is built and a Portfile
that is evaluated stop.

### 3.1 Bounds, and why they are enough

- **mirror.** Two ports, so that one can be renamed to the other and one can
  fail while the other does not; three old commits and two pushes, so that a run
  can execute while another waits and a third supersedes it; `DepthLimit = 1`
  and `GiveUpDistance = 2`, so that both fallbacks of the range happen; three
  Darwin versions, of which one is the runner's and one is the version that
  the workflow skips; two faults (failing steps and broken pipes alike), so that a
  run and its successor both fail, or one loses ports and the other fails;
  one re-run. About a million states. No symmetry, for one of the properties is about liveness.
- **bootstrap.** One port: the script treats every port alike and no entry
  depends on another's (the proof is for any set of ports). Three versions of
  it, four commits and a window of two, so that a change can be made and taken
  back inside the window, and the index can be before, in and after it.
- **pull_request.** One directory with two subports and one with one; every
  git status of both; every outcome of every command; one failure that is no
  port's fault, in every place.
- **font.** Two copies, one with `--force`, and both kinds of lock (`font_race` has
  systems without `lockfile(1)` only, whose lock is the PID file): what a third
  would find is what the second finds, a lock of one that is there, of one that
  was killed, or being taken (the proof is for any number). Two fonts, so that
  one can go while the other comes; two changes, which bound the clock; one kill
  or failing tool. Fonts are symmetric.
- **xml.** Two versions of one port and one other port, with options set
  twice, one key in two statements, a rewrite and a catalog file two ports
  share; entries an administrator put there; three failing hooks or lookups.
- **openssl.** Two versions and the branches `no_version` and one that does not
  exist; two kinds of dependency; settings with each method, none, and one that
  does not exist; Portfiles of up to five statements, which leaves room to set the
  branch twice, assign a list and set the methods twice.
- **certsync.** One certificate, for no step looks at two together (the proof is
  for any number), with every setting in each of the three domains, so that each
  domain can overrule each other; one change or expiry at any moment; one failing
  call or kill; two of the three runs at a time, for one that reads first to write
  last.
- **variants.** Three requirements on two dependencies, so that one requirement
  comes after another of the same port and of a different one; each dependency of
  type build, lib, both or none; two conflicting ports; two changes of the
  registry, so that a port can be exchanged and exchanged back, or two of them.
- **darts.** Labels of two bits, two blocks kept track of and offsets of three
  bits, so that blocks are closed and offsets do not fit after some dozen units.
  Every list of up to three of six keys in any order, with values, without, and
  with something behind the key; every set of eleven words without values; and
  eighteen keys whose states are shared in each of 512 ways, over more blocks than
  are kept. The hash table starts with two slots, so that it is rebuilt several times
  and most states are found past others. Every string of up to three labels is
  searched for.
- **muniversal.** Every set of the five architectures on six hosts; every choice of
  three directories set before the phases and two set inside them; chains of links of
  no, one, the most and too many links to a directory, a file and nothing; fifteen kinds
  of file, with contents that are equal, differ in the architecture or in white space
  only or differ, for two and three architectures, also where some have no such file, and modules for
  four; one stop at any step.
- **legacysupport.** A system of version 10 and newest versions 9, 10 and 18, so
  that support is not enabled, just enabled and enabled by default; every value of
  the other options; five statements, which is enough to set each of the options
  that matter for one flag, set the newest version between, and assign what the group
  has changed.

### 3.2 Fairness

Two runs assume any. `MirrorPipeline`'s `FairSpec` has weak fairness of the
system's own steps: GitHub starts a queued run when the group is free and runs the
steps of a job one after the other; a step that hangs is ended by the job's time
limit, which is a failure. Nothing is assumed of pushes, faults and re-runs, which
need not happen. `Certsync`'s has weak fairness of `Launch`, as launchd starts a job
whose paths have changed, and of each run, which has no loop but over
certificates; nothing is assumed of the ports, of users and of changes.

That a font run which is alone gets the lock would be a liveness property as well;
it is stated as what a step may never do (`GivesUpToSomebody`), for the script has
no loop that could go on for ever but the one inside `lockfile(1)`. The builds,
Portfiles and dictionaries are sequential programs without a wait.

## 4. Proofs

Every theorem holds for all values of the constants that satisfy the named
assumptions, in particular for histories, Portfiles and numbers of faults of any
size. The bounds of the runs (`MaxFaults`, `MaxCommit`, `MaxStatements`...) are
constants too and play no part.

| Module | Theorem | Property |
|---|---|---|
| `MirrorPipelineProofs` | `NothingForgotten` | `NoPortForgotten` |
| | `DoneUploaded` | `DoneIsUploaded` |
| | `IndexesRight` | `IndexRestorable` |
| | `CatchesUp` | `CaughtUp` |
| | `StatusOrdered` | `StatusInOrder` |
| | `ImplementsLedger` | `LedgerSpec` (refinement) |
| `PullRequestProofs` | `ColourRight` | `ColourIsRight` |
| | `MarkedRight` | `MarksRight` |
| | `ChangedBuilt` | `ChangedPortsBuilt` |
| | `WrongForACause` | `IndexIsHead` |
| `FontCacheProofs` | `LockExcludes` | `ExclusiveButFor` |
| | `NobodyTurnedAway` | `GivesUpToSomebody` |
| | `CleanMeansFresh` | `CleanIsFresh` |
| `CertsyncProofs` | `ExportsAreRight` | `ExportsRight` |
| | `FreshWhenQuiet`, `GoneWithThePort` | `FreshButFor`, `NothingLeft` |
| `DependencyProofs` | `DependsOnOne`, `EveryMethodFinds`, `OneVersionAtOnce` | `DependsOnBranch`, `FoundFirst`, `OneVersion` |
| | `PhasesFindRequired` | `BuiltAsRequired` |
| | `ConflictsSeen` | `NoConflict` |
| | `WarnsRightly` | `ActivationWarns` |
| `PortGroupProofs` | `FlagsAreRight`, `NeededOnly` | `FlagsRight`, `OnlyWhereNeeded` |
| | `FlagsHaveDependencies` | `DependsOnIt` |
| | `AtMostTwo` | `TwoArchsLeft` |
| | `EachInItsOwn` | `EachToItsOwn` |
| | `NothingLeft` | `NoOrphans` |
| | `ActiveServed`, `OthersUntouched` | `ActiveListed`, `OthersKeepEntries`, if `KeysDisjoint` |
| `DawgProofs` | `AutomatonMinimal` | `DawgMinimal` |
| | `AutomatonHolds` | the words of the automaton are those of the keys |
| `DoubleArrayProofs` | `ArrayRight` | `ArraySound` |
| | `ThrowsRight` | `ThrowsRightly` |
| | `SearchesCorrect` | `SearchesRight` |
| | `SearchesHold` | the same for strings of any length |
| each component | `TypeCorrect`, with the component's prefix where it has one | its type invariant |

**MirrorPipeline** (assumes `BaseAssumption`: the history is longer than the
give-up distance, else `HEAD~10` does not exist). `NoPortForgotten` says
something of the end of a run and is not inductive; `RunInv` says what the run
knows at each step: its range starts at a covered commit, its port list is the
diff of the range, and what the list holds is first fetched or recorded, then
uploaded or reported; a port the list lacks is among the lost. `RangeCovers` is the heart: a port of the new tree is
unchanged, listed or renamed. `RunIndexInv` does the same for the tarball: until
"Update PortIndex files" an index is missing or the one of the start of the
range. `OrderInv` is about the queue: no run is newer than the newest push, a run
that was not re-run is not older than `mirror.last_commit`, and until the first
re-run the newest push waits, runs or was dealt with. The refinement proof shows
that each step maps to a step of the ledger or leaves it alone.

**BootstrapIndex** (assumes `WindowAssumption`: there is a commit
`master~10`). The script is a straight line, so the invariant is about one port
at a time (`PortInv`): its file time is 0 until a checkout changes it, and while
it is 0 the port is the same in every tree the script has visited. When
`portindex` keeps an entry the port was either never touched, so that the entry
differs only if the index is of another time (`TooOld`, `TooNew`, `TakenBack`),
or touched before the index arrived (`Late`). The second `portindex` then brings
the entry from the merge base (`AtBase`) to the head.

**PullRequestBuild** (assumes `SubportAssumption`, the type of `SubportsOf`).
`LintInv` and `BuildInv` relate the one shell variable `fail` to the subports
the loop has been over: it is 0 only if all of them are well, and 1 only if one
is not. `EndInv` carries this past the loops; `ListInv` says what the lists are
made of; `MarkInv` relates the marks of each port to its outcome, and to the
outcome of others for the one mark that depends on them.

**FontCache** (assumes `FontAssumption`: `None` is no copy and no file).
`LockfileInv` and `PidInv` say for each kind of lock who can be where while
another works: with `lockfile(1)` the file is there, with a PID it holds the PID
of the one that works, unless two were taking the lock together (`collided`) or a
lock was removed for its age (`overstayed`). `OwnInv` says whose file is open at
whose hands. `CacheInv` orders the clock, what was listed and what was made:
`fonts.dir` is never newer than what its copy saw, so that a directory whose times
and list agree has the caches of the fonts it has.

**XmlCatalog** (assumes `CatalogAssumption`). `HookInv` says that the
option procs have gathered what the Portfile has declared so far, and that an
entry the running hook has not seen to is still in `todo`, or was `skipped`; `OneImage`, that of
a port at most one image is not off. That entries of other ports survive needs
`KeysDisjoint`, that no two ports claim the same key of a catalog; the code
does not check it, and the port tree is meant to satisfy it.

**OpensslGroup** (assumes `OpensslAssumption`). `Cached` is what makes
taking back possible: each option names no version but the one in its cache
variable. It survives whatever a Portfile assigns. `CallbackInv` follows the
three callbacks: after the first the dependency is right and the configuration's
cache is cleared, so that the last applies every method once more, and what it
applies is found first (`Found`).

**Certsync.** `ExportInv` follows a certificate through the domains: past a domain
that gives it, it is among the anchors, and inside the domain it is among the
trusted; one that was barred throughout never passes an evaluation. `FreshInv`
says that a run with nothing to excuse is alone and `Exact`: what it has so far is
what the present settings give. `GoneInv` says who may write a file when the port
is leaving.

**Legacysupport** (assumes `LegacyAssumption`, the types of its constants).
`CacheInv` says that the cache holds what some evaluation added, and after the
last one what that one did; `FlagsInv`, that the flags, whatever the Portfile
dropped, are within the cache but for `-L${prefix}/lib`; `DependsInv`, that every
evaluation left its dependency, unless the Portfile assigned it, and that when it has
ended the last evaluation's is there.

**VariantChecks** (assumes `VariantsAssumption`, the types of the lists).
`PlaceInv` says where in its list a hook can be. `RequiredInv`: the requirements the
source hook has been past are as required, or their dependency was exchanged since
(`moved`), and this stays so through the later hooks and through failed phases that
are taken up again. `ConflictInv`: of the conflicting ports that a hook has
looked for, none has been active all the time since the hook began and found by its
query. `WarningInv` ties what an activation
has told the user to the requirements it has been past, and `result` to the one it
saw last; that a refusal is for the first requirement only follows, for past the
first one `result` is set.

**Muniversal** (assumes `InputsAssumption`, the types of what a port and host are, and
for the merges `FilesAssumption`, 2.10).
The pruning is four steps, each of which takes one architecture where three are left;
which are left after all four is proved by the host's architecture and by the one set of
three that a step can meet (`Threefold`). `DirInv` says that outside a
procedure the directories are what the Portfile made them, and inside one each is
renamed once or was set by the Portfile, while `saved` has what it was; that this
holds where directories follow one another rests on the code's order, in which none
comes before one it follows. `SourceInv` says which architectures have
sources while the port is at each of its targets or is to be taken up there, and
`StrayInv`, that a destroot is never made over another unless the target was stopped.

That the merges lose nothing (`AllServed`) is proved of a tree at a time. `Where(a, s)`
is the tree that has come to hold the file of an architecture `a` after `s` merges, and
`ServedInv` says that this tree serves it (`Content`), whatever else a stopped port has
left there, and that files are only where merges put them (`Placed`). For a
header it must be shown that a preprocessor under the conditions of `a` reads from
`diff`'s output what it reads from the file `diff` was given. By induction on
the lines `diff` has come to, what is written so far, read with the side of `a`, leaves
the preprocessor as the lines that were taken from that file do; a group under a
condition is skipped or read and leaves no conditional open, provided it is `Whole`,
which is what `cut` records. `Leading` has
the names under which a divided file may be found, so that at most three includes
lead to its own. That merges fail for a reason only (`RightInv`) needs more: what the
trees hold exactly, unless the port was stopped while merging. `OwnTrees` has the trees
of the architectures and `MergedSoFar` those of the groups, kind by kind (`Right`);
if there is no reason to fail (`NoReason`: none of what `FailsRightly` names) a
merge of trees that are `Right` succeeds and gives one that is. `Right` is in
this invariant under `NoReason` only, since an error ends it.

**Dawg** (assumes `MaxLabelAssumption`, that there is a label, and
`TableSizeAssumption`, that the table has a slot). `HashedIn` says of the hash table that
it has each closed state in a slot to which no empty one cuts off the way from its
hash, and nothing else. A search then ends, since a slot is free; if at an equal state
there was one, and if at an empty slot there is none, and the state may be put there.
Doubling the table keeps this because each state is put in anew. So a state is closed
once. That no two states of the
automaton are alike and arcs lead back are invariants of closing a state, but that a
state which two arcs lead to is marked is not: an arc that is open now will be closed
later. `DawgInv` therefore speaks of closed and open arcs alike (`ClosedCross`,
`MixedCross`, `OpenCross`) and says which open arcs lead nowhere yet (`ArcsDown`).
`flush` and `insert` keep it whatever the key, in order or not. What they compute by
folding is followed with induction as a fact about a set of numbers (`UpTo`), which
needs no operator as a parameter. `KeysInv` says that the open path spells the last
key (`Spells`) and that every key accepted was in order, unless something behind a key
misled the comparison.

What the automaton means is said with words: a key, the 0 that ends it and its value
for ever (`KeyWord`), so that all words are endless and those behind a label are again
words. `Denotes` gives each closed state the set of words its arcs spell (a function
that exists by induction on states, for arcs lead back) and each open level a set
too; closing a level hands its set to the state it becomes or is found equal to, and
two closed states are never alike, so nothing is gained or lost by sharing. `WordsInv`
says that what the first level spells is `Known(n)`, the words of the keys so far, a
repeated key counting with its first value.

**DoubleArray** (assumes also `DoubleArrayAssumption`, `InputsAssumption` and
`XorAssumption`: sizes are powers of two and labels fill a block; values come one for
each key or not at all; exclusive or is associative, commutative and its own inverse,
and keeps low bits and blocks apart). `ArrayInv` says that, while units are placed,
the free ones of the open blocks are one ring (`HasRing`: a sequence of all of them, each
linked to the next and the one before), that each call still to be made has a unit
which is taken (`Held`), and that every offset fits its field (`Fits`). The ring as a
sequence is what the loop of `find_valid_offset` walks, which the proof shows to come
back to the head after as many steps as there are free units; from this, the units it
offers are free, so that `reserve_id` unlinks what is linked. That `XorOf` of a free
unit and a label hits the right block is what `XorAssumption` is for. `OrderInv` is
about what is thrown: without values, keys in a call agree before its depth
(`Agreed`), and of two neighbours either they were found in order or a call still to
be made holds both (`Compared`), so that none is passed over when no call is left;
with values, `KeysInv` says it.

That searches are right needs an invariant that knows what each unit is for, and the
array does not say: the children of all offsets share it, and a search tells a child of
its own from another's by the label alone. `ArrayWords` therefore has a ghost, which no
variable holds and the proof shows to exist at every step: a layout `B`, the set of
words found below each offset. `Layout` says that no two offsets have a child in common,
`Drawn` that each unit a layout takes has the label, the value and the offset that its
words ask for, but for those with a call still to make, and `LaidOut` that each such call
is to lay out just the words that are missing. A call adds one offset to `B`
(`LaidMore`), or none where the table has the state already (`LaidReused`). What is
left to show is that a search which leaves the layout is noticed: a unit that is no
child must not have the label by which an offset in use would come to it. Where units
are open this is so since they have none (`Told`); where a block is closed, since
`fix_block` gives each spare unit a label that leads to it from an offset nobody uses
(`Filler`). There is such an offset in every block with a spare unit, as a used offset
has a child in its own block and different offsets have different ones: were all used,
no unit would be left (`LayoutPlenty`). From `Complete`, the layout at the end, a search is followed label by
label (`PathFinds`, `PathStays`) and compared with the keys (`SearchFinds`). A
dictionary of no keys is a root whose offset leads nowhere, and treated apart
(`EmptyAnswers`).

**Model-checked only.** `PushHandled` of the mirror workflow and `CatchesUp` of
certsync say that something happens at last, under fairness, and need ENABLED, which
the prover does not handle. Every other property of the passing runs is a theorem.

## 5. Assumptions about what is not in the repository

- `portindex` takes an entry over from the index it finds when the Portfile is
  not newer than that index, and generates it anew otherwise.
- `git checkout` writes the files that differ, and only those; `git diff` detects
  a rename when a directory's content moves.
- A `PUT` of a tarball and a `SET` of the database happen as a whole or not at
  all; `rsync` may stop after any file.
- `xmlcatmgr lookup` is given a key and no type; `add` and `remove` are given
  both; `remove` fails when there is no such entry.
- macports-base runs one activation or deactivation at a time, leaves a port
  active when its post-activate or pre-deactivate fails, and calls an option's
  proc with `set` at every write, `-append` and the like included. Forced
  deactivation, which goes on after a failing hook, is not modelled.
- base's default of `configure.ldflags` contains `-L${prefix}/lib`; of a variable
  that is in an environment twice the last assignment counts; the options that are
  directories have the defaults that follow one another as base declares them.
- A PID is not used again while a font lock names it.
- The user's trust settings overrule the administrator's, and these the system's;
  the user's are seen only while the keychain preference domain is the user's.
- `diff -d` gives one alignment with the fewest differences; `lipo` refuses two
  files with code for one architecture, `libtool` joins archives; Tcl's `file copy`
  fails on a file that is there and copies into a directory that is.
- darts: memory suffices, and keys have no byte 0 in them.

## 6. Disagreements

One run ends in a violation of what the repository says. `font_race`: a copy of
`font_cache.sh` that tested for the lock before another wrote it overwrites it
after that one verified it, and both work, although the comment says that the
check makes sure of no collision. `ExclusiveButFor` says that it takes such a
meeting or a run of more than 240 seconds; crashes alone do not do it.

Others are visible as the exceptions in properties that pass.

- `NoPortForgotten` excepts `moved`: `--diff-filter=AM` drops git's status R, so
  a renamed port is not mirrored (nor is it built in a pull request:
  `ChangedPortsBuilt` speaks of status A and M). It excepts `lost`: where `git diff`
  fails at the head of its pipe (`mirror.yml:107`), or the pipe breaks later on, the
  list is empty or short, the step succeeds and `mirror.last_commit` passes the ports
  by; `MirrorLedger` has such commits in `missed`. And it excepts `lossy` runs, whose
  range was guessed.
- `ChangedPortsBuilt` excepts `faults`: `mpbb list-subports | tr` without
  `pipefail` gives a short list, and a green job, when `mpbb` fails.
- `LintMarksButFor`: the mark of a lint is chosen by the variable of the whole loop
  (`main.yml:125`), so a port with mere warnings is marked as failed after another
  had errors. And it is chosen where there are messages only: a port whose lint fails
  without one is marked as passed, while the job ends red before anything is built.
- `IndexIsHead` excepts `TakenBack` (a change made and undone inside the last ten
  commits is touched by no checkout) and `Late` (the PortIndex is waited for only
  after the checkouts that are to make files newer than it).
- `CleanIsFresh` excepts `disturbed`: `fonts.list` is written before the fonts
  are scanned, so a font replaced between the scan and `mkfontdir` stays stale.
- `ActiveListed` asks for the key and not for the type: of two rewrites for one
  prefix, as the port xhtml1 declares them, the second is not added, for the lookup
  finds the first (`xmlcatalog-1.0.tcl:146`).
- `NoOrphans` excepts `skipped`: every lookup of `xmlcatmgr` is under `catch`
  (`xmlcatalog-1.0.tcl:160`, 172, 185), so one that fails for any reason passes for
  an entry that is not there, the removal is left out, and the hook ends well.
- `NoConflict` excepts a port whose query fails, for the same reason
  (`conflicts_build-1.0.tcl:22`).
- `Ready`, in `OpensslGroup`, excepts the branch `no_version`: setting it takes
  nothing back of what an earlier branch set. Nor does emptying
  `openssl.configure` after a branch is set, as `unicon` does. The libraries that
  `openssl-1.0.tcl:193` adds are not taken back, and a change of branch leaves those
  of both.
- `FreshButFor` and `NothingLeft` list what may make the bundle stale or leave it
  behind. A comment of `certsync.m` says that a certificate must be trusted by the
  system or the user (144–146); the user's settings count only with `-u`
  (434–436).
- `RefusedOnlyForFirst`: where activation is to warn only, a first requirement
  whose port is not active finds `result` unset and fails
  (`active_variants-1.1.tcl:212`).
- `Misled`, in `DoubleArray`: `insert` reads the byte behind a key of given length
  (`darts.h:1127`). Where it is not 0, a repeated key gets a second leaf and its
  second value, though the first is promised (213–219), and a key that is a prefix
  of the one before may be accepted out of order.
- `TraversesRight` excepts the dictionary without keys, where `traverse` returns -1
  and not -2 (286–294). A zero-length key is refused with values and accepted
  without, and `commonPrefixSearch` never returns one. Outside the model, `save`
  ignores the offset it documents (244–245).
- `TwoArchsLeft` excepts a host of arch i386 that is given arm64, x86_64 and i386:
  no step of the pruning takes one of them, and the port ends in the error that
  "should not happen" (`muniversal-1.1.tcl:687`).
- `FailsRightly`, in `Differ` and `DirNameKept`: compressed `.xz` and `.lzma` files
  that differ always fail, for `${prefix}` is used where it is not declared global
  (570, 573); names of architectures in `.gir` files are stripped of the pair that
  is merged first only. Modules (`.mod`) of arm64 and x86_64 are put under `mods32`
  and `mods64` though both are of 64 bits, and modules of four architectures may fail
  to merge (`ModulesMet`): those of one family are divided first, and in the last merge
  the directories are found there (515–520). The comments at 424 and 432 name the
  wrong directory.
- `EachArchServed` says little of files of the kinds the group assumes to be alike
  (533-560, with a TODO to compare them at 536): where they differ, the first is kept
  and the others are lost, which only a debug message says. `diff -w` (499, 607) keeps the first
  of two lines that differ in white space, so that lines are kept up to that.
- `EachArchServed` excepts `cut`: a group of differing lines that holds the end of
  one of the file's conditionals and not its beginning makes a header that does not
  compile.
- `CleanButFor`: a copy of the sources that was interrupted is taken for whole
  (986), and a destroot that is begun again gets a copy of the destroot inside
  (1032). A directory that a Portfile sets inside a phase is lost when the procedure
  ends (959–966), which `OwnTree` says.
- `SearchPathKept`: `newest_darwin_requires_legacy` before `use_static`, as
  `lbzip2` sets them, loses the default `-L${prefix}/lib`. `Labelled`: a newest
  version that is lowered later leaves flags and both labels. `DependsOnIt` says
  nothing of what is left over: the dependency of the former kind stays. Nor does it
  where the Portfile assigns its dependencies after an evaluation and the last one
  finds no need: flags are left then and the dependency is not. The option
  procs of `use_static` and `use_mp_libcxx` are registered for doubled names
  (216–217), against the comment at 214.

Outside the models: `ClamavScanIt.sh` tests the number of infected files as text
(line 53), where `grep -v 0` drops the line of 10 or of 20.

## 7. Not modelled, and why

`PROJECT.json` lists every component with the reason. The Portfiles are data:
20 000 recipes with no state between them but what PortGroups and base give them.
The PortGroups of languages, build systems and hosts fill options from tables and
keep nothing; those of compilers choose from tables of versions. texlive's hooks
decide nothing themselves: what goes stale is made by `fmtutil` and `updmap`.
Resources of base (compiler lists, mirror sites, livecheck) are tables. ClamAV's,
privoxy's and sshguard's scripts run once and in order. muniversal 1.0 and
legacysupport 1.0 are earlier forms of what is modelled.

Of modelled components: Homebrew's removal, Spotlight, Xcode and the configuration
files in `bootstrap.sh` are commands run once in order; triplets, flags and patches
by architecture in muniversal compose command lines; `relink_libSystem`, the
wrappers of `redirect_bins` and the error for a makefile PortGroup that comes first,
in legacysupport, are one pass after the build and one message; opening, saving and
clearing a dictionary move bytes.

The lines of the tree that are neither data nor modelled are for the most part
foreign: patches that hold whole generated files (rep-gtk), headers that ports
bring from elsewhere (`videoio.h`, `dri_interface.h`, `optional.hpp`) and C
extensions of other projects. They are no programs of MacPorts and have no
part in the system described here, and so most of the repository's lines stay
outside of the map.

## 8. What is left

- Refinement of `OpensslGroup` and `Legacysupport` to one specification that says
  only what the last assignment was.
