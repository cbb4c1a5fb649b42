# A formal model of Meique

Meique builds C and C++ projects: it reads the targets of a `meique.lua`, keeps
what it found out in a cache in the build directory, and runs the commands of a
tree of dependencies with several jobs at once. This directory holds TLA+
modules that model it, the TLC configurations that check them on small
instances, and proofs of the most important safety properties for every
instance. `PROJECT.json` maps every definition to the lines it models and lists
runs, mutants, findings, hazards and theorems; line numbers below are those of
`src/src/`, and of `src/ext/lua/` for the interpreter (names that begin with `l`).

    tlc -workers 2 -config order.cfg MCBuild.tla     # a run: configuration, module
    tlapm BuildProofs.tla                            # the proofs

## 1. Inventory

One run of meique is one process. The main thread goes through a state machine
(`Meique::exec`), runs the project's Lua scripts (`MeiqueScript`), and for a build
makes a tree of nodes (`NodeTree`), a factory that picks the next node and makes
its job (`JobFactory`), and a manager that bounds the number of jobs
(`JobManager`). Every job runs in a detached thread of its own. What survives the
process is the build directory: objects, outputs, and `meiquecache.lua`.

| component | state | operations | what makes it correct |
|---|---|---|---|
| `JobManager` | `m_jobsRunning`, `m_errorOccured`, two condition variables | `run`, `onJobFinished` (called by job threads) | at most `-j` jobs; stops after a failure; returns when nothing runs, with the right answer |
| `JobFactory` | `m_needToWait`, `m_treeChangedMeanWhile`, the options of targets | `createJob`, `findAGoodNode`, `onTreeChange` (callback from job threads) | order of dependencies; nothing left out; no wait for ever; up-to-date checks |
| `NodeTree`, `NodeGuard` | nodes with status, children, parents, `shouldBuild`; `m_hasFail`; a mutex | constructor, `expandTargetNode`, `removeUnusedTargets`, `connectForest`, `~NodeGuard` | the tree has exactly the wanted targets; a node is Built only after its job |
| `NodeVisitor` | a mark per node | the visit | ends; children first; each node once; a cycle is reported, and nothing else |
| `Job`, `LuaJob`, `OSCommandJob` | a thread; the mutex of the `LuaState` | `run`, `doRun` | the Lua state has one user; every thread ends |
| `Gcc`, `shouldBuild`, hashes | time stamps, `TargetHash` in the cache | `shouldCompile`, `createTargetJob`, `createCustomTargetJob`, `fillTargetOptions`, `cleanTargets` | a build that succeeds leaves what it was asked for made from what there is now (the code keeps to that only in part, section 4); one with nothing to do does nothing |
| `Meique`, `StateMachine`, `main` | the state, the command line | `exec` and its methods | every run ends; an action only on a configured project |
| `MeiqueCache` | options, packages, compiler, hashes, `m_autoSave` | load, save in the destructor and at CTRL+C | the cache is the last configuration; it can be read; a failed configuration leaves none |
| `MeiqueScript` | the Lua state, the cache | `exec`, `findPackage`, `copyFile`, install, uninstall | what it remembers is what it found; copies are current; an uninstall undoes an install |
| `CompilerOptions`, `LinkerOptions` | lists of flags, libraries and archives | `merge`, `addStaticLibrary` | options reach their users, archives come before what they use |
| `OS` | descriptors, children and the working directory of the process | `exec`, `install`, `uninstall`, `normalizePath`, `ChangeWorkingDirectory` | outputs are complete and unmixed; a command runs where it should; no call hangs; a path names the place its text names |
| `meiqueapi.lua` | tables of targets, scopes | `addFiles`, `addDependency`, ...; `__eval` and `__not` of scopes | fills the tables the others read; `DEBUG:addFiles(...)` counts only in such a build |
| Lua: compiler | the function that is compiled, blocks, jumps | one pass from tokens to instructions | the code keeps to its frame and does what the script means |
| Lua: machine | stack, frames, closures and upvalues, metatables | 33 kinds of instructions, calls, `pcall` | the same |
| Lua: tables | an array and chained nodes | get, set, rehash, `next`, length | a table is its entries; a loop that clears them meets each once |
| Lua: collector | a color of every object, lists of gray ones, finalizers | steps of mark and sweep, barriers | nothing in use is freed, garbage is, finalizers run once |
| `CmdLine`, Lua utilities, logger, regex; Lua's lexer, API and libraries; `file2c` | values | conversions, text | - |

The interpreter is kept in the repository and changed there: conditions ask a table's
`__eval`, `not` its `__not`, and a call may do without parentheses. Every
`meique.lua` runs in it, and the functions of custom targets and hooks run in it while
other jobs do. That is why it is part of this model.

How they interact: `JobManager::run` calls `createJob`; `createJob` reads and
changes the tree under its mutex (but claims a node, and tests its flag, without
it); job threads call `onJobFinished`, then delete the job, whose `NodeGuard`
locks the tree, publishes the node and calls `onTreeChange`, which sets a flag and
notifies. The `LuaState` mutex is taken by the main thread to expand and to
create, and by Lua jobs for as long as their function runs. The order of locks is
tree then Lua when expanding (jobfactory.cpp:79-81) and Lua then tree when creating
(jobfactory.cpp:100-101): only the main thread ever holds both, so this is safe,
which the run `locks` checks with the threads that hold one.

What is hard here: the interleavings of those threads; two condition variables
and a flag that are waited for without a loop; a tree that grows while it is
being built; a depth-first visit with an unusual way out; several builds one after
the other that share only time stamps and hashes; a cache that is written in place
by a destructor and by a signal handler; installs that stop half way; one working
directory and one table of descriptors for all threads; a compiler that patches its
code as it goes; a collector that takes turns with the program whose objects it
looks at; tables whose nodes move. The list of hazards in `PROJECT.json` names each
with its line and the properties that watch it.

## 2. Modules

    NodeTree --> Job --> JobFactory --> JobManager --> Build --> BuildInv --> BuildProofs
       |                                                |
       |--> TreeSearch                                  '- refines BuildPlan
       '--> Projects (instances)
    NodeVisitor --> TargetTree --> NodeVisitorProofs
    UpToDate --> UpToDateProofs
    Meique --> MeiqueProofs
    Paths --> Install --> InstallProofs
    Processes --> ProcessesProofs
    LuaCode --> LuaParser --> LuaVM, with LuaCheck; compared with LuaMeaning
    LuaTable refines LuaEntries
    LuaGC --> LuaGCInv --> LuaGCProofs

`Induction` is what several proofs need of numbers, sequences and recursive functions.
The modules that begin with `MC` give them instances.

**NodeTree** - the tree while it is built. `status`, `shouldBuild`, `children`,
`hasFail` are the fields of the same name, `treeLock` the mutex. `Targets`,
`Hooks`, `Files`, `Deps`, `HookOf`, `FilesOf`, `Root`, `Custom` are the project.
`findAGoodNode` is stated without recursive calls: `Visits` lists the nodes the
search enters in their order, the result is the first good one, `IsLastTarget` is
what it leaves in `*target`, `LeavesUnbuilt` is `m_needToWait`.
`ExpandTargetNode`, `MarkAncestors` and `ReleaseNode` are the three ways the tree
changes.

**TreeSearch** - the same search call by call, with recursive operators; `SearchAgrees`
says that both agree in every state of a build.

**Job** - the life of a job: created, counted, started, running, exited, reported
(`onFinished`), published (`~NodeGuard`), flagged and gone (`onTreeChange`).

**JobFactory** - `createJob`, one action per critical section or unlocked access:
`ResetFlags`, `FindAGoodNode`, `ExpandFound`, `FindInExpanded`, `CheckFound`,
`WaitForTree`, `AfterWait`, `ClaimFound`, `LockLua`, `CreateJobFor`, `MarkParents`.
Whether time stamps say a node is up to date is a free choice here (`UpToDate`
models it), except that a node with `shouldBuild` is never up to date.

**JobManager** - `run` (`TestLoop`, `WaitBelowLimit`, `RecheckError`, `CountJob`,
`SpawnJob`, `Drain`) and `onJobFinished`.

**Build** - the composition: the main thread, job threads, spurious wakeups when
`SpuriousWakeups`; its properties; the mapping to **BuildPlan**, the abstract
specification: tasks start when what they need is done, at most `MaxJobs` at once,
one more start after a failure at most, an answer when nothing runs.

**BuildInv** - the inductive invariants of the build, for the proofs in **BuildProofs**.

**NodeVisitor** - the depth-first visit with its stack. `VisitorSpec` is one visit of any
graph from any list of nodes; TargetTree starts one visit after the other on the graphs
that the constructors have made by then.

**TargetTree** - the constructors: links from `_deps`, `removeUnusedTargets`, the
check for cycles, `connectForest`, and the caching of options: what a target states
itself, then the options of the targets it uses, merged as the visit comes to them
(`MergedOptions`, `AddLibrary`). Each of its visits is a run of NodeVisitor.

**UpToDate** - several builds, each of everything or of the targets named on the command
line (`Start(chosen)`; `scope` is the tree that `removeUnusedTargets` leaves). A product
carries what it was made of (its recipe) and its time; the code sees only times and hashes,
the properties compare recipes. Order and parallelism of one build are taken from
`BuildPlan`: any node whose children are built may be next. A build succeeds when its tree
is built, or early, as the run `premature_success` shows (`EndsEarly`: some jobs ended
after a search that had to wait for them). `faults` counts the builds that failed or were
interrupted. Two histories are for the properties: `covered` is what the last build dealt
with, if it succeeded and nothing was changed since; `owed` is what builds have left to be
made again without a trace on disk (`LeftOver`): a target of which a part was made and
which was not, and what was not made with the options whose hash is saved. Making it takes
it off.

**Meique** - several processes. `state` is the method that runs, `step` what it is
at, `cache[d]` the cache file in a directory, `mem` the `MeiqueCache` object,
`cwd` the working directory. `Construct` to `LeaveSource` are `MeiqueScript`;
`Return`, `Flush`, `SaveCache` are `~MeiqueCache`; `CtrlC` and `Kill` may come
between any two steps. Of the jobs of a build one Lua job is kept (`CreateLuaJob`,
`StartLuaJob`, `EndLuaJob`), as it changes the working directory: `Act` waits for it unless
an Error of `createJob` unwinds the main thread, which nothing in `JobManager::run` catches.
`createJob` holds the `LuaState`, so that the job cannot be running when the Error is
thrown; but it may wait, start as soon as the lock is given up, and change the directory
before `Return` opens the cache in it. `abandoned` remembers that this happened.

**Paths** - `normalizePath` and `baseName` on texts of paths, part by part with their
iterators: `NormalizeStep` is one round of the loop, `NormalizeFrom` the loop, `Resolve`
the place a path names for the kernel. Both are recursive functions, so that the proofs
can unfold them. **Install** - `meique -i` and `meique -u` one after the other: the loops
of `installTargets` and `uninstallTargets`, one file at a time (`InstallFile`,
`UninstallFile`), over a file system of files and directories. A run stops at an error or
is killed between two files. What is asked for is stated without any of that:
`Destination` is where the script says a file goes, `Wanted` which one it means.

**Processes** - `OS::exec` by the threads of jobs at once, then by `testTargets`. A
child copies the descriptors and the working directory at its fork; `read` ends when no
process holds the write end any more. Lua jobs hold the `LuaState` and change the
directory for as long as their function runs.

**LuaCode**, **LuaParser** - the compiler, one operator per function of `lcode.cpp` and
`lparser.cpp`, with their names. A state of the compiler goes through them; jump lists are
sets of positions, which is what the code makes of the `sJ` fields. Assertions of the
code are kept as the field `ok`. **LuaCheck** - `luaG_checkcode`.

**LuaVM** - the machine: one action per kind of instruction, on one stack, with frames,
open and closed upvalues, metatables, `l_isfalse` with `__eval`, and errors that go to
the next `pcall`. The compiler is its constant `Compile`, which `scripts.cfg` sets to
`luaD_protectedparser` of LuaParser.

**LuaMeaning** - what a script means, evaluated on its syntax tree with environments and
cells, after the reference manual of Lua 5.1: no registers, jumps or stacks. `Write` gives
the tokens of a tree, so that compiler and machine get what the tree says.

**LuaTable** - `ltable.cpp` with its arrays and nodes, the real hashes of small
integers, and places in memory for strings: after a collection a dead key's
place may hold another string. **LuaEntries** is what scripts expect: entries, and
traversals that meet each once. `entries` records what was assigned;
`HoldsItsEntries` says that searches give just that.

**LuaGC** - the collector: `PropagateStep`, `Atomic`, the sweeps, finalizers, each a
step, and between them a program that creates objects and changes what refers to what
through the barriers of the code. **LuaGCInv** is its inductive invariant, for the proofs in
**LuaGCProofs**.

## 3. Runs

Runs that pass (distinct states in parentheses):

| run | shows |
|---|---|
| `order` (481,250) | `TreeInv`, the inductive invariant of the proofs, also with spurious wakeups. `BuildOrder`, `SourcesWaitForDependencies`: nothing starts before what it needs, though targets are expanded lazily. `FailureIsContained`: nothing above a failed node is claimed. `RebuildReachesTargets`: what is made of rebuilt parts is rebuilt. `JobsRunForTheirTarget`: with the options of its own target. `SearchAgrees`: the two forms of `findAGoodNode` agree in every state |
| `limits` (287,338) | `JobLimit`, `ExitStatus`, `ErrorStopsScheduling`, with a failing command and a file of no known language. `ImplementsPlan`: the threads implement `BuildPlan` |
| `locks` (45,389) | every thread that is started ends, with Lua jobs and failures; the build ends unless its main thread waits for the tree |
| `targets` (397,208) | no node is entered or handed out twice; a tree is visited children first; links agree both ways; the tree of a forest is complete; options of used libraries reach their users once, archives in the order the linker needs |
| `rebuild` (673,524) | a successful build leaves all it dealt with fresh but for what is owed, whatever was built by name, edited, changed, failed or given up before; a fresh one runs nothing; no edit of a source or header is ever missed |
| `sessions` (1,146,551) | the cache is the last configuration; nothing is done with other options than those configured; the source directory stays clean, unless an Error leaves a Lua job behind; CTRL+C leaves a cache that can be read; every run ends |
| `install` (627,234) | a normalized path names the place its text names, if it is one the loop can cope with; a successful install has put every file where the script says, with what is in it now; an uninstall after a broken install leaves nothing of it; files of others are never touched |
| `processes` (45,778) | what a call returns is the output of its command, whole and unmixed; every command runs in its directory; builds and their tests end |
| `gc` (171,855) | nothing reachable is freed; what was garbage when a collection began is gone when it ends; finalizers run once |
| `scripts` (63,578) | every script compiles to code that keeps the rules of `luaG_checkcode` and the assertions of the compiler, and its run returns what the script means |
| `tables` (402,260 up to symmetry) | a table holds what was assigned last; its length is a border; a loop that clears and replaces entries meets each that stays once, also over dead keys |

Bounds and why they are enough:

- Builds use two jobs and five to seven nodes (`Projects.tla`). Two jobs are the least
  with which jobs interleave with each other and the main thread; the projects have
  each kind of node, a dependency between targets that expand, a hook, a fake root,
  and a custom target that another target depends on. A third job adds no kind of
  interaction: threads of jobs never wait for each other but through the two locks.
  The order, limit and exit status are proved for any number of jobs and any tree.
- `targets` takes every graph of three targets with up to two dependencies
  each, duplicates, self loops and the order of dependencies included. Three nodes give
  chains, shared dependencies and cycles beside a visited child. As the graph is
  arbitrary, one order of the map stands for all.
- In `rebuild` builds are of everything or of the library alone (`Selections`), so that
  the program, which uses the library, is in some trees and not in others. The source of
  the library and the header that both include are edited once each (`Edited`, `MaxRev`),
  the options of the library change any number of times between two values (`Changed`),
  in any order with any number of cleans and builds between: a product can be newer,
  older, or made with other options than its sources, each independently. `MaxFaults`
  bounds the builds that fail or are interrupted to one.
- In `sessions` command lines are of every form, with two values of the options; any
  number of processes follow each other. `MaxEdits` bounds the edits of the file
  given to `copyFile`. In one behaviour processes are interrupted by CTRL+C or
  killed, not both, any number of times: the two leave different traces, and the
  properties say for each what it may leave. A process has one Lua job, which is enough
  to change the directory at any moment. That a thread left behind crashes on what main
  destroys is counted as a kill.
- `targets` gives every target a kind (program, static or shared library, custom), too.
- In `install` a program and a library install their outputs to every directory of up to
  three parts `a`, `.`, `..`, or other files under their name or a new one, with and
  without prefix and DESTDIR (a directory, or a path above the root, which is refused), on
  an empty disk and on one with files of others.
  `MaxRev` bounds the edits between two installs.
- In `processes` two commands and two Lua functions run at once, one of them with two
  calls, then three tests. A pipe holds one write (`Capacity`), so that writers wait;
  `MaxFds` is small enough for pipes to run out, and forks may fail.
- In `gc` the program is one of five kinds (`Worlds`: userdata in tables with weak values or
  with weak keys, strings, closures with their upvalues, threads), each with all objects it
  is about, created in any order and without bound; entries of a table and places of a
  stack are few. An entry whose key is no object is in the array part of its table or in
  the hash part: `cleartable` goes through the former only if values are weak.
- `scripts` compiles every condition of three operands with `and`, `or`, `not` and meique's
  scopes, as a condition and as a value, every use of a scope before a call,
  and programs with every statement, multiple results, varargs, closures in loops, tail
  calls, metamethods and errors (`MCScripts.tla`). `FieldsPerFlush` is 2 instead of 50, so
  that constructors flush.
- In `tables` four integers and two strings, whose hashes are chosen freely from two,
  go through parts of every size up to 4 and 8; any number of operations follow each other.

`CHECK_DEADLOCK FALSE` is set where the system stops for good: a build that has
returned, a tree that is ready, files that may not be edited any more, processes and
scripts that have ended.

Fairness. `Build!FairSpec` has weak fairness for the main thread and for each job
thread: the scheduler runs them, commands and functions end, and a mutex is handed
over (each thread takes each mutex a bounded number of times). Nothing is
assumed of spurious wakeups, and nothing wakes a waiting thread but a
notification: that is why hangs are real counterexamples. `Meique!FairSpec` has
weak fairness of the steps of a process; that a user starts one is not assumed.
`Processes!FairSpec` has it for every thread and every child: the system schedules
both, and commands end by themselves. That a read or a wait ends is not assumed.

Every property of a passing run has a mutant: a fault that a slip in the code could
make (`\* Fault:` in the modules), with which TLC finds it violated.

## 4. Findings

One is a run that TLC finds violated, with the text it contradicts in `PROJECT.json`:
`premature_success`. A job that ends between the search and the test of
`m_treeChangedMeanWhile` makes the build succeed with targets left (jobfactory.cpp:87).

Others are stated in the modules as what a document, a comment, an assertion or a test
of the repository says, and are refuted by TLC when they are added to the configuration
named here:

| definition | configuration | |
|---|---|---|
| `BuildEnds` (Build) | `locks` | a notification between the test of the flag and the wait is lost, and the build hangs (jobfactory.cpp:89) |
| `CycleIsFound` (TargetTree) | `targets` | the visit leaves a node at the first child that was visited before, and does not see the cycle behind the next (nodevisitor.cpp:54) |
| `OutputsFollowObjects` (UpToDate) | `rebuild` | createTargetJob looks only whether the output exists (jobfactory.cpp:220), and marks do not outlive the process (jobfactory.cpp:113): see below |
| `CtrlCSavesTheCache` (Meique) | `sessions` | CTRL+C while Lua code runs saves the cache in the source directory (meiquecache.cpp:46) |
| `CopyIsCurrent` (Meique) | `sessions` | `copyFile` compares the wrong way round (meiquescript.cpp:375) |
| `InstallsUnderPrefix` (Install) | `install`, with `GluedPrefixes` | a prefix without a separator at its end is glued to the directory (meiquecache.cpp:252) |
| `AllTestsRun` (Processes) | `processes` | every `exec` that reads output leaves a descriptor open; when there are none left, `testTargets` ends with the tests that are left (os_unix.cpp:68) |
| `TopIsKept` (LuaVM) | `scripts` | the assertion of lvm.cpp:415: `l_isfalse` leaves the top of the stack one higher for a table without `__eval` (lvm.cpp:312) |

More was met while modelling. The models contain it, and the properties of the passing
runs have a condition or a bound where it matters:

- `hasFail()` is looked at only after the wait (jobfactory.cpp:90): a failure published
  before the search hangs the build like a lost notification. `EndsOrWaitsForTree`
  allows exactly this wait.
- A hook can be made for a dependency of its target, the last one the search entered
  (jobfactory.cpp:108). `JobsRunForTheirTarget` is about files and targets.
- `run()` returns before the last thread is done with the tree and the factory
  (jobmanager.cpp:86). In `Build` both stay, and `ExitStatus` is about commands.
- Waits without a loop (jobmanager.cpp:62, 86): a spurious wakeup lets one job too many
  run, or returns early. `limits` and the theorems about it have no such wakeups.
- The visit takes some graphs without a cycle for cyclic (nodevisitor.cpp:52), even a
  chain of three targets in an unlucky order: and what follows
  from it, a named target that loses a shared dependency (nodetree.cpp:145) and
  a target without options (jobfactory.cpp:52), is why `ForestIsBuilt` is about forests.
- What only an excluded target needs is not built by default (nodetree.cpp:220), the
  exception in `ForestIsBuilt`.
- A program may stay linked with an old library. Edit `lib.c`, run `meique lib`, then
  `meique`: the first build compiles `lib.c` and links `lib`, in a tree without the program;
  the second finds the object newer than its source and both outputs there, runs nothing and
  succeeds. No later build links the program either, until something below it is made again.
  tests/basic_relink/script.sh:12 asks for more ("The target should be relinked, but
  wasn't."). The same comes of a link that failed, of a build that was interrupted between a
  compilation and its link, and of one that ended early (jobfactory.cpp:87). `owed` is all
  that is left over in this way, and `SuccessMeansFresh` says that nothing else is ever old.
- The hash of new options is saved though the build failed, ended early or is interrupted by
  CTRL+C (jobfactory.cpp:411), and a kill keeps the hash of the old ones though objects were
  made with the new: what was not made with the options whose hash is saved is owed, too.
  Changed back, such options look like those of the last build.
- An Error of `createJob` (a file of no known language, gcc.cpp:103) while a Lua job waits
  for the `LuaState`: the job starts when the main thread unwinds, changes the working
  directory (luajob.cpp:51), and `~MeiqueCache` writes `meiquecache.lua` into the source
  directory (meiquecache.cpp:107), in a run that nobody interrupted. A first run then leaves
  no configuration in the build directory. `SourceStaysClean`, `CacheIsTheConfiguration` and
  `CacheIsReadable` allow for it (`abandoned`), and for nothing more.
- A configuration that finds no compiler saves its cache (meiquescript.cpp:83), the
  second case of `CacheIsTheConfiguration`.
- The cache is written in place (meiquecache.cpp:107): a kill leaves one that does not
  load, the condition of `CacheIsReadable`.
- A package that was not found counts as found in the next run (meiquescript.cpp:346).
- An uninstall of targets that install other files than their outputs looks for them in
  another directory and by other names than the install did (meiquescript.cpp:675), and
  may remove what is there by that name: `UninstallUndoesInstall` has it as a condition,
  and `OthersStay` for uninstalls.
- An uninstall stops at the first file that is not there. Where the names on the command
  line name a target twice (`meique -u lib lib prog`), or two targets have installed to one
  file, it stops at the second time and leaves the rest: `NoneTwice`.
- `normalizePath` erases parts of the list it walks, and skips the part behind each
  (os_unix.cpp:250). Of three special parts in a row one is left. If the last part is
  special, the iterator wraps to the first one and the loop begins again: a part it had
  skipped after a row of two may then stand behind another one than it was written behind.
  The shortest paths for which that matters have eleven parts (`a/./../b/.././c/../../d/.`
  becomes `a/d` and is `d`), more than a run goes through; the attempt to prove the property
  for any path came upon them. This is `IsPlainPath`, the condition of `NormalizedInPlace`
  and, by `Plain`, of other properties of `Install`.
- A custom target with outputs and no files never runs (jobfactory.cpp:251): the loop that
  compares times has nothing to compare. `SuccessMeansFresh` leaves those out (`NeverRun`).
- An `Error` of `exec` in the thread of a command is caught by nobody and ends meique;
  a child whose `execl` or `cd` fails goes on as a second meique (os_unix.cpp:56, 65);
  output is cut at a zero byte (os_unix.cpp:73). `Processes` has the first; its commands
  start and write text.
- `not (A and B)` of two scopes is a scope or a boolean, depending on which of them is in
  force: `ResultIsMeant` compares scopes by whether they are true. `not` of a plain
  table is an error as a value (lvm.cpp:519) and none in a condition (lcode.cpp:524).
- `__eval` may move the stack under OP_TEST, which does not read `base` again
  (lvm.cpp:594). The stack of `LuaVM` is large enough.
- In `meiqueapi.lua`, outside these models: assignments to a global `o` (lines 144, 213,
  242, 308, 321), a hook added twice by `addQtResource` (342), and a directory that
  stays pushed when `addSubdirectory` fails (122).

## 5. Proofs

Each theorem is about every value of the constants that the named assumptions allow: any
project, any number of jobs, runs, builds, files and calls. The property a theorem states
is in parentheses where a run checks it too.

| module | theorems |
|---|---|
| `BuildProofs` | `SafeInvariant`, `TypeCorrect`, `OrderCorrect` (`BuildOrder`), `ErrorStops` (`ErrorStopsScheduling`); without spurious wakeups `LimitsInvariant`, `JobLimitCorrect` (`JobLimit`), `ExitStatusCorrect` (`ExitStatus`). Of the tree: `TreeInvariant` (`TreeInv`), `SourcesWait` (`SourcesWaitForDependencies`), `FailureContained` (`FailureIsContained`), `RebuildCorrect` (`RebuildReachesTargets`), `JobTargetsCorrect` (`JobsRunForTheirTarget`); without spurious wakeups `BuildImplementsPlan` (`ImplementsPlan`), the refinement of `BuildPlan` |
| `NodeVisitorProofs` | `VisitorInvariant`, `TreeVisited` (`TreeIsVisited`) for a visit of any graph; `TreesAreVisited`, the same for all visits of the constructors |
| `UpToDateProofs` | `RebuildInvariant`, `FreshBuildsAreIdle` (`FreshMeansIdle`), `ObjectsAreCurrent` (`ObjectsFollowSources`), `OwedInvariant`, `SuccessIsFresh` (`SuccessMeansFresh`) |
| `MeiqueProofs` | `SessionInvariant`, `CacheKept` (`CacheIsTheConfiguration`), `ActedAsConfigured` (`ActsAsConfigured`), `SourceKeptClean` (`SourceStaysClean`), `CacheCanBeRead` (`CacheIsReadable`) |
| `InstallProofs` | `InstallTypeInvariant`, `NormalizedInPlaceInvariant`, `SuccessMeansInstalledInvariant`, `UninstallUndoesInstallInvariant`, `OthersStayAlways` (the properties of those names) |
| `ProcessesProofs` | `ProcessInvariant`, `OutputComplete` (`OutputIsComplete`), `DirectoriesAreRight` (`RunsInItsDirectory`) |
| `LuaGCProofs` | `CollectorInvariant` (`Inv` of LuaGCInv), `NothingReachableIsEverFreed` (`NothingReachableIsFreed`), `GarbageIsAlwaysCollected` (`GarbageIsCollected`), `FinalizersAlwaysRunOnce` (`FinalizersRunOnce`) |
| `Induction` | `NatSetInduction`, `LargestSet`, `FlattenBlocks` and lemmas on sequences |

### Why these invariants

**The build** (BuildInv.tla). `BuildOrder` is not inductive: `ClaimFound` sets the status
of a node that was found two critical sections earlier. `SafeInv` adds `FoundInv`,
what the main thread knows of the node in its hands at each place (between the
search and the claim it is still good: other threads only turn Building nodes into
Built), `NodesInv` (an unclaimed node has no job, so ~NodeGuard only touches
claimed ones) and `CountInv` (`m_jobsRunning` is the number of counted jobs, so
that it never goes below zero, which the type needs). `JobLimit` is not inductive
either, as the limit is tested long before the job is counted: `LimitInv` says that
between the test and the count there is room for one more. `ErrorInv` ties
`m_errorOccured` to the results that were reported. `ErrorStops` needs nothing but types: it
counts the places between the report and the end of `run()`.

`TreeInv` is for what needs the form of the tree. `ResultInv` says what the
status of a node tells of its job; `ExpandedInv` that a node has the children its status
says, and a target was expanded only after its dependencies; `HeldInv` that the target the
search has left in `*target` is that of the node, hooks apart; `MarkedInv` that above a job
everything is marked from `MarkParents` on, and nothing there is then skipped.
These proofs need that the search comes to an end and what it finds: `Visits` is
unfolded along the children (there is a leaf in every set of nodes, by
`AcyclicAssumption`), `FlattenBlocks` says in which order the nodes of
the subtrees come, and `Ancestors` is the least set closed under parents. For the
refinement, the tasks of `BuildPlan` are nodes and what is done are those Built or up
to date; each action of the threads is one of its steps or leaves the mapped state alone.

**Visits** (NodeVisitor.tla). `StackInv` says that each call on the stack was made by the one
below it, for the child before the one it has come to, and what is called is Visited: enough
for "no node twice" in any graph. A tree needs more, `TreeVisitInv`: what is Visiting
is on the stack, each node was entered from its one parent, which has come past it, and what a
node has come past is Visited. In other graphs a node can stay Visiting off the stack
(nodevisitor.cpp:54), and none of this holds. `VisitsInv` takes it along the phases
of TargetTree, each with a graph and roots of its own.

**Rebuilds** (UpToDate.tla). The code sees times and hashes, the properties recipes.
`TimesInv` says that the times tell the truth of sources: a source is newer than a product
exactly when the product was made of an earlier revision. That holds whatever fails, and
`CompiledInv` and `IdleInv` follow from it. For targets and options nothing on disk tells the
truth, and `OwedInv` says of what is not owed how the process makes up for it: `HashInv` (it
was made with the options whose hash is saved, and those that get others are marked),
`MarksInv` (a target of the tree is marked when the command of a part of it was run),
`PartsInv` (a target made of other parts than there are has a part that is missing, or one
that this build has made) and `FreshInv` (what was dealt with is fresh). The marks go with
the process: where a build ends before it has done what they ask for, `Leave` adds it to
`owed`, and that `LeftOver` forgets nothing is what the proof of `Finish` and `Interrupt`
shows. A build of everything that goes through adds nothing.

**Processes of meique** (Meique.tla). `StepInv` ties each step to a state and to what exists
by then; `ConfiguringInv` says that a configuration begins without a cache and takes its
options from the command line; `UseInv` that only caches of a configuration come to use,
unless CTRL+C saved one in a wrong directory; `WholeInv` that only a kill leaves half a cache;
`KeptInv` that without interruptions the configuration is in the file or in a process that
will save it; `JobInv` that a Lua job is there only while jobs run or after an Error has left
it behind, and that only then the cache is written elsewhere. Each is needed for the next process to begin with what the last has left.

**Paths and installs** (InstallProofs.tla). `NormalizedInPlace` is about a loop that goes on
in a list it erases from. The lemma `NormalizesInPlace` is an induction over the number of
parts the iterator has before it; `Good` is what holds at the begin of each round: there
are never three special parts in a row, none is just behind another one that was skipped, and
the last part is not special unless all that was passed is ordinary, so that a loop that
begins again changes nothing (`EraseLast`). Every round keeps the place that is named.
`NormalizeEnds` says that the loop ends for every path, plain or not. `LoopInv` says where
the loops are: `todo` and `instructions` are the rests of the names and of the script. Its positions (which name, which
instruction) are ordered as both loops meet them, and the other invariants are about the
positions up to here: `SuccessInv`, that their files are in place and current, and that
no later file goes over them (`Apart`); `InstallInv`, that what was put into the file system is
theirs, and that an uninstall will find it; `UninstallInv`, that there is a position at
which the install has stopped, and what is left is between the uninstall and it.
`OthersStay` is an action property and rests on `LoopInv` and on the lemmas that say where a
plain instruction goes, which tie `Dest` and `Source` (text, glued and normalized) to
`Destination` and `Wanted`.

**Calls of exec** (Processes.tla). `CallsInv` says how far each call of each thread is,
`EndsInv` who holds the write ends, `PipeInv` that what was read and what is in the pipe make
what was written, in order, `ReadInv` that after the end of the read nothing will be
written any more, since the command's child holds its own write end until it ends. `DirInv`
ties the working directory to the owner of the `LuaState`.

**The collector** (LuaGCInv.tla). That what can be reached is there is not inductive: the program
and the collector each see half of it. `LiveOK` says it one reference at a time: what is
not of the other white refers to nothing of the other white, weak entries and open upvalues
included, so that the closure of the roots stays clear of what a sweep frees. In the mark phase
nothing is of the other white yet, and what will be depends on the marks: `TriColour` says that what is
black refers to nothing white, and what is gray is on a list that will be traversed. The
exceptions of the code are in `ColoursOK`: threads and open upvalues are never black, a
weak table stays gray, a userdata is never gray. The barriers are what keeps it (the lemmas
about `BarrierForward`, `BarrierBack` and `LinkUpvals`), and the atomic step turns it into
`LiveOK` (`AtomicMarking`): when the lists are empty, what the roots reach is marked. In the sweep,
`SweepOK` says that what is not white yet is still to be swept, an open upvalue with its
thread; without it the next mark phase would begin with a black object.
The other direction is `DoomOK`: what was not garbage when the collection began is
closed under references, whatever the program creates, and the marks stay within it, so that
all the rest is of the other white after the atomic step and the sweep frees it. `FinalOK`
ties the number of calls of a finalizer to FINALIZEDBIT and `tmudata`.

Reachability and the propagation of marks are recursive functions over the number of
rounds. `ClosureIsClosed` shows that as many rounds as there are objects are enough
(`LargestSet`), `PropagateAllMarking` that the marks stay right and that in each round one object
less is in the gray list or white, so that the list is empty in the end. Each thing the program does is a lemma of the form "the step keeps
the graph consistent and reaches nothing new" (`NewStep` to `SwitchStep`), each step of the
collector one of the form "keeps `Inv`".

Before they were proved TLC checked these invariants, but for `VisitsInv` and `SuccessInv`,
on the instance of the run that their property belongs to; `TreeInv` stays in `order`.

### Assumptions

- Trees: kinds of nodes are disjoint and finite, only targets and a fake root have children,
  a fake root has more than one (nodetree.cpp makes it for several roots only), and there is
  no cycle (`AcyclicAssumption`: what the constructors' visit refuses). `TreeAssumption`, one
  parent each, is needed for the theorems of the tree, where the search is shown to report the right target:
  a source that two targets share has two nodes in the code.
- `MaxJobs` is positive. `~SpuriousWakeups` is a hypothesis of the theorems about limits,
  answers and refinement, and needed: after a spurious wakeup of `m_needJobsCond` one job too
  many runs, after one of `m_allDoneCond` `run()` returns early.
- `VisitorAssumption`: finitely many nodes. `TargetAssumption`: the fake root comes first in
  the order in which nodes are made.
- `ProjectAssumption`: every source file that is compiled belongs to one target, which is not
  custom.
- `SessionAssumption`: there are options, and none is the empty text, which stands for "not
  configured".
- `ProcessAssumption`: every thread has a call; only Lua functions inherit the directory.
- `GCAssumption`: every place holds one kind of object; `Order` names all of them, so that there
  are finitely many; there are a main thread and a table of globals. Nothing is assumed of what
  the program does (`Worlds`), nor of `MaxStack` and `MaxFields` but that they are numbers.
- `InstallAssumption`, `GlueAssumption`, `PartAssumption`: outputs are names without `.` and
  `..`; no place is both a file and a directory at first; texts are made of parts that are
  strings, also where a prefix is glued to a directory (`"usr" \in Part` is a fact about
  strings that the provers cannot see).

### Only model-checked, and why

- Liveness (`JobsEnd`, `EndsOrWaitsForTree`, `RunsEnd`, `AllReturn`): out of the prover's reach.
- `SearchAgrees` and everything of the compiler and the machine: recursive operators.
- `ForestIsBuilt`, `OptionsReachUsers`, `ArchivesAreInOrder`: folds and selections with
  operators as arguments, which the provers cannot expand.
- `LuaTable` and its refinement: not tried yet, see the plan.

The proofs use no recursion theorem with an operator parameter: a recursive function is
unfolded after it is shown to exist, on sets of arguments of which the least that fails
is looked at (`NatSetInduction`, `LargestSet`).

## 6. Not modelled, and why

- Text: commands, names, logs, the progress display, `CmdLine`, regular expressions,
  reading Lua tables. `file2c` is a tool of meique's own build.
- Of the interpreter: the lexer, strings (patterns, formatting, comparison) and their
  metatable, coroutines, hooks, line numbers, limits on the size of code, the operators
  `/` and `^`, the growth of the stack, and the libraries but for `type`, `setmetatable`,
  `error`, `pcall`, `next` and `pairs`. When a step of the collector is due is a free
  choice.
- Linear search for a length above 2^31 (ltable.cpp:541), memory that runs out.
- Commands that leave a process behind which holds their output: `exec` waits for it.
- Custom targets that install (they have no `_output`).
- An exception in a job thread that is no `Error` ends the program; destruction of
  the nodes; a null root (nothing to build).
- The builds of Build.tla are those of trees: in any other graph some target gets no
  options (jobfactory.cpp:52) and the build does not get to its jobs.
- Edits in the same second as a build: time stamps have whole seconds, and the
  tests of the repository sleep for the same reason. Objects that are half
  written by a killed compiler; commands that go on after CTRL+C.
- Hooks in UpToDate.
- The data race between the signal handler and the main thread inside a
  `std::map`, and `currentCache` after the cache is destroyed: CTRL+C comes between
  two steps, and after the end of the cache it is ignored.
- Scopes, build type and install prefix are kept in the cache like the options.
- A custom target that has no output, moc and qrc files, `configureFile` (the same test as
  `copyFile`).

## 7. Plan

1. Proofs: that a step of the traversal of LuaTable is one of LuaEntries, with the invariant
   of its chains of nodes; the links of TargetTree (`LinksAgree`), if they are stated without
   folds.
2. `UpToDate` with hooks and custom targets without outputs, and the moc and qrc
   files of `MeiqueScript`.
3. The other actions in `Meique`, so that it composes with `Build` and `Install`.
