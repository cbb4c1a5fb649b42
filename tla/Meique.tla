------------------------------- MODULE Meique -------------------------------
(***************************************************************************)
(* The processes a user starts one after the other in a build directory:   *)
(* the state machine of Meique::exec, the MeiqueScript it creates and the  *)
(* MeiqueCache in it, which is read from meiquecache.lua in the working    *)
(* directory and written back when it is destroyed or at CTRL+C.           *)
(*                                                                         *)
(* What an action does to its targets is the subject of the other modules: *)
(* here it succeeds, fails, or runs Lua code in the source directory.      *)
(***************************************************************************)
EXTENDS Integers, FiniteSets

CONSTANTS
    Options,         \* values of the options on the command line ("" is no configuration)
    Interrupts,      \* how a process may be interrupted: "CTRL+C", "kill"
    CompilerAtFirst, \* is there a compiler from the beginning?
    PackageExists,   \* does pkg-config know the optional package of meique.lua?
    MaxEdits         \* bound on the edits of the file given to copyFile

ASSUME SessionAssumption ==
    /\ Options # {} /\ "" \notin Options
    /\ Interrupts \subseteq {"CTRL+C", "kill"}
    /\ CompilerAtFirst \in BOOLEAN /\ PackageExists \in BOOLEAN
    /\ MaxEdits \in Nat

Dir == {"build", "source"}

Actions == {"CleanAction", "InstallAction", "TestAction", "UninstallAction", "BuildAction"}

\* A command line: what checkArgs returns for it, whether its first free argument is a
\* directory with a meique.lua, -s, and what is to be done with the targets. The rest of
\* one that only shows something does not count.
Args == {a \in [mode : {"NormalArgs", "HasHelpArg", "HasVersionArg", "DumpProject"},
                project : BOOLEAN, stop : BOOLEAN, action : Actions, options : Options] :
            a.mode # "NormalArgs" =>
                /\ ~a.project /\ ~a.stop /\ a.action = "BuildAction"
                /\ a.options = CHOOSE o \in Options : TRUE}

\* The command line when no process runs
NoArgs == CHOOSE a \in Args : TRUE

VARIABLES
    cache,        \* meiquecache.lua in each directory
    compiler,     \* is there a compiler?
    input,        \* the revision of the file copyFile copies
    output,       \* the revision it copied, or Absent
    state,        \* the method of Meique that runs, "return" at the end, or "off"
    step,         \* what that method is at
    args,         \* the command line
    mem,          \* MeiqueScript::m_cache
    autoSave,     \* MeiqueCache::m_autoSave
    cwd,          \* the working directory
    luaJob,       \* the thread of a LuaJob: "none", "waiting" for Lua, or "running"
    saveDir,      \* where ~MeiqueCache opened the cache it writes
    optional,     \* did findPackage return the optional package?
    status,       \* the exit status
    configured,   \* the options of the last configuration that was done
    interrupted,  \* how processes have been interrupted so far, or "never"
    abandoned     \* did an Error ever leave JobManager::run while a LuaJob waited?

world   == << compiler, input, output >>
threads == << luaJob, saveDir >>
process == << state, step, args, mem, autoSave, cwd, threads, optional, status >>
history == << configured, interrupted, abandoned >>
vars    == << cache, world, process, history >>

Absent == -1

\* A cache: not there, truncated to nothing or to a part of it, or whole. A package is
\* kept as the set of its fields; one with no fields was not looked for.
None    == [kind |-> "none"]
Empty   == [kind |-> "empty"]
Torn    == [kind |-> "torn"]
Blank   == [kind |-> "whole", compiler |-> "", sourceDir |-> "", options |-> "", package |-> {}]
Wholes  == [kind : {"whole"}, compiler : {"", "Gcc"}, sourceDir : {"", "source"},
            options : Options \cup {""},
            package : SUBSET {"name", "NOT_FOUND", "cflags", "version"}]

-----------------------------------------------------------------------------
(* Meique::exec *)

MachineThat(configuredGoesTo) ==
    [ checkArgs |-> [ HasHelpArg |-> "showHelp", HasVersionArg |-> "showVersion",
                      NormalArgs |-> "lookForMeiqueCache", DumpProject |-> "dumpProject" ],
      lookForMeiqueCache |-> [ Found |-> "getBuildAction", NotFound |-> "lookForMeiqueLua" ],
      lookForMeiqueLua   |-> [ Found |-> "configureProject", NotFound |-> "showHelp" ],
      configureProject   |-> [ Ok |-> configuredGoesTo ],
      getBuildAction |-> [ TestAction |-> "testTargets", InstallAction |-> "installTargets",
                           UninstallAction |-> "uninstallTargets",
                           BuildAction |-> "buildTargets", CleanAction |-> "cleanTargets" ] ]

\* Fault: a configured project goes on as if its cache had been written.
MachineThatLooksAgain == MachineThat("lookForMeiqueCache")

machine == MachineThat("getBuildAction")

\* An event without a transition leads to the empty state, where execute ends.
After(s, event) ==
    IF s \in DOMAIN machine /\ event \in DOMAIN machine[s] THEN machine[s][event]
    ELSE "return"

Proceed(event) == state' = After(state, event) /\ step' = "call"

Calls(s) == state = s /\ step = "call"

\* An Error unwinds the stack, which restores the working directory, up to main.
\* Fault: the working directory is not restored.
ThrowInPlace ==
    /\ state' = "return" /\ step' = "call" /\ status' = 1
    /\ UNCHANGED << args, mem, cwd, optional >>

Throw ==
    /\ state' = "return" /\ step' = "call" /\ status' = 1
    /\ cwd' = "build"
    /\ UNCHANGED << args, mem, optional >>

-----------------------------------------------------------------------------
Init ==
    /\ cache = [d \in Dir |-> None]
    /\ compiler = CompilerAtFirst
    /\ input = 0 /\ output = Absent
    /\ state = "off" /\ step = "call" /\ args = NoArgs
    /\ mem = None /\ autoSave = TRUE /\ cwd = "build" /\ optional = FALSE /\ status = 0
    /\ luaJob = "none" /\ saveDir = "build"
    /\ configured = "" /\ interrupted = "never" /\ abandoned = FALSE

\* Start a process.
Invoke(a) ==
    /\ state = "off"
    /\ state' = "checkArgs" /\ args' = a /\ status' = 0
    /\ UNCHANGED << cache, world, step, mem, autoSave, cwd, threads, optional, history >>

CheckArgs ==
    /\ Calls("checkArgs")
    /\ Proceed(args.mode)
    /\ UNCHANGED << cache, world, args, mem, autoSave, cwd, threads, optional, status, history >>

LookForMeiqueCache ==
    /\ Calls("lookForMeiqueCache")
    /\ Proceed(IF cache[cwd] # None THEN "Found" ELSE "NotFound")
    /\ UNCHANGED << cache, world, args, mem, autoSave, cwd, threads, optional, status, history >>

LookForMeiqueLua ==
    /\ Calls("lookForMeiqueLua")
    /\ Proceed(IF args.project THEN "Found" ELSE "NotFound")
    /\ UNCHANGED << cache, world, args, mem, autoSave, cwd, threads, optional, status, history >>

Show ==
    /\ Calls("showHelp") \/ Calls("showVersion")
    /\ Proceed("0")
    /\ UNCHANGED << cache, world, args, mem, autoSave, cwd, threads, optional, status, history >>

(* MeiqueScript: its constructors and exec *)

\* MeiqueScript(scriptName, cmdLine), up to the search for a compiler
Construct ==
    /\ Calls("configureProject")
    /\ mem' = [Blank EXCEPT !.sourceDir = "source"]
    /\ step' = "findCompilerId"
    /\ UNCHANGED << cache, world, state, args, autoSave, cwd, threads, optional, status, history >>

\* Without a compiler the constructor throws, and the cache that is its member is saved.
FindCompilerId ==
    /\ step = "findCompilerId"
    /\ \/ /\ compiler
          /\ mem' = [mem EXCEPT !.compiler = "Gcc"]
          /\ step' = "exec"
          /\ UNCHANGED << state, args, cwd, optional, status >>
       \/ ~compiler /\ Throw
    /\ UNCHANGED << cache, world, autoSave, threads, history >>

\* getBuildAction and dumpProject read the cache, if there is no script yet.
Open ==
    /\ Calls("getBuildAction") \/ Calls("dumpProject")
    /\ mem = None
    /\ \/ /\ cache[cwd] # None
          /\ mem' = Blank /\ step' = "loadCache"
          /\ UNCHANGED << state, args, cwd, optional, status >>
       \/ cache[cwd] = None /\ Throw
    /\ UNCHANGED << cache, world, autoSave, threads, history >>

\* Fault: the options are not read back.
ReloadedWithoutOptions(c) ==
    [c EXCEPT !.package = IF @ = {} THEN {} ELSE @ \cup {"name"}, !.options = ""]

\* readPackage adds the name to the fields of a package.
Reloaded(c) ==
    [c EXCEPT !.package = IF @ = {} THEN {} ELSE @ \cup {"name"}]

LoadCache ==
    /\ step = "loadCache"
    /\ \/ /\ cache[cwd].kind = "whole"
          /\ mem' = Reloaded(cache[cwd])
          /\ step' = "exec"
          /\ UNCHANGED << state, args, cwd, optional, status >>
       \/ /\ cache[cwd] = Empty
          /\ step' = "exec"
          /\ UNCHANGED << state, args, mem, cwd, optional, status >>
       \/ cache[cwd] = Torn /\ Throw
    /\ UNCHANGED << cache, world, autoSave, threads, history >>

\* MeiqueScript::populateOptionsValues: the command line counts in the first run only.
PopulateOptions == IF state = "configureProject" THEN args.options ELSE mem.options

\* MeiqueScript::exec runs meique.lua in the source directory.
EnterSource ==
    /\ step = "exec"
    /\ \/ /\ mem.sourceDir # ""
          /\ cwd' = mem.sourceDir
          /\ mem' = [mem EXCEPT !.options = PopulateOptions]
          /\ step' = "meique.lua"
          /\ UNCHANGED << state, args, optional, status >>
       \/ mem.sourceDir = "" /\ Throw
    /\ UNCHANGED << cache, world, autoSave, threads, history >>

\* findPackage: look for the package unless the cache has something about it. A package
\* that was not found has one field, NOT_FOUND.
FindPackage ==
    CASE mem.package # {} -> mem.package
      [] PackageExists    -> {"cflags", "version"}
      [] OTHER            -> {"NOT_FOUND"}

\* copyFile compares the times of output and input: each revision of the input is newer
\* than what was copied before, and a copy is newer than what it was made of.
CopyFile == output' = IF output # Absent /\ output < input THEN output ELSE input

\* Fault: a failed configuration saves its cache.
KeepAutoSave == UNCHANGED autoSave

DropAutoSave == autoSave' = IF state = "configureProject" THEN FALSE ELSE autoSave

RunScript ==
    /\ step = "meique.lua"
    /\ mem' = [mem EXCEPT !.package = FindPackage]
    /\ optional' = (Cardinality(FindPackage) >= 2)
    /\ CopyFile
    /\ step' = "after calls"
    /\ UNCHANGED << cache, compiler, input, state, args, autoSave, cwd, threads, status, history >>

ScriptFails ==
    /\ step \in {"meique.lua", "after calls"}
    /\ DropAutoSave
    /\ Throw
    /\ UNCHANGED << cache, world, threads, history >>

\* After exec: configureProject stops with -s, dumpProject always, getBuildAction never.
LeaveSource ==
    /\ step = "after calls" \/ (Calls("getBuildAction") /\ mem # None)
    /\ cwd' = "build"
    /\ CASE state = "configureProject" -> Proceed(IF args.stop THEN "0" ELSE "Ok")
         [] state = "dumpProject"      -> Proceed("0")
         [] OTHER                      -> Proceed(args.action)
    /\ configured' = IF state = "configureProject" THEN mem.options ELSE configured
    /\ UNCHANGED << cache, world, args, mem, autoSave, threads, optional, status, interrupted, abandoned >>

(* The actions *)

OnTargets == {"testTargets", "installTargets", "uninstallTargets", "buildTargets", "cleanTargets"}
UsesCompiler == {"testTargets", "buildTargets", "cleanTargets"}

\* createJob makes a LuaJob, whose thread waits for the LuaState.
\* Bound: one LuaJob in a process.
CreateLuaJob ==
    /\ Calls("buildTargets") \/ Calls("testTargets")
    /\ step' = "jobs" /\ luaJob' = "waiting"
    /\ UNCHANGED << cache, world, state, args, mem, autoSave, cwd, saveDir, optional, status, history >>

\* It runs in the source directory of its target, which it makes that of the process. The
\* thread is detached: if an Error has left JobManager::run it starts while main returns.
StartLuaJob ==
    /\ luaJob = "waiting"
    /\ luaJob' = "running" /\ cwd' = "source"
    /\ UNCHANGED << cache, world, state, step, args, mem, autoSave, saveDir, optional, status, history >>

EndLuaJob ==
    /\ luaJob = "running"
    /\ luaJob' = "none" /\ cwd' = "build"
    /\ UNCHANGED << cache, world, state, step, args, mem, autoSave, saveDir, optional, status, history >>

\* JobManager::run waits for its jobs before it reports a success or a failure, but an Error
\* out of createJob (gcc.cpp:103) does not wait: it is thrown with the LuaState locked, so by
\* then a LuaJob may be waiting, but not running.
Act ==
    /\ state \in OnTargets /\ step \in {"call", "jobs"}
    /\ \/ /\ luaJob = "none"
          /\ state \in UsesCompiler => mem.compiler # ""
          /\ Proceed("0")
          /\ UNCHANGED << args, mem, cwd, optional, status, abandoned >>
       \/ /\ luaJob # "running"
          /\ abandoned' = (abandoned \/ luaJob = "waiting")
          /\ Throw
    /\ UNCHANGED << cache, world, autoSave, threads, configured, interrupted >>

(* The end of a process: ~MeiqueCache *)

\* Nothing of the process but its status is left.
Exit ==
    /\ state' = "off" /\ step' = "call" /\ args' = NoArgs
    /\ mem' = None /\ autoSave' = TRUE /\ cwd' = "build" /\ optional' = FALSE
    /\ luaJob' = "none" /\ saveDir' = "build"

\* The cache is opened in the working directory of that moment.
Return ==
    /\ Calls("return")
    /\ \/ /\ mem # None /\ autoSave
          /\ cache' = [cache EXCEPT ![cwd] = Empty]
          /\ step' = "saveCache" /\ saveDir' = cwd
          /\ UNCHANGED << state, args, mem, autoSave, cwd, luaJob, optional >>
       \/ /\ mem = None \/ ~autoSave
          /\ Exit
          /\ UNCHANGED cache
    /\ UNCHANGED << world, status, history >>

\* A part of a cache that is larger than the buffer of the stream is written.
Flush ==
    /\ step = "saveCache" /\ cache[saveDir] = Empty
    /\ cache' = [cache EXCEPT ![saveDir] = Torn]
    /\ UNCHANGED << world, process, history >>

SaveCache ==
    /\ step = "saveCache"
    /\ cache' = [cache EXCEPT ![saveDir] = mem]
    /\ Exit
    /\ UNCHANGED << world, status, history >>

-----------------------------------------------------------------------------
(* What else may happen *)

\* Fault: handleCtrlC just exits.
ExitAtOnce == UNCHANGED cache

\* handleCtrlC, once there is a cache; before, the signal ends the process.
SaveAtCtrlC ==
    cache' = IF mem # None /\ autoSave THEN [cache EXCEPT ![cwd] = mem] ELSE cache

\* Bound: in one behaviour processes are interrupted in one of the two ways only.
Interrupt(how) ==
    /\ how \in Interrupts /\ state # "off"
    /\ interrupted \in {"never", how} /\ interrupted' = how
    /\ Exit /\ status' = 1
    /\ UNCHANGED << world, configured, abandoned >>

CtrlC == Interrupt("CTRL+C") /\ SaveAtCtrlC

\* A signal, or the crash of a thread that outlives the JobManager it reports to
Kill == Interrupt("kill") /\ UNCHANGED cache

InstallCompiler ==
    /\ state = "off" /\ ~compiler
    /\ compiler' = TRUE
    /\ UNCHANGED << cache, input, output, process, history >>

EditInput ==
    /\ state = "off" /\ input < MaxEdits
    /\ input' = input + 1
    /\ UNCHANGED << cache, compiler, output, process, history >>

Start == \E a \in Args : Invoke(a)

Step ==
    \/ CheckArgs \/ LookForMeiqueCache \/ LookForMeiqueLua \/ Show
    \/ Construct \/ FindCompilerId \/ Open \/ LoadCache \/ EnterSource
    \/ RunScript \/ ScriptFails \/ LeaveSource
    \/ CreateLuaJob \/ StartLuaJob \/ EndLuaJob \/ Act
    \/ Return \/ Flush \/ SaveCache

Next == Start \/ Step \/ CtrlC \/ Kill \/ InstallCompiler \/ EditInput

Spec == Init /\ [][Next]_vars

\* A process that can go on does; its commands and the Lua code it runs end.
FairSpec == Spec /\ WF_vars(Step)

-----------------------------------------------------------------------------
\* Every variable has its type, and the working directory is another than the build
\* directory only while Lua code runs.
TypeOK ==
    /\ cache \in [Dir -> Wholes \cup {None, Empty, Torn}] /\ compiler \in BOOLEAN
    /\ mem \in Wholes \cup {None}
    /\ state \in {"off", "return", "showHelp", "showVersion", "dumpProject"} \cup OnTargets
                     \cup DOMAIN machine
    /\ args \in Args /\ autoSave \in BOOLEAN /\ optional \in BOOLEAN
    /\ configured \in Options \cup {""}
    /\ input \in 0 .. MaxEdits /\ output \in Absent .. input
    /\ status \in {0, 1} /\ interrupted \in {"never"} \cup Interrupts /\ abandoned \in BOOLEAN
    /\ cwd \in Dir /\ saveDir \in Dir /\ luaJob \in {"none", "waiting", "running"}
    /\ cwd = "source" <=> step \in {"meique.lua", "after calls"} \/ luaJob = "running"

\* The cache in the build directory is that of the last configureProject that was done
IsConfigured ==
    /\ cache["build"].kind = "whole"
    /\ cache["build"].compiler = "Gcc"
    /\ cache["build"].options = configured

\* What a run of meique that was not interrupted leaves in the build directory is the
\* configuration of the last configureProject that was done, and no later command line
\* changes it; a failed configuration leaves no cache, or one without a compiler (which
\* the destructor saves when no compiler was found, meiquescript.cpp:83). An Error that
\* leaves a LuaJob behind may lose the configuration, but never changes it.
CacheIsTheConfiguration ==
    state = "off" /\ interrupted = "never" =>
        IF configured = "" THEN cache["build"].kind = "whole" => cache["build"].compiler = ""
        ELSE IsConfigured \/ (abandoned /\ cache["build"] = None)

\* Whatever is done to targets is done as the project was configured, also after runs
\* that were killed while they wrote the cache.
ActsAsConfigured ==
    state \in OnTargets /\ interrupted # "CTRL+C" =>
        /\ mem.options = configured
        /\ (cwd = "build" \/ luaJob = "running")

\* Out of source builds: no run leaves a cache in the source directory, unless it was
\* interrupted by CTRL+C or an Error left a LuaJob behind. (It may then, without any
\* interruption: the LuaJob starts during the unwinding, and ~MeiqueCache opens the cache
\* in the source directory, meiquecache.cpp:107.)
SourceStaysClean == cache["source"] # None => abandoned \/ interrupted = "CTRL+C"

\* Unless a process was killed while it wrote it, the cache can be read: CTRL+C writes
\* what a destructor or a loader had not finished, if both are in one directory.
CacheIsReadable ==
    state = "off" /\ interrupted # "kill" =>
        \/ \A d \in Dir : cache[d] \notin {Empty, Torn}
        \/ abandoned /\ interrupted = "CTRL+C"

\* Every run ends, whichever way it goes through the state machine.
RunsEnd == state # "off" ~> state = "off"

\* meiquecache.cpp:37, "We need to save the cache when the user hits CTRL+C": it is saved
\* where the next run looks for it.
CtrlCSavesTheCache == [][CtrlC /\ mem # None /\ autoSave => cache'["build"] = mem]_vars

\* meique.1:21, "Automatic dependency check": once meique.lua has been run, the copy made
\* by copyFile is a copy of its input.
CopyIsCurrent == step = "after calls" => output = input

-----------------------------------------------------------------------------
(* Why the first four of these hold: an inductive invariant *)

Before == {"checkArgs", "lookForMeiqueCache", "lookForMeiqueLua", "showHelp", "showVersion"}
Scripts == {"configureProject", "getBuildAction", "dumpProject"}

\* Which step belongs to which state, and what the process has by then
StepInv ==
    /\ step \in {"call", "findCompilerId", "exec", "loadCache", "meique.lua", "after calls",
                 "jobs", "saveCache"}
    /\ state \in Before \cup {"off"} => step = "call" /\ mem = None
    /\ step = "findCompilerId" => state = "configureProject"
    /\ step = "loadCache" => state \in Scripts \ {"configureProject"} /\ mem = Blank
    /\ step \in {"exec", "meique.lua", "after calls"} => state \in Scripts
    /\ step = "jobs" => state \in OnTargets
    /\ step = "saveCache" => state = "return" /\ mem # None /\ autoSave
    /\ step # "call" => mem # None
    /\ state \in OnTargets => mem # None
    /\ step = "call" /\ mem # None => state \in OnTargets \cup {"getBuildAction", "return"}
    /\ ~autoSave => state = "return"

\* Where jobs run, and what is left of them when an Error was not caught
JobInv ==
    /\ luaJob # "none" => step = "jobs" \/ (state = "return" /\ abandoned)
    /\ saveDir = "source" => step = "saveCache" /\ abandoned

\* A configuration starts without a cache, finds a compiler, which stays, and takes its
\* options from the command line.
ConfiguringInv ==
    /\ configured # "" => compiler
    /\ state \in {"lookForMeiqueLua", "configureProject"} => cache["build"] = None
    /\ state = "configureProject" /\ step # "call" =>
           /\ mem.sourceDir = "source"
           /\ step = "findCompilerId" => mem.compiler = "" /\ mem.options = ""
           /\ step # "findCompilerId" => compiler /\ mem.compiler = "Gcc"
           /\ step \in {"meique.lua", "after calls"} => mem.options \in Options

\* The cache of the last configuration, or the one that is saved when there was no compiler
IsConfiguration(c) ==
    /\ c.kind = "whole" /\ c.sourceDir = "source" /\ c.options = configured
    /\ c.compiler = IF configured = "" THEN "" ELSE "Gcc"

\* What a killed process left behind is refused: it has no source directory.
IsUsable(c) == c.kind = "whole" => c.sourceDir = "" \/ IsConfiguration(c)

\* Without CTRL+C only configurations come to use.
UseInv ==
    interrupted # "CTRL+C" =>
        /\ cache["source"] # None => abandoned
        /\ IsUsable(cache["build"])
        /\ state \in OnTargets => IsConfiguration(mem)
        /\ state = "getBuildAction" /\ step = "call" /\ mem # None =>
               IsConfiguration(mem) /\ configured # ""
        /\ state \in {"getBuildAction", "dumpProject"} =>
               /\ step = "exec" => IsUsable(mem)
               /\ step \in {"meique.lua", "after calls"} => IsConfiguration(mem)
        /\ state = "return" /\ mem # None /\ autoSave => IsUsable(mem)

\* Caches are whole, unless a process was killed or is writing one.
WholeInv ==
    interrupted = "never" \/ (interrupted = "CTRL+C" /\ ~abandoned) =>
        \A d \in Dir : cache[d] \in {Empty, Torn} => step = "saveCache" /\ d = saveDir

\* Without interruptions the configuration is in the cache, or will be.
KeptInv ==
    interrupted = "never" =>
        /\ cache["build"] # None => \/ IsConfiguration(cache["build"])
                                    \/ step = "saveCache" /\ saveDir = "build"
        /\ state = "return" /\ mem # None /\ autoSave => IsConfiguration(mem)
        /\ state \in {"getBuildAction", "dumpProject"} /\ step = "exec" => IsConfiguration(mem)
        /\ configured # "" /\ cache["build"] = None =>
               \/ abandoned
               \/ mem # None /\ autoSave /\ state \in OnTargets \cup {"getBuildAction", "return"}

SessionInv == TypeOK /\ StepInv /\ JobInv /\ ConfiguringInv /\ UseInv /\ WholeInv /\ KeptInv
=============================================================================
