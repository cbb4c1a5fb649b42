---------------------------- MODULE MeiqueProofs ----------------------------
(***************************************************************************)
(* Proofs about the processes of Meique.tla: SessionInv is inductive, so   *)
(* in every order of runs, with every way to end them, the cache is what   *)
(* was configured and whatever is done is done as configured.              *)
(***************************************************************************)
EXTENDS Meique, FiniteSetTheorems, TLAPS

AllStates == {"off", "return", "showHelp", "showVersion", "dumpProject"} \cup OnTargets
                \cup DOMAIN machine

\* The states of Meique::exec
LEMMA StatesAre ==
    DOMAIN machine = {"checkArgs", "lookForMeiqueCache", "lookForMeiqueLua",
                      "configureProject", "getBuildAction"}
  BY DEF machine, MachineThat

\* Where every transition of the state machine leads
LEMMA AfterIs ==
    ASSUME NEW e
    PROVE  /\ After("checkArgs", e) \in {"showHelp", "showVersion", "lookForMeiqueCache",
                                         "dumpProject", "return"}
           /\ After("lookForMeiqueCache", e) \in {"getBuildAction", "lookForMeiqueLua", "return"}
           /\ After("lookForMeiqueCache", e) = "lookForMeiqueLua" => e = "NotFound"
           /\ After("lookForMeiqueLua", e) \in {"configureProject", "showHelp", "return"}
           /\ After("configureProject", e) \in {"getBuildAction", "return"}
           /\ After("getBuildAction", e) \in OnTargets \cup {"return"}
           /\ \A s \in OnTargets \cup {"showHelp", "showVersion", "dumpProject"} :
                  After(s, e) = "return"
  <1>1. After("checkArgs", e) \in {"showHelp", "showVersion", "lookForMeiqueCache",
                                   "dumpProject", "return"}
    BY DEF After, machine, MachineThat
  <1>2. /\ After("lookForMeiqueCache", e) \in {"getBuildAction", "lookForMeiqueLua", "return"}
        /\ After("lookForMeiqueCache", e) = "lookForMeiqueLua" => e = "NotFound"
    BY DEF After, machine, MachineThat
  <1>3. After("lookForMeiqueLua", e) \in {"configureProject", "showHelp", "return"}
    BY DEF After, machine, MachineThat
  <1>4. After("configureProject", e) \in {"getBuildAction", "return"}
    BY DEF After, machine, MachineThat
  <1>5. After("getBuildAction", e) \in OnTargets \cup {"return"}
    BY DEF After, machine, MachineThat, OnTargets
  <1>6. \A s \in OnTargets \cup {"showHelp", "showVersion", "dumpProject"} : After(s, e) = "return"
    BY StatesAre DEF After, OnTargets
  <1> QED
    BY <1>1, <1>2, <1>3, <1>4, <1>5, <1>6

\* The kinds of caches differ.
LEMMA CachesDiffer ==
    /\ None \notin Wholes /\ Empty \notin Wholes /\ Torn \notin Wholes
    /\ None # Empty /\ None # Torn /\ Empty # Torn
    /\ Blank \in Wholes /\ Blank.sourceDir = "" /\ Blank.options = "" /\ Blank.compiler = ""
    /\ \A c \in Wholes : c.kind = "whole"
    /\ None.kind # "whole" /\ Empty.kind # "whole" /\ Torn.kind # "whole"
  BY DEF None, Empty, Torn, Blank, Wholes

\* There is a command line.
LEMMA NoArgsIsArgs == NoArgs \in Args
  <1>1. PICK o \in Options : o = CHOOSE x \in Options : TRUE
    BY SessionAssumption
  <1>2. [mode |-> "NormalArgs", project |-> TRUE, stop |-> FALSE, action |-> "BuildAction",
         options |-> o] \in Args
    BY DEF Args, Actions
  <1> QED
    BY <1>2 DEF NoArgs

\* What is done to a cache in memory keeps it whole.
LEMMA MemIsWhole ==
    ASSUME NEW c \in Wholes
    PROVE  /\ Reloaded(c) \in Wholes /\ Reloaded(c).sourceDir = c.sourceDir
           /\ Reloaded(c).options = c.options /\ Reloaded(c).compiler = c.compiler
           /\ [c EXCEPT !.compiler = "Gcc"] \in Wholes
           /\ \A o \in Options \cup {""} : [c EXCEPT !.options = o] \in Wholes
           /\ \A p \in SUBSET {"name", "NOT_FOUND", "cflags", "version"} :
                  [c EXCEPT !.package = p] \in Wholes
  BY DEF Reloaded, Wholes

\* What findPackage returns is one of finitely many sets of fields.
LEMMA PackageIsFinite ==
    ASSUME mem \in Wholes
    PROVE  /\ FindPackage \in SUBSET {"name", "NOT_FOUND", "cflags", "version"}
           /\ Cardinality(FindPackage) \in Nat
  <1> DEFINE F == {"name", "NOT_FOUND", "cflags", "version"}
  <1>1. FindPackage \in SUBSET F
    BY DEF FindPackage, Wholes
  <1>2. IsFiniteSet({"name"} \cup {"NOT_FOUND"} \cup {"cflags"} \cup {"version"})
    BY FS_Singleton, FS_Union
  <1>3. F = {"name"} \cup {"NOT_FOUND"} \cup {"cflags"} \cup {"version"}
    OBVIOUS
  <1> HIDE DEF F
  <1>4. IsFiniteSet(FindPackage)
    BY <1>1, <1>2, <1>3, FS_Subset
  <1> QED
    BY <1>1, <1>4, FS_CardinalityType DEF F

\* A process that has a script keeps it: what it does to the cache in memory.
LEMMA ScriptStays ==
    ASSUME TypeOK, StepInv,
           Construct \/ FindCompilerId \/ LoadCache \/ EnterSource \/ RunScript
    PROVE  mem' \in Wholes
  <1> USE DEF world, threads, process, history, Calls
  <1>1. /\ step # "call" => mem \in Wholes
        /\ cache \in [Dir -> Wholes \cup {None, Empty, Torn}] /\ cwd \in Dir
    BY DEF TypeOK, StepInv
  <1>2. CASE Construct
    <2>1. Blank \in Wholes /\ mem' = [Blank EXCEPT !.sourceDir = "source"]
      BY <1>2, CachesDiffer DEF Construct
    <2> QED
      BY <2>1 DEF Wholes
  <1>3. CASE FindCompilerId
    <2>1. mem \in Wholes /\ (mem' = mem \/ mem' = [mem EXCEPT !.compiler = "Gcc"])
      BY <1>1, <1>3 DEF FindCompilerId, Throw
    <2>2. [mem EXCEPT !.compiler = "Gcc"] \in Wholes
      BY <2>1, MemIsWhole
    <2> QED
      BY <2>1, <2>2
  <1>4. CASE LoadCache
    <2>1. mem \in Wholes
      BY <1>1, <1>4 DEF LoadCache
    <2>2. CASE cache[cwd].kind = "whole" /\ mem' = Reloaded(cache[cwd])
      <3>1. cache[cwd] \in Wholes
        BY <1>1, <2>2, CachesDiffer
      <3> QED
        BY <2>2, <3>1, MemIsWhole
    <2>3. CASE mem' = mem
      BY <2>1, <2>3
    <2> QED
      BY <1>4, <2>2, <2>3 DEF LoadCache, Throw
  <1>5. CASE EnterSource
    <2>1. mem \in Wholes
      BY <1>1, <1>5 DEF EnterSource
    <2>2. PopulateOptions \in Options \cup {""}
      BY <2>1 DEF TypeOK, PopulateOptions, Args, Wholes
    <2>3. [mem EXCEPT !.options = PopulateOptions] \in Wholes
      BY <2>1, <2>2, MemIsWhole
    <2> QED
      BY <1>5, <2>1, <2>3 DEF EnterSource, Throw
  <1>6. CASE RunScript
    <2>1. mem \in Wholes /\ mem' = [mem EXCEPT !.package = FindPackage]
      BY <1>1, <1>6 DEF RunScript
    <2>2. FindPackage \in SUBSET {"name", "NOT_FOUND", "cflags", "version"}
      BY <2>1, PackageIsFinite
    <2> QED
      BY <2>1, <2>2, MemIsWhole
  <1> QED
    BY <1>2, <1>3, <1>4, <1>5, <1>6

\* Every step keeps the types.
LEMMA TypeStep ==
    ASSUME TypeOK, StepInv, JobInv, Next
    PROVE  TypeOK'
  <1> USE DEF world, threads, process, history, Calls
  <1>1. /\ cache \in [Dir -> Wholes \cup {None, Empty, Torn}] /\ compiler \in BOOLEAN
        /\ mem \in Wholes \cup {None} /\ state \in AllStates
        /\ args \in Args /\ autoSave \in BOOLEAN /\ optional \in BOOLEAN
        /\ configured \in Options \cup {""}
        /\ input \in 0 .. MaxEdits /\ output \in Absent .. input
        /\ status \in {0, 1} /\ interrupted \in {"never"} \cup Interrupts /\ abandoned \in BOOLEAN
        /\ cwd \in Dir /\ saveDir \in Dir /\ luaJob \in {"none", "waiting", "running"}
        /\ cwd = "source" <=> step \in {"meique.lua", "after calls"} \/ luaJob = "running"
    BY DEF TypeOK, AllStates
  <1>11. state \notin OnTargets \cup {"return"} => luaJob = "none"
    BY DEF StepInv, JobInv
  <1>0. MaxEdits \in Nat
    BY SessionAssumption
  <1>10. input \in 0 .. MaxEdits /\ output \in Absent .. input
    BY <1>1
  <1>2. cache' \in [Dir -> Wholes \cup {None, Empty, Torn}]
    <2>1. \A c \in Wholes \cup {None, Empty, Torn} : \A d \in Dir :
              [cache EXCEPT ![d] = c] \in [Dir -> Wholes \cup {None, Empty, Torn}]
      BY <1>1
    <2>2. CASE Return
      BY <1>1, <2>1, <2>2 DEF Return
    <2>3. CASE Flush
      BY <1>1, <2>1, <2>3 DEF Flush
    <2>4. CASE SaveCache
      BY <1>1, <2>1, <2>4 DEF SaveCache
    <2>5. CASE CtrlC
      BY <1>1, <2>1, <2>5 DEF CtrlC, SaveAtCtrlC
    <2>6. CASE ~Return /\ ~Flush /\ ~SaveCache /\ ~CtrlC
      <3>1. cache' = cache
        BY <2>6 DEF Next, Start, Step, Invoke, CheckArgs, LookForMeiqueCache, LookForMeiqueLua, Show,
                    Construct, FindCompilerId, Open, LoadCache, EnterSource, RunScript, ScriptFails,
                    LeaveSource, CreateLuaJob, StartLuaJob, EndLuaJob, Act, Kill, InstallCompiler, EditInput
      <3> QED
        BY <1>1, <3>1
    <2> QED
      BY <2>2, <2>3, <2>4, <2>5, <2>6
  <1>3. mem' \in Wholes \cup {None}
    <2>1. CASE Construct \/ FindCompilerId \/ LoadCache \/ EnterSource \/ RunScript
      BY <2>1, ScriptStays
    <2>2. CASE Open
      BY <1>1, <2>2, CachesDiffer DEF Open, Throw
    <2>3. CASE Return \/ SaveCache \/ CtrlC \/ Kill
      BY <1>1, <2>3 DEF Return, SaveCache, CtrlC, Kill, Interrupt, Exit
    <2>4. CASE \/ Start \/ CheckArgs \/ LookForMeiqueCache \/ LookForMeiqueLua \/ Show \/ ScriptFails
               \/ LeaveSource \/ CreateLuaJob \/ StartLuaJob \/ EndLuaJob \/ Act \/ Flush \/ InstallCompiler \/ EditInput
      <3>1. mem' = mem
        BY <2>4 DEF Start, Invoke, CheckArgs, LookForMeiqueCache, LookForMeiqueLua, Show, ScriptFails,
                    LeaveSource, CreateLuaJob, StartLuaJob, EndLuaJob, Act, Flush, InstallCompiler, EditInput, Throw
      <3> QED
        BY <1>1, <3>1
    <2> QED
      BY <2>1, <2>2, <2>3, <2>4 DEF Next, Step
  <1>4. state' \in AllStates
    <2>1. CASE CheckArgs
      BY <2>1, AfterIs, StatesAre DEF CheckArgs, Proceed, AllStates
    <2>2. CASE LookForMeiqueCache \/ LookForMeiqueLua \/ Show
      BY <2>2, AfterIs, StatesAre DEF LookForMeiqueCache, LookForMeiqueLua, Show, Proceed, AllStates
    <2>3. CASE LeaveSource
      <3>1. state \in Scripts
        BY <2>3 DEF LeaveSource, StepInv, Scripts
      <3>2. \E e \in {"0", "Ok", args.action} : state' = After(state, e)
        BY <2>3 DEF LeaveSource, Proceed
      <3> QED
        BY <3>1, <3>2, AfterIs, StatesAre DEF AllStates, Scripts
    <2>4. CASE Act
      BY <2>4, AfterIs, StatesAre DEF Act, Proceed, AllStates, Throw
    <2>5. CASE Start
      BY <2>5, StatesAre DEF Start, Invoke, AllStates
    <2>6. CASE Return \/ SaveCache \/ CtrlC \/ Kill
      BY <1>1, <2>6 DEF Return, SaveCache, CtrlC, Kill, Interrupt, Exit, AllStates
    <2>7. CASE \/ Construct \/ FindCompilerId \/ Open \/ LoadCache \/ EnterSource \/ RunScript
               \/ ScriptFails \/ CreateLuaJob \/ StartLuaJob \/ EndLuaJob \/ Flush \/ InstallCompiler \/ EditInput
      <3>1. state' = state \/ state' = "return"
        BY <2>7 DEF Construct, FindCompilerId, Open, LoadCache, EnterSource, RunScript, ScriptFails,
                    CreateLuaJob, StartLuaJob, EndLuaJob, Flush, InstallCompiler, EditInput, Throw
      <3> QED
        BY <1>1, <3>1 DEF AllStates
    <2> QED
      BY <2>1, <2>2, <2>3, <2>4, <2>5, <2>6, <2>7 DEF Next, Step
  <1>5. /\ args' \in Args /\ autoSave' \in BOOLEAN /\ optional' \in BOOLEAN /\ compiler' \in BOOLEAN
        /\ status' \in {0, 1}
    <2>1. CASE Start \/ CtrlC \/ Kill \/ InstallCompiler \/ EditInput
      BY <1>1, <2>1, NoArgsIsArgs DEF Start, Invoke, CtrlC, Kill, InstallCompiler, EditInput, Interrupt, Exit
    <2>2. CASE Return \/ Flush \/ SaveCache
      BY <1>1, <2>2, NoArgsIsArgs DEF Return, Flush, SaveCache, Exit
    <2>3. CASE \/ CheckArgs \/ LookForMeiqueCache \/ LookForMeiqueLua \/ Show \/ Construct
               \/ FindCompilerId \/ Open \/ LoadCache \/ EnterSource
      BY <1>1, <2>3 DEF CheckArgs, LookForMeiqueCache, LookForMeiqueLua, Show, Construct,
                        FindCompilerId, Open, LoadCache, EnterSource, Throw
    <2>4. CASE RunScript
      <3>1. mem \in Wholes
        BY <1>1, <2>4 DEF RunScript, StepInv
      <3>2. Cardinality(FindPackage) \in Nat
        BY <3>1, PackageIsFinite
      <3>3. optional' \in BOOLEAN
        <4> DEFINE found == Cardinality(FindPackage) >= 2
        <4>1. found \in BOOLEAN
          BY <3>2
        <4>2. optional' = found
          BY <2>4 DEF RunScript
        <4> HIDE DEF found
        <4> QED
          BY <4>1, <4>2
      <3> QED
        BY <1>1, <2>4, <3>3 DEF RunScript
    <2>5. CASE ScriptFails
      BY <1>1, <2>5 DEF ScriptFails, DropAutoSave, Throw
    <2>6. CASE LeaveSource \/ CreateLuaJob \/ StartLuaJob \/ EndLuaJob \/ Act
      BY <1>1, <2>6 DEF LeaveSource, CreateLuaJob, StartLuaJob, EndLuaJob, Act, Throw
    <2> QED
      BY <2>1, <2>2, <2>3, <2>4, <2>5, <2>6 DEF Next, Step
  <1>6. configured' \in Options \cup {""}
    <2>1. CASE LeaveSource
      <3>1. state = "configureProject" => mem \in Wholes
        BY <1>1, <2>1 DEF LeaveSource, StepInv
      <3> QED
        BY <1>1, <2>1, <3>1 DEF LeaveSource, Wholes
    <2>2. CASE ~LeaveSource
      <3>1. configured' = configured
        BY <2>2 DEF Next, Start, Step, Invoke, CheckArgs, LookForMeiqueCache, LookForMeiqueLua, Show,
                    Construct, FindCompilerId, Open, LoadCache, EnterSource, RunScript, ScriptFails,
                    CreateLuaJob, StartLuaJob, EndLuaJob, Act, Return, Flush, SaveCache, CtrlC, Kill, Interrupt,
                    InstallCompiler, EditInput
      <3> QED
        BY <1>1, <3>1
    <2> QED
      BY <2>1, <2>2
  <1>7. input' \in 0 .. MaxEdits /\ output' \in Absent .. input'
    <2>1. CASE RunScript
      <3>1. input' = input /\ output' \in {output, input}
        BY <2>1 DEF RunScript, CopyFile
      <3> QED
        <4>1. input \in Nat /\ input <= MaxEdits /\ output \in Int /\ -1 <= output /\ output <= input
          BY <1>0, <1>10 DEF Absent
        <4> QED
          BY <1>0, <4>1, <3>1 DEF Absent
    <2>2. CASE EditInput
      <3>1. input' = input + 1 /\ input < MaxEdits /\ output' = output
        BY <2>2 DEF EditInput
      <3> QED
        <4>1. input \in Nat /\ input <= MaxEdits /\ output \in Int /\ -1 <= output /\ output <= input
          BY <1>0, <1>10 DEF Absent
        <4> QED
          BY <1>0, <4>1, <3>1 DEF Absent
    <2>3. CASE ~RunScript /\ ~EditInput
      <3>1. input' = input /\ output' = output
        BY <2>3 DEF Next, Start, Step, Invoke, CheckArgs, LookForMeiqueCache, LookForMeiqueLua, Show,
                    Construct, FindCompilerId, Open, LoadCache, EnterSource, ScriptFails, LeaveSource,
                    CreateLuaJob, StartLuaJob, EndLuaJob, Act, Return, Flush, SaveCache, CtrlC, Kill, Interrupt,
                    InstallCompiler
      <3> QED
        BY <1>1, <3>1
    <2> QED
      BY <2>1, <2>2, <2>3
  <1>8. interrupted' \in {"never"} \cup Interrupts
    <2>1. CASE CtrlC \/ Kill
      BY <2>1 DEF CtrlC, Kill, Interrupt
    <2>2. CASE ~CtrlC /\ ~Kill
      <3>1. interrupted' = interrupted
        BY <2>2 DEF Next, Start, Step, Invoke, CheckArgs, LookForMeiqueCache, LookForMeiqueLua, Show,
                    Construct, FindCompilerId, Open, LoadCache, EnterSource, RunScript, ScriptFails,
                    LeaveSource, CreateLuaJob, StartLuaJob, EndLuaJob, Act, Return, Flush, SaveCache, InstallCompiler,
                    EditInput
      <3> QED
        BY <1>1, <3>1
    <2> QED
      BY <2>1, <2>2
  <1>9. cwd' \in Dir /\ (cwd' = "source" <=> step' \in {"meique.lua", "after calls"} \/ luaJob' = "running")
    <2>1. CASE Start \/ CtrlC \/ Kill \/ InstallCompiler \/ EditInput
      BY <1>1, <2>1 DEF Start, Invoke, CtrlC, Kill, InstallCompiler, EditInput, Interrupt, Exit, Dir
    <2>2. CASE Return \/ Flush \/ SaveCache
      BY <1>1, <2>2 DEF Return, Flush, SaveCache, Exit, Dir
    <2>3. CASE \/ CheckArgs \/ LookForMeiqueCache \/ LookForMeiqueLua \/ Show \/ Construct
               \/ FindCompilerId \/ Open \/ LoadCache
      <3>1. luaJob = "none" /\ luaJob' = luaJob
        BY <1>11, <2>3 DEF CheckArgs, LookForMeiqueCache, LookForMeiqueLua, Show, Construct,
                           FindCompilerId, Open, LoadCache, StepInv, Scripts, OnTargets
      <3> QED
        BY <1>1, <2>3, <3>1 DEF CheckArgs, LookForMeiqueCache, LookForMeiqueLua, Show, Construct,
                                FindCompilerId, Open, LoadCache, Throw, Proceed, Dir
    <2>4. CASE EnterSource
      <3>1. mem \in Wholes /\ state \in Scripts
        BY <1>1, <2>4 DEF EnterSource, StepInv
      <3>2. mem.sourceDir \in {"", "source"} /\ luaJob = "none" /\ luaJob' = luaJob
        BY <1>11, <2>4, <3>1 DEF Wholes, EnterSource, Scripts, OnTargets
      <3> QED
        BY <1>1, <2>4, <3>2 DEF EnterSource, Throw, Dir
    <2>5. CASE RunScript \/ ScriptFails \/ LeaveSource
      <3>1. luaJob = "none" /\ luaJob' = luaJob
        BY <1>11, <2>5 DEF RunScript, ScriptFails, LeaveSource, StepInv, Scripts, OnTargets
      <3> QED
        BY <1>1, <2>5, <3>1 DEF RunScript, ScriptFails, LeaveSource, Throw, Proceed, Dir
    <2>6. CASE CreateLuaJob \/ Act
      <3>1. step \notin {"meique.lua", "after calls"} /\ step' \in {"jobs", "call"}
        BY <2>6 DEF CreateLuaJob, Act, Throw, Proceed
      <3>2. luaJob # "running" /\ luaJob' # "running"
        BY <2>6 DEF CreateLuaJob, Act, JobInv, OnTargets
      <3> QED
        BY <1>1, <2>6, <3>1, <3>2 DEF CreateLuaJob, Act, Throw, Dir
    <2>7. CASE StartLuaJob \/ EndLuaJob
      <3>1. step' = step /\ step \notin {"meique.lua", "after calls"}
        BY <2>7 DEF StartLuaJob, EndLuaJob, JobInv, StepInv, Scripts
      <3> QED
        BY <2>7, <3>1 DEF StartLuaJob, EndLuaJob, Dir
    <2> QED
      BY <2>1, <2>2, <2>3, <2>4, <2>5, <2>6, <2>7 DEF Next, Step
  <1>12. saveDir' \in Dir /\ luaJob' \in {"none", "waiting", "running"} /\ abandoned' \in BOOLEAN
    <2>1. CASE Act \/ CreateLuaJob \/ StartLuaJob \/ EndLuaJob
      BY <1>1, <2>1 DEF Act, CreateLuaJob, StartLuaJob, EndLuaJob
    <2>2. CASE Return \/ Flush \/ SaveCache \/ CtrlC \/ Kill
      BY <1>1, <2>2 DEF Return, Flush, SaveCache, CtrlC, Kill, Interrupt, Exit, Dir
    <2>3. CASE ~(Act \/ CreateLuaJob \/ StartLuaJob \/ EndLuaJob)
               /\ ~(Return \/ Flush \/ SaveCache \/ CtrlC \/ Kill)
      <3>1. UNCHANGED << saveDir, luaJob, abandoned >>
        BY <2>3 DEF Next, Start, Step, Invoke, CheckArgs, LookForMeiqueCache, LookForMeiqueLua, Show,
                    Construct, FindCompilerId, Open, LoadCache, EnterSource, RunScript, ScriptFails,
                    LeaveSource, InstallCompiler, EditInput
      <3> QED
        BY <1>1, <3>1
    <2> QED
      BY <2>1, <2>2, <2>3
  <1> QED
    BY <1>2, <1>3, <1>4, <1>5, <1>6, <1>7, <1>8, <1>9, <1>12 DEF TypeOK, AllStates

\* The steps of a process go on in the order of its methods.
LEMMA StepStep ==
    ASSUME TypeOK, StepInv, JobInv, Next
    PROVE  StepInv'
  <1> USE DEF world, threads, process, history, Calls
  <1>1. /\ state \in {"off", "return", "dumpProject", "configureProject", "getBuildAction"}
                        \cup Before \cup OnTargets
        /\ mem \in Wholes \cup {None} /\ mem' \in Wholes \cup {None}
        /\ cache \in [Dir -> Wholes \cup {None, Empty, Torn}] /\ cwd \in Dir
    BY StatesAre, TypeStep DEF TypeOK, AllStates, Before, OnTargets
  <1>2. CASE Start
    BY <1>2 DEF Start, Invoke, StepInv, Before, Scripts, OnTargets
  <1>3. CASE CheckArgs \/ LookForMeiqueCache \/ LookForMeiqueLua \/ Show
    <2>1. /\ step = "call" /\ step' = "call" /\ state \in Before /\ mem = None
          /\ UNCHANGED << mem, autoSave >>
      BY <1>3 DEF CheckArgs, LookForMeiqueCache, LookForMeiqueLua, Show, StepInv, Before, Proceed
    <2>2. state' \in Before \cup Scripts \cup {"return"}
      BY <1>3, AfterIs DEF CheckArgs, LookForMeiqueCache, LookForMeiqueLua, Show, Proceed, Before, Scripts,
                           OnTargets
    <2> QED
      BY <2>1, <2>2 DEF StepInv, Before, Scripts, OnTargets
  <1>4. CASE Construct
    <2>1. mem' # None
      BY <1>4, ScriptStays, CachesDiffer
    <2> QED
      BY <1>4, <2>1 DEF Construct, StepInv, Before, Scripts, OnTargets
  <1>5. CASE FindCompilerId
    <2>1. mem' # None
      BY <1>5, ScriptStays, CachesDiffer
    <2> QED
      BY <1>5, <2>1 DEF FindCompilerId, Throw, StepInv, Before, Scripts, OnTargets
  <1>6. CASE Open
    BY <1>6, CachesDiffer DEF Open, Throw, StepInv, Before, Scripts, OnTargets
  <1>7. CASE LoadCache
    <2>1. mem' # None
      BY <1>7, ScriptStays, CachesDiffer
    <2> QED
      BY <1>7, <2>1 DEF LoadCache, Throw, StepInv, Before, Scripts, OnTargets
  <1>8. CASE EnterSource
    <2>1. mem' # None
      BY <1>8, ScriptStays, CachesDiffer
    <2> QED
      BY <1>8, <2>1 DEF EnterSource, Throw, StepInv, Before, Scripts, OnTargets
  <1>9. CASE RunScript
    <2>1. mem' # None
      BY <1>9, ScriptStays, CachesDiffer
    <2> QED
      BY <1>9, <2>1 DEF RunScript, StepInv, Before, Scripts, OnTargets
  <1>10. CASE ScriptFails
    BY <1>10 DEF ScriptFails, Throw, DropAutoSave, StepInv, Before, Scripts, OnTargets
  <1>11. CASE LeaveSource
    <2>1. step \in {"call", "after calls"} /\ state \in Scripts /\ mem # None
      BY <1>11 DEF LeaveSource, StepInv, Scripts
    <2>2. \E e \in {"0", "Ok", args.action} : state' = After(state, e) /\ step' = "call"
      BY <1>11 DEF LeaveSource, Proceed
    <2>3. state' \in OnTargets \cup {"getBuildAction", "return"}
      BY <2>1, <2>2, AfterIs DEF Scripts
    <2>4. UNCHANGED << mem, autoSave >>
      BY <1>11 DEF LeaveSource
    <2> QED
      BY <2>1, <2>2, <2>3, <2>4 DEF StepInv, Before, Scripts, OnTargets
  <1>12. CASE Act
    <2>1. mem # None /\ state \in OnTargets /\ UNCHANGED << mem, autoSave >>
      BY <1>12 DEF Act, Throw, StepInv
    <2>2. state' = "return" /\ step' = "call"
      BY <1>12, <2>1, AfterIs DEF Act, Throw, Proceed
    <2> QED
      BY <2>1, <2>2 DEF StepInv, Before, Scripts, OnTargets
  <1>15. CASE CreateLuaJob \/ StartLuaJob \/ EndLuaJob
    <2>1. /\ UNCHANGED << state, mem, autoSave >>
          /\ step' = step \/ (step' = "jobs" /\ state \in OnTargets)
      BY <1>15 DEF CreateLuaJob, StartLuaJob, EndLuaJob, OnTargets
    <2> QED
      BY <2>1 DEF StepInv, Before, Scripts, OnTargets
  <1>13. CASE Return \/ SaveCache \/ CtrlC \/ Kill
    BY <1>13 DEF Return, SaveCache, CtrlC, Kill, Interrupt, Exit, StepInv, Before, Scripts, OnTargets
  <1>14. CASE Flush \/ InstallCompiler \/ EditInput
    BY <1>14 DEF Flush, InstallCompiler, EditInput, StepInv, Before, Scripts, OnTargets
  <1> QED
    BY <1>2, <1>3, <1>4, <1>5, <1>6, <1>7, <1>8, <1>9, <1>10, <1>11, <1>12, <1>13, <1>14,
       <1>15
    DEF Next, Step

\* A LuaJob outlives the jobs it belongs to only if an Error left it behind, and only then is
\* there another directory to save in.
LEMMA JobStep ==
    ASSUME TypeOK, StepInv, JobInv, Next
    PROVE  JobInv'
  <1> USE DEF world, threads, process, history, Calls
  <1>1. cwd \in Dir /\ (cwd = "source" <=> step \in {"meique.lua", "after calls"} \/ luaJob = "running")
    BY DEF TypeOK
  <1>2. CASE Act
    <2>1. luaJob' = luaJob /\ saveDir' = saveDir /\ state' = "return" /\ step # "saveCache"
      BY <1>2, AfterIs DEF Act, Throw, Proceed
    <2>2. luaJob # "none" => abandoned'
      BY <1>2 DEF Act, JobInv, TypeOK
    <2> QED
      BY <2>1, <2>2 DEF JobInv
  <1>3. CASE CreateLuaJob \/ StartLuaJob \/ EndLuaJob
    BY <1>3 DEF CreateLuaJob, StartLuaJob, EndLuaJob, JobInv, OnTargets
  <1>4. CASE Return
    BY <1>1, <1>4 DEF Return, Exit, JobInv, Dir
  <1>5. CASE Flush \/ InstallCompiler \/ EditInput
    BY <1>5 DEF Flush, InstallCompiler, EditInput, JobInv
  <1>6. CASE SaveCache \/ CtrlC \/ Kill
    BY <1>6 DEF SaveCache, CtrlC, Kill, Interrupt, Exit, JobInv
  <1>7. CASE Start \/ CheckArgs \/ LookForMeiqueCache \/ LookForMeiqueLua \/ Show
    <2>1. luaJob = "none" /\ saveDir # "source"
      BY <1>7 DEF Start, Invoke, CheckArgs, LookForMeiqueCache, LookForMeiqueLua, Show, JobInv, StepInv, Before
    <2> QED
      BY <1>7, <2>1 DEF Start, Invoke, CheckArgs, LookForMeiqueCache, LookForMeiqueLua, Show, JobInv
  <1>8. CASE \/ Construct \/ FindCompilerId \/ Open \/ LoadCache \/ EnterSource \/ RunScript
             \/ ScriptFails \/ LeaveSource
    <2>1. state \in Scripts /\ step \notin {"jobs", "saveCache"}
      BY <1>8 DEF Construct, FindCompilerId, Open, LoadCache, EnterSource, RunScript, ScriptFails,
                  LeaveSource, StepInv, Scripts
    <2>2. luaJob = "none" /\ saveDir # "source"
      BY <2>1 DEF JobInv, Scripts
    <2>3. luaJob' = luaJob /\ saveDir' = saveDir
      BY <1>8 DEF Construct, FindCompilerId, Open, LoadCache, EnterSource, RunScript, ScriptFails,
                  LeaveSource
    <2> QED
      BY <2>2, <2>3 DEF JobInv
  <1> QED
    BY <1>2, <1>3, <1>4, <1>5, <1>6, <1>7, <1>8 DEF Next, Step

\* What is configured comes from a compiler that was found and from the command line.
LEMMA ConfiguringStep ==
    ASSUME TypeOK, StepInv, JobInv, ConfiguringInv, Next
    PROVE  ConfiguringInv'
  <1> USE DEF world, threads, process, history, Calls
  <1>1. /\ cache \in [Dir -> Wholes \cup {None, Empty, Torn}] /\ cwd \in Dir
        /\ mem \in Wholes \cup {None} /\ compiler \in BOOLEAN
        /\ cwd = "source" <=> step \in {"meique.lua", "after calls"} \/ luaJob = "running"
        /\ step # "call" => mem \in Wholes
        /\ args.options \in Options
    BY DEF TypeOK, StepInv, Args
  <1> DEFINE Rest == /\ configured # "" => compiler
                     /\ state = "configureProject" /\ step # "call" =>
                           /\ mem.sourceDir = "source"
                           /\ step = "findCompilerId" => mem.compiler = "" /\ mem.options = ""
                           /\ step # "findCompilerId" => compiler /\ mem.compiler = "Gcc"
                           /\ step \in {"meique.lua", "after calls"} => mem.options \in Options
  <1>2. (state \in {"lookForMeiqueLua", "configureProject"} => cache["build"] = None)'
    <2>1. CASE LookForMeiqueCache
      <3>1. cache' = cache /\ cwd = "build"
        BY <1>1, <2>1 DEF LookForMeiqueCache, JobInv, Dir
      <3>2. state' = After("lookForMeiqueCache", IF cache["build"] # None THEN "Found" ELSE "NotFound")
        BY <2>1, <3>1 DEF LookForMeiqueCache, Proceed
      <3>3. state' # "configureProject" /\ (state' = "lookForMeiqueLua" => cache["build"] = None)
        BY <3>2, AfterIs
      <3> QED
        BY <3>1, <3>3
    <2>2. CASE LookForMeiqueLua
      <3>1. cache' = cache /\ cache["build"] = None
        BY <2>2 DEF LookForMeiqueLua, ConfiguringInv
      <3> QED
        BY <3>1
    <2>3. CASE CheckArgs \/ Show \/ LeaveSource \/ Act
      <3>1. state' \notin {"lookForMeiqueLua", "configureProject"}
        <4>1. \/ state' = "return"
              \/ \E e \in {"0", "Ok", args.mode, args.action} :
                    /\ state \in {"checkArgs", "showHelp", "showVersion"} \cup Scripts \cup OnTargets
                    /\ state' = After(state, e)
          BY <2>3 DEF CheckArgs, Show, LeaveSource, Act, Throw, Proceed, StepInv, Scripts
        <4> QED
          BY <4>1, AfterIs DEF Scripts, OnTargets
      <3> QED
        BY <3>1
    <2>4. CASE \/ Construct \/ FindCompilerId \/ Open \/ LoadCache \/ EnterSource \/ RunScript \/ ScriptFails
               \/ CreateLuaJob \/ StartLuaJob \/ EndLuaJob \/ InstallCompiler \/ EditInput
      <3>1. cache' = cache /\ (state' = state \/ state' = "return")
        BY <2>4 DEF Construct, FindCompilerId, Open, LoadCache, EnterSource, RunScript, ScriptFails,
                    CreateLuaJob, StartLuaJob, EndLuaJob, InstallCompiler, EditInput, Throw
      <3> QED
        BY <3>1 DEF ConfiguringInv
    <2>5. CASE Start \/ Return \/ Flush \/ SaveCache \/ CtrlC \/ Kill
      <3>1. state' \in {"checkArgs", "return", "off"}
        BY <2>5 DEF Start, Invoke, Return, Flush, SaveCache, CtrlC, Kill, Interrupt, Exit, StepInv
      <3> QED
        BY <3>1
    <2> QED
      BY <2>1, <2>2, <2>3, <2>4, <2>5 DEF Next, Step
  <1>3. Rest'
    <2>1. CASE Construct
      <3>1. mem' = [Blank EXCEPT !.sourceDir = "source"] /\ step' = "findCompilerId"
            /\ UNCHANGED << compiler, configured >>
        BY <2>1 DEF Construct
      <3>2. mem'.sourceDir = "source" /\ mem'.compiler = "" /\ mem'.options = ""
        BY <3>1 DEF Blank
      <3> QED
        BY <3>1, <3>2 DEF ConfiguringInv
    <2>2. CASE FindCompilerId
      <3>1. CASE compiler
        <4>1. /\ mem' = [mem EXCEPT !.compiler = "Gcc"] /\ step' = "exec" /\ mem \in Wholes
              /\ step = "findCompilerId"
              /\ UNCHANGED << compiler, configured, state >>
          BY <1>1, <2>2, <3>1 DEF FindCompilerId
        <4>2. mem'.sourceDir = mem.sourceDir /\ mem'.compiler = "Gcc"
          BY <4>1 DEF Wholes
        <4> QED
          <5>1. step' = "exec" /\ compiler' /\ state' = state /\ configured' = configured
            BY <3>1, <4>1
          <5> QED
            BY <4>1, <4>2, <5>1 DEF ConfiguringInv
      <3>2. CASE ~compiler
        BY <2>2, <3>2 DEF FindCompilerId, Throw, ConfiguringInv
      <3> QED
        BY <3>1, <3>2
    <2>3. CASE Open \/ LoadCache
      BY <2>3 DEF Open, LoadCache, Throw, ConfiguringInv, StepInv, Scripts
    <2>4. CASE EnterSource
      <3>1. CASE state' = "return"
        BY <2>4, <3>1 DEF EnterSource, ConfiguringInv
      <3>2. CASE state' # "return"
        <4>1. /\ mem' = [mem EXCEPT !.options = PopulateOptions] /\ step = "exec" /\ mem \in Wholes
              /\ step' = "meique.lua" /\ UNCHANGED << compiler, configured, state, args >>
          BY <1>1, <2>4, <3>2 DEF EnterSource, Throw
        <4>2. mem'.sourceDir = mem.sourceDir /\ mem'.compiler = mem.compiler
              /\ mem'.options = PopulateOptions
          BY <4>1 DEF Wholes
        <4> QED
          BY <1>1, <4>1, <4>2 DEF ConfiguringInv, PopulateOptions
      <3> QED
        BY <3>1, <3>2
    <2>5. CASE RunScript
      <3>1. /\ mem' = [mem EXCEPT !.package = FindPackage] /\ step = "meique.lua" /\ mem \in Wholes
            /\ step' = "after calls" /\ UNCHANGED << compiler, configured, state >>
        BY <1>1, <2>5 DEF RunScript
      <3>2. mem'.sourceDir = mem.sourceDir /\ mem'.compiler = mem.compiler
            /\ mem'.options = mem.options
        BY <3>1 DEF Wholes
      <3> QED
        BY <3>1, <3>2 DEF ConfiguringInv
    <2>6. CASE LeaveSource
      <3>1. /\ UNCHANGED << compiler, mem >> /\ step' = "call"
            /\ configured' = IF state = "configureProject" THEN mem.options ELSE configured
            /\ state = "configureProject" => step = "after calls"
        BY <2>6 DEF LeaveSource, Proceed
      <3> QED
        BY <3>1 DEF ConfiguringInv
    <2>7. CASE \/ Start \/ CheckArgs \/ LookForMeiqueCache \/ LookForMeiqueLua \/ Show \/ ScriptFails
               \/ CreateLuaJob \/ StartLuaJob \/ EndLuaJob \/ Act \/ Return \/ Flush \/ SaveCache \/ CtrlC \/ Kill \/ EditInput
      <3>1. UNCHANGED << compiler, configured >>
        BY <2>7 DEF Start, Invoke, CheckArgs, LookForMeiqueCache, LookForMeiqueLua, Show, ScriptFails,
                    CreateLuaJob, StartLuaJob, EndLuaJob, Act, Return, Flush, SaveCache, CtrlC, Kill, Interrupt, EditInput
      <3>2. \/ step' = "call" \/ state' = "return" \/ state' \in OnTargets
            \/ UNCHANGED << state, step, mem >>
        BY <2>7 DEF Start, Invoke, CheckArgs, LookForMeiqueCache, LookForMeiqueLua, Show, ScriptFails, Throw,
                    CreateLuaJob, StartLuaJob, EndLuaJob, Act, Return, Flush, SaveCache, CtrlC, Kill, Interrupt, Exit,
                    EditInput, Proceed, StepInv, OnTargets
      <3> QED
        BY <3>1, <3>2 DEF ConfiguringInv, OnTargets
    <2>8. CASE InstallCompiler
      BY <2>8 DEF InstallCompiler, ConfiguringInv
    <2> QED
      BY <2>1, <2>2, <2>3, <2>4, <2>5, <2>6, <2>7, <2>8 DEF Next, Step
  <1> QED
    BY <1>2, <1>3 DEF ConfiguringInv

\* Only configurations come to use.
LEMMA UseStep ==
    ASSUME TypeOK, StepInv, JobInv, ConfiguringInv, UseInv, Next
    PROVE  UseInv'
  <1> USE DEF world, threads, process, history, Calls
  <1> SUFFICES ASSUME interrupted' # "CTRL+C"
               PROVE  (/\ cache["source"] # None => abandoned
                       /\ IsUsable(cache["build"])
                       /\ state \in OnTargets => IsConfiguration(mem)
                       /\ state = "getBuildAction" /\ step = "call" /\ mem # None =>
                              IsConfiguration(mem) /\ configured # ""
                       /\ state \in {"getBuildAction", "dumpProject"} =>
                              /\ step = "exec" => IsUsable(mem)
                              /\ step \in {"meique.lua", "after calls"} => IsConfiguration(mem)
                       /\ state = "return" /\ mem # None /\ autoSave => IsUsable(mem))'
    BY DEF UseInv
  <1>1. /\ cache \in [Dir -> Wholes \cup {None, Empty, Torn}] /\ cwd \in Dir
        /\ mem \in Wholes \cup {None} /\ compiler \in BOOLEAN
        /\ cwd = "source" <=> step \in {"meique.lua", "after calls"} \/ luaJob = "running"
        /\ step # "call" => mem \in Wholes
        /\ args.options \in Options
    BY DEF TypeOK, StepInv, Args
  <1>2. interrupted # "CTRL+C"
    BY DEF Next, Start, Step, Invoke, CheckArgs, LookForMeiqueCache, LookForMeiqueLua, Show, Construct,
           FindCompilerId, Open, LoadCache, EnterSource, RunScript, ScriptFails, LeaveSource, CreateLuaJob, StartLuaJob,
           EndLuaJob, Act, Return, Flush, SaveCache, CtrlC, Kill, Interrupt, InstallCompiler, EditInput
  <1>3. /\ cache["source"] # None => abandoned
        /\ IsUsable(cache["build"])
        /\ state \in OnTargets => IsConfiguration(mem)
        /\ state = "getBuildAction" /\ step = "call" /\ mem # None =>
               IsConfiguration(mem) /\ configured # ""
        /\ state \in {"getBuildAction", "dumpProject"} =>
               /\ step = "exec" => IsUsable(mem)
               /\ step \in {"meique.lua", "after calls"} => IsConfiguration(mem)
        /\ state = "return" /\ mem # None /\ autoSave => IsUsable(mem)
    BY <1>2 DEF UseInv
  <1>0. abandoned => abandoned'
    BY DEF Next, Start, Step, Invoke, CheckArgs, LookForMeiqueCache, LookForMeiqueLua, Show, Construct,
           FindCompilerId, Open, LoadCache, EnterSource, RunScript, ScriptFails, LeaveSource, CreateLuaJob,
           StartLuaJob, EndLuaJob, Act, Return, Flush, SaveCache, CtrlC, Kill, Interrupt, InstallCompiler,
           EditInput
  <1>4. CASE Start \/ InstallCompiler \/ EditInput \/ Kill
    BY <1>0, <1>3, <1>4 DEF Start, Invoke, InstallCompiler, EditInput, Kill, Interrupt, Exit,
                      IsUsable, IsConfiguration, OnTargets
  <1>5. CASE CheckArgs \/ LookForMeiqueCache \/ LookForMeiqueLua \/ Show
    <2>1. /\ UNCHANGED << cache, mem, configured >> /\ mem = None /\ step' = "call"
      BY <1>5 DEF CheckArgs, LookForMeiqueCache, LookForMeiqueLua, Show, StepInv, Before, Proceed
    <2>2. state' \notin OnTargets
      BY <1>5, AfterIs DEF CheckArgs, LookForMeiqueCache, LookForMeiqueLua, Show, Proceed, OnTargets
    <2> QED
      BY <1>0, <1>3, <2>1, <2>2 DEF IsUsable, IsConfiguration
  <1>6. CASE Construct
    BY <1>0, <1>3, <1>6 DEF Construct, IsUsable, IsConfiguration, OnTargets
  <1>7. CASE FindCompilerId
    <2>1. UNCHANGED << cache, configured >>
      BY <1>7 DEF FindCompilerId
    <2>2. state = "configureProject" /\ (state' = state \/ state' = "return")
      BY <1>7 DEF FindCompilerId, StepInv, Throw
    <2>3. CASE state' = "return"
      <3>1. ~compiler /\ mem' = mem
        BY <1>7, <2>2, <2>3 DEF FindCompilerId, Throw
      <3>2. configured = "" /\ mem.sourceDir = "source" /\ mem.compiler = "" /\ mem.options = ""
        BY <1>7, <2>2, <3>1 DEF ConfiguringInv, FindCompilerId
      <3>3. mem.kind = "whole"
        BY <1>1, <1>7, CachesDiffer DEF FindCompilerId
      <3> QED
        BY <1>0, <1>3, <2>1, <2>3, <3>1, <3>2, <3>3 DEF IsUsable, IsConfiguration, OnTargets
    <2>4. CASE state' = "configureProject"
      BY <1>0, <1>3, <2>1, <2>4 DEF IsUsable, IsConfiguration, OnTargets
    <2> QED
      BY <2>2, <2>3, <2>4
  <1>8. CASE Open
    <2>1. UNCHANGED << cache, configured >> /\ mem = None
          /\ \/ step' = "loadCache" /\ state' = state /\ state \in {"getBuildAction", "dumpProject"}
             \/ state' = "return" /\ mem' = mem
      BY <1>8 DEF Open, Throw
    <2> QED
      BY <1>0, <1>3, <2>1 DEF IsUsable, IsConfiguration, OnTargets
  <1>9. CASE LoadCache
    <2>1. /\ step = "loadCache" /\ cwd = "build" /\ mem = Blank
          /\ state \in {"getBuildAction", "dumpProject"}
          /\ UNCHANGED << cache, configured >>
      BY <1>1, <1>9 DEF LoadCache, StepInv, JobInv, Scripts, Dir
    <2>2. IsUsable(Blank)
      BY CachesDiffer DEF IsUsable
    <2>3. CASE cache["build"].kind = "whole" /\ mem' = Reloaded(cache["build"])
      <3>1. cache["build"] \in Wholes
        BY <1>1, <2>3, CachesDiffer DEF Dir
      <3>2. /\ mem'.sourceDir = cache["build"].sourceDir /\ mem'.options = cache["build"].options
            /\ mem'.compiler = cache["build"].compiler /\ mem'.kind = "whole"
        BY <2>3, <3>1, MemIsWhole, CachesDiffer
      <3>3. state' = state /\ step' = "exec"
        BY <1>9, <2>1, <3>1, CachesDiffer DEF LoadCache, Throw
      <3> QED
        BY <1>0, <1>3, <2>1, <2>3, <3>2, <3>3 DEF IsUsable, IsConfiguration, OnTargets
    <2>4. CASE mem' = mem /\ (state' = "return" \/ (state' = state /\ step' = "exec"))
      BY <1>0, <1>3, <2>1, <2>2, <2>4 DEF IsUsable, IsConfiguration, OnTargets
    <2> QED
      BY <1>9, <2>1, <2>3, <2>4 DEF LoadCache, Throw
  <1>10. CASE EnterSource
    <2>1. /\ step = "exec" /\ UNCHANGED << cache, configured >> /\ mem \in Wholes /\ state \in Scripts
      BY <1>1, <1>10 DEF EnterSource, StepInv
    <2>2. CASE mem.sourceDir = "" /\ mem' = mem /\ state' = "return"
      BY <1>0, <1>3, <2>1, <2>2 DEF IsUsable, IsConfiguration, OnTargets
    <2>3. CASE /\ mem.sourceDir # "" /\ state' = state /\ step' = "meique.lua"
               /\ mem' = [mem EXCEPT !.options = PopulateOptions]
      <3>1. CASE state = "configureProject"
        BY <1>0, <1>3, <2>1, <2>3, <3>1 DEF IsUsable, IsConfiguration, OnTargets
      <3>2. CASE state # "configureProject"
        <4>1. mem'.sourceDir = mem.sourceDir /\ mem'.options = mem.options
              /\ mem'.compiler = mem.compiler /\ mem'.kind = "whole" /\ mem.kind = "whole"
          BY <2>1, <2>3, <3>2 DEF PopulateOptions, Wholes
        <4>2. IsConfiguration(mem)
          BY <1>3, <2>1, <2>3, <3>2, <4>1 DEF IsUsable, Scripts
        <4> QED
          BY <1>0, <1>3, <2>1, <2>3, <4>1, <4>2 DEF IsUsable, IsConfiguration, OnTargets, Scripts
      <3> QED
        BY <3>1, <3>2
    <2> QED
      BY <1>10, <2>2, <2>3 DEF EnterSource, Throw
  <1>11. CASE RunScript
    <2>1. /\ step = "meique.lua" /\ step' = "after calls" /\ mem' = [mem EXCEPT !.package = FindPackage]
          /\ UNCHANGED << cache, state, configured >> /\ mem \in Wholes /\ state \in Scripts
      BY <1>1, <1>11 DEF RunScript, StepInv
    <2>2. mem'.sourceDir = mem.sourceDir /\ mem'.options = mem.options
          /\ mem'.compiler = mem.compiler /\ mem'.kind = mem.kind
      BY <2>1 DEF Wholes
    <2> QED
      BY <1>0, <1>3, <2>1, <2>2 DEF IsUsable, IsConfiguration, OnTargets, Scripts
  <1>12. CASE ScriptFails
    <2>1. /\ step \in {"meique.lua", "after calls"} /\ state' = "return" /\ state \in Scripts
          /\ UNCHANGED << cache, mem, configured >>
          /\ autoSave' = IF state = "configureProject" THEN FALSE ELSE autoSave
      BY <1>12 DEF ScriptFails, Throw, DropAutoSave, StepInv
    <2> QED
      BY <1>0, <1>3, <2>1 DEF IsUsable, IsConfiguration, OnTargets, Scripts
  <1>13. CASE LeaveSource
    <2>1. UNCHANGED << cache, mem >> /\ step' = "call"
      BY <1>13 DEF LeaveSource, Proceed
    <2>2. CASE state = "configureProject"
      <3>1. configured' = mem.options /\ step = "after calls" /\ state' \in {"getBuildAction", "return"}
        BY <1>13, <2>2, AfterIs DEF LeaveSource, Proceed
      <3>2. /\ mem.sourceDir = "source" /\ mem.compiler = "Gcc" /\ mem.options # ""
            /\ cache["build"] = None /\ mem.kind = "whole"
        BY <1>1, <2>2, <3>1, SessionAssumption, CachesDiffer DEF ConfiguringInv
      <3> QED
        BY <1>0, <1>3, <2>1, <3>1, <3>2, CachesDiffer DEF IsUsable, IsConfiguration, OnTargets
    <2>3. CASE state # "configureProject"
      <3>1. /\ configured' = configured /\ IsConfiguration(mem)
            /\ state' \in OnTargets \cup {"return"}
        BY <1>3, <1>13, <2>3, AfterIs DEF LeaveSource, Proceed, StepInv, Scripts
      <3> QED
        BY <1>0, <1>3, <2>1, <3>1 DEF IsUsable, IsConfiguration, OnTargets
    <2> QED
      BY <2>2, <2>3
  <1>14. CASE Act
    <2>1. state \in OnTargets /\ UNCHANGED << cache, mem, configured >>
      BY <1>14 DEF Act, Throw
    <2>2. state' = "return"
      BY <1>14, <2>1, AfterIs DEF Act, Throw, Proceed
    <2> QED
      BY <1>0, <1>3, <2>1, <2>2 DEF IsUsable, IsConfiguration, OnTargets
  <1>18. CASE CreateLuaJob \/ StartLuaJob \/ EndLuaJob
    <2>1. UNCHANGED << cache, state, mem, autoSave, configured, abandoned >>
      BY <1>18 DEF CreateLuaJob, StartLuaJob, EndLuaJob
    <2>2. state \in OnTargets \cup {"return"}
      BY <1>18 DEF CreateLuaJob, StartLuaJob, EndLuaJob, JobInv, StepInv, OnTargets
    <2> QED
      BY <1>3, <2>1, <2>2 DEF IsUsable, IsConfiguration, OnTargets
  <1>15. CASE Return \/ Flush \/ SaveCache
    <2>1. /\ state = "return" /\ state' \in {"return", "off"}
          /\ configured' = configured /\ abandoned' = abandoned
          /\ mem' = mem \/ mem' = None
          /\ step = "saveCache" => mem # None /\ autoSave
      BY <1>15 DEF Return, Flush, SaveCache, Exit, StepInv
    <2>2. \E d \in Dir, c \in {Empty, Torn, mem} :
             /\ cache' = cache \/ cache' = [cache EXCEPT ![d] = c]
             /\ c = mem => IsUsable(mem)
             /\ d = "source" => abandoned
      <3>1. cwd \in Dir /\ saveDir \in Dir
        BY DEF TypeOK
      <3>2. CASE Return
        <4>1. (cwd = "source" => abandoned) /\ Empty # mem
          BY <1>1, <3>2, CachesDiffer DEF Return, JobInv
        <4>2. cache' = cache \/ cache' = [cache EXCEPT ![cwd] = Empty]
          BY <3>2 DEF Return
        <4> QED
          BY <3>1, <4>1, <4>2
      <3>3. CASE Flush \/ SaveCache
        <4>1. (saveDir = "source" => abandoned) /\ Torn # mem /\ IsUsable(mem)
          BY <1>1, <1>3, <2>1, <3>3, CachesDiffer DEF Flush, SaveCache, JobInv
        <4>2. \/ cache' = [cache EXCEPT ![saveDir] = Torn]
              \/ cache' = [cache EXCEPT ![saveDir] = mem]
          BY <3>3 DEF Flush, SaveCache
        <4> QED
          BY <3>1, <4>1, <4>2
      <3> QED
        BY <1>15, <3>2, <3>3
    <2>3. (cache'["source"] # None => abandoned') /\ IsUsable(cache'["build"])
      <3>1. cache'["source"] = cache["source"] \/ abandoned
        BY <1>1, <2>2 DEF Dir
      <3>2. cache'["build"] \in {cache["build"], Empty, Torn} \/ (cache'["build"] = mem /\ IsUsable(mem))
        BY <1>1, <2>2 DEF Dir
      <3>3. IsUsable(Empty) /\ IsUsable(Torn)
        BY CachesDiffer DEF IsUsable
      <3>4. CASE cache'["build"] = cache["build"] \/ cache'["build"] = mem
        BY <1>0, <1>3, <3>1, <3>2, <3>3, <3>4
      <3>5. CASE cache'["build"] \in {Empty, Torn}
        BY <1>0, <1>3, <3>1, <3>3, <3>5
      <3> QED
        BY <3>2, <3>4, <3>5
    <2>4. autoSave' = autoSave \/ state' = "off"
      BY <1>15 DEF Return, Flush, SaveCache, Exit
    <2>5. (IsUsable(cache["build"]))'
      BY <2>1, <2>3 DEF IsUsable, IsConfiguration
    <2>6. (state = "return" /\ mem # None /\ autoSave => IsUsable(mem))'
      <3>1. CASE state' = "return"
        <4>1. mem' = mem \/ mem' = None
          BY <2>1
        <4>2. autoSave' = autoSave
          BY <2>4, <3>1
        <4> QED
          BY <1>0, <1>3, <2>1, <4>1, <4>2 DEF IsUsable, IsConfiguration
      <3>2. CASE state' # "return"
        BY <3>2
      <3> QED
        BY <3>1, <3>2
    <2> QED
      BY <2>1, <2>3, <2>5, <2>6 DEF OnTargets
  <1>16. CASE CtrlC
    BY <1>16 DEF CtrlC, Interrupt
  <1> QED
    BY <1>4, <1>5, <1>6, <1>7, <1>8, <1>9, <1>10, <1>11, <1>12, <1>13, <1>14, <1>15, <1>16,
       <1>18
    DEF Next, Step

\* A cache is written from its first to its last byte while nothing else happens.
LEMMA WholeStep ==
    ASSUME TypeOK, StepInv, JobInv, WholeInv, Next
    PROVE  WholeInv'
  <1> USE DEF world, threads, process, history, Calls
  <1> DEFINE Undisturbed == interrupted = "never" \/ (interrupted = "CTRL+C" /\ ~abandoned)
  <1> SUFFICES ASSUME Undisturbed', NEW d \in Dir, cache'[d] \in {Empty, Torn}
               PROVE  step' = "saveCache" /\ d = saveDir'
    BY DEF WholeInv
  <1>1. /\ cache \in [Dir -> Wholes \cup {None, Empty, Torn}] /\ cwd \in Dir /\ saveDir \in Dir
        /\ mem \in Wholes \cup {None} /\ mem \notin {Empty, Torn}
        /\ cwd = "source" <=> step \in {"meique.lua", "after calls"} \/ luaJob = "running"
    BY CachesDiffer DEF TypeOK
  <1>2. Undisturbed /\ (CtrlC => ~abandoned)
    <2>1. abandoned => abandoned'
      BY DEF Next, Start, Step, Invoke, CheckArgs, LookForMeiqueCache, LookForMeiqueLua, Show, Construct,
             FindCompilerId, Open, LoadCache, EnterSource, RunScript, ScriptFails, LeaveSource,
             CreateLuaJob, StartLuaJob, EndLuaJob, Act, Return, Flush, SaveCache, CtrlC, Kill, Interrupt,
             InstallCompiler, EditInput
    <2>2. CASE CtrlC
      <3>1. interrupted' = "CTRL+C" /\ interrupted \in {"never", "CTRL+C"}
        BY <2>2 DEF CtrlC, Interrupt
      <3> QED
        BY <2>1, <3>1
    <2>3. CASE ~CtrlC
      <3>1. ~Kill
        BY DEF Kill, Interrupt
      <3>2. interrupted' = interrupted
        BY <2>3, <3>1 DEF Next, Start, Step, Invoke, CheckArgs, LookForMeiqueCache, LookForMeiqueLua,
             Show, Construct, FindCompilerId, Open, LoadCache, EnterSource, RunScript, ScriptFails,
             LeaveSource, CreateLuaJob, StartLuaJob, EndLuaJob, Act, Return, Flush, SaveCache,
             InstallCompiler, EditInput
      <3> QED
        BY <2>1, <2>3, <3>2
    <2> QED
      BY <2>2, <2>3
  <1>3. cache[d] \in {Empty, Torn} => step = "saveCache" /\ d = saveDir
    BY <1>2 DEF WholeInv
  <1>4. CASE Return
    <2>1. CASE cache' = cache
      <3>1. step = "call"
        BY <1>4 DEF Return
      <3> QED
        BY <1>3, <2>1, <3>1
    <2>2. CASE cache' = [cache EXCEPT ![cwd] = Empty] /\ step' = "saveCache" /\ saveDir' = cwd
      <3>1. step = "call"
        BY <1>4 DEF Return
      <3> QED
        BY <1>1, <1>3, <2>2, <3>1
    <2> QED
      BY <1>4, <2>1, <2>2 DEF Return
  <1>5. CASE Flush
    <2>1. step = "saveCache" /\ step' = "saveCache" /\ saveDir' = saveDir
          /\ cache' = [cache EXCEPT ![saveDir] = Torn]
      BY <1>5 DEF Flush
    <2> QED
      BY <1>1, <1>3, <2>1
  <1>6. CASE SaveCache
    <2>1. cache' = [cache EXCEPT ![saveDir] = mem]
      BY <1>6 DEF SaveCache
    <2> QED
      BY <1>1, <1>3, <2>1
  <1>7. CASE CtrlC
    <2>1. CASE cache' = [cache EXCEPT ![cwd] = mem]
      <3>1. step = "saveCache" => cwd = "build" /\ saveDir = "build"
        BY <1>1, <1>2, <1>7 DEF StepInv, JobInv, Dir
      <3> QED
        BY <1>1, <1>3, <2>1, <3>1
    <2>2. CASE cache' = cache /\ (mem = None \/ ~autoSave)
      BY <1>3, <2>2 DEF StepInv
    <2> QED
      BY <1>7, <2>1, <2>2 DEF CtrlC, SaveAtCtrlC
  <1>8. CASE ~Return /\ ~Flush /\ ~SaveCache /\ ~CtrlC
    <2>1. cache' = cache
      BY <1>8 DEF Next, Start, Step, Invoke, CheckArgs, LookForMeiqueCache, LookForMeiqueLua, Show,
                  Construct, FindCompilerId, Open, LoadCache, EnterSource, RunScript, ScriptFails,
                  LeaveSource, CreateLuaJob, StartLuaJob, EndLuaJob, Act, Kill, InstallCompiler, EditInput
    <2>2. ~Kill
      BY DEF Kill, Interrupt
    <2>3. step = "saveCache" => state = "return" /\ step' = step /\ saveDir' = saveDir
      BY <1>8, <2>2 DEF Next, Start, Step, Invoke, CheckArgs, LookForMeiqueCache, LookForMeiqueLua, Show,
                  Construct, FindCompilerId, Open, LoadCache, EnterSource, RunScript, ScriptFails,
                  LeaveSource, CreateLuaJob, StartLuaJob, EndLuaJob, Act, InstallCompiler, EditInput, StepInv
    <2> QED
      BY <1>3, <2>1, <2>3
  <1> QED
    BY <1>4, <1>5, <1>6, <1>7, <1>8

\* The configuration gets to the cache and stays there.
LEMMA KeptStep ==
    ASSUME TypeOK, StepInv, JobInv, ConfiguringInv, UseInv, WholeInv, KeptInv, Next
    PROVE  KeptInv'
  <1> USE DEF world, threads, process, history, Calls
  <1> SUFFICES ASSUME interrupted' = "never"
               PROVE  (/\ cache["build"] # None => IsConfiguration(cache["build"]) \/ (step = "saveCache" /\ saveDir = "build")
                       /\ state = "return" /\ mem # None /\ autoSave => IsConfiguration(mem)
                       /\ state \in {"getBuildAction", "dumpProject"} /\ step = "exec" => IsConfiguration(mem)
                       /\ configured # "" /\ cache["build"] = None =>
                              abandoned \/ (mem # None /\ autoSave /\ state \in OnTargets \cup {"getBuildAction", "return"}))'
    BY DEF KeptInv
  <1>1. /\ cache \in [Dir -> Wholes \cup {None, Empty, Torn}] /\ cwd \in Dir
        /\ mem \in Wholes \cup {None} /\ compiler \in BOOLEAN
        /\ cwd = "source" <=> step \in {"meique.lua", "after calls"} \/ luaJob = "running"
        /\ step # "call" => mem \in Wholes
    BY DEF TypeOK, StepInv
  <1>2. interrupted = "never" /\ ~CtrlC /\ ~Kill
    BY DEF Next, Start, Step, Invoke, CheckArgs, LookForMeiqueCache, LookForMeiqueLua, Show, Construct,
           FindCompilerId, Open, LoadCache, EnterSource, RunScript, ScriptFails, LeaveSource, CreateLuaJob, StartLuaJob,
           EndLuaJob, Act, Return, Flush, SaveCache, CtrlC, Kill, Interrupt, InstallCompiler, EditInput
  <1>3. /\ cache["build"] # None => IsConfiguration(cache["build"]) \/ (step = "saveCache" /\ saveDir = "build")
        /\ state = "return" /\ mem # None /\ autoSave => IsConfiguration(mem)
        /\ state \in {"getBuildAction", "dumpProject"} /\ step = "exec" => IsConfiguration(mem)
        /\ configured # "" /\ cache["build"] = None =>
               abandoned \/ (mem # None /\ autoSave /\ state \in OnTargets \cup {"getBuildAction", "return"})
    BY <1>2 DEF KeptInv
  <1>0. abandoned => abandoned'
    BY DEF Next, Start, Step, Invoke, CheckArgs, LookForMeiqueCache, LookForMeiqueLua, Show, Construct,
           FindCompilerId, Open, LoadCache, EnterSource, RunScript, ScriptFails, LeaveSource, CreateLuaJob,
           StartLuaJob, EndLuaJob, Act, Return, Flush, SaveCache, CtrlC, Kill, Interrupt, InstallCompiler,
           EditInput
  \* A process that is not over keeps the cache as it is until it returns.
  <1>4. ASSUME cache' = cache, configured' = configured, step' # "saveCache", step # "saveCache",
               (state = "return" /\ mem # None /\ autoSave => IsConfiguration(mem))',
               (state \in {"getBuildAction", "dumpProject"} /\ step = "exec" => IsConfiguration(mem))',
               (configured # "" /\ cache["build"] = None =>
                   abandoned \/ (mem # None /\ autoSave /\ state \in OnTargets \cup {"getBuildAction", "return"}))'
        PROVE  (/\ cache["build"] # None => IsConfiguration(cache["build"]) \/ (step = "saveCache" /\ saveDir = "build")
                /\ state = "return" /\ mem # None /\ autoSave => IsConfiguration(mem)
                /\ state \in {"getBuildAction", "dumpProject"} /\ step = "exec" => IsConfiguration(mem)
                /\ configured # "" /\ cache["build"] = None =>
                       abandoned \/ (mem # None /\ autoSave /\ state \in OnTargets \cup {"getBuildAction", "return"}))'
    BY <1>3, <1>4 DEF IsConfiguration
  <1>5. CASE \/ Start \/ CheckArgs \/ LookForMeiqueCache \/ LookForMeiqueLua \/ Show
    <2>1. /\ state \in Before \cup {"off"} /\ mem = None /\ UNCHANGED << cache, configured, mem >>
          /\ step' = "call" /\ step = "call"
      BY <1>5 DEF Start, Invoke, CheckArgs, LookForMeiqueCache, LookForMeiqueLua, Show, Proceed, Before, StepInv
    <2> QED
      BY <1>0, <1>3, <1>4, <2>1 DEF Before, OnTargets
  <1>6. CASE Construct \/ InstallCompiler \/ EditInput
    BY <1>0, <1>3, <1>6 DEF Construct, InstallCompiler, EditInput, IsConfiguration, OnTargets
  <1>7. CASE FindCompilerId
    <2>1. /\ UNCHANGED << cache, configured, autoSave >> /\ step # "saveCache" /\ step' # "saveCache"
          /\ state = "configureProject" /\ mem.kind = "whole" /\ abandoned' = abandoned
          /\ configured # "" /\ cache["build"] = None => abandoned
          /\ configured # "" => compiler
      BY <1>1, <1>3, <1>7, CachesDiffer DEF FindCompilerId, Throw, StepInv, ConfiguringInv, OnTargets
    <2>2. CASE compiler
      BY <1>0, <1>3, <1>7, <2>1, <2>2 DEF FindCompilerId, IsConfiguration
    <2>3. CASE ~compiler
      <3>1. mem' = mem /\ mem.sourceDir = "source" /\ mem.compiler = "" /\ mem.options = ""
            /\ state' = "return" /\ configured = ""
        BY <1>7, <2>1, <2>3 DEF FindCompilerId, Throw, ConfiguringInv
      <3> QED
        BY <1>3, <2>1, <3>1 DEF IsConfiguration
    <2> QED
      BY <2>2, <2>3
  <1>8. CASE Open
    <2>1. UNCHANGED << cache, configured, autoSave >> /\ mem = None /\ step = "call"
          /\ \/ step' = "loadCache" /\ state' = state
             \/ state' = "return" /\ mem' = mem /\ step' = "call"
      BY <1>8 DEF Open, Throw
    <2>2. configured # "" /\ cache["build"] = None => abandoned
      BY <1>3, <2>1
    <2>3. (configured # "" /\ cache["build"] = None => abandoned)'
      BY <1>0, <2>1, <2>2
    <2>4. step' # "exec" /\ step' # "saveCache" /\ step # "saveCache"
      BY <2>1
    <2>5. ~(state = "return" /\ mem # None)'
      BY <1>8, <2>1 DEF Open
    <2> QED
      BY <1>4, <2>1, <2>3, <2>4, <2>5
  <1>9. CASE LoadCache
    <2>1. /\ step = "loadCache" /\ cwd = "build" /\ mem = Blank /\ cache["build"] \notin {Empty, Torn}
          /\ UNCHANGED << cache, configured, autoSave >>
      BY <1>1, <1>2, <1>9 DEF LoadCache, StepInv, JobInv, Scripts, OnTargets, Dir, WholeInv
    <2>2. /\ cache["build"].kind = "whole" /\ mem' = Reloaded(cache["build"])
          /\ state' = state /\ step' = "exec"
      BY <1>9, <2>1 DEF LoadCache
    <2>3. cache["build"] \in Wholes
      BY <1>1, <2>2, CachesDiffer DEF Dir
    <2>4. /\ mem'.sourceDir = cache["build"].sourceDir /\ mem'.options = cache["build"].options
          /\ mem'.compiler = cache["build"].compiler /\ mem'.kind = "whole"
      BY <2>2, <2>3, MemIsWhole, CachesDiffer
    <2>5. IsConfiguration(cache["build"]) /\ cache["build"] # None /\ state # "return"
      BY <1>3, <2>1, <2>3, CachesDiffer DEF StepInv, Scripts
    <2>6. (IsConfiguration(mem))'
      BY <2>1, <2>4, <2>5 DEF IsConfiguration
    <2> QED
      BY <1>4, <2>1, <2>2, <2>5, <2>6
  <1>10. CASE EnterSource
    <2>1. /\ step = "exec" /\ UNCHANGED << cache, configured, autoSave >> /\ mem \in Wholes
          /\ state \in Scripts /\ step' # "saveCache"
      BY <1>1, <1>10 DEF EnterSource, StepInv, Throw
    <2>2. mem.sourceDir = "source" /\ state' = state /\ step' = "meique.lua"
      <3>1. CASE state = "configureProject"
        BY <1>10, <2>1, <3>1 DEF EnterSource, ConfiguringInv
      <3>2. CASE state # "configureProject"
        BY <1>3, <1>10, <2>1, <3>2 DEF EnterSource, Scripts, IsConfiguration
      <3> QED
        BY <3>1, <3>2
    <2>3. mem' # None
      BY <1>10, ScriptStays, CachesDiffer
    <2> QED
      BY <1>0, <1>3, <1>4, <2>1, <2>2, <2>3 DEF Scripts, OnTargets
  <1>11. CASE RunScript
    <2>1. /\ step = "meique.lua" /\ step' = "after calls" /\ state \in Scripts
          /\ UNCHANGED << cache, state, configured, autoSave >>
      BY <1>11 DEF RunScript, StepInv
    <2>2. mem' # None
      BY <1>11, ScriptStays, CachesDiffer
    <2> QED
      BY <1>0, <1>3, <1>4, <2>1, <2>2 DEF Scripts, OnTargets
  <1>12. CASE ScriptFails
    <2>1. /\ step \in {"meique.lua", "after calls"} /\ step' = "call" /\ state' = "return" /\ state \in Scripts
          /\ UNCHANGED << cache, mem, configured >> /\ mem # None
          /\ autoSave' = IF state = "configureProject" THEN FALSE ELSE autoSave
      BY <1>12 DEF ScriptFails, Throw, DropAutoSave, StepInv
    <2>2. state # "configureProject" => IsConfiguration(mem)
      BY <1>2, <2>1 DEF UseInv, Scripts
    <2>3. (state = "return" /\ mem # None /\ autoSave => IsConfiguration(mem))'
      BY <2>1, <2>2 DEF IsConfiguration
    <2> QED
      BY <1>0, <1>3, <1>4, <2>1, <2>3 DEF Scripts, OnTargets
  <1>13. CASE LeaveSource
    <2>1. /\ UNCHANGED << cache, mem, autoSave >> /\ step' = "call" /\ mem # None
          /\ step \in {"call", "after calls"} /\ state \in Scripts
          /\ state = "configureProject" => step = "after calls"
      BY <1>13 DEF LeaveSource, Proceed, StepInv, Scripts
    <2>2. \E e \in {"0", "Ok", args.action} : state' = After(state, e)
      BY <1>13 DEF LeaveSource, Proceed
    <2>3. state' \in OnTargets \cup {"getBuildAction", "return"}
      <3>1. state \in Scripts
        BY <2>1
      <3> QED
        BY <2>2, <3>1, AfterIs DEF Scripts
    <2>4. (IsConfiguration(mem))'
      <3>1. CASE state = "configureProject"
        <4>1. configured' = mem.options
          BY <1>13, <3>1 DEF LeaveSource
        <4>2. /\ mem.sourceDir = "source" /\ mem.compiler = "Gcc" /\ mem.options # ""
              /\ mem.kind = "whole"
          BY <1>1, <2>1, <3>1, SessionAssumption, CachesDiffer DEF ConfiguringInv
        <4> QED
          BY <2>1, <4>1, <4>2 DEF IsConfiguration
      <3>2. CASE state # "configureProject"
        <4>1. configured' = configured /\ IsConfiguration(mem)
          BY <1>2, <1>13, <2>1, <3>2 DEF LeaveSource, UseInv, Scripts
        <4> QED
          BY <2>1, <4>1 DEF IsConfiguration
      <3> QED
        BY <3>1, <3>2
    <2>5. cache["build"] # None => configured' = configured
      BY <1>13 DEF LeaveSource, ConfiguringInv
    <2>6. autoSave
      BY <2>1 DEF StepInv, Scripts
    <2>7. (cache["build"] # None => IsConfiguration(cache["build"]))'
      BY <1>3, <2>1, <2>5 DEF IsConfiguration
    <2> QED
      BY <2>1, <2>3, <2>4, <2>6, <2>7
  <1>14. CASE Act
    <2>1. /\ state \in OnTargets /\ mem # None /\ step # "saveCache" /\ step' = "call"
          /\ UNCHANGED << cache, mem, configured, autoSave >>
      BY <1>14 DEF Act, Throw, Proceed, StepInv
    <2>2. state' = "return"
      BY <1>14, <2>1, AfterIs DEF Act, Throw, Proceed
    <2>3. IsConfiguration(mem) /\ autoSave
      BY <1>2, <2>1 DEF UseInv, StepInv, OnTargets
    <2>4. (IsConfiguration(mem))'
      BY <2>1, <2>3 DEF IsConfiguration
    <2> QED
      BY <1>4, <2>1, <2>2, <2>3, <2>4
  <1>18. CASE CreateLuaJob \/ StartLuaJob \/ EndLuaJob
    <2>1. /\ UNCHANGED << cache, state, mem, autoSave, saveDir, configured, abandoned >>
          /\ step' = step \/ (step = "call" /\ step' = "jobs")
      BY <1>18 DEF CreateLuaJob, StartLuaJob, EndLuaJob
    <2> QED
      BY <1>3, <2>1 DEF IsConfiguration
  <1>15. CASE Return
    <2>1. step = "call" /\ state = "return" /\ configured' = configured
      BY <1>15 DEF Return
    <2>2. CASE /\ mem # None /\ autoSave /\ cache' = [cache EXCEPT ![cwd] = Empty] /\ saveDir' = cwd
               /\ step' = "saveCache" /\ UNCHANGED << state, mem, autoSave >>
      <3>1. IsConfiguration(mem)
        BY <1>3, <2>1, <2>2
      <3>2. (IsConfiguration(mem))'
        BY <2>1, <2>2, <3>1 DEF IsConfiguration
      <3>3. CASE cwd = "build"
        <4>1. cache'["build"] = Empty
          BY <1>1, <2>2, <3>3 DEF Dir
        <4> QED
          BY <2>1, <2>2, <3>2, <3>3, <4>1, CachesDiffer
      <3>4. CASE cwd = "source"
        <4>1. cache'["build"] = cache["build"] /\ abandoned
          BY <1>1, <2>1, <2>2, <3>4 DEF JobInv, Dir
        <4>2. (cache["build"] # None => IsConfiguration(cache["build"]))'
          BY <1>3, <2>1, <4>1 DEF IsConfiguration
        <4> QED
          BY <1>0, <2>1, <2>2, <3>2, <4>1, <4>2
      <3> QED
        BY <1>1, <3>3, <3>4 DEF Dir
    <2>3. CASE (mem = None \/ ~autoSave) /\ Exit /\ cache' = cache
      <3>1. configured # "" /\ cache["build"] = None => abandoned
        BY <1>3, <2>3
      <3> QED
        BY <1>0, <1>3, <2>1, <2>3, <3>1 DEF Exit, IsConfiguration
    <2> QED
      BY <1>15, <2>1, <2>2, <2>3 DEF Return
  <1>16. CASE Flush
    <2>1. /\ step = "saveCache" /\ cache' = [cache EXCEPT ![saveDir] = Torn] /\ saveDir \in Dir
          /\ UNCHANGED << state, step, mem, autoSave, configured, saveDir >>
          /\ state = "return" /\ mem # None /\ autoSave
      BY <1>16 DEF Flush, StepInv, TypeOK
    <2>2. IsConfiguration(mem) /\ (IsConfiguration(mem))'
      BY <1>3, <2>1 DEF IsConfiguration
    <2>3. CASE saveDir = "build"
      <3>1. cache'["build"] = Torn
        BY <1>1, <2>1, <2>3 DEF Dir
      <3> QED
        BY <2>1, <2>2, <2>3, <3>1, CachesDiffer
    <2>4. CASE saveDir = "source"
      <3>1. cache'["build"] = cache["build"] /\ abandoned
        BY <1>1, <2>1, <2>4 DEF JobInv, Dir
      <3>2. (cache["build"] # None => IsConfiguration(cache["build"]))'
        BY <1>3, <2>1, <2>4, <3>1 DEF IsConfiguration
      <3> QED
        BY <1>0, <2>1, <2>2, <3>1, <3>2
    <2> QED
      BY <2>1, <2>3, <2>4 DEF Dir
  <1>17. CASE SaveCache
    <2>1. /\ step = "saveCache" /\ cache' = [cache EXCEPT ![saveDir] = mem] /\ configured' = configured
          /\ state = "return" /\ mem # None /\ autoSave /\ state' = "off" /\ saveDir \in Dir
      BY <1>17 DEF SaveCache, Exit, StepInv, TypeOK
    <2>2. CASE saveDir = "build"
      <3>1. IsConfiguration(mem) /\ cache'["build"] = mem
        BY <1>1, <1>3, <2>1, <2>2 DEF Dir
      <3>2. (IsConfiguration(cache["build"]))'
        BY <2>1, <3>1 DEF IsConfiguration
      <3> QED
        BY <2>1, <3>1, <3>2
    <2>3. CASE saveDir = "source"
      <3>1. cache'["build"] = cache["build"] /\ abandoned
        BY <1>1, <2>1, <2>3 DEF JobInv, Dir
      <3>2. (cache["build"] # None => IsConfiguration(cache["build"]))'
        BY <1>3, <2>1, <2>3, <3>1 DEF IsConfiguration
      <3> QED
        BY <1>0, <2>1, <3>1, <3>2
    <2> QED
      BY <2>1, <2>2, <2>3 DEF Dir
  <1> QED
    BY <1>2, <1>5, <1>6, <1>7, <1>8, <1>9, <1>10, <1>11, <1>12, <1>13, <1>14, <1>15, <1>16,
       <1>17, <1>18
    DEF Next, Step

\* In every order of runs, whatever ends them, SessionInv holds between and within them.
THEOREM SessionInvariant == Spec => []SessionInv
  <1>1. Init => SessionInv
    <2> SUFFICES ASSUME Init PROVE SessionInv
      OBVIOUS
    <2>1. /\ cache = [d \in Dir |-> None] /\ state = "off" /\ step = "call" /\ mem = None
          /\ autoSave = TRUE /\ cwd = "build" /\ configured = "" /\ interrupted = "never"
          /\ luaJob = "none" /\ saveDir = "build" /\ abandoned = FALSE
          /\ args = NoArgs /\ optional = FALSE /\ status = 0 /\ compiler = CompilerAtFirst
      BY DEF Init
    <2>2. input \in 0 .. MaxEdits /\ output \in Absent .. input
      <3>1. input = 0 /\ output = Absent /\ MaxEdits \in Nat
        BY SessionAssumption DEF Init
      <3> QED
        BY <3>1 DEF Absent
    <2>3. TypeOK
      BY <2>1, <2>2, NoArgsIsArgs, SessionAssumption DEF TypeOK, Dir
    <2>4. StepInv /\ JobInv /\ ConfiguringInv
      BY <2>1 DEF StepInv, JobInv, ConfiguringInv, Before, Scripts, OnTargets
    <2>5. UseInv /\ WholeInv /\ KeptInv
      BY <2>1, CachesDiffer DEF UseInv, WholeInv, KeptInv, IsUsable, OnTargets, Dir
    <2> QED
      BY <2>3, <2>4, <2>5 DEF SessionInv
  <1>2. SessionInv /\ [Next]_vars => SessionInv'
    <2> SUFFICES ASSUME SessionInv, [Next]_vars PROVE SessionInv'
      OBVIOUS
    <2>1. CASE Next
      BY <2>1, TypeStep, StepStep, JobStep, ConfiguringStep, UseStep, WholeStep, KeptStep DEF SessionInv
    <2>2. CASE UNCHANGED vars
      <3>1. UNCHANGED << cache, compiler, input, output, state, step, args, mem, autoSave, cwd, luaJob,
                         saveDir, optional, status, configured, interrupted, abandoned >>
        BY <2>2 DEF vars, world, threads, process, history
      <3>2. StepInv' /\ JobInv'
        BY <3>1 DEF SessionInv, StepInv, JobInv
      <3>6. TypeOK'
        <4>1. TypeOK
          BY DEF SessionInv
        <4>2. /\ cache' \in [Dir -> Wholes \cup {None, Empty, Torn}] /\ mem' \in Wholes \cup {None}
          BY <3>1, <4>1 DEF TypeOK
        <4>3. /\ compiler' \in BOOLEAN /\ autoSave' \in BOOLEAN /\ optional' \in BOOLEAN
              /\ args' \in Args /\ configured' \in Options \cup {""} /\ status' \in {0, 1}
              /\ interrupted' \in {"never"} \cup Interrupts /\ abandoned' \in BOOLEAN
          BY <3>1, <4>1 DEF TypeOK
        <4>4. input' \in 0 .. MaxEdits /\ output' \in Absent .. input'
          BY <3>1, <4>1 DEF TypeOK
        <4>5. /\ state' \in AllStates /\ cwd' \in Dir /\ saveDir' \in Dir
              /\ luaJob' \in {"none", "waiting", "running"}
              /\ cwd' = "source" <=> step' \in {"meique.lua", "after calls"} \/ luaJob' = "running"
          BY <3>1, <4>1 DEF TypeOK, AllStates
        <4> QED
          BY <4>2, <4>3, <4>4, <4>5 DEF TypeOK, AllStates
      <3>3. ConfiguringInv' /\ WholeInv'
        BY <3>1 DEF SessionInv, ConfiguringInv, WholeInv
      <3>4. UseInv'
        BY <3>1 DEF SessionInv, UseInv, IsUsable, IsConfiguration
      <3>5. KeptInv'
        BY <3>1 DEF SessionInv, KeptInv, IsConfiguration
      <3> QED
        BY <3>2, <3>3, <3>4, <3>5, <3>6 DEF SessionInv
    <2> QED
      BY <2>1, <2>2
  <1> QED
    BY <1>1, <1>2, PTL DEF Spec

\* Runs that were not interrupted leave the configuration of the last configureProject in the
\* build directory, or none if an Error left a LuaJob behind in the first of them; before the
\* first configuration there is nothing or a cache without a compiler.
THEOREM CacheKept == Spec => []CacheIsTheConfiguration
  <1>1. SessionInv => CacheIsTheConfiguration
    <2> SUFFICES ASSUME SessionInv, state = "off", interrupted = "never"
                 PROVE  IF configured = "" THEN cache["build"].kind = "whole" => cache["build"].compiler = ""
                        ELSE IsConfigured \/ (abandoned /\ cache["build"] = None)
      BY DEF CacheIsTheConfiguration
    <2>1. step = "call"
      BY DEF SessionInv, StepInv
    <2>2. /\ cache["build"] # None => IsConfiguration(cache["build"])
          /\ configured # "" /\ cache["build"] = None => abandoned
      BY <2>1 DEF SessionInv, KeptInv, OnTargets
    <2> QED
      BY <2>2, CachesDiffer DEF IsConfiguration, IsConfigured
  <1> QED
    BY <1>1, SessionInvariant, PTL

\* Targets are built, tested, installed, uninstalled and cleaned with the options of the last
\* configuration and from the build directory, also after runs that were killed.
THEOREM ActedAsConfigured == Spec => []ActsAsConfigured
  <1>1. SessionInv => ActsAsConfigured
    <2> SUFFICES ASSUME SessionInv, state \in OnTargets, interrupted # "CTRL+C"
                 PROVE  mem.options = configured /\ (cwd = "build" \/ luaJob = "running")
      BY DEF ActsAsConfigured
    <2>1. IsConfiguration(mem)
      BY DEF SessionInv, UseInv
    <2>2. cwd = "build" \/ luaJob = "running"
      BY DEF SessionInv, TypeOK, StepInv, Scripts, OnTargets, Dir
    <2> QED
      BY <2>1, <2>2 DEF IsConfiguration
  <1> QED
    BY <1>1, SessionInvariant, PTL

\* A cache in the source directory is the work of CTRL+C or of an Error out of createJob that
\* found a LuaJob waiting: every other run, however it fails or is killed, saves it in the
\* build directory.
THEOREM SourceKeptClean == Spec => []SourceStaysClean
  <1>1. SessionInv => SourceStaysClean
    BY DEF SessionInv, UseInv, SourceStaysClean
  <1> QED
    BY <1>1, SessionInvariant, PTL

\* Between runs every cache can be read, unless one was killed while it wrote it or hit by
\* CTRL+C when Errors had already led to caches in both directories.
THEOREM CacheCanBeRead == Spec => []CacheIsReadable
  <1>1. SessionInv => CacheIsReadable
    <2> SUFFICES ASSUME SessionInv, state = "off", interrupted # "kill",
                        ~(abandoned /\ interrupted = "CTRL+C")
                 PROVE  \A d \in Dir : cache[d] \notin {Empty, Torn}
      BY DEF CacheIsReadable
    <2>1. step = "call"
      BY DEF SessionInv, StepInv
    <2>2. interrupted = "never" \/ (interrupted = "CTRL+C" /\ ~abandoned)
      BY SessionAssumption DEF SessionInv, TypeOK
    <2> QED
      BY <2>1, <2>2 DEF SessionInv, WholeInv
  <1> QED
    BY <1>1, SessionInvariant, PTL
=============================================================================
