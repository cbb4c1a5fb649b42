\* Custom targets and a program under a fake root: how many jobs run, what is reported,
\* and that this follows the plan. b.c has no known language. The build ends, so the
\* absence of a next step is no error.
SPECIFICATION Spec
CONSTANTS
    NoNode = NoNode
    Root = "fakeroot"
    Targets <- MixTargets
    Hooks <- MixHooks
    Files <- MixFiles
    Custom <- MixCustom
    Deps <- MixDeps
    HookOf <- MixHookOf
    FilesOf <- MixFilesOf
    Failing = {"tool", "a.c"}
    BadFiles = {"b.c"}
    SpuriousWakeups = FALSE
    MaxJobs = 2
INVARIANTS
    JobLimit
    ExitStatus
    
PROPERTIES
    ErrorStopsScheduling
    ImplementsPlan
CHECK_DEADLOCK FALSE
