\* A program, its library and a hook: in which order things are made, with failures and
\* wakeups without a notification. The threads and the build end, so the absence of a
\* next step is no error.
SPECIFICATION Spec
CONSTANTS
    NoNode = NoNode
    Root = "app"
    Targets <- AppTargets
    Hooks <- AppHooks
    Files <- AppFiles
    Custom = {}
    Deps <- AppDeps
    HookOf <- AppHookOf
    FilesOf <- AppFilesOf
    Failing = {"lib.c", "app hook", "lib"}
    BadFiles = {}
    SpuriousWakeups = TRUE
    MaxJobs = 2
INVARIANTS
    TreeInv
    BuildOrder
    SourcesWaitForDependencies
    FailureIsContained
    RebuildReachesTargets
    JobsRunForTheirTarget
    SearchAgrees
CHECK_DEADLOCK FALSE
