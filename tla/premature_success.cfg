\* A search that finds nothing while the tree changes ends the build.
SPECIFICATION Spec
CONSTANTS
    NoNode = NoNode
    Root = "app"
    Targets <- AppTargets
    Hooks <- AppHooks
    Files <- AppFiles
    Custom = {}
    Deps <- AppDeps
    HookOf <- AppHookOf
    FilesOf <- AppFilesOf
    Failing = {}
    BadFiles = {}
    SpuriousWakeups = FALSE
    MaxJobs = 2
INVARIANTS
    SuccessMeansAllBuilt
CHECK_DEADLOCK FALSE
