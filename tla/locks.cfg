\* Under fair scheduling every thread ends, whatever fails, with both kinds of Lua jobs.
\* The build ends, so the absence of a next step is no error.
SPECIFICATION FairSpec
CONSTANTS
    NoNode = NoNode
    Root = "fakeroot"
    Targets <- DuoTargets
    Hooks <- DuoHooks
    Files = {"a.c"}
    Custom = {"gen"}
    Deps <- DuoDeps
    HookOf <- DuoHookOf
    FilesOf <- OneFilesOf
    Failing = {"gen", "prog hook", "a.c"}
    BadFiles = {}
    SpuriousWakeups = FALSE
    MaxJobs = 2
PROPERTIES
    JobsEnd
    EndsOrWaitsForTree
CHECK_DEADLOCK FALSE
