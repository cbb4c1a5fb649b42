\* Commands and Lua functions at once, then tests; forks and pipes may fail
SPECIFICATION FairSpec
CONSTANTS
    Main = "main"
    Jobs = {"cc", "link", "moc", "gen"}
    LuaJobs = {"moc", "gen"}
    Calls <- MCCalls
    BuildDir = "build"
    WorkDir <- MCWorkDir
    NoDir = "none"
    Capacity = 1
    MaxFds = 4
    ForkMayFail = TRUE
INVARIANTS
    OutputIsComplete
    RunsInItsDirectory
PROPERTIES
    AllReturn
CHECK_DEADLOCK FALSE
