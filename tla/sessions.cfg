\* Runs of every form, one after the other, some killed or interrupted by CTRL+C at any
\* point, the first ones without a compiler
SPECIFICATION FairSpec
CONSTANTS
    Options = {"o1", "o2"}
    Interrupts = {"CTRL+C", "kill"}
    CompilerAtFirst = FALSE
    PackageExists = TRUE
    MaxEdits = 1
INVARIANTS
    CacheIsTheConfiguration
    ActsAsConfigured
    SourceStaysClean
    CacheIsReadable
    
PROPERTIES
    RunsEnd
