\* Edits, changes of options and clean between builds, one of which may fail or be
\* interrupted. Edits are bounded, so the absence of a next step is no error.
SPECIFICATION Spec
CONSTANTS
    Targets <- MCTargets
    Custom = {"gen"}
    Files <- MCFiles
    Others <- MCOthers
    DepsOf <- MCDepsOf
    FilesOf <- MCFilesOf
    Selections <- MCSelections
    Includes <- MCIncludes
    MaxRev = 1
    Edited = {"lib.c", "api.h"}
    Changed = {"lib"}
    MaxFaults = 1
    Failing = {"lib.c", "app"}
    Interrupts = {"CTRL+C", "kill"}
INVARIANTS
    
    FreshMeansIdle
    ObjectsFollowSources
CHECK_DEADLOCK FALSE
