\* Install and uninstall, one after the other, stopped anywhere, of targets that install
\* their outputs and of ones that install other files
SPECIFICATION Spec
CONSTANTS
    Order <- MCOrder
    Output <- MCOutput
    Dir <- MCDir
    SourceDir <- MCSourceDir
    BuildDir <- MCBuildDir
    Scripts <- MCScripts
    InstallPrefixes <- MCPrefixes
    DestDirs <- MCDestDirs
    Selections <- MCSelections
    Disks <- MCDisks
    MaxRev = 1
INVARIANTS
    NormalizedInPlace
    SuccessMeansInstalled
    UninstallUndoesInstall
PROPERTIES
    OthersStay
