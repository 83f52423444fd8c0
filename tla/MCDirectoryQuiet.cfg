SPECIFICATION Spec
CONSTANTS
    None = None
    PathOrder <- MoreNames
    Folder <- FolderTable
    ManifestPath <- Manifest
    Data <- Contents6
    Size <- SizeTable
    Parse <- ParseTable
    Initial <- EveryDirectory
    Anchors = {None, "pair", "live"}
    MaxEntries = 3
    MaxFileBytes = 2
    MaxTotalBytes = 4
    MaxManifestBytes = 1
    Stealthy = FALSE
    MaxMutations = 0
INVARIANTS
    QuietVerdictIsExact
CHECK_DEADLOCK FALSE
