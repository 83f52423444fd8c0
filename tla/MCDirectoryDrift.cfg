SPECIFICATION Spec
CONSTANTS
    None = None
    PathOrder <- DeepNames
    Folder <- FolderTable
    ManifestPath <- Manifest
    Data <- Contents2
    Size <- SizeTable
    Parse <- ParseTable
    Initial <- DeepDirectory
    Anchors = {None}
    MaxEntries = 3
    MaxFileBytes = 2
    MaxTotalBytes = 4
    MaxManifestBytes = 2
    Stealthy = FALSE
    MaxMutations = 3
INVARIANTS
    PassHoldsInLastInventory
CHECK_DEADLOCK FALSE
