SPECIFICATION Spec
CONSTANTS
    None = None
    PathOrder <- Names
    Folder <- FolderTable
    ManifestPath <- Manifest
    Data <- Contents3
    Size <- SizeTable
    Parse <- ParseTable
    Initial <- OneDirectory
    Anchors = {None}
    MaxEntries = 3
    MaxFileBytes = 2
    MaxTotalBytes = 4
    MaxManifestBytes = 2
    Stealthy = FALSE
    MaxMutations = 1
PROPERTIES
    LateMutationDetected
CHECK_DEADLOCK FALSE
