SPECIFICATION FairSpec
CONSTANTS
    None = None
    PathOrder <- Names
    Folder <- FolderTable
    ManifestPath <- Manifest
    Data <- Contents3
    Size <- UnevenSizes
    Parse <- ParseTable
    Initial <- OneDirectory
    Anchors = {None}
    MaxEntries = 3
    MaxFileBytes = 2
    MaxTotalBytes = 4
    MaxManifestBytes = 2
    Stealthy = TRUE
    MaxMutations = 2
INVARIANTS
    FindingsMatchSnapshot
    PassHoldsOfIdentity
PROPERTY
    VerificationEnds
CHECK_DEADLOCK FALSE
