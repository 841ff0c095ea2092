SPECIFICATION Spec
CONSTANTS
    MaxFileSize = 3
    BackupCounts = {0, 1, 2, 3}
    Sizes = {1, 2, 4}
    MaxMessages = 5
    Logged <- Logged0
INVARIANTS
    DiskIsSuffix
    FilesBounded
    FormatExact
PROPERTY
    OnlyOldestLost
CHECK_DEADLOCK FALSE
