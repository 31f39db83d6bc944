SPECIFICATION Spec
CONSTANTS
    Blobs <- MCBlobs
    MaxFileSize = 2
    MaxItems = 3
    MaxFiles = 1
    MaxFailures = 2
INVARIANTS
    ItemsExact
PROPERTIES
    ImplementsLog
    RepairAligns
CHECK_DEADLOCK FALSE
