CONSTANTS
    MaxUpdates = 2
    MaxCrashes = 1
    BatchLimit = 3
SPECIFICATION SafeSpec
PROPERTIES
    NoStaleReplay
