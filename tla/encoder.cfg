\* Two attempts, one after the other or both at once, or one removal of the
\* files.  The system stops when every attempt has ended.
CONSTANTS
    MaxAttempts = 2
    Inputs <- SomeInputs
    Ladder <- TwoRungs
    Bitrates <- OneBitrate
    Thumbnails <- OneThumbnail
    Extras <- NoExtras
    MaxFaults = 1
SPECIFICATION FairSpec
INVARIANTS TypeOK EncodedInTime
PROPERTIES PublishedWhole OnlyUnwatchedHold GoroutinesLeave
CHECK_DEADLOCK FALSE
