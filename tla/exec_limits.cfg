SPECIFICATION Spec
CONSTANTS
    Runs = {r1}
    Qualities = {"240p", "360p"}
    Ladder <- TwoRungs
    AudioInputs <- AnyInput
    SizeLimit = 1
    MaxRetries = 1
    MaxResumes = 1
    Events <- AllEvents
INVARIANTS TypeOK HashKnown TrailInOrder CacheAfterOutput
PROPERTY ImplementsContract
