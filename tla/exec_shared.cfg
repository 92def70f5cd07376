SPECIFICATION Spec
CONSTANTS
    Runs = {r1, r2}
    Qualities = {"240p", "360p"}
    Ladder <- TwoRungs
    AudioInputs <- NoAudio
    SizeLimit = 2
    MaxRetries = 1
    MaxResumes = 1
    Events = {"encode_fails"}
SYMMETRY Goroutines
INVARIANTS DeadLetterEarned CompletedMeansAll PartialMeansAll
PROPERTY ImplementsContract
