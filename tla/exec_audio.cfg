SPECIFICATION Spec
CONSTANTS
    Runs = {r1}
    Qualities = {"240p", "360p"}
    Ladder <- TwoRungs
    AudioInputs <- WithAudio
    SizeLimit = 3
    MaxRetries = 1
    MaxResumes = 0
    Events = {"encode_fails"}
INVARIANTS CompletedMeansAll
