SPECIFICATION FairSpec
CONSTANTS
    Runs = {r1}
    Qualities = {"240p", "360p"}
    Ladder <- TwoRungs
    AudioInputs <- NoAudio
    SizeLimit = 1
    MaxRetries = 1
    MaxResumes = 0
    Events = {}
PROPERTIES OverLimitTerminates
