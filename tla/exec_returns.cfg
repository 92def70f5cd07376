SPECIFICATION FairSpec
CONSTANTS
    Runs = {r1}
    Qualities = {"240p", "360p"}
    Ladder <- TwoRungs
    AudioInputs <- NoAudio
    SizeLimit = 2
    MaxRetries = 4
    MaxResumes = 1
    Events = {"encode_fails"}
PROPERTIES EveryRunReturns StatusSettles
