SPECIFICATION WaveSpec
CONSTANTS
    MaxWaves = 3
    MaxStored = 2
    MaxFrames = 1
    MaxAmbient = 1
    BatchEpochs = {0}
    MaxEpoch = 1
    NoPolicy = NoPolicy
    MaxEvents = 4
    MaxPictures = 4
    MaxViewers = 3
    PerCategory = 2
    MaxPublic = 3
    MaxReplies = 2
    BundleSize = 2
    InputBudget = 2
    AmbientBudget = 1
    ScreenBudget = 1
INVARIANTS WavesKept PreparedSoundly
PROPERTY DrainsEnd
CHECK_DEADLOCK FALSE
