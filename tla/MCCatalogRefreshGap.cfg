\* Refuted: a cancelled loop reports success over the missing endpoint.
SPECIFICATION Spec
CONSTANTS
    Ids <- MCIds
    NoId = NoId
    Folded <- MCFolded
    Levels <- MCLevels
    NoLevel = NoLevel
    Modalities <- MCModalities
    Channels <- MCChannels
    Loops = {l1, l2}
    NoLoop = NoLoop
    Configs <- MCConfigs
    NoConfig = NoConfig
    Sources <- Healthy
    Disks <- StableDisk
    Traffic <- NoTraffic
    HasConfigDir = TRUE
INVARIANT GapStaysReported
