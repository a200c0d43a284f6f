\* Two generations of loops against reconfigures, failures, changing files
\* and live traffic, and what must happen once the environment settles.
SPECIFICATION FairSpec
CONSTANTS
    Ids <- MCIds
    NoId = NoId
    Folded <- MCFolded
    Levels <- MCLevels
    NoLevel = NoLevel
    Modalities <- MCModalities
    Channels <- MCChannels
    Loops = {l1, l2}
    NoLoop = NoLoop
    Configs <- OnAndOff
    NoConfig = NoConfig
    Sources <- Moody
    Disks <- MCDisks
    Traffic <- MCTraffic
    HasConfigDir = TRUE
INVARIANTS TypeOK LoopFollowsConfig FoundInAnyCase
PROPERTIES NothingIsForgotten RefreshCorrects
PROPERTIES RecoversFromFailure ChannelsBecomeCurrent CancelledLoopsEnd
