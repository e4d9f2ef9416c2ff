CONSTANTS
    kDefaultScrollStep = 2
    Steps <- ScrollDown
    SliderPositions = {100}
    ScrollSteps = {}
    Scopes = {}
    ToggledParams = {"Brightness"}
    MonitorCounts = {0, 1, 2}
    ChannelLists <- OneOrTwo
    kRows <- BrightnessRow
    SavedScopes <- EditedOrSecondMonitor
    MaxPosted = 1
SPECIFICATION Spec
PROPERTY ScopeLostOnlyIfGone
