CONSTANTS
    p1 = p1
    p2 = p2
    h1 = h1
    h2 = h2
    h3 = h3
    h4 = h4
    Panels = {p1}
    Handles = {h1, h2}
    Answers <- Axes
    RawMax <- BrokenRange
    Faulty <- FaultyAxes
    PowerOnRaw = {20}
    ReadsLag = TRUE
    UintMod = 65536
    Internal = {}
    Named = {p1}
    CallsFail = FALSE
    Layouts <- UnpluggedOrNot
    \* A step of 100 clamps with any scroll step: the default is the one that
    \* SetScrollStep makes of 0, so that setting it adds no states.
    kDefaultScrollStep = 1
    Steps = {100}
    SliderPositions = {}
    ScrollSteps = {0}
    Scopes = {}
    ToggledParams = {"Saturation"}
SPECIFICATION FairSpec
INVARIANTS OneWorker SettledAgreement EnumerationHeals
PROPERTIES FanOutReachesEveryAxis RequestServed StopReturns InputDrains
