CONSTANTS
    p1 = p1
    p2 = p2
    h1 = h1
    h2 = h2
    h3 = h3
    h4 = h4
    Panels = {p1, p2}
    Handles = {h1, h2, h3, h4}
    Answers <- BrightnessOnly
    RawMax <- Ranges
    Faulty = {}
    PowerOnRaw = {50}
    ReadsLag = FALSE
    UintMod = 65536
    Internal = {}
    Named = {p1, p2}
    CallsFail = FALSE
    Layouts <- TwoPanelLayouts
    kDefaultScrollStep = 2
    Steps = {50}
    SliderPositions = {50}
    ScrollSteps = {}
    Scopes = {1}
    ToggledParams = {}
SPECIFICATION Spec
SYMMETRY HandleSymmetry
INVARIANTS TypeOK TargetsNameChannels LastValueWins ChannelsMatchMonitors SettledAgreement
PROPERTIES SliderReadsBack ImplementsView
