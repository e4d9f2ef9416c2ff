CONSTANTS
    p1 = p1
    p2 = p2
    h1 = h1
    h2 = h2
    h3 = h3
    h4 = h4
    Panels = {p1}
    Handles = {h1, h2}
    Answers <- OneBrightness
    RawMax <- OneRange
    Faulty = {}
    PowerOnRaw = {50}
    ReadsLag = FALSE
    UintMod = 65536
    Internal = {}
    Named = {p1}
    CallsFail = FALSE
    Layouts <- UnpluggedOrNot
    kDefaultScrollStep = 2
    Steps = {50}
    SliderPositions = {10}
    ScrollSteps = {}
    Scopes = {}
    ToggledParams = {}
SPECIFICATION Spec
PROPERTY FlushOnlyWhenQuiet
