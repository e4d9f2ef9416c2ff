CONSTANTS
    InitialFiles <- SampleFiles
    SliderValues = {0, 100}
    StepChoices = {10}
    ScopeChoices <- ScopeList
    IntMax = 127
    CastOverflow <- SmallestInt
    ReadsFail = TRUE
    WritesFail = TRUE
    UintMod = 65536
    Maxima <- SampleMaxima
    HexChars = {"1", "b"}
    HexValue <- SampleHexValue
    UnsignedMod = 65536
    MaxText = 7
    kMaxNestingDepth = 2
    MaxBuilt = 4
    Characters <- SampleCharacters
    Strings <- SampleStrings
    MemberKeys <- SampleKeys
    Numbers <- SampleNumbers
    MaxDisplays = 2
    DeviceRanges <- SampleDeviceRanges
SPECIFICATION PartsSpec
INVARIANTS TypeOK LastSaveSurvives
PROPERTY ImplementsAtomic
INVARIANTS NearestHalfUp PercentRoundTrip RawRoundTrip
INVARIANTS CodesAreThoseListed RoundTrip TornIsRejected LastMemberCounts
INVARIANTS UsableOrGone VibranceRowTruthful
CHECK_DEADLOCK FALSE
