CONSTANTS
    InitialFiles <- SampleFiles
    SliderValues = {0, 100}
    StepChoices = {10}
    ScopeChoices <- ScopeList
    IntMax = 127
    CastOverflow <- SmallestInt
    ReadsFail = FALSE
    WritesFail = TRUE
SPECIFICATION Spec
INVARIANT CleanMeansWritten
