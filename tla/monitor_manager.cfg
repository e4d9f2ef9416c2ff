CONSTANTS
    laptop = laptop
    tv = tv
    desk = desk
    Panels = {laptop, tv, desk}
    Handles = {h1, h2, h3, h4, h5, h6}
    Answers <- NoAnswers
    RawMax <- NoRange
    Faulty = {}
    PowerOnRaw = {0}
    ReadsLag = FALSE
    UintMod = 65536
    Internal = {laptop}
    Named = {laptop, desk}
    CallsFail = TRUE
    Layouts <- LaptopLayouts
SPECIFICATION ManagerSpec
SYMMETRY HandleSymmetry
INVARIANTS HandlesOwnedOnce HiddenOnlyIfEmbedded
