CONSTANTS
    Places = {"left"}
    Deltas <- HalfAndMore
    MaxPosted = 2
    RegistryFails = TRUE
SPECIFICATION FairSpec
INVARIANTS TypeOK HookOnlyWhilePumping IconAsBelieved NothingLeftBehind NoScrollLost
PROPERTIES RectFollowsIcon ExitCompletes
