CONSTANTS
    Places = {"left"}
    Deltas <- HalfAndMore
    MaxPosted = 1
    RegistryFails = FALSE
SPECIFICATION Spec
INVARIANT MenuTickIsRegistry
