CONSTANTS
    N = 2
    Runs = {r1, r2}
    UseResets = TRUE
    Cooldown = 1
    MaxReset = 2
    MaxRequests = 1

SPECIFICATION FairSpec
CHECK_DEADLOCK FALSE

INVARIANTS OnlySpentDisabled NobodyOversleeps NoFalseExhaustion

PROPERTIES WaitersAreServed
