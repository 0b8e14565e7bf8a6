SPECIFICATION LimiterFairSpec
CONSTANTS
    Foreground = {f1, f2, f3}
    Background = {b1, b2, b3}
    MayCancel = {b3}
    N = 3
    Reserve = 1
INVARIANTS
    ReserveForForeground
PROPERTIES
    ImplementsSlotPool
    BackgroundServed
