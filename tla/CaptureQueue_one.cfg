\* One tab, and a second event within MCBound.
CONSTANTS
    Tabs = {t1}
    Captures = {c1, c2}
    NoCapture = NoCapture
    TakenAt <- MCTakenAt
    MaxBackoff = 2
    MaxAttempts = 2
    MayFail = {"read", "write"}
    MaxEvents = 2
    MaxReloads = 1
CONSTRAINT MCBound
SYMMETRY MCSymmetry
SPECIFICATION Spec
INVARIANTS
    TypeOK
    NothingLost
    TimerCoversQueue
    ShownIsStored
    FirstRefusalIsTrue
PROPERTY
    StaysGone
