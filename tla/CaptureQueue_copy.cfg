\* An answer that is lost just before the event ends, and one event after the
\* other.
CONSTANTS
    Tabs = {t1}
    Captures = {c1}
    NoCapture = NoCapture
    TakenAt <- MCTakenAt
    MaxBackoff = 2
    MaxAttempts = 2
    MayFail = {}
    MaxEvents = 2
    MaxReloads = 0
ACTION_CONSTRAINT MCInTurn
SPECIFICATION Spec
INVARIANT
    NoSecondCopy
