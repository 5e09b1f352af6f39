\* One tab, and a store that may fail to write once.
CONSTANTS
    Tabs = {t1}
    Captures = {c1, c2}
    NoCapture = NoCapture
    TakenAt <- MCTakenAt
    MaxBackoff = 1
    MaxAttempts = 1
    MayFail = {"write"}
    MaxEvents = 1
    MaxReloads = 0
VIEW MCView
SPECIFICATION FairSpec
PROPERTY
    EverySettles
