\* One tab with one capture, one event, two handlers of which one starts
\* events, a reload: a request that is repeated while the first still runs, or
\* whose page has gone.
CONSTANTS
    Handlers = {h1, h2}
    Starters = {h1}
    Captures = {c1}
    NoCapture = NoCapture
    TakenAt <- MCTakenAt
    PhotoIds = {1}
    MaxTime = 1
    MaxEvents = 1
    Tabs = {t1}
    MaxBackoff = 1
    MaxAttempts = 1
    MayFail = {}
    MaxReloads = 1
    OnItsWay = OnItsWay
    Broken = Broken
CONSTRAINT MCBound
VIEW MCView
SPECIFICATION DeliverySpec
INVARIANT
    DeliveryTypeOK
    RefusedForGood
    DeliveredOrHeld
PROPERTY
    KeepsQueue
