\* One POST /events at a time: two handlers, two events, one
\* capture that may be taken for either.
CONSTANTS
    Handlers = {h1, h2}
    Starters = {h1}
    Captures = {c1}
    NoCapture = NoCapture
    TakenAt <- MCTakenAt
    PhotoIds = {1, 2}
    MaxTime = 2
    MaxEvents = 2
SPECIFICATION Spec
INVARIANTS
    TypeOK
    RowsHaveObjects
    AckedIsStored
    OneCopyPerEvent
    Sealed
    OlderEventsAreOver
    StartedIsActive
PROPERTIES
    PagesShowOverEvents
    KeepsPromise
