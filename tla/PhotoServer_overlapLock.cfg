\* Two POST /events may overlap: the lock.
CONSTANTS
    Handlers = {h1, h2}
    Starters = {h1, h2}
    Captures = {c1}
    NoCapture = NoCapture
    TakenAt <- MCTakenAt
    PhotoIds = {1}
    MaxTime = 1
    MaxEvents = 2
SPECIFICATION Spec
INVARIANT
    Sealed
