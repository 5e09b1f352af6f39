\* An upload admitted before the end, stored after it.
CONSTANTS
    Handlers = {h1, h2}
    Starters = {h1}
    Captures = {c1}
    NoCapture = NoCapture
    TakenAt <- MCTakenAt
    PhotoIds = {1}
    MaxTime = 1
    MaxEvents = 1
SPECIFICATION Spec
PROPERTY
    NoLateRows
