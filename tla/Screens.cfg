CONSTANTS
    MaxEvents = 2
    MaxPhotos = 2
    MaxAsks = 2
    MaxLeaks = 1
    MaxStale = 1
CONSTRAINT MCBound
SPECIFICATION ScreensSpec
INVARIANTS
    CameraTypeOK
    PreviewsAccounted
    ShowTypeOK
    ShowInRange
    LocksReleased
PROPERTIES
    FlipHandsBack
    TurnsToAwaited
    CameraComesBack
    ShowGoesOn
