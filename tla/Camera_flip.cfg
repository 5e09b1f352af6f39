\* One request may be overtaken: by a flip, or by a return to the page.
CONSTANTS
    MaxLeaks = 1
    MaxStale = 1
SPECIFICATION CameraSpec
PROPERTY
    FlipNeverTakesOver
