\* Three events: two starts that overlap, and one that is over before or after.
CONSTANT
    MaxEvents = 3
SPECIFICATION GateFairSpec
INVARIANTS
    GateTypeOK
    NeverEarly
PROPERTIES
    KeepsScreens
    CameraStays
    GateFollows
