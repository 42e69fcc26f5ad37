SPECIFICATION Spec
CONSTANTS
    Clients = {c1}
    Rpm = 2
    CreateFloor = 3
    Window = 2
    MaxTime = 7
INVARIANTS
    TypeOK
    WindowHolds
    CountIsExact
    DequeIsBounded
