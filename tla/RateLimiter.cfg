\* Two processes, one of which handles two requests at a time; outages without
\* limit.
CONSTANTS
    p1 = p1
    p2 = p2
    Procs = {p1, p2}
    Slots <- MCSlots
    MaxRequests = 1
    Window = 2
    ProbeGap = 1
SPECIFICATION Spec
INVARIANTS
    TypeOK
    FleetBounded
PROPERTIES
    Recovers
