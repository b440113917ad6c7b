\* Windows of two seconds, six seconds of time: every slot is reused twice.
CONSTANTS
    WindowSecs = 2
    NBands = 2
    FirstSecond = 3
    LastSecond = 8
    MaxPerSecond = 2
SPECIFICATION Spec
INVARIANTS
    CountsWholeWindow
PROPERTIES
    ImplementsAgedWindow
