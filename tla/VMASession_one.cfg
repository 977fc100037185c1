\* One nxagent that may die, be slow or be refused its configuration.
SPECIFICATION RetriedSpec
CONSTANTS
    r1 = r1
    Reqs = {r1}
    MaxStarts = 1
    MaxLines = 3
    Faults = {"slow", "die", "config"}
INVARIANTS
    StateTrue
PROPERTIES
    TimedEnds
CHECK_DEADLOCK FALSE
