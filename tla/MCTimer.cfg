CONSTANTS
    h1 = h1
    h2 = h2
    h3 = h3
    s1 = s1
    s2 = s2
    s3 = s3
    delay = delay
    Hard = {h1, h2, h3, delay}
    Soft = {s1, s2, s3}
    Delay = delay
    RT_TICK_MAX = 9
    Settings <- MCSettings
    Created = {{h1, h2}, {h3, s3}, {s1, s2}}
    MaxLag = 1
SPECIFICATION Spec
INVARIANTS
    TimersConsistent
PROPERTIES
    NeverEarly
    TickServesAllDue
    HardStopHolds
    DelayEnds
