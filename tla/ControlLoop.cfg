\* Poll intervals as paired (invalid, small, default, large), poll cycles
\* from instant to longer than the boost window.
CONSTANTS
    ConfigIntervals <- MCIntervals
    Durations = {0, 4, 70}
    MaxActivity = 3
SPECIFICATION Spec
INVARIANT TypeOK
INVARIANT BoostWindowHonoured
PROPERTY ReturnsToBase
