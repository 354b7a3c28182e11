\* The interval of the sleep right after a received command.
CONSTANTS
    ConfigIntervals = {10}
    Durations = {0, 4, 70}
    MaxActivity = 3
SPECIFICATION Spec
INVARIANT FastAfterCommand
