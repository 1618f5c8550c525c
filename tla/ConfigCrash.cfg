\* Both files written before; the process may crash once, at any point.
CONSTANTS
    Threads = {t1, t2}
    Values = {v1, v2}
    Default = Default
    Missing = Missing
    Truncated = Truncated
    NoThread = NoThread
    InitFiles = {v1, Default}
    MaxCrashes = 1
    MaxRestarts = 3
    WriteErrors = FALSE
SPECIFICATION Spec
CHECK_DEADLOCK FALSE
PROPERTY PersistedAcrossRestart
