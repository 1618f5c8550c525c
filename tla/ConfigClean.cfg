\* Two setters, clean shutdowns and restarts, both files written before.
CONSTANTS
    Threads = {t1, t2}
    Values = {v1, v2}
    Default = Default
    Missing = Missing
    Truncated = Truncated
    NoThread = NoThread
    InitFiles = {v1, Default}
    MaxCrashes = 0
    MaxRestarts = 3
    WriteErrors = FALSE
SPECIFICATION Spec
\* After the last restart the app stays up or quits for good.
CHECK_DEADLOCK FALSE
PROPERTY PersistedAcrossRestart
