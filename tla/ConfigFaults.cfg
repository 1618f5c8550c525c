\* Two setters, failing writes and one crash at any point.
CONSTANTS
    Threads = {t1, t2}
    Values = {v1, v2}
    Default = Default
    Missing = Missing
    Truncated = Truncated
    NoThread = NoThread
    InitFiles = {v1, Missing}
    MaxCrashes = 1
    MaxRestarts = 3
    WriteErrors = TRUE
SPECIFICATION Spec
\* After the last restart the app stays up or quits for good.
CHECK_DEADLOCK FALSE
INVARIANT TypeOK SavedMatchesMemory
