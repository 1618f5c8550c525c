\* Only one of the two files may exist when the app first starts.
CONSTANTS
    Threads = {t1, t2}
    Values = {v1, v2}
    Default = Default
    Missing = Missing
    Truncated = Truncated
    NoThread = NoThread
    InitFiles = {v1, Missing}
    MaxCrashes = 0
    MaxRestarts = 3
    WriteErrors = FALSE
SPECIFICATION Spec
CHECK_DEADLOCK FALSE
PROPERTY PersistedAcrossRestart
