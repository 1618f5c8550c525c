\* One caller thread (the spec's single-caller discipline), one password.
CONSTANTS
    Threads = {t1}
    Passwords = {p1}
    HashLists <- MCHashLists
    BatchSize = 2
    MaxPings = 20
    MaxInitializingPings = 2
    MaxAttempts = 2
    NoPassword = NoPassword
    NoValue = NoValue
SPECIFICATION FairSpec
INVARIANT TypeOK
INVARIANT StatusSound
PROPERTY LoginLeavesBootloaderLocked CallsReturn
