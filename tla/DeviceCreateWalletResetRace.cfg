\* Two callers, one password: after a finished Login, CreateWallet and Reset
\* interleave.
CONSTANTS
    Threads = {t1, t2}
    Passwords = {p1}
    HashLists <- MCHashLists
    BatchSize = 2
    MaxPings = 20
    MaxInitializingPings = 1
    MaxAttempts = 2
    NoPassword = NoPassword
    NoValue = NoValue
SPECIFICATION Spec
INVARIANT StatusSound
