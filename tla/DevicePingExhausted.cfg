\* The firmware keeps answering "initializing" for all 20 pings of NewDevice.
CONSTANTS
    Threads = {t1}
    Passwords = {p1}
    HashLists <- MCHashLists
    BatchSize = 2
    MaxPings = 20
    MaxInitializingPings = 20
    MaxAttempts = 2
    NoPassword = NoPassword
    NoValue = NoValue
SPECIFICATION Spec
INVARIANT StatusSound
