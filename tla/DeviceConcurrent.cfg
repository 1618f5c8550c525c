\* Two goroutines calling into one Device, two passwords (so wrong ones and
\* the wipe after MaxAttempts happen); each round trip is atomic under
\* the Communication mutex, the session fields are not locked.
CONSTANTS
    Threads = {t1, t2}
    Passwords = {p1, p2}
    HashLists <- MCHashLists
    BatchSize = 2
    MaxPings = 20
    MaxInitializingPings = 1
    MaxAttempts = 2
    NoPassword = NoPassword
    NoValue = NoValue
SPECIFICATION Spec
INVARIANT SignReturnsOwnSignatures
INVARIANT XPubReturnsDeviceKey
