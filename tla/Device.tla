------------------------------- MODULE Device -------------------------------
(***************************************************************************)
(* The BitBox device session of src/devices/bitbox/device.go.              *)
(*                                                                         *)
(* The session keeps three fields (initialized, password, seeded) from     *)
(* which Status() derives the device status.  Every operation is one or    *)
(* more round trips through the Communication object, whose mutex makes    *)
(* each round trip atomic (module Channel checks that), but nothing locks  *)
(* the session fields themselves: a caller thread reads them before a      *)
(* round trip and writes them after it.  Each thread therefore has a      *)
(* Send step (one atomic round trip) and a Handle step (what the Go code   *)
(* does with the reply, session writes included).                          *)
(*                                                                         *)
(* The physical device (firmware) is not part of the repository; it is     *)
(* the environment, modelled from the spec: password check with a         *)
(* bounded number of attempts before it wipes itself, touch confirmations  *)
(* that the user may abort, the two-call sign protocol (echo, then         *)
(* signatures), and reads that may be corrupted (a flaky device).          *)
(***************************************************************************)
EXTENDS Naturals, Sequences, FiniteSets

CONSTANTS
    Threads,               \* goroutines calling into one Device
    Passwords,             \* passwords a user may type
    HashLists,             \* lists of signature hashes handed to Sign
    BatchSize,             \* signatureBatchSize (device.go:42)
    MaxPings,              \* ping attempts of NewDevice (device.go:163)
    MaxInitializingPings,  \* pings the firmware may answer "initializing"
    MaxAttempts,           \* wrong passwords before the firmware wipes itself
    NoPassword,            \* the empty password string ""
    NoValue                \* absent reply value

ASSUME BatchSize \in Nat \ {0} /\ MaxPings \in Nat \ {0}
ASSUME MaxAttempts \in Nat \ {0} /\ MaxInitializingPings \in Nat
ASSUME NoPassword \notin Passwords

VARIABLES
    initialized, password, seeded,  \* Device fields (device.go:101-108)
    constructed, pings,             \* progress of NewDevice
    fw,                             \* firmware state (environment)
    th                              \* per-thread locals of the running call

vars == <<initialized, password, seeded, constructed, pings, fw, th>>

TrueKey == "xpub"
\* A corrupted read: the two reads of one XPub are never corrupted alike.
Garbage == <<"corrupt1", "corrupt2">>
BadSig == "badsig"

\* A device or wallet name either matches ^[0-9a-zA-Z-_ ]{1,31}$ or not
\* (SetName, CreateWallet): "w@llet" stands for every name that does not.
Names == {"wallet", "w@llet"}
NameMatches(n) == n = "wallet"

\* The stateless commands, each with the JSON key and value it sends
\* (Random, BackupList, EraseBackup, CreateBackup, Blink).
OtherCommand == [random |-> <<"random", "pseudo">>, backupList |-> <<"backup", "list">>,
                 eraseBackup |-> <<"backup", "erase">>,
                 createBackup |-> <<"backup", "create">>, blink |-> <<"led", "abort">>]
OtherCommands == DOMAIN OtherCommand

MinOf(a, b) == IF a < b THEN a ELSE b
Range(f) == {f[i] : i \in DOMAIN f}

-----------------------------------------------------------------------------
(* Device.Status (device.go:202-218), bootloader mode left out.            *)
Status ==
    IF seeded THEN "seeded"
    ELSE IF password # NoPassword THEN "loggedIn"
    ELSE IF initialized THEN "initialized"
    ELSE "uninitialized"

-----------------------------------------------------------------------------
(* Environment: the firmware.  Out(r, f) is one possible answer r together *)
(* with the firmware state f after the command.                            *)
R(type, val) == [type |-> type, val |-> val]
Out(r, f) == [reply |-> r, fw |-> f]

Wiped(f) == [f EXCEPT !.pw = NoPassword, !.seeded = FALSE,
                      !.attempts = MaxAttempts, !.echo = NoValue]

\* An encrypted command once the password matched.  Every command but a
\* repeated sign drops the stored sign echo.
FwCommand(f, c, read) ==
    LET g == [f EXCEPT !.attempts = MaxAttempts, !.echo = NoValue] IN
    CASE c.cmd = "device" ->
            {Out(R("ok", [seeded |-> f.seeded, bootlock |-> f.bootlock]), g)}
      [] c.cmd = "seed" ->
            {Out(R("abort", NoValue), g), Out(R("error", NoValue), g),
             Out(R("ok", "success"), [g EXCEPT !.seeded = TRUE])}
      [] c.cmd = "reset" ->
            {Out(R("abort", NoValue), g), Out(R("ok", "success"), Wiped(f))}
      [] c.cmd = "xpub" ->
            IF ~f.seeded THEN {Out(R("error", NoValue), g)}
            ELSE {Out(R("ok", k), g) : k \in {TrueKey, Garbage[read]}}
      [] c.cmd = "bootloader" /\ c.arg = "lock" ->
            {Out(R("ok", "lock"), [g EXCEPT !.bootlock = TRUE])}
      [] c.cmd = "bootloader" ->
            {Out(R("abort", NoValue), g),
             Out(R("ok", "unlock"), [g EXCEPT !.bootlock = FALSE])}
      [] c.cmd = "sign" /\ f.echo = c.arg ->
            {Out(R("abort", NoValue), g), Out(R("ok", c.arg), g),
             Out(R("ok", <<BadSig>> \o Tail(c.arg)), g)}
      [] c.cmd = "sign" ->
            {Out(R("echo", NoValue), [g EXCEPT !.echo = c.arg])}
      [] c.cmd = "backup" ->   \* no SD card inserted (ErrSDCard), or done
            {Out(R("error", NoValue), g), Out(R("ok", c.arg), g)}
      [] OTHER -> {Out(R("ok", c.arg), g)}

FwEncrypted(f, c, read) ==
    IF f.pw = NoPassword THEN {Out(R("error", NoValue), [f EXCEPT !.echo = NoValue])}
    ELSE IF c.pw # f.pw
    THEN LET left == f.attempts - 1 IN
         {Out(R("wrongpw", left),
              IF left = 0 THEN Wiped(f)
              ELSE [f EXCEPT !.attempts = left, !.echo = NoValue])}
    ELSE FwCommand(f, c, read)

FwPlain(f, c) ==
    LET g == [f EXCEPT !.echo = NoValue] IN
    CASE c.cmd = "ping" ->
            {Out(R("ok", f.pw # NoPassword), g)}
            \cup (IF pings < MaxInitializingPings
                  THEN {Out(R("initializing", NoValue), f)} ELSE {})
      [] c.cmd = "password" ->
            IF f.pw = NoPassword
            THEN {Out(R("ok", "success"), [g EXCEPT !.pw = c.arg])}
            ELSE {Out(R("error", NoValue), g)}

-----------------------------------------------------------------------------
(* Host side.  The command a thread sends next: the JSON key, its value and *)
(* the password it is encrypted with, the session field as the call read it *)
(* (sendKV/send, device.go:227-241).                                        *)
Cmd(plain, cmd, arg, pw) == [plain |-> plain, cmd |-> cmd, arg |-> arg, pw |-> pw]

\* Mutant: the batch upper bound one too high.
BatchOffByOne(t) ==
    LET h == th[t].hashes IN SubSeq(h, th[t].first, MinOf(th[t].first + BatchSize, Len(h)))

\* The hashes of the batch starting at th[t].first (Sign, device.go:711-716).
Batch(t) ==
    LET h == th[t].hashes IN SubSeq(h, th[t].first, MinOf(th[t].first + BatchSize - 1, Len(h)))

Command(t) ==
    LET l == th[t] IN
    CASE l.op = "setPassword"   -> Cmd(TRUE, "password", l.arg, NoPassword)
      [] l.op = "login" /\ l.stage = 1 -> Cmd(FALSE, "device", "info", l.arg)
      [] l.op = "login"         -> Cmd(FALSE, "bootloader", "lock", l.pw)
      [] l.op = "createWallet"  -> Cmd(FALSE, "seed", "create", l.pw)
      [] l.op = "restoreBackup" -> Cmd(FALSE, "seed", "backup", l.pw)
      [] l.op = "reset"         -> Cmd(FALSE, "reset", "__ERASE__", l.pw)
      [] l.op = "xpub"          -> Cmd(FALSE, "xpub", "m/0", l.pw)
      [] l.op = "sign"          -> Cmd(FALSE, "sign", Batch(t), l.pw)
      [] l.op \in {"lock", "unlock"} -> Cmd(FALSE, "bootloader", l.op, l.pw)
      [] l.op = "setName"       -> Cmd(FALSE, "name", l.arg, l.pw)
      [] OTHER -> Cmd(FALSE, OtherCommand[l.arg][1], OtherCommand[l.arg][2], l.pw)

\* The operations a caller may start, given the status it sees.
OpsFor(s) ==
    LET loggedIn == {<<o, NoValue>> : o \in {"restoreBackup", "reset", "lock", "unlock"}}
                    \cup {<<o, n>> : o \in {"createWallet", "setName"}, n \in Names}
                    \cup {<<"other", c>> : c \in OtherCommands}
    IN CASE s = "uninitialized" -> {<<"setPassword", p>> : p \in Passwords}
         [] s = "initialized"   -> {<<"login", p>> : p \in Passwords}
         [] s = "loggedIn"      -> loggedIn
         [] s = "seeded"        -> loggedIn \cup {<<"xpub", NoValue>>, <<"sign", NoValue>>}

\* The method returns: its locals are gone; the caller keeps the operation,
\* its hashes and the result.
Return(t, ok, val) ==
    th' = [th EXCEPT ![t] = [@ EXCEPT !.pc = "idle", !.pw = NoPassword, !.arg = NoValue,
                                      !.stage = 1, !.first = 1, !.acc = <<>>,
                                      !.reply = NoValue, !.ret = [ok |-> ok, val |-> val]]]

\* The next call of the operation, with the session password it reads as its
\* argument (dbb.password is read at the call, before SendEncrypt locks).
SendAgain(t, stage, pw) ==
    th' = [th EXCEPT ![t].pc = "send", ![t].stage = stage, ![t].pw = pw]

Handling(t, ops) == th[t].pc = "handle" /\ th[t].op \in ops

\* Ping (device.go:308-317): the device is initialized when the reply's
\* "ping" field says "password".
PingInitialized(r) == r.type = "ok" /\ r.val

\* seed's reply check (device.go:410-412): reply["seed"] must be "success".
SeedOk(r) == r.type = "ok" /\ r.val = "success"

-----------------------------------------------------------------------------
(* NewDevice's ping loop (device.go:160-176) with Ping (device.go:308-317): *)
(* ping until the device no longer answers "initializing", at most MaxPings *)
(* times. Any other error makes NewDevice return no device at all; such a   *)
(* run has no session to check, so the firmware here never gives one.       *)
(* After the last failed ping the loop ends and initialized keeps the false *)
(* that the failing Ping returned.                                          *)
NewDevicePing ==
    /\ ~constructed
    /\ pings < MaxPings
    /\ \E o \in FwPlain(fw, Cmd(TRUE, "ping", NoValue, NoPassword)) :
         /\ fw' = o.fw
         /\ IF o.reply.type = "initializing"
            THEN /\ pings' = pings + 1
                 /\ constructed' = (pings + 1 = MaxPings)
                 /\ initialized' = FALSE
            ELSE /\ constructed' = TRUE
                 /\ initialized' = PingInitialized(o.reply)
                 /\ UNCHANGED pings
    /\ UNCHANGED <<password, seeded, th>>

\* A caller starts an operation on the constructed device; Sign's hashes
\* are one of HashLists.
Start(t) ==
    /\ constructed
    /\ th[t].pc = "idle"
    /\ \E oa \in OpsFor(Status) :
       \E h \in IF oa[1] = "sign" THEN HashLists ELSE {<<>>} :
         th' = [th EXCEPT ![t] = [pc |-> "send", op |-> oa[1], arg |-> oa[2], hashes |-> h, pw |-> password,
                                  stage |-> 1, first |-> 1, acc |-> <<>>,
                                  reply |-> NoValue, ret |-> NoValue]]
    /\ UNCHANGED <<initialized, password, seeded, constructed, pings, fw>>

\* SetName and CreateWallet check the name before any round trip.
NameRejected(t) == th[t].op \in {"createWallet", "setName"} /\ ~NameMatches(th[t].arg)

RejectName(t) ==
    /\ th[t].pc = "send"
    /\ NameRejected(t)
    /\ Return(t, FALSE, NoValue)
    /\ UNCHANGED <<initialized, password, seeded, constructed, pings, fw>>

\* One round trip: Communication.SendPlain/SendEncrypt under its mutex.
Send(t) ==
    /\ th[t].pc = "send"
    /\ ~NameRejected(t)
    /\ LET c == Command(t) IN
       \E o \in IF c.plain THEN FwPlain(fw, c) ELSE FwEncrypted(fw, c, th[t].stage) :
         /\ fw' = o.fw
         /\ th' = [th EXCEPT ![t].pc = "handle", ![t].reply = o.reply]
    /\ UNCHANGED <<initialized, password, seeded, constructed, pings>>

-----------------------------------------------------------------------------
(* The Handle steps: what each operation does with the reply.  Every reply *)
(* that is not "ok" is an error returned by SendPlain/SendEncrypt.         *)
Session == <<initialized, password, seeded>>
Frozen == <<constructed, pings, fw>>

\* Mutant: the session takes the reply field instead of the password sent.
HandleSetPasswordFromReply(t) ==
    /\ Handling(t, {"setPassword"})
    /\ LET ok == th[t].reply.type = "ok" /\ th[t].reply.val = "success" IN
       /\ password' = IF ok THEN th[t].reply.val ELSE password
       /\ Return(t, ok, NoValue)
    /\ UNCHANGED <<initialized, seeded>>
    /\ UNCHANGED Frozen

\* SetPassword (device.go:321-333): the session adopts the password, but
\* initialized is left as it was.
HandleSetPassword(t) ==
    /\ Handling(t, {"setPassword"})
    /\ LET ok == th[t].reply.type = "ok" /\ th[t].reply.val = "success" IN
       /\ password' = IF ok THEN th[t].arg ELSE password
       /\ Return(t, ok, NoValue)
    /\ UNCHANGED <<initialized, seeded>>
    /\ UNCHANGED Frozen

\* LockBootloader's reply check (device.go:645-655).
LockReplyOk(r) == r.type = "ok" /\ r.val = "lock"

\* Mutant: the bootlock test inverted.
HandleLoginLocksWhenLocked(t) ==
    /\ Handling(t, {"login"})
    /\ LET r == th[t].reply IN
       IF th[t].stage = 2
       THEN Return(t, LockReplyOk(r), NoValue) /\ UNCHANGED Session
       ELSE IF r.type # "ok"
       THEN /\ Return(t, FALSE, IF r.type = "wrongpw" THEN r.val ELSE NoValue)
            /\ UNCHANGED Session
       ELSE /\ password' = th[t].arg
            /\ seeded' = r.val.seeded
            /\ IF ~r.val.bootlock THEN Return(t, TRUE, NoValue) ELSE SendAgain(t, 2, th[t].arg)
            /\ UNCHANGED initialized
    /\ UNCHANGED Frozen

\* Login (device.go:338-367): deviceInfo(password); on success adopt the
\* password and the seeded flag, then lock an unlocked bootloader.  On
\* failure the remaining attempts parsed from the error are returned.
HandleLogin(t) ==
    /\ Handling(t, {"login"})
    /\ LET r == th[t].reply IN
       IF th[t].stage = 2
       THEN Return(t, LockReplyOk(r), NoValue) /\ UNCHANGED Session
       ELSE IF r.type # "ok"
       THEN /\ Return(t, FALSE, IF r.type = "wrongpw" THEN r.val ELSE NoValue)
            /\ UNCHANGED Session
       ELSE /\ password' = th[t].arg
            /\ seeded' = r.val.seeded
            /\ IF r.val.bootlock THEN Return(t, TRUE, NoValue) ELSE SendAgain(t, 2, th[t].arg)
            /\ UNCHANGED initialized
    /\ UNCHANGED Frozen

\* CreateWallet (device.go:441-459), once the name passed.
HandleCreateWallet(t) ==
    /\ Handling(t, {"createWallet"})
    /\ LET ok == SeedOk(th[t].reply) IN
       /\ seeded' = (seeded \/ ok)
       /\ Return(t, ok, NoValue)
    /\ UNCHANGED <<initialized, password>>
    /\ UNCHANGED Frozen

\* RestoreBackup (device.go:475-487): a user abort is (false, nil).
HandleRestoreBackup(t) ==
    /\ Handling(t, {"restoreBackup"})
    /\ LET r == th[t].reply
           ok == SeedOk(r)
       IN /\ seeded' = (seeded \/ ok)
          /\ Return(t, ok \/ r.type = "abort", ok)
    /\ UNCHANGED <<initialized, password>>
    /\ UNCHANGED Frozen

\* Mutant: the erase leaves initialized set.
HandleResetKeepsInitialized(t) ==
    /\ Handling(t, {"reset"})
    /\ LET r == th[t].reply
           ok == r.type = "ok" /\ r.val = "success"
       IN /\ IF ok THEN /\ password' = NoPassword
                        /\ seeded' = FALSE
                        /\ UNCHANGED initialized
                   ELSE UNCHANGED Session
          /\ Return(t, ok \/ r.type = "abort", ok)
    /\ UNCHANGED Frozen

\* Reset (device.go:517-534): a user abort is (false, nil); an erase clears
\* all three session fields.
HandleReset(t) ==
    /\ Handling(t, {"reset"})
    /\ LET r == th[t].reply
           ok == r.type = "ok" /\ r.val = "success"
       IN /\ IF ok THEN /\ password' = NoPassword
                        /\ seeded' = FALSE
                        /\ initialized' = FALSE
                   ELSE UNCHANGED Session
          /\ Return(t, ok \/ r.type = "abort", ok)
    /\ UNCHANGED Frozen

\* Mutant: the second read is not compared with the first.
HandleXPubSingleRead(t) ==
    /\ Handling(t, {"xpub"})
    /\ LET r == th[t].reply IN
       CASE r.type # "ok" -> Return(t, FALSE, NoValue)
         [] th[t].stage = 1 ->
              th' = [th EXCEPT ![t].acc = <<r.val>>, ![t].pc = "send", ![t].stage = 2,
                                 ![t].pw = password]
         [] OTHER -> Return(t, TRUE, th[t].acc[1])
    /\ UNCHANGED Session
    /\ UNCHANGED Frozen

\* Mutant: reads that differ start XPub over instead of failing.
HandleXPubRetry(t) ==
    /\ Handling(t, {"xpub"})
    /\ LET r == th[t].reply IN
       CASE r.type # "ok" -> Return(t, FALSE, NoValue)
         [] th[t].stage = 1 ->
              th' = [th EXCEPT ![t].acc = <<r.val>>, ![t].pc = "send", ![t].stage = 2,
                                 ![t].pw = password]
         [] r.val = th[t].acc[1] -> Return(t, TRUE, th[t].acc[1])
         [] OTHER -> SendAgain(t, 1, password)
    /\ UNCHANGED Session
    /\ UNCHANGED Frozen

\* XPub (device.go:537-564): read twice, fail if the reads differ.
HandleXPub(t) ==
    /\ Handling(t, {"xpub"})
    /\ LET r == th[t].reply IN
       CASE r.type # "ok" -> Return(t, FALSE, NoValue)
         [] th[t].stage = 1 ->
              th' = [th EXCEPT ![t].acc = <<r.val>>, ![t].pc = "send", ![t].stage = 2,
                                 ![t].pw = password]
         [] r.val = th[t].acc[1] -> Return(t, TRUE, th[t].acc[1])
         [] OTHER -> Return(t, FALSE, NoValue)
    /\ UNCHANGED Session
    /\ UNCHANGED Frozen

\* Sign (device.go:699-748) with signBatch (device.go:659-695): per batch
\* the same command twice, the first reply only checked for an error, the
\* second parsed as the signatures of the batch.
HandleSign(t) ==
    /\ Handling(t, {"sign"})
    /\ LET r == th[t].reply
           l == th[t]
       IN CASE r.type \notin {"ok", "echo"} -> Return(t, FALSE, NoValue)
            [] l.stage = 1 -> SendAgain(t, 2, password)
            [] r.type # "ok" \/ BadSig \in Range(r.val) -> Return(t, FALSE, NoValue)
            [] l.first + BatchSize > Len(l.hashes) -> Return(t, TRUE, l.acc \o r.val)
            [] OTHER -> th' = [th EXCEPT ![t].acc = l.acc \o r.val,
                                        ![t].first = l.first + BatchSize,
                                        ![t].pc = "send", ![t].stage = 1,
                                        ![t].pw = password]
    /\ UNCHANGED Session
    /\ UNCHANGED Frozen

\* SetName (device.go:420-440), once the name passed: the reply must carry
\* the name that was sent.
HandleSetName(t) ==
    /\ Handling(t, {"setName"})
    /\ Return(t, th[t].reply.type = "ok" /\ th[t].reply.val = th[t].arg, NoValue)
    /\ UNCHANGED Session
    /\ UNCHANGED Frozen

\* UnlockBootloader, LockBootloader (device.go:633-655).
HandleBootloader(t) ==
    /\ Handling(t, {"lock", "unlock"})
    /\ Return(t, th[t].reply.type = "ok" /\ th[t].reply.val = th[t].op, NoValue)
    /\ UNCHANGED Session
    /\ UNCHANGED Frozen

\* Random, BackupList, EraseBackup (device.go:566-630), CreateBackup and
\* Blink: one round trip, the reply checked, the session untouched.
HandleOther(t) ==
    /\ Handling(t, {"other"})
    /\ Return(t, th[t].reply.type = "ok", NoValue)
    /\ UNCHANGED Session
    /\ UNCHANGED Frozen

-----------------------------------------------------------------------------
FwStates ==
    {[pw |-> p, seeded |-> s, bootlock |-> b, attempts |-> MaxAttempts, echo |-> NoValue] :
        p \in Passwords \cup {NoPassword}, s \in BOOLEAN, b \in BOOLEAN}

Init ==
    /\ initialized = FALSE
    /\ password = NoPassword
    /\ seeded = FALSE
    /\ constructed = FALSE
    /\ pings = 0
    /\ fw \in {f \in FwStates : f.pw = NoPassword => ~f.seeded}
    /\ th = [t \in Threads |-> [pc |-> "idle", op |-> "none", arg |-> NoValue, hashes |-> <<>>, pw |-> NoPassword,
                                stage |-> 1, first |-> 1, acc |-> <<>>,
                                reply |-> NoValue, ret |-> NoValue]]

Handle(t) ==
    \/ HandleSetPassword(t)
    \/ HandleLogin(t)
    \/ HandleCreateWallet(t)
    \/ HandleRestoreBackup(t)
    \/ HandleReset(t)
    \/ HandleXPub(t)
    \/ HandleSign(t)
    \/ HandleSetName(t)
    \/ HandleBootloader(t)
    \/ HandleOther(t)

Next ==
    \/ NewDevicePing
    \/ \E t \in Threads : Start(t) \/ RejectName(t) \/ Send(t) \/ Handle(t)

Spec == Init /\ [][Next]_vars

(* Fairness.  A caller inside a Device method runs on its own goroutine   *)
(* and blocks only in a round trip; the firmware is assumed to answer     *)
(* every command (a touch is confirmed or aborted), as in Channel's        *)
(* FairSpec.  Starting an operation is not fair: a caller need not call.  *)
FairSpec ==
    /\ Spec
    /\ WF_vars(NewDevicePing)
    /\ \A t \in Threads : WF_vars(RejectName(t) \/ Send(t) \/ Handle(t))

-----------------------------------------------------------------------------
TypeOK ==
    /\ initialized \in BOOLEAN /\ seeded \in BOOLEAN
    /\ password \in Passwords \cup {NoPassword}
    /\ constructed \in BOOLEAN /\ pings \in 0..MaxPings
    /\ fw.pw \in Passwords \cup {NoPassword}
    /\ fw.attempts \in 1..MaxAttempts
    /\ \A t \in Threads :
         /\ th[t].pc \in {"idle", "send", "handle"}
         /\ th[t].stage \in {1, 2}
         /\ th[t].pw \in Passwords \cup {NoPassword}
         /\ th[t].reply = NoValue \/ th[t].reply.type \in
               {"ok", "echo", "abort", "error", "wrongpw", "initializing"}

\* No thread is inside a call, so the session fields are not half-updated.
Quiescent == constructed /\ \A t \in Threads : th[t].pc = "idle"

(* Whenever no call is in progress, the status Device.Status() reports     *)
(* (device.go:202-218) is the state the device is really in: an            *)
(* uninitialized session means the device has no password, an initialized *)
(* one that it has one, a logged-in session holds the device's password,   *)
(* and a seeded one also means the device holds a wallet.  This is what    *)
(* NewDevice's ping loop, Login, SetPassword, CreateWallet, RestoreBackup  *)
(* and Reset must keep right between them.                                 *)
StatusSound ==
    Quiescent =>
        CASE Status = "uninitialized" -> fw.pw = NoPassword
          [] Status = "initialized"   -> fw.pw # NoPassword
          [] Status = "loggedIn"      -> fw.pw = password /\ ~fw.seeded
          [] Status = "seeded"        -> fw.pw = password /\ fw.seeded

(* XPub (device.go:537-564) returns a key only if it is the device's key:  *)
(* the double read catches a corrupted read.                               *)
XPubReturnsDeviceKey ==
    \A t \in Threads :
        (th[t].pc = "idle" /\ th[t].op = "xpub" /\ th[t].ret.ok)
            => th[t].ret.val = TrueKey

(* A Sign call (device.go:699-748) that succeeds returns, in order, one     *)
(* signature for each hash it was given (a signature is identified with    *)
(* the hash it signs), whatever other calls interleave with its batches.   *)
SignReturnsOwnSignatures ==
    \A t \in Threads :
        (th[t].pc = "idle" /\ th[t].op = "sign" /\ th[t].ret.ok)
            => th[t].ret.val = th[t].hashes

(* Every Device call returns: the multi-round-trip methods (Login with its *)
(* bootloader lock, XPub's two reads, Sign's echo batches) end after a     *)
(* bounded number of round trips, whatever the firmware answers, and      *)
(* NewDevice's ping loop ends after MaxPings.                              *)
CallsReturn ==
    /\ <>constructed
    /\ \A t \in Threads : th[t].pc # "idle" ~> th[t].pc = "idle"

\* The step in which thread t's Login returns success.
LoginReturnsOk(t) ==
    th[t].op = "login" /\ th[t].pc = "handle" /\ th'[t].pc = "idle" /\ th'[t].ret.ok

(* Login (device.go:338-367) never reports success while the device's      *)
(* bootloader is unlocked: it locks it first.                              *)
LoginLeavesBootloaderLocked ==
    [][\A t \in Threads : LoginReturnsOk(t) => fw'.bootlock]_vars

=============================================================================
