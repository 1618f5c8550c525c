# TLA+ models of the BitBox wallet app's device stack

These modules model the host side of the BitBox hardware-wallet connection:
- the USB HID framing and its mutex (`src/devices/usb/communication.go`);
- the device session built on top of it (`src/devices/bitbox/device.go`);
- the transaction signing that uses it (`src/coins/btc/sign.go`).

The firmware on the other end of the cable is not code of this repository.
It appears in the models only as an environment: the answers it may give.

## The system

| Part | Source | State | Operations |
|---|---|---|---|
| USB framing | `communication.go` `sendFrame`, `readFrame`, `SendPlain` | `Communication.mutex`; the frames on the wire | `SendPlain` takes the mutex, writes an init frame (CID, command byte, 16-bit length, payload) and 0xee-padded continuation frames, reads the reply frames, trims trailing spaces and NULs, decodes the JSON. |
| Encrypted channel | `communication.go` `SendEncrypt`, `maybeDBBErr` | none of its own | Encrypt with the double-SHA256 of the password, `SendPlain`, decrypt, turn an `error` field into a `bitbox.Error`. |
| Device session | `device.go` | `initialized`, `password`, `seeded` (the `Device` struct, lines 93-115) | `NewDevice` (ping loop), `Status`, `SetPassword`, `Login` (+ `LockBootloader`), `CreateWallet`, `RestoreBackup`, `Reset`, `XPub` (two reads), `Sign` (batches of 15, each sent twice: echo, then sign), `SetName`, `Random`, `BackupList`, `EraseBackup`, `CreateBackup`, `Blink`, `UnlockBootloader`, `LockBootloader` |
| Transaction signer | `src/coins/btc/sign.go` | the transaction being signed | `SignTransaction`: collect sighashes, `keystore.Sign`, count and validity checks |
| App config | `src/unnamed/part_000` | the two JSON config files and their in-memory copies | `load`, `SetAppConfig`, `SetAccountsConfig`, `save` behind a locker |
| Schema, UI | `hww.proto`, `part_001`, `*.jsx`/`*.tsx`, `device.go` 767-911 | — | message declarations and presentation |

How they interact:
- Every `Device` method goes through `send`/`sendKV` → `SendEncrypt` → `SendPlain`.
- `Communication.mutex` serialises each round trip. Nothing serialises the
  `Device` methods: they read the session fields before a round trip and write
  them after it, unlocked. Several methods make more than one round trip
  (`Login`, `XPub`, `signBatch`, `Sign`).
- `SignTransaction` calls `Sign` through the keystore.

Hard behaviours of this code:
- unlocked session writes racing across callers;
- multi-round-trip operations that are not atomic;
- a failed `Read` that leaves reply frames queued, with no request ids to
  tell a stale reply from the right one;
- the firmware wiping itself after too many wrong passwords;
- the bounded ping loop at construction;
- the 16-bit length field and the 8-bit sequence number, which would wrap
  only for messages of 64 KiB and about 15 KiB; the largest command, a
  15-hash sign batch, is about 2 KiB once encrypted, so neither is reached.

## Modules

### `Channel.tla` (+ `MCChannel.tla`) — USB framing and the mutex

- **State.**
  - `mutex`: the holder of `Communication.mutex`.
  - `toDevice`, `toHost`: the frames in flight.
  - `dev`: the device's reassembly buffer.
  - `th[t]`: the locals of each goroutine in `SendPlain` (`pc`, the rest of
    the message, `seq`, the received data, `idx`, `dataLen`, the result).
  - `failures`: the I/O failures so far.
- **Actions.** Every `device.Write` and `device.Read` is its own step, so the
  interleavings are exactly those the mutex allows.
  - `Lock`: `SendPlain` takes the mutex.
  - `WriteInit`, `WriteCont`: `sendFrame`.
  - `ReadInit`, `ReadCont`: `readFrame`.
  - `IOError`: a failing Read or Write, which runs the deferred Unlock.
  - `Finish`: the trim and the unlock.
- **Data.** Bytes are real numbers 0..255.
  - The length field is `LenBytes`, `% 65536`.
  - The trim is `TrimRight` over the bytes `unicode.IsSpace` or NUL accepts.
- **The device.** It reassembles frames as spec.md describes and answers with
  the message itself (a loopback), padded with `DevicePad`.

### `AtomicChannel.tla` — what `SendPlain` promises

The abstract channel has no frames. `owner` is the caller holding the
channel, and `call[t]` says whether `t` is inside a call, with its message
and last result. `Begin` starts a call when nobody holds the channel.
`Answer` returns the device's answer to the caller's own message, and
`Fail` returns an error. Weak fairness on `Answer \/ Fail` means a call
that has begun returns.

`Channel` implements it (`ChannelImplementsAtomic`) under this mapping:
- `owner` is `mutex`;
- a caller is inside a call from `Lock` until `Finish` or `Fail`;
- the answer is the loopback message after `TrimRight`.

Every frame step is a stuttering step of the abstract spec.

### `Device.tla` (+ `MCDevice.tla`) — the device session

- **State.** The session fields. `constructed`/`pings` model `NewDevice`'s
  loop. `fw` is the firmware: its password, seeded flag, bootloader lock,
  remaining attempts and stored sign echo. `th[t]` holds each caller's
  operation, its argument (`hashes` for `Sign`), stage, current batch,
  accumulated result and reply.
- **Round trips.** `Send(t)` is one atomic round trip (`SendEncrypt` or
  `SendPlain` under the mutex). It encrypts with `th[t].pw`, the session
  `password` as the call read it (`dbb.password` is an argument of
  `sendKV`/`send`, read before `SendEncrypt` takes the mutex). `Start` and
  every step that issues a method's next call (`SendAgain`) capture it, so
  another caller may change the session between that read and the round trip.
- **Handling replies.** `Handle*` does what the method does with the reply:
  - the session writes;
  - the second round trip of `Login`, `XPub`, `signBatch`;
  - the next batch of `Sign`.
  Every `HandleX` is the whole of method X after its round trip.
  When a method returns (`Return`), its locals are cleared. The caller keeps
  the operation, its hashes and the result.
- **Callers.** `Start(t)` lets a caller begin any operation the status it
  sees allows (`OpsFor`). This is how the app's handlers gate them.
- **Local checks.** `SetName` and `CreateWallet` first match the name
  against `^[0-9a-zA-Z-_ ]{1,31}$`. `Names` holds one name that passes and
  one that does not. `RejectName(t)` is the error they return before any
  round trip.
- **Stateless commands.** `OtherCommand` gives the JSON key and value that
  `Random`, `BackupList`, `EraseBackup`, `CreateBackup` and `Blink` send.
  `HandleOther` checks the reply and leaves the session alone.
- **The firmware.** It is nondeterministic:
  - commands may abort (user cancel) or fail;
  - the xpub read may be corrupted;
  - a sign may return a malformed signature;
  - wrong passwords count down to a wipe;
  - a backup command fails when no SD card is inserted;
  - any command but a repeated sign drops the stored echo.

### `Config.tla` — the app configuration and its files

- **State.**
  - `up`: whether the process is running.
  - `mem`: the two in-memory configs.
  - `file`: the two files. Each holds a value, `Missing`, or `Truncated`,
    which is unparseable.
  - `lock`: the holder of the write lock.
  - `th[t]`: each setter's progress.
  - `saved`: a history variable, the value each kind's last successful save
    wrote.
  - `ret`: a history variable, what the last setter of each kind returned
    since the process started (`none`, `ok` or `error`).
  - The crash and restart counters.
- **Actions.**
  - `Set`: `SetAppConfig`/`SetAccountsConfig`. It takes the lock and assigns
    memory.
  - `Open`: `WriteFile`'s `O_TRUNC`.
  - `Write`: the data written; the setter returns and releases the lock.
  - `WriteFails`: the open, the write or the close fails. The file is left
    untouched, truncated, or complete respectively.
  - `Shutdown`: when idle.
  - `Crash`: at any point.
  - `Restart`: `NewConfig` + `load`. The process starts down, so the first
    start is a `Restart` too.

### `TxSigner.tla` (+ `MCTxSigner.tla`) — one `SignTransaction` call

- **State.** `tx` (the outpoints spent, in order), `prev` (which of them
  `previousOutputs` has), `scripts` (the signature placed in each input),
  the hashes and signatures collected, the loop index, the result (`ok`,
  `error`, `panic`) and whether the firmware answered any batch wrongly.
- **Actions.**
  - `ComputeHash`: the hashing loop; a missing previous output panics, and a
    sighash computation may fail.
  - `StartSign`: `Device.Sign`'s entry check, which panics on an empty list.
    After it, the batch loop's first test `0 < len` always holds.
  - `KeystoreBatch`: one batch of `Device.Sign`. The loop goes on while the
    next batch start is below the number of hashes. Its two round trips are
    one answer here; `Device` checks their interleaving.
  - `Assemble`: the count check, then the assembly loop.
  - `Validate`: `txValidityCheck`, with a panic on failure.
- **Data.** An outpoint is a number, whose order is the BIP69 order. Input
  `i`'s sighash is `<<outpoint, i>>`. A signature is the hash it signs, so
  "the script engine accepts input `i`" is `scripts[i] = SigHash(i)`.
- **The firmware.** Per batch it answers right, with an error, with one
  signature too few, one too many, or a forged one.
- **Refinement.** `AtomicSign.tla` is the promise of `SignTransaction` as
  one step. `Sign` returns nil with every input signed over its own hash,
  and only for a BIP69-ordered transaction whose previous outputs are all
  known. `Error` leaves the transaction as it was. `Panic` is a panic.
  The mapping hides the inputs until the call has returned, and after a
  panic, since the caller never sees them then. `TxSignerImplementsAtomicSign`
  checks `TxSigner` against it, with `AtomicSign`'s fairness: every call
  returns or panics.

## Runs

| Run | Cfg | Expect | What it shows |
|---|---|---|---|
| device_sequential | DeviceSequential.cfg | pass | One caller with the right password: `Status` always tells the device's real state (`StatusSound`), and `Login` never reports success with the bootloader unlocked. Under fair scheduling, `NewDevice` and every call return (`CallsReturn`). |
| device_concurrent | DeviceConcurrent.cfg | pass | Two callers and two passwords, so wrong logins and the firmware's wipe interleave with the other calls: `Sign` returns exactly its own signatures in order, and `XPub` never returns a corrupted key. The echo protocol fails safely when another command intervenes, and the double read catches a corrupted read. |
| device_ping_exhausted | DevicePingExhausted.cfg | violation | 20 "initializing" answers: `NewDevice` constructs an *uninitialized* session for a device with a password. |
| device_createwallet_reset_race | DeviceCreateWalletResetRace.cfg | violation | After a finished `Login`, `CreateWallet` and `Reset` interleave; the session ends *seeded* for an erased device. |
| channel_mutex | ChannelMutex.cfg | pass | Three callers, no I/O errors, fair scheduling: `SendPlain` implements `AtomicChannel` (one call at a time, each returns the trimmed answer to its own message, every call returns). |
| channel_frames | ChannelFrames.cfg | pass | One Read/Write may fail: the device still only assembles whole messages some caller sent. |
| channel_stale_reply | ChannelStaleReply.cfg | violation | After a failed read, the next `SendPlain` returns the previous caller's reply. |
| config_clean | ConfigClean.cfg | pass | Two setters, clean shutdowns and restarts, both files present: every restart loads what the last successful setters saved. |
| config_faults | ConfigFaults.cfg | pass | Failing writes (open, write or close failing), one crash, restarts: the write lock is always held by exactly the setter in progress, so no error path leaks it. A config whose last setter returned nil is on disk exactly as in memory (`SavedMatchesMemory`). Two setters of one kind cannot write in the other order than they assigned, and a failed save is never reported as nil. After a failed save, memory is ahead of the disk, and the caller was told. |
| config_first_start | ConfigFirstStart.cfg | violation | The accounts file exists but the app config file does not: `load` returns early and the accounts config comes up as the defaults. |
| config_crash | ConfigCrash.cfg | violation | A crash between `WriteFile`'s truncation and its write: the next start loses the app config, and with it the accounts config. |
| txsigner | TxSignerPass.cfg | pass | Every request of up to 3 inputs under every firmware answer: `SignTransaction` implements `AtomicSign` (nil only with every input validly signed, an error with none signed, and it always returns or panics), and an honest firmware never makes a well-formed request panic. |

The findings in `PROJECT.json` say what each violation means for the code.

Each property of a passing run has a mutant in `PROJECT.json`: a plausible bug
in a mapped definition that makes TLC find the property violated. Examples are
the batch bound one too high, the bootloader test inverted, and a reset that
keeps `initialized`.

## Bounds

- **`Channel`.**
  - The report size is 9, not 64, which leaves 2 payload bytes in an init
    frame and 4 in a continuation frame. The framing arithmetic is the
    same, and the messages of 2, 4, 6 and 7 bytes cover every case: init
    only, one continuation, exactly full, and a part-filled second
    continuation.
  - After a failure the reply queue can grow without bound. Each later call
    can read fewer frames than its reply produced, and this really is the
    code's behaviour. `channel_frames` therefore cuts the search at
    `MaxQueuedFrames` = 6 frames in flight.
  - `channel_mutex` has three callers, so one can wait on the mutex while
    another takes it from a third. `channel_frames` keeps two, because with
    three its bounded search takes four minutes.
- **`Device`.**
  - The batch size is 2, not 15. The hash lists have 1 and 3 hashes, so a
    list fits one batch, or spans a full batch and a partial one.
  - `MaxAttempts` is 2, not the firmware's 15. One wrong attempt is harmless
    and the second wipes.
  - `MaxPings` is the code's 20.
  - Two callers are enough for every pairwise race.
  - `device_sequential` has one password, so its `StatusSound` is not
    broken by the wipe (see hazard `device.go:344`). `device_concurrent`
    has two, so a wrong login and the wipe it may cause interleave with
    `Sign` and `XPub`.
- **`TxSigner`.** Three outpoints and every transaction of 0 to 3 distinct
  inputs in any order, together with every subset of previous outputs. The
  batch size is 2, so three inputs take a full batch and a partial one.
  This is where a short and a long answer can add up to the right count.
- **`Config`.** Two setters and two values. Restarts are capped at 3, which
  is enough for a save, a restart, another save and a restart. At most one
  crash, because a single crash already loses a file.
- **Symmetry** is not used: thread-local values of different types (records
  and strings) are compared across threads.

## Fairness and liveness

Fairness is assumed only where the code and its environment justify it.
- **`Channel` (`FairSpec`).**
  - Every host step of a caller inside `SendPlain` is weakly fair. A
    goroutine there blocks only in `device.Read`, and Go runs every runnable
    goroutine.
  - `DeviceRead` is weakly fair. This is an assumption about the device:
    it reads every frame and answers every complete message. A firmware
    command waiting for a touch is eventually confirmed or aborted.
  - `Lock` is not fair, because a caller need not call. `IOError` is not
    fair either, because failures are never forced.
- **`TxSigner` (`FairSpec`).** Weak fairness on `Next`. `SignTransaction`
  is one goroutine with bounded loops, and the firmware is assumed to
  answer each batch.
- **`Device` (`FairSpec`, used by `device_sequential`).** `NewDevicePing`
  is weakly fair. So is each caller's `RejectName \/ Send \/ Handle`: a
  goroutine inside a `Device` method blocks only in a round trip, and the
  firmware is assumed to answer every command, as for `Channel`. `Start`
  is not fair, because a caller need not call. `CallsReturn` then says
  that `NewDevice` ends and every call returns, whatever the firmware
  answers. A retry on inconsistent xpub reads (mutant `HandleXPubRetry`)
  would break it, since the firmware may keep corrupting reads.
- **`Config`** assumes no fairness and states no liveness. Its lock
  waiting is not modelled.

`ChannelImplementsAtomic` includes the abstract fairness: every call that
took the mutex returns. With I/O failures (`channel_frames`) calls may read
stale frames. In this model a call stuck holding the mutex would stop every
other step, so the deadlock check of `channel_frames` already shows that no
failure wedges the channel for later callers. This holds within its
`MaxQueuedFrames` bound.

## Not modelled, and why

- `SendBootloader` and the bootloader mode of `Device`. Nothing in the
  repository calls `SendBootloader`: the firmware-upgrade code that would
  call it is not here. A bootloader-mode `Device` reports
  `StatusBootloader` and runs no command of this repository.
- An empty message to `sendFrame`. It writes nothing, and `readFrame` would
  then block holding the mutex. No caller can pass one: `sendPlain` sends
  marshalled JSON and `SendEncrypt` sends base64 ciphertext. `Channel`
  models the branch, but the messages it enumerates are never empty.
- The property "the device is never asked to sign an unsorted transaction"
  (spec.md's "enforced pre-sign") is violated by the code: `txValidityCheck`
  checks the order only after signing. It is listed as a hazard rather than
  kept as a run; the model lets the unsorted request through exactly as the
  code does. `TxSignerImplementsAtomicSign` shows that this late check is the
  one that keeps an unsorted transaction from being returned as signed
  (mutant `ValidUnordered`).
- `stretchKey`. It is a pure key derivation that computes twice and panics
  on a mismatch, which guards against a host memory error. The model sends
  no key material.
- `DisplayAddress`. It only talks to the mobile pairing channel, whose
  code is not in the repository, and does nothing when no channel is
  paired.
- `deviceInfo`'s field-by-field checks. A supported firmware sends every
  field.
- Encryption and JSON coding. They are abstracted to typed replies; the model
  asks about the order of replies, not their bytes.
- The config getters and `AccountActive`, which change nothing.
- The address chain manager. spec.md describes it, but the repository
  holds no code for it, under `src/` or elsewhere, so there is nothing a
  module could be faithful to.
- The callers of the `Config` setters. These are the backend's settings
  handlers, whose read-modify-write could lose updates. They are not in the
  repository.
- The proto schema and the React views. They have no behaviour to check.

## Open questions

1. **The firmware wipe leaves the session stale** (`device.go:344`).
   With two passwords, `StatusSound` fails this way. Showing it takes a
   violation run, and the twelve-run budget is used by the findings above.
   `device_sequential` therefore keeps one password.
2. **Lost replies in `Device`.** `Device.Send` takes the channel as
   delivering each reply to the call that sent it. `channel_stale_reply`
   shows that after a failed read it does not. Feeding that into `Device`
   would show a stale reply reaching `Sign` or `XPub`, but again only as
   another violation run.
3. **Sign across a wallet change.** `Device` gives signatures no wallet
   identity. A `Reset` and a new wallet between two batches therefore look
   like honest signatures to it. `TxSigner` shows that `SignTransaction`
   panics on such signatures rather than returning them.
4. **Composing `TxSigner` with `Device`.** The argument is assume-guarantee:
   - `Device` shows that each batch's answer belongs to its own call;
   - `TxSigner` accepts any answer, right or wrong.
   A product of the two modules would add states but no new behaviour.
