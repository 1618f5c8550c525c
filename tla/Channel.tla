------------------------------ MODULE Channel ------------------------------
(***************************************************************************)
(* The USB HID channel of src/devices/usb/communication.go: SendPlain      *)
(* takes the mutex, writes the message as an init frame and continuation  *)
(* frames (sendFrame), reads the reply frames (readFrame), trims the reply *)
(* and releases the mutex.  Every device.Write and device.Read is a step  *)
(* of its own, so frames of concurrent callers can interleave wherever the *)
(* mutex lets them.                                                        *)
(*                                                                         *)
(* The device on the other end is the environment: it reassembles frames  *)
(* the way the spec describes (init frame carries the 16-bit length,       *)
(* continuation frames add min(payload, remaining) bytes), answers each   *)
(* complete message with the message itself (a loopback) framed the same  *)
(* way, padding its frames with DevicePad.                                 *)
(***************************************************************************)
EXTENDS Naturals, Sequences

CONSTANTS
    Threads,      \* goroutines sharing one Communication
    Messages,     \* byte sequences a caller sends
    ReportSize,   \* usbReportSize (64 in the code)
    DevicePad,    \* the byte the device pads its frames with
    IOErrors,     \* bound on the device.Read/Write failures in one behaviour
    NoThread

ASSUME ReportSize > 7
ASSUME IOErrors \in Nat

VARIABLES
    mutex,      \* Communication.mutex: its holder or NoThread
    toDevice,   \* frames written by the host, not yet read by the device
    toHost,     \* frames written by the device, not yet read by the host
    dev,        \* the device's reassembly buffer
    th,         \* per-thread locals of SendPlain
    failures    \* device.Read/Write failures so far (bounded by IOErrors)

vars == <<mutex, toDevice, toHost, dev, th, failures>>

CID == <<255, 0, 0, 0>>     \* hwwCID, big endian
HwwCMD == 193               \* u2fHIDTypeInit | 0x40 | 0x01
HostPad == 238              \* 0xee
InitPayload == ReportSize - 7
ContPayload == ReportSize - 5

Take(s, n) == SubSeq(s, 1, IF n < Len(s) THEN n ELSE Len(s))
Drop(s, n) == SubSeq(s, IF n < Len(s) THEN n + 1 ELSE Len(s) + 1, Len(s))
PadTo(s, pad) == s \o [i \in 1..(ReportSize - Len(s)) |-> pad]

\* The 16-bit big-endian length field: uint16(dataLen & 0xFFFF).
LenBytes(n) == <<(n % 65536) \div 256, n % 256>>

-----------------------------------------------------------------------------
(* Environment: the device.                                                *)
\* The frames of message m, built as the spec describes.
DeviceFrames(m) ==
    LET rest  == Drop(m, InitPayload)
        conts == (Len(rest) + ContPayload - 1) \div ContPayload
    IN <<PadTo(CID \o <<HwwCMD>> \o LenBytes(Len(m)) \o Take(m, InitPayload), DevicePad)>>
       \o [k \in 1..conts |->
             PadTo(CID \o <<(k - 1) % 256>>
                   \o SubSeq(rest, (k - 1) * ContPayload + 1,
                             IF k * ContPayload < Len(rest) THEN k * ContPayload ELSE Len(rest)),
                   DevicePad)]

\* The device reads one frame: an init frame restarts the buffer, a
\* continuation frame adds what is still missing; a complete message is
\* answered at once.
DeviceRead ==
    /\ toDevice # <<>>
    /\ LET f    == Head(toDevice)
           init == f[5] = HwwCMD
           len  == IF init THEN f[6] * 256 + f[7] ELSE dev.len
           data == IF init THEN Take(SubSeq(f, 8, ReportSize), len)
                   ELSE dev.data \o Take(SubSeq(f, 6, ReportSize), dev.len - Len(dev.data))
       IN IF dev.len = 0 /\ ~init
          THEN UNCHANGED <<dev, toHost>>   \* a stray continuation frame
          ELSE IF Len(data) = len
          THEN /\ dev' = [len |-> 0, data |-> <<>>, got |-> data]
               /\ toHost' = toHost \o DeviceFrames(data)
          ELSE /\ dev' = [dev EXCEPT !.len = len, !.data = data]
               /\ UNCHANGED toHost
    /\ toDevice' = Tail(toDevice)
    /\ UNCHANGED <<mutex, th, failures>>

-----------------------------------------------------------------------------
(* Host side: Communication.SendPlain (communication.go:200-226).          *)

\* bytes.TrimRightFunc(reply, unicode.IsSpace(r) || r == 0) on single-byte
\* runes; a byte >= 0x80 alone is not valid UTF-8 and is never trimmed.
Trimmed == {0, 9, 10, 11, 12, 13, 32}
RECURSIVE TrimRight(_)
TrimRight(s) ==
    IF s # <<>> /\ s[Len(s)] \in Trimmed THEN TrimRight(SubSeq(s, 1, Len(s) - 1)) ELSE s

Set(t, pc) == th' = [th EXCEPT ![t].pc = pc]

\* SendPlain returns with an error: the deferred Unlock runs.
Fail(t) ==
    /\ mutex' = NoThread
    /\ th' = [th EXCEPT ![t].pc = "idle", ![t].ret = [ok |-> FALSE, data |-> <<>>]]

\* SendPlain enters and takes the mutex (communication.go:204-205).
Lock(t) ==
    /\ th[t].pc = "idle"
    /\ mutex = NoThread
    /\ mutex' = t
    /\ \E m \in Messages :
         th' = [th EXCEPT ![t] = [pc |-> "init", msg |-> m, rest |-> <<>>, seq |-> 0,
                                  data |-> <<>>, idx |-> 0, dataLen |-> 0,
                                  ret |-> th[t].ret]]
    /\ UNCHANGED <<toDevice, toHost, dev, failures>>

\* Mutant: the padding loop left out.
FrameUnpadded(header, rest) == header \o Take(rest, ReportSize - Len(header))

\* Mutant: one byte fewer per frame than fits.
FrameOneShort(header, rest) == PadTo(header \o Take(rest, ReportSize - Len(header) - 1), HostPad)

\* The write of one frame by sendFrame's send closure (communication.go:60-69):
\* header, as much of the rest as fits, padding with 0xee.
Frame(header, rest) == PadTo(header \o Take(rest, ReportSize - Len(header)), HostPad)

\* sendFrame's init frame (communication.go:55-84); an empty message is not
\* sent at all.
WriteInit(t) ==
    /\ th[t].pc = "init"
    /\ LET m == th[t].msg IN
       IF m = <<>>
       THEN Set(t, "read") /\ UNCHANGED toDevice
       ELSE /\ toDevice' = Append(toDevice, Frame(CID \o <<HwwCMD>> \o LenBytes(Len(m)), m))
            /\ th' = [th EXCEPT ![t].rest = Drop(m, InitPayload), ![t].seq = 0,
                                ![t].pc = IF Len(m) > InitPayload THEN "cont" ELSE "read"]
    /\ UNCHANGED <<mutex, toHost, dev, failures>>

\* One continuation frame of sendFrame's loop (communication.go:85-97).
WriteCont(t) ==
    /\ th[t].pc = "cont"
    /\ LET r == th[t].rest IN
       /\ toDevice' = Append(toDevice, Frame(CID \o <<th[t].seq % 256>>, r))
       /\ th' = [th EXCEPT ![t].rest = Drop(r, ContPayload), ![t].seq = @ + 1,
                           ![t].pc = IF Len(r) > ContPayload THEN "cont" ELSE "read"]
    /\ UNCHANGED <<mutex, toHost, dev, failures>>

\* readFrame's first read (communication.go:101-119): the header is checked,
\* the length taken from bytes 5-6, and the whole rest of the report kept.
ReadInit(t) ==
    /\ th[t].pc = "read"
    /\ toHost # <<>>
    /\ toHost' = Tail(toHost)
    /\ LET f == Head(toHost) IN
       IF SubSeq(f, 1, 4) # CID \/ f[5] # HwwCMD
       THEN Fail(t)
       ELSE /\ th' = [th EXCEPT ![t].dataLen = f[6] * 256 + f[7],
                                ![t].data = SubSeq(f, 8, ReportSize),
                                ![t].idx = ReportSize - 7,
                                ![t].pc = IF ReportSize - 7 < f[6] * 256 + f[7]
                                          THEN "readCont" ELSE "trim"]
            /\ UNCHANGED mutex
    /\ UNCHANGED <<toDevice, dev, failures>>

\* readFrame's loop (communication.go:120-130): a continuation frame's
\* header is not checked, and all of its payload is kept.
ReadCont(t) ==
    /\ th[t].pc = "readCont"
    /\ toHost # <<>>
    /\ toHost' = Tail(toHost)
    /\ LET f == Head(toHost) IN
       th' = [th EXCEPT ![t].data = @ \o SubSeq(f, 6, ReportSize),
                        ![t].idx = @ + ReportSize - 5,
                        ![t].pc = IF th[t].idx + ReportSize - 5 < th[t].dataLen
                                  THEN "readCont" ELSE "trim"]
    /\ UNCHANGED <<mutex, toDevice, dev, failures>>

\* A failing device.Write or device.Read (communication.go:67-68, 103-105,
\* 121-123): SendPlain returns the error; frames already queued stay queued.
IOError(t) ==
    /\ failures < IOErrors
    /\ th[t].pc \in {"init", "cont", "read", "readCont"}
    /\ Fail(t)
    /\ failures' = failures + 1
    /\ UNCHANGED <<toDevice, toHost, dev>>

\* Mutant: the reply returned without the trim.
FinishUntrimmed(t) ==
    /\ th[t].pc = "trim"
    /\ mutex' = NoThread
    /\ th' = [th EXCEPT ![t].pc = "idle", ![t].ret = [ok |-> TRUE, data |-> th[t].data]]
    /\ UNCHANGED <<toDevice, toHost, dev, failures>>

\* The reply is trimmed and SendPlain returns it, releasing the mutex
\* (communication.go:213-225; the JSON decoding is left out).
Finish(t) ==
    /\ th[t].pc = "trim"
    /\ mutex' = NoThread
    /\ th' = [th EXCEPT ![t].pc = "idle",
                        ![t].ret = [ok |-> TRUE, data |-> TrimRight(th[t].data)]]
    /\ UNCHANGED <<toDevice, toHost, dev, failures>>

-----------------------------------------------------------------------------
Init ==
    /\ mutex = NoThread
    /\ toDevice = <<>>
    /\ toHost = <<>>
    /\ dev = [len |-> 0, data |-> <<>>, got |-> <<>>]
    /\ failures = 0
    /\ th = [t \in Threads |-> [pc |-> "idle", msg |-> <<>>, rest |-> <<>>, seq |-> 0,
                                data |-> <<>>, idx |-> 0, dataLen |-> 0,
                                ret |-> [ok |-> FALSE, data |-> <<>>]]]

Next ==
    \/ DeviceRead
    \/ \E t \in Threads :
         \/ Lock(t) \/ WriteInit(t) \/ WriteCont(t)
         \/ ReadInit(t) \/ ReadCont(t) \/ IOError(t) \/ Finish(t)

Spec == Init /\ [][Next]_vars

(* Fairness.  A goroutine inside SendPlain is never blocked except on      *)
(* device.Read, and Go schedules every runnable goroutine, so its steps    *)
(* are weakly fair.  The device is assumed to read every frame written to  *)
(* it and to answer every complete message (for the firmware, a command   *)
(* that waits for a touch is answered or aborted).  Taking the mutex is    *)
(* not fair: a caller need not call, and an I/O failure is never forced.   *)
Fairness ==
    /\ WF_vars(DeviceRead)
    /\ \A t \in Threads :
         WF_vars(WriteInit(t) \/ WriteCont(t) \/ ReadInit(t) \/ ReadCont(t) \/ Finish(t))

FairSpec == Spec /\ Fairness

-----------------------------------------------------------------------------
TypeOK ==
    /\ mutex \in Threads \cup {NoThread}
    /\ \A i \in DOMAIN toDevice : Len(toDevice[i]) = ReportSize
    /\ \A i \in DOMAIN toHost : Len(toHost[i]) = ReportSize
    /\ \A t \in Threads :
         th[t].pc \in {"idle", "init", "cont", "read", "readCont", "trim"}

(* Every SendPlain that returns a reply returns the device's answer to its *)
(* own message (the device answers with the message itself), never the    *)
(* answer to another caller's message: the mutex around sendFrame and      *)
(* readFrame is what matches replies to requests, there being no request   *)
(* identifiers.                                                            *)
ReplyIsOwn ==
    \A t \in Threads :
        (th[t].pc = "idle" /\ th[t].ret.ok) => th[t].ret.data = th[t].msg

(* With failing reads and writes a caller may give up while its frames are *)
(* still queued, so the device can complete a message nobody waits for.   *)
(* What must still hold: every message the device reassembles from the    *)
(* frames sendFrame wrote is one a caller sent, whole and unmixed.         *)
DeviceAssemblesWholeMessages ==
    [][Len(toHost') > Len(toHost) => dev'.got \in Messages]_vars

\* The refinement mapping: the mutex is the channel's owner, and a caller
\* is inside a call from Lock until SendPlain returns.
Atomic == INSTANCE AtomicChannel WITH
    owner <- mutex,
    call <- [t \in Threads |-> [busy |-> th[t].pc # "idle", msg |-> th[t].msg,
                                ret |-> th[t].ret]],
    DeviceAnswer <- LAMBDA m : TrimRight(m)

(* SendPlain implements the atomic channel: frames of concurrent callers   *)
(* never mix, every call returns the (trimmed) answer to its own message  *)
(* or an error, and every call returns, however the frames of the request *)
(* and the reply are split and whatever the device pads its frames with    *)
(* among the bytes the trim removes (readFrame keeps a whole last frame,   *)
(* communication.go:119).                                                  *)
ChannelImplementsAtomic == Atomic!Spec

=============================================================================
