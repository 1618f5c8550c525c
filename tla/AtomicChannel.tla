--------------------------- MODULE AtomicChannel ---------------------------
(***************************************************************************)
(* What Communication.SendPlain (src/devices/usb/communication.go)        *)
(* promises its callers, without frames: one call at a time holds the     *)
(* channel; a call either returns the device's answer to its own message, *)
(* or fails with an error; and a call that has begun eventually returns.   *)
(* Module Channel, which writes and reads every frame, implements it (see  *)
(* ChannelImplementsAtomic in Channel).                                    *)
(***************************************************************************)
CONSTANTS
    Threads,
    Messages,
    DeviceAnswer(_),  \* what the device answers to a message, as returned
    NoThread

VARIABLES
    owner,   \* the caller whose call holds the channel, or NoThread
    call     \* call[t]: whether t is inside a call, its message, its result

avars == <<owner, call>>

Failed == [ok |-> FALSE, data |-> <<>>]

\* A caller that holds nothing begins a call with some message.
Begin(t) ==
    /\ owner = NoThread
    /\ ~call[t].busy
    /\ owner' = t
    /\ \E m \in Messages :
         call' = [call EXCEPT ![t].busy = TRUE, ![t].msg = m]

\* The call returns the answer to its own message.
Answer(t) ==
    /\ owner = t
    /\ owner' = NoThread
    /\ call' = [call EXCEPT ![t].busy = FALSE,
                            ![t].ret = [ok |-> TRUE, data |-> DeviceAnswer(call[t].msg)]]

\* The call returns an error.
Fail(t) ==
    /\ owner = t
    /\ owner' = NoThread
    /\ call' = [call EXCEPT ![t].busy = FALSE, ![t].ret = Failed]

Init ==
    /\ owner = NoThread
    /\ call = [t \in Threads |-> [busy |-> FALSE, msg |-> <<>>, ret |-> Failed]]

Next == \E t \in Threads : Begin(t) \/ Answer(t) \/ Fail(t)

\* A call that has begun is not abandoned: it answers or fails.
Spec == Init /\ [][Next]_avars /\ \A t \in Threads : WF_avars(Answer(t) \/ Fail(t))

=============================================================================
