----------------------------- MODULE MCChannel -----------------------------
(* Model-checking instance of Channel: a 9-byte report (2 payload bytes in *)
(* the init frame, 4 in a continuation frame) and JSON-like messages that  *)
(* fill the init frame, end inside, and exactly fill, one or two           *)
(* continuation frames.                                                    *)
EXTENDS Channel

\* "{" = 123, "a" = 97, "}" = 125
MCMessages ==
    {<<123, 125>>, <<123, 97, 97, 125>>, <<123, 97, 97, 97, 97, 125>>,
     <<123, 97, 97, 97, 97, 97, 125>>}

\* Frames queued in either direction.  Once a failed call has left a reply
\* behind, later calls can consume fewer frames than the device produces and
\* the queue grows without bound; the search is cut at MaxQueuedFrames.
MaxQueuedFrames == 6
QueueBound == Len(toDevice) + Len(toHost) <= MaxQueuedFrames

=============================================================================
