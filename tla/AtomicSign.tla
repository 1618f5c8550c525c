----------------------------- MODULE AtomicSign -----------------------------
(***************************************************************************)
(* What SignTransaction (src/coins/btc/sign.go) promises its caller, as   *)
(* one step: it returns nil with every input of a BIP69-ordered           *)
(* transaction, each spending a known previous output, signed over its    *)
(* own signature hash; or it returns an error and leaves the transaction  *)
(* as it was; or it panics, and the process does not go on to use the     *)
(* transaction.  A call that began returns or panics.                     *)
(* Module TxSigner implements it (TxSignerImplementsAtomicSign).           *)
(***************************************************************************)
EXTENDS Naturals, Sequences

CONSTANTS
    Txs,
    Outpoints,
    NoSig

VARIABLES
    tx,        \* the outpoints the transaction spends, in order
    prev,      \* the outpoints with a known previous output
    scripts,   \* the signature of each input as the caller can see it
    result     \* "none" until the call returns, then "ok", "error" or "panic"

avars == <<tx, prev, scripts, result>>

SigHash(i) == <<tx[i], i>>

Init ==
    /\ tx \in Txs
    /\ prev \in SUBSET Outpoints
    /\ scripts = [i \in 1..Len(tx) |-> NoSig]
    /\ result = "none"

Returns(r) == result = "none" /\ result' = r /\ UNCHANGED <<tx, prev>>

Sign ==
    /\ Returns("ok")
    /\ \A i, j \in 1..Len(tx) : i < j => tx[i] < tx[j]
    /\ \A i \in 1..Len(tx) : tx[i] \in prev
    /\ scripts' = [i \in 1..Len(tx) |-> SigHash(i)]

Error == Returns("error") /\ UNCHANGED scripts

Panic == Returns("panic") /\ UNCHANGED scripts

Next == Sign \/ Error \/ Panic

Spec == Init /\ [][Next]_avars /\ WF_avars(Next)

=============================================================================
