------------------------------ MODULE TxSigner ------------------------------
(***************************************************************************)
(* One call of SignTransaction (src/coins/btc/sign.go) with the BitBox as *)
(* its keystore: Device.Sign (src/devices/bitbox/device.go:699-748) splits *)
(* the signature hashes into batches, and the firmware answers each batch. *)
(*                                                                         *)
(* Data is abstracted to what the checks tell apart: an outpoint is a      *)
(* number (BIP69 order is the order of numbers), the signature hash of     *)
(* input i is <<outpoint, i>>, and a signature is the hash it signs, so a  *)
(* signature verifies for input i exactly when it equals SigHash(i).       *)
(* The segwit/legacy choice of sighash (sign.go:33-51) only decides which  *)
(* hash is computed; both may fail, and both are modelled by SigHash.      *)
(***************************************************************************)
EXTENDS Naturals, Sequences

CONSTANTS
    Outpoints,   \* the outpoints a transaction may spend (numbers)
    Txs,         \* the input sequences a caller may pass
    BatchSize,   \* signatureBatchSize (15 in the code)
    NoSig        \* an input's empty signature script / witness

ASSUME Outpoints \subseteq Nat \ {0} /\ BatchSize \in Nat \ {0}

VARIABLES
    tx,        \* transaction.TxIn: the outpoints spent, in order
    prev,      \* the outpoints previousOutputs has an entry for
    scripts,   \* the signature placed in each input (NoSig before assembly)
    pc,        \* where SignTransaction is
    idx,       \* loop index: the input being hashed, or the batch start
    hashes,    \* signatureHashes collected so far
    sigs,      \* the signatures Device.Sign has collected so far
    result,    \* "none", "ok", "error" or "panic"
    faulty     \* whether the firmware answered some batch other than right

vars == <<tx, prev, scripts, pc, idx, hashes, sigs, result, faulty>>

MinOf(a, b) == IF a < b THEN a ELSE b

\* A format-valid signature that does not verify, and a signature for a
\* hash that was not asked for (outpoint 0 is no outpoint of a request).
Forged == <<0, 0>>
Stray == <<0, 1>>

\* The signature hash of input i (CalcWitnessSigHash / CalcSignatureHash).
SigHash(i) == <<tx[i], i>>

\* BIP69 input order (txsort.IsSorted, sign.go:79).
Sorted(s) == \A i, j \in 1..Len(s) : i < j => s[i] < s[j]

\* Mutant: txValidityCheck without the BIP69 test.
ValidUnordered == \A i \in 1..Len(tx) : tx[i] \in prev /\ scripts[i] = SigHash(i)

\* The check of txValidityCheck (sign.go:77-99): BIP69 order, a previous
\* output for every input, and every input's script verifying against it.
Valid ==
    /\ Sorted(tx)
    /\ \A i \in 1..Len(tx) : tx[i] \in prev /\ scripts[i] = SigHash(i)

Finish(r) == result' = r /\ pc' = "done"

-----------------------------------------------------------------------------
\* The hashing loop (sign.go:23-55): no previous output is a panic, a
\* failing sighash computation an error; otherwise the hash is collected.
ComputeHash ==
    /\ pc = "hash"
    /\ idx <= Len(tx)
    /\ IF tx[idx] \notin prev
       THEN Finish("panic") /\ UNCHANGED <<idx, hashes>>
       ELSE \/ Finish("error") /\ UNCHANGED <<idx, hashes>>
            \/ /\ hashes' = Append(hashes, SigHash(idx))
               /\ idx' = idx + 1
               /\ UNCHANGED <<pc, result>>
    /\ UNCHANGED <<tx, prev, scripts, sigs, faulty>>

\* keyStore.Sign: Device.Sign's entry check (device.go:706-708): an empty
\* list of hashes is a panic. The batch loop's first test, 0 < len
\* (device.go:711), then always holds.
StartSign ==
    /\ pc = "hash"
    /\ idx > Len(tx)
    /\ IF hashes = <<>>
       THEN Finish("panic") /\ UNCHANGED idx
       ELSE pc' = "batch" /\ idx' = 1 /\ UNCHANGED result
    /\ UNCHANGED <<tx, prev, scripts, hashes, sigs, faulty>>

\* Mutant: the batch's upper bound one too high.
BatchOffByOne(i) == SubSeq(hashes, i, MinOf(i + BatchSize, Len(hashes)))

\* The hashes of the batch starting at i (device.go:711-716).
Batch(i) == SubSeq(hashes, i, MinOf(i + BatchSize - 1, Len(hashes)))

\* The signatures the firmware may answer to batch b: the right ones, one
\* too few, one too many, or a well-formed signature that does not verify.
\* (An error reply or a malformed signature is an error of Device.Sign.)
Answers(b) ==
    {b, SubSeq(b, 1, Len(b) - 1), b \o <<Stray>>, <<Forged>> \o Tail(b)}

\* Mutant: the signatures of each batch placed in their inputs at once.
KeystoreBatchAssembling ==
    /\ pc = "batch"
    /\ LET b == Batch(idx) IN
       \/ Finish("error") /\ UNCHANGED <<idx, sigs, faulty, scripts>>
       \/ \E a \in Answers(b) :
            /\ sigs' = sigs \o a
            /\ scripts' = [i \in DOMAIN scripts |->
                             IF i > Len(sigs) /\ i <= Len(sigs) + Len(a)
                             THEN a[i - Len(sigs)] ELSE scripts[i]]
            /\ faulty' = (faulty \/ a # b)
            /\ idx' = idx + BatchSize
            /\ pc' = IF idx + BatchSize > Len(hashes) THEN "check" ELSE "batch"
            /\ UNCHANGED result
    /\ UNCHANGED <<tx, prev, hashes>>

\* Mutant: the batch loop tests i <= len(signatureHashes).
KeystoreBatchPastEnd ==
    /\ pc = "batch"
    /\ LET b == Batch(idx) IN
       \/ Finish("error") /\ UNCHANGED <<idx, sigs, faulty>>
       \/ \E a \in Answers(b) :
            /\ sigs' = sigs \o a
            /\ faulty' = (faulty \/ a # b)
            /\ idx' = idx + BatchSize
            /\ pc' = IF idx + BatchSize > Len(hashes) + 1 THEN "check" ELSE "batch"
            /\ UNCHANGED result
    /\ UNCHANGED <<tx, prev, hashes, scripts>>

\* One batch of Device.Sign (device.go:711-747, signBatch's two round trips
\* taken as one answer): an error ends the call (sign.go:56-59), otherwise
\* the batch's signatures are appended, however many there are. The loop
\* goes on while the next batch start is below len(signatureHashes).
KeystoreBatch ==
    /\ pc = "batch"
    /\ LET b == Batch(idx) IN
       \/ Finish("error") /\ UNCHANGED <<idx, sigs, faulty>>
       \/ \E a \in Answers(b) :
            /\ sigs' = sigs \o a
            /\ faulty' = (faulty \/ a # b)
            /\ idx' = idx + BatchSize
            /\ pc' = IF idx + BatchSize > Len(hashes) THEN "check" ELSE "batch"
            /\ UNCHANGED result
    /\ UNCHANGED <<tx, prev, hashes, scripts>>

\* The count check (sign.go:60-62), then the assembly loop (sign.go:63-68),
\* which cannot fail and touches nothing else.
Assemble ==
    /\ pc = "check"
    /\ IF Len(sigs) # Len(tx)
       THEN Finish("panic") /\ UNCHANGED scripts
       ELSE /\ scripts' = [i \in 1..Len(tx) |-> sigs[i]]
            /\ pc' = "validate"
            /\ UNCHANGED result
    /\ UNCHANGED <<tx, prev, idx, hashes, sigs, faulty>>

\* The sanity check (sign.go:69-74): an invalid transaction is a panic.
Validate ==
    /\ pc = "validate"
    /\ Finish(IF Valid THEN "ok" ELSE "panic")
    /\ UNCHANGED <<tx, prev, scripts, idx, hashes, sigs, faulty>>

-----------------------------------------------------------------------------
Init ==
    /\ tx \in Txs
    /\ prev \in SUBSET Outpoints
    /\ scripts = [i \in 1..Len(tx) |-> NoSig]
    /\ pc = "hash"
    /\ idx = 1
    /\ hashes = <<>>
    /\ sigs = <<>>
    /\ result = "none"
    /\ faulty = FALSE

Next == ComputeHash \/ StartSign \/ KeystoreBatch \/ Assemble \/ Validate

Spec == Init /\ [][Next]_vars

\* SignTransaction runs on one goroutine and every loop in it is bounded;
\* the firmware is assumed to answer each batch (or the user to abort).
FairSpec == Spec /\ WF_vars(Next)

-----------------------------------------------------------------------------
TypeOK ==
    /\ pc \in {"hash", "batch", "check", "validate", "done"}
    /\ result \in {"none", "ok", "error", "panic"}
    /\ (pc = "done") <=> (result # "none")
    /\ DOMAIN scripts = 1..Len(tx)
    /\ pc = "batch" => idx \in 1..Len(hashes)
    /\ faulty \in BOOLEAN

\* The request the caller hands in is well formed: at least one input,
\* BIP69 order, and a previous output for every input.
WellFormed == Len(tx) > 0 /\ Sorted(tx) /\ \A i \in 1..Len(tx) : tx[i] \in prev

\* The refinement mapping: the caller sees the transaction's inputs only
\* once SignTransaction has returned; after a panic the process is gone.
Atomic == INSTANCE AtomicSign WITH
    scripts <- IF result \in {"ok", "error"} THEN scripts
               ELSE [i \in 1..Len(tx) |-> NoSig]

(* SignTransaction implements the atomic signer: it returns nil only with *)
(* every input signed over its own signature hash (a BIP69-ordered        *)
(* transaction with every previous output known), however the firmware's  *)
(* batches came back (too short, too long, forged answers that still add   *)
(* up to the input count are caught by sign.go:60-73); an error leaves no  *)
(* input signed; and every call returns or panics.                        *)
TxSignerImplementsAtomicSign == Atomic!Spec

(* With a firmware that answers every batch right, a well-formed request   *)
(* never panics: Device.Sign's batching returns exactly one signature per  *)
(* hash, in input order, so neither the count check nor the validity check *)
(* of SignTransaction fires.                                               *)
HonestKeystoreNoPanic ==
    (result = "panic" /\ ~faulty) => ~WellFormed

=============================================================================
