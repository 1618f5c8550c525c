----------------------------- MODULE MCTxSigner -----------------------------
(* Model-checking instance of TxSigner: three outpoints, every transaction *)
(* of up to three distinct inputs in any order (so sorted and unsorted     *)
(* ones, and the empty one), and batches of two, so a three-input          *)
(* transaction takes a full batch and a partial one.                       *)
EXTENDS TxSigner

MCOutpoints == {1, 2, 3}

MCTxs == UNION {[1..n -> MCOutpoints] : n \in 0..3}
           \cap {s \in Seq(MCOutpoints) : \A i, j \in DOMAIN s : i # j => s[i] # s[j]}

=============================================================================
