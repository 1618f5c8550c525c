\* One SignTransaction call per behaviour over every request and every
\* answer of the firmware; a call ends, so deadlock is not checked.
CONSTANTS
    Outpoints <- MCOutpoints
    Txs <- MCTxs
    BatchSize = 2
    NoSig = NoSig
SPECIFICATION FairSpec
CHECK_DEADLOCK FALSE
INVARIANT TypeOK
INVARIANT HonestKeystoreNoPanic
PROPERTY TxSignerImplementsAtomicSign
