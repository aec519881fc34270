\* The socket as the ConnectIP/ConnectUDP clients wire it: the
\* NewTransactionCallback attaches a plain reader to every transaction.
CONSTANTS
    NumTxns <- MCNumTxns
    SndBuf <- MCSndBuf
    RcvBuf <- MCRcvBuf
    MaxWrites <- MCMaxWrites
    MaxIn <- MCMaxIn
    AppReader = "plain"
    NewTxnReader = "plain"
    TxnMayFail = TRUE
SPECIFICATION Spec
INVARIANT NoNullDereference
CHECK_DEADLOCK FALSE
