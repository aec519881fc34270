\* The GET benchmark client without qlog, every transaction opened; the
\* connection may fail and any transaction may get an error.
CONSTANTS
    Txns <- MCTxns
    Method = "GET"
    QLog = FALSE
    Outcomes = {"ok"}
SPECIFICATION FairSpec
INVARIANT ExitAfterAllResponses
PROPERTY ClientExits
\* The process stops at exit(0), and after a failure it idles forever.
CHECK_DEADLOCK FALSE
