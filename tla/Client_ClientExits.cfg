\* The GET benchmark client when newTransaction may give a transaction
\* that cannot send headers.
CONSTANTS
    Txns <- MCTxns
    Method = "GET"
    QLog = FALSE
    Outcomes = {"ok", "no_headers"}
SPECIFICATION FairSpec
PROPERTY ClientExits
CHECK_DEADLOCK FALSE
