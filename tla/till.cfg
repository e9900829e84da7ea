SPECIFICATION Spec
CONSTANTS
    Txns <- MCTxns
    Ops <- MCOps
    OpOf <- MCOpOf
    Req <- MCReq
    Tills = {"t1"}
    Scenarios <- MCScenarios
    Mortal = {"fare1", "open1"}
INVARIANTS OneOpen OnlySalesMissed
PROPERTIES PaidOutCovered ClosedForGood
