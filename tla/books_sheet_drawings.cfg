SPECIFICATION Spec
CONSTANTS
    Txns <- MCTxns
    Ops <- MCOps
    OpOf <- MCOpOf
    Req <- MCReq
    Source <- MCSource
    Branches = {"b1", "b2"}
    AllBranches = "all"
    Today = 3
    Locked = 0
    Scenarios <- MCScenarios
    Mortal = {"rent", "lock1"}
INVARIANT SheetBalances
