SPECIFICATION DeskSpec
CONSTANTS
    Txns <- MCTxns
    Ops <- MCTxns
    OpOf <- MCOpOf
    Call <- MCCall
    Keys <- MCKeys
    RowsAtStart <- MCRowsAtStart
    PlatformAdmins = {"root"}
    Scenarios <- MCScenarios
    Mortal = {}
INVARIANTS BusinessWhole OneThingAtATime TalliesExact
PROPERTIES RevokedForGood ShutMeansOut
