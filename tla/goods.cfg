SPECIFICATION FairSpec
CONSTANTS
    Txns <- MCTxns
    Ops <- MCOps
    OpOf <- MCOpOf
    Req <- MCReq
    BranchOrder <- MCBranches
    ProductOrder <- MCProducts
    NoPurchase = "in advance"
    Digests = {"photo"}
    NoReceipt = "no receipt"
    CostScale = 60
    StockAtStart <- MCStock
    CardAtStart <- MCCards
    Opening = {"old"}
    Scenarios <- MCScenarios
    Mortal = {"buy", "here"}
INVARIANTS StockIsMovements PayablesHealthy ValuationTracked DocumentsStored
PROPERTY EventuallyAnswered
