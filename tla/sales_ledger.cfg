SPECIFICATION FairSpec
CONSTANTS
    Txns <- MCTxns
    Ops <- MCOps
    OpOf <- MCOpOf
    Req <- MCReq
    Branches = {"b1", "b2"}
    Customers = {"thabo"}
    NoCustomer = "nobody"
    ProductOrder <- MCProducts
    Tracked = {"maize", "rice"}
    Price <- MCPrice
    Cost <- MCCost
    Scale = 2
    StockAtStart <- MCStock
    CardAtStart <- MCCard
    Edits <- MCEdits
    Scenarios <- MCScenarios
    Mortal = {"s1a", "paya"}
    Opening = {"s0"}
INVARIANTS StockExact ReturnedWithinSold ReceivablesHealthy NothingStranded
PROPERTIES CreditWithinLimit ImplementsServer EventuallyAnswered
