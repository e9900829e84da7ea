SPECIFICATION FairStockSpec
CONSTANTS
    Ops = {"maize", "sale"}
    NoOp = NoOp
    Kind <- MCKind
    Receipt <- MCReceipt
    DependsOn <- MCDependsOn
    Rejectable = {}
    FullFlows = {f1}
    PurchaseFlows = {f2}
    ExpenseFlows = {}
    DocumentFlows = {}
    Flows <- MCFlows
    Pipeline <- MCPipeline
    FaultKinds = {"denied", "lost"}
    MaxFaults = 2
    Lines <- MCLines
    Opening = 0
    Refreshes = {r1}
INVARIANTS ExactProjection PendingCounted
PROPERTY Converges
