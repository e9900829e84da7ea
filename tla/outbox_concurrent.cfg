SPECIFICATION Spec
CONSTANTS
    Ops = {"receipt","maize","rent"}
    NoOp = NoOp
    Kind <- MCKind
    Receipt <- MCReceipt
    DependsOn <- MCDependsOn
    Rejectable = {}
    FullFlows = {f1}
    PurchaseFlows = {}
    ExpenseFlows = {f2}
    DocumentFlows = {}
    Flows <- MCFlows
    Pipeline <- MCPipeline
    FaultKinds = {"denied","error","lost","crash"}
    MaxFaults = 1
INVARIANTS OutboxInv DoneIsOnServer ReceiptFirst NoReceiptLeft
PROPERTIES ImplementsDelivery
