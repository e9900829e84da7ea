SPECIFICATION Spec
CONSTANTS
    Ops = {"sale", "payment"}
    NoOp = NoOp
    Kind <- MCKind
    Receipt <- MCReceipt
    DependsOn <- MCDependsOn
    Rejectable = {}
    FullFlows = {f1}
    PurchaseFlows = {}
    ExpenseFlows = {}
    DocumentFlows = {}
    Flows <- MCFlows
    Pipeline <- MCPipeline
    FaultKinds = {"error"}
    MaxFaults = 1

PROPERTIES SaleBeforePayment
