SPECIFICATION FairSpec
CONSTANTS
    Ops = {"receipt","maize","beans","salt","sale","payment"}
    NoOp = NoOp
    Kind <- MCKind
    Receipt <- MCReceipt
    DependsOn <- MCDependsOn
    Rejectable = {}
    FullFlows = {f1}
    PurchaseFlows = {}
    ExpenseFlows = {}
    DocumentFlows = {}
    Flows <- MCFlows
    Pipeline <- MCPipeline
    FaultKinds = {"error","lost","crash"}
    MaxFaults = 1
PROPERTIES EventuallySettled DependenciesFirst
