SPECIFICATION FairSpec
CONSTANTS
    Sales = {"maize", "salt"}
    NoSale = NoSale
    Credit <- MCCredit
    Limit = 4
    Flows = {f1, f2}
    Refreshes = {r1}
    FaultKinds = {"unstocked", "denied", "lost", "crash"}
    MaxFaults = 1
INVARIANTS ReservationsKept OutstandingExact
PROPERTIES OrphansReleased
