------------------------------- MODULE MCBooks -------------------------------
(* Three days, two branches, and an accountant at work while the shop sells. *)
EXTENDS Books

Line(a, debit, credit) == [account |-> a, debit |-> debit, credit |-> credit]
Pair(a, b, n) == <<Line(a, n, 0), Line(b, 0, n)>>
Post(kind, branch, date, lines) ==
    [kind |-> kind, branch |-> branch, date |-> date, lines |-> lines]
Undo(branch, date, of) == [kind |-> "reverse", branch |-> branch, date |-> date, of |-> of]
LockUpTo(d) == [kind |-> "lock", through |-> d]
Sheet(branch, to) == [kind |-> "sheet", branch |-> branch, to |-> to]
CashFlow(branch, from, to) == [kind |-> "cashflow", branch |-> branch, from |-> from, to |-> to]

MCReq ==
    [fund |-> Post("manual", "b1", 1, Pair("Cash", "Capital", 9)),
     draw |-> Post("manual", "b1", 2, Pair("Drawings", "Cash", 2)),
     gain |-> Post("operation", "b1", 2, Pair("Inventory", "Gains", 4)),
     sale |-> Post("operation", "b1", 3,
                   <<Line("Clearing", 5, 0), Line("Revenue", 0, 5),
                     Line("COGS", 3, 0), Line("Inventory", 0, 3)>>),
     other |-> Post("operation", "b2", 2, Pair("Bank", "Revenue", 6)),
     rent |-> Post("manual", "b1", 2, Pair("Rent", "Bank", 3)),
     wrong |-> Post("manual", "b1", 3, <<Line("Rent", 3, 0), Line("Bank", 0, 2)>>),
     undo |-> Undo("b1", 2, "rent"), undoToo |-> Undo(AllBranches, 3, "rent"),
     undoFund |-> Undo("b1", 3, "fund"), undoOther |-> Undo("b2", 3, "other"),
     lock1 |-> LockUpTo(1), lock2 |-> LockUpTo(2), lockLater |-> LockUpTo(4),
     sheet |-> Sheet(AllBranches, 3), sheetB1 |-> Sheet("b1", 2),
     flow |-> CashFlow(AllBranches, 2, 3)]
MCOps == DOMAIN MCReq
\* undo and undoFund come with the same client operation id
MCSource == [o \in MCOps |-> IF o = "undoFund" THEN "undo" ELSE o]
MCTxns == MCOps \cup {"rent2", "undo2"}
MCOpOf == [t \in MCTxns |-> IF t = "rent2" THEN "rent" ELSE IF t = "undo2" THEN "undo" ELSE t]
MCScenarios ==
    {{"rent", "rent2", "undo", "undo2", "undoToo"},
     {"rent", "fund", "undo", "undoFund", "lock1"},
     {"rent", "gain", "lock1", "lock2", "undo"},
     {"lock1", "lock2", "lockLater", "fund", "wrong"},
     {"sale", "gain", "draw", "sheet", "sheetB1"},
     {"fund", "rent", "undo", "sheet"},
     {"fund", "other", "undoOther", "draw", "flow"}}
==============================================================================
