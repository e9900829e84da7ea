------------------------------- MODULE MCGoods -------------------------------
(* Two branches, two products, one supplier and a receipt. *)
EXTENDS Goods

M(n) == [maize |-> n]
MR(m, r) == [maize |-> m, rice |-> r]
Bought(ordered, received, cost, tax) ==
    [ordered |-> ordered, received |-> received, cost |-> cost, tax |-> tax]
Buy(branch, items, paid, receipt) ==
    [kind |-> "purchase", branch |-> branch, supplier |-> "mill", items |-> items,
     paid |-> paid, receipt |-> receipt]
Pay(purchase, amount) ==
    [kind |-> "payment", branch |-> "b1", supplier |-> "mill", items |-> <<>>,
     purchase |-> purchase, amount |-> amount]
Items(kind, branch, items) == [kind |-> kind, branch |-> branch, items |-> items]
Adjust(branch, items, opening) ==
    [kind |-> "adjustment", branch |-> branch, items |-> items, opening |-> opening]
Move(from, to, items) == [kind |-> "transfer", branch |-> from, to |-> to, items |-> items]
Card(cost, active, track) == [cost |-> cost, active |-> active, track |-> track]

MCReq ==
    [old |-> Buy("b1", M(Bought(3, 2, 180, 1)), 2, NoReceipt),
     buy |-> Buy("b1", M(Bought(3, 2, 630, 0)), 4, NoReceipt),
     more |-> Buy("b2", MR(Bought(1, 1, 90, 0), Bought(1, 1, 60, 0)), 0, "photo"),
     soap |-> Buy("b1", [soap |-> Bought(2, 2, 60, 1)], 5, NoReceipt),
     pay |-> Pay("old", 5), rest |-> Pay("old", 6), ahead |-> Pay(NoPurchase, 2),
     rent |-> [kind |-> "expense", branch |-> "b1", items |-> <<>>, amount |-> 3,
               receipt |-> "photo"],
     loss |-> Adjust("b1", M(-2), FALSE), stock |-> Adjust("b1", M(1), TRUE),
     out |-> Move("b1", "b2", MR(1, 1)), back |-> Move("b2", "b1", M(1)),
     count |-> Items("stocktake", "b1", M(2)), counts |-> Items("stocktake", "b1", MR(3, 0)),
     sell |-> Items("sale", "b1", M(2)), sells |-> Items("sale", "b1", MR(1, 1)),
     edit |-> Items("edit", "b1", M(Card(240, FALSE, TRUE))),
     here |-> [kind |-> "upload", branch |-> "b1", items |-> <<>>, digest |-> "photo"],
     there |-> [kind |-> "upload", branch |-> "b2", items |-> <<>>, digest |-> "photo"]]
MCOps == DOMAIN MCReq
MCTxns == MCOps \cup {"pay2", "buy2"}
MCOpOf == [t \in MCTxns |-> IF t = "pay2" THEN "pay" ELSE IF t = "buy2" THEN "buy" ELSE t]
MCScenarios ==
    {{"buy", "buy2", "sell", "count"},              \* stock and its average cost
     {"out", "back", "sells", "more", "here"},      \* branches and products in a circle
     {"loss", "stock", "edit", "counts", "sell"},   \* a card that changes underneath
     {"pay", "pay2", "rest", "ahead"},              \* payments for one purchase
     {"here", "there", "rent", "more", "soap"}}     \* one receipt, two branches
MCBranches == <<"b1", "b2">>
MCProducts == <<"maize", "rice", "soap">>
MCStock == [b1 |-> [maize |-> 2, rice |-> 1, soap |-> 0], b2 |-> [maize |-> 0, rice |-> 0, soap |-> 0]]
MCCards == [maize |-> Card(120, TRUE, TRUE), rice |-> Card(60, TRUE, TRUE), soap |-> Card(60, TRUE, FALSE)]
==============================================================================
