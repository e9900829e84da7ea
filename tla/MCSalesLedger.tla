---------------------------- MODULE MCSalesLedger ----------------------------
(* Small shops for SalesLedger. *)
EXTENDS SalesLedger

Served(branch, customer, n, paid) ==
    [kind |-> "service", branch |-> branch, customer |-> customer,
     items |-> [maize |-> 0, rice |-> 0, haircut |-> n], paid |-> paid, lines |-> <<>>]
Sold(branch, customer, items, paid, lines) ==
    [kind |-> "sale", branch |-> branch, customer |-> customer,
     items |-> items, paid |-> paid, lines |-> lines]
Paid(branch, customer, amount, allocations) ==
    [kind |-> "payment", branch |-> branch, customer |-> customer,
     amount |-> amount, allocations |-> allocations]
Back(branch, s, void, items, method, shiftOpen) ==
    [kind |-> "return", branch |-> branch, sale |-> s, void |-> void,
     items |-> items, method |-> method, shiftOpen |-> shiftOpen]
Units(m, r) == [maize |-> m, rice |-> r, haircut |-> 0]

(* Two branches sell to one customer; the limit covers the opening sale    *)
(* and one of the two new ones.  Quantities are in halves, so that parts   *)
(* of a line are rounded.                                                  *)
MCProducts == <<"haircut", "maize", "rice">>
MCOps == {"s0", "s1", "s2", "pay", "exact", "back", "rest", "void", "cut", "uncut"}
MCReq ==
    [s0 |-> Sold("b1", "thabo", Units(2, 1), 1, <<"rice", "maize">>),
     s1 |-> Sold("b1", "thabo", Units(1, 1), 0, <<"maize", "rice">>),
     s2 |-> Sold("b2", "thabo", Units(2, 0), 1, <<"maize">>),
     pay |-> Paid("b1", "thabo", 5, <<>>),
     exact |-> Paid("b1", "thabo", 4, <<<<"s0", 3>>>>),
     back |-> Back("b1", "s0", FALSE, Units(1, 0), "cash", TRUE),
     rest |-> Back("b1", "s0", FALSE, Units(1, 1), "cash", FALSE),
     void |-> Back("b1", "s0", TRUE, Units(0, 0), "card", FALSE),
     cut |-> Served("b2", "thabo", 2, 1),
     uncut |-> Back("b2", "cut", TRUE, Units(0, 0), "cash", TRUE)]
MCTxns == {"s1a", "s1b", "s2a", "paya", "exacta", "backa", "resta", "voida", "cuta", "cutb", "uncuta"}
MCOpOf ==
    [s1a |-> "s1", s1b |-> "s1", s2a |-> "s2", paya |-> "pay", exacta |-> "exact",
     backa |-> "back", resta |-> "rest", voida |-> "void",
     cuta |-> "cut", cutb |-> "cut", uncuta |-> "uncut"]
MCScenarios ==
    {{"s1a", "s1b", "s2a", "paya", "backa"},    \* copies, credit, the three-way cycle
     {"backa", "resta", "voida"},               \* the parts and the whole of one sale
     {"cuta", "cutb", "uncuta", "s1a", "paya"}, \* a service on the same credit
     {"exacta", "paya", "voida"}}               \* two payments for a sale that is voided
MCStock == [b1 |-> Units(1, 1), b2 |-> Units(2, 0)]
MCPrice == [maize |-> 3, rice |-> 4, haircut |-> 4]
MCCost == Units(1, 2)
MCCard == [thabo |-> [limit |-> 8, terms |-> 2, active |-> TRUE]]
MCEdits == {[limit |-> 5, terms |-> 0, active |-> TRUE],
            [limit |-> 8, terms |-> 2, active |-> FALSE]}
=============================================================================
