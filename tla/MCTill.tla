-------------------------------- MODULE MCTill --------------------------------
(* One cashier's drawer and what may happen to it at once. *)
EXTENDS Till

AtTill(kind, amount) == [kind |-> kind, till |-> "t1", amount |-> amount]
Close(s, counted) == [kind |-> "close", till |-> "t1", shift |-> s, counted |-> counted]

MCReq ==
    [open |-> AtTill("open", 5), next |-> AtTill("open", 2),
     float |-> AtTill("paid_in", 1), bank |-> AtTill("paid_out", 6), fare |-> AtTill("paid_out", 4),
     sale |-> AtTill("sale", 3), refund |-> AtTill("refund", 4),
     evening |-> Close("open", 7), morning |-> Close("next", 2)]
MCOps == DOMAIN MCReq
MCTxns ==
    {"open1", "open2", "next1", "float1", "bank1", "fare1", "fare2", "sale1", "refund1",
     "evening1", "evening2", "morning1"}
MCOpOf ==
    [open1 |-> "open", open2 |-> "open", next1 |-> "next", float1 |-> "float",
     bank1 |-> "bank", fare1 |-> "fare", fare2 |-> "fare", sale1 |-> "sale",
     refund1 |-> "refund", evening1 |-> "evening", evening2 |-> "evening",
     morning1 |-> "morning"]
MCScenarios ==
    {{"open1", "open2", "next1", "evening1", "sale1"},
     {"open1", "fare1", "fare2", "refund1", "evening1"},
     {"open1", "fare1", "bank1", "sale1", "evening1", "evening2"},
     {"open1", "float1", "refund1", "sale1", "evening1"},
     {"open1", "next1", "morning1", "evening1", "refund1"}}
===============================================================================
