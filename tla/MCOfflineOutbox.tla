---------------------------- MODULE MCOfflineOutbox ----------------------------
(***************************************************************************)
(* Small outboxes for TLC.  The operations of each run are listed in its   *)
(* cfg as a set; kinds, receipts and dependencies follow from their names. *)
(***************************************************************************)
EXTENDS OfflineOutbox

CONSTANTS FullFlows, PurchaseFlows, ExpenseFlows, DocumentFlows

MCFlows == FullFlows \cup PurchaseFlows \cup ExpenseFlows \cup DocumentFlows

MCPipeline == [w \in MCFlows |-> CASE w \in FullFlows     -> FlushAll
                                   [] w \in PurchaseFlows -> FlushPendingPurchases
                                   [] w \in ExpenseFlows  -> FlushPendingExpenses
                                   [] w \in DocumentFlows -> FlushPendingDocuments]

KindOf == [receipt |-> "document", rent |-> "expense",
           maize |-> "purchase", beans |-> "purchase", salt |-> "purchase",
           sale |-> "sale", payment |-> "payment"]

MCKind == [o \in Ops |-> KindOf[o]]

\* One slip of paper may be attached to several purchases and to an expense.
MCReceipt == [o \in Ops |-> IF KindOf[o] \in {"purchase", "expense"} /\ "receipt" \in Ops
                            THEN "receipt" ELSE NoOp]

\* The sales sell the goods of the purchases; the payment is for the first sale,
\* made on credit.
MCDependsOn == [o \in Ops |-> CASE KindOf[o] = "sale"    -> {p \in Ops : KindOf[p] = "purchase"}
                                [] KindOf[o] = "payment" -> {"sale"} \cap Ops
                                [] OTHER                 -> {}]
================================================================================
