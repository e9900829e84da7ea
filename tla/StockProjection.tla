---------------------------- MODULE StockProjection ----------------------------
(***************************************************************************)
(* The stock the device shows for one product of one branch               *)
(* (cached_products.on_hand_milli), on top of OfflineOutbox: recording a   *)
(* sale or a purchase applies its lines to the cached number, marking it   *)
(* as a conflict undoes them, and a refresh replaces the number by the     *)
(* server's and applies once more whatever is still pending.               *)
(*                                                                         *)
(* The number is kept as what it is made of: counted[o] says how often the *)
(* lines of operation o are part of it, so that OnHand below is the number *)
(* itself.  The server's number contains each committed operation once.    *)
(***************************************************************************)
EXTENDS OfflineOutbox, Integers, FiniteSetsExt

CONSTANTS
    Lines,          \* what an operation does to the stock: > 0 for a purchase,
                    \* < 0 for a sale, 0 for everything else
    Opening,        \* the server's stock before any of these operations
    Refreshes       \* concurrent calls of ProductRepository.refresh

ASSUME StockAssumption ==
    /\ Lines \in [Ops -> Int]
    /\ \A o \in Ops : /\ Kind[o] = "sale" => Lines[o] < 0
                      /\ Kind[o] = "purchase" => Lines[o] > 0
                      /\ Kind[o] \notin {"sale", "purchase"} => Lines[o] = 0
    /\ Opening \in Nat

VARIABLES
    counted,        \* how often each operation is part of the cached number
    fetching,       \* refreshes whose GET has been answered
    snapshot,       \* the operations in the answer
    \* history, read by properties only
    crossed,        \* operations that met the last refresh half way: accepted
                    \* before its answer and not yet settled when it was written,
                    \* or settled before it was written and not in its answer
    reopened        \* operations whose settled row another flow has written
                    \* again, from an old list, since the last refresh

stockVars == <<counted, fetching, snapshot, crossed, reopened>>
allVars == <<vars, stockVars>>

OnHand == Opening + MapThenSumSet(LAMBDA o : counted[o] * Lines[o], Ops)

Moves(o) == Lines[o] # 0

\* Slip: work whose request is in flight is left to the server.
ActiveIfPending(o) == row[o] = "pending" /\ Moves(o)

\* Slip: synced sales and refused work, which stay on the device, are applied as well.
ActiveIfKept(o) == Present(o) /\ Moves(o)

Active(o) == row[o] \in {"pending", "syncing"} /\ Moves(o)

StockInit ==
    /\ Init
    /\ counted = [o \in Ops |-> 0]
    /\ fetching = {}
    /\ snapshot = [r \in Refreshes |-> {}]
    /\ crossed = {}
    /\ reopened = {}

\* queueSaleAndApplyStock throws, and rolls the row back, when the cached stock
\* does not cover the sale.
Covered ==
    \A o \in Ops : row[o] = "none" /\ row'[o] # "none" /\ Kind[o] = "sale" =>
        OnHand + Lines[o] >= 0

Inserted(o) == row[o] = "none" /\ row'[o] # "none" /\ Moves(o)

\* Slip: a refusal is recorded without its lines being undone.
RefusedPurchases(o) == row[o] # "conflict" /\ row'[o] = "conflict" /\ Lines[o] > 0

\* markPendingSale and markPendingPurchase undo the lines of a row that becomes
\* a conflict and is not one yet.
Refused(o) == row[o] # "conflict" /\ row'[o] = "conflict" /\ Moves(o)

Times(b) == IF b THEN 1 ELSE 0

Recount ==
    counted' = [o \in Ops |-> counted[o] + Times(Inserted(o)) - Times(Refused(o))]

\* A stale flow puts a synced sale back in flight, or moves refused work on.
Reopened(o) ==
    /\ Moves(o)
    /\ row[o] \in {"synced", "conflict"}
    /\ row'[o] \notin {row[o], "conflict"}

\* A step of the outbox, with what the same transaction does to the stock.
OutboxStep ==
    /\ Next
    /\ Covered
    /\ Recount
    /\ reopened' = reopened \cup {o \in Ops : Reopened(o)}
    /\ fetching' = IF Crash THEN {} ELSE fetching
    /\ UNCHANGED <<snapshot, crossed>>

\* GET /products: the server's number at this moment.
Fetch(r) ==
    /\ r \notin fetching
    /\ fetching' = fetching \cup {r}
    /\ snapshot' = [snapshot EXCEPT ![r] = {o \in applied : Moves(o)}]
    /\ UNCHANGED <<vars, counted, crossed, reopened>>

\* replaceProducts, in one transaction: delete, insert the answer, apply
\* _applyPendingPurchaseAdditions and _applyPendingSaleDeductions.
Replace(r) ==
    /\ r \in fetching
    /\ fetching' = fetching \ {r}
    /\ counted' = [o \in Ops |-> Times(o \in snapshot[r]) + Times(Active(o))]
    /\ crossed' = {o \in Ops : \/ o \in snapshot[r] /\ Active(o)
                               \/ o \notin snapshot[r] /\ Moves(o)
                                   /\ row[o] \in {"synced", "deleted"}}
    /\ reopened' = {}
    /\ UNCHANGED <<vars, snapshot>>

StockNext ==
    \/ OutboxStep
    \/ \E r \in Refreshes : Fetch(r) \/ Replace(r)

StockSpec == StockInit /\ [][StockNext]_allVars

\* Refreshes are asked for again and again: by SyncBloc after a flush that has
\* settled something, by realtime stock events, by opening the catalogue.
FairStockSpec ==
    /\ StockSpec
    /\ Fairness
    /\ \A r \in Refreshes : WF_allVars(Fetch(r)) /\ WF_allVars(Replace(r))

--------------------------------------------------------------------------------
StockTypeOK ==
    /\ counted \in [Ops -> Int]
    /\ fetching \subseteq Refreshes
    /\ snapshot \in [Refreshes -> SUBSET Ops]
    /\ crossed \subseteq Ops
    /\ reopened \subseteq Ops

Open(o) == row[o] \in {"pending", "syncing"} /\ Moves(o)

\* The cached number contains every operation the device has recorded exactly
\* once from the moment it is queued, whatever the server has of it, and refused
\* work not at all (or, if the server took it after all, as often as its answers
\* said).  Two things alone make it wrong, each until the next refresh at most:
\* a refresh that crosses a settlement (such a sale is then deducted twice, or
\* not at all), and a second flow with an old list that writes a settled row
\* again and so undoes its lines twice.  No crash, lost answer, late refusal,
\* queued sale or other refresh does.
ExactProjection ==
    \A o \in Ops : Moves(o) /\ o \notin crossed \cup reopened =>
        CASE row[o] = "none"     -> counted[o] = 0
          [] row[o] = "conflict" -> counted[o] \in {0, Times(o \in applied)}
          [] OTHER               -> counted[o] = 1

\* "server catalog refresh preserves deductions from queued offline sales"
\* (app_database_test.dart:89), for purchases too, and whatever snapshot the
\* refresh brings; a crossing refresh errs on the side of counting twice.
PendingCounted ==
    \A o \in Ops : Open(o) /\ o \notin reopened =>
        counted[o] = IF o \in crossed THEN 2 ELSE 1

\* However the flushes and refreshes interleaved, the number of a device whose
\* work is settled becomes the server's, and stays it.
Converges ==
    <>[](\A o \in Ops : Moves(o) /\ ~Open(o) => counted[o] = Times(o \in applied))

\* What makes ExactProjection and PendingCounted inductive: an answer of the
\* server names committed operations, those are queued ones, and what moves
\* stock is no document.
AnswersCommitted ==
    /\ \A r \in Refreshes : snapshot[r] \subseteq applied
    /\ \A o \in Ops : o \in applied \cup crossed \cup reopened => row[o] # "none"
    /\ \A o \in Ops : Moves(o) => row[o] # "uploaded"

StockInv == StockTypeOK /\ ExactProjection /\ PendingCounted /\ AnswersCommitted
================================================================================
