--------------------------- MODULE CreditReservation ---------------------------
(***************************************************************************)
(* Credit sales of one customer on one device.  The sale waits in one      *)
(* local database (pending_sales, app_database.dart), the credit it takes  *)
(* and the customer's balance are in another (pending_customer_credits and *)
(* cached_customers, customer_database.dart), and no transaction spans the *)
(* two: submitSale reserves and then queues, a flush settles the sale and  *)
(* the reservation one after the other, and reconciliation compares a list *)
(* of the one with a list of the other.  Every transaction is a step;      *)
(* submissions, flushes and refreshes interleave between them.             *)
(*                                                                         *)
(* Flushes list the sales oldest first; nothing here depends on the order, *)
(* and it is left open.  The customer's payments are not modelled.         *)
(***************************************************************************)
EXTENDS Integers, FiniteSets, Functions

CONSTANTS
    Sales,          \* client operation ids of credit sales
    NoSale,
    Credit,         \* what each sale leaves unpaid (creditMinor)
    Limit,          \* the customer's credit limit
    Flows,          \* concurrent flushes
    Refreshes,      \* concurrent calls of CustomerRepository.refresh
    FaultKinds,     \* which failures may happen
    MaxFaults       \* how many of them at most

ASSUME CreditAssumption ==
    /\ IsFiniteSet(Sales) /\ NoSale \notin Sales
    /\ Credit \in [Sales -> Nat \ {0}]
    /\ Limit \in Nat
    /\ FaultKinds \subseteq {"unstocked", "denied", "error", "lost", "crash"}
    /\ MaxFaults \in Nat

VARIABLES
    \* the two local databases
    row,            \* status in pending_sales; "none" before it is queued
    reserved,       \* the rows of pending_customer_credits
    outstanding,    \* cached_customers.outstanding_minor
    available,      \* cached_customers.available_credit_minor
    \* submitSale, one task per sale
    task,
    \* one task per flush
    pc, todo, cur, reply,
    \* one task per refresh
    at, live, victims, answer,
    \* the server
    posted,         \* the sales it has completed
    faultsLeft,
    \* history, read by properties only
    counted,        \* how often each sale is part of outstanding
    cut,            \* what the last refresh found to be owed beyond the limit
    unseen,         \* the sales a refresh did not find in the outbox
    overlooked,     \* the sales whose credit such a refresh has released
    retaken         \* the sales a flush took up again after a refusal

creditVars == <<reserved, outstanding, available, counted, cut>>
deviceVars == <<row, creditVars>>
flushVars == <<pc, todo, cur, reply>>
refreshVars == <<at, live, victims, answer, unseen>>
lapses == <<overlooked, retaken>>
vars == <<deviceVars, task, flushVars, refreshVars, posted, faultsLeft, lapses>>

Lesser(a, b) == IF a < b THEN a ELSE b
Greater(a, b) == IF a > b THEN a ELSE b

Total(S) == SumFunctionOnSet(Credit, S)

Init ==
    /\ row = [s \in Sales |-> "none"]
    /\ reserved = {}
    /\ outstanding = 0
    /\ available = Limit
    /\ task = [s \in Sales |-> "new"]
    /\ pc = [w \in Flows |-> "idle"]
    /\ todo = [w \in Flows |-> {}]
    /\ cur = [w \in Flows |-> NoSale]
    /\ reply = [w \in Flows |-> "none"]
    /\ at = [r \in Refreshes |-> "idle"]
    /\ live = [r \in Refreshes |-> {}]
    /\ victims = [r \in Refreshes |-> {}]
    /\ answer = [r \in Refreshes |-> {}]
    /\ posted = {}
    /\ faultsLeft = MaxFaults
    /\ counted = [s \in Sales |-> 0]
    /\ cut = 0
    /\ unseen = [r \in Refreshes |-> {}]
    /\ overlooked = {} /\ retaken = {}

Spend(kind) ==
    /\ kind \in FaultKinds
    /\ faultsLeft > 0
    /\ faultsLeft' = faultsLeft - 1

Syncable == {s \in Sales : row[s] \in {"pending", "syncing"}}

\* Slip: given back whether or not the reservation is still there.
ReleaseAlways(s) ==
    /\ reserved' = reserved \ {s}
    /\ outstanding' = Greater(0, outstanding - Credit[s])
    /\ available' = Lesser(Limit, available + Credit[s])
    /\ counted' = [counted EXCEPT ![s] = @ - 1]
    /\ UNCHANGED cut

\* releaseCreditReservation, one transaction, from whichever task calls it.
Release(s) ==
    \/ s \notin reserved /\ UNCHANGED creditVars
    \/ /\ s \in reserved
       /\ reserved' = reserved \ {s}
       /\ outstanding' = Greater(0, outstanding - Credit[s])
       /\ available' = Lesser(Limit, available + Credit[s])
       /\ counted' = [counted EXCEPT ![s] = @ - 1]
       /\ UNCHANGED cut

--------------------------------------------------------------------------------
(* submitSale                                                               *)

Goes(s, place) == task' = [task EXCEPT ![s] = place]

\* reserveCredit: refused beyond the available credit.
Reserve(s) ==
    /\ task[s] = "new"
    /\ Credit[s] <= available
    /\ reserved' = reserved \cup {s}
    /\ outstanding' = outstanding + Credit[s]
    /\ available' = Greater(0, available - Credit[s])
    /\ counted' = [counted EXCEPT ![s] = @ + 1]
    /\ Goes(s, "reserved")
    /\ UNCHANGED <<row, cut, flushVars, refreshVars, posted, faultsLeft, lapses>>

\* queueSaleAndApplyStock.
Queue(s) ==
    /\ task[s] = "reserved"
    /\ row' = [row EXCEPT ![s] = "pending"]
    /\ Goes(s, "done")
    /\ UNCHANGED <<creditVars, flushVars, refreshVars, posted, faultsLeft, lapses>>

\* It throws when the cached stock does not cover the sale.
QueueThrows(s) ==
    /\ task[s] = "reserved"
    /\ Spend("unstocked")
    /\ Goes(s, "undo")
    /\ UNCHANGED <<deviceVars, flushVars, refreshVars, posted, lapses>>

Undo(s) ==
    /\ task[s] = "undo"
    /\ Release(s)
    /\ Goes(s, "done")
    /\ UNCHANGED <<row, flushVars, refreshVars, posted, faultsLeft, lapses>>

--------------------------------------------------------------------------------
(* flushPendingSales                                                        *)

Goto(w, place) == pc' = [pc EXCEPT ![w] = place]

\* for the history: a row that another flush has marked 'conflict' by now
Retakes(s) ==
    /\ retaken' = IF row[s] = "conflict" THEN retaken \cup {s} ELSE retaken
    /\ UNCHANGED overlooked

StartFlush(w) ==
    /\ pc[w] = "idle"
    /\ Goto(w, "pick")
    /\ todo' = [todo EXCEPT ![w] = Syncable]
    /\ UNCHANGED <<deviceVars, task, cur, reply, refreshVars, posted, faultsLeft,
                   lapses>>

EndFlush(w) ==
    /\ pc[w] = "pick"
    /\ todo[w] = {}
    /\ Goto(w, "idle")
    /\ UNCHANGED <<deviceVars, task, todo, cur, reply, refreshVars, posted,
                   faultsLeft, lapses>>

\* markPendingSale 'syncing', whatever the row's status is by now.
TakeSale(w) ==
    /\ pc[w] = "pick"
    /\ \E s \in todo[w] :
           /\ todo' = [todo EXCEPT ![w] = @ \ {s}]
           /\ cur' = [cur EXCEPT ![w] = s]
           /\ row' = [row EXCEPT ![s] = "syncing"]
           /\ Retakes(s)
    /\ Goto(w, "posted")
    /\ UNCHANGED <<creditVars, task, reply, refreshVars, posted, faultsLeft>>

Waiting(w) == pc[w] = "posted" /\ reply[w] = "none"

Answer(w, r) == reply' = [reply EXCEPT ![w] = r]

\* complete_sale: the stored result for an id it knows, a refusal beyond the
\* limit, a completed sale otherwise.
ServerAnswers(w) ==
    /\ Waiting(w)
    /\ \/ /\ cur[w] \in posted \/ Total(posted) + Credit[cur[w]] <= Limit
          /\ posted' = posted \cup {cur[w]}
          /\ Answer(w, "ok")
       \/ /\ cur[w] \notin posted
          /\ Total(posted) + Credit[cur[w]] > Limit
          /\ Answer(w, "rejected")
          /\ UNCHANGED posted
    /\ UNCHANGED <<deviceVars, task, pc, todo, cur, refreshVars, faultsLeft,
                   lapses>>

\* A 4xx that does not come from the sale itself (rate limit, permission,
\* branch), whether or not the server has the sale.
ServerDenies(w) ==
    /\ Waiting(w)
    /\ Spend("denied")
    /\ Answer(w, "rejected")
    /\ UNCHANGED <<deviceVars, task, pc, todo, cur, refreshVars, posted, lapses>>

\* 401, 5xx, or no answer: before or after the server has committed.
NoAnswer(w) ==
    /\ pc[w] = "posted" /\ reply[w] # "error"
    /\ Spend("lost")
    /\ Answer(w, "error")
    /\ UNCHANGED <<deviceVars, task, pc, todo, cur, refreshVars, posted, lapses>>

Rest(w) ==
    /\ Goto(w, "pick")
    /\ cur' = [cur EXCEPT ![w] = NoSale]
    /\ reply' = [reply EXCEPT ![w] = "none"]

\* finalizeCreditReservation: the row goes, the balance stays as it is.
Finalize(w) ==
    /\ pc[w] = "posted" /\ reply[w] = "ok"
    /\ reserved' = reserved \ {cur[w]}
    /\ Goto(w, "finalized")
    /\ UNCHANGED <<row, outstanding, available, counted, cut, task, todo, cur,
                   reply, refreshVars, posted, faultsLeft, lapses>>

\* markPendingSaleSynced.
Synced(w) ==
    /\ pc[w] = "finalized"
    /\ row' = [row EXCEPT ![cur[w]] = "synced"]
    /\ Rest(w)
    /\ UNCHANGED <<creditVars, task, todo, refreshVars, posted, faultsLeft, lapses>>

MarkConflict(w) ==
    /\ pc[w] = "posted" /\ reply[w] = "rejected"
    /\ row' = [row EXCEPT ![cur[w]] = "conflict"]
    /\ Goto(w, "refused")
    /\ UNCHANGED <<creditVars, task, todo, cur, reply, refreshVars, posted,
                   faultsLeft, lapses>>

ReleaseRefused(w) ==
    /\ pc[w] = "refused"
    /\ Release(cur[w])
    /\ Rest(w)
    /\ UNCHANGED <<row, task, todo, refreshVars, posted, faultsLeft, lapses>>

\* Back to 'pending', and out of the loop.
PutBack(w) ==
    /\ pc[w] = "posted" /\ reply[w] = "error"
    /\ row' = [row EXCEPT ![cur[w]] = "pending"]
    /\ Retakes(cur[w])
    /\ todo' = [todo EXCEPT ![w] = {}]
    /\ Rest(w)
    /\ UNCHANGED <<creditVars, task, refreshVars, posted, faultsLeft>>

--------------------------------------------------------------------------------
(* CustomerRepository: reconcile, and then replace the cached balance       *)

Moves(r, place) == at' = [at EXCEPT ![r] = place]

\* _reconcileCreditReservations reads the sales ...
ReadSales(r) ==
    /\ at[r] = "idle"
    /\ live' = [live EXCEPT ![r] = Syncable]
    /\ unseen' = [unseen EXCEPT ![r] = {s \in Sales : row[s] = "none"}]
    /\ Moves(r, "listed")
    /\ UNCHANGED <<deviceVars, task, flushVars, victims, answer, posted, faultsLeft,
                   lapses>>

\* Slip: a reservation without any row in the outbox is overlooked.
ReadQueuedReservations(r) ==
    /\ at[r] = "listed"
    /\ victims' = [victims EXCEPT ![r] = {s \in reserved \ live[r] : row[s] # "none"}]
    /\ live' = [live EXCEPT ![r] = {}]
    /\ unseen' = [unseen EXCEPT ![r] = @ \cap victims'[r]]
    /\ Moves(r, "releasing")
    /\ UNCHANGED <<deviceVars, task, flushVars, answer, posted, faultsLeft, lapses>>

\* ... and reconcileCreditReservations then the reservations, and releases one
\* by one those without a sale in the list.
ReadReservations(r) ==
    /\ at[r] = "listed"
    /\ victims' = [victims EXCEPT ![r] = reserved \ live[r]]
    /\ live' = [live EXCEPT ![r] = {}]
    /\ unseen' = [unseen EXCEPT ![r] = @ \cap victims'[r]]
    /\ Moves(r, "releasing")
    /\ UNCHANGED <<deviceVars, task, flushVars, answer, posted, faultsLeft, lapses>>

ReleaseOrphan(r) ==
    /\ at[r] = "releasing"
    /\ \E s \in victims[r] :
           /\ Release(s)
           /\ victims' = [victims EXCEPT ![r] = @ \ {s}]
           /\ overlooked' = overlooked \cup ({s} \cap unseen[r])
           /\ unseen' = [unseen EXCEPT ![r] = @ \ {s}]
    /\ UNCHANGED <<row, task, flushVars, at, live, answer, posted, faultsLeft,
                   retaken>>

\* getCustomers and reconcileOfflineProjections end here, and so does a refresh
\* that is offline.
EndReconcile(r) ==
    /\ at[r] = "releasing"
    /\ victims[r] = {}
    /\ Moves(r, "idle")
    /\ UNCHANGED <<deviceVars, task, flushVars, live, victims, answer, unseen,
                   posted, faultsLeft, lapses>>

\* GET /customers.
Fetch(r) ==
    /\ at[r] = "releasing"
    /\ victims[r] = {}
    /\ answer' = [answer EXCEPT ![r] = posted]
    /\ Moves(r, "fetched")
    /\ UNCHANGED <<deviceVars, task, flushVars, live, victims, unseen, posted,
                   faultsLeft, lapses>>

\* Slip: the reservations are not applied to the new balance.
ReplaceOnly(r) ==
    /\ at[r] = "fetched"
    /\ outstanding' = Total(answer[r])
    /\ available' = Greater(0, Limit - Total(answer[r]))
    /\ cut' = Greater(0, outstanding' - Limit)
    /\ counted' = [s \in Sales |-> IF s \in answer[r] THEN 1 ELSE 0]
    /\ answer' = [answer EXCEPT ![r] = {}]
    /\ Moves(r, "idle")
    /\ UNCHANGED <<row, reserved, task, flushVars, live, victims, unseen, posted,
                   faultsLeft, lapses>>

\* replaceCustomers and _reapplyCreditReservations, one transaction.
Replace(r) ==
    /\ at[r] = "fetched"
    /\ outstanding' = Total(answer[r]) + Total(reserved)
    /\ available' = Greater(0, Greater(0, Limit - Total(answer[r])) - Total(reserved))
    /\ cut' = Greater(0, outstanding' - Limit)
    /\ counted' = [s \in Sales |-> (IF s \in answer[r] THEN 1 ELSE 0)
                                   + (IF s \in reserved THEN 1 ELSE 0)]
    /\ answer' = [answer EXCEPT ![r] = {}]
    /\ Moves(r, "idle")
    /\ UNCHANGED <<row, reserved, task, flushVars, live, victims, unseen, posted,
                   faultsLeft, lapses>>

\* The app is killed; both databases stay as they are.
Crash ==
    /\ Spend("crash")
    /\ task' = [s \in Sales |-> IF task[s] = "new" THEN "new" ELSE "done"]
    /\ pc' = [w \in Flows |-> "idle"]
    /\ todo' = [w \in Flows |-> {}]
    /\ cur' = [w \in Flows |-> NoSale]
    /\ reply' = [w \in Flows |-> "none"]
    /\ at' = [r \in Refreshes |-> "idle"]
    /\ live' = [r \in Refreshes |-> {}]
    /\ victims' = [r \in Refreshes |-> {}]
    /\ answer' = [r \in Refreshes |-> {}]
    /\ unseen' = [r \in Refreshes |-> {}]
    /\ UNCHANGED <<deviceVars, posted, lapses>>

--------------------------------------------------------------------------------
FlushStep(w) ==
    \/ EndFlush(w) \/ TakeSale(w) \/ ServerAnswers(w)
    \/ Finalize(w) \/ Synced(w) \/ MarkConflict(w) \/ ReleaseRefused(w) \/ PutBack(w)

RefreshStep(r) ==
    \/ ReadSales(r) \/ ReadReservations(r) \/ ReleaseOrphan(r)
    \/ EndReconcile(r) \/ Fetch(r) \/ Replace(r)

Next ==
    \/ \E s \in Sales : Reserve(s) \/ Queue(s) \/ QueueThrows(s) \/ Undo(s)
    \/ \E w \in Flows : StartFlush(w) \/ FlushStep(w) \/ ServerDenies(w) \/ NoAnswer(w)
    \/ \E r \in Refreshes : RefreshStep(r)
    \/ Crash

Spec == Init /\ [][Next]_vars

\* Whatever has begun goes on; flushes and refreshes are asked for again and
\* again (SyncBloc reconciles at every session, the customer list whenever it
\* is opened).  Nobody is obliged to sell.
FairSpec ==
    /\ Spec
    /\ \A s \in Sales : WF_vars(Queue(s)) /\ WF_vars(Undo(s))
    /\ \A w \in Flows : WF_vars(StartFlush(w)) /\ WF_vars(FlushStep(w))
    /\ \A r \in Refreshes : WF_vars(RefreshStep(r))

--------------------------------------------------------------------------------
\* The types of the two balances are part of OutstandingExact.
TypeOK ==
    /\ row \in [Sales -> {"none", "pending", "syncing", "synced", "conflict"}]
    /\ reserved \subseteq Sales
    /\ task \in [Sales -> {"new", "reserved", "undo", "done"}]
    /\ pc \in [Flows -> {"idle", "pick", "posted", "finalized", "refused"}]
    /\ todo \in [Flows -> SUBSET Sales]
    /\ cur \in [Flows -> Sales \cup {NoSale}]
    /\ \A w \in Flows : pc[w] \in {"posted", "finalized", "refused"} => cur[w] \in Sales
    /\ reply \in [Flows -> {"none", "ok", "rejected", "error"}]
    /\ at \in [Refreshes -> {"idle", "listed", "releasing", "fetched"}]
    /\ live \in [Refreshes -> SUBSET Sales]
    /\ victims \in [Refreshes -> SUBSET Sales]
    /\ answer \in [Refreshes -> SUBSET Sales]
    /\ posted \subseteq Sales
    /\ faultsLeft \in 0..MaxFaults
    /\ counted \in [Sales -> Int]
    /\ cut \in Nat
    /\ unseen \in [Refreshes -> SUBSET Sales]
    /\ overlooked \subseteq Sales /\ retaken \subseteq Sales

\* The credit of a sale is given back at most once for each time it is taken,
\* although two flushes that refuse the sale, the undo of submitSale and any
\* number of reconciliations may all try: a reservation that is still there is
\* part of the balance, and nothing is taken out that is not.
ReleasedOnce == \A s \in Sales : counted[s] >= (IF s \in reserved THEN 1 ELSE 0)

\* A sale that waits to be sent holds its credit until the server has it, so that
\* the device does not promise the same credit twice.  There are two ways to lose
\* it: a reconciliation that listed the sales before this one was queued
\* (customer_repository.dart:249), and an overlapping flush that takes a refused
\* sale up again (app_database.dart:399).
SaleHoldsCredit ==
    \A s \in Syncable : s \in reserved \cup posted \cup overlooked \cup retaken

\* Credit is neither given back twice nor given back while the sale still waits,
\* but for those two ways.
ReservationsKept == ReleasedOnce /\ SaleHoldsCredit

\* So the clamp at zero in releaseCreditReservation never hides anything: the
\* balance shown is the sum of what it is made of.  The credit offered is what the
\* limit leaves of it, and more only by what the last refresh had to cut off at
\* zero: a release then gives back credit that nobody had taken
\* (customer_database.dart:159).
OutstandingExact ==
    /\ outstanding = SumFunction([s \in Sales |-> counted[s] * Credit[s]])
    /\ available \in 0..Limit
    /\ available + outstanding \in Limit..(Limit + cut)

\* "Pending sales in the primary outbox are authoritative: any reservation with
\* no corresponding queued sale is an orphan and must be released"
\* (customer_repository.dart:61), also after a crash between the two writes: there
\* is always a later moment at which no reservation is an orphan.
Orphan(s) == s \in reserved /\ row[s] \notin {"pending", "syncing"} /\ task[s] = "done"
OrphansReleased == []<>(\A s \in Sales : ~Orphan(s))

\* What makes SaleHoldsCredit inductive: what has been sent has been queued, and a
\* reconciliation only releases what it did not find in the outbox.
TasksHold ==
    \A s \in Sales :
        /\ task[s] = "reserved" => s \in reserved \cup overlooked
        /\ task[s] # "done" => row[s] = "none"
        /\ s \in posted \cup retaken => row[s] # "none"
        /\ row[s] = "synced" => s \in posted

FlushesHold ==
    \A w \in Flows :
        /\ \A s \in todo[w] : row[s] # "none"
        /\ pc[w] \in {"posted", "finalized", "refused"} => row[cur[w]] # "none"
        /\ pc[w] = "refused" => row[cur[w]] = "conflict" \/ cur[w] \in posted \cup retaken
        /\ pc[w] = "finalized" => cur[w] \in posted
        /\ reply[w] = "ok" => pc[w] \in {"posted", "finalized"} /\ cur[w] \in posted

RefreshesHold ==
    \A r \in Refreshes :
        /\ at[r] # "releasing" => victims[r] = {}
        /\ \A s \in Sales :
              (at[r] = "listed" /\ s \notin live[r]) \/ s \in victims[r] =>
                  s \in unseen[r] \cup posted \cup retaken \/ row[s] = "conflict"

CreditInv == ReservationsKept /\ TasksHold /\ FlushesHold /\ RefreshesHold
================================================================================
