----------------------------- MODULE OfflineOutbox -----------------------------
(***************************************************************************)
(* The offline outbox of the Flutter client and the pipeline that empties  *)
(* it (core/sync/sync_service.dart over core/storage/app_database.dart and *)
(* features/customers/data/customer_database.dart).                        *)
(*                                                                         *)
(* Every user action is one row with a client-generated operation id.  A   *)
(* flow is one Dart task running a flush: flushAll from SyncBloc, from     *)
(* submitSale or from recordPayment, or one of the shorter pipelines run   *)
(* after recording a purchase, an expense or a receipt.  Nothing keeps two *)
(* flows apart (SyncBloc._running guards SyncBloc alone), so each await is *)
(* a point where another flow may act.  A database method is one step,     *)
(* except markPendingDocument: it runs outside a transaction, reads the    *)
(* row and writes the remote id it has read back with the new status.  A   *)
(* POST is a step of its own and its answer may be an acceptance, a        *)
(* refusal (4xx other than 401), an error (401 or 5xx), or nothing at all  *)
(* (error.response == null).                                               *)
(*                                                                         *)
(* A stage's in-flight status is 'uploading' for documents and 'syncing'   *)
(* for the others; both are "syncing" here.  Amounts, stock and credit     *)
(* are the subject of other modules.                                       *)
(***************************************************************************)
EXTENDS Naturals, Sequences, FiniteSets

CONSTANTS
    Ops,            \* operation ids (client_operation_id, localDocumentId)
    NoOp,           \* no operation
    Kind,           \* the table an operation's row lives in
    Receipt,        \* the receipt attached to a purchase or an expense
    DependsOn,      \* the work an operation builds on: a sale on the purchase
                    \* that supplies its stock, a payment on its credit sale
    Rejectable,     \* operations the server refuses for their content, and
                    \* receipts whose file is gone from the device
    Flows,          \* concurrent flushes
    Pipeline,       \* the stages each flow runs
    FaultKinds,     \* which failures may happen
    MaxFaults       \* how many of them at most

Kinds == {"document", "purchase", "sale", "payment", "expense"}

Faults == {"denied", "error", "lost", "crash"}

FlushAll == <<"document", "purchase", "sale", "payment", "expense">>

FlushPendingPurchases == <<"document", "purchase">>

FlushPendingExpenses == <<"document", "expense">>

FlushPendingDocuments == <<"document">>

ASSUME OutboxAssumption ==
    /\ NoOp \notin Ops
    /\ Kind \in [Ops -> Kinds]
    /\ Receipt \in [Ops -> Ops \cup {NoOp}]
    /\ \A o \in Ops : Receipt[o] # NoOp =>
           Kind[o] \in {"purchase", "expense"} /\ Kind[Receipt[o]] = "document"
    /\ DependsOn \in [Ops -> SUBSET Ops]
    /\ \A o \in Ops : \A d \in DependsOn[o] :
           <<Kind[d], Kind[o]>> \in {<<"purchase", "sale">>, <<"sale", "payment">>}
    /\ Rejectable \subseteq Ops
    /\ Pipeline \in [Flows -> {FlushAll, FlushPendingPurchases,
                               FlushPendingExpenses, FlushPendingDocuments}]
    /\ FaultKinds \subseteq Faults
    /\ MaxFaults \in Nat

VARIABLES
    \* the device's databases, which survive a crash
    row,            \* status of the row; "none" before it is queued,
                    \* "deleted" once the row is gone
    createdAt,      \* position in creation order, the ORDER BY of every list
    clock,          \* how many rows have been created
    link,           \* localDocumentId stored in a purchase or expense row
    remote,         \* documents whose row has a remoteDocumentId
    \* one Dart task per flow
    pc,             \* where the flow is
    stage,          \* index of the current stage in Pipeline[w]
    todo,           \* rest of the list the stage has read, as it was then
    cur,            \* the operation being sent
    reply,          \* what the flow has learned about the item
    seen,           \* whether the document row the flow is about to rewrite
                    \* had a remoteDocumentId when the flow read it
    \* the server and the network
    applied,        \* operations committed on the server
    stray,          \* operations of which an abandoned request may yet arrive
    faultsLeft,
    \* history, read by properties only
    since,          \* value of clock when the flow began
    deferred,       \* what the flow has put back, or left unsent because an
                    \* answered error ended its stage
    givenUp,        \* operations that have been marked as a conflict
    leftOver        \* documents whose clean-up a crash has cut off

deviceVars  == <<row, createdAt, clock, link, remote>>
passVars    == <<since, deferred>>
flowVars    == <<pc, stage, todo, cur, reply, seen, passVars>>
serverVars  == <<applied, stray>>
markVars    == <<givenUp, leftOver>>
vars == <<deviceVars, flowVars, serverVars, faultsLeft, markVars>>

Init ==
    /\ row = [o \in Ops |-> "none"]
    /\ createdAt = [o \in Ops |-> 0]
    /\ clock = 0
    /\ link = [o \in Ops |-> NoOp]
    /\ remote = {}
    /\ pc = [w \in Flows |-> "idle"]
    /\ stage = [w \in Flows |-> 1]
    /\ todo = [w \in Flows |-> {}]
    /\ cur = [w \in Flows |-> NoOp]
    /\ reply = [w \in Flows |-> "none"]
    /\ seen = [w \in Flows |-> FALSE]
    /\ applied = {}
    /\ stray = {}
    /\ faultsLeft = MaxFaults
    /\ since = [w \in Flows |-> 0]
    /\ deferred = [w \in Flows |-> {}]
    /\ givenUp = {}
    /\ leftOver = {}

--------------------------------------------------------------------------------
(* Rows                                                                     *)

Present(o) == row[o] \notin {"none", "deleted"}

\* Slip: rows left in flight by a crash are not picked up again.
SyncableIfPending(k) == {o \in Ops : Kind[o] = k /\ row[o] = "pending"}

Syncable(k) == {o \in Ops : Kind[o] = k /\ row[o] \in {"pending", "syncing"}}

\* markPending* writes whatever status it is given over whatever status the
\* row has, and does nothing when the row is gone.
Mark(o, status) == row' = IF Present(o) THEN [row EXCEPT ![o] = status] ELSE row

\* A document's remote id that another flow stores between the read and the
\* write is overwritten with the null that was read.
Reread(w, o) == seen' = [seen EXCEPT ![w] = o \in remote]

\* Slip: a document that is up stays up, but the id that was read is written.
RewriteKeepsUploaded(w, status) ==
    /\ IF row[cur[w]] = "uploaded" THEN row' = row ELSE Mark(cur[w], status)
    /\ remote' = IF Kind[cur[w]] = "document" /\ ~seen[w] THEN remote \ {cur[w]} ELSE remote

Rewrite(w, status) ==
    /\ Mark(cur[w], status)
    /\ remote' = IF Kind[cur[w]] = "document" /\ ~seen[w] THEN remote \ {cur[w]} ELSE remote

Spend(kind) ==
    /\ kind \in FaultKinds
    /\ faultsLeft > 0
    /\ faultsLeft' = faultsLeft - 1

\* A row is written once per operation id.  The receipt of a purchase or an
\* expense is looked up first: when its row is already gone the payload keeps
\* the raw id and the row has no localDocumentId; when it goes between the
\* lookup and the insert the row keeps a link to nothing.
Queue(o) ==
    /\ row[o] = "none"
    /\ Receipt[o] # NoOp => row[Receipt[o]] # "none"
    /\ \A d \in DependsOn[o] : row[d] # "none"
    /\ \E l \in {Receipt[o]} \cup (IF Receipt[o] # NoOp /\ row[Receipt[o]] = "deleted"
                                   THEN {NoOp} ELSE {}) :
           link' = [link EXCEPT ![o] = l]
    /\ row' = [row EXCEPT ![o] = "pending"]
    /\ clock' = clock + 1
    /\ createdAt' = [createdAt EXCEPT ![o] = clock + 1]
    /\ UNCHANGED <<remote, flowVars, serverVars, faultsLeft, markVars>>

--------------------------------------------------------------------------------
(* A flow walking its pipeline                                              *)

Goto(w, place) == pc' = [pc EXCEPT ![w] = place]

\* The flow learns how its item fares; it rereads a document's row at once,
\* and writes the new status in a later step.
Answer(w, r) == reply' = [reply EXCEPT ![w] = r] /\ Reread(w, cur[w])

\* On to the next item of the list.
Continue(w) ==
    /\ Goto(w, "pick")
    /\ cur' = [cur EXCEPT ![w] = NoOp]
    /\ reply' = [reply EXCEPT ![w] = "none"]
    /\ seen' = [seen EXCEPT ![w] = FALSE]

\* Out of the pipeline.
Stop(w) ==
    /\ Goto(w, "idle")
    /\ stage' = [stage EXCEPT ![w] = 1]
    /\ todo' = [todo EXCEPT ![w] = {}]
    /\ cur' = [cur EXCEPT ![w] = NoOp]
    /\ reply' = [reply EXCEPT ![w] = "none"]
    /\ seen' = [seen EXCEPT ![w] = FALSE]
    /\ since' = [since EXCEPT ![w] = 0]
    /\ deferred' = [deferred EXCEPT ![w] = {}]

\* The flow leaves operations in the outbox that it has listed.
Defer(w, ops) ==
    /\ deferred' = [deferred EXCEPT ![w] = deferred[w] \cup ops]
    /\ UNCHANGED since

StartFlow(w) ==
    /\ pc[w] = "idle"
    /\ Goto(w, "list")
    /\ since' = [since EXCEPT ![w] = clock]
    /\ UNCHANGED <<deviceVars, stage, todo, cur, reply, seen, deferred, serverVars, faultsLeft, markVars>>

\* getSyncablePending*: one read per stage, never refreshed while it is worked.
ReadStage(w) ==
    /\ pc[w] = "list"
    /\ todo' = [todo EXCEPT ![w] = Syncable(Pipeline[w][stage[w]])]
    /\ Goto(w, "pick")
    /\ UNCHANGED <<deviceVars, stage, cur, reply, seen, passVars, serverVars, faultsLeft, markVars>>

EndStage(w) ==
    /\ pc[w] = "pick"
    /\ todo[w] = {}
    /\ \/ /\ stage[w] + 1 \in DOMAIN Pipeline[w]
          /\ stage' = [stage EXCEPT ![w] = stage[w] + 1]
          /\ Goto(w, "list")
          /\ UNCHANGED <<todo, cur, reply, seen, passVars>>
       \/ stage[w] + 1 \notin DOMAIN Pipeline[w] /\ Stop(w)
    /\ UNCHANGED <<deviceVars, serverVars, faultsLeft, markVars>>

\* The oldest item left in the list, in whatever state its row is by now.
TakeItem(w) ==
    /\ pc[w] = "pick"
    /\ \E o \in todo[w] :
           /\ \A p \in todo[w] : createdAt[o] <= createdAt[p]
           /\ todo' = [todo EXCEPT ![w] = todo[w] \ {o}]
           /\ cur' = [cur EXCEPT ![w] = o]
           /\ Reread(w, o)
    /\ Goto(w, "mark")
    /\ UNCHANGED <<deviceVars, stage, reply, passVars, serverVars, faultsLeft, markVars>>

MarkInFlight(w) ==
    /\ pc[w] = "mark"
    /\ Rewrite(w, "syncing")
    /\ Goto(w, "check")
    /\ UNCHANGED <<createdAt, clock, link, stage, todo, cur, reply, seen, passVars,
                   serverVars, faultsLeft, markVars>>

\* 'The linked receipt record is missing' / 'could not be uploaded' / the
\* receipt file itself is missing: refused without asking the server.
ReceiptUnusable(w) ==
    /\ pc[w] = "check"
    /\ LET o == cur[w] IN
           \/ link[o] # NoOp /\ ~Present(link[o])
           \/ link[o] # NoOp /\ row[link[o]] = "conflict"
           \/ Kind[o] = "document" /\ (o \in Rejectable \/ row[o] = "deleted")
    /\ Goto(w, "decided")
    /\ Answer(w, "rejected")
    /\ UNCHANGED <<deviceVars, stage, todo, cur, passVars, serverVars, faultsLeft, markVars>>

\* 'Waiting for receipt upload.'
ReceiptWaiting(w) ==
    /\ pc[w] = "check"
    /\ link[cur[w]] # NoOp
    /\ Present(link[cur[w]]) /\ row[link[cur[w]]] # "conflict"
    /\ link[cur[w]] \notin remote
    /\ Goto(w, "decided")
    /\ Answer(w, "waiting")
    /\ UNCHANGED <<deviceVars, stage, todo, cur, passVars, serverVars, faultsLeft, markVars>>

\* Slip: a receipt that is still waiting does not hold its purchase back.
PostUnchecked(w) ==
    /\ pc[w] = "check"
    /\ Goto(w, "posted")
    /\ UNCHANGED <<deviceVars, stage, todo, cur, reply, seen, passVars, serverVars,
                   faultsLeft, markVars>>

Post(w) ==
    /\ pc[w] = "check"
    /\ LET l == link[cur[w]] IN
           l # NoOp => Present(l) /\ row[l] # "conflict" /\ l \in remote
    /\ Kind[cur[w]] = "document" => cur[w] \notin Rejectable
    /\ Goto(w, "posted")
    /\ UNCHANGED <<deviceVars, stage, todo, cur, reply, seen, passVars, serverVars,
                   faultsLeft, markVars>>

--------------------------------------------------------------------------------
(* The server, as far as the pipeline can tell.  One transaction either     *)
(* commits the operation under its id or leaves no trace; an id already in  *)
(* the books is answered with the stored result.                            *)

\* A sale is refused while the stock it sells has not been received, and a
\* purchase or expense while its receipt_document_id is no server document.
Acceptable(o) ==
    /\ o \notin Rejectable
    /\ Receipt[o] # NoOp => link[o] # NoOp
    /\ Kind[o] = "sale" => \A d \in DependsOn[o] : Kind[d] = "purchase" => d \in applied

Waiting(w) == pc[w] = "posted" /\ reply[w] = "none"

ServerCommits(w) ==
    /\ Waiting(w)
    /\ cur[w] \in applied \/ Acceptable(cur[w])
    /\ applied' = applied \cup {cur[w]}
    /\ Answer(w, "ok")
    /\ UNCHANGED <<deviceVars, pc, stage, todo, cur, passVars, stray, faultsLeft, markVars>>

ServerRefuses(w) ==
    /\ Waiting(w)
    /\ cur[w] \notin applied /\ ~Acceptable(cur[w])
    /\ Answer(w, "rejected")
    /\ UNCHANGED <<deviceVars, pc, stage, todo, cur, passVars, serverVars, faultsLeft, markVars>>

\* A 4xx given before the handler looks the operation up: a suspended tenant,
\* a revoked membership or branch, a rate limit.
ServerDenies(w) ==
    /\ Waiting(w)
    /\ Spend("denied")
    /\ Answer(w, "rejected")
    /\ UNCHANGED <<deviceVars, pc, stage, todo, cur, passVars, serverVars, markVars>>

\* 401 or 5xx.  A gateway may give up on a request that is still being served.
ServerErrs(w) ==
    /\ Waiting(w)
    /\ Spend("error")
    /\ Answer(w, "error")
    /\ stray' \in {stray, stray \cup {cur[w]}}
    /\ UNCHANGED <<deviceVars, pc, stage, todo, cur, passVars, applied, markVars>>

\* error.response == null: the request or its answer is lost, or the timeout
\* expires first.
ConnectionLost(w) ==
    /\ pc[w] = "posted" /\ reply[w] # "lost"
    /\ Spend("lost")
    /\ Answer(w, "lost")
    /\ stray' \in {stray} \cup (IF reply[w] = "none" THEN {stray \cup {cur[w]}} ELSE {})
    /\ UNCHANGED <<deviceVars, pc, stage, todo, cur, passVars, applied, markVars>>

\* A request nobody waits for any more is served late, or never; stray is a
\* set, so an operation stays in it for as long as another copy may arrive.
StrayArrives(o) ==
    /\ o \in stray
    /\ stray' \in {stray, stray \ {o}}
    /\ applied' = IF Acceptable(o) THEN applied \cup {o} ELSE applied
    /\ UNCHANGED <<deviceVars, flowVars, faultsLeft, markVars>>

StrayVanishes(o) ==
    /\ o \in stray
    /\ stray' = stray \ {o}
    /\ UNCHANGED <<deviceVars, flowVars, applied, faultsLeft, markVars>>

--------------------------------------------------------------------------------
(* The flow takes the answer                                                *)

Answered(w, r) == pc[w] \in {"posted", "decided"} /\ reply[w] = r

\* status 'uploaded' and the remote id, in one write.
SettleDocument(w) ==
    /\ Answered(w, "ok")
    /\ Kind[cur[w]] = "document"
    /\ Mark(cur[w], "uploaded")
    /\ remote' = IF Present(cur[w]) THEN remote \cup {cur[w]} ELSE remote
    /\ Continue(w)
    /\ UNCHANGED <<createdAt, clock, link, stage, todo, passVars,
                   serverVars, faultsLeft, markVars>>

\* finalizeCreditReservation, then markPendingSaleSynced; the row is kept as
\* sales history.
SettleSale(w) ==
    /\ Answered(w, "ok")
    /\ Kind[cur[w]] = "sale"
    /\ Mark(cur[w], "synced")
    /\ Continue(w)
    /\ UNCHANGED <<createdAt, clock, link, remote, stage, todo, passVars,
                   serverVars, faultsLeft, markVars>>

SettlePayment(w) ==
    /\ Answered(w, "ok")
    /\ Kind[cur[w]] = "payment"
    /\ Mark(cur[w], "deleted")
    /\ Continue(w)
    /\ UNCHANGED <<createdAt, clock, link, remote, stage, todo, passVars,
                   serverVars, faultsLeft, markVars>>

\* Slip: an expense is done once its row is gone.
SettleReceiptBackedOfPurchases(w) ==
    /\ Answered(w, "ok")
    /\ Kind[cur[w]] \in {"purchase", "expense"}
    /\ Mark(cur[w], "deleted")
    /\ \/ (link[cur[w]] = NoOp \/ Kind[cur[w]] = "expense") /\ Continue(w)
       \/ /\ link[cur[w]] # NoOp /\ Kind[cur[w]] = "purchase"
          /\ Goto(w, "cleanup")
          /\ reply' = [reply EXCEPT ![w] = "none"]
          /\ UNCHANGED <<cur, seen>>
    /\ UNCHANGED <<createdAt, clock, link, remote, stage, todo, passVars,
                   serverVars, faultsLeft, markVars>>

\* deletePendingPurchase / deletePendingExpense; the receipt is next.
SettleReceiptBacked(w) ==
    /\ Answered(w, "ok")
    /\ Kind[cur[w]] \in {"purchase", "expense"}
    /\ Mark(cur[w], "deleted")
    /\ \/ link[cur[w]] = NoOp /\ Continue(w)
       \/ /\ link[cur[w]] # NoOp
          /\ Goto(w, "cleanup")
          /\ reply' = [reply EXCEPT ![w] = "none"]
          /\ UNCHANGED <<cur, seen>>
    /\ UNCHANGED <<createdAt, clock, link, remote, stage, todo, passVars,
                   serverVars, faultsLeft, markVars>>

References(d, k) == {p \in Ops : Kind[p] = k /\ Present(p) /\ link[p] = d}

\* getSingleOrNull throws on two rows; a StateError is no DioException, so it
\* leaves the stage, the pipeline and the repository call that started it.
AmbiguousReceipt(d) ==
    \E k \in {"purchase", "expense"} : \E p, q \in References(d, k) : p # q

\* deletePendingDocumentIfUnreferenced, then the file.
CleanupDocument(w) ==
    /\ pc[w] = "cleanup"
    /\ LET d == link[cur[w]] IN
           /\ ~AmbiguousReceipt(d)
           /\ row' = IF References(d, "purchase") \cup References(d, "expense") = {} /\ Present(d)
                     THEN [row EXCEPT ![d] = "deleted"] ELSE row
    /\ Continue(w)
    /\ UNCHANGED <<createdAt, clock, link, remote, stage, todo, passVars,
                   serverVars, faultsLeft, markVars>>

CleanupThrows(w) ==
    /\ pc[w] = "cleanup"
    /\ AmbiguousReceipt(link[cur[w]])
    /\ Stop(w)
    /\ UNCHANGED <<deviceVars, serverVars, faultsLeft, markVars>>

\* Slip: a refused item is dropped.
SettleRefusedDrops(w) ==
    /\ Answered(w, "rejected")
    /\ Rewrite(w, "deleted")
    /\ Continue(w)
    /\ UNCHANGED <<createdAt, clock, link, stage, todo, passVars,
                   serverVars, faultsLeft, markVars>>

\* A permanent client error: 'conflict', and on to the next item.
SettleRefused(w) ==
    /\ Answered(w, "rejected")
    /\ Rewrite(w, "conflict")
    /\ givenUp' = IF Present(cur[w]) THEN givenUp \cup {cur[w]} ELSE givenUp
    /\ Continue(w)
    /\ UNCHANGED <<createdAt, clock, link, stage, todo, passVars,
                   serverVars, faultsLeft, leftOver>>

SettleWaiting(w) ==
    /\ Answered(w, "waiting")
    /\ Mark(cur[w], "pending")
    /\ Defer(w, {cur[w]})
    /\ Continue(w)
    /\ UNCHANGED <<createdAt, clock, link, remote, stage, todo,
                   serverVars, faultsLeft, markVars>>

\* Any other answered error: back to 'pending' and out of the loop.  The stage
\* ends, but networkUnavailable stays false and flushAll runs the next one.
SettleError(w) ==
    /\ Answered(w, "error")
    /\ Rewrite(w, "pending")
    /\ Defer(w, {cur[w]} \cup todo[w])
    /\ todo' = [todo EXCEPT ![w] = {}]
    /\ Continue(w)
    /\ UNCHANGED <<createdAt, clock, link, stage, serverVars, faultsLeft, markVars>>

\* Slip: the loop goes on, and so does the pipeline.
SettleLostContinues(w) ==
    /\ Answered(w, "lost")
    /\ Rewrite(w, "pending")
    /\ Continue(w)
    /\ UNCHANGED <<createdAt, clock, link, stage, todo, passVars,
                   serverVars, faultsLeft, markVars>>

\* No answer: back to 'pending', and networkUnavailable makes every pipeline
\* return.
SettleLost(w) ==
    /\ Answered(w, "lost")
    /\ Rewrite(w, "pending")
    /\ Stop(w)
    /\ UNCHANGED <<createdAt, clock, link, serverVars, faultsLeft, markVars>>

\* The app is killed: rows stay as they are, requests already sent live on.
Crash ==
    /\ Spend("crash")
    /\ \E w \in Flows : pc[w] # "idle"
    /\ \E sent \in SUBSET {w \in Flows : Waiting(w)} :
           stray' = stray \cup {cur[w] : w \in sent}
    /\ pc' = [w \in Flows |-> "idle"]
    /\ stage' = [w \in Flows |-> 1]
    /\ todo' = [w \in Flows |-> {}]
    /\ cur' = [w \in Flows |-> NoOp]
    /\ reply' = [w \in Flows |-> "none"]
    /\ seen' = [w \in Flows |-> FALSE]
    /\ since' = [w \in Flows |-> 0]
    /\ deferred' = [w \in Flows |-> {}]
    /\ leftOver' = leftOver \cup {link[cur[w]] : w \in {v \in Flows : pc[v] = "cleanup"}}
    /\ UNCHANGED <<deviceVars, applied, givenUp>>

--------------------------------------------------------------------------------
FlowStep(w) ==
    \/ ReadStage(w) \/ EndStage(w) \/ TakeItem(w) \/ MarkInFlight(w)
    \/ ReceiptUnusable(w) \/ ReceiptWaiting(w) \/ Post(w)
    \/ SettleDocument(w) \/ SettleSale(w) \/ SettlePayment(w) \/ SettleReceiptBacked(w)
    \/ CleanupDocument(w) \/ CleanupThrows(w)
    \/ SettleRefused(w) \/ SettleWaiting(w) \/ SettleError(w) \/ SettleLost(w)

ServerStep(w) == ServerCommits(w) \/ ServerRefuses(w)

Next ==
    \/ \E o \in Ops : Queue(o) \/ StrayArrives(o) \/ StrayVanishes(o)
    \/ \E w \in Flows :
           \/ StartFlow(w)
           \/ FlowStep(w)
           \/ ServerStep(w)
           \/ ServerDenies(w) \/ ServerErrs(w) \/ ConnectionLost(w)
    \/ Crash

Spec == Init /\ [][Next]_vars

\* A complete flush is asked for again and again (a new session, connectivity
\* coming back, the Sync button, the next sale), and from some time on it has
\* the outbox to itself: two flushes that overlapped for ever could hand a
\* document's remote id back and forth.
Retried(w) ==
    /\ Pipeline[w] = FlushAll
    /\ WF_vars(StartFlow(w))
    /\ <>[](\A v \in Flows \ {w} : pc[v] = "idle")

\* The event loop runs every task that is ready and the server answers.
\* Nobody is obliged to record anything, and failures are finitely many.
Fairness ==
    /\ \A w \in Flows : WF_vars(FlowStep(w)) /\ WF_vars(ServerStep(w))
    /\ \E w \in Flows : Retried(w)

FairSpec == Spec /\ Fairness

--------------------------------------------------------------------------------
Statuses == {"none", "pending", "syncing", "uploaded", "synced", "conflict", "deleted"}

TypeOK ==
    /\ row \in [Ops -> Statuses]
    /\ createdAt \in [Ops -> Nat]
    /\ clock \in Nat
    /\ link \in [Ops -> Ops \cup {NoOp}]
    /\ remote \subseteq Ops
    /\ pc \in [Flows -> {"idle", "list", "pick", "mark", "check", "decided",
                         "posted", "cleanup"}]
    /\ stage \in [Flows -> Nat]
    /\ \A w \in Flows : stage[w] \in DOMAIN Pipeline[w]
    /\ todo \in [Flows -> SUBSET Ops]
    /\ cur \in [Flows -> Ops \cup {NoOp}]
    /\ reply \in [Flows -> {"none", "ok", "rejected", "error", "lost", "waiting"}]
    /\ seen \in [Flows -> BOOLEAN]
    /\ applied \subseteq Ops
    /\ stray \subseteq Ops
    /\ faultsLeft \in 0..MaxFaults
    /\ since \in [Flows -> Nat]
    /\ deferred \in [Flows -> SUBSET Ops]
    /\ givenUp \subseteq Ops
    /\ leftOver \subseteq Ops \cup {NoOp}
    /\ \A w \in Flows : pc[w] \notin {"idle", "list", "pick"} => cur[w] \in Ops

\* A row leaves the outbox, or is shown as synced or uploaded, only when the
\* server has the operation, whatever two flows, lost answers and crashes do.
Done(o) == row[o] \in {"uploaded", "synced", "deleted"}

DoneIsOnServer == \A o \in Ops : Done(o) => o \in applied

\* A purchase or an expense never reaches the books before the receipt it was
\* recorded with.
ReceiptFirst ==
    \A o \in Ops : Receipt[o] # NoOp /\ o \in applied => Receipt[o] \in applied

\* A receipt does not outlive the work it was attached to: once a purchase or
\* an expense is settled, its document is gone as well, or another row on the
\* device still needs it, or a flow is on its way to clean it up, or the app was
\* killed exactly there.  Every way out of the pipeline keeps to this, the
\* StateError of getSingleOrNull and a clean-up that a second flow repeats
\* included; what a crash leaves is never looked for again.
NoReceiptLeft ==
    \A o, d \in Ops : row[o] = "deleted" /\ link[o] = d /\ Present(d) =>
        \/ \E p \in Ops : Present(p) /\ link[p] = d
        \/ \E w \in Flows : pc[w] = "cleanup" /\ link[cur[w]] = d
        \/ d \in leftOver

\* The dependency order the pipeline is for: when a flow sends an operation,
\* the work it depends on that was in the outbox when the flow began has
\* reached the server or has been put aside as a conflict - unless this very
\* flow has deferred it, because an answered error ended its stage or its
\* receipt was not up yet.  No other flow, crash or lost answer breaks it.
DependenciesFirst ==
    [][\A w \in Flows : pc[w] = "check" /\ pc'[w] = "posted" =>
           \A d \in DependsOn[cur[w]] : createdAt[d] \in 1..since[w] =>
               d \in applied \cup givenUp \cup deferred[w]]_vars

\* "A customer receipt recorded while a credit sale is still queued must never
\* reach the server before that sale" (customer_repository.dart:217), of the
\* sales that were in the outbox when the flow began: without the exception.
SaleBeforePayment ==
    [][\A w \in Flows : pc[w] = "check" /\ pc'[w] = "posted" /\ Kind[cur[w]] = "payment" =>
           \A d \in DependsOn[cur[w]] : createdAt[d] \in 1..since[w] =>
               d \in applied \cup givenUp]_vars

\* Work that was queued, whatever happened to it since, is eventually settled:
\* accepted by the server, or put in front of the user as a conflict.
EventuallySettled ==
    \A o \in Ops : (row[o] \in {"pending", "syncing"}) ~> (row[o] \notin {"pending", "syncing"})

\* What makes DoneIsOnServer and ReceiptFirst inductive.
RemoteIsOnServer == remote \subseteq applied

LinkIsReceipt == \A o \in Ops : link[o] \in {NoOp, Receipt[o]}

TakenIsQueued ==
    \A w \in Flows :
        /\ \A o \in todo[w] : row[o] # "none"
        /\ cur[w] \in Ops => row[cur[w]] # "none"

AcceptedIsOnServer ==
    \A w \in Flows :
        /\ reply[w] # "none" => pc[w] \in {"posted", "decided"}
        /\ reply[w] = "ok" => pc[w] = "posted" /\ cur[w] \in applied

\* Whoever sent an operation had the remote id of its receipt.
ReceiptUploaded(o) == link[o] # NoOp => link[o] \in applied

SentWithReceipt ==
    /\ \A w \in Flows : pc[w] \in {"posted", "cleanup"} => ReceiptUploaded(cur[w])
    /\ \A o \in stray : row[o] # "none" /\ ReceiptUploaded(o)

\* An answer the device shows, a remote id it stores and a request it sends are
\* never ahead of the server's books: the state on which DoneIsOnServer and
\* ReceiptFirst rest.
IInv ==
    /\ TypeOK
    /\ DoneIsOnServer
    /\ ReceiptFirst
    /\ RemoteIsOnServer
    /\ LinkIsReceipt
    /\ TakenIsQueued
    /\ AcceptedIsOnServer
    /\ SentWithReceipt

\* What makes NoReceiptLeft and DependenciesFirst inductive.  A row has its place
\* in creation order from the moment it is queued, its receipt an earlier one.
CreationInv ==
    /\ \A o \in Ops : row[o] = "none" <=> createdAt[o] = 0
    /\ \A o \in Ops : createdAt[o] <= clock
    /\ \A w \in Flows : since[w] <= clock
    /\ \A o \in Ops : link[o] # NoOp => createdAt[link[o]] \in 1..createdAt[o]

\* A document that is 'uploaded' has its remote id: no list holds it any more, so
\* without the id the work it belongs to would wait for it for ever.
RowInv ==
    /\ \A o \in Ops : row[o] = "conflict" => o \in givenUp
    /\ \A o \in Ops : row[o] = "uploaded" => o \in remote
    /\ \A o \in Ops : row[o] = "synced" => Kind[o] = "sale"

Holding(w) == todo[w] \cup {cur[w]}

ThisStage(w) == Pipeline[w][stage[w]]

\* Where a flow is says what it holds.
WalkInv ==
    \A w \in Flows :
        /\ pc[w] = "idle" => stage[w] = 1
        /\ pc[w] \in {"idle", "list", "pick"} => cur[w] = NoOp
        /\ pc[w] \in {"idle", "list"} => todo[w] = {}
        /\ \A o \in Ops : o \in Holding(w) => Kind[o] = ThisStage(w)
        /\ pc[w] = "cleanup" => row[cur[w]] = "deleted"

\* The row was in the outbox when the flow began
Early(w, o) == createdAt[o] \in 1..since[w]

PutAway(w, o) == o \in applied \cup givenUp \cup deferred[w]

StageDone(w, k) == \E i \in 1..(stage[w] - 1) : Pipeline[w][i] = k

\* What a flow found and whose stage it has done it has put away; what the present
\* stage has not put away it still holds.
SweepInv ==
    \A w \in Flows : pc[w] # "idle" =>
        \A o \in Ops : Early(w, o) =>
            /\ StageDone(w, Kind[o]) => PutAway(w, o)
            /\ pc[w] # "list" /\ Kind[o] = ThisStage(w) => PutAway(w, o) \/ o \in Holding(w)

\* The strengthened invariant of the proofs: the device is never ahead of the
\* books, and what a flow is past, or a document's status claims, is so, however
\* the flows overlap, fail and are cut short.
OutboxInv == IInv /\ CreationInv /\ RowInv /\ WalkInv /\ SweepInv

\* The outbox implements what a device promises.
Promise == INSTANCE Delivery WITH
    asked  <- {o \in Ops : row[o] # "none"},
    effect <- applied,
    told   <- [o \in Ops |-> IF Done(o) THEN "done"
                             ELSE IF row[o] = "conflict" THEN "attention" ELSE "open"]

ImplementsDelivery == Promise!Spec
================================================================================
