----------------------------- MODULE DeviceProofs -----------------------------
(***************************************************************************)
(* Proofs about the device: OfflineOutbox and StockProjection, for any     *)
(* operations, any number of overlapping flushes and refreshes, and any    *)
(* crashes and failures.  Then about EventRelay, which tells the devices   *)
(* what the server did.  Its variables are its own: the two halves share   *)
(* no definition.                                                          *)
(***************************************************************************)
EXTENDS StockProjection, EventRelay, TLAPS

\* Every pipeline has a first stage.
LEMMA FirstStage ==
    ASSUME NEW w \in Flows
    PROVE  1 \in DOMAIN Pipeline[w]
PROOF
<1>1. Pipeline[w] \in {FlushAll, FlushPendingPurchases, FlushPendingExpenses,
                       FlushPendingDocuments}
      BY OutboxAssumption
<1>2. /\ 1 \in DOMAIN FlushAll
      /\ 1 \in DOMAIN FlushPendingPurchases
      /\ 1 \in DOMAIN FlushPendingExpenses
      /\ 1 \in DOMAIN FlushPendingDocuments
      BY DEF FlushAll, FlushPendingPurchases, FlushPendingExpenses, FlushPendingDocuments
<1>   QED BY <1>1, <1>2

LEMMA InitType == Init => TypeOK
PROOF
<1> SUFFICES ASSUME Init PROVE TypeOK OBVIOUS
<1>1. faultsLeft \in 0..MaxFaults
      BY OutboxAssumption DEF Init
<1>2. \A w \in Flows : stage[w] \in DOMAIN Pipeline[w]
      BY FirstStage DEF Init
<1>   QED BY <1>1, <1>2 DEF Init, TypeOK, Statuses

\* A failure leaves a legal number of failures to come.
LEMMA SpendType ==
    ASSUME TypeOK, NEW k, Spend(k)
    PROVE  faultsLeft' \in 0..MaxFaults
PROOF BY OutboxAssumption DEF TypeOK, Spend

\* A new row is linked to its receipt or to nothing.
LEMMA QueueType == TypeOK /\ (\E o \in Ops : Queue(o)) => TypeOK'
PROOF
<1> SUFFICES ASSUME TypeOK, NEW o \in Ops, Queue(o) PROVE TypeOK' OBVIOUS
<1>1. Receipt[o] \in Ops \cup {NoOp}
      BY OutboxAssumption
<1>2. PICK l \in Ops \cup {NoOp} : link' = [link EXCEPT ![o] = l]
      BY <1>1 DEF Queue
<1>   QED BY <1>2 DEF Queue, TypeOK, Statuses, flowVars, passVars, serverVars, markVars

\* A flow's step changes the flow's own state and one row at most.
LEMMA StepType == TypeOK /\ [Next]_vars => TypeOK'
PROOF
<1> SUFFICES ASSUME TypeOK, [Next]_vars PROVE TypeOK' OBVIOUS
<1> USE DEF TypeOK, Statuses, deviceVars, flowVars, passVars, serverVars, markVars, Defer
<1>1. CASE UNCHANGED vars
      BY <1>1 DEF vars
<1>2. CASE \E o \in Ops : Queue(o)
      BY <1>2, QueueType
<1>3. CASE \E o \in Ops : StrayArrives(o) \/ StrayVanishes(o)
      BY <1>3 DEF StrayArrives, StrayVanishes
<1>4. CASE Crash
  <2>1. \A w \in Flows : stage'[w] \in DOMAIN Pipeline[w]
        BY <1>4, FirstStage DEF Crash
  <2>2. faultsLeft' \in 0..MaxFaults
        BY <1>4, SpendType DEF Crash
  <2>3. PICK gone \in SUBSET {w \in Flows : Waiting(w)} :
            stray' = stray \cup {cur[w] : w \in gone}
        BY <1>4 DEF Crash
  <2>4. \A w \in gone : cur[w] \in Ops
        BY DEF Waiting
  <2>5. stray' \subseteq Ops
        BY <2>3, <2>4
  <2>   QED BY <1>4, <2>1, <2>2, <2>5 DEF Crash
<1>5. ASSUME NEW w \in Flows,
             \/ StartFlow(w) \/ ServerStep(w)
             \/ ServerDenies(w) \/ ServerErrs(w) \/ ConnectionLost(w)
      PROVE  TypeOK'
  <2> USE DEF Goto, Answer, Reread
  <2>0. pc[w] = "posted" => cur[w] \in Ops
        OBVIOUS
  <2>1. CASE StartFlow(w)
        BY <2>1 DEF StartFlow
  <2>2. CASE ServerCommits(w)
    <3>1. applied' \subseteq Ops
          BY <2>0, <2>2 DEF ServerCommits, Waiting
    <3>   QED BY <2>2, <3>1 DEF ServerCommits
  <2>3. CASE ServerRefuses(w)
        BY <2>3 DEF ServerRefuses
  <2>4. CASE ServerDenies(w)
    <3>1. faultsLeft' \in 0..MaxFaults
          BY <2>4, SpendType DEF ServerDenies
    <3>   QED BY <2>4, <3>1 DEF ServerDenies
  <2>5. CASE ServerErrs(w)
    <3>1. faultsLeft' \in 0..MaxFaults
          BY <2>5, SpendType DEF ServerErrs
    <3>2. stray' \subseteq Ops
          BY <2>0, <2>5 DEF ServerErrs, Waiting
    <3>   QED BY <2>5, <3>1, <3>2 DEF ServerErrs
  <2>6. CASE ConnectionLost(w)
    <3>1. faultsLeft' \in 0..MaxFaults
          BY <2>6, SpendType DEF ConnectionLost
    <3>2. stray' \subseteq Ops
          BY <2>0, <2>6 DEF ConnectionLost
    <3>   QED BY <2>6, <3>1, <3>2 DEF ConnectionLost
  <2>   QED BY <1>5, <2>1, <2>2, <2>3, <2>4, <2>5, <2>6 DEF ServerStep
<1>6. ASSUME NEW w \in Flows, FlowStep(w)
      PROVE  TypeOK'
  <2> USE DEF Goto, Continue, Stop, Answered, Answer, Reread, Mark
  <2>1. CASE ReadStage(w)           BY <2>1 DEF ReadStage, Syncable
  <2>2. CASE EndStage(w)
    <3>1. \A v \in Flows : stage'[v] \in DOMAIN Pipeline[v]
          BY <2>2, FirstStage DEF EndStage
    <3>2. stage' \in [Flows -> Nat]
          BY <2>2 DEF EndStage
    <3>3. CASE Stop(w)
          BY <2>2, <3>1, <3>2, <3>3 DEF EndStage
    <3>4. CASE Goto(w, "list") /\ UNCHANGED <<todo, cur, reply, seen, since>>
          BY <2>2, <3>1, <3>2, <3>4 DEF EndStage
    <3>   QED BY <2>2, <3>3, <3>4 DEF EndStage
  <2>3. CASE TakeItem(w)            BY <2>3 DEF TakeItem
  <2>4. CASE MarkInFlight(w)        BY <2>4 DEF MarkInFlight, Rewrite
  <2>5. CASE ReceiptUnusable(w)     BY <2>5 DEF ReceiptUnusable
  <2>6. CASE ReceiptWaiting(w)      BY <2>6 DEF ReceiptWaiting
  <2>7. CASE Post(w)                BY <2>7 DEF Post
  <2>8. CASE SettleDocument(w)      BY <2>8 DEF SettleDocument
  <2>9. CASE SettleSale(w)          BY <2>9 DEF SettleSale
  <2>10. CASE SettlePayment(w)      BY <2>10 DEF SettlePayment
  <2>11. CASE SettleReceiptBacked(w) BY <2>11 DEF SettleReceiptBacked
  <2>12. CASE CleanupDocument(w)    BY <2>12 DEF CleanupDocument, Present
  <2>13. CASE CleanupThrows(w)      BY <2>13, FirstStage DEF CleanupThrows
  <2>14. CASE SettleRefused(w)      BY <2>14 DEF SettleRefused, Rewrite
  <2>15. CASE SettleWaiting(w)      BY <2>15 DEF SettleWaiting
  <2>16. CASE SettleError(w)        BY <2>16 DEF SettleError, Rewrite
  <2>17. CASE SettleLost(w)         BY <2>17, FirstStage DEF SettleLost, Rewrite
  <2>   QED BY <1>6, <2>1, <2>2, <2>3, <2>4, <2>5, <2>6, <2>7, <2>8, <2>9, <2>10, <2>11,
               <2>12, <2>13, <2>14, <2>15, <2>16, <2>17 DEF FlowStep
<1>   QED BY <1>1, <1>2, <1>3, <1>4, <1>5, <1>6 DEF Next

\* Every variable keeps to its type, whatever flows and failures do.
THEOREM TypeCorrect == Spec => []TypeOK
PROOF BY InitType, StepType, PTL DEF Spec
--------------------------------------------------------------------------------
LEMMA InitInv == Init => IInv
PROOF BY InitType, OutboxAssumption
      DEF Init, IInv, DoneIsOnServer, Done, ReceiptFirst, RemoteIsOnServer, LinkIsReceipt,
          TakenIsQueued, AcceptedIsOnServer, SentWithReceipt, ReceiptUploaded

\* A link, once its row is queued, does not change, and no row becomes unqueued.
LEMMA RowsStay ==
    ASSUME TypeOK, [Next]_vars, NEW o \in Ops, row[o] # "none"
    PROVE  row'[o] # "none" /\ link'[o] = link[o]
PROOF
<1> USE DEF TypeOK, Statuses, deviceVars, flowVars, passVars, serverVars, Mark, Present, Rewrite
<1>1. CASE UNCHANGED vars
      BY <1>1 DEF vars
<1>2. ASSUME NEW p \in Ops, Queue(p) \/ StrayArrives(p) \/ StrayVanishes(p)
      PROVE  row'[o] # "none" /\ link'[o] = link[o]
      BY <1>2 DEF Queue, StrayArrives, StrayVanishes
<1>3. CASE Crash
      BY <1>3 DEF Crash
<1>4. ASSUME NEW w \in Flows,
             \/ StartFlow(w) \/ ServerStep(w)
             \/ ServerDenies(w) \/ ServerErrs(w) \/ ConnectionLost(w)
      PROVE  row'[o] # "none" /\ link'[o] = link[o]
      BY <1>4 DEF StartFlow, ServerStep, ServerCommits, ServerRefuses, ServerDenies,
                  ServerErrs, ConnectionLost
<1>5. ASSUME NEW w \in Flows, FlowStep(w)
      PROVE  row'[o] # "none" /\ link'[o] = link[o]
  <2>1. CASE ReadStage(w) \/ EndStage(w) \/ TakeItem(w) \/ ReceiptUnusable(w)
             \/ ReceiptWaiting(w) \/ Post(w) \/ CleanupThrows(w)
        BY <2>1 DEF ReadStage, EndStage, TakeItem, ReceiptUnusable, ReceiptWaiting, Post,
                    CleanupThrows
  <2>2. CASE MarkInFlight(w)
        BY <2>2 DEF MarkInFlight
  <2>3. CASE SettleDocument(w) \/ SettleSale(w) \/ SettlePayment(w) \/ SettleReceiptBacked(w)
        BY <2>3 DEF SettleDocument, SettleSale, SettlePayment, SettleReceiptBacked
  <2>4. CASE CleanupDocument(w)
        BY <2>4 DEF CleanupDocument
  <2>5. CASE SettleRefused(w) \/ SettleWaiting(w) \/ SettleError(w) \/ SettleLost(w)
        BY <2>5 DEF SettleRefused, SettleWaiting, SettleError, SettleLost
  <2>   QED BY <1>5, <2>1, <2>2, <2>3, <2>4, <2>5 DEF FlowStep
<1>   QED BY <1>1, <1>2, <1>3, <1>4, <1>5 DEF Next

\* Nothing leaves the server's books.
LEMMA AppliedStays ==
    ASSUME [Next]_vars
    PROVE  applied \subseteq applied'
PROOF
<1> USE DEF serverVars
<1>1. CASE UNCHANGED vars
      BY <1>1 DEF vars
<1>2. ASSUME NEW p \in Ops, Queue(p) \/ StrayArrives(p) \/ StrayVanishes(p)
      PROVE  applied \subseteq applied'
      BY <1>2 DEF Queue, StrayArrives, StrayVanishes
<1>3. CASE Crash
      BY <1>3 DEF Crash
<1>4. ASSUME NEW w \in Flows,
             \/ StartFlow(w) \/ ServerStep(w)
             \/ ServerDenies(w) \/ ServerErrs(w) \/ ConnectionLost(w)
      PROVE  applied \subseteq applied'
      BY <1>4 DEF StartFlow, ServerStep, ServerCommits, ServerRefuses, ServerDenies,
                  ServerErrs, ConnectionLost
<1>5. ASSUME NEW w \in Flows, FlowStep(w)
      PROVE  applied' = applied
      BY <1>5 DEF FlowStep, ReadStage, EndStage, TakeItem, MarkInFlight, ReceiptUnusable,
                  ReceiptWaiting, Post, SettleDocument, SettleSale, SettlePayment,
                  SettleReceiptBacked, CleanupDocument, CleanupThrows, SettleRefused,
                  SettleWaiting, SettleError, SettleLost
<1>   QED BY <1>1, <1>2, <1>3, <1>4, <1>5 DEF Next

\* The remote ids the device holds come from answers.
LEMMA RemoteStep == IInv /\ [Next]_vars => RemoteIsOnServer'
PROOF
<1> SUFFICES ASSUME IInv, [Next]_vars PROVE RemoteIsOnServer' OBVIOUS
<1> USE DEF RemoteIsOnServer, deviceVars
<1>1. applied \subseteq applied' /\ remote \subseteq applied
      BY AppliedStays DEF IInv
<1>2. SUFFICES ASSUME \E w \in Flows : FlowStep(w)
               PROVE  remote' \subseteq applied'
  <2>1. CASE UNCHANGED vars
        BY <1>1, <2>1 DEF vars
  <2>2. CASE Next
        BY <1>1, <1>2, <2>2 DEF Next, Queue, StrayArrives, StrayVanishes, Crash, StartFlow,
           ServerStep, ServerCommits, ServerRefuses, ServerDenies, ServerErrs, ConnectionLost
  <2>   QED BY <2>1, <2>2
<1>3. PICK w \in Flows : FlowStep(w)
      BY <1>2
<1>4. CASE SettleDocument(w)
  <2>1. cur[w] \in applied
        BY <1>4 DEF SettleDocument, Answered, IInv, AcceptedIsOnServer
  <2>   QED BY <1>1, <1>4, <2>1 DEF SettleDocument
<1>5. CASE remote' \subseteq remote
      BY <1>1, <1>5
<1>   QED BY <1>3, <1>4, <1>5
          DEF FlowStep, ReadStage, EndStage, TakeItem, MarkInFlight, ReceiptUnusable,
              ReceiptWaiting, Post, SettleSale, SettlePayment, SettleReceiptBacked,
              CleanupDocument, CleanupThrows, SettleRefused, SettleWaiting, SettleError,
              SettleLost, Rewrite

\* Only recording an operation writes a link.
LEMMA LinkStep == IInv /\ [Next]_vars => LinkIsReceipt'
PROOF
<1> SUFFICES ASSUME IInv, [Next]_vars, NEW o \in Ops
             PROVE  link'[o] \in {NoOp, Receipt[o]}
      BY DEF LinkIsReceipt
<1>1. TypeOK /\ link[o] \in {NoOp, Receipt[o]}
      BY DEF IInv, LinkIsReceipt
<1>2. CASE \E p \in Ops : Queue(p)
      BY <1>1, <1>2 DEF Queue, TypeOK
<1>3. CASE link' = link
      BY <1>1, <1>3
<1>4. (\E p \in Ops : Queue(p)) \/ link' = link
  <2> USE DEF deviceVars
  <2>1. CASE UNCHANGED vars
        BY <2>1 DEF vars
  <2>2. ASSUME NEW w \in Flows, FlowStep(w)
        PROVE  link' = link
        BY <2>2 DEF FlowStep, ReadStage, EndStage, TakeItem, MarkInFlight, ReceiptUnusable,
              ReceiptWaiting, Post, SettleDocument, SettleSale, SettlePayment,
              SettleReceiptBacked, CleanupDocument, CleanupThrows, SettleRefused,
              SettleWaiting, SettleError, SettleLost
  <2>3. CASE Next
        BY <2>2, <2>3 DEF Next, StrayArrives, StrayVanishes, Crash, StartFlow,
           ServerStep, ServerCommits, ServerRefuses, ServerDenies, ServerErrs, ConnectionLost
  <2>   QED BY <2>1, <2>3
<1>   QED BY <1>2, <1>3, <1>4

\* What a flow has listed or taken is a row it has read.
LEMMA TakenStep == IInv /\ [Next]_vars => TakenIsQueued'
PROOF
<1> SUFFICES ASSUME IInv, [Next]_vars PROVE TakenIsQueued' OBVIOUS
<1>1. TypeOK /\ TypeOK' /\ TakenIsQueued
      BY StepType DEF IInv
<1>2. \A o \in Ops : row[o] # "none" => row'[o] # "none"
      BY <1>1, RowsStay
<1>3. SUFFICES ASSUME NEW w \in Flows
               PROVE  /\ \A o \in todo'[w] : row[o] # "none"
                      /\ cur'[w] \in Ops => row[cur'[w]] # "none"
      BY <1>1, <1>2, <1>3 DEF TypeOK, TakenIsQueued
<1>4. CASE todo'[w] \subseteq todo[w] /\ cur'[w] \in {cur[w], NoOp} \cup todo[w]
      BY <1>1, <1>4, OutboxAssumption DEF TakenIsQueued
<1>5. CASE ReadStage(w)
      BY <1>1, <1>5 DEF ReadStage, Syncable, TypeOK, TakenIsQueued
<1>6. \/ ReadStage(w)
      \/ todo'[w] \subseteq todo[w] /\ cur'[w] \in {cur[w], NoOp} \cup todo[w]
  <2> USE <1>1 DEF TypeOK, flowVars, passVars, Goto, Continue, Stop
  <2>1. CASE UNCHANGED vars
        BY <2>1 DEF vars
  <2>2. ASSUME NEW v \in Flows, FlowStep(v), ~ReadStage(w)
        PROVE  todo'[w] \subseteq todo[w] /\ cur'[w] \in {cur[w], NoOp} \cup todo[w]
    <3>1. CASE ReadStage(v) \/ EndStage(v) \/ TakeItem(v)
          BY <2>2, <3>1 DEF ReadStage, EndStage, TakeItem
    <3>2. CASE MarkInFlight(v) \/ ReceiptUnusable(v) \/ ReceiptWaiting(v) \/ Post(v)
          BY <3>2 DEF MarkInFlight, ReceiptUnusable, ReceiptWaiting, Post
    <3>3. CASE SettleDocument(v) \/ SettleSale(v) \/ SettlePayment(v) \/ SettleReceiptBacked(v)
          BY <3>3 DEF SettleDocument, SettleSale, SettlePayment, SettleReceiptBacked
    <3>4. CASE CleanupDocument(v) \/ CleanupThrows(v)
          BY <3>4 DEF CleanupDocument, CleanupThrows
    <3>5. CASE SettleRefused(v) \/ SettleWaiting(v) \/ SettleError(v) \/ SettleLost(v)
          BY <3>5 DEF SettleRefused, SettleWaiting, SettleError, SettleLost
    <3>   QED BY <2>2, <3>1, <3>2, <3>3, <3>4, <3>5 DEF FlowStep
  <2>3. CASE Crash
        BY <2>3 DEF Crash
  <2>4. CASE Next /\ ~Crash /\ ~\E v \in Flows : FlowStep(v)
        BY <2>4 DEF Next, Queue, StrayArrives, StrayVanishes, StartFlow,
           ServerStep, ServerCommits, ServerRefuses, ServerDenies, ServerErrs, ConnectionLost
  <2>   QED BY <2>1, <2>2, <2>3, <2>4
<1>   QED BY <1>4, <1>5, <1>6

\* An acceptance a flow holds was given by a server that had committed.
LEMMA AcceptedStep == IInv /\ [Next]_vars => AcceptedIsOnServer'
PROOF
<1> SUFFICES ASSUME IInv, [Next]_vars, NEW w \in Flows
             PROVE  /\ reply'[w] # "none" => pc'[w] \in {"posted", "decided"}
                    /\ reply'[w] = "ok" => pc'[w] = "posted" /\ cur'[w] \in applied'
      BY DEF AcceptedIsOnServer
<1>1. /\ TypeOK
      /\ applied \subseteq applied'
      /\ \A v \in Flows :
             /\ reply[v] # "none" => pc[v] \in {"posted", "decided"}
             /\ reply[v] = "ok" => pc[v] = "posted" /\ cur[v] \in applied
      BY AppliedStays DEF IInv, AcceptedIsOnServer
<1> USE <1>1 DEF TypeOK, deviceVars, flowVars, passVars, serverVars, Goto, Continue, Stop, Answer, Waiting
<1>2. CASE UNCHANGED vars
      BY <1>2 DEF vars
<1>3. ASSUME NEW o \in Ops, Queue(o) \/ StrayArrives(o) \/ StrayVanishes(o)
      PROVE  UNCHANGED <<reply, pc, cur>>
      BY <1>3 DEF Queue, StrayArrives, StrayVanishes
<1>4. CASE UNCHANGED <<reply, pc, cur>>
      BY <1>4
<1>5. CASE Crash
      BY <1>5 DEF Crash
<1>6. ASSUME NEW v \in Flows,
             \/ StartFlow(v) \/ ServerStep(v)
             \/ ServerDenies(v) \/ ServerErrs(v) \/ ConnectionLost(v)
      PROVE  /\ reply'[w] # "none" => pc'[w] \in {"posted", "decided"}
             /\ reply'[w] = "ok" => pc'[w] = "posted" /\ cur'[w] \in applied'
  <2>1. CASE StartFlow(v)
        BY <2>1 DEF StartFlow
  <2>2. CASE ServerStep(v)
        BY <2>2 DEF ServerStep, ServerCommits, ServerRefuses
  <2>3. CASE ServerDenies(v) \/ ServerErrs(v) \/ ConnectionLost(v)
        BY <2>3 DEF ServerDenies, ServerErrs, ConnectionLost
  <2>   QED BY <1>6, <2>1, <2>2, <2>3
<1>7. ASSUME NEW v \in Flows, FlowStep(v)
      PROVE  /\ reply'[w] # "none" => pc'[w] \in {"posted", "decided"}
             /\ reply'[w] = "ok" => pc'[w] = "posted" /\ cur'[w] \in applied'
  <2> USE DEF Answered
  <2>1. CASE ReadStage(v) \/ EndStage(v) \/ TakeItem(v)
        BY <2>1 DEF ReadStage, EndStage, TakeItem
  <2>2. CASE MarkInFlight(v) \/ ReceiptUnusable(v) \/ ReceiptWaiting(v) \/ Post(v)
        BY <2>2 DEF MarkInFlight, ReceiptUnusable, ReceiptWaiting, Post
  <2>3. CASE SettleDocument(v) \/ SettleSale(v) \/ SettlePayment(v) \/ SettleReceiptBacked(v)
        BY <2>3 DEF SettleDocument, SettleSale, SettlePayment, SettleReceiptBacked
  <2>4. CASE CleanupDocument(v) \/ CleanupThrows(v)
        BY <2>4 DEF CleanupDocument, CleanupThrows
  <2>5. CASE SettleRefused(v) \/ SettleWaiting(v) \/ SettleError(v) \/ SettleLost(v)
        BY <2>5 DEF SettleRefused, SettleWaiting, SettleError, SettleLost
  <2>   QED BY <1>7, <2>1, <2>2, <2>3, <2>4, <2>5 DEF FlowStep
<1>   QED BY <1>2, <1>3, <1>4, <1>5, <1>6, <1>7 DEF Next

\* A request, its late copies included, carries the id of an uploaded receipt.
LEMMA SentStep == IInv /\ [Next]_vars => SentWithReceipt'
PROOF
<1> SUFFICES ASSUME IInv, [Next]_vars PROVE SentWithReceipt' OBVIOUS
<1>1. /\ TypeOK
      /\ applied \subseteq applied'
      /\ remote \subseteq applied
      /\ \A v \in Flows : /\ pc[v] \in {"posted", "cleanup"} => ReceiptUploaded(cur[v])
                          /\ pc[v] \notin {"idle", "list", "pick"} => cur[v] \in Ops
                          /\ cur[v] \in Ops => row[cur[v]] # "none"
      /\ \A o \in stray : o \in Ops /\ row[o] # "none" /\ ReceiptUploaded(o)
      BY AppliedStays DEF IInv, RemoteIsOnServer, SentWithReceipt, TakenIsQueued, TypeOK
<1>2. \A o \in Ops : row[o] # "none" =>
          row'[o] # "none" /\ link'[o] = link[o] /\ (ReceiptUploaded(o) => ReceiptUploaded(o)')
      BY <1>1, RowsStay DEF ReceiptUploaded
<1> USE <1>1 DEF TypeOK, deviceVars, flowVars, passVars, serverVars, Goto, Continue, Stop, Answer, Waiting
<1>3. ASSUME NEW w \in Flows, pc'[w] \in {"posted", "cleanup"}
      PROVE  ReceiptUploaded(cur[w]) /\ cur[w] \in Ops /\ cur'[w] = cur[w]
  <2>1. CASE UNCHANGED <<pc, cur>>
        BY <1>3, <2>1
  <2>2. CASE UNCHANGED vars
        BY <2>1, <2>2 DEF vars
  <2>3. ASSUME NEW o \in Ops, Queue(o) \/ StrayArrives(o) \/ StrayVanishes(o)
        PROVE  UNCHANGED <<pc, cur>>
        BY <2>3 DEF Queue, StrayArrives, StrayVanishes
  <2>4. CASE Crash
        BY <1>3, <2>4 DEF Crash
  <2>5. ASSUME NEW v \in Flows,
               \/ StartFlow(v) \/ ServerStep(v)
               \/ ServerDenies(v) \/ ServerErrs(v) \/ ConnectionLost(v)
        PROVE  ReceiptUploaded(cur[w]) /\ cur[w] \in Ops /\ cur'[w] = cur[w]
        BY <1>3, <2>5 DEF StartFlow, ServerStep, ServerCommits, ServerRefuses, ServerDenies,
           ServerErrs, ConnectionLost
  <2>6. ASSUME NEW v \in Flows, FlowStep(v)
        PROVE  ReceiptUploaded(cur[w]) /\ cur[w] \in Ops /\ cur'[w] = cur[w]
    <3> USE DEF Answered
    <3>1. CASE ReadStage(v) \/ EndStage(v) \/ TakeItem(v)
          BY <1>3, <3>1 DEF ReadStage, EndStage, TakeItem
    <3>2. CASE MarkInFlight(v) \/ ReceiptUnusable(v) \/ ReceiptWaiting(v)
          BY <1>3, <3>2 DEF MarkInFlight, ReceiptUnusable, ReceiptWaiting
    <3>3. CASE Post(v)
          BY <1>3, <3>3 DEF Post, ReceiptUploaded
    <3>4. CASE SettleDocument(v) \/ SettleSale(v) \/ SettlePayment(v)
          BY <1>3, <3>4 DEF SettleDocument, SettleSale, SettlePayment
    <3>5. CASE SettleReceiptBacked(v)
      <4>1. row[cur[v]] # "none" /\ pc[v] \in {"posted", "decided"}
            BY <3>5 DEF SettleReceiptBacked
      <4>2. pc[v] = "posted"
            BY <3>5 DEF SettleReceiptBacked, IInv, AcceptedIsOnServer
      <4>   QED BY <1>3, <3>5, <4>1, <4>2 DEF SettleReceiptBacked
    <3>6. CASE CleanupDocument(v) \/ CleanupThrows(v)
          BY <1>3, <3>6 DEF CleanupDocument, CleanupThrows
    <3>7. CASE SettleRefused(v) \/ SettleWaiting(v) \/ SettleError(v) \/ SettleLost(v)
          BY <1>3, <3>7 DEF SettleRefused, SettleWaiting, SettleError, SettleLost
    <3>   QED BY <2>6, <3>1, <3>2, <3>3, <3>4, <3>5, <3>6, <3>7 DEF FlowStep
  <2>   QED BY <2>1, <2>2, <2>3, <2>4, <2>5, <2>6 DEF Next
<1>4. ASSUME NEW o \in stray', o \notin stray
      PROVE  \E w \in Flows : pc[w] = "posted" /\ o = cur[w]
  <2>1. CASE Crash
        BY <1>4, <2>1 DEF Crash
  <2>2. ASSUME NEW v \in Flows, FlowStep(v)
        PROVE  stray' = stray
        BY <2>2 DEF FlowStep, ReadStage, EndStage, TakeItem, MarkInFlight, ReceiptUnusable,
              ReceiptWaiting, Post, SettleDocument, SettleSale, SettlePayment,
              SettleReceiptBacked, CleanupDocument, CleanupThrows, SettleRefused,
              SettleWaiting, SettleError, SettleLost
  <2>3. ASSUME NEW v \in Flows, ServerErrs(v) \/ ConnectionLost(v)
        PROVE  \E w \in Flows : pc[w] = "posted" /\ o = cur[w]
        BY <1>4, <2>3 DEF ServerErrs, ConnectionLost
  <2>4. CASE UNCHANGED vars
        BY <1>4, <2>4 DEF vars
  <2>5. ASSUME NEW v \in Flows, StartFlow(v) \/ ServerStep(v) \/ ServerDenies(v)
        PROVE  stray' = stray
        BY <2>5 DEF StartFlow, ServerStep, ServerCommits, ServerRefuses, ServerDenies
  <2>6. ASSUME NEW p \in Ops, Queue(p) \/ StrayArrives(p) \/ StrayVanishes(p)
        PROVE  stray' \subseteq stray
        BY <2>6 DEF Queue, StrayArrives, StrayVanishes
  <2>   QED BY <1>4, <2>1, <2>2, <2>3, <2>4, <2>5, <2>6 DEF Next
<1>5. \A w \in Flows : pc'[w] \in {"posted", "cleanup"} => ReceiptUploaded(cur[w])'
      BY <1>2, <1>3
<1>6. \A o \in stray' : row'[o] # "none" /\ ReceiptUploaded(o)'
      BY <1>2, <1>4
<1>   QED BY <1>5, <1>6 DEF SentWithReceipt

\* What the device calls done is in the books.
LEMMA DoneStep == IInv /\ [Next]_vars => DoneIsOnServer'
PROOF
<1> SUFFICES ASSUME IInv, [Next]_vars, NEW o \in Ops, Done(o)', o \notin applied'
             PROVE  FALSE
      BY DEF DoneIsOnServer
<1>1. /\ TypeOK
      /\ ~Done(o) /\ o \notin applied
      /\ \A v \in Flows : /\ reply[v] = "ok" => cur[v] # o
                          /\ pc[v] = "cleanup" => link[cur[v]] # o
  <2>1. applied \subseteq applied' /\ TypeOK
        BY AppliedStays DEF IInv
  <2>2. o \notin applied
        BY <2>1
  <2>3. \A v \in Flows : reply[v] = "ok" => cur[v] # o
        BY <2>2 DEF IInv, AcceptedIsOnServer
  <2>4. \A v \in Flows : pc[v] = "cleanup" => link[cur[v]] # o
        BY <2>2, OutboxAssumption DEF IInv, SentWithReceipt, ReceiptUploaded
  <2>5. ~Done(o)
        BY <2>2 DEF IInv, DoneIsOnServer
  <2>   QED BY <2>1, <2>2, <2>3, <2>4, <2>5
<1> USE <1>1 DEF Done, TypeOK, Statuses, deviceVars, Mark, Rewrite
<1>2. CASE UNCHANGED vars
      BY <1>2 DEF vars
<1>3. ASSUME NEW p \in Ops, Queue(p) \/ StrayArrives(p) \/ StrayVanishes(p)
      PROVE  FALSE
      BY <1>3 DEF Queue, StrayArrives, StrayVanishes
<1>4. CASE Crash
      BY <1>4 DEF Crash
<1>5. ASSUME NEW v \in Flows,
             \/ StartFlow(v) \/ ServerStep(v)
             \/ ServerDenies(v) \/ ServerErrs(v) \/ ConnectionLost(v)
      PROVE  FALSE
      BY <1>5 DEF StartFlow, ServerStep, ServerCommits, ServerRefuses, ServerDenies,
                  ServerErrs, ConnectionLost
<1>6. ASSUME NEW v \in Flows, FlowStep(v)
      PROVE  FALSE
  <2>1. CASE ReadStage(v) \/ EndStage(v) \/ TakeItem(v) \/ ReceiptUnusable(v)
             \/ ReceiptWaiting(v) \/ Post(v) \/ CleanupThrows(v)
        BY <2>1 DEF ReadStage, EndStage, TakeItem, ReceiptUnusable, ReceiptWaiting, Post,
                    CleanupThrows
  <2>2. CASE MarkInFlight(v)
        BY <2>2 DEF MarkInFlight
  <2>3. CASE SettleDocument(v) \/ SettleSale(v) \/ SettlePayment(v) \/ SettleReceiptBacked(v)
        BY <2>3 DEF SettleDocument, SettleSale, SettlePayment, SettleReceiptBacked, Answered
  <2>4. CASE CleanupDocument(v)
        BY <2>4 DEF CleanupDocument
  <2>5. CASE SettleRefused(v) \/ SettleWaiting(v) \/ SettleError(v) \/ SettleLost(v)
        BY <2>5 DEF SettleRefused, SettleWaiting, SettleError, SettleLost
  <2>   QED BY <1>6, <2>1, <2>2, <2>3, <2>4, <2>5 DEF FlowStep
<1>   QED BY <1>2, <1>3, <1>4, <1>5, <1>6 DEF Next

\* The books receive a purchase or an expense from a request that named the
\* uploaded receipt, or they refuse it.
LEMMA ReceiptStep == IInv /\ [Next]_vars => ReceiptFirst'
PROOF
<1> SUFFICES ASSUME IInv, [Next]_vars, NEW o \in Ops, Receipt[o] # NoOp,
                    o \in applied', Receipt[o] \notin applied'
             PROVE  FALSE
      BY DEF ReceiptFirst
<1>1. Receipt[o] \notin applied /\ o \notin applied
      BY AppliedStays DEF IInv, ReceiptFirst
<1>2. ~(Acceptable(o) /\ ReceiptUploaded(o))
      BY <1>1 DEF Acceptable, ReceiptUploaded, IInv, LinkIsReceipt
<1>3. ASSUME NEW v \in Flows, ServerCommits(v)
      PROVE  FALSE
  <2>1. cur[v] = o /\ pc[v] = "posted"
        BY <1>1, <1>3 DEF ServerCommits, Waiting
  <2>2. Acceptable(o) /\ ReceiptUploaded(o)
        BY <1>1, <1>3, <2>1 DEF ServerCommits, IInv, SentWithReceipt
  <2>   QED BY <1>2, <2>2
<1>4. ASSUME NEW p \in Ops, StrayArrives(p)
      PROVE  FALSE
  <2>1. p = o /\ Acceptable(o) /\ o \in stray
        BY <1>1, <1>4 DEF StrayArrives
  <2>   QED BY <1>2, <2>1 DEF IInv, SentWithReceipt
<1> USE DEF serverVars
<1>5. CASE UNCHANGED vars
      BY <1>1, <1>5 DEF vars
<1>6. ASSUME NEW v \in Flows, FlowStep(v)
      PROVE  FALSE
      BY <1>1, <1>6 DEF FlowStep, ReadStage, EndStage, TakeItem, MarkInFlight, ReceiptUnusable,
              ReceiptWaiting, Post, SettleDocument, SettleSale, SettlePayment,
              SettleReceiptBacked, CleanupDocument, CleanupThrows, SettleRefused,
              SettleWaiting, SettleError, SettleLost
<1>7. CASE Next
      BY <1>1, <1>3, <1>4, <1>6, <1>7 DEF Next, Queue, StrayVanishes, Crash, StartFlow,
         ServerStep, ServerRefuses, ServerDenies, ServerErrs, ConnectionLost
<1>   QED BY <1>5, <1>7

LEMMA InvStep == IInv /\ [Next]_vars => IInv'
PROOF BY StepType, DoneStep, ReceiptStep, RemoteStep, LinkStep, TakenStep, AcceptedStep, SentStep
      DEF IInv

\* The strengthened invariant holds of every behaviour.
THEOREM Invariance == Spec => []IInv
PROOF BY InitInv, InvStep, PTL DEF Spec

\* The device never calls an operation done that the server does not have,
\* for any operations, any number of overlapping flushes and any failures.
THEOREM DoneCorrect == Spec => []DoneIsOnServer
PROOF
<1>1. IInv => DoneIsOnServer
      BY DEF IInv
<1>   QED BY <1>1, Invariance, PTL

\* A purchase or an expense never reaches the books before its receipt.
THEOREM ReceiptCorrect == Spec => []ReceiptFirst
PROOF
<1>1. IInv => ReceiptFirst
      BY DEF IInv
<1>   QED BY <1>1, Invariance, PTL

--------------------------------------------------------------------------------
(* The order a flow sends in, and what it leaves behind                     *)

\* Only recording an operation creates a row; nothing unqueues one or brings one back.
LEMMA RowsBorn ==
    ASSUME TypeOK, [Next]_vars, ~\E p \in Ops : Queue(p)
    PROVE  /\ UNCHANGED <<createdAt, clock, link>>
           /\ \A o \in Ops : row[o] \in {"none", "deleted"} => row'[o] = row[o]
           /\ \A w \in Flows : since'[w] \in {since[w], 0, clock}
PROOF
<1> DEFINE Quiet == /\ UNCHANGED <<createdAt, clock, link>>
                    /\ \A o \in Ops : row[o] \in {"none", "deleted"} => row'[o] = row[o]
                    /\ \A w \in Flows : since'[w] \in {since[w], 0, clock}
<1> USE DEF TypeOK, Statuses, deviceVars, flowVars, passVars, serverVars, Mark, Present, Rewrite,
                 Continue, Stop, Defer
<1>1. CASE UNCHANGED vars
      BY <1>1 DEF vars
<1>2. ASSUME NEW p \in Ops, StrayArrives(p) \/ StrayVanishes(p)
      PROVE  Quiet
      BY <1>2 DEF StrayArrives, StrayVanishes
<1>3. CASE Crash
      BY <1>3 DEF Crash
<1>4. ASSUME NEW w \in Flows,
             \/ StartFlow(w) \/ ServerStep(w)
             \/ ServerDenies(w) \/ ServerErrs(w) \/ ConnectionLost(w)
      PROVE  Quiet
      BY <1>4 DEF StartFlow, ServerStep, ServerCommits, ServerRefuses, ServerDenies,
                  ServerErrs, ConnectionLost
<1>5. ASSUME NEW w \in Flows, FlowStep(w)
      PROVE  Quiet
  <2>1. CASE ReadStage(w) \/ EndStage(w) \/ TakeItem(w) \/ ReceiptUnusable(w)
             \/ ReceiptWaiting(w) \/ Post(w) \/ CleanupThrows(w)
        BY <2>1 DEF ReadStage, EndStage, TakeItem, ReceiptUnusable, ReceiptWaiting, Post,
                    CleanupThrows
  <2>2. CASE MarkInFlight(w)
        BY <2>2 DEF MarkInFlight
  <2>3. CASE SettleDocument(w) \/ SettleSale(w) \/ SettlePayment(w) \/ SettleReceiptBacked(w)
        BY <2>3 DEF SettleDocument, SettleSale, SettlePayment, SettleReceiptBacked
  <2>4. CASE CleanupDocument(w)
        BY <2>4 DEF CleanupDocument
  <2>5. CASE SettleRefused(w) \/ SettleWaiting(w) \/ SettleError(w) \/ SettleLost(w)
        BY <2>5 DEF SettleRefused, SettleWaiting, SettleError, SettleLost
  <2>   QED BY <1>5, <2>1, <2>2, <2>3, <2>4, <2>5 DEF FlowStep
<1>   QED BY <1>1, <1>2, <1>3, <1>4, <1>5 DEF Next

\* A row has a place in creation order from the moment it is queued, after its receipt's.
LEMMA CreationStep ==
    ASSUME IInv, CreationInv, [Next]_vars
    PROVE  CreationInv'
PROOF
<1>1. TypeOK /\ TypeOK'
      BY StepType DEF IInv
<1>2. ASSUME NEW p \in Ops, Queue(p)
      PROVE  CreationInv'
  <2>1. /\ row[p] = "none" /\ row' = [row EXCEPT ![p] = "pending"]
        /\ clock' = clock + 1 /\ createdAt' = [createdAt EXCEPT ![p] = clock + 1]
        /\ since' = since
        /\ Receipt[p] # NoOp => row[Receipt[p]] # "none"
        /\ link' = [link EXCEPT ![p] = link'[p]] /\ link'[p] \in {NoOp, Receipt[p]}
        BY <1>1, <1>2 DEF Queue, TypeOK, flowVars, passVars
  <2>2. \A o \in Ops : o # p => /\ row'[o] = row[o] /\ createdAt'[o] = createdAt[o]
                                /\ link'[o] = link[o]
        BY <1>1, <2>1 DEF TypeOK
  <2>3. row'[p] = "pending" /\ createdAt'[p] = clock + 1
        BY <1>1, <2>1 DEF TypeOK
  <2>4. /\ clock \in Nat /\ \A o \in Ops : createdAt[o] \in Nat /\ createdAt[o] <= clock
        /\ \A w \in Flows : since[w] \in Nat /\ since[w] <= clock
        BY <1>1 DEF TypeOK, CreationInv
  <2>5. \A o \in Ops : row'[o] = "none" <=> createdAt'[o] = 0
        BY <2>2, <2>3, <2>4 DEF CreationInv
  <2>6. \A o \in Ops : createdAt'[o] <= clock'
        BY <2>1, <2>2, <2>3, <2>4
  <2>7. \A w \in Flows : since'[w] <= clock'
        BY <2>1, <2>4
  <2>8. ASSUME NEW o \in Ops, link'[o] # NoOp
        PROVE  createdAt'[link'[o]] \in 1..createdAt'[o]
    <3>1. CASE o = p
      <4>1. /\ link'[o] = Receipt[p] /\ Receipt[p] \in Ops /\ row[Receipt[p]] # "none"
            BY <2>1, <2>8, <3>1, OutboxAssumption
      <4>2. createdAt[Receipt[p]] \in 1..clock /\ Receipt[p] # p
            BY <2>1, <2>4, <4>1 DEF CreationInv
      <4>   QED BY <2>2, <2>3, <2>4, <3>1, <4>1, <4>2
    <3>2. CASE o # p
      <4>1. link'[o] = link[o] /\ createdAt[link[o]] \in 1..createdAt[o] /\ link[o] \in Ops
            BY <1>1, <2>2, <2>8, <3>2 DEF CreationInv, TypeOK
      <4>2. link[o] # p
            BY <2>1, <2>4, <4>1 DEF CreationInv
      <4>   QED BY <2>2, <3>2, <4>1, <4>2
    <3>   QED BY <3>1, <3>2
  <2>   QED BY <2>5, <2>6, <2>7, <2>8 DEF CreationInv
<1>3. CASE ~\E p \in Ops : Queue(p)
  <2>1. /\ UNCHANGED <<createdAt, clock, link>>
        /\ \A o \in Ops : row[o] \in {"none", "deleted"} => row'[o] = row[o]
        /\ \A w \in Flows : since'[w] \in {since[w], 0, clock}
        BY <1>1, <1>3, RowsBorn
  <2>2. \A o \in Ops : row'[o] = "none" <=> row[o] = "none"
        BY <1>1, <2>1, RowsStay
  <2>3. clock \in Nat /\ \A w \in Flows : since'[w] <= clock
        BY <1>1, <2>1 DEF TypeOK, CreationInv
  <2>   QED BY <2>1, <2>2, <2>3 DEF CreationInv
<1>   QED BY <1>2, <1>3

\* What a row's status says of it.
LEMMA RowInvStep ==
    ASSUME IInv, RowInv, [Next]_vars
    PROVE  RowInv'
PROOF
<1>1. TypeOK
      BY DEF IInv
<1> USE <1>1 DEF TypeOK, Statuses, RowInv, deviceVars, flowVars, passVars, serverVars,
           markVars, Mark, Present, Rewrite
<1>2. CASE UNCHANGED <<row, remote, givenUp>>
      BY <1>2
<1>3. ASSUME NEW p \in Ops, Queue(p)
      PROVE  RowInv'
      BY <1>3 DEF Queue
<1>4. ASSUME NEW w \in Flows,
             \/ MarkInFlight(w) \/ SettleRefused(w) \/ SettleWaiting(w)
             \/ SettleError(w) \/ SettleLost(w)
      PROVE  RowInv'
      BY <1>4 DEF MarkInFlight, SettleRefused, SettleWaiting, SettleError, SettleLost
<1>5. ASSUME NEW w \in Flows,
             SettleDocument(w) \/ SettleSale(w) \/ SettlePayment(w) \/ SettleReceiptBacked(w)
      PROVE  RowInv'
      BY <1>5 DEF SettleDocument, SettleSale, SettlePayment, SettleReceiptBacked
<1>6. ASSUME NEW w \in Flows, CleanupDocument(w)
      PROVE  RowInv'
      BY <1>6 DEF CleanupDocument
<1>7. ASSUME NEW w \in Flows,
             \/ ReadStage(w) \/ EndStage(w) \/ TakeItem(w) \/ ReceiptUnusable(w)
             \/ ReceiptWaiting(w) \/ Post(w) \/ CleanupThrows(w)
             \/ StartFlow(w) \/ ServerStep(w)
             \/ ServerDenies(w) \/ ServerErrs(w) \/ ConnectionLost(w)
      PROVE  UNCHANGED <<row, remote, givenUp>>
      BY <1>7 DEF ReadStage, EndStage, TakeItem, ReceiptUnusable, ReceiptWaiting, Post,
                  CleanupThrows, StartFlow, ServerStep, ServerCommits, ServerRefuses,
                  ServerDenies, ServerErrs, ConnectionLost
<1>8. CASE UNCHANGED vars \/ Crash \/ \E p \in Ops : StrayArrives(p) \/ StrayVanishes(p)
      BY <1>2, <1>8 DEF vars, Crash, StrayArrives, StrayVanishes
<1>   QED BY <1>2, <1>3, <1>4, <1>5, <1>6, <1>7, <1>8 DEF Next, FlowStep

\* A flow's own step leaves every other flow where it is.
LEMMA FlowsApart ==
    ASSUME TypeOK, NEW v \in Flows, NEW w \in Flows, v # w, FlowStep(v)
    PROVE  /\ pc'[w] = pc[w] /\ stage'[w] = stage[w] /\ cur'[w] = cur[w]
           /\ todo'[w] = todo[w] /\ since'[w] = since[w] /\ deferred'[w] = deferred[w]
PROOF
<1> USE DEF TypeOK, flowVars, passVars, Goto, Continue, Stop, Answer, Defer
<1>1. CASE ReadStage(v) \/ EndStage(v) \/ TakeItem(v) \/ MarkInFlight(v)
      BY <1>1 DEF ReadStage, EndStage, TakeItem, MarkInFlight
<1>2. CASE ReceiptUnusable(v) \/ ReceiptWaiting(v) \/ Post(v)
      BY <1>2 DEF ReceiptUnusable, ReceiptWaiting, Post
<1>3. CASE SettleDocument(v) \/ SettleSale(v) \/ SettlePayment(v)
      BY <1>3 DEF SettleDocument, SettleSale, SettlePayment
<1>4. CASE SettleReceiptBacked(v) \/ CleanupDocument(v) \/ CleanupThrows(v)
      BY <1>4 DEF SettleReceiptBacked, CleanupDocument, CleanupThrows
<1>5. CASE SettleRefused(v) \/ SettleWaiting(v) \/ SettleError(v) \/ SettleLost(v)
      BY <1>5 DEF SettleRefused, SettleWaiting, SettleError, SettleLost
<1>   QED BY <1>1, <1>2, <1>3, <1>4, <1>5 DEF FlowStep

\* A flow holds operations of its stage only, and is past what it has deleted.
LEMMA WalkStep ==
    ASSUME IInv, WalkInv, [Next]_vars
    PROVE  WalkInv'
PROOF
<1> DEFINE Good(w) == /\ pc[w] = "idle" => stage[w] = 1
                      /\ pc[w] \in {"idle", "list", "pick"} => cur[w] = NoOp
                      /\ pc[w] \in {"idle", "list"} => todo[w] = {}
                      /\ \A o \in Ops : o \in Holding(w) => Kind[o] = ThisStage(w)
<1>1. TypeOK /\ TypeOK' /\ NoOp \notin Ops /\ \A w \in Flows : Good(w)
      BY StepType, OutboxAssumption DEF IInv, WalkInv
<1>2. \A w \in Flows : pc'[w] = "cleanup" => row'[cur'[w]] = "deleted"
  <2>1. ASSUME NEW w \in Flows, pc[w] = "cleanup", cur'[w] = cur[w]
        PROVE  row'[cur'[w]] = "deleted"
    <3>1. cur[w] \in Ops /\ row[cur[w]] = "deleted"
          BY <1>1, <2>1 DEF WalkInv, TypeOK
    <3>2. CASE \E p \in Ops : Queue(p)
          BY <1>1, <2>1, <3>1, <3>2 DEF Queue, TypeOK
    <3>   QED BY <1>1, <2>1, <3>1, <3>2, RowsBorn
  <2>2. ASSUME NEW w \in Flows, pc'[w] = "cleanup"
        PROVE  \/ pc[w] = "cleanup" /\ cur'[w] = cur[w]
               \/ SettleReceiptBacked(w)
    <3> USE <1>1 DEF TypeOK, flowVars, passVars, Goto, Continue, Stop
    <3>1. CASE UNCHANGED <<pc, cur>>
          BY <2>2, <3>1
    <3>2. ASSUME NEW v \in Flows, FlowStep(v)
          PROVE  \/ pc[w] = "cleanup" /\ cur'[w] = cur[w]
                 \/ SettleReceiptBacked(w)
      <4>1. CASE v = w
            BY <2>2, <3>2, <4>1 DEF FlowStep, ReadStage, EndStage, TakeItem, MarkInFlight,
              ReceiptUnusable, ReceiptWaiting, Post, SettleDocument, SettleSale, SettlePayment,
              CleanupDocument, CleanupThrows, SettleRefused, SettleWaiting, SettleError, SettleLost
      <4>2. CASE v # w
            BY <2>2, <3>2, <4>2, FlowsApart
      <4>   QED BY <4>1, <4>2
    <3>3. CASE Crash
          BY <2>2, <3>3 DEF Crash
    <3>4. ASSUME NEW v \in Flows, StartFlow(v)
          PROVE  pc[w] = "cleanup" /\ cur'[w] = cur[w]
          BY <2>2, <3>4 DEF StartFlow
    <3>5. CASE UNCHANGED vars \/ (Next /\ ~Crash /\ ~\E v \in Flows : FlowStep(v) \/ StartFlow(v))
          BY <3>1, <3>5 DEF vars, Next, Queue, StrayArrives, StrayVanishes,
             ServerStep, ServerCommits, ServerRefuses, ServerDenies, ServerErrs, ConnectionLost
    <3>   QED BY <3>2, <3>3, <3>4, <3>5
  <2>3. ASSUME NEW w \in Flows, SettleReceiptBacked(w), pc'[w] = "cleanup"
        PROVE  row'[cur'[w]] = "deleted"
    <3>1. cur[w] \in Ops /\ row[cur[w]] # "none" /\ cur'[w] = cur[w]
          BY <1>1, <2>3 DEF SettleReceiptBacked, Answered, IInv, TakenIsQueued, TypeOK,
             Continue, Goto
    <3>   QED BY <1>1, <2>3, <3>1 DEF SettleReceiptBacked, Mark, Present, TypeOK
  <2>   QED BY <2>1, <2>2, <2>3
<1>3. ASSUME NEW w \in Flows
      PROVE  Good(w)'
  <2> USE <1>1 DEF TypeOK, flowVars, passVars, Goto, Continue, Stop, Answer, Waiting, Holding, ThisStage
  <2>1. CASE UNCHANGED flowVars
        BY <2>1
  <2>2. ASSUME NEW v \in Flows, FlowStep(v), v # w
        PROVE  Good(w)'
    <3>1. /\ pc'[w] = pc[w] /\ stage'[w] = stage[w] /\ cur'[w] = cur[w]
          /\ todo'[w] = todo[w]
          BY <2>2, FlowsApart
    <3>   QED BY <3>1
  <2>3. CASE FlowStep(w)
    <3>1. CASE ReadStage(w)
          BY <3>1 DEF ReadStage, Syncable
    <3>2. CASE EndStage(w)
          BY <3>2 DEF EndStage
    <3>3. CASE TakeItem(w)
          BY <3>3 DEF TakeItem
    <3>4. CASE MarkInFlight(w) \/ ReceiptUnusable(w) \/ ReceiptWaiting(w) \/ Post(w)
          BY <3>4 DEF MarkInFlight, ReceiptUnusable, ReceiptWaiting, Post
    <3>5. CASE SettleDocument(w) \/ SettleSale(w) \/ SettlePayment(w)
          BY <3>5 DEF SettleDocument, SettleSale, SettlePayment
    <3>6. CASE SettleReceiptBacked(w) \/ CleanupDocument(w) \/ CleanupThrows(w)
          BY <3>6 DEF SettleReceiptBacked, CleanupDocument, CleanupThrows
    <3>7. CASE SettleRefused(w) \/ SettleWaiting(w) \/ SettleLost(w)
          BY <3>7 DEF SettleRefused, SettleWaiting, SettleLost
    <3>8. CASE SettleError(w)
          BY <3>8 DEF SettleError
    <3>   QED BY <2>3, <3>1, <3>2, <3>3, <3>4, <3>5, <3>6, <3>7, <3>8 DEF FlowStep
  <2>4. CASE Crash
        BY <2>4 DEF Crash
  <2>5. ASSUME NEW v \in Flows, StartFlow(v)
        PROVE  Good(w)'
        BY <2>5 DEF StartFlow
  <2>6. ASSUME NEW v \in Flows,
               ServerStep(v) \/ ServerDenies(v) \/ ServerErrs(v) \/ ConnectionLost(v)
        PROVE  Good(w)'
    <3>1. UNCHANGED <<pc, stage, todo, cur>>
          BY <2>6 DEF ServerStep, ServerCommits, ServerRefuses, ServerDenies, ServerErrs,
             ConnectionLost
    <3>   QED BY <3>1
  <2>7. CASE UNCHANGED vars \/ \E p \in Ops : Queue(p) \/ StrayArrives(p) \/ StrayVanishes(p)
        BY <2>1, <2>7 DEF vars, Queue, StrayArrives, StrayVanishes
  <2>   QED BY <2>2, <2>3, <2>4, <2>5, <2>6, <2>7 DEF Next
<1>   QED BY <1>2, <1>3 DEF WalkInv

\* No stage is run twice.
LEMMA StagesInOrder ==
    ASSUME NEW w \in Flows
    PROVE  /\ \A i, j \in DOMAIN Pipeline[w] : Pipeline[w][i] = Pipeline[w][j] => i = j
           /\ DOMAIN Pipeline[w] \subseteq Nat \ {0}
PROOF
<1>1. Pipeline[w] \in {FlushAll, FlushPendingPurchases, FlushPendingExpenses,
                       FlushPendingDocuments}
      BY OutboxAssumption
<1>   QED BY <1>1 DEF FlushAll, FlushPendingPurchases, FlushPendingExpenses, FlushPendingDocuments

\* What a flow has in hand when it goes on within its stage it still has
\* afterwards, or has put away: on the server, as a conflict, or deferred.
LEMMA Onward ==
    ASSUME IInv, IInv', WalkInv, NEW w \in Flows, FlowStep(w),
           ~ReadStage(w), ~EndStage(w), pc'[w] # "idle"
    PROVE  /\ pc[w] \notin {"idle", "list"} /\ pc'[w] # "list"
           /\ stage'[w] = stage[w] /\ since'[w] = since[w] /\ createdAt' = createdAt
           /\ deferred[w] \subseteq deferred'[w] /\ givenUp \subseteq givenUp'
           /\ applied' = applied
           /\ \A o \in Ops : o \in Holding(w) => o \in Holding(w)' \/ PutAway(w, o)'
PROOF
<1>1. /\ TypeOK /\ NoOp \notin Ops
      /\ reply[w] # "none" => pc[w] \in {"posted", "decided"}
      /\ reply[w] = "ok" => cur[w] \in applied
      /\ cur[w] \in Ops => row[cur[w]] # "none"
      /\ pc[w] = "cleanup" => row[cur[w]] = "deleted"
      /\ \A o \in Ops : row[o] = "deleted" => o \in applied
      /\ pc[w] = "pick" => cur[w] = NoOp
      BY OutboxAssumption DEF IInv, AcceptedIsOnServer, TakenIsQueued, WalkInv, DoneIsOnServer,
         Done
<1> USE <1>1 DEF TypeOK, Statuses, deviceVars, flowVars, passVars, serverVars, markVars, Mark,
                 Present, Rewrite, Goto, Continue, Stop, Answer, Holding, PutAway, Defer
<1>2. CASE TakeItem(w)
  <2>1. PICK p \in todo[w] : todo'[w] = todo[w] \ {p} /\ cur'[w] = p
        BY <1>2 DEF TakeItem
  <2>2. \A o \in Ops : o \in Holding(w) => o \in Holding(w)'
        BY <1>2, <2>1 DEF TakeItem
  <2>   QED BY <1>2, <2>2 DEF TakeItem
<1>3. CASE MarkInFlight(w)
      BY <1>3 DEF MarkInFlight
<1>4. CASE ReceiptUnusable(w) \/ ReceiptWaiting(w) \/ Post(w)
      BY <1>4 DEF ReceiptUnusable, ReceiptWaiting, Post
<1>5. CASE SettleDocument(w)
      BY <1>5 DEF SettleDocument, Answered
<1>6. CASE SettleSale(w)
      BY <1>6 DEF SettleSale, Answered
<1>7. CASE SettlePayment(w)
      BY <1>7 DEF SettlePayment, Answered
<1>8. CASE SettleReceiptBacked(w)
      BY <1>8 DEF SettleReceiptBacked, Answered
<1>9. CASE CleanupDocument(w)
      BY <1>9 DEF CleanupDocument
<1>10. CASE SettleRefused(w)
  <2>1. cur[w] \in applied \/ cur[w] \in givenUp'
        BY <1>10 DEF SettleRefused, Answered
  <2>   QED BY <1>10, <2>1 DEF SettleRefused, Answered
<1>11. CASE SettleWaiting(w)
       BY <1>11 DEF SettleWaiting, Answered
<1>12. CASE SettleError(w)
       BY <1>12 DEF SettleError, Answered
<1>13. ~SettleLost(w) /\ ~CleanupThrows(w)
       BY DEF SettleLost, CleanupThrows, Answered
<1>    QED BY <1>2, <1>3, <1>4, <1>5, <1>6, <1>7, <1>8, <1>9, <1>10, <1>11, <1>12, <1>13
           DEF FlowStep

\* Nothing takes back that an operation has been put aside.
LEMMA GivenUpStays ==
    ASSUME TypeOK, [Next]_vars
    PROVE  givenUp \subseteq givenUp'
PROOF
<1> USE DEF markVars
<1>1. CASE UNCHANGED vars
      BY <1>1 DEF vars
<1>2. CASE Next
      BY <1>2 DEF Next, FlowStep, ReadStage, EndStage, TakeItem, MarkInFlight, ReceiptUnusable,
         ReceiptWaiting, Post, SettleDocument, SettleSale, SettlePayment, SettleReceiptBacked,
         CleanupDocument, CleanupThrows, SettleRefused, SettleWaiting, SettleError, SettleLost,
         Queue, StrayArrives, StrayVanishes, Crash, StartFlow, ServerStep, ServerCommits,
         ServerRefuses, ServerDenies, ServerErrs, ConnectionLost
<1>   QED BY <1>1, <1>2

\* A flow puts away the rows it found, stage after stage, whatever others do.
LEMMA SweepStep ==
    ASSUME IInv, CreationInv, RowInv, WalkInv, SweepInv, [Next]_vars
    PROVE  SweepInv'
PROOF
<1>1. /\ TypeOK /\ TypeOK' /\ NoOp \notin Ops /\ IInv'
      /\ applied \subseteq applied' /\ givenUp \subseteq givenUp'
      BY InvStep, AppliedStays, GivenUpStays, OutboxAssumption DEF IInv
<1> DEFINE Sweep(w) ==
        pc[w] # "idle" => \A o \in Ops : Early(w, o) =>
            /\ StageDone(w, Kind[o]) => PutAway(w, o)
            /\ pc[w] # "list" /\ Kind[o] = ThisStage(w) => PutAway(w, o) \/ o \in Holding(w)
           Rests(w) == /\ pc'[w] = pc[w] /\ stage'[w] = stage[w] /\ cur'[w] = cur[w]
                       /\ todo'[w] = todo[w] /\ since'[w] = since[w]
                       /\ deferred'[w] = deferred[w]
<1>2. SUFFICES ASSUME NEW w \in Flows PROVE Sweep(w)'
      BY DEF SweepInv
<1>3. Sweep(w)
      BY DEF SweepInv
<1>4. CASE Rests(w)
  <2>1. \A o \in Ops : Early(w, o)' => Early(w, o)
    <3>1. CASE \E p \in Ops : Queue(p)
          BY <1>1, <1>4, <3>1 DEF Queue, Early, TypeOK, CreationInv
    <3>2. CASE ~\E p \in Ops : Queue(p)
          BY <1>1, <1>4, <3>2, RowsBorn DEF Early
    <3>   QED BY <3>1, <3>2
  <2>2. \A o \in Ops : PutAway(w, o) => PutAway(w, o)'
        BY <1>1, <1>4 DEF PutAway
  <2>3. \A o \in Ops : StageDone(w, Kind[o])' = StageDone(w, Kind[o])
        BY <1>4 DEF StageDone
  <2>4. ThisStage(w)' = ThisStage(w) /\ Holding(w)' = Holding(w)
        BY <1>4 DEF ThisStage, Holding
  <2>   QED BY <1>3, <1>4, <2>1, <2>2, <2>3, <2>4
<1>5. ASSUME NEW p \in Ops, Queue(p) \/ StrayArrives(p) \/ StrayVanishes(p)
      PROVE  Rests(w)
      BY <1>5 DEF Queue, StrayArrives, StrayVanishes, flowVars, passVars
<1>6. CASE StartFlow(w)
  <2>1. /\ pc'[w] = "list" /\ stage'[w] = 1
        BY <1>1, <1>6 DEF StartFlow, Goto, WalkInv, TypeOK
  <2>   QED BY <2>1 DEF StageDone
<1>7. CASE Crash
      BY <1>1, <1>7 DEF Crash
<1>8. ASSUME NEW v \in Flows,
             ServerStep(v) \/ ServerDenies(v) \/ ServerErrs(v) \/ ConnectionLost(v)
      PROVE  Rests(w)
      BY <1>8 DEF ServerStep, ServerCommits, ServerRefuses, ServerDenies, ServerErrs,
         ConnectionLost, passVars
<1>9. ASSUME NEW v \in Flows, v # w, StartFlow(v) \/ FlowStep(v)
      PROVE  Rests(w)
  <2>1. CASE StartFlow(v)
        BY <1>1, <1>9, <2>1 DEF StartFlow, Goto, TypeOK
  <2>2. CASE FlowStep(v)
        BY <1>1, <1>9, <2>2, FlowsApart
  <2>   QED BY <1>9, <2>1, <2>2
<1>10. CASE FlowStep(w)
  <2>1. CASE pc'[w] = "idle"
        BY <2>1
  <2>2. CASE ReadStage(w)
    <3>1. /\ pc[w] = "list" /\ pc'[w] = "pick"
          /\ todo'[w] = Syncable(ThisStage(w))
          /\ UNCHANGED <<row, createdAt, stage, cur, since, deferred, applied, givenUp>>
          BY <1>1, <2>2 DEF ReadStage, Goto, deviceVars, serverVars, markVars, passVars, TypeOK,
             ThisStage
    <3>2. ASSUME NEW o \in Ops, Early(w, o), Kind[o] = ThisStage(w)
          PROVE  PutAway(w, o) \/ o \in todo'[w]
      <4>1. row[o] # "none" /\ row[o] \in Statuses
            BY <1>1, <3>2 DEF CreationInv, TypeOK, Early
      <4>2. CASE row[o] \in {"uploaded", "synced", "deleted"}
            BY <4>2 DEF IInv, DoneIsOnServer, Done, PutAway
      <4>3. CASE row[o] = "conflict"
            BY <4>3 DEF RowInv, PutAway
      <4>4. CASE row[o] \in {"pending", "syncing"}
            BY <3>1, <3>2, <4>4 DEF Syncable
      <4>   QED BY <4>1, <4>2, <4>3, <4>4 DEF Statuses
    <3>   QED BY <1>3, <3>1, <3>2 DEF Early, PutAway, StageDone, Holding, ThisStage
  <2>3. CASE EndStage(w) /\ pc'[w] # "idle"
    <3>1. /\ pc[w] = "pick" /\ pc'[w] = "list" /\ stage'[w] = stage[w] + 1
          /\ todo[w] = {} /\ cur[w] = NoOp
          /\ UNCHANGED <<createdAt, since, deferred, applied, givenUp>>
          BY <1>1, <2>3 DEF EndStage, Goto, Stop, deviceVars, serverVars, markVars, passVars,
             TypeOK, WalkInv
    <3>2. stage[w] \in Nat \ {0}
          BY <1>1, StagesInOrder DEF TypeOK
    <3>3. ASSUME NEW o \in Ops, Early(w, o), StageDone(w, Kind[o])'
          PROVE  PutAway(w, o)
      <4>1. PICK i \in 1..stage[w] : Pipeline[w][i] = Kind[o]
            BY <3>1, <3>2, <3>3 DEF StageDone
      <4>2. CASE i = stage[w]
            BY <1>1, <1>3, <3>1, <3>3, <4>1, <4>2 DEF Holding, ThisStage
      <4>3. CASE i # stage[w]
            BY <1>3, <3>1, <3>2, <3>3, <4>1, <4>3 DEF StageDone
      <4>   QED BY <4>2, <4>3
    <3>   QED BY <1>1, <3>1, <3>3 DEF Early, PutAway
  <2>4. CASE ~ReadStage(w) /\ ~EndStage(w) /\ pc'[w] # "idle"
    <3>1. /\ pc[w] \notin {"idle", "list"} /\ pc'[w] # "list"
          /\ stage'[w] = stage[w] /\ since'[w] = since[w] /\ createdAt' = createdAt
          /\ deferred[w] \subseteq deferred'[w] /\ givenUp \subseteq givenUp'
          /\ applied' = applied
          /\ \A o \in Ops : o \in Holding(w) => o \in Holding(w)' \/ PutAway(w, o)'
          BY <1>1, <1>10, <2>4, Onward
    <3>2. \A o \in Ops : PutAway(w, o) => PutAway(w, o)'
          BY <3>1 DEF PutAway
    <3>3. \A o \in Ops : /\ Early(w, o)' = Early(w, o)
                         /\ StageDone(w, Kind[o])' = StageDone(w, Kind[o])
                         /\ ThisStage(w)' = ThisStage(w)
          BY <3>1 DEF Early, StageDone, ThisStage
    <3>   QED BY <1>3, <3>1, <3>2, <3>3
  <2>   QED BY <2>1, <2>2, <2>3, <2>4
<1>11. CASE UNCHANGED vars
       BY <1>4, <1>11 DEF vars, flowVars, passVars
<1>    QED BY <1>4, <1>5, <1>6, <1>7, <1>8, <1>9, <1>10, <1>11 DEF Next

LEMMA OrderStart == Init => OutboxInv
PROOF
<1> SUFFICES ASSUME Init PROVE CreationInv /\ RowInv /\ WalkInv /\ SweepInv
    BY InitInv DEF OutboxInv
<1>1. \A w \in Flows : since[w] = 0 /\ pc[w] = "idle" /\ stage[w] = 1
                       /\ todo[w] = {} /\ cur[w] = NoOp
      BY DEF Init
<1>2. \A o \in Ops : row[o] = "none" /\ createdAt[o] = 0 /\ link[o] = NoOp
      BY DEF Init
<1>3. clock = 0 /\ NoOp \notin Ops
      BY OutboxAssumption DEF Init
<1>   QED BY <1>1, <1>2, <1>3 DEF CreationInv, RowInv, WalkInv, SweepInv, Holding

LEMMA OutboxStepInv == OutboxInv /\ [Next]_vars => OutboxInv'
PROOF BY InvStep, CreationStep, RowInvStep, WalkStep, SweepStep DEF OutboxInv

\* What a status, a place in creation order and a flow's progress claim is so in every
\* reachable state, however many flows overlap and fail.
THEOREM OutboxInvariance == Spec => []OutboxInv
PROOF BY OrderStart, OutboxStepInv, PTL DEF Spec

\* A sale or a payment is sent when what it builds on has had its stage.
LEMMA OrderKept ==
    ASSUME OutboxInv, NEW w \in Flows, pc[w] = "check",
           NEW d \in DependsOn[cur[w]], Early(w, d)
    PROVE  PutAway(w, d)
PROOF
<1> DEFINE o == cur[w]
<1>1. TypeOK /\ o \in Ops
      BY DEF OutboxInv, IInv, TypeOK
<1>2. /\ d \in Ops
      /\ \/ Kind[o] = "sale" /\ Kind[d] = "purchase"
         \/ Kind[o] = "payment" /\ Kind[d] = "sale"
      BY <1>1, OutboxAssumption
<1>3. Kind[o] = Pipeline[w][stage[w]] /\ stage[w] \in DOMAIN Pipeline[w]
      BY <1>1 DEF OutboxInv, WalkInv, Holding, ThisStage, TypeOK
<1>4. Pipeline[w] = FlushAll
      BY <1>2, <1>3, OutboxAssumption
      DEF FlushPendingPurchases, FlushPendingExpenses, FlushPendingDocuments
<1>5. StageDone(w, Kind[d])
  <2>1. CASE Kind[o] = "sale"
    <3>1. stage[w] = 3 /\ Kind[d] = "purchase" /\ Pipeline[w][2] = "purchase"
          BY <1>2, <1>3, <1>4, <2>1 DEF FlushAll
    <3>   QED BY <3>1 DEF StageDone
  <2>2. CASE Kind[o] = "payment"
    <3>1. stage[w] = 4 /\ Kind[d] = "sale" /\ Pipeline[w][3] = "sale"
          BY <1>2, <1>3, <1>4, <2>2 DEF FlushAll
    <3>   QED BY <3>1 DEF StageDone
  <2>   QED BY <1>2, <2>1, <2>2
<1>   QED BY <1>2, <1>5 DEF OutboxInv, SweepInv

\* Whatever other flows, crashes and answers do, a flow sends a sale or a customer payment
\* only when what it builds on, recorded before the flow began, has reached the server or
\* been put aside - or this flow itself has deferred it: the one way the order breaks.
THEOREM InOrder == Spec => DependenciesFirst
PROOF
<1>1. OutboxInv /\ [Next]_vars =>
          [\A w \in Flows : pc[w] = "check" /\ pc'[w] = "posted" =>
               \A d \in DependsOn[cur[w]] : createdAt[d] \in 1..since[w] =>
                   d \in applied \cup givenUp \cup deferred[w]]_vars
      BY OrderKept DEF Early, PutAway
<1>   QED BY <1>1, OutboxInvariance, PTL DEF Spec, DependenciesFirst

\* What a flow goes to clean up is a document.
LEMMA CleansDocuments ==
    ASSUME IInv, NEW w \in Flows, pc[w] = "cleanup"
    PROVE  /\ cur[w] \in Ops
           /\ link[cur[w]] \in Ops => Kind[link[cur[w]]] = "document"
PROOF
<1>1. cur[w] \in Ops
      BY DEF IInv, TypeOK
<1>2. link[cur[w]] \in {NoOp, Receipt[cur[w]]}
      BY <1>1 DEF IInv, LinkIsReceipt
<1>   QED BY <1>1, <1>2, OutboxAssumption

\* A row ceases to be on the device in two ways: it is settled, and then its receipt is
\* looked at next, or it is a receipt that nobody refers to.
LEMMA RowsGo ==
    ASSUME IInv, WalkInv, [Next]_vars, NEW p \in Ops, Present(p), ~Present(p)'
    PROVE  \/ \E w \in Flows : CleanupDocument(w) /\ link[cur[w]] = p
           \/ link[p] = NoOp
           \/ \E w \in Flows : pc'[w] = "cleanup" /\ cur'[w] = p
PROOF
<1>1. TypeOK /\ LinkIsReceipt /\ NoOp \notin Ops
      BY OutboxAssumption DEF IInv
<1> USE <1>1 DEF TypeOK, Statuses, deviceVars, Mark, Rewrite, Present
<1>2. CASE UNCHANGED vars
      BY <1>2 DEF vars
<1>3. ASSUME NEW o \in Ops, Queue(o) \/ StrayArrives(o) \/ StrayVanishes(o)
      PROVE  FALSE
      BY <1>3 DEF Queue, StrayArrives, StrayVanishes
<1>4. CASE Crash
      BY <1>4 DEF Crash
<1>5. ASSUME NEW w \in Flows,
             \/ StartFlow(w) \/ ServerStep(w)
             \/ ServerDenies(w) \/ ServerErrs(w) \/ ConnectionLost(w)
      PROVE  FALSE
      BY <1>5 DEF StartFlow, ServerStep, ServerCommits, ServerRefuses, ServerDenies,
                  ServerErrs, ConnectionLost
<1>6. ASSUME NEW w \in Flows, FlowStep(w), ~CleanupDocument(w)
      PROVE  link[p] = NoOp \/ (pc'[w] = "cleanup" /\ cur'[w] = p)
  <2>1. CASE ReadStage(w) \/ EndStage(w) \/ TakeItem(w) \/ ReceiptUnusable(w)
             \/ ReceiptWaiting(w) \/ Post(w) \/ CleanupThrows(w)
        BY <2>1 DEF ReadStage, EndStage, TakeItem, ReceiptUnusable, ReceiptWaiting, Post,
                    CleanupThrows
  <2>2. CASE MarkInFlight(w)
        BY <2>2 DEF MarkInFlight
  <2>3. CASE SettleDocument(w) \/ SettleSale(w)
        BY <2>3 DEF SettleDocument, SettleSale
  <2>4. CASE SettlePayment(w)
    <3>1. p = cur[w] /\ Kind[p] = "payment"
          BY <2>4 DEF SettlePayment
    <3>2. Receipt[p] = NoOp
          BY <3>1, OutboxAssumption
    <3>   QED BY <3>2 DEF LinkIsReceipt
  <2>5. CASE SettleReceiptBacked(w)
        BY <2>5 DEF SettleReceiptBacked, Goto, Continue
  <2>6. CASE SettleRefused(w) \/ SettleWaiting(w) \/ SettleError(w) \/ SettleLost(w)
        BY <2>6 DEF SettleRefused, SettleWaiting, SettleError, SettleLost
  <2>   QED BY <1>6, <2>1, <2>2, <2>3, <2>4, <2>5, <2>6 DEF FlowStep
<1>7. ASSUME NEW w \in Flows, CleanupDocument(w)
      PROVE  link[cur[w]] = p
      BY <1>7 DEF CleanupDocument
<1>   QED BY <1>2, <1>3, <1>4, <1>5, <1>6, <1>7 DEF Next

\* A flow on its way to clean up stays on it until it has done so, has found two rows that
\* refer to the receipt, or is killed.
LEMMA CleansOrLeaves ==
    ASSUME IInv, [Next]_vars, NEW w \in Flows, pc[w] = "cleanup"
    PROVE  \/ pc'[w] = "cleanup" /\ cur'[w] = cur[w]
           \/ CleanupDocument(w) \/ CleanupThrows(w)
           \/ link[cur[w]] \in leftOver'
PROOF
<1>1. TypeOK /\ (reply[w] # "none" => pc[w] \in {"posted", "decided"})
      BY DEF IInv, AcceptedIsOnServer
<1> USE <1>1 DEF TypeOK, flowVars, Goto
<1>2. CASE UNCHANGED <<pc, cur>>
      BY <1>2
<1>3. CASE Crash
      BY <1>3 DEF Crash
<1>4. ASSUME NEW v \in Flows, v # w, StartFlow(v) \/ FlowStep(v)
      PROVE  pc'[w] = "cleanup" /\ cur'[w] = cur[w]
  <2>1. CASE StartFlow(v)
        BY <1>4, <2>1 DEF StartFlow
  <2>2. CASE FlowStep(v)
        BY <1>4, <2>2, FlowsApart
  <2>   QED BY <1>4, <2>1, <2>2
<1>5. CASE StartFlow(w) \/ FlowStep(w)
      BY <1>5 DEF StartFlow, FlowStep, ReadStage, EndStage, TakeItem, MarkInFlight,
         ReceiptUnusable, ReceiptWaiting, Post, SettleDocument, SettleSale, SettlePayment,
         SettleReceiptBacked, SettleRefused, SettleWaiting, SettleError, SettleLost, Answered
<1>6. CASE UNCHANGED vars \/ (Next /\ ~Crash /\ ~\E v \in Flows : FlowStep(v) \/ StartFlow(v))
      BY <1>2, <1>6 DEF vars, Next, Queue, StrayArrives, StrayVanishes,
         ServerStep, ServerCommits, ServerRefuses, ServerDenies, ServerErrs, ConnectionLost
<1>   QED BY <1>3, <1>4, <1>5, <1>6 DEF Next

\* Documents once left over stay in the record.
LEMMA LeftOverStays ==
    ASSUME [Next]_vars
    PROVE  leftOver \subseteq leftOver'
PROOF
<1> USE DEF markVars
<1>1. CASE UNCHANGED vars
      BY <1>1 DEF vars
<1>2. CASE Next
      BY <1>2 DEF Next, FlowStep, ReadStage, EndStage, TakeItem, MarkInFlight, ReceiptUnusable,
         ReceiptWaiting, Post, SettleDocument, SettleSale, SettlePayment, SettleReceiptBacked,
         CleanupDocument, CleanupThrows, SettleRefused, SettleWaiting, SettleError, SettleLost,
         Queue, StrayArrives, StrayVanishes, Crash, StartFlow, ServerStep, ServerCommits,
         ServerRefuses, ServerDenies, ServerErrs, ConnectionLost
<1>   QED BY <1>1, <1>2

\* A receipt whose last row goes is looked at next, unless somebody is looking already.
LEMMA ReceiptStepInv ==
    ASSUME OutboxInv, NoReceiptLeft, [Next]_vars
    PROVE  NoReceiptLeft'
PROOF
<1>1. /\ IInv /\ IInv' /\ CreationInv /\ WalkInv /\ TypeOK /\ TypeOK'
      /\ NoOp \notin Ops
      BY OutboxStepInv, OutboxAssumption DEF OutboxInv, IInv
<1>2. SUFFICES ASSUME NEW o \in Ops, NEW d \in Ops,
                      row'[o] = "deleted", link'[o] = d, Present(d)'
               PROVE  \/ \E p \in Ops : Present(p)' /\ link'[p] = d
                      \/ \E w \in Flows : pc'[w] = "cleanup" /\ link'[cur'[w]] = d
                      \/ d \in leftOver'
      BY DEF NoReceiptLeft
<1>3. \A p \in Ops : row[p] # "none" => row'[p] # "none" /\ link'[p] = link[p]
      BY <1>1, RowsStay
<1>4. row[o] # "none" /\ link[o] = d
  <2>1. CASE \E p \in Ops : Queue(p)
        BY <1>1, <1>2, <1>3, <2>1 DEF Queue, TypeOK
  <2>2. CASE ~\E p \in Ops : Queue(p)
        BY <1>1, <1>2, <1>3, <2>2, RowsBorn
  <2>   QED BY <2>1, <2>2
<1>5. Present(d)
  <2>1. createdAt[d] \in 1..createdAt[o]
        BY <1>1, <1>4 DEF CreationInv
  <2>2. row[d] # "none"
        BY <1>1, <2>1 DEF CreationInv
  <2>3. row[d] = "deleted" => row'[d] = "deleted"
    <3>1. CASE \E p \in Ops : Queue(p)
          BY <1>1, <3>1 DEF Queue, TypeOK
    <3>2. CASE ~\E p \in Ops : Queue(p)
          BY <1>1, <3>2, RowsBorn
    <3>   QED BY <3>1, <3>2
  <2>   QED BY <1>2, <2>2, <2>3 DEF Present
<1>6. ASSUME NEW p \in Ops, Present(p), link[p] = d
      PROVE  \/ Present(p)' /\ link'[p] = d
             \/ \E w \in Flows : pc'[w] = "cleanup" /\ link'[cur'[w]] = d
  <2>1. link'[p] = d
        BY <1>3, <1>6 DEF Present
  <2>2. CASE Present(p)'
        BY <2>1, <2>2
  <2>3. CASE ~Present(p)'
    <3>1. ASSUME NEW w \in Flows, CleanupDocument(w), link[cur[w]] = p
          PROVE  FALSE
      <4>1. Kind[p] = "document"
            BY <1>1, <3>1, CleansDocuments DEF CleanupDocument
      <4>2. link[p] \in {NoOp, Receipt[p]}
            BY <1>1 DEF IInv, LinkIsReceipt
      <4>   QED BY <1>1, <1>6, <4>1, <4>2, OutboxAssumption
    <3>2. PICK w \in Flows : pc'[w] = "cleanup" /\ cur'[w] = p
          BY <1>1, <1>6, <2>3, <3>1, RowsGo
    <3>   QED BY <2>1, <3>2
  <2>   QED BY <2>2, <2>3
<1>7. ASSUME NEW w \in Flows, pc[w] = "cleanup", link[cur[w]] = d
      PROVE  \/ \E p \in Ops : Present(p)' /\ link'[p] = d
             \/ \E v \in Flows : pc'[v] = "cleanup" /\ link'[cur'[v]] = d
             \/ d \in leftOver'
  <2>1. cur[w] \in Ops /\ link'[cur[w]] = d
        BY <1>1, <1>3, <1>7 DEF IInv, TypeOK, TakenIsQueued
  <2>2. CASE CleanupDocument(w)
    <3>1. PICK p \in Ops : Present(p) /\ link[p] = d
      <4>1. References(d, "purchase") \cup References(d, "expense") # {}
            BY <1>1, <1>2, <1>5, <1>7, <2>2 DEF CleanupDocument, TypeOK, Present
      <4>   QED BY <4>1 DEF References
    <3>   QED BY <1>6, <3>1
  <2>3. CASE CleanupThrows(w)
    <3>1. PICK p \in Ops : Present(p) /\ link[p] = d
          BY <1>7, <2>3 DEF CleanupThrows, AmbiguousReceipt, References
    <3>   QED BY <1>6, <3>1
  <2>4. CASE pc'[w] = "cleanup" /\ cur'[w] = cur[w]
        BY <2>1, <2>4
  <2>   QED BY <1>1, <1>7, <2>2, <2>3, <2>4, CleansOrLeaves
<1>8. CASE row[o] = "deleted"
  <2>1. \/ \E p \in Ops : Present(p) /\ link[p] = d
        \/ \E w \in Flows : pc[w] = "cleanup" /\ link[cur[w]] = d
        \/ d \in leftOver
        BY <1>4, <1>5, <1>8 DEF NoReceiptLeft
  <2>   QED BY <1>6, <1>7, <2>1, LeftOverStays
<1>9. CASE row[o] # "deleted"
      BY <1>4, <1>6, <1>9 DEF Present
<1>   QED BY <1>8, <1>9

\* No receipt outlives the work it was attached to, however flows overlap, fail and throw,
\* except where the app was killed between settling a row and cleaning up after it.
THEOREM ReceiptsCleared == Spec => []NoReceiptLeft
PROOF
<1>1. Init => NoReceiptLeft
      BY DEF Init, NoReceiptLeft
<1>2. OutboxInv /\ NoReceiptLeft /\ [Next]_vars => NoReceiptLeft'
      BY ReceiptStepInv
<1>   QED BY <1>1, <1>2, OutboxInvariance, PTL DEF Spec

--------------------------------------------------------------------------------
(* OfflineOutbox implements Delivery.                                       *)

Told == [o \in Ops |-> IF Done(o) THEN "done"
                       ELSE IF row[o] = "conflict" THEN "attention" ELSE "open"]

Asked == {o \in Ops : row[o] # "none"}

\* Writing the status of one queued row is a report about one operation.
LEMMA RowReports ==
    ASSUME NEW o \in Ops, row[o] # "none", row'[o] # "none",
           \A q \in Ops \ {o} : row'[q] = row[q],
           applied' = applied, Done(o)' => o \in applied
    PROVE  Promise!Next
PROOF
<1>1. Asked' = Asked
      BY DEF Asked
<1>2. Told' = [Told EXCEPT ![o] = Told'[o]]
      BY DEF Told, Done
<1>3. PICK r \in {"open", "done", "attention"} : r = Told'[o] /\ (r = "done" => o \in applied)
      BY DEF Told
<1>4. Promise!Report(o, r)
      BY <1>1, <1>2, <1>3 DEF Promise!Report, Asked, Told
<1>   QED BY <1>3, <1>4 DEF Promise!Next, Promise!Reports

\* The books take in one queued operation, or nothing happens.
LEMMA BooksTake ==
    ASSUME NEW o \in Ops, row[o] # "none", row' = row, applied' \in {applied, applied \cup {o}}
    PROVE  [Promise!Next]_Promise!dvars
PROOF
<1>1. Asked' = Asked /\ Told' = Told
      BY DEF Asked, Told, Done
<1>2. CASE o \in applied \/ applied' = applied
      BY <1>1, <1>2 DEF Promise!dvars, Asked, Told
<1>3. CASE o \notin applied /\ applied' = applied \cup {o}
  <2>1. Promise!TakeEffect(o)
        BY <1>1, <1>3 DEF Promise!TakeEffect, Asked, Told
  <2>   QED BY <2>1 DEF Promise!Next
<1>   QED BY <1>2, <1>3

\* A step that touches neither rows nor books is invisible.
LEMMA Invisible ==
    ASSUME row' = row, applied' = applied
    PROVE  UNCHANGED Promise!dvars
PROOF BY DEF Promise!dvars, Done

LEMMA InitRefines == Init => Promise!Init
PROOF BY DEF Init, Promise!Init, Done

LEMMA StepRefines == IInv /\ IInv' /\ [Next]_vars => [Promise!Next]_Promise!dvars
PROOF
<1> SUFFICES ASSUME IInv, IInv', [Next]_vars
             PROVE  [Promise!Next]_Promise!dvars
      OBVIOUS
<1>1. TypeOK
      BY DEF IInv
<1>2. \A o \in Ops : Done(o)' => o \in applied'
      BY DEF IInv, DoneIsOnServer
<1> USE DEF deviceVars, serverVars
<1>3. CASE UNCHANGED vars
      BY <1>3, Invisible DEF vars
<1>4. ASSUME NEW o \in Ops, Queue(o)
      PROVE  [Promise!Next]_Promise!dvars
  <2>1. Asked' = Asked \cup {o} /\ o \notin Asked
        BY <1>1, <1>4 DEF Queue, Asked, TypeOK
  <2>2. Told' = Told /\ applied' = applied
        BY <1>1, <1>4 DEF Queue, Told, Done, TypeOK
  <2>3. Promise!Ask(o)
        BY <2>1, <2>2 DEF Promise!Ask, Asked, Told
  <2>   QED BY <2>3 DEF Promise!Next
<1>5. ASSUME NEW o \in Ops, StrayArrives(o)
      PROVE  [Promise!Next]_Promise!dvars
  <2>1. row[o] # "none"
        BY <1>5 DEF StrayArrives, IInv, SentWithReceipt
  <2>   QED BY <1>5, <2>1, BooksTake DEF StrayArrives
<1>6. ASSUME NEW w \in Flows, ServerCommits(w)
      PROVE  [Promise!Next]_Promise!dvars
  <2>1. cur[w] \in Ops /\ row[cur[w]] # "none"
        BY <1>6 DEF ServerCommits, Waiting, IInv, TypeOK, TakenIsQueued
  <2>   QED BY <1>6, <2>1, BooksTake DEF ServerCommits
<1>7. ASSUME NEW w \in Flows,
             \/ StartFlow(w) \/ ServerRefuses(w)
             \/ ServerDenies(w) \/ ServerErrs(w) \/ ConnectionLost(w)
      PROVE  [Promise!Next]_Promise!dvars
      BY <1>7, Invisible DEF StartFlow, ServerRefuses, ServerDenies, ServerErrs, ConnectionLost
<1>8. CASE Crash \/ \E o \in Ops : StrayVanishes(o)
      BY <1>8, Invisible DEF Crash, StrayVanishes
<1>9. ASSUME NEW w \in Flows, FlowStep(w)
      PROVE  [Promise!Next]_Promise!dvars
  <2>1. CASE ReadStage(w) \/ EndStage(w) \/ TakeItem(w) \/ ReceiptUnusable(w)
             \/ ReceiptWaiting(w) \/ Post(w) \/ CleanupThrows(w)
        BY <2>1, Invisible DEF ReadStage, EndStage, TakeItem, ReceiptUnusable, ReceiptWaiting,
           Post, CleanupThrows
  <2>2. ASSUME NEW s, s # "none", Mark(cur[w], s), applied' = applied,
               cur[w] \in Ops, row[cur[w]] # "none"
        PROVE  [Promise!Next]_Promise!dvars
    <3>1. row'[cur[w]] # "none" /\ \A q \in Ops \ {cur[w]} : row'[q] = row[q]
          BY <1>1, <2>2 DEF Mark, TypeOK
    <3>   QED BY <1>2, <2>2, <3>1, RowReports
  <2>3. CASE CleanupDocument(w)
    <3>1. CASE row' = row
          BY <2>3, <3>1, Invisible DEF CleanupDocument
    <3>2. CASE Present(link[cur[w]]) /\ row' = [row EXCEPT ![link[cur[w]]] = "deleted"]
      <4>1. CASE link[cur[w]] \in Ops
        <5>1. /\ row'[link[cur[w]]] # "none"
              /\ row[link[cur[w]]] # "none"
              /\ \A q \in Ops \ {link[cur[w]]} : row'[q] = row[q]
              BY <1>1, <3>2, <4>1 DEF TypeOK, Present
        <5>2. applied' = applied
              BY <2>3 DEF CleanupDocument
        <5>   QED BY <1>2, <4>1, <5>1, <5>2, RowReports
      <4>2. CASE link[cur[w]] \notin Ops
            BY <1>1, <2>3, <3>2, <4>2, Invisible DEF CleanupDocument, TypeOK
      <4>   QED BY <4>1, <4>2
    <3>   QED BY <2>3, <3>1, <3>2 DEF CleanupDocument
  <2>4. CASE \/ MarkInFlight(w) \/ SettleDocument(w) \/ SettleSale(w) \/ SettlePayment(w)
             \/ SettleReceiptBacked(w) \/ SettleRefused(w) \/ SettleWaiting(w)
             \/ SettleError(w) \/ SettleLost(w)
    <3>1. pc[w] \in {"mark", "posted", "decided"} /\ applied' = applied
          BY <2>4 DEF MarkInFlight, SettleDocument, SettleSale, SettlePayment, Answered,
             SettleReceiptBacked, SettleRefused, SettleWaiting, SettleError, SettleLost
    <3>2. cur[w] \in Ops /\ row[cur[w]] # "none"
          BY <3>1 DEF IInv, TypeOK, TakenIsQueued
    <3>3. \E s : s # "none" /\ Mark(cur[w], s)
          BY <2>4 DEF MarkInFlight, SettleDocument, SettleSale, SettlePayment, Rewrite,
             SettleReceiptBacked, SettleRefused, SettleWaiting, SettleError, SettleLost
    <3>   QED BY <2>2, <3>1, <3>2, <3>3
  <2>   QED BY <1>9, <2>1, <2>3, <2>4 DEF FlowStep
<1>   QED BY <1>3, <1>4, <1>5, <1>6, <1>7, <1>8, <1>9 DEF Next, ServerStep

\* The outbox does what a device promises: the books take every operation at
\* most once and only if it was recorded, and nothing recorded is dropped.
THEOREM Refinement == Spec => ImplementsDelivery
PROOF BY InitRefines, StepRefines, Invariance, PTL
      DEF Spec, ImplementsDelivery, Promise!Spec

-----------------------------------------------------------------------------
(* The projected stock                                                      *)

\* The composition takes the outbox's steps and no others.
LEMMA OutboxUnderneath == StockSpec => Spec
PROOF
<1>1. StockInit => Init
      BY DEF StockInit
<1>2. [StockNext]_allVars => [Next]_vars
      BY DEF StockNext, OutboxStep, Fetch, Replace, allVars
<1>   QED BY <1>1, <1>2, PTL DEF StockSpec, Spec

LEMMA StockInitInv == StockInit => StockInv
PROOF
<1> SUFFICES ASSUME StockInit PROVE StockInv OBVIOUS
<1>1. \A o \in Ops : row[o] = "none"
      BY DEF StockInit, Init
<1>2. applied = {}
      BY DEF StockInit, Init
<1>   QED BY <1>1, <1>2
          DEF StockInit, StockInv, StockTypeOK, ExactProjection, PendingCounted, AnswersCommitted,
              Open, Times

\* How a step may change the row of a sale or a purchase: it is recorded once, comes back
\* from nothing, and is never a document's.
LEMMA RowStep ==
    ASSUME IInv, [Next]_vars, NEW o \in Ops, Moves(o), row[o] # "uploaded"
    PROVE  /\ row'[o] # "uploaded"
           /\ \/ row'[o] = row[o]
              \/ row[o] = "none" /\ row'[o] = "pending"
              \/ row[o] \notin {"none", "deleted"} /\ row'[o] # "none"
PROOF
<1>1. TypeOK /\ Kind[o] # "document"
      BY StockAssumption DEF IInv, Moves
<1> USE <1>1 DEF TypeOK, Statuses, deviceVars, Mark, Present, Rewrite
<1>2. CASE UNCHANGED row
      BY <1>2
<1>3. ASSUME NEW p \in Ops, Queue(p)
      PROVE  row'[o] = row[o] \/ (row[o] = "none" /\ row'[o] = "pending")
      BY <1>3 DEF Queue
<1>4. ASSUME NEW w \in Flows, FlowStep(w)
      PROVE  /\ row'[o] # "uploaded"
             /\ row'[o] = row[o] \/ (row[o] \notin {"none", "deleted"} /\ row'[o] # "none")
  <2>1. CASE ReadStage(w) \/ EndStage(w) \/ TakeItem(w) \/ ReceiptUnusable(w)
             \/ ReceiptWaiting(w) \/ Post(w) \/ CleanupThrows(w)
        BY <2>1 DEF ReadStage, EndStage, TakeItem, ReceiptUnusable, ReceiptWaiting, Post,
                    CleanupThrows
  <2>2. CASE MarkInFlight(w)
        BY <2>2 DEF MarkInFlight
  <2>3. CASE SettleDocument(w) \/ SettleSale(w) \/ SettlePayment(w) \/ SettleReceiptBacked(w)
        BY <2>3 DEF SettleDocument, SettleSale, SettlePayment, SettleReceiptBacked
  <2>4. CASE CleanupDocument(w)
        BY <2>4 DEF CleanupDocument
  <2>5. CASE SettleRefused(w) \/ SettleWaiting(w) \/ SettleError(w) \/ SettleLost(w)
        BY <2>5 DEF SettleRefused, SettleWaiting, SettleError, SettleLost
  <2>   QED BY <1>4, <2>1, <2>2, <2>3, <2>4, <2>5 DEF FlowStep
<1>5. CASE UNCHANGED vars \/ (Next /\ (~\E w \in Flows : FlowStep(w)) /\ ~\E p \in Ops : Queue(p))
      BY <1>2, <1>5 DEF vars, Next, StrayArrives, StrayVanishes, Crash, StartFlow,
         ServerStep, ServerCommits, ServerRefuses, ServerDenies, ServerErrs, ConnectionLost
<1>   QED BY <1>3, <1>4, <1>5

\* The books take in queued operations only.
LEMMA BooksAreQueued ==
    ASSUME IInv, [Next]_vars, NEW o \in applied', o \notin applied
    PROVE  row[o] # "none"
PROOF
<1>1. ASSUME NEW w \in Flows, ServerCommits(w)
      PROVE  row[o] # "none"
      BY <1>1 DEF ServerCommits, Waiting, IInv, TypeOK, TakenIsQueued
<1>2. ASSUME NEW p \in Ops, StrayArrives(p)
      PROVE  row[o] # "none"
      BY <1>2 DEF StrayArrives, IInv, SentWithReceipt
<1>3. ASSUME NEW w \in Flows, FlowStep(w)
      PROVE  applied' = applied
      BY <1>3 DEF serverVars, FlowStep, ReadStage, EndStage, TakeItem, MarkInFlight,
         ReceiptUnusable, ReceiptWaiting, Post, SettleDocument, SettleSale, SettlePayment,
         SettleReceiptBacked, CleanupDocument, CleanupThrows, SettleRefused, SettleWaiting,
         SettleError, SettleLost
<1>4. CASE UNCHANGED vars
      BY <1>4 DEF vars, serverVars
<1>5. CASE Next
      BY <1>1, <1>2, <1>3, <1>5 DEF serverVars, Next, Queue, StrayVanishes, Crash, StartFlow,
         ServerStep, ServerRefuses, ServerDenies, ServerErrs, ConnectionLost
<1>   QED BY <1>4, <1>5

\* The transaction that records or refuses an operation also does or undoes its
\* lines; another flow's stale list is the only thing that makes this go wrong.
LEMMA StockOutboxStep == IInv /\ StockInv /\ OutboxStep => StockInv'
PROOF
<1> SUFFICES ASSUME IInv, StockInv, OutboxStep PROVE StockInv' OBVIOUS
<1>1. /\ counted' = [o \in Ops |-> counted[o] + Times(Inserted(o)) - Times(Refused(o))]
      /\ reopened' = reopened \cup {o \in Ops : Reopened(o)}
      /\ snapshot' = snapshot /\ crossed' = crossed
      /\ [Next]_vars /\ applied \subseteq applied'
      BY AppliedStays DEF OutboxStep, Recount
<1>2. StockTypeOK'
  <2>1. counted' \in [Ops -> Int]
        BY <1>1 DEF StockInv, StockTypeOK, Times
  <2>   QED BY <1>1, <2>1 DEF StockInv, StockTypeOK, OutboxStep
<1>3. AnswersCommitted'
  <2>1. \A r \in Refreshes : snapshot'[r] \subseteq applied'
        BY <1>1 DEF StockInv, AnswersCommitted
  <2>2. ASSUME NEW o \in Ops, o \in applied' \cup crossed' \cup reopened'
        PROVE  row'[o] # "none"
    <3>1. row[o] # "none"
          BY <1>1, <2>2, BooksAreQueued DEF StockInv, AnswersCommitted, Reopened
    <3>   QED BY <1>1, <3>1, RowsStay DEF IInv
  <2>3. ASSUME NEW o \in Ops, Moves(o)'
        PROVE  row'[o] # "uploaded"
        BY <1>1, <2>3, RowStep DEF StockInv, AnswersCommitted, Moves
  <2>   QED BY <2>1, <2>2, <2>3 DEF AnswersCommitted
<1>4. ASSUME NEW o \in Ops, Moves(o), o \notin reopened'
      PROVE  /\ o \notin crossed =>
                    CASE row'[o] = "none"     -> counted'[o] = 0
                      [] row'[o] = "conflict" -> counted'[o] \in {0, Times(o \in applied')}
                      [] OTHER                -> counted'[o] = 1
             /\ Open(o)' => counted'[o] = IF o \in crossed THEN 2 ELSE 1
  <2>1. /\ o \notin reopened /\ ~Reopened(o)
        /\ counted'[o] = counted[o] + Times(Inserted(o)) - Times(Refused(o))
        BY <1>1, <1>4
  <2>2. /\ row[o] = "none" => o \notin crossed
        /\ o \notin crossed =>
               /\ row[o] = "none" => counted[o] = 0
               /\ row[o] = "conflict" => counted[o] = 0 \/ counted[o] = Times(o \in applied)
               /\ row[o] \notin {"none", "conflict"} => counted[o] = 1
        /\ Open(o) => counted[o] = IF o \in crossed THEN 2 ELSE 1
        /\ counted[o] \in Int
        BY <1>4, <2>1 DEF StockInv, StockTypeOK, ExactProjection, PendingCounted, AnswersCommitted
  <2>3. /\ row[o] # "uploaded" /\ row[o] \in Statuses
        /\ \/ row'[o] = row[o]
           \/ row[o] = "none" /\ row'[o] = "pending"
           \/ row[o] \notin {"none", "deleted"} /\ row'[o] # "none"
        BY <1>1, <1>4, RowStep DEF StockInv, AnswersCommitted, IInv, TypeOK
  <2>4. ASSUME row'[o] = "conflict", row[o] # "conflict"
        PROVE  counted'[o] = counted[o] - 1
    <3>1. Refused(o)
          BY <1>4, <2>4 DEF Refused
    <3>2. ~Inserted(o)
          BY <2>3, <2>4 DEF Inserted
    <3>3. Times(Inserted(o)) = 0 /\ Times(Refused(o)) = 1
          BY <3>1, <3>2 DEF Times
    <3>   QED BY <2>1, <2>2, <3>3
  <2>5. row[o] = "none" /\ row'[o] # "none" /\ row'[o] # "conflict" => counted'[o] = counted[o] + 1
        BY <1>4, <2>1, <2>2 DEF Inserted, Refused, Times
  <2>6. row'[o] # "conflict" /\ row[o] # "none" => counted'[o] = counted[o]
        BY <1>4, <2>1, <2>2 DEF Inserted, Refused, Times
  <2>7. ASSUME row'[o] = row[o]
        PROVE  counted'[o] = counted[o]
    <3>1. ~Inserted(o) /\ ~Refused(o)
          BY <2>7 DEF Inserted, Refused
    <3>2. Times(Inserted(o)) = 0 /\ Times(Refused(o)) = 0
          BY <3>1 DEF Times
    <3>   QED BY <2>1, <2>2, <3>2
  <2>8. /\ row[o] = "conflict" => row'[o] = "conflict"
        /\ row[o] = "synced" => row'[o] \in {"synced", "conflict"}
        BY <1>4, <2>1 DEF Reopened
  <2>9. CASE row'[o] = "conflict"
    <3>1. row[o] # "none"
          BY <2>3, <2>9
    <3>2. CASE row[o] = "conflict"
      <4>1. Times(o \in applied) = 1 => Times(o \in applied') = 1
            BY <1>1 DEF Times
      <4>2. Times(o \in applied) \in {0, 1} /\ ~Open(o)'
            BY <2>9 DEF Times, Open
      <4>   QED BY <2>2, <2>7, <2>9, <3>2, <4>1, <4>2
    <3>3. CASE row[o] # "conflict"
          BY <2>2, <2>4, <2>9, <3>1, <3>3 DEF Open
    <3>   QED BY <3>2, <3>3
  <2>10. CASE row'[o] # "conflict" /\ row[o] = "none"
    <3>1. CASE row'[o] = "none"
          BY <2>2, <2>7, <2>10, <3>1 DEF Open
    <3>2. CASE row'[o] # "none"
          BY <2>2, <2>5, <2>10, <3>2 DEF Open
    <3>   QED BY <3>1, <3>2
  <2>11. CASE row'[o] # "conflict" /\ row[o] # "none"
    <3>1. row'[o] # "none" /\ row[o] # "conflict" /\ counted'[o] = counted[o]
          BY <2>3, <2>6, <2>8, <2>11
    <3>2. Open(o)' => Open(o)
          BY <1>4, <2>3, <2>8, <2>11 DEF Open, Moves, Statuses
    <3>   QED BY <2>2, <2>11, <3>1, <3>2
  <2>   QED BY <2>9, <2>10, <2>11
<1>5. ExactProjection' /\ PendingCounted'
      BY <1>1, <1>4 DEF ExactProjection, PendingCounted, Moves, Open
<1>   QED BY <1>2, <1>3, <1>5 DEF StockInv

\* A refresh starts the count anew from the answer.
LEMMA RefreshInv ==
    ASSUME IInv, StockInv, NEW r \in Refreshes, Fetch(r) \/ Replace(r)
    PROVE  StockInv'
PROOF
<1>1. UNCHANGED <<row, applied>> /\ applied \subseteq Ops
      BY DEF Fetch, Replace, vars, deviceVars, serverVars, IInv, TypeOK
<1>2. CASE Fetch(r)
  <2>1. /\ UNCHANGED <<counted, crossed, reopened>>
        /\ fetching' = fetching \cup {r}
        /\ snapshot' = [snapshot EXCEPT ![r] = {o \in applied : Moves(o)}]
        BY <1>2 DEF Fetch
  <2>2. StockTypeOK'
        BY <1>1, <2>1 DEF StockInv, StockTypeOK
  <2>3. AnswersCommitted'
        BY <1>1, <2>1 DEF StockInv, StockTypeOK, AnswersCommitted, Moves
  <2>4. ExactProjection' /\ PendingCounted'
        BY <1>1, <2>1 DEF StockInv, ExactProjection, PendingCounted, Open, Moves, Times
  <2>   QED BY <2>2, <2>3, <2>4 DEF StockInv
<1>3. CASE Replace(r)
  <2>1. /\ snapshot' = snapshot /\ reopened' = {}
        /\ snapshot[r] \subseteq applied
        /\ \A o \in Ops : o \in applied => row[o] # "none"
        /\ \A o \in Ops : /\ Moves(o) => row[o] # "uploaded"
                          /\ row[o] \in Statuses
        BY <1>3 DEF Replace, StockInv, AnswersCommitted, IInv, TypeOK
  <2>2. ASSUME NEW o \in Ops
        PROVE  /\ counted'[o] = Times(o \in snapshot[r]) + Times(Open(o))
               /\ o \in crossed' <=> \/ o \in snapshot[r] /\ Open(o)
                                     \/ o \notin snapshot[r] /\ Moves(o)
                                         /\ row[o] \in {"synced", "deleted"}
        BY <1>3 DEF Replace, Active, Open
  <2>3. StockTypeOK'
        BY <1>3 DEF Replace, StockInv, StockTypeOK, Times
  <2>4. AnswersCommitted'
    <3>1. \A o \in Ops : o \in crossed' => row[o] # "none"
          BY <2>2 DEF Open
    <3>   QED BY <1>1, <2>1, <3>1 DEF StockInv, AnswersCommitted, Moves
  <2>5. ASSUME NEW o \in Ops, Moves(o)
        PROVE  /\ o \notin crossed' =>
                      CASE row[o] = "none"     -> counted'[o] = 0
                        [] row[o] = "conflict" -> counted'[o] \in {0, Times(o \in applied)}
                        [] OTHER               -> counted'[o] = 1
               /\ Open(o) => counted'[o] = IF o \in crossed' THEN 2 ELSE 1
    <3>1. CASE Open(o)
          BY <2>2, <2>5, <3>1 DEF Open, Times
    <3>2. CASE row[o] = "none"
          BY <2>1, <2>2, <2>5, <3>2 DEF Open, Times
    <3>3. CASE row[o] = "conflict"
          BY <2>1, <2>2, <2>5, <3>3 DEF Open, Times
    <3>4. CASE row[o] \in {"synced", "deleted"}
          BY <2>2, <2>5, <3>4 DEF Open, Times
    <3>   QED BY <2>1, <2>5, <3>1, <3>2, <3>3, <3>4 DEF Open, Statuses
  <2>6. ExactProjection' /\ PendingCounted'
        BY <1>1, <2>1, <2>5 DEF ExactProjection, PendingCounted, Open, Moves
  <2>   QED BY <2>3, <2>4, <2>6 DEF StockInv
<1>   QED BY <1>2, <1>3

LEMMA StockStepInv == IInv /\ StockInv /\ [StockNext]_allVars => StockInv'
PROOF
<1> SUFFICES ASSUME IInv, StockInv, [StockNext]_allVars PROVE StockInv' OBVIOUS
<1>1. CASE UNCHANGED allVars
      BY <1>1 DEF allVars, vars, stockVars, deviceVars, serverVars, StockInv, StockTypeOK,
                  ExactProjection, PendingCounted, AnswersCommitted, Open, Moves, Times
<1>2. CASE OutboxStep
      BY <1>2, StockOutboxStep
<1>3. CASE \E r \in Refreshes : Fetch(r) \/ Replace(r)
      BY <1>3, RefreshInv
<1>   QED BY <1>1, <1>2, <1>3 DEF StockNext

\* The strengthened invariant of the projected stock holds in every reachable
\* state, however flushes and refreshes overlap.
THEOREM StockInvariance == StockSpec => []StockInv
PROOF
<1>1. StockSpec => []IInv
      BY OutboxUnderneath, Invariance, PTL
<1>2. IInv /\ StockInv /\ [StockNext]_allVars => StockInv'
      BY StockStepInv
<1>   QED BY <1>1, <1>2, StockInitInv, PTL DEF StockSpec

\* The cached number has each operation in it exactly once, and refused ones not at all,
\* save for what crossed the last refresh and what another flow has written again since:
\* for any number of flushes and refreshes, and whatever is refused, lost or crashes.
THEOREM ProjectionExact == StockSpec => []ExactProjection
PROOF BY StockInvariance, PTL DEF StockInv

\* No refresh, however it interleaves with flushes, loses the lines of pending work, and
\* one that crosses a settlement counts them exactly twice.
THEOREM PendingIsCounted == StockSpec => []PendingCounted
PROOF BY StockInvariance, PTL DEF StockInv

-----------------------------------------------------------------------------
(* The events a device hears of                                             *)

\* A row that is in the hands of a worker is not published, and in no other hands: what
\* FOR UPDATE SKIP LOCKED is for (workers/outbox.py:19).
HandsInv ==
    /\ \A w \in Workers, e \in Events : e \in InHand(w) => event[e] \in {"new", "failed"}
    /\ \A w \in Workers, e \in Events : e \in batch[w] => e \notin DOMAIN handled[w]
    /\ \A v, w \in Workers, e \in Events : e \in InHand(v) /\ e \in InHand(w) => v = w

\* Redis has it and nobody will ask again, unless the worker dies
Settled(e) ==
    \/ event[e] = "published"
    \/ \E w \in Workers : e \in DOMAIN handled[w] /\ handled[w][e] = "published"

RepeatInv == \A e \in Events : sent[e] <= faults + (IF Settled(e) THEN 1 ELSE 0)

\* A broadcast that no change of the sockets has disturbed goes over those it began with,
\* and has left out only sockets that were broken.
BroadcastInv ==
    /\ ~listening => broadcast = None /\ inbox = <<>>
    /\ broadcast # None =>
          /\ broadcast.visited \subseteq broadcast.got \cup broadcast.stale
          /\ \A s \in broadcast.stale : socket[s] \in {"broken", "closed"}
          /\ ~broadcast.moved => Connected = broadcast.base /\ ~broadcast.popped

RelayInv == RelayTypeOK /\ HandsInv /\ RepeatInv /\ BroadcastInv

LEMMA RelayStart == RelayInit => RelayInv
PROOF
<1> SUFFICES ASSUME RelayInit PROVE RelayInv
    OBVIOUS
<1>1. RelayTypeOK
  <2>1. \A w \in Workers : DOMAIN handled[w] = {} /\ batch[w] = {}
        BY DEF RelayInit
  <2>2. broadcast \in Broadcast
        BY DEF RelayInit, None, Broadcast
  <2>   QED BY <2>1, <2>2, RelayAssumption DEF RelayInit, RelayTypeOK
<1>2. HandsInv
      BY DEF RelayInit, HandsInv, InHand
<1>3. RepeatInv
  <2>1. \A e \in Events : sent[e] = 0 /\ faults = 0
        BY DEF RelayInit
  <2>   QED BY <2>1 DEF RepeatInv
<1>4. BroadcastInv
      BY DEF RelayInit, BroadcastInv
<1>   QED BY <1>1, <1>2, <1>3, <1>4 DEF RelayInv

\* What a worker does to a row it handles.
LEMMA HandleMoves ==
    ASSUME RelayTypeOK, HandsInv, NEW w \in Workers, NEW e \in Events,
           NEW outcome \in {"failed", "published"}, Handle(w, e, outcome)
    PROVE  /\ batch' \in [Workers -> SUBSET Events] /\ DOMAIN handled' = Workers
           /\ batch'[w] = batch[w] \ {e} /\ e \in batch[w]
           /\ DOMAIN handled'[w] = DOMAIN handled[w] \cup {e}
           /\ handled'[w][e] = outcome
           /\ \A d \in DOMAIN handled[w] : d # e /\ handled'[w][d] = handled[w][d]
           /\ \A v \in Workers : v # w => batch'[v] = batch[v] /\ handled'[v] = handled[v]
           /\ \A v \in Workers : InHand(v)' = InHand(v)
PROOF
<1>1. /\ batch' = [batch EXCEPT ![w] = @ \ {e}] /\ e \in batch[w]
      /\ handled' = [handled EXCEPT ![w] =
                        [d \in DOMAIN @ \cup {e} |-> IF d = e THEN outcome ELSE @[d]]]
      BY DEF Handle
<1>2. batch \in [Workers -> SUBSET Events] /\ DOMAIN handled = Workers
      BY DEF RelayTypeOK
<1>3. e \notin DOMAIN handled[w]
      BY <1>1 DEF HandsInv
<1>4. handled'[w] = [d \in DOMAIN handled[w] \cup {e} |-> IF d = e THEN outcome ELSE handled[w][d]]
      BY <1>1, <1>2
<1>5. /\ DOMAIN handled'[w] = DOMAIN handled[w] \cup {e}
      /\ handled'[w][e] = outcome
      /\ \A d \in DOMAIN handled[w] : d # e => handled'[w][d] = handled[w][d]
      BY <1>4
<1>6. /\ batch' \in [Workers -> SUBSET Events] /\ DOMAIN handled' = Workers
      /\ batch'[w] = batch[w] \ {e}
      /\ \A v \in Workers : v # w => batch'[v] = batch[v] /\ handled'[v] = handled[v]
      BY <1>1, <1>2
<1>7. \A v \in Workers : InHand(v)' = InHand(v)
      BY <1>1, <1>5, <1>6 DEF InHand
<1>   QED BY <1>1, <1>3, <1>5, <1>6, <1>7

LEMMA BroadcastFields ==
    ASSUME NEW b \in Broadcast, NEW U \in SUBSET Sockets, NEW V \in SUBSET Sockets
    PROVE  /\ [b EXCEPT !.visited = U, !.got = V] \in Broadcast
           /\ [b EXCEPT !.visited = U, !.stale = V] \in Broadcast
           /\ b.visited \in SUBSET Sockets /\ b.got \in SUBSET Sockets /\ b.stale \in SUBSET Sockets
PROOF BY DEF Broadcast

LEMMA RelayTypeStep ==
    ASSUME RelayTypeOK, HandsInv, BroadcastInv, [RelayNext]_relayVars
    PROVE  RelayTypeOK'
PROOF
<1> USE DEF RelayTypeOK
<1>1. CASE UNCHANGED relayVars
      BY <1>1 DEF relayVars, queue, relay
<1>2. ASSUME NEW e \in Events, CommitEvent(e)
      PROVE  RelayTypeOK'
      BY <1>2 DEF CommitEvent, relay
<1>3. ASSUME NEW w \in Workers, Claim(w)
      PROVE  RelayTypeOK'
  <2>1. Oldest(Claimable) \subseteq Events
        BY DEF Oldest, Claimable, Unpublished
  <2>   QED BY <1>3, <2>1 DEF Claim, relay
<1>4. ASSUME NEW e \in Events, Deliver(e), UNCHANGED listening
      PROVE  sent' \in [Events -> Nat] /\ inbox' \in Seq(Events)
      BY <1>4 DEF Deliver
<1>5. ASSUME NEW w \in Workers, NEW e \in Events, NEW outcome \in {"failed", "published"},
             Handle(w, e, outcome), UNCHANGED event
      PROVE  /\ batch' \in [Workers -> SUBSET Events] /\ DOMAIN handled' = Workers
             /\ \A v \in Workers :
                   /\ DOMAIN handled'[v] \subseteq Events
                   /\ \A d \in DOMAIN handled'[v] : handled'[v][d] \in {"failed", "published"}
  <2>1. ASSUME NEW v \in Workers
        PROVE  /\ DOMAIN handled'[v] \subseteq Events
               /\ \A d \in DOMAIN handled'[v] : handled'[v][d] \in {"failed", "published"}
    <3>1. v = w \/ (v # w /\ handled'[v] = handled[v])
          BY <1>5, HandleMoves
    <3>2. /\ DOMAIN handled'[w] = DOMAIN handled[w] \cup {e} /\ handled'[w][e] = outcome
          /\ \A d \in DOMAIN handled[w] : handled'[w][d] = handled[w][d]
          BY <1>5, HandleMoves
    <3>3. CASE v = w
      <4>1. DOMAIN handled[w] \subseteq Events /\ e \in Events
            OBVIOUS
      <4>   QED BY <3>2, <3>3, <4>1
    <3>4. CASE v # w
          BY <3>1, <3>4
    <3>   QED BY <3>3, <3>4
  <2>   QED BY <1>5, <2>1, HandleMoves
<1>6. ASSUME NEW w \in Workers, Publish(w)
      PROVE  RelayTypeOK'
  <2>1. PICK e \in batch[w] : Handle(w, e, "published") /\ Deliver(e)
        BY <1>6 DEF Publish
  <2>2. e \in Events /\ UNCHANGED <<event, faults, listening, broadcast, socket>>
        BY <1>6 DEF Publish
  <2>   QED BY <1>4, <1>5, <2>1, <2>2
<1>7. ASSUME NEW w \in Workers, PublishFails(w)
      PROVE  RelayTypeOK'
  <2>1. PICK e \in batch[w] : Handle(w, e, "failed") /\ (UNCHANGED <<sent, inbox>> \/ Deliver(e))
        BY <1>7 DEF PublishFails
  <2>2. e \in Events /\ UNCHANGED <<event, listening, broadcast, socket>>
        BY <1>7 DEF PublishFails
  <2>3. faults' \in 0..RelayFaults
        BY <1>7, RelayAssumption DEF PublishFails
  <2>   QED BY <1>4, <1>5, <2>1, <2>2, <2>3
<1>8. ASSUME NEW w \in Workers, LetGo(w)
      PROVE  /\ batch' \in [Workers -> SUBSET Events] /\ DOMAIN handled' = Workers
             /\ \A v \in Workers :
                   /\ DOMAIN handled'[v] \subseteq Events
                   /\ \A d \in DOMAIN handled'[v] : handled'[v][d] \in {"failed", "published"}
      BY <1>8 DEF LetGo
<1>9. ASSUME NEW w \in Workers, CommitBatch(w)
      PROVE  RelayTypeOK'
  <2>1. /\ event' = [e \in Events |-> IF e \in DOMAIN handled[w] THEN handled[w][e] ELSE event[e]]
        /\ LetGo(w) /\ UNCHANGED <<sent, faults, relay>>
        BY <1>9 DEF CommitBatch
  <2>2. event' \in [Events -> {"none", "new", "failed", "published"}]
        BY <2>1
  <2>   QED BY <1>8, <2>1, <2>2 DEF relay
<1>10. ASSUME NEW w \in Workers, CrashWorker(w)
       PROVE  RelayTypeOK'
  <2>1. LetGo(w) /\ UNCHANGED <<event, sent, relay>>
        BY <1>10 DEF CrashWorker
  <2>2. faults' \in 0..RelayFaults
        BY <1>10, RelayAssumption DEF CrashWorker
  <2>   QED BY <1>8, <2>1, <2>2 DEF relay
<1>11. ASSUME NEW s \in Sockets, Admit(s) \/ Break(s)
       PROVE  RelayTypeOK'
  <2>1. \E what \in {"admitted", "refused", "broken"} : socket' = [socket EXCEPT ![s] = what]
        BY <1>11 DEF Admit, Break
  <2>2. UNCHANGED <<queue, sent, faults, listening, inbox, broadcast>>
        BY <1>11 DEF Admit, Break
  <2>3. socket' \in [Sockets -> {"away", "refused", "admitted", "open", "broken", "closed"}]
        BY <2>1
  <2>   QED BY <2>2, <2>3 DEF queue
<1>12. Disturb => broadcast' \in Broadcast
       BY DEF Disturb, None, Broadcast
<1>13. ASSUME NEW s \in Sockets, Connect(s) \/ Disconnect(s)
       PROVE  RelayTypeOK'
       BY <1>12, <1>13 DEF Connect, Disconnect, queue
<1>14. ASSUME NEW s \in Sockets, Send(s)
       PROVE  RelayTypeOK'
  <2> DEFINE U == broadcast.visited \cup {s}
  <2>1. \/ broadcast' = [broadcast EXCEPT !.visited = U, !.got = broadcast.got \cup {s}]
        \/ broadcast' = [broadcast EXCEPT !.visited = U, !.stale = broadcast.stale \cup {s}]
        BY <1>14 DEF Send
  <2>2. UNCHANGED <<queue, sent, faults, listening, inbox, socket>>
        BY <1>14 DEF Send
  <2>3. broadcast \in Broadcast
        OBVIOUS
  <2>4. broadcast' \in Broadcast
    <3>1. /\ U \in SUBSET Sockets /\ broadcast.got \cup {s} \in SUBSET Sockets
          /\ broadcast.stale \cup {s} \in SUBSET Sockets
          BY <2>3, BroadcastFields
    <3>   HIDE DEF U
    <3>2. /\ [broadcast EXCEPT !.visited = U, !.got = broadcast.got \cup {s}] \in Broadcast
          /\ [broadcast EXCEPT !.visited = U, !.stale = broadcast.stale \cup {s}] \in Broadcast
          BY <2>3, <3>1, BroadcastFields, Zenon
    <3>   QED BY <2>1, <3>2
  <2>   QED BY <2>2, <2>4 DEF queue
<1>15. CASE StartBroadcast
  <2>1. Head(inbox) \in Events /\ Tail(inbox) \in Seq(Events) /\ Connected \subseteq Sockets
        BY <1>15 DEF StartBroadcast, Connected
  <2>   QED BY <1>15, <2>1 DEF StartBroadcast, None, Broadcast, queue
<1>16. CASE FinishBroadcast
       BY <1>16 DEF FinishBroadcast, None, Broadcast, queue
<1>17. CASE StopListening
  <2>1. /\ listening' = FALSE /\ inbox' = <<>> /\ broadcast' = None
        /\ UNCHANGED <<queue, sent, faults, socket>>
        BY <1>17 DEF StopListening
  <2>2. inbox' \in Seq(Events)
        BY <2>1
  <2>3. broadcast' \in Broadcast
        BY <2>1 DEF None, Broadcast
  <2>   QED BY <2>1, <2>2, <2>3 DEF queue
<1>18. CASE RestartApi
       BY <1>18 DEF RestartApi, queue
<1>19. CASE LoseRedis
  <2>1. inbox' \in Seq(Events)
        BY <1>19 DEF LoseRedis
  <2>   QED BY <1>19, <2>1 DEF LoseRedis, queue
<1>   QED BY <1>1, <1>2, <1>3, <1>6, <1>7, <1>9, <1>10, <1>11, <1>13, <1>14, <1>15, <1>16,
             <1>17, <1>18, <1>19
          DEF RelayNext, Work

\* What concerns the rows, and what concerns the sockets alone.
QueueStep == (\E e \in Events : CommitEvent(e)) \/ (\E w \in Workers : Work(w) \/ CrashWorker(w))
SocketStep ==
    \/ \E s \in Sockets : Admit(s) \/ Connect(s) \/ Break(s) \/ Disconnect(s) \/ Send(s)
    \/ StartBroadcast \/ FinishBroadcast \/ StopListening \/ LoseRedis \/ RestartApi

LEMMA SocketStepQueue == SocketStep => UNCHANGED <<event, batch, handled, sent, faults>>
PROOF BY DEF SocketStep, queue, Admit, Connect, Break, Disconnect, Send, StartBroadcast,
             FinishBroadcast, StopListening, LoseRedis, RestartApi

LEMMA HandsStep ==
    ASSUME RelayTypeOK, HandsInv, [RelayNext]_relayVars
    PROVE  HandsInv'
PROOF
<1>1. CASE UNCHANGED <<event, batch, handled>>
      BY <1>1 DEF HandsInv, InHand
<1>2. ASSUME NEW x \in Events, CommitEvent(x)
      PROVE  HandsInv'
  <2>1. /\ UNCHANGED <<batch, handled>> /\ event[x] = "none"
        /\ \A e \in Events : e # x => event'[e] = event[e]
        BY <1>2 DEF CommitEvent, RelayTypeOK
  <2>2. \A w \in Workers : x \notin InHand(w)
        BY <2>1 DEF HandsInv
  <2>   QED BY <2>1, <2>2 DEF HandsInv, InHand
<1>3. ASSUME NEW u \in Workers, Claim(u)
      PROVE  HandsInv'
  <2>1. /\ UNCHANGED <<event, handled>> /\ InHand(u) = {} /\ batch'[u] = Oldest(Claimable)
        /\ \A w \in Workers : w # u => batch'[w] = batch[w]
        BY <1>3 DEF Claim, RelayTypeOK
  <2>2. /\ InHand(u)' = Oldest(Claimable) /\ DOMAIN handled[u] = {}
        /\ \A w \in Workers : w # u => InHand(w)' = InHand(w)
        BY <2>1 DEF InHand
  <2>3. \A e \in Oldest(Claimable) : event[e] \in {"new", "failed"}
                                     /\ \A w \in Workers : e \notin InHand(w)
        BY DEF Oldest, Claimable, Unpublished
  <2>   QED BY <2>1, <2>2, <2>3 DEF HandsInv
<1>4. ASSUME NEW u \in Workers, NEW x \in Events, NEW outcome \in {"failed", "published"},
             Handle(u, x, outcome), UNCHANGED event
      PROVE  HandsInv'
  <2>1. /\ batch'[u] = batch[u] \ {x} /\ DOMAIN handled'[u] = DOMAIN handled[u] \cup {x}
        /\ \A v \in Workers : v # u => batch'[v] = batch[v] /\ handled'[v] = handled[v]
        /\ \A v \in Workers : InHand(v)' = InHand(v)
        BY <1>4, HandleMoves
  <2>2. ASSUME NEW w \in Workers, NEW e \in Events, e \in batch'[w]
        PROVE  e \notin DOMAIN handled'[w]
    <3>1. CASE w = u
          BY <2>1, <2>2, <3>1 DEF HandsInv
    <3>2. CASE w # u
          BY <2>1, <2>2, <3>2 DEF HandsInv
    <3>   QED BY <3>1, <3>2
  <2>   QED BY <1>4, <2>1, <2>2 DEF HandsInv
<1>5. ASSUME NEW u \in Workers, LetGo(u)
      PROVE  /\ InHand(u)' = {} /\ batch'[u] = {}
             /\ \A v \in Workers : v # u => /\ batch'[v] = batch[v] /\ handled'[v] = handled[v]
                                            /\ InHand(v)' = InHand(v)
      BY <1>5 DEF LetGo, RelayTypeOK, InHand
<1>6. ASSUME NEW u \in Workers, CommitBatch(u)
      PROVE  HandsInv'
  <2>1. /\ LetGo(u)
        /\ \A e \in Events : e \notin DOMAIN handled[u] => event'[e] = event[e]
        BY <1>6 DEF CommitBatch
  <2>2. ASSUME NEW w \in Workers, NEW e \in Events, e \in InHand(w)'
        PROVE  w # u /\ e \in InHand(w) /\ event'[e] = event[e]
    <3>1. w # u /\ e \in InHand(w)
          BY <1>5, <2>1, <2>2
    <3>2. e \notin DOMAIN handled[u]
          BY <3>1 DEF HandsInv, InHand
    <3>   QED BY <2>1, <3>1, <3>2
  <2>   QED BY <1>5, <2>1, <2>2 DEF HandsInv, InHand
<1>7. ASSUME NEW u \in Workers, CrashWorker(u)
      PROVE  HandsInv'
  <2>1. LetGo(u) /\ UNCHANGED event
        BY <1>7 DEF CrashWorker
  <2>   QED BY <1>5, <2>1 DEF HandsInv, InHand
<1>8. ASSUME NEW w \in Workers, Publish(w) \/ PublishFails(w)
      PROVE  HandsInv'
  <2>1. /\ UNCHANGED event
        /\ \E e \in batch[w], outcome \in {"failed", "published"} : Handle(w, e, outcome)
        BY <1>8 DEF Publish, PublishFails
  <2>   QED BY <1>4, <2>1 DEF RelayTypeOK
<1>9. CASE SocketStep
      BY <1>1, <1>9, SocketStepQueue
<1>10. CASE UNCHANGED relayVars
      BY <1>1, <1>10 DEF relayVars, queue
<1>   QED BY <1>2, <1>3, <1>6, <1>7, <1>8, <1>9, <1>10 DEF RelayNext, SocketStep, Work

LEMMA RepeatStep ==
    ASSUME RelayTypeOK, HandsInv, RepeatInv, [RelayNext]_relayVars
    PROVE  RepeatInv'
PROOF
<1>0. \A e \in Events : sent[e] \in Nat /\ faults \in Nat
  <2>1. faults \in 0..RelayFaults /\ RelayFaults \in Nat
        BY RelayAssumption DEF RelayTypeOK
  <2>2. faults \in Nat
        BY <2>1
  <2>3. sent \in [Events -> Nat]
        BY DEF RelayTypeOK
  <2>   QED BY <2>2, <2>3
<1>1. CASE UNCHANGED <<event, batch, handled, sent, faults>>
      BY <1>1 DEF RepeatInv, Settled
<1>2. ASSUME NEW x \in Events, CommitEvent(x)
      PROVE  RepeatInv'
  <2>1. /\ UNCHANGED <<batch, handled, sent, faults>> /\ event[x] = "none"
        /\ \A e \in Events : e # x => event'[e] = event[e]
        BY <1>2 DEF CommitEvent, RelayTypeOK
  <2>2. \A e \in Events : Settled(e) => Settled(e)'
        BY <2>1 DEF Settled
  <2>   QED BY <1>0, <2>1, <2>2 DEF RepeatInv
<1>3. ASSUME NEW u \in Workers, Claim(u)
      PROVE  RepeatInv'
      BY <1>3 DEF Claim, RepeatInv, Settled
\* nobody else has the row that is handled, and it is not published
<1>4. ASSUME NEW u \in Workers, NEW x \in Events, NEW outcome \in {"failed", "published"},
             Handle(u, x, outcome), UNCHANGED event
      PROVE  /\ ~Settled(x) /\ (outcome = "published" => Settled(x)')
             /\ \A e \in Events : e # x /\ Settled(e) => Settled(e)'
  <2>1. /\ x \in batch[u] /\ x \in DOMAIN handled'[u] /\ handled'[u][x] = outcome
        /\ \A e \in DOMAIN handled[u] : e \in DOMAIN handled'[u] /\ handled'[u][e] = handled[u][e]
        /\ \A v \in Workers : v # u => handled'[v] = handled[v]
        BY <1>4, HandleMoves
  <2>2. event[x] # "published" /\ \A v \in Workers : x \notin DOMAIN handled[v]
    <3>1. x \in InHand(u)
          BY <2>1 DEF InHand
    <3>2. ASSUME NEW v \in Workers, x \in DOMAIN handled[v]
          PROVE  FALSE
      <4>1. x \in InHand(v)
            BY <3>2 DEF InHand
      <4>2. v = u
            BY <3>1, <4>1 DEF HandsInv
      <4>   QED BY <2>1, <3>2, <4>2 DEF HandsInv
    <3>   QED BY <3>1, <3>2 DEF HandsInv
  <2>3. ~Settled(x)
        BY <2>2 DEF Settled
  <2>4. outcome = "published" => Settled(x)'
        BY <2>1 DEF Settled
  <2>5. ASSUME NEW e \in Events, e # x, Settled(e)
        PROVE  Settled(e)'
    <3>1. CASE event[e] = "published"
          BY <1>4, <3>1 DEF Settled
    <3>2. ASSUME NEW v \in Workers, e \in DOMAIN handled[v], handled[v][e] = "published"
          PROVE  Settled(e)'
      <4>1. e \in DOMAIN handled'[v] /\ handled'[v][e] = "published"
            BY <2>1, <3>2
      <4>   QED BY <4>1 DEF Settled
    <3>   QED BY <2>5, <3>1, <3>2 DEF Settled
  <2>   QED BY <2>3, <2>4, <2>5
<1>5. ASSUME NEW x \in Events, Deliver(x)
      PROVE  sent'[x] = sent[x] + 1 /\ \A e \in Events : e # x => sent'[e] = sent[e]
      BY <1>5 DEF Deliver, RelayTypeOK
<1>6. ASSUME NEW u \in Workers, Publish(u)
      PROVE  RepeatInv'
  <2>1. PICK x \in batch[u] : Handle(u, x, "published") /\ Deliver(x)
        BY <1>6 DEF Publish
  <2>2. x \in Events /\ UNCHANGED <<event, faults>>
        BY <1>6 DEF Publish, RelayTypeOK
  <2>3. ~Settled(x) /\ Settled(x)' /\ \A e \in Events : e # x /\ Settled(e) => Settled(e)'
        BY <1>4, <2>1, <2>2
  <2>4. sent'[x] = sent[x] + 1 /\ \A e \in Events : e # x => sent'[e] = sent[e]
        BY <1>5, <2>1, <2>2
  <2>   QED BY <1>0, <2>2, <2>3, <2>4 DEF RepeatInv
<1>7. ASSUME NEW u \in Workers, PublishFails(u)
      PROVE  RepeatInv'
  <2>1. PICK x \in batch[u] : Handle(u, x, "failed") /\ (UNCHANGED <<sent, inbox>> \/ Deliver(x))
        BY <1>7 DEF PublishFails
  <2>2. x \in Events /\ UNCHANGED event /\ faults' = faults + 1
        BY <1>7 DEF PublishFails, RelayTypeOK
  <2>3. ~Settled(x) /\ \A e \in Events : e # x /\ Settled(e) => Settled(e)'
        BY <1>4, <2>1, <2>2
  <2>4. /\ sent'[x] \in {sent[x], sent[x] + 1}
        /\ \A e \in Events : e # x => sent'[e] = sent[e]
        BY <1>5, <2>1, <2>2
  <2>   QED BY <1>0, <2>2, <2>3, <2>4 DEF RepeatInv
<1>8. ASSUME NEW u \in Workers, CommitBatch(u)
      PROVE  RepeatInv'
  <2>1. /\ event' = [e \in Events |-> IF e \in DOMAIN handled[u] THEN handled[u][e] ELSE event[e]]
        /\ LetGo(u) /\ UNCHANGED <<sent, faults>>
        BY <1>8 DEF CommitBatch
  <2>2. \A v \in Workers : v # u => handled'[v] = handled[v]
        BY <2>1 DEF LetGo, RelayTypeOK
  <2>3. ASSUME NEW e \in Events, Settled(e)
        PROVE  Settled(e)'
    <3>1. CASE event[e] = "published"
      <4>1. e \notin DOMAIN handled[u]
            BY <3>1 DEF HandsInv, InHand
      <4>   QED BY <2>1, <3>1, <4>1 DEF Settled
    <3>2. ASSUME NEW v \in Workers, e \in DOMAIN handled[v], handled[v][e] = "published"
          PROVE  Settled(e)'
      <4>1. CASE v = u
            BY <2>1, <3>2, <4>1 DEF Settled
      <4>2. CASE v # u
            BY <2>2, <3>2, <4>2 DEF Settled
      <4>   QED BY <4>1, <4>2
    <3>   QED BY <2>3, <3>1, <3>2 DEF Settled
  <2>   QED BY <1>0, <2>1, <2>3 DEF RepeatInv
<1>9. ASSUME NEW u \in Workers, CrashWorker(u)
      PROVE  RepeatInv'
  <2>1. UNCHANGED sent /\ faults' = faults + 1
        BY <1>9 DEF CrashWorker
  <2>   QED BY <1>0, <2>1 DEF RepeatInv
<1>10. CASE SocketStep
       BY <1>1, <1>10, SocketStepQueue
<1>11. CASE UNCHANGED relayVars
       BY <1>1, <1>11 DEF relayVars, queue
<1>   QED BY <1>2, <1>3, <1>6, <1>7, <1>8, <1>9, <1>10, <1>11 DEF RelayNext, SocketStep, Work

\* What a step does to a broadcast that goes on: it reaches one more socket, it is
\* disturbed, or a device's connection breaks unnoticed.
Reaches(s) ==
    /\ s \in Connected
    /\ \/ socket[s] = "open"
          /\ broadcast' = [broadcast EXCEPT !.visited = @ \cup {s}, !.got = @ \cup {s}]
       \/ socket[s] = "broken"
          /\ broadcast' = [broadcast EXCEPT !.visited = @ \cup {s}, !.stale = @ \cup {s}]
    /\ UNCHANGED <<listening, inbox, socket>>

LEMMA SendSends == ASSUME NEW s \in Sockets, Send(s) PROVE Reaches(s)
PROOF
<1>1. CASE socket[s] = "open"
      BY <1>1 DEF Send, Reaches
<1>2. CASE socket[s] # "open"
  <2>1. socket[s] = "broken"
        BY <1>2 DEF Send, Connected
  <2>   QED BY <1>2, <2>1 DEF Send, Reaches
<1>   QED BY <1>1, <1>2

LEMMA QueueStepSockets ==
    QueueStep => /\ UNCHANGED <<listening, broadcast, socket>>
                 /\ ~listening => inbox' = inbox
PROOF BY DEF QueueStep, Work, CommitEvent, Claim, Publish, PublishFails, CommitBatch, CrashWorker,
             Deliver, relay

\* c is the broadcast b once the set of sockets has changed under it
Disturbed(b, c) == c.visited = b.visited /\ c.got = b.got /\ c.stale = b.stale /\ c.moved

LEMMA DisturbMoves ==
    ASSUME broadcast \in Broadcast, broadcast # None, Disturb
    PROVE  broadcast' # None /\ Disturbed(broadcast, broadcast')
PROOF
<1>1. \E p : broadcast' = [broadcast EXCEPT !.moved = TRUE, !.popped = p]
      BY DEF Disturb
<1>2. broadcast'.moved = TRUE /\ Disturbed(broadcast, broadcast')
      BY <1>1 DEF Broadcast, Disturbed
<1>3. None.moved = FALSE
      BY DEF None
<1>   QED BY <1>2, <1>3

LEMMA BroadcastStep ==
    ASSUME RelayTypeOK, BroadcastInv, [RelayNext]_relayVars
    PROVE  BroadcastInv'
PROOF
<1>0. broadcast \in Broadcast
      BY DEF RelayTypeOK
<1>1. CASE UNCHANGED <<listening, broadcast, socket>> /\ (~listening => inbox' = inbox)
      BY <1>1 DEF BroadcastInv, Connected
<1>2. CASE QueueStep
      BY <1>1, <1>2, QueueStepSockets
<1>3. ASSUME NEW s \in Sockets, Admit(s)
      PROVE  BroadcastInv'
  <2>1. /\ socket[s] = "away" /\ UNCHANGED <<listening, inbox, broadcast>>
        /\ \E outcome \in {"admitted", "refused"} : socket' = [socket EXCEPT ![s] = outcome]
        BY <1>3 DEF Admit
  <2>2. \A r \in Sockets : r # s => socket'[r] = socket[r]
        BY <2>1 DEF RelayTypeOK
  <2>3. socket'[s] \in {"admitted", "refused"}
        BY <2>1 DEF RelayTypeOK
  <2>4. Connected' = Connected
        BY <2>1, <2>2, <2>3 DEF Connected
  <2>5. broadcast # None => broadcast.stale \subseteq Sockets \ {s}
        BY <1>0, <2>1 DEF BroadcastInv, Broadcast
  <2>   QED BY <2>1, <2>2, <2>4, <2>5 DEF BroadcastInv
<1>4. ASSUME NEW s \in Sockets, Break(s)
      PROVE  BroadcastInv'
  <2>1. /\ socket[s] = "open" /\ UNCHANGED <<listening, inbox, broadcast>>
        /\ socket' = [socket EXCEPT ![s] = "broken"]
        BY <1>4 DEF Break
  <2>2. socket'[s] = "broken" /\ \A r \in Sockets : r # s => socket'[r] = socket[r]
        BY <2>1 DEF RelayTypeOK
  <2>3. Connected' = Connected
        BY <2>1, <2>2 DEF Connected
  <2>4. broadcast # None => broadcast.stale \subseteq Sockets
        BY <1>0 DEF Broadcast
  <2>   QED BY <2>1, <2>2, <2>3, <2>4 DEF BroadcastInv
<1>5. ASSUME NEW s \in Sockets, Connect(s) \/ Disconnect(s)
      PROVE  BroadcastInv'
  <2>1. /\ UNCHANGED <<listening, inbox>> /\ Disturb
        /\ \A r \in Sockets :
               socket[r] \in {"broken", "closed"} => socket'[r] \in {"broken", "closed"}
        BY <1>5 DEF Connect, Disconnect, RelayTypeOK
  <2>2. CASE broadcast = None
        BY <2>1, <2>2 DEF Disturb, BroadcastInv
  <2>3. CASE broadcast # None
    <3>1. broadcast' # None /\ Disturbed(broadcast, broadcast')
          BY <1>0, <2>1, <2>3, DisturbMoves
    <3>2. broadcast.stale \subseteq Sockets
          BY <1>0 DEF Broadcast
    <3>   QED BY <2>1, <2>3, <3>1, <3>2 DEF BroadcastInv, Disturbed
  <2>   QED BY <2>2, <2>3
<1>6. ASSUME NEW s \in Sockets, Send(s)
      PROVE  BroadcastInv'
  <2>1. Reaches(s) /\ broadcast # None
        BY <1>6, SendSends DEF Send
  <2>2. /\ broadcast'.visited = broadcast.visited \cup {s}
        /\ broadcast'.moved = broadcast.moved /\ broadcast'.base = broadcast.base
        /\ broadcast'.popped = broadcast.popped
        /\ \/ /\ broadcast'.got = broadcast.got \cup {s} /\ broadcast'.stale = broadcast.stale
           \/ /\ broadcast'.got = broadcast.got /\ broadcast'.stale = broadcast.stale \cup {s}
              /\ socket[s] = "broken"
        BY <1>0, <2>1 DEF Reaches, Broadcast
  <2>3. UNCHANGED <<listening, inbox, socket>> /\ Connected' = Connected
        BY <2>1 DEF Reaches, Connected
  <2>4. listening
        BY <2>1 DEF BroadcastInv
  <2>   QED BY <2>1, <2>2, <2>3, <2>4 DEF BroadcastInv
<1>7. CASE StartBroadcast
  <2>0. CASE broadcast' = None
        BY <1>7, <2>0 DEF StartBroadcast, BroadcastInv
  <2>1. /\ broadcast' # None => broadcast' = [None EXCEPT !.event = Head(inbox), !.base = Connected]
        /\ listening /\ UNCHANGED <<listening, socket>>
        BY <1>7 DEF StartBroadcast
  <2>2. broadcast' # None =>
            /\ broadcast'.visited = {} /\ broadcast'.stale = {}
            /\ broadcast'.base = Connected /\ ~broadcast'.popped
        BY <2>1 DEF None
  <2>3. Connected' = Connected
        BY <2>1 DEF Connected
  <2>   QED BY <2>0, <2>1, <2>2, <2>3 DEF BroadcastInv
<1>8. CASE FinishBroadcast
      BY <1>8 DEF FinishBroadcast, BroadcastInv
<1>9. CASE StopListening
      BY <1>9 DEF StopListening, BroadcastInv
<1>10. CASE RestartApi
       BY <1>10 DEF RestartApi, BroadcastInv
<1>11. CASE UNCHANGED relayVars
       BY <1>1, <1>11 DEF relayVars, relay
<1>12. CASE LoseRedis
       BY <1>12 DEF LoseRedis, BroadcastInv
<1>   QED BY <1>2, <1>3, <1>4, <1>5, <1>6, <1>7, <1>8, <1>9, <1>10, <1>11, <1>12
          DEF RelayNext, QueueStep

LEMMA RelayAlways == RelaySpec => []RelayInv
PROOF
<1>1. RelayInit => RelayInv
      BY RelayStart
<1>2. RelayInv /\ [RelayNext]_relayVars => RelayInv'
  <2>1. ASSUME RelayInv, [RelayNext]_relayVars
        PROVE  RelayInv'
        BY <2>1, RelayTypeStep, HandsStep, RepeatStep, BroadcastStep DEF RelayInv
  <2>   QED BY <2>1
<1>   QED BY <1>1, <1>2, PTL DEF RelaySpec

\* The rows, the workers' batches, the subscriber and the sockets keep their types.
THEOREM RelayTypes == RelaySpec => []RelayTypeOK
PROOF
<1>1. RelayInv => RelayTypeOK
      BY DEF RelayInv
<1>   QED BY <1>1, RelayAlways, PTL

\* SKIP LOCKED and the commit of a batch are enough: Redis is given an event again only
\* after a worker died or Redis failed, for any number of workers and any size of batch.
THEOREM RepeatsNeedFaults == RelaySpec => []RepeatedOnlyAfterFault
PROOF
<1>1. RelayInv => RepeatedOnlyAfterFault
  <2>1. ASSUME RelayInv, NEW e \in Events
        PROVE  sent[e] <= 1 + faults
    <3>1. sent[e] \in Nat /\ faults \in Nat /\ sent[e] <= faults + (IF Settled(e) THEN 1 ELSE 0)
          BY <2>1, RelayAssumption DEF RelayInv, RelayTypeOK, RepeatInv
    <3>   QED BY <3>1
  <2>   QED BY <2>1 DEF RepeatedOnlyAfterFault
<1>   QED BY <1>1, RelayAlways, PTL

\* However many sockets are broken, a broadcast that no coming or going disturbs ends
\* only when every socket that works has the event.
THEOREM EveryoneIsTold == RelaySpec => EveryoneHears
PROOF
<1>1. ASSUME RelayInv, [RelayNext]_relayVars, broadcast # None, broadcast' = None, ~broadcast.moved,
             NEW s \in broadcast.base, socket[s] = "open"
      PROVE  s \in broadcast.got
  <2>0. broadcast \in Broadcast /\ Connected = broadcast.base
        BY <1>1 DEF RelayInv, RelayTypeOK, BroadcastInv
  <2>1. CASE FinishBroadcast
    <3>1. s \in broadcast.visited
          BY <1>1, <2>1 DEF FinishBroadcast
    <3>   QED BY <1>1, <3>1 DEF RelayInv, BroadcastInv
  <2>2. CASE StopListening
        BY <1>1, <2>0, <2>2 DEF StopListening, SameSize, RelayInv, BroadcastInv
  <2>3. CASE UNCHANGED broadcast
        BY <1>1, <2>3
  <2>4. CASE Disturb
        BY <1>1, <2>0, <2>4, DisturbMoves
  <2>5. ASSUME NEW r \in Sockets, Send(r)
        PROVE  FALSE
    <3>1. broadcast'.visited = broadcast.visited \cup {r}
          BY <2>0, <2>5, SendSends DEF Reaches, Broadcast
    <3>   QED BY <1>1, <3>1 DEF None
  <2>6. CASE StartBroadcast
        BY <1>1, <2>6 DEF StartBroadcast
  <2>7. CASE QueueStep
        BY <2>3, <2>7, QueueStepSockets
  <2>8. CASE SocketStep
        BY <2>1, <2>2, <2>3, <2>4, <2>5, <2>6, <2>8
           DEF SocketStep, Admit, Connect, Break, Disconnect, LoseRedis, RestartApi
  <2>   QED BY <1>1, <2>3, <2>7, <2>8 DEF RelayNext, QueueStep, SocketStep, relayVars, relay
<1>2. RelayInv /\ [RelayNext]_relayVars =>
          [broadcast # None /\ broadcast' = None /\ ~broadcast.moved =>
              \A s \in broadcast.base :
                  socket[s] = "open" /\ socket'[s] = "open" => s \in broadcast.got]_relayVars
      BY <1>1
<1>   QED BY <1>2, RelayAlways, PTL DEF RelaySpec, EveryoneHears
================================================================================
