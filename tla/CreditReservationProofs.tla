------------------------ MODULE CreditReservationProofs ------------------------
(***************************************************************************)
(* Proofs about CreditReservation, for any sales, amounts and tasks.       *)
(***************************************************************************)
EXTENDS CreditReservation, Sums

\* The sum over a part of the sales is a sum over all of them.
LEMMA TotalIsMasked ==
    ASSUME NEW S \in SUBSET Sales
    PROVE  /\ Total(S) \in Nat
           /\ Total(S) = SumFunctionOnSet([s \in Sales |-> IF s \in S THEN Credit[s] ELSE 0], Sales)
PROOF
<1> DEFINE m == [s \in Sales |-> IF s \in S THEN Credit[s] ELSE 0]
<1>1. IsFiniteSet(Sales) /\ IsFiniteSet(S) /\ \A s \in Sales : Credit[s] \in Nat
      BY CreditAssumption, FS_Subset
<1>2. /\ \A s \in Sales : m[s] \in Int
      /\ \A s \in Sales \ S : m[s] = 0
      /\ \A s \in S : m[s] = Credit[s]
      BY <1>1
<1> HIDE DEF m
<1>3. SumFunctionOnSet(m, Sales) = SumFunctionOnSet(m, S)
      BY <1>1, <1>2, SumSubset
<1>4. SumFunctionOnSet(m, S) = SumFunctionOnSet(Credit, S)
      BY <1>1, <1>2, SumSame
<1>5. SumFunctionOnSet(Credit, S) \in Nat
      BY <1>1, SumNat
<1>   QED BY <1>3, <1>4, <1>5 DEF Total, m

\* What a refresh cuts off at the limit is an amount.
LEMMA ReplaceCut ==
    ASSUME TypeOK, NEW r \in Refreshes, Replace(r)
    PROVE  cut' = Greater(0, outstanding' - Limit) /\ cut' \in Nat
PROOF
<1>1. Total(answer[r]) \in Nat /\ Total(reserved) \in Nat /\ Limit \in Nat
      BY TotalIsMasked, CreditAssumption DEF TypeOK
<1>2. outstanding' = Total(answer[r]) + Total(reserved) /\ cut' = Greater(0, outstanding' - Limit)
      BY DEF Replace
<1>   QED BY <1>1, <1>2 DEF Greater

\* What a call of releaseCreditReservation does to the reservations.
LEMMA ReleaseStep ==
    ASSUME TypeOK, ReleasedOnce, NEW s \in Sales, Release(s)
    PROVE  /\ reserved' = reserved \ {s}
           /\ counted' \in [Sales -> Int] /\ UNCHANGED cut
           /\ \A q \in Sales : counted'[q] >= (IF q \in reserved' THEN 1 ELSE 0)
PROOF
<1> USE DEF TypeOK, ReleasedOnce, creditVars
<1>1. CASE s \notin reserved
      BY <1>1 DEF Release
<1>2. CASE s \in reserved
  <2>1. /\ counted' = [counted EXCEPT ![s] = @ - 1] /\ reserved' = reserved \ {s}
        /\ UNCHANGED cut
        BY <1>2 DEF Release
  <2>2. counted \in [Sales -> Int] /\ counted[s] >= 1
        BY <1>2
  <2>3. counted' \in [Sales -> Int] /\ counted'[s] >= 0
        BY <2>1, <2>2
  <2>4. \A q \in Sales \ {s} : counted'[q] = counted[q] /\ (q \in reserved' <=> q \in reserved)
        BY <2>1, <2>2
  <2>   QED BY <2>1, <2>3, <2>4
<1>   QED BY <1>1, <1>2

LEMMA InitCredit == Init => TypeOK /\ ReleasedOnce
PROOF BY CreditAssumption DEF Init, TypeOK, ReleasedOnce

\* Only releaseCreditReservation takes a sale out of the balance, and it takes
\* the reservation away with it.
LEMMA StepCredit == TypeOK /\ ReleasedOnce /\ [Next]_vars => (TypeOK /\ ReleasedOnce)'
PROOF
<1> SUFFICES ASSUME TypeOK, ReleasedOnce, [Next]_vars
             PROVE  TypeOK' /\ ReleasedOnce'
      OBVIOUS
<1>0. \A kind : Spend(kind) => faultsLeft' \in 0..MaxFaults
      BY CreditAssumption DEF TypeOK, Spend
<1> USE DEF deviceVars, creditVars, flushVars, refreshVars, lapses
<1>1. CASE UNCHANGED vars
      BY <1>1 DEF vars, TypeOK, ReleasedOnce
<1>2. ASSUME NEW s \in Sales, Reserve(s)
      PROVE  TypeOK' /\ ReleasedOnce'
      BY <1>2 DEF Reserve, Goes, TypeOK, ReleasedOnce
<1>3. ASSUME NEW s \in Sales, Queue(s)
      PROVE  TypeOK' /\ ReleasedOnce'
      BY <1>3 DEF Queue, Goes, TypeOK, ReleasedOnce
<1>4. ASSUME NEW s \in Sales, QueueThrows(s)
      PROVE  TypeOK' /\ ReleasedOnce'
      BY <1>0, <1>4 DEF QueueThrows, Goes, TypeOK, ReleasedOnce
<1>5. ASSUME NEW s \in Sales, Undo(s)
      PROVE  TypeOK' /\ ReleasedOnce'
  <2>1. Release(s)
        BY <1>5 DEF Undo
  <2>   QED BY <1>5, <2>1, ReleaseStep DEF Undo, Goes, TypeOK, ReleasedOnce
<1>6. ASSUME NEW w \in Flows, StartFlush(w) \/ EndFlush(w) \/ TakeSale(w)
      PROVE  TypeOK' /\ ReleasedOnce'
      BY <1>6 DEF StartFlush, EndFlush, TakeSale, Retakes, Syncable, Goto, TypeOK, ReleasedOnce
<1>7. ASSUME NEW w \in Flows, ServerAnswers(w)
      PROVE  TypeOK' /\ ReleasedOnce'
  <2>1. cur[w] \in Sales
        BY <1>7 DEF ServerAnswers, Waiting, TypeOK
  <2>2. posted' \subseteq Sales /\ reply' \in [Flows -> {"none", "ok", "rejected", "error"}]
        BY <1>7, <2>1 DEF ServerAnswers, Answer, TypeOK
  <2>   QED BY <1>7, <2>2 DEF ServerAnswers, TypeOK, ReleasedOnce
<1>8. ASSUME NEW w \in Flows, ServerDenies(w) \/ NoAnswer(w)
      PROVE  TypeOK' /\ ReleasedOnce'
      BY <1>0, <1>8 DEF ServerDenies, NoAnswer, Answer, TypeOK, ReleasedOnce
<1>9. ASSUME NEW w \in Flows, Finalize(w)
      PROVE  TypeOK' /\ ReleasedOnce'
      BY <1>9 DEF Finalize, Goto, TypeOK, ReleasedOnce
<1>10. ASSUME NEW w \in Flows, Synced(w) \/ MarkConflict(w) \/ PutBack(w)
       PROVE  TypeOK' /\ ReleasedOnce'
  <2>1. CASE Synced(w)
        BY <2>1 DEF Synced, Rest, Goto, TypeOK, ReleasedOnce
  <2>2. CASE MarkConflict(w)
        BY <2>2 DEF MarkConflict, Goto, TypeOK, ReleasedOnce
  <2>3. CASE PutBack(w)
        BY <2>3 DEF PutBack, Retakes, Rest, Goto, TypeOK, ReleasedOnce
  <2>   QED BY <1>10, <2>1, <2>2, <2>3
<1>11. ASSUME NEW w \in Flows, ReleaseRefused(w)
       PROVE  TypeOK' /\ ReleasedOnce'
  <2>1. cur[w] \in Sales /\ Release(cur[w])
        BY <1>11 DEF ReleaseRefused, TypeOK
  <2>   QED BY <1>11, <2>1, ReleaseStep DEF ReleaseRefused, Rest, Goto, TypeOK, ReleasedOnce
<1>12. ASSUME NEW r \in Refreshes,
              ReadSales(r) \/ ReadReservations(r) \/ EndReconcile(r) \/ Fetch(r)
       PROVE  TypeOK' /\ ReleasedOnce'
       BY <1>12 DEF ReadSales, ReadReservations, EndReconcile, Fetch, Syncable, Moves,
                    TypeOK, ReleasedOnce
<1>13. ASSUME NEW r \in Refreshes, ReleaseOrphan(r)
       PROVE  TypeOK' /\ ReleasedOnce'
  <2>1. PICK s \in victims[r] : /\ Release(s) /\ victims' = [victims EXCEPT ![r] = @ \ {s}]
                                /\ overlooked' = overlooked \cup ({s} \cap unseen[r])
                                /\ unseen' = [unseen EXCEPT ![r] = @ \ {s}]
        BY <1>13 DEF ReleaseOrphan
  <2>2. s \in Sales
        BY <2>1 DEF TypeOK
  <2>   QED BY <1>13, <2>1, <2>2, ReleaseStep DEF ReleaseOrphan, TypeOK, ReleasedOnce
<1>14. ASSUME NEW r \in Refreshes, Replace(r)
       PROVE  TypeOK' /\ ReleasedOnce'
  <2>1. cut' \in Nat
        BY <1>14, ReplaceCut DEF TypeOK
  <2>   QED BY <1>14, <2>1 DEF Replace, Moves, TypeOK, ReleasedOnce
<1>15. CASE Crash
       BY <1>0, <1>15 DEF Crash, TypeOK, ReleasedOnce
<1>   QED BY <1>1, <1>2, <1>3, <1>4, <1>5, <1>6, <1>7, <1>8, <1>9, <1>10, <1>11, <1>12,
             <1>13, <1>14, <1>15 DEF Next, FlushStep, RefreshStep

\* The rows of customer_database.dart and the progress of its users keep their types.
THEOREM TypeCorrect == Spec => []TypeOK
PROOF BY InitCredit, StepCredit, PTL DEF Spec

--------------------------------------------------------------------------------
\* what each sale is in the balance
Weight == [s \in Sales |-> counted[s] * Credit[s]]

LEMMA WeightType ==
    ASSUME TypeOK, ReleasedOnce
    PROVE  /\ DOMAIN Weight = Sales
           /\ \A s \in Sales : Weight[s] \in Nat /\ (s \in reserved => Credit[s] <= Weight[s])
PROOF
<1>1. ASSUME NEW c \in Nat, NEW k \in Nat
      PROVE  c * k \in Nat /\ (c >= 1 => k <= c * k)
  <2>1. c * k \in Nat
        OBVIOUS
  <2>2. CASE c >= 1
    <3>1. PICK d \in Nat : c = d + 1
          BY <2>2, c - 1 \in Nat, c = (c - 1) + 1
    <3>2. c * k = d * k + k /\ d * k \in Nat
          BY <3>1
    <3>   QED BY <3>2
  <2>   QED BY <2>1, <2>2
<1>2. \A s \in Sales : counted[s] \in Nat /\ Credit[s] \in Nat /\ (s \in reserved => counted[s] >= 1)
      BY CreditAssumption DEF TypeOK, ReleasedOnce
<1>3. \A s \in Sales : Weight[s] = counted[s] * Credit[s]
      BY DEF Weight
<1>   QED BY <1>1, <1>2, <1>3 DEF Weight

\* Reserving and releasing move the sum by the credit of the sale.
LEMMA WeightMoves ==
    ASSUME TypeOK, NEW s \in Sales, NEW d \in Int, counted' \in [Sales -> Int],
           counted'[s] = counted[s] + d, \A q \in Sales \ {s} : counted'[q] = counted[q]
    PROVE  SumFunction(Weight)' = SumFunction(Weight) + d * Credit[s]
PROOF
<1>1. ASSUME NEW q \in Sales
      PROVE  Weight[q] \in Int /\ Weight'[q] \in Int /\ (q # s => Weight'[q] = Weight[q])
  <2>1. counted[q] \in Int /\ counted'[q] \in Int /\ Credit[q] \in Int
        BY CreditAssumption DEF TypeOK
  <2>2. Weight[q] = counted[q] * Credit[q] /\ Weight'[q] = counted'[q] * Credit[q]
        BY DEF Weight
  <2>3. q # s => counted'[q] = counted[q]
        OBVIOUS
  <2>   QED BY <2>1, <2>2, <2>3
<1>2. Weight'[s] = Weight[s] + d * Credit[s]
  <2>1. Weight'[s] = (counted[s] + d) * Credit[s] /\ Weight[s] = counted[s] * Credit[s]
        BY DEF Weight
  <2>2. counted[s] \in Int /\ Credit[s] \in Int /\ d \in Int
        BY CreditAssumption DEF TypeOK
  <2>   QED BY <2>1, <2>2
<1>3. DOMAIN Weight = Sales /\ DOMAIN Weight' = Sales /\ IsFiniteSet(Sales)
      BY CreditAssumption DEF Weight
<1>4. SumFunctionOnSet(Weight', Sales) =
         SumFunctionOnSet(Weight, Sales) - Weight[s] + Weight'[s]
      BY <1>1, <1>3, SumOneChanged
<1>5. SumFunctionOnSet(Weight, Sales) \in Int
      BY <1>1, <1>3, SumInt
<1>6. Weight[s] \in Int /\ Credit[s] \in Int /\ d \in Int
      BY <1>1, CreditAssumption
<1>   QED BY <1>2, <1>3, <1>4, <1>5, <1>6 DEF SumFunction

\* What a release gives back is part of the balance.
LEMMA ReleaseKeepsExact ==
    ASSUME TypeOK, ReleasedOnce, OutstandingExact, NEW s \in Sales, Release(s)
    PROVE  OutstandingExact'
PROOF
<1>0. IsFiniteSet(Sales) /\ Limit \in Nat /\ Credit[s] \in Nat
      BY CreditAssumption
<1>1. CASE s \notin reserved
      BY <1>1 DEF Release, creditVars, OutstandingExact, Weight
<1>2. CASE s \in reserved
  <2>1. /\ outstanding' = Greater(0, outstanding - Credit[s])
        /\ available' = Lesser(Limit, available + Credit[s])
        /\ counted' = [counted EXCEPT ![s] = @ - 1]
        /\ cut' = cut
        BY <1>2 DEF Release
  <2>0. /\ counted' \in [Sales -> Int] /\ counted'[s] = counted[s] + (-1)
        /\ \A q \in Sales \ {s} : counted'[q] = counted[q]
        BY <2>1 DEF TypeOK
  <2>2. DOMAIN Weight = Sales /\ Weight[s] \in Nat /\ Credit[s] <= Weight[s]
        BY <1>2, WeightType
  <2>3. SumFunctionOnSet(Weight, Sales) \in Nat /\ Weight[s] <= SumFunctionOnSet(Weight, Sales)
        BY <1>0, WeightType, SumNat
  <2>4. outstanding = SumFunctionOnSet(Weight, Sales)
        BY <2>2 DEF OutstandingExact, Weight, SumFunction
  <2>5. outstanding' = outstanding - Credit[s]
        BY <1>0, <2>1, <2>2, <2>3, <2>4 DEF Greater
  <2>6. SumFunction(Weight)' = SumFunction(Weight) + (-1) * Credit[s]
        BY <2>0, WeightMoves, -1 \in Int
  <2>7. SumFunction(Weight) = outstanding
        BY DEF OutstandingExact, Weight
  <2>8. outstanding' = SumFunction(Weight)'
        BY <1>0, <2>3, <2>4, <2>5, <2>6, <2>7
  <2>9. /\ available \in 0..Limit /\ available + outstanding \in Limit..(Limit + cut)
        /\ cut \in Nat /\ outstanding \in Nat /\ outstanding' \in Nat
        BY <1>0, <2>2, <2>3, <2>4, <2>5 DEF OutstandingExact, TypeOK
  <2>10. available' \in 0..Limit /\ available' + outstanding' \in Limit..(Limit + cut')
        BY <1>0, <2>1, <2>5, <2>9 DEF Lesser
  <2>   QED BY <2>8, <2>10 DEF OutstandingExact, Weight
<1>   QED BY <1>1, <1>2

LEMMA InitExact == Init => OutstandingExact
PROOF
<1> SUFFICES ASSUME Init PROVE OutstandingExact
      OBVIOUS
<1>1. DOMAIN Weight = Sales /\ \A s \in Sales : Weight[s] = 0
      BY CreditAssumption DEF Init, Weight
<1>2. SumFunction(Weight) = 0
      BY <1>1, SumZero, CreditAssumption DEF SumFunction
<1>   QED BY <1>2, CreditAssumption DEF Init, OutstandingExact, Weight

\* The balance is replaced by what the server knows and what is reserved.
LEMMA ReplaceIsExact ==
    ASSUME TypeOK, NEW r \in Refreshes, Replace(r)
    PROVE  OutstandingExact'
PROOF
<1> DEFINE A == answer[r]
           a == [s \in Sales |-> IF s \in A THEN Credit[s] ELSE 0]
           b == [s \in Sales |-> IF s \in reserved THEN Credit[s] ELSE 0]
<1>1. A \in SUBSET Sales /\ reserved \in SUBSET Sales /\ IsFiniteSet(Sales) /\ Limit \in Nat
      BY CreditAssumption DEF TypeOK
<1>2. ASSUME NEW s \in Sales
      PROVE  a[s] \in Int /\ b[s] \in Int /\ Weight'[s] = a[s] + b[s]
  <2>1. Credit[s] \in Nat
        BY CreditAssumption
  <2>2. counted'[s] = (IF s \in A THEN 1 ELSE 0) + (IF s \in reserved THEN 1 ELSE 0)
        BY DEF Replace
  <2>3. Weight'[s] = counted'[s] * Credit[s]
        BY DEF Weight
  <2>   QED BY <2>1, <2>2, <2>3
<1>3. /\ Total(A) \in Nat /\ Total(A) = SumFunctionOnSet(a, Sales)
      /\ Total(reserved) \in Nat /\ Total(reserved) = SumFunctionOnSet(b, Sales)
      BY <1>1, TotalIsMasked
<1>4. outstanding' = Total(A) + Total(reserved)
      BY DEF Replace
<1>5. available' = Greater(0, Greater(0, Limit - Total(A)) - Total(reserved))
      BY DEF Replace
<1> HIDE DEF a, b, A
<1>6. SumFunctionOnSet(Weight', Sales) = SumFunctionOnSet(a, Sales) + SumFunctionOnSet(b, Sales)
      BY <1>1, <1>2, SumPlus
<1>7. DOMAIN Weight' = Sales
      BY DEF Weight
<1>8. outstanding' = SumFunction(Weight')
      BY <1>3, <1>4, <1>6, <1>7 DEF SumFunction
<1>9. available' \in 0..Limit /\ available' + outstanding' \in Limit..(Limit + cut')
  <2>1. cut' = Greater(0, outstanding' - Limit)
        BY ReplaceCut
  <2>   QED BY <1>1, <1>3, <1>4, <1>5, <2>1 DEF Greater
<1>   QED BY <1>8, <1>9 DEF OutstandingExact, Weight

LEMMA StepExact == TypeOK /\ ReleasedOnce /\ OutstandingExact /\ [Next]_vars => OutstandingExact'
PROOF
<1> SUFFICES ASSUME TypeOK, ReleasedOnce, OutstandingExact, [Next]_vars
             PROVE  OutstandingExact'
      OBVIOUS
<1> USE DEF deviceVars, creditVars
<1>1. CASE UNCHANGED <<outstanding, available, counted, cut>>
      BY <1>1 DEF OutstandingExact
<1>2. ASSUME NEW s \in Sales, Reserve(s)
      PROVE  OutstandingExact'
  <2>1. /\ counted' \in [Sales -> Int] /\ counted'[s] = counted[s] + 1
        /\ \A q \in Sales \ {s} : counted'[q] = counted[q]
        BY <1>2 DEF Reserve, TypeOK
  <2>2. SumFunction(Weight)' = SumFunction(Weight) + 1 * Credit[s]
        BY <2>1, WeightMoves
  <2>3. /\ outstanding = SumFunction(Weight) /\ available \in 0..Limit
        /\ available + outstanding \in Limit..(Limit + cut) /\ cut \in Nat /\ cut' = cut
        BY <1>2 DEF OutstandingExact, Weight, TypeOK, Reserve
  <2>8. outstanding \in Int
    <3>1. \A q \in Sales : Weight[q] \in Int
          BY CreditAssumption DEF TypeOK, Weight
    <3>   QED BY <2>3, <3>1, SumInt, CreditAssumption DEF Weight, SumFunction
  <2>4. /\ outstanding' = outstanding + Credit[s]
        /\ Credit[s] <= available /\ available' = Greater(0, available - Credit[s])
        BY <1>2 DEF Reserve
  <2>5. Credit[s] \in Nat /\ Limit \in Nat
        BY CreditAssumption
  <2>6. outstanding' = SumFunction(Weight)'
        BY <2>2, <2>3, <2>4, <2>5
  <2>7. available' \in 0..Limit /\ available' + outstanding' \in Limit..(Limit + cut')
        BY <2>3, <2>4, <2>5, <2>8 DEF Greater
  <2>   QED BY <2>6, <2>7 DEF OutstandingExact, Weight
<1>3. ASSUME NEW s \in Sales, Undo(s)
      PROVE  OutstandingExact'
      BY <1>3, ReleaseKeepsExact DEF Undo
<1>4. ASSUME NEW w \in Flows, ReleaseRefused(w)
      PROVE  OutstandingExact'
      BY <1>4, ReleaseKeepsExact DEF ReleaseRefused, TypeOK
<1>5. ASSUME NEW r \in Refreshes, ReleaseOrphan(r)
      PROVE  OutstandingExact'
      BY <1>5, ReleaseKeepsExact DEF ReleaseOrphan, TypeOK
<1>6. ASSUME NEW r \in Refreshes, Replace(r)
      PROVE  OutstandingExact'
      BY <1>6, ReplaceIsExact
<1>7. CASE UNCHANGED vars
      BY <1>1, <1>7 DEF vars
<1>8. ASSUME NEW s \in Sales, Queue(s) \/ QueueThrows(s)
      PROVE  OutstandingExact'
      BY <1>1, <1>8 DEF Queue, QueueThrows
<1>9. ASSUME NEW w \in Flows,
             \/ StartFlush(w) \/ EndFlush(w) \/ TakeSale(w) \/ ServerAnswers(w) \/ ServerDenies(w)
             \/ NoAnswer(w) \/ Finalize(w) \/ Synced(w) \/ MarkConflict(w) \/ PutBack(w)
      PROVE  OutstandingExact'
      BY <1>1, <1>9 DEF StartFlush, EndFlush, TakeSale, ServerAnswers, ServerDenies, NoAnswer,
                        Finalize, Synced, MarkConflict, PutBack
<1>10. ASSUME NEW r \in Refreshes, ReadSales(r) \/ ReadReservations(r) \/ EndReconcile(r) \/ Fetch(r)
       PROVE  OutstandingExact'
       BY <1>1, <1>10 DEF ReadSales, ReadReservations, EndReconcile, Fetch
<1>11. CASE Crash
       BY <1>1, <1>11 DEF Crash
<1>   QED BY <1>2, <1>3, <1>4, <1>5, <1>6, <1>7, <1>8, <1>9, <1>10, <1>11
          DEF Next, FlushStep, RefreshStep

\* The clamps at zero and at the limit never hide anything: the balance shown is
\* the sum of what it is made of, whoever reserves, releases and refreshes at once.
THEOREM OutstandingIsExact == Spec => []OutstandingExact
PROOF BY InitCredit, StepCredit, InitExact, StepExact, PTL DEF Spec
--------------------------------------------------------------------------------
LEMMA InitHold == Init => CreditInv
PROOF BY InitCredit DEF Init, CreditInv, ReservationsKept, SaleHoldsCredit, TasksHold,
                        FlushesHold, RefreshesHold, Syncable

\* Wherever the history and the progress of the tasks stay as they are, so does
\* what is known of them.
LEMMA StepHold ==
    ASSUME TypeOK, CreditInv, [Next]_vars
    PROVE  (SaleHoldsCredit /\ TasksHold /\ FlushesHold /\ RefreshesHold)'
PROOF
<1> DEFINE Goal == (SaleHoldsCredit /\ TasksHold /\ FlushesHold /\ RefreshesHold)'
<1>0. ReleasedOnce /\ SaleHoldsCredit /\ TasksHold /\ FlushesHold /\ RefreshesHold
      BY DEF CreditInv, ReservationsKept
<1> USE <1>0 DEF SaleHoldsCredit, TasksHold, FlushesHold, RefreshesHold, Syncable, TypeOK,
            deviceVars, creditVars, flushVars, refreshVars, lapses
<1>1. CASE UNCHANGED vars
      BY <1>1 DEF vars
<1>2. ASSUME NEW s \in Sales, Reserve(s) \/ Queue(s) \/ QueueThrows(s)
      PROVE  Goal
      BY <1>2 DEF Reserve, Queue, QueueThrows, Goes
<1>3. ASSUME NEW s \in Sales, Undo(s)
      PROVE  Goal
  <2>1. reserved' = reserved \ {s} /\ row[s] = "none"
        BY <1>3, ReleaseStep DEF Undo
  <2>   QED BY <1>3, <2>1 DEF Undo, Goes
<1>4. ASSUME NEW w \in Flows, StartFlush(w) \/ EndFlush(w)
      PROVE  Goal
      BY <1>4 DEF StartFlush, EndFlush, Goto
<1>5. ASSUME NEW w \in Flows, TakeSale(w)
      PROVE  Goal
  <2>1. PICK s \in todo[w] : /\ todo' = [todo EXCEPT ![w] = @ \ {s}]
                             /\ cur' = [cur EXCEPT ![w] = s]
                             /\ row' = [row EXCEPT ![s] = "syncing"]
                             /\ retaken' = IF row[s] = "conflict" THEN retaken \cup {s} ELSE retaken
                             /\ overlooked' = overlooked
        BY <1>5 DEF TakeSale, Retakes
  <2>2. s \in Sales /\ row[s] # "none"
        BY <2>1
  <2>3. SaleHoldsCredit' /\ TasksHold'
        BY <1>5, <2>1, <2>2 DEF TakeSale, Goto
  <2>4. FlushesHold'
        BY <1>5, <2>1, <2>2 DEF TakeSale, Goto
  <2>5. RefreshesHold'
        BY <1>5, <2>1, <2>2 DEF TakeSale, Goto
  <2>   QED BY <2>3, <2>4, <2>5
<1>6. ASSUME NEW w \in Flows, ServerAnswers(w) \/ ServerDenies(w) \/ NoAnswer(w)
      PROVE  Goal
  <2>1. CASE ServerAnswers(w)
        BY <2>1 DEF ServerAnswers, Answer, Waiting
  <2>2. CASE ServerDenies(w) \/ NoAnswer(w)
        BY <2>2 DEF ServerDenies, NoAnswer, Answer, Waiting
  <2>   QED BY <1>6, <2>1, <2>2
<1>7. ASSUME NEW w \in Flows, Finalize(w)
      PROVE  Goal
      BY <1>7 DEF Finalize, Goto
<1>8. ASSUME NEW w \in Flows, Synced(w)
      PROVE  Goal
      BY <1>8 DEF Synced, Rest, Goto
<1>9. ASSUME NEW w \in Flows, MarkConflict(w)
      PROVE  Goal
      BY <1>9 DEF MarkConflict, Goto
<1>10. ASSUME NEW w \in Flows, PutBack(w)
       PROVE  Goal
  <2>1. /\ cur[w] \in Sales /\ row[cur[w]] # "none"
        /\ row' = [row EXCEPT ![cur[w]] = "pending"]
        /\ retaken' = IF row[cur[w]] = "conflict" THEN retaken \cup {cur[w]} ELSE retaken
        /\ overlooked' = overlooked
        BY <1>10 DEF PutBack, Retakes
  <2>2. SaleHoldsCredit' /\ TasksHold'
        BY <1>10, <2>1 DEF PutBack, Rest, Goto
  <2>3. FlushesHold'
        BY <1>10, <2>1 DEF PutBack, Rest, Goto
  <2>4. RefreshesHold'
        BY <1>10, <2>1 DEF PutBack, Rest, Goto
  <2>   QED BY <2>2, <2>3, <2>4
<1>11. ASSUME NEW w \in Flows, ReleaseRefused(w)
       PROVE  Goal
  <2>1. /\ reserved' = reserved \ {cur[w]} /\ cur[w] \in Sales
        /\ row[cur[w]] = "conflict" \/ cur[w] \in posted \cup retaken
        BY <1>11, ReleaseStep DEF ReleaseRefused
  <2>2. row[cur[w]] # "none"
        BY <1>11 DEF ReleaseRefused
  <2>   QED BY <1>11, <2>1, <2>2 DEF ReleaseRefused, Rest, Goto
<1>12. ASSUME NEW r \in Refreshes, ReadSales(r)
       PROVE  Goal
  <2>1. SaleHoldsCredit' /\ TasksHold' /\ FlushesHold'
        BY <1>12 DEF ReadSales
  <2>2. /\ live' = [live EXCEPT ![r] = Syncable] /\ at' = [at EXCEPT ![r] = "listed"]
        /\ unseen' = [unseen EXCEPT ![r] = {s \in Sales : row[s] = "none"}]
        /\ UNCHANGED <<row, posted, retaken, victims>>
        BY <1>12 DEF ReadSales, Moves
  <2>3. \A s \in Sales \ Syncable : row[s] = "none" \/ row[s] = "conflict" \/ s \in posted
        OBVIOUS
  <2>4. ASSUME NEW q \in Refreshes, NEW s \in Sales,
               (at[q] = "listed" /\ s \notin live[q])' \/ s \in victims[q]'
        PROVE  s \in (unseen[q] \cup posted \cup retaken)' \/ row'[s] = "conflict"
    <3>1. CASE q = r
      <4>1. /\ live'[r] = Syncable /\ unseen'[r] = {x \in Sales : row[x] = "none"}
            /\ victims'[r] = {}
            BY <1>12, <2>2 DEF ReadSales
      <4>   QED BY <2>2, <2>3, <2>4, <3>1, <4>1
    <3>2. CASE q # r
          BY <2>2, <2>4, <3>2
    <3>   QED BY <3>1, <3>2
  <2>5. \A q \in Refreshes : at'[q] # "releasing" => victims'[q] = {}
        BY <1>12, <2>2 DEF ReadSales
  <2>   QED BY <2>1, <2>4, <2>5
<1>13. ASSUME NEW r \in Refreshes, ReadReservations(r)
       PROVE  Goal
       BY <1>13 DEF ReadReservations, Moves
<1>14. ASSUME NEW r \in Refreshes, ReleaseOrphan(r)
       PROVE  Goal
  <2>1. PICK s \in victims[r] : /\ Release(s) /\ victims' = [victims EXCEPT ![r] = @ \ {s}]
                                /\ overlooked' = overlooked \cup ({s} \cap unseen[r])
                                /\ unseen' = [unseen EXCEPT ![r] = @ \ {s}]
        BY <1>14 DEF ReleaseOrphan
  <2>2. s \in Sales /\ reserved' = reserved \ {s}
        BY <2>1, ReleaseStep
  <2>3. s \in overlooked' \cup posted \cup retaken \/ row[s] = "conflict"
        BY <2>1, <2>2
  <2>   QED BY <1>14, <2>1, <2>2, <2>3 DEF ReleaseOrphan
<1>15. ASSUME NEW r \in Refreshes, EndReconcile(r) \/ Fetch(r) \/ Replace(r)
       PROVE  Goal
       BY <1>15 DEF EndReconcile, Fetch, Replace, Moves
<1>16. CASE Crash
       BY <1>16 DEF Crash
<1>   QED BY <1>1, <1>2, <1>3, <1>4, <1>5, <1>6, <1>7, <1>8, <1>9, <1>10, <1>11, <1>12,
             <1>13, <1>14, <1>15, <1>16 DEF Next, FlushStep, RefreshStep

\* The inductive invariant, for any sales, flushes, refreshes and failures.
THEOREM CreditInvariance == Spec => []CreditInv
PROOF
<1>1. TypeOK /\ CreditInv /\ [Next]_vars => (TypeOK /\ CreditInv)'
      BY StepCredit, StepHold DEF CreditInv, ReservationsKept
<1>   QED BY <1>1, InitCredit, InitHold, PTL DEF Spec

\* The credit of a sale is given back at most once for each time it is taken,
\* whoever tries, and a sale that waits to be sent holds its credit until the server
\* has it, but for the two ways to lose it that ReservationsKept names: any number of
\* flushes and reconciliations may overlap, and the app may be killed anywhere.
THEOREM CreditKept == Spec => []ReservationsKept
PROOF
<1>1. CreditInv => ReservationsKept
      BY DEF CreditInv
<1>   QED BY <1>1, CreditInvariance, PTL
================================================================================
