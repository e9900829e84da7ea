------------------------------ MODULE TillProofs ------------------------------
(***************************************************************************)
(* The drawer of Till, for any number of cashiers, shifts, requests and    *)
(* amounts.  What decides is the lock of the shift: whoever has computed   *)
(* the cash of a drawer holds it, so that until the request ends only cash *)
(* sales can come in, which do not lock it; and what a close computes is   *)
(* stamped before anything that could still change it gets the lock.       *)
(***************************************************************************)
EXTENDS Till, RequestsProofs

Stages == {"working", "insert", "locked", "counted", "timed"}
Sent == Ops \ Closings

LEMMA Kinds ==
    /\ \A o \in Shifts : o \in Sent /\ o \notin Movements /\ o \notin CashSales /\ o \notin Refunds
    /\ \A o \in Movements : o \in Sent /\ o \notin Shifts /\ o \notin CashSales /\ o \notin Refunds
    /\ \A o \in CashSales : o \in Sent /\ o \notin Shifts /\ o \notin Movements /\ o \notin Refunds
    /\ \A o \in Refunds : o \in Sent /\ o \notin Shifts /\ o \notin Movements /\ o \notin CashSales
    /\ \A o \in Sent : /\ o \in Shifts \cup Movements \cup CashSales \cup Refunds
                       /\ Req[o].till \in Tills /\ Req[o].amount \in Nat
    /\ \A o \in Ops : o \in Sent \/ o \in Closings
    /\ \A o \in Closings : /\ o \in Ops /\ Req[o].till \in Tills /\ Req[o].counted \in Nat
                           /\ Req[o].shift \in Shifts
PROOF BY TillAssumption
      DEF Request, Shifts, Movements, CashSales, Refunds, Closings, OfKind, Sent

LEMMA DoneMeans ==
    /\ \A o \in Shifts : Done(o) <=> Exists(shift[o])
    /\ \A o \in Movements : Done(o) <=> moved[o] # NoShift
    /\ \A o \in CashSales : Done(o) <=> soldAt[o] # Never
    /\ \A o \in Refunds : Done(o) <=> Exists(refunded[o])
PROOF BY Kinds DEF Done

LEMMA RowsExist ==
    /\ \A r \in ShiftRow : Exists(r)
    /\ \A r \in [at : Nat, from : Shifts] : Exists(r)
    /\ ~Exists(NoRow)
PROOF
<1>1. DOMAIN NoRow = {"none"}
      BY DEF NoRow
<1>2. /\ \A r \in ShiftRow : DOMAIN r = {"status", "openedAt", "closedAt", "counted", "reconciled"}
      /\ \A r \in [at : Nat, from : Shifts] : DOMAIN r = {"at", "from"}
      BY DEF ShiftRow
<1>   QED BY <1>1, <1>2 DEF Exists

-----------------------------------------------------------------------------
(* The inductive invariant                                                  *)

RowsTyped ==
    /\ clock \in Nat
    /\ shift \in [Shifts -> ShiftRow \cup {NoRow}]
    /\ moved \in [Movements -> Shifts \cup {NoShift}]
    /\ soldAt \in [CashSales -> Nat]
    /\ refunded \in [Refunds -> [at : Nat, from : Shifts] \cup {NoRow}]

Typed ==
    /\ TypeOK
    /\ stamp \in [Txns -> Nat]
    /\ drawer \in [Txns -> Shifts \cup {NoShift}]
    /\ seen \in [Txns -> SUBSET Entries]

\* Nothing has happened after now.
ClockInv ==
    /\ \A t \in Txns : stamp[t] <= clock
    /\ \A s \in Shifts : Exists(shift[s]) => /\ shift[s].openedAt <= clock
                                             /\ shift[s].closedAt <= clock
    /\ \A o \in CashSales : soldAt[o] <= clock
    /\ \A o \in Refunds : Exists(refunded[o]) => refunded[o].at <= clock

StageInv ==
    \A t \in Txns : /\ pc[t] = "insert" => OpOf[t] \in Shifts
                    /\ pc[t] = "timed" => OpOf[t] \in CashSales
                    /\ pc[t] = "locked" => OpOf[t] \in Movements \cup Refunds \cup Closings
                    /\ pc[t] = "counted" => OpOf[t] \in OfKind("paid_out") \cup Closings

\* A request at work is the only copy of its operation, which has no row yet.
CopyInv ==
    /\ OperationHeld(Sent, Stages)
    /\ \A t \in Txns : OpOf[t] \in Sent /\ pc[t] \in Stages => ~Done(OpOf[t])

\* A request that has computed the cash of a drawer holds it, and cash sales are all
\* that has come since.
DrawerInv ==
    \A t \in Txns : pc[t] \in {"locked", "counted"} =>
        /\ drawer[t] \in Shifts
        /\ \A s \in Shifts : drawer[t] = s =>
              /\ Exists(shift[s]) /\ Req[s].till = Req[OpOf[t]].till
              /\ Asked(t, Shift(s))
              /\ pc[t] = "counted" =>
                    /\ Open(s) /\ Holds(t, Shift(s))
                    /\ seen[t] \subseteq Counted(s) /\ Counted(s) \ seen[t] \subseteq CashSales

OneOpenShift ==
    \A s, r \in Shifts : Open(s) /\ Open(r) /\ Req[s].till = Req[r].till => s = r

RefundInv ==
    \A o \in Refunds, s \in Shifts : Exists(refunded[o]) /\ refunded[o].from = s =>
        Exists(shift[s]) /\ o \in Counted(s)

CloseInv ==
    \A s \in Shifts : Exists(shift[s]) /\ ~Open(s) =>
        /\ shift[s].reconciled \subseteq Counted(s)
        /\ Counted(s) \ shift[s].reconciled \subseteq CashSales

TillInv ==
    /\ Typed /\ ClockInv /\ StageInv /\ CopyInv /\ DrawerInv
    /\ OneOpenShift /\ RefundInv /\ CloseInv
-----------------------------------------------------------------------------
(* Cash                                                                     *)

LEMMA Figures ==
    /\ IsFiniteSet(Entries) /\ \A S : S \subseteq Entries => IsFiniteSet(S)
    /\ \A o \in Entries : Amount[o] \in Int
    /\ \A o \in CashSales : o \in Entries /\ Amount[o] \in Nat
    /\ \A o \in OfKind("paid_out") : o \in Entries /\ o \in Movements /\ Amount[o] = -Req[o].amount
    /\ \A s : Counted(s) \subseteq Entries
PROOF
<1>1. Entries \subseteq Ops
      BY DEF Entries, CashSales, Refunds, Movements, OfKind
<1>2. IsFiniteSet(Entries) /\ \A S : S \subseteq Entries => IsFiniteSet(S)
      BY <1>1, TillAssumption, FS_Subset
<1>3. \A o \in Entries : Req[o].amount \in Nat
      BY Kinds DEF Entries
<1>4. \A o \in Entries : Req[o].amount \in Int /\ -Req[o].amount \in Int
      BY <1>3
<1>5. \A o \in Entries : Amount[o] \in Int
      BY <1>4 DEF Amount
<1>6. \A o \in CashSales : o \in Entries /\ Amount[o] = Req[o].amount
      BY DEF Amount, Entries, CashSales, OfKind
<1>7. \A o \in OfKind("paid_out") : o \in Entries /\ o \in Movements /\ Amount[o] = -Req[o].amount
      BY DEF Amount, Entries, Movements, OfKind
<1>8. \A s : Counted(s) \subseteq Entries
      BY DEF Counted, CashSalesIn, CashRefundsIn, MovementsOf, Entries
<1>   QED BY <1>2, <1>3, <1>5, <1>6, <1>7, <1>8

LEMMA CashIsInt ==
    \A s \in Shifts : \A S : S \subseteq Entries => Cash(s, S) \in Int
PROOF
<1>1. \A S : S \subseteq Entries => SumFunctionOnSet(Amount, S) \in Int
  <2> SUFFICES ASSUME NEW S, S \subseteq Entries PROVE SumFunctionOnSet(Amount, S) \in Int
        OBVIOUS
  <2>   QED BY Figures, SumInt
<1>2. \A s \in Shifts : Req[s].amount \in Nat
      BY Kinds
<1>   QED BY <1>1, <1>2 DEF Cash

-----------------------------------------------------------------------------
(* What a step does to the rows, and who does it                            *)

\* t, the only copy of o, writes its row and ends
Writes(t, o) == t \in Txns /\ OpOf[t] = o /\ pc[t] \in Stages /\ pc'[t] = "done"

WasOpened(t, o) ==
    /\ RowsTyped'
    /\ Writes(t, o) /\ o \in Shifts /\ ~Exists(shift[o])
    /\ \A s \in Shifts : Open(s) => Req[s].till # Req[o].till
    /\ shift'[o] \in ShiftRow /\ shift'[o].status = "open"
    /\ shift'[o].openedAt <= clock /\ shift'[o].closedAt <= clock
    /\ \A s \in Shifts \ {o} : shift'[s] = shift[s]
    /\ UNCHANGED <<moved, soldAt, refunded, clock>>

\* t, which has computed the cash of s, closes it
WasClosed(t, s) ==
    /\ RowsTyped'
    /\ t \in Txns /\ pc[t] = "counted" /\ pc'[t] = "done" /\ s = drawer[t]
    /\ s \in Shifts /\ Open(s)
    /\ shift'[s] \in ShiftRow /\ shift'[s].status = "closed"
    /\ shift'[s].openedAt = shift[s].openedAt /\ shift'[s].closedAt = Now
    /\ shift'[s].reconciled = seen[t]
    /\ \A r \in Shifts \ {s} : shift'[r] = shift[r]
    /\ clock' = Now /\ UNCHANGED <<moved, soldAt, refunded>>

\* t, which holds s, moves cash
WasMoved(t, o, s) ==
    /\ RowsTyped'
    /\ Writes(t, o) /\ o \in Movements /\ s \in Shifts /\ s = drawer[t]
    /\ moved[o] = NoShift /\ moved'[o] = s
    /\ \A x \in Movements \ {o} : moved'[x] = moved[x]
    /\ Open(s) /\ Holds(t, Shift(s))
    /\ o \in OfKind("paid_out") => pc[t] = "counted" /\ Req[o].amount <= Cash(s, seen[t])
    /\ UNCHANGED <<shift, soldAt, refunded, clock>>

WasRefunded(t, o, s) ==
    /\ RowsTyped'
    /\ Writes(t, o) /\ o \in Refunds /\ s \in Shifts /\ s = drawer[t]
    /\ ~Exists(refunded[o]) /\ refunded'[o] = [at |-> Now, from |-> s]
    /\ \A x \in Refunds \ {o} : refunded'[x] = refunded[x]
    /\ Open(s) /\ Holds(t, Shift(s)) /\ Req[s].till = Req[o].till
    /\ clock' = Now /\ UNCHANGED <<shift, moved, soldAt>>

WasSold(t, o) ==
    /\ RowsTyped'
    /\ Writes(t, o) /\ o \in CashSales
    /\ soldAt[o] = Never /\ soldAt'[o] <= clock
    /\ \A x \in CashSales \ {o} : soldAt'[x] = soldAt[x]
    /\ UNCHANGED <<shift, moved, refunded, clock>>

\* What t works on under the lock of its drawer.
LEMMA HasDrawer ==
    ASSUME Typed, DrawerInv, NEW t \in Txns, pc[t] \in {"locked", "counted"}, ~Blocked(t)
    PROVE  /\ drawer[t] \in Shifts /\ Exists(shift[drawer[t]])
           /\ Req[drawer[t]].till = Req[OpOf[t]].till /\ Holds(t, Shift(drawer[t]))
PROOF
<1>1. QueueTypeOK
      BY DEF Typed, TypeOK, RequestsTypeOK
<1>2. /\ drawer[t] \in Shifts /\ Exists(shift[drawer[t]])
      /\ Req[drawer[t]].till = Req[OpOf[t]].till
      /\ Asked(t, Shift(drawer[t]))
      BY DEF DrawerInv
<1>   QED BY <1>1, <1>2, NotBlockedHolds

LEMMA OpeningWrites ==
    ASSUME Typed, ClockInv, StageInv, CopyInv, NEW t \in Txns, InsertShift(t)
    PROVE  WasOpened(t, OpOf[t])
PROOF
<1> DEFINE o == OpOf[t]
           row == [status |-> "open", openedAt |-> stamp[t], closedAt |-> Never,
                   counted |-> 0, reconciled |-> {}]
<1>1. pc[t] = "insert" /\ pc \in [Txns -> {"unsent", "idle", "lookup", "working", "done",
                                           "insert", "locked", "counted", "timed"}]
      /\ shift \in [Shifts -> ShiftRow \cup {NoRow}] /\ stamp[t] \in Nat /\ clock \in Nat
      BY DEF InsertShift, At, Typed, TypeOK, RequestsTypeOK
<1>2. o \in Shifts /\ o \in Sent /\ ~Exists(shift[o])
      BY <1>1, Kinds, DoneMeans DEF StageInv, CopyInv, Stages
<1>3. Writes(t, o)
      BY <1>1 DEF Writes, Stages, InsertShift, End, Goto
<1>4. row \in ShiftRow /\ row.status = "open" /\ row.openedAt <= clock /\ row.closedAt <= clock
      BY <1>1 DEF ShiftRow, ClockInv, Never
<1>5. shift'[o] = row /\ \A s \in Shifts \ {o} : shift'[s] = shift[s]
      BY <1>1, <1>2 DEF InsertShift
<1>6. OpenShifts(Req[o].till) = {}
      BY DEF InsertShift, AlreadyOpen
<1>7. \A s \in Shifts : Open(s) => Req[s].till # Req[o].till
      BY <1>6 DEF OpenShifts
<1> HIDE DEF row
<1>8. RowsTyped'
      BY <1>1, <1>2, <1>4 DEF RowsTyped, Typed, TypeOK, InsertShift, row
<1>   QED BY <1>2, <1>3, <1>4, <1>5, <1>7, <1>8 DEF WasOpened, InsertShift

LEMMA ClosingWrites ==
    ASSUME Typed, DrawerInv, NEW t \in Txns, CloseShift(t)
    PROVE  WasClosed(t, drawer[t])
PROOF
<1> DEFINE s == drawer[t]
           row == [shift[s] EXCEPT !.status = "closed", !.closedAt = Now,
                                   !.counted = Req[OpOf[t]].counted, !.reconciled = seen[t]]
<1>1. /\ pc[t] = "counted" /\ clock \in Nat /\ seen[t] \in SUBSET Entries
      /\ pc \in [Txns -> {"unsent", "idle", "lookup", "working", "done",
                          "insert", "locked", "counted", "timed"}]
      /\ shift \in [Shifts -> ShiftRow \cup {NoRow}] /\ OpOf[t] \in Closings
      BY DEF CloseShift, At, Typed, TypeOK, RequestsTypeOK
<1>2. s \in Shifts /\ Open(s) /\ shift[s] \in ShiftRow
      BY <1>1 DEF DrawerInv, Open, Exists
<1>3. Req[OpOf[t]].counted \in Nat
      BY <1>1, Kinds
<1>4. /\ row \in ShiftRow /\ row.status = "closed" /\ row.openedAt = shift[s].openedAt
      /\ row.closedAt = Now /\ row.reconciled = seen[t]
  <2> DEFINE old == shift[s]
             count == Req[OpOf[t]].counted
             entries == seen[t]
  <2>1. old \in ShiftRow /\ count \in Nat /\ entries \in SUBSET Entries /\ Now \in Nat
        BY <1>1, <1>2, <1>3 DEF Now
  <2> HIDE DEF old, count, entries
  <2>2. \A now \in Nat : LET r == [old EXCEPT !.status = "closed", !.closedAt = now,
                                              !.counted = count, !.reconciled = entries]
                         IN  /\ r \in ShiftRow /\ r.status = "closed" /\ r.openedAt = old.openedAt
                             /\ r.closedAt = now /\ r.reconciled = entries
        BY <2>1 DEF ShiftRow
  <2>   QED BY <2>1, <2>2 DEF old, count, entries
<1>5. shift'[s] = row /\ \A r \in Shifts \ {s} : shift'[r] = shift[r]
      BY <1>1, <1>2 DEF CloseShift
<1>6. pc'[t] = "done"
      BY <1>1 DEF CloseShift, End, Goto
<1>7. shift' = [shift EXCEPT ![s] = row]
      BY <1>1, <1>2 DEF CloseShift
<1> HIDE DEF row
<1>8. RowsTyped'
      BY <1>1, <1>2, <1>4, <1>7 DEF RowsTyped, Typed, TypeOK, CloseShift, Tick, Now
<1>   QED BY <1>1, <1>2, <1>4, <1>5, <1>6, <1>8 DEF WasClosed, CloseShift, Tick

LEMMA MovementWrites ==
    ASSUME Typed, StageInv, CopyInv, DrawerInv, NEW t \in Txns, RecordCashMovement(t)
    PROVE  WasMoved(t, OpOf[t], drawer[t])
PROOF
<1> DEFINE o == OpOf[t]
           s == drawer[t]
<1>1. /\ pc \in [Txns -> {"unsent", "idle", "lookup", "working", "done",
                          "insert", "locked", "counted", "timed"}]
      /\ moved \in [Movements -> Shifts \cup {NoShift}] /\ clock \in Nat
      /\ pc[t] \in {"locked", "counted"} /\ ~Blocked(t) /\ pc'[t] = "done"
      BY DEF RecordCashMovement, Locked, At, End, Goto, Typed, TypeOK, RequestsTypeOK
<1>2. s \in Shifts /\ Holds(t, Shift(s))
      BY <1>1, HasDrawer
<1>3. o \in Movements
      BY TillAssumption DEF RecordCashMovement, Locked, Movements, OfKind
<1>4. Open(s)
      BY <1>1 DEF RecordCashMovement, Locked, ClosedMeanwhile, DrawerInv, At
<1>5. moved[o] = NoShift
      BY <1>1, <1>3, Kinds, DoneMeans DEF CopyInv, Stages
<1>6. moved'[o] = s /\ \A x \in Movements \ {o} : moved'[x] = moved[x]
      BY <1>1, <1>3 DEF RecordCashMovement
<1>7. Writes(t, o)
      BY <1>1 DEF Writes, Stages
<1>8. ASSUME o \in OfKind("paid_out")
      PROVE  pc[t] = "counted" /\ ~(Req[o].amount > Cash(s, seen[t]))
      BY <1>8 DEF RecordCashMovement, Overdrawn, Locked, At, OfKind
<1>9. \A S : S \subseteq Entries => Cash(s, S) \in Int
      BY <1>2, CashIsInt
<1>10. o \in OfKind("paid_out") => Req[o].amount <= Cash(s, seen[t])
  <2>1. seen[t] \subseteq Entries
        BY DEF Typed
  <2>2. Cash(s, seen[t]) \in Int /\ Req[o].amount \in Int
        BY <1>3, <1>9, <2>1, Kinds
  <2>   QED BY <1>8, <2>2
<1>11. RowsTyped'
      BY <1>1, <1>2, <1>3 DEF RowsTyped, Typed, TypeOK, RecordCashMovement
<1>   QED BY <1>2, <1>3, <1>4, <1>5, <1>6, <1>7, <1>8, <1>10, <1>11 DEF WasMoved, RecordCashMovement

LEMMA RefundWrites ==
    ASSUME Typed, CopyInv, DrawerInv, NEW t \in Txns, RefundCash(t)
    PROVE  WasRefunded(t, OpOf[t], drawer[t])
PROOF
<1> DEFINE o == OpOf[t]
           s == drawer[t]
<1>1. /\ pc \in [Txns -> {"unsent", "idle", "lookup", "working", "done",
                          "insert", "locked", "counted", "timed"}]
      /\ refunded \in [Refunds -> [at : Nat, from : Shifts] \cup {NoRow}]
      /\ pc[t] = "locked" /\ ~Blocked(t) /\ pc'[t] = "done"
      BY DEF RefundCash, Locked, At, End, Goto, Typed, TypeOK, RequestsTypeOK
<1>2. s \in Shifts /\ Holds(t, Shift(s)) /\ Req[s].till = Req[o].till /\ Exists(shift[s])
      BY <1>1, HasDrawer
<1>3. o \in Refunds
      BY TillAssumption DEF RefundCash, Locked, Refunds, OfKind
<1>4. Open(s)
      BY DEF RefundCash, Locked, ClosedMeanwhile
<1>5. ~Exists(refunded[o])
      BY <1>1, <1>3, Kinds, DoneMeans DEF CopyInv, Stages
<1>6. refunded'[o] = [at |-> Now, from |-> s] /\ \A x \in Refunds \ {o} : refunded'[x] = refunded[x]
      BY <1>1, <1>3 DEF RefundCash
<1>7. Writes(t, o)
      BY <1>1 DEF Writes, Stages
<1>8. RowsTyped'
  <2>1. clock \in Nat /\ Now \in Nat
        BY DEF Typed, TypeOK, Now
  <2>   QED BY <1>1, <1>2, <1>3, <2>1 DEF RowsTyped, Typed, TypeOK, RefundCash, Tick
<1>   QED BY <1>2, <1>3, <1>4, <1>5, <1>6, <1>7, <1>8 DEF WasRefunded, RefundCash, Tick

LEMMA SaleWrites ==
    ASSUME Typed, ClockInv, StageInv, CopyInv, NEW t \in Txns, CommitSale(t)
    PROVE  WasSold(t, OpOf[t])
PROOF
<1> DEFINE o == OpOf[t]
<1>1. /\ pc \in [Txns -> {"unsent", "idle", "lookup", "working", "done",
                          "insert", "locked", "counted", "timed"}]
      /\ soldAt \in [CashSales -> Nat] /\ pc[t] = "timed" /\ pc'[t] = "done"
      BY DEF CommitSale, At, End, Goto, Typed, TypeOK, RequestsTypeOK
<1>2. o \in CashSales
      BY <1>1 DEF StageInv
<1>3. soldAt[o] = Never
      BY <1>1, <1>2, Kinds, DoneMeans DEF CopyInv, Stages
<1>4. soldAt'[o] = stamp[t] /\ \A x \in CashSales \ {o} : soldAt'[x] = soldAt[x]
      BY <1>1, <1>2 DEF CommitSale
<1>5. Writes(t, o)
      BY <1>1 DEF Writes, Stages
<1>6. RowsTyped'
      BY <1>1, <1>2 DEF RowsTyped, Typed, TypeOK, CommitSale
<1>   QED BY <1>2, <1>3, <1>4, <1>5, <1>6 DEF WasSold, CommitSale, ClockInv

\* A step leaves the rows alone or is one of the five.
LEMMA Steps ==
    ASSUME Typed, ClockInv, StageInv, CopyInv, DrawerInv, [Next]_vars
    PROVE  \/ UNCHANGED rows /\ clock' \in {clock, Now}
           \/ \E t \in Txns, o \in Shifts : WasOpened(t, o)
           \/ \E t \in Txns, s \in Shifts : WasClosed(t, s)
           \/ \E t \in Txns, o \in Movements, s \in Shifts : WasMoved(t, o, s)
           \/ \E t \in Txns, o \in Refunds, s \in Shifts : WasRefunded(t, o, s)
           \/ \E t \in Txns, o \in CashSales : WasSold(t, o)
PROOF
<1>1. CASE \E t \in Txns : \/ Arrive(t) \/ Again(t) \/ Die(t) \/ RefuseOpening(t)
                           \/ LockShift(t) \/ RefuseWithoutShift(t) \/ ComputeCash(t)
                           \/ RefuseOverdraft(t) \/ CloseAgain(t)
      BY <1>1 DEF Arrive, Again, Die, RefuseOpening, LockShift, RefuseWithoutShift, ComputeCash,
                  RefuseOverdraft, CloseAgain
<1>2. CASE \E t \in Txns : PrepareShift(t) \/ TimeSale(t)
      BY <1>2 DEF PrepareShift, TimeSale, Stamp, Tick
<1>3. CASE \E t \in Txns : \/ InsertShift(t) \/ CloseShift(t) \/ RecordCashMovement(t)
                           \/ RefundCash(t) \/ CommitSale(t)
  <2>1. PICK t \in Txns : \/ InsertShift(t) \/ CloseShift(t) \/ RecordCashMovement(t)
                          \/ RefundCash(t) \/ CommitSale(t)
        BY <1>3
  <2>2. \/ WasOpened(t, OpOf[t]) \/ WasClosed(t, drawer[t]) \/ WasSold(t, OpOf[t])
        \/ WasMoved(t, OpOf[t], drawer[t]) \/ WasRefunded(t, OpOf[t], drawer[t])
        BY <2>1, OpeningWrites, ClosingWrites, MovementWrites, RefundWrites, SaleWrites
  <2>   QED BY <2>2 DEF WasOpened, WasClosed, WasMoved, WasRefunded, WasSold
<1>4. CASE UNCHANGED vars
      BY <1>4 DEF vars, rows
<1>   QED BY <1>1, <1>2, <1>3, <1>4 DEF Next
-----------------------------------------------------------------------------
(* What a step does to the figures of a drawer                              *)

LEMMA RowTypes ==
    ASSUME Typed
    PROVE  /\ clock \in Nat /\ Now \in Nat /\ Now > clock /\ QueueTypeOK
           /\ pc \in [Txns -> {"unsent", "idle", "lookup", "working", "done",
                               "insert", "locked", "counted", "timed"}]
           /\ shift \in [Shifts -> ShiftRow \cup {NoRow}]
           /\ moved \in [Movements -> Shifts \cup {NoShift}]
           /\ soldAt \in [CashSales -> Nat]
           /\ refunded \in [Refunds -> [at : Nat, from : Shifts] \cup {NoRow}]
           /\ \A s \in Shifts : Exists(shift[s]) => shift[s] \in ShiftRow
           /\ \A o \in Refunds : Exists(refunded[o]) => refunded[o] \in [at : Nat, from : Shifts]
PROOF
<1>1. clock \in Nat /\ Now = clock + 1
      BY DEF Typed, TypeOK, Now
<1>2. Now \in Nat /\ Now > clock
      BY <1>1
<1>   QED BY <1>1, <1>2 DEF Typed, TypeOK, RequestsTypeOK, Exists

LEMMA OpenedCounts ==
    ASSUME NEW t, NEW o, WasOpened(t, o), NEW s \in Shifts, s # o
    PROVE  Counted(s)' = Counted(s)
PROOF BY DEF WasOpened, Counted, CashSalesIn, CashRefundsIn, MovementsOf, InShift

LEMMA ClosedCounts ==
    ASSUME Typed, ClockInv, NEW t, NEW c, WasClosed(t, c), NEW s \in Shifts
    PROVE  Counted(s)' = Counted(s)
PROOF
<1>1. \A at \in Nat : at <= clock => (InShift(s, at)' <=> InShift(s, at))
  <2>1. CASE s # c
        BY <2>1 DEF WasClosed, InShift
  <2>2. CASE s = c
    <3>1. /\ shift'[c].status = "closed" /\ shift[c].status = "open"
          /\ shift'[c].openedAt = shift[c].openedAt /\ shift'[c].closedAt = Now
          BY DEF WasClosed, Open
    <3>2. \A at \in Nat : at <= clock => at <= Now
          BY RowTypes
    <3>   QED BY <2>2, <3>1, <3>2 DEF InShift
  <2>   QED BY <2>1, <2>2
<1>2. \A o \in CashSales : soldAt[o] \in Nat /\ soldAt[o] <= clock
      BY RowTypes DEF ClockInv
<1>3. \A o \in Refunds : Exists(refunded[o]) => refunded[o].at \in Nat /\ refunded[o].at <= clock
      BY RowTypes DEF ClockInv
<1>4. UNCHANGED <<moved, soldAt, refunded>>
      BY DEF WasClosed
<1>   QED BY <1>1, <1>2, <1>3, <1>4 DEF Counted, CashSalesIn, CashRefundsIn, MovementsOf

LEMMA MovedCounts ==
    ASSUME NEW t, NEW o, NEW m, WasMoved(t, o, m), NEW s \in Shifts
    PROVE  /\ Counted(s)' = IF s = m THEN Counted(s) \cup {o} ELSE Counted(s)
           /\ o \notin Counted(s)
PROOF
<1>1. /\ o \in Movements /\ moved[o] = NoShift /\ moved'[o] = m
      /\ \A x \in Movements \ {o} : moved'[x] = moved[x]
      BY DEF WasMoved
<1>2. s # NoShift
      BY TillAssumption DEF Shifts, OfKind
<1>3. MovementsOf(s)' = IF s = m THEN MovementsOf(s) \cup {o} ELSE MovementsOf(s)
      BY <1>1, <1>2 DEF MovementsOf
<1>4. UNCHANGED <<shift, soldAt, refunded>>
      BY DEF WasMoved
<1>5. CashSalesIn(s)' = CashSalesIn(s) /\ CashRefundsIn(s)' = CashRefundsIn(s)
      BY <1>4 DEF CashSalesIn, CashRefundsIn, InShift
<1>6. o \notin Counted(s)
      BY <1>1, <1>2, Kinds DEF Counted, MovementsOf, CashSalesIn, CashRefundsIn
<1>   QED BY <1>3, <1>5, <1>6 DEF Counted

LEMMA RefundedCounts ==
    ASSUME Typed, ClockInv, OneOpenShift, NEW t, NEW o, NEW r, WasRefunded(t, o, r),
           NEW s \in Shifts, Exists(shift[s])
    PROVE  Counted(s)' = IF s = r THEN Counted(s) \cup {o} ELSE Counted(s)
PROOF
<1>1. /\ o \in Refunds /\ ~Exists(refunded[o]) /\ refunded'[o] = [at |-> Now, from |-> r]
      /\ \A x \in Refunds \ {o} : refunded'[x] = refunded[x]
      /\ r \in Shifts /\ Open(r) /\ Req[r].till = Req[o].till
      /\ UNCHANGED <<shift, moved, soldAt>>
      BY DEF WasRefunded
<1>2. refunded'[o] \in [at : Nat, from : Shifts] /\ refunded'[o].at = Now
      BY <1>1, RowTypes
<1>3. Exists(refunded'[o])
      BY <1>2, RowsExist
<1>4. InShift(s, Now) <=> Open(s)
  <2>1. shift[s] \in ShiftRow /\ shift[s].openedAt <= clock /\ shift[s].closedAt <= clock
        BY RowTypes DEF ClockInv
  <2>2. /\ shift[s].openedAt \in Nat /\ shift[s].closedAt \in Nat
        /\ shift[s].status \in {"open", "closed"}
        BY <2>1 DEF ShiftRow
  <2>3. shift[s].openedAt <= Now /\ ~(Now <= shift[s].closedAt) /\ Now # Never
        BY <2>1, <2>2, RowTypes DEF Never
  <2>   QED BY <2>2, <2>3 DEF InShift, Open
<1>5. Req[o].till = Req[s].till /\ Open(s) <=> s = r
      BY <1>1 DEF OneOpenShift
<1>6. o \in CashRefundsIn(s)' <=> s = r
      BY <1>1, <1>2, <1>3, <1>4, <1>5 DEF CashRefundsIn, InShift
<1>7. \A x \in Refunds \ {o} : x \in CashRefundsIn(s)' <=> x \in CashRefundsIn(s)
      BY <1>1 DEF CashRefundsIn, InShift
<1>8. o \notin CashRefundsIn(s)
      BY <1>1 DEF CashRefundsIn
<1>9. CashSalesIn(s)' = CashSalesIn(s) /\ MovementsOf(s)' = MovementsOf(s)
      BY <1>1 DEF CashSalesIn, MovementsOf, InShift
<1>10. CashRefundsIn(s)' \subseteq Refunds /\ CashRefundsIn(s) \subseteq Refunds
      BY DEF CashRefundsIn
<1>   QED BY <1>6, <1>7, <1>8, <1>9, <1>10 DEF Counted

LEMMA SoldCounts ==
    ASSUME NEW t, NEW o, WasSold(t, o), NEW s \in Shifts
    PROVE  Counted(s) \subseteq Counted(s)' /\ Counted(s)' \subseteq Counted(s) \cup {o}
PROOF
<1>1. /\ o \in CashSales /\ soldAt[o] = Never
      /\ \A x \in CashSales \ {o} : soldAt'[x] = soldAt[x]
      /\ UNCHANGED <<shift, moved, refunded>>
      BY DEF WasSold
<1>2. CashSalesIn(s) \subseteq CashSalesIn(s)' /\ CashSalesIn(s)' \subseteq CashSalesIn(s) \cup {o}
      BY <1>1 DEF CashSalesIn, InShift
<1>3. CashRefundsIn(s)' = CashRefundsIn(s) /\ MovementsOf(s)' = MovementsOf(s)
      BY <1>1 DEF CashRefundsIn, MovementsOf, InShift
<1>   QED BY <1>2, <1>3 DEF Counted

\* A shift is never forgotten, and nothing leaves its figures.  Only cash sales come
\* into a drawer that the step's own request does not hold.
LEMMA FiguresMove ==
    ASSUME Typed, ClockInv, StageInv, CopyInv, DrawerInv, OneOpenShift, [Next]_vars,
           NEW s \in Shifts, Exists(shift[s])
    PROVE  /\ Exists(shift[s])' /\ Counted(s) \subseteq Counted(s)'
           /\ \/ shift'[s] = shift[s] /\ Counted(s)' \ Counted(s) \subseteq CashSales
              \/ Open(s) /\ \E t \in Txns : Holds(t, Shift(s)) /\ pc'[t] = "done"
PROOF
<1>1. CASE UNCHANGED rows
      BY <1>1 DEF rows, Counted, CashSalesIn, CashRefundsIn, MovementsOf, InShift
<1>2. ASSUME NEW t \in Txns, NEW o \in Shifts, WasOpened(t, o)
      PROVE  shift'[s] = shift[s] /\ Counted(s)' = Counted(s)
      BY <1>2, OpenedCounts DEF WasOpened
<1>3. ASSUME NEW t \in Txns, NEW c \in Shifts, WasClosed(t, c)
      PROVE  /\ Exists(shift[s])' /\ Counted(s)' = Counted(s)
             /\ \/ shift'[s] = shift[s]
                \/ Open(s) /\ Holds(t, Shift(s)) /\ pc'[t] = "done"
  <2>1. Counted(s)' = Counted(s)
        BY <1>3, ClosedCounts
  <2>2. CASE s # c
        BY <1>3, <2>1, <2>2 DEF WasClosed
  <2>3. CASE s = c
        BY <1>3, <2>1, <2>3, RowsExist DEF WasClosed, DrawerInv
  <2>   QED BY <2>2, <2>3
<1>4. ASSUME NEW t \in Txns, NEW o \in Movements, NEW d \in Shifts, WasMoved(t, o, d)
      PROVE  /\ shift'[s] = shift[s] /\ Counted(s) \subseteq Counted(s)'
             /\ \/ Counted(s)' = Counted(s)
                \/ Open(s) /\ Holds(t, Shift(s)) /\ pc'[t] = "done"
      BY <1>4, MovedCounts DEF WasMoved, Writes
<1>5. ASSUME NEW t \in Txns, NEW o \in Refunds, NEW d \in Shifts, WasRefunded(t, o, d)
      PROVE  /\ shift'[s] = shift[s] /\ Counted(s) \subseteq Counted(s)'
             /\ \/ Counted(s)' = Counted(s)
                \/ Open(s) /\ Holds(t, Shift(s)) /\ pc'[t] = "done"
      BY <1>5, RefundedCounts DEF WasRefunded, Writes
<1>6. ASSUME NEW t \in Txns, NEW o \in CashSales, WasSold(t, o)
      PROVE  /\ shift'[s] = shift[s] /\ Counted(s) \subseteq Counted(s)'
             /\ Counted(s)' \ Counted(s) \subseteq CashSales
      BY <1>6, SoldCounts DEF WasSold
<1>   QED BY <1>1, <1>2, <1>3, <1>4, <1>5, <1>6, Steps
-----------------------------------------------------------------------------
(* Every step preserves each part of the invariant                          *)

LEMMA InitTill == Init => TillInv
PROOF
<1> SUFFICES ASSUME Init PROVE TillInv
      OBVIOUS
<1>1. RequestsTypeOK({"insert", "locked", "counted", "timed"})
      BY RequestsInitType DEF Init
<1>2. \A s \in Shifts : ~Exists(shift[s])
      BY DEF Init, Exists
<1>3. \A o \in Refunds : ~Exists(refunded[o])
      BY DEF Init, Exists
<1>4. \A t \in Txns : pc[t] \in {"unsent", "idle"}
      BY DEF Init, RequestsInit
<1>5. TypeOK
      BY <1>1, <1>2 DEF Init, TypeOK, Never
<1>6. Typed
      BY <1>5 DEF Init, Typed, Never
<1>7. ClockInv
      BY <1>2, <1>3 DEF Init, ClockInv, Never
<1>8. StageInv /\ CopyInv /\ DrawerInv
      BY <1>4 DEF StageInv, CopyInv, OperationHeld, DrawerInv, Stages
<1>9. OneOpenShift /\ RefundInv /\ CloseInv
      BY <1>2, <1>3 DEF OneOpenShift, RefundInv, CloseInv, Open
<1>   QED BY <1>6, <1>7, <1>8, <1>9 DEF TillInv

\* how one request's step changes what belongs to a request
LEMMA RequestSteps ==
    ASSUME [Next]_vars
    PROVE  \/ UNCHANGED <<pc, answer, queue, stamp, drawer, seen>> /\ UNCHANGED rows
           \/ \E t \in Txns :
                 \/ /\ Begin(t, There(t)) /\ OpOf[t] \in Sent
                    /\ UNCHANGED <<rows, stamp, drawer, seen>>
                 \/ /\ Lookup(t, There(t)) /\ UNCHANGED <<rows, stamp, drawer, seen>>
                 \/ /\ Start(t) /\ OpOf[t] \in Closings
                    /\ UNCHANGED <<rows, stamp, drawer, seen>>
                 \/ /\ \E what \in {"none", "created", "replayed", "refused"} : End(t, what)
                    /\ UNCHANGED <<stamp, drawer, seen>>
                 \/ PrepareShift(t) \/ TimeSale(t) \/ LockShift(t) \/ ComputeCash(t)
PROOF
<1>1. CASE \E t \in Txns : Arrive(t) \/ Again(t)
  <2>1. PICK t \in Txns : Arrive(t) \/ Again(t)
        BY <1>1
  <2>2. OpOf[t] \notin Closings => OpOf[t] \in Sent
        BY TillAssumption DEF Sent
  <2>   QED BY <2>1, <2>2 DEF Arrive, Again, local
<1>2. CASE \E t \in Txns : \/ Die(t) \/ RefuseOpening(t) \/ InsertShift(t)
                           \/ RefuseWithoutShift(t) \/ RefuseOverdraft(t) \/ CloseAgain(t)
                           \/ RecordCashMovement(t) \/ CloseShift(t) \/ RefundCash(t)
                           \/ CommitSale(t)
      BY <1>2 DEF Die, RefuseOpening, InsertShift, RefuseWithoutShift, RefuseOverdraft, CloseAgain,
                  RecordCashMovement, CloseShift, RefundCash, CommitSale, local
<1>3. CASE \E t \in Txns : PrepareShift(t) \/ TimeSale(t) \/ LockShift(t) \/ ComputeCash(t)
      BY <1>3
<1>4. CASE UNCHANGED vars
      BY <1>4 DEF vars, requests, local
<1>   QED BY <1>1, <1>2, <1>3, <1>4 DEF Next

LEMMA StepTypes ==
    ASSUME Typed, ClockInv, StageInv, CopyInv, DrawerInv, [Next]_vars
    PROVE  Typed'
PROOF
<1> DEFINE more == {"insert", "locked", "counted", "timed"}
           Later == \A s \in Shifts : Exists(shift'[s]) /\ shift'[s].status # "open" =>
                        shift'[s].openedAt < shift'[s].closedAt
           Own == /\ stamp' \in [Txns -> Nat] /\ drawer' \in [Txns -> Shifts \cup {NoShift}]
                  /\ seen' \in [Txns -> SUBSET Entries]
<1>1. RequestsTypeOK(more)
      BY DEF Typed, TypeOK
<1>2. RequestsTypeOK(more)'
  <2>1. CASE UNCHANGED <<pc, answer, queue, stamp, drawer, seen>>
        BY <1>1, <2>1 DEF RequestsTypeOK, QueueTypeOK
  <2>2. ASSUME NEW t \in Txns,
               \/ \E there : Begin(t, there) \/ Lookup(t, there)
               \/ \E what \in {"none", "created", "replayed", "refused"} : End(t, what)
        PROVE  RequestsTypeOK(more)'
        BY <1>1, <2>2, RequestStepType
  <2>3. ASSUME NEW t \in Txns,
               Start(t) \/ PrepareShift(t) \/ TimeSale(t) \/ LockShift(t) \/ ComputeCash(t)
        PROVE  RequestsTypeOK(more)'
    <3>1. /\ \E stage \in {"working"} \cup more : Goto(t, stage)
          /\ UNCHANGED answer /\ (UNCHANGED queue \/ \E l : Ask(t, l))
          BY <2>3 DEF Start, PrepareShift, TimeSale, LockShift, ComputeCash
    <3> HIDE DEF more
    <3>   QED BY <1>1, <3>1, RequestStepType
  <2> HIDE DEF more
  <2>   QED BY <2>1, <2>2, <2>3, RequestSteps
<1>3. RowsTyped'
  <2>1. RowsTyped /\ Now \in Nat
        BY RowTypes DEF RowsTyped
  <2>2. CASE UNCHANGED rows /\ clock' \in {clock, Now}
        BY <2>1, <2>2 DEF rows, RowsTyped
  <2>   QED BY <2>2, Steps DEF WasOpened, WasClosed, WasMoved, WasRefunded, WasSold
<1>4. Later
  <2>1. \A s \in Shifts : Exists(shift[s]) /\ shift[s].status # "open" =>
            shift[s].openedAt < shift[s].closedAt
        BY DEF Typed, TypeOK, Open
  <2>2. CASE UNCHANGED shift
        BY <2>1, <2>2
  <2>3. ASSUME NEW t \in Txns, NEW o, WasOpened(t, o) PROVE Later
        BY <2>1, <2>3 DEF WasOpened
  <2>4. ASSUME NEW t \in Txns, NEW c, WasClosed(t, c) PROVE Later
    <3>1. c \in Shifts /\ Exists(shift[c]) /\ shift[c] \in ShiftRow /\ shift[c].openedAt <= clock
          BY <2>4, RowTypes DEF WasClosed, Open, ClockInv
    <3>2. shift[c].openedAt < Now
          BY <3>1, RowTypes DEF ShiftRow
    <3>   QED BY <2>1, <2>4, <3>1, <3>2 DEF WasClosed
  <2>   QED BY <2>2, <2>3, <2>4, Steps DEF rows, WasMoved, WasRefunded, WasSold
<1>5. Own
  <2>1. /\ stamp \in [Txns -> Nat] /\ drawer \in [Txns -> Shifts \cup {NoShift}]
        /\ seen \in [Txns -> SUBSET Entries]
        BY DEF Typed
  <2>2. CASE UNCHANGED <<stamp, drawer, seen>>
        BY <2>1, <2>2
  <2>3. ASSUME NEW t \in Txns, PrepareShift(t) \/ TimeSale(t) PROVE Own
        BY <2>1, <2>3, RowTypes DEF PrepareShift, TimeSale, Stamp
  <2>4. ASSUME NEW t \in Txns, LockShift(t) PROVE Own
    <3>1. WantedShifts(OpOf[t]) \subseteq Shifts
      <4>1. OpOf[t] \in Closings => Req[OpOf[t]].shift \in Shifts
            BY Kinds
      <4>   QED BY <4>1 DEF WantedShifts, OpenShifts
    <3>2. \E s \in Shifts : drawer' = [drawer EXCEPT ![t] = s]
          BY <2>4, <3>1 DEF LockShift
    <3>   QED BY <2>1, <2>4, <3>2 DEF LockShift
  <2>5. ASSUME NEW t \in Txns, ComputeCash(t) PROVE Own
        BY <2>1, <2>5, Figures DEF ComputeCash
  <2>   QED BY <2>2, <2>3, <2>4, <2>5, RequestSteps
<1> HIDE DEF more
<1>6. TypeOK'
      BY <1>2, <1>3, <1>4 DEF TypeOK, RowsTyped, Open, more
<1>   QED BY <1>5, <1>6 DEF Typed
LEMMA StepClock ==
    ASSUME Typed, ClockInv, StageInv, CopyInv, DrawerInv, [Next]_vars
    PROVE  ClockInv'
PROOF
<1>1. /\ clock \in Nat /\ Now = clock + 1
      /\ \A n \in Nat : n <= clock => n <= Now
      BY RowTypes DEF Now
<1>2. clock' \in {clock, Now} /\ clock' \in Nat
  <2>1. clock' = clock \/ clock' = Now
        BY Steps DEF WasOpened, WasClosed, WasMoved, WasRefunded, WasSold
  <2>   QED BY <1>1, <2>1
<1>3. \A n \in Nat : n <= clock => n <= clock'
      BY <1>1, <1>2
<1>4. \A t \in Txns : stamp'[t] <= clock'
  <2>1. \A t \in Txns : stamp[t] \in Nat /\ stamp[t] <= clock
        BY DEF Typed, ClockInv
  <2>2. CASE UNCHANGED stamp
        BY <1>3, <2>1, <2>2
  <2>3. ASSUME NEW u \in Txns, PrepareShift(u) \/ TimeSale(u)
        PROVE  \A t \in Txns : stamp'[t] <= clock'
    <3>1. stamp' = [stamp EXCEPT ![u] = Now] /\ clock' = Now
          BY <2>3 DEF PrepareShift, TimeSale, Stamp, Tick
    <3>2. Now <= Now
          BY <1>1
    <3>3. \A t \in Txns \ {u} : stamp'[t] = stamp[t]
          BY <3>1
    <3>4. stamp'[u] = Now
          BY <3>1 DEF Typed
    <3>   QED BY <1>3, <2>1, <3>1, <3>2, <3>3, <3>4
  <2>   QED BY <2>2, <2>3, RequestSteps DEF LockShift, ComputeCash
<1>5. \A s \in Shifts : Exists(shift'[s]) =>
          shift'[s].openedAt <= clock' /\ shift'[s].closedAt <= clock'
  <2>1. \A s \in Shifts : Exists(shift[s]) =>
            /\ shift[s].openedAt \in Nat /\ shift[s].closedAt \in Nat
            /\ shift[s].openedAt <= clock /\ shift[s].closedAt <= clock
        BY RowTypes DEF ClockInv, ShiftRow
  <2>2. CASE UNCHANGED shift
        BY <1>3, <2>1, <2>2
  <2>3. ASSUME NEW t \in Txns, NEW o, WasOpened(t, o)
        PROVE  \A s \in Shifts : Exists(shift'[s]) =>
                   shift'[s].openedAt <= clock' /\ shift'[s].closedAt <= clock'
        BY <2>1, <2>3 DEF WasOpened
  <2>4. ASSUME NEW t \in Txns, NEW c, WasClosed(t, c)
        PROVE  \A s \in Shifts : Exists(shift'[s]) =>
                   shift'[s].openedAt <= clock' /\ shift'[s].closedAt <= clock'
    <3>1. /\ c \in Shifts /\ clock' = Now /\ shift'[c].closedAt = Now
          /\ shift'[c].openedAt = shift[c].openedAt /\ Exists(shift[c])
          /\ \A s \in Shifts \ {c} : shift'[s] = shift[s]
          BY <2>4 DEF WasClosed, Open
    <3>2. Now <= Now
          BY <1>1
    <3>   QED BY <1>3, <2>1, <3>1, <3>2
  <2>   QED BY <2>2, <2>3, <2>4, Steps DEF rows, WasMoved, WasRefunded, WasSold
<1>6. \A o \in CashSales : soldAt'[o] <= clock'
  <2>1. \A o \in CashSales : soldAt[o] \in Nat /\ soldAt[o] <= clock
        BY RowTypes DEF ClockInv
  <2>2. CASE UNCHANGED soldAt
        BY <1>3, <2>1, <2>2
  <2>3. ASSUME NEW t \in Txns, NEW u, WasSold(t, u)
        PROVE  \A o \in CashSales : soldAt'[o] <= clock'
        BY <1>3, <2>1, <2>3 DEF WasSold
  <2>   QED BY <2>2, <2>3, Steps DEF rows, WasOpened, WasClosed, WasMoved, WasRefunded
<1>7. \A o \in Refunds : Exists(refunded'[o]) => refunded'[o].at <= clock'
  <2>1. \A o \in Refunds : Exists(refunded[o]) => refunded[o].at \in Nat /\ refunded[o].at <= clock
        BY RowTypes DEF ClockInv
  <2>2. CASE UNCHANGED refunded
        BY <1>3, <2>1, <2>2
  <2>3. ASSUME NEW t \in Txns, NEW u, NEW f, WasRefunded(t, u, f)
        PROVE  \A o \in Refunds : Exists(refunded'[o]) => refunded'[o].at <= clock'
    <3>1. /\ refunded'[u].at = Now /\ clock' = Now
          /\ \A o \in Refunds \ {u} : refunded'[o] = refunded[o]
          BY <2>3 DEF WasRefunded
    <3>2. Now <= Now
          BY <1>1
    <3>   QED BY <1>3, <2>1, <3>1, <3>2
  <2>   QED BY <2>2, <2>3, Steps DEF rows, WasOpened, WasClosed, WasMoved, WasSold
<1>   QED BY <1>4, <1>5, <1>6, <1>7 DEF ClockInv

LEMMA StepStage ==
    ASSUME Typed, StageInv, [Next]_vars
    PROVE  StageInv'
PROOF
<1>1. pc \in [Txns -> {"unsent", "idle", "lookup", "working", "done",
                       "insert", "locked", "counted", "timed"}]
      BY RowTypes
<1> DEFINE Fits(t, stage) ==
        /\ stage = "insert" => OpOf[t] \in Shifts
        /\ stage = "timed" => OpOf[t] \in CashSales
        /\ stage = "locked" => OpOf[t] \in Movements \cup Refunds \cup Closings
        /\ stage = "counted" => OpOf[t] \in OfKind("paid_out") \cup Closings
<1>2. \A t \in Txns : Fits(t, pc[t])
      BY DEF StageInv
<1>3. ASSUME NEW t \in Txns, NEW stage, Fits(t, stage), pc' = [pc EXCEPT ![t] = stage]
      PROVE  StageInv'
  <2> HIDE DEF Fits
  <2>1. pc'[t] = stage /\ \A u \in Txns \ {t} : pc'[u] = pc[u]
        BY <1>1, <1>3
  <2>2. \A u \in Txns : Fits(u, pc'[u])
        BY <1>2, <1>3, <2>1
  <2>   QED BY <2>2 DEF StageInv, Fits
<1>4. CASE UNCHANGED pc
      BY <1>2, <1>4 DEF StageInv
<1>5. \A t \in Txns : Fits(t, "lookup") /\ Fits(t, "working") /\ Fits(t, "done")
      OBVIOUS
<1>6. ASSUME NEW t \in Txns, PrepareShift(t) PROVE Fits(t, "insert") /\ pc' = [pc EXCEPT ![t] = "insert"]
      BY <1>6, TillAssumption DEF PrepareShift, Working, Shifts, OfKind, Goto
<1>7. ASSUME NEW t \in Txns, TimeSale(t) PROVE Fits(t, "timed") /\ pc' = [pc EXCEPT ![t] = "timed"]
      BY <1>7, TillAssumption DEF TimeSale, Working, CashSales, OfKind, Goto
<1>8. ASSUME NEW t \in Txns, LockShift(t) PROVE Fits(t, "locked") /\ pc' = [pc EXCEPT ![t] = "locked"]
      BY <1>8, TillAssumption DEF LockShift, Working, Movements, Refunds, Closings, OfKind, Goto
<1>9. ASSUME NEW t \in Txns, ComputeCash(t) PROVE Fits(t, "counted") /\ pc' = [pc EXCEPT ![t] = "counted"]
      BY <1>9, TillAssumption DEF ComputeCash, Locked, Closings, OfKind, Goto
<1> HIDE DEF Fits
<1>10. ASSUME NEW t \in Txns, \/ \E there : Begin(t, there) \/ Lookup(t, there)
                              \/ Start(t) \/ \E what : End(t, what)
       PROVE  StageInv'
       BY <1>3, <1>5, <1>10 DEF Begin, Lookup, LookedUp, Start, End, Goto
<1>   QED BY <1>3, <1>4, <1>6, <1>7, <1>8, <1>9, <1>10, RequestSteps

\* A row that stays as it is says the same of its operation.
LEMMA DoneStays ==
    /\ \A o \in Shifts : shift'[o] = shift[o] => (Done(o)' <=> Done(o))
    /\ \A o \in Movements : moved'[o] = moved[o] => (Done(o)' <=> Done(o))
    /\ \A o \in CashSales : soldAt'[o] = soldAt[o] => (Done(o)' <=> Done(o))
    /\ \A o \in Refunds : refunded'[o] = refunded[o] => (Done(o)' <=> Done(o))
PROOF BY Kinds DEF Done

\* A row is written by the only copy of its operation, which ends with that.
LEMMA DoneMoves ==
    ASSUME Typed, ClockInv, StageInv, CopyInv, DrawerInv, [Next]_vars, NEW o \in Sent, ~Done(o)
    PROVE  ~Done(o)' \/ \E t \in Txns : Writes(t, o)
PROOF
<1>1. CASE o \in Shifts
  <2>1. ~Exists(shift[o])
        BY <1>1, DoneMeans
  <2>2. CASE shift'[o] = shift[o]
        BY <1>1, <2>1, <2>2, DoneStays
  <2>   QED BY <1>1, <2>1, <2>2, Steps DEF rows, WasOpened, WasClosed, WasMoved, WasRefunded, WasSold, Open
<1>2. CASE o \in Movements
  <2>1. CASE moved'[o] = moved[o]
        BY <1>2, <2>1, DoneStays
  <2>   QED BY <1>2, <2>1, Steps DEF rows, WasOpened, WasClosed, WasMoved, WasRefunded, WasSold
<1>3. CASE o \in CashSales
  <2>1. CASE soldAt'[o] = soldAt[o]
        BY <1>3, <2>1, DoneStays
  <2>   QED BY <1>3, <2>1, Steps DEF rows, WasOpened, WasClosed, WasMoved, WasRefunded, WasSold
<1>4. CASE o \in Refunds
  <2>1. CASE refunded'[o] = refunded[o]
        BY <1>4, <2>1, DoneStays
  <2>   QED BY <1>4, <2>1, Steps DEF rows, WasOpened, WasClosed, WasMoved, WasRefunded, WasSold
<1>   QED BY <1>1, <1>2, <1>3, <1>4, Kinds

LEMMA StepCopy ==
    ASSUME Typed, ClockInv, StageInv, CopyInv, DrawerInv, [Next]_vars
    PROVE  CopyInv'
PROOF
<1>1. /\ QueueTypeOK /\ OperationHeld(Sent, Stages)
      /\ pc \in [Txns -> {"unsent", "idle", "lookup", "working", "done",
                          "insert", "locked", "counted", "timed"}]
      BY RowTypes DEF CopyInv
<1>2. "lookup" \notin Stages /\ "done" \notin Stages /\ "idle" \notin Stages
      BY DEF Stages
<1>3. ASSUME NEW t \in Txns, PrepareShift(t) \/ TimeSale(t) \/ LockShift(t) \/ ComputeCash(t)
      PROVE  /\ UNCHANGED queue \/ \E l : Ask(t, l)
             /\ \E stage \in Stages : pc' = [pc EXCEPT ![t] = stage]
             /\ pc[t] \in Stages
      BY <1>3 DEF PrepareShift, TimeSale, LockShift, ComputeCash, Locked, Working, At, Goto, Stages
<1>4. OperationHeld(Sent, Stages)'
  <2>1. CASE UNCHANGED <<pc, answer, queue, stamp, drawer, seen>>
        BY <1>1, <2>1 DEF OperationHeld, Asked, Holds, Free
  <2>2. ASSUME NEW t \in Txns, Begin(t, There(t)) \/ Lookup(t, There(t))
        PROVE  OperationHeld(Sent, Stages)'
        BY <1>1, <1>2, <2>2, BeginHeld, LookupHeld
  <2>3. ASSUME NEW t \in Txns, \E what : End(t, what)
        PROVE  OperationHeld(Sent, Stages)'
        BY <1>1, <1>2, <2>3, LeavingHeld
  <2>4. ASSUME NEW t \in Txns, Start(t), OpOf[t] \in Closings
        PROVE  OperationHeld(Sent, Stages)'
    <3>1. /\ OpOf[t] \notin Sent /\ UNCHANGED queue /\ pc'[t] # "lookup"
          /\ \A u \in Txns \ {t} : pc'[u] = pc[u]
          BY <1>1, <2>4 DEF Sent, Start, Goto
    <3>   QED BY <1>1, <3>1, WorkingHeld
  <2>5. ASSUME NEW t \in Txns, PrepareShift(t) \/ TimeSale(t) \/ LockShift(t) \/ ComputeCash(t)
        PROVE  OperationHeld(Sent, Stages)'
    <3>1. pc'[t] # "lookup" /\ \A u \in Txns \ {t} : pc'[u] = pc[u]
          BY <1>1, <1>2, <1>3, <2>5
    <3>   QED BY <1>1, <1>3, <2>5, <3>1, WorkingHeld
  <2>   QED BY <2>1, <2>2, <2>3, <2>4, <2>5, RequestSteps
<1>5. ASSUME NEW u \in Txns, OpOf[u] \in Sent, pc'[u] \in Stages
      PROVE  ~Done(OpOf[u]) /\ (pc[u] \in Stages \/ UNCHANGED rows)
  <2>1. CASE pc[u] \in Stages
        BY <1>5, <2>1 DEF CopyInv
  <2>2. CASE pc[u] \notin Stages
    <3>1. ASSUME NEW t \in Txns, Begin(t, There(t)) \/ Lookup(t, There(t)), UNCHANGED rows
          PROVE  ~There(u) /\ UNCHANGED rows
          BY <1>1, <1>2, <1>5, <2>2, <3>1 DEF Begin, Lookup, LookedUp, Goto
    <3>2. ASSUME NEW t \in Txns, \E what : End(t, what)
          PROVE  FALSE
          BY <1>1, <1>2, <1>5, <2>2, <3>2 DEF End, Goto
    <3>3. ASSUME NEW t \in Txns, Start(t), OpOf[t] \in Closings
          PROVE  FALSE
          BY <1>1, <1>2, <1>5, <2>2, <3>3 DEF Start, Goto, Sent
    <3>4. ASSUME NEW t \in Txns, PrepareShift(t) \/ TimeSale(t) \/ LockShift(t) \/ ComputeCash(t)
          PROVE  FALSE
          BY <1>1, <1>3, <1>5, <2>2, <3>4
    <3>   QED BY <1>5, <2>2, <3>1, <3>2, <3>3, <3>4, RequestSteps DEF There
  <2>   QED BY <2>1, <2>2
<1>6. ASSUME NEW u \in Txns, OpOf[u] \in Sent, pc'[u] \in Stages
      PROVE  ~Done(OpOf[u])'
  <2>1. ~Done(OpOf[u]) /\ (pc[u] \in Stages \/ UNCHANGED rows)
        BY <1>5, <1>6
  <2>2. CASE UNCHANGED rows
        BY <2>1, <2>2 DEF Done, rows
  <2>3. CASE pc[u] \in Stages
    <3>1. ASSUME NEW t \in Txns, Writes(t, OpOf[u]) PROVE FALSE
      <4>1. OpOf[t] = OpOf[u] /\ pc[t] \in Stages /\ pc'[t] = "done"
            BY <3>1 DEF Writes
      <4>2. t = u
            BY <1>1, <1>6, <2>3, <4>1, OneCopyWorks
      <4>   QED BY <1>2, <1>6, <4>1, <4>2
    <3>   QED BY <1>6, <2>1, <3>1, DoneMoves
  <2>   QED BY <2>1, <2>2, <2>3
<1>   QED BY <1>4, <1>6 DEF CopyInv
\* What a request keeps until it ends: its drawer, what it has computed, its locks.
LEMMA LocalSteps ==
    ASSUME Typed, [Next]_vars, NEW t \in Txns, pc'[t] \in {"locked", "counted"}
    PROVE  \/ /\ pc'[t] = pc[t] /\ drawer'[t] = drawer[t] /\ seen'[t] = seen[t]
              /\ \A k : (Asked(t, k) => Asked(t, k)') /\ (Holds(t, k) => Holds(t, k)')
           \/ LockShift(t)
           \/ ComputeCash(t)
PROOF
<1>1. /\ QueueTypeOK
      /\ pc \in [Txns -> {"unsent", "idle", "lookup", "working", "done",
                          "insert", "locked", "counted", "timed"}]
      /\ drawer \in [Txns -> Shifts \cup {NoShift}] /\ seen \in [Txns -> SUBSET Entries]
      BY RowTypes DEF Typed
<1> DEFINE Kept(u) == /\ pc'[t] = pc[t] /\ drawer'[t] = drawer[t] /\ seen'[t] = seen[t]
                      /\ \/ UNCHANGED queue
                         \/ \E l : Ask(u, l)
                         \/ u # t /\ LeaveAll(u)
<1>2. ASSUME NEW u \in Txns, Kept(u)
      PROVE  \A k : (Asked(t, k) => Asked(t, k)') /\ (Holds(t, k) => Holds(t, k)')
  <2>1. CASE UNCHANGED queue
        BY <2>1 DEF Asked, Holds, Free
  <2>2. CASE \E l : Ask(u, l)
        BY <1>1, <2>2, AskKeeps
  <2>3. CASE u # t /\ LeaveAll(u)
        BY <1>1, <2>3, LeaveKeeps
  <2>   QED BY <1>2, <2>1, <2>2, <2>3
<1>3. CASE UNCHANGED <<pc, answer, queue, stamp, drawer, seen>>
      BY <1>3 DEF Asked, Holds, Free
<1>4. ASSUME NEW u \in Txns, Begin(u, There(u)) \/ Lookup(u, There(u)),
             UNCHANGED <<drawer, seen>>
      PROVE  Kept(u)
  <2>1. /\ \E stage \in {"done", "working", "lookup"} : pc' = [pc EXCEPT ![u] = stage]
        /\ UNCHANGED queue \/ (\E l : Ask(u, l)) \/ LeaveAll(u)
        BY <1>4 DEF Begin, Lookup, LookedUp, Goto
  <2>2. u # t
        BY <1>1, <2>1
  <2>   QED BY <1>1, <1>4, <2>1, <2>2
<1>5. ASSUME NEW u \in Txns, Start(u) \/ \E what : End(u, what), UNCHANGED <<drawer, seen>>
      PROVE  Kept(u)
  <2>1. /\ \E stage \in {"done", "working"} : pc' = [pc EXCEPT ![u] = stage]
        /\ UNCHANGED queue \/ LeaveAll(u)
        BY <1>5 DEF Start, End, Goto
  <2>2. u # t
        BY <1>1, <2>1
  <2>   QED BY <1>1, <1>5, <2>1, <2>2
<1>6. ASSUME NEW u \in Txns, PrepareShift(u) \/ TimeSale(u) PROVE Kept(u)
  <2>1. /\ \E stage \in {"insert", "timed"} : pc' = [pc EXCEPT ![u] = stage]
        /\ UNCHANGED <<queue, drawer, seen>>
        BY <1>6 DEF PrepareShift, TimeSale, Goto
  <2>2. u # t
        BY <1>1, <2>1
  <2>   QED BY <1>1, <2>1, <2>2
<1>7. ASSUME NEW u \in Txns, u # t, LockShift(u) \/ ComputeCash(u) PROVE Kept(u)
  <2>1. /\ \E stage \in {"locked", "counted"} : pc' = [pc EXCEPT ![u] = stage]
        /\ UNCHANGED queue \/ \E l : Ask(u, l)
        /\ UNCHANGED drawer \/ \E s : drawer' = [drawer EXCEPT ![u] = s]
        /\ UNCHANGED seen \/ \E s : seen' = [seen EXCEPT ![u] = s]
        BY <1>7 DEF LockShift, ComputeCash, Goto
  <2>   QED BY <1>1, <1>7, <2>1
<1>8. UNCHANGED <<pc, answer, queue, stamp, drawer, seen>> \/ (\E u \in Txns : Kept(u))
          \/ LockShift(t) \/ ComputeCash(t)
  <2> HIDE DEF Kept
  <2>   QED BY <1>4, <1>5, <1>6, <1>7, RequestSteps
<1>   QED BY <1>2, <1>3, <1>8

LEMMA StepDrawer ==
    ASSUME Typed, ClockInv, StageInv, CopyInv, DrawerInv, OneOpenShift, [Next]_vars
    PROVE  DrawerInv'
PROOF
<1> DEFINE Claim(t, s, figures) ==
               /\ Exists(shift'[s]) /\ Req[s].till = Req[OpOf[t]].till /\ Asked(t, Shift(s))'
               /\ pc'[t] = "counted" =>
                     /\ shift'[s].status = "open" /\ Holds(t, Shift(s))'
                     /\ figures \subseteq Counted(s)' /\ Counted(s)' \ figures \subseteq CashSales
<1>1. ASSUME NEW t \in Txns, pc'[t] \in {"locked", "counted"}
      PROVE  drawer'[t] \in Shifts /\ \A s \in Shifts : drawer'[t] = s => Claim(t, s, seen'[t])
  <2>1. CASE /\ pc'[t] = pc[t] /\ drawer'[t] = drawer[t] /\ seen'[t] = seen[t]
             /\ \A k : (Asked(t, k) => Asked(t, k)') /\ (Holds(t, k) => Holds(t, k)')
    <3>1. PICK s \in Shifts : drawer[t] = s
          BY <1>1, <2>1 DEF DrawerInv
    <3>2. Exists(shift[s]) /\ Req[s].till = Req[OpOf[t]].till /\ Asked(t, Shift(s))
          BY <1>1, <2>1, <3>1 DEF DrawerInv
    <3>3. Exists(shift'[s]) /\ Asked(t, Shift(s))'
          BY <2>1, <3>2, FiguresMove
    <3>4. ASSUME pc[t] = "counted"
          PROVE  /\ shift'[s].status = "open" /\ Holds(t, Shift(s))'
                 /\ seen[t] \subseteq Counted(s)'
                 /\ Counted(s)' \ seen[t] \subseteq CashSales
      <4>1. /\ Open(s) /\ Holds(t, Shift(s)) /\ seen[t] \subseteq Counted(s)
            /\ Counted(s) \ seen[t] \subseteq CashSales
            BY <3>1, <3>4 DEF DrawerInv
      <4>2. ASSUME NEW u \in Txns, Holds(u, Shift(s)), pc'[u] = "done" PROVE FALSE
            BY <2>1, <3>4, <4>1, <4>2, HolderIsOne
      <4>3. /\ Counted(s) \subseteq Counted(s)' /\ shift'[s] = shift[s]
            /\ Counted(s)' \ Counted(s) \subseteq CashSales
            BY <3>2, <4>2, FiguresMove
      <4>   QED BY <2>1, <4>1, <4>3 DEF Open
    <3>   QED BY <2>1, <3>1, <3>2, <3>3, <3>4
  <2>2. CASE LockShift(t)
    <3>1. PICK s \in WantedShifts(OpOf[t]) :
              drawer' = [drawer EXCEPT ![t] = s] /\ Ask(t, Shift(s))
          BY <2>2 DEF LockShift
    <3>2. s \in Shifts /\ Exists(shift[s]) /\ Req[s].till = Req[OpOf[t]].till
      <4>1. OpOf[t] \in Closings => Req[OpOf[t]].shift \in Shifts
            BY Kinds
      <4>   QED BY <3>1, <4>1 DEF WantedShifts, OpenShifts, Open
    <3>3. drawer'[t] = s /\ pc'[t] = "locked"
          BY <2>2, <3>1, RowTypes DEF LockShift, Goto, Typed
    <3>4. Asked(t, Shift(s))' /\ shift' = shift
          BY <2>2, <3>1, RowTypes, AskKeeps DEF LockShift, rows
    <3>   QED BY <3>2, <3>3, <3>4
  <2>3. CASE ComputeCash(t)
    <3>1. /\ pc[t] = "locked" /\ ~Blocked(t) /\ Open(drawer[t])
          /\ UNCHANGED <<queue, drawer>> /\ UNCHANGED rows
          BY <2>3 DEF ComputeCash, Locked, At, ClosedMeanwhile
    <3>2. PICK s \in Shifts : drawer[t] = s
          BY <3>1, HasDrawer
    <3>3. /\ Exists(shift[s]) /\ Req[s].till = Req[OpOf[t]].till /\ shift[s].status = "open"
          /\ Holds(t, Shift(s)) /\ Asked(t, Shift(s))
          BY <3>1, <3>2, HasDrawer, RowTypes, HoldsIsAsked DEF Open
    <3>4. drawer'[t] = s /\ shift'[s] = shift[s] /\ Holds(t, Shift(s))' /\ Asked(t, Shift(s))'
          BY <3>1, <3>2, <3>3 DEF Holds, Asked, Free, rows
    <3>5. Counted(s)' = Counted(s)
          BY <3>1 DEF rows, Counted, CashSalesIn, CashRefundsIn, MovementsOf, InShift
    <3>6. seen'[t] = Counted(s)
          BY <2>3, <3>2 DEF ComputeCash, Typed
    <3>   QED BY <3>2, <3>3, <3>4, <3>5, <3>6
  <2>   QED BY <1>1, <2>1, <2>2, <2>3, LocalSteps
<1>   QED BY <1>1 DEF DrawerInv, Open

LEMMA StepOneOpen ==
    ASSUME Typed, ClockInv, StageInv, CopyInv, DrawerInv, OneOpenShift, [Next]_vars
    PROVE  OneOpenShift'
PROOF
<1> SUFFICES ASSUME NEW s \in Shifts, NEW r \in Shifts, Open(s)', Open(r)', Req[s].till = Req[r].till
             PROVE  s = r
      BY DEF OneOpenShift
<1>1. CASE Open(s) /\ Open(r)
      BY <1>1 DEF OneOpenShift
<1>2. ASSUME NEW x \in Shifts, Open(x)'
      PROVE  \/ Open(x)
             \/ /\ \A y \in Shifts : Open(y) => Req[y].till # Req[x].till
                /\ \A y \in Shifts \ {x} : shift'[y] = shift[y]
  <2>1. CASE shift'[x] = shift[x]
        BY <1>2, <2>1 DEF Open
  <2>2. ASSUME NEW t \in Txns, NEW o \in Shifts, WasOpened(t, o)
        PROVE  \/ Open(x)
               \/ /\ \A y \in Shifts : Open(y) => Req[y].till # Req[x].till
                  /\ \A y \in Shifts \ {x} : shift'[y] = shift[y]
        BY <1>2, <2>1, <2>2 DEF WasOpened
  <2>3. ASSUME NEW t \in Txns, NEW c \in Shifts, WasClosed(t, c)
        PROVE  Open(x)
        BY <1>2, <2>1, <2>3 DEF WasClosed, Open
  <2>   QED BY <2>1, <2>2, <2>3, Steps DEF rows, WasMoved, WasRefunded, WasSold
<1>3. CASE ~Open(s)
      BY <1>2, <1>3 DEF Open
<1>4. CASE ~Open(r)
      BY <1>2, <1>4 DEF Open
<1>   QED BY <1>1, <1>3, <1>4

LEMMA StepRefund ==
    ASSUME Typed, ClockInv, StageInv, CopyInv, DrawerInv, OneOpenShift, RefundInv, [Next]_vars
    PROVE  RefundInv'
PROOF
<1> SUFFICES ASSUME NEW o \in Refunds, NEW s \in Shifts, Exists(refunded'[o]), refunded'[o].from = s
             PROVE  Exists(shift'[s]) /\ o \in Counted(s)'
      BY DEF RefundInv
<1>1. CASE refunded'[o] = refunded[o]
  <2>1. Exists(shift[s]) /\ o \in Counted(s)
        BY <1>1 DEF RefundInv
  <2>   QED BY <2>1, FiguresMove
<1>2. ASSUME NEW t \in Txns, NEW d \in Shifts, WasRefunded(t, o, d)
      PROVE  Exists(shift'[s]) /\ o \in Counted(s)'
  <2>1. d = s /\ Exists(shift[s]) /\ UNCHANGED shift
        BY <1>2 DEF WasRefunded, Open
  <2>   QED BY <1>2, <2>1, RefundedCounts
<1>   QED BY <1>1, <1>2, Steps DEF rows, WasOpened, WasClosed, WasMoved, WasRefunded, WasSold

LEMMA StepClose ==
    ASSUME Typed, ClockInv, StageInv, CopyInv, DrawerInv, OneOpenShift, CloseInv, [Next]_vars
    PROVE  CloseInv'
PROOF
<1> SUFFICES ASSUME NEW s \in Shifts, Exists(shift'[s]), shift'[s].status # "open"
             PROVE  /\ shift'[s].reconciled \subseteq Counted(s)'
                    /\ Counted(s)' \ shift'[s].reconciled \subseteq CashSales
      BY DEF CloseInv, Open
<1>1. CASE Exists(shift[s]) /\ ~Open(s)
  <2>1. /\ shift[s].reconciled \subseteq Counted(s)
        /\ Counted(s) \ shift[s].reconciled \subseteq CashSales
        BY <1>1 DEF CloseInv
  <2>   QED BY <1>1, <2>1, FiguresMove
<1>2. ASSUME NEW t \in Txns, WasClosed(t, s)
      PROVE  /\ shift'[s].reconciled \subseteq Counted(s)'
             /\ Counted(s)' \ shift'[s].reconciled \subseteq CashSales
  <2>1. /\ seen[t] \subseteq Counted(s) /\ Counted(s) \ seen[t] \subseteq CashSales
        /\ shift'[s].reconciled = seen[t]
        BY <1>2 DEF WasClosed, DrawerInv
  <2>   QED BY <1>2, <2>1, ClosedCounts
<1>3. CASE ~Exists(shift[s]) \/ Open(s)
  <2>1. shift'[s] # shift[s]
        BY <1>3 DEF Open
  <2>   QED BY <1>2, <1>3, <2>1, Steps DEF rows, WasOpened, WasClosed, WasMoved, WasRefunded, WasSold
<1>   QED BY <1>1, <1>3

LEMMA StepTill == TillInv /\ [Next]_vars => TillInv'
PROOF BY StepTypes, StepClock, StepStage, StepCopy, StepDrawer, StepOneOpen, StepRefund, StepClose
      DEF TillInv

LEMMA TillAlways == Spec => []TillInv
PROOF BY InitTill, StepTill, PTL DEF Spec

-----------------------------------------------------------------------------
(* What the runs check of the drawer                                        *)

\* The rows keep their types, and a shift is closed after it was opened.
THEOREM TillTypes == Spec => []TypeOK
PROOF
<1>1. TillInv => TypeOK
      BY DEF TillInv, Typed
<1>   QED BY <1>1, TillAlways, PTL

\* uq_till_shifts_open_cashier_branch (models/till.py) is enough: a cashier never has two open
\* shifts at a branch, however many openings are under way.
THEOREM OneShiftOpen == Spec => []OneOpen
PROOF
<1>1. TillInv => OneOpen
  <2> SUFFICES ASSUME OneOpenShift, NEW till \in Tills PROVE Cardinality(OpenShifts(till)) <= 1
        BY DEF TillInv, OneOpen
  <2>1. CASE OpenShifts(till) = {}
        BY <2>1, FS_EmptySet
  <2>2. ASSUME NEW s \in OpenShifts(till) PROVE Cardinality(OpenShifts(till)) <= 1
    <3>1. OpenShifts(till) = {s}
          BY <2>2 DEF OneOpenShift, OpenShifts
    <3>2. Cardinality({s}) = 1
          BY FS_Singleton
    <3>   QED BY <3>1, <3>2
  <2>   QED BY <2>1, <2>2
<1>   QED BY <1>1, TillAlways, PTL

\* No refund commits behind the back of a close (sales_returns.py:423), and all that a close
\* misses is cash sales that had read the clock before it and committed after it.
THEOREM OnlySalesAreMissed == Spec => []OnlySalesMissed
PROOF
<1>1. TillInv => OnlySalesMissed
      BY RowTypes DEF TillInv, RefundInv, CloseInv, OnlySalesMissed
<1>   QED BY <1>1, TillAlways, PTL

\* A cash paid-out that commits was in the drawer: the cash sales that came since it was
\* computed only add to it (till.py:287).
THEOREM PaidOutIsCovered == Spec => PaidOutCovered
PROOF
<1>1. ASSUME TillInv, [Next]_vars, NEW s \in Shifts, NEW o \in OfKind("paid_out"),
             moved'[o] = s, moved[o] # s
      PROVE  ExpectedCash(s)' >= 0
  <2>1. Typed /\ ClockInv /\ StageInv /\ CopyInv /\ DrawerInv
        BY <1>1 DEF TillInv
  <2>2. o \in Movements /\ o \in Entries /\ Amount[o] = -Req[o].amount /\ Amount[o] \in Int
        BY Figures
  <2>3. PICK t \in Txns : WasMoved(t, o, s)
        BY <1>1, <2>1, <2>2, Steps DEF rows, WasOpened, WasClosed, WasMoved, WasRefunded, WasSold
  <2> DEFINE S == Counted(s)
             M == seen[t]
             F(X) == SumFunctionOnSet(Amount, X)
             float == Req[s].amount
             out == Req[o].amount
  <2>4. pc[t] = "counted" /\ s = drawer[t] /\ out <= Cash(s, M)
        BY <2>3 DEF WasMoved
  <2>5. M \subseteq S /\ S \ M \subseteq CashSales /\ S \subseteq Entries
        BY <2>1, <2>4, Figures DEF DrawerInv
  <2>6. IsFiniteSet(S) /\ IsFiniteSet(M) /\ IsFiniteSet(S \ M)
        BY <2>5, Figures
  <2>7. Counted(s)' = S \cup {o} /\ o \notin S
        BY <2>3, MovedCounts
  <2>8. F(S \cup {o}) = Amount[o] + F(S)
    <3>1. \A x \in S \cup {o} : Amount[x] \in Int
          BY <2>2, <2>5, Figures
    <3>   QED BY <2>6, <2>7, <3>1, SumOneMore
  <2>9. F(S) = F(M) + F(S \ M)
    <3>1. \A x \in S : Amount[x] \in Int
          BY <2>5, Figures
    <3>   QED BY <2>5, <2>6, <3>1, SumSplit
  <2>10. F(S \ M) \in Nat
    <3>1. \A x \in S \ M : Amount[x] \in Nat
          BY <2>5, Figures
    <3>   QED BY <2>6, <3>1, SumNat
  <2>11. F(M) \in Int
    <3>1. \A x \in M : Amount[x] \in Int
          BY <2>5, Figures
    <3>   QED BY <2>6, <3>1, SumInt
  <2>12. float \in Nat /\ out \in Nat
        BY <2>2, Kinds
  <2>13. ExpectedCash(s)' = float + F(S \cup {o})
        BY <2>7 DEF ExpectedCash, Cash
  <2>14. out <= float + F(M)
        BY <2>4 DEF Cash
  <2> HIDE DEF S, M, F, float
  <2>15. ExpectedCash(s)' = float + (-out + (F(M) + F(S \ M)))
        BY <2>2, <2>8, <2>9, <2>13
  <2> HIDE DEF out
  <2>   QED BY <2>10, <2>11, <2>12, <2>14, <2>15
<1>2. TillInv /\ [Next]_vars =>
          \A s \in Shifts : (\E o \in OfKind("paid_out") : moved'[o] = s /\ moved[o] # s)
                                => ExpectedCash(s)' >= 0
      BY <1>1
<1>   QED BY <1>2, TillAlways, PTL DEF Spec, PaidOutCovered

\* A shift that is closed keeps its count, and no cash is moved into it (till.py:337).
THEOREM ShiftsCloseForGood == Spec => ClosedForGood
PROOF
<1>1. ASSUME TillInv, [Next]_vars, NEW s \in Shifts, Exists(shift[s]), ~Open(s)
      PROVE  shift'[s] = shift[s] /\ \A o \in Movements : moved'[o] = s => moved[o] = s
  <2>1. Typed /\ ClockInv /\ StageInv /\ CopyInv /\ DrawerInv /\ OneOpenShift
        BY <1>1 DEF TillInv
  <2>2. shift'[s] = shift[s]
        BY <1>1, <2>1, FiguresMove
  <2>3. \A o \in Movements : moved'[o] = s => moved[o] = s
        BY <1>1, <2>1, Steps DEF rows, WasOpened, WasClosed, WasMoved, WasRefunded, WasSold
  <2>   QED BY <2>2, <2>3
<1>2. TillInv /\ [Next]_vars =>
          \A s \in Shifts : Exists(shift[s]) /\ ~Open(s) =>
              /\ shift'[s] = shift[s]
              /\ \A o \in Movements : moved'[o] = s => moved[o] = s
      BY <1>1
<1>   QED BY <1>2, TillAlways, PTL DEF Spec, ClosedForGood
===============================================================================
