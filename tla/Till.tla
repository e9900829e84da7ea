--------------------------------- MODULE Till ---------------------------------
(***************************************************************************)
(* The cash drawer of a cashier at a branch (services/till.py): a shift is *)
(* opened with a float, cash is paid in and out of it, and it is closed    *)
(* with a count.  The cash a drawer should hold is never stored while it   *)
(* is open: it is computed from the sales, refunds and movements that fall *)
(* between its opening and its closing.  Refunds lock the shift and cash   *)
(* sales do not, and a sale fixes its time well before it commits.         *)
(*                                                                         *)
(* A read of the clock is a tick of its own, so that no two moments are    *)
(* equal.  What a figure is computed from is kept as a set of operations.  *)
(* Left out: reasons, notes, and a client operation that comes back from   *)
(* another cashier or branch (a device makes an id for one request).       *)
(***************************************************************************)
EXTENDS Integers, FiniteSets, Functions, Requests

CONSTANTS
    Tills,          \* a cashier at a branch
    Req             \* what each operation asks for

OfKind(k) == {o \in Ops : Req[o].kind = k}
Shifts == OfKind("open")
Movements == OfKind("paid_in") \cup OfKind("paid_out")
CashSales == OfKind("sale")
Refunds == OfKind("refund")
Closings == OfKind("close")

Shift(s) == <<"shift", s>>

Request ==
    [kind : {"open", "paid_in", "paid_out", "sale", "refund"}, till : Tills, amount : Nat]
        \cup [kind : {"close"}, till : Tills, shift : Ops, counted : Nat]

NoShift == "no shift"

ASSUME TillAssumption ==
    /\ OpOf \in [Txns -> Ops]
    /\ IsFiniteSet(Ops) /\ NoShift \notin Ops
    /\ \A o \in Ops : Req[o] \in Request
    /\ \A o \in Closings : Req[o].shift \in Shifts
    /\ Mortal \subseteq Txns /\ Scenarios \subseteq SUBSET Txns

VARIABLES
    clock,          \* of the servers
    shift,          \* rows of till_shifts
    moved,          \* the shift of each row of till_cash_movements
    soldAt,         \* completed_at of the committed cash sales
    refunded,       \* committed cash refunds: processed_at and the shift locked
    stamp,          \* a time a request has read and not yet committed
    drawer,         \* the shift a request works on
    seen            \* what a request has computed the drawer's cash from

rows == <<shift, moved, soldAt, refunded>>
local == <<stamp, drawer, seen>>
vars == <<requests, rows, clock, local>>

NoRow == [none |-> TRUE]
Exists(row) == row # NoRow
Never == 0
Open(s) == Exists(shift[s]) /\ shift[s].status = "open"
OpenShifts(till) == {s \in Shifts : Open(s) /\ Req[s].till = till}

-----------------------------------------------------------------------------
(* The snapshot of a drawer                                                 *)

\* opened_at <= at, and at <= closed_at once the shift is closed
InShift(s, at) ==
    /\ at # Never /\ shift[s].openedAt <= at
    /\ shift[s].status = "closed" => at <= shift[s].closedAt

CashSalesIn(s) == {o \in CashSales : Req[o].till = Req[s].till /\ InShift(s, soldAt[o])}

CashRefundsIn(s) == {o \in Refunds : /\ Req[o].till = Req[s].till
                                     /\ Exists(refunded[o]) /\ InShift(s, refunded[o].at)}

MovementsOf(s) == {o \in Movements : moved[o] = s}

\* what _snapshot computes expected_cash from
Counted(s) == CashSalesIn(s) \cup CashRefundsIn(s) \cup MovementsOf(s)

Entries == CashSales \cup Refunds \cup Movements
Amount == [o \in Entries |->
              IF Req[o].kind \in {"refund", "paid_out"} THEN -Req[o].amount ELSE Req[o].amount]
Cash(s, entries) == Req[s].amount + SumFunctionOnSet(Amount, entries)
ExpectedCash(s) == Cash(s, Counted(s))

-----------------------------------------------------------------------------
(* Requests                                                                  *)

\* the operation has its row
Done(o) ==
    CASE o \in Shifts -> Exists(shift[o])
      [] o \in Movements -> moved[o] # NoShift
      [] o \in CashSales -> soldAt[o] # Never
      [] o \in Refunds -> Exists(refunded[o])
There(t) == Done(OpOf[t])

Init ==
    /\ RequestsInit
    /\ clock = Never
    /\ shift = [s \in Shifts |-> NoRow]
    /\ moved = [o \in Movements |-> NoShift]
    /\ soldAt = [o \in CashSales |-> Never]
    /\ refunded = [o \in Refunds |-> NoRow]
    /\ stamp = [t \in Txns |-> Never]
    /\ drawer = [t \in Txns |-> NoShift]
    /\ seen = [t \in Txns |-> {}]

\* datetime.now(timezone.utc)
Now == clock + 1
Tick == clock' = Now
Stamp(t) == Tick /\ stamp' = [stamp EXCEPT ![t] = Now]

Arrive(t) ==
    /\ IF OpOf[t] \notin Closings THEN Begin(t, There(t)) ELSE Start(t)
    /\ UNCHANGED <<rows, clock, local>>

Again(t) == Lookup(t, There(t)) /\ UNCHANGED <<rows, clock, local>>

Working(t, kinds) == At(t, "working") /\ Req[OpOf[t]].kind \in kinds

\* open_shift: the cashier has no open shift here
PrepareShift(t) ==
    /\ Working(t, {"open"})
    /\ OpenShifts(Req[OpOf[t]].till) = {}
    /\ Stamp(t) /\ Goto(t, "insert")
    /\ UNCHANGED <<rows, answer, queue, drawer, seen>>

\* mutant: without uq_till_shifts_open_cashier_branch
AlreadyOpenLookup(t) == Working(t, {"open"}) /\ OpenShifts(Req[OpOf[t]].till) # {}

AlreadyOpen(t) ==
    /\ Working(t, {"open"}) \/ At(t, "insert")
    /\ OpenShifts(Req[OpOf[t]].till) # {}

RefuseOpening(t) ==
    /\ AlreadyOpen(t)
    /\ End(t, "refused")
    /\ UNCHANGED <<rows, clock, local>>

InsertShift(t) ==
    /\ At(t, "insert") /\ ~AlreadyOpen(t)
    /\ shift' = [shift EXCEPT ![OpOf[t]] =
                    [status |-> "open", openedAt |-> stamp[t], closedAt |-> Never,
                     counted |-> 0, reconciled |-> {}]]
    /\ End(t, "created")
    /\ UNCHANGED <<moved, soldAt, refunded, clock, local>>

\* record_cash_movement, close_shift and a cash refund lock the shift: the open
\* one of the cashier, or the one that is to be closed.
WantedShifts(o) ==
    IF o \in Closings
    THEN {s \in {Req[o].shift} : Exists(shift[s]) /\ Req[s].till = Req[o].till}
    ELSE OpenShifts(Req[o].till)

\* mutant: the drawer is not locked for a refund
LockShiftNotRefund(t) ==
    /\ Working(t, {"paid_in", "paid_out", "close", "refund"})
    /\ \E s \in WantedShifts(OpOf[t]) :
          /\ drawer' = [drawer EXCEPT ![t] = s]
          /\ IF OpOf[t] \in Refunds THEN UNCHANGED queue ELSE Ask(t, Shift(s))
    /\ Goto(t, "locked")
    /\ UNCHANGED <<rows, answer, clock, stamp, seen>>

LockShift(t) ==
    /\ Working(t, {"paid_in", "paid_out", "close", "refund"})
    /\ \E s \in WantedShifts(OpOf[t]) :
          drawer' = [drawer EXCEPT ![t] = s] /\ Ask(t, Shift(s))
    /\ Goto(t, "locked")
    /\ UNCHANGED <<rows, answer, clock, stamp, seen>>

\* The row that was waited for is looked at again: it may be closed by now.
ClosedMeanwhile(t) == At(t, "locked") /\ ~Open(drawer[t])

RefuseWithoutShift(t) ==
    /\ \/ /\ Working(t, {"paid_in", "paid_out", "close", "refund"})
          /\ WantedShifts(OpOf[t]) = {}
       \/ ClosedMeanwhile(t) /\ OpOf[t] \notin Closings
    /\ End(t, "refused")
    /\ UNCHANGED <<rows, clock, local>>

\* a second close answers with the snapshot of the first
CloseAgain(t) ==
    /\ ClosedMeanwhile(t) /\ OpOf[t] \in Closings
    /\ End(t, "replayed")
    /\ UNCHANGED <<rows, clock, local>>

\* mutant: the row is not looked at again
LockedBlindly(t, kinds) == At(t, "locked") /\ Req[OpOf[t]].kind \in kinds

Locked(t, kinds) ==
    /\ At(t, "locked") /\ ~ClosedMeanwhile(t)
    /\ Req[OpOf[t]].kind \in kinds

ComputeCash(t) ==
    /\ Locked(t, {"paid_out", "close"})
    /\ seen' = [seen EXCEPT ![t] = Counted(drawer[t])]
    /\ Goto(t, "counted")
    /\ UNCHANGED <<rows, answer, queue, clock, stamp, drawer>>

\* mutant: only the float is looked at
OverdrawnFloat(t) ==
    /\ At(t, "counted") /\ Req[OpOf[t]].kind = "paid_out"
    /\ Req[OpOf[t]].amount > Cash(drawer[t], {})

Overdrawn(t) ==
    /\ At(t, "counted") /\ Req[OpOf[t]].kind = "paid_out"
    /\ Req[OpOf[t]].amount > Cash(drawer[t], seen[t])

RefuseOverdraft(t) ==
    /\ Overdrawn(t)
    /\ End(t, "refused")
    /\ UNCHANGED <<rows, clock, local>>

RecordCashMovement(t) ==
    /\ \/ Locked(t, {"paid_in"})
       \/ At(t, "counted") /\ Req[OpOf[t]].kind = "paid_out" /\ ~Overdrawn(t)
    /\ moved' = [moved EXCEPT ![OpOf[t]] = drawer[t]]
    /\ End(t, "created")
    /\ UNCHANGED <<shift, soldAt, refunded, clock, local>>

CloseShift(t) ==
    /\ At(t, "counted") /\ OpOf[t] \in Closings
    /\ shift' = [shift EXCEPT ![drawer[t]] =
                    [@ EXCEPT !.status = "closed", !.closedAt = Now,
                              !.counted = Req[OpOf[t]].counted, !.reconciled = seen[t]]]
    /\ Tick /\ End(t, "created")
    /\ UNCHANGED <<moved, soldAt, refunded, local>>

\* process_sale_return, as far as the drawer sees it
RefundCash(t) ==
    /\ Locked(t, {"refund"})
    /\ refunded' = [refunded EXCEPT ![OpOf[t]] = [at |-> Now, from |-> drawer[t]]]
    /\ Tick /\ End(t, "created")
    /\ UNCHANGED <<shift, moved, soldAt, local>>

\* complete_sale, as far as the drawer sees it: completed_at, and later the commit
TimeSale(t) ==
    /\ Working(t, {"sale"})
    /\ Stamp(t) /\ Goto(t, "timed")
    /\ UNCHANGED <<rows, answer, queue, drawer, seen>>

CommitSale(t) ==
    /\ At(t, "timed")
    /\ soldAt' = [soldAt EXCEPT ![OpOf[t]] = stamp[t]]
    /\ End(t, "created")
    /\ UNCHANGED <<shift, moved, refunded, clock, local>>

\* no answer; if the client tries again, that is another request
Die(t) ==
    /\ t \in Mortal /\ pc[t] \notin {"unsent", "idle", "done"}
    /\ End(t, "none")
    /\ UNCHANGED <<rows, clock, local>>

Next ==
    \/ \E t \in Txns :
          \/ Arrive(t) \/ Again(t) \/ Die(t)
          \/ PrepareShift(t) \/ RefuseOpening(t) \/ InsertShift(t)
          \/ LockShift(t) \/ RefuseWithoutShift(t) \/ ComputeCash(t)
          \/ RefuseOverdraft(t) \/ RecordCashMovement(t)
          \/ CloseAgain(t) \/ CloseShift(t) \/ RefundCash(t)
          \/ TimeSale(t) \/ CommitSale(t)
    \/ AllAnswered /\ UNCHANGED vars

Spec == Init /\ [][Next]_vars

-----------------------------------------------------------------------------
(* Properties                                                               *)

ShiftRow ==
    [status : {"open", "closed"}, openedAt : Nat, closedAt : Nat, counted : Nat,
     reconciled : SUBSET Entries]

\* The types of the rows; a shift that is closed was closed after it was opened.
TypeOK ==
    /\ RequestsTypeOK({"insert", "locked", "counted", "timed"})
    /\ clock \in Nat
    /\ shift \in [Shifts -> ShiftRow \cup {NoRow}]
    /\ moved \in [Movements -> Shifts \cup {NoShift}]
    /\ soldAt \in [CashSales -> Nat]
    /\ refunded \in [Refunds -> [at : Nat, from : Shifts] \cup {NoRow}]
    /\ \A s \in Shifts : Exists(shift[s]) /\ ~Open(s) => shift[s].openedAt < shift[s].closedAt

\* A cashier never has two open shifts at a branch: current_shift, the movements
\* and the refunds read the open one with scalar_one_or_none, which fails on two
\* (till.py:169; two openings can both find none, and the index decides).
OneOpen == \A till \in Tills : Cardinality(OpenShifts(till)) <= 1

\* A refund cannot commit invisibly after the drawer has been reconciled
\* (sales_returns.py:423): it is part of the cash of the shift it was paid from,
\* and what a close did not see and the shift's figures show later can only be
\* cash sales that were on their way.
OnlySalesMissed ==
    /\ \A o \in Refunds : Exists(refunded[o]) => o \in Counted(refunded[o].from)
    /\ \A s \in Shifts : Exists(shift[s]) /\ ~Open(s) =>
          /\ shift[s].reconciled \subseteq Counted(s)
          /\ Counted(s) \ shift[s].reconciled \subseteq CashSales

\* No paid-out takes more cash than the drawer holds, whatever refunds and other
\* movements are made from it at the same time (till.py:287).
PaidOutCovered ==
    [][\A s \in Shifts :
          (\E o \in OfKind("paid_out") : moved'[o] = s /\ moved[o] # s)
              => ExpectedCash(s)' >= 0]_vars

\* A closed shift keeps its count and its expected cash: neither a second close
\* with another count nor anything else touches it again (till.py:337).
ClosedForGood ==
    [][\A s \in Shifts : Exists(shift[s]) /\ ~Open(s) =>
          /\ shift'[s] = shift[s]
          /\ \A o \in Movements : moved'[o] = s => moved[o] = s]_vars
===============================================================================
