----------------------------- MODULE SalesLedger -----------------------------
(***************************************************************************)
(* Sales, customer payments and returns on the server: complete_sale       *)
(* (services/sales.py), record_customer_payment (services/customers.py)    *)
(* and process_sale_return (services/sales_returns.py), with the checkout  *)
(* of services (routes/service_checkout.py) and the customer card's PATCH  *)
(* route, over the rows they share.  A service is a product that nobody    *)
(* counts and that costs nothing; its sale has no rows of sale_lines.      *)
(*                                                                         *)
(* A request (module Requests) looks its operation up, locks rows one      *)
(* after another, and in its last step writes everything and commits.      *)
(* What it reads before that step it reads from rows it has locked, so the *)
(* writes need no step of their own.                                       *)
(*                                                                         *)
(* Time is counted in sales, and a day is one sale long: terms of two days *)
(* make a sale due when two more are completed.                            *)
(*                                                                         *)
(* Money is in cents and quantities in units of 1/Scale.  Left out: sale   *)
(* and return numbers, references, reasons, discounts and tax (complete_   *)
(* sale always stores zero), the outbox events (module EventRelay), the    *)
(* period check of post_journal (module Books), the cash drawer (Till) and *)
(* a product withdrawn from sale, which is refused (Goods).                *)
(***************************************************************************)
EXTENDS Integers, FiniteSets, Functions, Requests

CONSTANTS
    Req,            \* what each operation asks for
    Branches, Customers, NoCustomer,
    ProductOrder,   \* product ids in the order of their text
    Tracked,        \* products with track_stock
    Price, Cost,    \* per product
    Scale,          \* how many units of quantity make one
    StockAtStart,   \* on_hand per branch and product
    CardAtStart,    \* limit, days to pay and status per customer
    Edits,          \* what an edit may make of a customer's card
    Opening         \* sales completed before the model starts

Products == {ProductOrder[i] : i \in DOMAIN ProductOrder}
ServiceOps == {o \in Ops : Req[o].kind = "service"}
SaleOps == {o \in Ops : Req[o].kind = "sale"} \cup ServiceOps
PaymentOps == {o \in Ops : Req[o].kind = "payment"}
ReturnOps == {o \in Ops : Req[o].kind = "return"}

Product(p) == <<"product", p>>
Customer(c) == <<"customer", c>>
Sale(s) == <<"sale", s>>

SaleRequest ==
    [kind : {"sale", "service"}, branch : Branches, customer : Customers \cup {NoCustomer},
     items : [Products -> Nat], paid : Nat, lines : Seq(Products)]
PaymentRequest ==
    [kind : {"payment"}, branch : Branches, customer : Customers,
     amount : Nat \ {0}, allocations : Seq(SaleOps \X (Nat \ {0}))]
ReturnRequest ==
    [kind : {"return"}, branch : Branches, sale : SaleOps, void : BOOLEAN,
     items : [Products -> Nat], method : {"cash", "card", "none"}, shiftOpen : BOOLEAN]
CustomerRow == [limit : Nat, terms : Nat, active : BOOLEAN]

ASSUME LedgerAssumption ==
    /\ OpOf \in [Txns -> Ops]
    /\ \A o \in Ops : \/ Req[o] \in SaleRequest
                      \/ Req[o] \in PaymentRequest
                      \/ Req[o] \in ReturnRequest
    /\ \A o \in PaymentOps : \A i, j \in DOMAIN Req[o].allocations :
          Req[o].allocations[i][1] = Req[o].allocations[j][1] => i = j
    /\ IsFiniteSet(Ops) /\ ProductOrder \in Seq(Products)
    /\ NoCustomer \notin Customers
    /\ Tracked \subseteq Products
    /\ \A o \in ServiceOps : Req[o].lines = <<>> /\ \A p \in Tracked : Req[o].items[p] = 0
    /\ Price \in [Products -> Nat] /\ Cost \in [Products -> Nat]
    /\ Scale \in Nat \ {0}
    /\ StockAtStart \in [Branches -> [Products -> Nat]]
    /\ CardAtStart \in [Customers -> CustomerRow] /\ Edits \subseteq CustomerRow
    /\ Opening \subseteq SaleOps /\ Mortal \subseteq Txns
    /\ Scenarios \subseteq SUBSET Txns

VARIABLES
    sale,           \* rows of sales, with the settlement each line has seen
    payment,        \* rows of customer_payments with their allocations
    return,         \* rows of sale_returns and sale_return_lines
    onHand,         \* branch_product_stock.on_hand
    card,           \* rows of customers
    journal         \* one entry per operation that posted one

ledger == <<sale, payment, return, onHand, journal>>
vars == <<requests, ledger, card>>

-----------------------------------------------------------------------------
(* Money, the rows and what is computed from them                          *)

Lesser(a, b) == IF a < b THEN a ELSE b

\* Decimal.quantize(..., ROUND_HALF_UP) of n/d
HalfUp(n, d) == (2 * n + d) \div (2 * d)

LineTotal(rate, qty) == HalfUp(rate * qty, Scale)

Items(o) == Req[o].items
Lines == [o \in SaleOps |-> {p \in Products : Items(o)[p] > 0}]
Total == [o \in SaleOps |-> SumFunction([p \in Products |-> LineTotal(Price[p], Items(o)[p])])]
CostIn(o, S) == SumFunction([p \in S |-> LineTotal(Cost[p], Items(o)[p])])
CostOf == [o \in SaleOps |-> CostIn(o, Tracked)]

ASSUME OpeningAssumption == \A o \in Opening : Req[o].paid <= Total[o]

NoRow == [none |-> TRUE]
Exists(row) == row # NoRow

Accounts == {"Cash", "Receivables", "Advances", "Inventory", "Revenue", "COGS"}
Nothing == [a \in Accounts |-> 0]
Posting(lines) == [a \in Accounts |-> IF a \in DOMAIN lines THEN lines[a] ELSE 0]

\* mutant: the receivable is the whole sale
SalePostingWhole(o, due) ==
    Posting([Cash |-> Req[o].paid, Receivables |-> Total[o], Revenue |-> -Total[o],
             COGS |-> CostOf[o], Inventory |-> -CostOf[o]])

SalePosting(o, due) ==
    Posting([Cash |-> Req[o].paid, Receivables |-> due, Revenue |-> -Total[o],
             COGS |-> CostOf[o], Inventory |-> -CostOf[o]])

SalesAt(b) == {s \in SaleOps : Req[s].branch = b}
SalesTo(c) == {s \in SaleOps : Req[s].customer = c}
ReturnsOf(s) == {r \in ReturnOps : Req[r].sale = s}

\* what a sale still owes, and what a payment or a return has taken of that
Balance(s) == IF Exists(sale[s]) THEN sale[s].balance ELSE 0
Settled(o, s) == IF Exists(payment[o]) THEN payment[o].allocated[s] ELSE 0
ReducedBy(r) == IF Exists(return[r]) THEN return[r].reduction ELSE 0

\* the open sales of a customer at a branch
OpenSale(s, branch, c) ==
    Exists(sale[s]) /\ Req[s].branch = branch /\ Req[s].customer = c /\ sale[s].balance > 0

Earlier(u, s) ==
    sale[u].due < sale[s].due \/ (sale[u].due = sale[s].due /\ sale[u].at < sale[s].at)

\* by due_at, completed_at and id
DueOrder(S) ==
    CHOOSE q \in [1..Cardinality(S) -> S] :
        \A i, j \in 1..Cardinality(S) : i < j => q[i] # q[j] /\ ~Earlier(q[j], q[i])

Owed(c) == SumFunction([s \in SalesTo(c) |-> Balance(s)])

Allocated(o) == SumFunction([s \in SaleOps |-> Settled(o, s)])

\* what earlier returns of the sale have taken of one line
Given(r, p, field) == IF Exists(return[r]) THEN return[r].lines[p][field] ELSE 0
Prior(s, p, field) == SumFunction([r \in ReturnsOf(s) |-> Given(r, p, field)])
\* mutant: earlier returns are forgotten
ReturnableAfresh(s, p) == Items(s)[p]
Returnable(s, p) == Items(s)[p] - Prior(s, p, "qty")

\* the quantities a return asks for: a void takes the whole of every line
Wanted(o) == IF Req[o].void THEN Items(Req[o].sale) ELSE Items(o)

\* mutant: the last return is rounded like the others
LineAmountRounded(o, p, rate, prior) ==
    LET s == Req[o].sale
    IN  HalfUp(LineTotal(rate, Items(s)[p]) * Wanted(o)[p], Items(s)[p])

LineAmount(o, p, rate, prior) ==
    LET s == Req[o].sale
        whole == LineTotal(rate, Items(s)[p])
    IN  IF Wanted(o)[p] = Returnable(s, p) THEN whole - prior
        ELSE HalfUp(whole * Wanted(o)[p], Items(s)[p])
ReturnLine(o, p) ==
    LET s == Req[o].sale
        q == Wanted(o)[p]
    IN  [qty |-> q,
         amount |-> IF q = 0 THEN 0 ELSE LineAmount(o, p, Price[p], Prior(s, p, "amount")),
         cost |-> IF q = 0 THEN 0
                  ELSE IF q = Returnable(s, p)
                       THEN LineTotal(Cost[p], Items(s)[p]) - Prior(s, p, "cost")
                       ELSE LineTotal(Cost[p], q)]
ReturnTotal(o) == SumFunction([p \in Products |-> ReturnLine(o, p).amount])
ReturnCost(o) == SumFunction([p \in Products |-> ReturnLine(o, p).cost])
Reduction(o) == Lesser(sale[Req[o].sale].balance, ReturnTotal(o))
Refund(o) == ReturnTotal(o) - Reduction(o)

Row(o) == CASE o \in SaleOps -> sale[o]
            [] o \in PaymentOps -> payment[o]
            [] o \in ReturnOps -> return[o]

-----------------------------------------------------------------------------
(* The rows a request locks, in its order, and what makes it give up       *)

SaleLocks == [o \in SaleOps |->
    LET n == Len(ProductOrder)
    IN  [i \in 1..n + 1 |-> IF i <= n THEN Product(ProductOrder[i]) ELSE Customer(Req[o].customer)]]

PaymentLocks(o) ==
    LET r == Req[o]
        named == [i \in DOMAIN r.allocations |-> r.allocations[i][1]]
        sales == IF named # <<>> THEN named
                 ELSE DueOrder({s \in SaleOps : OpenSale(s, r.branch, r.customer)})
    IN  [i \in {0} \cup DOMAIN sales |-> IF i = 0 THEN Customer(r.customer) ELSE Sale(sales[i])]

ReturnLocks == [o \in ReturnOps |->
    LET lines == Req[Req[o].sale].lines
    IN  [i \in {0} \cup DOMAIN lines |-> IF i = 0 THEN Sale(Req[o].sale) ELSE Product(lines[i])]]

LockOrder(o) ==
    CASE o \in SaleOps -> SaleLocks[o]
      [] o \in PaymentOps -> PaymentLocks(o)
      [] o \in ReturnOps -> ReturnLocks[o]

\* what the order has and a sale does not: other products, and the customer it may lack
NotOf(o) ==
    IF o \in SaleOps THEN {Customer(NoCustomer)} \cup {Product(p) : p \in Products \ Lines[o]}
    ELSE {}

\* what is still to be locked, as places in the order
ToLock(t) ==
    LET order == LockOrder(OpOf[t])
    IN  {i \in DOMAIN order : order[i] \notin NotOf(OpOf[t]) /\ ~Asked(t, order[i])}

\* mutant: the sale itself is not counted
NoCreditBefore(c, due) ==
    ~card[c].active \/ (due > 0 /\ Owed(c) > card[c].limit)

NoCredit(c, due) ==
    ~card[c].active \/ (due > 0 /\ Owed(c) + due > card[c].limit)

SaleRefused(t, o) ==
    LET due == Total[o] - Req[o].paid
        c == Req[o].customer
    IN  \/ \E p \in Lines[o] \cap Tracked :
               Holds(t, Product(p)) /\ onHand[Req[o].branch][p] < Items(o)[p]
        \/ /\ \A p \in Lines[o] : Holds(t, Product(p))
           /\ due < 0 \/ (c = NoCustomer /\ due > 0)
        \/ c # NoCustomer /\ Holds(t, Customer(c)) /\ NoCredit(c, due)

PaymentRefused(t, o) ==
    LET r == Req[o]
    IN  /\ Holds(t, Customer(r.customer))
        /\ \/ ~card[r.customer].active
           \/ \E i \in DOMAIN r.allocations :
                 LET s == r.allocations[i][1]
                 IN  \/ ~OpenSale(s, r.branch, r.customer)
                     \/ Holds(t, Sale(s)) /\ r.allocations[i][2] > sale[s].balance

ReturnRefused(t, o) ==
    LET r == Req[o]
        s == r.sale
    IN  \/ ~Exists(sale[s]) \/ Req[s].branch # r.branch
        \/ /\ ToLock(t) = {}
           /\ \/ Req[s].lines = <<>>
              \/ r.void /\ \E p \in Products : Prior(s, p, "qty") > 0
              \/ \E p \in Products : Wanted(o)[p] > Returnable(s, p)
              \/ ReturnTotal(o) <= 0
              \/ Refund(o) > 0 /\ (r.method = "none" \/ (r.method = "cash" /\ ~r.shiftOpen))

Refused(t) ==
    LET o == OpOf[t]
    IN  CASE o \in SaleOps -> SaleRefused(t, o)
          [] o \in PaymentOps -> PaymentRefused(t, o)
          [] o \in ReturnOps -> ReturnRefused(t, o)

-----------------------------------------------------------------------------
(* What a request writes                                                    *)

\* only a sale that owes something is due, and only a customer owes; nobody asks when
\* the others are due
Terms(o) == IF Req[o].customer = NoCustomer THEN 0 ELSE card[Req[o].customer].terms

PutSale(o) ==
    LET due == Total[o] - Req[o].paid
        b == Req[o].branch
        now == Cardinality({s \in SaleOps : Exists(sale[s])})
    IN  /\ sale' = [sale EXCEPT ![o] =
                        [balance |-> due, at |-> now, due |-> now + Terms(o)]]
        /\ onHand' = [onHand EXCEPT ![b] = [p \in Products |->
                          @[p] - IF p \in Tracked THEN Items(o)[p] ELSE 0]]
        /\ journal' = [journal EXCEPT ![o] = SalePosting(o, due)]
        /\ UNCHANGED <<payment, return>>

\* the named allocations, or the sale due first until the payment is used up
Allocation(o) ==
    LET r == Req[o]
        open == {s \in SaleOps : OpenSale(s, r.branch, r.customer)}
        order == DueOrder(open)
        ahead(s) == {u \in open : \E i, j \in DOMAIN order : i < j /\ order[i] = u /\ order[j] = s}
        before(s) == SumFunction([u \in ahead(s) |-> Balance(u)])
        left(s) == IF before(s) > r.amount THEN 0 ELSE r.amount - before(s)
        named(s) == {i \in DOMAIN r.allocations : r.allocations[i][1] = s}
    IN  [s \in SaleOps |->
            IF r.allocations # <<>>
            THEN IF named(s) = {} THEN 0 ELSE r.allocations[CHOOSE i \in named(s) : TRUE][2]
            ELSE IF s \in open THEN Lesser(sale[s].balance, left(s)) ELSE 0]

PutPayment(o) ==
    LET taken == Allocation(o)
        settled == SumFunction(taken)
        amount == Req[o].amount
    IN  /\ payment' = [payment EXCEPT ![o] = [allocated |-> taken]]
        /\ sale' = [s \in SaleOps |-> IF taken[s] = 0 THEN sale[s]
                                       ELSE [sale[s] EXCEPT !.balance = @ - taken[s]]]
        /\ journal' = [journal EXCEPT ![o] =
                          Posting([Cash |-> amount, Receivables |-> -settled,
                                   Advances |-> settled - amount])]
        /\ UNCHANGED <<return, onHand>>

\* mutant: a void puts back what its request lists
RestockedItems(o) ==
    [onHand EXCEPT ![Req[o].branch] = [p \in Products |->
        @[p] + IF p \in Tracked THEN Items(o)[p] ELSE 0]]

Restocked(o) ==
    [onHand EXCEPT ![Req[o].branch] = [p \in Products |->
        @[p] + IF p \in Tracked THEN Wanted(o)[p] ELSE 0]]

Reduced(o) == [sale EXCEPT ![Req[o].sale].balance = @ - Reduction(o)]

PutReturn(o) ==
    LET back == [p \in Products |-> ReturnLine(o, p)]
        cost == ReturnCost(o)
    IN  /\ return' = [return EXCEPT ![o] =
                         [lines |-> back, reduction |-> Reduction(o), refunded |-> Refund(o)]]
        /\ onHand' = Restocked(o)
        /\ sale' = Reduced(o)
        /\ journal' = [journal EXCEPT ![o] =
                         Posting([Revenue |-> ReturnTotal(o), Inventory |-> cost,
                                  COGS |-> -cost, Receivables |-> -Reduction(o),
                                  Cash |-> -Refund(o)])]
        /\ UNCHANGED payment

-----------------------------------------------------------------------------
(* The life of a request                                                    *)

Init ==
    /\ RequestsInit
    /\ card = CardAtStart
    /\ sale = [s \in SaleOps |-> IF s \in Opening
                                 THEN [balance |-> Total[s] - Req[s].paid, at |-> 0, due |-> Terms(s)]
                                 ELSE NoRow]
    /\ payment = [o \in PaymentOps |-> NoRow]
    /\ return = [o \in ReturnOps |-> NoRow]
    /\ onHand = StockAtStart
    /\ journal = [o \in Ops |-> IF o \in Opening THEN SalePosting(o, Total[o] - Req[o].paid)
                                ELSE Nothing]

There(t) == Exists(Row(OpOf[t]))

Running(t) == At(t, "working")

Lock(t) ==
    /\ Running(t) /\ ~Refused(t)
    /\ \E i \in ToLock(t) :
          (\A j \in ToLock(t) : i <= j) /\ Ask(t, LockOrder(OpOf[t])[i])
    /\ UNCHANGED <<pc, answer, ledger, card>>

\* mutant: a refusal is an error the client retries
RefuseAgain(t) ==
    /\ Running(t) /\ Refused(t)
    /\ Rollback(t)
    /\ UNCHANGED <<ledger, card>>

Refuse(t) ==
    /\ Running(t) /\ Refused(t)
    /\ End(t, "refused")
    /\ UNCHANGED <<ledger, card>>

\* A constraint of the database refuses the insert: the operation has its row, or
\* parts of a line that were rounded up leave less than nothing for the last one
\* (ck_sale_return_lines_total_nonnegative, ..._cost_nonnegative).
Unstorable(o) ==
    o \in ReturnOps /\ \E p \in Products : ReturnLine(o, p).amount < 0 \/ ReturnLine(o, p).cost < 0

AtInsert(t) == Running(t) /\ ~Refused(t) /\ ToLock(t) = {}
Collides(t) == AtInsert(t) /\ (There(t) \/ Unstorable(OpOf[t]))
Ready(t) == AtInsert(t) /\ ~There(t) /\ ~Unstorable(OpOf[t])

CompleteSale(t) ==
    /\ OpOf[t] \in SaleOps \ ServiceOps /\ Ready(t)
    /\ PutSale(OpOf[t])
    /\ End(t, "created")
    /\ UNCHANGED card

\* a sale of services, whose rows are locked as products are
CompleteServiceCheckout(t) ==
    /\ OpOf[t] \in ServiceOps /\ Ready(t)
    /\ PutSale(OpOf[t])
    /\ End(t, "created")
    /\ UNCHANGED card

RecordCustomerPayment(t) ==
    /\ OpOf[t] \in PaymentOps /\ Ready(t)
    /\ PutPayment(OpOf[t])
    /\ End(t, "created")
    /\ UNCHANGED card

ProcessSaleReturn(t) ==
    /\ OpOf[t] \in ReturnOps /\ Ready(t)
    /\ PutReturn(OpOf[t])
    /\ End(t, "created")
    /\ UNCHANGED card

\* the server breaks a cycle or refuses an insert; the client sees a 500
DbAbort(t) == (Deadlocked(t) \/ Collides(t)) /\ Rollback(t)

UpdateCustomer(c) ==
    /\ Free(Customer(c))
    /\ \E row \in Edits : card' = [card EXCEPT ![c] = row]
    /\ UNCHANGED <<requests, ledger>>

Work(t) ==
    \/ Lock(t) \/ Refuse(t)
    \/ CompleteSale(t) \/ CompleteServiceCheckout(t)
    \/ RecordCustomerPayment(t) \/ ProcessSaleReturn(t)

\* what Requests does leaves the rows alone
Serve(t) ==
    /\ Begin(t, There(t)) \/ Lookup(t, There(t)) \/ DbAbort(t) \/ Crash(t)
    /\ UNCHANGED <<ledger, card>>

Next ==
    \/ \E t \in Txns : Serve(t) \/ Work(t)
    \/ \E c \in Customers : UpdateCustomer(c)
    \/ AllAnswered /\ UNCHANGED vars

Spec == Init /\ [][Next]_vars

\* The device's outbox has the sales of products and the payments, and sends them again
\* until they are answered.  A return, a void or the checkout of a service is posted
\* once: whoever tries again does so under a new operation, and since the first attempt
\* has left nothing behind the model lets the same request stand for the new one, but
\* nothing obliges it to come.
Resent(t) == Req[OpOf[t]].kind \in {"sale", "payment"}

\* A request the server is working on goes on when it can; a cycle is found within
\* deadlock_timeout; what the outbox holds is sent, and requests do not die for ever.
\* The first two are WF_vars(Lookup(t) \/ Work(t)) for every t, with Begin(t) where the
\* operation is resent, and WF_vars(\E t : DbAbort(t)), with the enabling conditions and
\* the effects of these actions written out: TLC would evaluate whole handlers to see
\* whether they are enabled.
CanGoOn(t) ==
    /\ pc[t] \in {"lookup", "working"} \/ (pc[t] = "idle" /\ Resent(t))
    /\ ~Blocked(t) /\ ~Collides(t)
Stage(t) == <<pc[t], {l \in DOMAIN queue : Asked(t, l)}>>
Advance(t) == Stage(t)' # Stage(t) /\ pc'[t] # "idle"
CanAbort == \E t \in Txns : Deadlocked(t) \/ Collides(t)
Aborted == \E t \in Txns : pc[t] # "idle" /\ pc'[t] = "idle"
FairSpec ==
    /\ Spec
    /\ \A t \in Txns : []<>~CanGoOn(t) \/ []<><<Advance(t)>>_<<pc, queue>>
    /\ []<>~CanAbort \/ []<><<Aborted>>_pc
    /\ <>[][\A t \in Mortal : Crash(t) => Deadlocked(t)]_vars

-----------------------------------------------------------------------------
(* Properties                                                               *)

SaleRow == [balance : Nat, at : Nat, due : Nat]
PaymentRow == [allocated : [SaleOps -> Nat]]
ReturnLineRow == [qty : Nat, amount : Nat, cost : Nat]
ReturnRow == [lines : [Products -> ReturnLineRow], reduction : Nat, refunded : Nat]

\* The types of the rows; that a stored balance, stock or return line is never
\* negative is what the check constraints of models/commerce.py and
\* models/returns.py leave to the locks.
TypeOK ==
    /\ RequestsTypeOK({})
    /\ sale \in [SaleOps -> SaleRow \cup {NoRow}]
    /\ payment \in [PaymentOps -> PaymentRow \cup {NoRow}]
    /\ return \in [ReturnOps -> ReturnRow \cup {NoRow}]
    /\ onHand \in [Branches -> [Products -> Nat]]
    /\ card \in [Customers -> CustomerRow]
    /\ journal \in [Ops -> [Accounts -> Int]]

\* Whatever copies ran and in which order, stock is what the completed sales
\* and returns leave of it: each operation moved it once (sales.py:227,
\* sales_returns.py:499).
SoldOf(s, p) == IF Exists(sale[s]) THEN Items(s)[p] ELSE 0
StockExact ==
    \A b \in Branches, p \in Tracked :
        onHand[b][p] =
            StockAtStart[b][p]
            - SumFunction([s \in SalesAt(b) \ Opening |-> SoldOf(s, p)])
            + SumFunction([r \in {o \in ReturnOps : Req[o].branch = b} |-> Given(r, p, "qty")])

\* What a sale still owes is its total less what was paid with it, less the
\* payments allocated to it, less the returns that reduced it (sales.py:142,
\* customers.py:269, sales_returns.py:529).
BalanceExact ==
    \A s \in SaleOps : Exists(sale[s]) =>
        sale[s].balance =
            Total[s] - Req[s].paid
            - SumFunction([o \in PaymentOps |-> Settled(o, s)])
            - SumFunction([r \in ReturnsOf(s) |-> ReducedBy(r)])

\* No line gives back more than it sold, however many returns of the sale run
\* at once, and a voided sale has no other return (sales_returns.py:357-390).
ReturnedWithinSold ==
    \A s \in SaleOps :
        LET made == {r \in ReturnsOf(s) : Exists(return[r])}
        IN  /\ \A p \in Products : Prior(s, p, "qty") <= Items(s)[p]
            /\ (\E r \in made : Req[r].void) => Cardinality(made) = 1

GL(account, b) == SumFunction([o \in {x \in Ops : Req[x].branch = b} |-> journal[o][account]])

Unallocated(o) == IF Exists(payment[o]) THEN Req[o].amount - Allocated(o) ELSE 0

\* What receivables_health compares: account 1100 with the open balances, account
\* 2050 with the unallocated payments, and the payments with their journals.
ReceivablesHealth(b) ==
    LET payments == {o \in PaymentOps : Req[o].branch = b}
    IN  [receivables |-> GL("Receivables", b) - SumFunction([s \in SalesAt(b) |-> Balance(s)]),
         advances |-> -GL("Advances", b) - SumFunction([o \in payments |-> Unallocated(o)]),
         unposted |-> {o \in payments : Exists(payment[o]) /\ journal[o] = Nothing}]

\* What every sale owes is what it was sold for less what has come in or back, and
\* the reconciliation of receivables (services/receivables.py:123) answers
\* "healthy" at every moment and for every branch, whatever sales, payments and
\* returns have met.
ReceivablesHealthy ==
    /\ BalanceExact
    /\ \A b \in Branches :
        ReceivablesHealth(b) = [receivables |-> 0, advances |-> 0, unposted |-> {}]

Posted(s, account) ==
    journal[s][account] + SumFunction([r \in ReturnsOf(s) |-> journal[r][account]])
AllBack(s) == Exists(sale[s]) /\ \A p \in Products : Returnable(s, p) = 0

\* A sale whose every line came back, in however many parts and roundings, leaves no
\* revenue behind, and of inventory and cost of goods exactly the cost of the lines
\* nobody counts: complete_sale posts no cost for them (sales.py:214), and
\* process_sale_return posts theirs with the rest (sales_returns.py:406).
NothingStranded ==
    \A s \in SaleOps : AllBack(s) =>
        /\ Posted(s, "Revenue") = 0
        /\ Posted(s, "Inventory") = CostIn(s, Products \ Tracked)
        /\ Posted(s, "COGS") = -CostIn(s, Products \ Tracked)

\* What the comment at sales_returns.py:393 says: nothing is stranded "in tax,
\* inventory, COGS or revenue accounts" when the last of a sale comes back.
ReturnLeavesNoTrace ==
    \A s \in SaleOps : AllBack(s) =>
        \A a \in {"Revenue", "Inventory", "COGS"} : Posted(s, a) = 0

\* What a customer owes grows only within the limit in force when it grows,
\* whatever branches sell to the customer at once (customers.py:104).
CreditWithinLimit ==
    [][\A c \in Customers : Owed(c)' > Owed(c) => Owed(c)' <= card[c].limit]_vars

\* Each operation takes effect once, a copy of an operation that is done is told
\* so, and none is refused for the stock or the balance the first copy used up:
\* what the advisory lock is for (idempotency.py:25).
Server == INSTANCE OperationServer WITH posted <- {o \in Ops : Exists(Row(o))}
ImplementsServer == Server!Spec

\* Every operation of the outbox has an answer in the end, and no other request hangs in
\* the server: it is answered, or it fails and is gone.  Waits in a cycle are broken
\* (sales_returns.py:344 locks products in line order, sales.py:110 in product order,
\* customers.py:230 sales after the customer).
Over(t) == pc[t] \in {"unsent", "done"} \/ (pc[t] = "idle" /\ ~Resent(t))
EventuallyAnswered == []<>(\A t \in Txns : Over(t))
=============================================================================
