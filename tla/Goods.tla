-------------------------------- MODULE Goods --------------------------------
(***************************************************************************)
(* Stock, its cost and what is owed for it: purchases, supplier payments   *)
(* and expenses (services/purchasing.py), adjustments (routes/inventory),  *)
(* transfers and stocktakes (services/inventory_controls.py), the edit of  *)
(* a product card (routes/products.py) and the upload of a receipt         *)
(* (routes/documents.py).  A sale appears as far as it moves stock.        *)
(*                                                                         *)
(* A request locks the rows it will change, reads them, and then writes    *)
(* and commits in one step: its foreign keys make it wait there for a      *)
(* branch that somebody else has locked.  An edit reads before it locks.   *)
(* Whatever makes a request give up is tested on what it has read, after   *)
(* its last lock; the code tests each row as it reads it.                  *)
(*                                                                         *)
(* The stock row of a product is only ever locked under the product's own  *)
(* lock, so it has none here.  Money is in cents, quantities are whole and *)
(* unit costs are in 1/CostScale cents.  Left out: numbers, references and *)
(* notes, reserved stock (always zero), the outbox events (EventRelay) and *)
(* the period check (Books); a purchase of no value, which post_journal    *)
(* refuses with an error 500; the status of a supplier, which no route     *)
(* changes (all are active).                                               *)
(***************************************************************************)
EXTENDS Integers, FiniteSets, Functions, Requests

CONSTANTS
    Req,            \* what each operation asks for
    BranchOrder, ProductOrder,  \* ids in the order in which they are locked
    NoPurchase,     \* of a payment in advance
    Digests, NoReceipt,
    CostScale,      \* how many units of cost make a cent
    StockAtStart,   \* on_hand per branch and product
    CardAtStart,    \* cost, active and track per product
    Opening         \* purchases received before the model starts

Branches == {BranchOrder[i] : i \in DOMAIN BranchOrder}
Products == {ProductOrder[i] : i \in DOMAIN ProductOrder}
OfKind(k) == {o \in Ops : Req[o].kind = k}
Purchases == OfKind("purchase")
Payments == OfKind("payment")
Uploads == OfKind("upload")
ClientOps == Ops \ (OfKind("edit") \cup Uploads)
Lines(o) == DOMAIN Req[o].items

Branch(b) == <<"branch", b>>
Product(p) == <<"product", p>>
Purchase(o) == <<"purchase", o>>

\* rows of products
CardRow == [cost : Nat, active : BOOLEAN, track : BOOLEAN]

\* what a request says of one product: no more is received than was ordered, and
\* no adjustment is of nothing
PurchaseLine ==
    {l \in [ordered : Nat \ {0}, received : Nat, cost : Nat, tax : Nat] : l.received <= l.ordered}
TransferLine == Nat \ {0}
StocktakeLine == Nat
Adjustment == Int \ {0}
ItemOf ==
    [purchase |-> PurchaseLine, transfer |-> TransferLine, stocktake |-> StocktakeLine,
     adjustment |-> Adjustment, sale |-> Nat \ {0}, edit |-> CardRow]

VARIABLES
    posted,         \* client operations that have their rows
    due,            \* purchases.balance_due
    moves,          \* stock_movements of each operation, per branch and product
    journal,        \* of each operation
    onHand,         \* branch_product_stock.on_hand
    card,           \* rows of products
    stored,         \* digests whose bytes are in the object store
    document,       \* the branch of the document row of a digest
    seen            \* the rows a request has read

books == <<posted, due, moves, journal, onHand, card>>
receipts == <<stored, document>>
vars == <<requests, books, receipts, seen>>

-----------------------------------------------------------------------------
(* Costs and postings                                                       *)

\* Decimal.quantize(..., ROUND_HALF_UP) of n/d
HalfUp(n, d) == (2 * n + d) \div (2 * d)
LineTotal(cost, qty) == HalfUp(cost * qty, CostScale)

Ordered(o, p) == LineTotal(Req[o].items[p].cost, Req[o].items[p].ordered)
Received(o, p) == LineTotal(Req[o].items[p].cost, Req[o].items[p].received)
Total(o) == SumFunction([p \in Lines(o) |-> Ordered(o, p) + Req[o].items[p].tax])
Balance(o) == Total(o) - Req[o].paid

Accounts ==
    {"Cash", "Inventory", "Transit", "NonStock", "Tax", "Payable", "Advances",
     "Expense", "Gains", "Capital", "Shrinkage", "COGS"}
Posting(lines) == [a \in Accounts |-> IF a \in DOMAIN lines THEN lines[a] ELSE 0]

PurchasePosting(o, track) ==
    LET stock == {p \in Lines(o) : track[p]}
    IN  Posting([Inventory |-> SumFunction([p \in stock |-> Received(o, p)]),
                 Transit |-> SumFunction([p \in stock |-> Ordered(o, p) - Received(o, p)]),
                 NonStock |-> SumFunction([p \in Lines(o) \ stock |-> Ordered(o, p)]),
                 Tax |-> SumFunction([p \in Lines(o) |-> Req[o].items[p].tax]),
                 Cash |-> -Req[o].paid, Payable |-> -Balance(o)])

ASSUME GoodsAssumption ==
    /\ IsFiniteSet(Ops) /\ NoPurchase \notin Ops
    /\ BranchOrder \in Seq(Branches) /\ ProductOrder \in Seq(Products)
    /\ OpOf \in [Txns -> Ops] /\ Mortal \subseteq Txns /\ Scenarios \subseteq SUBSET Txns
    /\ \A o \in Ops : Req[o].branch \in Branches /\ Lines(o) \subseteq Products
    /\ \A o \in Ops : \A p \in Lines(o) : Req[o].items[p] \in ItemOf[Req[o].kind]
    /\ \A o \in Purchases : Req[o].paid \in Nat
    /\ \A o \in Payments : /\ Req[o].purchase \in Purchases \cup {NoPurchase}
                          /\ Req[o].amount \in Nat \ {0}
    /\ \A o \in OfKind("expense") : Req[o].amount \in Nat
    /\ \A o \in OfKind("transfer") : Req[o].to \in Branches \ {Req[o].branch}
    /\ \A o \in Uploads : Req[o].digest \in Digests
    /\ CostScale \in Nat \ {0}
    /\ StockAtStart \in [Branches -> [Products -> Nat]]
    /\ CardAtStart \in [Products -> CardRow]
    /\ Opening \subseteq Purchases /\ \A o \in Opening : Balance(o) >= 0

-----------------------------------------------------------------------------
(* What a request locks, reads and decides                                  *)

BranchLocks(o) ==
    CASE Req[o].kind = "stocktake" -> {Branch(Req[o].branch)}
      [] Req[o].kind = "transfer" -> {Branch(Req[o].branch), Branch(Req[o].to)}
      [] OTHER -> {}

\* mutant: a stocktake does not lock its products
ProductLocksNoCount(o) ==
    IF Req[o].kind \in {"purchase", "sale", "adjustment", "transfer"}
    THEN {Product(p) : p \in Lines(o)} ELSE {}

ProductLocks(o) ==
    IF Req[o].kind \in {"purchase", "sale", "adjustment", "transfer", "stocktake"}
    THEN {Product(p) : p \in Lines(o)} ELSE {}

\* mutant: a payment does not lock its purchase
PurchaseLocksNone(o) == {}

PurchaseLocks(o) ==
    IF o \in Payments /\ Req[o].purchase # NoPurchase THEN {Purchase(Req[o].purchase)} ELSE {}

\* SELECT ... FOR UPDATE: the branches, then the products, by their ids
LockSet(o) == BranchLocks(o) \cup ProductLocks(o) \cup PurchaseLocks(o)
LockOrder ==
    [i \in DOMAIN BranchOrder |-> Branch(BranchOrder[i])]
        \o [i \in DOMAIN ProductOrder |-> Product(ProductOrder[i])]
Before(k, l) == \E i, j \in DOMAIN LockOrder : i < j /\ LockOrder[i] = k /\ LockOrder[j] = l

ToLock(t) == {l \in LockSet(OpOf[t]) : ~Asked(t, l)}

\* What the writes themselves have to wait for: the branch a new row refers to,
\* and the product row of an edit.
Foreign(o) ==
    IF Req[o].kind = "edit" THEN {Product(p) : p \in Lines(o)} ELSE {Branch(Req[o].branch)}
MustWait(t) == {l \in Foreign(OpOf[t]) : ~Free(l) /\ ~Asked(t, l)}

Nothing == [onHand |-> <<>>, card |-> <<>>, due |-> 0]
Snapshot(o) ==
    [onHand |-> [b \in Branches |-> [p \in Lines(o) |-> onHand[b][p]]],
     card |-> [p \in Lines(o) |-> card[p]],
     due |-> IF o \in Payments /\ Req[o].purchase # NoPurchase THEN due[Req[o].purchase] ELSE 0]

\* how much of p the operation brings to branch b
Delta(o, s, b, p) ==
    LET r == Req[o]
        here == b = r.branch
    IN  CASE r.kind = "purchase" -> IF here /\ s.card[p].track THEN r.items[p].received ELSE 0
          [] r.kind = "sale" -> IF here /\ s.card[p].track THEN -r.items[p] ELSE 0
          [] r.kind = "adjustment" -> IF here THEN r.items[p] ELSE 0
          [] r.kind = "stocktake" -> IF here THEN r.items[p] - s.onHand[b][p] ELSE 0
          [] r.kind = "transfer" -> IF here THEN -r.items[p]
                                    ELSE IF b = r.to THEN r.items[p] ELSE 0
          [] OTHER -> 0

Short(o, s) ==
    \E p \in Lines(o) : s.onHand[Req[o].branch][p] + Delta(o, s, Req[o].branch, p) < 0

\* _document: none is named, or it is this branch's
ReceiptFound(o) ==
    Req[o].kind \in {"purchase", "expense"} =>
        Req[o].receipt \in {NoReceipt} \cup {d \in Digests : document[d] = Req[o].branch}

Refused(o, s) ==
    LET r == Req[o]
    IN  \/ r.kind # "edit" /\ \E p \in Lines(o) : ~s.card[p].active
        \/ r.kind \in {"stocktake", "transfer"} /\ \E p \in Lines(o) : ~s.card[p].track
        \/ r.kind # "edit" /\ Short(o, s)
        \/ r.kind = "purchase" /\ Balance(o) < 0
        \/ /\ r.kind = "payment" /\ r.purchase # NoPurchase
           /\ \/ r.purchase \notin posted
              \/ Req[r.purchase].supplier # r.supplier \/ Req[r.purchase].branch # r.branch
              \/ r.amount > s.due

-----------------------------------------------------------------------------
(* What a request writes                                                    *)

\* mutant: the last cost is the cost
NewCostLast(o, s, p) == Req[o].items[p].cost

\* the weighted average of what this branch had and what it received
NewCost(o, s, p) ==
    LET had == s.onHand[Req[o].branch][p]
        line == Req[o].items[p]
    IN  IF had > 0
        THEN HalfUp(had * s.card[p].cost + line.received * line.cost, had + line.received)
        ELSE line.cost

Changed(o, s, p, field) ==
    IF Req[o].items[p][field] # s.card[p][field] THEN Req[o].items[p][field] ELSE card[p][field]

NewCard(o, s, p) ==
    CASE Req[o].kind = "purchase" /\ s.card[p].track /\ Req[o].items[p].received > 0 ->
            [card[p] EXCEPT !.cost = NewCost(o, s, p)]
      [] Req[o].kind = "edit" ->
            [f \in {"cost", "active", "track"} |-> Changed(o, s, p, f)]
      [] OTHER -> card[p]

JournalOf(o, s) ==
    LET r == Req[o]
        value(p) == LineTotal(s.card[p].cost, Delta(o, s, r.branch, p))
        loss(p) == LineTotal(s.card[p].cost, -Delta(o, s, r.branch, p))
        more == {p \in Lines(o) : Delta(o, s, r.branch, p) > 0}
        gain == SumFunction([p \in more |-> value(p)])
        lost == SumFunction([p \in Lines(o) \ more |-> loss(p)])
    IN  CASE r.kind = "purchase" -> PurchasePosting(o, [p \in Lines(o) |-> s.card[p].track])
          [] r.kind = "payment" ->
                IF r.purchase = NoPurchase
                THEN Posting([Advances |-> r.amount, Cash |-> -r.amount])
                ELSE Posting([Payable |-> r.amount, Cash |-> -r.amount])
          [] r.kind = "expense" -> Posting([Expense |-> r.amount, Cash |-> -r.amount])
          [] r.kind = "adjustment" /\ r.opening ->
                Posting([Inventory |-> gain - lost, Capital |-> -gain, Shrinkage |-> lost])
          [] r.kind \in {"adjustment", "stocktake"} ->
                Posting([Inventory |-> gain - lost, Gains |-> -gain, Shrinkage |-> lost])
          [] r.kind = "sale" -> Posting([Inventory |-> -lost, COGS |-> lost])
          [] OTHER -> Posting(<<>>)

Moved(o, s) ==
    [b \in Branches |-> [p \in Products |-> IF p \in Lines(o) THEN Delta(o, s, b, p) ELSE 0]]

\* what each of them writes, from what it has read
Write(o, s) ==
    /\ posted' = posted \cup ({o} \cap ClientOps)
    /\ due' = [u \in Purchases |->
                  IF u = o THEN Balance(o)
                  ELSE IF o \in Payments /\ u = Req[o].purchase THEN s.due - Req[o].amount
                  ELSE due[u]]
    /\ moves' = [moves EXCEPT ![o] = Moved(o, s)]
    /\ onHand' = [b \in Branches |-> [p \in Products |->
                     IF p \in Lines(o) /\ Delta(o, s, b, p) # 0
                     THEN s.onHand[b][p] + Delta(o, s, b, p) ELSE onHand[b][p]]]
    /\ card' = [p \in Products |-> IF p \in Lines(o) THEN NewCard(o, s, p) ELSE card[p]]
    /\ journal' = [journal EXCEPT ![o] = JournalOf(o, s)]

-----------------------------------------------------------------------------
(* The life of a request                                                    *)

NoMoves == [b \in Branches |-> [p \in Products |-> 0]]
NoBranch == "no branch"

Init ==
    /\ RequestsInit
    /\ posted = Opening
    /\ due = [o \in Purchases |-> IF o \in Opening THEN Balance(o) ELSE 0]
    /\ moves = [o \in Ops |-> NoMoves]
    /\ journal = [o \in Ops |->
            IF o \in Opening
            THEN PurchasePosting(o, [p \in Lines(o) |-> CardAtStart[p].track])
            ELSE Posting(<<>>)]
    /\ onHand = StockAtStart
    /\ card = CardAtStart
    /\ stored = {}
    /\ document = [d \in Digests |-> NoBranch]
    /\ seen = [t \in Txns |-> Nothing]

There(t) == OpOf[t] \in posted
Keep == UNCHANGED <<books, receipts>>
Forget(t) == seen' = [seen EXCEPT ![t] = Nothing]

Arrive(t) ==
    /\ IF OpOf[t] \in ClientOps THEN Begin(t, There(t)) ELSE Start(t)
    /\ Keep /\ UNCHANGED seen

Again(t) == Lookup(t, There(t)) /\ Keep /\ UNCHANGED seen

Lock(t) ==
    /\ At(t, "working") /\ ReceiptFound(OpOf[t])
    /\ \E l \in ToLock(t) : (\A k \in ToLock(t) : ~Before(k, l)) /\ Ask(t, l)
    /\ Keep /\ UNCHANGED <<pc, answer, seen>>

Read(t) ==
    /\ At(t, "working") /\ ReceiptFound(OpOf[t]) /\ ToLock(t) = {}
    /\ OpOf[t] \notin Uploads
    /\ seen' = [seen EXCEPT ![t] = Snapshot(OpOf[t])]
    /\ Goto(t, "read")
    /\ Keep /\ UNCHANGED <<answer, queue>>

GivesUp(t) ==
    \/ At(t, "working") /\ ~ReceiptFound(OpOf[t])
    \/ At(t, "read") /\ Refused(OpOf[t], seen[t])

\* mutant: a refusal is an error the client retries
RefuseAgain(t) == GivesUp(t) /\ Rollback(t) /\ Forget(t) /\ Keep

Refuse(t) == GivesUp(t) /\ End(t, "refused") /\ Forget(t) /\ Keep

WaitToWrite(t) ==
    /\ At(t, "read") /\ ~Refused(OpOf[t], seen[t])
    /\ \E l \in MustWait(t) : Ask(t, l)
    /\ Keep /\ UNCHANGED <<pc, answer, seen>>

\* the rest of the handler, for the operations of one kind
Commits(t, kind) ==
    /\ Req[OpOf[t]].kind = kind
    /\ At(t, "read") /\ ~Refused(OpOf[t], seen[t])
    /\ MustWait(t) = {} /\ ~There(t)
    /\ Write(OpOf[t], seen[t])
    /\ End(t, "created") /\ Forget(t)
    /\ UNCHANGED receipts

CompletePurchase(t) == Commits(t, "purchase")
RecordSupplierPayment(t) == Commits(t, "payment")
RecordExpense(t) == Commits(t, "expense")
AdjustStock(t) == Commits(t, "adjustment")
CompleteStockTransfer(t) == Commits(t, "transfer")
PostStocktake(t) == Commits(t, "stocktake")
CompleteSale(t) == Commits(t, "sale")
UpdateProduct(t) == Commits(t, "edit")

\* a receipt's bytes are looked up by their digest, stored, and then recorded;
\* uq_business_documents_tenant_sha256 refuses the second record
Recorded(t) == document[Req[OpOf[t]].digest] # NoBranch
Uploading(t, stage) == OpOf[t] \in Uploads /\ At(t, stage)

FindDocument(t) ==
    /\ Uploading(t, "working") \/ Uploading(t, "stored")
    /\ Recorded(t)
    /\ End(t, "replayed")
    /\ Keep /\ UNCHANGED seen

\* mutant: the row is committed before its bytes are stored
PutObjectLater(t) ==
    /\ Uploading(t, "working") /\ ~Recorded(t)
    /\ Goto(t, "stored")
    /\ UNCHANGED <<books, receipts, seen, answer, queue>>

PutObject(t) ==
    /\ Uploading(t, "working") /\ ~Recorded(t)
    /\ stored' = stored \cup {Req[OpOf[t]].digest}
    /\ Goto(t, "stored")
    /\ UNCHANGED <<books, document, seen, answer, queue>>

RecordDocument(t) ==
    /\ Uploading(t, "stored") /\ ~Recorded(t)
    /\ document' = [document EXCEPT ![Req[OpOf[t]].digest] = Req[OpOf[t]].branch]
    /\ End(t, "created")
    /\ UNCHANGED <<books, stored, seen>>

\* as in SalesLedger
Active(t) == pc[t] \notin {"unsent", "done"}
Collides(t) == At(t, "read") /\ There(t)
Fail(t) ==
    /\ Crash(t) \/ (Active(t) /\ (Deadlocked(t) \/ Collides(t)) /\ Rollback(t))
    /\ Forget(t) /\ Keep

Work(t) ==
    \/ Arrive(t) \/ Again(t) \/ Lock(t) \/ Read(t) \/ Refuse(t) \/ WaitToWrite(t)
    \/ CompletePurchase(t) \/ RecordSupplierPayment(t) \/ RecordExpense(t) \/ AdjustStock(t)
    \/ CompleteStockTransfer(t) \/ PostStocktake(t) \/ CompleteSale(t) \/ UpdateProduct(t)
    \/ FindDocument(t) \/ PutObject(t) \/ RecordDocument(t)

Next ==
    \/ \E t \in Txns : Work(t) \/ Fail(t)
    \/ AllAnswered /\ UNCHANGED vars

Spec == Init /\ [][Next]_vars

\* The device's outbox has sales, purchases, expenses and receipts.  Supplier payments,
\* adjustments, transfers, stocktakes and edits are posted once, as returns are in
\* SalesLedger.
Resent(t) == Req[OpOf[t]].kind \in {"sale", "purchase", "expense", "upload"}

\* Fairness as in SalesLedger: WF_vars(Work(t)) for every t, but for Arrive(t) where
\* the operation is not resent, and WF_vars(\E t : Deadlocked(t) /\ Fail(t)), written
\* out, and an end to crashes.
CanGoOn(t) ==
    /\ Active(t) /\ (pc[t] = "idle" => Resent(t))
    /\ ~Blocked(t) /\ ~Collides(t)
Stage(t) == <<pc[t], IF Active(t) THEN {l \in DOMAIN queue : Asked(t, l)} ELSE {}>>
Advance(t) == Stage(t)' # Stage(t) /\ pc'[t] # "idle"
CanAbort == \E t \in Txns : Active(t) /\ (Deadlocked(t) \/ Collides(t))
Aborted == \E t \in Txns : pc[t] # "idle" /\ pc'[t] = "idle"
FairSpec ==
    /\ Spec
    /\ \A t \in Txns : []<>~CanGoOn(t) \/ []<><<Advance(t)>>_<<pc, queue>>
    /\ []<>~CanAbort \/ []<><<Aborted>>_pc
    /\ <>[][\A t \in Mortal : Crash(t) => Deadlocked(t)]_vars

-----------------------------------------------------------------------------
(* Properties                                                               *)

\* The types of the rows; no stock and no balance is negative.
TypeOK ==
    /\ RequestsTypeOK({"read", "stored"})
    /\ posted \subseteq ClientOps
    /\ due \in [Purchases -> Nat]
    /\ moves \in [Ops -> [Branches -> [Products -> Int]]]
    /\ journal \in [Ops -> [Accounts -> Int]]
    /\ onHand \in [Branches -> [Products -> Nat]]
    /\ card \in [Products -> CardRow]
    /\ stored \subseteq Digests
    /\ document \in [Digests -> Branches \cup {NoBranch}]

\* The stock of a branch is what its movements add up to, whatever is sold,
\* bought, counted and moved at once (purchasing.py:296, inventory_controls.py:188
\* and 342, routes/inventory.py:122 all write on_hand from what they read before).
StockIsMovements ==
    \A b \in Branches, p \in Products :
        onHand[b][p] = StockAtStart[b][p] + SumFunction([o \in posted |-> moves[o][b][p]])

GL(account, S) == SumFunction([o \in S \cap posted |-> journal[o][account]])
OfBranch(b) == {o \in Ops : Req[o].branch = b}

\* the payments among S for a purchase, or in advance
PaymentsFor(u, S) == {o \in Payments \cap S : Req[o].purchase = u}
PaidFor(u, S) == SumFunction([o \in PaymentsFor(u, S) |-> Req[o].amount])

\* what ledger_health compares of the suppliers of a branch
PayablesHealth(b) ==
    LET mine == posted \cap OfBranch(b)
    IN  [payables |-> -GL("Payable", mine) - SumFunction([u \in Purchases \cap mine |-> due[u]]),
         advances |-> GL("Advances", mine) - PaidFor(NoPurchase, mine)]

\* The ledger's payables and supplier advances are the purchases' balances and the
\* payments without a purchase, at every branch (accounting.py:609-626), and a
\* purchase owes what it cost less what was paid for it, whatever payments met.
PayablesHealthy ==
    /\ \A b \in Branches : PayablesHealth(b) = [payables |-> 0, advances |-> 0]
    /\ \A u \in Purchases \cap posted : due[u] + PaidFor(u, posted) = Balance(u)

\* Where stock is only held at one branch and nobody edits its cost, account 1200
\* stays within a cent per movement of the stock valued at its average cost: the
\* average is taken over what the ledger holds (purchasing.py:287-295).  With two
\* branches it does not: the average forgets the stock of the other one.  Rounding
\* the average loses up to half a unit of cost for each item held, so a cent is enough
\* while no branch holds more than CostScale of a product.
StockedAt(p) ==
    {b \in Branches : StockAtStart[b][p] > 0 \/ \E o \in posted : moves[o][b][p] # 0}
Movements == {m \in posted \X Branches \X Products : moves[m[1]][m[2]][m[3]] # 0}
Valuation(stock, cards) ==
    SumFunction([p \in Products |->
                    cards[p].cost * SumFunction([b \in Branches |-> stock[b][p]])])
ValuationTracked ==
    (/\ \A p \in Products : Cardinality(StockedAt(p)) <= 1
     /\ \A t \in Txns : Req[OpOf[t]].kind = "edit" => answer[t] # "created") =>
        LET ledger == Valuation(StockAtStart, CardAtStart) + CostScale * GL("Inventory", Ops \ Opening)
            drift == Valuation(onHand, card) - ledger
        IN  /\ drift <= CostScale * Cardinality(Movements)
            /\ -drift <= CostScale * Cardinality(Movements)

\* A document row never promises bytes the object store does not have, though
\* the two are not written together and the server may stop in between
\* (routes/documents.py:73).
DocumentsStored == \A d \in Digests : document[d] # NoBranch => d \in stored

\* Every operation of the outbox has an answer in the end, and no other request hangs in
\* the server: it is answered, or it fails and is gone; though a transfer or stocktake locks
\* branches before products (inventory_controls.py:134) and a sale or purchase
\* products before the branch its new rows refer to.
Over(t) == ~Active(t) \/ (pc[t] = "idle" /\ ~Resent(t))
EventuallyAnswered == []<>(\A t \in Txns : Over(t))
=============================================================================
