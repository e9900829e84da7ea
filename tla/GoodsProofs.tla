------------------------------ MODULE GoodsProofs ------------------------------
(***************************************************************************)
(* Stock, payables and the value of the stock of Goods, for any number of  *)
(* branches, products and requests.  What decides is that a request that   *)
(* has read keeps the locks of the rows it will change until it ends: what *)
(* it has read of them is still what they say when it writes.  That goes   *)
(* for the cards too: an edit reads before it locks, but it waits for the  *)
(* lock before it writes.                                                  *)
(***************************************************************************)
EXTENDS Goods, RequestsProofs

AllStages == {"unsent", "idle", "lookup", "working", "done", "read", "stored"}

-----------------------------------------------------------------------------
(* The inductive invariant                                                  *)

SeenOf(o) ==
    [onHand : [Branches -> [Lines(o) -> Nat]], card : [Lines(o) -> CardRow], due : Nat]

PaysFor(o, u) == o \in Payments /\ Req[o].purchase = u

Typed ==
    /\ TypeOK
    /\ seen = [t \in Txns |-> seen[t]]
    /\ \A t \in Txns : pc[t] = "read" => seen[t] \in SeenOf(OpOf[t])

\* A request that has read holds every row it had to lock.
HeldInv == \A t \in Txns : pc[t] = "read" => \A l \in LockSet(OpOf[t]) : Holds(t, l)

\* What it has read of the stock it locks is still there; of the balance it pays too,
\* unless it looked before the purchase was there.
SeenInv ==
    \A t \in Txns : pc[t] = "read" =>
        /\ \A p \in Lines(OpOf[t]) : Product(p) \in LockSet(OpOf[t]) =>
              \A b \in Branches : seen[t].onHand[b][p] = onHand[b][p]
        /\ \A u \in Purchases : PaysFor(OpOf[t], u) => seen[t].due \in {0, due[u]}

OwedInv ==
    /\ \A u \in Purchases \ posted : due[u] = 0
    /\ \A o \in posted, u \in Purchases :
          PaysFor(o, u) => u \in posted /\ Req[u].branch = Req[o].branch

\* what an operation does to the accounts of the suppliers
OnPayable(o) ==
    IF o \in Purchases THEN -Balance(o)
    ELSE IF o \in Payments /\ ~PaysFor(o, NoPurchase) THEN Req[o].amount ELSE 0
OnAdvances(o) == IF PaysFor(o, NoPurchase) THEN Req[o].amount ELSE 0

JournalInv ==
    \A o \in posted : /\ journal[o]["Payable"] = OnPayable(o)
                      /\ journal[o]["Advances"] = OnAdvances(o)

StoredInv ==
    \A t \in Txns : pc[t] = "stored" => OpOf[t] \in Uploads /\ Req[OpOf[t]].digest \in stored

GoodsInv ==
    /\ Typed /\ HeldInv /\ SeenInv /\ OwedInv /\ JournalInv /\ StoredInv
    /\ StockIsMovements /\ PayablesHealthy /\ DocumentsStored
-----------------------------------------------------------------------------
(* Figures of one operation                                                 *)

LEMMA Kinds ==
    /\ \A o \in Purchases : o \in Ops /\ o \in ClientOps /\ o \notin Payments /\ Req[o].kind = "purchase"
    /\ \A o \in Payments : o \in Ops /\ o \in ClientOps /\ o \notin Purchases /\ Req[o].kind = "payment"
    /\ \A o \in Uploads : o \in Ops /\ Req[o].kind = "upload"
    /\ ClientOps \subseteq Ops
    /\ NoPurchase \notin Purchases
PROOF BY GoodsAssumption DEF Purchases, Payments, Uploads, ClientOps, OfKind

LEMMA FiniteData ==
    /\ IsFiniteSet(Products)
    /\ \A o \in Ops : IsFiniteSet(Lines(o)) /\ \A S : S \subseteq Lines(o) => IsFiniteSet(S)
    /\ \A S : S \subseteq Ops => IsFiniteSet(S)
PROOF
<1>1. ProductOrder \in Seq(Products) /\ IsFiniteSet(Ops) /\ \A o \in Ops : Lines(o) \subseteq Products
      BY GoodsAssumption
<1>2. DOMAIN ProductOrder = 1..Len(ProductOrder) /\ Len(ProductOrder) \in Nat
      BY <1>1
<1>3. IsFiniteSet(DOMAIN ProductOrder)
      BY <1>2, FS_Interval
<1>4. ProductOrder \in Surjection(1..Len(ProductOrder), Products)
      BY <1>1, <1>2 DEF Products, Surjection
<1>5. IsFiniteSet(Products)
      BY <1>2, <1>3, <1>4, FS_Surjection
<1>6. \A S : S \subseteq Ops => IsFiniteSet(S)
      BY <1>1, FS_Subset
<1>7. \A S : S \subseteq Products => IsFiniteSet(S)
      BY <1>5, FS_Subset
<1>   QED BY <1>1, <1>5, <1>6, <1>7

LEMMA RoundedInt == \A n \in Int, d \in Nat \ {0} : HalfUp(n, d) \in Int /\ (n >= 0 => HalfUp(n, d) \in Nat)
PROOF
<1>1. SUFFICES ASSUME NEW n \in Int, NEW d \in Nat \ {0}
      PROVE HalfUp(n, d) \in Int /\ (n >= 0 => HalfUp(n, d) \in Nat)
      OBVIOUS
<1>2. \A m \in Int, e \in Nat \ {0} : m \div e \in Int /\ (m >= 0 => m \div e >= 0)
      OBVIOUS
<1>3. 2 * n + d \in Int /\ 2 * d \in Nat \ {0} /\ (n >= 0 => 2 * n + d >= 0)
      OBVIOUS
<1>   QED BY <1>2, <1>3 DEF HalfUp

LEMMA LineTotalInt ==
    \A cost \in Int, qty \in Int : /\ LineTotal(cost, qty) \in Int
                                   /\ cost >= 0 /\ qty >= 0 => LineTotal(cost, qty) \in Nat
PROOF
<1>1. \A cost \in Int, qty \in Int : cost * qty \in Int /\ (cost >= 0 /\ qty >= 0 => cost * qty >= 0)
      OBVIOUS
<1>   QED BY <1>1, RoundedInt, GoodsAssumption DEF LineTotal

LEMMA LineFigures ==
    ASSUME NEW o \in Purchases, NEW p \in Lines(o)
    PROVE  Ordered(o, p) \in Int /\ Received(o, p) \in Int /\ Req[o].items[p].tax \in Int
PROOF
<1> DEFINE line == Req[o].items[p]
           cost == line.cost
           ordered == line.ordered
           received == line.received
<1>1. line \in PurchaseLine
  <2>1. o \in Ops /\ Req[o].kind = "purchase"
        BY Kinds
  <2>2. line \in ItemOf[Req[o].kind]
        BY <2>1, GoodsAssumption
  <2>   QED BY <2>1, <2>2 DEF ItemOf
<1>2. cost \in Int /\ ordered \in Int /\ received \in Int /\ line.tax \in Int
      BY <1>1 DEF PurchaseLine
<1>3. Ordered(o, p) = LineTotal(cost, ordered) /\ Received(o, p) = LineTotal(cost, received)
      BY DEF Ordered, Received
<1> HIDE DEF cost, ordered, received
<1>4. LineTotal(cost, ordered) \in Int /\ LineTotal(cost, received) \in Int
      BY <1>2, LineTotalInt
<1>   QED BY <1>2, <1>3, <1>4

LEMMA BalanceInt == \A o \in Purchases : Balance(o) \in Int
PROOF
<1> SUFFICES ASSUME NEW o \in Purchases PROVE Balance(o) \in Int
    OBVIOUS
<1>1. o \in Ops /\ Req[o].paid \in Nat
      BY Kinds, GoodsAssumption
<1>2. \A p \in Lines(o) : Ordered(o, p) \in Int /\ Req[o].items[p].tax \in Int
      BY LineFigures
<1>3. \A p \in Lines(o) : Ordered(o, p) + Req[o].items[p].tax \in Int
      BY <1>2
<1>4. Total(o) \in Int
  <2> DEFINE f == [p \in Lines(o) |-> Ordered(o, p) + Req[o].items[p].tax]
  <2>1. IsFiniteSet(DOMAIN f) /\ \A p \in DOMAIN f : f[p] \in Int
        BY <1>1, <1>3, FiniteData
  <2>2. SumFunction(f) \in Int
        BY <2>1, SumAllInt
  <2>   QED BY <2>2 DEF Total
<1>   QED BY <1>1, <1>4 DEF Balance

LEMMA DeltaIs ==
    ASSUME NEW o \in Ops, NEW s \in SeenOf(o), NEW b \in Branches, NEW p \in Lines(o)
    PROVE  /\ Delta(o, s, b, p) \in Int
           /\ Delta(o, s, b, p) # 0 => Product(p) \in LockSet(o) /\ Req[o].kind # "edit"
           /\ b # Req[o].branch => Delta(o, s, b, p) >= 0
PROOF
<1>1. Req[o].items[p] \in ItemOf[Req[o].kind] /\ s.onHand[b][p] \in Nat
      BY GoodsAssumption DEF SeenOf
<1>2. CASE Req[o].kind = "purchase"
  <2>1. Req[o].items[p].received \in Nat /\ Product(p) \in LockSet(o)
        BY <1>1, <1>2 DEF ItemOf, PurchaseLine, LockSet, ProductLocks
  <2>   QED BY <1>2, <2>1 DEF Delta
<1>3. CASE Req[o].kind \in {"sale", "adjustment", "stocktake", "transfer"}
  <2>1. Req[o].items[p] \in Int /\ (Req[o].kind # "adjustment" => Req[o].items[p] \in Nat)
        BY <1>1, <1>3 DEF ItemOf, TransferLine, StocktakeLine, Adjustment
  <2>2. Product(p) \in LockSet(o)
        BY <1>3 DEF LockSet, ProductLocks
  <2>3. /\ -Req[o].items[p] \in Int
        /\ Req[o].items[p] - s.onHand[b][p] \in Int
        BY <1>1, <2>1
  <2>   QED BY <1>3, <2>1, <2>2, <2>3 DEF Delta
<1>4. CASE Req[o].kind \notin {"purchase", "sale", "adjustment", "stocktake", "transfer"}
      BY <1>4 DEF Delta
<1>   QED BY <1>2, <1>3, <1>4

LEMMA PostingInt ==
    ASSUME NEW lines, \A a \in DOMAIN lines : lines[a] \in Int
    PROVE  Posting(lines) \in [Accounts -> Int]
PROOF BY DEF Posting

LEMMA PurchasePostingIs ==
    ASSUME NEW o \in Purchases, NEW track
    PROVE  /\ PurchasePosting(o, track) \in [Accounts -> Int]
           /\ PurchasePosting(o, track)["Payable"] = -Balance(o)
           /\ PurchasePosting(o, track)["Advances"] = 0
PROOF
<1> DEFINE stock == {p \in Lines(o) : track[p]}
           f1 == [p \in stock |-> Received(o, p)]
           f2 == [p \in stock |-> Ordered(o, p) - Received(o, p)]
           f3 == [p \in Lines(o) \ stock |-> Ordered(o, p)]
           f4 == [p \in Lines(o) |-> Req[o].items[p].tax]
           lines == [Inventory |-> SumFunction(f1), Transit |-> SumFunction(f2),
                     NonStock |-> SumFunction(f3), Tax |-> SumFunction(f4),
                     Cash |-> -Req[o].paid, Payable |-> -Balance(o)]
<1>1. o \in Ops /\ Req[o].paid \in Nat
      BY Kinds, GoodsAssumption
<1>3. \A p \in Lines(o) : /\ Ordered(o, p) \in Int /\ Received(o, p) \in Int
                          /\ Req[o].items[p].tax \in Int
      BY LineFigures
<1>4. \A p \in Lines(o) : Ordered(o, p) - Received(o, p) \in Int
      BY <1>3
<1>5. IsFiniteSet(stock) /\ IsFiniteSet(Lines(o) \ stock) /\ IsFiniteSet(Lines(o))
      BY <1>1, FiniteData
<1>6. /\ SumFunction(f1) \in Int /\ SumFunction(f2) \in Int
      /\ SumFunction(f3) \in Int /\ SumFunction(f4) \in Int
  <2>1. \A p \in Lines(o) : Req[o].items[p].tax \in Int
        BY <1>3
  <2>2. /\ IsFiniteSet(DOMAIN f1) /\ \A p \in DOMAIN f1 : f1[p] \in Int
        BY <1>3, <1>5
  <2>3. /\ IsFiniteSet(DOMAIN f2) /\ \A p \in DOMAIN f2 : f2[p] \in Int
        BY <1>4, <1>5
  <2>4. /\ IsFiniteSet(DOMAIN f3) /\ \A p \in DOMAIN f3 : f3[p] \in Int
        BY <1>3, <1>5
  <2>5. /\ IsFiniteSet(DOMAIN f4) /\ \A p \in DOMAIN f4 : f4[p] \in Int
        BY <1>5, <2>1
  <2> HIDE DEF f1, f2, f3, f4
  <2>   QED BY <2>2, <2>3, <2>4, <2>5, SumAllInt
<1>7. -Req[o].paid \in Int /\ -Balance(o) \in Int
      BY <1>1, BalanceInt
<1>8. PurchasePosting(o, track) = Posting(lines)
      BY DEF PurchasePosting
<1> HIDE DEF f1, f2, f3, f4, stock
<1>9. /\ DOMAIN lines = {"Inventory", "Transit", "NonStock", "Tax", "Cash", "Payable"}
      /\ \A a \in DOMAIN lines : lines[a] \in Int
      /\ lines.Payable = -Balance(o)
      BY <1>6, <1>7
<1> HIDE DEF lines
<1>   QED BY <1>8, <1>9, PostingInt DEF Posting, Accounts

LEMMA JournalIs ==
    ASSUME NEW o \in Ops, NEW s \in SeenOf(o)
    PROVE  /\ JournalOf(o, s) \in [Accounts -> Int]
           /\ JournalOf(o, s)["Payable"] = OnPayable(o)
           /\ JournalOf(o, s)["Advances"] = OnAdvances(o)
PROOF
<1> DEFINE b == Req[o].branch
           value(p) == LineTotal(s.card[p].cost, Delta(o, s, b, p))
           loss(p) == LineTotal(s.card[p].cost, -Delta(o, s, b, p))
           more == {p \in Lines(o) : Delta(o, s, b, p) > 0}
           f1 == [p \in more |-> value(p)]
           f2 == [p \in Lines(o) \ more |-> loss(p)]
           gain == SumFunction(f1)
           lost == SumFunction(f2)
<1>1. b \in Branches
      BY GoodsAssumption
<1>2. ASSUME NEW p \in Lines(o) PROVE value(p) \in Int /\ loss(p) \in Int
  <2> DEFINE d == Delta(o, s, b, p)
             e == -Delta(o, s, b, p)
             cost == s.card[p].cost
  <2>1. d \in Int
        BY <1>1, DeltaIs
  <2>2. e \in Int /\ cost \in Int
        BY <2>1 DEF SeenOf, CardRow
  <2> HIDE DEF d, e, cost
  <2>3. LineTotal(cost, d) \in Int /\ LineTotal(cost, e) \in Int
        BY <2>1, <2>2, LineTotalInt
  <2>   QED BY <2>3 DEF d, e, cost
<1>3. gain \in Int /\ lost \in Int
  <2> HIDE DEF value, loss
  <2>1. IsFiniteSet(DOMAIN f1) /\ \A p \in DOMAIN f1 : f1[p] \in Int
        BY <1>2, FiniteData
  <2>2. IsFiniteSet(DOMAIN f2) /\ \A p \in DOMAIN f2 : f2[p] \in Int
        BY <1>2, FiniteData
  <2> HIDE DEF f1, f2
  <2>   QED BY <2>1, <2>2, SumAllInt
<1>4. JournalOf(o, s) =
      LET r == Req[o]
      IN  CASE r.kind = "purchase" -> PurchasePosting(o, [p \in Lines(o) |-> s.card[p].track])
            [] r.kind = "payment" ->
                  IF r.purchase = NoPurchase
                  THEN Posting([Advances |-> r.amount, Cash |-> -r.amount])
                  ELSE Posting([Payable |-> r.amount, Cash |-> -r.amount])
            [] r.kind = "expense" -> Posting([Expense |-> r.amount, Cash |-> -r.amount])
            [] r.kind = "adjustment" /\ r.opening ->
                  Posting([Inventory |-> gain - lost, Capital |-> -gain, Shrinkage |-> lost])
            [] r.kind \in {"adjustment", "stocktake"} ->
                  Posting([Inventory |-> gain - lost, Gains |-> -gain, Shrinkage |-> lost])
            [] r.kind = "sale" -> Posting([Inventory |-> -lost, COGS |-> lost])
            [] OTHER -> Posting(<<>>)
      BY DEF JournalOf
<1>5. gain - lost \in Int /\ -gain \in Int /\ -lost \in Int
      BY <1>3
<1> HIDE DEF gain, lost
<1> DEFINE Fine(j) == j \in [Accounts -> Int] /\ j["Payable"] = 0 /\ j["Advances"] = 0
<1>6. /\ Fine(Posting([Inventory |-> gain - lost, Capital |-> -gain, Shrinkage |-> lost]))
      /\ Fine(Posting([Inventory |-> gain - lost, Gains |-> -gain, Shrinkage |-> lost]))
      /\ Fine(Posting([Inventory |-> -lost, COGS |-> lost]))
      /\ Fine(Posting(<<>>))
      BY <1>3, <1>5 DEF Posting, Accounts
<1>7. CASE Req[o].kind = "purchase"
  <2>1. o \in Purchases /\ o \notin Payments
        BY <1>7 DEF Purchases, Payments, OfKind
  <2>   QED BY <1>4, <1>7, <2>1, PurchasePostingIs DEF OnPayable, OnAdvances, PaysFor
<1>8. CASE Req[o].kind = "payment"
  <2>1. o \in Payments /\ o \notin Purchases
        BY <1>8 DEF Purchases, Payments, OfKind
  <2>2. Req[o].amount \in Int /\ -Req[o].amount \in Int
        BY <2>1, GoodsAssumption
  <2>3. CASE Req[o].purchase = NoPurchase
    <3>1. JournalOf(o, s) = Posting([Advances |-> Req[o].amount, Cash |-> -Req[o].amount])
          BY <1>4, <1>8, <2>3
    <3>   QED BY <2>1, <2>2, <2>3, <3>1 DEF Posting, Accounts, OnPayable, OnAdvances, PaysFor
  <2>4. CASE Req[o].purchase # NoPurchase
    <3>1. JournalOf(o, s) = Posting([Payable |-> Req[o].amount, Cash |-> -Req[o].amount])
          BY <1>4, <1>8, <2>4
    <3>   QED BY <2>1, <2>2, <2>4, <3>1 DEF Posting, Accounts, OnPayable, OnAdvances, PaysFor
  <2>   QED BY <2>3, <2>4
<1>9. ASSUME Req[o].kind \notin {"purchase", "payment"}
      PROVE  Fine(JournalOf(o, s)) /\ OnPayable(o) = 0 /\ OnAdvances(o) = 0
  <2>1. OnPayable(o) = 0 /\ OnAdvances(o) = 0
        BY <1>9 DEF OnPayable, OnAdvances, PaysFor, Payments, Purchases, OfKind
  <2>2. CASE Req[o].kind = "expense"
    <3>1. JournalOf(o, s) = Posting([Expense |-> Req[o].amount, Cash |-> -Req[o].amount])
          BY <1>4, <2>2
    <3>2. Req[o].amount \in Int /\ -Req[o].amount \in Int
          BY <2>2, GoodsAssumption DEF OfKind
    <3>   QED BY <2>1, <3>1, <3>2 DEF Posting, Accounts
  <2> HIDE DEF Fine
  <2>   QED BY <1>4, <1>6, <1>9, <2>1, <2>2
<1>   QED BY <1>7, <1>8, <1>9

-----------------------------------------------------------------------------
(* What a committing request writes                                         *)

\* t, which has read s, writes what o does and ends
Wrote(t, o, s) ==
    /\ t \in Txns /\ o \in Ops /\ OpOf[t] = o /\ seen[t] = s /\ s \in SeenOf(o)
    /\ pc[t] = "read" /\ pc'[t] = "done" /\ answer'[t] = "created" /\ o \notin posted
    /\ ~Blocked(t) /\ MustWait(t) = {} /\ Req[o].kind # "upload"
    /\ ~Refused(o, s) /\ Write(o, s) /\ UNCHANGED receipts

LEMMA WritesDue ==
    ASSUME TypeOK, NEW t, NEW o, NEW s, Wrote(t, o, s)
    PROVE  /\ due' \in [Purchases -> Nat]
           /\ \A u \in Purchases :
                 due'[u] = IF u = o THEN Balance(o)
                           ELSE IF PaysFor(o, u) THEN s.due - Req[o].amount ELSE due[u]
           /\ \A u \in Purchases : PaysFor(o, u) =>
                 /\ u \in posted /\ Req[u].branch = Req[o].branch /\ s.due # 0
                 /\ Req[o].amount \in Int
PROOF
<1>1. /\ o \in Ops /\ s \in SeenOf(o) /\ ~Refused(o, s) /\ Write(o, s)
      /\ due \in [Purchases -> Nat]
      BY DEF Wrote, TypeOK
<1>2. due' = [u \in Purchases |->
                 IF u = o THEN Balance(o)
                 ELSE IF o \in Payments /\ u = Req[o].purchase THEN s.due - Req[o].amount
                 ELSE due[u]]
      BY <1>1 DEF Write
<1>3. o \in Purchases => Balance(o) \in Nat
  <2>1. o \in Purchases => Balance(o) \in Int /\ ~(Balance(o) < 0)
        BY <1>1, Kinds, BalanceInt DEF Refused
  <2>   QED BY <2>1
<1>4. ASSUME NEW u \in Purchases, PaysFor(o, u)
      PROVE  /\ u \in posted /\ Req[u].branch = Req[o].branch
             /\ Req[o].amount \in Nat \ {0} /\ s.due \in Nat /\ ~(Req[o].amount > s.due)
  <2>1. o \in Payments /\ Req[o].kind = "payment" /\ Req[o].purchase = u /\ u # NoPurchase
        BY <1>4, Kinds DEF PaysFor
  <2>   QED BY <1>1, <2>1, GoodsAssumption DEF Refused, SeenOf
<1>5. ASSUME NEW u \in Purchases, PaysFor(o, u)
      PROVE  s.due - Req[o].amount \in Nat /\ s.due # 0
  <2> DEFINE d == s.due
             a == Req[o].amount
  <2>1. a \in Nat \ {0} /\ d \in Nat /\ ~(a > d)
        BY <1>4, <1>5
  <2> HIDE DEF d, a
  <2>2. d - a \in Nat /\ d # 0
        BY <2>1
  <2>   QED BY <2>2 DEF d, a
<1>6. \A u \in Purchases :
          due'[u] = IF u = o THEN Balance(o)
                    ELSE IF PaysFor(o, u) THEN s.due - Req[o].amount ELSE due[u]
      BY <1>2 DEF PaysFor
<1>   QED BY <1>1, <1>2, <1>3, <1>4, <1>5, <1>6

LEMMA WritesStock ==
    ASSUME TypeOK, NEW t, NEW o, NEW s, Wrote(t, o, s)
    PROVE  /\ onHand' \in [Branches -> [Products -> Nat]]
           /\ \A b \in Branches, p \in Products :
                 onHand'[b][p] = IF p \in Lines(o) /\ Delta(o, s, b, p) # 0
                                 THEN s.onHand[b][p] + Delta(o, s, b, p) ELSE onHand[b][p]
           /\ moves' \in [Ops -> [Branches -> [Products -> Int]]]
           /\ \A b \in Branches, p \in Products :
                 moves'[o][b][p] = IF p \in Lines(o) THEN Delta(o, s, b, p) ELSE 0
           /\ \A x \in Ops \ {o} : moves'[x] = moves[x]
PROOF
<1>1. /\ o \in Ops /\ s \in SeenOf(o) /\ ~Refused(o, s) /\ Write(o, s)
      /\ onHand \in [Branches -> [Products -> Nat]]
      /\ moves \in [Ops -> [Branches -> [Products -> Int]]]
      /\ Lines(o) \subseteq Products /\ Req[o].branch \in Branches
      BY GoodsAssumption DEF Wrote, TypeOK
<1>2. /\ onHand' = [b \in Branches |-> [p \in Products |->
                       IF p \in Lines(o) /\ Delta(o, s, b, p) # 0
                       THEN s.onHand[b][p] + Delta(o, s, b, p) ELSE onHand[b][p]]]
      /\ moves' = [moves EXCEPT ![o] = Moved(o, s)]
      BY <1>1 DEF Write
<1>3. ASSUME NEW b \in Branches, NEW p \in Lines(o), Delta(o, s, b, p) # 0
      PROVE  s.onHand[b][p] + Delta(o, s, b, p) \in Nat
  <2> DEFINE n == s.onHand[b][p]
             d == Delta(o, s, b, p)
  <2>1. n \in Nat /\ d \in Int /\ (b # Req[o].branch => d >= 0) /\ Req[o].kind # "edit"
        BY <1>1, <1>3, DeltaIs DEF SeenOf
  <2>2. b = Req[o].branch => ~(n + d < 0)
        BY <1>1, <2>1 DEF Refused, Short
  <2> HIDE DEF n, d
  <2>3. n + d \in Nat
        BY <2>1, <2>2
  <2>   QED BY <2>3 DEF n, d
<1>4. onHand' \in [Branches -> [Products -> Nat]]
      BY <1>1, <1>2, <1>3
<1>5. Moved(o, s) \in [Branches -> [Products -> Int]]
      BY <1>1, DeltaIs DEF Moved
<1>6. /\ moves' \in [Ops -> [Branches -> [Products -> Int]]]
      /\ moves'[o] = Moved(o, s)
      /\ \A x \in Ops \ {o} : moves'[x] = moves[x]
      BY <1>1, <1>2, <1>5
<1>7. \A b \in Branches, p \in Products :
          Moved(o, s)[b][p] = IF p \in Lines(o) THEN Delta(o, s, b, p) ELSE 0
      BY DEF Moved
<1>   QED BY <1>2, <1>4, <1>6, <1>7

LEMMA WritesCards ==
    ASSUME TypeOK, NEW t, NEW o, NEW s, Wrote(t, o, s)
    PROVE  card' \in [Products -> CardRow]
PROOF
<1>1. /\ o \in Ops /\ s \in SeenOf(o) /\ card \in [Products -> CardRow]
      /\ Lines(o) \subseteq Products /\ Req[o].branch \in Branches
      /\ card' = [p \in Products |-> IF p \in Lines(o) THEN NewCard(o, s, p) ELSE card[p]]
      BY GoodsAssumption DEF Wrote, Write, TypeOK
<1>2. ASSUME NEW p \in Lines(o), Req[o].kind = "purchase" PROVE NewCost(o, s, p) \in Nat
  <2> DEFINE had == s.onHand[Req[o].branch][p]
             line == Req[o].items[p]
             got == line.received
             price == line.cost
             cost == s.card[p].cost
  <2>1. line \in PurchaseLine
        BY <1>1, <1>2, GoodsAssumption DEF ItemOf
  <2>2. had \in Nat /\ got \in Nat /\ price \in Nat /\ cost \in Nat
        BY <1>1, <2>1 DEF SeenOf, CardRow, PurchaseLine
  <2>3. NewCost(o, s, p) = IF had > 0 THEN HalfUp(had * cost + got * price, had + got) ELSE price
        BY DEF NewCost
  <2> HIDE DEF had, got, price, cost
  <2>4. had * cost + got * price \in Nat /\ (had > 0 => had + got \in Nat \ {0})
        BY <2>2
  <2>5. had > 0 => HalfUp(had * cost + got * price, had + got) \in Nat
        BY <2>4, RoundedInt
  <2>   QED BY <2>2, <2>3, <2>5
<1>3. ASSUME NEW p \in Lines(o) PROVE NewCard(o, s, p) \in CardRow
  <2>1. card[p] \in CardRow /\ \A n \in Nat : [card[p] EXCEPT !.cost = n] \in CardRow
        BY <1>1 DEF CardRow
  <2>2. CASE Req[o].kind = "edit"
    <3>1. Req[o].items[p] \in CardRow
          BY <1>1, <2>2, GoodsAssumption DEF ItemOf
    <3>2. /\ Changed(o, s, p, "cost") \in Nat
          /\ Changed(o, s, p, "active") \in BOOLEAN /\ Changed(o, s, p, "track") \in BOOLEAN
          BY <2>1, <3>1 DEF Changed, CardRow
    <3>3. NewCard(o, s, p) = [f \in {"cost", "active", "track"} |-> Changed(o, s, p, f)]
          BY <2>2 DEF NewCard
    <3>4. NewCard(o, s, p) = [cost |-> Changed(o, s, p, "cost"), active |-> Changed(o, s, p, "active"),
                              track |-> Changed(o, s, p, "track")]
          BY <3>3
    <3>   QED BY <3>2, <3>4 DEF CardRow
  <2>3. CASE Req[o].kind # "edit"
        BY <1>2, <2>1, <2>3 DEF NewCard
  <2>   QED BY <2>2, <2>3
<1>   QED BY <1>1, <1>3

LEMMA WritesJournal ==
    ASSUME TypeOK, NEW t, NEW o, NEW s, Wrote(t, o, s)
    PROVE  /\ journal' \in [Ops -> [Accounts -> Int]]
           /\ journal'[o]["Payable"] = OnPayable(o) /\ journal'[o]["Advances"] = OnAdvances(o)
           /\ \A x \in Ops \ {o} : journal'[x] = journal[x]
           /\ posted' = posted \cup ({o} \cap ClientOps) /\ o \notin posted
PROOF
<1>1. /\ o \in Ops /\ s \in SeenOf(o) /\ journal \in [Ops -> [Accounts -> Int]]
      /\ journal' = [journal EXCEPT ![o] = JournalOf(o, s)]
      /\ posted' = posted \cup ({o} \cap ClientOps) /\ o \notin posted
      BY DEF Wrote, Write, TypeOK
<1>2. /\ JournalOf(o, s) \in [Accounts -> Int]
      /\ JournalOf(o, s)["Payable"] = OnPayable(o) /\ JournalOf(o, s)["Advances"] = OnAdvances(o)
      BY <1>1, JournalIs
<1>   QED BY <1>1, <1>2

LEMMA CommitWrites ==
    ASSUME Typed, NEW t \in Txns,
           \/ CompletePurchase(t) \/ RecordSupplierPayment(t) \/ RecordExpense(t) \/ AdjustStock(t)
           \/ CompleteStockTransfer(t) \/ PostStocktake(t) \/ CompleteSale(t) \/ UpdateProduct(t)
    PROVE  \E s : Wrote(t, OpOf[t], s)
PROOF
<1>1. \E kind : Commits(t, kind) /\ kind # "upload"
      BY DEF CompletePurchase, RecordSupplierPayment, RecordExpense, AdjustStock,
             CompleteStockTransfer, PostStocktake, CompleteSale, UpdateProduct
<1>2. /\ pc[t] = "read" /\ ~Refused(OpOf[t], seen[t]) /\ OpOf[t] \notin posted
      /\ ~Blocked(t) /\ MustWait(t) = {} /\ Req[OpOf[t]].kind # "upload"
      /\ Write(OpOf[t], seen[t]) /\ End(t, "created") /\ UNCHANGED receipts
      BY <1>1 DEF Commits, At, There
<1>3. /\ OpOf[t] \in Ops /\ seen[t] \in SeenOf(OpOf[t]) /\ pc \in [Txns -> AllStages]
      /\ answer \in [Txns -> {"none", "created", "replayed", "refused"}]
      BY <1>2, GoodsAssumption DEF Typed, TypeOK, RequestsTypeOK, AllStages
<1>4. pc'[t] = "done" /\ answer'[t] = "created"
      BY <1>2, <1>3 DEF End, Goto
<1>5. Wrote(t, OpOf[t], seen[t])
      BY <1>2, <1>3, <1>4 DEF Wrote
<1>   QED BY <1>5

\* A step leaves the books alone or is the commit of one request.
LEMMA Steps ==
    ASSUME Typed, [Next]_vars
    PROVE  \/ UNCHANGED books
           \/ \E t \in Txns : \E s : Wrote(t, OpOf[t], s)
PROOF
<1>1. CASE \E t \in Txns : \/ Arrive(t) \/ Again(t) \/ Lock(t) \/ Read(t) \/ Refuse(t)
                           \/ WaitToWrite(t) \/ FindDocument(t) \/ PutObject(t)
                           \/ RecordDocument(t) \/ Fail(t)
      BY <1>1 DEF Arrive, Again, Lock, Read, Refuse, WaitToWrite, FindDocument, PutObject,
                  RecordDocument, Fail, Keep
<1>2. CASE \E t \in Txns :
               \/ CompletePurchase(t) \/ RecordSupplierPayment(t) \/ RecordExpense(t)
               \/ AdjustStock(t) \/ CompleteStockTransfer(t) \/ PostStocktake(t)
               \/ CompleteSale(t) \/ UpdateProduct(t)
      BY <1>2, CommitWrites
<1>3. CASE UNCHANGED vars
      BY <1>3 DEF vars, books
<1>   QED BY <1>1, <1>2, <1>3 DEF Next, Work

-----------------------------------------------------------------------------
(* What a step does to the requests                                         *)

\* the steps of t as far as locks, stages and what has been read go
Asks(t) == UNCHANGED queue \/ \E l : Ask(t, l)

RequestSteps(t) ==
    \/ /\ (\E there : Begin(t, there) \/ Lookup(t, there)) \/ Start(t) \* arrives
       /\ UNCHANGED <<books, receipts, seen>>
    \/ /\ pc[t] \in {"working", "read"} /\ Asks(t) /\ UNCHANGED <<pc, answer, seen>>
       /\ UNCHANGED <<books, receipts>>
    \/ Read(t)
    \/ PutObject(t)
    \/ /\ (\E what \in {"created", "replayed", "refused"} : End(t, what)) \/ Rollback(t)
       /\ seen' = seen \/ Forget(t)
       /\ UNCHANGED receipts \/ RecordDocument(t)

LEMMA StepsOfRequests ==
    ASSUME [Next]_vars
    PROVE  UNCHANGED vars \/ \E t \in Txns : RequestSteps(t)
PROOF
<1>1. ASSUME NEW t \in Txns, Work(t) \/ Fail(t) PROVE RequestSteps(t)
  <2>1. CASE Arrive(t) \/ Again(t)
        BY <2>1 DEF Arrive, Again, Keep, RequestSteps
  <2>2. CASE Lock(t) \/ WaitToWrite(t)
        BY <2>2 DEF Lock, WaitToWrite, Keep, RequestSteps, Asks, At
  <2>3. CASE Read(t) \/ PutObject(t)
        BY <2>3 DEF RequestSteps
  <2>4. CASE Refuse(t) \/ FindDocument(t)
        BY <2>4 DEF Refuse, FindDocument, Keep, RequestSteps
  <2>5. CASE RecordDocument(t)
        BY <2>5 DEF RecordDocument, RequestSteps
  <2>6. CASE Fail(t)
        BY <2>6 DEF Fail, Crash, Keep, RequestSteps
  <2>7. ASSUME NEW kind, Commits(t, kind) PROVE RequestSteps(t)
        BY <2>7 DEF Commits, RequestSteps
  <2>   QED BY <1>1, <2>1, <2>2, <2>3, <2>4, <2>5, <2>6, <2>7
            DEF Work, CompletePurchase, RecordSupplierPayment, RecordExpense, AdjustStock,
                CompleteStockTransfer, PostStocktake, CompleteSale, UpdateProduct
<1>   QED BY <1>1 DEF Next, vars

LEMMA RowTypes ==
    ASSUME Typed
    PROVE  /\ QueueTypeOK /\ pc \in [Txns -> AllStages] /\ RequestsTypeOK({"read", "stored"})
           /\ posted \subseteq ClientOps /\ due \in [Purchases -> Nat]
           /\ moves \in [Ops -> [Branches -> [Products -> Int]]]
           /\ journal \in [Ops -> [Accounts -> Int]]
           /\ onHand \in [Branches -> [Products -> Nat]]
           /\ card \in [Products -> CardRow]
           /\ stored \subseteq Digests
           /\ document \in [Digests -> Branches \cup {NoBranch}]
PROOF BY DEF Typed, TypeOK, RequestsTypeOK, AllStages

\* What a request that has read keeps until it ends.
LEMMA ReadStays ==
    ASSUME Typed, [Next]_vars, NEW t \in Txns, pc'[t] = "read"
    PROVE  \/ Read(t)
           \/ /\ pc[t] = "read" /\ seen'[t] = seen[t]
              /\ \A k : Holds(t, k) => Holds(t, k)'
PROOF
<1>1. QueueTypeOK /\ pc \in [Txns -> AllStages] /\ seen = [u \in Txns |-> seen[u]]
      BY RowTypes DEF Typed
<1>2. CASE UNCHANGED vars
      BY <1>2 DEF vars, requests, Holds, Free
<1>3. ASSUME NEW u \in Txns, u # t, pc'[t] = pc[t], seen'[t] = seen[t],
             UNCHANGED queue \/ (\E l : Ask(u, l)) \/ LeaveAll(u)
      PROVE  pc[t] = "read" /\ \A k : Holds(t, k) => Holds(t, k)'
  <2>1. \A k : Holds(t, k) => Holds(t, k)'
        BY <1>1, <1>3, AskKeeps, LeaveKeeps DEF Holds, Free
  <2>   QED BY <1>3, <2>1
<1>4. ASSUME NEW u \in Txns,
             (\E there : Begin(u, there) \/ Lookup(u, there)) \/ Start(u), UNCHANGED seen
      PROVE  pc[t] = "read" /\ \A k : Holds(t, k) => Holds(t, k)'
  <2>1. /\ \E stage \in {"done", "working", "lookup"} : pc' = [pc EXCEPT ![u] = stage]
        /\ UNCHANGED queue \/ (\E l : Ask(u, l)) \/ LeaveAll(u)
        BY <1>4 DEF Begin, Lookup, LookedUp, Start, Goto
  <2>2. u # t /\ pc'[t] = pc[t]
        BY <1>1, <2>1
  <2>   QED BY <1>3, <1>4, <2>1, <2>2
<1>5. ASSUME NEW u \in Txns, Asks(u), UNCHANGED <<pc, answer, seen>>
      PROVE  pc[t] = "read" /\ \A k : Holds(t, k) => Holds(t, k)'
      BY <1>1, <1>5, AskKeeps DEF Asks, Holds, Free
<1>6. ASSUME NEW u \in Txns, Read(u), u # t
      PROVE  pc[t] = "read" /\ \A k : Holds(t, k) => Holds(t, k)'
  <2>1. UNCHANGED queue /\ pc'[t] = pc[t] /\ seen'[t] = seen[t]
        BY <1>1, <1>6 DEF Read, Goto
  <2>   QED BY <1>3, <1>6, <2>1
<1>7. ASSUME NEW u \in Txns, PutObject(u)
      PROVE  pc[t] = "read" /\ seen'[t] = seen[t] /\ \A k : Holds(t, k) => Holds(t, k)'
  <2>1. UNCHANGED <<queue, seen>> /\ pc' = [pc EXCEPT ![u] = "stored"]
        BY <1>7 DEF PutObject, Goto
  <2>2. u # t /\ pc'[t] = pc[t]
        BY <1>1, <2>1
  <2>   QED BY <1>3, <2>1, <2>2
<1>8. ASSUME NEW u \in Txns, (\E what : End(u, what)) \/ Rollback(u), seen' = seen \/ Forget(u)
      PROVE  pc[t] = "read" /\ seen'[t] = seen[t] /\ \A k : Holds(t, k) => Holds(t, k)'
  <2>1. /\ \E stage \in {"done", "idle"} : pc' = [pc EXCEPT ![u] = stage]
        /\ LeaveAll(u)
        BY <1>8 DEF End, Rollback, Goto
  <2>2. u # t /\ pc'[t] = pc[t]
        BY <1>1, <2>1
  <2>3. seen'[t] = seen[t]
        BY <1>1, <1>8, <2>2 DEF Forget
  <2>   QED BY <1>3, <2>1, <2>2, <2>3
<1>9. \A u \in Txns : RequestSteps(u) => Read(t) \/ seen'[t] = seen[t]
      BY <1>1, <1>6, <1>7, <1>8 DEF RequestSteps, Read
<1>   QED BY <1>2, <1>4, <1>5, <1>6, <1>7, <1>8, <1>9, StepsOfRequests DEF RequestSteps, vars

LEMMA StepTypes ==
    ASSUME Typed, [Next]_vars
    PROVE  Typed'
PROOF
<1> DEFINE more == {"read", "stored"}
           BooksTyped == /\ posted' \subseteq ClientOps /\ due' \in [Purchases -> Nat]
                         /\ moves' \in [Ops -> [Branches -> [Products -> Int]]]
                         /\ journal' \in [Ops -> [Accounts -> Int]]
                         /\ onHand' \in [Branches -> [Products -> Nat]]
                         /\ card' \in [Products -> CardRow]
           ReceiptsTyped == /\ stored' \subseteq Digests
                            /\ document' \in [Digests -> Branches \cup {NoBranch}]
<1>1. RequestsTypeOK(more)'
  <2>1. RequestsTypeOK(more)
        BY RowTypes
  <2>2. CASE UNCHANGED vars
        BY <2>1, <2>2 DEF vars, requests, RequestsTypeOK, QueueTypeOK
  <2>3. ASSUME NEW t \in Txns, RequestSteps(t) PROVE RequestsTypeOK(more)'
    <3>1. \/ \E there : Begin(t, there) \/ Lookup(t, there)
          \/ Rollback(t)
          \/ \E what \in {"none", "created", "replayed", "refused"} : End(t, what)
          \/ /\ UNCHANGED pc \/ \E stage \in {"working"} \cup more : Goto(t, stage)
             /\ UNCHANGED answer
             /\ UNCHANGED queue \/ \E l : Ask(t, l)
          BY <2>3 DEF RequestSteps, Start, Asks, Read, PutObject
    <3> HIDE DEF more
    <3>   QED BY <2>1, <3>1, RequestStepType
  <2>   QED BY <2>2, <2>3, StepsOfRequests
<1>2. BooksTyped
  <2>1. CASE UNCHANGED books
        BY <2>1, RowTypes DEF books
  <2>2. ASSUME NEW t \in Txns, NEW s, Wrote(t, OpOf[t], s)
        PROVE  BooksTyped
    <3>1. TypeOK
          BY DEF Typed
    <3>   QED BY <2>2, <3>1, RowTypes, WritesDue, WritesStock, WritesCards, WritesJournal
  <2> HIDE DEF BooksTyped
  <2>   QED BY <2>1, <2>2, Steps
<1>3. ReceiptsTyped
  <2>1. CASE UNCHANGED receipts
        BY <2>1, RowTypes DEF receipts
  <2>2. ASSUME NEW t \in Txns, PutObject(t) \/ RecordDocument(t) PROVE ReceiptsTyped
    <3>1. Req[OpOf[t]].digest \in Digests /\ Req[OpOf[t]].branch \in Branches
          BY <2>2, GoodsAssumption DEF PutObject, RecordDocument, Uploading, Uploads
    <3>   QED BY <2>2, <3>1, RowTypes DEF PutObject, RecordDocument
  <2> HIDE DEF ReceiptsTyped
  <2>   QED BY <2>1, <2>2, StepsOfRequests DEF RequestSteps, Read, Keep, vars
<1>4. seen' = [t \in Txns |-> seen'[t]]
  <2>1. seen = [t \in Txns |-> seen[t]]
        BY DEF Typed
  <2>2. CASE UNCHANGED seen
        BY <2>1, <2>2
  <2>3. ASSUME NEW t \in Txns, NEW x, seen' = [seen EXCEPT ![t] = x]
        PROVE  seen' = [u \in Txns |-> seen'[u]]
        BY <2>1, <2>3
  <2>   QED BY <2>2, <2>3, StepsOfRequests DEF RequestSteps, Read, PutObject, Forget, vars
<1>5. ASSUME NEW t \in Txns, pc'[t] = "read" PROVE seen'[t] \in SeenOf(OpOf[t])
  <2>1. CASE Read(t)
    <3>1. seen'[t] = Snapshot(OpOf[t])
          BY <2>1 DEF Typed, Read
    <3>2. Lines(OpOf[t]) \subseteq Products /\ OpOf[t] \in Ops
          BY GoodsAssumption
    <3>3. OpOf[t] \in Payments /\ Req[OpOf[t]].purchase # NoPurchase
              => Req[OpOf[t]].purchase \in Purchases
          BY GoodsAssumption
    <3>   QED BY <3>1, <3>2, <3>3, RowTypes DEF Snapshot, SeenOf
  <2>2. CASE pc[t] = "read" /\ seen'[t] = seen[t]
        BY <2>2 DEF Typed
  <2>   QED BY <1>5, <2>1, <2>2, ReadStays
<1>   QED BY <1>1, <1>2, <1>3, <1>4, <1>5 DEF Typed, TypeOK

LEMMA StepHeld ==
    ASSUME Typed, HeldInv, [Next]_vars
    PROVE  HeldInv'
PROOF
<1>1. ASSUME NEW t \in Txns, pc'[t] = "read", NEW l \in LockSet(OpOf[t])
      PROVE  Holds(t, l)'
  <2>1. CASE Read(t)
    <3>1. ToLock(t) = {} /\ ~Blocked(t) /\ UNCHANGED queue
          BY <2>1 DEF Read, At
    <3>2. Asked(t, l)
          BY <3>1 DEF ToLock
    <3>3. Holds(t, l)
          BY <3>1, <3>2, NotBlockedHolds, RowTypes
    <3>   QED BY <3>1, <3>3 DEF Holds, Free
  <2>2. CASE pc[t] = "read" /\ \A k : Holds(t, k) => Holds(t, k)'
        BY <2>2 DEF HeldInv
  <2>   QED BY <1>1, <2>1, <2>2, ReadStays
<1>   QED BY <1>1 DEF HeldInv

LEMMA StepSeen ==
    ASSUME Typed, HeldInv, SeenInv, OwedInv, [Next]_vars
    PROVE  SeenInv'
PROOF
<1> DEFINE Says(t, s) ==
        /\ \A p \in Lines(OpOf[t]) : Product(p) \in LockSet(OpOf[t]) =>
              \A b \in Branches : s.onHand[b][p] = onHand'[b][p]
        /\ \A u \in Purchases : PaysFor(OpOf[t], u) => s.due \in {0, due'[u]}
<1>1. ASSUME NEW t \in Txns, pc'[t] = "read" PROVE Says(t, seen'[t])
  <2>1. CASE Read(t)
    <3>1. seen'[t] = Snapshot(OpOf[t]) /\ UNCHANGED <<onHand, due>>
          BY <2>1 DEF Typed, Read, Keep, books
    <3>   QED BY <3>1, Kinds DEF Snapshot, PaysFor
  <2>2. CASE pc[t] = "read" /\ seen'[t] = seen[t]
    <3> PICK s : s = seen[t]
        OBVIOUS
    <3>1. /\ \A p \in Lines(OpOf[t]) : Product(p) \in LockSet(OpOf[t]) =>
                \A b \in Branches : s.onHand[b][p] = onHand[b][p]
          /\ \A u \in Purchases : PaysFor(OpOf[t], u) => s.due \in {0, due[u]}
          BY <2>2 DEF SeenInv
    <3>2. ASSUME UNCHANGED books PROVE Says(t, s)
          BY <2>2, <3>1, <3>2 DEF books
    <3>3. ASSUME NEW w \in Txns, NEW r, Wrote(w, OpOf[w], r) PROVE Says(t, s)
      <4>1. /\ w # t /\ pc[w] = "read" /\ OpOf[w] \in Ops /\ r \in SeenOf(OpOf[w])
            /\ OpOf[w] \notin posted /\ TypeOK
            BY <1>1, <3>3 DEF Wrote, Typed
      <4>2. \A l \in LockSet(OpOf[t]) : l \notin LockSet(OpOf[w])
            BY <2>2, <4>1, HolderIsOne DEF HeldInv
      <4>3. ASSUME NEW p \in Lines(OpOf[t]), Product(p) \in LockSet(OpOf[t]), NEW b \in Branches
            PROVE  onHand'[b][p] = onHand[b][p]
        <5>1. Product(p) \notin LockSet(OpOf[w]) /\ p \in Products
              BY <4>2, <4>3, GoodsAssumption
        <5>2. p \in Lines(OpOf[w]) => Delta(OpOf[w], r, b, p) = 0
              BY <4>1, <5>1, DeltaIs
        <5>   QED BY <3>3, <4>1, <5>1, <5>2, WritesStock
      <4>4. ASSUME NEW u \in Purchases, PaysFor(OpOf[t], u) PROVE s.due \in {0, due'[u]}
        <5>1. Purchase(u) \in LockSet(OpOf[t])
              BY <4>4, Kinds DEF PaysFor, LockSet, PurchaseLocks
        <5>2. ~PaysFor(OpOf[w], u)
              BY <4>2, <5>1, Kinds DEF PaysFor, LockSet, PurchaseLocks
        <5>3. due'[u] = IF u = OpOf[w] THEN Balance(u) ELSE due[u]
              BY <3>3, <4>1, <5>2, WritesDue
        <5>4. u = OpOf[w] => due[u] = 0
              BY <4>1 DEF OwedInv
        <5>   QED BY <3>1, <4>4, <5>3, <5>4
      <4>   QED BY <3>1, <4>3, <4>4
    <3> HIDE DEF Says
    <3>4. Says(t, s)
          BY <3>2, <3>3, Steps
    <3>   QED BY <2>2, <3>4
  <2>   QED BY <1>1, <2>1, <2>2, ReadStays
<1>   QED BY <1>1 DEF SeenInv

LEMMA StepOwed ==
    ASSUME Typed, SeenInv, OwedInv, [Next]_vars
    PROVE  OwedInv'
PROOF
<1>1. CASE UNCHANGED books
      BY <1>1 DEF books, OwedInv
<1>2. ASSUME NEW t \in Txns, NEW s, Wrote(t, OpOf[t], s) PROVE OwedInv'
  <2>1. PICK o \in Ops : o = OpOf[t]
        BY GoodsAssumption
  <2>2. /\ posted' = posted \cup ({o} \cap ClientOps) /\ o \notin posted
        /\ \A u \in Purchases :
              due'[u] = IF u = o THEN Balance(o)
                        ELSE IF PaysFor(o, u) THEN s.due - Req[o].amount ELSE due[u]
        /\ \A u \in Purchases : PaysFor(o, u) => u \in posted /\ Req[u].branch = Req[o].branch
        BY <1>2, <2>1, WritesDue, WritesJournal DEF Typed
  <2>3. \A u \in Purchases \ posted' : due'[u] = 0
        BY <2>2, Kinds DEF OwedInv
  <2>4. \A x \in posted', u \in Purchases :
            PaysFor(x, u) => u \in posted' /\ Req[u].branch = Req[x].branch
        BY <2>2 DEF OwedInv
  <2>   QED BY <2>3, <2>4 DEF OwedInv
<1>   QED BY <1>1, <1>2, Steps

LEMMA StepJournal ==
    ASSUME Typed, JournalInv, [Next]_vars
    PROVE  JournalInv'
PROOF
<1>1. CASE UNCHANGED books
      BY <1>1 DEF books, JournalInv
<1>2. ASSUME NEW t \in Txns, NEW s, Wrote(t, OpOf[t], s) PROVE JournalInv'
      BY <1>2, WritesJournal, RowTypes, Kinds DEF Typed, JournalInv
<1>   QED BY <1>1, <1>2, Steps

LEMMA StepStored ==
    ASSUME Typed, StoredInv, DocumentsStored, [Next]_vars
    PROVE  StoredInv' /\ DocumentsStored'
PROOF
<1>1. /\ pc \in [Txns -> AllStages] /\ stored \subseteq Digests
      /\ document \in [Digests -> Branches \cup {NoBranch}]
      BY RowTypes
<1>2. CASE UNCHANGED vars
      BY <1>2 DEF vars, requests, receipts, StoredInv, DocumentsStored
<1>3. ASSUME NEW t \in Txns, PutObject(t) PROVE StoredInv' /\ DocumentsStored'
  <2>1. /\ OpOf[t] \in Uploads /\ stored' = stored \cup {Req[OpOf[t]].digest}
        /\ pc' = [pc EXCEPT ![t] = "stored"] /\ UNCHANGED document
        BY <1>3 DEF PutObject, Uploading, Goto
  <2>   QED BY <1>1, <2>1 DEF StoredInv, DocumentsStored
<1>4. ASSUME NEW t \in Txns, RecordDocument(t) PROVE StoredInv' /\ DocumentsStored'
  <2>1. /\ pc[t] = "stored" /\ pc' = [pc EXCEPT ![t] = "done"] /\ UNCHANGED stored
        /\ document' = [document EXCEPT ![Req[OpOf[t]].digest] = Req[OpOf[t]].branch]
        BY <1>4 DEF RecordDocument, Uploading, At, End, Goto
  <2>2. Req[OpOf[t]].digest \in stored
        BY <2>1 DEF StoredInv
  <2>   QED BY <1>1, <2>1, <2>2 DEF StoredInv, DocumentsStored
<1>5. ASSUME NEW t \in Txns, RequestSteps(t), UNCHANGED receipts, ~PutObject(t)
      PROVE  StoredInv' /\ DocumentsStored'
  <2>1. \/ UNCHANGED pc
        \/ \E stage \in {"done", "working", "lookup", "idle", "read"} :
              pc' = [pc EXCEPT ![t] = stage]
        BY <1>5 DEF RequestSteps, Begin, Lookup, LookedUp, Start, Read, End, Rollback, Goto
  <2>   QED BY <1>1, <1>5, <2>1 DEF StoredInv, DocumentsStored, receipts
<1>   QED BY <1>2, <1>3, <1>4, <1>5, StepsOfRequests DEF RequestSteps, Read, Keep

-----------------------------------------------------------------------------
(* The stock of a branch is what its movements add up to                    *)

LEMMA StepStock ==
    ASSUME Typed, SeenInv, StockIsMovements, [Next]_vars
    PROVE  StockIsMovements'
PROOF
<1>1. CASE UNCHANGED books
      BY <1>1 DEF books, StockIsMovements
<1>2. ASSUME NEW t \in Txns, NEW s, Wrote(t, OpOf[t], s), NEW b \in Branches, NEW p \in Products
      PROVE  onHand'[b][p] =
                 StockAtStart[b][p] + SumFunction([x \in posted' |-> moves'[x][b][p]])
  <2>1. PICK o \in Ops : o = OpOf[t]
        BY GoodsAssumption
  <2> DEFINE d == moves'[o][b][p]
             f == [x \in posted |-> moves[x][b][p]]
             g == [x \in posted' |-> moves'[x][b][p]]
  <2>2. /\ o \notin posted /\ posted' = posted \cup ({o} \cap ClientOps)
        /\ moves' \in [Ops -> [Branches -> [Products -> Int]]]
        /\ \A x \in Ops \ {o} : moves'[x] = moves[x]
        /\ d = IF p \in Lines(o) THEN Delta(o, s, b, p) ELSE 0
        /\ onHand'[b][p] = IF p \in Lines(o) /\ Delta(o, s, b, p) # 0
                           THEN s.onHand[b][p] + Delta(o, s, b, p) ELSE onHand[b][p]
        BY <1>2, <2>1, WritesStock, WritesJournal DEF Typed
  <2>3. posted \subseteq Ops /\ posted \subseteq ClientOps /\ onHand[b][p] \in Int
        BY RowTypes, Kinds
  <2>4. onHand'[b][p] = onHand[b][p] + d
    <3>1. ASSUME p \in Lines(o), Delta(o, s, b, p) # 0
          PROVE  s.onHand[b][p] = onHand[b][p] /\ Delta(o, s, b, p) \in Int
      <4>1. Product(p) \in LockSet(o) /\ Delta(o, s, b, p) \in Int
            BY <1>2, <2>1, <3>1, DeltaIs DEF Wrote
      <4>   QED BY <1>2, <2>1, <3>1, <4>1 DEF SeenInv, Wrote
    <3>   QED BY <2>2, <2>3, <3>1
  <2>5. d \in Int
        BY <2>2
  <2>6. IsFiniteSet(DOMAIN f) /\ (\A x \in DOMAIN f : f[x] \in Int /\ x # o /\ g[x] = f[x])
    <3>1. \A x \in posted : moves[x][b][p] \in Int /\ x # o /\ moves'[x] = moves[x] /\ x \in posted'
          BY <2>2, <2>3, RowTypes
    <3>   QED BY <2>3, <3>1, FiniteData
  <2>7. SumFunction(f) \in Int
    <3> HIDE DEF f, g
    <3>   QED BY <2>6, SumAllInt
  <2>8. SumFunction(g) = SumFunction(f) + d
    <3>1. CASE o \in ClientOps
      <4>1. DOMAIN g = DOMAIN f \cup {o} /\ g[o] = d /\ o \notin DOMAIN f
            BY <2>2, <3>1
      <4> HIDE DEF f, g, d
      <4>2. \A y \in DOMAIN g : g[y] \in Int
            BY <2>5, <2>6, <4>1
      <4>   QED BY <2>6, <4>1, <4>2, SumAllOneMore
    <3>2. CASE o \notin ClientOps
      <4>1. Req[o].kind \in {"edit", "upload"}
            BY <3>2 DEF ClientOps, OfKind, Uploads
      <4>2. d = 0
            BY <2>2, <4>1 DEF Delta
      <4>3. DOMAIN g = DOMAIN f
            BY <2>2, <3>2
      <4> HIDE DEF f, g, d
      <4>4. SumFunction(g) = SumFunction(f)
            BY <2>6, <4>3, SumAllSame
      <4>   QED BY <2>7, <4>2, <4>4
    <3>   QED BY <3>1, <3>2
  <2>9. onHand[b][p] = StockAtStart[b][p] + SumFunction(f)
        BY DEF StockIsMovements
  <2>10. StockAtStart[b][p] \in Int
        BY GoodsAssumption
  <2> HIDE DEF f, g, d
  <2>11. onHand'[b][p] = StockAtStart[b][p] + SumFunction(g)
        BY <2>3, <2>4, <2>5, <2>7, <2>8, <2>9, <2>10
  <2>   QED BY <2>11 DEF g
<1>3. ASSUME NEW t \in Txns, NEW s, Wrote(t, OpOf[t], s) PROVE StockIsMovements'
      BY <1>2, <1>3 DEF StockIsMovements
<1>   QED BY <1>1, <1>3, Steps

-----------------------------------------------------------------------------
(* What is owed is what the ledger says                                     *)

Dues(b) == [u \in Purchases \cap posted \cap OfBranch(b) |-> due[u]]

LEMMA PaidMore ==
    ASSUME NEW S, S \subseteq Ops, NEW o \in Ops, o \notin S, NEW u
    PROVE  /\ PaidFor(u, S) \in Int
           /\ PaidFor(u, S \cup {o}) = PaidFor(u, S) + IF PaysFor(o, u) THEN Req[o].amount ELSE 0
PROOF
<1> DEFINE f == [x \in PaymentsFor(u, S) |-> Req[x].amount]
           g == [x \in PaymentsFor(u, S \cup {o}) |-> Req[x].amount]
<1>1. /\ PaymentsFor(u, S \cup {o}) = IF PaysFor(o, u) THEN PaymentsFor(u, S) \cup {o}
                                      ELSE PaymentsFor(u, S)
      /\ o \notin PaymentsFor(u, S) /\ PaymentsFor(u, S) \subseteq Ops
      BY DEF PaymentsFor, PaysFor
<1>2. IsFiniteSet(PaymentsFor(u, S))
      BY <1>1, FiniteData
<1>3. \A x \in PaymentsFor(u, S \cup {o}) : Req[x].amount \in Int
      BY GoodsAssumption DEF PaymentsFor
<1>4. /\ IsFiniteSet(DOMAIN f) /\ \A x \in DOMAIN f : f[x] \in Int /\ g[x] = f[x]
      /\ \A x \in DOMAIN g : g[x] \in Int
      /\ DOMAIN g = IF PaysFor(o, u) THEN DOMAIN f \cup {o} ELSE DOMAIN f
      /\ o \notin DOMAIN f /\ (PaysFor(o, u) => g[o] = Req[o].amount)
      BY <1>1, <1>2, <1>3
<1>5. PaidFor(u, S) = SumFunction(f) /\ PaidFor(u, S \cup {o}) = SumFunction(g)
      BY DEF PaidFor
<1> HIDE DEF f, g
<1>6. SumFunction(f) \in Int
      BY <1>4, SumAllInt
<1>7. SumFunction(g) = SumFunction(f) + IF PaysFor(o, u) THEN Req[o].amount ELSE 0
  <2>1. CASE PaysFor(o, u)
    <3>1. SumFunction(g) = SumFunction(f) + g[o]
          BY <1>4, <2>1, SumAllOneMore
    <3>   QED BY <1>4, <2>1, <3>1
  <2>2. CASE ~PaysFor(o, u)
    <3>1. SumFunction(g) = SumFunction(f)
          BY <1>4, <2>2, SumAllSame
    <3>   QED BY <1>6, <2>2, <3>1
  <2>   QED BY <2>1, <2>2
<1>   QED BY <1>5, <1>6, <1>7

LEMMA OnPayableInt ==
    ASSUME NEW o \in Ops
    PROVE  /\ OnPayable(o) \in Int /\ OnAdvances(o) \in Int
           /\ o \notin ClientOps => OnPayable(o) = 0 /\ OnAdvances(o) = 0
PROOF
<1>1. o \in Purchases => -Balance(o) \in Int
      BY BalanceInt
<1>2. o \in Payments => Req[o].amount \in Int
      BY GoodsAssumption
<1>   QED BY <1>1, <1>2, Kinds DEF OnPayable, OnAdvances, PaysFor

LEMMA LedgerMoves ==
    ASSUME Typed, NEW t, NEW o, NEW s, Wrote(t, o, s), NEW a \in Accounts, NEW b
    PROVE  /\ GL(a, posted \cap OfBranch(b)) \in Int
           /\ GL(a, posted \cap OfBranch(b))' =
                  GL(a, posted \cap OfBranch(b))
                      + IF o \in ClientOps \cap OfBranch(b) THEN journal'[o][a] ELSE 0
PROOF
<1> DEFINE f == [x \in (posted \cap OfBranch(b)) \cap posted |-> journal[x][a]]
           g == [x \in (posted' \cap OfBranch(b)) \cap posted' |-> journal'[x][a]]
<1>1. /\ o \in Ops /\ o \notin posted /\ posted' = posted \cup ({o} \cap ClientOps)
      /\ journal' \in [Ops -> [Accounts -> Int]]
      /\ \A x \in Ops \ {o} : journal'[x] = journal[x]
      /\ posted \subseteq Ops /\ journal \in [Ops -> [Accounts -> Int]]
      BY RowTypes, Kinds, WritesJournal DEF Typed, Wrote
<1>2. /\ IsFiniteSet(DOMAIN f) /\ (\A x \in DOMAIN f : f[x] \in Int /\ g[x] = f[x])
      /\ \A x \in DOMAIN g : g[x] \in Int
  <2>1. \A x \in posted : journal[x][a] \in Int /\ journal'[x] = journal[x] /\ x \in posted'
        BY <1>1
  <2>2. \A x \in posted' : journal'[x][a] \in Int
        BY <1>1
  <2>   QED BY <1>1, <2>1, <2>2, FiniteData
<1>3. /\ o \in ClientOps \cap OfBranch(b) =>
             DOMAIN g = DOMAIN f \cup {o} /\ g[o] = journal'[o][a] /\ o \notin DOMAIN f
      /\ o \notin ClientOps \cap OfBranch(b) => DOMAIN g = DOMAIN f
      BY <1>1
<1>4. /\ GL(a, posted \cap OfBranch(b)) = SumFunction(f)
      /\ GL(a, posted \cap OfBranch(b))' = SumFunction(g)
      BY DEF GL, OfBranch
<1> HIDE DEF f, g
<1>5. SumFunction(f) \in Int
      BY <1>2, SumAllInt
<1>6. CASE o \in ClientOps \cap OfBranch(b)
  <2>1. SumFunction(g) = SumFunction(f) + g[o]
        BY <1>2, <1>3, <1>6, SumAllOneMore
  <2>   QED BY <1>3, <1>4, <1>5, <1>6, <2>1
<1>7. CASE o \notin ClientOps \cap OfBranch(b)
  <2>1. SumFunction(g) = SumFunction(f)
        BY <1>2, <1>3, <1>7, SumAllSame
  <2>   QED BY <1>4, <1>5, <1>7, <2>1
<1>   QED BY <1>6, <1>7

LEMMA DuesMove ==
    ASSUME Typed, SeenInv, NEW t, NEW o, NEW s, Wrote(t, o, s), NEW b
    PROVE  /\ SumFunction(Dues(b)) \in Int
           /\ SumFunction(Dues(b))' =
                  SumFunction(Dues(b)) - IF o \in OfBranch(b) THEN OnPayable(o) ELSE 0
PROOF
<1> DEFINE f == Dues(b)
           g == Dues(b)'
<1>1. /\ o \in Ops /\ o \notin posted /\ posted' = posted \cup ({o} \cap ClientOps)
      /\ posted \subseteq Ops /\ due \in [Purchases -> Nat] /\ due' \in [Purchases -> Nat]
      /\ \A u \in Purchases :
            due'[u] = IF u = o THEN Balance(o)
                      ELSE IF PaysFor(o, u) THEN s.due - Req[o].amount ELSE due[u]
      /\ \A u \in Purchases : PaysFor(o, u) =>
            /\ u \in posted /\ Req[u].branch = Req[o].branch /\ s.due # 0
            /\ Req[o].amount \in Int
  <2>1. TypeOK /\ o \in Ops
        BY DEF Typed, Wrote
  <2>   QED BY <2>1, RowTypes, Kinds, WritesDue, WritesJournal
<1>2. \A u \in Purchases : PaysFor(o, u) => s.due = due[u]
      BY <1>1 DEF Wrote, SeenInv
<1>3. /\ DOMAIN f = Purchases \cap posted \cap OfBranch(b)
      /\ DOMAIN g = Purchases \cap posted' \cap OfBranch(b)
      /\ \A u \in DOMAIN f : f[u] = due[u]
      /\ \A u \in DOMAIN g : g[u] = due'[u]
      BY DEF Dues, OfBranch
<1>4. SumFunction(Dues(b))' = SumFunction(g)
      OBVIOUS
<1> HIDE DEF f, g
<1>5. /\ IsFiniteSet(DOMAIN f) /\ (\A u \in DOMAIN f : f[u] \in Int)
      /\ \A u \in DOMAIN g : g[u] \in Int
      BY <1>1, <1>3, FiniteData
<1>6. SumFunction(f) \in Int
      BY <1>5, SumAllInt
<1>7. CASE o \in Purchases
  <2>1. /\ o \in ClientOps /\ OnPayable(o) = -Balance(o) /\ Balance(o) \in Int
        /\ \A u : ~PaysFor(o, u)
        BY <1>7, Kinds, BalanceInt DEF OnPayable, PaysFor
  <2>2. \A u \in DOMAIN f : u # o /\ u \in DOMAIN g /\ g[u] = f[u]
        BY <1>1, <1>3, <2>1
  <2>3. CASE o \in OfBranch(b)
    <3>1. DOMAIN g = DOMAIN f \cup {o} /\ g[o] = Balance(o) /\ o \notin DOMAIN f
          BY <1>1, <1>3, <1>7, <2>1, <2>3
    <3>2. SumFunction(g) = SumFunction(f) + g[o]
          BY <1>5, <2>2, <3>1, SumAllOneMore
    <3>3. SumFunction(g) = SumFunction(f) - OnPayable(o)
          BY <1>6, <2>1, <3>1, <3>2
    <3>   QED BY <1>4, <1>6, <2>3, <3>3 DEF f
  <2>4. CASE o \notin OfBranch(b)
    <3>1. DOMAIN g = DOMAIN f
          BY <1>1, <1>3, <2>4
    <3>2. SumFunction(g) = SumFunction(f)
          BY <1>5, <2>2, <3>1, SumAllSame
    <3>   QED BY <1>4, <1>6, <2>4, <3>2 DEF f
  <2>   QED BY <2>3, <2>4
<1>8. CASE o \notin Purchases
  <2>1. DOMAIN g = DOMAIN f
        BY <1>1, <1>3, <1>8
  <2>2. \A u \in DOMAIN f : ~PaysFor(o, u) => g[u] = f[u]
        BY <1>1, <1>3, <1>8, <2>1
  <2>3. CASE \E u \in Purchases : PaysFor(o, u) /\ u \in OfBranch(b)
    <3>1. PICK u \in Purchases : PaysFor(o, u) /\ u \in OfBranch(b)
          BY <2>3
    <3> DEFINE a == Req[o].amount
    <3>2. /\ u \in DOMAIN f /\ a \in Int /\ u # o
          /\ o \in OfBranch(b) /\ OnPayable(o) = a
          BY <1>1, <1>3, <1>8, <3>1, Kinds DEF OfBranch, OnPayable, PaysFor
    <3>3. g[u] = f[u] - a
          BY <1>1, <1>2, <1>3, <2>1, <3>1, <3>2
    <3>4. \A v \in DOMAIN f \ {u} : g[v] = f[v]
          BY <2>2, <3>1 DEF PaysFor
    <3> HIDE DEF a
    <3>5. -a \in Int /\ g[u] = f[u] + (-a)
          BY <1>5, <3>2, <3>3
    <3>6. SumFunction(g) = SumFunction(f) + (-a)
          BY <1>5, <2>1, <3>2, <3>4, <3>5, SumAllMoved
    <3>7. SumFunction(g) = SumFunction(f) - OnPayable(o)
          BY <1>6, <3>2, <3>6
    <3>   QED BY <1>4, <1>6, <3>2, <3>7 DEF f
  <2>4. CASE ~\E u \in Purchases : PaysFor(o, u) /\ u \in OfBranch(b)
    <3>1. SumFunction(g) = SumFunction(f)
      <4>1. \A u \in DOMAIN f : g[u] = f[u]
            BY <1>3, <2>2, <2>4
      <4>   QED BY <1>5, <2>1, <4>1, SumAllSame
    <3>2. o \in OfBranch(b) => OnPayable(o) = 0
      <4>1. o \in Payments => Req[o].purchase \in Purchases \/ PaysFor(o, NoPurchase)
            BY GoodsAssumption DEF PaysFor
      <4>2. o \in Payments /\ Req[o].purchase \in Purchases =>
                Req[Req[o].purchase].branch = Req[o].branch
            BY <1>1 DEF PaysFor
      <4>   QED BY <1>8, <2>4, <4>1, <4>2, GoodsAssumption, Kinds DEF OnPayable, OfBranch, PaysFor
    <3>   QED BY <1>4, <1>6, <3>1, <3>2 DEF f
  <2>   QED BY <2>3, <2>4
<1>   QED BY <1>6, <1>7, <1>8 DEF f

LEMMA HealthIs ==
    /\ \A b : PayablesHealth(b).payables =
                  -GL("Payable", posted \cap OfBranch(b)) - SumFunction(Dues(b))
    /\ \A b : PayablesHealth(b).advances =
                  GL("Advances", posted \cap OfBranch(b)) - PaidFor(NoPurchase, posted \cap OfBranch(b))
    /\ \A b : DOMAIN PayablesHealth(b) = {"payables", "advances"}
    /\ \A b : PayablesHealth(b) = [payables |-> PayablesHealth(b).payables,
                                   advances |-> PayablesHealth(b).advances]
PROOF
<1>1. \A b : Purchases \cap (posted \cap OfBranch(b)) = Purchases \cap posted \cap OfBranch(b)
      OBVIOUS
<1>   QED BY <1>1 DEF PayablesHealth, Dues

LEMMA StepPayables ==
    ASSUME Typed, SeenInv, OwedInv, JournalInv, PayablesHealthy, [Next]_vars
    PROVE  PayablesHealthy'
PROOF
<1>1. CASE UNCHANGED books
      BY <1>1 DEF books, PayablesHealthy, PayablesHealth, GL, PaidFor, PaymentsFor, OfBranch
<1>2. ASSUME NEW t \in Txns, NEW s, Wrote(t, OpOf[t], s) PROVE PayablesHealthy'
  <2>1. PICK o \in Ops : o = OpOf[t]
        BY GoodsAssumption
  <2>2. /\ Wrote(t, o, s)
        /\ o \notin posted /\ posted' = posted \cup ({o} \cap ClientOps) /\ posted \subseteq Ops
        /\ journal'[o]["Payable"] = OnPayable(o) /\ journal'[o]["Advances"] = OnAdvances(o)
        /\ OnPayable(o) \in Int /\ OnAdvances(o) \in Int
        /\ o \notin ClientOps => OnPayable(o) = 0 /\ OnAdvances(o) = 0
        BY <1>2, <2>1, RowTypes, Kinds, WritesJournal, OnPayableInt DEF Typed
  <2>3. ASSUME NEW b \in Branches
        PROVE  PayablesHealth(b)' = [payables |-> 0, advances |-> 0]
    <3> DEFINE P == GL("Payable", posted \cap OfBranch(b))
               A == GL("Advances", posted \cap OfBranch(b))
               D == SumFunction(Dues(b))
               V == PaidFor(NoPurchase, posted \cap OfBranch(b))
               x == IF o \in OfBranch(b) THEN OnPayable(o) ELSE 0
               y == IF o \in OfBranch(b) THEN OnAdvances(o) ELSE 0
    <3>1. "Payable" \in Accounts /\ "Advances" \in Accounts
          BY DEF Accounts
    <3>2. P \in Int /\ P' = P + x
          BY <2>2, <3>1, LedgerMoves
    <3>3. A \in Int /\ A' = A + y
          BY <2>2, <3>1, LedgerMoves
    <3>4. D \in Int /\ D' = D - x
          BY <2>2, DuesMove
    <3>5. V \in Int /\ V' = V + y
      <4>1. V' = PaidFor(NoPurchase, posted' \cap OfBranch(b))
            BY DEF PaidFor, PaymentsFor, OfBranch
      <4>2. CASE o \in OfBranch(b) /\ o \in ClientOps
        <5>1. posted' \cap OfBranch(b) = (posted \cap OfBranch(b)) \cup {o}
              BY <2>2, <4>2
        <5>2. posted \cap OfBranch(b) \subseteq Ops /\ o \notin posted \cap OfBranch(b)
              BY <2>2
        <5> DEFINE S == posted \cap OfBranch(b)
        <5>3. PaidFor(NoPurchase, S) \in Int
              BY <2>2, <5>2, PaidMore
        <5>4. PaidFor(NoPurchase, S \cup {o}) = PaidFor(NoPurchase, S)
                  + IF PaysFor(o, NoPurchase) THEN Req[o].amount ELSE 0
              BY <5>2, PaidMore
        <5>5. y = IF PaysFor(o, NoPurchase) THEN Req[o].amount ELSE 0
              BY <4>2 DEF OnAdvances
        <5>   QED BY <4>1, <5>1, <5>3, <5>4, <5>5
      <4>3. CASE ~(o \in OfBranch(b) /\ o \in ClientOps)
        <5>1. posted' \cap OfBranch(b) = posted \cap OfBranch(b) /\ y = 0
              BY <2>2, <4>3
        <5>2. V \in Int
              BY <2>2, PaidMore
        <5> HIDE DEF y
        <5>   QED BY <4>1, <5>1, <5>2
      <4>   QED BY <4>2, <4>3
    <3>6. -P - D = 0 /\ A - V = 0
          BY HealthIs DEF PayablesHealthy
    <3>7. x \in Int /\ y \in Int
          BY <2>2
    <3>8. PayablesHealth(b)'.payables = -P' - D' /\ PayablesHealth(b)'.advances = A' - V'
      <4>1. /\ PayablesHealth(b).payables = -P - D /\ PayablesHealth(b).advances = A - V
            BY HealthIs
      <4>2. PayablesHealth(b)' = [payables |-> -P' - D', advances |-> A' - V']
        <5>1. Purchases \cap (posted' \cap OfBranch(b)) = Purchases \cap posted' \cap OfBranch(b)
              OBVIOUS
        <5>   QED BY <5>1 DEF PayablesHealth, Dues, OfBranch
      <4>   QED BY <4>2
    <3> HIDE DEF P, A, D, V, x, y
    <3>9. -P' - D' = 0 /\ A' - V' = 0
          BY <3>2, <3>3, <3>4, <3>5, <3>6, <3>7
    <3>10. PayablesHealth(b)' = [payables |-> PayablesHealth(b)'.payables,
                                 advances |-> PayablesHealth(b)'.advances]
          BY DEF PayablesHealth
    <3>   QED BY <3>8, <3>9, <3>10
  <2>4. ASSUME NEW u \in Purchases \cap posted'
        PROVE  due'[u] + PaidFor(u, posted') = Balance(u)
    <3> DEFINE V == PaidFor(u, posted)
               W == PaidFor(u, posted')
               paid == IF PaysFor(o, u) THEN Req[o].amount ELSE 0
    <3>1. V \in Int /\ W = V + paid
      <4>1. CASE o \in ClientOps
        <5>1. posted' = posted \cup {o}
              BY <2>2, <4>1
        <5>2. V \in Int
              BY <2>2, PaidMore
        <5>3. PaidFor(u, posted \cup {o}) = V + paid
              BY <2>2, PaidMore
        <5>   QED BY <5>1, <5>2, <5>3
      <4>2. CASE o \notin ClientOps
        <5>1. posted' = posted /\ paid = 0
              BY <2>2, <4>2, Kinds DEF PaysFor
        <5>2. V \in Int
              BY <2>2, PaidMore
        <5> HIDE DEF paid
        <5>   QED BY <5>1, <5>2
      <4>   QED BY <4>1, <4>2
    <3>2. /\ due'[u] = IF u = o THEN Balance(o)
                       ELSE IF PaysFor(o, u) THEN s.due - Req[o].amount ELSE due[u]
          /\ PaysFor(o, u) => s.due # 0 /\ Req[o].amount \in Int
          BY <2>2, WritesDue DEF Typed
    <3>3. PaysFor(o, u) => s.due = due[u]
          BY <2>2, <3>2 DEF Wrote, SeenInv
    <3>4. due[u] \in Int /\ Balance(u) \in Int
          BY RowTypes, BalanceInt
    <3>5. CASE u = o
      <4>1. paid = 0
            BY <3>5, Kinds DEF PaysFor
      <4>2. PaymentsFor(u, posted) = {}
            BY <2>2, <3>5 DEF OwedInv, PaymentsFor, PaysFor
      <4>3. V = 0
        <5> DEFINE f == [x \in PaymentsFor(u, posted) |-> Req[x].amount]
        <5>1. IsFiniteSet(DOMAIN f) /\ \A x \in DOMAIN f : f[x] = 0
              BY <4>2, FS_EmptySet
        <5>2. V = SumFunction(f)
              BY DEF PaidFor
        <5> HIDE DEF f
        <5>   QED BY <5>1, <5>2, SumAllZero
      <4> HIDE DEF V, W, paid
      <4>   QED BY <3>1, <3>2, <3>4, <3>5, <4>1, <4>3 DEF W
    <3>6. CASE u # o
      <4>1. u \in posted
            BY <2>2, <3>6
      <4>2. due[u] + V = Balance(u)
            BY <4>1 DEF PayablesHealthy
      <4>3. due'[u] = due[u] - paid /\ paid \in Int
            BY <3>2, <3>3, <3>4, <3>6
      <4> HIDE DEF V, W, paid
      <4>4. due'[u] + W = Balance(u)
            BY <3>1, <3>4, <4>2, <4>3
      <4>   QED BY <4>4 DEF W
    <3>   QED BY <3>5, <3>6
  <2>5. \A u \in Purchases \cap posted' : due'[u] + PaidFor(u, posted)' = Balance(u)
    <3>1. \A u : PaidFor(u, posted)' = PaidFor(u, posted')
          BY DEF PaidFor, PaymentsFor
    <3>   QED BY <2>4, <3>1
  <2>   QED BY <2>3, <2>5 DEF PayablesHealthy
<1>   QED BY <1>1, <1>2, Steps

-----------------------------------------------------------------------------
(* The initial states                                                       *)

LEMMA InitTypes == ASSUME Init PROVE Typed
PROOF
<1>1. RequestsTypeOK({"read", "stored"})
      BY RequestsInitType DEF Init
<1>2. due \in [Purchases -> Nat]
  <2>1. \A o \in Opening : o \in Purchases /\ Balance(o) \in Nat
    <3>1. \A o \in Opening : o \in Purchases /\ Balance(o) \in Int /\ Balance(o) >= 0
          BY GoodsAssumption, BalanceInt
    <3>   QED BY <3>1
  <2>   QED BY <2>1 DEF Init
<1>3. journal \in [Ops -> [Accounts -> Int]]
  <2>1. Posting(<<>>) \in [Accounts -> Int]
        BY PostingInt
  <2>2. \A o \in Opening : PurchasePosting(o, [p \in Lines(o) |-> CardAtStart[p].track])
                               \in [Accounts -> Int]
        BY GoodsAssumption, PurchasePostingIs
  <2>   QED BY <2>1, <2>2 DEF Init
<1>4. /\ posted \subseteq ClientOps /\ moves \in [Ops -> [Branches -> [Products -> Int]]]
      /\ onHand \in [Branches -> [Products -> Nat]] /\ card \in [Products -> CardRow]
      /\ stored \subseteq Digests /\ document \in [Digests -> Branches \cup {NoBranch}]
      /\ seen = [t \in Txns |-> seen[t]]
      BY GoodsAssumption, Kinds DEF Init, NoMoves
<1>5. \A t \in Txns : pc[t] # "read"
      BY DEF Init, RequestsInit
<1>   QED BY <1>1, <1>2, <1>3, <1>4, <1>5 DEF Typed, TypeOK

LEMMA InitRest ==
    ASSUME Init
    PROVE  /\ HeldInv /\ SeenInv /\ OwedInv /\ JournalInv /\ StoredInv
           /\ StockIsMovements /\ DocumentsStored
PROOF
<1>1. \A t \in Txns : pc[t] \notin {"read", "stored"}
      BY DEF Init, RequestsInit
<1>2. HeldInv /\ SeenInv /\ StoredInv
      BY <1>1 DEF HeldInv, SeenInv, StoredInv
<1>3. OwedInv
      BY GoodsAssumption, Kinds DEF Init, OwedInv, PaysFor
<1>4. JournalInv
  <2>1. ASSUME NEW o \in Opening
        PROVE  /\ journal[o]["Payable"] = -Balance(o) /\ journal[o]["Advances"] = 0
               /\ OnPayable(o) = -Balance(o) /\ OnAdvances(o) = 0
    <3>1. o \in Purchases /\ o \in Ops /\ o \notin Payments
          BY GoodsAssumption, Kinds
    <3>2. journal[o] = PurchasePosting(o, [p \in Lines(o) |-> CardAtStart[p].track])
          BY <3>1 DEF Init
    <3>   QED BY <3>1, <3>2, PurchasePostingIs DEF OnPayable, OnAdvances, PaysFor
  <2>   QED BY <2>1 DEF JournalInv, Init
<1>5. StockIsMovements
  <2>1. ASSUME NEW b \in Branches, NEW p \in Products
        PROVE  onHand[b][p] = StockAtStart[b][p] + SumFunction([o \in posted |-> moves[o][b][p]])
    <3> DEFINE f == [o \in posted |-> moves[o][b][p]]
    <3>1. posted \subseteq Ops /\ (\A o \in posted : moves[o][b][p] = 0)
          BY GoodsAssumption, Kinds DEF Init, NoMoves
    <3>2. IsFiniteSet(DOMAIN f) /\ \A o \in DOMAIN f : f[o] = 0
          BY <3>1, FiniteData
    <3>3. onHand[b][p] = StockAtStart[b][p] /\ StockAtStart[b][p] \in Int
          BY GoodsAssumption DEF Init
    <3> HIDE DEF f
    <3>4. SumFunction(f) = 0
          BY <3>2, SumAllZero
    <3>5. onHand[b][p] = StockAtStart[b][p] + SumFunction(f)
          BY <3>3, <3>4
    <3>   QED BY <3>5 DEF f
  <2>   QED BY <2>1 DEF StockIsMovements
<1>6. DocumentsStored
      BY DEF Init, DocumentsStored
<1>   QED BY <1>2, <1>3, <1>4, <1>5, <1>6

LEMMA InitPayables == ASSUME Init PROVE PayablesHealthy
PROOF
<1>1. Typed /\ JournalInv
      BY InitTypes, InitRest
<1>2. /\ posted = Opening /\ Opening \subseteq Purchases
      /\ \A o \in Opening : due[o] = Balance(o)
      BY GoodsAssumption DEF Init
<1>3. \A o \in Opening : /\ Balance(o) \in Int /\ -Balance(o) \in Int
                         /\ journal[o]["Payable"] = -Balance(o) /\ journal[o]["Advances"] = 0
      BY <1>1, <1>2, BalanceInt, Kinds DEF JournalInv, OnPayable, OnAdvances, PaysFor
<1>4. \A u, S : S \subseteq posted => PaidFor(u, S) = 0
  <2> SUFFICES ASSUME NEW u, NEW S, S \subseteq posted PROVE PaidFor(u, S) = 0
      OBVIOUS
  <2> DEFINE f == [x \in PaymentsFor(u, S) |-> Req[x].amount]
  <2>1. PaymentsFor(u, S) = {}
        BY <1>2, Kinds DEF PaymentsFor
  <2>2. IsFiniteSet(DOMAIN f) /\ \A x \in DOMAIN f : f[x] = 0
        BY <2>1, FS_EmptySet
  <2>3. PaidFor(u, S) = SumFunction(f)
        BY DEF PaidFor
  <2> HIDE DEF f
  <2>   QED BY <2>2, <2>3, SumAllZero
<1>5. ASSUME NEW b \in Branches
      PROVE  PayablesHealth(b) = [payables |-> 0, advances |-> 0]
  <2> DEFINE mine == posted \cap OfBranch(b)
             f == [x \in mine \cap posted |-> journal[x]["Payable"]]
             g == Dues(b)
             h == [x \in mine \cap posted |-> 0]
             a == [x \in mine \cap posted |-> journal[x]["Advances"]]
  <2>1. IsFiniteSet(mine \cap posted)
        BY <1>2, Kinds, FiniteData
  <2>2. /\ DOMAIN g = mine \cap posted
        /\ \A x \in mine \cap posted : g[x] = Balance(x)
        BY <1>2 DEF Dues
  <2>3. /\ IsFiniteSet(DOMAIN f) /\ DOMAIN g = DOMAIN f /\ DOMAIN h = DOMAIN f
        /\ \A x \in DOMAIN f : f[x] = -Balance(x) /\ g[x] = Balance(x) /\ h[x] = 0
                               /\ Balance(x) \in Int
        BY <1>2, <1>3, <2>1, <2>2
  <2>4. IsFiniteSet(DOMAIN a) /\ \A x \in DOMAIN a : a[x] = 0
        BY <1>2, <1>3, <2>1
  <2>5. IsFiniteSet(DOMAIN h) /\ \A x \in DOMAIN h : h[x] = 0
        BY <2>1
  <2>6. GL("Payable", mine) = SumFunction(f) /\ GL("Advances", mine) = SumFunction(a)
        BY DEF GL
  <2>7. PaidFor(NoPurchase, mine) = 0
        BY <1>4
  <2> HIDE DEF f, g, h, a
  <2>8. SumFunction(h) = 0 /\ SumFunction(a) = 0
        BY <2>4, <2>5, SumAllZero
  <2>9. \A x \in DOMAIN f : f[x] \in Int /\ g[x] \in Int /\ h[x] = f[x] + g[x]
        BY <2>3
  <2>10. SumFunction(h) = SumFunction(f) + SumFunction(g)
        BY <2>3, <2>9, SumAllPlus
  <2>11. SumFunction(f) \in Int /\ SumFunction(g) \in Int
        BY <2>3, <2>9, SumAllInt
  <2>12. -SumFunction(f) - SumFunction(g) = 0
        BY <2>8, <2>10, <2>11
  <2>13. PayablesHealth(b).payables = 0 /\ PayablesHealth(b).advances = 0
        BY <2>6, <2>7, <2>8, <2>12, HealthIs DEF g
  <2>   QED BY <2>13, HealthIs
<1>6. ASSUME NEW u \in Purchases \cap posted PROVE due[u] + PaidFor(u, posted) = Balance(u)
  <2>1. PaidFor(u, posted) = 0 /\ due[u] = Balance(u) /\ Balance(u) \in Int
        BY <1>2, <1>3, <1>4
  <2>   QED BY <2>1
<1>   QED BY <1>5, <1>6 DEF PayablesHealthy

-----------------------------------------------------------------------------
(* Theorems                                                                 *)

LEMMA GoodsInvHolds == Spec => []GoodsInv
PROOF
<1>1. Init => GoodsInv
      BY InitTypes, InitRest, InitPayables DEF GoodsInv
<1>2. GoodsInv /\ [Next]_vars => GoodsInv'
  <2> SUFFICES ASSUME GoodsInv, [Next]_vars PROVE GoodsInv'
      OBVIOUS
  <2>1. /\ Typed /\ HeldInv /\ SeenInv /\ OwedInv /\ JournalInv /\ StoredInv
        /\ StockIsMovements /\ PayablesHealthy /\ DocumentsStored
        BY DEF GoodsInv
  <2>2. Typed' /\ HeldInv' /\ SeenInv' /\ OwedInv' /\ JournalInv' /\ StoredInv' /\ DocumentsStored'
        BY <2>1, StepTypes, StepHeld, StepSeen, StepOwed, StepJournal, StepStored
  <2>3. StockIsMovements' /\ PayablesHealthy'
        BY <2>1, StepStock, StepPayables
  <2>   QED BY <2>2, <2>3 DEF GoodsInv
<1>   QED BY <1>1, <1>2, PTL DEF Spec

\* The rows keep their types: above all no stock and no balance of a purchase is ever
\* negative, whatever is sold, counted, moved, bought and paid at once.
THEOREM GoodsTypes == Spec => []TypeOK
PROOF
<1>1. GoodsInv => TypeOK
      BY DEF GoodsInv, Typed
<1>   QED BY <1>1, GoodsInvHolds, PTL

\* The stock of a branch is the sum of its movements, though every handler writes
\* on_hand from what it read before (purchasing.py:296, inventory_controls.py:188
\* and 342, routes/inventory.py:122): no update is lost.
THEOREM StockStaysMovements == Spec => []StockIsMovements
PROOF
<1>1. GoodsInv => StockIsMovements
      BY DEF GoodsInv
<1>   QED BY <1>1, GoodsInvHolds, PTL

\* Account 2000 and the supplier advances of every branch are the balances of its
\* purchases and its payments in advance, and a purchase owes what it cost less what
\* was paid for it (accounting.py:609-626).
THEOREM PayablesStayHealthy == Spec => []PayablesHealthy
PROOF
<1>1. GoodsInv => PayablesHealthy
      BY DEF GoodsInv
<1>   QED BY <1>1, GoodsInvHolds, PTL

\* A document row never promises bytes that were not stored (routes/documents.py:73).
THEOREM DocumentsStayStored == Spec => []DocumentsStored
PROOF
<1>1. GoodsInv => DocumentsStored
      BY DEF GoodsInv
<1>   QED BY <1>1, GoodsInvHolds, PTL

-----------------------------------------------------------------------------
(* What rounding loses                                                      *)

LEMMA HalfUpWithin ==
    \A n \in Int, d \in Nat \ {0} :
        /\ 2 * (d * HalfUp(n, d)) - 2 * n <= d
        /\ 2 * n - 2 * (d * HalfUp(n, d)) <= d
        /\ HalfUp(0, d) = 0
PROOF
<1> SUFFICES ASSUME NEW n \in Int, NEW d \in Nat \ {0}
    PROVE  /\ 2 * (d * HalfUp(n, d)) - 2 * n <= d
           /\ 2 * n - 2 * (d * HalfUp(n, d)) <= d
           /\ HalfUp(0, d) = 0
    OBVIOUS
<1>1. \A m \in Int, e \in Nat \ {0} :
          m \div e \in Int /\ e * (m \div e) <= m /\ m < e * (m \div e) + e
      OBVIOUS
<1> DEFINE q == HalfUp(n, d)
<1>2. 2 * n + d \in Int /\ 2 * d \in Nat \ {0} /\ q = (2 * n + d) \div (2 * d)
      BY DEF HalfUp
<1> HIDE DEF q
<1>3. q \in Int /\ (2 * d) * q <= 2 * n + d /\ 2 * n + d < (2 * d) * q + 2 * d
      BY <1>1, <1>2
<1>4. (2 * d) * q = 2 * (d * q) /\ d * q \in Int
      BY <1>3
<1>5. HalfUp(0, d) = 0
  <2>1. HalfUp(0, d) = d \div (2 * d) /\ d \div (2 * d) = 0
        BY DEF HalfUp
  <2>   QED BY <2>1
<1>   QED BY <1>3, <1>4, <1>5 DEF q

\* what account 1200 gets for d units of a product
Rounded(cost, d) == IF d > 0 THEN LineTotal(cost, d) ELSE -LineTotal(cost, -d)

LEMMA LineTotalWithin ==
    \A cost \in Int, qty \in Int :
        /\ 2 * (CostScale * LineTotal(cost, qty)) - 2 * (cost * qty) <= CostScale
        /\ 2 * (cost * qty) - 2 * (CostScale * LineTotal(cost, qty)) <= CostScale
        /\ LineTotal(cost, 0) = 0
PROOF
<1> SUFFICES ASSUME NEW cost \in Int, NEW qty \in Int
    PROVE  /\ 2 * (CostScale * LineTotal(cost, qty)) - 2 * (cost * qty) <= CostScale
           /\ 2 * (cost * qty) - 2 * (CostScale * LineTotal(cost, qty)) <= CostScale
           /\ LineTotal(cost, 0) = 0
    OBVIOUS
<1>1. CostScale \in Nat \ {0}
      BY GoodsAssumption
<1> DEFINE n == cost * qty
<1>2. n \in Int /\ cost * 0 = 0
      OBVIOUS
<1>3. LineTotal(cost, qty) = HalfUp(n, CostScale) /\ LineTotal(cost, 0) = HalfUp(0, CostScale)
      BY <1>2 DEF LineTotal
<1> HIDE DEF n
<1>4. /\ 2 * (CostScale * HalfUp(n, CostScale)) - 2 * n <= CostScale
      /\ 2 * n - 2 * (CostScale * HalfUp(n, CostScale)) <= CostScale
      /\ HalfUp(0, CostScale) = 0
      BY <1>1, <1>2, HalfUpWithin
<1>   QED BY <1>3, <1>4 DEF n

LEMMA RoundedWithin ==
    \A cost \in Int, d \in Int :
        /\ Rounded(cost, d) \in Int
        /\ 2 * (CostScale * Rounded(cost, d)) - 2 * (cost * d) <= CostScale
        /\ 2 * (cost * d) - 2 * (CostScale * Rounded(cost, d)) <= CostScale
        /\ Rounded(cost, 0) = 0
PROOF
<1> SUFFICES ASSUME NEW cost \in Int, NEW d \in Int
    PROVE  /\ Rounded(cost, d) \in Int
           /\ 2 * (CostScale * Rounded(cost, d)) - 2 * (cost * d) <= CostScale
           /\ 2 * (cost * d) - 2 * (CostScale * Rounded(cost, d)) <= CostScale
           /\ Rounded(cost, 0) = 0
    OBVIOUS
<1>1. CostScale \in Nat
      BY GoodsAssumption
<1>2. -d \in Int /\ cost * d \in Int /\ cost * (-d) = -(cost * d)
      OBVIOUS
<1> DEFINE plus == LineTotal(cost, d)
           e == -d
           minus == LineTotal(cost, e)
           n == cost * d
           z == cost * e
<1> HIDE DEF e, n
<1>3. e \in Int /\ n \in Int /\ z = -n
      BY <1>2 DEF e, n
<1>4. plus \in Int /\ minus \in Int
      BY <1>3, LineTotalInt
<1>5. /\ 2 * (CostScale * plus) - 2 * n <= CostScale /\ 2 * n - 2 * (CostScale * plus) <= CostScale
      BY LineTotalWithin DEF n
<1>6. /\ 2 * (CostScale * minus) - 2 * z <= CostScale /\ 2 * z - 2 * (CostScale * minus) <= CostScale
      BY <1>3, LineTotalWithin
<1>7. Rounded(cost, 0) = 0
  <2>1. Rounded(cost, 0) = -LineTotal(cost, 0)
        BY DEF Rounded
  <2>   QED BY <2>1, LineTotalWithin
<1>8. Rounded(cost, d) = IF d > 0 THEN plus ELSE -minus
      BY DEF Rounded, e
<1> HIDE DEF plus, minus, z
<1>9. -minus \in Int /\ CostScale * (-minus) = -(CostScale * minus) /\ CostScale * minus \in Int
      BY <1>1, <1>4
<1>   QED BY <1>1, <1>3, <1>4, <1>5, <1>6, <1>7, <1>8, <1>9 DEF n

\* what an operation posts to account 1200 for one product
Booked(o, s, p) ==
    IF p \notin Lines(o) THEN 0
    ELSE IF Req[o].kind = "purchase" THEN IF s.card[p].track THEN Received(o, p) ELSE 0
    ELSE IF Req[o].kind \in {"sale", "adjustment", "stocktake"}
         THEN Rounded(s.card[p].cost, Delta(o, s, Req[o].branch, p))
    ELSE 0

LEMMA BookedInt ==
    ASSUME NEW o \in Ops, NEW s \in SeenOf(o), NEW p \in Products
    PROVE  Booked(o, s, p) \in Int
PROOF
<1>1. CASE p \in Lines(o) /\ Req[o].kind = "purchase"
  <2>1. o \in Purchases
        BY <1>1 DEF Purchases, OfKind
  <2>2. Received(o, p) \in Int
        BY <1>1, <2>1, LineFigures
  <2>   QED BY <1>1, <2>2 DEF Booked
<1>2. CASE p \in Lines(o) /\ Req[o].kind \in {"sale", "adjustment", "stocktake"}
  <2> DEFINE cost == s.card[p].cost
             d == Delta(o, s, Req[o].branch, p)
  <2>1. Req[o].branch \in Branches /\ s.card[p] \in CardRow
        BY <1>2, GoodsAssumption DEF SeenOf
  <2>3. cost \in Int /\ d \in Int
        BY <1>2, <2>1, DeltaIs DEF CardRow
  <2>2. Booked(o, s, p) = Rounded(cost, d)
        BY <1>2 DEF Booked
  <2> HIDE DEF cost, d
  <2>   QED BY <2>2, <2>3, RoundedWithin
<1>   QED BY <1>1, <1>2 DEF Booked

\* Account 1200 gets the sum of that.
LEMMA InventoryIs ==
    ASSUME NEW o \in Ops, NEW s \in SeenOf(o)
    PROVE  JournalOf(o, s)["Inventory"] = SumFunction([p \in Products |-> Booked(o, s, p)])
PROOF
<1> DEFINE b == Req[o].branch
           value(p) == LineTotal(s.card[p].cost, Delta(o, s, b, p))
           loss(p) == LineTotal(s.card[p].cost, -Delta(o, s, b, p))
           more == {p \in Lines(o) : Delta(o, s, b, p) > 0}
           f1 == [p \in more |-> value(p)]
           f2 == [p \in Lines(o) \ more |-> loss(p)]
           gain == SumFunction(f1)
           lost == SumFunction(f2)
           B == [p \in Products |-> Booked(o, s, p)]
           L == [p \in Lines(o) |-> B[p]]
           all == SumFunction(B)
<1>1. /\ IsFiniteSet(Products) /\ Lines(o) \subseteq Products /\ IsFiniteSet(Lines(o))
      /\ DOMAIN B = Products /\ \A p \in DOMAIN B : B[p] \in Int
      BY BookedInt, FiniteData, GoodsAssumption
<1>2. \A p \in Products \ Lines(o) : B[p] = 0
      BY DEF Booked
<1>3. JournalOf(o, s) =
      LET r == Req[o]
      IN  CASE r.kind = "purchase" -> PurchasePosting(o, [p \in Lines(o) |-> s.card[p].track])
            [] r.kind = "payment" ->
                  IF r.purchase = NoPurchase
                  THEN Posting([Advances |-> r.amount, Cash |-> -r.amount])
                  ELSE Posting([Payable |-> r.amount, Cash |-> -r.amount])
            [] r.kind = "expense" -> Posting([Expense |-> r.amount, Cash |-> -r.amount])
            [] r.kind = "adjustment" /\ r.opening ->
                  Posting([Inventory |-> gain - lost, Capital |-> -gain, Shrinkage |-> lost])
            [] r.kind \in {"adjustment", "stocktake"} ->
                  Posting([Inventory |-> gain - lost, Gains |-> -gain, Shrinkage |-> lost])
            [] r.kind = "sale" -> Posting([Inventory |-> -lost, COGS |-> lost])
            [] OTHER -> Posting(<<>>)
      BY DEF JournalOf
<1>4. CASE Req[o].kind = "purchase"
  <2> DEFINE track == [p \in Lines(o) |-> s.card[p].track]
             stock == {p \in Lines(o) : track[p]}
             R == [p \in stock |-> Received(o, p)]
             C == [p \in stock |-> B[p]]
  <2>1. JournalOf(o, s)["Inventory"] = SumFunction(R)
        BY <1>3, <1>4 DEF PurchasePosting, Posting, Accounts
  <2>2. /\ \A p \in stock : B[p] = Received(o, p)
        /\ \A p \in Products \ stock : B[p] = 0
        BY <1>1, <1>2, <1>4 DEF Booked
  <2>3. stock \in SUBSET Products /\ IsFiniteSet(stock)
        BY <1>1, FS_Subset
  <2>4. /\ IsFiniteSet(DOMAIN R) /\ DOMAIN C = DOMAIN R /\ \A p \in DOMAIN R : C[p] = R[p]
        BY <2>2, <2>3
  <2> HIDE DEF track, stock, B
  <2>5. SumFunction(C) = SumFunction(B)
        BY <1>1, <2>2, <2>3, SumAllSubset
  <2> HIDE DEF R, C
  <2>6. SumFunction(C) = SumFunction(R)
        BY <2>4, SumAllSame
  <2>   QED BY <2>1, <2>5, <2>6 DEF B
<1>5. CASE Req[o].kind \in {"sale", "adjustment", "stocktake"}
  <2> DEFINE Q == Lines(o) \ more
             L1 == [p \in more |-> L[p]]
             L2 == [p \in Q |-> L[p]]
  <2>1. /\ \A p \in more : B[p] = value(p)
        /\ \A p \in Q : B[p] = -loss(p)
        BY <1>1, <1>5 DEF Booked, Rounded
  <2>2. more \in SUBSET Lines(o) /\ IsFiniteSet(more) /\ IsFiniteSet(Q)
        BY <1>1, FS_Subset
  <2>3. \A p \in Q : loss(p) \in Int
    <3> SUFFICES ASSUME NEW p \in Q PROVE loss(p) \in Int
        OBVIOUS
    <3> DEFINE cost == s.card[p].cost
               e == -Delta(o, s, b, p)
    <3>1. b \in Branches /\ s.card[p] \in CardRow
          BY GoodsAssumption DEF SeenOf
    <3>2. Delta(o, s, b, p) \in Int /\ cost \in Int
          BY <3>1, DeltaIs DEF CardRow
    <3>3. e \in Int
          BY <3>2
    <3> HIDE DEF cost, e
    <3>4. LineTotal(cost, e) \in Int
          BY <3>2, <3>3, LineTotalInt
    <3>   QED BY <3>4 DEF cost, e
  <2> HIDE DEF more, value, loss, B
  <2>4. SumFunction(L) = SumFunction(B)
        BY <1>1, <1>2, SumAllSubset
  <2>5. /\ IsFiniteSet(DOMAIN L) /\ DOMAIN L = Lines(o) /\ \A p \in DOMAIN L : L[p] \in Int
        BY <1>1
  <2>6. /\ IsFiniteSet(DOMAIN f1) /\ DOMAIN L1 = DOMAIN f1 /\ \A p \in DOMAIN f1 : L1[p] = f1[p]
        BY <2>1, <2>2
  <2>7. /\ IsFiniteSet(DOMAIN f2) /\ DOMAIN L2 = DOMAIN f2
        /\ \A p \in DOMAIN f2 : f2[p] \in Int /\ L2[p] = -f2[p]
        BY <2>1, <2>2, <2>3
  <2> HIDE DEF L, f1, f2
  <2>8. SumFunction(L) = SumFunction(L1) + SumFunction(L2)
        BY <2>2, <2>5, SumAllSplit
  <2>9. \A p \in DOMAIN f1 : f1[p] \in Int
    <3>1. \A p \in DOMAIN f1 : p \in DOMAIN L
          BY <2>2, <2>5, <2>6 DEF L1
    <3>   QED BY <2>5, <2>6, <3>1 DEF L1
  <2> HIDE DEF L1, L2, Q
  <2>10. SumFunction(L1) = gain /\ gain \in Int
        BY <2>6, <2>9, SumAllSame, SumAllInt
  <2>11. lost \in Int /\ SumFunction(L2) \in Int /\ lost + SumFunction(L2) = 0
        BY <2>7, SumAllNegated
  <2>12. Req[o].kind = "sale" => gain = 0
    <3>1. Req[o].kind = "sale" => more = {}
      <4>1. ASSUME Req[o].kind = "sale", NEW p \in Lines(o) PROVE ~(Delta(o, s, b, p) > 0)
        <5>1. Req[o].items[p] \in Nat \ {0} /\ b \in Branches
              BY <4>1, GoodsAssumption DEF ItemOf
        <5>   QED BY <4>1, <5>1 DEF Delta
      <4>   QED BY <4>1 DEF more
    <3>2. Req[o].kind = "sale" => IsFiniteSet(DOMAIN f1) /\ \A p \in DOMAIN f1 : f1[p] = 0
          BY <2>2, <3>1 DEF f1
    <3>   QED BY <3>2, SumAllZero
  <2> HIDE DEF gain, lost
  <2>13. gain - lost = all
    <3>1. SumFunction(L2) = -lost /\ -lost \in Int
          BY <2>11
    <3>2. all = gain + SumFunction(L2)
          BY <2>4, <2>8, <2>10
    <3>   QED BY <2>10, <2>11, <3>1, <3>2
  <2>14. Req[o].kind = "sale" => gain - lost = -lost
        BY <2>11, <2>12
  <2>15. JournalOf(o, s)["Inventory"] = gain - lost
        BY <1>3, <1>5, <2>14 DEF Posting, Accounts
  <2>   QED BY <2>13, <2>15 DEF B
<1>6. CASE Req[o].kind \notin {"purchase", "sale", "adjustment", "stocktake"}
  <2>1. JournalOf(o, s)["Inventory"] = 0
    <3> HIDE DEF gain, lost
    <3>   QED BY <1>3, <1>6 DEF Posting, Accounts
  <2>2. \A p \in DOMAIN B : B[p] = 0
        BY <1>6 DEF Booked
  <2> HIDE DEF B
  <2>3. all = 0
        BY <1>1, <2>2, SumAllZero
  <2>   QED BY <2>1, <2>3 DEF B
<1>   QED BY <1>4, <1>5, <1>6

-----------------------------------------------------------------------------
(* Answers and cards                                                        *)

\* A request that was answered is over, and its answer stays.
AnswersInv == \A t \in Txns : answer[t] = "created" => pc[t] = "done"
NoEdit == \A t \in Txns : Req[OpOf[t]].kind = "edit" => answer[t] # "created"

LEMMA StepAnswers ==
    ASSUME Typed, AnswersInv, [Next]_vars
    PROVE  AnswersInv' /\ (NoEdit' => NoEdit)
PROOF
<1>1. pc \in [Txns -> AllStages] /\ answer \in [Txns -> {"none", "created", "replayed", "refused"}]
      BY DEF Typed, TypeOK, RequestsTypeOK, AllStages
<1> DEFINE Ends(t) == \E what : answer' = [answer EXCEPT ![t] = what] /\ Goto(t, "done")
           Goes(t) == UNCHANGED answer /\ (UNCHANGED pc \/ \E stage : Goto(t, stage))
<1>2. ASSUME NEW t \in Txns, Work(t) \/ Fail(t)
      PROVE  pc[t] # "done" /\ (Ends(t) \/ Goes(t))
  <2>1. CASE Arrive(t)
        BY <2>1 DEF Arrive, Begin, Start, LookedUp
  <2>2. CASE Again(t)
        BY <2>2 DEF Again, Lookup, LookedUp, At
  <2>3. CASE Lock(t) \/ Read(t) \/ WaitToWrite(t)
        BY <2>3 DEF Lock, Read, WaitToWrite, At
  <2>4. CASE Refuse(t)
        BY <2>4 DEF Refuse, GivesUp, At, End
  <2>5. ASSUME NEW kind, Commits(t, kind) PROVE pc[t] # "done" /\ (Ends(t) \/ Goes(t))
        BY <2>5 DEF Commits, At, End
  <2>6. CASE FindDocument(t) \/ PutObject(t) \/ RecordDocument(t)
        BY <2>6 DEF FindDocument, PutObject, RecordDocument, Uploading, At, End
  <2>7. CASE Fail(t)
        BY <2>7 DEF Fail, Crash, Active, Rollback
  <2> HIDE DEF Ends, Goes
  <2>   QED BY <1>2, <2>1, <2>2, <2>3, <2>4, <2>5, <2>6, <2>7
            DEF Work, CompletePurchase, RecordSupplierPayment, RecordExpense, AdjustStock,
                CompleteStockTransfer, PostStocktake, CompleteSale, UpdateProduct
<1>3. ASSUME NEW t \in Txns, Work(t) \/ Fail(t) PROVE AnswersInv' /\ (NoEdit' => NoEdit)
  <2>1. \A u \in Txns : answer[u] = "created" => u # t
        BY <1>2, <1>3 DEF AnswersInv
  <2>2. \A u \in Txns : u # t => pc'[u] = pc[u] /\ answer'[u] = answer[u]
        BY <1>1, <1>2, <1>3 DEF Goto
  <2>3. answer'[t] = "created" => pc'[t] = "done"
        BY <1>1, <1>2, <1>3, <2>1 DEF Goto
  <2>   QED BY <1>3, <2>1, <2>2, <2>3 DEF AnswersInv, NoEdit
<1>4. CASE UNCHANGED vars
      BY <1>4 DEF vars, requests, AnswersInv, NoEdit
<1>   QED BY <1>3, <1>4 DEF Next

\* What a request has read of the cards it locks is still there too: an edit reads
\* before it locks, but it cannot write before it has the lock.
CardsInv ==
    \A t \in Txns : pc[t] = "read" =>
        \A p \in Lines(OpOf[t]) : Product(p) \in LockSet(OpOf[t]) => seen[t].card[p] = card[p]

LEMMA StepCards ==
    ASSUME Typed, HeldInv, CardsInv, [Next]_vars
    PROVE  CardsInv'
PROOF
<1> DEFINE Says(t, s) ==
        \A p \in Lines(OpOf[t]) : Product(p) \in LockSet(OpOf[t]) => s.card[p] = card'[p]
<1>1. ASSUME NEW t \in Txns, pc'[t] = "read" PROVE Says(t, seen'[t])
  <2>1. CASE Read(t)
    <3>1. seen'[t] = Snapshot(OpOf[t]) /\ UNCHANGED card
          BY <2>1 DEF Typed, Read, Keep, books
    <3>   QED BY <3>1 DEF Snapshot
  <2>2. CASE pc[t] = "read" /\ seen'[t] = seen[t]
    <3> PICK s : s = seen[t]
        OBVIOUS
    <3>1. \A p \in Lines(OpOf[t]) : Product(p) \in LockSet(OpOf[t]) => s.card[p] = card[p]
          BY <2>2 DEF CardsInv
    <3>2. ASSUME UNCHANGED books PROVE Says(t, s)
          BY <2>2, <3>1, <3>2 DEF books
    <3>3. ASSUME NEW w \in Txns, NEW r, Wrote(w, OpOf[w], r) PROVE Says(t, s)
      <4> DEFINE o == OpOf[w]
      <4>1. /\ w # t /\ pc[w] = "read" /\ o \in Ops /\ ~Blocked(w) /\ MustWait(w) = {}
            /\ card' = [p \in Products |-> IF p \in Lines(o) THEN NewCard(o, r, p) ELSE card[p]]
            BY <1>1, <3>3 DEF Wrote, Write
      <4>2. ASSUME NEW p \in Lines(OpOf[t]), Product(p) \in LockSet(OpOf[t])
            PROVE  card'[p] = card[p]
        <5>1. Holds(t, Product(p)) /\ p \in Products
              BY <2>2, <4>2, GoodsAssumption DEF HeldInv
        <5>2. ~Holds(w, Product(p))
              BY <4>1, <5>1, HolderIsOne
        <5>3. Product(p) \notin LockSet(o)
              BY <4>1, <5>2 DEF HeldInv
        <5>4. ~(p \in Lines(o) /\ Req[o].kind = "purchase")
              BY <5>3 DEF LockSet, ProductLocks
        <5>5. ~(p \in Lines(o) /\ Req[o].kind = "edit")
          <6>1. ASSUME p \in Lines(o), Req[o].kind = "edit" PROVE FALSE
            <7>1. Product(p) \in Foreign(o)
                  BY <6>1 DEF Foreign
            <7>2. Asked(w, Product(p))
                  BY <4>1, <5>1, <7>1 DEF MustWait, Holds
            <7>   QED BY <4>1, <5>2, <7>2, NotBlockedHolds, RowTypes
          <6>   QED BY <6>1
        <5>6. p \in Lines(o) => NewCard(o, r, p) = card[p]
              BY <5>4, <5>5 DEF NewCard
        <5>   QED BY <4>1, <5>1, <5>6
      <4>   QED BY <3>1, <4>2
    <3> HIDE DEF Says
    <3>4. Says(t, s)
          BY <3>2, <3>3, Steps
    <3>   QED BY <2>2, <3>4
  <2>   QED BY <1>1, <2>1, <2>2, ReadStays
<1>   QED BY <1>1 DEF CardsInv

-----------------------------------------------------------------------------
(* The value of the stock                                                   *)

StockOf(p) == SumFunction([b \in Branches |-> onHand[b][p]])
Worth(p) == card[p].cost * StockOf(p)
MovedBy(o, s) == {p \in Lines(o) : Delta(o, s, Req[o].branch, p) # 0}
OneBranch == \A p \in Products : Cardinality(StockedAt(p)) <= 1

LEMMA FiniteBranches == IsFiniteSet(Branches)
PROOF
<1>1. BranchOrder \in Seq(Branches)
      BY GoodsAssumption
<1>2. DOMAIN BranchOrder = 1..Len(BranchOrder) /\ Len(BranchOrder) \in Nat
      BY <1>1
<1>3. IsFiniteSet(DOMAIN BranchOrder)
      BY <1>2, FS_Interval
<1>4. BranchOrder \in Surjection(1..Len(BranchOrder), Branches)
      BY <1>1, <1>2 DEF Branches, Surjection
<1>   QED BY <1>2, <1>3, <1>4, FS_Surjection

LEMMA AtMostOne ==
    ASSUME NEW S, IsFiniteSet(S), Cardinality(S) <= 1, NEW a \in S, NEW b \in S
    PROVE  a = b
PROOF
<1>1. Cardinality(S) \in Nat /\ Cardinality(S) # 0
      BY FS_CardinalityType, FS_EmptySet
<1>2. Cardinality(S) = 1
      BY <1>1
<1>3. PICK x : S = {x}
      BY <1>2, FS_Singleton
<1>   QED BY <1>3

\* Where each product is only held at one branch, an operation moves it there: nothing
\* is transferred, and there is none of it anywhere else.
LEMMA HereOnly ==
    ASSUME Typed, StockIsMovements, OneBranch',
           NEW t, NEW o, NEW s, Wrote(t, o, s), NEW p \in Lines(o)
    PROVE  /\ \A b \in Branches \ {Req[o].branch} : Delta(o, s, b, p) = 0
           /\ p \in MovedBy(o, s) => \A b \in Branches \ {Req[o].branch} : onHand[b][p] = 0
           /\ Req[o].kind # "transfer"
PROOF
<1> DEFINE here == Req[o].branch
<1>1. /\ TypeOK /\ o \in Ops /\ s \in SeenOf(o) /\ p \in Products /\ here \in Branches
      /\ posted' = posted \cup ({o} \cap ClientOps) /\ o \notin posted /\ posted \subseteq Ops
      /\ \A b \in Branches : moves'[o][b][p] = Delta(o, s, b, p)
      /\ \A x \in posted : moves'[x] = moves[x]
  <2>1. TypeOK /\ o \in Ops /\ s \in SeenOf(o) /\ p \in Products /\ here \in Branches
        BY GoodsAssumption DEF Typed, Wrote
  <2>2. posted \subseteq Ops
        BY RowTypes, Kinds
  <2>   QED BY <2>1, <2>2, WritesStock, WritesJournal
<1>2. ASSUME NEW a \in StockedAt(p)', NEW b \in StockedAt(p)' PROVE a = b
  <2> DEFINE S == StockedAt(p)'
  <2>1. S \in SUBSET Branches
        BY DEF StockedAt
  <2>2. IsFiniteSet(S) /\ Cardinality(S) <= 1
        BY <1>1, <2>1, FiniteBranches, FS_Subset DEF OneBranch
  <2> HIDE DEF S
  <2>3. \A x, y \in S : x = y
        BY <2>2, AtMostOne
  <2>   QED BY <1>2, <2>3 DEF S
<1>3. ASSUME NEW b \in Branches, Delta(o, s, b, p) # 0 PROVE b \in StockedAt(p)'
  <2>1. Req[o].kind \notin {"edit", "upload"}
        BY <1>3 DEF Delta
  <2>2. o \in posted'
        BY <1>1, <2>1 DEF ClientOps, OfKind, Uploads
  <2>   QED BY <1>1, <1>3, <2>2 DEF StockedAt
<1>4. Req[o].kind # "transfer"
  <2> SUFFICES ASSUME Req[o].kind = "transfer" PROVE FALSE
      OBVIOUS
  <2>1. Req[o].to \in Branches /\ Req[o].to # here
        BY <1>1, GoodsAssumption DEF OfKind
  <2>2. Req[o].items[p] \in ItemOf[Req[o].kind]
        BY <1>1, GoodsAssumption
  <2>3. Req[o].items[p] \in Nat \ {0}
        BY <2>2 DEF ItemOf, TransferLine
  <2>4. Delta(o, s, here, p) = -Req[o].items[p] /\ Delta(o, s, Req[o].to, p) = Req[o].items[p]
        BY <2>1 DEF Delta
  <2>5. Delta(o, s, here, p) # 0 /\ Delta(o, s, Req[o].to, p) # 0
        BY <2>3, <2>4
  <2>   QED BY <1>1, <1>2, <1>3, <2>1, <2>5
<1>5. \A b \in Branches \ {here} : Delta(o, s, b, p) = 0
      BY <1>4 DEF Delta
<1>6. ASSUME p \in MovedBy(o, s), NEW b \in Branches, b # here PROVE onHand[b][p] = 0
  <2>1. here \in StockedAt(p)'
        BY <1>1, <1>3, <1>6 DEF MovedBy
  <2>2. b \notin StockedAt(p)'
        BY <1>2, <1>6, <2>1
  <2> DEFINE f == [x \in posted |-> moves[x][b][p]]
  <2>3. ~(StockAtStart[b][p] > 0) /\ \A x \in posted : f[x] = 0
        BY <1>1, <1>6, <2>2 DEF StockedAt
  <2>4. IsFiniteSet(DOMAIN f) /\ StockAtStart[b][p] \in Nat
        BY <1>1, FiniteData, GoodsAssumption
  <2>5. onHand[b][p] = StockAtStart[b][p] + SumFunction(f)
        BY <1>1, <1>6 DEF StockIsMovements
  <2> HIDE DEF f
  <2>6. \A x \in DOMAIN f : f[x] = 0
        BY <2>3 DEF f
  <2>7. SumFunction(f) = 0
        BY <2>4, <2>6, SumAllZero
  <2>   QED BY <2>3, <2>4, <2>5, <2>7
<1>   QED BY <1>4, <1>5, <1>6

LEMMA StockMoves ==
    ASSUME Typed, StockIsMovements, SeenInv, OneBranch',
           NEW t, NEW o, NEW s, Wrote(t, o, s), NEW p \in Products
    PROVE  /\ StockOf(p) \in Nat
           /\ p \notin MovedBy(o, s) => StockOf(p)' = StockOf(p)
           /\ p \in MovedBy(o, s) =>
                 /\ Delta(o, s, Req[o].branch, p) \in Int
                 /\ StockOf(p)' = StockOf(p) + Delta(o, s, Req[o].branch, p)
                 /\ StockOf(p) = onHand[Req[o].branch][p]
                 /\ s.onHand[Req[o].branch][p] = onHand[Req[o].branch][p]
                 /\ onHand'[Req[o].branch][p] = StockOf(p)'
PROOF
<1> DEFINE here == Req[o].branch
           f == [b \in Branches |-> onHand[b][p]]
           g == [b \in Branches |-> onHand'[b][p]]
           d == Delta(o, s, here, p)
<1>1. /\ TypeOK /\ o \in Ops /\ s \in SeenOf(o) /\ here \in Branches /\ t \in Txns
      /\ o = OpOf[t] /\ s = seen[t] /\ pc[t] = "read"
      BY GoodsAssumption DEF Typed, Wrote
<1>2. \A b \in Branches :
          onHand'[b][p] = IF p \in Lines(o) /\ Delta(o, s, b, p) # 0
                          THEN s.onHand[b][p] + Delta(o, s, b, p) ELSE onHand[b][p]
      BY <1>1, WritesStock
<1>3. \A b \in Branches \ {here} : p \in Lines(o) => Delta(o, s, b, p) = 0
      BY HereOnly
<1>4. IsFiniteSet(DOMAIN f) /\ DOMAIN g = DOMAIN f /\ \A b \in DOMAIN f : f[b] \in Nat
      BY FiniteBranches, RowTypes
<1>5. \A b \in DOMAIN f \ {here} : g[b] = f[b]
      BY <1>2, <1>3
<1>6. StockOf(p) = SumFunction(f) /\ StockOf(p)' = SumFunction(g)
      BY DEF StockOf
<1>7. SumFunction(f) \in Nat
  <2> HIDE DEF f, g
  <2>   QED BY <1>4, SumAllNat
<1>8. ASSUME p \notin MovedBy(o, s) PROVE SumFunction(g) = SumFunction(f)
  <2>1. \A b \in DOMAIN f : g[b] = f[b]
        BY <1>1, <1>2, <1>3, <1>8 DEF MovedBy
  <2> HIDE DEF f, g
  <2>   QED BY <1>4, <2>1, SumAllSame
<1>9. ASSUME p \in MovedBy(o, s)
      PROVE  /\ d \in Int /\ SumFunction(g) = SumFunction(f) + d
             /\ SumFunction(f) = onHand[here][p] /\ s.onHand[here][p] = onHand[here][p]
             /\ onHand'[here][p] = onHand[here][p] + d
  <2>1. p \in Lines(o) /\ d # 0 /\ d \in Int /\ Product(p) \in LockSet(o)
        BY <1>1, <1>9, DeltaIs DEF MovedBy
  <2>2. s.onHand[here][p] = onHand[here][p]
        BY <1>1, <2>1 DEF SeenInv
  <2>3. onHand'[here][p] = onHand[here][p] + d /\ here \in DOMAIN f
        BY <1>1, <1>2, <2>1, <2>2
  <2>4. g[here] = f[here] + d /\ f[here] = onHand[here][p]
        BY <1>1, <2>3
  <2>5. \A b \in DOMAIN f \ {here} : f[b] = 0
        BY <1>9, <2>1, HereOnly
  <2> DEFINE h == [b \in {here} |-> f[b]]
  <2>6. {here} \in SUBSET DOMAIN f /\ \A b \in DOMAIN f : f[b] \in Int
        BY <1>1, <1>4
  <2>7. DOMAIN h = {here} /\ h[here] = f[here] /\ f[here] \in Int
        BY <2>6
  <2> HIDE DEF f, g, d
  <2>8. SumFunction(h) = SumFunction(f)
        BY <1>4, <2>5, <2>6, SumAllSubset
  <2> HIDE DEF h
  <2>9. SumFunction(h) = f[here]
        BY <2>7, SumOfOne
  <2>10. SumFunction(g) = SumFunction(f) + d
        BY <1>4, <1>5, <2>1, <2>3, <2>4, <2>6, SumAllMoved
  <2>   QED BY <2>1, <2>2, <2>3, <2>4, <2>8, <2>9, <2>10
<1>   QED BY <1>6, <1>7, <1>8, <1>9

StockUpTo(k) == \A b \in Branches, p \in Products : onHand[b][p] <= k

\* what the value of a product gains on what account 1200 gets for it
Drift(o, s, p) == Worth(p)' - Worth(p) - CostScale * Booked(o, s, p)

\* The figures of a purchase: h at cost c are held, g more at cost a come in, and the
\* new average is n.
LEMMA AverageWithin ==
    ASSUME NEW c \in Nat, NEW h \in Nat, NEW a \in Nat, NEW g \in Nat \ {0}, NEW n \in Nat,
           n = IF h > 0 THEN HalfUp(h * c + g * a, h + g) ELSE a
    PROVE  LET e == n * (h + g) - c * h - CostScale * LineTotal(a, g)
           IN  e \in Int /\ 2 * e <= CostScale + h + g /\ -(2 * e) <= CostScale + h + g
PROOF
<1>0. CostScale \in Nat
      BY GoodsAssumption
<1> DEFINE x == n * (h + g)
           y == c * h
           z == a * g
           l == CostScale * LineTotal(a, g)
<1>1. /\ x \in Int /\ y \in Int /\ z \in Int /\ h * c = y /\ g * a = z /\ h + g \in Nat \ {0}
      /\ (h + g) * n = x
      OBVIOUS
<1>2. LineTotal(a, g) \in Int
      BY LineTotalInt
<1>3. l \in Int /\ 2 * l - 2 * z <= CostScale /\ 2 * z - 2 * l <= CostScale
      BY <1>0, <1>2, LineTotalWithin
<1>4. 2 * x - 2 * (y + z) <= h + g /\ 2 * (y + z) - 2 * x <= h + g
  <2>1. CASE h > 0
    <3> DEFINE m == y + z
               d == h + g
    <3>1. m \in Int /\ d \in Nat \ {0} /\ n = HalfUp(m, d)
          BY <1>1, <2>1
    <3>2. d * n = x
          BY <1>1
    <3> HIDE DEF m, d, x, y, z
    <3>3. 2 * (d * HalfUp(m, d)) - 2 * m <= d /\ 2 * m - 2 * (d * HalfUp(m, d)) <= d
          BY <3>1, HalfUpWithin
    <3>4. 2 * x - 2 * m <= d /\ 2 * m - 2 * x <= d
          BY <3>1, <3>2, <3>3
    <3>   QED BY <3>4 DEF m, d
  <2>2. CASE h = 0
    <3>1. x = z /\ y = 0
          BY <2>2
    <3> HIDE DEF x, y, z
    <3>   QED BY <1>1, <2>2, <3>1
  <2>   QED BY <2>1, <2>2
<1> HIDE DEF x, y, z, l
<1>5. /\ x - y - l \in Int /\ 2 * (x - y - l) <= CostScale + h + g
      /\ -(2 * (x - y - l)) <= CostScale + h + g
      BY <1>0, <1>1, <1>3, <1>4
<1>   QED BY <1>5 DEF x, y, l

LEMMA OneProduct ==
    ASSUME Typed, StockIsMovements, SeenInv, CardsInv, OneBranch',
           NEW k \in Nat, StockUpTo(k)',
           NEW t, NEW o, NEW s, Wrote(t, o, s), Req[o].kind # "edit", NEW p \in Products
    PROVE  /\ Worth(p) \in Int /\ Worth(p)' \in Int /\ Drift(o, s, p) \in Int
           /\ p \notin MovedBy(o, s) => Drift(o, s, p) = 0
           /\ 2 * Drift(o, s, p) <= CostScale + k /\ -(2 * Drift(o, s, p)) <= CostScale + k
PROOF
<1> DEFINE here == Req[o].branch
           d == Delta(o, s, here, p)
           S == StockOf(p)
           Z == StockOf(p)'
           c == card[p].cost
           n == card'[p].cost
           B == Booked(o, s, p)
<1>1. /\ TypeOK /\ o \in Ops /\ s \in SeenOf(o) /\ here \in Branches /\ t \in Txns
      /\ o = OpOf[t] /\ s = seen[t] /\ pc[t] = "read" /\ CostScale \in Nat
      /\ card \in [Products -> CardRow]
      /\ card' = [q \in Products |-> IF q \in Lines(o) THEN NewCard(o, s, q) ELSE card[q]]
      BY GoodsAssumption DEF Typed, TypeOK, Wrote, Write
<1>2. c \in Nat /\ n \in Nat /\ B \in Int
  <2>1. card' \in [Products -> CardRow]
        BY <1>1, WritesCards
  <2>   QED BY <1>1, <2>1, BookedInt DEF CardRow
<1>3. /\ S \in Nat
      /\ p \notin MovedBy(o, s) => Z = S
      /\ p \in MovedBy(o, s) => /\ d \in Int /\ Z = S + d /\ S = onHand[here][p]
                                /\ s.onHand[here][p] = S /\ onHand'[here][p] = Z
      BY StockMoves
<1>4. Worth(p) = c * S /\ Worth(p)' = n * Z
      BY DEF Worth
<1>5. CASE p \notin MovedBy(o, s)
  <2>1. n = c
    <3>1. CASE p \notin Lines(o)
          BY <1>1, <3>1
    <3>2. CASE p \in Lines(o)
      <4>1. d = 0
            BY <1>5, <3>2 DEF MovedBy
      <4>2. NewCard(o, s, p) = card[p]
        <5>1. CASE Req[o].kind = "purchase" /\ s.card[p].track
          <6>1. Req[o].items[p].received = 0
                BY <4>1, <5>1 DEF Delta
          <6>   QED BY <5>1, <6>1 DEF NewCard
        <5>2. CASE ~(Req[o].kind = "purchase" /\ s.card[p].track)
              BY <5>2 DEF NewCard
        <5>   QED BY <5>1, <5>2
      <4>   QED BY <1>1, <3>2, <4>2
    <3>   QED BY <3>1, <3>2
  <2>2. B = 0
    <3>1. CASE p \in Lines(o) /\ Req[o].kind = "purchase" /\ s.card[p].track
      <4>1. Req[o].items[p].received = 0
            BY <1>5, <3>1 DEF MovedBy, Delta
      <4>2. Req[o].items[p] \in ItemOf[Req[o].kind]
            BY <1>1, <3>1, GoodsAssumption
      <4> DEFINE a == Req[o].items[p].cost
      <4>3. a \in Int
            BY <3>1, <4>2 DEF ItemOf, PurchaseLine
      <4>4. B = LineTotal(a, 0)
            BY <3>1, <4>1 DEF Booked, Received
      <4> HIDE DEF a
      <4>   QED BY <4>3, <4>4, LineTotalWithin
    <3>2. CASE p \in Lines(o) /\ Req[o].kind \in {"sale", "adjustment", "stocktake"}
      <4>1. d = 0 /\ s.card[p] \in CardRow
            BY <1>1, <1>5, <3>2 DEF MovedBy, SeenOf
      <4> DEFINE a == s.card[p].cost
      <4>2. a \in Int /\ B = Rounded(a, 0)
            BY <3>2, <4>1 DEF Booked, CardRow
      <4> HIDE DEF a, B
      <4>   QED BY <4>2, RoundedWithin
    <3>3. CASE ~(p \in Lines(o) /\ Req[o].kind = "purchase" /\ s.card[p].track)
               /\ ~(p \in Lines(o) /\ Req[o].kind \in {"sale", "adjustment", "stocktake"})
          BY <3>3 DEF Booked
    <3>   QED BY <3>1, <3>2, <3>3
  <2>3. Worth(p)' = Worth(p) /\ Worth(p) \in Int
    <3> HIDE DEF c, S, n, Z
    <3>   QED BY <1>2, <1>3, <1>4, <1>5, <2>1
  <2>4. Drift(o, s, p) = 0
    <3>1. Drift(o, s, p) = Worth(p)' - Worth(p) - CostScale * B
          BY DEF Drift
    <3>   QED BY <1>1, <2>2, <2>3, <3>1
  <2>   QED BY <1>1, <2>3, <2>4
<1>6. CASE p \in MovedBy(o, s)
  <2>1. p \in Lines(o) /\ d # 0 /\ Product(p) \in LockSet(o) /\ Req[o].kind # "transfer"
    <3>1. p \in Lines(o) /\ d # 0
          BY <1>6 DEF MovedBy
    <3>   QED BY <1>1, <3>1, DeltaIs, HereOnly
  <2>2. s.card[p] = card[p]
        BY <1>1, <2>1 DEF CardsInv
  <2>3. card'[p] = NewCard(o, s, p)
        BY <1>1, <2>1
  <2>4. Z \in Nat /\ Z <= k
    <3>1. onHand' \in [Branches -> [Products -> Nat]]
          BY <1>1, WritesStock
    <3>2. onHand'[here][p] \in Nat /\ onHand'[here][p] <= k
          BY <1>1, <3>1 DEF StockUpTo
    <3>   QED BY <1>3, <1>6, <3>2
  <2>5. CASE Req[o].kind = "purchase"
    <3> DEFINE a == Req[o].items[p].cost
               g == Req[o].items[p].received
    <3>1. s.card[p].track /\ d = g
          BY <1>1, <2>1, <2>5 DEF Delta
    <3>2. Req[o].items[p] \in ItemOf[Req[o].kind]
          BY <1>1, <2>1, GoodsAssumption
    <3>3. a \in Nat /\ g \in Nat \ {0}
          BY <2>1, <2>5, <3>1, <3>2 DEF ItemOf, PurchaseLine
    <3>4. n = NewCost(o, s, p)
          BY <2>2, <2>3, <2>5, <3>1, <3>3, <1>1 DEF NewCard, CardRow
    <3>5. n = IF S > 0 THEN HalfUp(S * c + g * a, S + g) ELSE a
          BY <1>3, <1>6, <2>2, <3>4 DEF NewCost
    <3>6. B = LineTotal(a, g)
          BY <2>1, <2>5, <3>1 DEF Booked, Received
    <3>7. Drift(o, s, p) = n * Z - c * S - CostScale * B
          BY <1>4 DEF Drift
    <3>8. Z = S + g
          BY <1>3, <1>6, <3>1
    <3> HIDE DEF a, g, S, c, n, B, Z, d
    <3> DEFINE e == n * (S + g) - c * S - CostScale * LineTotal(a, g)
    <3>9. e \in Int /\ 2 * e <= CostScale + S + g /\ -(2 * e) <= CostScale + S + g
          BY <1>2, <1>3, <3>3, <3>5, AverageWithin
    <3>10. Drift(o, s, p) = e
          BY <3>6, <3>7, <3>8
    <3> HIDE DEF e
    <3>11. 2 * e <= CostScale + k /\ -(2 * e) <= CostScale + k
          BY <1>1, <1>3, <2>4, <3>3, <3>8, <3>9
    <3>12. Worth(p) \in Int /\ Worth(p)' \in Int
          BY <1>2, <1>3, <1>4, <2>4
    <3>   QED BY <1>6, <3>9, <3>10, <3>11, <3>12
  <2>6. CASE Req[o].kind # "purchase"
    <3>1. Req[o].kind \in {"sale", "adjustment", "stocktake"}
          BY <2>1, <2>6 DEF Delta
    <3>2. n = c
          BY <2>3, <2>6 DEF NewCard
    <3>3. B = Rounded(c, d)
          BY <2>1, <2>2, <2>6, <3>1 DEF Booked
    <3>4. Drift(o, s, p) = n * Z - c * S - CostScale * B
          BY <1>4 DEF Drift
    <3> HIDE DEF S, c, n, B, Z, d
    <3> DEFINE r == CostScale * B
               v == c * d
    <3>5. d \in Int /\ Z = S + d
          BY <1>3, <1>6
    <3>6. n * Z = c * S + v /\ c * S \in Int /\ v \in Int /\ n * Z \in Int
          BY <1>2, <1>3, <3>2, <3>5
    <3>7. r \in Int /\ 2 * r - 2 * v <= CostScale /\ 2 * v - 2 * r <= CostScale
      <4>1. r \in Int
            BY <1>1, <1>2
      <4>2. /\ 2 * (CostScale * Rounded(c, d)) - 2 * v <= CostScale
            /\ 2 * v - 2 * (CostScale * Rounded(c, d)) <= CostScale
        <5>1. c \in Int /\ d \in Int
              BY <1>2, <3>5
        <5>   QED BY <5>1, RoundedWithin
      <4>   QED BY <3>3, <4>1, <4>2
    <3> HIDE DEF r, v
    <3>8. Drift(o, s, p) = v - r
          BY <3>4, <3>6, <3>7 DEF r
    <3>9. /\ v - r \in Int /\ 2 * (v - r) <= CostScale + k /\ -(2 * (v - r)) <= CostScale + k
          BY <1>1, <3>6, <3>7
    <3>   QED BY <1>4, <1>6, <3>6, <3>8, <3>9
  <2>   QED BY <2>5, <2>6
<1>   QED BY <1>5, <1>6

\* how far the stock at its average cost and account 1200 are apart
Apart ==
    Valuation(onHand, card)
        - (Valuation(StockAtStart, CardAtStart) + CostScale * GL("Inventory", Ops \ Opening))

TrackedWithin(k) ==
    OneBranch /\ NoEdit =>
        /\ 2 * Apart <= (CostScale + k) * Cardinality(Movements)
        /\ -(2 * Apart) <= (CostScale + k) * Cardinality(Movements)

LEMMA StartInt == Valuation(StockAtStart, CardAtStart) \in Int /\ CostScale \in Nat
PROOF
<1> DEFINE h(p) == SumFunction([b \in Branches |-> StockAtStart[b][p]])
           f == [p \in Products |-> CardAtStart[p].cost * h(p)]
<1>1. ASSUME NEW p \in Products PROVE h(p) \in Int
  <2> DEFINE g == [b \in Branches |-> StockAtStart[b][p]]
  <2>1. IsFiniteSet(DOMAIN g) /\ \A b \in DOMAIN g : g[b] \in Int
        BY FiniteBranches, GoodsAssumption
  <2> HIDE DEF g
  <2>2. SumFunction(g) \in Int
        BY <2>1, SumAllInt
  <2>   QED BY <2>2 DEF g
<1> HIDE DEF h
<1>2. \A p \in Products : CardAtStart[p].cost \in Int
      BY GoodsAssumption DEF CardRow
<1>3. \A x, y \in Int : x * y \in Int
      OBVIOUS
<1>4. IsFiniteSet(DOMAIN f) /\ \A p \in DOMAIN f : f[p] \in Int
      BY <1>1, <1>2, <1>3, FiniteData
<1>5. Valuation(StockAtStart, CardAtStart) = SumFunction(f)
      BY DEF Valuation, h
<1> HIDE DEF f
<1>   QED BY <1>4, <1>5, SumAllInt, GoodsAssumption

LEMMA ValuationMoves ==
    ASSUME Typed, StockIsMovements, SeenInv, CardsInv, OneBranch', Opening \subseteq posted,
           NEW k \in Nat, StockUpTo(k)',
           NEW t, NEW o, NEW s, Wrote(t, o, s), Req[o].kind # "edit"
    PROVE  /\ Apart \in Int
           /\ Apart' = Apart + SumFunction([p \in Products |-> Drift(o, s, p)])
PROOF
<1> DEFINE w == [p \in Products |-> Worth(p)]
           z == [p \in Products |-> Worth(p)']
           b == [p \in Products |-> Booked(o, s, p)]
           c == [p \in Products |-> CostScale * b[p]]
           u == [p \in Products |-> w[p] + c[p]]
           e == [p \in Products |-> Drift(o, s, p)]
           f == [x \in (Ops \ Opening) \cap posted |-> journal[x]["Inventory"]]
           g == [x \in (Ops \ Opening) \cap posted' |-> journal'[x]["Inventory"]]
           start == Valuation(StockAtStart, CardAtStart)
<1>1. /\ TypeOK /\ o \in Ops /\ s \in SeenOf(o) /\ CostScale \in Nat /\ o \in ClientOps
      /\ JournalOf(o, s) \in [Accounts -> Int]
      /\ journal' = [journal EXCEPT ![o] = JournalOf(o, s)]
  <2>1. o \in Ops /\ s \in SeenOf(o) /\ Req[o].kind \notin {"edit", "upload"} /\ Write(o, s)
        BY DEF Wrote
  <2>   QED BY <2>1, JournalIs, StartInt DEF Typed, Write, ClientOps, OfKind, Uploads
<1>2. /\ posted \subseteq Ops /\ o \notin posted /\ posted' = posted \cup {o} /\ o \notin Opening
      /\ journal \in [Ops -> [Accounts -> Int]]
  <2>1. posted' = posted \cup ({o} \cap ClientOps) /\ o \notin posted
        BY <1>1, WritesJournal
  <2>   QED BY <1>1, <2>1, RowTypes, Kinds
<1>3. journal'[o]["Inventory"] = SumFunction(b) /\ \A x \in Ops \ {o} : journal'[x] = journal[x]
      BY <1>1, <1>2, InventoryIs
<1>4. /\ IsFiniteSet(DOMAIN f) /\ DOMAIN g = DOMAIN f \cup {o} /\ o \notin DOMAIN f
      /\ \A x \in DOMAIN f : f[x] \in Int /\ g[x] = f[x]
      /\ g[o] = SumFunction(b)
  <2>1. "Inventory" \in Accounts /\ \A x \in posted : x # o /\ x \in Ops
        BY <1>2 DEF Accounts
  <2>   QED BY <1>1, <1>2, <1>3, <2>1, FiniteData
<1>5. /\ IsFiniteSet(Products)
      /\ \A p \in Products : /\ w[p] \in Int /\ z[p] \in Int /\ e[p] \in Int /\ b[p] \in Int
                             /\ c[p] = CostScale * b[p] /\ u[p] = w[p] + c[p]
                             /\ e[p] = z[p] - w[p] - c[p]
  <2>1. \A p \in Products : /\ Worth(p) \in Int /\ Worth(p)' \in Int /\ Drift(o, s, p) \in Int
                            /\ Booked(o, s, p) \in Int
        BY <1>1, OneProduct, BookedInt
  <2>2. \A p \in Products : Drift(o, s, p) = Worth(p)' - Worth(p) - CostScale * Booked(o, s, p)
        BY DEF Drift
  <2>   QED BY <2>1, <2>2, FiniteData
<1>6. /\ DOMAIN w = Products /\ DOMAIN z = Products /\ DOMAIN b = Products
      /\ DOMAIN c = Products /\ DOMAIN u = Products /\ DOMAIN e = Products
      OBVIOUS
<1>7. Valuation(onHand, card) = SumFunction(w) /\ Valuation(onHand, card)' = SumFunction(z)
      BY DEF Valuation, Worth, StockOf
<1>8. /\ GL("Inventory", Ops \ Opening) = SumFunction(f)
      /\ GL("Inventory", Ops \ Opening)' = SumFunction(g)
      BY DEF GL
<1> HIDE DEF w, z, b, c, u, e, f, g
<1>9. \A p \in Products : c[p] \in Int /\ u[p] \in Int /\ z[p] = u[p] + e[p]
  <2> TAKE p \in Products
  <2>1. c[p] \in Int
    <3> DEFINE bp == b[p]
               cp == c[p]
    <3>1. bp \in Int /\ cp = CostScale * bp
          BY <1>5
    <3> HIDE DEF bp, cp
    <3>2. cp \in Int
          BY <1>1, <3>1
    <3>   QED BY <3>2 DEF cp
  <2>2. /\ w[p] \in Int /\ z[p] \in Int /\ e[p] \in Int /\ u[p] = w[p] + c[p]
        /\ e[p] = z[p] - w[p] - c[p]
        BY <1>5
  <2>   QED BY <2>1, <2>2
<1>10. SumFunction(b) \in Int /\ SumFunction(c) = CostScale * SumFunction(b)
      BY <1>1, <1>5, <1>6, SumAllInt, SumAllTimes
<1>11. SumFunction(u) = SumFunction(w) + SumFunction(c)
      BY <1>5, <1>6, <1>9, SumAllPlus
<1>12. SumFunction(z) = SumFunction(u) + SumFunction(e)
      BY <1>5, <1>6, <1>9, SumAllPlus
<1>13. SumFunction(w) \in Int /\ SumFunction(e) \in Int /\ SumFunction(f) \in Int
      BY <1>4, <1>5, <1>6, SumAllInt
<1>14. SumFunction(g) = SumFunction(f) + SumFunction(b)
  <2>1. \A x \in DOMAIN g : g[x] \in Int
        BY <1>4, <1>10
  <2>   QED BY <1>4, <2>1, SumAllOneMore
<1>15. start \in Int
      BY StartInt
<1>16. start' = start /\ CostScale' = CostScale
      BY DEF Valuation
<1> DEFINE W == SumFunction(w)
           E == SumFunction(e)
           F == SumFunction(f)
           Q == SumFunction(b)
<1>17. /\ Apart = W - (start + CostScale * F)
       /\ Apart' = SumFunction(z) - (start + CostScale * SumFunction(g))
      BY <1>7, <1>8, <1>16 DEF Apart
<1>18. SumFunction(z) = (W + CostScale * Q) + E /\ SumFunction(g) = F + Q
      BY <1>10, <1>11, <1>12, <1>14
<1>19. W \in Int /\ E \in Int /\ F \in Int /\ Q \in Int
      BY <1>10, <1>13
<1> HIDE DEF W, E, F, Q, start
<1>20. CostScale * (F + Q) = CostScale * F + CostScale * Q /\ CostScale * F \in Int
       /\ CostScale * Q \in Int
      BY <1>1, <1>19
<1>21. Apart \in Int /\ Apart' = Apart + E
      BY <1>15, <1>17, <1>18, <1>19, <1>20
<1>   QED BY <1>21 DEF E, e

LEMMA ApartInt == ASSUME Typed PROVE Apart \in Int
PROOF
<1> DEFINE w == [p \in Products |-> Worth(p)]
           f == [x \in (Ops \ Opening) \cap posted |-> journal[x]["Inventory"]]
<1>1. ASSUME NEW p \in Products PROVE Worth(p) \in Int
  <2> DEFINE g == [b \in Branches |-> onHand[b][p]]
             c == card[p].cost
             s == SumFunction(g)
  <2>1. IsFiniteSet(DOMAIN g) /\ (\A b \in DOMAIN g : g[b] \in Int) /\ c \in Int
        BY FiniteBranches, RowTypes DEF CardRow
  <2>2. Worth(p) = c * s
        BY DEF Worth, StockOf
  <2> HIDE DEF c, g
  <2>3. s \in Int
        BY <2>1, SumAllInt
  <2> HIDE DEF s
  <2>   QED BY <2>1, <2>2, <2>3
<1>2. IsFiniteSet(DOMAIN w) /\ \A p \in DOMAIN w : w[p] \in Int
      BY <1>1, FiniteData
<1>3. IsFiniteSet(DOMAIN f) /\ \A x \in DOMAIN f : f[x] \in Int
      BY FiniteData, RowTypes DEF Accounts
<1>4. Valuation(onHand, card) = SumFunction(w)
      BY DEF Valuation, Worth, StockOf
<1>5. GL("Inventory", Ops \ Opening) = SumFunction(f)
      BY DEF GL
<1> HIDE DEF w, f
<1>6. SumFunction(w) \in Int /\ SumFunction(f) \in Int
      BY <1>2, <1>3, SumAllInt
<1> DEFINE start == Valuation(StockAtStart, CardAtStart)
           W == SumFunction(w)
           F == SumFunction(f)
<1>7. start \in Int /\ CostScale \in Nat /\ Apart = W - (start + CostScale * F)
      BY <1>4, <1>5, StartInt DEF Apart
<1> HIDE DEF start, W, F
<1>8. CostScale * F \in Int
      BY <1>6, <1>7 DEF F
<1>   QED BY <1>6, <1>7, <1>8 DEF W

LEMMA MovementsFinite ==
    ASSUME Typed
    PROVE  IsFiniteSet(Movements) /\ Cardinality(Movements) \in Nat
PROOF
<1>1. IsFiniteSet(posted) /\ IsFiniteSet(Branches) /\ IsFiniteSet(Products)
      BY FiniteData, FiniteBranches, RowTypes, Kinds
<1> DEFINE P == posted \X (Branches \X Products)
           f == [m \in Movements |-> <<m[1], <<m[2], m[3]>>>>]
<1>2. IsFiniteSet(P)
      BY <1>1, FS_Product
<1>3. f \in Injection(Movements, P)
  <2>1. \A m \in Movements : /\ m[1] \in posted /\ m[2] \in Branches /\ m[3] \in Products
                             /\ m = <<m[1], m[2], m[3]>>
        BY DEF Movements
  <2>2. f \in [Movements -> P]
        BY <2>1
  <2>3. ASSUME NEW m \in Movements, NEW n \in Movements, f[m] = f[n] PROVE m = n
        BY <2>1, <2>3
  <2>   QED BY <2>2, <2>3 DEF Injection, IsInjective
<1> HIDE DEF P, f
<1>4. IsFiniteSet(Movements)
      BY <1>2, <1>3, FS_Injection
<1>   QED BY <1>4, FS_CardinalityType

\* A commit adds as many movements as it moves products.
LEMMA MovementsGrow ==
    ASSUME Typed, StockIsMovements, OneBranch',
           NEW t, NEW o, NEW s, Wrote(t, o, s), Req[o].kind # "edit"
    PROVE  /\ Cardinality(MovedBy(o, s)) \in Nat
           /\ Cardinality(Movements') = Cardinality(Movements) + Cardinality(MovedBy(o, s))
PROOF
<1> DEFINE here == Req[o].branch
           R == MovedBy(o, s)
           N == {<<o, here, p>> : p \in R}
           f == [p \in R |-> <<o, here, p>>]
<1>1. /\ TypeOK /\ o \in Ops /\ s \in SeenOf(o) /\ o \in ClientOps
      /\ here \in Branches /\ Lines(o) \subseteq Products
      BY GoodsAssumption DEF Wrote, Typed, ClientOps, OfKind, Uploads
<1>2. /\ posted \subseteq Ops /\ o \notin posted /\ posted' = posted \cup {o}
      /\ \A x \in posted : moves'[x] = moves[x]
      /\ \A b \in Branches, p \in Products :
            moves'[o][b][p] = IF p \in Lines(o) THEN Delta(o, s, b, p) ELSE 0
  <2>1. posted' = posted \cup ({o} \cap ClientOps) /\ o \notin posted
        BY <1>1, WritesJournal
  <2>   QED BY <1>1, <2>1, WritesStock, RowTypes, Kinds
<1>3. R \subseteq Lines(o) /\ IsFiniteSet(R)
      BY <1>1, FiniteData DEF MovedBy
<1>4. f \in Bijection(R, N)
  <2>1. f \in Injection(R, N)
        BY DEF Injection, IsInjective
  <2>2. f \in Surjection(R, N)
        BY DEF Surjection
  <2>   QED BY <2>1, <2>2 DEF Bijection
<1>5. IsFiniteSet(N) /\ Cardinality(N) = Cardinality(R) /\ Cardinality(R) \in Nat
  <2>1. ExistsBijection(R, N)
        BY <1>4 DEF ExistsBijection
  <2> HIDE DEF R, N
  <2>   QED BY <1>3, <2>1, FS_Bijection, FS_CardinalityType
<1>6. Movements' = Movements \cup N
  <2>1. ASSUME NEW p \in Products, NEW b \in Branches
        PROVE  moves'[o][b][p] # 0 <=> b = here /\ p \in R
        BY <1>1, <1>2, HereOnly DEF MovedBy
  <2>2. ASSUME NEW x \in posted, NEW b \in Branches, NEW p \in Products
        PROVE  <<x, b, p>> \in Movements' <=> <<x, b, p>> \in Movements
        BY <1>2, <2>2 DEF Movements
  <2>3. ASSUME NEW m \in Movements' PROVE m \in Movements \cup N
    <3>1. PICK x \in posted', b \in Branches, p \in Products :
              m = <<x, b, p>> /\ moves'[x][b][p] # 0
          BY <2>3 DEF Movements
    <3>2. CASE x = o
          BY <2>1, <3>1, <3>2
    <3>3. CASE x # o
          BY <1>2, <2>2, <2>3, <3>1, <3>3
    <3>   QED BY <3>2, <3>3
  <2>4. ASSUME NEW m \in Movements PROVE m \in Movements'
    <3>1. PICK x \in posted, b \in Branches, p \in Products : m = <<x, b, p>>
          BY <2>4 DEF Movements
    <3>   QED BY <2>2, <2>4, <3>1
  <2>5. ASSUME NEW p \in R PROVE <<o, here, p>> \in Movements'
        BY <1>1, <1>2, <1>3, <2>1, <2>5 DEF Movements
  <2>   QED BY <2>3, <2>4, <2>5
<1>7. Movements \cap N = {}
      BY <1>2 DEF Movements
<1> HIDE DEF N, R
<1>8. Cardinality(Movements \cup N) = Cardinality(Movements) + Cardinality(N)
  <2>1. IsFiniteSet(Movements) /\ Cardinality(Movements) \in Nat
        BY MovementsFinite
  <2>2. Cardinality(Movements \cup N)
            = Cardinality(Movements) + Cardinality(N) - Cardinality(Movements \cap N)
        BY <1>5, <2>1, FS_Union
  <2>3. Cardinality(Movements \cap N) = 0
        BY <1>7, FS_EmptySet
  <2>   QED BY <1>5, <2>1, <2>2, <2>3
<1>   QED BY <1>5, <1>6, <1>8 DEF R

\* A product that was held at two branches still was.
LEMMA OneBranchBefore ==
    ASSUME Typed, [Next]_vars, OneBranch'
    PROVE  OneBranch
PROOF
<1>1. ASSUME NEW p \in Products PROVE Cardinality(StockedAt(p)) <= 1
  <2> DEFINE S == StockedAt(p)
             T == StockedAt(p)'
  <2>1. S \subseteq T
    <3>1. CASE UNCHANGED books
          BY <3>1 DEF books, StockedAt
    <3>2. ASSUME NEW t \in Txns, NEW s, Wrote(t, OpOf[t], s) PROVE S \subseteq T
      <4>1. /\ TypeOK /\ OpOf[t] \notin posted /\ posted \subseteq Ops
            BY <3>2, RowTypes, Kinds DEF Wrote, Typed
      <4>2. posted \subseteq posted' /\ \A x \in posted : moves'[x] = moves[x]
            BY <3>2, <4>1, WritesStock, WritesJournal
      <4>   QED BY <4>2 DEF StockedAt
    <3>   QED BY <3>1, <3>2, Steps
  <2>2. T \in SUBSET Branches
        BY DEF StockedAt
  <2>3. Cardinality(T) <= 1
        BY DEF OneBranch
  <2> HIDE DEF S, T
  <2>4. IsFiniteSet(T) /\ IsFiniteSet(S) /\ Cardinality(S) <= Cardinality(T)
        BY <2>1, <2>2, FiniteBranches, FS_Subset
  <2>5. Cardinality(S) \in Nat /\ Cardinality(T) \in Nat
        BY <2>4, FS_CardinalityType
  <2>6. Cardinality(S) <= 1
        BY <2>3, <2>4, <2>5
  <2>   QED BY <2>6 DEF S
<1>   QED BY <1>1 DEF OneBranch

LEMMA StepTracked ==
    ASSUME Typed, StockIsMovements, SeenInv, CardsInv, AnswersInv, Opening \subseteq posted,
           NEW k \in Nat, StockUpTo(k)', TrackedWithin(k), [Next]_vars
    PROVE  TrackedWithin(k)'
PROOF
<1> SUFFICES ASSUME OneBranch', NoEdit'
    PROVE  /\ 2 * Apart' <= (CostScale + k) * Cardinality(Movements')
           /\ -(2 * Apart') <= (CostScale + k) * Cardinality(Movements')
    BY DEF TrackedWithin
<1>1. OneBranch /\ NoEdit
      BY OneBranchBefore, StepAnswers
<1> DEFINE w == CostScale + k
           m == Cardinality(Movements)
<1>2. 2 * Apart <= w * m /\ -(2 * Apart) <= w * m
      BY <1>1 DEF TrackedWithin
<1>3. CASE UNCHANGED books
  <2>1. Apart' = Apart /\ Movements' = Movements
        BY <1>3 DEF books, Apart, Valuation, GL, Movements
  <2>   QED BY <1>2, <2>1
<1>4. ASSUME NEW t \in Txns, NEW s, Wrote(t, OpOf[t], s)
      PROVE  /\ 2 * Apart' <= w * Cardinality(Movements')
             /\ -(2 * Apart') <= w * Cardinality(Movements')
  <2>1. PICK o \in Ops : o = OpOf[t]
        BY GoodsAssumption
  <2>2. Wrote(t, o, s) /\ Req[o].kind # "edit"
        BY <1>4, <2>1 DEF Wrote, NoEdit
  <2> DEFINE e == [p \in Products |-> Drift(o, s, p)]
             f == [p \in Products |-> 2 * e[p]]
             R == MovedBy(o, s)
             n == Cardinality(R)
             E == SumFunction(e)
  <2>3. Apart \in Int /\ Apart' = Apart + E
        BY <2>2, ValuationMoves
  <2>4. n \in Nat /\ Cardinality(Movements') = m + n /\ m \in Nat
        BY <2>2, MovementsGrow, MovementsFinite
  <2>5. w \in Nat
        BY StartInt
  <2>6. \A p \in Products : /\ e[p] \in Int /\ 2 * e[p] <= w /\ -(2 * e[p]) <= w
                            /\ p \notin R => e[p] = 0
        BY <2>2, OneProduct
  <2>7. IsFiniteSet(Products) /\ R \in SUBSET Products
        BY <2>1, FiniteData, GoodsAssumption DEF MovedBy
  <2>8. /\ DOMAIN f = Products /\ DOMAIN e = Products
        /\ \A p \in Products : f[p] = 2 * e[p]
        OBVIOUS
  <2> HIDE DEF e, f, R, w, m
  <2>9. \A p \in Products : f[p] \in Int /\ f[p] <= w /\ -f[p] <= w
        BY <2>6, <2>8
  <2>10. \A p \in Products \ R : f[p] = 0
        BY <2>6, <2>8
  <2>11. SumFunction(f) = 2 * E /\ E \in Int
        BY <2>6, <2>7, <2>8, SumAllTimes, SumAllInt
  <2>12. SumFunction(f) <= w * n /\ -SumFunction(f) <= w * n
        BY <2>5, <2>7, <2>8, <2>9, <2>10, SumAllWithin
  <2> HIDE DEF E, n
  <2>13. w * (m + n) = w * m + w * n /\ w * m \in Int /\ w * n \in Int
        BY <2>4, <2>5
  <2>   QED BY <1>2, <2>3, <2>4, <2>11, <2>12, <2>13
<1>   QED BY <1>3, <1>4, Steps

TrackedInv(k) == CardsInv /\ AnswersInv /\ Opening \subseteq posted /\ TrackedWithin(k)

LEMMA InitTracked ==
    ASSUME Init, NEW k \in Nat
    PROVE  TrackedInv(k)
PROOF
<1>1. CardsInv /\ AnswersInv /\ Opening \subseteq posted
      BY DEF Init, RequestsInit, CardsInv, AnswersInv
<1>2. Movements = {} /\ Cardinality(Movements) = 0
  <2>1. posted \subseteq Ops /\ moves = [o \in Ops |-> NoMoves]
        BY InitTypes, RowTypes, Kinds DEF Init
  <2>2. Movements = {}
        BY <2>1 DEF Movements, NoMoves
  <2>   QED BY <2>2, FS_EmptySet
<1>3. Apart = 0
  <2> DEFINE f == [x \in (Ops \ Opening) \cap posted |-> journal[x]["Inventory"]]
             start == Valuation(StockAtStart, CardAtStart)
  <2>1. DOMAIN f = {}
        BY DEF Init
  <2>2. GL("Inventory", Ops \ Opening) = SumFunction(f)
        BY DEF GL
  <2> HIDE DEF f
  <2>3. SumFunction(f) = 0
    <3>1. IsFiniteSet(DOMAIN f) /\ \A x \in DOMAIN f : f[x] = 0
          BY <2>1, FS_EmptySet
    <3>   QED BY <3>1, SumAllZero
  <2>4. Valuation(onHand, card) = start
        BY DEF Init
  <2>5. start \in Int /\ CostScale \in Nat
        BY StartInt
  <2>6. Apart = start - (start + CostScale * 0)
        BY <2>2, <2>3, <2>4 DEF Apart
  <2> HIDE DEF start
  <2>   QED BY <2>5, <2>6
<1>4. (CostScale + k) * 0 = 0
      BY StartInt
<1>   QED BY <1>1, <1>2, <1>3, <1>4 DEF TrackedInv, TrackedWithin

LEMMA StepTrackedInv ==
    ASSUME GoodsInv, NEW k \in Nat, TrackedInv(k), StockUpTo(k)', [Next]_vars
    PROVE  TrackedInv(k)'
PROOF
<1>1. /\ Typed /\ HeldInv /\ SeenInv /\ StockIsMovements
      /\ CardsInv /\ AnswersInv /\ Opening \subseteq posted /\ TrackedWithin(k)
      BY DEF GoodsInv, TrackedInv
<1>2. CardsInv' /\ AnswersInv'
      BY <1>1, StepCards, StepAnswers
<1>3. TrackedWithin(k)'
      BY <1>1, StepTracked
<1>4. Opening \subseteq posted'
  <2>1. CASE UNCHANGED books
        BY <1>1, <2>1 DEF books
  <2>2. ASSUME NEW t \in Txns, NEW s, Wrote(t, OpOf[t], s) PROVE Opening \subseteq posted'
        BY <1>1, <2>2 DEF Wrote, Write
  <2>   QED BY <1>1, <2>1, <2>2, Steps
<1>   QED BY <1>2, <1>3, <1>4 DEF TrackedInv

\* While no branch ever holds more than k of a product, the value of the stock at its
\* average cost and account 1200 stay within (CostScale + k) / 2 units of cost per
\* movement of each other: half a cent for what is posted (purchasing.py:266 and its
\* like round every line) and half a unit of cost for each item held, which is what
\* rounding the average can lose (purchasing.py:287-295).
THEOREM ValuationWithin ==
    ASSUME NEW CONSTANT k \in Nat
    PROVE  Spec /\ []StockUpTo(k) => []TrackedWithin(k)
PROOF
<1>1. Init => TrackedInv(k)
      BY InitTracked
<1>2. GoodsInv /\ TrackedInv(k) /\ StockUpTo(k)' /\ [Next]_vars => TrackedInv(k)'
      BY StepTrackedInv
<1>3. TrackedInv(k) => TrackedWithin(k)
      BY DEF TrackedInv
<1>   QED BY <1>1, <1>2, <1>3, GoodsInvHolds, PTL DEF Spec

\* So account 1200 stays within a cent per movement of the stock valued at its average
\* cost (purchasing.py:287-295), while each product is only held at one branch, nobody
\* edits a cost and no branch holds more of a product than there are units of cost in
\* a cent.
THEOREM ValuationStaysTracked == Spec /\ []StockUpTo(CostScale) => []ValuationTracked
PROOF
<1>1. CostScale \in Nat
      BY StartInt
<1>2. GoodsInv /\ TrackedInv(CostScale) => ValuationTracked
  <2> SUFFICES ASSUME GoodsInv, TrackedInv(CostScale), OneBranch, NoEdit
      PROVE  /\ Apart <= CostScale * Cardinality(Movements)
             /\ -Apart <= CostScale * Cardinality(Movements)
      BY DEF ValuationTracked, OneBranch, NoEdit, Apart
  <2> DEFINE n == Cardinality(Movements)
             a == Apart
  <2>1. 2 * a <= (CostScale + CostScale) * n /\ -(2 * a) <= (CostScale + CostScale) * n
        BY DEF TrackedInv, TrackedWithin
  <2>2. n \in Nat /\ Typed
        BY MovementsFinite DEF GoodsInv
  <2>3. a \in Int
        BY <2>2, ApartInt
  <2> HIDE DEF n, a
  <2>4. (CostScale + CostScale) * n = 2 * (CostScale * n) /\ CostScale * n \in Int
        BY <1>1, <2>2
  <2>5. a <= CostScale * n /\ -a <= CostScale * n
        BY <2>1, <2>3, <2>4
  <2>   QED BY <2>5 DEF n, a
<1>3. Init => TrackedInv(CostScale)
      BY <1>1, InitTracked
<1>4. GoodsInv /\ TrackedInv(CostScale) /\ StockUpTo(CostScale)' /\ [Next]_vars
          => TrackedInv(CostScale)'
      BY <1>1, StepTrackedInv
<1>   QED BY <1>2, <1>3, <1>4, GoodsInvHolds, PTL DEF Spec
===============================================================================
