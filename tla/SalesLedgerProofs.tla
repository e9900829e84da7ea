--------------------------- MODULE SalesLedgerProofs ---------------------------
(***************************************************************************)
(* The ledger of SalesLedger, for any number of requests, branches,        *)
(* customers and products and any prices: what sales, payments and returns *)
(* write leaves stock, balances, journals and returned quantities in step. *)
(***************************************************************************)
EXTENDS SalesLedger, RequestsProofs

-----------------------------------------------------------------------------
(* What is asked for, and money                                             *)

LEMMA Kinds ==
    /\ \A o \in SaleOps : /\ o \in Ops /\ Req[o] \in SaleRequest
                          /\ o \notin PaymentOps /\ o \notin ReturnOps
    /\ \A o \in PaymentOps : o \in Ops /\ Req[o] \in PaymentRequest /\ o \notin ReturnOps
    /\ \A o \in ReturnOps : o \in Ops /\ Req[o] \in ReturnRequest
    /\ \A o \in Ops : o \in SaleOps \/ o \in PaymentOps \/ o \in ReturnOps
PROOF
<1>1. \A o \in Ops : Req[o] \in SaleRequest \/ Req[o] \in PaymentRequest \/ Req[o] \in ReturnRequest
      BY LedgerAssumption
<1>2. /\ \A r \in SaleRequest : r.kind \in {"sale", "service"}
      /\ \A r \in PaymentRequest : r.kind = "payment"
      /\ \A r \in ReturnRequest : r.kind = "return"
      BY DEF SaleRequest, PaymentRequest, ReturnRequest
<1>   QED BY <1>1, <1>2 DEF SaleOps, ServiceOps, PaymentOps, ReturnOps

LEMMA RequestParts ==
    /\ \A o \in SaleOps : /\ Req[o].branch \in Branches /\ Req[o].paid \in Nat
                          /\ Req[o].customer \in Customers \cup {NoCustomer}
                          /\ Items(o) \in [Products -> Nat]
                          /\ Req[o].lines \in Seq(Products)
    /\ \A o \in PaymentOps : /\ Req[o].branch \in Branches /\ Req[o].customer \in Customers
                             /\ Req[o].amount \in Nat /\ Req[o].amount > 0
                             /\ Req[o].allocations \in Seq(SaleOps \X (Nat \ {0}))
    /\ \A o \in ReturnOps : /\ Req[o].branch \in Branches /\ Req[o].sale \in SaleOps
                            /\ Items(o) \in [Products -> Nat]
                            /\ Wanted(o) \in [Products -> Nat]
PROOF
<1>1. \A o \in SaleOps : /\ Req[o].branch \in Branches /\ Req[o].paid \in Nat
                         /\ Req[o].customer \in Customers \cup {NoCustomer}
                         /\ Req[o].items \in [Products -> Nat]
                         /\ Req[o].lines \in Seq(Products)
      BY Kinds DEF SaleRequest
<1>2. \A o \in PaymentOps : /\ Req[o].branch \in Branches /\ Req[o].customer \in Customers
                            /\ Req[o].amount \in Nat /\ Req[o].amount > 0
                            /\ Req[o].allocations \in Seq(SaleOps \X (Nat \ {0}))
      BY Kinds DEF PaymentRequest
<1>3. \A o \in ReturnOps : /\ Req[o].branch \in Branches /\ Req[o].sale \in SaleOps
                           /\ Req[o].items \in [Products -> Nat]
      BY Kinds DEF ReturnRequest
<1>   QED BY <1>1, <1>2, <1>3 DEF Items, Wanted

LEMMA FiniteParts ==
    /\ IsFiniteSet(Products) /\ IsFiniteSet(SaleOps)
    /\ IsFiniteSet(PaymentOps) /\ IsFiniteSet(ReturnOps)
    /\ \A S : S \subseteq Ops => IsFiniteSet(S)
    /\ \A S : S \subseteq Products => IsFiniteSet(S)
PROOF
<1>1. IsFiniteSet(Products)
  <2>1. /\ DOMAIN ProductOrder = 1..Len(ProductOrder) /\ Len(ProductOrder) \in Nat
        /\ ProductOrder \in [DOMAIN ProductOrder -> Products]
        BY LedgerAssumption
  <2>2. IsFiniteSet(DOMAIN ProductOrder)
    <3>1. 1 \in Int /\ Len(ProductOrder) \in Int
          BY <2>1
    <3>2. IsFiniteSet(1..Len(ProductOrder))
          BY <3>1, FS_Interval
    <3>   QED BY <2>1, <3>2
  <2>3. ProductOrder \in Surjection(DOMAIN ProductOrder, Products)
        BY <2>1 DEF Surjection, Products
  <2>   QED BY <2>2, <2>3, FS_Surjection
<1>2. \A S : S \subseteq Ops => IsFiniteSet(S)
      BY LedgerAssumption, FS_Subset
<1>3. SaleOps \subseteq Ops /\ PaymentOps \subseteq Ops /\ ReturnOps \subseteq Ops
      BY DEF SaleOps, ServiceOps, PaymentOps, ReturnOps
<1>   QED BY <1>1, <1>2, <1>3, FS_Subset

LEMMA HalfUpNat ==
    \A n \in Nat, d \in Nat \ {0} : HalfUp(n, d) \in Nat /\ HalfUp(0, d) = 0
PROOF
<1> SUFFICES ASSUME NEW n \in Nat, NEW d \in Nat \ {0}
             PROVE  HalfUp(n, d) \in Nat /\ HalfUp(0, d) = 0
      OBVIOUS
<1> DEFINE a == 2 * n + d
           b == 2 * d
<1>1. a \in Nat /\ b \in Nat \ {0}
      OBVIOUS
<1>2. a \div b \in Nat
  <2> HIDE DEF a, b
  <2> QED BY <1>1
<1>3. d \div b = 0
      OBVIOUS
<1>   QED BY <1>2, <1>3 DEF HalfUp

LEMMA LineTotalNat ==
    \A rate \in Nat, qty \in Nat : LineTotal(rate, qty) \in Nat /\ LineTotal(rate, 0) = 0
PROOF
<1>1. Scale \in Nat \ {0}
      BY LedgerAssumption
<1>2. \A rate \in Nat, qty \in Nat : rate * qty \in Nat /\ rate * 0 = 0
      OBVIOUS
<1>   QED BY <1>1, <1>2, HalfUpNat DEF LineTotal

LEMMA MoneyValues ==
    /\ \A o \in SaleOps : Total[o] \in Nat
    /\ \A o \in SaleOps, S \in SUBSET Products : CostIn(o, S) \in Nat
PROOF
<1>1. /\ Price \in [Products -> Nat] /\ Cost \in [Products -> Nat]
      /\ \A o \in SaleOps : Items(o) \in [Products -> Nat]
      BY LedgerAssumption, RequestParts
<1>2. ASSUME NEW o \in SaleOps PROVE Total[o] \in Nat
  <2>1. \A p \in Products : LineTotal(Price[p], Items(o)[p]) \in Nat
        BY <1>1, LineTotalNat
  <2>   QED BY <2>1, FiniteParts, SumAllNat DEF Total
<1>3. ASSUME NEW o \in SaleOps, NEW S \in SUBSET Products PROVE CostIn(o, S) \in Nat
  <2>1. \A p \in S : LineTotal(Cost[p], Items(o)[p]) \in Nat
        BY <1>1, LineTotalNat
  <2>   QED BY <2>1, FiniteParts, SumAllNat DEF CostIn
<1>   QED BY <1>2, <1>3

-----------------------------------------------------------------------------
(* The rows                                                                 *)

\* what TypeOK says of the rows
RowsOK ==
    /\ sale \in [SaleOps -> SaleRow \cup {NoRow}]
    /\ payment \in [PaymentOps -> PaymentRow \cup {NoRow}]
    /\ return \in [ReturnOps -> ReturnRow \cup {NoRow}]
    /\ onHand \in [Branches -> [Products -> Nat]]
    /\ journal \in [Ops -> [Accounts -> Int]]

LEMMA RowValues ==
    ASSUME RowsOK
    PROVE  /\ \A s \in SaleOps : /\ Balance(s) \in Nat
                                 /\ Exists(sale[s]) => sale[s] \in SaleRow
           /\ \A o \in PaymentOps, s \in SaleOps : Settled(o, s) \in Nat
           /\ \A r \in ReturnOps : /\ ReducedBy(r) \in Nat
                                   /\ \A p \in Products : /\ Given(r, p, "qty") \in Nat
                                                          /\ Given(r, p, "amount") \in Nat
                                                          /\ Given(r, p, "cost") \in Nat
PROOF
<1>1. \A s \in SaleOps : Exists(sale[s]) => sale[s] \in SaleRow
      BY DEF RowsOK, Exists
<1>2. \A s \in SaleOps : Balance(s) \in Nat
      BY <1>1 DEF Balance, SaleRow
<1>3. \A o \in PaymentOps, s \in SaleOps : Settled(o, s) \in Nat
  <2>1. \A o \in PaymentOps : Exists(payment[o]) => payment[o] \in PaymentRow
        BY DEF RowsOK, Exists
  <2>   QED BY <2>1 DEF Settled, PaymentRow
<1>4. \A r \in ReturnOps : Exists(return[r]) => return[r] \in ReturnRow
      BY DEF RowsOK, Exists
<1>5. \A r \in ReturnOps : ReducedBy(r) \in Nat
      BY <1>4 DEF ReducedBy, ReturnRow
<1>6. \A r \in ReturnOps, p \in Products :
          Exists(return[r]) => return[r].lines[p] \in ReturnLineRow
      BY <1>4 DEF ReturnRow
<1>7. \A r \in ReturnOps, p \in Products :
          Given(r, p, "qty") \in Nat /\ Given(r, p, "amount") \in Nat /\ Given(r, p, "cost") \in Nat
  <2>1. \A l \in ReturnLineRow : l["qty"] \in Nat /\ l["amount"] \in Nat /\ l["cost"] \in Nat
        BY DEF ReturnLineRow
  <2>   QED BY <1>6, <2>1 DEF Given
<1>   QED BY <1>1, <1>2, <1>3, <1>5, <1>7

LEMMA PartsFinite ==
    /\ \A c : IsFiniteSet(SalesTo(c)) /\ SalesTo(c) \subseteq SaleOps
    /\ \A b : IsFiniteSet(SalesAt(b)) /\ SalesAt(b) \subseteq SaleOps
    /\ \A s : IsFiniteSet(ReturnsOf(s)) /\ ReturnsOf(s) \subseteq ReturnOps
PROOF BY FiniteParts, FS_Subset DEF SalesTo, SalesAt, ReturnsOf

LEMMA SumValues ==
    ASSUME RowsOK
    PROVE  /\ \A c : Owed(c) \in Nat
           /\ \A o \in PaymentOps : Allocated(o) \in Nat
           /\ \A s : \A p \in Products : /\ Prior(s, p, "qty") \in Nat
                                          /\ Prior(s, p, "amount") \in Nat
                                          /\ Prior(s, p, "cost") \in Nat
PROOF
<1>1. ASSUME NEW c PROVE Owed(c) \in Nat
      BY PartsFinite, RowValues, SumAllNat DEF Owed
<1>2. ASSUME NEW o \in PaymentOps PROVE Allocated(o) \in Nat
      BY FiniteParts, RowValues, SumAllNat DEF Allocated
<1>3. ASSUME NEW s, NEW p \in Products, NEW field \in {"qty", "amount", "cost"}
      PROVE  Prior(s, p, field) \in Nat
  <2>1. \A r \in ReturnsOf(s) : Given(r, p, field) \in Nat
        BY <1>3, PartsFinite, RowValues
  <2>   QED BY <2>1, PartsFinite, SumAllNat DEF Prior
<1>   QED BY <1>1, <1>2, <1>3

-----------------------------------------------------------------------------
(* What a request knows when it writes                                      *)

\* It holds every row of its order.
LEMMA HoldsAll ==
    ASSUME QueueTypeOK, NEW t \in Txns, AtInsert(t),
           NEW i \in DOMAIN LockOrder(OpOf[t]), LockOrder(OpOf[t])[i] \notin NotOf(OpOf[t])
    PROVE  Holds(t, LockOrder(OpOf[t])[i])
PROOF
<1>1. Asked(t, LockOrder(OpOf[t])[i]) /\ ~Blocked(t)
      BY DEF AtInsert, ToLock, Running, At
<1>   QED BY <1>1, NotBlockedHolds

LEMMA SaleReady ==
    ASSUME QueueTypeOK, RowsOK, NEW t \in Txns, NEW o, o = OpOf[t], o \in SaleOps, Ready(t)
    PROVE  /\ ~Exists(sale[o])
           /\ Total[o] - Req[o].paid \in Nat
           /\ \A p \in Tracked : Items(o)[p] <= onHand[Req[o].branch][p]
           /\ card \in [Customers -> CustomerRow] /\ Req[o].customer # NoCustomer /\ Total[o] > Req[o].paid
                => Owed(Req[o].customer) + (Total[o] - Req[o].paid) <= card[Req[o].customer].limit
PROOF
<1> DEFINE n == Len(ProductOrder)
<1>1. AtInsert(t) /\ ~SaleRefused(t, o) /\ ~Exists(sale[o])
      BY Kinds DEF Ready, AtInsert, Refused, There, Row
<1>2. /\ n \in Nat /\ DOMAIN LockOrder(o) = 1..n + 1
      /\ \A i \in 1..n : LockOrder(o)[i] = Product(ProductOrder[i])
      /\ LockOrder(o)[n + 1] = Customer(Req[o].customer)
      BY Kinds, LedgerAssumption DEF LockOrder, SaleLocks
<1>3. NotOf(o) = {Customer(NoCustomer)} \cup {Product(p) : p \in Products \ Lines[o]}
      BY DEF NotOf
<1>4. ASSUME NEW p \in Lines[o] PROVE Holds(t, Product(p))
  <2>1. p \in Products
        BY <1>4 DEF Lines
  <2>2. PICK i \in 1..n : ProductOrder[i] = p
        BY <2>1, LedgerAssumption DEF Products
  <2>3. LockOrder(o)[i] = Product(p) /\ i \in DOMAIN LockOrder(o)
        BY <1>2, <2>2
  <2>4. Product(p) \notin NotOf(o)
        BY <1>3, <1>4 DEF Product, Customer
  <2>   QED BY <1>1, <2>3, <2>4, HoldsAll
<1>5. Req[o].customer # NoCustomer => Holds(t, Customer(Req[o].customer))
  <2>1. ASSUME Req[o].customer # NoCustomer PROVE Customer(Req[o].customer) \notin NotOf(o)
        BY <1>3, <2>1 DEF Product, Customer
  <2>2. n + 1 \in DOMAIN LockOrder(o)
        BY <1>2
  <2>   QED BY <1>1, <1>2, <2>1, <2>2, HoldsAll
<1>6. ~(Total[o] - Req[o].paid < 0)
      BY <1>1, <1>4 DEF SaleRefused
<1>7. Total[o] \in Nat /\ Req[o].paid \in Nat /\ Items(o) \in [Products -> Nat]
      BY MoneyValues, RequestParts
<1>8. ASSUME NEW p \in Tracked PROVE Items(o)[p] <= onHand[Req[o].branch][p]
  <2>1. p \in Products /\ onHand[Req[o].branch][p] \in Nat /\ Items(o)[p] \in Nat
        BY <1>7, LedgerAssumption, RequestParts DEF RowsOK
  <2>2. CASE p \in Lines[o]
        BY <1>1, <1>4, <2>1, <2>2 DEF SaleRefused
  <2>3. CASE p \notin Lines[o]
    <3>1. Items(o)[p] = 0
          BY <2>1, <2>3 DEF Lines
    <3>   QED BY <2>1, <3>1
  <2>   QED BY <2>2, <2>3
<1>9. ASSUME card \in [Customers -> CustomerRow], Req[o].customer # NoCustomer, Total[o] > Req[o].paid
      PROVE  Owed(Req[o].customer) + (Total[o] - Req[o].paid) <= card[Req[o].customer].limit
  <2>1. Req[o].customer \in Customers
        BY <1>9, RequestParts
  <2>2. Owed(Req[o].customer) \in Nat /\ card[Req[o].customer].limit \in Nat
        BY <1>9, <2>1, SumValues DEF CustomerRow
  <2>3. ~NoCredit(Req[o].customer, Total[o] - Req[o].paid)
        BY <1>1, <1>5, <1>9 DEF SaleRefused
  <2>   QED BY <1>7, <1>9, <2>2, <2>3 DEF NoCredit
<1>   QED BY <1>1, <1>6, <1>7, <1>8, <1>9

\* What a payment takes of a sale the sale owes, and only open sales of the customer
\* at the branch are paid.
LEMMA PaymentReady ==
    ASSUME QueueTypeOK, RowsOK, NEW t \in Txns, NEW o, o = OpOf[t], o \in PaymentOps, Ready(t)
    PROVE  /\ ~Exists(payment[o])
           /\ DOMAIN Allocation(o) = SaleOps
           /\ \A s \in SaleOps :
                 /\ Allocation(o)[s] \in Nat /\ Allocation(o)[s] <= Balance(s)
                 /\ Allocation(o)[s] # 0 => OpenSale(s, Req[o].branch, Req[o].customer)
PROOF
<1> DEFINE r == Req[o]
           open == {s \in SaleOps : OpenSale(s, r.branch, r.customer)}
           named(s) == {i \in DOMAIN r.allocations : r.allocations[i][1] = s}
           order == DueOrder(open)
           ahead(s) == {u \in open : \E i, j \in DOMAIN order : i < j /\ order[i] = u /\ order[j] = s}
           earlier(s) == SumFunction([u \in ahead(s) |-> Balance(u)])
           left(s) == IF earlier(s) > r.amount THEN 0 ELSE r.amount - earlier(s)
           taken(s) == IF r.allocations # <<>>
                       THEN IF named(s) = {} THEN 0 ELSE r.allocations[CHOOSE i \in named(s) : TRUE][2]
                       ELSE IF s \in open THEN Lesser(sale[s].balance, left(s)) ELSE 0
<1>1. AtInsert(t) /\ ~PaymentRefused(t, o) /\ ~Exists(payment[o])
      BY Kinds DEF Ready, AtInsert, Refused, There, Row
<1>2. r.amount \in Nat /\ r.allocations \in Seq(SaleOps \X (Nat \ {0}))
      BY RequestParts
<1>3. Allocation(o) = [s \in SaleOps |-> taken(s)]
      BY DEF Allocation
<1>4. \A s \in SaleOps : OpenSale(s, r.branch, r.customer) =>
          Balance(s) = sale[s].balance /\ sale[s].balance \in Nat
      BY RowValues DEF OpenSale, Balance, SaleRow
<1>5. ASSUME NEW s \in SaleOps
      PROVE  taken(s) \in Nat /\ taken(s) <= Balance(s)
                /\ (taken(s) # 0 => OpenSale(s, r.branch, r.customer))
  <2>1. CASE r.allocations # <<>> /\ named(s) = {}
        BY <2>1, RowValues
  <2>2. CASE r.allocations # <<>> /\ named(s) # {}
    <3> DEFINE i == CHOOSE i \in named(s) : TRUE
    <3>1. i \in named(s)
          BY <2>2
    <3> HIDE DEF i
    <3>2. /\ i \in DOMAIN r.allocations /\ r.allocations[i][1] = s
          /\ r.allocations[i][2] \in Nat
          BY <1>2, <3>1
    <3> DEFINE q == [j \in DOMAIN r.allocations |-> r.allocations[j][1]]
    <3>3. q # <<>>
          BY <1>2, <3>2
    <3>4. /\ LockOrder(o) = [j \in {0} \cup DOMAIN q |-> IF j = 0 THEN Customer(r.customer) ELSE Sale(q[j])]
          /\ NotOf(o) = {}
          BY <3>3, Kinds DEF LockOrder, PaymentLocks, NotOf
    <3>5. /\ i \in DOMAIN LockOrder(o) /\ LockOrder(o)[i] = Sale(s)
          /\ 0 \in DOMAIN LockOrder(o) /\ LockOrder(o)[0] = Customer(r.customer)
      <4>1. i # 0
            BY <1>2, <3>2
      <4>   QED BY <3>2, <3>4, <4>1
    <3>6. Holds(t, Sale(s)) /\ Holds(t, Customer(r.customer))
          BY <1>1, <3>4, <3>5, HoldsAll
    <3>7. OpenSale(s, r.branch, r.customer) /\ ~(r.allocations[i][2] > sale[s].balance)
          BY <1>1, <3>2, <3>6 DEF PaymentRefused
    <3>8. taken(s) = r.allocations[i][2]
          BY <2>2 DEF i
    <3> HIDE DEF taken
    <3>   QED BY <1>4, <3>2, <3>7, <3>8
  <2>3. CASE r.allocations = <<>> /\ s \in open
    <3> DEFINE S == ahead(s)
    <3>1. earlier(s) \in Nat
      <4>1. IsFiniteSet(S) /\ S \subseteq SaleOps
            BY FiniteParts, FS_Subset
      <4> HIDE DEF S
      <4>2. SumFunction([u \in S |-> Balance(u)]) \in Nat
            BY <4>1, RowValues, SumAllNat
      <4>   QED BY <4>2 DEF S
    <3> HIDE DEF earlier
    <3>2. left(s) \in Nat
          BY <1>2, <3>1
    <3> HIDE DEF left
    <3>3. taken(s) = Lesser(sale[s].balance, left(s)) /\ OpenSale(s, r.branch, r.customer)
          BY <2>3
    <3> HIDE DEF taken
    <3>   QED BY <1>4, <3>2, <3>3 DEF Lesser
  <2>4. CASE r.allocations = <<>> /\ s \notin open
    <3>1. taken(s) = 0
          BY <2>4
    <3> HIDE DEF taken
    <3>   QED BY <3>1, RowValues
  <2>   QED BY <2>1, <2>2, <2>3, <2>4
<1> HIDE DEF taken
<1>   QED BY <1>1, <1>3, <1>5

LEMMA ReturnReady ==
    ASSUME QueueTypeOK, RowsOK, NEW t \in Txns, NEW o, o = OpOf[t], o \in ReturnOps, Ready(t),
           NEW s, s = Req[o].sale
    PROVE  /\ ~Exists(return[o]) /\ Exists(sale[s]) /\ Req[s].branch = Req[o].branch
           /\ \A p \in Products : /\ Wanted(o)[p] <= Returnable(s, p)
                                  /\ Req[o].void => Prior(s, p, "qty") = 0
                                  /\ ReturnLine(o, p) \in ReturnLineRow
           /\ ReturnTotal(o) \in Nat /\ ReturnTotal(o) > 0 /\ ReturnCost(o) \in Nat
           /\ Reduction(o) \in Nat /\ Reduction(o) <= Balance(s) /\ Refund(o) \in Nat
PROOF
<1>1. AtInsert(t) /\ ~ReturnRefused(t, o) /\ ~Exists(return[o]) /\ ~Unstorable(o)
      BY Kinds DEF Ready, AtInsert, Refused, There, Row
<1>2. /\ Exists(sale[s]) /\ Req[s].branch = Req[o].branch
      /\ \A p \in Products : ~(Wanted(o)[p] > Returnable(s, p))
      /\ \A p \in Products : Req[o].void => ~(Prior(s, p, "qty") > 0)
      /\ ~(ReturnTotal(o) <= 0)
      BY <1>1 DEF ReturnRefused, AtInsert
<1>3. /\ s \in SaleOps /\ Items(s) \in [Products -> Nat] /\ Wanted(o) \in [Products -> Nat]
      /\ Price \in [Products -> Nat] /\ Cost \in [Products -> Nat]
      BY RequestParts, LedgerAssumption
<1>4. \A p \in Products : /\ Prior(s, p, "qty") \in Nat /\ Prior(s, p, "amount") \in Nat
                          /\ Prior(s, p, "cost") \in Nat
      BY SumValues
<1>5. ASSUME NEW p \in Products PROVE ReturnLine(o, p) \in ReturnLineRow
  <2> DEFINE q == Wanted(o)[p]
             n == Items(s)[p]
             whole == LineTotal(Price[p], n)
  <2>1. q \in Nat /\ n \in Nat /\ q <= n - Prior(s, p, "qty") /\ whole \in Nat
        BY <1>2, <1>3, <1>4, LineTotalNat DEF Returnable
  <2>2. ReturnLine(o, p).amount \in Int /\ ReturnLine(o, p).cost \in Int
    <3>1. CASE q = 0
          BY <3>1 DEF ReturnLine
    <3>2. CASE q # 0
      <4>1. n \in Nat \ {0} /\ whole * q \in Nat
            BY <1>4, <2>1, <3>2
      <4>2. HalfUp(whole * q, n) \in Nat
            BY <4>1, HalfUpNat
      <4>3. LineAmount(o, p, Price[p], Prior(s, p, "amount")) \in Int
            BY <1>4, <2>1, <4>2 DEF LineAmount
      <4>4. LineTotal(Cost[p], n) \in Nat /\ LineTotal(Cost[p], q) \in Nat
            BY <1>3, <2>1, LineTotalNat
      <4>5. ReturnLine(o, p).amount = LineAmount(o, p, Price[p], Prior(s, p, "amount"))
            BY <3>2 DEF ReturnLine
      <4>6. ReturnLine(o, p).cost \in {LineTotal(Cost[p], n) - Prior(s, p, "cost"), LineTotal(Cost[p], q)}
            BY <3>2 DEF ReturnLine
      <4>   QED BY <1>4, <4>3, <4>4, <4>5, <4>6
    <3>   QED BY <3>1, <3>2
  <2>3. ~(ReturnLine(o, p).amount < 0) /\ ~(ReturnLine(o, p).cost < 0)
        BY <1>1 DEF Unstorable
  <2>4. /\ ReturnLine(o, p) = [qty |-> q, amount |-> ReturnLine(o, p).amount, cost |-> ReturnLine(o, p).cost]
        BY DEF ReturnLine
  <2>   QED BY <2>1, <2>2, <2>3, <2>4 DEF ReturnLineRow
<1>6. \A p \in Products : ReturnLine(o, p).amount \in Nat /\ ReturnLine(o, p).cost \in Nat
      BY <1>5 DEF ReturnLineRow
<1>7. ReturnTotal(o) \in Nat /\ ReturnCost(o) \in Nat
      BY <1>6, FiniteParts, SumAllNat DEF ReturnTotal, ReturnCost
<1>8. Balance(s) = sale[s].balance /\ Balance(s) \in Nat
      BY <1>2, <1>3, RowValues DEF Balance
<1>9. Reduction(o) \in Nat /\ Reduction(o) <= Balance(s) /\ Reduction(o) <= ReturnTotal(o)
      BY <1>7, <1>8 DEF Reduction, Lesser
<1>10. \A p \in Products : /\ Wanted(o)[p] <= Returnable(s, p)
                           /\ Req[o].void => Prior(s, p, "qty") = 0
      BY <1>2, <1>3, <1>4 DEF Returnable
<1>   QED BY <1>1, <1>2, <1>5, <1>7, <1>9, <1>10 DEF Refund

-----------------------------------------------------------------------------
(* What a step does to the rows                                             *)

LEMMA Steps ==
    ASSUME [Next]_vars
    PROVE  \/ UNCHANGED ledger
           \/ \E t \in Txns : OpOf[t] \in SaleOps /\ Ready(t) /\ PutSale(OpOf[t])
           \/ \E t \in Txns : OpOf[t] \in PaymentOps /\ Ready(t) /\ PutPayment(OpOf[t])
           \/ \E t \in Txns : OpOf[t] \in ReturnOps /\ Ready(t) /\ PutReturn(OpOf[t])
PROOF
<1>1. CASE \E t \in Txns : Serve(t)
      BY <1>1 DEF Serve
<1>2. CASE \E t \in Txns : Lock(t) \/ Refuse(t)
      BY <1>2 DEF Lock, Refuse
<1>3. CASE \E t \in Txns : CompleteSale(t) \/ CompleteServiceCheckout(t)
      BY <1>3 DEF CompleteSale, CompleteServiceCheckout, SaleOps
<1>4. CASE \E t \in Txns : RecordCustomerPayment(t)
      BY <1>4 DEF RecordCustomerPayment
<1>5. CASE \E t \in Txns : ProcessSaleReturn(t)
      BY <1>5 DEF ProcessSaleReturn
<1>6. CASE \E c \in Customers : UpdateCustomer(c)
      BY <1>6 DEF UpdateCustomer
<1>7. CASE UNCHANGED vars
      BY <1>7 DEF vars
<1>   QED BY <1>1, <1>2, <1>3, <1>4, <1>5, <1>6, <1>7 DEF Next, Work

\* A row that is there is not the row that is not.
LEMMA RowsExist ==
    /\ \A r \in SaleRow : Exists(r)
    /\ \A r \in PaymentRow : Exists(r)
    /\ \A r \in ReturnRow : Exists(r)
    /\ ~Exists(NoRow)
PROOF
<1>1. DOMAIN NoRow = {"none"}
      BY DEF NoRow
<1>2. /\ \A r \in SaleRow : DOMAIN r = {"balance", "at", "due"}
      /\ \A r \in PaymentRow : DOMAIN r = {"allocated"}
      /\ \A r \in ReturnRow : DOMAIN r = {"lines", "reduction", "refunded"}
      BY DEF SaleRow, PaymentRow, ReturnRow
<1>   QED BY <1>1, <1>2 DEF Exists

\* the rows after the sale o, of which due is not paid
SaleWritten(o, due) ==
    /\ RowsOK' /\ UNCHANGED <<payment, return>>
    /\ ~Exists(sale[o]) /\ Exists(sale[o])' /\ due \in Nat /\ due = Total[o] - Req[o].paid
    /\ \A s \in SaleOps \ {o} : sale'[s] = sale[s]
    /\ sale'[o].balance = due
    /\ \A b \in Branches, p \in Products :
          onHand'[b][p] = onHand[b][p] - IF b = Req[o].branch /\ p \in Tracked THEN Items(o)[p] ELSE 0
    /\ journal'[o] = SalePosting(o, due) /\ \A x \in Ops \ {o} : journal'[x] = journal[x]
    /\ card \in [Customers -> CustomerRow] /\ Req[o].customer # NoCustomer /\ due > 0
           => Owed(Req[o].customer) + due <= card[Req[o].customer].limit

LEMMA TermsNat ==
    ASSUME card \in [Customers -> CustomerRow], NEW o \in SaleOps
    PROVE  Terms(o) \in Nat
PROOF
<1>1. Req[o].customer \in Customers \cup {NoCustomer}
      BY RequestParts
<1>   QED BY <1>1 DEF Terms, CustomerRow

LEMMA SaleWrites ==
    ASSUME RowsOK, card \in [Customers -> CustomerRow], NEW t \in Txns, NEW o, o = OpOf[t], o \in SaleOps, QueueTypeOK, Ready(t), PutSale(o),
           NEW due, due = Total[o] - Req[o].paid
    PROVE  SaleWritten(o, due)
PROOF
<1> DEFINE at == Cardinality({s \in SaleOps : Exists(sale[s])})
           b == Req[o].branch
           new == [p \in Products |-> onHand[b][p] - IF p \in Tracked THEN Items(o)[p] ELSE 0]
           row == [balance |-> due, at |-> at, due |-> at + Terms(o)]
<1>1. /\ sale' = [sale EXCEPT ![o] = row]
      /\ onHand' = [onHand EXCEPT ![b] = new]
      /\ journal' = [journal EXCEPT ![o] = SalePosting(o, due)]
      /\ UNCHANGED <<payment, return>>
      BY DEF PutSale
<1>2. /\ ~Exists(sale[o]) /\ due \in Nat
      /\ \A p \in Tracked : Items(o)[p] <= onHand[b][p]
      BY SaleReady
<1>3. at \in Nat
      BY FiniteParts, FS_Subset, FS_CardinalityType
<1> HIDE DEF at
<1>4. /\ b \in Branches /\ Items(o) \in [Products -> Nat] /\ Req[o].paid \in Nat /\ o \in Ops
      /\ Total[o] \in Nat /\ CostOf[o] \in Nat /\ Tracked \subseteq Products
      BY RequestParts, MoneyValues, Kinds, LedgerAssumption DEF CostOf
<1>5. SalePosting(o, due) \in [Accounts -> Int]
      BY <1>2, <1>4 DEF SalePosting, Posting
<1>6. new \in [Products -> Nat]
      BY <1>2, <1>4 DEF RowsOK
<1>7. row \in SaleRow
  <2>1. Terms(o) \in Nat
        BY TermsNat
  <2>2. at + Terms(o) \in Nat
        BY <1>3, <2>1
  <2>   QED BY <1>2, <1>3, <2>2 DEF SaleRow
<1>8. sale' \in [SaleOps -> SaleRow \cup {NoRow}]
      BY <1>1, <1>7 DEF RowsOK
<1>9. onHand' \in [Branches -> [Products -> Nat]]
      BY <1>1, <1>4, <1>6 DEF RowsOK
<1>10. journal' \in [Ops -> [Accounts -> Int]]
      BY <1>1, <1>5 DEF RowsOK
<1>11. RowsOK'
      BY <1>1, <1>8, <1>9, <1>10 DEF RowsOK
<1>12. /\ sale'[o] = row /\ sale'[o].balance = due /\ Exists(sale[o])'
       /\ \A s \in SaleOps \ {o} : sale'[s] = sale[s]
      BY <1>1, <1>7, RowsExist DEF RowsOK, Exists
<1>13. ASSUME NEW c \in Branches, NEW p \in Products
       PROVE  onHand'[c][p] = onHand[c][p] - IF c = b /\ p \in Tracked THEN Items(o)[p] ELSE 0
  <2>1. CASE c = b
        BY <1>1, <1>4, <2>1 DEF RowsOK
  <2>2. CASE c # b
    <3>1. onHand'[c] = onHand[c] /\ onHand[c][p] \in Nat
          BY <1>1, <2>2 DEF RowsOK
    <3>   QED BY <2>2, <3>1
  <2>   QED BY <2>1, <2>2
<1>14. journal'[o] = SalePosting(o, due) /\ \A x \in Ops \ {o} : journal'[x] = journal[x]
      BY <1>1, <1>4 DEF RowsOK
<1>15. /\ card \in [Customers -> CustomerRow] /\ Req[o].customer # NoCustomer /\ due > 0
             => Owed(Req[o].customer) + due <= card[Req[o].customer].limit
  <2>1. due > 0 => Total[o] > Req[o].paid
        BY <1>4
  <2>   QED BY <2>1, SaleReady
<1>   QED BY <1>1, <1>2, <1>11, <1>12, <1>13, <1>14, <1>15 DEF SaleWritten

\* the rows after the payment o, which takes taken[s] of the sale s
PaymentWritten(o, taken) ==
    /\ RowsOK' /\ UNCHANGED <<return, onHand>>
    /\ ~Exists(payment[o]) /\ Exists(payment[o])'
    /\ \A x \in PaymentOps \ {o} : payment'[x] = payment[x]
    /\ payment'[o].allocated = taken /\ taken \in [SaleOps -> Nat]
    /\ \A s \in SaleOps : /\ taken[s] <= Balance(s)
                          /\ taken[s] # 0 => OpenSale(s, Req[o].branch, Req[o].customer)
                          /\ Exists(sale[s]) <=> Exists(sale[s])'
                          /\ Balance(s)' = Balance(s) - taken[s]
    /\ SumFunction(taken) \in Nat
    /\ journal'[o] = Posting([Cash |-> Req[o].amount, Receivables |-> -SumFunction(taken),
                              Advances |-> SumFunction(taken) - Req[o].amount])
    /\ \A x \in Ops \ {o} : journal'[x] = journal[x]

LEMMA PaymentWrites ==
    ASSUME RowsOK, NEW t \in Txns, NEW o, o = OpOf[t], o \in PaymentOps, QueueTypeOK, Ready(t),
           PutPayment(o), NEW taken, taken = Allocation(o)
    PROVE  PaymentWritten(o, taken)
PROOF
<1> DEFINE entry == Posting([Cash |-> Req[o].amount, Receivables |-> -SumFunction(taken),
                             Advances |-> SumFunction(taken) - Req[o].amount])
<1>1. /\ payment' = [payment EXCEPT ![o] = [allocated |-> taken]]
      /\ sale' = [s \in SaleOps |-> IF taken[s] = 0 THEN sale[s]
                                    ELSE [sale[s] EXCEPT !.balance = @ - taken[s]]]
      /\ journal' = [journal EXCEPT ![o] = entry]
      /\ UNCHANGED <<return, onHand>>
      BY DEF PutPayment
<1>2. /\ ~Exists(payment[o])
      /\ \A s \in SaleOps : /\ taken[s] \in Nat /\ taken[s] <= Balance(s)
                            /\ taken[s] # 0 => OpenSale(s, Req[o].branch, Req[o].customer)
      BY PaymentReady
<1>3. taken \in [SaleOps -> Nat]
  <2>1. taken = [s \in SaleOps |-> taken[s]]
        BY DEF Allocation
  <2>   QED BY <1>2, <2>1
<1>4. SumFunction(taken) \in Nat
      BY <1>3, FiniteParts, SumAllNat
<1>5. o \in Ops /\ Req[o].amount \in Nat
      BY Kinds, RequestParts
<1>6. entry \in [Accounts -> Int]
      BY <1>4, <1>5 DEF Posting
<1> HIDE DEF entry
<1>7. [allocated |-> taken] \in PaymentRow
      BY <1>3 DEF PaymentRow
<1>8. ASSUME NEW s \in SaleOps
      PROVE  /\ sale'[s] \in SaleRow \cup {NoRow}
             /\ Exists(sale[s]) <=> Exists(sale[s])'
             /\ Balance(s)' = Balance(s) - taken[s]
  <2>1. CASE taken[s] = 0
    <3>1. sale'[s] = sale[s]
          BY <1>1, <2>1
    <3>   QED BY <2>1, <3>1, RowValues DEF RowsOK, Exists, Balance
  <2>2. CASE taken[s] # 0
    <3>1. Exists(sale[s]) /\ sale[s] \in SaleRow /\ Balance(s) = sale[s].balance
          BY <1>2, <2>2, RowValues DEF OpenSale, Balance
    <3>2. sale'[s] = [sale[s] EXCEPT !.balance = sale[s].balance - taken[s]]
          BY <1>1, <2>2
    <3>3. sale[s].balance - taken[s] \in Nat
          BY <1>2, <3>1 DEF SaleRow
    <3>4. sale'[s] \in SaleRow /\ sale'[s].balance = sale[s].balance - taken[s]
          BY <3>1, <3>2, <3>3 DEF SaleRow
    <3>5. Exists(sale[s])'
          BY <3>4, RowsExist DEF Exists
    <3>   QED BY <3>1, <3>4, <3>5 DEF Balance
  <2>   QED BY <2>1, <2>2
<1>9. sale' \in [SaleOps -> SaleRow \cup {NoRow}]
      BY <1>1, <1>8
<1>10. payment' \in [PaymentOps -> PaymentRow \cup {NoRow}]
      BY <1>1, <1>7 DEF RowsOK
<1>11. journal' \in [Ops -> [Accounts -> Int]]
      BY <1>1, <1>6 DEF RowsOK
<1>12. RowsOK'
      BY <1>1, <1>9, <1>10, <1>11 DEF RowsOK
<1>13. /\ payment'[o] = [allocated |-> taken] /\ payment'[o].allocated = taken
       /\ Exists(payment[o])'
       /\ \A x \in PaymentOps \ {o} : payment'[x] = payment[x]
      BY <1>1, <1>7, RowsExist DEF RowsOK, Exists
<1>14. journal'[o] = entry /\ \A x \in Ops \ {o} : journal'[x] = journal[x]
      BY <1>1, <1>5 DEF RowsOK
<1>   QED BY <1>1, <1>2, <1>3, <1>4, <1>8, <1>12, <1>13, <1>14 DEF entry, PaymentWritten

\* the rows after the return o of the sale s
ReturnWritten(o, s) ==
    /\ RowsOK' /\ UNCHANGED payment
    /\ ~Exists(return[o]) /\ Exists(return[o])'
    /\ \A x \in ReturnOps \ {o} : return'[x] = return[x]
    /\ return'[o].reduction = Reduction(o)
    /\ s \in SaleOps /\ s = Req[o].sale /\ Exists(sale[s]) /\ Req[s].branch = Req[o].branch
    /\ \A p \in Products : /\ return'[o].lines[p] = ReturnLine(o, p)
                           /\ ReturnLine(o, p) \in ReturnLineRow
                           /\ Wanted(o)[p] <= Returnable(s, p)
                           /\ Req[o].void => Prior(s, p, "qty") = 0
    /\ \A u \in SaleOps : /\ Exists(sale[u]) <=> Exists(sale[u])'
                          /\ Balance(u)' = Balance(u) - IF u = s THEN Reduction(o) ELSE 0
    /\ \A b \in Branches, p \in Products :
          onHand'[b][p] = onHand[b][p] + IF b = Req[o].branch /\ p \in Tracked THEN Wanted(o)[p] ELSE 0
    /\ Reduction(o) \in Nat /\ Reduction(o) <= Balance(s)
    /\ ReturnTotal(o) \in Nat /\ ReturnTotal(o) > 0 /\ ReturnCost(o) \in Nat
    /\ journal'[o] = Posting([Revenue |-> ReturnTotal(o), Inventory |-> ReturnCost(o),
                              COGS |-> -ReturnCost(o), Receivables |-> -Reduction(o),
                              Cash |-> -Refund(o)])
    /\ \A x \in Ops \ {o} : journal'[x] = journal[x]

LEMMA ReturnWrites ==
    ASSUME RowsOK, NEW t \in Txns, NEW o, o = OpOf[t], o \in ReturnOps, QueueTypeOK, Ready(t),
           PutReturn(o), NEW s, s = Req[o].sale
    PROVE  ReturnWritten(o, s)
PROOF
<1> DEFINE back == [p \in Products |-> ReturnLine(o, p)]
           row == [lines |-> back, reduction |-> Reduction(o), refunded |-> Refund(o)]
           b == Req[o].branch
           new == [p \in Products |-> onHand[b][p] + IF p \in Tracked THEN Wanted(o)[p] ELSE 0]
           entry == Posting([Revenue |-> ReturnTotal(o), Inventory |-> ReturnCost(o),
                             COGS |-> -ReturnCost(o), Receivables |-> -Reduction(o),
                             Cash |-> -Refund(o)])
<1>1. /\ return' = [return EXCEPT ![o] = row]
      /\ onHand' = [onHand EXCEPT ![b] = new]
      /\ sale' = [sale EXCEPT ![s].balance = sale[s].balance - Reduction(o)]
      /\ journal' = [journal EXCEPT ![o] = entry]
      /\ UNCHANGED payment
      BY DEF PutReturn, Restocked, Reduced
<1>2. /\ ~Exists(return[o]) /\ Exists(sale[s]) /\ Req[s].branch = Req[o].branch
      /\ \A p \in Products : /\ ReturnLine(o, p) \in ReturnLineRow
                             /\ Wanted(o)[p] <= Returnable(s, p)
                             /\ Req[o].void => Prior(s, p, "qty") = 0
      /\ ReturnTotal(o) \in Nat /\ ReturnTotal(o) > 0 /\ ReturnCost(o) \in Nat
      /\ Reduction(o) \in Nat /\ Reduction(o) <= Balance(s) /\ Refund(o) \in Nat
      BY ReturnReady
<1>3. /\ o \in Ops /\ s \in SaleOps /\ b \in Branches /\ Wanted(o) \in [Products -> Nat]
      /\ Tracked \subseteq Products
      BY Kinds, RequestParts, LedgerAssumption
<1>4. row \in ReturnRow /\ \A p \in Products : row.lines[p] = ReturnLine(o, p)
      BY <1>2 DEF ReturnRow
<1>5. entry \in [Accounts -> Int]
      BY <1>2 DEF Posting
<1>6. new \in [Products -> Nat]
      BY <1>3 DEF RowsOK
<1> HIDE DEF entry
<1>7. /\ sale[s] \in SaleRow /\ Balance(s) = sale[s].balance
      BY <1>2, <1>3, RowValues DEF Balance
<1>8. /\ sale'[s] = [sale[s] EXCEPT !.balance = sale[s].balance - Reduction(o)]
      /\ \A u \in SaleOps \ {s} : sale'[u] = sale[u]
      /\ sale' = [u \in SaleOps |-> sale'[u]]
      BY <1>1, <1>3 DEF RowsOK
<1>9. sale'[s] \in SaleRow /\ sale'[s].balance = Balance(s) - Reduction(o)
      BY <1>2, <1>7, <1>8 DEF SaleRow
<1>10. ASSUME NEW u \in SaleOps
       PROVE  /\ sale'[u] \in SaleRow \cup {NoRow}
              /\ Exists(sale[u]) <=> Exists(sale[u])'
              /\ Balance(u)' = Balance(u) - IF u = s THEN Reduction(o) ELSE 0
  <2>1. CASE u = s
        BY <1>2, <1>9, <2>1, RowsExist DEF Exists, Balance
  <2>2. CASE u # s
    <3>1. sale'[u] = sale[u]
          BY <1>8, <2>2
    <3>   QED BY <2>2, <3>1, RowValues DEF RowsOK, Exists, Balance
  <2>   QED BY <2>1, <2>2
<1>11. sale' \in [SaleOps -> SaleRow \cup {NoRow}]
      BY <1>8, <1>10
<1>12. return' \in [ReturnOps -> ReturnRow \cup {NoRow}]
      BY <1>1, <1>4 DEF RowsOK
<1>13. onHand' \in [Branches -> [Products -> Nat]]
      BY <1>1, <1>3, <1>6 DEF RowsOK
<1>14. journal' \in [Ops -> [Accounts -> Int]]
      BY <1>1, <1>5 DEF RowsOK
<1>15. RowsOK'
      BY <1>1, <1>11, <1>12, <1>13, <1>14 DEF RowsOK
<1>16. /\ return'[o] = row /\ row.reduction = Reduction(o) /\ Exists(return[o])'
       /\ \A x \in ReturnOps \ {o} : return'[x] = return[x]
      BY <1>1, <1>4, RowsExist DEF RowsOK, Exists
<1>17. ASSUME NEW c \in Branches, NEW p \in Products
       PROVE  onHand'[c][p] = onHand[c][p] + IF c = b /\ p \in Tracked THEN Wanted(o)[p] ELSE 0
  <2>1. CASE c = b
        BY <1>1, <1>3, <2>1 DEF RowsOK
  <2>2. CASE c # b
    <3>1. onHand'[c] = onHand[c] /\ onHand[c][p] \in Nat
          BY <1>1, <2>2 DEF RowsOK
    <3>   QED BY <2>2, <3>1
  <2>   QED BY <2>1, <2>2
<1>18. journal'[o] = entry /\ \A x \in Ops \ {o} : journal'[x] = journal[x]
      BY <1>1, <1>3 DEF RowsOK
<1>19. \A p \in Products : return'[o].lines[p] = ReturnLine(o, p)
      BY <1>4, <1>16
<1> HIDE DEF row
<1>   QED BY <1>1, <1>2, <1>3, <1>10, <1>15, <1>16, <1>17, <1>18, <1>19 DEF entry, ReturnWritten

\* A step leaves the rows alone or is one of the three.
LEMMA LedgerSteps ==
    ASSUME TypeOK, [Next]_vars
    PROVE  \/ UNCHANGED ledger
           \/ \E o \in SaleOps : \E due : SaleWritten(o, due)
           \/ \E o \in PaymentOps : \E taken : PaymentWritten(o, taken)
           \/ \E o \in ReturnOps : \E s : ReturnWritten(o, s)
PROOF
<1>1. QueueTypeOK /\ RowsOK /\ card \in [Customers -> CustomerRow]
      BY DEF TypeOK, RequestsTypeOK, RowsOK
<1>2. ASSUME NEW t \in Txns, OpOf[t] \in SaleOps, Ready(t), PutSale(OpOf[t])
      PROVE  SaleWritten(OpOf[t], Total[OpOf[t]] - Req[OpOf[t]].paid)
      BY <1>1, <1>2, SaleWrites
<1>3. ASSUME NEW t \in Txns, OpOf[t] \in PaymentOps, Ready(t), PutPayment(OpOf[t])
      PROVE  PaymentWritten(OpOf[t], Allocation(OpOf[t]))
      BY <1>1, <1>3, PaymentWrites
<1>4. ASSUME NEW t \in Txns, OpOf[t] \in ReturnOps, Ready(t), PutReturn(OpOf[t])
      PROVE  ReturnWritten(OpOf[t], Req[OpOf[t]].sale)
      BY <1>1, <1>4, ReturnWrites
<1>   QED BY <1>2, <1>3, <1>4, Steps

-----------------------------------------------------------------------------
(* Types                                                                    *)

LEMMA InitRows == ASSUME Init PROVE TypeOK /\ RowsOK
PROOF
<1>1. RequestsTypeOK({}) /\ card \in [Customers -> CustomerRow]
      BY RequestsInitType, LedgerAssumption DEF Init
<1>2. sale \in [SaleOps -> SaleRow \cup {NoRow}]
  <2>1. \A s \in SaleOps \cap Opening :
            [balance |-> Total[s] - Req[s].paid, at |-> 0, due |-> Terms(s)] \in SaleRow
    <3>1. \A s \in SaleOps : Total[s] \in Nat /\ Req[s].paid \in Nat /\ Terms(s) \in Nat
          BY <1>1, MoneyValues, RequestParts, TermsNat
    <3>   QED BY <3>1, OpeningAssumption DEF SaleRow
  <2>   QED BY <2>1 DEF Init
<1>3. journal \in [Ops -> [Accounts -> Int]]
  <2>1. \A o \in Opening : SalePosting(o, Total[o] - Req[o].paid) \in [Accounts -> Int]
    <3>1. \A o \in Opening : o \in SaleOps
          BY LedgerAssumption
    <3>2. \A o \in SaleOps : Total[o] \in Nat /\ Req[o].paid \in Nat /\ CostOf[o] \in Nat
          BY MoneyValues, RequestParts, LedgerAssumption DEF CostOf
    <3>   QED BY <3>1, <3>2 DEF SalePosting, Posting
  <2>2. Nothing \in [Accounts -> Int]
        BY DEF Nothing
  <2>   QED BY <2>1, <2>2 DEF Init
<1>4. RowsOK
      BY <1>2, <1>3, LedgerAssumption DEF Init, RowsOK
<1>   QED BY <1>1, <1>4 DEF TypeOK, RowsOK

LEMMA OpeningRows == ASSUME Init, NEW s \in SaleOps, s \in Opening PROVE sale[s] \in SaleRow
PROOF
<1>1. Total[s] \in Nat /\ Req[s].paid \in Nat /\ Terms(s) \in Nat
      BY InitRows, MoneyValues, RequestParts, TermsNat DEF TypeOK
<1>   QED BY <1>1, OpeningAssumption DEF Init, SaleRow

LEMMA StepTypes ==
    ASSUME TypeOK, [Next]_vars
    PROVE  TypeOK' /\ RowsOK'
PROOF
<1>1. RequestsTypeOK({}) /\ QueueTypeOK /\ RowsOK /\ card \in [Customers -> CustomerRow]
      BY DEF TypeOK, RequestsTypeOK, RowsOK
<1>2. RowsOK'
  <2>1. CASE UNCHANGED ledger
        BY <1>1, <2>1 DEF RowsOK, ledger
  <2>   QED BY <2>1, LedgerSteps DEF SaleWritten, PaymentWritten, ReturnWritten
<1>3. card' \in [Customers -> CustomerRow]
  <2>1. CASE \E c \in Customers : UpdateCustomer(c)
        BY <1>1, <2>1, LedgerAssumption DEF UpdateCustomer
  <2>2. CASE UNCHANGED card
        BY <1>1, <2>2
  <2>   QED BY <2>1, <2>2 DEF Next, vars, Serve, Work, Lock, Refuse, CompleteSale,
                CompleteServiceCheckout, RecordCustomerPayment, ProcessSaleReturn
<1>4. RequestsTypeOK({})'
  <2>1. CASE UNCHANGED requests
        BY <1>1, <2>1 DEF RequestsTypeOK, QueueTypeOK, requests
  <2>2. CASE \E t \in Txns : \/ \E there : Begin(t, there) \/ Lookup(t, there)
                             \/ Rollback(t)
                             \/ End(t, "refused") \/ End(t, "created")
                             \/ UNCHANGED <<pc, answer>> /\ \E l : Ask(t, l)
        BY <1>1, <2>2, RequestStepType
  <2>   QED BY <2>1, <2>2 DEF Next, vars, Serve, Work, Lock, Refuse, CompleteSale, DbAbort, Crash,
                CompleteServiceCheckout, RecordCustomerPayment, ProcessSaleReturn, UpdateCustomer
<1>   QED BY <1>2, <1>3, <1>4 DEF TypeOK, RowsOK

\* Stored balances, stock and the lines of returns stay the natural numbers the check
\* constraints of models/commerce.py and models/returns.py ask for: the locks and the
\* tests made under them are enough.
THEOREM LedgerTypes == Spec => []TypeOK
PROOF
<1>1. Init => TypeOK
      BY InitRows
<1>2. TypeOK /\ [Next]_vars => TypeOK'
      BY StepTypes
<1>   QED BY <1>1, <1>2, PTL DEF Spec

-----------------------------------------------------------------------------
(* Balances and stock                                                       *)

\* Nobody pays for or brings back what has not been sold.
UnsoldUntouched ==
    \A s \in SaleOps : ~Exists(sale[s]) =>
        /\ s \notin Opening
        /\ \A o \in PaymentOps : Settled(o, s) = 0
        /\ \A r \in ReturnsOf(s) : ~Exists(return[r])

BalanceInv == UnsoldUntouched /\ BalanceExact

LEMMA InitBalance == ASSUME Init PROVE BalanceInv
PROOF
<1>1. /\ \A o \in PaymentOps, s \in SaleOps : Settled(o, s) = 0
      /\ \A r \in ReturnOps : ~Exists(return[r]) /\ ReducedBy(r) = 0
      BY RowsExist DEF Init, Settled, ReducedBy
<1>2. \A s : \A r \in ReturnsOf(s) : r \in ReturnOps
      BY DEF ReturnsOf
<1>3. UnsoldUntouched
  <2>1. \A s \in SaleOps : s \in Opening => Exists(sale[s])
    <3>1. \A s \in SaleOps : s \in Opening => sale[s] \in SaleRow
          BY OpeningRows
    <3>   QED BY <3>1, RowsExist
  <2>   QED BY <1>1, <1>2, <2>1 DEF UnsoldUntouched
<1>4. BalanceExact
  <2> SUFFICES ASSUME NEW s \in SaleOps, Exists(sale[s])
               PROVE  sale[s].balance = Total[s] - Req[s].paid
                        - SumFunction([o \in PaymentOps |-> Settled(o, s)])
                        - SumFunction([r \in ReturnsOf(s) |-> ReducedBy(r)])
        BY DEF BalanceExact
  <2>1. sale[s].balance = Total[s] - Req[s].paid
        BY RowsExist DEF Init
  <2>2. SumFunction([o \in PaymentOps |-> Settled(o, s)]) = 0
        BY <1>1, FiniteParts, SumAllZero
  <2>3. SumFunction([r \in ReturnsOf(s) |-> ReducedBy(r)]) = 0
        BY <1>1, <1>2, PartsFinite, SumAllZero
  <2>4. Total[s] \in Nat /\ Req[s].paid \in Nat
        BY MoneyValues, RequestParts
  <2>   QED BY <2>1, <2>2, <2>3, <2>4
<1>   QED BY <1>3, <1>4 DEF BalanceInv

\* The sums of BalanceExact, step by step
LEMMA SettledMoves ==
    ASSUME RowsOK, NEW s \in SaleOps, NEW o \in PaymentOps, NEW d \in Int,
           Settled(o, s)' = Settled(o, s) + d,
           \A x \in PaymentOps \ {o} : Settled(x, s)' = Settled(x, s)
    PROVE  SumFunction([x \in PaymentOps |-> Settled(x, s)])'
               = SumFunction([x \in PaymentOps |-> Settled(x, s)]) + d
PROOF
<1> DEFINE f == [x \in PaymentOps |-> Settled(x, s)]
           g == [x \in PaymentOps |-> Settled(x, s)']
<1>1. \A x \in PaymentOps : f[x] \in Int
      BY RowValues
<1>2. SumFunction(g) = SumFunction(f) + d
      BY <1>1, FiniteParts, SumAllMoved
<1>   QED BY <1>2

LEMMA ReducedMoves ==
    ASSUME RowsOK, NEW s \in SaleOps, NEW o \in ReturnsOf(s), NEW d \in Int,
           ReducedBy(o)' = ReducedBy(o) + d,
           \A x \in ReturnsOf(s) \ {o} : ReducedBy(x)' = ReducedBy(x)
    PROVE  SumFunction([x \in ReturnsOf(s) |-> ReducedBy(x)])'
               = SumFunction([x \in ReturnsOf(s) |-> ReducedBy(x)]) + d
PROOF
<1> DEFINE f == [x \in ReturnsOf(s) |-> ReducedBy(x)]
           g == [x \in ReturnsOf(s) |-> ReducedBy(x)']
<1>1. \A x \in ReturnsOf(s) : f[x] \in Int
      BY RowValues, PartsFinite
<1>2. SumFunction(g) = SumFunction(f) + d
      BY <1>1, PartsFinite, SumAllMoved
<1>   QED BY <1>2 DEF ReturnsOf

LEMMA StepBalance ==
    ASSUME TypeOK, RowsOK, BalanceInv, [Next]_vars
    PROVE  BalanceInv'
PROOF
<1> DEFINE S(s) == SumFunction([o \in PaymentOps |-> Settled(o, s)])
           R(s) == SumFunction([r \in ReturnsOf(s) |-> ReducedBy(r)])
<1>2. \A s \in SaleOps : /\ Total[s] \in Nat /\ Req[s].paid \in Nat /\ S(s) \in Int /\ R(s) \in Int
                         /\ Balance(s) \in Nat
  <2> TAKE s \in SaleOps
  <2>1. S(s) \in Nat
        BY FiniteParts, RowValues, SumAllNat
  <2>2. \A r \in ReturnsOf(s) : ReducedBy(r) \in Nat
        BY PartsFinite, RowValues
  <2>3. R(s) \in Nat
        BY <2>2, PartsFinite, SumAllNat
  <2>   QED BY <2>1, <2>3, MoneyValues, RequestParts, RowValues
<1>3. \A s \in SaleOps : Exists(sale[s]) => Balance(s) = Total[s] - Req[s].paid - S(s) - R(s)
      BY DEF BalanceInv, BalanceExact, Balance
<1>4. UNCHANGED payment => \A s \in SaleOps, o \in PaymentOps : Settled(o, s)' = Settled(o, s)
      BY DEF Settled, Exists
<1>5. UNCHANGED return => \A r : ReducedBy(r)' = ReducedBy(r) /\ (Exists(return[r])' <=> Exists(return[r]))
      BY DEF ReducedBy, Exists
<1>6. UNCHANGED payment => \A s \in SaleOps : S(s)' = S(s)
      BY <1>4
<1>7. UNCHANGED return => \A s \in SaleOps : R(s)' = R(s)
      BY <1>5 DEF ReturnsOf
<1>8. SUFFICES /\ UnsoldUntouched'
               /\ \A s \in SaleOps : Exists(sale[s])' =>
                     Balance(s)' = Total[s] - Req[s].paid - S(s)' - R(s)'
      BY DEF BalanceInv, BalanceExact, Balance
<1> HIDE DEF S, R
<1>9. CASE UNCHANGED ledger
  <2>1. UNCHANGED <<sale, payment, return>>
        BY <1>9 DEF ledger
  <2>   QED BY <1>3, <1>4, <1>5, <1>6, <1>7, <2>1 DEF BalanceInv, UnsoldUntouched, Balance, Exists, ReturnsOf
<1>10. CASE \E o \in SaleOps : \E due : SaleWritten(o, due)
  <2>0. PICK o \in SaleOps : \E due : SaleWritten(o, due)
        BY <1>10
  <2>1. PICK due : SaleWritten(o, due)
        BY <2>0
  <2>2. /\ ~Exists(sale[o]) /\ Exists(sale[o])' /\ sale'[o].balance = due
        /\ due = Total[o] - Req[o].paid
        /\ \A s \in SaleOps \ {o} : sale'[s] = sale[s]
        /\ UNCHANGED <<payment, return>>
        BY <2>1 DEF SaleWritten
  <2>3. UnsoldUntouched'
    <3>1. \A s \in SaleOps : ~Exists(sale[s])' => ~Exists(sale[s])
          BY <2>2 DEF Exists
    <3>   QED BY <1>4, <1>5, <2>2, <3>1 DEF BalanceInv, UnsoldUntouched, ReturnsOf
  <2>4. S(o) = 0 /\ R(o) = 0
    <3>1. /\ \A x \in PaymentOps : Settled(x, o) = 0
          /\ \A r \in ReturnsOf(o) : ReducedBy(r) = 0
          BY <2>2 DEF BalanceInv, UnsoldUntouched, ReducedBy
    <3>   QED BY <3>1, FiniteParts, PartsFinite, SumAllZero DEF S, R
  <2>5. Balance(o)' = due
        BY <2>2 DEF Balance
  <2>6. \A s \in SaleOps \ {o} : Balance(s)' = Balance(s) /\ (Exists(sale[s])' <=> Exists(sale[s]))
        BY <2>2 DEF Balance, Exists
  <2>7. ASSUME NEW s \in SaleOps, Exists(sale[s])'
        PROVE  Balance(s)' = Total[s] - Req[s].paid - S(s)' - R(s)'
    <3>1. S(s)' = S(s) /\ R(s)' = R(s)
          BY <1>6, <1>7, <2>2
    <3>2. CASE s = o
          BY <1>2, <2>1, <2>2, <2>4, <2>5, <3>1, <3>2
    <3>3. CASE s # o
          BY <1>3, <2>6, <2>7, <3>1, <3>3
    <3>   QED BY <3>2, <3>3
  <2>   QED BY <2>3, <2>7
<1>11. CASE \E o \in PaymentOps : \E taken : PaymentWritten(o, taken)
  <2>0. PICK o \in PaymentOps : \E taken : PaymentWritten(o, taken)
        BY <1>11
  <2>1. PICK taken : PaymentWritten(o, taken)
        BY <2>0
  <2>2. /\ ~Exists(payment[o]) /\ Exists(payment[o])' /\ o \in PaymentOps
        /\ \A x \in PaymentOps \ {o} : payment'[x] = payment[x]
        /\ payment'[o].allocated = taken /\ taken \in [SaleOps -> Nat]
        /\ \A s \in SaleOps : /\ taken[s] # 0 => Exists(sale[s])
                              /\ Exists(sale[s]) <=> Exists(sale[s])'
                              /\ Balance(s)' = Balance(s) - taken[s]
        /\ UNCHANGED return
        BY <2>1 DEF PaymentWritten, OpenSale
  <2>3. ASSUME NEW s \in SaleOps
        PROVE  /\ Settled(o, s)' = taken[s] /\ Settled(o, s) = 0
               /\ \A x \in PaymentOps \ {o} : Settled(x, s)' = Settled(x, s)
        BY <2>2 DEF Settled, Exists
  <2>4. UnsoldUntouched'
        BY <1>5, <2>2, <2>3 DEF BalanceInv, UnsoldUntouched, ReturnsOf
  <2>5. ASSUME NEW s \in SaleOps, Exists(sale[s])'
        PROVE  Balance(s)' = Total[s] - Req[s].paid - S(s)' - R(s)'
    <3>1. taken[s] \in Int /\ Settled(o, s)' = Settled(o, s) + taken[s]
          BY <2>2, <2>3
    <3>2. S(s)' = S(s) + taken[s]
          BY <2>2, <2>3, <3>1, SettledMoves DEF S
    <3>3. R(s)' = R(s)
          BY <1>7, <2>2
    <3>   QED BY <1>2, <1>3, <2>2, <2>5, <3>1, <3>2, <3>3
  <2>   QED BY <2>4, <2>5
<1>12. CASE \E o \in ReturnOps : \E u : ReturnWritten(o, u)
  <2>0. PICK o \in ReturnOps : \E u, d : ReturnWritten(o, u) /\ d = Reduction(o)
        BY <1>12
  <2>1. PICK u, d : ReturnWritten(o, u) /\ d = Reduction(o)
        BY <2>0
  <2>2. /\ ~Exists(return[o]) /\ Exists(return[o])' /\ o \in ReturnOps
        /\ \A x \in ReturnOps \ {o} : return'[x] = return[x]
        /\ return'[o].reduction = d /\ d \in Nat
        /\ u \in SaleOps /\ u = Req[o].sale /\ Exists(sale[u])
        /\ \A s \in SaleOps : /\ Exists(sale[s]) <=> Exists(sale[s])'
                              /\ Balance(s)' = Balance(s) - IF s = u THEN d ELSE 0
        /\ UNCHANGED payment
        BY <2>1 DEF ReturnWritten
  <2>3. \A s : o \in ReturnsOf(s) <=> s = u
        BY <2>2 DEF ReturnsOf
  <2>4. /\ ReducedBy(o)' = d /\ ReducedBy(o) = 0
        /\ \A x \in ReturnOps \ {o} : ReducedBy(x)' = ReducedBy(x) /\ (Exists(return[x])' <=> Exists(return[x]))
        BY <2>2 DEF ReducedBy, Exists
  <2>5. UnsoldUntouched'
        BY <1>4, <2>2, <2>3, <2>4, PartsFinite DEF BalanceInv, UnsoldUntouched, ReturnsOf
  <2>6. ASSUME NEW s \in SaleOps, Exists(sale[s])'
        PROVE  Balance(s)' = Total[s] - Req[s].paid - S(s)' - R(s)'
    <3>1. S(s)' = S(s)
          BY <1>6, <2>2
    <3>2. CASE s = u
      <4>1. R(s)' = R(s) + d
        <5>1. d \in Int /\ ReducedBy(o)' = ReducedBy(o) + d /\ o \in ReturnsOf(s)
              BY <2>2, <2>3, <2>4, <3>2
        <5>2. \A x \in ReturnsOf(s) \ {o} : ReducedBy(x)' = ReducedBy(x)
              BY <2>4, PartsFinite
        <5>   QED BY <5>1, <5>2, ReducedMoves DEF R
      <4>   QED BY <1>2, <1>3, <2>2, <2>6, <3>1, <3>2, <4>1
    <3>3. CASE s # u
      <4>1. \A x \in ReturnsOf(s) : ReducedBy(x)' = ReducedBy(x)
            BY <2>3, <2>4, <3>3, PartsFinite
      <4>2. R(s)' = R(s)
            BY <4>1 DEF R, ReturnsOf
      <4>   QED BY <1>2, <1>3, <2>2, <2>6, <3>1, <3>3, <4>2
    <3>   QED BY <3>2, <3>3
  <2>   QED BY <2>5, <2>6
<1>   QED BY <1>9, <1>10, <1>11, <1>12, LedgerSteps

\* What returns have given back, step by step
LEMMA GivenStays ==
    ASSUME RowsOK, UNCHANGED return
    PROVE  /\ \A r, p, field : Given(r, p, field)' = Given(r, p, field)
           /\ \A r : Exists(return[r])' <=> Exists(return[r])
PROOF BY DEF Given, Exists

GivenIn(S, p, field) == SumFunction([r \in S |-> Given(r, p, field)])

LEMMA GivenMoves ==
    ASSUME RowsOK, NEW o \in ReturnOps, NEW s, ReturnWritten(o, s), NEW S \in SUBSET ReturnOps,
           NEW p \in Products, NEW field \in {"qty", "amount", "cost"}
    PROVE  /\ ReturnLine(o, p)[field] \in Nat
           /\ GivenIn(S, p, field)' =
                  GivenIn(S, p, field) + IF o \in S THEN ReturnLine(o, p)[field] ELSE 0
PROOF
<1> DEFINE f == [r \in S |-> Given(r, p, field)]
           g == [r \in S |-> Given(r, p, field)']
           d == ReturnLine(o, p)[field]
<1>1. /\ ~Exists(return[o]) /\ Exists(return[o])' /\ return'[o].lines[p] = ReturnLine(o, p)
      /\ \A x \in ReturnOps \ {o} : return'[x] = return[x]
      /\ ReturnLine(o, p) \in ReturnLineRow
      BY DEF ReturnWritten
<1>2. d \in Nat
      BY <1>1 DEF ReturnLineRow
<1>3. Given(o, p, field) = 0 /\ Given(o, p, field)' = d
      BY <1>1 DEF Given
<1>4. \A x \in ReturnOps \ {o} : Given(x, p, field)' = Given(x, p, field)
      BY <1>1 DEF Given, Exists
<1>5. IsFiniteSet(S) /\ \A x \in S : f[x] \in Int
      BY FiniteParts, FS_Subset, RowValues
<1> HIDE DEF d
<1>6. CASE o \in S
  <2>1. g[o] = f[o] + d /\ \A x \in S \ {o} : g[x] = f[x]
        BY <1>2, <1>3, <1>4, <1>6
  <2> HIDE DEF f, g
  <2>2. DOMAIN f = S /\ DOMAIN g = S /\ d \in Int
        BY <1>2 DEF f, g
  <2>3. SumFunction(g) = SumFunction(f) + d
        BY <1>5, <1>6, <2>1, <2>2, SumAllMoved
  <2>   QED BY <1>2, <1>6, <2>3 DEF f, g, d, GivenIn
<1>7. CASE o \notin S
  <2>1. g = f
        BY <1>4, <1>7
  <2>2. SumFunction(f) \in Int
        BY <1>5, SumAllInt
  <2>3. SumFunction(g) = SumFunction(f) + 0
        BY <2>1, <2>2
  <2>   QED BY <1>2, <1>7, <2>3 DEF d, GivenIn
<1>   QED BY <1>6, <1>7

LEMMA SoldMoves ==
    ASSUME RowsOK, NEW S \in SUBSET SaleOps, NEW p \in Products, NEW o \in SaleOps, NEW due,
           SaleWritten(o, due)
    PROVE  SumFunction([s \in S |-> SoldOf(s, p)])'
               = SumFunction([s \in S |-> SoldOf(s, p)]) + IF o \in S THEN Items(o)[p] ELSE 0
PROOF
<1> DEFINE f == [s \in S |-> SoldOf(s, p)]
           g == [s \in S |-> SoldOf(s, p)']
           d == Items(o)[p]
<1>1. /\ ~Exists(sale[o]) /\ Exists(sale[o])'
      /\ \A x \in SaleOps \ {o} : sale'[x] = sale[x]
      BY DEF SaleWritten
<1>2. d \in Int /\ \A s \in SaleOps : Items(s)[p] \in Int
      BY RequestParts
<1>3. SoldOf(o, p) = 0 /\ SoldOf(o, p)' = d
      BY <1>1 DEF SoldOf, Items
<1>4. \A x \in SaleOps \ {o} : SoldOf(x, p)' = SoldOf(x, p)
      BY <1>1 DEF SoldOf, Exists, Items
<1>5. IsFiniteSet(S) /\ \A x \in S : f[x] \in Int
      BY <1>2, FiniteParts, FS_Subset DEF SoldOf
<1> HIDE DEF d
<1>6. CASE o \in S
  <2>1. g[o] = f[o] + d /\ \A x \in S \ {o} : g[x] = f[x]
        BY <1>2, <1>3, <1>4, <1>6
  <2> HIDE DEF f, g
  <2>2. DOMAIN f = S /\ DOMAIN g = S
        BY DEF f, g
  <2>3. SumFunction(g) = SumFunction(f) + d
        BY <1>2, <1>5, <1>6, <2>1, <2>2, SumAllMoved
  <2>   QED BY <1>6, <2>3 DEF f, g, d
<1>7. CASE o \notin S
  <2>1. g = f
        BY <1>4, <1>7
  <2>2. SumFunction(f) \in Int
        BY <1>5, SumAllInt
  <2>3. SumFunction(g) = SumFunction(f) + 0
        BY <2>1, <2>2
  <2>   QED BY <1>7, <2>3
<1>   QED BY <1>6, <1>7

LEMMA InitStock == ASSUME Init PROVE StockExact
PROOF
<1> SUFFICES ASSUME NEW b \in Branches, NEW p \in Tracked
             PROVE  onHand[b][p] = StockAtStart[b][p]
                       - SumFunction([s \in SalesAt(b) \ Opening |-> SoldOf(s, p)])
                       + SumFunction([r \in {o \in ReturnOps : Req[o].branch = b} |-> Given(r, p, "qty")])
      BY DEF StockExact
<1>1. \A s \in SalesAt(b) \ Opening : SoldOf(s, p) = 0
      BY RowsExist DEF Init, SoldOf, SalesAt
<1>2. \A r \in ReturnOps : Given(r, p, "qty") = 0
      BY RowsExist DEF Init, Given
<1>3. IsFiniteSet(SalesAt(b) \ Opening) /\ IsFiniteSet({o \in ReturnOps : Req[o].branch = b})
      BY PartsFinite, FiniteParts, FS_Subset
<1>4. SumFunction([s \in SalesAt(b) \ Opening |-> SoldOf(s, p)]) = 0
      BY <1>1, <1>3, SumAllZero
<1>5. SumFunction([r \in {o \in ReturnOps : Req[o].branch = b} |-> Given(r, p, "qty")]) = 0
      BY <1>2, <1>3, SumAllZero
<1>6. onHand[b][p] = StockAtStart[b][p] /\ StockAtStart[b][p] \in Nat
      BY LedgerAssumption DEF Init
<1>   QED BY <1>4, <1>5, <1>6

LEMMA StepStock ==
    ASSUME TypeOK, RowsOK, UnsoldUntouched, StockExact, [Next]_vars
    PROVE  StockExact'
PROOF
<1> SUFFICES ASSUME NEW b \in Branches, NEW p \in Tracked
             PROVE  onHand'[b][p] = StockAtStart[b][p]
                       - SumFunction([s \in SalesAt(b) \ Opening |-> SoldOf(s, p)])'
                       + SumFunction([r \in {o \in ReturnOps : Req[o].branch = b} |-> Given(r, p, "qty")])'
      BY DEF StockExact, SalesAt
<1> DEFINE A == SalesAt(b) \ Opening
           B == {o \in ReturnOps : Req[o].branch = b}
           Sold == SumFunction([s \in A |-> SoldOf(s, p)])
           Back == SumFunction([r \in B |-> Given(r, p, "qty")])
<1>1. /\ p \in Products /\ A \in SUBSET SaleOps /\ B \in SUBSET ReturnOps
      BY LedgerAssumption DEF SalesAt
<1>2. onHand[b][p] = StockAtStart[b][p] - Sold + Back
      BY DEF StockExact
<1>3. onHand[b][p] \in Nat /\ StockAtStart[b][p] \in Nat /\ \A s \in SaleOps : Items(s)[p] \in Nat
      BY <1>1, LedgerAssumption, RequestParts DEF RowsOK
<1>4. Sold \in Int
  <2>1. IsFiniteSet(A) /\ \A s \in A : SoldOf(s, p) \in Int
        BY <1>1, <1>3, FiniteParts, FS_Subset DEF SoldOf
  <2>   QED BY <2>1, SumAllInt
<1>5. Back \in Int
  <2>1. IsFiniteSet(B) /\ \A r \in B : Given(r, p, "qty") \in Int
        BY <1>1, FiniteParts, FS_Subset, RowValues
  <2>   QED BY <2>1, SumAllInt
<1>6. UNCHANGED return => Back' = Back
      BY GivenStays
<1>7. (\A s \in SaleOps : Exists(sale[s])' <=> Exists(sale[s])) => Sold' = Sold
      BY DEF SoldOf, SalesAt, Items
<1>8. SUFFICES onHand'[b][p] = StockAtStart[b][p] - Sold' + Back'
      BY DEF SalesAt
<1>9. CASE UNCHANGED ledger
  <2>1. UNCHANGED <<sale, return, onHand>>
        BY <1>9 DEF ledger
  <2>2. Sold' = Sold
        BY <1>7, <2>1 DEF Exists
  <2> HIDE DEF Sold, Back
  <2>   QED BY <1>2, <1>6, <2>1, <2>2
<1>10. CASE \E o \in SaleOps : \E due : SaleWritten(o, due)
  <2>0. PICK o \in SaleOps : \E due : SaleWritten(o, due)
        BY <1>10
  <2>1. PICK due : SaleWritten(o, due)
        BY <2>0
  <2>2. /\ UNCHANGED return /\ ~Exists(sale[o])
        /\ onHand'[b][p] = onHand[b][p] - IF b = Req[o].branch /\ p \in Tracked THEN Items(o)[p] ELSE 0
        BY <1>1, <2>1 DEF SaleWritten
  <2>3. o \in A <=> b = Req[o].branch
        BY <2>2 DEF UnsoldUntouched, SalesAt
  <2>4. Sold' = Sold + IF o \in A THEN Items(o)[p] ELSE 0
    <3> HIDE DEF A
    <3>1. SumFunction([s \in A |-> SoldOf(s, p)])' = SumFunction([s \in A |-> SoldOf(s, p)])
                + IF o \in A THEN Items(o)[p] ELSE 0
          BY <1>1, <2>1, SoldMoves
    <3>   QED BY <3>1 DEF A, SalesAt
  <2>5. Items(o)[p] \in Int
        BY <1>3
  <2> HIDE DEF Sold, Back, A
  <2>   QED BY <1>2, <1>3, <1>4, <1>5, <1>6, <2>2, <2>3, <2>4, <2>5
<1>11. CASE \E o \in PaymentOps : \E taken : PaymentWritten(o, taken)
  <2>0. PICK o \in PaymentOps : \E taken : PaymentWritten(o, taken)
        BY <1>11
  <2>1. PICK taken : PaymentWritten(o, taken)
        BY <2>0
  <2>2. UNCHANGED <<return, onHand>> /\ \A s \in SaleOps : Exists(sale[s])' <=> Exists(sale[s])
        BY <2>1 DEF PaymentWritten
  <2>3. Sold' = Sold
        BY <1>7, <2>2
  <2> HIDE DEF Sold, Back
  <2>   QED BY <1>2, <1>6, <2>2, <2>3
<1>12. CASE \E o \in ReturnOps : \E u : ReturnWritten(o, u)
  <2>0. PICK o \in ReturnOps : \E u : ReturnWritten(o, u)
        BY <1>12
  <2>1. PICK u : ReturnWritten(o, u)
        BY <2>0
  <2>2. /\ \A s \in SaleOps : Exists(sale[s])' <=> Exists(sale[s])
        /\ onHand'[b][p] = onHand[b][p] + IF b = Req[o].branch /\ p \in Tracked THEN Wanted(o)[p] ELSE 0
        BY <1>1, <2>1 DEF ReturnWritten
  <2>3. Sold' = Sold
        BY <1>7, <2>2
  <2>4. ReturnLine(o, p)["qty"] = Wanted(o)[p] /\ Wanted(o)[p] \in Int
        BY <1>1, RequestParts DEF ReturnLine
  <2>5. Back' = Back + IF o \in B THEN ReturnLine(o, p)["qty"] ELSE 0
    <3>1. GivenIn(B, p, "qty")' = GivenIn(B, p, "qty") + IF o \in B THEN ReturnLine(o, p)["qty"] ELSE 0
      <4> HIDE DEF B
      <4>   QED BY <1>1, <2>1, GivenMoves
    <3>   QED BY <3>1 DEF GivenIn
  <2>6. o \in B <=> b = Req[o].branch
        OBVIOUS
  <2> HIDE DEF Sold, Back, B
  <2>   QED BY <1>2, <1>3, <1>4, <1>5, <2>2, <2>3, <2>4, <2>5, <2>6
<1>   QED BY <1>9, <1>10, <1>11, <1>12, LedgerSteps

-----------------------------------------------------------------------------
(* Returns                                                                  *)

\* A stored return is of a sale at its branch, gave back what it asked for and
\* something at least; the returns of a line stay within it, and the last of them
\* takes what the others left; a void is alone.
ReturnStored(r) ==
    LET s == Req[r].sale
    IN  /\ Exists(sale[s]) /\ Req[s].branch = Req[r].branch
        /\ \A p \in Products : Given(r, p, "qty") = Wanted(r)[p]
        /\ \E p \in Products : Wanted(r)[p] > 0
VoidAlone(r) ==
    Req[r].void => \A x \in ReturnsOf(Req[r].sale) : Exists(return[x]) => x = r
LineSettled(s, p) ==
    /\ Prior(s, p, "qty") <= Items(s)[p]
    /\ Returnable(s, p) = 0 => /\ Prior(s, p, "amount") = LineTotal(Price[p], Items(s)[p])
                               /\ Prior(s, p, "cost") = LineTotal(Cost[p], Items(s)[p])

ReturnsInv ==
    /\ \A r \in ReturnOps : Exists(return[r]) => ReturnStored(r) /\ VoidAlone(r)
    /\ \A s \in SaleOps, p \in Products : LineSettled(s, p)

LEMMA PriorMoves ==
    ASSUME RowsOK, NEW o \in ReturnOps, NEW s, ReturnWritten(o, s), NEW u,
           NEW p \in Products, NEW field \in {"qty", "amount", "cost"}
    PROVE  /\ ReturnLine(o, p)[field] \in Nat
           /\ Prior(u, p, field)' = Prior(u, p, field) + IF u = s THEN ReturnLine(o, p)[field] ELSE 0
PROOF
<1> DEFINE S == ReturnsOf(u)
<1>1. S \in SUBSET ReturnOps /\ (o \in S <=> u = s)
      BY DEF ReturnsOf, ReturnWritten
<1>2. /\ ReturnLine(o, p)[field] \in Nat
      /\ GivenIn(S, p, field)' = GivenIn(S, p, field) + IF o \in S THEN ReturnLine(o, p)[field] ELSE 0
  <2> HIDE DEF S
  <2>   QED BY <1>1, GivenMoves
<1>3. Prior(u, p, field) = GivenIn(S, p, field) /\ Prior(u, p, field)' = GivenIn(S, p, field)'
      BY DEF Prior, GivenIn, ReturnsOf
<1> HIDE DEF S
<1>   QED BY <1>1, <1>2, <1>3

LEMMA PriorStays ==
    ASSUME RowsOK, UNCHANGED return
    PROVE  \A u, p, field : Prior(u, p, field)' = Prior(u, p, field)
PROOF BY GivenStays DEF Prior, ReturnsOf

\* A line brought back is counted; one that is not costs nothing.
LEMMA NothingReturned ==
    ASSUME NEW o \in ReturnOps, NEW p \in Products, Wanted(o)[p] = 0
    PROVE  ReturnLine(o, p).qty = 0 /\ ReturnLine(o, p).amount = 0 /\ ReturnLine(o, p).cost = 0
PROOF BY DEF ReturnLine

LEMMA SomethingReturned ==
    ASSUME NEW o \in ReturnOps, ReturnTotal(o) > 0
    PROVE  \E p \in Products : Wanted(o)[p] > 0
PROOF
<1> SUFFICES ASSUME \A p \in Products : ~(Wanted(o)[p] > 0) PROVE FALSE
      OBVIOUS
<1>1. \A p \in Products : Wanted(o)[p] = 0
      BY RequestParts
<1>2. \A p \in Products : ReturnLine(o, p).amount = 0
      BY <1>1, NothingReturned
<1>3. ReturnTotal(o) = 0
      BY <1>2, FiniteParts, SumAllZero DEF ReturnTotal
<1>   QED BY <1>3

LEMMA InitReturns == ASSUME Init PROVE ReturnsInv
PROOF
<1>1. \A r \in ReturnOps : ~Exists(return[r])
      BY RowsExist DEF Init
<1>2. ASSUME NEW s \in SaleOps, NEW p \in Products PROVE LineSettled(s, p)
  <2>1. \A r \in ReturnsOf(s) : \A field : Given(r, p, field) = 0
        BY <1>1, PartsFinite DEF Given
  <2>2. Prior(s, p, "qty") = 0 /\ Prior(s, p, "amount") = 0 /\ Prior(s, p, "cost") = 0
        BY <2>1, PartsFinite, SumAllZero DEF Prior
  <2>3. Items(s)[p] \in Nat /\ Price[p] \in Nat /\ Cost[p] \in Nat
        BY RequestParts, LedgerAssumption
  <2>4. LineTotal(Price[p], 0) = 0 /\ LineTotal(Cost[p], 0) = 0
        BY <2>3, LineTotalNat
  <2>5. Returnable(s, p) = 0 => Items(s)[p] = 0
        BY <2>2, <2>3 DEF Returnable
  <2>   QED BY <2>2, <2>3, <2>4, <2>5 DEF LineSettled
<1>   QED BY <1>1, <1>2 DEF ReturnsInv

LEMMA StepReturns ==
    ASSUME TypeOK, RowsOK, ReturnsInv, [Next]_vars
    PROVE  ReturnsInv'
PROOF
<1>1. ASSUME UNCHANGED return, \A s \in SaleOps : Exists(sale[s]) => Exists(sale[s])'
      PROVE  ReturnsInv'
  <2>1. \A s, p : LineSettled(s, p)' <=> LineSettled(s, p)
        BY <1>1, PriorStays DEF LineSettled, Returnable, Items
  <2>2. \A r \in ReturnOps : VoidAlone(r)' <=> VoidAlone(r)
        BY <1>1, GivenStays DEF VoidAlone, ReturnsOf
  <2>3. \A r \in ReturnOps : ReturnStored(r) => ReturnStored(r)'
    <3>1. \A r \in ReturnOps : Req[r].sale \in SaleOps
          BY RequestParts
    <3>   QED BY <1>1, <3>1, GivenStays DEF ReturnStored, Wanted, Items
  <2>   QED BY <1>1, <2>1, <2>2, <2>3, GivenStays DEF ReturnsInv
<1>2. ASSUME NEW o \in ReturnOps, NEW u, ReturnWritten(o, u) PROVE ReturnsInv'
  <2>1. /\ ~Exists(return[o]) /\ Exists(return[o])' /\ u \in SaleOps /\ u = Req[o].sale
        /\ Exists(sale[u]) /\ Req[u].branch = Req[o].branch
        /\ \A x \in ReturnOps \ {o} : return'[x] = return[x]
        /\ \A s \in SaleOps : Exists(sale[s]) <=> Exists(sale[s])'
        /\ \A p \in Products : return'[o].lines[p] = ReturnLine(o, p)
        /\ ReturnTotal(o) > 0
        BY <1>2 DEF ReturnWritten
  <2>2. \A p \in Products : /\ Wanted(o)[p] \in Nat /\ Items(u)[p] \in Nat
                            /\ Prior(u, p, "qty") \in Nat
                            /\ Wanted(o)[p] <= Items(u)[p] - Prior(u, p, "qty")
                            /\ Req[o].void => Prior(u, p, "qty") = 0
        BY <1>2, <2>1, RequestParts, SumValues DEF ReturnWritten, Returnable
  <2>3. \A x \in ReturnOps \ {o} :
            /\ Exists(return[x])' <=> Exists(return[x])
            /\ \A p \in Products : Given(x, p, "qty")' = Given(x, p, "qty")
        BY <2>1 DEF Given, Exists
  <2>4. \E p \in Products : Wanted(o)[p] > 0
        BY <2>1, SomethingReturned
  <2>5. ReturnStored(o)'
    <3>1. \A p \in Products : Given(o, p, "qty")' = Wanted(o)[p]
      <4> TAKE p \in Products
      <4>1. ReturnLine(o, p)["qty"] = Wanted(o)[p]
            BY DEF ReturnLine
      <4>2. Given(o, p, "qty")' = ReturnLine(o, p)["qty"]
            BY <2>1 DEF Given
      <4>   QED BY <4>1, <4>2
    <3>   QED BY <2>1, <2>4, <3>1 DEF ReturnStored, Wanted, Items
  <2>6. ASSUME NEW x \in ReturnOps \ {o}, Exists(return[x]) PROVE ReturnStored(x)'
    <3>1. ReturnStored(x) /\ Req[x].sale \in SaleOps
          BY <2>6, RequestParts DEF ReturnsInv
    <3>   QED BY <2>1, <2>3, <3>1 DEF ReturnStored, Wanted, Items
  <2>7. ASSUME NEW x \in ReturnsOf(u), x # o, Exists(return[x]) PROVE ~Req[o].void /\ ~Req[x].void
    <3>1. x \in ReturnOps /\ Req[x].sale = u
          BY DEF ReturnsOf
    <3>2. /\ \A p \in Products : Given(x, p, "qty") = Wanted(x)[p]
          /\ \E p \in Products : Wanted(x)[p] > 0
          BY <2>7, <3>1 DEF ReturnsInv, ReturnStored
    <3>3. \A p \in Products : Given(x, p, "qty") <= Prior(u, p, "qty")
      <4>1. \A r \in ReturnsOf(u), p \in Products : Given(r, p, "qty") \in Nat
            BY RowValues, PartsFinite
      <4>   QED BY <2>7, <4>1, PartsFinite, SumAllNat DEF Prior
    <3>4. ~Req[o].void
          BY <2>2, <3>1, <3>2, <3>3, RequestParts
    <3>5. CASE Req[x].void
      <4>1. \A p \in Products : Given(x, p, "qty") = Items(u)[p]
            BY <3>1, <3>2, <3>5 DEF Wanted
      <4>2. \A p \in Products : ~(Wanted(o)[p] > 0)
            BY <2>2, <3>3, <4>1
      <4>   QED BY <2>4, <4>2
    <3>   QED BY <3>4, <3>5
  <2>8. ASSUME NEW r \in ReturnOps, Exists(return[r])' PROVE VoidAlone(r)'
    <3>1. CASE r = o
          BY <2>1, <2>3, <2>7, <3>1 DEF VoidAlone, ReturnsOf
    <3>2. CASE r # o
      <4>1. VoidAlone(r) /\ Exists(return[r])
            BY <2>3, <2>8, <3>2 DEF ReturnsInv
      <4>2. Req[r].sale = u => ~Req[r].void
            BY <2>7, <3>2, <4>1 DEF ReturnsOf
      <4>3. o \in ReturnsOf(Req[r].sale) => Req[r].sale = u
            BY <2>1 DEF ReturnsOf
      <4>   QED BY <2>3, <4>1, <4>2, <4>3 DEF VoidAlone, ReturnsOf
    <3>   QED BY <3>1, <3>2
  <2>9. ASSUME NEW s \in SaleOps, NEW p \in Products PROVE LineSettled(s, p)'
    <3>1. \A field \in {"qty", "amount", "cost"} :
              /\ ReturnLine(o, p)[field] \in Nat
              /\ Prior(s, p, field)' = Prior(s, p, field) + IF s = u THEN ReturnLine(o, p)[field] ELSE 0
          BY <1>2, PriorMoves
    <3>2. /\ Prior(s, p, "qty") \in Nat /\ Prior(s, p, "amount") \in Nat /\ Prior(s, p, "cost") \in Nat
          BY SumValues
    <3>3. LineSettled(s, p)
          BY DEF ReturnsInv
    <3>4. CASE s # u
      <4>1. /\ Prior(s, p, "qty")' = Prior(s, p, "qty") /\ Prior(s, p, "amount")' = Prior(s, p, "amount")
            /\ Prior(s, p, "cost")' = Prior(s, p, "cost")
            BY <3>1, <3>2, <3>4
      <4>   QED BY <3>3, <4>1 DEF LineSettled, Returnable, Items
    <3>5. CASE s = u
      <4> DEFINE q == Wanted(o)[p]
                 l == ReturnLine(o, p)
                 whole(rate) == LineTotal(rate[p], Items(s)[p])
      <4>1. /\ Prior(s, p, "qty")' = Prior(s, p, "qty") + q
            /\ Prior(s, p, "amount")' = Prior(s, p, "amount") + l.amount
            /\ Prior(s, p, "cost")' = Prior(s, p, "cost") + l.cost
            /\ l.amount \in Nat /\ l.cost \in Nat
        <5>1. l["qty"] = q
              BY DEF ReturnLine
        <5>   QED BY <3>1, <3>5, <5>1
      <4>2. q \in Nat /\ Items(s)[p] \in Nat /\ Returnable(s, p) = Items(s)[p] - Prior(s, p, "qty")
            /\ q <= Returnable(s, p)
            BY <2>2, <3>5 DEF Returnable
      <4>3. Returnable(s, p)' = Returnable(s, p) - q
        <5>1. Returnable(s, p)' = Items(s)[p] - Prior(s, p, "qty")'
              BY DEF Returnable, Items
        <5> HIDE DEF q
        <5>   QED BY <3>2, <4>1, <4>2, <5>1
      <4>4. q = 0 => l.amount = 0 /\ l.cost = 0
            BY NothingReturned
      <4>5. q # 0 /\ q = Returnable(s, p) => /\ l.amount = whole(Price) - Prior(s, p, "amount")
                                             /\ l.cost = whole(Cost) - Prior(s, p, "cost")
            BY <2>1, <3>5 DEF ReturnLine, LineAmount
      <4>6. whole(Price) \in Nat /\ whole(Cost) \in Nat
            BY <4>2, LedgerAssumption, LineTotalNat
      <4>7. SUFFICES /\ Prior(s, p, "qty")' <= Items(s)[p]
                     /\ Returnable(s, p)' = 0 => /\ Prior(s, p, "amount")' = whole(Price)
                                                 /\ Prior(s, p, "cost")' = whole(Cost)
            BY DEF LineSettled, Items
      <4>8. Returnable(s, p) = 0 => Prior(s, p, "amount") = whole(Price) /\ Prior(s, p, "cost") = whole(Cost)
            BY <3>3 DEF LineSettled
      <4> HIDE DEF q, l, whole
      <4>9. Prior(s, p, "qty")' <= Items(s)[p]
            BY <3>2, <4>1, <4>2
      <4>10. ASSUME Returnable(s, p)' = 0
             PROVE  Prior(s, p, "amount")' = whole(Price) /\ Prior(s, p, "cost")' = whole(Cost)
        <5>1. q = Returnable(s, p)
              BY <3>2, <4>2, <4>3, <4>10
        <5>2. CASE q = 0
              BY <3>2, <4>1, <4>4, <4>6, <4>8, <5>1, <5>2
        <5>3. CASE q # 0
              BY <3>2, <4>1, <4>5, <4>6, <5>1, <5>3
        <5>   QED BY <5>2, <5>3
      <4>   QED BY <4>9, <4>10
    <3>   QED BY <3>4, <3>5
  <2>   QED BY <2>3, <2>5, <2>6, <2>8, <2>9 DEF ReturnsInv
<1>3. UNCHANGED ledger => UNCHANGED return /\ \A s \in SaleOps : Exists(sale[s]) => Exists(sale[s])'
      BY DEF ledger, Exists
<1>4. \A o \in SaleOps : \A due : SaleWritten(o, due) =>
          UNCHANGED return /\ \A s \in SaleOps : Exists(sale[s]) => Exists(sale[s])'
      BY DEF SaleWritten, Exists
<1>5. \A o \in PaymentOps : \A taken : PaymentWritten(o, taken) =>
          UNCHANGED return /\ \A s \in SaleOps : Exists(sale[s]) => Exists(sale[s])'
      BY DEF PaymentWritten
<1>   QED BY <1>1, <1>2, <1>3, <1>4, <1>5, LedgerSteps

LEMMA ReturnsWithin == ASSUME RowsOK, ReturnsInv PROVE ReturnedWithinSold
PROOF
<1>1. \A s \in SaleOps, p \in Products : Prior(s, p, "qty") <= Items(s)[p]
      BY DEF ReturnsInv, LineSettled
<1>2. ASSUME NEW s \in SaleOps, NEW r \in ReturnsOf(s), Exists(return[r]), Req[r].void
      PROVE  Cardinality({x \in ReturnsOf(s) : Exists(return[x])}) = 1
  <2>1. r \in ReturnOps /\ Req[r].sale = s
        BY DEF ReturnsOf
  <2>2. {x \in ReturnsOf(s) : Exists(return[x])} = {r}
        BY <1>2, <2>1 DEF ReturnsInv, VoidAlone
  <2>   QED BY <2>2, FS_Singleton
<1>   QED BY <1>1, <1>2 DEF ReturnedWithinSold

-----------------------------------------------------------------------------
(* Journals                                                                 *)

\* An operation has a journal when it has a row; a sale's is the posting of the sale.
JournalsMatch ==
    /\ \A s \in SaleOps : journal[s] = IF Exists(sale[s]) THEN SalePosting(s, Total[s] - Req[s].paid)
                                       ELSE Nothing
    /\ \A o \in PaymentOps : journal[o] = Nothing <=> ~Exists(payment[o])
    /\ \A r \in ReturnOps : ~Exists(return[r]) => journal[r] = Nothing

LEMMA NothingPosted == \A a \in Accounts : Nothing[a] = 0
PROOF BY DEF Nothing

LEMMA PostedValues ==
    /\ \A o, due : /\ SalePosting(o, due)["Receivables"] = due
                   /\ SalePosting(o, due)["Advances"] = 0
                   /\ SalePosting(o, due)["Revenue"] = -Total[o]
                   /\ SalePosting(o, due)["COGS"] = CostOf[o]
                   /\ SalePosting(o, due)["Inventory"] = -CostOf[o]
    /\ \A x, y, z : LET j == Posting([Cash |-> x, Receivables |-> y, Advances |-> z])
                    IN  j["Cash"] = x /\ j["Receivables"] = y /\ j["Advances"] = z
    /\ \A v, w, x, y, z :
           LET j == Posting([Revenue |-> v, Inventory |-> w, COGS |-> x, Receivables |-> y, Cash |-> z])
           IN  /\ j["Revenue"] = v /\ j["Inventory"] = w /\ j["COGS"] = x
               /\ j["Receivables"] = y /\ j["Advances"] = 0
PROOF
<1>1. \A o, due : /\ SalePosting(o, due)["Receivables"] = due
                  /\ SalePosting(o, due)["Advances"] = 0
                  /\ SalePosting(o, due)["Revenue"] = -Total[o]
                  /\ SalePosting(o, due)["COGS"] = CostOf[o]
                  /\ SalePosting(o, due)["Inventory"] = -CostOf[o]
      BY DEF SalePosting, Posting, Accounts
<1>2. \A x, y, z : LET j == Posting([Cash |-> x, Receivables |-> y, Advances |-> z])
                   IN  j["Cash"] = x /\ j["Receivables"] = y /\ j["Advances"] = z
      BY DEF Posting, Accounts
<1>3. \A v, w, x, y, z :
          LET j == Posting([Revenue |-> v, Inventory |-> w, COGS |-> x, Receivables |-> y, Cash |-> z])
          IN  /\ j["Revenue"] = v /\ j["Inventory"] = w /\ j["COGS"] = x
              /\ j["Receivables"] = y /\ j["Advances"] = 0
      BY DEF Posting, Accounts
<1>   QED BY <1>1, <1>2, <1>3

LEMMA InitJournals == ASSUME Init PROVE JournalsMatch
PROOF
<1>1. Opening \subseteq SaleOps
      BY LedgerAssumption
<1>2. \A s \in SaleOps : s \in Opening <=> Exists(sale[s])
  <2>1. \A s \in SaleOps : s \in Opening => sale[s] \in SaleRow
        BY OpeningRows
  <2>   QED BY <2>1, RowsExist DEF Init
<1>3. /\ \A o \in PaymentOps : ~Exists(payment[o])
      /\ \A r \in ReturnOps : ~Exists(return[r])
      BY RowsExist DEF Init
<1>   QED BY <1>1, <1>2, <1>3, Kinds DEF Init, JournalsMatch

LEMMA StepJournals ==
    ASSUME TypeOK, RowsOK, JournalsMatch, [Next]_vars
    PROVE  JournalsMatch'
PROOF
<1>1. CASE UNCHANGED ledger
  <2>1. UNCHANGED <<sale, payment, return, journal>>
        BY <1>1 DEF ledger
  <2>   QED BY <2>1 DEF JournalsMatch, Exists, SalePosting, Posting
<1>2. CASE \E o \in SaleOps : \E due : SaleWritten(o, due)
  <2>0. PICK o \in SaleOps : \E due : SaleWritten(o, due)
        BY <1>2
  <2>1. PICK due : SaleWritten(o, due)
        BY <2>0
  <2>2. /\ Exists(sale[o])' /\ due = Total[o] - Req[o].paid
        /\ \A s \in SaleOps \ {o} : sale'[s] = sale[s]
        /\ UNCHANGED <<payment, return>>
        /\ journal'[o] = SalePosting(o, due) /\ \A x \in Ops \ {o} : journal'[x] = journal[x]
        BY <2>1 DEF SaleWritten
  <2>3. \A s \in SaleOps : journal'[s] = IF Exists(sale[s])' THEN SalePosting(s, Total[s] - Req[s].paid)
                                         ELSE Nothing
        BY <2>2, Kinds DEF JournalsMatch, Exists
  <2>4. \A x \in PaymentOps \cup ReturnOps : journal'[x] = journal[x]
        BY <2>2, Kinds
  <2>5. /\ \A x \in PaymentOps : Exists(payment[x])' <=> Exists(payment[x])
        /\ \A x \in ReturnOps : Exists(return[x])' <=> Exists(return[x])
        BY <2>2 DEF Exists
  <2>   QED BY <2>3, <2>4, <2>5 DEF JournalsMatch, SalePosting, Posting, Nothing
<1>3. CASE \E o \in PaymentOps : \E taken : PaymentWritten(o, taken)
  <2>0. PICK o \in PaymentOps : \E taken : PaymentWritten(o, taken)
        BY <1>3
  <2>1. PICK taken : PaymentWritten(o, taken)
        BY <2>0
  <2>2. /\ Exists(payment[o])' /\ UNCHANGED return
        /\ \A x \in PaymentOps \ {o} : payment'[x] = payment[x]
        /\ \A s \in SaleOps : Exists(sale[s]) <=> Exists(sale[s])'
        /\ journal'[o] = Posting([Cash |-> Req[o].amount, Receivables |-> -SumFunction(taken),
                                  Advances |-> SumFunction(taken) - Req[o].amount])
        /\ \A x \in Ops \ {o} : journal'[x] = journal[x]
        BY <2>1 DEF PaymentWritten
  <2>3. journal'[o] # Nothing
    <3>1. journal'[o]["Cash"] = Req[o].amount /\ Req[o].amount > 0
          BY <2>2, PostedValues, RequestParts
    <3>   QED BY <3>1, NothingPosted DEF Accounts
  <2>4. \A x \in PaymentOps : journal'[x] = Nothing <=> ~Exists(payment[x])'
        BY <2>2, <2>3, Kinds DEF JournalsMatch, Exists
  <2>5. \A x \in SaleOps \cup ReturnOps : journal'[x] = journal[x]
        BY <2>2, Kinds
  <2>6. \A x \in ReturnOps : Exists(return[x])' <=> Exists(return[x])
        BY <2>2 DEF Exists
  <2>   QED BY <2>2, <2>4, <2>5, <2>6 DEF JournalsMatch, SalePosting, Posting, Nothing
<1>4. CASE \E o \in ReturnOps : \E u : ReturnWritten(o, u)
  <2>0. PICK o \in ReturnOps : \E u : ReturnWritten(o, u)
        BY <1>4
  <2>1. PICK u : ReturnWritten(o, u)
        BY <2>0
  <2>2. /\ Exists(return[o])' /\ UNCHANGED payment
        /\ \A x \in ReturnOps \ {o} : return'[x] = return[x]
        /\ \A s \in SaleOps : Exists(sale[s]) <=> Exists(sale[s])'
        /\ \A x \in Ops \ {o} : journal'[x] = journal[x]
        BY <2>1 DEF ReturnWritten
  <2>3. \A x \in ReturnOps : ~Exists(return[x])' => journal'[x] = Nothing
        BY <2>2, Kinds DEF JournalsMatch, Exists
  <2>4. \A x \in SaleOps \cup PaymentOps : journal'[x] = journal[x]
        BY <2>2, Kinds
  <2>5. \A x \in PaymentOps : Exists(payment[x])' <=> Exists(payment[x])
        BY <2>2 DEF Exists
  <2>   QED BY <2>2, <2>3, <2>4, <2>5 DEF JournalsMatch, SalePosting, Posting, Nothing
<1>   QED BY <1>1, <1>2, <1>3, <1>4, LedgerSteps

-----------------------------------------------------------------------------
(* Accounts                                                                 *)

JournalIn(S, account) == SumFunction([o \in S |-> journal[o][account]])
Owing(b) == SumFunction([s \in SalesAt(b) |-> Balance(s)])
InAdvance(b) == SumFunction([o \in {x \in PaymentOps : Req[x].branch = b} |-> Unallocated(o)])
AllGiven(s, field) == SumFunction([p \in Products |-> Prior(s, p, field)])

\* The accounts a branch keeps of its customers, and what the returns of a sale posted
AccountsInv ==
    /\ \A b \in Branches : /\ GL("Receivables", b) = Owing(b)
                           /\ GL("Advances", b) = -InAdvance(b)
    /\ \A s \in SaleOps : /\ JournalIn(ReturnsOf(s), "Revenue") = AllGiven(s, "amount")
                          /\ JournalIn(ReturnsOf(s), "Inventory") = AllGiven(s, "cost")
                          /\ JournalIn(ReturnsOf(s), "COGS") = -AllGiven(s, "cost")

LEMMA JournalMoves ==
    ASSUME RowsOK, RowsOK', NEW o \in Ops, journal[o] = Nothing,
           \A x \in Ops \ {o} : journal'[x] = journal[x],
           NEW S \in SUBSET Ops, NEW account \in Accounts
    PROVE  /\ JournalIn(S, account) \in Int
           /\ JournalIn(S, account)' = JournalIn(S, account) + IF o \in S THEN journal'[o][account] ELSE 0
PROOF
<1> DEFINE f == [x \in S |-> journal[x][account]]
           g == [x \in S |-> journal'[x][account]]
           d == journal'[o][account]
<1>1. d \in Int /\ journal[o][account] = 0
      BY NothingPosted DEF RowsOK
<1>2. IsFiniteSet(S) /\ \A x \in S : f[x] \in Int
      BY FiniteParts DEF RowsOK
<1> HIDE DEF d
<1>3. SumFunction(f) \in Int
      BY <1>2, SumAllInt
<1>4. CASE o \in S
  <2>1. g[o] = f[o] + d /\ \A x \in S \ {o} : g[x] = f[x]
        BY <1>1, <1>4 DEF d
  <2> HIDE DEF f, g
  <2>2. DOMAIN f = S /\ DOMAIN g = S
        BY DEF f, g
  <2>3. SumFunction(g) = SumFunction(f) + d
        BY <1>1, <1>2, <1>4, <2>1, <2>2, SumAllMoved
  <2>   QED BY <1>3, <1>4, <2>3 DEF f, g, d, JournalIn
<1>5. CASE o \notin S
  <2>1. g = f
        BY <1>5
  <2>2. SumFunction(g) = SumFunction(f) + 0
        BY <1>3, <2>1
  <2>   QED BY <1>3, <1>5, <2>2 DEF JournalIn
<1>   QED BY <1>4, <1>5

LEMMA OwingMoves ==
    ASSUME RowsOK, NEW b, NEW o \in SaleOps, NEW d \in Int, Balance(o)' = Balance(o) + d,
           \A s \in SaleOps \ {o} : Balance(s)' = Balance(s)
    PROVE  /\ Owing(b) \in Int
           /\ Owing(b)' = Owing(b) + IF Req[o].branch = b THEN d ELSE 0
PROOF
<1> DEFINE S == SalesAt(b)
           f == [s \in S |-> Balance(s)]
           g == [s \in S |-> Balance(s)']
<1>1. IsFiniteSet(S) /\ S \subseteq SaleOps /\ \A s \in S : f[s] \in Int
      BY PartsFinite, RowValues
<1>2. o \in S <=> Req[o].branch = b
      BY DEF SalesAt
<1>3. SumFunction(f) \in Int
      BY <1>1, SumAllInt
<1>4. Owing(b) = SumFunction(f) /\ Owing(b)' = SumFunction(g)
      BY DEF Owing, SalesAt
<1> HIDE DEF S
<1>5. CASE o \in S
  <2>1. g[o] = f[o] + d /\ \A x \in S \ {o} : g[x] = f[x]
        BY <1>1, <1>5
  <2> HIDE DEF f, g
  <2>2. DOMAIN f = S /\ DOMAIN g = S
        BY DEF f, g
  <2>3. SumFunction(g) = SumFunction(f) + d
        BY <1>1, <1>5, <2>1, <2>2, SumAllMoved
  <2>   QED BY <1>2, <1>3, <1>4, <1>5, <2>3
<1>6. CASE o \notin S
  <2>1. g = f
        BY <1>1, <1>6
  <2>   QED BY <1>2, <1>3, <1>4, <1>6, <2>1
<1>   QED BY <1>5, <1>6

LEMMA OwingPaid ==
    ASSUME RowsOK, NEW b, NEW o \in PaymentOps, NEW taken, PaymentWritten(o, taken)
    PROVE  /\ Owing(b) \in Int
           /\ Owing(b)' = Owing(b) - IF Req[o].branch = b THEN SumFunction(taken) ELSE 0
PROOF
<1> DEFINE S == SalesAt(b)
           f == [s \in S |-> Balance(s)]
           g == [s \in S |-> Balance(s)']
           h == [s \in S |-> taken[s]]
<1>1. /\ taken \in [SaleOps -> Nat] /\ SumFunction(taken) \in Nat
      /\ \A s \in SaleOps : Balance(s)' = Balance(s) - taken[s]
      /\ \A s \in SaleOps : taken[s] # 0 => Req[s].branch = Req[o].branch
      BY DEF PaymentWritten, OpenSale
<1>2. IsFiniteSet(S) /\ S \subseteq SaleOps /\ \A s \in S : f[s] \in Int /\ g[s] \in Int
  <2>1. \A s \in SaleOps : Balance(s) \in Int /\ Balance(s)' \in Int
        BY <1>1, RowValues
  <2>   QED BY <2>1, PartsFinite
<1>3. \A s \in S : h[s] \in Int /\ f[s] = g[s] + h[s]
      BY <1>2, <1>1
<1>4. Owing(b) = SumFunction(f) /\ Owing(b)' = SumFunction(g)
      BY DEF Owing, SalesAt
<1>5. SumFunction(h) = IF Req[o].branch = b THEN SumFunction(taken) ELSE 0
  <2>1. CASE Req[o].branch = b
    <3>1. \A s \in SaleOps \ S : taken[s] = 0
          BY <1>1, <2>1 DEF SalesAt
    <3>2. S \in SUBSET DOMAIN taken /\ \A s \in DOMAIN taken : taken[s] \in Int
          BY <1>2, <1>1
    <3> HIDE DEF S
    <3>3. SumFunction([s \in S |-> taken[s]]) = SumFunction(taken)
          BY <1>1, <3>1, <3>2, FiniteParts, SumAllSubset
    <3>   QED BY <2>1, <3>3
  <2>2. CASE Req[o].branch # b
    <3>1. \A s \in S : h[s] = 0
          BY <1>1, <2>2 DEF SalesAt
    <3> HIDE DEF S
    <3>2. SumFunction(h) = 0
          BY <1>2, <3>1, SumAllZero
    <3>   QED BY <2>2, <3>2
  <2>   QED BY <2>1, <2>2
<1>6. DOMAIN f = S /\ DOMAIN g = S /\ DOMAIN h = S
      OBVIOUS
<1> HIDE DEF f, g, h, S
<1>7. SumFunction(f) = SumFunction(g) + SumFunction(h)
      BY <1>2, <1>3, <1>6, SumAllPlus
<1>8. SumFunction(f) \in Int /\ SumFunction(g) \in Int /\ SumFunction(h) \in Int
      BY <1>2, <1>3, <1>6, SumAllInt
<1>   QED BY <1>4, <1>5, <1>7, <1>8

LEMMA AdvancesMove ==
    ASSUME RowsOK, NEW b, NEW o \in PaymentOps, NEW taken, PaymentWritten(o, taken)
    PROVE  /\ InAdvance(b) \in Int
           /\ InAdvance(b)' = InAdvance(b)
                 + IF Req[o].branch = b THEN Req[o].amount - SumFunction(taken) ELSE 0
PROOF
<1> DEFINE S == {x \in PaymentOps : Req[x].branch = b}
           f == [x \in S |-> Unallocated(x)]
           g == [x \in S |-> Unallocated(x)']
           d == Req[o].amount - SumFunction(taken)
<1>1. /\ ~Exists(payment[o]) /\ Exists(payment[o])' /\ payment'[o].allocated = taken
      /\ taken \in [SaleOps -> Nat] /\ SumFunction(taken) \in Nat
      /\ \A x \in PaymentOps \ {o} : payment'[x] = payment[x]
      BY DEF PaymentWritten
<1>2. IsFiniteSet(S) /\ S \subseteq PaymentOps /\ \A x \in S : f[x] \in Int
  <2>1. \A x \in PaymentOps : Req[x].amount \in Int /\ Allocated(x) \in Int
        BY RequestParts, SumValues
  <2>2. IsFiniteSet(S)
        BY FiniteParts, FS_Subset
  <2>   QED BY <2>1, <2>2 DEF Unallocated
<1>3. d \in Int
      BY <1>1, RequestParts
<1>4. Unallocated(o) = 0 /\ Unallocated(o)' = d
  <2>1. \A s \in SaleOps : Settled(o, s)' = taken[s]
        BY <1>1 DEF Settled
  <2>2. [s \in SaleOps |-> Settled(o, s)'] = taken
        BY <1>1, <2>1
  <2>3. Allocated(o)' = SumFunction([s \in SaleOps |-> Settled(o, s)'])
        BY DEF Allocated
  <2>4. Allocated(o)' = SumFunction(taken)
        BY <2>2, <2>3
  <2>   QED BY <1>1, <2>4 DEF Unallocated
<1>5. \A x \in PaymentOps \ {o} : Unallocated(x)' = Unallocated(x)
      BY <1>1 DEF Unallocated, Allocated, Settled, Exists
<1>6. o \in S <=> Req[o].branch = b
      OBVIOUS
<1>7. InAdvance(b) = SumFunction(f) /\ InAdvance(b)' = SumFunction(g)
      BY DEF InAdvance
<1>8. SumFunction(f) \in Int
      BY <1>2, SumAllInt
<1> HIDE DEF S, d
<1>9. CASE o \in S
  <2>1. g[o] = f[o] + d /\ \A x \in S \ {o} : g[x] = f[x]
        BY <1>2, <1>3, <1>4, <1>5, <1>9
  <2> HIDE DEF f, g
  <2>2. DOMAIN f = S /\ DOMAIN g = S
        BY DEF f, g
  <2>3. SumFunction(g) = SumFunction(f) + d
        BY <1>2, <1>3, <1>9, <2>1, <2>2, SumAllMoved
  <2>   QED BY <1>6, <1>7, <1>8, <1>9, <2>3 DEF d
<1>10. CASE o \notin S
  <2>1. g = f
        BY <1>2, <1>5, <1>10
  <2>   QED BY <1>6, <1>7, <1>8, <1>10, <2>1
<1>   QED BY <1>9, <1>10

LEMMA AllGivenMoves ==
    ASSUME RowsOK, NEW o \in ReturnOps, NEW u, ReturnWritten(o, u), NEW s,
           NEW field \in {"amount", "cost"}
    PROVE  /\ AllGiven(s, field) \in Int
           /\ AllGiven(s, field)' = AllGiven(s, field)
                 + IF s = u THEN SumFunction([p \in Products |-> ReturnLine(o, p)[field]]) ELSE 0
PROOF
<1> DEFINE f == [p \in Products |-> Prior(s, p, field)]
           g == [p \in Products |-> Prior(s, p, field)']
           h == [p \in Products |-> ReturnLine(o, p)[field]]
<1>1. \A p \in Products : /\ ReturnLine(o, p)[field] \in Nat /\ Prior(s, p, field) \in Nat
                          /\ Prior(s, p, field)' = Prior(s, p, field)
                                + IF s = u THEN ReturnLine(o, p)[field] ELSE 0
  <2> TAKE p \in Products
  <2>1. field \in {"qty", "amount", "cost"}
        OBVIOUS
  <2>2. Prior(s, p, field) \in Nat
        BY SumValues
  <2>   QED BY <2>1, <2>2, PriorMoves
<1>2. AllGiven(s, field) = SumFunction(f) /\ AllGiven(s, field)' = SumFunction(g)
      BY DEF AllGiven
<1>3. SumFunction(f) \in Int
      BY <1>1, FiniteParts, SumAllInt
<1>4. CASE s = u
  <2>1. \A p \in Products : f[p] \in Int /\ h[p] \in Int /\ g[p] = f[p] + h[p]
        BY <1>1, <1>4
  <2>2. DOMAIN f = Products /\ DOMAIN g = Products /\ DOMAIN h = Products
        OBVIOUS
  <2> HIDE DEF f, g, h
  <2>3. SumFunction(g) = SumFunction(f) + SumFunction(h)
        BY <2>1, <2>2, FiniteParts, SumAllPlus
  <2>   QED BY <1>2, <1>3, <1>4, <2>3 DEF h
<1>5. CASE s # u
  <2>1. g = f
        BY <1>1, <1>5
  <2>   QED BY <1>2, <1>3, <1>5, <2>1
<1>   QED BY <1>4, <1>5

\* The sums of AccountsInv, where nothing they add up moves
LEMMA SumsStay ==
    ASSUME RowsOK
    PROVE  /\ UNCHANGED sale => \A b : Owing(b)' = Owing(b)
           /\ UNCHANGED payment => \A b : InAdvance(b)' = InAdvance(b)
           /\ UNCHANGED return => \A s, field : AllGiven(s, field)' = AllGiven(s, field)
           /\ UNCHANGED journal => \A S, account : JournalIn(S, account)' = JournalIn(S, account)
PROOF
<1>1. UNCHANGED sale => \A b : Owing(b)' = Owing(b)
      BY DEF Owing, SalesAt, Balance, Exists
<1>2. UNCHANGED payment => \A b : InAdvance(b)' = InAdvance(b)
      BY DEF InAdvance, Unallocated, Allocated, Settled, Exists
<1>3. UNCHANGED return => \A s, field : AllGiven(s, field)' = AllGiven(s, field)
      BY PriorStays DEF AllGiven
<1>4. UNCHANGED journal => \A S, account : JournalIn(S, account)' = JournalIn(S, account)
      BY DEF JournalIn
<1>   QED BY <1>1, <1>2, <1>3, <1>4

BranchOps(b) == {x \in Ops : Req[x].branch = b}

LEMMA AccountsRead ==
    ASSUME AccountsInv
    PROVE  /\ \A b \in Branches : /\ JournalIn(BranchOps(b), "Receivables") = Owing(b)
                                  /\ JournalIn(BranchOps(b), "Advances") = -InAdvance(b)
           /\ \A s \in SaleOps : /\ JournalIn(ReturnsOf(s), "Revenue") = AllGiven(s, "amount")
                                 /\ JournalIn(ReturnsOf(s), "Inventory") = AllGiven(s, "cost")
                                 /\ JournalIn(ReturnsOf(s), "COGS") = -AllGiven(s, "cost")
PROOF BY DEF AccountsInv, GL, JournalIn, BranchOps

LEMMA InitAccounts == ASSUME Init PROVE AccountsInv
PROOF
<1>1. RowsOK /\ JournalsMatch
      BY InitRows, InitJournals
<1>2. /\ \A r \in ReturnOps : journal[r] = Nothing /\ ~Exists(return[r])
      /\ \A o \in PaymentOps : journal[o] = Nothing /\ ~Exists(payment[o])
      BY <1>1, RowsExist DEF JournalsMatch, Init
<1>3. ASSUME NEW b \in Branches PROVE GL("Receivables", b) = Owing(b)
  <2> DEFINE S == BranchOps(b)
             f == [o \in S |-> journal[o]["Receivables"]]
             g == [s \in SalesAt(b) |-> Balance(s)]
  <2>1. S \subseteq Ops /\ SalesAt(b) \subseteq S /\ IsFiniteSet(S)
        BY Kinds, FiniteParts DEF SalesAt, BranchOps
  <2>2. \A o \in S \ SalesAt(b) : f[o] = 0
    <3>1. \A o \in S \ SalesAt(b) : o \in PaymentOps \/ o \in ReturnOps
          BY <2>1, Kinds DEF SalesAt, BranchOps
    <3>   QED BY <1>2, <3>1, NothingPosted DEF Accounts
  <2>3. \A s \in SalesAt(b) : f[s] = g[s]
    <3>1. \A s \in SaleOps : journal[s]["Receivables"] = Balance(s)
      <4> TAKE s \in SaleOps
      <4>1. CASE Exists(sale[s])
        <5>1. sale[s].balance = Total[s] - Req[s].paid
              BY <4>1, RowsExist DEF Init
        <5>   QED BY <1>1, <4>1, <5>1, PostedValues DEF JournalsMatch, Balance
      <4>2. CASE ~Exists(sale[s])
            BY <1>1, <4>2, NothingPosted DEF JournalsMatch, Balance, Accounts
      <4>   QED BY <4>1, <4>2
    <3>   QED BY <2>1, <3>1 DEF SalesAt
  <2>4. \A o \in S : f[o] \in Int
        BY <1>1, <2>1 DEF RowsOK, Accounts
  <2>5. DOMAIN f = S /\ [s \in SalesAt(b) |-> f[s]] = g
        BY <2>1, <2>3
  <2>6. SumFunction([s \in SalesAt(b) |-> f[s]]) = SumFunction(f)
    <3> HIDE DEF f, S
    <3>   QED BY <2>1, <2>2, <2>4, <2>5, SumAllSubset
  <2>7. SumFunction(f) = SumFunction(g)
    <3> HIDE DEF f, g
    <3>   QED BY <2>5, <2>6
  <2>   QED BY <2>7 DEF GL, Owing, BranchOps
<1>4. ASSUME NEW b \in Branches PROVE GL("Advances", b) = -InAdvance(b)
  <2> DEFINE S == BranchOps(b)
             f == [o \in S |-> journal[o]["Advances"]]
             P == {x \in PaymentOps : Req[x].branch = b}
             g == [o \in P |-> Unallocated(o)]
  <2>1. S \subseteq Ops /\ IsFiniteSet(S) /\ IsFiniteSet(P)
        BY FiniteParts, FS_Subset DEF BranchOps
  <2>2. \A o \in Ops : journal[o]["Advances"] = 0
    <3>1. \A o \in SaleOps : journal[o]["Advances"] = 0
      <4>1. \A o \in SaleOps : journal[o] = Nothing
                               \/ journal[o] = SalePosting(o, Total[o] - Req[o].paid)
            BY <1>1 DEF JournalsMatch
      <4>   QED BY <4>1, PostedValues, NothingPosted DEF Accounts
    <3>   QED BY <1>2, <3>1, Kinds, NothingPosted DEF Accounts
  <2>3. SumFunction(f) = 0
        BY <2>1, <2>2, SumAllZero
  <2>4. \A o \in P : g[o] = 0
        BY <1>2 DEF Unallocated
  <2>5. SumFunction(g) = 0
        BY <2>1, <2>4, SumAllZero
  <2>6. GL("Advances", b) = 0
        BY <2>3 DEF GL, BranchOps
  <2>7. InAdvance(b) = 0
        BY <2>5 DEF InAdvance
  <2>   QED BY <2>6, <2>7
<1>5. ASSUME NEW s \in SaleOps, NEW account \in {"Revenue", "Inventory", "COGS"}
      PROVE  JournalIn(ReturnsOf(s), account) = 0
  <2>1. \A r \in ReturnsOf(s) : journal[r][account] = 0
        BY <1>2, PartsFinite, NothingPosted DEF Accounts
  <2>   QED BY <2>1, PartsFinite, SumAllZero DEF JournalIn
<1>6. ASSUME NEW s \in SaleOps, NEW field \in {"amount", "cost"} PROVE AllGiven(s, field) = 0
  <2>1. \A p \in Products : \A r \in ReturnsOf(s) : Given(r, p, field) = 0
        BY <1>2, PartsFinite DEF Given
  <2>2. \A p \in Products : Prior(s, p, field) = 0
        BY <2>1, PartsFinite, SumAllZero DEF Prior
  <2>   QED BY <2>2, FiniteParts, SumAllZero DEF AllGiven
<1>   QED BY <1>3, <1>4, <1>5, <1>6 DEF AccountsInv

LEMMA StepAccounts ==
    ASSUME TypeOK, RowsOK, RowsOK', JournalsMatch, AccountsInv, [Next]_vars
    PROVE  AccountsInv'
PROOF
<1> SUFFICES /\ \A b \in Branches : /\ JournalIn(BranchOps(b), "Receivables")' = Owing(b)'
                                    /\ JournalIn(BranchOps(b), "Advances")' = -InAdvance(b)'
             /\ \A s \in SaleOps : /\ JournalIn(ReturnsOf(s), "Revenue")' = AllGiven(s, "amount")'
                                   /\ JournalIn(ReturnsOf(s), "Inventory")' = AllGiven(s, "cost")'
                                   /\ JournalIn(ReturnsOf(s), "COGS")' = -AllGiven(s, "cost")'
      BY DEF AccountsInv, GL, JournalIn, BranchOps, ReturnsOf
<1>1. /\ \A b : BranchOps(b) \in SUBSET Ops
      /\ \A s : ReturnsOf(s) \in SUBSET Ops
      BY Kinds, PartsFinite DEF BranchOps
<1>2. {"Receivables", "Advances", "Revenue", "Inventory", "COGS"} \subseteq Accounts
      BY DEF Accounts
<1>3. CASE UNCHANGED ledger
  <2>1. UNCHANGED <<sale, payment, return, journal>>
        BY <1>3 DEF ledger
  <2>   QED BY <2>1, AccountsRead, SumsStay DEF BranchOps, ReturnsOf
<1>4. CASE \E o \in SaleOps : \E due : SaleWritten(o, due)
  <2>1. PICK o \in SaleOps, due \in Nat : SaleWritten(o, due)
        BY <1>4 DEF SaleWritten
  <2>2. /\ ~Exists(sale[o]) /\ Exists(sale[o])' /\ sale'[o].balance = due
        /\ \A s \in SaleOps \ {o} : sale'[s] = sale[s]
        /\ UNCHANGED <<payment, return>>
        /\ journal'[o] = SalePosting(o, due) /\ \A x \in Ops \ {o} : journal'[x] = journal[x]
        BY <2>1 DEF SaleWritten
  <2>3. o \in Ops /\ journal[o] = Nothing
        BY <2>2, Kinds DEF JournalsMatch
  <2>4. \A S \in SUBSET Ops, a \in Accounts :
            /\ JournalIn(S, a) \in Int
            /\ JournalIn(S, a)' = JournalIn(S, a) + IF o \in S THEN journal'[o][a] ELSE 0
        BY <2>2, <2>3, JournalMoves
  <2>5. Balance(o) = 0 /\ Balance(o)' = due /\ \A s \in SaleOps \ {o} : Balance(s)' = Balance(s)
        BY <2>2 DEF Balance, Exists
  <2>6. \A b : Owing(b) \in Int /\ Owing(b)' = Owing(b) + IF Req[o].branch = b THEN due ELSE 0
    <3>1. due \in Int /\ Balance(o)' = Balance(o) + due
          BY <2>5
    <3>   QED BY <2>5, <3>1, OwingMoves
  <2>7. ASSUME NEW b \in Branches
        PROVE  /\ JournalIn(BranchOps(b), "Receivables")' = Owing(b)'
               /\ JournalIn(BranchOps(b), "Advances")' = -InAdvance(b)'
    <3>1. o \in BranchOps(b) <=> Req[o].branch = b
          BY <2>3 DEF BranchOps
    <3>2. journal'[o]["Receivables"] = due /\ journal'[o]["Advances"] = 0
          BY <2>2, PostedValues
    <3>3. InAdvance(b)' = InAdvance(b)
          BY <2>2, SumsStay
    <3>4. JournalIn(BranchOps(b), "Receivables")' = Owing(b)'
          BY <1>1, <1>2, <2>4, <2>6, <3>1, <3>2, AccountsRead
    <3>5. JournalIn(BranchOps(b), "Advances")' = JournalIn(BranchOps(b), "Advances")
          BY <1>1, <1>2, <2>4, <3>2
    <3>   QED BY <3>3, <3>4, <3>5, AccountsRead
  <2>8. ASSUME NEW s \in SaleOps, NEW a \in {"Revenue", "Inventory", "COGS"}
        PROVE  JournalIn(ReturnsOf(s), a)' = JournalIn(ReturnsOf(s), a)
    <3>1. o \notin ReturnsOf(s)
          BY PartsFinite, Kinds
    <3>   QED BY <1>1, <1>2, <2>4, <3>1
  <2>   QED BY <2>2, <2>7, <2>8, AccountsRead, SumsStay
<1>5. CASE \E o \in PaymentOps : \E taken : PaymentWritten(o, taken)
  <2>0. PICK o \in PaymentOps : \E taken, n : PaymentWritten(o, taken) /\ n = SumFunction(taken)
        BY <1>5
  <2>1. PICK taken, n : PaymentWritten(o, taken) /\ n = SumFunction(taken)
        BY <2>0
  <2>2. /\ ~Exists(payment[o]) /\ UNCHANGED return /\ n \in Nat /\ Req[o].amount \in Nat
        /\ journal'[o] = Posting([Cash |-> Req[o].amount, Receivables |-> -n,
                                  Advances |-> n - Req[o].amount])
        /\ \A x \in Ops \ {o} : journal'[x] = journal[x]
        BY <2>1, RequestParts DEF PaymentWritten
  <2>3. o \in Ops /\ journal[o] = Nothing
        BY <2>2, Kinds DEF JournalsMatch
  <2>4. \A S \in SUBSET Ops, a \in Accounts :
            /\ JournalIn(S, a) \in Int
            /\ JournalIn(S, a)' = JournalIn(S, a) + IF o \in S THEN journal'[o][a] ELSE 0
        BY <2>2, <2>3, JournalMoves
  <2>5. \A b : Owing(b) \in Int /\ Owing(b)' = Owing(b) - IF Req[o].branch = b THEN n ELSE 0
        BY <2>1, OwingPaid
  <2>6. \A b : InAdvance(b) \in Int
               /\ InAdvance(b)' = InAdvance(b) + IF Req[o].branch = b THEN Req[o].amount - n ELSE 0
        BY <2>1, AdvancesMove
  <2>7. ASSUME NEW b \in Branches
        PROVE  /\ JournalIn(BranchOps(b), "Receivables")' = Owing(b)'
               /\ JournalIn(BranchOps(b), "Advances")' = -InAdvance(b)'
    <3>1. o \in BranchOps(b) <=> Req[o].branch = b
          BY <2>3 DEF BranchOps
    <3>2. journal'[o]["Receivables"] = -n /\ journal'[o]["Advances"] = n - Req[o].amount
          BY <2>2, PostedValues
    <3>3. JournalIn(BranchOps(b), "Receivables")' = Owing(b)'
          BY <1>1, <1>2, <2>2, <2>4, <2>5, <3>1, <3>2, AccountsRead
    <3>4. JournalIn(BranchOps(b), "Advances")' = -InAdvance(b)'
          BY <1>1, <1>2, <2>2, <2>4, <2>6, <3>1, <3>2, AccountsRead
    <3>   QED BY <3>3, <3>4
  <2>8. ASSUME NEW s \in SaleOps, NEW a \in {"Revenue", "Inventory", "COGS"}
        PROVE  JournalIn(ReturnsOf(s), a)' = JournalIn(ReturnsOf(s), a)
    <3>1. o \notin ReturnsOf(s)
          BY PartsFinite, Kinds
    <3>   QED BY <1>1, <1>2, <2>4, <3>1
  <2>   QED BY <2>2, <2>7, <2>8, AccountsRead, SumsStay
<1>6. CASE \E o \in ReturnOps : \E u : ReturnWritten(o, u)
  <2>1. PICK o \in ReturnOps, u \in SaleOps, d \in Nat, total \in Nat, cost \in Nat :
            /\ ReturnWritten(o, u) /\ d = Reduction(o) /\ total = ReturnTotal(o) /\ cost = ReturnCost(o)
        BY <1>6 DEF ReturnWritten
  <2>2. /\ ~Exists(return[o]) /\ UNCHANGED payment /\ u = Req[o].sale /\ Req[u].branch = Req[o].branch
        /\ \A s \in SaleOps : Balance(s)' = Balance(s) - IF s = u THEN d ELSE 0
        /\ journal'[o] = Posting([Revenue |-> total, Inventory |-> cost, COGS |-> -cost,
                                  Receivables |-> -d, Cash |-> -Refund(o)])
        /\ \A x \in Ops \ {o} : journal'[x] = journal[x]
        BY <2>1 DEF ReturnWritten
  <2>3. o \in Ops /\ journal[o] = Nothing
        BY <2>2, Kinds DEF JournalsMatch
  <2>4. \A S \in SUBSET Ops, a \in Accounts :
            /\ JournalIn(S, a) \in Int
            /\ JournalIn(S, a)' = JournalIn(S, a) + IF o \in S THEN journal'[o][a] ELSE 0
        BY <2>2, <2>3, JournalMoves
  <2>5. /\ journal'[o]["Revenue"] = total /\ journal'[o]["Inventory"] = cost
        /\ journal'[o]["COGS"] = -cost /\ journal'[o]["Receivables"] = -d
        /\ journal'[o]["Advances"] = 0
        BY <2>2, PostedValues
  <2>6. \A b : Owing(b) \in Int /\ Owing(b)' = Owing(b) + IF Req[u].branch = b THEN -d ELSE 0
    <3>1. -d \in Int /\ Balance(u)' = Balance(u) + (-d)
          BY <2>2, RowValues
    <3>2. \A s \in SaleOps \ {u} : Balance(s)' = Balance(s)
          BY <2>2, RowValues
    <3>3. PICK e \in Int : e = -d
          BY <3>1
    <3>4. Balance(u)' = Balance(u) + e
          BY <3>1, <3>3
    <3>5. \A b : Owing(b) \in Int /\ Owing(b)' = Owing(b) + IF Req[u].branch = b THEN e ELSE 0
          BY <3>2, <3>4, OwingMoves
    <3>   QED BY <3>3, <3>5
  <2>7. ASSUME NEW b \in Branches
        PROVE  /\ JournalIn(BranchOps(b), "Receivables")' = Owing(b)'
               /\ JournalIn(BranchOps(b), "Advances")' = -InAdvance(b)'
    <3>1. o \in BranchOps(b) <=> Req[u].branch = b
          BY <2>2, <2>3 DEF BranchOps
    <3>2. InAdvance(b)' = InAdvance(b)
          BY <2>2, SumsStay
    <3>3. JournalIn(BranchOps(b), "Receivables")' = Owing(b)'
          BY <1>1, <1>2, <2>4, <2>5, <2>6, <3>1, AccountsRead
    <3>4. JournalIn(BranchOps(b), "Advances")' = JournalIn(BranchOps(b), "Advances")
          BY <1>1, <1>2, <2>4, <2>5
    <3>   QED BY <3>2, <3>3, <3>4, AccountsRead
  <2>8. ASSUME NEW s \in SaleOps
        PROVE  /\ JournalIn(ReturnsOf(s), "Revenue")' = AllGiven(s, "amount")'
               /\ JournalIn(ReturnsOf(s), "Inventory")' = AllGiven(s, "cost")'
               /\ JournalIn(ReturnsOf(s), "COGS")' = -AllGiven(s, "cost")'
    <3>1. o \in ReturnsOf(s) <=> s = u
          BY <2>2 DEF ReturnsOf
    <3>2. /\ AllGiven(s, "amount") \in Int /\ AllGiven(s, "cost") \in Int
          /\ AllGiven(s, "amount")' = AllGiven(s, "amount") + IF s = u THEN total ELSE 0
          /\ AllGiven(s, "cost")' = AllGiven(s, "cost") + IF s = u THEN cost ELSE 0
      <4>1. /\ total = SumFunction([p \in Products |-> ReturnLine(o, p)["amount"]])
            /\ cost = SumFunction([p \in Products |-> ReturnLine(o, p)["cost"]])
            BY <2>1 DEF ReturnTotal, ReturnCost
      <4>   QED BY <2>1, <4>1, AllGivenMoves
    <3>3. \A a \in {"Revenue", "Inventory", "COGS"} :
              /\ JournalIn(ReturnsOf(s), a) \in Int
              /\ JournalIn(ReturnsOf(s), a)' = JournalIn(ReturnsOf(s), a)
                      + IF s = u THEN journal'[o][a] ELSE 0
          BY <1>1, <1>2, <2>4, <3>1
    <3>   QED BY <2>5, <3>2, <3>3, AccountsRead
  <2>   QED BY <2>7, <2>8
<1>   QED BY <1>3, <1>4, <1>5, <1>6, LedgerSteps

-----------------------------------------------------------------------------
(* The ledger                                                               *)

LedgerInv ==
    /\ TypeOK
    /\ BalanceInv
    /\ StockExact
    /\ ReturnsInv
    /\ JournalsMatch
    /\ AccountsInv

LEMMA InitLedger == Init => LedgerInv
PROOF BY InitRows, InitBalance, InitStock, InitReturns, InitJournals, InitAccounts DEF LedgerInv

LEMMA StepLedger == LedgerInv /\ [Next]_vars => LedgerInv'
PROOF
<1> SUFFICES ASSUME LedgerInv, [Next]_vars PROVE LedgerInv'
      OBVIOUS
<1>1. TypeOK /\ RowsOK /\ TypeOK' /\ RowsOK'
      BY StepTypes DEF LedgerInv, TypeOK, RowsOK
<1>2. BalanceInv'
      BY <1>1, StepBalance DEF LedgerInv
<1>3. StockExact'
      BY <1>1, StepStock DEF LedgerInv, BalanceInv
<1>4. ReturnsInv'
      BY <1>1, StepReturns DEF LedgerInv
<1>5. JournalsMatch'
      BY <1>1, StepJournals DEF LedgerInv
<1>6. AccountsInv'
      BY <1>1, StepAccounts DEF LedgerInv
<1>   QED BY <1>1, <1>2, <1>3, <1>4, <1>5, <1>6 DEF LedgerInv

LEMMA LedgerAlways == Spec => []LedgerInv
PROOF BY InitLedger, StepLedger, PTL DEF Spec

LEMMA LedgerRows == ASSUME LedgerInv PROVE RowsOK
PROOF BY DEF LedgerInv, TypeOK, RowsOK

\* Stock is what the completed sales and the returns leave of it, however many copies
\* of each operation ran and in whatever order.
THEOREM StockIsExact == Spec => []StockExact
PROOF
<1>1. LedgerInv => StockExact
      BY DEF LedgerInv
<1>   QED BY <1>1, LedgerAlways, PTL

\* No line gives back more than it sold, and the return that voids a sale is the only
\* one of the sale.
THEOREM ReturnsStayWithinSold == Spec => []ReturnedWithinSold
PROOF
<1>1. LedgerInv => ReturnedWithinSold
      BY LedgerRows, ReturnsWithin DEF LedgerInv
<1>   QED BY <1>1, LedgerAlways, PTL

\* Every balance is what the sale was for less what came in or back, and the accounts
\* of each branch agree with the rows of its sales and payments.
THEOREM ReceivablesStayHealthy == Spec => []ReceivablesHealthy
PROOF
<1>1. ASSUME LedgerInv PROVE ReceivablesHealthy
  <2>1. RowsOK /\ BalanceExact /\ AccountsInv /\ JournalsMatch
        BY <1>1, LedgerRows DEF LedgerInv, BalanceInv
  <2>2. ASSUME NEW b \in Branches
        PROVE  ReceivablesHealth(b) = [receivables |-> 0, advances |-> 0, unposted |-> {}]
    <3>1. GL("Receivables", b) = Owing(b) /\ GL("Advances", b) = -InAdvance(b)
          BY <2>1 DEF AccountsInv
    <3>2. Owing(b) \in Int
          BY <2>1, PartsFinite, RowValues, SumAllInt DEF Owing
    <3>3. InAdvance(b) \in Int
      <4> DEFINE P == {o \in PaymentOps : Req[o].branch = b}
      <4>1. IsFiniteSet(P) /\ \A o \in P : Unallocated(o) \in Int
            BY <2>1, FiniteParts, FS_Subset, RequestParts, SumValues DEF Unallocated
      <4>   QED BY <4>1, SumAllInt DEF InAdvance
    <3>4. {o \in {x \in PaymentOps : Req[x].branch = b} : Exists(payment[o]) /\ journal[o] = Nothing} = {}
          BY <2>1 DEF JournalsMatch
    <3>5. /\ GL("Receivables", b) - Owing(b) = 0
          /\ -GL("Advances", b) - InAdvance(b) = 0
          BY <3>1, <3>2, <3>3
    <3>   QED BY <3>4, <3>5 DEF ReceivablesHealth, Owing, InAdvance
  <2>   QED BY <2>1, <2>2 DEF ReceivablesHealthy
<1>2. LedgerInv => ReceivablesHealthy
      BY <1>1
<1>   QED BY <1>2, LedgerAlways, PTL

\* What is left in the accounts of a sale that came back whole is the cost of the lines
\* nobody counts, whatever the prices and however the returns were rounded.
THEOREM NothingStaysStranded == Spec => []NothingStranded
PROOF
<1>1. ASSUME LedgerInv, NEW s \in SaleOps, AllBack(s)
      PROVE  /\ Posted(s, "Revenue") = 0
             /\ Posted(s, "Inventory") = CostIn(s, Products \ Tracked)
             /\ Posted(s, "COGS") = -CostIn(s, Products \ Tracked)
  <2>1. RowsOK /\ AccountsInv /\ JournalsMatch /\ ReturnsInv
        BY <1>1, LedgerRows DEF LedgerInv
  <2>2. journal[s] = SalePosting(s, Total[s] - Req[s].paid)
        BY <1>1, <2>1 DEF JournalsMatch, AllBack
  <2>3. \A p \in Products : /\ Prior(s, p, "amount") = LineTotal(Price[p], Items(s)[p])
                            /\ Prior(s, p, "cost") = LineTotal(Cost[p], Items(s)[p])
        BY <1>1, <2>1 DEF ReturnsInv, LineSettled, AllBack
  <2>4. AllGiven(s, "amount") = Total[s]
        BY <2>3 DEF AllGiven, Total
  <2>5. AllGiven(s, "cost") = CostIn(s, Products)
        BY <2>3 DEF AllGiven, CostIn
  <2>6. /\ Total[s] \in Int /\ CostIn(s, Products) \in Int /\ CostIn(s, Tracked) \in Int
        /\ CostIn(s, Products \ Tracked) \in Int /\ CostOf[s] = CostIn(s, Tracked)
        BY MoneyValues, LedgerAssumption DEF CostOf
  <2>7. CostIn(s, Products) = CostIn(s, Tracked) + CostIn(s, Products \ Tracked)
    <3> DEFINE f == [p \in Products |-> LineTotal(Cost[p], Items(s)[p])]
    <3>1. \A p \in Products : f[p] \in Int
          BY LineTotalNat, LedgerAssumption, RequestParts
    <3>2. /\ [p \in Tracked |-> f[p]] = [p \in Tracked |-> LineTotal(Cost[p], Items(s)[p])]
          /\ [p \in Products \ Tracked |-> f[p]]
                 = [p \in Products \ Tracked |-> LineTotal(Cost[p], Items(s)[p])]
          BY LedgerAssumption
    <3>3. DOMAIN f = Products /\ Tracked \in SUBSET Products
          BY LedgerAssumption
    <3>4. SumFunction(f) = SumFunction([p \in Tracked |-> f[p]])
                             + SumFunction([p \in Products \ Tracked |-> f[p]])
      <4> HIDE DEF f
      <4>   QED BY <3>1, <3>3, FiniteParts, SumAllSplit
    <3>   QED BY <3>2, <3>4 DEF CostIn
  <2>8. /\ JournalIn(ReturnsOf(s), "Revenue") = Total[s]
        /\ JournalIn(ReturnsOf(s), "Inventory") = CostIn(s, Products)
        /\ JournalIn(ReturnsOf(s), "COGS") = -CostIn(s, Products)
        BY <2>1, <2>4, <2>5 DEF AccountsInv
  <2>9. /\ Posted(s, "Revenue") = -Total[s] + Total[s]
        /\ Posted(s, "Inventory") = -CostIn(s, Tracked) + CostIn(s, Products)
        /\ Posted(s, "COGS") = CostIn(s, Tracked) - CostIn(s, Products)
    <3>1. \A account : Posted(s, account) = journal[s][account] + JournalIn(ReturnsOf(s), account)
          BY DEF Posted, JournalIn
    <3>   QED BY <2>2, <2>6, <2>8, <3>1, PostedValues
  <2>   QED BY <2>6, <2>7, <2>9
<1>2. LedgerInv => NothingStranded
      BY <1>1 DEF NothingStranded
<1>   QED BY <1>2, LedgerAlways, PTL

-----------------------------------------------------------------------------
(* The credit limit                                                         *)

LEMMA StepCredit ==
    LedgerInv /\ [Next]_vars
        => [\A c \in Customers : Owed(c)' > Owed(c) => Owed(c)' <= card[c].limit]_vars
PROOF
<1> SUFFICES ASSUME LedgerInv, [Next]_vars, NEW c \in Customers, Owed(c)' > Owed(c)
             PROVE  Owed(c)' <= card[c].limit
      OBVIOUS
<1> DEFINE S == SalesTo(c)
           f == [s \in S |-> Balance(s)]
           g == [s \in S |-> Balance(s)']
<1>1. TypeOK /\ RowsOK /\ card \in [Customers -> CustomerRow]
      BY LedgerRows DEF LedgerInv, TypeOK
<1>2. IsFiniteSet(S) /\ S \subseteq SaleOps /\ \A s \in S : f[s] \in Int
      BY <1>1, PartsFinite, RowValues
<1>3. Owed(c) = SumFunction(f) /\ Owed(c)' = SumFunction(g)
      BY DEF Owed, SalesTo
<1>4. SumFunction(f) \in Int
      BY <1>2, SumAllInt
<1>5. ~(\A s \in SaleOps : Balance(s)' \in Int /\ Balance(s)' <= Balance(s))
  <2> SUFFICES ASSUME \A s \in SaleOps : Balance(s)' \in Int /\ Balance(s)' <= Balance(s)
               PROVE  FALSE
        OBVIOUS
  <2>1. \A s \in S : g[s] \in Int /\ f[s] \in Int /\ g[s] <= f[s]
        BY <1>2
  <2>2. DOMAIN f = S /\ DOMAIN g = S
        OBVIOUS
  <2> HIDE DEF f, g, S
  <2>3. SumFunctionOnSet(g, S) <= SumFunctionOnSet(f, S)
        BY <1>2, <2>1, SumMonotone
  <2>4. SumFunction(g) \in Int
        BY <1>2, <2>1, <2>2, SumAllInt
  <2>   QED BY <1>3, <1>4, <2>2, <2>3, <2>4 DEF SumFunction
<1>6. CASE UNCHANGED ledger
  <2>1. \A s \in SaleOps : Balance(s)' = Balance(s)
        BY <1>6 DEF ledger, Balance, Exists
  <2>   QED BY <1>1, <1>5, <2>1, RowValues
<1>7. CASE \E o \in SaleOps : \E due : SaleWritten(o, due)
  <2>1. PICK o \in SaleOps, due \in Nat : SaleWritten(o, due)
        BY <1>7 DEF SaleWritten
  <2>2. /\ ~Exists(sale[o]) /\ Exists(sale[o])' /\ sale'[o].balance = due
        /\ \A s \in SaleOps \ {o} : sale'[s] = sale[s]
        /\ Req[o].customer # NoCustomer /\ due > 0
               => Owed(Req[o].customer) + due <= card[Req[o].customer].limit
        BY <1>1, <2>1 DEF SaleWritten
  <2>3. Balance(o) = 0 /\ Balance(o)' = due /\ \A s \in SaleOps \ {o} : Balance(s)' = Balance(s)
        BY <2>2 DEF Balance, Exists
  <2>4. CASE o \in S
    <3>1. Req[o].customer = c /\ c # NoCustomer
          BY <2>4, LedgerAssumption DEF SalesTo
    <3>2. g[o] = f[o] + due /\ \A x \in S \ {o} : g[x] = f[x]
          BY <1>2, <2>3, <2>4
    <3>3. DOMAIN f = S /\ DOMAIN g = S /\ due \in Int
          OBVIOUS
    <3>4. SumFunction(g) = SumFunction(f) + due
      <4> HIDE DEF f, g, S
      <4>   QED BY <1>2, <2>4, <3>2, <3>3, SumAllMoved
    <3> HIDE DEF f, g, S
    <3>   QED BY <1>3, <1>4, <2>2, <3>1, <3>4
  <2>5. CASE o \notin S
    <3>1. g = f
          BY <1>2, <2>3, <2>5
    <3> HIDE DEF f, g, S
    <3>   QED BY <1>3, <1>4, <3>1
  <2>   QED BY <2>4, <2>5
<1>8. CASE \E o \in PaymentOps : \E taken : PaymentWritten(o, taken)
  <2>0. PICK o \in PaymentOps : \E taken : PaymentWritten(o, taken)
        BY <1>8
  <2>1. PICK taken : PaymentWritten(o, taken)
        BY <2>0
  <2>2. \A s \in SaleOps : taken[s] \in Nat /\ Balance(s)' = Balance(s) - taken[s]
        BY <2>1 DEF PaymentWritten
  <2>3. \A s \in SaleOps : Balance(s)' \in Int /\ Balance(s)' <= Balance(s)
        BY <1>1, <2>2, RowValues
  <2>   QED BY <1>5, <2>3
<1>9. CASE \E o \in ReturnOps : \E u : ReturnWritten(o, u)
  <2>0. PICK o \in ReturnOps : \E u, d : ReturnWritten(o, u) /\ d = Reduction(o)
        BY <1>9
  <2>1. PICK u, d : ReturnWritten(o, u) /\ d = Reduction(o)
        BY <2>0
  <2>2. d \in Nat /\ \A s \in SaleOps : Balance(s)' = Balance(s) - IF s = u THEN d ELSE 0
        BY <2>1 DEF ReturnWritten
  <2>3. \A s \in SaleOps : Balance(s)' \in Int /\ Balance(s)' <= Balance(s)
        BY <1>1, <2>2, RowValues
  <2>   QED BY <1>5, <2>3
<1>   QED BY <1>1, <1>6, <1>7, <1>8, <1>9, LedgerSteps

\* What a customer owes grows only within the limit in force when it grows.
THEOREM CreditStaysWithinLimit == Spec => CreditWithinLimit
PROOF BY LedgerAlways, StepCredit, PTL DEF Spec, CreditWithinLimit

-----------------------------------------------------------------------------
(* Operations                                                               *)

\* A request at work on an operation holds its lock, and the operation has no row;
\* one that is not done has no answer.
ServerInv ==
    /\ OperationHeld(Ops, {"working"}) /\ Tidy({"lookup", "working"})
    /\ \A t \in Txns : /\ pc[t] = "working" => ~Exists(Row(OpOf[t]))
                       /\ pc[t] # "done" => answer[t] = "none"

LEMMA InitServer == ASSUME Init PROVE ServerInv /\ Server!Init
PROOF
<1>1. OperationHeld(Ops, {"working"}) /\ \A t \in Txns : pc[t] \in {"idle", "unsent"}
      BY DEF Init, RequestsInit, OperationHeld
<1>5. Tidy({"lookup", "working"})
      BY InitTidy DEF Init
<1>2. answer = [t \in Txns |-> "none"]
      BY DEF Init, RequestsInit
<1>3. {o \in Ops : Exists(Row(o))} \subseteq Ops
      OBVIOUS
<1>4. ServerInv
      BY <1>1, <1>2, <1>5 DEF ServerInv
<1>   QED BY <1>2, <1>3, <1>4 DEF Server!Init

\* which rows are there
LEMMA RowsThere ==
    ASSUME TypeOK, NEW o \in Ops,
           \/ o \in SaleOps /\ \E due : SaleWritten(o, due)
           \/ o \in PaymentOps /\ \E taken : PaymentWritten(o, taken)
           \/ o \in ReturnOps /\ \E s : ReturnWritten(o, s)
    PROVE  ~Exists(Row(o)) /\ \A x \in Ops : Exists(Row(x))' <=> Exists(Row(x)) \/ x = o
PROOF
<1>1. CASE o \in SaleOps /\ \E due : SaleWritten(o, due)
  <2>1. /\ ~Exists(sale[o]) /\ Exists(sale[o])' /\ UNCHANGED <<payment, return>>
        /\ \A s \in SaleOps \ {o} : sale'[s] = sale[s]
        BY <1>1 DEF SaleWritten
  <2>   QED BY <1>1, <2>1, Kinds DEF Row, Exists
<1>2. CASE o \in PaymentOps /\ \E taken : PaymentWritten(o, taken)
  <2>1. /\ ~Exists(payment[o]) /\ Exists(payment[o])' /\ UNCHANGED return
        /\ \A s \in SaleOps : Exists(sale[s])' <=> Exists(sale[s])
        /\ \A s \in PaymentOps \ {o} : payment'[s] = payment[s]
        BY <1>2 DEF PaymentWritten
  <2>   QED BY <1>2, <2>1, Kinds DEF Row, Exists
<1>3. CASE o \in ReturnOps /\ \E s : ReturnWritten(o, s)
  <2>1. /\ ~Exists(return[o]) /\ Exists(return[o])' /\ UNCHANGED payment
        /\ \A s \in SaleOps : Exists(sale[s])' <=> Exists(sale[s])
        /\ \A s \in ReturnOps \ {o} : return'[s] = return[s]
        BY <1>3 DEF ReturnWritten
  <2>   QED BY <1>3, <2>1, Kinds DEF Row, Exists
<1>   QED BY <1>1, <1>2, <1>3

LEMMA RowsStay ==
    ASSUME UNCHANGED ledger
    PROVE  \A x \in Ops : Exists(Row(x))' <=> Exists(Row(x))
PROOF BY DEF ledger, Row, Exists

\* Which of the requests' steps a step takes
LEMMA RequestSteps ==
    ASSUME TypeOK, [Next]_vars
    PROVE  \/ UNCHANGED <<requests, ledger>>
           \/ UNCHANGED ledger /\ \E t \in Txns :
                  \/ Begin(t, There(t)) \/ Lookup(t, There(t))
                  \/ Rollback(t) /\ (pc[t] \notin {"unsent", "idle", "done"} \/ Deadlocked(t))
                  \/ /\ pc[t] = "working" /\ UNCHANGED <<pc, answer>>
                     /\ \E l : ~Asked(t, l) /\ Ask(t, l)
                  \/ pc[t] = "working" /\ End(t, "refused")
           \/ \E t \in Txns : \E o :
                  /\ o = OpOf[t] /\ pc[t] = "working" /\ End(t, "created")
                  /\ \/ o \in SaleOps /\ \E due : SaleWritten(o, due)
                     \/ o \in PaymentOps /\ \E taken : PaymentWritten(o, taken)
                     \/ o \in ReturnOps /\ \E s : ReturnWritten(o, s)
PROOF
<1>1. QueueTypeOK /\ RowsOK /\ card \in [Customers -> CustomerRow]
      BY DEF TypeOK, RequestsTypeOK, RowsOK
<1>2. CASE (\E c \in Customers : UpdateCustomer(c)) \/ UNCHANGED vars
      BY <1>2 DEF UpdateCustomer, vars
<1>3. CASE \E t \in Txns : Serve(t)
      BY <1>3 DEF Serve, DbAbort, Crash, Collides, AtInsert, Running, At
<1>4. CASE \E t \in Txns : Lock(t) \/ Refuse(t)
      BY <1>4 DEF Lock, Refuse, Running, At, ToLock
<1>5. ASSUME NEW t \in Txns,
             CompleteSale(t) \/ CompleteServiceCheckout(t)
      PROVE  /\ pc[t] = "working" /\ End(t, "created") /\ OpOf[t] \in SaleOps
             /\ \E due : SaleWritten(OpOf[t], due)
  <2>1. /\ OpOf[t] \in SaleOps /\ Ready(t) /\ PutSale(OpOf[t]) /\ End(t, "created")
        BY <1>5 DEF CompleteSale, CompleteServiceCheckout, SaleOps
  <2>2. SaleWritten(OpOf[t], Total[OpOf[t]] - Req[OpOf[t]].paid)
        BY <1>1, <2>1, SaleWrites
  <2>   QED BY <2>1, <2>2 DEF Ready, AtInsert, Running, At
<1>6. ASSUME NEW t \in Txns, RecordCustomerPayment(t)
      PROVE  /\ pc[t] = "working" /\ End(t, "created") /\ OpOf[t] \in PaymentOps
             /\ \E taken : PaymentWritten(OpOf[t], taken)
  <2>1. /\ OpOf[t] \in PaymentOps /\ Ready(t) /\ PutPayment(OpOf[t]) /\ End(t, "created")
        BY <1>6 DEF RecordCustomerPayment
  <2>2. PaymentWritten(OpOf[t], Allocation(OpOf[t]))
        BY <1>1, <2>1, PaymentWrites
  <2>   QED BY <2>1, <2>2 DEF Ready, AtInsert, Running, At
<1>7. ASSUME NEW t \in Txns, ProcessSaleReturn(t)
      PROVE  /\ pc[t] = "working" /\ End(t, "created") /\ OpOf[t] \in ReturnOps
             /\ \E s : ReturnWritten(OpOf[t], s)
  <2>1. /\ OpOf[t] \in ReturnOps /\ Ready(t) /\ PutReturn(OpOf[t]) /\ End(t, "created")
        BY <1>7 DEF ProcessSaleReturn
  <2>2. ReturnWritten(OpOf[t], Req[OpOf[t]].sale)
        BY <1>1, <2>1, ReturnWrites
  <2>   QED BY <2>1, <2>2 DEF Ready, AtInsert, Running, At
<1>8. CASE \E t \in Txns : \/ CompleteSale(t) \/ CompleteServiceCheckout(t)
                           \/ RecordCustomerPayment(t) \/ ProcessSaleReturn(t)
  <2>1. \E t \in Txns :
            /\ pc[t] = "working" /\ End(t, "created")
            /\ \/ OpOf[t] \in SaleOps /\ \E due : SaleWritten(OpOf[t], due)
               \/ OpOf[t] \in PaymentOps /\ \E taken : PaymentWritten(OpOf[t], taken)
               \/ OpOf[t] \in ReturnOps /\ \E s : ReturnWritten(OpOf[t], s)
        BY <1>5, <1>6, <1>7, <1>8
  <2>   QED BY <2>1
<1>   QED BY <1>2, <1>3, <1>4, <1>8 DEF Next, Work

LEMMA StepServer ==
    ASSUME TypeOK, RowsOK, ServerInv, [Next]_vars
    PROVE  ServerInv' /\ [Server!Next]_<<{o \in Ops : Exists(Row(o))}, answer>>
PROOF
<1> DEFINE R == {o \in Ops : Exists(Row(o))}
           stages == {"lookup", "working"}
<1>1. /\ QueueTypeOK /\ answer \in [Txns -> {"none", "created", "replayed", "refused"}]
      /\ pc \in [Txns -> {"unsent", "idle", "lookup", "working", "done"} \cup {}]
      /\ OpOf \in [Txns -> Ops]
      BY LedgerAssumption DEF TypeOK, RequestsTypeOK
<1>2. /\ OperationHeld(Ops, {"working"}) /\ Tidy(stages)
      /\ \A t \in Txns : pc[t] = "working" => ~Exists(Row(OpOf[t]))
      /\ \A t \in Txns : pc[t] # "done" => answer[t] = "none"
      BY DEF ServerInv
<1>3. UNCHANGED ledger => R' = R /\ \A x \in Ops : Exists(Row(x))' <=> Exists(Row(x))
      BY RowsStay
<1>4. CASE UNCHANGED <<requests, ledger>>
  <2>1. UNCHANGED <<pc, answer, queue>> /\ UNCHANGED ledger
        BY <1>4 DEF requests
  <2>2. ServerInv'
        BY <1>1, <1>2, <1>3, <2>1
        DEF ServerInv, OperationHeld, Tidy, QueuedOnce, Asked, Holds, Free
  <2>   QED BY <1>3, <2>1, <2>2
<1>5. ASSUME UNCHANGED ledger, NEW t \in Txns, Begin(t, There(t)) \/ Lookup(t, There(t))
      PROVE  ServerInv' /\ [Server!Next]_<<R, answer>>
  <2>1. OperationHeld(Ops, {"working"})' /\ Tidy(stages)'
        BY <1>1, <1>2, <1>5, BeginHeld, LookupHeld, StepTidy
  <2>2. /\ pc[t] # "done"
        /\ \/ There(t) /\ pc' = [pc EXCEPT ![t] = "done"] /\ answer' = [answer EXCEPT ![t] = "replayed"]
           \/ ~There(t) /\ pc' = [pc EXCEPT ![t] = "working"] /\ UNCHANGED answer
           \/ pc' = [pc EXCEPT ![t] = "lookup"] /\ UNCHANGED answer
        BY <1>5 DEF Begin, Lookup, LookedUp, Goto, At
  <2>3. \A u \in Txns : /\ pc'[u] = "working" => ~Exists(Row(OpOf[u]))'
                        /\ pc'[u] # "done" => answer'[u] = "none"
    <3> TAKE u \in Txns
    <3>1. OpOf[u] \in Ops
          BY <1>1
    <3>2. Exists(Row(OpOf[u]))' <=> Exists(Row(OpOf[u]))
          BY <1>3, <1>5, <3>1
    <3>   QED BY <1>1, <1>2, <2>2, <3>2 DEF There
  <2>4. [Server!Next]_<<R, answer>>
    <3>1. CASE There(t) /\ answer' = [answer EXCEPT ![t] = "replayed"]
      <4>1. OpOf[t] \in R /\ answer[t] = "none" /\ R' = R
            BY <1>1, <1>2, <1>3, <1>5, <2>2, <3>1 DEF There
      <4>2. Server!Replay(t)
            BY <3>1, <4>1 DEF Server!Replay, Server!Tell
      <4>   QED BY <4>2 DEF Server!Next
    <3>2. CASE UNCHANGED answer
          BY <1>3, <1>5, <3>2
    <3>   QED BY <2>2, <3>1, <3>2
  <2>   QED BY <2>1, <2>3, <2>4 DEF ServerInv
<1>6. ASSUME UNCHANGED ledger, NEW t \in Txns,
             \/ Rollback(t) /\ (pc[t] \notin {"unsent", "idle", "done"} \/ Deadlocked(t))
             \/ /\ pc[t] = "working" /\ UNCHANGED <<pc, answer>>
                /\ \E l : ~Asked(t, l) /\ Ask(t, l)
      PROVE  ServerInv' /\ [Server!Next]_<<R, answer>>
  <2>1. OperationHeld(Ops, {"working"})'
        BY <1>1, <1>2, <1>6, LeavingHeld, WorkingHeld
  <2>2. Tidy(stages)'
        BY <1>1, <1>2, <1>6, StepTidy
  <2>3. UNCHANGED answer /\ pc[t] # "done" /\ (UNCHANGED pc \/ pc' = [pc EXCEPT ![t] = "idle"])
        BY <1>2, <1>6, BlockedAtWork DEF Rollback, Goto
  <2>4. \A u \in Txns : /\ pc'[u] = "working" => ~Exists(Row(OpOf[u]))'
                        /\ pc'[u] # "done" => answer'[u] = "none"
    <3> TAKE u \in Txns
    <3>1. OpOf[u] \in Ops
          BY <1>1
    <3>2. Exists(Row(OpOf[u]))' <=> Exists(Row(OpOf[u]))
          BY <1>3, <1>6, <3>1
    <3>   QED BY <1>1, <1>2, <2>3, <3>2
  <2>   QED BY <1>3, <1>6, <2>1, <2>2, <2>3, <2>4 DEF ServerInv
<1>7. ASSUME UNCHANGED ledger, NEW t \in Txns, pc[t] = "working", End(t, "refused")
      PROVE  ServerInv' /\ [Server!Next]_<<R, answer>>
  <2>1. OperationHeld(Ops, {"working"})' /\ Tidy(stages)'
        BY <1>1, <1>2, <1>7, LeavingHeld, StepTidy
  <2>2. pc' = [pc EXCEPT ![t] = "done"] /\ answer' = [answer EXCEPT ![t] = "refused"]
        BY <1>7 DEF End, Goto
  <2>3. \A u \in Txns : /\ pc'[u] = "working" => ~Exists(Row(OpOf[u]))'
                        /\ pc'[u] # "done" => answer'[u] = "none"
    <3> TAKE u \in Txns
    <3>1. OpOf[u] \in Ops
          BY <1>1
    <3>2. Exists(Row(OpOf[u]))' <=> Exists(Row(OpOf[u]))
          BY <1>3, <1>7, <3>1
    <3>   QED BY <1>1, <1>2, <2>2, <3>2
  <2>4. OpOf[t] \notin R /\ answer[t] = "none" /\ R' = R
        BY <1>1, <1>2, <1>3, <1>7
  <2>5. Server!Refuse(t)
        BY <2>2, <2>4 DEF Server!Refuse, Server!Tell
  <2>   QED BY <2>1, <2>3, <2>5 DEF ServerInv, Server!Next
<1>8. ASSUME NEW t \in Txns, NEW o, o = OpOf[t], pc[t] = "working", End(t, "created"),
             \/ o \in SaleOps /\ \E due : SaleWritten(o, due)
             \/ o \in PaymentOps /\ \E taken : PaymentWritten(o, taken)
             \/ o \in ReturnOps /\ \E s : ReturnWritten(o, s)
      PROVE  ServerInv' /\ [Server!Next]_<<R, answer>>
  <2>1. OperationHeld(Ops, {"working"})' /\ Tidy(stages)'
        BY <1>1, <1>2, <1>8, LeavingHeld, StepTidy
  <2>2. pc' = [pc EXCEPT ![t] = "done"] /\ answer' = [answer EXCEPT ![t] = "created"]
        BY <1>8 DEF End, Goto
  <2>3. o \in Ops /\ ~Exists(Row(o)) /\ \A x \in Ops : Exists(Row(x))' <=> Exists(Row(x)) \/ x = o
        BY <1>1, <1>8, RowsThere
  <2>4. \A u \in Txns : /\ pc'[u] = "working" => ~Exists(Row(OpOf[u]))'
                        /\ pc'[u] # "done" => answer'[u] = "none"
    <3> TAKE u \in Txns
    <3>1. OpOf[u] \in Ops
          BY <1>1
    <3>2. CASE OpOf[u] = o
      <4>1. pc[u] = "working" => u = t
            BY <1>2, <1>8, <2>3, <3>2, OneCopyWorks
      <4>   QED BY <1>1, <1>2, <2>2, <4>1
    <3>3. CASE OpOf[u] # o
      <4>1. Exists(Row(OpOf[u]))' <=> Exists(Row(OpOf[u]))
            BY <2>3, <3>1, <3>3
      <4>   QED BY <1>1, <1>2, <1>8, <2>2, <3>3, <4>1
    <3>   QED BY <3>2, <3>3
  <2>5. R' = R \cup {o} /\ o \notin R
        BY <2>3
  <2>6. Server!Post(t)
        BY <1>2, <1>8, <2>2, <2>5 DEF Server!Post, Server!Tell
  <2>   QED BY <2>1, <2>4, <2>6 DEF ServerInv, Server!Next
<1>   QED BY <1>4, <1>5, <1>6, <1>7, <1>8, RequestSteps

\* Sales, payments and returns take effect once, and a copy of one that is done is
\* told so: what the abstract server promises, step by step.
THEOREM LedgerImplementsServer == Spec => ImplementsServer
PROOF
<1>1. Init => ServerInv /\ Server!Init
      BY InitServer
<1>2. TypeOK /\ ServerInv /\ [Next]_vars
          => ServerInv' /\ [Server!Next]_<<{o \in Ops : Exists(Row(o))}, answer>>
  <2>1. TypeOK => RowsOK
        BY DEF TypeOK, RowsOK
  <2>   QED BY <2>1, StepServer
<1>   QED BY <1>1, <1>2, LedgerTypes, PTL DEF Spec, ImplementsServer, Server!Spec
================================================================================
