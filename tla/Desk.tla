--------------------------------- MODULE Desk ---------------------------------
(***************************************************************************)
(* The work around the counter: staff shifts and attendance (workforce.py),*)
(* appointments, the catalogue of services and their materials, purchase   *)
(* orders, and promotions, loyalty points, quotations and alerts           *)
(* (growth.py).  Loyalty points and the receipt of a purchase order lock   *)
(* their row; everything else reads plainly.  No request carries a client  *)
(* operation: a request that is sent twice is carried out twice.           *)
(*                                                                         *)
(* A row that a request inserts under a new id has the request in its key. *)
(* Left out: customers, products and suppliers as such (the requests name  *)
(* some that are there), notes, and the rounding of money.                 *)
(***************************************************************************)
EXTENDS Integers, Functions, Access

Shift(i) == <<"shift", i>>
Punch(i) == <<"punch", i>>
Appointment(i) == <<"appointment", i>>
Service(s) == <<"service", s>>
Material(s, p) == <<"material", s, p>>
Order(o) == <<"order", o>>
Promotion(c) == <<"promotion", c>>
Loyalty(c) == <<"loyalty", c>>
Points(i) == <<"points", i>>
Document(i) == <<"document", i>>
Alert(i) == <<"alert", i>>
Stock(b, p) == <<"stock", b, p>>

DeskNeeds ==
    [create_shift |-> {"staff.manage"}, shift_status |-> {"staff.manage"}, punch |-> {},
     book |-> {"sales.write"}, appointment_status |-> {"sales.write"},
     create_service |-> {"inventory.write"}, update_service |-> {"inventory.write"},
     set_material |-> {"inventory.write"}, remove_material |-> {"inventory.write"},
     create_order |-> {"purchases.write"}, order_status |-> {"purchases.write"},
     receive |-> {"purchases.write"}, promotion |-> {"sales.write"},
     loyalty |-> {"customers.write"}, document |-> {"sales.write"},
     document_status |-> {"sales.write"}, alerts |-> {"reports.read"},
     alert_status |-> {"reports.read"}]

\* mutant: nothing is locked
LocksOfNone(t) == {}

\* the row that is loaded FOR UPDATE, if it is there
LocksOf(t) ==
    {k \in (CASE Call[t].do = "receive" -> {Order(Call[t].order)}
              [] Call[t].do = "loyalty" -> {Loyalty(Call[t].customer)}
              [] OTHER -> {}) : Present(stored[k])}

Rows(t, kind) == {k \in KeysOf[kind] : Present(found[t][k])}

\* the one row a request is about
Has(t, k) == Present(found[t][k])

-----------------------------------------------------------------------------
(* Shifts and attendance                                                    *)

Overlap(a, b) == a.from < b.to /\ a.to > b.from

\* _validate_membership_branch
AtBranch(t, u) ==
    LET c == Call[t]
    IN  /\ Has(t, Member(c.tenant, u)) /\ found[t][Member(c.tenant, u)].active
        /\ Has(t, Granted(c.tenant, u, c.at))

CreateShift(t) ==
    LET c == Call[t]
        new == [staff |-> c.user, from |-> c.from, to |-> c.to, status |-> "scheduled"]
    IN  /\ Handles(t, "create_shift")
        /\ IF \/ c.to <= c.from
              \/ ~AtBranch(t, c.user)
              \/ \E k \in Rows(t, "shift") : /\ found[t][k].staff = c.user
                                             /\ found[t][k].status # "cancelled"
                                             /\ Overlap(found[t][k], new)
           THEN Fail(t)
           ELSE Save(t, Shift(t) :> new)

\* to the status that the request names, from one that may become that
SetStatus(t, k, mayBecome) ==
    IF Has(t, k) /\ mayBecome
    THEN Save(t, Update(t, k, [found[t][k] EXCEPT !.status = Call[t].status]))
    ELSE Fail(t)

UpdateShiftStatus(t) ==
    /\ Handles(t, "shift_status")
    /\ SetStatus(t, Shift(Call[t].row), Call[t].status \in {"scheduled", "completed", "cancelled"})

\* the last one by punched_at, which the request stamps when it writes
LastPunch(v, u) ==
    LET mine == {k \in KeysOf["punch"] : Present(v[k]) /\ v[k].staff = u}
    IN  IF mine = {} THEN [kind |-> "none", at |-> 0]
        ELSE v[CHOOSE k \in mine : \A l \in mine : v[l].at <= v[k].at]

SelfPunch(t) ==
    LET u == Sender(held[t], t)
    IN  /\ Handles(t, "punch")
        /\ IF LastPunch(found[t], u).kind = Call[t].kind THEN Fail(t)
           ELSE Save(t, Punch(t) :> [staff |-> u, kind |-> Call[t].kind,
                                     at |-> 1 + LastPunch(stored, u).at])

-----------------------------------------------------------------------------
(* Appointments                                                             *)

Standing == {"scheduled", "checked_in", "in_progress"}

\* mutant: a booking overlaps one that starts later only
ConflictingLater(t, new) ==
    \E k \in Rows(t, "appointment") :
        /\ found[t][k].staff = new.staff /\ found[t][k].status \in Standing
        /\ found[t][k].from <= new.from /\ found[t][k].to > new.from

Conflicting(t, new) ==
    \E k \in Rows(t, "appointment") :
        /\ found[t][k].staff = new.staff /\ found[t][k].status \in Standing
        /\ Overlap(found[t][k], new)

\* duration 0 is a service without one; nobody has to be named for it
CreateAppointment(t) ==
    LET c == Call[t]
        k == Service(c.service)
        new == [staff |-> c.user, from |-> c.from, to |-> c.from + found[t][k].duration,
                status |-> "scheduled"]
    IN  /\ Handles(t, "book")
        /\ IF \/ ~Has(t, k)
              \/ ~found[t][k].active \/ found[t][k].duration = 0
              \/ c.user # "nobody" /\ (~AtBranch(t, c.user) \/ Conflicting(t, new))
           THEN Fail(t)
           ELSE Save(t, Appointment(t) :> new)

Transitions ==
    [scheduled |-> {"checked_in", "in_progress", "cancelled", "no_show"},
     checked_in |-> {"in_progress", "cancelled", "no_show"},
     in_progress |-> {"completed", "cancelled"},
     completed |-> {}, cancelled |-> {}, no_show |-> {}]

ChangeAppointmentStatus(t) ==
    LET k == Appointment(Call[t].row)
    IN  /\ Handles(t, "appointment_status")
        /\ SetStatus(t, k, Call[t].status \in Transitions[found[t][k].status])

-----------------------------------------------------------------------------
(* Services and their materials                                             *)

\* a code that is taken is a conflict
CreateService(t) ==
    LET c == Call[t]
    IN  Handles(t, "create_service") /\
        Create(t, Service(c.service) :> [duration |-> c.duration, active |-> c.active])

UpdateService(t) ==
    LET c == Call[t]
        k == Service(c.service)
    IN  /\ Handles(t, "update_service")
        /\ IF Has(t, k) THEN Save(t, Update(t, k, [duration |-> c.duration, active |-> c.active]))
           ELSE Fail(t)

SetServiceMaterial(t) ==
    LET c == Call[t]
        k == Material(c.service, c.product)
        new == [product |-> c.product, quantity |-> c.quantity]
    IN  /\ Handles(t, "set_material")
        /\ IF ~Has(t, Service(c.service)) THEN Fail(t)
           ELSE Save(t, IF Has(t, k) THEN Update(t, k, new) ELSE k :> new)

RemoveServiceMaterial(t) ==
    LET k == Material(Call[t].service, Call[t].product)
    IN  Handles(t, "remove_material") /\ IF Has(t, k) THEN Save(t, k :> Absent) ELSE Fail(t)

-----------------------------------------------------------------------------
(* Purchase orders                                                          *)

CreatePurchaseOrder(t) ==
    /\ Handles(t, "create_order")
    /\ Save(t, Order(t) :> [status |-> "draft", ordered |-> Call[t].ordered,
                            received |-> [i \in DOMAIN Call[t].ordered |-> 0]])

OrderTransitions ==
    [draft |-> {"submitted", "cancelled"}, submitted |-> {"approved", "cancelled"},
     approved |-> {"cancelled"}, part_received |-> {"cancelled"}, received |-> {}, cancelled |-> {}]

UpdatePurchaseOrderStatus(t) ==
    LET k == Order(Call[t].order)
        to == Call[t].status
    IN  /\ Handles(t, "order_status")
        /\ SetStatus(t, k, /\ to \in OrderTransitions[found[t][k].status]
                           /\ to = "approved" => "purchases.approve" \in RolePermissions[MyRole(t)])

\* the quantities that a request receives of each line of an order
Receipt(t, lines) ==
    LET rs == Call[t].lines
    IN  [i \in lines |-> SumFunctionOnSet([n \in DOMAIN rs |-> rs[n].quantity],
                                          {n \in DOMAIN rs : rs[n].line = i})]

Fully(ordered, received) == \A i \in DOMAIN ordered : received[i] >= ordered[i]

\* The lines are counted up one after the other; a request that names a line
\* twice adds both.
ReceivePurchaseOrderLines(t) ==
    LET k == Order(Call[t].order)
        was == found[t][k]
        lines == DOMAIN was.ordered
        receipt == Receipt(t, lines)
        received == [i \in lines |-> was.received[i] + receipt[i]]
    IN  /\ Handles(t, "receive")
        /\ IF \/ ~Has(t, k)
              \/ was.status \notin {"approved", "part_received"}
              \/ \E n \in DOMAIN Call[t].lines : Call[t].lines[n].line \notin lines
              \/ \E i \in lines : received[i] > was.ordered[i]
           THEN Fail(t)
           ELSE Save(t, Update(t, k, [was EXCEPT !.received = received,
                    !.status = IF Fully(was.ordered, received) THEN "received" ELSE "part_received"]))

-----------------------------------------------------------------------------
(* Promotions, loyalty, quotations and invoices, alerts                     *)

CreatePromotion(t) ==
    LET c == Call[t]
    IN  /\ Handles(t, "promotion")
        /\ IF c.kind = "percentage" /\ c.value > 100 THEN Fail(t)
           ELSE Create(t, Promotion(c.code) :> [kind |-> c.kind, value |-> c.value])

Insufficient(t, balance) == balance < 0

\* The account is made by the first transaction of a customer.
PostLoyaltyTransaction(t) ==
    LET c == Call[t]
        k == Loyalty(c.customer)
        was == IF Has(t, k) THEN found[t][k] ELSE [balance |-> 0, earned |-> 0]
        points == IF c.kind = "redeem" /\ c.points > 0 THEN -c.points ELSE c.points
        new == [balance |-> was.balance + points,
                earned |-> was.earned + (IF points > 0 THEN points ELSE 0)]
    IN  /\ Handles(t, "loyalty")
        /\ IF \/ c.points = 0
              \/ c.kind = "earn" /\ points < 0
              \/ Insufficient(t, new.balance)
           THEN Fail(t)
           ELSE Save(t, Points(t) :> [customer |-> c.customer, points |-> points]
                        @@ IF Has(t, k) THEN Update(t, k, new) ELSE k :> new)

AtLeastZero(n) == IF n < 0 THEN 0 ELSE n

LineTotals(lines) ==
    [i \in DOMAIN lines |-> AtLeastZero(lines[i].amount - lines[i].discount + lines[i].tax)]

CreateDocument(t) ==
    LET lines == Call[t].lines
    IN  /\ Handles(t, "document")
        /\ Save(t, Document(t) :>
               [status |-> IF Call[t].kind = "quotation" THEN "draft" ELSE "issued",
                lines |-> LineTotals(lines),
                total |-> AtLeastZero(SumFunction(
                             [i \in DOMAIN lines |-> lines[i].amount - lines[i].discount + lines[i].tax]))])

DocumentStatuses ==
    {"draft", "sent", "accepted", "rejected", "issued", "part_paid", "paid", "void", "expired"}

UpdateDocumentStatus(t) ==
    /\ Handles(t, "document_status")
    /\ SetStatus(t, Document(Call[t].row), Call[t].status \in DocumentStatuses)

\* one alert for each product of the branch that is low and has no open one
RefreshAlerts(t) ==
    LET at == Call[t].at
        lacking == {p \in {k[3] : k \in {l \in Rows(t, "stock") : l[2] = at /\ found[t][l].low}} :
                       ~\E k \in Rows(t, "alert") : /\ found[t][k].branch = at /\ found[t][k].product = p
                                                    /\ found[t][k].status = "open"}
    IN  /\ Handles(t, "alerts")
        /\ Save(t, [k \in {Alert(<<t, p>>) : p \in lacking} |->
                       [branch |-> at, product |-> k[2][2], status |-> "open", by |-> "nobody"]])

UpdateAlert(t) ==
    LET k == Alert(Call[t].row)
        was == found[t][k]
        to == Call[t].status
    IN  /\ Handles(t, "alert_status")
        /\ IF ~Has(t, k) \/ to \notin {"open", "acknowledged", "dismissed"} THEN Fail(t)
           ELSE Save(t, Update(t, k, [was EXCEPT !.status = to,
                            !.by = IF to = "acknowledged" THEN Sender(held[t], t) ELSE was.by]))

-----------------------------------------------------------------------------
DeskInit == RecordsInit

DeskStep(t) ==
    \/ CreateShift(t) \/ UpdateShiftStatus(t) \/ SelfPunch(t)
    \/ CreateAppointment(t) \/ ChangeAppointmentStatus(t)
    \/ CreateService(t) \/ UpdateService(t) \/ SetServiceMaterial(t) \/ RemoveServiceMaterial(t)
    \/ CreatePurchaseOrder(t) \/ UpdatePurchaseOrderStatus(t) \/ ReceivePurchaseOrderLines(t)
    \/ CreatePromotion(t) \/ PostLoyaltyTransaction(t)
    \/ CreateDocument(t) \/ UpdateDocumentStatus(t) \/ RefreshAlerts(t) \/ UpdateAlert(t)

Needs == DeskNeeds @@ AccessNeeds
deskVars == <<requests, records>>

\* once everything is answered nothing is left to do
DeskNext ==
    \/ \E t \in {u \in Txns : pc[u] \notin {"unsent", "done"}} :
          \/ Authenticate(t, Needs) \/ Wait(t, LocksOf(t)) \/ Load(t, LocksOf(t))
          \/ AccessStep(t) \/ DeskStep(t)
    \/ AllAnswered /\ UNCHANGED deskVars

DeskSpec == DeskInit /\ [][DeskNext]_deskVars

-----------------------------------------------------------------------------
(* Properties                                                               *)

Booking(statuses) == [staff : Users \cup {"nobody"}, from : Nat, to : Nat, status : statuses]

ShiftRow == Booking({"scheduled", "completed", "cancelled"})
PunchRow == [staff : Users, kind : {"in", "out"}, at : Nat]
AppointmentRow == Booking(DOMAIN Transitions)
ServiceRow == [duration : Nat, active : BOOLEAN]
MaterialRow(p) == [product : {p}, quantity : Nat]
OrderRow == [status : DOMAIN OrderTransitions, ordered : Seq(Nat), received : Seq(Nat)]
PromotionRow == [kind : {"percentage", "fixed"}, value : Nat]
LoyaltyRow == [balance : Nat, earned : Nat]
PointsRow == [customer : {k[2] : k \in KeysOf["loyalty"]}, points : Int]
DocumentRow == [status : DocumentStatuses, lines : Seq(Nat), total : Nat]
AlertRow(p) == [branch : BranchIds, product : {p},
                status : {"open", "acknowledged", "dismissed"}, by : Users \cup {"nobody"}]

DeskRow(k) ==
    CASE k[1] = "shift" -> ShiftRow
      [] k[1] = "punch" -> PunchRow
      [] k[1] = "appointment" -> AppointmentRow
      [] k[1] = "service" -> ServiceRow
      [] k[1] = "material" -> MaterialRow(k[3])
      [] k[1] = "order" -> OrderRow
      [] k[1] = "promotion" -> PromotionRow
      [] k[1] = "loyalty" -> LoyaltyRow
      [] k[1] = "points" -> PointsRow
      [] k[1] = "document" -> DocumentRow
      [] k[1] = "alert" -> AlertRow(k[2][2])
      [] k[1] = "stock" -> [low : BOOLEAN]
      [] OTHER -> AccessRow(k)

\* Every row has its type: no balance, quantity or total is below zero.
DeskTypeOK == RequestsTypeOK({"loaded"}) /\ RecordsTypeOK(DeskRow)

\* the requests that made a row or set its status
Touching(k) ==
    {t \in Txns : \/ k[2] = t
                  \/ Call[t].do \in {"shift_status", "appointment_status"} /\ Call[t].row = k[2]}

Together(k, l) == \E t \in Touching(k), u \in Touching(l) : u \in rivals[t]

\* two appointments at a time for one person, and twice in or twice out in a row
Clash(v, k, l) ==
    /\ k # l /\ Present(v[k]) /\ Present(v[l])
    /\ v[k].staff = v[l].staff /\ v[k].staff # "nobody"
    /\ {v[k].status, v[l].status} \subseteq Standing
    /\ Overlap(v[k], v[l])

TwiceInARow(v, k, l) ==
    /\ Present(v[k]) /\ Present(v[l])
    /\ v[k].staff = v[l].staff /\ v[l].at = v[k].at + 1
    /\ v[k].kind = v[l].kind

\* Nobody has two appointments at a time and nobody clocks in twice, though these
\* are looked for and inserted without a lock, unless two of the requests decided
\* together (appointments.py:100, workforce.py:199).
OneThingAtATime ==
    /\ \A k, l \in KeysOf["appointment"] : Clash(stored, k, l) => Together(k, l)
    /\ \A k, l \in KeysOf["punch"] : TwiceInARow(stored, k, l) => Together(k, l)

\* the points transactions of customer c in the table v
PointsOf(v, c) == {k \in KeysOf["points"] : Present(v[k]) /\ v[k].customer = c}

LoyaltyExactIn(v) ==
    \A k \in KeysOf["loyalty"] : Present(v[k]) =>
        /\ v[k].balance = SumFunction([p \in PointsOf(v, k[2]) |-> v[p].points])
        /\ v[k].earned = SumFunction([p \in PointsOf(v, k[2]) |-> AtLeastZero(v[p].points)])

\* A customer's points are what the transactions add up to, and never below zero,
\* also when two are posted together or both find no account (growth.py:226).
LoyaltyExact == LoyaltyExactIn(stored)

\* the receipts of order o that were accepted
Receipts(o) == {t \in Txns : Call[t].do = "receive" /\ Call[t].order = o /\ Done(t)}

\* What an order has received is what the accepted receipts add up to and no more
\* than was ordered, and an order whose lines are all there is received, unless it
\* was being cancelled meanwhile (purchase_orders.py:202, 235).
OrderReceivedExact ==
    \A k \in KeysOf["order"] : Present(stored[k]) =>
        LET o == stored[k]
        IN  /\ \A i \in DOMAIN o.ordered :
                  /\ o.received[i] <= o.ordered[i]
                  /\ o.received[i] = SumFunction([t \in Receipts(k[2]) |-> Receipt(t, {i})[i]])
            /\ Fully(o.ordered, o.received) =>
                  \/ o.status = "received"
                  \/ \E t \in Receipts(k[2]) : \E u \in rivals[t] :
                        Call[u].do = "order_status" /\ Call[u].order = k[2]

\* The two numbers that are counted up under a lock are exact, whatever requests
\* meet (growth.py:226, purchase_orders.py:235).
TalliesExact == LoyaltyExact /\ OrderReceivedExact

-----------------------------------------------------------------------------
(* Assumptions on the constants                                             *)

DeskArguments(c, t) ==
    /\ c.do \in {"create_shift", "book"} => c.user \in Users \cup {"nobody"} /\ c.from \in Nat
    /\ c.do = "create_shift" => c.user # "nobody" /\ c.to \in Nat
    /\ c.do = "shift_status" => Shift(c.row) \in Keys
    /\ c.do = "punch" => c.kind \in {"in", "out"}
    /\ c.do = "appointment_status" => Appointment(c.row) \in Keys
    /\ c.do \in {"book", "create_service", "update_service", "set_material"} =>
          Service(c.service) \in Keys
    /\ c.do \in {"create_service", "update_service"} => c.duration \in Nat /\ c.active \in BOOLEAN
    /\ c.do \in {"set_material", "remove_material"} => Material(c.service, c.product) \in Keys
    /\ c.do = "set_material" => c.quantity \in Nat
    /\ c.do = "create_order" => c.ordered \in Seq(Nat \ {0}) \ {<<>>}
    /\ c.do \in {"order_status", "receive"} => Order(c.order) \in Keys
    /\ c.do = "receive" => c.lines \in Seq([line : Nat, quantity : Nat \ {0}])
    /\ c.do = "promotion" => /\ Promotion(c.code) \in Keys
                            /\ c.kind \in {"percentage", "fixed"} /\ c.value \in Nat
    /\ c.do = "loyalty" => {Loyalty(c.customer), Points(t)} \subseteq Keys /\ c.points \in Int
    /\ c.do = "document" => c.lines \in Seq([amount : Nat, discount : Nat, tax : Nat])
    /\ c.do = "document_status" => Document(c.row) \in Keys
    /\ c.do = "alerts" => c.at \in BranchIds
    /\ c.do = "alert_status" => Alert(c.row) \in Keys

\* What is counted up is exact at first, nobody has two things to do, and the
\* orders that are there wait for their first receipt.
DeskAtStart ==
    /\ \A k, l \in KeysOf["appointment"] : ~Clash(AtStart, k, l)
    /\ \A k, l \in KeysOf["punch"] : ~TwiceInARow(AtStart, k, l)
    /\ \A k, l \in KeysOf["punch"] :
          k # l /\ Present(AtStart[k]) /\ Present(AtStart[l]) /\ AtStart[k].staff = AtStart[l].staff
          => AtStart[k].at # AtStart[l].at
    /\ LoyaltyExactIn(AtStart)
    /\ \A k \in KeysOf["points"] : Present(AtStart[k]) => Present(AtStart[Loyalty(AtStart[k].customer)])
    /\ \A k \in KeysOf["order"] : Present(AtStart[k]) =>
          LET o == AtStart[k]
          IN  /\ o.status \notin {"part_received", "received"}
              /\ o.ordered \in Seq(Nat \ {0}) \ {<<>>}
              /\ o.received = [i \in DOMAIN o.ordered |-> 0]

\* an id that a request makes up is a new one
Numbered == {"session", "shift", "punch", "appointment", "order", "points", "document"}

ASSUME DeskAssumption ==
    /\ \A t \in Txns : AccessArguments(Call[t]) /\ DeskArguments(Call[t], t)
    /\ \A k \in DOMAIN RowsAtStart : k \in Keys /\ RowsAtStart[k] \in DeskRow(k)
    /\ \A k \in DOMAIN RowsAtStart : k[1] \in Numbered => k[2] \notin Txns
    /\ DeskAtStart
===============================================================================
