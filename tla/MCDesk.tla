-------------------------------- MODULE MCDesk --------------------------------
(* One business with two branches and its people, one that is applying, and    *)
(* the requests that can meet.                                                  *)
EXTENDS Desk

Asks(do, session, more) == more @@ [do |-> do, session |-> session, tenant |-> "shop", at |-> "main"]
OfAnn(do, more) == Asks(do, "ann0", more)
OfBob(do, more) == Asks(do, "bob0", more)
OfCat(do, more) == Asks(do, "cat0", more)
OfRoot(do, tenant) == [do |-> do, session |-> "root0", tenant |-> tenant]
Staff(u, role, active, bs) == [user |-> u, role |-> role, active |-> active, branches |-> bs]
ABranch(b, main, active) == [branch |-> b, main |-> main, active |-> active]
Points4(c, kind, n) == OfCat("loyalty", [customer |-> c, kind |-> kind, points |-> n])
Line(i, n) == [line |-> i, quantity |-> n]
Price(a, d, x) == [amount |-> a, discount |-> d, tax |-> x]
Slot(u, from) == [user |-> u, service |-> "cut", from |-> from]
Hours(u, from, to) == [user |-> u, from |-> from, to |-> to]

AccessCalls ==
    [refresh |-> [do |-> "refresh", session |-> "cat0", token |-> "first"],
     refreshagain |-> [do |-> "refresh", session |-> "cat0", token |-> "first"],
     refreshnext |-> [do |-> "refresh", session |-> "cat0", token |-> "refresh"],
     logout |-> OfCat("logout", [at |-> "none"]),
     login |-> [do |-> "login", user |-> "cat"],
     loginyan |-> [do |-> "login", user |-> "yan"],
     suspend |-> OfRoot("suspend", "shop"), reactivate |-> OfRoot("reactivate", "shop"),
     approveshop |-> OfRoot("approve", "shop"),
     approve |-> OfRoot("approve", "stall"), reject |-> OfRoot("reject", "stall"),
     signup |-> [do |-> "signup", tenant |-> "kiosk", user |-> "zoe", branch |-> "kiosk1"],
     bootstrap |-> [do |-> "bootstrap", tenant |-> "kiosk", user |-> "zoe", branch |-> "kiosk1"],
     support |-> [user |-> "yan", role |-> "support"] @@ OfRoot("platform_role", "none"),
     plan |-> [plan |-> "pro", status |-> "suspended"] @@ OfRoot("plan", "shop"),
     pastdue |-> [plan |-> "same", status |-> "past_due"] @@ OfRoot("plan", "shop"),
     listed |-> OfRoot("subscriptions", "none"),
     subscription |-> OfAnn("subscription", [at |-> "none"]),
     rename |-> OfAnn("rename", [name |-> "second"]),
     newmain |-> OfAnn("create_branch", ABranch("third", TRUE, TRUE)),
     newbranch |-> OfBob("create_branch", ABranch("third", FALSE, TRUE)),
     mainside |-> OfBob("update_branch", ABranch("side", TRUE, TRUE)),
     closemain |-> OfAnn("update_branch", ABranch("main", FALSE, FALSE)),
     closeside |-> OfAnn("update_branch", ABranch("side", FALSE, FALSE)),
     bobout |-> OfAnn("update_staff", Staff("bob", "owner", FALSE, {"main"})),
     annout |-> OfBob("update_staff", Staff("ann", "cashier", TRUE, {"main"})),
     bobself |-> OfBob("update_staff", Staff("bob", "manager", TRUE, {"main"})),
     catout |-> OfAnn("update_staff", Staff("cat", "cashier", FALSE, {"main"})),
     catside |-> OfAnn("update_staff", Staff("cat", "manager", TRUE, {"side"})),
     catboth |-> OfBob("update_staff", Staff("cat", "cashier", TRUE, {"main", "side"})),
     hiredan |-> OfAnn("create_staff", Staff("dan", "cashier", TRUE, {"side"})),
     hireyan |-> OfBob("create_staff", Staff("yan", "admin", TRUE, {"main"})),
     hiredan2 |-> OfBob("create_staff", Staff("dan", "manager", TRUE, {"main"})),
     till |-> OfCat("register_device", [device |-> "till", branch |-> "main"]),
     till2 |-> OfBob("register_device", [device |-> "till", branch |-> "main"]),
     tilloff |-> OfAnn("update_device", [device |-> "till", branch |-> "side", active |-> FALSE])]

DeskCalls ==
    [shift |-> OfAnn("create_shift", Hours("cat", 1, 3)),
     shift2 |-> OfBob("create_shift", Hours("cat", 2, 4)),
     shiftoff |-> OfAnn("shift_status", [row |-> "shift", status |-> "cancelled"]),
     in |-> OfCat("punch", [kind |-> "in"]), in2 |-> OfCat("punch", [kind |-> "in"]),
     out |-> OfCat("punch", [kind |-> "out"]),
     book |-> OfCat("book", Slot("cat", 1)), book2 |-> OfAnn("book", Slot("cat", 0)),
     bookany |-> OfAnn("book", Slot("nobody", 1)),
     cancel |-> OfBob("appointment_status", [row |-> "booked", status |-> "cancelled"]),
     checkin |-> OfCat("appointment_status", [row |-> "booked", status |-> "checked_in"]),
     newcut |-> OfAnn("create_service", [service |-> "wash", duration |-> 0, active |-> TRUE]),
     newcut2 |-> OfBob("create_service", [service |-> "wash", duration |-> 1, active |-> TRUE]),
     cutoff |-> OfAnn("update_service", [service |-> "cut", duration |-> 2, active |-> FALSE]),
     soap |-> OfAnn("set_material", [service |-> "cut", product |-> "soap", quantity |-> 1]),
     soap2 |-> OfBob("set_material", [service |-> "cut", product |-> "soap", quantity |-> 2]),
     nosoap |-> OfBob("remove_material", [service |-> "cut", product |-> "soap"]),
     order |-> OfAnn("create_order", [ordered |-> <<1>>]),
     submit |-> OfBob("order_status", [order |-> "order", status |-> "submitted"]),
     approveorder |-> OfAnn("order_status", [order |-> "ordered", status |-> "approved"]),
     cancelorder |-> OfBob("order_status", [order |-> "ordered", status |-> "cancelled"]),
     receive |-> OfAnn("receive", [order |-> "ordered", lines |-> <<Line(1, 1), Line(1, 1)>>]),
     receive2 |-> OfBob("receive", [order |-> "ordered", lines |-> <<Line(1, 1), Line(2, 1)>>]),
     receive3 |-> OfBob("receive", [order |-> "ordered", lines |-> <<Line(1, 1)>>]),
     promotion |-> OfAnn("promotion", [code |-> "june", kind |-> "percentage", value |-> 10]),
     promotion2 |-> OfBob("promotion", [code |-> "june", kind |-> "fixed", value |-> 5]),
     earn |-> Points4("new", "earn", 2), earn2 |-> Points4("new", "earn", 3),
     redeem |-> Points4("new", "redeem", 4), spend |-> Points4("old", "redeem", 2),
     adjust |-> Points4("old", "adjustment", -2), bonus |-> Points4("old", "adjustment", 1),
     quote |-> OfCat("document", [kind |-> "quotation", lines |-> <<Price(2, 3, 0), Price(4, 0, 1)>>]),
     accept |-> OfAnn("document_status", [row |-> "quote", status |-> "accepted"]),
     alerts |-> OfAnn("alerts", [at |-> "main"]), alerts2 |-> OfBob("alerts", [at |-> "main"]),
     seenit |-> OfBob("alert_status", [row |-> <<"alerts", "soap">>, status |-> "acknowledged"])]

MCCall == AccessCalls @@ DeskCalls
MCTxns == DOMAIN MCCall
MCOpOf == [t \in MCTxns |-> t]

OwnerRow == [role |-> "owner", active |-> TRUE]
SignedIn(u) == [user |-> u, token |-> "first", revoked |-> FALSE]
InShop(main) == [tenant |-> "shop", main |-> main, active |-> TRUE]

MCRowsAtStart ==
       Tenant("shop") :> [status |-> "approved", active |-> TRUE, name |-> "first"]
    @@ Tenant("stall") :> [status |-> "pending", active |-> FALSE, name |-> "first"]
    @@ [k \in {User(u) : u \in {"ann", "bob", "cat", "yan", "root"}} |-> [platform |-> "none"]]
    @@ Branch("main") :> InShop(TRUE) @@ Branch("side") :> InShop(FALSE)
    @@ Branch("stall1") :> [tenant |-> "stall", main |-> TRUE, active |-> FALSE]
    @@ Member("shop", "ann") :> OwnerRow @@ Member("shop", "bob") :> OwnerRow
    @@ Member("shop", "cat") :> [role |-> "cashier", active |-> TRUE]
    @@ Member("stall", "yan") :> [role |-> "owner", active |-> FALSE]
    @@ [k \in {Granted("shop", u, "main") : u \in {"ann", "bob", "cat"}} |-> Assigned]
    @@ Granted("stall", "yan", "stall1") :> Assigned
    @@ Session("ann0") :> SignedIn("ann") @@ Session("bob0") :> SignedIn("bob")
    @@ Session("cat0") :> SignedIn("cat") @@ Session("root0") :> SignedIn("root")
    @@ Appointment("booked") :> [staff |-> "cat", from |-> 1, to |-> 2, status |-> "scheduled"]
    @@ Service("cut") :> [duration |-> 2, active |-> TRUE]
    @@ Order("ordered") :> [status |-> "submitted", ordered |-> <<3, 1>>, received |-> <<0, 0>>]
    @@ Loyalty("old") :> [balance |-> 3, earned |-> 3] @@ Points("opening") :> [customer |-> "old", points |-> 3]
    @@ Stock("main", "soap") :> [low |-> TRUE] @@ Stock("main", "comb") :> [low |-> FALSE]

MCKeys ==
    DOMAIN MCRowsAtStart
    \cup {Tenant("kiosk"), Branch("kiosk1"), Branch("third"), Subscription("shop"), Subscription("stall"), Device("till")}
    \cup {User("zoe"), User("dan"), Member("kiosk", "zoe"), Granted("kiosk", "zoe", "kiosk1")}
    \cup {Member("shop", "dan"), Member("shop", "yan")}
    \cup {Granted("shop", u, b) : u \in {"ann", "bob", "cat", "dan", "yan"}, b \in {"main", "side", "third"}}
    \cup {Session(t) : t \in {"login", "loginyan", "bootstrap"}}
    \cup {Shift(t) : t \in {"shift", "shift2"}} \cup {Punch(t) : t \in {"in", "in2", "out"}}
    \cup {Appointment(t) : t \in {"book", "book2", "bookany"}}
    \cup {Service("wash"), Material("cut", "soap"), Order("order"), Promotion("june"), Loyalty("new")}
    \cup {Points(t) : t \in {"earn", "earn2", "redeem", "spend", "adjust", "bonus"}}
    \cup {Document("quote")} \cup {Alert(<<t, p>>) : t \in {"alerts", "alerts2"}, p \in {"soap", "comb"}}

MCScenarios ==
    {{"refresh", "refreshagain", "logout"}, {"refresh", "refreshnext", "catout"},
     {"suspend", "login", "refresh", "hireyan"}, {"suspend", "login", "catside", "reactivate"},
     {"suspend", "reactivate", "rename"}, {"suspend", "approveshop", "catout"},
     {"approve", "reject", "loginyan"}, {"approve", "support"},
     {"bobout", "annout", "bobself", "suspend"},
     {"newmain", "mainside", "closemain", "closeside"}, {"newmain", "newbranch", "closeside"},
     {"hiredan", "hiredan2", "closeside"}, {"catside", "catboth"},
     {"till", "till2", "tilloff"},
     {"plan", "pastdue", "subscription"}, {"listed", "subscription"},
     {"signup", "bootstrap"},
     {"shift", "shift2", "shiftoff"},
     {"in", "in2", "out"},
     {"book", "book2", "cancel", "checkin"}, {"bookany", "cancel", "checkin"},
     {"newcut", "newcut2"}, {"cutoff", "book2"},
     {"soap", "soap2", "nosoap"},
     {"order", "submit"},
     {"approveorder", "receive", "receive2", "receive3"}, {"approveorder", "cancelorder", "receive"},
     {"promotion", "promotion2"}, {"quote", "accept"},
     {"earn", "earn2", "redeem"},
     {"spend", "adjust", "bonus"},
     {"alerts", "alerts2", "seenit"}}
===============================================================================
