------------------------------- MODULE Delivery -------------------------------
(***************************************************************************)
(* What the offline outbox promises for every operation a cashier records, *)
(* with no flush, no row and no request in sight:                          *)
(*                                                                         *)
(*   - the server's books contain an operation at most once, and only if   *)
(*     somebody asked for it ("idempotent commands");                      *)
(*   - what is in the books stays there (append-oriented records);         *)
(*   - the device reports an operation as done only when it is in the      *)
(*     books, and keeps every other operation visible, as open work or as  *)
(*     an item that needs attention: nothing is dropped.                   *)
(*                                                                         *)
(* OfflineOutbox implements this module.                                   *)
(***************************************************************************)

CONSTANTS Ops           \* every operation id the device will ever generate

VARIABLES
    asked,              \* operations the user has recorded on the device
    effect,             \* operations in the server's books
    told                \* what the device reports for each operation

dvars == <<asked, effect, told>>

Reports == {"open", "done", "attention"}

Init ==
    /\ asked = {}
    /\ effect = {}
    /\ told = [o \in Ops |-> "open"]

Ask(o) ==
    /\ o \notin asked
    /\ asked' = asked \cup {o}
    /\ UNCHANGED <<effect, told>>

TakeEffect(o) ==
    /\ o \in asked \ effect
    /\ effect' = effect \cup {o}
    /\ UNCHANGED <<asked, told>>

Report(o, r) ==
    /\ o \in asked
    /\ r = "done" => o \in effect
    /\ told' = [told EXCEPT ![o] = r]
    /\ UNCHANGED <<asked, effect>>

Next ==
    \E o \in Ops :
        \/ Ask(o)
        \/ TakeEffect(o)
        \/ \E r \in Reports : Report(o, r)

Spec == Init /\ [][Next]_dvars
================================================================================
