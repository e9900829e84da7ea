--------------------------- MODULE OperationServer ---------------------------
(***************************************************************************)
(* What the server promises about client operations, and what the devices  *)
(* (module OfflineOutbox) rely on: an operation takes effect at most once, *)
(* every copy sent after that is told so, and only an operation that has   *)
(* not taken effect is refused.  The handlers of sales, customer payments, *)
(* returns, till movements, purchases and stock corrections implement it   *)
(* with the advisory lock of services/idempotency.py and one unique        *)
(* constraint on (tenant_id, client_operation_id) per table.               *)
(***************************************************************************)
CONSTANTS
    Ops,            \* client operations
    Txns,           \* the requests that carry them
    OpOf            \* the operation a request is a copy of

VARIABLES
    posted,         \* operations that took effect
    answer          \* what each request was told

Init == posted \subseteq Ops /\ answer = [t \in Txns |-> "none"]

Tell(t, what) ==
    answer[t] = "none" /\ answer' = [answer EXCEPT ![t] = what]

Post(t) ==
    /\ OpOf[t] \notin posted
    /\ Tell(t, "created")
    /\ posted' = posted \cup {OpOf[t]}

Replay(t) == OpOf[t] \in posted /\ Tell(t, "replayed") /\ UNCHANGED posted

Refuse(t) == OpOf[t] \notin posted /\ Tell(t, "refused") /\ UNCHANGED posted

Next == \E t \in Txns : Post(t) \/ Replay(t) \/ Refuse(t)

Spec == Init /\ [][Next]_<<posted, answer>>
===============================================================================
