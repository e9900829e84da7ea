------------------------------- MODULE Requests -------------------------------
(***************************************************************************)
(* An HTTP request of the API, from its arrival to its answer: one READ    *)
(* COMMITTED transaction that get_db (core/database.py) opens and that     *)
(* commits, rolls back or dies as a whole.  A client operation is sent as  *)
(* one or more copies (retries, overlapping flushes); a copy takes the     *)
(* advisory lock of its operation (services/idempotency.py), looks the     *)
(* operation up and then works, in the stages of its handler.              *)
(***************************************************************************)
EXTENDS RowLocks

CONSTANTS
    Ops,            \* client operations
    OpOf,           \* the operation each request is a copy of
    Scenarios,      \* the requests that are sent together
    Mortal          \* requests that may die before they commit

VARIABLES
    pc,             \* of each request
    answer          \* what its client was told

requests == <<pc, answer, queue>>

Operation(o) == <<"operation", o>>

RequestsInit ==
    /\ \E S \in Scenarios : pc = [t \in Txns |-> IF t \in S THEN "idle" ELSE "unsent"]
    /\ answer = [t \in Txns |-> "none"]
    /\ queue = NoLocks

RequestsTypeOK(stages) ==
    /\ pc \in [Txns -> {"unsent", "idle", "lookup", "working", "done"} \cup stages]
    /\ answer \in [Txns -> {"none", "created", "replayed", "refused"}]
    /\ QueueTypeOK

At(t, stage) == pc[t] = stage /\ ~Blocked(t)

Goto(t, stage) == pc' = [pc EXCEPT ![t] = stage]

\* commit or roll back with an answer
End(t, what) ==
    /\ Goto(t, "done")
    /\ answer' = [answer EXCEPT ![t] = what]
    /\ LeaveAll(t)

\* Each handler begins with the lookup of its operation; there says whether
\* its row exists.
LookedUp(t, there) ==
    IF there
    THEN Goto(t, "done") /\ answer' = [answer EXCEPT ![t] = "replayed"]
    ELSE Goto(t, "working") /\ UNCHANGED answer

\* mutant: without the operation's lock
BeginUnlocked(t, there) == pc[t] = "idle" /\ LookedUp(t, there) /\ UNCHANGED queue

\* A request arrives.  It looks its operation up in the same step if no other
\* copy holds the operation's lock: nobody else can write what it looks for.
Begin(t, there) ==
    LET l == Operation(OpOf[t])
    IN  /\ pc[t] = "idle"
        /\ IF Free(l) THEN LookedUp(t, there) ELSE Goto(t, "lookup") /\ UNCHANGED answer
        /\ IF Free(l) /\ there THEN UNCHANGED queue ELSE Ask(t, l)

Lookup(t, there) ==
    /\ At(t, "lookup")
    /\ LookedUp(t, there)
    /\ IF there THEN LeaveAll(t) ELSE UNCHANGED queue

\* a handler without a client operation
Start(t) == pc[t] = "idle" /\ Goto(t, "working") /\ UNCHANGED <<answer, queue>>

\* everything is undone, and the client may send the request again
Rollback(t) == Goto(t, "idle") /\ LeaveAll(t) /\ UNCHANGED answer

Crash(t) == t \in Mortal /\ pc[t] \notin {"unsent", "idle", "done"} /\ Rollback(t)

\* nothing is left to do
AllAnswered == \A t \in Txns : pc[t] \in {"unsent", "done"}
===============================================================================
