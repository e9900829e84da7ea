------------------------------- MODULE RowLocks -------------------------------
(***************************************************************************)
(* The locks of PostgreSQL as the API uses them: SELECT ... FOR UPDATE on  *)
(* a row and pg_advisory_xact_lock on a client operation.  A lock is       *)
(* granted in the order it was asked for and is kept until the transaction *)
(* commits or rolls back; a transaction that waits in a cycle is aborted   *)
(* by the server.  The sharing of FOR KEY SHARE locks (foreign keys) is    *)
(* left out: the modules that use this one name the rows they contend for. *)
(***************************************************************************)
EXTENDS Naturals, Sequences, FiniteSets

CONSTANT Txns       \* HTTP requests, each one database transaction

VARIABLE queue      \* for each row and operation that is locked, its holder and those who wait

QueueTypeOK == \A l \in DOMAIN queue : queue[l] \in Seq(Txns) \ {<<>>}

NoLocks == [l \in {} |-> <<>>]

\* l is not held, and nobody waits for it
Free(l) == l \notin DOMAIN queue

Holds(t, l) == ~Free(l) /\ Head(queue[l]) = t

Waits(t, l) == \E i \in 2..Len(queue[l]) : queue[l][i] = t

Asked(t, l) == ~Free(l) /\ \E i \in 1..Len(queue[l]) : queue[l][i] = t

Blocked(t) == \E l \in DOMAIN queue : Waits(t, l)

\* the transaction asks for l; it holds it at once if it is free
Ask(t, l) ==
    queue' = [k \in DOMAIN queue \cup {l} |->
                 IF k # l THEN queue[k] ELSE IF Free(l) THEN <<t>> ELSE Append(queue[l], t)]

\* the queue without t, which is in it once at most
Without(q, t) ==
    IF \E i \in DOMAIN q : q[i] = t
    THEN LET i == CHOOSE j \in DOMAIN q : q[j] = t
         IN  SubSeq(q, 1, i - 1) \o SubSeq(q, i + 1, Len(q))
    ELSE q

\* commit or rollback: everything is released to whoever is next
LeaveAll(t) ==
    queue' = [l \in {k \in DOMAIN queue : queue[k] # <<t>>} |-> Without(queue[l], t)]

\* Whom t waits for; t itself if it does not wait.  The first to wait for a row
\* waits for its holder, the others for the first (it has the tuple lock).
Blocker(t) ==
    IF Blocked(t)
    THEN LET l == CHOOSE k \in DOMAIN queue : Waits(t, k)
         IN  IF queue[l][2] = t THEN queue[l][1] ELSE queue[l][2]
    ELSE t

\* following the blockers from t leads back to t
Deadlocked(t) ==
    LET after[n \in 0..Cardinality(Txns)] ==
            IF n = 0 THEN t ELSE Blocker(after[n - 1])
    IN  Blocked(t) /\ \E n \in 1..Cardinality(Txns) : after[n] = t
===============================================================================
