------------------------------- MODULE Records -------------------------------
(***************************************************************************)
(* The handlers of the API that only read rows, decide, and write: each is *)
(* one SQLAlchemy session.  What is an object of the session keeps the     *)
(* values it was loaded with, while the conditions and counts of a later   *)
(* query see what is committed.  The commit writes the columns that the    *)
(* handler has changed and no others, over whatever the row has become     *)
(* since.  An insert fails when the unique key is taken by then.           *)
(*                                                                         *)
(* A row is a record; a write of a row is a record of the columns it sets. *)
(***************************************************************************)
EXTENDS Requests

CONSTANTS
    Keys,           \* the rows there can be
    RowsAtStart     \* those there are when the model starts

VARIABLES
    stored,         \* what is committed
    held,           \* the objects each request has had since it arrived
    found,          \* what its later queries have found
    rivals          \* the requests it was deciding together with

records == <<stored, held, found, rivals>>

\* r as the row k; the rows of f and of g, those of f where both have one
k :> r == [x \in {k} |-> r]
f @@ g == [x \in DOMAIN f \cup DOMAIN g |-> IF x \in DOMAIN f THEN f[x] ELSE g[x]]

Absent == [none |-> TRUE]
Present(r) == r # Absent
Unread == [k \in {} |-> Absent]

AtStart == [k \in Keys |-> IF k \in DOMAIN RowsAtStart THEN RowsAtStart[k] ELSE Absent]

RecordsInit ==
    /\ RequestsInit
    /\ stored = AtStart
    /\ held = [t \in Txns |-> Unread]
    /\ found = [t \in Txns |-> Unread]
    /\ rivals = [t \in Txns |-> {}]

RecordsTypeOK(RowOf(_)) ==
    /\ \A k \in Keys : stored[k] = Absent \/ stored[k] \in RowOf(k)
    /\ \A t \in Txns : DOMAIN held[t] \subseteq Keys /\ DOMAIN found[t] \in {{}, Keys}
    /\ rivals \in [Txns -> SUBSET Txns]

\* The request arrives and loads the rows that say who sends it.
Enter(t, context) ==
    /\ pc[t] = "idle"
    /\ Goto(t, "working")
    /\ held' = [held EXCEPT ![t] = [k \in context \cap Keys |-> stored[k]]]
    /\ UNCHANGED <<answer, queue, stored, found, rivals>>

\* row k as the request has it
Object(t, k) == IF k \in DOMAIN held[t] THEN held[t][k] ELSE found[t][k]

\* A row it wants FOR UPDATE is locked by another request.
Wait(t, locks) ==
    /\ At(t, "working")
    /\ \E l \in locks : ~Free(l) /\ ~Asked(t, l) /\ Ask(t, l)
    /\ UNCHANGED <<pc, answer, records>>

\* The requests that have loaded what they decide on and have not committed.
Undecided == {t \in Txns : pc[t] = "loaded"}

\* It queries what else it needs, with the locks it wants.
Load(t, locks) ==
    /\ At(t, "working")
    /\ \A l \in locks : Free(l) \/ Holds(t, l)
    /\ IF \E l \in locks : Free(l) THEN Ask(t, CHOOSE l \in locks : Free(l)) ELSE UNCHANGED queue
    /\ Goto(t, "loaded")
    /\ found' = [found EXCEPT ![t] = stored]
    /\ rivals' = [u \in Txns |-> IF u = t THEN Undecided
                                 ELSE IF u \in Undecided THEN rivals[u] \cup {t} ELSE rivals[u]]
    /\ UNCHANGED <<answer, stored, held>>

\* mutant: every column is written back as it was loaded
DirtyAll(was, new) == new

\* the columns an object has changed
Dirty(was, new) == [c \in {x \in DOMAIN new : new[x] # was[x]} |-> new[c]]

\* None of the rows to insert is there by now and none of those to update is gone
\* (a row that is written whole is inserted again).
Fits(t, writes) ==
    \A k \in DOMAIN writes :
        \/ writes[k] = Absent
        \/ Present(found[t][k]) <=> Present(stored[k])
        \/ Present(found[t][k]) /\ DOMAIN writes[k] = DOMAIN found[t][k]

\* no other request has locked them
Reachable(t, writes) == \A k \in DOMAIN writes : Free(k) \/ Holds(t, k)

Close(t, what) ==
    /\ End(t, what)
    /\ held' = [held EXCEPT ![t] = Unread]
    /\ found' = [found EXCEPT ![t] = Unread]
    /\ UNCHANGED rivals

Fail(t) == Close(t, "refused") /\ UNCHANGED stored

Nothing == [k \in {} |-> Absent]

\* the commit, or the error of a constraint
Save(t, writes) ==
    /\ Reachable(t, writes)
    /\ IF Fits(t, writes)
       THEN /\ stored' = [k \in Keys |->
                           IF k \notin DOMAIN writes THEN stored[k]
                           ELSE IF Present(stored[k]) /\ Present(writes[k]) THEN writes[k] @@ stored[k]
                           ELSE writes[k]]
            /\ Close(t, "created")
       ELSE Fail(t)
===============================================================================
