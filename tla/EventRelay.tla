----------------------------- MODULE EventRelay -----------------------------
(***************************************************************************)
(* How the devices hear of a change: an operation commits a row of         *)
(* outbox_events with everything else it writes (services/outbox.py), the  *)
(* workers publish the rows to Redis (workers/outbox.py), and the API      *)
(* process that listens (realtime/subscriber.py) sends them on to the      *)
(* WebSockets of the tenant (realtime/manager.py, routes/realtime.py).     *)
(*                                                                         *)
(* Redis keeps nothing: what is published while nobody listens is gone.    *)
(* Events are numbered in the order of created_at, which is not the order  *)
(* in which they are committed.  One tenant: a broadcast looks at the      *)
(* sockets of the event's tenant only.  Left out: payloads, attempts (a    *)
(* counter nobody reads), pings.                                           *)
(***************************************************************************)
EXTENDS Naturals, Sequences, FiniteSets

CONSTANTS
    Events,         \* numbers
    Workers,
    Batch,          \* the rows a worker takes at most
    Sockets,
    RelayFaults     \* how often a worker may die or Redis may fail

ASSUME RelayAssumption ==
    Events \subseteq Nat \ {0} /\ Batch \in Nat \ {0} /\ RelayFaults \in Nat

VARIABLES
    event,          \* rows of outbox_events
    batch,          \* the rows a worker has locked and not handled yet
    handled,        \* the rows it has handled, with what it will write
    sent,           \* how often Redis was given an event
    faults,         \* how often something has failed
    listening,      \* the subscriber task is alive
    inbox,          \* what it has received
    broadcast,      \* the broadcast it is in the middle of
    socket          \* what a device's connection is

queue == <<event, batch, handled>>
relay == <<listening, inbox, broadcast, socket>>
relayVars == <<queue, sent, faults, relay>>

Broadcast ==
    [event : Events \cup {0}, base : SUBSET Sockets, visited : SUBSET Sockets,
     got : SUBSET Sockets, stale : SUBSET Sockets, moved : BOOLEAN, popped : BOOLEAN]
None == [event |-> 0, base |-> {}, visited |-> {}, got |-> {}, stale |-> {},
         moved |-> FALSE, popped |-> FALSE]

RelayInit ==
    /\ event = [e \in Events |-> "none"]
    /\ batch = [w \in Workers |-> {}]
    /\ handled = [w \in Workers |-> [e \in {} |-> "new"]]
    /\ sent = [e \in Events |-> 0]
    /\ faults = 0
    /\ listening = TRUE /\ inbox = <<>> /\ broadcast = None
    /\ socket = [s \in Sockets |-> "away"]

-----------------------------------------------------------------------------
(* The outbox worker                                                        *)

\* enqueue_event, and the commit of the operation
CommitEvent(e) ==
    /\ event[e] = "none"
    /\ event' = [event EXCEPT ![e] = "new"]
    /\ UNCHANGED <<batch, handled, sent, faults, relay>>

InHand(w) == batch[w] \cup DOMAIN handled[w]

\* mutant: rows with an error are left
UnpublishedFresh == {e \in Events : event[e] = "new"}

\* published_at is null
Unpublished == {e \in Events : event[e] \in {"new", "failed"}}

\* mutant: the rows are not locked
ClaimableShared == Unpublished

\* FOR UPDATE SKIP LOCKED
Claimable == Unpublished \ UNION {InHand(w) : w \in Workers}

\* the oldest rows, Batch of them at most
Oldest(S) == {e \in S : Cardinality({d \in S : d < e}) < Batch}

Claim(w) ==
    /\ InHand(w) = {} /\ Claimable # {}
    /\ batch' = [batch EXCEPT ![w] = Oldest(Claimable)]
    /\ UNCHANGED <<event, handled, sent, faults, relay>>

\* the rows of a batch are handled one by one, oldest first
Handle(w, e, outcome) ==
    /\ e \in batch[w] /\ \A d \in batch[w] : e <= d
    /\ batch' = [batch EXCEPT ![w] = @ \ {e}]
    /\ handled' = [handled EXCEPT ![w] =
                      [d \in DOMAIN @ \cup {e} |-> IF d = e THEN outcome ELSE @[d]]]

\* Redis passes an event on to whoever listens at that moment
Deliver(e) ==
    /\ sent' = [sent EXCEPT ![e] = @ + 1]
    /\ inbox' = IF listening THEN Append(inbox, e) ELSE inbox

Publish(w) ==
    /\ \E e \in batch[w] : Handle(w, e, "published") /\ Deliver(e)
    /\ UNCHANGED <<event, faults, listening, broadcast, socket>>

\* publish raises, before or after Redis has the event: last_error is set
PublishFails(w) ==
    /\ faults < RelayFaults /\ faults' = faults + 1
    /\ \E e \in batch[w] : /\ Handle(w, e, "failed")
                           /\ UNCHANGED <<sent, inbox>> \/ Deliver(e)
    /\ UNCHANGED <<event, listening, broadcast, socket>>

LetGo(w) ==
    /\ batch' = [batch EXCEPT ![w] = {}]
    /\ handled' = [handled EXCEPT ![w] = [e \in {} |-> "new"]]

\* one commit for the whole batch
CommitBatch(w) ==
    /\ batch[w] = {} /\ DOMAIN handled[w] # {}
    /\ event' = [e \in Events |-> IF e \in DOMAIN handled[w] THEN handled[w][e] ELSE event[e]]
    /\ LetGo(w)
    /\ UNCHANGED <<sent, faults, relay>>

\* the transaction is rolled back, and the container is started again
CrashWorker(w) ==
    /\ InHand(w) # {} /\ faults < RelayFaults /\ faults' = faults + 1
    /\ LetGo(w)
    /\ UNCHANGED <<event, sent, relay>>

-----------------------------------------------------------------------------
(* The API process                                                          *)

Connected == {s \in Sockets : socket[s] \in {"open", "broken"}}

\* The set of sockets changes: a broadcast under way has had its iterator moved.
\* An empty set is popped: whoever connects next is in another set.
Disturb ==
    broadcast' = IF broadcast = None THEN None
                 ELSE [broadcast EXCEPT !.moved = TRUE, !.popped = @ \/ Connected' = {}]

\* tenant_events: the token, the session and the membership are looked at once,
\* and not again while the socket is open
Admit(s) ==
    /\ socket[s] = "away"
    /\ \E outcome \in {"admitted", "refused"} : socket' = [socket EXCEPT ![s] = outcome]
    /\ UNCHANGED <<queue, sent, faults, listening, inbox, broadcast>>

\* after accept()
Connect(s) ==
    /\ socket[s] = "admitted"
    /\ socket' = [socket EXCEPT ![s] = "open"]
    /\ Disturb
    /\ UNCHANGED <<queue, sent, faults, listening, inbox>>

\* the peer is gone and nobody has noticed
Break(s) ==
    /\ socket[s] = "open"
    /\ socket' = [socket EXCEPT ![s] = "broken"]
    /\ UNCHANGED <<queue, sent, faults, listening, inbox, broadcast>>

\* receive_text raises WebSocketDisconnect
Disconnect(s) ==
    /\ s \in Connected
    /\ socket' = [socket EXCEPT ![s] = "closed"]
    /\ Disturb
    /\ UNCHANGED <<queue, sent, faults, listening, inbox>>

\* with nobody to send to there is nothing to wait for: the broadcast is over at once
StartBroadcast ==
    /\ listening /\ broadcast = None /\ inbox # <<>>
    /\ broadcast' = IF Connected = {} THEN None
                    ELSE [None EXCEPT !.event = Head(inbox), !.base = Connected]
    /\ inbox' = Tail(inbox)
    /\ UNCHANGED <<queue, sent, faults, listening, socket>>

\* the iterator's set has the size it had
SameSize == ~broadcast.popped /\ Cardinality(Connected) = Cardinality(broadcast.base)

\* mutant: a socket that fails ends the broadcast
SendStopping(s) ==
    /\ broadcast # None /\ SameSize
    /\ s \in Connected \ broadcast.visited
    /\ IF socket[s] = "open"
       THEN broadcast' = [broadcast EXCEPT !.visited = @ \cup {s}, !.got = @ \cup {s}]
       ELSE broadcast' = [broadcast EXCEPT !.visited = Connected, !.stale = {s}]
    /\ UNCHANGED <<queue, sent, faults, listening, inbox, socket>>

\* send_json to the next socket
Send(s) ==
    /\ broadcast # None /\ SameSize
    /\ s \in Connected \ broadcast.visited
    /\ IF socket[s] = "open"
       THEN broadcast' = [broadcast EXCEPT !.visited = @ \cup {s}, !.got = @ \cup {s}]
       ELSE broadcast' = [broadcast EXCEPT !.visited = @ \cup {s}, !.stale = @ \cup {s}]
    /\ UNCHANGED <<queue, sent, faults, listening, inbox, socket>>

\* The end of the iteration; the stale sockets are removed in the same step.  An
\* iterator whose set lost one socket and gained another may have missed some.
FinishBroadcast ==
    /\ broadcast # None /\ SameSize
    /\ broadcast.moved \/ broadcast.visited = broadcast.base
    /\ socket' = [s \in Sockets |-> IF s \in Connected \cap broadcast.stale THEN "closed" ELSE socket[s]]
    /\ broadcast' = None
    /\ UNCHANGED <<queue, sent, faults, listening, inbox>>

\* "Set changed size during iteration" leaves broadcast and ends the task
StopListening ==
    /\ broadcast # None /\ ~SameSize
    /\ listening' = FALSE /\ inbox' = <<>> /\ broadcast' = None
    /\ UNCHANGED <<queue, sent, faults, socket>>

\* Redis fails the subscriber as it waits for a message: the task ends, and what had
\* not been read is lost
LoseRedis ==
    /\ listening /\ broadcast = None
    /\ listening' = FALSE /\ inbox' = <<>>
    /\ UNCHANGED <<queue, sent, faults, broadcast, socket>>

\* the process is started again, and its devices may connect again
RestartApi ==
    /\ ~listening /\ listening' = TRUE
    /\ socket' = [s \in Sockets |-> "away"]
    /\ UNCHANGED <<queue, sent, faults, inbox, broadcast>>

Work(w) == Claim(w) \/ Publish(w) \/ PublishFails(w) \/ CommitBatch(w)

RelayNext ==
    \/ \E e \in Events : CommitEvent(e)
    \/ \E w \in Workers : Work(w) \/ CrashWorker(w)
    \/ \E s \in Sockets :
          \/ Admit(s) \/ Connect(s) \/ Break(s) \/ Disconnect(s)
          \/ Send(s)
    \/ StartBroadcast \/ FinishBroadcast \/ StopListening \/ LoseRedis
    \/ RestartApi

RelaySpec == RelayInit /\ [][RelayNext]_relayVars

\* run_forever never stops looking for rows, and faults are few
FairRelaySpec == RelaySpec /\ \A w \in Workers : WF_relayVars(Work(w))

-----------------------------------------------------------------------------
(* Properties                                                               *)

RelayTypeOK ==
    /\ event \in [Events -> {"none", "new", "failed", "published"}]
    /\ batch \in [Workers -> SUBSET Events]
    /\ DOMAIN handled = Workers
    /\ \A w \in Workers :
          /\ DOMAIN handled[w] \subseteq Events
          /\ \A e \in DOMAIN handled[w] : handled[w][e] \in {"failed", "published"}
    /\ sent \in [Events -> Nat]
    /\ faults \in 0..RelayFaults
    /\ listening \in BOOLEAN
    /\ inbox \in Seq(Events)
    /\ socket \in [Sockets -> {"away", "refused", "admitted", "open", "broken", "closed"}]
    /\ broadcast \in Broadcast

\* Redis is given an event a second time only when something failed in between,
\* however many workers run (workers/outbox.py:20, 39).
RepeatedOnlyAfterFault == \A e \in Events : sent[e] <= 1 + faults

\* A row an operation has committed is marked as published in the end, and Redis was
\* given it, though workers die between publishing and committing and Redis fails
\* some of the time (workers/outbox.py:24-38).
EventuallyPublished == \A e \in Events : event[e] = "new" ~> (event[e] = "published" /\ sent[e] > 0)

\* A broadcast during which no socket came or went reaches every socket that
\* works, whichever others are broken (realtime/manager.py:23-29).
EveryoneHears ==
    [][broadcast # None /\ broadcast' = None /\ ~broadcast.moved =>
          \A s \in broadcast.base :
              socket[s] = "open" /\ socket'[s] = "open" => s \in broadcast.got]_relayVars
=============================================================================
