---------------------------- MODULE RequestsProofs ----------------------------
(***************************************************************************)
(* What the proofs about the handlers rely on: facts about the locks of    *)
(* RowLocks and about the stages of a request in Requests.  A lock has one *)
(* holder by definition (the head of its queue); what has to be proved is  *)
(* that nobody else's step takes a lock from its holder, and that a        *)
(* request that waits for nothing holds all it has asked for.              *)
(***************************************************************************)
EXTENDS Requests, Sums

LEMMA NotBlockedHolds ==
    ASSUME QueueTypeOK, NEW t \in Txns, NEW l, Asked(t, l), ~Blocked(t)
    PROVE  Holds(t, l)
PROOF
<1>1. l \in DOMAIN queue /\ queue[l] \in Seq(Txns) \ {<<>>}
      BY DEF Asked, Free, QueueTypeOK
<1>2. PICK i \in 1..Len(queue[l]) : queue[l][i] = t
      BY DEF Asked
<1>3. i \notin 2..Len(queue[l])
      BY <1>1, <1>2 DEF Blocked, Waits
<1>4. i = 1
      BY <1>2, <1>3
<1>   QED BY <1>1, <1>2, <1>4 DEF Holds, Free

LEMMA HolderIsOne ==
    ASSUME NEW t, NEW u, NEW l, Holds(t, l), Holds(u, l)
    PROVE  t = u
PROOF BY DEF Holds

LEMMA HoldsIsAsked ==
    ASSUME QueueTypeOK, NEW t \in Txns, NEW l, Holds(t, l)
    PROVE  Asked(t, l) /\ l \in DOMAIN queue
PROOF
<1>1. l \in DOMAIN queue /\ queue[l] \in Seq(Txns) \ {<<>>} /\ Head(queue[l]) = t
      BY DEF Holds, Free, QueueTypeOK
<1>2. 1 \in 1..Len(queue[l]) /\ queue[l][1] = t
      BY <1>1
<1>   QED BY <1>1, <1>2 DEF Asked, Free

\* Asking for a lock takes none from its holder.
LEMMA AskKeeps ==
    ASSUME QueueTypeOK, NEW t \in Txns, NEW l, Ask(t, l)
    PROVE  /\ QueueTypeOK'
           /\ \A u \in Txns : \A k : Holds(u, k) => Holds(u, k)'
           /\ \A u \in Txns : \A k : Asked(u, k) => Asked(u, k)'
           /\ Asked(t, l)'
           /\ Free(l) => Holds(t, l)'
PROOF
<1>1. /\ DOMAIN queue' = DOMAIN queue \cup {l}
      /\ \A k \in DOMAIN queue \cup {l} : k # l => queue'[k] = queue[k]
      /\ l \notin DOMAIN queue => queue'[l] = <<t>>
      /\ l \in DOMAIN queue => queue'[l] = Append(queue[l], t)
      BY DEF Ask, Free
<1>2. \A k \in DOMAIN queue : queue[k] \in Seq(Txns) /\ queue[k] # <<>>
      BY DEF QueueTypeOK
<1>3. /\ queue'[l] \in Seq(Txns) /\ queue'[l] # <<>>
      /\ \E i \in 1..Len(queue'[l]) : queue'[l][i] = t
      /\ l \in DOMAIN queue => /\ Head(queue'[l]) = Head(queue[l])
                               /\ Len(queue'[l]) = Len(queue[l]) + 1 /\ Len(queue[l]) \in Nat
                               /\ \A i \in 1..Len(queue[l]) : queue'[l][i] = queue[l][i]
  <2>1. CASE l \in DOMAIN queue
    <3>1. queue'[l] = Append(queue[l], t) /\ queue[l] \in Seq(Txns) /\ queue[l] # <<>>
          BY <1>1, <1>2, <2>1
    <3>2. /\ Len(queue'[l]) = Len(queue[l]) + 1 /\ Len(queue[l]) \in Nat
          /\ queue'[l][Len(queue[l]) + 1] = t
          /\ \A i \in 1..Len(queue[l]) : queue'[l][i] = queue[l][i]
          /\ queue'[l] \in Seq(Txns) /\ queue'[l] # <<>>
          BY <3>1
    <3>3. Head(queue'[l]) = Head(queue[l])
          BY <3>1
    <3>   QED BY <2>1, <3>2, <3>3
  <2>2. CASE l \notin DOMAIN queue
    <3>1. queue'[l] = <<t>>
          BY <1>1, <2>2
    <3>2. <<t>> \in Seq(Txns) /\ <<t>> # <<>> /\ 1 \in 1..Len(<<t>>) /\ <<t>>[1] = t
          OBVIOUS
    <3>   QED BY <2>2, <3>1, <3>2
  <2>   QED BY <2>1, <2>2
<1>4. QueueTypeOK'
      BY <1>1, <1>2, <1>3 DEF QueueTypeOK
<1>5. ASSUME NEW u \in Txns, NEW k, Holds(u, k)
      PROVE  Holds(u, k)'
      BY <1>1, <1>3, <1>5 DEF Holds, Free
<1>6. ASSUME NEW u \in Txns, NEW k, Asked(u, k)
      PROVE  Asked(u, k)'
      BY <1>1, <1>3, <1>6 DEF Asked, Free
<1>7. Asked(t, l)'
      BY <1>1, <1>3 DEF Asked, Free
<1>8. Free(l) => Holds(t, l)'
      BY <1>1 DEF Holds, Free
<1>   QED BY <1>4, <1>5, <1>6, <1>7, <1>8

LEMMA WithoutHead ==
    ASSUME NEW q \in Seq(Txns), q # <<>>, NEW t, q # <<t>>
    PROVE  /\ Without(q, t) \in Seq(Txns) /\ Without(q, t) # <<>>
           /\ Head(q) # t => Head(Without(q, t)) = Head(q)
           /\ \A u : u # t /\ (\E i \in 1..Len(q) : q[i] = u)
                   => \E i \in 1..Len(Without(q, t)) : Without(q, t)[i] = u
PROOF
<1>1. CASE ~ \E i \in DOMAIN q : q[i] = t
      BY <1>1 DEF Without
<1>2. CASE \E i \in DOMAIN q : q[i] = t
  <2> DEFINE i == CHOOSE j \in DOMAIN q : q[j] = t
             a == SubSeq(q, 1, i - 1)
             b == SubSeq(q, i + 1, Len(q))
  <2>1. i \in 1..Len(q) /\ q[i] = t /\ Len(q) \in Nat
        BY <1>2
  <2>2. Without(q, t) = a \o b
        BY <1>2 DEF Without
  <2> HIDE DEF i
  <2>3. Len(q) >= 2
    <3>1. ASSUME Len(q) = 1 PROVE q = <<t>>
          BY <2>1, <3>1
    <3>2. Len(q) # 1
          BY <3>1
    <3> DEFINE n == Len(q)
    <3>3. n \in Nat /\ n # 1 /\ i \in 1..n
          BY <2>1, <3>2
    <3> HIDE DEF n
    <3>4. n >= 2
          BY <3>3
    <3>   QED BY <3>4 DEF n
  <2>4. a \in Seq(Txns) /\ b \in Seq(Txns) /\ Len(a) = i - 1 /\ Len(b) = Len(q) - i
        BY <2>1
  <2>5. i > 1 => a[1] = q[1]
        BY <2>1
  <2> HIDE DEF a, b
  <2>6. a \o b \in Seq(Txns) /\ Len(a \o b) = Len(q) - 1
        BY <2>1, <2>4
  <2>7. a \o b # <<>>
        BY <2>3, <2>6
  <2>8. ASSUME Head(q) # t PROVE Head(a \o b) = Head(q)
    <3>1. i > 1
          BY <2>1, <2>8
    <3>2. (a \o b)[1] = q[1]
          BY <2>1, <2>4, <2>5, <3>1
    <3>   QED BY <2>6, <2>7, <3>2
  <2>9. ASSUME NEW u, u # t, NEW j \in 1..Len(q), q[j] = u
        PROVE  \E k \in 1..Len(a \o b) : (a \o b)[k] = u
    <3>1. CASE j < i
      <4>1. a[j] = u /\ j \in 1..Len(a)
            BY <2>1, <2>4, <2>9, <3>1 DEF a
      <4>2. (a \o b)[j] = u /\ j \in 1..Len(a \o b)
            BY <2>1, <2>4, <2>6, <4>1
      <4>   QED BY <4>2
    <3>2. CASE j > i
      <4>1. b[j - i] = u /\ j - i \in 1..Len(b)
            BY <2>1, <2>4, <2>9, <3>2 DEF b
      <4>2. (a \o b)[j - 1] = u /\ j - 1 \in 1..Len(a \o b)
            BY <2>1, <2>4, <2>6, <3>2, <4>1
      <4>   QED BY <4>2
    <3>   QED BY <2>1, <2>9, <3>1, <3>2
  <2>   QED BY <2>2, <2>6, <2>7, <2>8, <2>9
<1>   QED BY <1>1, <1>2

\* A commit or rollback takes no lock from another request.
LEMMA LeaveKeeps ==
    ASSUME QueueTypeOK, NEW t \in Txns, LeaveAll(t)
    PROVE  /\ QueueTypeOK'
           /\ \A u \in Txns : \A k : u # t /\ Holds(u, k) => Holds(u, k)'
           /\ \A u \in Txns : \A k : u # t /\ Asked(u, k) => Asked(u, k)'
PROOF
<1>1. /\ DOMAIN queue' = {k \in DOMAIN queue : queue[k] # <<t>>}
      /\ \A k \in DOMAIN queue' : queue'[k] = Without(queue[k], t)
      BY DEF LeaveAll
<1>2. \A k \in DOMAIN queue : queue[k] \in Seq(Txns) /\ queue[k] # <<>>
      BY DEF QueueTypeOK
<1>3. QueueTypeOK'
      BY <1>1, <1>2, WithoutHead DEF QueueTypeOK
<1>4. ASSUME NEW u \in Txns, NEW k, u # t, Holds(u, k)
      PROVE  Holds(u, k)'
  <2>1. k \in DOMAIN queue /\ Head(queue[k]) = u
        BY <1>4 DEF Holds, Free
  <2>2. queue[k] # <<t>>
        BY <1>4, <2>1
  <2>   QED BY <1>1, <1>2, <1>4, <2>1, <2>2, WithoutHead DEF Holds, Free
<1>5. ASSUME NEW u \in Txns, NEW k, u # t, Asked(u, k)
      PROVE  Asked(u, k)'
  <2>1. /\ k \in DOMAIN queue /\ queue[k] \in Seq(Txns) /\ queue[k] # <<>>
        /\ \E i \in 1..Len(queue[k]) : queue[k][i] = u
        BY <1>2, <1>5 DEF Asked, Free
  <2>2. queue[k] # <<t>>
        BY <1>5, <2>1
  <2>3. k \in DOMAIN queue' /\ queue'[k] = Without(queue[k], t)
        BY <1>1, <2>1, <2>2
  <2>4. \E i \in 1..Len(queue'[k]) : queue'[k][i] = u
        BY <1>5, <2>1, <2>2, <2>3, WithoutHead
  <2>   QED BY <2>3, <2>4 DEF Asked, Free
<1>   QED BY <1>3, <1>4, <1>5

\* Nobody is twice in a queue.
Once(q) == \A i, j \in 1..Len(q) : q[i] = q[j] => i = j
QueuedOnce == \A l \in DOMAIN queue : Once(queue[l])

LEMMA WithoutOnce ==
    ASSUME NEW q \in Seq(Txns), Once(q), NEW t
    PROVE  /\ Once(Without(q, t))
           /\ \A i \in 1..Len(Without(q, t)) :
                 /\ Without(q, t)[i] # t
                 /\ \E j \in 1..Len(q) : Without(q, t)[i] = q[j]
PROOF
<1>1. CASE ~ \E i \in DOMAIN q : q[i] = t
      BY <1>1 DEF Without
<1>2. CASE \E i \in DOMAIN q : q[i] = t
  <2> DEFINE i == CHOOSE j \in DOMAIN q : q[j] = t
             a == SubSeq(q, 1, i - 1)
             b == SubSeq(q, i + 1, Len(q))
  <2>1. i \in 1..Len(q) /\ q[i] = t /\ Len(q) \in Nat
        BY <1>2
  <2>2. Without(q, t) = a \o b
        BY <1>2 DEF Without
  <2> HIDE DEF i
  <2>3. a \in Seq(Txns) /\ b \in Seq(Txns) /\ Len(a) = i - 1 /\ Len(b) = Len(q) - i
        BY <2>1
  <2>11. ASSUME NEW k \in 1..i - 1 PROVE a[k] = q[k]
        BY <2>1, <2>3
  <2>12. ASSUME NEW k \in 1..Len(q) - i PROVE b[k] = q[k + i]
        BY <2>1, <2>3
  <2> HIDE DEF a, b
  <2>4. a \o b \in Seq(Txns) /\ Len(a \o b) = Len(q) - 1
        BY <2>1, <2>3
  <2>5. ASSUME NEW k \in 1..Len(q) - 1
        PROVE  (a \o b)[k] = IF k < i THEN q[k] ELSE q[k + 1]
    <3>1. CASE k < i
      <4>1. k \in 1..Len(a)
            BY <2>1, <2>3, <3>1
      <4>2. (a \o b)[k] = a[k]
            BY <2>3, <4>1
      <4>   QED BY <2>3, <2>11, <3>1, <4>1, <4>2
    <3>2. CASE k >= i /\ ~(k < i)
      <4>1. k - Len(a) \in 1..Len(b) /\ k - Len(a) = k - i + 1
            BY <2>1, <2>3, <3>2
      <4>2. (a \o b)[k] = b[k - Len(a)]
            BY <2>1, <2>3, <3>2, <4>1
      <4>3. b[k - Len(a)] = q[k - Len(a) + i]
            BY <2>3, <2>12, <4>1
      <4>4. k - Len(a) + i = k + 1
            BY <2>1, <2>3
      <4>   QED BY <2>1, <3>2, <4>2, <4>3, <4>4
    <3>3. k < i \/ (k >= i /\ ~(k < i))
          BY <2>1
    <3>   QED BY <3>1, <3>2, <3>3
  <2> DEFINE n == Len(q)
             w == a \o b
             at(k) == IF k < i THEN k ELSE k + 1
  <2>6. \A k \in 1..n - 1 : at(k) \in 1..n /\ at(k) # i /\ w[k] = q[at(k)]
    <3>1. \A k \in 1..n - 1 : w[k] = q[at(k)]
          BY <2>5
    <3>2. n \in Nat /\ i \in 1..n
          BY <2>1
    <3> HIDE DEF n, w
    <3>3. \A k \in 1..n - 1 : at(k) \in 1..n /\ at(k) # i
          BY <3>2
    <3>   QED BY <3>1, <3>3
  <2>7. \A k, m \in 1..n - 1 : at(k) = at(m) => k = m
        BY <2>1
  <2> HIDE DEF at, w
  <2>8. \A k \in 1..n - 1 : w[k] # t
        BY <2>1, <2>6 DEF Once
  <2>9. \A k, m \in 1..n - 1 : w[k] = w[m] => k = m
        BY <2>6, <2>7 DEF Once
  <2>10. Len(w) = n - 1 /\ Without(q, t) = w
        BY <2>2, <2>4 DEF w
  <2>   QED BY <2>6, <2>8, <2>9, <2>10 DEF Once
<1>   QED BY <1>1, <1>2

\* A lock is asked for once; whoever leaves is in no queue after that.
LEMMA AskOnce ==
    ASSUME QueueTypeOK, QueuedOnce, NEW t \in Txns, NEW l, ~Asked(t, l), Ask(t, l)
    PROVE  QueuedOnce' /\ \A u, k : u # t /\ Asked(u, k)' => Asked(u, k)
PROOF
<1>1. /\ DOMAIN queue' = DOMAIN queue \cup {l}
      /\ \A k \in DOMAIN queue \cup {l} : k # l => queue'[k] = queue[k]
      /\ queue'[l] = IF Free(l) THEN <<t>> ELSE Append(queue[l], t)
      BY DEF Ask
<1>2. CASE Free(l)
  <2>1. queue'[l] = <<t>>
        BY <1>1, <1>2
  <2>   QED BY <1>1, <1>2, <2>1 DEF QueuedOnce, Once, Asked, Free
<1>3. CASE ~Free(l)
  <2> DEFINE q == queue[l]
             n == Len(q)
  <2>1. q \in Seq(Txns) /\ n \in Nat /\ Once(q) /\ \A i \in 1..n : q[i] # t
        BY <1>3 DEF Free, QueueTypeOK, QueuedOnce, Asked
  <2>2. /\ Len(queue'[l]) = n + 1 /\ queue'[l][n + 1] = t
        /\ \A i \in 1..n : queue'[l][i] = q[i]
        BY <1>1, <1>3, <2>1
  <2> HIDE DEF q, n
  <2>3. \A i \in 1..n + 1 : i \in 1..n \/ i = n + 1
        BY <2>1
  <2>4. \A i, j \in 1..n : q[i] = q[j] => i = j
        BY <2>1 DEF Once, n
  <2>5. \A i, j \in 1..n + 1 : queue'[l][i] = queue'[l][j] => i = j
        BY <2>1, <2>2, <2>3, <2>4
  <2>6. Once(queue'[l])
        BY <2>2, <2>5 DEF Once
  <2>7. QueuedOnce'
        BY <1>1, <2>6 DEF QueuedOnce
  <2>8. \A u, k : u # t /\ Asked(u, k)' => Asked(u, k)
    <3> SUFFICES ASSUME NEW u, NEW k, u # t, Asked(u, k)' PROVE Asked(u, k)
          OBVIOUS
    <3>1. CASE k = l
      <4>1. \E i \in 1..n + 1 : queue'[l][i] = u
            BY <2>2, <3>1 DEF Asked
      <4>2. \E i \in 1..n : q[i] = u
            BY <2>2, <2>3, <4>1
      <4>   QED BY <1>3, <3>1, <4>2 DEF Asked, q, n
    <3>2. CASE k # l
          BY <1>1, <3>2 DEF Asked, Free
    <3>   QED BY <3>1, <3>2
  <2>   QED BY <2>7, <2>8
<1>   QED BY <1>2, <1>3

LEMMA LeaveOnce ==
    ASSUME QueueTypeOK, QueuedOnce, NEW t \in Txns, LeaveAll(t)
    PROVE  QueuedOnce' /\ \A u, k : Asked(u, k)' => Asked(u, k) /\ u # t
PROOF
<1>1. /\ DOMAIN queue' = {k \in DOMAIN queue : queue[k] # <<t>>}
      /\ \A k \in DOMAIN queue' : queue'[k] = Without(queue[k], t)
      BY DEF LeaveAll
<1>2. \A k \in DOMAIN queue : queue[k] \in Seq(Txns) /\ Once(queue[k])
      BY DEF QueueTypeOK, QueuedOnce
<1>3. QueuedOnce'
      BY <1>1, <1>2, WithoutOnce DEF QueuedOnce
<1>4. ASSUME NEW u, NEW k, Asked(u, k)' PROVE Asked(u, k) /\ u # t
  <2>1. k \in DOMAIN queue' /\ k \in DOMAIN queue /\ \E i \in 1..Len(queue'[k]) : queue'[k][i] = u
        BY <1>1, <1>4 DEF Asked, Free
  <2>2. \A i \in 1..Len(queue'[k]) :
            queue'[k][i] # t /\ \E j \in 1..Len(queue[k]) : queue'[k][i] = queue[k][j]
    <3>1. queue'[k] = Without(queue[k], t) /\ queue[k] \in Seq(Txns) /\ Once(queue[k])
          BY <1>1, <1>2, <2>1
    <3>   QED BY <3>1, WithoutOnce
  <2>3. u # t /\ \E j \in 1..Len(queue[k]) : queue[k][j] = u
        BY <2>1, <2>2
  <2>   QED BY <2>1, <2>3 DEF Asked, Free
<1>   QED BY <1>3, <1>4

-------------------------------------------------------------------------------
(* The types of a request's state                                           *)

LEMMA RequestStepType ==
    ASSUME NEW stages, RequestsTypeOK(stages), NEW t \in Txns,
           \/ \E there : Begin(t, there) \/ Lookup(t, there)
           \/ Rollback(t)
           \/ \E what \in {"none", "created", "replayed", "refused"} : End(t, what)
           \/ /\ UNCHANGED pc \/ \E stage \in {"working"} \cup stages : Goto(t, stage)
              /\ UNCHANGED answer
              /\ UNCHANGED queue \/ \E l : Ask(t, l)
    PROVE  RequestsTypeOK(stages)'
PROOF
<1> DEFINE Stages == {"unsent", "idle", "lookup", "working", "done"} \cup stages
           Answers == {"none", "created", "replayed", "refused"}
<1>1. pc \in [Txns -> Stages] /\ answer \in [Txns -> Answers] /\ QueueTypeOK
      BY DEF RequestsTypeOK
<1>2. UNCHANGED pc \/ \E stage \in Stages : pc' = [pc EXCEPT ![t] = stage]
      BY DEF Begin, Lookup, LookedUp, Rollback, End, Goto
<1>3. UNCHANGED answer \/ \E what \in Answers : answer' = [answer EXCEPT ![t] = what]
      BY DEF Begin, Lookup, LookedUp, Rollback, End
<1>4. UNCHANGED queue \/ LeaveAll(t) \/ \E l : Ask(t, l)
      BY DEF Begin, Lookup, Rollback, End
<1>5. pc' \in [Txns -> Stages] /\ answer' \in [Txns -> Answers]
      BY <1>1, <1>2, <1>3
<1>6. QueueTypeOK'
  <2>1. CASE UNCHANGED queue
        BY <1>1, <2>1 DEF QueueTypeOK
  <2>2. CASE LeaveAll(t) \/ \E l : Ask(t, l)
        BY <1>1, <2>2, LeaveKeeps, AskKeeps
  <2>   QED BY <1>4, <2>1, <2>2
<1>   QED BY <1>5, <1>6 DEF RequestsTypeOK

LEMMA RequestsInitType ==
    ASSUME NEW stages, RequestsInit PROVE RequestsTypeOK(stages)
PROOF BY DEF RequestsInit, RequestsTypeOK, QueueTypeOK, NoLocks

-------------------------------------------------------------------------------
(* The stages of a request                                                  *)

\* A copy of one of the operations O has asked for the operation's lock before it
\* looks it up, and holds it in the stages that follow.
OperationHeld(O, stages) ==
    \A t \in Txns : OpOf[t] \in O =>
        /\ pc[t] = "lookup" => Asked(t, Operation(OpOf[t]))
        /\ pc[t] \in stages => Holds(t, Operation(OpOf[t]))

\* Two copies are never both past the lookup.
LEMMA OneCopyWorks ==
    ASSUME NEW O, NEW stages, OperationHeld(O, stages), NEW t \in Txns, NEW u \in Txns,
           OpOf[t] = OpOf[u], OpOf[t] \in O, pc[t] \in stages, pc[u] \in stages
    PROVE  t = u
PROOF BY HolderIsOne DEF OperationHeld

\* The steps of one request leave the others alone.
LEMMA OthersHeld ==
    ASSUME NEW O, NEW stages, OperationHeld(O, stages), NEW t \in Txns,
           \A u \in Txns \ {t} : pc'[u] = pc[u],
           \A u \in Txns : \A k : u # t /\ Holds(u, k) => Holds(u, k)',
           \A u \in Txns : \A k : u # t /\ Asked(u, k) => Asked(u, k)',
           OpOf[t] \in O =>
              /\ pc'[t] = "lookup" => Asked(t, Operation(OpOf[t]))'
              /\ pc'[t] \in stages => Holds(t, Operation(OpOf[t]))'
    PROVE  OperationHeld(O, stages)'
PROOF
<1> SUFFICES ASSUME NEW u \in Txns, OpOf[u] \in O
             PROVE  /\ pc'[u] = "lookup" => Asked(u, Operation(OpOf[u]))'
                    /\ pc'[u] \in stages => Holds(u, Operation(OpOf[u]))'
      BY DEF OperationHeld
<1>1. CASE u = t
      BY <1>1
<1>2. CASE u # t
      BY <1>2 DEF OperationHeld
<1>   QED BY <1>1, <1>2

LEMMA BeginHeld ==
    ASSUME NEW O, NEW stages, QueueTypeOK, OperationHeld(O, stages),
           "lookup" \notin stages, "done" \notin stages,
           NEW t \in Txns, NEW S, pc \in [Txns -> S],
           NEW there, Begin(t, there)
    PROVE  QueueTypeOK' /\ OperationHeld(O, stages)'
PROOF
<1> DEFINE l == Operation(OpOf[t])
<1>1. \/ /\ Free(l) /\ UNCHANGED queue
         /\ pc' = [pc EXCEPT ![t] = "done"]
      \/ /\ Free(l) /\ Ask(t, l)
         /\ pc' = [pc EXCEPT ![t] = "working"]
      \/ /\ Ask(t, l)
         /\ pc' = [pc EXCEPT ![t] = "lookup"]
      BY DEF Begin, LookedUp, Goto
<1>2. \A u \in Txns \ {t} : pc'[u] = pc[u]
      BY <1>1
<1>3. CASE UNCHANGED queue /\ pc' = [pc EXCEPT ![t] = "done"]
  <2>1. pc'[t] = "done" /\ QueueTypeOK'
        BY <1>3 DEF QueueTypeOK
  <2>2. \A u, k : (Holds(u, k) => Holds(u, k)') /\ (Asked(u, k) => Asked(u, k)')
        BY <1>3 DEF Holds, Asked, Free
  <2>   QED BY <1>2, <2>1, <2>2, OthersHeld
<1>4. CASE Free(l) /\ Ask(t, l) /\ pc' = [pc EXCEPT ![t] = "working"]
  <2>1. pc'[t] = "working"
        BY <1>4
  <2>   QED BY <1>2, <1>4, <2>1, AskKeeps, OthersHeld
<1>5. CASE Ask(t, l) /\ pc' = [pc EXCEPT ![t] = "lookup"]
  <2>1. pc'[t] = "lookup"
        BY <1>5
  <2>   QED BY <1>2, <1>5, <2>1, AskKeeps, OthersHeld
<1>   QED BY <1>1, <1>3, <1>4, <1>5

LEMMA LookupHeld ==
    ASSUME NEW O, NEW stages, QueueTypeOK, OperationHeld(O, stages), "done" \notin stages,
           NEW t \in Txns, NEW S, pc \in [Txns -> S], NEW there, Lookup(t, there)
    PROVE  QueueTypeOK' /\ OperationHeld(O, stages)'
PROOF
<1>1. \/ pc' = [pc EXCEPT ![t] = "done"] /\ LeaveAll(t)
      \/ pc' = [pc EXCEPT ![t] = "working"] /\ UNCHANGED queue
      BY DEF Lookup, LookedUp, Goto
<1>2. pc[t] = "lookup" /\ ~Blocked(t) /\ \A u \in Txns \ {t} : pc'[u] = pc[u]
      BY <1>1 DEF Lookup, At
<1>3. CASE pc' = [pc EXCEPT ![t] = "done"] /\ LeaveAll(t)
  <2>1. pc'[t] = "done"
        BY <1>3
  <2>   QED BY <1>2, <1>3, <2>1, LeaveKeeps, OthersHeld
<1>4. CASE pc' = [pc EXCEPT ![t] = "working"] /\ UNCHANGED queue
  <2>1. pc'[t] = "working" /\ QueueTypeOK'
        BY <1>4 DEF QueueTypeOK
  <2>2. \A u, k : (Holds(u, k) => Holds(u, k)') /\ (Asked(u, k) => Asked(u, k)')
        BY <1>4 DEF Holds, Asked, Free
  <2>3. OpOf[t] \in O => Holds(t, Operation(OpOf[t]))
        BY <1>2, NotBlockedHolds DEF OperationHeld
  <2>   QED BY <1>2, <2>1, <2>2, <2>3, OthersHeld
<1>   QED BY <1>1, <1>3, <1>4

\* a request that ends or starts again
LEMMA LeavingHeld ==
    ASSUME NEW O, NEW stages, QueueTypeOK, OperationHeld(O, stages),
           "done" \notin stages, "idle" \notin stages,
           NEW t \in Txns, NEW S, pc \in [Txns -> S],
           Rollback(t) \/ \E what : End(t, what)
    PROVE  QueueTypeOK' /\ OperationHeld(O, stages)'
PROOF
<1>1. LeaveAll(t) /\ \E stage \in {"idle", "done"} : pc' = [pc EXCEPT ![t] = stage]
      BY DEF Rollback, End, Goto
<1>2. pc'[t] \in {"idle", "done"} /\ \A u \in Txns \ {t} : pc'[u] = pc[u]
      BY <1>1
<1>   QED BY <1>1, <1>2, LeaveKeeps, OthersHeld

\* a request that asks for another lock, or for none, on its way
LEMMA WorkingHeld ==
    ASSUME NEW O, NEW stages, QueueTypeOK, OperationHeld(O, stages),
           NEW t \in Txns, UNCHANGED queue \/ \E l : Ask(t, l),
           \A u \in Txns \ {t} : pc'[u] = pc[u],
           pc[t] \in stages \/ OpOf[t] \notin O, pc'[t] # "lookup"
    PROVE  QueueTypeOK' /\ OperationHeld(O, stages)'
PROOF
<1>1. /\ QueueTypeOK'
      /\ \A u \in Txns : \A k : (Holds(u, k) => Holds(u, k)') /\ (Asked(u, k) => Asked(u, k)')
  <2>1. CASE UNCHANGED queue
        BY <2>1 DEF QueueTypeOK, Holds, Asked, Free
  <2>2. CASE \E l : Ask(t, l)
        BY <2>2, AskKeeps
  <2>   QED BY <2>1, <2>2
<1>2. OpOf[t] \in O => Holds(t, Operation(OpOf[t]))
      BY DEF OperationHeld
<1>   QED BY <1>1, <1>2, OthersHeld

\* A request is in queues only while it is at work, and once in each.
Tidy(stages) == QueuedOnce /\ \A t \in Txns : \A l : Asked(t, l) => pc[t] \in stages

LEMMA InitTidy == ASSUME NEW stages, RequestsInit PROVE Tidy(stages)
PROOF BY DEF RequestsInit, NoLocks, Tidy, QueuedOnce, Asked, Free

LEMMA StepTidy ==
    ASSUME NEW stages, QueueTypeOK, Tidy(stages), {"lookup", "working"} \subseteq stages,
           "idle" \notin stages, NEW t \in Txns, NEW S, pc \in [Txns -> S],
           \/ \E there : Begin(t, there) \/ Lookup(t, there)
           \/ Rollback(t)
           \/ \E what : End(t, what)
           \/ /\ UNCHANGED queue \/ \E l : ~Asked(t, l) /\ Ask(t, l)
              /\ UNCHANGED pc \/ \E stage \in stages : Goto(t, stage)
              /\ pc[t] \in stages
    PROVE  Tidy(stages)'
PROOF
<1>1. /\ QueuedOnce
      /\ \A u \in Txns : \A k : Asked(u, k) => pc[u] \in stages
      BY DEF Tidy
<1>2. \A u \in Txns \ {t} : pc'[u] = pc[u]
      BY DEF Begin, Lookup, LookedUp, Rollback, End, Goto
<1>3. ASSUME UNCHANGED queue, (\E k : Asked(t, k)) => pc'[t] \in stages PROVE Tidy(stages)'
  <2>1. QueuedOnce' /\ \A u, k : Asked(u, k)' <=> Asked(u, k)
        BY <1>1, <1>3 DEF QueuedOnce, Asked, Free
  <2>   QED BY <1>1, <1>2, <1>3, <2>1 DEF Tidy
<1>4. ASSUME NEW l, ~Asked(t, l), Ask(t, l), pc'[t] \in stages PROVE Tidy(stages)'
  <2>1. QueuedOnce' /\ \A u, k : u # t /\ Asked(u, k)' => Asked(u, k)
        BY <1>1, <1>4, AskOnce
  <2>   QED BY <1>1, <1>2, <1>4, <2>1 DEF Tidy
<1>5. ASSUME LeaveAll(t) PROVE Tidy(stages)'
  <2>1. QueuedOnce' /\ \A u, k : Asked(u, k)' => Asked(u, k) /\ u # t
        BY <1>1, <1>5, LeaveOnce
  <2>   QED BY <1>1, <1>2, <2>1 DEF Tidy
<1>6. CASE \E there : Begin(t, there)
  <2>1. pc[t] = "idle" /\ \A k : ~Asked(t, k)
        BY <1>1, <1>6 DEF Begin
  <2>2. \/ UNCHANGED queue
        \/ pc'[t] \in stages /\ \E l : Ask(t, l)
        BY <1>6 DEF Begin, LookedUp, Goto
  <2>   QED BY <1>3, <1>4, <2>1, <2>2
<1>7. CASE \E there : Lookup(t, there)
  <2>1. LeaveAll(t) \/ (UNCHANGED queue /\ pc'[t] = "working")
        BY <1>7 DEF Lookup, LookedUp, Goto
  <2>   QED BY <1>3, <1>5, <2>1
<1>8. CASE Rollback(t) \/ \E what : End(t, what)
      BY <1>5, <1>8 DEF Rollback, End
<1>9. CASE /\ UNCHANGED queue \/ \E l : ~Asked(t, l) /\ Ask(t, l)
           /\ UNCHANGED pc \/ \E stage \in stages : Goto(t, stage)
           /\ pc[t] \in stages
  <2>1. pc'[t] \in stages
        BY <1>9 DEF Goto
  <2>   QED BY <1>3, <1>4, <1>9, <2>1
<1>   QED BY <1>6, <1>7, <1>8, <1>9

LEMMA BlockedAtWork ==
    ASSUME NEW stages, Tidy(stages), NEW t \in Txns, Deadlocked(t)
    PROVE  pc[t] \in stages
PROOF
<1>1. PICK l : l \in DOMAIN queue /\ Waits(t, l)
      BY DEF Deadlocked, Blocked
<1>2. Asked(t, l)
      BY <1>1 DEF Waits, Asked, Free
<1>   QED BY <1>2 DEF Tidy
===============================================================================
