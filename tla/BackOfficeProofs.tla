---------------------------- MODULE BackOfficeProofs ----------------------------
(***************************************************************************)
(* What the back office keeps: the ledger of Books, and the rows of Desk   *)
(* and Access.  The two have no state in common but that of the requests,  *)
(* and each theorem is about the steps, and from the assumptions, of one.  *)
(*                                                                         *)
(* The ledger, for any requests, postings, reversals, locks and            *)
(* statements.  A journal never changes once it is there, and every one of *)
(* them balances; a reversal is there only with the manual journal it was  *)
(* checked against; whoever has read the settings under their lock still   *)
(* knows them.  What a later SELECT of a statement sees is then what the   *)
(* earlier one saw, and the journals committed in between.                 *)
(*                                                                         *)
(* The rows of the desk, for any calls, users, businesses and locks.       *)
(* First what every handler writes, row by row, then how a commit merges   *)
(* it into the rows that are there by then; from that, the columns that    *)
(* are never set again, the sessions, the locks that keep a row as it was  *)
(* read, the bookings and tallies, and the owners of each business.        *)
(***************************************************************************)
EXTENDS Books, Desk, RequestsProofs

Stages == {"checked", "locking", "read"}

LEMMA Kinds ==
    /\ \A o \in Postings : o \in Ops /\ Source[o] \in Sources /\ o \notin Statements
                           /\ o \notin OfKind("lock")
    /\ \A o \in Postings \ Reversals : /\ o \in Ops /\ Req[o].kind \in {"manual", "operation"}
                                       /\ Req[o].lines \in Seq(PostingLine)
    /\ \A o \in Postings : /\ Req[o].date \in Nat \ {0}
                           /\ Req[o].branch \in Branches \cup {AllBranches}
    /\ \A o \in Reversals : o \in Postings /\ Req[o].of \in Sources
    /\ \A o \in Statements : o \notin OfKind("lock")
    /\ \A o \in OfKind("lock") : Req[o].through \in Nat
PROOF
<1>1. \A l \in ManualLine : l \in PostingLine
    BY DEF ManualLine
<1>2. \A q \in Seq(ManualLine) : q \in Seq(PostingLine)
    BY <1>1
<1> QED BY <1>2, BooksAssumption DEF Postings, Statements, Reversals, OfKind, Sources

LEMMA SourcesFinite == IsFiniteSet(Sources)
PROOF
<1> DEFINE f == [o \in Postings |-> Source[o]]
<1>1. IsFiniteSet(Postings)
    BY BooksAssumption, FS_Subset, Postings \subseteq Ops DEF Postings, Reversals, OfKind
<1>2. f \in Surjection(Postings, Sources)
    BY DEF Surjection, Sources
<1> HIDE DEF f
<1> QED BY <1>1, <1>2, FS_Surjection

LEMMA RowsExist == /\ \A r \in EntryRow : Exists(r)
                   /\ ~Exists(NoRow)
PROOF
<1>1. DOMAIN NoRow = {"none"}
    BY DEF NoRow
<1>2. \A r \in EntryRow : DOMAIN r = {"type", "date", "branch", "lines", "reverses"}
    BY DEF EntryRow
<1> QED BY <1>1, <1>2 DEF Exists

--------------------
(* The chart                                                                *)

LEMMA TheAccounts ==
    Accounts = {"Cash", "Bank", "Clearing", "Inventory", "Payable", "Capital", "Drawings",
                "Revenue", "Gains", "COGS", "Rent"}
PROOF BY DEF Accounts, Chart

LEMMA AccountsFinite == IsFiniteSet(Accounts)
PROOF
<1>0. PICK n \in Int : n = 11
    OBVIOUS
<1> DEFINE I == 1..n
           f == [i \in I |->
                    <<"Cash", "Bank", "Clearing", "Inventory", "Payable", "Capital", "Drawings",
                      "Revenue", "Gains", "COGS", "Rent">>[i]]
<1>1. \A a \in Accounts : \E i \in I : f[i] = a
    BY <1>0, TheAccounts
<1>2. f \in [I -> Accounts]
    BY <1>0, TheAccounts
<1>3. f \in Surjection(I, Accounts)
    BY <1>1, <1>2 DEF Surjection
<1>4. IsFiniteSet(I)
    BY FS_Interval
<1> HIDE DEF f, I
<1> QED BY <1>3, <1>4, FS_Surjection

LEMMA TheTypes ==
    /\ Types({"asset"}) = {"Cash", "Bank", "Clearing", "Inventory"}
    /\ Types({"liability"}) = {"Payable"}
    /\ Types({"equity"}) = {"Capital", "Drawings"}
    /\ Types({"income"}) \ Groups({"revenue"}) = {"Gains"}
    /\ Types({"expense"}) \ Groups({"cost_of_sales"}) = {"Rent"}
PROOF BY DEF Types, Groups, Accounts, Chart, Account

LEMMA TheGroups ==
    /\ Groups({"revenue"}) = {"Revenue"}
    /\ Groups({"cost_of_sales"}) = {"COGS"}
    /\ Groups({"cash_equivalent"}) = {"Clearing"}
    /\ Groups(CashGroups) = {"Cash", "Bank", "Clearing"}
PROOF BY DEF CashGroups, Types, Groups, Accounts, Chart, Account

LEMMA NormalSides ==
    \A a \in Accounts : (Chart[a].normal = "debit") <=>
        a \in {"Cash", "Bank", "Clearing", "Inventory", "Drawings", "COGS", "Rent"}
PROOF BY DEF Accounts, Chart, Account

--------------------
(* The inductive invariant                                                  *)

Typed ==
    /\ RequestsTypeOK(Stages)
    /\ entry \in [Sources -> EntryRow \cup {NoRow}]
    /\ lockedThrough \in 0..Today
    /\ seen \in [Txns -> 0..Today]
    /\ reads \in [Txns -> Seq(SUBSET Sources)]

\* Debits equal credits.
Balanced == \A s \in Posted : SumFunction(entry[s].lines) = 0

\* What was checked still holds: the manual journal to reverse is there, and stays.
Ready(o) ==
    /\ o \in Postings
    /\ o \notin Reversals => WellFormed(Req[o].lines)
    /\ o \in Reversals => Req[o].of \in Posted /\ entry[Req[o].of].type = "manual"

CheckedInv == \A t \in Txns : pc[t] = "checked" => Ready(OpOf[t])

\* x reverses s, as the request of x asked for
Undoes(x, s) ==
    /\ \E o \in Reversals : Source[o] = x /\ Req[o].of = s
    /\ s \in Posted /\ entry[x].type = "reverse" /\ entry[s].type = "manual"
    /\ entry[x].branch = entry[s].branch
    /\ \A a \in Accounts : entry[x].lines[a] = -entry[s].lines[a]

ReversalInv ==
    \A x \in Posted : LET s == entry[x].reverses
                      IN  s # Unreversed =>
                             /\ Undoes(x, s)
                             /\ \A y \in Posted : entry[y].reverses = s => x = y

\* Whoever has read the settings holds their lock.
LockInv ==
    \A t \in Txns :
        /\ pc[t] \in {"locking", "read"} =>
              OpOf[t] \in OfKind("lock") /\ Req[OpOf[t]].through <= Today
        /\ pc[t] = "locking" => Asked(t, Settings)
        /\ pc[t] = "read" => Holds(t, Settings) /\ seen[t] = lockedThrough

\* What the i-th SELECT of t takes of the journals E
Takes(t, i, E) ==
    Selected(E, Req[OpOf[t]].branch, Ranges(OpOf[t])[i][1], Ranges(OpOf[t])[i][2])

\* Each SELECT has seen journals of its range, and all those an earlier one saw.
ReadsInv ==
    \A t \in Txns : OpOf[t] \in Statements =>
        LET n == Len(reads[t])
        IN  /\ n <= Len(Ranges(OpOf[t]))
            /\ pc[t] \in {"unsent", "idle"} => n = 0
            /\ pc[t] = "working" => n < Len(Ranges(OpOf[t]))
            /\ \A i \in 1..n : /\ reads[t][i] \subseteq Takes(t, i, Posted)
                               /\ \A j \in 1..n : i < j => Takes(t, j, reads[t][i]) \subseteq reads[t][j]

BooksInv == Typed /\ Balanced /\ CheckedInv /\ ReversalInv /\ LockInv /\ ReadsInv

--------------------
(* What is posted                                                           *)

\* The lines of a journal that was accepted add up to nothing.
LEMMA NetBalances ==
    ASSUME NEW lines \in Seq(PostingLine), WellFormed(lines)
    PROVE  Net(lines) \in [Accounts -> Int] /\ SumFunction(Net(lines)) = 0
PROOF
<1> DEFINE D == DOMAIN lines
           f == [i \in D |-> lines[i].debit - lines[i].credit]
           k == [i \in D |-> lines[i].account]
           of(a) == [i \in {j \in D : k[j] = a} |-> f[i]]
           debits == [i \in D |-> lines[i].debit]
           credits == [i \in D |-> lines[i].credit]
<1>1. IsFiniteSet(D)
  <2>1. D = 1..Len(lines) /\ Len(lines) \in Int
      OBVIOUS
  <2> QED BY <2>1, FS_Interval
<1>2. \A i \in D : lines[i].debit \in Int /\ lines[i].credit \in Int /\ lines[i].account \in Accounts
  <2>1. \A i \in D : lines[i] \in PostingLine
      OBVIOUS
  <2>2. \A l \in PostingLine : l.debit \in Int /\ l.credit \in Int /\ l.account \in Accounts
      BY DEF PostingLine
  <2> QED BY <2>1, <2>2
<1>3. /\ DOMAIN f = D /\ DOMAIN debits = D /\ DOMAIN credits = D
      /\ \A i \in D : /\ f[i] \in Int /\ debits[i] \in Int /\ credits[i] \in Int
                      /\ debits[i] = f[i] + credits[i] /\ k[i] \in Accounts
    BY <1>2
<1>4. SumFunction(debits) = SumFunction(credits)
    BY DEF WellFormed
<1>5. Net(lines) = [a \in Accounts |-> SumFunction(of(a))]
  <2>1. \A a \in Accounts :
           [i \in {j \in D : lines[j].account = a} |-> lines[i].debit - lines[i].credit] = of(a)
      OBVIOUS
  <2> QED BY <2>1 DEF Net
<1>6. \A a \in Accounts : SumFunction(of(a)) \in Int
  <2> TAKE a \in Accounts
  <2> DEFINE P == {j \in D : k[j] = a}
  <2>1. DOMAIN of(a) = P /\ P \subseteq D /\ \A i \in P : of(a)[i] = f[i]
      OBVIOUS
  <2>2. IsFiniteSet(P)
      BY <1>1, <2>1, FS_Subset
  <2> HIDE DEF of, P, f
  <2> QED BY <1>3, <2>1, <2>2, SumAllInt
<1> HIDE DEF D, f, k, debits, credits
<1>7. SumsOfKeys(f, k, Accounts) = SumFunction(f)
    BY <1>1, <1>3, AccountsFinite, SumByKey
<1>10. SumsOfKeys(f, k, Accounts) = SumFunction([a \in Accounts |-> SumFunction(of(a))])
    BY <1>3 DEF SumsOfKeys
<1>8. SumFunction(debits) = SumFunction(f) + SumFunction(credits)
    BY <1>1, <1>3, SumAllPlus
<1>9. SumFunction(f) \in Int /\ SumFunction(credits) \in Int
    BY <1>1, <1>3, SumAllInt
<1> HIDE DEF of
<1> QED BY <1>4, <1>5, <1>6, <1>7, <1>8, <1>9, <1>10

LEMMA RowIsEntry ==
    ASSUME Typed, Balanced, NEW o, Ready(o)
    PROVE  /\ Row(o) \in EntryRow /\ SumFunction(Row(o).lines) = 0
           /\ Row(o).date = Req[o].date
           /\ o \notin Reversals => Row(o).reverses = Unreversed
           /\ o \in Reversals => /\ Row(o).reverses = Req[o].of /\ Row(o).type = "reverse"
                                 /\ Row(o).branch = entry[Req[o].of].branch
                                 /\ \A a \in Accounts :
                                       Row(o).lines[a] = -entry[Req[o].of].lines[a]
PROOF
<1>1. CASE o \notin Reversals
  <2>1. /\ Req[o].kind \in {"manual", "operation"} /\ Req[o].date \in Nat \ {0}
        /\ Req[o].branch \in Branches \cup {AllBranches} /\ Req[o].lines \in Seq(PostingLine)
      BY <1>1, Kinds DEF Ready
  <2>2. Net(Req[o].lines) \in [Accounts -> Int] /\ SumFunction(Net(Req[o].lines)) = 0
      BY <1>1, <2>1, NetBalances DEF Ready
  <2>3. Row(o) = [type |-> Req[o].kind, date |-> Req[o].date, branch |-> Req[o].branch,
                  lines |-> Net(Req[o].lines), reverses |-> Unreversed]
      BY <1>1 DEF Row
  <2> QED BY <1>1, <2>1, <2>2, <2>3 DEF EntryRow
<1>2. CASE o \in Reversals
  <2> DEFINE s == Req[o].of
             f == entry[s].lines
             g == [a \in Accounts |-> -f[a]]
  <2>1. s \in Posted /\ s \in Sources /\ Req[o].date \in Nat \ {0}
      BY <1>2, Kinds DEF Ready
  <2>2. entry[s] \in EntryRow
      BY <2>1 DEF Typed, Posted, Exists
  <2>3. f \in [Accounts -> Int] /\ entry[s].branch \in Branches \cup {AllBranches}
      BY <2>2 DEF EntryRow
  <2>4. SumFunction(f) = 0
      BY <2>1 DEF Balanced
  <2>5. g \in [Accounts -> Int] /\ \A a \in Accounts : g[a] = -f[a]
      BY <2>3
  <2>6. Row(o) = [type |-> "reverse", date |-> Req[o].date, branch |-> entry[s].branch,
                  lines |-> g, reverses |-> s]
      BY <1>2 DEF Row
  <2> HIDE DEF f, g, s
  <2>7. SumFunction(g) \in Int /\ SumFunction(f) + SumFunction(g) = 0
      BY <2>3, <2>5, AccountsFinite, SumAllNegated
  <2>8. SumFunction(g) = 0
      BY <2>4, <2>7
  <2>9. Row(o) \in EntryRow
      BY <2>1, <2>3, <2>5, <2>6 DEF EntryRow
  <2> QED BY <1>2, <2>5, <2>6, <2>8, <2>9 DEF f, s
<1> QED BY <1>1, <1>2

--------------------
(* What the steps do                                                        *)

StepOf(t) ==
    \/ Arrive(t) \/ Die(t)
    \/ ReplayJournal(t) \/ CheckJournal(t) \/ RefuseJournal(t) \/ CommitJournal(t)
    \/ LockSettings(t) \/ ReadSettings(t) \/ RefuseLock(t) \/ AdvancePeriodLock(t)
    \/ Select(t)

rows == <<entry, lockedThrough, seen, reads>>

LEMMA NextIsAStep == [Next]_vars => UNCHANGED vars \/ \E t \in Txns : StepOf(t)
PROOF BY DEF Next, StepOf

\* t commits the journal it has checked
WasPosted(t) ==
    /\ pc[t] = "checked" /\ ~Taken(OpOf[t]) /\ pc'[t] = "done"
    /\ entry' = [entry EXCEPT ![Source[OpOf[t]]] = Row(OpOf[t])]
    /\ UNCHANGED <<lockedThrough, seen, reads>>

WasChecked(t) ==
    /\ pc[t] = "working" /\ pc'[t] = "checked"
    /\ OpOf[t] \in Postings /\ Acceptable(OpOf[t])
    /\ UNCHANGED rows

WasLocked(t) ==
    /\ pc[t] = "read" /\ pc'[t] = "done" /\ Req[OpOf[t]].through > seen[t]
    /\ lockedThrough' = Req[OpOf[t]].through
    /\ UNCHANGED <<entry, seen, reads>>

AskedForLock(t) ==
    /\ pc[t] = "working" /\ pc'[t] = "locking"
    /\ OpOf[t] \in OfKind("lock") /\ Req[OpOf[t]].through <= Today
    /\ Ask(t, Settings) /\ UNCHANGED rows

WasRead(t) ==
    /\ pc[t] = "locking" /\ pc'[t] = "read" /\ ~Blocked(t)
    /\ seen' = [seen EXCEPT ![t] = lockedThrough]
    /\ UNCHANGED <<queue, entry, lockedThrough, reads>>

WasSelected(t) ==
    LET n == Len(reads[t]) + 1
    IN  /\ pc[t] = "working" /\ OpOf[t] \in Statements
        /\ reads' = [reads EXCEPT ![t] = Append(@, Takes(t, n, Posted))]
        /\ \/ n = Len(Ranges(OpOf[t])) /\ pc'[t] = "done"
           \/ n # Len(Ranges(OpOf[t])) /\ UNCHANGED pc
        /\ UNCHANGED <<entry, lockedThrough, seen>>

\* t begins, or ends without a trace
WasMarked(t) ==
    /\ \/ pc[t] = "idle" /\ pc'[t] = "working"
       \/ pc[t] # "idle" /\ pc'[t] = "done"
    /\ UNCHANGED rows

\* A request takes the lock of the settings and no other, and what it asks for or
\* gives back does not concern the others.
LEMMA Steps ==
    ASSUME Typed, NEW t \in Txns, StepOf(t)
    PROVE  /\ \/ WasMarked(t) \/ WasChecked(t) \/ WasPosted(t)
              \/ AskedForLock(t) \/ WasRead(t) \/ WasLocked(t) \/ WasSelected(t)
           /\ RequestsTypeOK(Stages)'
           /\ \A u \in Txns \ {t} :
                 /\ pc'[u] = pc[u]
                 /\ \A k : (Holds(u, k) => Holds(u, k)') /\ (Asked(u, k) => Asked(u, k)')
PROOF
<1>0. /\ RequestsTypeOK(Stages) /\ QueueTypeOK /\ OpOf[t] \in Ops
      /\ pc \in [Txns -> {"unsent", "idle", "lookup", "working", "done"} \cup Stages]
      /\ seen \in [Txns -> 0..Today] /\ reads \in [Txns -> Seq(SUBSET Sources)]
    BY BooksAssumption DEF Typed, RequestsTypeOK
<1>1. \A stage : Goto(t, stage) => pc'[t] = stage /\ \A u \in Txns \ {t} : pc'[u] = pc[u]
    BY <1>0 DEF Goto
<1>2. ASSUME NEW what \in {"none", "created", "replayed", "refused"}, End(t, what)
      PROVE  /\ RequestsTypeOK(Stages)' /\ pc'[t] = "done"
             /\ \A u \in Txns \ {t} :
                   /\ pc'[u] = pc[u]
                   /\ \A k : (Holds(u, k) => Holds(u, k)') /\ (Asked(u, k) => Asked(u, k)')
  <2>1. Goto(t, "done") /\ LeaveAll(t)
      BY <1>2 DEF End
  <2>2. RequestsTypeOK(Stages)'
      BY <1>0, <1>2, RequestStepType
  <2>3. \A u \in Txns : \A k : /\ u # t /\ Holds(u, k) => Holds(u, k)'
                               /\ u # t /\ Asked(u, k) => Asked(u, k)'
      BY <1>0, <2>1, LeaveKeeps
  <2> QED BY <1>1, <2>1, <2>2, <2>3
<1>3. ASSUME NEW stage \in {"working"} \cup Stages, Goto(t, stage), UNCHANGED <<answer, queue>>
      PROVE  /\ RequestsTypeOK(Stages)' /\ pc'[t] = stage
             /\ \A u \in Txns \ {t} :
                   /\ pc'[u] = pc[u]
                   /\ \A k : (Holds(u, k) => Holds(u, k)') /\ (Asked(u, k) => Asked(u, k)')
  <2>1. RequestsTypeOK(Stages)'
      BY <1>0, <1>3, RequestStepType
  <2>2. \A u \in Txns : \A k : (Holds(u, k) => Holds(u, k)') /\ (Asked(u, k) => Asked(u, k)')
      BY <1>3 DEF Holds, Asked, Free
  <2> QED BY <1>1, <1>3, <2>1, <2>2
<1>4. ASSUME Ask(t, Settings), Goto(t, "locking"), UNCHANGED answer
      PROVE  /\ RequestsTypeOK(Stages)' /\ pc'[t] = "locking"
             /\ \A u \in Txns \ {t} :
                   /\ pc'[u] = pc[u]
                   /\ \A k : (Holds(u, k) => Holds(u, k)') /\ (Asked(u, k) => Asked(u, k)')
  <2>1. RequestsTypeOK(Stages)'
    <3>1. "locking" \in Stages
        BY DEF Stages
    <3> QED BY <1>0, <1>4, <3>1, RequestStepType
  <2>2. \A u \in Txns : \A k : (Holds(u, k) => Holds(u, k)') /\ (Asked(u, k) => Asked(u, k)')
      BY <1>0, <1>4, AskKeeps
  <2> QED BY <1>1, <1>4, <2>1, <2>2
<1>5. CASE Arrive(t)
  <2>1. Goto(t, "working") /\ UNCHANGED <<answer, queue>> /\ pc[t] = "idle" /\ UNCHANGED rows
      BY <1>5 DEF Arrive, Start, rows
  <2> QED BY <1>3, <2>1 DEF WasMarked
<1>6. CASE Die(t)
  <2>1. End(t, "none") /\ pc[t] # "idle" /\ UNCHANGED rows
      BY <1>6 DEF Die, rows
  <2> QED BY <1>2, <2>1 DEF WasMarked
<1>7. CASE ReplayJournal(t)
  <2>1. End(t, "replayed") /\ pc[t] # "idle" /\ UNCHANGED rows
      BY <1>7 DEF ReplayJournal, Working, At, rows
  <2> QED BY <1>2, <2>1 DEF WasMarked
<1>8. CASE CheckJournal(t)
  <2>1. /\ Goto(t, "checked") /\ pc[t] = "working" /\ UNCHANGED rows /\ UNCHANGED <<answer, queue>>
        /\ Req[OpOf[t]].kind \in {"manual", "operation", "reverse"} /\ Acceptable(OpOf[t])
      BY <1>8 DEF CheckJournal, Working, At, rows
  <2>2. OpOf[t] \in Postings
      BY <1>0, <2>1 DEF Postings, Reversals, OfKind
  <2>3. "checked" \in Stages
      BY DEF Stages
  <2> QED BY <1>3, <2>1, <2>2, <2>3 DEF WasChecked
<1>9. CASE RefuseJournal(t)
  <2>1. End(t, "refused") /\ pc[t] # "idle" /\ UNCHANGED rows
      BY <1>9 DEF RefuseJournal, Working, At, rows
  <2> QED BY <1>2, <2>1 DEF WasMarked
<1>10. CASE CommitJournal(t)
  <2>1. End(t, "created")
      BY <1>10 DEF CommitJournal
  <2> QED BY <1>2, <1>10, <2>1 DEF CommitJournal, At, WasPosted
<1>11. CASE LockSettings(t)
  <2>1. /\ Ask(t, Settings) /\ Goto(t, "locking") /\ UNCHANGED answer /\ UNCHANGED rows
        /\ pc[t] = "working" /\ OpOf[t] \in OfKind("lock") /\ Req[OpOf[t]].through <= Today
      BY <1>0, <1>11 DEF LockSettings, Working, At, rows, OfKind
  <2> QED BY <1>4, <2>1 DEF AskedForLock
<1>12. CASE ReadSettings(t)
  <2>1. Goto(t, "read") /\ UNCHANGED <<answer, queue>> /\ "read" \in Stages
      BY <1>12 DEF ReadSettings, Stages
  <2> QED BY <1>3, <1>12, <2>1 DEF ReadSettings, At, WasRead
<1>13. CASE RefuseLock(t)
  <2>1. End(t, "refused") /\ pc[t] # "idle" /\ UNCHANGED rows
      BY <1>13 DEF RefuseLock, Working, At, rows
  <2> QED BY <1>2, <2>1 DEF WasMarked
<1>14. CASE AdvancePeriodLock(t)
  <2>1. End(t, "created")
      BY <1>14 DEF AdvancePeriodLock
  <2> QED BY <1>2, <1>14, <2>1 DEF AdvancePeriodLock, At, WasLocked
<1>15. CASE Select(t)
  <2> DEFINE n == Len(reads[t]) + 1
  <2>1. /\ pc[t] = "working" /\ OpOf[t] \in Statements
        /\ reads' = [reads EXCEPT ![t] = Append(@, Takes(t, n, Posted))]
        /\ UNCHANGED <<entry, lockedThrough, seen>>
      BY <1>0, <1>15 DEF Select, Working, At, Takes, Statements, OfKind
  <2>2. Len(reads'[t]) = n
      BY <1>0, <2>1
  <2>3. CASE n = Len(Ranges(OpOf[t]))
    <3>1. End(t, "created")
        BY <1>15, <2>2, <2>3 DEF Select
    <3> QED BY <1>2, <2>1, <2>3, <3>1 DEF WasSelected
  <2>4. CASE n # Len(Ranges(OpOf[t]))
    <3>1. UNCHANGED <<pc, answer, queue>>
        BY <1>15, <2>2, <2>4 DEF Select
    <3>2. RequestsTypeOK(Stages)'
        BY <1>0, <3>1 DEF RequestsTypeOK, QueueTypeOK
    <3>3. \A u \in Txns : \A k : (Holds(u, k) => Holds(u, k)') /\ (Asked(u, k) => Asked(u, k)')
        BY <3>1 DEF Holds, Asked, Free
    <3> QED BY <2>1, <2>4, <3>1, <3>2, <3>3 DEF WasSelected
  <2> QED BY <2>3, <2>4
<1> QED BY <1>5, <1>6, <1>7, <1>8, <1>9, <1>10, <1>11, <1>12, <1>13, <1>14, <1>15 DEF StepOf

--------------------
(* The invariant is inductive                                               *)

\* A journal is written where there was none, and all the others stay.
LEMMA PostedOnce ==
    ASSUME Typed, Balanced, CheckedInv, NEW t \in Txns, WasPosted(t)
    PROVE  LET o == OpOf[t]
               x == Source[o]
           IN  /\ Ready(o) /\ x \in Sources /\ x \notin Posted /\ entry'[x] = Row(o)
               /\ Posted' = Posted \cup {x} /\ \A s \in Sources \ {x} : entry'[s] = entry[s]
               /\ o \in Reversals => ReversalsOf(Req[o].of) = {}
PROOF
<1> DEFINE o == OpOf[t]
           x == Source[o]
<1>1. Ready(o) /\ ~Taken(o)
    BY DEF WasPosted, CheckedInv
<1>2. x \in Sources
    BY <1>1, Kinds DEF Ready
<1>3. x \notin Posted /\ (o \in Reversals => ReversalsOf(Req[o].of) = {})
    BY <1>1 DEF Taken, Posted
<1>4. entry'[x] = Row(o) /\ \A s \in Sources \ {x} : entry'[s] = entry[s]
    BY <1>2 DEF WasPosted, Typed
<1>5. Exists(entry'[x])
    BY <1>1, <1>4, RowIsEntry, RowsExist
<1>6. Posted' = Posted \cup {x}
    BY <1>2, <1>4, <1>5 DEF Posted
<1> HIDE DEF x, o
<1>7. /\ Ready(o) /\ x \in Sources /\ x \notin Posted /\ entry'[x] = Row(o)
      /\ Posted' = Posted \cup {x} /\ \A s \in Sources \ {x} : entry'[s] = entry[s]
      /\ o \in Reversals => ReversalsOf(Req[o].of) = {}
    BY <1>1, <1>2, <1>3, <1>4, <1>6
<1> QED BY <1>7 DEF x, o

LEMMA JournalsStay ==
    ASSUME Typed, Balanced, CheckedInv, NEW t \in Txns, StepOf(t)
    PROVE  \A s \in Posted : s \in Posted' /\ entry'[s] = entry[s]
PROOF
<1>1. entry' = entry \/ WasPosted(t)
    BY Steps DEF WasMarked, WasChecked, AskedForLock, WasRead, WasLocked, WasSelected, rows
<1>2. CASE entry' = entry
    BY <1>2 DEF Posted
<1>3. CASE WasPosted(t)
    BY <1>3, PostedOnce DEF Posted
<1> QED BY <1>1, <1>2, <1>3

LEMMA BooksInit == Init => BooksInv
PROOF
<1> SUFFICES ASSUME Init PROVE BooksInv
    OBVIOUS
<1>1. RequestsTypeOK(Stages)
    BY RequestsInitType DEF Init
<1>2. \A t \in Txns : pc[t] \in {"idle", "unsent"} /\ reads[t] = <<>>
    BY DEF Init, RequestsInit
<1>3. Posted = {}
    BY RowsExist DEF Init, Posted
<1>4. Typed
    BY <1>1, BooksAssumption DEF Init, Typed, NoDate
<1>5. ReadsInv
  <2>1. \A o \in Ops : Len(Ranges(o)) \in {2, 3}
      BY DEF Ranges
  <2>2. \A t \in Txns : Len(reads[t]) = 0 /\ OpOf[t] \in Ops
      BY <1>2, BooksAssumption
  <2> QED BY <1>2, <2>1, <2>2 DEF ReadsInv
<1> QED BY <1>2, <1>3, <1>4, <1>5
          DEF BooksInv, Balanced, CheckedInv, ReversalInv, LockInv

LEMMA TypedStep ==
    ASSUME BooksInv, NEW t \in Txns, StepOf(t)
    PROVE  Typed'
PROOF
<1>0. Typed /\ Balanced /\ CheckedInv /\ LockInv /\ ReadsInv
    BY DEF BooksInv
<1>1. RequestsTypeOK(Stages)'
    BY <1>0, Steps
<1>2. entry' \in [Sources -> EntryRow \cup {NoRow}]
  <2>1. entry' = entry \/ WasPosted(t)
      BY <1>0, Steps
          DEF WasMarked, WasChecked, AskedForLock, WasRead, WasLocked, WasSelected, rows
  <2>2. CASE WasPosted(t)
    <3>1. Row(OpOf[t]) \in EntryRow
        BY <1>0, <2>2, PostedOnce, RowIsEntry
    <3> QED BY <1>0, <2>2, <3>1 DEF Typed, WasPosted
  <2> QED BY <1>0, <2>1, <2>2 DEF Typed
<1>3. lockedThrough' \in 0..Today
  <2>1. lockedThrough' = lockedThrough \/ WasLocked(t)
      BY <1>0, Steps
          DEF WasMarked, WasChecked, AskedForLock, WasRead, WasPosted, WasSelected, rows
  <2>2. CASE WasLocked(t)
      BY <1>0, <2>2, Kinds DEF WasLocked, LockInv, Typed
  <2> QED BY <1>0, <2>1, <2>2 DEF Typed
<1>4. seen' \in [Txns -> 0..Today]
  <2>1. seen' = seen \/ WasRead(t)
      BY <1>0, Steps
          DEF WasMarked, WasChecked, AskedForLock, WasLocked, WasPosted, WasSelected, rows
  <2> QED BY <1>0, <2>1 DEF Typed, WasRead
<1>5. reads' \in [Txns -> Seq(SUBSET Sources)]
  <2>1. reads' = reads \/ WasSelected(t)
      BY <1>0, Steps
          DEF WasMarked, WasChecked, AskedForLock, WasLocked, WasPosted, WasRead, rows
  <2> DEFINE SS == SUBSET Sources
             E == Takes(t, Len(reads[t]) + 1, Posted)
  <2>2. E \in SS
      BY DEF Takes, Selected, Posted
  <2>3. WasSelected(t) => reads' = [reads EXCEPT ![t] = Append(@, E)]
      BY DEF WasSelected
  <2>4. reads \in [Txns -> Seq(SS)]
      BY <1>0 DEF Typed
  <2> HIDE DEF SS, E
  <2>5. Append(reads[t], E) \in Seq(SS)
      BY <2>2, <2>4
  <2>6. reads' \in [Txns -> Seq(SS)]
      BY <2>1, <2>3, <2>4, <2>5
  <2> QED BY <2>6 DEF SS
<1> QED BY <1>1, <1>2, <1>3, <1>4, <1>5 DEF Typed

LEMMA BalancedStep ==
    ASSUME BooksInv, NEW t \in Txns, StepOf(t)
    PROVE  Balanced'
PROOF
<1>0. Typed /\ Balanced /\ CheckedInv
    BY DEF BooksInv
<1>1. entry' = entry \/ WasPosted(t)
    BY <1>0, Steps DEF WasMarked, WasChecked, AskedForLock, WasRead, WasLocked, WasSelected, rows
<1>2. CASE entry' = entry
    BY <1>0, <1>2 DEF Balanced, Posted
<1>3. CASE WasPosted(t)
  <2> DEFINE o == OpOf[t]
             x == Source[o]
  <2>1. /\ Ready(o) /\ entry'[x] = Row(o) /\ Posted' = Posted \cup {x} /\ x \notin Posted
        /\ \A s \in Sources \ {x} : entry'[s] = entry[s]
      BY <1>0, <1>3, PostedOnce
  <2>2. SumFunction(Row(o).lines) = 0
      BY <1>0, <2>1, RowIsEntry
  <2>3. \A s \in Posted : s \in Sources \ {x}
      BY <2>1 DEF Posted
  <2> QED BY <1>0, <2>1, <2>2, <2>3 DEF Balanced
<1> QED BY <1>1, <1>2, <1>3

LEMMA CheckedStep ==
    ASSUME BooksInv, NEW t \in Txns, StepOf(t)
    PROVE  CheckedInv'
PROOF
<1>0. Typed /\ Balanced /\ CheckedInv
    BY DEF BooksInv
<1>1. \A o : Ready(o) => Ready(o)'
    BY <1>0, JournalsStay DEF Ready
<1>2. ASSUME NEW u \in Txns, pc'[u] = "checked" PROVE Ready(OpOf[u])
  <2>1. CASE u = t /\ WasChecked(t)
    <3>1. OpOf[t] \in Postings /\ Acceptable(OpOf[t])
        BY <2>1 DEF WasChecked
    <3>2. OpOf[t] \in Reversals => Req[OpOf[t]].of \in Sources
        BY Kinds
    <3> QED BY <2>1, <3>1, <3>2 DEF Acceptable, CannotReverse, Ready, Posted
  <2>2. CASE pc[u] = "checked"
      BY <1>0, <2>2 DEF CheckedInv
  <2>3. pc[u] = "checked" \/ (u = t /\ WasChecked(t))
      BY <1>0, <1>2, Steps
          DEF WasMarked, AskedForLock, WasRead, WasPosted, WasLocked, WasSelected
  <2> QED BY <2>1, <2>2, <2>3
<1> QED BY <1>1, <1>2 DEF CheckedInv

LEMMA ReversalStep ==
    ASSUME BooksInv, NEW t \in Txns, StepOf(t)
    PROVE  ReversalInv'
PROOF
<1>0. Typed /\ Balanced /\ CheckedInv /\ ReversalInv
    BY DEF BooksInv
<1>1. \A s \in Posted : s \in Posted' /\ entry'[s] = entry[s]
    BY <1>0, JournalsStay
<1>2. \A x \in Posted, s \in Sources : Undoes(x, s) => Undoes(x, s)'
    BY <1>1 DEF Undoes
<1>3. \A x, s : Undoes(x, s) => s \in Sources
    BY DEF Undoes, Posted
<1>4. entry' = entry \/ WasPosted(t)
    BY <1>0, Steps DEF WasMarked, WasChecked, AskedForLock, WasRead, WasLocked, WasSelected, rows
<1>5. CASE entry' = entry
  <2>1. Posted' = Posted
      BY <1>5 DEF Posted
  <2> QED BY <1>0, <1>2, <1>3, <1>5, <2>1 DEF ReversalInv
<1>6. CASE WasPosted(t)
  <2> DEFINE o == OpOf[t]
             z == Source[o]
             r == Req[o].of
  <2>1. /\ Ready(o) /\ z \in Sources /\ z \notin Posted /\ entry'[z] = Row(o)
        /\ Posted' = Posted \cup {z}
        /\ o \in Reversals => ReversalsOf(r) = {}
      BY <1>0, <1>6, PostedOnce
  <2>2. /\ o \notin Reversals => entry'[z].reverses = Unreversed
        /\ o \in Reversals => /\ entry'[z].reverses = r /\ entry'[z].type = "reverse"
                              /\ entry'[z].branch = entry[r].branch
                              /\ \A a \in Accounts : entry'[z].lines[a] = -entry[r].lines[a]
      BY <1>0, <2>1, RowIsEntry
  <2>3. o \in Reversals => Undoes(z, r)'
    <3>1. ASSUME o \in Reversals
          PROVE  /\ r \in Posted' /\ entry'[r].type = "manual" /\ entry'[r] = entry[r]
        BY <1>1, <2>1, <3>1 DEF Ready
    <3> QED BY <2>2, <3>1 DEF Undoes
  <2>4. ASSUME o \in Reversals, NEW y \in Posted, entry[y].reverses = r PROVE FALSE
    <3>1. r # Unreversed
        BY <2>1, <2>4, BooksAssumption DEF Ready, Posted
    <3>2. Undoes(y, r)
        BY <1>0, <2>4, <3>1 DEF ReversalInv
    <3>3. PICK q \in Reversals : Source[q] = y
        BY <3>2 DEF Undoes
    <3>4. q \in ReversalsOf(r)
        BY <2>4, <3>3 DEF ReversalsOf, Posted
    <3> QED BY <2>1, <2>4, <3>4
  <2>5. ASSUME NEW x \in Posted', NEW s, s = entry'[x].reverses, s # Unreversed
        PROVE  Undoes(x, s)' /\ \A y \in Posted' : entry'[y].reverses = s => x = y
    <3>1. CASE x = z
      <4>1. o \in Reversals /\ s = r
          BY <2>2, <2>5, <3>1
      <4>2. \A y \in Posted : entry'[y].reverses # s
          BY <1>1, <2>4, <4>1
      <4> QED BY <2>1, <2>3, <3>1, <4>1, <4>2
    <3>2. CASE x \in Posted
      <4>1. s = entry[x].reverses /\ Undoes(x, s) /\ \A y \in Posted : entry[y].reverses = s => x = y
          BY <1>0, <1>1, <2>5, <3>2 DEF ReversalInv
      <4>2. Undoes(x, s)'
          BY <1>2, <1>3, <3>2, <4>1
      <4>3. entry'[z].reverses # s
          BY <2>2, <2>4, <2>5, <3>2, <4>1
      <4> QED BY <1>1, <2>1, <4>1, <4>2, <4>3
    <3> QED BY <2>1, <2>5, <3>1, <3>2
  <2> HIDE DEF z, o, r
  <2> QED BY <2>5 DEF ReversalInv
<1> QED BY <1>4, <1>5, <1>6

LEMMA LockStep ==
    ASSUME BooksInv, NEW t \in Txns, StepOf(t)
    PROVE  LockInv'
PROOF
<1>0. Typed /\ LockInv /\ QueueTypeOK
    BY DEF BooksInv, Typed, RequestsTypeOK
<1>1. /\ \A u \in Txns \ {t} :
            /\ pc'[u] = pc[u]
            /\ \A k : (Holds(u, k) => Holds(u, k)') /\ (Asked(u, k) => Asked(u, k)')
    BY <1>0, Steps
<1>2. \/ WasMarked(t) \/ WasChecked(t) \/ WasPosted(t)
      \/ AskedForLock(t) \/ WasRead(t) \/ WasLocked(t) \/ WasSelected(t)
    BY <1>0, Steps
<1>3. \A u \in Txns \ {t} : seen'[u] = seen[u]
    BY <1>0, <1>2
       DEF WasMarked, WasChecked, WasPosted, AskedForLock, WasRead, WasLocked, WasSelected, rows, Typed
<1>4. ASSUME NEW u \in Txns \ {t}, pc[u] = "read" PROVE lockedThrough' = lockedThrough
  <2>1. ~WasLocked(t)
      BY <1>0, <1>4, HolderIsOne DEF WasLocked, LockInv
  <2> QED BY <1>2, <2>1
            DEF WasMarked, WasChecked, WasPosted, AskedForLock, WasRead, WasSelected, rows
<1>5. ASSUME NEW u \in Txns \ {t}
      PROVE  /\ pc'[u] \in {"locking", "read"} =>
                   OpOf[u] \in OfKind("lock") /\ Req[OpOf[u]].through <= Today
             /\ pc'[u] = "locking" => Asked(u, Settings)'
             /\ pc'[u] = "read" => Holds(u, Settings)' /\ seen'[u] = lockedThrough'
    BY <1>0, <1>1, <1>3, <1>4 DEF LockInv
<1>6. /\ pc'[t] \in {"locking", "read"} =>
             OpOf[t] \in OfKind("lock") /\ Req[OpOf[t]].through <= Today
      /\ pc'[t] = "locking" => Asked(t, Settings)'
      /\ pc'[t] = "read" => Holds(t, Settings)' /\ seen'[t] = lockedThrough'
  <2>1. CASE AskedForLock(t)
    <3>1. Asked(t, Settings)'
        BY <1>0, <2>1, AskKeeps DEF AskedForLock
    <3> QED BY <2>1, <3>1 DEF AskedForLock
  <2>2. CASE WasRead(t)
    <3>1. Holds(t, Settings)
        BY <1>0, <2>2, NotBlockedHolds DEF WasRead, LockInv
    <3>2. Holds(t, Settings)'
        BY <2>2, <3>1 DEF WasRead, Holds, Free
    <3>3. seen'[t] = lockedThrough'
        BY <1>0, <2>2 DEF WasRead, Typed
    <3> QED BY <1>0, <2>2, <3>2, <3>3 DEF WasRead, LockInv
  <2> QED BY <1>2, <2>1, <2>2
            DEF WasMarked, WasChecked, WasPosted, WasLocked, WasSelected
<1>7. \A u \in Txns : u = t \/ u \in Txns \ {t}
    OBVIOUS
<1> QED BY <1>5, <1>6, <1>7 DEF LockInv

LEMMA ReadsStep ==
    ASSUME BooksInv, NEW t \in Txns, StepOf(t)
    PROVE  ReadsInv'
PROOF
<1>0. Typed /\ Balanced /\ CheckedInv /\ ReadsInv /\ reads \in [Txns -> Seq(SUBSET Sources)]
    BY DEF BooksInv, Typed
<1>1. \A s \in Posted : s \in Posted' /\ entry'[s] = entry[s]
    BY <1>0, JournalsStay
<1>2. \A u, i : \A E \in SUBSET Posted : Takes(u, i, E)' = Takes(u, i, E)
    BY <1>1 DEF Takes, Selected
<1>3. \A u, i : Takes(u, i, Posted) \subseteq Takes(u, i, Posted)'
    BY <1>1 DEF Takes, Selected
<1>4. \A u, i : \A E : Takes(u, i, E) \subseteq E
    BY DEF Takes, Selected
<1>5. \/ WasMarked(t) \/ WasChecked(t) \/ WasPosted(t)
      \/ AskedForLock(t) \/ WasRead(t) \/ WasLocked(t) \/ WasSelected(t)
    BY <1>0, Steps
<1>6. \A u \in Txns \ {t} : pc'[u] = pc[u] /\ reads'[u] = reads[u]
  <2>1. \A u \in Txns \ {t} : pc'[u] = pc[u]
      BY <1>0, Steps
  <2> QED BY <1>0, <1>5, <2>1
            DEF WasMarked, WasChecked, WasPosted, AskedForLock, WasRead, WasLocked, WasSelected, rows
<1>7. ASSUME NEW u \in Txns, OpOf[u] \in Statements, reads'[u] = reads[u],
             NEW i \in 1..Len(reads[u])
      PROVE  /\ reads[u][i] \subseteq Takes(u, i, Posted)'
             /\ \A j \in 1..Len(reads[u]) : i < j =>
                   \A E : E = reads[u][i] => Takes(u, j, E)' \subseteq reads[u][j]
  <2>1. /\ reads[u][i] \subseteq Takes(u, i, Posted)
        /\ \A j \in 1..Len(reads[u]) : i < j => Takes(u, j, reads[u][i]) \subseteq reads[u][j]
      BY <1>0, <1>7 DEF ReadsInv
  <2>2. reads[u][i] \subseteq Posted
      BY <1>4, <2>1
  <2> QED BY <1>2, <1>3, <2>1, <2>2
<1>8. ASSUME NEW u \in Txns, OpOf[u] \in Statements, reads'[u] = reads[u],
             pc'[u] = pc[u] \/ ~WasSelected(t)
      PROVE  /\ Len(reads'[u]) <= Len(Ranges(OpOf[u]))
             /\ \A i \in 1..Len(reads'[u]) :
                   /\ reads'[u][i] \subseteq Takes(u, i, Posted)'
                   /\ \A j \in 1..Len(reads'[u]) : i < j =>
                         \A E : E = reads'[u][i] => Takes(u, j, E)' \subseteq reads'[u][j]
    BY <1>0, <1>7, <1>8 DEF ReadsInv
<1>9. \A o \in Ops : Len(Ranges(o)) \in Nat /\ 0 < Len(Ranges(o))
    BY DEF Ranges
<1>10. \A u \in Txns : OpOf[u] \in Ops
    BY BooksAssumption
<1>11. ASSUME NEW u \in Txns, OpOf[u] \in Statements, reads'[u] = reads[u], ~(u = t /\ WasSelected(t))
       PROVE  /\ pc'[u] \in {"unsent", "idle"} => Len(reads'[u]) = 0
              /\ pc'[u] = "working" => Len(reads'[u]) < Len(Ranges(OpOf[u]))
  <2>1. /\ pc[u] \in {"unsent", "idle"} => Len(reads[u]) = 0
        /\ pc[u] = "working" => Len(reads[u]) < Len(Ranges(OpOf[u]))
      BY <1>0, <1>11 DEF ReadsInv
  <2>2. CASE u = t
    <3>1. pc'[t] \notin {"unsent", "idle"} /\ (pc'[t] = "working" => pc[t] = "idle")
        BY <1>5, <1>11, <2>2
           DEF WasMarked, WasChecked, WasPosted, AskedForLock, WasRead, WasLocked
    <3>2. 0 < Len(Ranges(OpOf[t]))
        BY <1>9, <1>10
    <3>3. ASSUME pc'[t] = "working" PROVE Len(reads'[t]) = 0
        BY <1>11, <2>1, <2>2, <3>1, <3>3
    <3> QED BY <2>2, <3>1, <3>2, <3>3
  <2>3. CASE u # t
      BY <1>6, <1>11, <2>1, <2>3
  <2> QED BY <2>2, <2>3
<1>12. ASSUME WasSelected(t)
       PROVE  LET n == Len(reads'[t])
              IN  /\ n <= Len(Ranges(OpOf[t]))
                  /\ pc'[t] \in {"unsent", "idle"} => n = 0
                  /\ pc'[t] = "working" => n < Len(Ranges(OpOf[t]))
                  /\ \A i \in 1..n :
                        /\ reads'[t][i] \subseteq Takes(t, i, Posted)'
                        /\ \A j \in 1..n : i < j =>
                              \A E : E = reads'[t][i] => Takes(t, j, E)' \subseteq reads'[t][j]
  <2> DEFINE n == Len(reads[t]) + 1
             q == reads[t]
             N == Takes(t, n, Posted)
  <2>1. /\ pc[t] = "working" /\ OpOf[t] \in Statements /\ reads'[t] = Append(q, N)
        /\ \/ n = Len(Ranges(OpOf[t])) /\ pc'[t] = "done"
           \/ n # Len(Ranges(OpOf[t])) /\ UNCHANGED pc
        /\ UNCHANGED entry
      BY <1>0, <1>12 DEF WasSelected
  <2>2. /\ Len(q) < Len(Ranges(OpOf[t])) /\ q \in Seq(SUBSET Sources)
        /\ \A i \in 1..Len(q) : /\ q[i] \subseteq Takes(t, i, Posted)
                                /\ \A j \in 1..Len(q) : i < j => Takes(t, j, q[i]) \subseteq q[j]
      BY <1>0, <2>1 DEF ReadsInv
  <2>3. /\ \A u, i : \A E : Takes(u, i, E)' = Takes(u, i, E)
        /\ \A u, i : Takes(u, i, Posted)' = Takes(u, i, Posted)
      BY <2>1 DEF Takes, Selected, Posted
  <2>4. \A i \in 1..Len(q) : Takes(t, n, q[i]) \subseteq N
    <3>1. \A i \in 1..Len(q) : q[i] \subseteq Posted
        BY <1>4, <2>2
    <3> QED BY <3>1 DEF Takes, Selected
  <2>5. /\ Len(q) \in Nat /\ Len(reads'[t]) = n /\ n = Len(q) + 1
        /\ reads'[t][n] = N /\ \A i \in 1..Len(q) : reads'[t][i] = q[i]
      BY <2>1, <2>2
  <2>6. Len(Ranges(OpOf[t])) \in Nat
      BY <1>9, <1>10
  <2> HIDE DEF q, n
  <2>7. \A i \in 1..n : i = n \/ i \in 1..Len(q)
      BY <2>5
  <2>8. \A i \in 1..n : reads'[t][i] \subseteq Takes(t, i, Posted)'
      BY <2>2, <2>3, <2>5, <2>7
  <2> HIDE DEF N
  <2>9. ASSUME NEW i \in 1..n, NEW j \in 1..n, i < j
        PROVE  Takes(t, j, reads'[t][i]) \subseteq reads'[t][j]
    <3>1. i \in 1..Len(q)
        BY <2>5, <2>9
    <3> QED BY <2>2, <2>4, <2>5, <2>7, <2>9, <3>1
  <2>10. /\ n <= Len(Ranges(OpOf[t]))
         /\ pc'[t] = "working" => n < Len(Ranges(OpOf[t]))
         /\ pc'[t] \notin {"unsent", "idle"}
      BY <2>1, <2>2, <2>5, <2>6
  <2>11. ASSUME NEW i \in 1..n, NEW j \in 1..n, i < j, NEW E, E = reads'[t][i]
         PROVE  Takes(t, j, E)' \subseteq reads'[t][j]
      BY <2>3, <2>9, <2>11
  <2> QED BY <2>5, <2>8, <2>10, <2>11
<1>13. ASSUME NEW u \in Txns, OpOf[u] \in Statements
       PROVE  LET n == Len(reads'[u])
              IN  /\ n <= Len(Ranges(OpOf[u]))
                  /\ pc'[u] \in {"unsent", "idle"} => n = 0
                  /\ pc'[u] = "working" => n < Len(Ranges(OpOf[u]))
                  /\ \A i \in 1..n :
                        /\ reads'[u][i] \subseteq Takes(u, i, Posted)'
                        /\ \A j \in 1..n : i < j =>
                              \A E : E = reads'[u][i] => Takes(u, j, E)' \subseteq reads'[u][j]
  <2>1. CASE u = t /\ WasSelected(t)
      BY <1>12, <2>1
  <2>2. CASE ~(u = t /\ WasSelected(t))
    <3>1. reads'[u] = reads[u] /\ (pc'[u] = pc[u] \/ ~WasSelected(t))
      <4>1. CASE u = t
          BY <1>5, <2>2, <4>1
             DEF WasMarked, WasChecked, WasPosted, AskedForLock, WasRead, WasLocked, rows
      <4> QED BY <1>6, <4>1
    <3> QED BY <1>8, <1>11, <1>13, <2>2, <3>1
  <2> QED BY <2>1, <2>2
<1>14. \A u : \A i, j : i \in 1..Len(reads'[u]) /\
          (\A E : E = reads'[u][i] => Takes(u, j, E)' \subseteq reads'[u][j])
             => Takes(u, j, reads[u][i])' \subseteq reads'[u][j]
    BY DEF Takes, Selected
<1> QED BY <1>13, <1>14 DEF ReadsInv

LEMMA BooksStep == BooksInv /\ [Next]_vars => BooksInv'
PROOF
<1> SUFFICES ASSUME BooksInv, [Next]_vars PROVE BooksInv'
    OBVIOUS
<1>1. CASE UNCHANGED vars
  <2>1. Posted' = Posted
      BY <1>1 DEF vars, Posted
  <2>2. \A u, i : \A E : Takes(u, i, E)' = Takes(u, i, E)
      BY <1>1 DEF vars, Takes, Selected
  <2>3. Typed' /\ Balanced'
      BY <1>1, <2>1
         DEF BooksInv, Typed, Balanced, RequestsTypeOK, QueueTypeOK, vars, requests
  <2>4. CheckedInv'
      BY <1>1, <2>1 DEF BooksInv, CheckedInv, Ready, vars, requests
  <2>5. ReversalInv'
      BY <1>1, <2>1 DEF BooksInv, ReversalInv, Undoes, vars
  <2>6. LockInv'
      BY <1>1 DEF BooksInv, LockInv, Asked, Holds, Free, vars, requests
  <2>7. ReadsInv'
      BY <1>1, <2>1 DEF BooksInv, ReadsInv, Takes, Selected, vars, requests
  <2> QED BY <2>3, <2>4, <2>5, <2>6, <2>7 DEF BooksInv
<1>2. CASE \E t \in Txns : StepOf(t)
    BY <1>2, TypedStep, BalancedStep, CheckedStep, ReversalStep, LockStep, ReadsStep DEF BooksInv
<1> QED BY <1>1, <1>2, NextIsAStep

\* The inductive invariant holds of every history of the books: rows well typed and
\* balanced, requests that were checked still acceptable but for the lock, reversals
\* single, reads no newer than the books.
THEOREM BooksAlways == Spec => []BooksInv
PROOF BY BooksInit, BooksStep, PTL DEF Spec

\* The types of the rows; debits equal credits in every journal, those of
\* operations, of accountants and of reversals.
THEOREM BooksTypes == Spec => []TypeOK
PROOF
<1>1. BooksInv => TypeOK
  <2> SUFFICES ASSUME BooksInv PROVE TypeOK
      OBVIOUS
  <2>1. Typed /\ Balanced
      BY DEF BooksInv
  <2>2. \A s \in Sources : Exists(entry[s]) =>
            entry[s] \in EntryRow /\ SumFunction(entry[s].lines) = 0
      BY <2>1 DEF Typed, Balanced, Posted, Exists
  <2>3. \A t \in Txns : \A i \in DOMAIN reads[t] : reads[t][i] \subseteq Sources
      BY <2>1 DEF Typed
  <2> QED BY <2>1, <2>2, <2>3 DEF TypeOK, Typed, Stages
<1> QED BY <1>1, BooksAlways, PTL

--------------------
(* Reversals                                                                *)

\* However many requests reverse a manual journal at once, under one source or under
\* several, one reversal of it is posted at most, and nothing but a manual journal is
\* reversed (accounting.py:355).
THEOREM ReversedOnlyOnce == Spec => []ReversedOnce
PROOF
<1>1. BooksInv => ReversedOnce
  <2> SUFFICES ASSUME BooksInv, NEW s \in Sources
               PROVE  /\ Cardinality({Source[r] : r \in ReversalsOf(s)}) <= 1
                      /\ \A r \in ReversalsOf(s) :
                            /\ entry[s].type = "manual" /\ entry[Source[r]].branch = entry[s].branch
                            /\ \A a \in Accounts : Debit(a, {s, Source[r]}) = 0
      BY DEF ReversedOnce
  <2>1. Typed /\ ReversalInv /\ s # Unreversed
      BY BooksAssumption DEF BooksInv
  <2>2. ASSUME NEW r \in ReversalsOf(s)
        PROVE  /\ Source[r] \in Posted /\ Undoes(Source[r], s)
               /\ \A q \in ReversalsOf(s) : Source[q] = Source[r]
    <3>1. \A q \in ReversalsOf(s) : Source[q] \in Posted /\ entry[Source[q]].reverses = s
        BY Kinds DEF ReversalsOf, Posted
    <3> QED BY <2>1, <2>2, <3>1 DEF ReversalInv
  <2>3. Cardinality({Source[r] : r \in ReversalsOf(s)}) <= 1
    <3>1. CASE ReversalsOf(s) = {}
      <4>1. {Source[r] : r \in ReversalsOf(s)} = {}
          BY <3>1
      <4>2. Cardinality({}) <= 1
          BY FS_EmptySet
      <4> QED BY <4>1, <4>2
    <3>2. ASSUME NEW r \in ReversalsOf(s)
          PROVE  Cardinality({Source[q] : q \in ReversalsOf(s)}) <= 1
      <4> DEFINE C == {Source[q] : q \in ReversalsOf(s)}
      <4>1. C = {Source[r]}
          BY <2>2, <3>2
      <4>2. Cardinality({Source[r]}) = 1
          BY FS_Singleton
      <4> HIDE DEF C
      <4>3. Cardinality(C) <= 1
          BY <4>1, <4>2
      <4> QED BY <4>3 DEF C
    <3> QED BY <3>1, <3>2
  <2>4. ASSUME NEW r \in ReversalsOf(s), NEW a \in Accounts
        PROVE  Debit(a, {s, Source[r]}) = 0
    <3> DEFINE x == Source[r]
               f == [y \in {s} |-> entry[y].lines[a]]
               g == [y \in {s, x} |-> entry[y].lines[a]]
    <3>1. x \in Posted /\ Undoes(x, s)
        BY <2>2, <2>4
    <3>2. entry[s] \in EntryRow /\ entry[x] \in EntryRow
        BY <2>1, <3>1 DEF Typed, Undoes, Posted, Exists
    <3>3. x # s /\ entry[x].lines[a] = -entry[s].lines[a] /\ entry[s].lines[a] \in Int
        BY <3>1, <3>2 DEF Undoes, EntryRow
    <3>4. /\ DOMAIN f = {s} /\ DOMAIN g = DOMAIN f \cup {x} /\ x \notin DOMAIN f
          /\ f[s] \in Int /\ g[x] = -f[s] /\ (\A y \in DOMAIN f : g[y] = f[y])
          /\ \A y \in DOMAIN g : g[y] \in Int
        BY <3>3
    <3>5. Debit(a, {s, x}) = SumFunction(g)
        BY DEF Debit
    <3> HIDE DEF f, g, x
    <3>0. \A y : IsFiniteSet({y})
        BY FS_Singleton
    <3>6. IsFiniteSet(DOMAIN f)
        BY <3>4, <3>0
    <3>7. SumFunction(g) = SumFunction(f) + g[x]
        BY <3>4, <3>6, SumAllOneMore
    <3>8. SumFunction(f) = f[s]
        BY <3>4, SumOfOne
    <3>9. SumFunction(g) = 0
        BY <3>4, <3>7, <3>8
    <3> QED BY <3>5, <3>9 DEF x
  <2> QED BY <2>2, <2>3, <2>4 DEF Undoes
<1> QED BY <1>1, BooksAlways, PTL

--------------------
(* The lock on past periods                                                 *)

\* Nobody ever moves the lock back, and a locked day without a journal of it that
\* was checked before keeps exactly the journals it has (accounting.py:158, 211).
THEOREM PeriodsSettle == Spec => PeriodSettles
PROOF
<1>1. ASSUME BooksInv, NEW t \in Txns, StepOf(t)
      PROVE  /\ lockedThrough' >= lockedThrough
             /\ \A d \in Dates : Settled(d) => Settled(d)' /\ UpTo(d)' = UpTo(d)
  <2>1. Typed /\ Balanced /\ CheckedInv /\ LockInv /\ lockedThrough \in Int
      BY <1>1 DEF BooksInv, Typed
  <2>2. \/ WasMarked(t) \/ WasChecked(t) \/ WasPosted(t)
        \/ AskedForLock(t) \/ WasRead(t) \/ WasLocked(t) \/ WasSelected(t)
      BY <1>1, <2>1, Steps
  <2>3. lockedThrough' \in Int /\ lockedThrough' >= lockedThrough
    <3>1. CASE WasLocked(t)
        BY <2>1, <3>1, Kinds DEF WasLocked, LockInv
    <3>2. CASE ~WasLocked(t)
      <4>1. lockedThrough' = lockedThrough
          BY <2>2, <3>2
             DEF WasMarked, WasChecked, WasPosted, AskedForLock, WasRead, WasSelected, rows
      <4> QED BY <2>1, <4>1
    <3> QED BY <3>1, <3>2
  <2>4. ASSUME NEW d \in Dates, Settled(d)
        PROVE  Settled(d)' /\ UpTo(d)' = UpTo(d)
    <3>1. /\ d \in Int /\ lockedThrough >= d
          /\ \A u \in Txns : pc[u] = "checked" => Req[OpOf[u]].date > d
        BY <2>4, BooksAssumption DEF Settled, Dates
    <3>2. lockedThrough' >= d
        BY <2>1, <2>3, <3>1
    <3>3. ASSUME NEW u \in Txns, pc'[u] = "checked" PROVE Req[OpOf[u]].date > d
      <4>1. pc[u] = "checked" \/ (u = t /\ WasChecked(t))
          BY <1>1, <2>1, <2>2, <3>3, Steps
             DEF WasMarked, AskedForLock, WasRead, WasPosted, WasLocked, WasSelected
      <4>2. CASE u = t /\ WasChecked(t)
        <5>1. Req[OpOf[u]].date > lockedThrough /\ Req[OpOf[u]].date \in Int
            BY <4>2, Kinds DEF WasChecked, Acceptable, Open
        <5> QED BY <2>1, <3>1, <5>1
      <4> QED BY <3>1, <4>1, <4>2
    <3>4. UpTo(d)' = UpTo(d)
      <4>1. CASE entry' = entry
          BY <4>1 DEF UpTo, Posted
      <4>2. CASE WasPosted(t)
        <5> DEFINE x == Source[OpOf[t]]
        <5>1. /\ Ready(OpOf[t]) /\ entry'[x] = Row(OpOf[t]) /\ Posted' = Posted \cup {x}
              /\ x \notin Posted /\ \A s \in Sources \ {x} : entry'[s] = entry[s]
            BY <2>1, <4>2, PostedOnce
        <5>2. Row(OpOf[t]).date = Req[OpOf[t]].date /\ Req[OpOf[t]].date \in Int
            BY <2>1, <5>1, RowIsEntry, Kinds DEF Ready
        <5>3. Req[OpOf[t]].date > d
            BY <3>1, <4>2 DEF WasPosted
        <5>4. ~(entry'[x].date <= d)
            BY <3>1, <5>1, <5>2, <5>3
        <5>5. \A s \in Posted : entry'[s] = entry[s]
            BY <5>1 DEF Posted
        <5> QED BY <5>1, <5>4, <5>5 DEF UpTo
      <4> QED BY <2>2, <4>1, <4>2
                DEF WasMarked, WasChecked, AskedForLock, WasRead, WasLocked, WasSelected, rows
    <3> QED BY <3>2, <3>3, <3>4 DEF Settled
  <2> QED BY <2>3, <2>4
<1>2. ASSUME BooksInv, UNCHANGED vars
      PROVE  /\ lockedThrough' >= lockedThrough
             /\ \A d \in Dates : Settled(d) => Settled(d)' /\ UpTo(d)' = UpTo(d)
  <2>1. lockedThrough \in Int /\ lockedThrough' = lockedThrough
      BY <1>2 DEF BooksInv, Typed, vars
  <2>2. \A d \in Dates : Settled(d)' = Settled(d) /\ UpTo(d)' = UpTo(d)
      BY <1>2 DEF Settled, UpTo, Posted, vars, requests
  <2> QED BY <2>1, <2>2
<1>3. BooksInv /\ [Next]_vars =>
          /\ lockedThrough' >= lockedThrough
          /\ \A d \in Dates : Settled(d) => Settled(d)' /\ UpTo(d)' = UpTo(d)
    BY <1>1, <1>2, NextIsAStep
<1> QED BY <1>3, BooksAlways, PTL DEF Spec, PeriodSettles

--------------------
(* The statements                                                           *)

Figures(E) == [a \in Accounts |-> Debit(a, E)]

LEMMA JournalLines ==
    ASSUME Typed, Balanced, NEW E \in SUBSET Posted
    PROVE  /\ IsFiniteSet(E)
           /\ \A s \in E : /\ entry[s].lines \in [Accounts -> Int]
                           /\ SumFunction(entry[s].lines) = 0
           /\ \A a \in Accounts : Debit(a, E) \in Int
PROOF
<1>1. IsFiniteSet(E)
    BY SourcesFinite, FS_Subset, Posted \subseteq Sources DEF Posted
<1>2. \A s \in E : entry[s] \in EntryRow
    BY DEF Typed, Posted, Exists
<1>3. \A s \in E : entry[s].lines \in [Accounts -> Int] /\ SumFunction(entry[s].lines) = 0
    BY <1>2 DEF EntryRow, Balanced
<1>4. ASSUME NEW a \in Accounts PROVE Debit(a, E) \in Int
  <2> DEFINE f == [s \in E |-> entry[s].lines[a]]
  <2>1. DOMAIN f = E /\ \A s \in E : f[s] \in Int
      BY <1>3
  <2> HIDE DEF f
  <2>2. SumFunction(f) \in Int
      BY <1>1, <2>1, SumAllInt
  <2> QED BY <2>2 DEF Debit, f
<1> QED BY <1>1, <1>3, <1>4

\* What was not there yet is what the balance moved by.
LEMMA DebitMoves ==
    ASSUME Typed, Balanced, NEW E \in SUBSET Posted, NEW F \in SUBSET E, NEW a \in Accounts
    PROVE  Debit(a, E) = Debit(a, F) + Debit(a, E \ F)
PROOF
<1> DEFINE f == [s \in E |-> entry[s].lines[a]]
<1>1. DOMAIN f = E /\ IsFiniteSet(E) /\ \A s \in E : f[s] \in Int
    BY JournalLines
<1>2. /\ [s \in F |-> f[s]] = [s \in F |-> entry[s].lines[a]]
      /\ [s \in E \ F |-> f[s]] = [s \in E \ F |-> entry[s].lines[a]]
    OBVIOUS
<1> HIDE DEF f
<1>3. SumFunction(f) = SumFunction([s \in F |-> f[s]]) + SumFunction([s \in DOMAIN f \ F |-> f[s]])
    BY <1>1, SumAllSplit
<1>4. SumFunction(f) = SumFunction([s \in F |-> f[s]]) + SumFunction([s \in E \ F |-> f[s]])
    BY <1>1, <1>3
<1> QED BY <1>2, <1>4 DEF Debit, f

\* The trial balance of any journals adds up to nothing.
LEMMA TrialBalances ==
    ASSUME Typed, Balanced, NEW E \in SUBSET Posted
    PROVE  SumFunctionOnSet(Figures(E), Accounts) = 0
PROOF
<1> DEFINE m == [s \in E |-> entry[s].lines]
           g == [s \in E |-> SumFunction([a \in Accounts |-> m[s][a]])]
<1>1. /\ IsFiniteSet(E)
      /\ \A s \in E : /\ m[s] = entry[s].lines /\ m[s] \in [Accounts -> Int]
                      /\ SumFunction(m[s]) = 0
    BY JournalLines
<1>2. ByColumns(m, Accounts, E) = ByLines(m, Accounts, E)
  <2>1. \A s \in E : \A a \in Accounts : m[s][a] \in Int
      BY <1>1
  <2> HIDE DEF m
  <2> QED BY <1>1, <2>1, AccountsFinite, SumSwap
<1>3. ByLines(m, Accounts, E) = 0
  <2>1. \A s \in E : [a \in Accounts |-> m[s][a]] = m[s]
      BY <1>1
  <2>2. DOMAIN g = E /\ \A s \in E : g[s] = 0
      BY <1>1, <2>1
  <2>3. ByLines(m, Accounts, E) = SumFunction(g)
      BY DEF ByLines
  <2> HIDE DEF g
  <2> QED BY <1>1, <2>2, <2>3, SumAllZero
<1>4. ByColumns(m, Accounts, E) = SumFunction(Figures(E))
  <2>1. \A a \in Accounts : [s \in E |-> m[s][a]] = [s \in E |-> entry[s].lines[a]]
      OBVIOUS
  <2> QED BY <2>1 DEF ByColumns, Figures, Debit
<1>5. SumFunction(Figures(E)) = SumFunctionOnSet(Figures(E), Accounts)
    BY DEF SumFunction, Figures
<1> QED BY <1>2, <1>3, <1>4, <1>5

\* Sums over accounts, written out
LEMMA AccountsWrittenOut ==
    ASSUME NEW D, \A a \in Accounts : D[a] \in Int
    PROVE  /\ SumFunctionOnSet(D, {"Cash", "Bank", "Clearing"}) = D["Cash"] + D["Bank"] + D["Clearing"]
           /\ SumFunctionOnSet(D, {"Cash", "Bank", "Clearing", "Inventory"})
                 = D["Cash"] + D["Bank"] + D["Clearing"] + D["Inventory"]
           /\ SumFunctionOnSet(D, {"Capital", "Drawings"}) = D["Capital"] + D["Drawings"]
           /\ \A a \in Accounts : SumFunctionOnSet(D, {a}) = D[a]
           /\ SumFunctionOnSet(D, Accounts) =
                 D["Cash"] + D["Bank"] + D["Clearing"] + D["Inventory"] + D["Payable"]
                    + D["Capital"] + D["Drawings"] + D["Revenue"] + D["Gains"] + D["COGS"] + D["Rent"]
PROOF
<1> DEFINE F(S) == SumFunctionOnSet(D, S)
           S3 == {"Cash", "Bank", "Clearing"}
           S4 == S3 \cup {"Inventory"}
           S5 == S4 \cup {"Payable"}
           S6 == S5 \cup {"Capital"}
           S7 == S6 \cup {"Drawings"}
           S8 == S7 \cup {"Revenue"}
           S9 == S8 \cup {"Gains"}
           S10 == S9 \cup {"COGS"}
           S11 == S10 \cup {"Rent"}
<1>1. /\ \A a \in Accounts : D[a] \in Int
      /\ {"Cash", "Bank", "Clearing", "Inventory", "Payable", "Capital", "Drawings",
          "Revenue", "Gains", "COGS", "Rent"} = Accounts
    BY TheAccounts
<1>2. \A S \in SUBSET Accounts : \A a \in Accounts \ S : F(S \cup {a}) = D[a] + F(S)
  <2> TAKE S \in SUBSET Accounts
  <2> TAKE a \in Accounts \ S
  <2>1. IsFiniteSet(S) /\ \A y \in S \cup {a} : D[y] \in Int
      BY AccountsFinite, FS_Subset
  <2> QED BY <2>1, SumOneMore
<1>3. F(S3) = D["Cash"] + D["Bank"] + D["Clearing"]
  <2>1. /\ D["Cash"] \in Int /\ D["Bank"] \in Int /\ D["Clearing"] \in Int
        /\ "Bank" # "Cash" /\ "Clearing" \notin {"Cash", "Bank"}
      BY <1>1
  <2>2. SumFunctionOnSet(D, {"Cash", "Bank", "Clearing"}) = D["Cash"] + D["Bank"] + D["Clearing"]
      BY <2>1, SumOfThree
  <2> QED BY <2>2
<1>4. F({"Capital", "Drawings"}) = D["Capital"] + D["Drawings"]
  <2>1. D["Capital"] \in Int /\ D["Drawings"] \in Int /\ "Drawings" # "Capital"
      BY <1>1
  <2> QED BY <2>1, SumOfTwo
<1>5. \A a \in Accounts : F({a}) = D[a]
  <2> TAKE a \in Accounts
  <2>1. D[a] \in Int
      BY <1>1
  <2> QED BY <2>1, SumOfSingle
<1>6. S4 = {"Cash", "Bank", "Clearing", "Inventory"} /\ S11 = Accounts
    BY <1>1
<1> HIDE DEF F
<1>7. F(S4) = D["Inventory"] + F(S3)
    BY <1>1, <1>2, "Inventory" \in Accounts \ S3, S3 \in SUBSET Accounts
<1>8. F(S5) = D["Payable"] + F(S4)
    BY <1>1, <1>2, "Payable" \in Accounts \ S4, S4 \in SUBSET Accounts
<1>9. F(S6) = D["Capital"] + F(S5)
    BY <1>1, <1>2, "Capital" \in Accounts \ S5, S5 \in SUBSET Accounts
<1>10. F(S7) = D["Drawings"] + F(S6)
    BY <1>1, <1>2, "Drawings" \in Accounts \ S6, S6 \in SUBSET Accounts
<1>11. F(S8) = D["Revenue"] + F(S7)
    BY <1>1, <1>2, "Revenue" \in Accounts \ S7, S7 \in SUBSET Accounts
<1>12. F(S9) = D["Gains"] + F(S8)
    BY <1>1, <1>2, "Gains" \in Accounts \ S8, S8 \in SUBSET Accounts
<1>13. F(S10) = D["COGS"] + F(S9)
    BY <1>1, <1>2, "COGS" \in Accounts \ S9, S9 \in SUBSET Accounts
<1>14. F(S11) = D["Rent"] + F(S10)
    BY <1>1, <1>2, "Rent" \in Accounts \ S10, S10 \in SUBSET Accounts
<1> HIDE DEF S3, S4, S5, S6, S7, S8, S9, S10, S11
<1>15. /\ F(S4) = D["Cash"] + D["Bank"] + D["Clearing"] + D["Inventory"]
       /\ F(S11) = D["Cash"] + D["Bank"] + D["Clearing"] + D["Inventory"] + D["Payable"]
                    + D["Capital"] + D["Drawings"] + D["Revenue"] + D["Gains"] + D["COGS"] + D["Rent"]
    BY <1>1, <1>3, <1>7, <1>8, <1>9, <1>10, <1>11, <1>12, <1>13, <1>14
<1> QED BY <1>3, <1>4, <1>5, <1>6, <1>15 DEF F, S3

LEMMA RowsAdded ==
    ASSUME NEW R, NEW S \in SUBSET Accounts
    PROVE  SumFunction([a \in S |-> R[a]]) = SumFunctionOnSet(R, S)
PROOF
<1> DEFINE g == [a \in S |-> R[a]]
<1>1. IsFiniteSet(S) /\ DOMAIN g = S /\ \A a \in S : g[a] = R[a]
    BY AccountsFinite, FS_Subset
<1> HIDE DEF g
<1>2. SumFunctionOnSet(g, S) = SumFunctionOnSet(R, S)
    BY <1>1, SumSame
<1> QED BY <1>1, <1>2 DEF SumFunction, g

\* The balances on their normal sides
LEMMA RowsWrittenOut ==
    ASSUME Typed, Balanced, NEW E \in SUBSET Posted
    PROVE  LET R == TrialBalance(E)
           IN  /\ \A a \in Accounts : R[a] \in Int
               /\ \A a \in {"Cash", "Bank", "Clearing", "Inventory", "Drawings"} : R[a] = Debit(a, E)
               /\ \A a \in {"Payable", "Capital"} : R[a] = -Debit(a, E)
PROOF
<1>1. \A a \in Accounts : Debit(a, E) \in Int
    BY JournalLines
<1>2. /\ {"Cash", "Bank", "Clearing", "Inventory", "Drawings", "Payable", "Capital"} \subseteq Accounts
      /\ \A a \in {"Cash", "Bank", "Clearing", "Inventory", "Drawings"} : Chart[a].normal = "debit"
      /\ \A a \in {"Payable", "Capital"} : Chart[a].normal # "debit"
    BY TheAccounts, NormalSides
<1> QED BY <1>1, <1>2 DEF TrialBalance

LEMMA ProfitWrittenOut ==
    ASSUME Typed, Balanced, NEW E \in SUBSET Posted
    PROVE  NetProfit(E) = -Debit("Revenue", E) - Debit("COGS", E) - Debit("Gains", E) - Debit("Rent", E)
PROOF
<1> DEFINE Credits == [a \in Accounts |-> -Debit(a, E)]
           income(S) == SumFunction([a \in S |-> -Debit(a, E)])
           expense(S) == SumFunction([a \in S |-> Debit(a, E)])
<1>1. /\ \A a \in Accounts : Debit(a, E) \in Int
      /\ {"Revenue", "COGS", "Gains", "Rent"} \subseteq Accounts
    BY JournalLines, TheAccounts
<1>2. \A a \in Accounts : income({a}) = -Debit(a, E)
  <2> TAKE a \in Accounts
  <2> DEFINE f == [b \in {a} |-> -Debit(b, E)]
  <2>1. DOMAIN f = {a} /\ f[a] \in Int /\ f[a] = -Debit(a, E)
      BY <1>1
  <2>2. SumFunction(f) = f[a]
    <3> HIDE DEF f
    <3> QED BY <2>1, SumOfOne
  <2> QED BY <2>1, <2>2
<1>3. \A a \in Accounts : expense({a}) = Debit(a, E)
  <2> TAKE a \in Accounts
  <2> DEFINE f == [b \in {a} |-> Debit(b, E)]
  <2>1. DOMAIN f = {a} /\ f[a] \in Int /\ f[a] = Debit(a, E)
      BY <1>1
  <2>2. SumFunction(f) = f[a]
    <3> HIDE DEF f
    <3> QED BY <2>1, SumOfOne
  <2> QED BY <2>1, <2>2
<1>4. NetProfit(E) = income({"Revenue"}) - expense({"COGS"}) + income({"Gains"}) - expense({"Rent"})
    BY TheTypes, TheGroups DEF NetProfit
<1> HIDE DEF income, expense
<1> QED BY <1>1, <1>2, <1>3, <1>4

LEMMA ProfitMoves ==
    ASSUME Typed, Balanced, NEW E \in SUBSET Posted, NEW F \in SUBSET E
    PROVE  /\ NetProfit(E) \in Int /\ NetProfit(F) \in Int /\ NetProfit(E \ F) \in Int
           /\ NetProfit(E) = NetProfit(F) + NetProfit(E \ F)
PROOF
<1> DEFINE D(a) == Debit(a, E)
           A(a) == Debit(a, F)
           B(a) == Debit(a, E \ F)
           Four == {"Revenue", "COGS", "Gains", "Rent"}
<1>1. Four \subseteq Accounts /\ F \in SUBSET Posted /\ E \ F \in SUBSET Posted
    BY TheAccounts
<1>2. \A a \in Four : D(a) = A(a) + B(a)
    BY <1>1, DebitMoves
<1>3. \A a \in Four : D(a) \in Int /\ A(a) \in Int /\ B(a) \in Int
    BY <1>1, JournalLines
<1>4. NetProfit(E) = -D("Revenue") - D("COGS") - D("Gains") - D("Rent")
    BY ProfitWrittenOut
<1>5. NetProfit(F) = -A("Revenue") - A("COGS") - A("Gains") - A("Rent")
    BY <1>1, ProfitWrittenOut
<1>6. NetProfit(E \ F) = -B("Revenue") - B("COGS") - B("Gains") - B("Rent")
    BY <1>1, ProfitWrittenOut
<1> HIDE DEF D, A, B
<1> QED BY <1>2, <1>3, <1>4, <1>5, <1>6

LEMMA SheetIsExplained ==
    ASSUME Typed, Balanced, NEW P \in SUBSET Posted, NEW B \in SUBSET P
    PROVE  BalanceSheetDifference(B, P) = -NetProfit(P \ B) - 2 * Debit("Drawings", B)
PROOF
<1> DEFINE R == TrialBalance(B)
           F == Figures(B)
           D(a) == Debit(a, B)
           assets == D("Cash") + D("Bank") + D("Clearing") + D("Inventory")
<1>1. B \in SUBSET Posted
    OBVIOUS
<1>2. \A a \in Accounts : R[a] \in Int /\ F[a] \in Int /\ F[a] = D(a) /\ D(a) \in Int
  <2>1. \A a \in Accounts : R[a] \in Int
      BY <1>1, RowsWrittenOut
  <2>2. \A a \in Accounts : D(a) \in Int
      BY <1>1, JournalLines
  <2> QED BY <2>1, <2>2 DEF Figures
<1>3. /\ R["Cash"] = D("Cash") /\ R["Bank"] = D("Bank") /\ R["Clearing"] = D("Clearing")
      /\ R["Inventory"] = D("Inventory") /\ R["Drawings"] = D("Drawings")
      /\ R["Payable"] = -D("Payable") /\ R["Capital"] = -D("Capital")
    BY <1>1, RowsWrittenOut
<1>4. {"Cash", "Bank", "Clearing", "Inventory", "Payable", "Capital", "Drawings",
       "Revenue", "Gains", "COGS", "Rent"} = Accounts
    BY TheAccounts
<1> HIDE DEF R, F, D
<1>5. OfType("asset", R) = assets
  <2>1. OfType("asset", R) = SumFunctionOnSet(R, {"Cash", "Bank", "Clearing", "Inventory"})
      BY <1>4, TheTypes, RowsAdded DEF OfType
  <2>2. OfType("asset", R) = R["Cash"] + R["Bank"] + R["Clearing"] + R["Inventory"]
      BY <1>2, <2>1, AccountsWrittenOut
  <2> QED BY <1>3, <2>2
<1>6. OfType("liability", R) = R["Payable"]
  <2>1. OfType("liability", R) = SumFunctionOnSet(R, {"Payable"})
      BY <1>4, TheTypes, RowsAdded DEF OfType
  <2> QED BY <1>2, <1>4, <2>1, AccountsWrittenOut
<1>7. OfType("equity", R) = R["Capital"] + R["Drawings"]
  <2>1. OfType("equity", R) = SumFunctionOnSet(R, {"Capital", "Drawings"})
      BY <1>4, TheTypes, RowsAdded DEF OfType
  <2> QED BY <1>2, <2>1, AccountsWrittenOut
<1>8. assets + D("Payable") + D("Capital") + D("Drawings")
         + D("Revenue") + D("Gains") + D("COGS") + D("Rent") = 0
  <2>1. SumFunctionOnSet(F, Accounts) = 0
      BY <1>1, TrialBalances DEF F
  <2>2. SumFunctionOnSet(F, Accounts) =
           F["Cash"] + F["Bank"] + F["Clearing"] + F["Inventory"] + F["Payable"]
              + F["Capital"] + F["Drawings"] + F["Revenue"] + F["Gains"] + F["COGS"] + F["Rent"]
      BY <1>2, AccountsWrittenOut
  <2> QED BY <1>2, <1>4, <2>1, <2>2
<1>9. NetProfit(B) = -D("Revenue") - D("COGS") - D("Gains") - D("Rent")
    BY <1>1, ProfitWrittenOut DEF D
<1>10. /\ NetProfit(P) \in Int /\ NetProfit(B) \in Int /\ NetProfit(P \ B) \in Int
       /\ NetProfit(P) = NetProfit(B) + NetProfit(P \ B)
    BY ProfitMoves
<1>11. BalanceSheetDifference(B, P) =
          OfType("asset", R) - OfType("liability", R) - (OfType("equity", R) + NetProfit(P))
    BY DEF BalanceSheetDifference, R
<1>12. BalanceSheetDifference(B, P) =
          assets - R["Payable"] - (R["Capital"] + R["Drawings"] + NetProfit(P))
    BY <1>5, <1>6, <1>7, <1>11
<1>13. D("Cash") \in Int /\ D("Bank") \in Int /\ D("Clearing") \in Int /\ D("Inventory") \in Int
       /\ D("Payable") \in Int /\ D("Capital") \in Int /\ D("Drawings") \in Int /\ D("Revenue") \in Int
       /\ D("Gains") \in Int /\ D("COGS") \in Int /\ D("Rent") \in Int
    BY <1>2, <1>4
<1>14. BalanceSheetDifference(B, P) =
          assets + D("Payable") + D("Capital") - D("Drawings") - NetProfit(P)
    BY <1>3, <1>10, <1>12, <1>13
<1>15. BalanceSheetDifference(B, P) = -NetProfit(P \ B) - 2 * D("Drawings")
    BY <1>8, <1>9, <1>10, <1>13, <1>14
<1> QED BY <1>15 DEF D

\* The liquid funds are the cash that each journal moved.
LEMMA LiquidWrittenOut ==
    ASSUME Typed, Balanced, NEW E \in SUBSET Posted
    PROVE  /\ LiquidBalance(E) = Debit("Cash", E) + Debit("Bank", E) + Debit("Clearing", E)
           /\ LiquidBalance(E) \in Int /\ LiquidFunds(E) = LiquidBalance(E)
PROOF
<1> DEFINE R == TrialBalance(E)
<1>1. /\ \A a \in Accounts : R[a] \in Int
      /\ R["Cash"] = Debit("Cash", E) /\ R["Bank"] = Debit("Bank", E)
      /\ R["Clearing"] = Debit("Clearing", E)
    BY RowsWrittenOut
<1>2. {"Cash", "Bank", "Clearing"} \subseteq Accounts
    BY TheAccounts
<1>3. LiquidFunds(E) = R["Cash"] + R["Bank"] + OfGroup({"cash_equivalent"}, R)
    BY DEF LiquidFunds
<1>4. LiquidBalance(E) = OfGroup(CashGroups, R)
    BY DEF LiquidBalance
<1> HIDE DEF R
<1>5. OfGroup({"cash_equivalent"}, R) = SumFunctionOnSet(R, {"Clearing"})
  <2>1. {"Clearing"} \in SUBSET Accounts
      BY <1>2
  <2> QED BY <2>1, TheGroups, RowsAdded DEF OfGroup
<1>6. OfGroup({"cash_equivalent"}, R) = R["Clearing"]
    BY <1>1, <1>2, <1>5, AccountsWrittenOut
<1>7. OfGroup(CashGroups, R) = SumFunctionOnSet(R, {"Cash", "Bank", "Clearing"})
    BY <1>2, TheGroups, RowsAdded DEF OfGroup
<1>8. OfGroup(CashGroups, R) = R["Cash"] + R["Bank"] + R["Clearing"]
    BY <1>1, <1>7, AccountsWrittenOut
<1> QED BY <1>1, <1>2, <1>3, <1>4, <1>6, <1>8

LEMMA LiquidMoves ==
    ASSUME Typed, Balanced, NEW E \in SUBSET Posted, NEW F \in SUBSET E
    PROVE  LiquidBalance(E) = LiquidBalance(F) + LiquidBalance(E \ F)
PROOF
<1> DEFINE D(a) == Debit(a, E)
           A(a) == Debit(a, F)
           B(a) == Debit(a, E \ F)
           Three == {"Cash", "Bank", "Clearing"}
<1>1. Three \subseteq Accounts /\ F \in SUBSET Posted /\ E \ F \in SUBSET Posted
    BY TheAccounts
<1>2. \A a \in Three : D(a) = A(a) + B(a)
    BY <1>1, DebitMoves
<1>3. \A a \in Three : D(a) \in Int /\ A(a) \in Int /\ B(a) \in Int
    BY <1>1, JournalLines
<1>4. LiquidBalance(E) = D("Cash") + D("Bank") + D("Clearing")
    BY LiquidWrittenOut
<1>5. LiquidBalance(F) = A("Cash") + A("Bank") + A("Clearing")
    BY <1>1, LiquidWrittenOut
<1>6. LiquidBalance(E \ F) = B("Cash") + B("Bank") + B("Clearing")
    BY <1>1, LiquidWrittenOut
<1> HIDE DEF D, A, B
<1> QED BY <1>2, <1>3, <1>4, <1>5, <1>6

LEMMA FlowsWrittenOut ==
    ASSUME NEW f, f["operating"] \in Int, f["investing"] \in Int, f["financing"] \in Int
    PROVE  SumFunctionOnSet(f, {"operating", "investing", "financing"}) =
              f["operating"] + f["investing"] + f["financing"]
PROOF
<1> DEFINE two == {"operating", "investing"}
           F2 == SumFunctionOnSet(f, two)
           F3 == SumFunctionOnSet(f, two \cup {"financing"})
<1>1. F2 = f["operating"] + f["investing"] /\ IsFiniteSet(two)
  <2>1. "investing" # "operating"
      OBVIOUS
  <2> QED BY <2>1, SumOfTwo
<1>2. "financing" \notin two /\ \A c \in two \cup {"financing"} : f[c] \in Int
    OBVIOUS
<1>3. {"operating", "investing", "financing"} = two \cup {"financing"}
    OBVIOUS
<1> HIDE DEF two
<1>4. F3 = f["financing"] + F2
    BY <1>1, <1>2, SumOneMore
<1> HIDE DEF F2, F3
<1>5. F3 = f["operating"] + f["investing"] + f["financing"]
    BY <1>1, <1>4
<1> QED BY <1>3, <1>5 DEF F3

\* Every journal is in one category.
LEMMA FlowsAddUp ==
    ASSUME Typed, Balanced, NEW E \in SUBSET Posted
    PROVE  /\ LiquidBalance(E) =
                 Flow(E, "operating") + Flow(E, "investing") + Flow(E, "financing")
           /\ \A c \in {"operating", "investing", "financing"} : Flow(E, c) \in Int
PROOF
<1> DEFINE K == {"operating", "investing", "financing"}
           f == [s \in E |-> CashDelta(s)]
           k == [s \in E |-> Category(s)]
           line(a) == [s \in E |-> entry[s].lines[a]]
           flows == [c \in K |-> Flow(E, c)]
<1>1. /\ IsFiniteSet(E) /\ {"Cash", "Bank", "Clearing"} \subseteq Accounts
      /\ \A s \in E : entry[s].lines \in [Accounts -> Int]
    BY JournalLines, TheAccounts
<1>2. \A s \in E : CashDelta(s) = entry[s].lines["Cash"] + entry[s].lines["Bank"] + entry[s].lines["Clearing"]
  <2> TAKE s \in E
  <2> DEFINE R == entry[s].lines
  <2>1. \A a \in Accounts : R[a] \in Int
      BY <1>1
  <2>2. CashDelta(s) = SumFunction([a \in Groups(CashGroups) |-> R[a]])
      BY DEF CashDelta
  <2> HIDE DEF R
  <2>3. CashDelta(s) = SumFunctionOnSet(R, {"Cash", "Bank", "Clearing"})
      BY <1>1, <2>2, TheGroups, RowsAdded
  <2>4. CashDelta(s) = R["Cash"] + R["Bank"] + R["Clearing"]
      BY <2>1, <2>3, AccountsWrittenOut
  <2> QED BY <2>4 DEF R
<1>3. SumFunction(f) = LiquidBalance(E)
  <2> DEFINE two == [s \in E |-> entry[s].lines["Cash"] + entry[s].lines["Bank"]]
             x == line("Cash")
             y == line("Bank")
             z == line("Clearing")
  <2>1. /\ DOMAIN x = E /\ DOMAIN y = E /\ DOMAIN z = E /\ DOMAIN two = E /\ DOMAIN f = E
        /\ \A s \in E : /\ x[s] \in Int /\ y[s] \in Int /\ z[s] \in Int /\ two[s] \in Int
                        /\ two[s] = x[s] + y[s] /\ f[s] = two[s] + z[s]
      BY <1>1, <1>2
  <2>2. /\ Debit("Cash", E) = SumFunction(x) /\ Debit("Bank", E) = SumFunction(y)
        /\ Debit("Clearing", E) = SumFunction(z)
      BY DEF Debit
  <2> HIDE DEF two, x, y, z, f
  <2>3. SumFunction(two) = SumFunction(x) + SumFunction(y)
      BY <1>1, <2>1, SumAllPlus
  <2>4. SumFunction(f) = SumFunction(two) + SumFunction(z)
      BY <1>1, <2>1, SumAllPlus
  <2> QED BY <2>2, <2>3, <2>4, LiquidWrittenOut
<1>4. \A s \in E : f[s] \in Int /\ k[s] \in K
    BY <1>1, <1>2 DEF Category
<1>5. IsFiniteSet(K)
  <2>1. \A a, b, c : IsFiniteSet(({a} \cup {b}) \cup {c})
      BY FS_Singleton, FS_AddElement
  <2>2. K = ({"operating"} \cup {"investing"}) \cup {"financing"}
      OBVIOUS
  <2> HIDE DEF K
  <2> QED BY <2>1, <2>2
<1>6. \A c \in K : Flow(E, c) = SumFunction([s \in {r \in E : k[r] = c} |-> f[s]])
  <2> TAKE c \in K
  <2>1. {r \in E : k[r] = c} = {r \in E : Category(r) = c}
      OBVIOUS
  <2>2. [s \in {r \in E : k[r] = c} |-> f[s]] = [s \in {r \in E : Category(r) = c} |-> CashDelta(s)]
      BY <2>1
  <2> QED BY <2>2 DEF Flow
<1>7. \A c \in K : Flow(E, c) \in Int
  <2> TAKE c \in K
  <2> DEFINE S == {r \in E : k[r] = c}
             g == [s \in S |-> f[s]]
  <2>1. S \subseteq E /\ IsFiniteSet(S)
      BY <1>1, FS_Subset
  <2>2. DOMAIN g = S /\ \A s \in S : g[s] \in Int
      BY <1>4, <2>1
  <2>3. Flow(E, c) = SumFunction(g)
      BY <1>6
  <2> HIDE DEF g, S
  <2> QED BY <2>1, <2>2, <2>3, SumAllInt
<1>8. DOMAIN f = E /\ DOMAIN flows = K /\ \A c \in K : flows[c] = Flow(E, c)
    OBVIOUS
<1>9. SumsOfKeys(f, k, K) = SumFunction(flows)
    BY <1>6 DEF SumsOfKeys
<1>10. /\ flows["operating"] = Flow(E, "operating") /\ flows["investing"] = Flow(E, "investing")
       /\ flows["financing"] = Flow(E, "financing")
       /\ flows["operating"] \in Int /\ flows["investing"] \in Int /\ flows["financing"] \in Int
    BY <1>7
<1>11. SumFunction(flows) = SumFunctionOnSet(flows, K)
    BY DEF SumFunction
<1> HIDE DEF f, k, flows
<1>12. SumsOfKeys(f, k, K) = SumFunction(f)
  <2> HIDE DEF K
  <2> QED BY <1>1, <1>4, <1>5, <1>8, SumByKey
<1>13. SumFunctionOnSet(flows, {"operating", "investing", "financing"}) =
          flows["operating"] + flows["investing"] + flows["financing"]
    BY <1>10, FlowsWrittenOut
<1> QED BY <1>3, <1>7, <1>9, <1>10, <1>11, <1>12, <1>13

\* A balance sheet is out by the drawings, and a cash flow statement not at all, but
\* for exactly what was committed between the SELECTs it is put together from
\* (accounting.py:541-556, management_reports.py:94-138).
THEOREM StatementsAreExplained == Spec => []StatementsExplained
PROOF
<1>1. ASSUME BooksInv, NEW t \in Txns, Complete(t, "sheet") PROVE SheetExplained(t)
  <2> DEFINE B == reads[t][1]
             P == reads[t][2]
             o == OpOf[t]
  <2>1. Typed /\ Balanced /\ ReadsInv
      BY <1>1 DEF BooksInv
  <2>2. o \in Statements /\ Ranges(o) = <<<<1, Req[o].to>>, <<1, Req[o].to>>>> /\ Len(reads[t]) = 2
      BY <1>1, BooksAssumption DEF Complete, Ranges, Statements, OfKind
  <2>3. /\ B \subseteq Takes(t, 1, Posted) /\ P \subseteq Takes(t, 2, Posted)
        /\ Takes(t, 2, B) \subseteq P
    <3>1. 1 \in 1..Len(reads[t]) /\ 2 \in 1..Len(reads[t]) /\ 1 < 2
        BY <2>2
    <3> QED BY <2>1, <2>2, <3>1 DEF ReadsInv
  <2>4. P \in SUBSET Posted /\ B \in SUBSET P
      BY <2>2, <2>3 DEF Takes, Selected
  <2>5. BalanceSheetDifference(B, P) = -NetProfit(P \ B) - 2 * Debit("Drawings", B)
      BY <2>1, <2>4, SheetIsExplained
  <2> QED BY <2>5 DEF SheetExplained
<1>2. ASSUME BooksInv, NEW t \in Txns, Complete(t, "cashflow") PROVE FlowExplained(t)
  <2> DEFINE O == reads[t][1]
             C == reads[t][2]
             P == reads[t][3]
             o == OpOf[t]
             from == Req[o].from
             to == Req[o].to
             before == {s \in C : entry[s].date < from}
             K == C \ before
  <2>1. Typed /\ Balanced /\ ReadsInv
      BY <1>2 DEF BooksInv
  <2>2. /\ o \in Statements /\ Len(reads[t]) = 3 /\ to \in Nat /\ from \in 1..to
        /\ Ranges(o) = <<<<1, from - 1>>, <<1, to>>, <<from, to>>>>
      BY <1>2, BooksAssumption DEF Complete, Ranges, Statements, OfKind
  <2>3. /\ O \subseteq Takes(t, 1, Posted) /\ C \subseteq Takes(t, 2, Posted)
        /\ P \subseteq Takes(t, 3, Posted)
        /\ Takes(t, 2, O) \subseteq C /\ Takes(t, 3, C) \subseteq P
    <3>1. /\ 1 \in 1..Len(reads[t]) /\ 2 \in 1..Len(reads[t]) /\ 3 \in 1..Len(reads[t])
          /\ 1 < 2 /\ 2 < 3
        BY <2>2
    <3> QED BY <2>1, <2>2, <3>1 DEF ReadsInv
  <2>4. /\ \A s \in O : s \in Posted /\ entry[s].date \in 1..(from - 1)
        /\ \A s \in O : entry[s].date \in 1..to => s \in C
      BY <2>2, <2>3 DEF Takes, Selected
  <2>5. /\ \A s \in C : s \in Posted /\ entry[s].date \in 1..to
        /\ \A s \in C : entry[s].date \in from..to => s \in P
      BY <2>2, <2>3 DEF Takes, Selected
  <2>6. \A s \in P : s \in Posted /\ entry[s].date \in from..to
      BY <2>2, <2>3 DEF Takes, Selected
  <2> HIDE DEF O, C, P, o, from, to
  <2>7. O \in SUBSET before /\ before \in SUBSET C /\ C \in SUBSET Posted /\ before \in SUBSET Posted
      BY <2>2, <2>4, <2>5
  <2>8. K \in SUBSET P /\ P \in SUBSET Posted
      BY <2>2, <2>5, <2>6
  <2>9. P \ K = P \ C
      BY <2>2, <2>5, <2>6
  <2> HIDE DEF before
  <2>10. LiquidBalance(C) = LiquidBalance(before) + LiquidBalance(K)
      BY <2>1, <2>7, LiquidMoves
  <2>11. LiquidBalance(before) = LiquidBalance(O) + LiquidBalance(before \ O)
      BY <2>1, <2>7, LiquidMoves
  <2>12. LiquidBalance(P) = LiquidBalance(K) + LiquidBalance(P \ C)
      BY <2>1, <2>8, <2>9, LiquidMoves
  <2>13. LiquidBalance(P) = Flow(P, "operating") + Flow(P, "investing") + Flow(P, "financing")
      BY <2>1, <2>8, FlowsAddUp
  <2>14. \A E \in SUBSET Posted : LiquidBalance(E) \in Int /\ LiquidFunds(E) = LiquidBalance(E)
      BY <2>1, LiquidWrittenOut
  <2>15. \A E \in {O, C, P, K, before, before \ O, P \ C} : E \in SUBSET Posted
      BY <2>7, <2>8
  <2>16. CashFlowDifference(O, C, P) = LiquidBalance(C) - (LiquidBalance(O)
             + Flow(P, "operating") + Flow(P, "investing") + Flow(P, "financing"))
      BY DEF CashFlowDifference
  <2> DEFINE lo == LiquidBalance(O)
             lc == LiquidBalance(C)
             lp == LiquidBalance(P)
             lk == LiquidBalance(K)
             lb == LiquidBalance(before)
             early == LiquidBalance(before \ O)
             late == LiquidBalance(P \ C)
  <2>17. /\ lo \in Int /\ lc \in Int /\ lp \in Int /\ lk \in Int /\ lb \in Int
         /\ early \in Int /\ late \in Int
      BY <2>14, <2>15
  <2>18. /\ Flow(P, "operating") \in Int /\ Flow(P, "investing") \in Int
         /\ Flow(P, "financing") \in Int
      BY <2>1, <2>8, FlowsAddUp
  <2> HIDE DEF lo, lc, lp, lk, lb, early, late
  <2>19. CashFlowDifference(O, C, P) = lc - (lo + Flow(P, "operating")
             + Flow(P, "investing") + Flow(P, "financing"))
      BY <2>16 DEF lo, lc
  <2>20. lc = lb + lk /\ lb = lo + early /\ lp = lk + late
      BY <2>10, <2>11, <2>12 DEF lo, lc, lp, lk, lb, early, late
  <2>21. lp = Flow(P, "operating") + Flow(P, "investing") + Flow(P, "financing")
      BY <2>13 DEF lp
  <2>22. CashFlowDifference(O, C, P) = early - late
      BY <2>17, <2>18, <2>19, <2>20, <2>21
  <2>23. LiquidFunds(C) = LiquidBalance(C)
      BY <2>14, <2>15
  <2> QED BY <2>22, <2>23 DEF FlowExplained, early, late, before, O, C, P, from, o
<1>3. BooksInv => StatementsExplained
    BY <1>1, <1>2 DEF StatementsExplained
<1> QED BY <1>3, BooksAlways, PTL

--------------------
(* The rows of Records                                                      *)

\* w sets some columns of a row as new has them
Part(w, new) ==
    /\ w = [c \in DOMAIN w |-> w[c]]
    /\ DOMAIN w \subseteq DOMAIN new /\ \A c \in DOMAIN w : w[c] = new[c]

RowTyped(v, k) == v[k] = Absent \/ v[k] \in DeskRow(k)

\* Rows of these tables may be deleted again.
Deletable == {"material", "access"}

\* the columns that are set when a row is inserted and never again
Lasting(table) ==
    CASE table = "session" -> {"user"}
      [] table = "branch" -> {"tenant"}
      [] table = "order" -> {"ordered"}
      [] table = "appointment" -> {"staff", "from", "to"}
      [] table = "punch" -> {"staff", "kind", "at"}
      [] table = "points" -> {"customer", "points"}
      [] OTHER -> {}

\* What a request has loaded and found, at each of its stages.
Frame ==
    /\ RequestsTypeOK({"loaded"})
    /\ stored = [k \in Keys |-> stored[k]]
    /\ held = [t \in Txns |-> held[t]] /\ found = [t \in Txns |-> found[t]]
    /\ \A t \in Txns :
          /\ held[t] = [k \in DOMAIN held[t] |-> held[t][k]] /\ DOMAIN held[t] \subseteq Keys
          /\ pc[t] \in {"working", "loaded"} \/ held[t] = Unread
          /\ found[t] = IF pc[t] = "loaded" THEN [k \in Keys |-> found[t][k]] ELSE Unread

\* Two requests that are both undecided are each other's rivals, and stay so.
RivalsInv ==
    /\ rivals \in [Txns -> SUBSET Txns]
    /\ \A t, u \in Txns :
          /\ u \in rivals[t] => t \in rivals[u]
          /\ t # u /\ pc[t] = "loaded" /\ pc[u] = "loaded" => u \in rivals[t]
          /\ pc[t] \in {"loaded", "done"} \/ rivals[t] = {}

\* What was there when a request looked is there still.
KeptInv ==
    \A t \in Txns : \A k \in Keys : k[1] \notin Deletable =>
        /\ k \in DOMAIN held[t] /\ Present(held[t][k]) => Present(stored[k])
        /\ pc[t] = "loaded" /\ Present(found[t][k]) => Present(stored[k])
        /\ pc[t] = "loaded" /\ k \in DOMAIN held[t] /\ Present(held[t][k]) => Present(found[t][k])

\* It has not changed in the columns that last, and no row has the number of a
\* request that has not been answered.
LastingInv ==
    /\ \A t \in Txns : \A k \in Keys : \A c \in Lasting(k[1]) :
          pc[t] = "loaded" /\ Present(found[t][k]) => stored[k][c] = found[t][k][c]
    /\ \A k \in Keys : k[1] \in Numbered /\ k[2] \in Txns /\ pc[k[2]] # "done" => ~Present(stored[k])

\* Every line of an order has a quantity that was ordered and one received.
OrderWhole(o) ==
    /\ o.ordered \in Seq(Nat \ {0}) \ {<<>>}
    /\ DOMAIN o.received = DOMAIN o.ordered /\ o.received \in Seq(Nat)

OrdersWhole ==
    \A k \in KeysOf["order"] :
        /\ Present(stored[k]) => OrderWhole(stored[k])
        /\ \A t \in Txns : pc[t] = "loaded" /\ Present(found[t][k]) => OrderWhole(found[t][k])

RowsTyped ==
    \A k \in Keys :
        /\ RowTyped(stored, k)
        /\ \A t \in Txns : /\ k \in DOMAIN held[t] => RowTyped(held[t], k)
                           /\ pc[t] = "loaded" => RowTyped(found[t], k)

\* A request of somebody who is signed in has the session, and one to a business
\* the business and the active membership.
HeldInv ==
    \A t \in Txns : pc[t] \in {"working", "loaded"} =>
        LET c == Call[t]
            s == held[t][Session(c.session)]
        IN  /\ c.do \in Public => DOMAIN held[t] = {}
            /\ c.do \notin Public =>
                  /\ Session(c.session) \in DOMAIN held[t] /\ Present(s)
                  /\ User(s.user) \in DOMAIN held[t] /\ Present(held[t][User(s.user)])
                  /\ DOMAIN held[t] \subseteq {Session(c.session), User(s.user), Tenant(c.tenant),
                                              Member(c.tenant, s.user), Branch(c.at)}
                  /\ c.do \in OfPlatform \cup {"logout"} =>
                        DOMAIN held[t] \subseteq {Session(c.session), User(s.user)}
                  /\ c.do \notin OfPlatform \cup {"logout"} =>
                        LET m == Member(c.tenant, s.user)
                        IN  /\ {Tenant(c.tenant), m} \subseteq DOMAIN held[t]
                            /\ Present(held[t][Tenant(c.tenant)]) /\ held[t][Tenant(c.tenant)].active
                            /\ Present(held[t][m]) /\ held[t][m].active

\* A session is somebody's.
SessionsOwned == \A k \in KeysOf["session"] : Present(stored[k]) => Present(stored[User(stored[k].user)])

DeskInv ==
    /\ Frame /\ RivalsInv /\ KeptInv /\ LastingInv
    /\ OrdersWhole /\ SessionsOwned /\ RowsTyped /\ HeldInv

\* Keys of different tables differ, and a key is told by its parts.
LEMMA KeysTold ==
    ASSUME NEW k \in Keys
    PROVE  /\ k[1] \in Tables /\ IsKey(k)
           /\ \A T \in Tables : k \in KeysOf[T] <=> k[1] = T
           /\ \A x : (k = Tenant(x) <=> k[1] = "tenant" /\ k[2] = x)
           /\ \A x : (k = User(x) <=> k[1] = "user" /\ k[2] = x)
           /\ \A x : (k = Branch(x) <=> k[1] = "branch" /\ k[2] = x)
           /\ \A x : (k = Session(x) <=> k[1] = "session" /\ k[2] = x)
           /\ \A x : (k = Device(x) <=> k[1] = "device" /\ k[2] = x)
           /\ \A x : (k = Subscription(x) <=> k[1] = "subscription" /\ k[2] = x)
           /\ \A x : (k = Shift(x) <=> k[1] = "shift" /\ k[2] = x)
           /\ \A x : (k = Punch(x) <=> k[1] = "punch" /\ k[2] = x)
           /\ \A x : (k = Appointment(x) <=> k[1] = "appointment" /\ k[2] = x)
           /\ \A x : (k = Service(x) <=> k[1] = "service" /\ k[2] = x)
           /\ \A x : (k = Order(x) <=> k[1] = "order" /\ k[2] = x)
           /\ \A x : (k = Promotion(x) <=> k[1] = "promotion" /\ k[2] = x)
           /\ \A x : (k = Loyalty(x) <=> k[1] = "loyalty" /\ k[2] = x)
           /\ \A x : (k = Points(x) <=> k[1] = "points" /\ k[2] = x)
           /\ \A x : (k = Document(x) <=> k[1] = "document" /\ k[2] = x)
           /\ \A x : (k = Alert(x) <=> k[1] = "alert" /\ k[2] = x)
           /\ \A x, y : (k = Member(x, y) <=> k[1] = "member" /\ k[2] = x /\ k[3] = y)
           /\ \A x, y : (k = Material(x, y) <=> k[1] = "material" /\ k[2] = x /\ k[3] = y)
PROOF
<1>1. k[1] \in Tables /\ IsKey(k)
    BY AccessAssumption
<1>2. \A T \in Tables : k \in KeysOf[T] <=> k[1] = T
    BY DEF KeysOf
<1>3. \A x : (k = Tenant(x) <=> k[1] = "tenant" /\ k[2] = x)
    BY <1>1 DEF IsKey, Tenant
<1>4. \A x : (k = User(x) <=> k[1] = "user" /\ k[2] = x)
    BY <1>1 DEF IsKey, User
<1>5. \A x : (k = Branch(x) <=> k[1] = "branch" /\ k[2] = x)
    BY <1>1 DEF IsKey, Branch
<1>6. \A x : (k = Session(x) <=> k[1] = "session" /\ k[2] = x)
    BY <1>1 DEF IsKey, Session
<1>7. \A x : (k = Device(x) <=> k[1] = "device" /\ k[2] = x)
    BY <1>1 DEF IsKey, Device
<1>8. \A x : (k = Subscription(x) <=> k[1] = "subscription" /\ k[2] = x)
    BY <1>1 DEF IsKey, Subscription
<1>9. \A x : (k = Shift(x) <=> k[1] = "shift" /\ k[2] = x)
    BY <1>1 DEF IsKey, Shift
<1>10. \A x : (k = Punch(x) <=> k[1] = "punch" /\ k[2] = x)
    BY <1>1 DEF IsKey, Punch
<1>11. \A x : (k = Appointment(x) <=> k[1] = "appointment" /\ k[2] = x)
    BY <1>1 DEF IsKey, Appointment
<1>12. \A x : (k = Service(x) <=> k[1] = "service" /\ k[2] = x)
    BY <1>1 DEF IsKey, Service
<1>13. \A x : (k = Order(x) <=> k[1] = "order" /\ k[2] = x)
    BY <1>1 DEF IsKey, Order
<1>14. \A x : (k = Promotion(x) <=> k[1] = "promotion" /\ k[2] = x)
    BY <1>1 DEF IsKey, Promotion
<1>15. \A x : (k = Loyalty(x) <=> k[1] = "loyalty" /\ k[2] = x)
    BY <1>1 DEF IsKey, Loyalty
<1>16. \A x : (k = Points(x) <=> k[1] = "points" /\ k[2] = x)
    BY <1>1 DEF IsKey, Points
<1>17. \A x : (k = Document(x) <=> k[1] = "document" /\ k[2] = x)
    BY <1>1 DEF IsKey, Document
<1>18. \A x : (k = Alert(x) <=> k[1] = "alert" /\ k[2] = x)
    BY <1>1 DEF IsKey, Alert
<1>19. \A x, y : (k = Member(x, y) <=> k[1] = "member" /\ k[2] = x /\ k[3] = y)
    BY <1>1 DEF IsKey, Member
<1>20. \A x, y : (k = Material(x, y) <=> k[1] = "material" /\ k[2] = x /\ k[3] = y)
    BY <1>1 DEF IsKey, Material
<1> QED BY <1>1, <1>2, <1>3, <1>4, <1>5, <1>6, <1>7, <1>8, <1>9, <1>10, <1>11, <1>12, <1>13, <1>14,
             <1>15, <1>16, <1>17, <1>18, <1>19, <1>20

LEMMA RowOfTable ==
    ASSUME NEW k
    PROVE  /\ k[1] = "tenant" => DeskRow(k) = TenantRow
           /\ k[1] = "user" => DeskRow(k) = UserRow
           /\ k[1] = "member" => DeskRow(k) = MemberRow
           /\ k[1] = "access" => DeskRow(k) = {Assigned}
           /\ k[1] = "branch" => DeskRow(k) = BranchRow
           /\ k[1] = "session" => DeskRow(k) = SessionRow
           /\ k[1] = "device" => DeskRow(k) = DeviceRow
           /\ k[1] = "subscription" => DeskRow(k) = SubscriptionRow
           /\ k[1] = "shift" => DeskRow(k) = ShiftRow
           /\ k[1] = "punch" => DeskRow(k) = PunchRow
           /\ k[1] = "appointment" => DeskRow(k) = AppointmentRow
           /\ k[1] = "service" => DeskRow(k) = ServiceRow
           /\ k[1] = "material" => DeskRow(k) = MaterialRow(k[3])
           /\ k[1] = "order" => DeskRow(k) = OrderRow
           /\ k[1] = "promotion" => DeskRow(k) = PromotionRow
           /\ k[1] = "loyalty" => DeskRow(k) = LoyaltyRow
           /\ k[1] = "points" => DeskRow(k) = PointsRow
           /\ k[1] = "document" => DeskRow(k) = DocumentRow
           /\ k[1] = "alert" => DeskRow(k) = AlertRow(k[2][2])
           /\ k[1] = "stock" => DeskRow(k) = [low : BOOLEAN]
PROOF
<1>1. /\ k[1] = "shift" => DeskRow(k) = ShiftRow
      /\ k[1] = "punch" => DeskRow(k) = PunchRow
      /\ k[1] = "appointment" => DeskRow(k) = AppointmentRow
      /\ k[1] = "service" => DeskRow(k) = ServiceRow
      /\ k[1] = "material" => DeskRow(k) = MaterialRow(k[3])
      /\ k[1] = "order" => DeskRow(k) = OrderRow
      /\ k[1] = "promotion" => DeskRow(k) = PromotionRow
      /\ k[1] = "loyalty" => DeskRow(k) = LoyaltyRow
      /\ k[1] = "points" => DeskRow(k) = PointsRow
      /\ k[1] = "document" => DeskRow(k) = DocumentRow
      /\ k[1] = "alert" => DeskRow(k) = AlertRow(k[2][2])
      /\ k[1] = "stock" => DeskRow(k) = [low : BOOLEAN]
    BY DEF DeskRow
<1>2. k[1] \in {"tenant", "user", "member", "access", "branch", "session", "device", "subscription"} => DeskRow(k) = AccessRow(k)
    BY DEF DeskRow
<1>3. /\ k[1] = "tenant" => AccessRow(k) = TenantRow
      /\ k[1] = "user" => AccessRow(k) = UserRow
      /\ k[1] = "member" => AccessRow(k) = MemberRow
      /\ k[1] = "access" => AccessRow(k) = {Assigned}
      /\ k[1] = "branch" => AccessRow(k) = BranchRow
      /\ k[1] = "session" => AccessRow(k) = SessionRow
      /\ k[1] = "device" => AccessRow(k) = DeviceRow
      /\ k[1] = "subscription" => AccessRow(k) = SubscriptionRow
    BY DEF AccessRow
<1> QED BY <1>1, <1>2, <1>3

\* A row is a record, and none is absent.
LEMMA RowIsPresent ==
    ASSUME NEW k \in Keys, NEW r \in DeskRow(k)
    PROVE  Present(r) /\ r = [c \in DOMAIN r |-> r[c]]
PROOF
<1>0. k[1] \in Tables
    BY KeysTold
<1>1. CASE k[1] = "tenant"
  <2>1. r \in TenantRow
      BY <1>1, RowOfTable
  <2> QED BY <2>1 DEF Present, Absent, TenantRow
<1>2. CASE k[1] = "user"
  <2>1. r \in UserRow
      BY <1>2, RowOfTable
  <2> QED BY <2>1 DEF Present, Absent, UserRow
<1>3. CASE k[1] = "member"
  <2>1. r \in MemberRow
      BY <1>3, RowOfTable
  <2> QED BY <2>1 DEF Present, Absent, MemberRow
<1>4. CASE k[1] = "access"
  <2>1. r \in {Assigned}
      BY <1>4, RowOfTable
  <2> QED BY <2>1 DEF Present, Absent, Assigned
<1>5. CASE k[1] = "branch"
  <2>1. r \in BranchRow
      BY <1>5, RowOfTable
  <2> QED BY <2>1 DEF Present, Absent, BranchRow
<1>6. CASE k[1] = "session"
  <2>1. r \in SessionRow
      BY <1>6, RowOfTable
  <2> QED BY <2>1 DEF Present, Absent, SessionRow
<1>7. CASE k[1] = "device"
  <2>1. r \in DeviceRow
      BY <1>7, RowOfTable
  <2> QED BY <2>1 DEF Present, Absent, DeviceRow
<1>8. CASE k[1] = "subscription"
  <2>1. r \in SubscriptionRow
      BY <1>8, RowOfTable
  <2> QED BY <2>1 DEF Present, Absent, SubscriptionRow
<1>9. CASE k[1] = "shift"
  <2>1. r \in ShiftRow
      BY <1>9, RowOfTable
  <2> QED BY <2>1 DEF Present, Absent, ShiftRow, Booking
<1>10. CASE k[1] = "punch"
  <2>1. r \in PunchRow
      BY <1>10, RowOfTable
  <2> QED BY <2>1 DEF Present, Absent, PunchRow
<1>11. CASE k[1] = "appointment"
  <2>1. r \in AppointmentRow
      BY <1>11, RowOfTable
  <2> QED BY <2>1 DEF Present, Absent, AppointmentRow, Booking
<1>12. CASE k[1] = "service"
  <2>1. r \in ServiceRow
      BY <1>12, RowOfTable
  <2> QED BY <2>1 DEF Present, Absent, ServiceRow
<1>13. CASE k[1] = "material"
  <2>1. r \in MaterialRow(k[3])
      BY <1>13, RowOfTable
  <2> QED BY <2>1 DEF Present, Absent, MaterialRow
<1>14. CASE k[1] = "order"
  <2>1. r \in OrderRow
      BY <1>14, RowOfTable
  <2> QED BY <2>1 DEF Present, Absent, OrderRow
<1>15. CASE k[1] = "promotion"
  <2>1. r \in PromotionRow
      BY <1>15, RowOfTable
  <2> QED BY <2>1 DEF Present, Absent, PromotionRow
<1>16. CASE k[1] = "loyalty"
  <2>1. r \in LoyaltyRow
      BY <1>16, RowOfTable
  <2> QED BY <2>1 DEF Present, Absent, LoyaltyRow
<1>17. CASE k[1] = "points"
  <2>1. r \in PointsRow
      BY <1>17, RowOfTable
  <2> QED BY <2>1 DEF Present, Absent, PointsRow
<1>18. CASE k[1] = "document"
  <2>1. r \in DocumentRow
      BY <1>18, RowOfTable
  <2> QED BY <2>1 DEF Present, Absent, DocumentRow
<1>19. CASE k[1] = "alert"
  <2>1. r \in AlertRow(k[2][2])
      BY <1>19, RowOfTable
  <2> QED BY <2>1 DEF Present, Absent, AlertRow
<1>20. CASE k[1] = "stock"
  <2>1. r \in [low : BOOLEAN]
      BY <1>20, RowOfTable
  <2> QED BY <2>1 DEF Present, Absent
<1> QED BY <1>0, <1>1, <1>2, <1>3, <1>4, <1>5, <1>6, <1>7, <1>8, <1>9, <1>10, <1>11, <1>12, <1>13,
             <1>14, <1>15, <1>16, <1>17, <1>18, <1>19, <1>20 DEF Tables

\* Columns of a row, written over a row of the same key, make such a row.
LEMMA MergedIsTyped ==
    ASSUME NEW k \in Keys, NEW r \in DeskRow(k), NEW new \in DeskRow(k), NEW w, Part(w, new)
    PROVE  w @@ r \in DeskRow(k)
PROOF
<1>0. k[1] \in Tables
    BY KeysTold
<1> USE DEF Part
<1>1. CASE k[1] = "tenant"
  <2>1. r \in TenantRow /\ new \in TenantRow
      BY <1>1, RowOfTable
  <2>2. w @@ r \in TenantRow
      BY <2>1 DEF @@, TenantRow
  <2> QED BY <1>1, <2>2, RowOfTable
<1>2. CASE k[1] = "user"
  <2>1. r \in UserRow /\ new \in UserRow
      BY <1>2, RowOfTable
  <2>2. w @@ r \in UserRow
      BY <2>1 DEF @@, UserRow
  <2> QED BY <1>2, <2>2, RowOfTable
<1>3. CASE k[1] = "member"
  <2>1. r \in MemberRow /\ new \in MemberRow
      BY <1>3, RowOfTable
  <2>2. w @@ r \in MemberRow
      BY <2>1 DEF @@, MemberRow
  <2> QED BY <1>3, <2>2, RowOfTable
<1>4. CASE k[1] = "access"
  <2>1. r \in {Assigned} /\ new \in {Assigned}
      BY <1>4, RowOfTable
  <2>2. w @@ r \in {Assigned}
      BY <2>1 DEF @@, Assigned
  <2> QED BY <1>4, <2>2, RowOfTable
<1>5. CASE k[1] = "branch"
  <2>1. r \in BranchRow /\ new \in BranchRow
      BY <1>5, RowOfTable
  <2>2. w @@ r \in BranchRow
      BY <2>1 DEF @@, BranchRow
  <2> QED BY <1>5, <2>2, RowOfTable
<1>6. CASE k[1] = "session"
  <2>1. r \in SessionRow /\ new \in SessionRow
      BY <1>6, RowOfTable
  <2>2. w @@ r \in SessionRow
      BY <2>1 DEF @@, SessionRow
  <2> QED BY <1>6, <2>2, RowOfTable
<1>7. CASE k[1] = "device"
  <2>1. r \in DeviceRow /\ new \in DeviceRow
      BY <1>7, RowOfTable
  <2>2. w @@ r \in DeviceRow
      BY <2>1 DEF @@, DeviceRow
  <2> QED BY <1>7, <2>2, RowOfTable
<1>8. CASE k[1] = "subscription"
  <2>1. r \in SubscriptionRow /\ new \in SubscriptionRow
      BY <1>8, RowOfTable
  <2>2. w @@ r \in SubscriptionRow
      BY <2>1 DEF @@, SubscriptionRow
  <2> QED BY <1>8, <2>2, RowOfTable
<1>9. CASE k[1] = "shift"
  <2>1. r \in ShiftRow /\ new \in ShiftRow
      BY <1>9, RowOfTable
  <2>2. w @@ r \in ShiftRow
      BY <2>1 DEF @@, ShiftRow, Booking
  <2> QED BY <1>9, <2>2, RowOfTable
<1>10. CASE k[1] = "punch"
  <2>1. r \in PunchRow /\ new \in PunchRow
      BY <1>10, RowOfTable
  <2>2. w @@ r \in PunchRow
      BY <2>1 DEF @@, PunchRow
  <2> QED BY <1>10, <2>2, RowOfTable
<1>11. CASE k[1] = "appointment"
  <2>1. r \in AppointmentRow /\ new \in AppointmentRow
      BY <1>11, RowOfTable
  <2>2. w @@ r \in AppointmentRow
      BY <2>1 DEF @@, AppointmentRow, Booking
  <2> QED BY <1>11, <2>2, RowOfTable
<1>12. CASE k[1] = "service"
  <2>1. r \in ServiceRow /\ new \in ServiceRow
      BY <1>12, RowOfTable
  <2>2. w @@ r \in ServiceRow
      BY <2>1 DEF @@, ServiceRow
  <2> QED BY <1>12, <2>2, RowOfTable
<1>13. CASE k[1] = "material"
  <2>1. r \in MaterialRow(k[3]) /\ new \in MaterialRow(k[3])
      BY <1>13, RowOfTable
  <2>2. w @@ r \in MaterialRow(k[3])
      BY <2>1 DEF @@, MaterialRow
  <2> QED BY <1>13, <2>2, RowOfTable
<1>14. CASE k[1] = "order"
  <2>1. r \in OrderRow /\ new \in OrderRow
      BY <1>14, RowOfTable
  <2>2. w @@ r \in OrderRow
      BY <2>1 DEF @@, OrderRow
  <2> QED BY <1>14, <2>2, RowOfTable
<1>15. CASE k[1] = "promotion"
  <2>1. r \in PromotionRow /\ new \in PromotionRow
      BY <1>15, RowOfTable
  <2>2. w @@ r \in PromotionRow
      BY <2>1 DEF @@, PromotionRow
  <2> QED BY <1>15, <2>2, RowOfTable
<1>16. CASE k[1] = "loyalty"
  <2>1. r \in LoyaltyRow /\ new \in LoyaltyRow
      BY <1>16, RowOfTable
  <2>2. w @@ r \in LoyaltyRow
      BY <2>1 DEF @@, LoyaltyRow
  <2> QED BY <1>16, <2>2, RowOfTable
<1>17. CASE k[1] = "points"
  <2>1. r \in PointsRow /\ new \in PointsRow
      BY <1>17, RowOfTable
  <2>2. w @@ r \in PointsRow
      BY <2>1 DEF @@, PointsRow
  <2> QED BY <1>17, <2>2, RowOfTable
<1>18. CASE k[1] = "document"
  <2>1. r \in DocumentRow /\ new \in DocumentRow
      BY <1>18, RowOfTable
  <2>2. w @@ r \in DocumentRow
      BY <2>1 DEF @@, DocumentRow
  <2> QED BY <1>18, <2>2, RowOfTable
<1>19. CASE k[1] = "alert"
  <2>1. r \in AlertRow(k[2][2]) /\ new \in AlertRow(k[2][2])
      BY <1>19, RowOfTable
  <2>2. w @@ r \in AlertRow(k[2][2])
      BY <2>1 DEF @@, AlertRow
  <2> QED BY <1>19, <2>2, RowOfTable
<1>20. CASE k[1] = "stock"
  <2>1. r \in [low : BOOLEAN] /\ new \in [low : BOOLEAN]
      BY <1>20, RowOfTable
  <2>2. w @@ r \in [low : BOOLEAN]
      BY <2>1 DEF @@
  <2> QED BY <1>20, <2>2, RowOfTable
<1> QED BY <1>0, <1>1, <1>2, <1>3, <1>4, <1>5, <1>6, <1>7, <1>8, <1>9, <1>10, <1>11, <1>12, <1>13,
             <1>14, <1>15, <1>16, <1>17, <1>18, <1>19, <1>20 DEF Tables

\* The rows of a table have the same columns.
LEMMA SameColumns ==
    ASSUME NEW k \in Keys, NEW r \in DeskRow(k), NEW new \in DeskRow(k)
    PROVE  DOMAIN r = DOMAIN new /\ "none" \notin DOMAIN r
PROOF
<1>0. k[1] \in Tables
    BY KeysTold
<1>1. CASE k[1] = "tenant"
  <2>1. r \in TenantRow /\ new \in TenantRow
      BY <1>1, RowOfTable
  <2> QED BY <2>1 DEF TenantRow
<1>2. CASE k[1] = "user"
  <2>1. r \in UserRow /\ new \in UserRow
      BY <1>2, RowOfTable
  <2> QED BY <2>1 DEF UserRow
<1>3. CASE k[1] = "member"
  <2>1. r \in MemberRow /\ new \in MemberRow
      BY <1>3, RowOfTable
  <2> QED BY <2>1 DEF MemberRow
<1>4. CASE k[1] = "access"
  <2>1. r \in {Assigned} /\ new \in {Assigned}
      BY <1>4, RowOfTable
  <2> QED BY <2>1 DEF Assigned
<1>5. CASE k[1] = "branch"
  <2>1. r \in BranchRow /\ new \in BranchRow
      BY <1>5, RowOfTable
  <2> QED BY <2>1 DEF BranchRow
<1>6. CASE k[1] = "session"
  <2>1. r \in SessionRow /\ new \in SessionRow
      BY <1>6, RowOfTable
  <2> QED BY <2>1 DEF SessionRow
<1>7. CASE k[1] = "device"
  <2>1. r \in DeviceRow /\ new \in DeviceRow
      BY <1>7, RowOfTable
  <2> QED BY <2>1 DEF DeviceRow
<1>8. CASE k[1] = "subscription"
  <2>1. r \in SubscriptionRow /\ new \in SubscriptionRow
      BY <1>8, RowOfTable
  <2> QED BY <2>1 DEF SubscriptionRow
<1>9. CASE k[1] = "shift"
  <2>1. r \in ShiftRow /\ new \in ShiftRow
      BY <1>9, RowOfTable
  <2> QED BY <2>1 DEF ShiftRow, Booking
<1>10. CASE k[1] = "punch"
  <2>1. r \in PunchRow /\ new \in PunchRow
      BY <1>10, RowOfTable
  <2> QED BY <2>1 DEF PunchRow
<1>11. CASE k[1] = "appointment"
  <2>1. r \in AppointmentRow /\ new \in AppointmentRow
      BY <1>11, RowOfTable
  <2> QED BY <2>1 DEF AppointmentRow, Booking
<1>12. CASE k[1] = "service"
  <2>1. r \in ServiceRow /\ new \in ServiceRow
      BY <1>12, RowOfTable
  <2> QED BY <2>1 DEF ServiceRow
<1>13. CASE k[1] = "material"
  <2>1. r \in MaterialRow(k[3]) /\ new \in MaterialRow(k[3])
      BY <1>13, RowOfTable
  <2> QED BY <2>1 DEF MaterialRow
<1>14. CASE k[1] = "order"
  <2>1. r \in OrderRow /\ new \in OrderRow
      BY <1>14, RowOfTable
  <2> QED BY <2>1 DEF OrderRow
<1>15. CASE k[1] = "promotion"
  <2>1. r \in PromotionRow /\ new \in PromotionRow
      BY <1>15, RowOfTable
  <2> QED BY <2>1 DEF PromotionRow
<1>16. CASE k[1] = "loyalty"
  <2>1. r \in LoyaltyRow /\ new \in LoyaltyRow
      BY <1>16, RowOfTable
  <2> QED BY <2>1 DEF LoyaltyRow
<1>17. CASE k[1] = "points"
  <2>1. r \in PointsRow /\ new \in PointsRow
      BY <1>17, RowOfTable
  <2> QED BY <2>1 DEF PointsRow
<1>18. CASE k[1] = "document"
  <2>1. r \in DocumentRow /\ new \in DocumentRow
      BY <1>18, RowOfTable
  <2> QED BY <2>1 DEF DocumentRow
<1>19. CASE k[1] = "alert"
  <2>1. r \in AlertRow(k[2][2]) /\ new \in AlertRow(k[2][2])
      BY <1>19, RowOfTable
  <2> QED BY <2>1 DEF AlertRow
<1>20. CASE k[1] = "stock"
  <2>1. r \in [low : BOOLEAN] /\ new \in [low : BOOLEAN]
      BY <1>20, RowOfTable
  <2> QED BY <2>1
<1> QED BY <1>0, <1>1, <1>2, <1>3, <1>4, <1>5, <1>6, <1>7, <1>8, <1>9, <1>10, <1>11, <1>12, <1>13,
             <1>14, <1>15, <1>16, <1>17, <1>18, <1>19, <1>20 DEF Tables

--------------------
(* What the stages of a request do                                          *)

LEMMA UnreadIs == Unread = [k \in {} |-> Unread[k]] /\ DOMAIN Unread = {}
PROOF BY DEF Unread

LEMMA EnterFrame ==
    ASSUME Frame, RivalsInv, NEW t \in Txns, NEW context, Enter(t, context)
    PROVE  Frame' /\ RivalsInv'
PROOF
<1>1. RequestsTypeOK({"loaded"})'
    BY RequestStepType, "working" \in {"working"} \cup {"loaded"} DEF Frame, Enter
<1>2. pc' = [pc EXCEPT ![t] = "working"] /\ pc \in [Txns -> {"unsent", "idle", "lookup", "working", "done"} \cup {"loaded"}]
    BY DEF Enter, Goto, Frame, RequestsTypeOK
<1>3. held' = [held EXCEPT ![t] = [k \in context \cap Keys |-> stored[k]]] /\ UNCHANGED <<stored, found, rivals>> /\ pc[t] = "idle"
    BY DEF Enter
<1>4. Frame'
    BY <1>1, <1>2, <1>3 DEF Frame
<1>5. RivalsInv'
    BY <1>2, <1>3 DEF RivalsInv
<1> QED BY <1>4, <1>5

LEMMA WaitFrame ==
    ASSUME Frame, RivalsInv, NEW t \in Txns, NEW locks, Wait(t, locks)
    PROVE  Frame' /\ RivalsInv'
PROOF
<1>1. RequestsTypeOK({"loaded"})'
  <2>1. \E l : Ask(t, l)
      BY DEF Wait
  <2> QED BY <2>1, RequestStepType DEF Frame, Wait
<1>2. UNCHANGED <<pc, stored, held, found, rivals>>
    BY DEF Wait, records
<1> QED BY <1>1, <1>2 DEF Frame, RivalsInv

LEMMA LoadFrame ==
    ASSUME Frame, RivalsInv, NEW t \in Txns, NEW locks, Load(t, locks)
    PROVE  Frame' /\ RivalsInv' /\ \A u, w \in Txns : w \in rivals[u] => w \in rivals'[u]
PROOF
<1>1. RequestsTypeOK({"loaded"})'
  <2>1. UNCHANGED queue \/ \E l : Ask(t, l)
      BY DEF Load
  <2>2. Goto(t, "loaded") /\ UNCHANGED answer
      BY DEF Load
  <2> QED BY <2>1, <2>2, RequestStepType DEF Frame
<1>2. /\ pc' = [pc EXCEPT ![t] = "loaded"] /\ pc[t] = "working"
      /\ pc \in [Txns -> {"unsent", "idle", "lookup", "working", "done"} \cup {"loaded"}]
    BY DEF Load, At, Goto, Frame, RequestsTypeOK
<1>3. found' = [found EXCEPT ![t] = stored] /\ UNCHANGED <<stored, held>>
    BY DEF Load
<1>4. Frame'
    BY <1>1, <1>2, <1>3 DEF Frame
<1>5. /\ \A u \in Txns : rivals'[u] = IF u = t THEN Undecided
                                     ELSE IF u \in Undecided THEN rivals[u] \cup {t} ELSE rivals[u]
      /\ DOMAIN rivals' = Txns /\ rivals' = [u \in Txns |-> rivals'[u]]
    BY DEF Load
<1>6. t \notin Undecided /\ Undecided \subseteq Txns /\ \A u \in Txns : u \in Undecided <=> pc[u] = "loaded"
    BY <1>2 DEF Undecided
<1>7. rivals' \in [Txns -> SUBSET Txns]
    BY <1>5, <1>6 DEF RivalsInv
<1>8. rivals[t] = {} /\ \A u \in Txns : t \notin rivals[u]
    BY <1>2 DEF RivalsInv
<1>9. ASSUME NEW u \in Txns, NEW w \in Txns
      PROVE  /\ w \in rivals'[u] => u \in rivals'[w]
             /\ u # w /\ pc'[u] = "loaded" /\ pc'[w] = "loaded" => w \in rivals'[u]
             /\ pc'[u] \in {"loaded", "done"} \/ rivals'[u] = {}
  <2>0. /\ rivals'[u] = IF u = t THEN Undecided
                        ELSE IF u \in Undecided THEN rivals[u] \cup {t} ELSE rivals[u]
        /\ rivals'[w] = IF w = t THEN Undecided
                        ELSE IF w \in Undecided THEN rivals[w] \cup {t} ELSE rivals[w]
      BY <1>5
  <2>1. /\ u \in Undecided <=> pc[u] = "loaded"
        /\ w \in Undecided <=> pc[w] = "loaded"
        /\ t \notin Undecided
      BY <1>6
  <2>2. /\ pc'[u] = IF u = t THEN "loaded" ELSE pc[u]
        /\ pc'[w] = IF w = t THEN "loaded" ELSE pc[w]
      BY <1>2
  <2>3. /\ w \in rivals[u] <=> u \in rivals[w]
        /\ u # w /\ pc[u] = "loaded" /\ pc[w] = "loaded" => w \in rivals[u]
        /\ pc[u] \in {"loaded", "done"} \/ rivals[u] = {}
      BY DEF RivalsInv
  <2>4. t \notin rivals[u] /\ t \notin rivals[w]
      BY <1>8
  <2> QED BY <2>0, <2>1, <2>2, <2>3, <2>4
<1>10. \A u, w \in Txns : w \in rivals[u] => w \in rivals'[u]
    BY <1>5, <1>8
<1> QED BY <1>4, <1>7, <1>9, <1>10 DEF RivalsInv

LEMMA CloseFrame ==
    ASSUME Frame, RivalsInv, NEW t \in Txns, NEW what \in {"created", "refused"}, Close(t, what),
           stored' = [k \in Keys |-> stored'[k]]
    PROVE  /\ Frame' /\ RivalsInv' /\ rivals' = rivals
           /\ pc' = [pc EXCEPT ![t] = "done"] /\ answer' = [answer EXCEPT ![t] = what]
           /\ \A u \in Txns : u # t => held'[u] = held[u] /\ found'[u] = found[u]
           /\ held'[t] = Unread
PROOF
<1>1. RequestsTypeOK({"loaded"})'
    BY RequestStepType DEF Close, Frame
<1>2. /\ pc' = [pc EXCEPT ![t] = "done"] /\ answer' = [answer EXCEPT ![t] = what]
      /\ pc \in [Txns -> {"unsent", "idle", "lookup", "working", "done"} \cup {"loaded"}]
    BY DEF Close, End, Goto, Frame, RequestsTypeOK
<1>3. /\ held' = [held EXCEPT ![t] = Unread] /\ found' = [found EXCEPT ![t] = Unread]
      /\ rivals' = rivals
    BY DEF Close
<1>4. Frame'
    BY <1>1, <1>2, <1>3, UnreadIs DEF Frame
<1>5. RivalsInv'
    BY <1>2, <1>3 DEF RivalsInv
<1> QED BY <1>2, <1>3, <1>4, <1>5 DEF Frame

\* Columns that last are columns, of rows that are never deleted.
LEMMA LastingColumns ==
    ASSUME NEW k \in Keys, NEW r \in DeskRow(k), NEW c \in Lasting(k[1])
    PROVE  c \in DOMAIN r /\ k[1] \notin Deletable
PROOF
<1>1. CASE k[1] = "session"
  <2>1. r \in SessionRow /\ k[1] \notin Deletable
      BY <1>1, RowOfTable DEF Deletable
  <2>2. c \in {"user"}
      BY <1>1 DEF Lasting
  <2>3. DOMAIN r = DOMAIN [user |-> 0, token |-> 0, revoked |-> 0]
      BY <2>1 DEF SessionRow
  <2> QED BY <2>1, <2>2, <2>3
<1>2. CASE k[1] = "branch"
  <2>1. r \in BranchRow /\ k[1] \notin Deletable
      BY <1>2, RowOfTable DEF Deletable
  <2>2. c \in {"tenant"}
      BY <1>2 DEF Lasting
  <2>3. DOMAIN r = DOMAIN [tenant |-> 0, main |-> 0, active |-> 0]
      BY <2>1 DEF BranchRow
  <2> QED BY <2>1, <2>2, <2>3
<1>3. CASE k[1] = "order"
  <2>1. r \in OrderRow /\ k[1] \notin Deletable
      BY <1>3, RowOfTable DEF Deletable
  <2>2. c \in {"ordered"}
      BY <1>3 DEF Lasting
  <2>3. DOMAIN r = DOMAIN [status |-> 0, ordered |-> 0, received |-> 0]
      BY <2>1 DEF OrderRow
  <2> QED BY <2>1, <2>2, <2>3
<1>4. CASE k[1] = "appointment"
  <2>1. r \in AppointmentRow /\ k[1] \notin Deletable
      BY <1>4, RowOfTable DEF Deletable
  <2>2. c \in {"staff", "from", "to"}
      BY <1>4 DEF Lasting
  <2>3. DOMAIN r = DOMAIN [staff |-> 0, from |-> 0, to |-> 0, status |-> 0]
      BY <2>1 DEF AppointmentRow, Booking
  <2> QED BY <2>1, <2>2, <2>3
<1>5. CASE k[1] = "punch"
  <2>1. r \in PunchRow /\ k[1] \notin Deletable
      BY <1>5, RowOfTable DEF Deletable
  <2>2. c \in {"staff", "kind", "at"}
      BY <1>5 DEF Lasting
  <2>3. DOMAIN r = DOMAIN [staff |-> 0, kind |-> 0, at |-> 0]
      BY <2>1 DEF PunchRow
  <2> QED BY <2>1, <2>2, <2>3
<1>6. CASE k[1] = "points"
  <2>1. r \in PointsRow /\ k[1] \notin Deletable
      BY <1>6, RowOfTable DEF Deletable
  <2>2. c \in {"customer", "points"}
      BY <1>6 DEF Lasting
  <2>3. DOMAIN r = DOMAIN [customer |-> 0, points |-> 0]
      BY <2>1 DEF PointsRow
  <2> QED BY <2>1, <2>2, <2>3
<1>7. CASE k[1] \notin {"session", "branch", "order", "appointment", "punch", "points"}
    BY <1>7 DEF Lasting
<1> QED BY <1>1, <1>2, <1>3, <1>4, <1>5, <1>6, <1>7

\* What a handler may write: a row of a table that knows deletion away, and else
\* columns of a row that was found, none of them one that lasts, or a new row.
Sound(t, writes) ==
    \A k \in DOMAIN writes \cap Keys :
        \/ writes[k] = Absent /\ k[1] \in Deletable
        \/ /\ \E new \in DeskRow(k) :
                 Part(writes[k], new) /\ (writes[k] = new \/ Present(found[t][k]))
           /\ Present(found[t][k]) => DOMAIN writes[k] \cap Lasting(k[1]) = {}
           /\ Present(found[t][k]) \/ (k[1] \in Numbered => k[2] = t)

\* What the commit of such writes does to row k.
LEMMA SavedRow ==
    ASSUME DeskInv, NEW t \in Txns, pc[t] = "loaded", NEW writes, Sound(t, writes),
           Fits(t, writes), NEW k \in Keys,
           NEW new, new = IF k \notin DOMAIN writes THEN stored[k]
                          ELSE IF Present(stored[k]) /\ Present(writes[k]) THEN writes[k] @@ stored[k]
                          ELSE writes[k]
    PROVE  /\ new = Absent \/ new \in DeskRow(k)
           /\ k[1] \notin Deletable /\ Present(stored[k]) => Present(new)
           /\ k \in DOMAIN writes /\ k[1] \notin Deletable =>
                 /\ Present(writes[k]) /\ (Present(found[t][k]) <=> Present(stored[k]))
                 /\ new = IF Present(stored[k]) THEN writes[k] @@ stored[k] ELSE writes[k]
                 /\ Present(new)
           /\ Present(stored[k]) => \A c \in Lasting(k[1]) : new[c] = stored[k][c]
           /\ ~Present(stored[k]) /\ Present(new) /\ k[1] \in Numbered => k[2] = t
PROOF
<1> USE DEF Present
<1>0. \A c \in Lasting(k[1]) : Present(stored[k]) => c \in DOMAIN stored[k] /\ k[1] \notin Deletable
    BY LastingColumns DEF DeskInv, RowsTyped, RowTyped
<1>1. CASE k \notin DOMAIN writes
    BY <1>1 DEF DeskInv, RowsTyped, RowTyped
<1>2. CASE k \in DOMAIN writes /\ writes[k] = Absent /\ k[1] \in Deletable
    BY <1>0, <1>2
<1>3. ASSUME k \in DOMAIN writes, NEW row \in DeskRow(k), Part(writes[k], row),
             writes[k] = row \/ Present(found[t][k])
      PROVE  /\ new \in DeskRow(k) /\ Present(writes[k])
             /\ k[1] \notin Deletable => (Present(found[t][k]) <=> Present(stored[k]))
             /\ new = IF Present(stored[k]) THEN writes[k] @@ stored[k] ELSE writes[k]
  <2>1. Present(writes[k])
    <3>1. "none" \notin DOMAIN writes[k]
        BY <1>3, SameColumns DEF Part
    <3> QED BY <3>1 DEF Absent
  <2>2. \/ Present(found[t][k]) <=> Present(stored[k])
        \/ Present(found[t][k]) /\ DOMAIN writes[k] = DOMAIN found[t][k]
      BY <1>3, <2>1 DEF Fits
  <2>3. Present(found[t][k]) => found[t][k] \in DeskRow(k)
      BY DEF DeskInv, RowsTyped, RowTyped
  <2>4. Present(stored[k]) => stored[k] \in DeskRow(k)
      BY DEF DeskInv, RowsTyped, RowTyped
  <2>5. CASE Present(stored[k])
    <3>1. new = writes[k] @@ stored[k]
        BY <1>3, <2>1, <2>5
    <3>2. new \in DeskRow(k)
        BY <1>3, <2>4, <2>5, <3>1, MergedIsTyped
    <3>3. k[1] \notin Deletable => (Present(found[t][k]) <=> Present(stored[k]))
        BY <2>2, <2>5
    <3> QED BY <2>1, <2>5, <3>1, <3>2, <3>3
  <2>6. CASE ~Present(stored[k])
    <3>1. writes[k] = row
      <4>1. CASE Present(found[t][k])
        <5>1. DOMAIN writes[k] = DOMAIN row
            BY <1>3, <2>2, <2>3, <2>6, <4>1, SameColumns
        <5>2. row = [c \in DOMAIN row |-> row[c]]
            BY RowIsPresent, <1>3
        <5> QED BY <1>3, <5>1, <5>2 DEF Part
      <4> QED BY <1>3, <4>1
    <3>2. k[1] \notin Deletable => ~Present(found[t][k])
        BY <2>6 DEF DeskInv, KeptInv
    <3> QED BY <1>3, <2>1, <2>6, <3>1, <3>2
  <2> QED BY <2>5, <2>6
<1>4. CASE k \in DOMAIN writes /\ ~(writes[k] = Absent /\ k[1] \in Deletable)
  <2>1. PICK row \in DeskRow(k) : Part(writes[k], row) /\ (writes[k] = row \/ Present(found[t][k]))
      BY <1>4 DEF Sound
  <2>2. /\ new \in DeskRow(k) /\ Present(writes[k])
        /\ k[1] \notin Deletable => (Present(found[t][k]) <=> Present(stored[k]))
        /\ new = IF Present(stored[k]) THEN writes[k] @@ stored[k] ELSE writes[k]
      BY <1>3, <1>4, <2>1
  <2>3. Present(new)
      BY <2>2, RowIsPresent
  <2>4. Present(found[t][k]) => DOMAIN writes[k] \cap Lasting(k[1]) = {}
      BY <1>4 DEF Sound
  <2>5. ASSUME Present(stored[k]), NEW c \in Lasting(k[1]) PROVE new[c] = stored[k][c]
    <3>1. c \in DOMAIN stored[k] /\ k[1] \notin Deletable
        BY <1>0, <2>5
    <3>2. c \notin DOMAIN writes[k] /\ new = writes[k] @@ stored[k]
        BY <2>2, <2>4, <2>5, <3>1
    <3> QED BY <3>1, <3>2 DEF @@
  <2>6. ~Present(stored[k]) /\ k[1] \in Numbered => k[2] = t
    <3>1. k[1] \in Numbered => k[1] \notin Deletable
        BY DEF Numbered, Deletable
    <3>2. Present(found[t][k]) \/ (k[1] \in Numbered => k[2] = t)
        BY <1>4 DEF Sound
    <3> QED BY <2>2, <3>1, <3>2
  <2> QED BY <1>4, <2>2, <2>3, <2>5, <2>6
<1> QED BY <1>1, <1>2, <1>4

--------------------
(* What the handlers write                                                  *)

OnlyTo(writes, tables) == \A k \in DOMAIN writes : k[1] \in tables

Handled(t, tables) ==
    Fail(t) \/ \E writes : Save(t, writes) /\ Sound(t, writes) /\ OnlyTo(writes, tables)

LEMMA DirtyIsPart ==
    ASSUME NEW was, NEW new, new = [c \in DOMAIN new |-> new[c]]
    PROVE  Part(Dirty(was, new), new)
PROOF BY DEF Part, Dirty

LEMMA UpdateSound ==
    ASSUME NEW t, NEW k \in Keys, NEW new \in DeskRow(k), Present(found[t][k]),
           \A c \in Lasting(k[1]) : new[c] = Object(t, k)[c]
    PROVE  Sound(t, Update(t, k, new)) /\ DOMAIN Update(t, k, new) = {k}
PROOF
<1>1. Part(Dirty(Object(t, k), new), new)
    BY DirtyIsPart, RowIsPresent
<1>2. DOMAIN Update(t, k, new) = {k} /\ Update(t, k, new)[k] = Dirty(Object(t, k), new)
    BY DEF Update, :>
<1>3. DOMAIN Dirty(Object(t, k), new) \cap Lasting(k[1]) = {}
    BY DEF Dirty
<1> QED BY <1>1, <1>2, <1>3 DEF Sound

LEMMA InsertSound ==
    ASSUME NEW t, NEW k, NEW new,
           k \in Keys => /\ new \in DeskRow(k)
                         /\ Lasting(k[1]) = {} \/ ~Present(found[t][k])
                         /\ k[1] \in Numbered => k[2] = t
    PROVE  Sound(t, k :> new) /\ DOMAIN (k :> new) = {k}
PROOF
<1>1. DOMAIN (k :> new) = {k} /\ (k :> new)[k] = new
    BY DEF :>
<1>2. k \in Keys => Part(new, new)
    BY RowIsPresent DEF Part
<1> QED BY <1>1, <1>2 DEF Sound

LEMMA BothSound ==
    ASSUME NEW t, NEW f, NEW g, Sound(t, f), Sound(t, g)
    PROVE  Sound(t, f @@ g) /\ DOMAIN (f @@ g) = DOMAIN f \cup DOMAIN g
PROOF
<1>1. DOMAIN (f @@ g) = DOMAIN f \cup DOMAIN g
    BY DEF @@
<1>2. \A k \in DOMAIN f : (f @@ g)[k] = f[k]
    BY DEF @@
<1>3. \A k \in DOMAIN g \ DOMAIN f : (f @@ g)[k] = g[k]
    BY DEF @@
<1> QED BY <1>1, <1>2, <1>3 DEF Sound

LEMMA NothingSound == ASSUME NEW t PROVE Sound(t, Nothing) /\ DOMAIN Nothing = {}
PROOF BY DEF Sound, Nothing

\* An object of the request's session is typed, and what was there is found.
LEMMA ObjectTyped ==
    ASSUME DeskInv, NEW t \in Txns, pc[t] = "loaded", NEW k \in Keys
    PROVE  /\ Present(Object(t, k)) => Object(t, k) \in DeskRow(k)
           /\ Present(found[t][k]) => found[t][k] \in DeskRow(k)
           /\ k[1] \notin Deletable /\ Present(Object(t, k)) => Present(found[t][k])
           /\ k \in DOMAIN held[t] => Object(t, k) = held[t][k]
           /\ k \notin DOMAIN held[t] => Object(t, k) = found[t][k]
PROOF BY DEF DeskInv, RowsTyped, RowTyped, Present, KeptInv, Object

LEMMA NamesOfKeys ==
    ASSUME NEW x
    PROVE  /\ Tenant(x) \in Keys <=> x \in Tenants
           /\ User(x) \in Keys <=> x \in Users
           /\ Branch(x) \in Keys <=> x \in BranchIds
PROOF
<1>1. \A k \in Keys : /\ k = Tenant(k[2]) <=> k \in KeysOf["tenant"]
                      /\ k = User(k[2]) <=> k \in KeysOf["user"]
                      /\ k = Branch(k[2]) <=> k \in KeysOf["branch"]
    BY KeysTold DEF Tables
<1>2. Tenant(x)[2] = x /\ User(x)[2] = x /\ Branch(x)[2] = x
    BY DEF Tenant, User, Branch
<1>3. \A T \in Tables : KeysOf[T] \subseteq Keys
    BY DEF KeysOf
<1> QED BY <1>1, <1>2, <1>3 DEF Tenants, Users, BranchIds, Tables

\* the tables of the keys, and the rows they have
LEMMA KeyTables ==
    /\ \A x : Tenant(x)[1] = "tenant" /\ Tenant(x)[2] = x /\ DeskRow(Tenant(x)) = TenantRow
    /\ \A x : User(x)[1] = "user" /\ User(x)[2] = x /\ DeskRow(User(x)) = UserRow
    /\ \A x : Branch(x)[1] = "branch" /\ Branch(x)[2] = x /\ DeskRow(Branch(x)) = BranchRow
    /\ \A x : Session(x)[1] = "session" /\ Session(x)[2] = x /\ DeskRow(Session(x)) = SessionRow
    /\ \A x : Device(x)[1] = "device" /\ Device(x)[2] = x /\ DeskRow(Device(x)) = DeviceRow
    /\ \A x : Subscription(x)[1] = "subscription" /\ Subscription(x)[2] = x /\ DeskRow(Subscription(x)) = SubscriptionRow
    /\ \A x : Shift(x)[1] = "shift" /\ Shift(x)[2] = x /\ DeskRow(Shift(x)) = ShiftRow
    /\ \A x : Punch(x)[1] = "punch" /\ Punch(x)[2] = x /\ DeskRow(Punch(x)) = PunchRow
    /\ \A x : Appointment(x)[1] = "appointment" /\ Appointment(x)[2] = x /\ DeskRow(Appointment(x)) = AppointmentRow
    /\ \A x : Service(x)[1] = "service" /\ Service(x)[2] = x /\ DeskRow(Service(x)) = ServiceRow
    /\ \A x : Order(x)[1] = "order" /\ Order(x)[2] = x /\ DeskRow(Order(x)) = OrderRow
    /\ \A x : Promotion(x)[1] = "promotion" /\ Promotion(x)[2] = x /\ DeskRow(Promotion(x)) = PromotionRow
    /\ \A x : Loyalty(x)[1] = "loyalty" /\ Loyalty(x)[2] = x /\ DeskRow(Loyalty(x)) = LoyaltyRow
    /\ \A x : Points(x)[1] = "points" /\ Points(x)[2] = x /\ DeskRow(Points(x)) = PointsRow
    /\ \A x : Document(x)[1] = "document" /\ Document(x)[2] = x /\ DeskRow(Document(x)) = DocumentRow
    /\ \A x : Alert(x)[1] = "alert" /\ Alert(x)[2] = x /\ DeskRow(Alert(x)) = AlertRow(x[2])
    /\ \A x, y : Member(x, y)[1] = "member" /\ DeskRow(Member(x, y)) = MemberRow
    /\ \A x, y : Material(x, y)[1] = "material" /\ DeskRow(Material(x, y)) = MaterialRow(y)
    /\ \A x, y, z : Granted(x, y, z)[1] = "access" /\ DeskRow(Granted(x, y, z)) = {Assigned}
PROOF
<1>1. \A x : Tenant(x)[1] = "tenant" /\ Tenant(x)[2] = x
    BY DEF Tenant
<1>2. \A x : User(x)[1] = "user" /\ User(x)[2] = x
    BY DEF User
<1>3. \A x : Branch(x)[1] = "branch" /\ Branch(x)[2] = x
    BY DEF Branch
<1>4. \A x : Session(x)[1] = "session" /\ Session(x)[2] = x
    BY DEF Session
<1>5. \A x : Device(x)[1] = "device" /\ Device(x)[2] = x
    BY DEF Device
<1>6. \A x : Subscription(x)[1] = "subscription" /\ Subscription(x)[2] = x
    BY DEF Subscription
<1>7. \A x : Shift(x)[1] = "shift" /\ Shift(x)[2] = x
    BY DEF Shift
<1>8. \A x : Punch(x)[1] = "punch" /\ Punch(x)[2] = x
    BY DEF Punch
<1>9. \A x : Appointment(x)[1] = "appointment" /\ Appointment(x)[2] = x
    BY DEF Appointment
<1>10. \A x : Service(x)[1] = "service" /\ Service(x)[2] = x
    BY DEF Service
<1>11. \A x : Order(x)[1] = "order" /\ Order(x)[2] = x
    BY DEF Order
<1>12. \A x : Promotion(x)[1] = "promotion" /\ Promotion(x)[2] = x
    BY DEF Promotion
<1>13. \A x : Loyalty(x)[1] = "loyalty" /\ Loyalty(x)[2] = x
    BY DEF Loyalty
<1>14. \A x : Points(x)[1] = "points" /\ Points(x)[2] = x
    BY DEF Points
<1>15. \A x : Document(x)[1] = "document" /\ Document(x)[2] = x
    BY DEF Document
<1>16. \A x : Alert(x)[1] = "alert" /\ Alert(x)[2] = x
    BY DEF Alert
<1>17. \A x, y : Member(x, y)[1] = "member"
    BY DEF Member
<1>18. \A x, y : Material(x, y)[1] = "material" /\ Material(x, y)[3] = y
    BY DEF Material
<1>19. \A x, y, z : Granted(x, y, z)[1] = "access"
    BY DEF Granted
<1>20. \A x : DeskRow(Alert(x)) = AlertRow(x[2])
    BY <1>16, RowOfTable
<1>21. \A x : DeskRow(Tenant(x)) = TenantRow
    BY <1>1, RowOfTable
<1>22. \A x : DeskRow(User(x)) = UserRow
    BY <1>2, RowOfTable
<1>23. \A x : DeskRow(Branch(x)) = BranchRow
    BY <1>3, RowOfTable
<1>24. \A x : DeskRow(Session(x)) = SessionRow
    BY <1>4, RowOfTable
<1>25. \A x : DeskRow(Device(x)) = DeviceRow
    BY <1>5, RowOfTable
<1>26. \A x : DeskRow(Subscription(x)) = SubscriptionRow
    BY <1>6, RowOfTable
<1>27. \A x : DeskRow(Shift(x)) = ShiftRow
    BY <1>7, RowOfTable
<1>28. \A x : DeskRow(Punch(x)) = PunchRow
    BY <1>8, RowOfTable
<1>29. \A x : DeskRow(Appointment(x)) = AppointmentRow
    BY <1>9, RowOfTable
<1>30. \A x : DeskRow(Service(x)) = ServiceRow
    BY <1>10, RowOfTable
<1>31. \A x : DeskRow(Order(x)) = OrderRow
    BY <1>11, RowOfTable
<1>32. \A x : DeskRow(Promotion(x)) = PromotionRow
    BY <1>12, RowOfTable
<1>33. \A x : DeskRow(Loyalty(x)) = LoyaltyRow
    BY <1>13, RowOfTable
<1>34. \A x : DeskRow(Points(x)) = PointsRow
    BY <1>14, RowOfTable
<1>35. \A x : DeskRow(Document(x)) = DocumentRow
    BY <1>15, RowOfTable
<1>36. /\ \A x, y : DeskRow(Member(x, y)) = MemberRow /\ DeskRow(Material(x, y)) = MaterialRow(y)
      /\ \A x, y, z : DeskRow(Granted(x, y, z)) = {Assigned}
    BY <1>17, <1>18, <1>19, RowOfTable
<1> QED BY <1>1, <1>2, <1>3, <1>4, <1>5, <1>6, <1>7, <1>8, <1>9, <1>10, <1>11, <1>12, <1>13, <1>14,
             <1>15, <1>16, <1>17, <1>18, <1>19, <1>20, <1>21, <1>22, <1>23, <1>24, <1>25, <1>26, <1>27,
             <1>28, <1>29, <1>30, <1>31, <1>32, <1>33, <1>34, <1>35, <1>36

\* The row that a request makes up a number for is not there.
LEMMA OwnNumberFree ==
    ASSUME DeskInv, NEW t \in Txns, pc[t] = "loaded", NEW k \in Keys, k[1] \in Numbered, k[2] = t
    PROVE  ~Present(found[t][k]) /\ ~Present(stored[k])
PROOF
<1>1. ~Present(stored[k])
    BY DEF DeskInv, LastingInv
<1>2. k[1] \notin Deletable
    BY DEF Deletable, Numbered
<1> QED BY <1>1, <1>2 DEF DeskInv, KeptInv

LEMMA BusinessSound ==
    ASSUME NEW t \in Txns, NEW approved \in BOOLEAN, Call[t].do \in {"signup", "bootstrap"},
           \A k \in DOMAIN Business(t, approved) : ~Present(found[t][k])
    PROVE  /\ Sound(t, Business(t, approved))
           /\ OnlyTo(Business(t, approved), {"tenant", "user", "branch", "member", "access"})
PROOF
<1> DEFINE c == Call[t]
           a == Tenant(c.tenant) :> [status |-> IF approved THEN "approved" ELSE "pending",
                                     active |-> approved, name |-> "first"]
           b == User(c.user) :> [platform |-> "none"]
           d == Branch(c.branch) :> [tenant |-> c.tenant, main |-> TRUE, active |-> approved]
           e == Member(c.tenant, c.user) :> [role |-> "owner", active |-> approved]
           f == Granted(c.tenant, c.user, c.branch) :> Assigned
<1>0. c.tenant \in Tenants
    BY DeskAssumption, NamesOfKeys DEF AccessArguments
<1>1. [status |-> IF approved THEN "approved" ELSE "pending", active |-> approved, name |-> "first"]
          \in DeskRow(Tenant(c.tenant))
    BY KeyTables DEF TenantRow, Names
<1>2. [platform |-> "none"] \in DeskRow(User(c.user))
    BY KeyTables DEF UserRow, PlatformRoles
<1>3. [tenant |-> c.tenant, main |-> TRUE, active |-> approved] \in DeskRow(Branch(c.branch))
    BY <1>0, KeyTables DEF BranchRow
<1>4. [role |-> "owner", active |-> approved] \in DeskRow(Member(c.tenant, c.user))
    BY KeyTables DEF MemberRow, Roles, RolePermissions
<1>5. Assigned \in DeskRow(Granted(c.tenant, c.user, c.branch))
    BY KeyTables
<1>6. /\ DOMAIN a = {Tenant(c.tenant)} /\ DOMAIN b = {User(c.user)} /\ DOMAIN d = {Branch(c.branch)}
      /\ DOMAIN e = {Member(c.tenant, c.user)} /\ DOMAIN f = {Granted(c.tenant, c.user, c.branch)}
    BY DEF :>
<1>7. Business(t, approved) = a @@ b @@ d @@ e @@ f
    BY DEF Business
<1> HIDE DEF c, a, b, d, e, f
<1>8. DOMAIN (a @@ b @@ d @@ e @@ f) = DOMAIN a \cup DOMAIN b \cup DOMAIN d \cup DOMAIN e \cup DOMAIN f
    BY DEF @@
<1>9. \A k \in {Tenant(c.tenant), User(c.user), Branch(c.branch), Member(c.tenant, c.user),
                Granted(c.tenant, c.user, c.branch)} :
         ~Present(found[t][k]) /\ k[1] \notin Numbered
    BY <1>6, <1>7, <1>8, KeyTables DEF Numbered
<1>10. Sound(t, a) /\ Sound(t, b) /\ Sound(t, d) /\ Sound(t, e) /\ Sound(t, f)
    BY <1>1, <1>2, <1>3, <1>4, <1>5, <1>9, InsertSound DEF a, b, d, e, f
<1>11. Sound(t, a @@ b @@ d @@ e @@ f)
    BY <1>10, BothSound
<1> QED BY <1>6, <1>7, <1>8, <1>11, KeyTables DEF OnlyTo

LEMMA UpdateHandled ==
    ASSUME NEW t, NEW k \in Keys, NEW new \in DeskRow(k), Present(found[t][k]),
           \A c \in Lasting(k[1]) : new[c] = Object(t, k)[c], Save(t, Update(t, k, new))
    PROVE  Handled(t, {k[1]})
PROOF
<1>1. Sound(t, Update(t, k, new)) /\ DOMAIN Update(t, k, new) = {k}
    BY UpdateSound
<1>2. OnlyTo(Update(t, k, new), {k[1]})
    BY <1>1 DEF OnlyTo
<1> QED BY <1>1, <1>2 DEF Handled

LEMMA InsertHandled ==
    ASSUME NEW t, NEW k, NEW new,
           k \in Keys => /\ new \in DeskRow(k)
                         /\ Lasting(k[1]) = {} \/ ~Present(found[t][k])
                         /\ k[1] \in Numbered => k[2] = t,
           Save(t, k :> new)
    PROVE  Handled(t, {k[1]})
PROOF
<1>1. Sound(t, k :> new) /\ DOMAIN (k :> new) = {k}
    BY InsertSound
<1>2. OnlyTo(k :> new, {k[1]})
    BY <1>1 DEF OnlyTo
<1> QED BY <1>1, <1>2 DEF Handled

LEMMA NothingHandled == ASSUME NEW t, NEW tables, Save(t, Nothing) PROVE Handled(t, tables)
PROOF BY NothingSound DEF Handled, OnlyTo

LEMMA BothHandled ==
    ASSUME NEW t, NEW f, NEW g, Sound(t, f), Sound(t, g), NEW tables,
           OnlyTo(f, tables), OnlyTo(g, tables)
    PROVE  Save(t, f @@ g) => Handled(t, tables)
PROOF
<1>1. DOMAIN (f @@ g) = DOMAIN f \cup DOMAIN g
    BY DEF @@
<1>2. OnlyTo(f @@ g, tables)
    BY <1>1 DEF OnlyTo
<1>3. Sound(t, f @@ g)
    BY BothSound
<1> QED BY <1>2, <1>3 DEF Handled

\* the tables none of whose columns last
LEMMA NoneLasts ==
    /\ \A T : T \notin {"session", "branch", "order", "appointment", "punch", "points"} => Lasting(T) = {}
    /\ Lasting("session") = {"user"} /\ Lasting("branch") = {"tenant"} /\ Lasting("order") = {"ordered"}
    /\ Lasting("appointment") = {"staff", "from", "to"}
    /\ \A x : Session(x)[1] \in Numbered
PROOF BY KeyTables DEF Lasting, Numbered

LEMMA HandlesLoaded == ASSUME NEW t, NEW do, Handles(t, do) PROVE pc[t] = "loaded" /\ Call[t].do = do
PROOF BY DEF Handles, At

LEMMA NewSessionSound ==
    ASSUME DeskInv, NEW t \in Txns, pc[t] = "loaded", NEW u \in Users
    PROVE  Sound(t, NewSession(t, u)) /\ OnlyTo(NewSession(t, u), {"session"})
PROOF
<1>1. [user |-> u, token |-> t, revoked |-> FALSE] \in DeskRow(Session(t))
    BY KeyTables DEF SessionRow
<1>2. Session(t) \in Keys => ~Present(found[t][Session(t)])
    BY OwnNumberFree, KeyTables, NoneLasts
<1>3. Session(t)[1] = "session" /\ Session(t)[2] = t
    BY KeyTables
<1>4. Sound(t, NewSession(t, u)) /\ DOMAIN NewSession(t, u) = {Session(t)}
    BY <1>1, <1>2, <1>3, InsertSound DEF NewSession
<1> QED BY <1>3, <1>4 DEF OnlyTo

LEMMA SignUpHandled ==
    ASSUME DeskInv, NEW t \in Txns, SignUp(t)
    PROVE  Handled(t, {"tenant", "user", "branch", "member", "access"})
PROOF
<1>1. Call[t].do \in {"signup", "bootstrap"}
    BY HandlesLoaded DEF SignUp
<1>2. CASE \E k \in DOMAIN Business(t, FALSE) : Present(found[t][k])
    BY <1>2 DEF SignUp, Create, Handled
<1>3. CASE \A k \in DOMAIN Business(t, FALSE) : ~Present(found[t][k])
    BY <1>1, <1>3, BusinessSound DEF SignUp, Create, Handled
<1> QED BY <1>2, <1>3

LEMMA BootstrapHandled ==
    ASSUME DeskInv, NEW t \in Txns, Bootstrap(t)
    PROVE  Handled(t, {"tenant", "user", "branch", "member", "access", "session"})
PROOF
<1> DEFINE a == Business(t, TRUE)
           b == NewSession(t, Call[t].user)
<1>1. Call[t].do \in {"signup", "bootstrap"} /\ pc[t] = "loaded"
    BY HandlesLoaded DEF Bootstrap
<1>2. Call[t].user \in Users
    BY <1>1, DeskAssumption, NamesOfKeys DEF AccessArguments
<1>3. Fail(t) \/ (Save(t, a @@ b) /\ \A k \in DOMAIN (a @@ b) : ~Present(found[t][k]))
    BY DEF Bootstrap, Create
<1>4. DOMAIN (a @@ b) = DOMAIN a \cup DOMAIN b
    BY DEF @@
<1>5. Sound(t, b) /\ OnlyTo(b, {"session"})
    BY <1>1, <1>2, NewSessionSound
<1>6. CASE Save(t, a @@ b) /\ \A k \in DOMAIN (a @@ b) : ~Present(found[t][k])
  <2>1. Sound(t, a) /\ OnlyTo(a, {"tenant", "user", "branch", "member", "access"})
      BY <1>1, <1>4, <1>6, BusinessSound
  <2>2. /\ OnlyTo(a, {"tenant", "user", "branch", "member", "access", "session"})
        /\ OnlyTo(b, {"tenant", "user", "branch", "member", "access", "session"})
      BY <1>5, <2>1 DEF OnlyTo
  <2> QED BY <1>5, <1>6, <2>1, <2>2, BothHandled
<1> QED BY <1>3, <1>6 DEF Handled

LEMMA LoginHandled ==
    ASSUME DeskInv, NEW t \in Txns, Login(t)
    PROVE  Handled(t, {"session"})
PROOF
<1>1. Call[t].do = "login" /\ pc[t] = "loaded"
    BY HandlesLoaded DEF Login
<1>2. Call[t].user \in Users
    BY <1>1, DeskAssumption, NamesOfKeys DEF AccessArguments
<1>3. Fail(t) \/ Save(t, NewSession(t, Call[t].user))
    BY DEF Login
<1> QED BY <1>1, <1>2, <1>3, NewSessionSound DEF Handled

LEMMA RefreshHandled ==
    ASSUME DeskInv, NEW t \in Txns, Refresh(t)
    PROVE  Handled(t, {"session"})
PROOF
<1> DEFINE k == Session(Call[t].session)
           new == [found[t][k] EXCEPT !.token = t]
<1>1. Call[t].do = "refresh" /\ pc[t] = "loaded"
    BY HandlesLoaded DEF Refresh
<1>2. k \in Keys /\ k[1] = "session" /\ DeskRow(k) = SessionRow
    BY <1>1, DeskAssumption, KeyTables DEF AccessArguments
<1>3. Object(t, k) = found[t][k]
    BY <1>1, <1>2 DEF DeskInv, HeldInv, Public, Object
<1>4. CASE Present(found[t][k]) /\ Save(t, Update(t, k, new))
  <2>1. found[t][k] \in SessionRow
      BY <1>1, <1>2, <1>4, ObjectTyped
  <2>2. new \in SessionRow /\ new.user = found[t][k].user
      BY <2>1 DEF SessionRow
  <2>3. \A c \in Lasting(k[1]) : new[c] = Object(t, k)[c]
      BY <1>2, <1>3, <2>2, NoneLasts
  <2> QED BY <1>2, <1>4, <2>2, <2>3, UpdateHandled
<1> QED BY <1>4 DEF Refresh, Handled

LEMMA LogoutHandled ==
    ASSUME DeskInv, NEW t \in Txns, Logout(t)
    PROVE  Handled(t, {"session"})
PROOF
<1> DEFINE k == Session(Call[t].session)
           new == [Object(t, k) EXCEPT !.revoked = TRUE]
<1>1. Call[t].do = "logout" /\ pc[t] = "loaded"
    BY HandlesLoaded DEF Logout
<1>2. k \in Keys /\ k[1] = "session" /\ DeskRow(k) = SessionRow
    BY <1>1, DeskAssumption, KeyTables DEF AccessArguments
<1>3. k \in DOMAIN held[t] /\ Present(held[t][k])
    BY <1>1 DEF DeskInv, HeldInv, Public
<1>4. Present(Object(t, k)) /\ Object(t, k) \in SessionRow /\ Present(found[t][k])
    BY <1>1, <1>2, <1>3, ObjectTyped DEF Deletable
<1>5. new \in SessionRow /\ new.user = Object(t, k).user
    BY <1>4 DEF SessionRow
<1>6. \A c \in Lasting(k[1]) : new[c] = Object(t, k)[c]
    BY <1>2, <1>5, NoneLasts
<1> QED BY <1>2, <1>4, <1>5, <1>6, UpdateHandled DEF Logout, Revoked

--------------------
(* The platform's decisions and a business's own settings                   *)

\* The business that the platform decides on is read with the decision.
LEMMA PlatformTenant ==
    ASSUME DeskInv, NEW t \in Txns, pc[t] = "loaded",
           Call[t].do \in {"approve", "reject", "suspend", "reactivate", "plan"}
    PROVE  /\ TenantOf(t) \in Keys /\ DeskRow(TenantOf(t)) = TenantRow /\ TenantOf(t)[1] = "tenant"
           /\ Loaded(t) = found[t][TenantOf(t)]
           /\ Present(Loaded(t)) => Loaded(t) \in TenantRow
           /\ Lasting(TenantOf(t)[1]) = {}
           /\ Call[t].tenant \in Tenants
PROOF
<1>1. TenantOf(t) \in Keys /\ DeskRow(TenantOf(t)) = TenantRow /\ TenantOf(t)[1] = "tenant"
    BY DeskAssumption, KeyTables DEF AccessArguments, TenantOf
<1>2. TenantOf(t) \notin DOMAIN held[t]
  <2>1. Call[t].do \in OfPlatform /\ Call[t].do \notin Public
      BY DEF OfPlatform, Public
  <2>2. DOMAIN held[t] \subseteq {Session(Call[t].session), User(held[t][Session(Call[t].session)].user)}
      BY <2>1 DEF DeskInv, HeldInv
  <2> QED BY <1>1, <2>2, KeyTables
<1>3. Lasting(TenantOf(t)[1]) = {}
    BY <1>1, NoneLasts
<1>4. Loaded(t) = found[t][TenantOf(t)]
    BY <1>2 DEF Loaded, Object
<1> QED BY <1>1, <1>3, <1>4, ObjectTyped, NamesOfKeys DEF TenantOf

\* the business's row as an administrator's request changes it
LEMMA TenantUpdate ==
    ASSUME DeskInv, NEW t \in Txns, pc[t] = "loaded",
           Call[t].do \in {"approve", "reject", "suspend", "reactivate", "plan"},
           Present(Loaded(t)), NEW new \in TenantRow
    PROVE  Sound(t, Update(t, TenantOf(t), new)) /\ OnlyTo(Update(t, TenantOf(t), new), {"tenant"})
PROOF
<1>1. /\ TenantOf(t) \in Keys /\ DeskRow(TenantOf(t)) = TenantRow /\ TenantOf(t)[1] = "tenant"
      /\ Present(found[t][TenantOf(t)]) /\ Lasting(TenantOf(t)[1]) = {}
    BY PlatformTenant
<1>2. Sound(t, Update(t, TenantOf(t), new)) /\ DOMAIN Update(t, TenantOf(t), new) = {TenantOf(t)}
    BY <1>1, UpdateSound
<1> QED BY <1>1, <1>2 DEF OnlyTo

LEMMA ActivateSound ==
    ASSUME DeskInv, NEW t \in Txns, pc[t] = "loaded"
    PROVE  Sound(t, ActivateChildren(t)) /\ OnlyTo(ActivateChildren(t), {"member", "branch"})
PROOF
<1> DEFINE D == OfTenant(t, "member") \cup OfTenant(t, "branch")
<1>1. DOMAIN ActivateChildren(t) = D
    BY DEF ActivateChildren
<1>2. \A k \in D : /\ k \in Keys /\ Present(found[t][k]) /\ k[1] \in {"member", "branch"}
                   /\ ActivateChildren(t)[k] = Dirty(found[t][k], [found[t][k] EXCEPT !.active = TRUE])
    BY DEF OfTenant, KeysOf, Tables, ActivateChildren
<1>3. ASSUME NEW k \in D
      PROVE  /\ \E new \in DeskRow(k) : Part(ActivateChildren(t)[k], new)
             /\ DOMAIN ActivateChildren(t)[k] \cap Lasting(k[1]) = {}
  <2> DEFINE new == [found[t][k] EXCEPT !.active = TRUE]
  <2>1. found[t][k] \in DeskRow(k)
      BY <1>2, ObjectTyped
  <2>3. new \in DeskRow(k) /\ (k[1] = "branch" => new.tenant = found[t][k].tenant)
    <3>1. CASE k[1] = "member"
      <4>1. DeskRow(k) = MemberRow
          BY <3>1, RowOfTable
      <4>3. found[t][k] \in MemberRow
          BY <2>1, <4>1
      <4>2. new \in MemberRow
          BY <4>3 DEF MemberRow
      <4> QED BY <3>1, <4>1, <4>2
    <3>2. CASE k[1] = "branch"
      <4>1. DeskRow(k) = BranchRow
          BY <3>2, RowOfTable
      <4>3. found[t][k] \in BranchRow
          BY <2>1, <4>1
      <4>2. new \in BranchRow /\ new.tenant = found[t][k].tenant
          BY <4>3 DEF BranchRow
      <4> QED BY <4>1, <4>2
    <3> QED BY <1>2, <3>1, <3>2
  <2>4. Part(Dirty(found[t][k], new), new)
      BY <2>3, RowIsPresent, DirtyIsPart, <1>2
  <2>5. DOMAIN Dirty(found[t][k], new) \cap Lasting(k[1]) = {}
      BY <1>2, <2>3, NoneLasts DEF Dirty
  <2> QED BY <1>2, <2>3, <2>4, <2>5
<1> HIDE DEF D
<1>4. Sound(t, ActivateChildren(t))
    BY <1>1, <1>2, <1>3 DEF Sound
<1> QED BY <1>1, <1>2, <1>4 DEF OnlyTo

LEMMA RevokeSound ==
    ASSUME DeskInv, NEW t \in Txns, pc[t] = "loaded"
    PROVE  Sound(t, RevokeTenantSessions(t)) /\ OnlyTo(RevokeTenantSessions(t), {"session"})
PROOF
<1> DEFINE D == {s \in LiveSessions(t) : found[t][s].user \in People(found[t], Call[t].tenant)}
<1>1. /\ DOMAIN RevokeTenantSessions(t) = D
      /\ \A k \in D : RevokeTenantSessions(t)[k] = [revoked |-> TRUE]
    BY DEF RevokeTenantSessions
<1>2. \A k \in D : k \in Keys /\ Present(found[t][k]) /\ k[1] = "session"
    BY DEF LiveSessions, KeysOf, Tables
<1>3. ASSUME NEW k \in D
      PROVE  /\ \E new \in DeskRow(k) : Part([revoked |-> TRUE], new)
             /\ DOMAIN [revoked |-> TRUE] \cap Lasting(k[1]) = {}
  <2> DEFINE new == [found[t][k] EXCEPT !.revoked = TRUE]
  <2>1. found[t][k] \in SessionRow /\ DeskRow(k) = SessionRow
      BY <1>2, ObjectTyped, RowOfTable
  <2>2. new \in SessionRow /\ new.revoked = TRUE
      BY <2>1 DEF SessionRow
  <2>3. DOMAIN new = {"user", "token", "revoked"}
      BY <2>2 DEF SessionRow
  <2>4. Part([revoked |-> TRUE], new)
    <3>1. "revoked" \in DOMAIN new /\ new["revoked"] = TRUE
        BY <2>2, <2>3
    <3>2. \A w \in [revoked : BOOLEAN] : w = [c \in DOMAIN w |-> w[c]]
        OBVIOUS
    <3>3. [revoked |-> TRUE] \in [revoked : BOOLEAN] /\ DOMAIN [revoked |-> TRUE] = {"revoked"}
        OBVIOUS
    <3> QED BY <3>1, <3>2, <3>3 DEF Part
  <2> QED BY <1>2, <2>1, <2>2, <2>4, NoneLasts
<1> HIDE DEF D
<1>4. Sound(t, RevokeTenantSessions(t))
    BY <1>1, <1>2, <1>3 DEF Sound
<1> QED BY <1>1, <1>2, <1>4 DEF OnlyTo

LEMMA ApproveHandled ==
    ASSUME DeskInv, NEW t \in Txns, Approve(t)
    PROVE  Handled(t, {"tenant", "member", "branch"})
PROOF
<1> DEFINE new == [Loaded(t) EXCEPT !.status = "approved", !.active = TRUE]
           f == Update(t, TenantOf(t), new)
<1>1. Call[t].do = "approve" /\ pc[t] = "loaded"
    BY HandlesLoaded DEF Approve
<1>2. CASE Present(Loaded(t)) /\ Save(t, f @@ ActivateChildren(t))
  <2>1. new \in TenantRow
      BY <1>1, <1>2, PlatformTenant DEF TenantRow
  <2>2. Sound(t, f) /\ OnlyTo(f, {"tenant"})
      BY <1>1, <1>2, <2>1, TenantUpdate
  <2>3. Sound(t, ActivateChildren(t)) /\ OnlyTo(ActivateChildren(t), {"member", "branch"})
      BY <1>1, ActivateSound
  <2>4. OnlyTo(f, {"tenant", "member", "branch"}) /\ OnlyTo(ActivateChildren(t), {"tenant", "member", "branch"})
      BY <2>2, <2>3 DEF OnlyTo
  <2> QED BY <1>2, <2>2, <2>3, <2>4, BothHandled
<1> QED BY <1>2, NothingHandled DEF Approve, Handled

LEMMA RejectHandled ==
    ASSUME DeskInv, NEW t \in Txns, Reject(t)
    PROVE  Handled(t, {"tenant", "session"})
PROOF
<1> DEFINE new == [Loaded(t) EXCEPT !.status = "rejected", !.active = FALSE]
           f == Update(t, TenantOf(t), new)
<1>1. Call[t].do = "reject" /\ pc[t] = "loaded"
    BY HandlesLoaded DEF Reject
<1>2. CASE Present(Loaded(t)) /\ Save(t, f @@ RevokeTenantSessions(t))
  <2>1. new \in TenantRow
      BY <1>1, <1>2, PlatformTenant DEF TenantRow
  <2>2. Sound(t, f) /\ OnlyTo(f, {"tenant"})
      BY <1>1, <1>2, <2>1, TenantUpdate
  <2>3. Sound(t, RevokeTenantSessions(t)) /\ OnlyTo(RevokeTenantSessions(t), {"session"})
      BY <1>1, RevokeSound
  <2>4. OnlyTo(f, {"tenant", "session"}) /\ OnlyTo(RevokeTenantSessions(t), {"tenant", "session"})
      BY <2>2, <2>3 DEF OnlyTo
  <2> QED BY <1>2, <2>2, <2>3, <2>4, BothHandled
<1> QED BY <1>2 DEF Reject, Handled

LEMMA SuspendHandled ==
    ASSUME DeskInv, NEW t \in Txns, Suspend(t)
    PROVE  Handled(t, {"tenant", "session"})
PROOF
<1> DEFINE new == [Loaded(t) EXCEPT !.active = FALSE]
           f == Update(t, TenantOf(t), new)
<1>1. Call[t].do = "suspend" /\ pc[t] = "loaded"
    BY HandlesLoaded DEF Suspend
<1>2. CASE Present(Loaded(t)) /\ Save(t, f @@ RevokeTenantSessions(t))
  <2>1. new \in TenantRow
      BY <1>1, <1>2, PlatformTenant DEF TenantRow
  <2>2. Sound(t, f) /\ OnlyTo(f, {"tenant"})
      BY <1>1, <1>2, <2>1, TenantUpdate
  <2>3. Sound(t, RevokeTenantSessions(t)) /\ OnlyTo(RevokeTenantSessions(t), {"session"})
      BY <1>1, RevokeSound
  <2>4. OnlyTo(f, {"tenant", "session"}) /\ OnlyTo(RevokeTenantSessions(t), {"tenant", "session"})
      BY <2>2, <2>3 DEF OnlyTo
  <2> QED BY <1>2, <2>2, <2>3, <2>4, BothHandled
<1> QED BY <1>2, NothingHandled DEF Suspend, Handled

LEMMA ReactivateHandled ==
    ASSUME DeskInv, NEW t \in Txns, Reactivate(t)
    PROVE  Handled(t, {"tenant"})
PROOF
<1> DEFINE new == [Loaded(t) EXCEPT !.active = TRUE]
           f == Update(t, TenantOf(t), new)
<1>1. Call[t].do = "reactivate" /\ pc[t] = "loaded"
    BY HandlesLoaded DEF Reactivate
<1>2. CASE Present(Loaded(t)) /\ Save(t, f)
  <2>1. new \in TenantRow
      BY <1>1, <1>2, PlatformTenant DEF TenantRow
  <2>2. Sound(t, f) /\ OnlyTo(f, {"tenant"})
      BY <1>1, <1>2, <2>1, TenantUpdate
  <2> QED BY <1>2, <2>2 DEF Handled
<1> QED BY <1>2 DEF Reactivate, Handled

LEMMA SetPlatformRoleHandled ==
    ASSUME DeskInv, NEW t \in Txns, SetPlatformRole(t)
    PROVE  Handled(t, {"user"})
PROOF
<1> DEFINE k == User(Call[t].user)
           new == [Object(t, k) EXCEPT !.platform = Call[t].role]
<1>1. Call[t].do = "platform_role" /\ pc[t] = "loaded"
    BY HandlesLoaded DEF SetPlatformRole
<1>2. k \in Keys /\ k[1] = "user" /\ DeskRow(k) = UserRow /\ Call[t].role \in PlatformRoles
    BY <1>1, DeskAssumption, KeyTables DEF AccessArguments
<1>3. CASE Present(found[t][k]) /\ Save(t, Update(t, k, new))
  <2>1. Object(t, k) \in UserRow
    <3>1. k \in DOMAIN held[t] => held[t][k] \in UserRow
      <4>1. Call[t].do \notin Public /\ Call[t].do \in OfPlatform
          BY <1>1 DEF Public, OfPlatform
      <4>2. k \in DOMAIN held[t] => Present(held[t][k])
          BY <1>1, <1>2, <4>1, KeyTables DEF DeskInv, HeldInv
      <4> QED BY <1>1, <1>2, <1>3, <4>2, ObjectTyped
    <3> QED BY <1>1, <1>2, <1>3, <3>1, ObjectTyped
  <2>2. new \in UserRow
      BY <1>2, <2>1 DEF UserRow
  <2>3. Lasting(k[1]) = {}
      BY <1>2, NoneLasts
  <2> QED BY <1>2, <1>3, <2>2, <2>3, UpdateHandled
<1> QED BY <1>3 DEF SetPlatformRole, Handled

LEMMA SubscribeHandled ==
    ASSUME DeskInv, NEW t \in Txns, pc[t] = "loaded", NEW plan \in Plans \cup {"same"},
           NEW status \in SubscriptionStatuses \cup {"same"}, Subscription(Call[t].tenant) \in Keys,
           Subscribe(t, plan, status)
    PROVE  Handled(t, {"subscription"})
PROOF
<1> DEFINE k == Subscription(Call[t].tenant)
           was == IF Present(found[t][k]) THEN found[t][k] ELSE FirstSubscription
           new == [plan |-> IF plan = "same" THEN was.plan ELSE plan,
                   status |-> IF status = "same" THEN was.status ELSE status]
<1>1. k[1] = "subscription" /\ DeskRow(k) = SubscriptionRow /\ Lasting(k[1]) = {}
    BY KeyTables, NoneLasts
<1>2. FirstSubscription \in SubscriptionRow
    BY DEF FirstSubscription, SubscriptionRow, Plans, SubscriptionStatuses
<1>3. was \in SubscriptionRow
    BY <1>1, <1>2, ObjectTyped
<1> HIDE DEF was
<1>4. new \in SubscriptionRow
    BY <1>3 DEF SubscriptionRow
<1>5. Save(t, IF Present(found[t][k]) THEN Update(t, k, new) ELSE k :> new)
    BY DEF Subscribe, was
<1> HIDE DEF k, new
<1>6. CASE Present(found[t][k])
  <2>1. Save(t, Update(t, k, new))
      BY <1>5, <1>6
  <2>2. Handled(t, {k[1]})
      BY <1>1, <1>4, <1>6, <2>1, UpdateHandled DEF k
  <2> QED BY <1>1, <2>2
<1>7. CASE ~Present(found[t][k])
  <2>1. Save(t, k :> new)
      BY <1>5, <1>7
  <2>2. "subscription" \notin Numbered
      BY DEF Numbered
  <2>3. Handled(t, {k[1]})
      BY <1>1, <1>4, <1>7, <2>1, <2>2, InsertHandled
  <2> QED BY <1>1, <2>3
<1> QED BY <1>6, <1>7

LEMMA SubscriptionHandled ==
    ASSUME DeskInv, NEW t \in Txns, CurrentSubscription(t) \/ UpdateSubscription(t)
    PROVE  Handled(t, {"subscription"})
PROOF
<1>1. CASE CurrentSubscription(t)
  <2>1. Call[t].do = "subscription" /\ pc[t] = "loaded" /\ Subscribe(t, "same", "same")
      BY <1>1, HandlesLoaded DEF CurrentSubscription
  <2>2. Subscription(Call[t].tenant) \in Keys
      BY <2>1, DeskAssumption DEF AccessArguments
  <2> QED BY <2>1, <2>2, SubscribeHandled
<1>2. CASE UpdateSubscription(t)
  <2>1. Call[t].do = "plan" /\ pc[t] = "loaded"
      BY <1>2, HandlesLoaded DEF UpdateSubscription
  <2>2. /\ Subscription(Call[t].tenant) \in Keys
        /\ Call[t].plan \in Plans \cup {"same"} /\ Call[t].status \in SubscriptionStatuses \cup {"same"}
      BY <2>1, DeskAssumption DEF AccessArguments
  <2>3. Fail(t) \/ Subscribe(t, Call[t].plan, Call[t].status)
      BY <1>2 DEF UpdateSubscription
  <2> QED BY <2>1, <2>2, <2>3, SubscribeHandled DEF Handled
<1> QED BY <1>1, <1>2

LEMMA ListSubscriptionsHandled ==
    ASSUME DeskInv, NEW t \in Txns, ListSubscriptions(t)
    PROVE  Handled(t, {"subscription"})
PROOF
<1> DEFINE ks == {Subscription(k[2]) : k \in {x \in KeysOf["tenant"] : Present(found[t][x])}}
           writes == [k \in {x \in ks : ~Present(found[t][x])} |-> FirstSubscription]
<1>1. Save(t, writes)
    BY DEF ListSubscriptions
<1>2. FirstSubscription \in SubscriptionRow
    BY DEF FirstSubscription, SubscriptionRow, Plans, SubscriptionStatuses
<1>3. \A k \in ks : k[1] = "subscription" /\ DeskRow(k) = SubscriptionRow
    BY KeyTables
<1>4. "subscription" \notin Numbered
    BY DEF Numbered
<1>5. DOMAIN writes \subseteq ks /\ \A k \in DOMAIN writes : writes[k] = FirstSubscription /\ ~Present(found[t][k])
    OBVIOUS
<1> HIDE DEF writes, ks
<1>6. OnlyTo(writes, {"subscription"})
    BY <1>3, <1>5 DEF OnlyTo
<1>7. \A k \in DOMAIN writes \cap Keys : Part(writes[k], FirstSubscription) /\ FirstSubscription \in DeskRow(k)
    BY <1>2, <1>3, <1>5, RowIsPresent DEF Part
<1>8. Sound(t, writes)
    BY <1>3, <1>4, <1>5, <1>7 DEF Sound
<1> QED BY <1>1, <1>6, <1>8 DEF Handled

\* A member who is signed in is of a business that is there.
LEMMA MemberContext ==
    ASSUME DeskInv, NEW t \in Txns, pc[t] = "loaded", Call[t].do \notin Public \cup OfPlatform \cup {"logout"}
    PROVE  LET m == Member(Call[t].tenant, Sender(held[t], t))
           IN  /\ TenantOf(t) \in DOMAIN held[t] /\ TenantOf(t) \in Keys /\ Call[t].tenant \in Tenants
               /\ Loaded(t) = held[t][TenantOf(t)] /\ Present(Loaded(t)) /\ Loaded(t) \in TenantRow
               /\ Loaded(t).active /\ Present(found[t][TenantOf(t)]) /\ Present(stored[TenantOf(t)])
               /\ m \in DOMAIN held[t] /\ m \in Keys /\ held[t][m] \in MemberRow /\ held[t][m].active
               /\ Present(found[t][m]) /\ Present(stored[m])
               /\ Sender(held[t], t) \in Users
PROOF
<1> DEFINE m == Member(Call[t].tenant, Sender(held[t], t))
           s == Session(Call[t].session)
<1>1. /\ {TenantOf(t), m} \subseteq DOMAIN held[t]
      /\ Present(held[t][TenantOf(t)]) /\ held[t][TenantOf(t)].active
      /\ Present(held[t][m]) /\ held[t][m].active
      /\ s \in DOMAIN held[t] /\ Present(held[t][s])
    BY DEF DeskInv, HeldInv, TenantOf, Sender
<1>2. TenantOf(t) \in Keys /\ m \in Keys /\ s \in Keys
    BY <1>1 DEF DeskInv, Frame
<1>3. /\ TenantOf(t)[1] = "tenant" /\ DeskRow(TenantOf(t)) = TenantRow
      /\ m[1] = "member" /\ DeskRow(m) = MemberRow
      /\ s[1] = "session" /\ DeskRow(s) = SessionRow
    BY KeyTables DEF TenantOf
<1>4. /\ held[t][TenantOf(t)] \in TenantRow /\ held[t][m] \in MemberRow /\ held[t][s] \in SessionRow
      /\ Loaded(t) = held[t][TenantOf(t)]
    BY <1>1, <1>2, <1>3, ObjectTyped DEF Loaded
<1>5. Present(found[t][TenantOf(t)]) /\ Present(stored[TenantOf(t)]) /\ Present(found[t][m]) /\ Present(stored[m])
    BY <1>1, <1>2, <1>3 DEF DeskInv, KeptInv, Deletable
<1>6. Sender(held[t], t) \in Users
    BY <1>4 DEF Sender, SessionRow
<1>7. Call[t].tenant \in Tenants
    BY <1>2, NamesOfKeys DEF TenantOf
<1> HIDE DEF m
<1> QED BY <1>1, <1>2, <1>4, <1>5, <1>6, <1>7 DEF m

LEMMA RenameTenantHandled ==
    ASSUME DeskInv, NEW t \in Txns, RenameTenant(t)
    PROVE  Handled(t, {"tenant"})
PROOF
<1> DEFINE new == [Loaded(t) EXCEPT !.name = Call[t].name]
<1>1. Call[t].do = "rename" /\ pc[t] = "loaded"
    BY HandlesLoaded DEF RenameTenant
<1>2. Call[t].name \in Names /\ Call[t].do \notin Public \cup OfPlatform \cup {"logout"}
    BY <1>1, DeskAssumption DEF AccessArguments, Public, OfPlatform
<1>3. TenantOf(t) \in Keys /\ Loaded(t) \in TenantRow /\ Present(found[t][TenantOf(t)])
    BY <1>1, <1>2, MemberContext
<1>4. new \in TenantRow
    BY <1>2, <1>3 DEF TenantRow
<1>5. TenantOf(t)[1] = "tenant" /\ DeskRow(TenantOf(t)) = TenantRow /\ Lasting("tenant") = {}
    BY KeyTables, NoneLasts DEF TenantOf
<1>6. Save(t, Update(t, TenantOf(t), new))
    BY DEF RenameTenant
<1> HIDE DEF new
<1>7. Handled(t, {TenantOf(t)[1]})
    BY <1>3, <1>4, <1>5, <1>6, UpdateHandled
<1> QED BY <1>5, <1>7

\* The other branches of the business are made ordinary ones.
LEMMA NoLongerMainSound ==
    ASSUME DeskInv, NEW t \in Txns, pc[t] = "loaded", NEW ks \in SUBSET OfTenant(t, "branch")
    PROVE  Sound(t, NoLongerMain(t, ks)) /\ OnlyTo(NoLongerMain(t, ks), {"branch"})
PROOF
<1>1. DOMAIN NoLongerMain(t, ks) = ks /\ \A k \in ks : NoLongerMain(t, ks)[k] = [main |-> FALSE]
    BY DEF NoLongerMain
<1>2. \A k \in ks : k \in Keys /\ Present(found[t][k]) /\ k[1] = "branch"
    BY DEF OfTenant, KeysOf, Tables
<1>3. ASSUME NEW k \in ks
      PROVE  /\ \E new \in DeskRow(k) : Part([main |-> FALSE], new)
             /\ DOMAIN [main |-> FALSE] \cap Lasting(k[1]) = {}
  <2> DEFINE new == [found[t][k] EXCEPT !.main = FALSE]
  <2>1. found[t][k] \in BranchRow /\ DeskRow(k) = BranchRow
      BY <1>2, ObjectTyped, RowOfTable
  <2>2. new \in BranchRow /\ new.main = FALSE
      BY <2>1 DEF BranchRow
  <2>3. DOMAIN new = {"tenant", "main", "active"}
      BY <2>2 DEF BranchRow
  <2>4. Part([main |-> FALSE], new)
    <3>1. "main" \in DOMAIN new /\ new["main"] = FALSE
        BY <2>2, <2>3
    <3>2. \A w \in [main : BOOLEAN] : w = [c \in DOMAIN w |-> w[c]]
        OBVIOUS
    <3>3. [main |-> FALSE] \in [main : BOOLEAN] /\ DOMAIN [main |-> FALSE] = {"main"}
        OBVIOUS
    <3> QED BY <3>1, <3>2, <3>3 DEF Part
  <2> QED BY <1>2, <2>1, <2>2, <2>4, NoneLasts
<1>4. Sound(t, NoLongerMain(t, ks))
    BY <1>1, <1>2, <1>3 DEF Sound
<1> QED BY <1>1, <1>2, <1>4 DEF OnlyTo

LEMMA CreateBranchHandled ==
    ASSUME DeskInv, NEW t \in Txns, CreateBranch(t)
    PROVE  Handled(t, {"branch", "access"})
PROOF
<1> DEFINE c == Call[t]
           main == c.main \/ ActiveBranches(t) = {}
           a == Branch(c.branch) :> [tenant |-> c.tenant, main |-> main, active |-> TRUE]
           b == Granted(c.tenant, Sender(held[t], t), c.branch) :> Assigned
           d == IF main THEN NoLongerMain(t, OfTenant(t, "branch")) ELSE Nothing
<1>1. Call[t].do = "create_branch" /\ pc[t] = "loaded"
    BY HandlesLoaded DEF CreateBranch
<1>2. c.tenant \in Tenants /\ c.main \in BOOLEAN
    BY <1>1, DeskAssumption, NamesOfKeys DEF AccessArguments
<1>3. CASE ~Present(found[t][Branch(c.branch)]) /\ Save(t, a @@ b @@ d)
  <2>1. [tenant |-> c.tenant, main |-> main, active |-> TRUE] \in DeskRow(Branch(c.branch))
      BY <1>2, KeyTables DEF BranchRow
  <2>2. /\ Branch(c.branch)[1] = "branch" /\ "branch" \notin Numbered /\ "access" \notin Numbered
        /\ Granted(c.tenant, Sender(held[t], t), c.branch)[1] = "access" /\ Lasting("access") = {}
        /\ Assigned \in DeskRow(Granted(c.tenant, Sender(held[t], t), c.branch))
      BY KeyTables, NoneLasts DEF Numbered
  <2>3. Sound(t, a) /\ DOMAIN a = {Branch(c.branch)}
      BY <1>3, <2>1, <2>2, InsertSound
  <2>4. Sound(t, b) /\ DOMAIN b = {Granted(c.tenant, Sender(held[t], t), c.branch)}
      BY <2>2, InsertSound
  <2>5. Sound(t, d) /\ OnlyTo(d, {"branch"})
    <3>1. CASE main
        BY <1>1, <3>1, NoLongerMainSound
    <3>2. CASE ~main
        BY <3>2, NothingSound DEF OnlyTo
    <3> QED BY <3>1, <3>2
  <2> HIDE DEF a, b, d
  <2>6. OnlyTo(a, {"branch", "access"}) /\ OnlyTo(b, {"branch", "access"}) /\ OnlyTo(d, {"branch", "access"})
      BY <2>2, <2>3, <2>4, <2>5 DEF OnlyTo
  <2>7. Sound(t, a @@ b)
      BY <2>3, <2>4, BothSound
  <2>8. OnlyTo(a @@ b, {"branch", "access"})
      BY <2>6 DEF OnlyTo, @@
  <2> QED BY <1>3, <2>5, <2>6, <2>7, <2>8, BothHandled
<1> QED BY <1>3 DEF CreateBranch, Handled

LEMMA UpdateBranchHandled ==
    ASSUME DeskInv, NEW t \in Txns, UpdateBranch(t)
    PROVE  Handled(t, {"branch"})
PROOF
<1> DEFINE c == Call[t]
           k == Branch(c.branch)
           was == Object(t, k)
           new == [was EXCEPT !.main = c.main, !.active = c.active]
           a == Update(t, k, new)
           d == IF c.main THEN NoLongerMain(t, OfTenant(t, "branch") \ {k}) ELSE Nothing
<1>1. Call[t].do = "update_branch" /\ pc[t] = "loaded"
    BY HandlesLoaded DEF UpdateBranch
<1>2. k \in Keys /\ c.main \in BOOLEAN /\ c.active \in BOOLEAN /\ k[1] = "branch" /\ DeskRow(k) = BranchRow
    BY <1>1, DeskAssumption, KeyTables DEF AccessArguments
<1>3. CASE Present(was) /\ Save(t, a @@ d)
  <2>1. was \in BranchRow /\ Present(found[t][k])
      BY <1>1, <1>2, <1>3, ObjectTyped DEF Deletable
  <2>2. new \in BranchRow /\ new.tenant = was.tenant
      BY <1>2, <2>1 DEF BranchRow
  <2>3. \A x \in Lasting(k[1]) : new[x] = Object(t, k)[x]
      BY <1>2, <2>2, NoneLasts
  <2> HIDE DEF new, k
  <2>4. Sound(t, a) /\ DOMAIN a = {k}
      BY <1>2, <2>1, <2>2, <2>3, UpdateSound
  <2> USE DEF k
  <2>5. Sound(t, d) /\ OnlyTo(d, {"branch"})
    <3>1. CASE c.main
        BY <1>1, <3>1, NoLongerMainSound
    <3>2. CASE ~c.main
        BY <3>2, NothingSound DEF OnlyTo
    <3> QED BY <3>1, <3>2
  <2> HIDE DEF a, d, k
  <2>6. OnlyTo(a, {"branch"})
      BY <1>2, <2>4 DEF OnlyTo
  <2> QED BY <1>3, <2>4, <2>5, <2>6, BothHandled
<1> QED BY <1>3 DEF UpdateBranch, Handled

\* what a member may do where, granted and taken away
LEMMA GrantedSound ==
    ASSUME NEW t, NEW gs, \A g \in gs : \E x, u, b : g = Granted(x, u, b), NEW writes,
           DOMAIN writes = gs, \A g \in gs : writes[g] = Assigned \/ writes[g] = Absent
    PROVE  Sound(t, writes) /\ OnlyTo(writes, {"access"})
PROOF
<1>1. \A g \in gs : g[1] = "access" /\ DeskRow(g) = {Assigned}
    BY KeyTables
<1>2. Lasting("access") = {} /\ "access" \notin Numbered /\ "access" \in Deletable
    BY NoneLasts DEF Numbered, Deletable
<1>3. \A g \in gs \cap Keys : Assigned \in DeskRow(g) /\ Part(Assigned, Assigned)
    BY <1>1, RowIsPresent DEF Part
<1> QED BY <1>1, <1>2, <1>3 DEF Sound, OnlyTo

LEMMA CreateStaffHandled ==
    ASSUME DeskInv, NEW t \in Txns, CreateStaff(t)
    PROVE  Handled(t, {"member", "access", "user"})
PROOF
<1> DEFINE c == Call[t]
           m == Member(c.tenant, c.user)
           a == m :> [role |-> c.role, active |-> TRUE]
           b == [k \in {Granted(c.tenant, c.user, x) : x \in c.branches} |-> Assigned]
           d == IF Present(found[t][User(c.user)]) THEN Nothing ELSE User(c.user) :> [platform |-> "none"]
<1>1. Call[t].do = "create_staff" /\ pc[t] = "loaded"
    BY HandlesLoaded DEF CreateStaff
<1>2. c.role \in Roles
    BY <1>1, DeskAssumption DEF AccessArguments
<1>3. CASE Save(t, a @@ b @@ d)
  <2>0. [role |-> c.role, active |-> TRUE] \in MemberRow /\ [platform |-> "none"] \in UserRow
      BY <1>2 DEF MemberRow, UserRow, PlatformRoles
  <2>1. /\ [role |-> c.role, active |-> TRUE] \in DeskRow(m) /\ m[1] = "member"
        /\ [platform |-> "none"] \in DeskRow(User(c.user)) /\ User(c.user)[1] = "user"
      BY <2>0, KeyTables
  <2>2. /\ Lasting("member") = {} /\ "member" \notin Numbered
        /\ Lasting("user") = {} /\ "user" \notin Numbered
      BY NoneLasts DEF Numbered
  <2>3. Sound(t, a) /\ DOMAIN a = {m}
      BY <2>1, <2>2, InsertSound
  <2>4. Sound(t, b) /\ OnlyTo(b, {"access"})
      BY GrantedSound
  <2>5. Sound(t, d) /\ DOMAIN d \subseteq {User(c.user)}
      BY <2>1, <2>2, InsertSound, NothingSound
  <2> HIDE DEF a, b, d, m
  <2>6. /\ OnlyTo(a, {"member", "access", "user"}) /\ OnlyTo(b, {"member", "access", "user"})
        /\ OnlyTo(d, {"member", "access", "user"})
      BY <2>1, <2>3, <2>4, <2>5 DEF OnlyTo
  <2>7. Sound(t, a @@ b)
      BY <2>3, <2>4, BothSound
  <2>8. OnlyTo(a @@ b, {"member", "access", "user"})
      BY <2>6 DEF OnlyTo, @@
  <2> QED BY <1>3, <2>5, <2>6, <2>7, <2>8, BothHandled
<1> QED BY <1>3 DEF CreateStaff, Handled

LEMMA UpdateStaffHandled ==
    ASSUME DeskInv, NEW t \in Txns, UpdateStaff(t)
    PROVE  Handled(t, {"member", "access"})
PROOF
<1> DEFINE c == Call[t]
           k == Member(c.tenant, c.user)
           now == BranchesOf(t, c.tenant, c.user)
           new == [role |-> c.role, active |-> c.active]
           a == Update(t, k, new)
           b == [g \in {Granted(c.tenant, c.user, x) : x \in now \cup c.branches} |->
                    IF g[4] \in c.branches THEN Assigned ELSE Absent]
<1>1. Call[t].do = "update_staff" /\ pc[t] = "loaded"
    BY HandlesLoaded DEF UpdateStaff
<1>2. k \in Keys /\ c.role \in Roles /\ c.active \in BOOLEAN /\ k[1] = "member" /\ DeskRow(k) = MemberRow
    BY <1>1, DeskAssumption, KeyTables DEF AccessArguments
<1>3. CASE Present(Object(t, k)) /\ Save(t, a @@ b)
  <2>1. Present(found[t][k])
      BY <1>1, <1>2, <1>3, ObjectTyped DEF Deletable
  <2>2. new \in MemberRow /\ Lasting(k[1]) = {}
      BY <1>2, NoneLasts DEF MemberRow
  <2>3. Sound(t, a) /\ DOMAIN a = {k}
      BY <1>2, <2>1, <2>2, UpdateSound
  <2>4. Sound(t, b) /\ OnlyTo(b, {"access"})
      BY GrantedSound
  <2> HIDE DEF a, b, k
  <2>5. OnlyTo(a, {"member", "access"}) /\ OnlyTo(b, {"member", "access"})
      BY <1>2, <2>3, <2>4 DEF OnlyTo
  <2> QED BY <1>3, <2>3, <2>4, <2>5, BothHandled
<1> QED BY <1>3 DEF UpdateStaff, Handled

LEMMA RegisterDeviceHandled ==
    ASSUME DeskInv, NEW t \in Txns, RegisterDevice(t)
    PROVE  Handled(t, {"device"})
PROOF
<1> DEFINE c == Call[t]
           k == Device(c.device)
           new == [tenant |-> c.tenant, branch |-> c.branch, active |-> TRUE]
<1>1. Call[t].do = "register_device" /\ pc[t] = "loaded"
    BY HandlesLoaded DEF RegisterDevice
<1>2. /\ k \in Keys /\ k[1] = "device" /\ DeskRow(k) = DeviceRow /\ Lasting(k[1]) = {} /\ "device" \notin Numbered
      /\ c.tenant \in Tenants /\ c.branch \in BranchIds
    BY <1>1, DeskAssumption, KeyTables, NamesOfKeys, NoneLasts DEF AccessArguments, Numbered
<1>3. new \in DeviceRow
    BY <1>2 DEF DeviceRow
<1>4. \/ Fail(t)
      \/ Present(found[t][k]) /\ Save(t, Update(t, k, new))
      \/ Save(t, k :> new)
    BY DEF RegisterDevice
<1> HIDE DEF k, new
<1>5. Fail(t) \/ Handled(t, {k[1]})
    BY <1>2, <1>3, <1>4, UpdateHandled, InsertHandled
<1> QED BY <1>2, <1>5 DEF Handled

LEMMA UpdateDeviceHandled ==
    ASSUME DeskInv, NEW t \in Txns, UpdateDevice(t)
    PROVE  Handled(t, {"device"})
PROOF
<1> DEFINE c == Call[t]
           k == Device(c.device)
           new == [found[t][k] EXCEPT !.branch = c.branch, !.active = c.active]
<1>1. Call[t].do = "update_device" /\ pc[t] = "loaded"
    BY HandlesLoaded DEF UpdateDevice
<1>2. /\ k \in Keys /\ k[1] = "device" /\ DeskRow(k) = DeviceRow /\ Lasting(k[1]) = {}
      /\ c.branch \in BranchIds /\ c.active \in BOOLEAN
    BY <1>1, DeskAssumption, KeyTables, NamesOfKeys, NoneLasts DEF AccessArguments
<1>3. CASE Present(found[t][k]) /\ Save(t, Update(t, k, new))
  <2>1. found[t][k] \in DeviceRow
      BY <1>1, <1>2, <1>3, ObjectTyped
  <2>2. new \in DeviceRow
      BY <1>2, <2>1 DEF DeviceRow
  <2> HIDE DEF new
  <2>3. Handled(t, {k[1]})
      BY <1>2, <1>3, <2>2, UpdateHandled
  <2> QED BY <1>2, <2>3
<1> QED BY <1>3 DEF UpdateDevice, Handled

--------------------
(* The handlers of the desk                                                 *)

\* What is not who sends the request is read with the decision.
LEMMA DeskObject ==
    ASSUME DeskInv, NEW t \in Txns, pc[t] = "loaded", NEW k \in Keys,
           k[1] \notin {"session", "user", "tenant", "member", "branch"}
    PROVE  Object(t, k) = found[t][k]
PROOF
<1>1. k \notin DOMAIN held[t]
  <2>1. CASE Call[t].do \in Public
      BY <2>1 DEF DeskInv, HeldInv
  <2>2. CASE Call[t].do \notin Public
    <3>1. PICK s : DOMAIN held[t] \subseteq {Session(Call[t].session), User(s), Tenant(Call[t].tenant),
                                             Member(Call[t].tenant, s), Branch(Call[t].at)}
        BY <2>2 DEF DeskInv, HeldInv
    <3> QED BY <3>1, KeyTables
  <2> QED BY <2>1, <2>2
<1> QED BY <1>1 DEF Object

LEMMA SetStatusHandled ==
    ASSUME DeskInv, NEW t \in Txns, pc[t] = "loaded", NEW k \in Keys, NEW ok, SetStatus(t, k, ok),
           k[1] \notin {"session", "user", "tenant", "member", "branch"},
           "status" \notin Lasting(k[1]),
           ok /\ Present(found[t][k]) => /\ [found[t][k] EXCEPT !.status = Call[t].status] \in DeskRow(k)
                                         /\ \A c \in Lasting(k[1]) : c \in DOMAIN found[t][k]
    PROVE  Handled(t, {k[1]})
PROOF
<1> DEFINE new == [found[t][k] EXCEPT !.status = Call[t].status]
<1>1. Fail(t) \/ (Present(found[t][k]) /\ ok /\ Save(t, Update(t, k, new)))
    BY DEF SetStatus, Has
<1>2. Object(t, k) = found[t][k]
    BY DeskObject
<1>3. Present(found[t][k]) /\ ok => \A c \in Lasting(k[1]) : new[c] = Object(t, k)[c]
    BY <1>2
<1> HIDE DEF new
<1> QED BY <1>1, <1>3, UpdateHandled DEF Handled, new

LEMMA CreateShiftHandled ==
    ASSUME DeskInv, NEW t \in Txns, CreateShift(t)
    PROVE  Handled(t, {"shift"})
PROOF
<1> DEFINE c == Call[t]
           new == [staff |-> c.user, from |-> c.from, to |-> c.to, status |-> "scheduled"]
<1>1. Call[t].do = "create_shift" /\ pc[t] = "loaded"
    BY HandlesLoaded DEF CreateShift
<1>2. c.user \in Users \cup {"nobody"} /\ c.from \in Nat /\ c.to \in Nat
    BY <1>1, DeskAssumption DEF DeskArguments
<1>3. new \in ShiftRow
    BY <1>2 DEF ShiftRow, Booking
<1>4. Fail(t) \/ Save(t, Shift(t) :> new)
    BY DEF CreateShift
<1> HIDE DEF new
<1>5. Shift(t)[1] = "shift" /\ Shift(t)[2] = t /\ DeskRow(Shift(t)) = ShiftRow /\ Lasting("shift") = {}
    BY KeyTables, NoneLasts
<1>6. Fail(t) \/ Handled(t, {Shift(t)[1]})
    BY <1>3, <1>4, <1>5, InsertHandled
<1> QED BY <1>5, <1>6 DEF Handled

LEMMA ShiftStatusHandled ==
    ASSUME DeskInv, NEW t \in Txns, UpdateShiftStatus(t)
    PROVE  Handled(t, {"shift"})
PROOF
<1> DEFINE k == Shift(Call[t].row)
           ok == Call[t].status \in {"scheduled", "completed", "cancelled"}
<1>1. Call[t].do = "shift_status" /\ pc[t] = "loaded"
    BY HandlesLoaded DEF UpdateShiftStatus
<1>2. k \in Keys /\ k[1] = "shift" /\ DeskRow(k) = ShiftRow /\ Lasting(k[1]) = {}
    BY <1>1, DeskAssumption, KeyTables, NoneLasts DEF DeskArguments
<1>3. SetStatus(t, k, ok)
    BY DEF UpdateShiftStatus
<1>4. ok /\ Present(found[t][k]) => [found[t][k] EXCEPT !.status = Call[t].status] \in ShiftRow
  <2>1. Present(found[t][k]) => found[t][k] \in ShiftRow
      BY <1>1, <1>2, ObjectTyped
  <2> QED BY <2>1 DEF ShiftRow, Booking
<1> HIDE DEF k, ok
<1>5. Handled(t, {k[1]})
    BY <1>1, <1>2, <1>3, <1>4, SetStatusHandled
<1> QED BY <1>2, <1>5

\* the punches of u in the table v
PunchesOf(v, u) == {k \in KeysOf["punch"] : Present(v[k]) /\ v[k].staff = u}

\* The last punch is one of them, and none is later.
LEMMA LastPunchIs ==
    ASSUME NEW v, NEW u, \A k \in KeysOf["punch"] : Present(v[k]) => v[k] \in PunchRow
    PROVE  /\ LastPunch(v, u).at \in Nat
           /\ \A k \in PunchesOf(v, u) : v[k].at <= LastPunch(v, u).at
           /\ PunchesOf(v, u) = {} => LastPunch(v, u) = [kind |-> "none", at |-> 0]
           /\ PunchesOf(v, u) # {} => \E k \in PunchesOf(v, u) : LastPunch(v, u) = v[k]
PROOF
<1> DEFINE mine == PunchesOf(v, u)
           f == [k \in mine |-> v[k].at]
<1>1. \A k \in mine : v[k] \in PunchRow
    BY DEF PunchesOf
<1>2. \A k \in mine : v[k].at \in Nat
    BY <1>1 DEF PunchRow
<1>3. IsFiniteSet(mine)
    BY AccessAssumption, FS_Subset DEF PunchesOf, KeysOf, Tables
<1>4. LastPunch(v, u) = IF mine = {} THEN [kind |-> "none", at |-> 0]
                        ELSE v[CHOOSE k \in mine : \A l \in mine : v[l].at <= v[k].at]
    BY DEF LastPunch, PunchesOf
<1> HIDE DEF mine
<1>5. CASE mine = {}
    BY <1>4, <1>5 DEF mine
<1>6. CASE mine # {}
  <2>1. \E x \in mine : \A y \in mine : f[y] <= f[x]
      BY <1>2, <1>3, <1>6, LargestOf
  <2>2. \E k \in mine : \A l \in mine : v[l].at <= v[k].at
      BY <2>1
  <2> QED BY <1>2, <1>4, <1>6, <2>2 DEF mine
<1> QED BY <1>5, <1>6

LEMMA SelfPunchHandled ==
    ASSUME DeskInv, NEW t \in Txns, SelfPunch(t)
    PROVE  Handled(t, {"punch"})
PROOF
<1> DEFINE u == Sender(held[t], t)
           new == [staff |-> u, kind |-> Call[t].kind, at |-> 1 + LastPunch(stored, u).at]
<1>1. Call[t].do = "punch" /\ pc[t] = "loaded"
    BY HandlesLoaded DEF SelfPunch
<1>2. Call[t].kind \in {"in", "out"} /\ Call[t].do \notin Public \cup OfPlatform \cup {"logout"}
    BY <1>1, DeskAssumption DEF DeskArguments, Public, OfPlatform
<1>3. u \in Users
    BY <1>1, <1>2, MemberContext
<1>4. \A k \in KeysOf["punch"] : Present(stored[k]) => stored[k] \in PunchRow
  <2>1. \A k \in KeysOf["punch"] : k \in Keys /\ k[1] = "punch"
      BY DEF KeysOf, Tables
  <2> QED BY <2>1, RowOfTable DEF DeskInv, RowsTyped, RowTyped, Present
<1>5. LastPunch(stored, u).at \in Nat
    BY <1>4, LastPunchIs
<1>6. new \in PunchRow
    BY <1>2, <1>3, <1>5 DEF PunchRow
<1>7. Fail(t) \/ Save(t, Punch(t) :> new)
    BY DEF SelfPunch
<1> HIDE DEF new
<1>8. Punch(t)[1] = "punch" /\ Punch(t)[2] = t /\ DeskRow(Punch(t)) = PunchRow /\ "punch" \in Numbered
    BY KeyTables DEF Numbered
<1>9. Punch(t) \in Keys => ~Present(found[t][Punch(t)])
    BY <1>1, <1>8, OwnNumberFree
<1>10. Fail(t) \/ Handled(t, {Punch(t)[1]})
    BY <1>6, <1>7, <1>8, <1>9, InsertHandled
<1> QED BY <1>8, <1>10 DEF Handled

LEMMA CreateAppointmentHandled ==
    ASSUME DeskInv, NEW t \in Txns, CreateAppointment(t)
    PROVE  Handled(t, {"appointment"})
PROOF
<1> DEFINE c == Call[t]
           s == Service(c.service)
           k == Appointment(t)
           new == [staff |-> c.user, from |-> c.from, to |-> c.from + found[t][s].duration,
                   status |-> "scheduled"]
<1>1. Call[t].do = "book" /\ pc[t] = "loaded"
    BY HandlesLoaded DEF CreateAppointment
<1>2. c.user \in Users \cup {"nobody"} /\ c.from \in Nat /\ s \in Keys
    BY <1>1, DeskAssumption DEF DeskArguments
<1>3. CASE Present(found[t][s]) /\ Save(t, k :> new)
  <2>1. found[t][s] \in ServiceRow
      BY <1>1, <1>2, <1>3, ObjectTyped, KeyTables
  <2>2. new \in AppointmentRow
      BY <1>2, <2>1 DEF ServiceRow, AppointmentRow, Booking, Transitions
  <2>3. k[1] = "appointment" /\ k[2] = t /\ DeskRow(k) = AppointmentRow /\ "appointment" \in Numbered
      BY KeyTables DEF Numbered
  <2>4. k \in Keys => ~Present(found[t][k])
      BY <1>1, <2>3, OwnNumberFree
  <2> HIDE DEF new, k
  <2>5. Handled(t, {k[1]})
      BY <1>3, <2>2, <2>3, <2>4, InsertHandled
  <2> QED BY <2>3, <2>5
<1> QED BY <1>3 DEF CreateAppointment, Has, Handled

LEMMA AppointmentStatusHandled ==
    ASSUME DeskInv, NEW t \in Txns, ChangeAppointmentStatus(t)
    PROVE  Handled(t, {"appointment"})
PROOF
<1> DEFINE k == Appointment(Call[t].row)
           ok == Call[t].status \in Transitions[found[t][k].status]
<1>1. Call[t].do = "appointment_status" /\ pc[t] = "loaded"
    BY HandlesLoaded DEF ChangeAppointmentStatus
<1>2. /\ k \in Keys /\ k[1] = "appointment" /\ DeskRow(k) = AppointmentRow
      /\ Lasting(k[1]) = {"staff", "from", "to"}
    BY <1>1, DeskAssumption, KeyTables, NoneLasts DEF DeskArguments
<1>3. SetStatus(t, k, ok)
    BY DEF ChangeAppointmentStatus
<1>4. ok /\ Present(found[t][k]) => /\ [found[t][k] EXCEPT !.status = Call[t].status] \in AppointmentRow
                                    /\ \A c \in Lasting(k[1]) : c \in DOMAIN found[t][k]
  <2>1. Present(found[t][k]) => found[t][k] \in AppointmentRow
      BY <1>1, <1>2, ObjectTyped
  <2>2. ok /\ Present(found[t][k]) => Call[t].status \in DOMAIN Transitions
    <3>1. \A from \in DOMAIN Transitions : Transitions[from] \subseteq DOMAIN Transitions
        BY DEF Transitions
    <3>2. Present(found[t][k]) => found[t][k].status \in DOMAIN Transitions
        BY <2>1 DEF AppointmentRow, Booking
    <3> QED BY <3>1, <3>2
  <2> QED BY <1>2, <2>1, <2>2 DEF AppointmentRow, Booking
<1> HIDE DEF k, ok
<1>5. Handled(t, {k[1]})
    BY <1>1, <1>2, <1>3, <1>4, SetStatusHandled
<1> QED BY <1>2, <1>5

LEMMA CreateServiceHandled ==
    ASSUME DeskInv, NEW t \in Txns, CreateService(t)
    PROVE  Handled(t, {"service"})
PROOF
<1> DEFINE c == Call[t]
           k == Service(c.service)
           new == [duration |-> c.duration, active |-> c.active]
<1>1. Call[t].do = "create_service" /\ pc[t] = "loaded"
    BY HandlesLoaded DEF CreateService
<1>2. c.duration \in Nat /\ c.active \in BOOLEAN
    BY <1>1, DeskAssumption DEF DeskArguments
<1>3. new \in ServiceRow
    BY <1>2 DEF ServiceRow
<1>4. Fail(t) \/ Save(t, k :> new)
    BY DEF CreateService, Create
<1>5. k[1] = "service" /\ DeskRow(k) = ServiceRow /\ Lasting(k[1]) = {} /\ "service" \notin Numbered
    BY KeyTables, NoneLasts DEF Numbered
<1> HIDE DEF new, k
<1>6. Fail(t) \/ Handled(t, {k[1]})
    BY <1>3, <1>4, <1>5, InsertHandled
<1> QED BY <1>5, <1>6 DEF Handled

LEMMA UpdateServiceHandled ==
    ASSUME DeskInv, NEW t \in Txns, UpdateService(t)
    PROVE  Handled(t, {"service"})
PROOF
<1> DEFINE c == Call[t]
           k == Service(c.service)
           new == [duration |-> c.duration, active |-> c.active]
<1>1. Call[t].do = "update_service" /\ pc[t] = "loaded"
    BY HandlesLoaded DEF UpdateService
<1>2. c.duration \in Nat /\ c.active \in BOOLEAN /\ k \in Keys
    BY <1>1, DeskAssumption DEF DeskArguments
<1>3. new \in ServiceRow
    BY <1>2 DEF ServiceRow
<1>4. Fail(t) \/ (Present(found[t][k]) /\ Save(t, Update(t, k, new)))
    BY DEF UpdateService, Has
<1>5. k[1] = "service" /\ DeskRow(k) = ServiceRow /\ Lasting(k[1]) = {}
    BY KeyTables, NoneLasts
<1> HIDE DEF new, k
<1>6. Fail(t) \/ Handled(t, {k[1]})
    BY <1>2, <1>3, <1>4, <1>5, UpdateHandled
<1> QED BY <1>5, <1>6 DEF Handled

LEMMA MaterialHandled ==
    ASSUME DeskInv, NEW t \in Txns, SetServiceMaterial(t) \/ RemoveServiceMaterial(t)
    PROVE  Handled(t, {"material"})
PROOF
<1> DEFINE c == Call[t]
           k == Material(c.service, c.product)
           new == [product |-> c.product, quantity |-> c.quantity]
<1>1. k[1] = "material" /\ DeskRow(k) = MaterialRow(c.product) /\ Lasting(k[1]) = {} /\ "material" \notin Numbered
    BY KeyTables, NoneLasts DEF Numbered
<1>2. CASE SetServiceMaterial(t)
  <2>1. Call[t].do = "set_material" /\ pc[t] = "loaded"
      BY <1>2, HandlesLoaded DEF SetServiceMaterial
  <2>2. c.quantity \in Nat /\ k \in Keys
      BY <2>1, DeskAssumption DEF DeskArguments
  <2>3. new \in MaterialRow(c.product)
      BY <2>2 DEF MaterialRow
  <2>4. Fail(t) \/ (Present(found[t][k]) /\ Save(t, Update(t, k, new))) \/ Save(t, k :> new)
      BY <1>2 DEF SetServiceMaterial, Has
  <2> HIDE DEF new, k
  <2>5. Fail(t) \/ Handled(t, {k[1]})
      BY <1>1, <2>2, <2>3, <2>4, UpdateHandled, InsertHandled
  <2> QED BY <1>1, <2>5 DEF Handled
<1>3. CASE RemoveServiceMaterial(t)
  <2>1. Fail(t) \/ Save(t, k :> Absent)
      BY <1>3 DEF RemoveServiceMaterial, Has
  <2> HIDE DEF k
  <2>2. DOMAIN (k :> Absent) = {k} /\ (k :> Absent)[k] = Absent
      BY DEF :>
  <2>3. Sound(t, k :> Absent) /\ OnlyTo(k :> Absent, {"material"})
      BY <1>1, <2>2 DEF Sound, OnlyTo, Deletable
  <2> QED BY <2>1, <2>3 DEF Handled
<1> QED BY <1>2, <1>3

LEMMA CreateOrderHandled ==
    ASSUME DeskInv, NEW t \in Txns, CreatePurchaseOrder(t)
    PROVE  Handled(t, {"order"})
PROOF
<1> DEFINE c == Call[t]
           k == Order(t)
           new == [status |-> "draft", ordered |-> c.ordered, received |-> [i \in DOMAIN c.ordered |-> 0]]
<1>1. Call[t].do = "create_order" /\ pc[t] = "loaded"
    BY HandlesLoaded DEF CreatePurchaseOrder
<1>2. c.ordered \in Seq(Nat \ {0}) \ {<<>>}
    BY <1>1, DeskAssumption DEF DeskArguments
<1>3. new \in OrderRow
  <2>1. [i \in DOMAIN c.ordered |-> 0] \in Seq(Nat)
      BY <1>2
  <2> QED BY <1>2, <2>1 DEF OrderRow, OrderTransitions
<1>4. Save(t, k :> new)
    BY DEF CreatePurchaseOrder
<1>5. k[1] = "order" /\ k[2] = t /\ DeskRow(k) = OrderRow /\ "order" \in Numbered
    BY KeyTables DEF Numbered
<1>6. k \in Keys => ~Present(found[t][k])
    BY <1>1, <1>5, OwnNumberFree
<1> HIDE DEF new, k
<1>7. Handled(t, {k[1]})
    BY <1>3, <1>4, <1>5, <1>6, InsertHandled
<1> QED BY <1>5, <1>7

LEMMA OrderStatusHandled ==
    ASSUME DeskInv, NEW t \in Txns, UpdatePurchaseOrderStatus(t)
    PROVE  Handled(t, {"order"})
PROOF
<1> DEFINE k == Order(Call[t].order)
           to == Call[t].status
           ok == /\ to \in OrderTransitions[found[t][k].status]
                 /\ to = "approved" => "purchases.approve" \in RolePermissions[MyRole(t)]
<1>1. Call[t].do = "order_status" /\ pc[t] = "loaded"
    BY HandlesLoaded DEF UpdatePurchaseOrderStatus
<1>2. /\ k \in Keys /\ k[1] = "order" /\ DeskRow(k) = OrderRow /\ Lasting(k[1]) = {"ordered"}
    BY <1>1, DeskAssumption, KeyTables, NoneLasts DEF DeskArguments
<1>3. SetStatus(t, k, ok)
    BY DEF UpdatePurchaseOrderStatus
<1>4. ok /\ Present(found[t][k]) => /\ [found[t][k] EXCEPT !.status = Call[t].status] \in OrderRow
                                    /\ \A c \in Lasting(k[1]) : c \in DOMAIN found[t][k]
  <2>1. Present(found[t][k]) => found[t][k] \in OrderRow
      BY <1>1, <1>2, ObjectTyped
  <2>2. ok /\ Present(found[t][k]) => Call[t].status \in DOMAIN OrderTransitions
    <3>1. \A from \in DOMAIN OrderTransitions : OrderTransitions[from] \subseteq DOMAIN OrderTransitions
        BY DEF OrderTransitions
    <3>2. Present(found[t][k]) => found[t][k].status \in DOMAIN OrderTransitions
        BY <2>1 DEF OrderRow
    <3> QED BY <3>1, <3>2
  <2> QED BY <1>2, <2>1, <2>2 DEF OrderRow
<1> HIDE DEF k, ok
<1>5. Handled(t, {k[1]})
    BY <1>1, <1>2, <1>3, <1>4, SetStatusHandled
<1> QED BY <1>2, <1>5

\* What a request receives of a line is what its lines of that number add up to.
LEMMA ReceiptIsNat ==
    ASSUME NEW t \in Txns, Call[t].do = "receive", NEW lines, NEW i \in lines
    PROVE  Receipt(t, lines)[i] \in Nat /\ Receipt(t, lines)[i] = Receipt(t, {i})[i]
PROOF
<1> DEFINE rs == Call[t].lines
           f == [n \in DOMAIN rs |-> rs[n].quantity]
           S == {n \in DOMAIN rs : rs[n].line = i}
<1> DEFINE R == [line : Nat, quantity : Nat \ {0}]
<1>1. rs \in Seq(R) /\ \A r \in R : r.quantity \in Nat
    BY DeskAssumption DEF DeskArguments
<1> HIDE DEF R
<1>2. IsFiniteSet(S) /\ \A n \in S : f[n] \in Nat
  <2>1. Len(rs) \in Nat /\ DOMAIN rs = 1..Len(rs) /\ \A n \in 1..Len(rs) : rs[n] \in R
      BY <1>1
  <2>2. IsFiniteSet(1..Len(rs)) /\ S \subseteq 1..Len(rs)
      BY <2>1, FS_Interval
  <2> QED BY <1>1, <2>1, <2>2, FS_Subset
<1>3. SumFunctionOnSet(f, S) \in Nat
    BY <1>2, SumNat
<1>4. Receipt(t, lines)[i] = SumFunctionOnSet(f, S) /\ Receipt(t, {i})[i] = SumFunctionOnSet(f, S)
    BY DEF Receipt
<1> QED BY <1>3, <1>4

LEMMA ReceiveHandled ==
    ASSUME DeskInv, NEW t \in Txns, ReceivePurchaseOrderLines(t)
    PROVE  Handled(t, {"order"})
PROOF
<1> DEFINE k == Order(Call[t].order)
           was == found[t][k]
           lines == DOMAIN was.ordered
           receipt == Receipt(t, lines)
           received == [i \in lines |-> was.received[i] + receipt[i]]
           status == IF Fully(was.ordered, received) THEN "received" ELSE "part_received"
           new == [was EXCEPT !.received = received, !.status = status]
<1>1. Call[t].do = "receive" /\ pc[t] = "loaded"
    BY HandlesLoaded, Zenon DEF ReceivePurchaseOrderLines
<1>2. /\ k \in Keys /\ k[1] = "order" /\ DeskRow(k) = OrderRow /\ Lasting(k[1]) = {"ordered"}
    BY <1>1, DeskAssumption, KeyTables, NoneLasts DEF DeskArguments
<1>3. Fail(t) \/ (Present(found[t][k]) /\ Save(t, Update(t, k, new)))
    BY Zenon DEF ReceivePurchaseOrderLines, Has
<1>4. CASE Present(found[t][k]) /\ Save(t, Update(t, k, new))
  <2>1. was \in OrderRow /\ OrderWhole(was)
      BY <1>1, <1>2, <1>4, ObjectTyped, KeysTold, Zenon DEF DeskInv, OrdersWhole, Tables
  <2>2. \A i \in lines : receipt[i] \in Nat /\ was.received[i] \in Nat
    <3>1. \A i \in lines : receipt[i] \in Nat
        BY <1>1, ReceiptIsNat
    <3>2. DOMAIN was.received = lines /\ was.received \in Seq(Nat)
        BY <2>1 DEF OrderWhole
    <3> QED BY <3>1, <3>2
  <2>3. received \in Seq(Nat)
    <3>1. lines = 1..Len(was.ordered) /\ Len(was.ordered) \in Nat
        BY <2>1 DEF OrderWhole
    <3>2. \A i \in lines : was.received[i] + receipt[i] \in Nat
        BY <2>2
    <3> QED BY <3>1, <3>2
  <2>4. status \in DOMAIN OrderTransitions
      BY DEF OrderTransitions
  <2> HIDE DEF received, status
  <2>5. new \in OrderRow /\ new.ordered = was.ordered
      BY <2>1, <2>3, <2>4 DEF OrderRow
  <2>6. Object(t, k) = was
      BY <1>1, <1>2, DeskObject
  <2> HIDE DEF k, new, was
  <2>7. Handled(t, {k[1]})
      BY <1>2, <1>4, <2>5, <2>6, UpdateHandled DEF was
  <2> QED BY <1>2, <2>7
<1> QED BY <1>3, <1>4, Zenon DEF Handled

LEMMA PromotionHandled ==
    ASSUME DeskInv, NEW t \in Txns, CreatePromotion(t)
    PROVE  Handled(t, {"promotion"})
PROOF
<1> DEFINE c == Call[t]
           k == Promotion(c.code)
           new == [kind |-> c.kind, value |-> c.value]
<1>1. Call[t].do = "promotion" /\ pc[t] = "loaded"
    BY HandlesLoaded DEF CreatePromotion
<1>2. c.kind \in {"percentage", "fixed"} /\ c.value \in Nat
    BY <1>1, DeskAssumption DEF DeskArguments
<1>3. new \in PromotionRow
    BY <1>2 DEF PromotionRow
<1>4. Fail(t) \/ Save(t, k :> new)
    BY DEF CreatePromotion, Create
<1>5. k[1] = "promotion" /\ DeskRow(k) = PromotionRow /\ Lasting(k[1]) = {} /\ "promotion" \notin Numbered
    BY KeyTables, NoneLasts DEF Numbered
<1> HIDE DEF new, k
<1>6. Fail(t) \/ Handled(t, {k[1]})
    BY <1>3, <1>4, <1>5, InsertHandled
<1> QED BY <1>5, <1>6 DEF Handled

\* The transaction that a request posts, and what it makes of the account.
LoyaltyAccount(t) ==
    LET k == Loyalty(Call[t].customer)
    IN  IF Present(found[t][k]) THEN found[t][k] ELSE [balance |-> 0, earned |-> 0]
PostedPoints(t) == IF Call[t].kind = "redeem" /\ Call[t].points > 0 THEN -Call[t].points ELSE Call[t].points
PostedAccount(t) ==
    [balance |-> LoyaltyAccount(t).balance + PostedPoints(t),
     earned |-> LoyaltyAccount(t).earned + (IF PostedPoints(t) > 0 THEN PostedPoints(t) ELSE 0)]
PostedWrites(t) ==
    LET k == Loyalty(Call[t].customer)
    IN  Points(t) :> [customer |-> Call[t].customer, points |-> PostedPoints(t)]
        @@ IF Present(found[t][k]) THEN Update(t, k, PostedAccount(t)) ELSE k :> PostedAccount(t)

LEMMA LoyaltyWrites ==
    ASSUME DeskInv, NEW t \in Txns, PostLoyaltyTransaction(t)
    PROVE  /\ Fail(t) \/ (Save(t, PostedWrites(t)) /\ PostedAccount(t).balance >= 0)
           /\ pc[t] = "loaded" /\ Call[t].do = "loyalty" /\ Call[t].points \in Int /\ PostedPoints(t) \in Int
           /\ Loyalty(Call[t].customer) \in Keys /\ Points(t) \in Keys
           /\ LoyaltyAccount(t) \in LoyaltyRow
           /\ Call[t].customer \in {k[2] : k \in KeysOf["loyalty"]}
PROOF
<1>1. Call[t].do = "loyalty" /\ pc[t] = "loaded"
    BY HandlesLoaded DEF PostLoyaltyTransaction
<1>2. Call[t].points \in Int /\ Loyalty(Call[t].customer) \in Keys /\ Points(t) \in Keys
    BY <1>1, DeskAssumption DEF DeskArguments
<1>3. PostedPoints(t) \in Int
    BY <1>2 DEF PostedPoints
<1>4. LoyaltyAccount(t) \in LoyaltyRow
  <2>1. [balance |-> 0, earned |-> 0] \in LoyaltyRow
      BY DEF LoyaltyRow
  <2>2. DeskRow(Loyalty(Call[t].customer)) = LoyaltyRow
      BY KeyTables
  <2> QED BY <1>1, <1>2, <2>1, <2>2, ObjectTyped DEF LoyaltyAccount
<1>5. Call[t].customer \in {k[2] : k \in KeysOf["loyalty"]}
  <2>1. Loyalty(Call[t].customer) \in KeysOf["loyalty"] /\ Loyalty(Call[t].customer)[2] = Call[t].customer
      BY <1>2, KeyTables, KeysTold DEF Tables
  <2> QED BY <2>1
<1>6. Fail(t) \/ (Save(t, PostedWrites(t)) /\ ~Insufficient(t, PostedAccount(t).balance))
    BY DEF PostLoyaltyTransaction, PostedWrites, PostedAccount, LoyaltyAccount, PostedPoints, Has
<1>7. PostedAccount(t).balance \in Int
    BY <1>3, <1>4 DEF PostedAccount, LoyaltyRow
<1> QED BY <1>1, <1>2, <1>3, <1>4, <1>5, <1>6, <1>7 DEF Insufficient

LEMMA LoyaltyHandled ==
    ASSUME DeskInv, NEW t \in Txns, PostLoyaltyTransaction(t)
    PROVE  Handled(t, {"points", "loyalty"})
PROOF
<1> DEFINE k == Loyalty(Call[t].customer)
           a == Points(t) :> [customer |-> Call[t].customer, points |-> PostedPoints(t)]
           b == IF Present(found[t][k]) THEN Update(t, k, PostedAccount(t)) ELSE k :> PostedAccount(t)
<1>1. CASE Save(t, PostedWrites(t)) /\ PostedAccount(t).balance >= 0
  <2>1. PostedAccount(t) \in LoyaltyRow
    <3>1. /\ LoyaltyAccount(t).balance + PostedPoints(t) \in Nat
          /\ LoyaltyAccount(t).earned + (IF PostedPoints(t) > 0 THEN PostedPoints(t) ELSE 0) \in Nat
        BY <1>1, LoyaltyWrites DEF LoyaltyRow, PostedAccount
    <3> QED BY <3>1 DEF LoyaltyRow, PostedAccount
  <2>2. /\ k \in Keys /\ k[1] = "loyalty" /\ DeskRow(k) = LoyaltyRow /\ Lasting(k[1]) = {} /\ "loyalty" \notin Numbered
        /\ Points(t) \in Keys /\ Points(t)[1] = "points" /\ Points(t)[2] = t /\ DeskRow(Points(t)) = PointsRow
        /\ "points" \in Numbered
      BY LoyaltyWrites, KeyTables, NoneLasts DEF Numbered
  <2>3. ~Present(found[t][Points(t)])
      BY <2>2, LoyaltyWrites, OwnNumberFree
  <2>4. [customer |-> Call[t].customer, points |-> PostedPoints(t)] \in PointsRow
      BY LoyaltyWrites DEF PointsRow
  <2>5. Sound(t, a) /\ DOMAIN a = {Points(t)}
      BY <2>2, <2>3, <2>4, InsertSound
  <2> HIDE DEF k
  <2>6. Sound(t, b) /\ DOMAIN b = {k}
      BY <2>1, <2>2, UpdateSound, InsertSound
  <2>7. PostedWrites(t) = a @@ b
      BY DEF PostedWrites, k
  <2> HIDE DEF a, b
  <2>8. OnlyTo(a, {"points", "loyalty"}) /\ OnlyTo(b, {"points", "loyalty"})
      BY <2>2, <2>5, <2>6 DEF OnlyTo
  <2> QED BY <1>1, <2>5, <2>6, <2>7, <2>8, BothHandled
<1> QED BY <1>1, LoyaltyWrites DEF Handled

LEMMA DocumentHandled ==
    ASSUME DeskInv, NEW t \in Txns, CreateDocument(t)
    PROVE  Handled(t, {"document"})
PROOF
<1> DEFINE lines == Call[t].lines
           k == Document(t)
           amounts == [i \in DOMAIN lines |-> lines[i].amount - lines[i].discount + lines[i].tax]
           new == [status |-> IF Call[t].kind = "quotation" THEN "draft" ELSE "issued",
                   lines |-> LineTotals(lines), total |-> AtLeastZero(SumFunction(amounts))]
           L == [amount : Nat, discount : Nat, tax : Nat]
<1>1. Call[t].do = "document" /\ pc[t] = "loaded"
    BY HandlesLoaded DEF CreateDocument
<1>2. lines \in Seq(L) /\ \A l \in L : l.amount - l.discount + l.tax \in Int
    BY <1>1, DeskAssumption DEF DeskArguments
<1>3. Save(t, k :> new)
    BY DEF CreateDocument
<1> HIDE DEF lines, L
<1>4. DOMAIN lines = 1..Len(lines) /\ Len(lines) \in Nat /\ \A i \in 1..Len(lines) : lines[i] \in L
    BY <1>2
<1>5. IsFiniteSet(DOMAIN lines)
    BY <1>4, FS_Interval
<1>6. \A i \in DOMAIN lines : amounts[i] \in Int
    BY <1>2, <1>4
<1>7. \A n \in Int : AtLeastZero(n) \in Nat
    BY DEF AtLeastZero
<1>8. LineTotals(lines) \in Seq(Nat)
  <2>1. LineTotals(lines) = [i \in 1..Len(lines) |-> AtLeastZero(lines[i].amount - lines[i].discount + lines[i].tax)]
      BY <1>4 DEF LineTotals
  <2>2. \A i \in 1..Len(lines) : AtLeastZero(lines[i].amount - lines[i].discount + lines[i].tax) \in Nat
      BY <1>2, <1>4, <1>7
  <2> QED BY <1>4, <2>1, <2>2
<1>9. AtLeastZero(SumFunction(amounts)) \in Nat
  <2>1. DOMAIN amounts = DOMAIN lines
      OBVIOUS
  <2> HIDE DEF amounts
  <2>2. SumFunction(amounts) \in Int
      BY <1>5, <1>6, <2>1, SumAllInt
  <2> QED BY <1>7, <2>2
<1> HIDE DEF amounts
<1>10. new \in DocumentRow
    BY <1>8, <1>9 DEF DocumentRow, DocumentStatuses
<1>11. k[1] = "document" /\ k[2] = t /\ DeskRow(k) = DocumentRow /\ Lasting("document") = {}
    BY KeyTables, NoneLasts
<1> HIDE DEF new, k
<1>12. Handled(t, {k[1]})
    BY <1>3, <1>10, <1>11, InsertHandled
<1> QED BY <1>11, <1>12

LEMMA DocumentStatusHandled ==
    ASSUME DeskInv, NEW t \in Txns, UpdateDocumentStatus(t)
    PROVE  Handled(t, {"document"})
PROOF
<1> DEFINE k == Document(Call[t].row)
           ok == Call[t].status \in DocumentStatuses
<1>1. Call[t].do = "document_status" /\ pc[t] = "loaded"
    BY HandlesLoaded DEF UpdateDocumentStatus
<1>2. k \in Keys /\ k[1] = "document" /\ DeskRow(k) = DocumentRow /\ Lasting(k[1]) = {}
    BY <1>1, DeskAssumption, KeyTables, NoneLasts DEF DeskArguments
<1>3. SetStatus(t, k, ok)
    BY DEF UpdateDocumentStatus
<1>4. ok /\ Present(found[t][k]) => [found[t][k] EXCEPT !.status = Call[t].status] \in DocumentRow
  <2>1. Present(found[t][k]) => found[t][k] \in DocumentRow
      BY <1>1, <1>2, ObjectTyped
  <2> QED BY <2>1 DEF DocumentRow
<1> HIDE DEF k, ok
<1>5. Handled(t, {k[1]})
    BY <1>1, <1>2, <1>3, <1>4, SetStatusHandled
<1> QED BY <1>2, <1>5

LEMMA RefreshAlertsHandled ==
    ASSUME DeskInv, NEW t \in Txns, RefreshAlerts(t)
    PROVE  Handled(t, {"alert"})
PROOF
<1> DEFINE at == Call[t].at
           Raised(k) == [branch |-> at, product |-> k[2][2], status |-> "open", by |-> "nobody"]
<1>1. Call[t].do = "alerts" /\ pc[t] = "loaded"
    BY HandlesLoaded DEF RefreshAlerts
<1>2. at \in BranchIds
    BY <1>1, DeskAssumption DEF DeskArguments
<1>3. PICK lacking : Save(t, [k \in {Alert(<<t, p>>) : p \in lacking} |-> Raised(k)])
    BY DEF RefreshAlerts
<1> DEFINE writes == [k \in {Alert(<<t, p>>) : p \in lacking} |-> Raised(k)]
<1>4. \A k \in DOMAIN writes : k[1] = "alert" /\ DeskRow(k) = AlertRow(k[2][2]) /\ writes[k] = Raised(k)
  <2>1. \A x : Alert(x)[1] = "alert" /\ DeskRow(Alert(x)) = AlertRow(Alert(x)[2][2])
      BY KeyTables
  <2> QED BY <2>1
<1>5. \A k \in DOMAIN writes : writes[k] \in DeskRow(k)
  <2>1. \A p : [branch |-> at, product |-> p, status |-> "open", by |-> "nobody"] \in AlertRow(p)
      BY <1>2 DEF AlertRow
  <2> QED BY <1>4, <2>1
<1>6. Lasting("alert") = {} /\ "alert" \notin Numbered
    BY NoneLasts DEF Numbered
<1> HIDE DEF writes
<1>7. \A k \in DOMAIN writes \cap Keys : Part(writes[k], writes[k])
    BY <1>5, RowIsPresent DEF Part
<1>8. Sound(t, writes) /\ OnlyTo(writes, {"alert"})
    BY <1>4, <1>5, <1>6, <1>7 DEF Sound, OnlyTo
<1> QED BY <1>3, <1>8 DEF Handled, writes

LEMMA UpdateAlertHandled ==
    ASSUME DeskInv, NEW t \in Txns, UpdateAlert(t)
    PROVE  Handled(t, {"alert"})
PROOF
<1> DEFINE k == Alert(Call[t].row)
           was == found[t][k]
           to == Call[t].status
           by == IF to = "acknowledged" THEN Sender(held[t], t) ELSE was.by
           new == [was EXCEPT !.status = to, !.by = by]
<1>1. Call[t].do = "alert_status" /\ pc[t] = "loaded"
    BY HandlesLoaded DEF UpdateAlert
<1>2. k \in Keys /\ k[1] = "alert" /\ DeskRow(k) = AlertRow(Call[t].row[2]) /\ Lasting(k[1]) = {}
    BY <1>1, DeskAssumption, KeyTables, NoneLasts DEF DeskArguments
<1>3. Call[t].do \notin Public \cup OfPlatform \cup {"logout"}
    BY <1>1 DEF Public, OfPlatform
<1>4. Sender(held[t], t) \in Users
    BY <1>1, <1>3, MemberContext
<1>5. CASE /\ Present(found[t][k]) /\ to \in {"open", "acknowledged", "dismissed"}
           /\ Save(t, Update(t, k, new))
  <2>1. was \in AlertRow(Call[t].row[2])
      BY <1>1, <1>2, <1>5, ObjectTyped
  <2>2. by \in Users \cup {"nobody"}
      BY <1>4, <2>1 DEF AlertRow
  <2> HIDE DEF by
  <2>3. new \in AlertRow(Call[t].row[2])
      BY <1>5, <2>1, <2>2 DEF AlertRow
  <2> HIDE DEF new, k
  <2>4. Handled(t, {k[1]})
      BY <1>2, <1>5, <2>3, UpdateHandled
  <2> QED BY <1>2, <2>4
<1> QED BY <1>5 DEF UpdateAlert, Has, Handled

--------------------
(* What every answer keeps                                                  *)

LEMMA HandledMore ==
    ASSUME NEW t, NEW tables, NEW more, tables \subseteq more, Handled(t, tables)
    PROVE  Handled(t, more)
PROOF BY DEF Handled, OnlyTo

\* the tables that the properties are about
Watched == {"session", "member", "tenant", "branch", "appointment", "punch", "order", "points", "loyalty"}

\* A handler writes to its own tables.
LEMMA StepHandled ==
    ASSUME DeskInv, NEW t \in Txns, AccessStep(t) \/ DeskStep(t)
    PROVE  \/ SignUp(t) \/ Bootstrap(t) \/ Login(t) \/ Refresh(t) \/ Logout(t)
           \/ Approve(t) \/ Reject(t) \/ Suspend(t) \/ Reactivate(t) \/ RenameTenant(t)
           \/ CreateBranch(t) \/ UpdateBranch(t) \/ CreateStaff(t) \/ UpdateStaff(t)
           \/ SelfPunch(t) \/ CreateAppointment(t) \/ ChangeAppointmentStatus(t)
           \/ CreatePurchaseOrder(t) \/ UpdatePurchaseOrderStatus(t) \/ ReceivePurchaseOrderLines(t)
           \/ PostLoyaltyTransaction(t)
           \/ Handled(t, Tables \ Watched) /\ pc[t] = "loaded"
PROOF
<1> DEFINE rest == Tables \ Watched
           This == Handled(t, rest) /\ pc[t] = "loaded"
<1>1. /\ {"user"} \subseteq rest /\ {"subscription"} \subseteq rest /\ {"device"} \subseteq rest /\ {"shift"} \subseteq rest
      /\ {"service"} \subseteq rest /\ {"material"} \subseteq rest /\ {"promotion"} \subseteq rest
      /\ {"document"} \subseteq rest /\ {"alert"} \subseteq rest
    BY DEF Tables, Watched
<1> HIDE DEF rest
<1>2. CASE SetPlatformRole(t)
  <2>1. pc[t] = "loaded"
      BY <1>2, HandlesLoaded DEF SetPlatformRole
  <2> QED BY <1>1, <1>2, <2>1, SetPlatformRoleHandled, HandledMore DEF rest
<1>3. CASE CurrentSubscription(t) \/ UpdateSubscription(t)
  <2>1. pc[t] = "loaded"
      BY <1>3, HandlesLoaded DEF CurrentSubscription, UpdateSubscription
  <2> QED BY <1>1, <1>3, <2>1, SubscriptionHandled, HandledMore DEF rest
<1>4. CASE ListSubscriptions(t)
  <2>1. pc[t] = "loaded"
      BY <1>4, HandlesLoaded DEF ListSubscriptions
  <2> QED BY <1>1, <1>4, <2>1, ListSubscriptionsHandled, HandledMore DEF rest
<1>5. CASE RegisterDevice(t) \/ UpdateDevice(t)
  <2>1. pc[t] = "loaded"
      BY <1>5, HandlesLoaded DEF RegisterDevice, UpdateDevice
  <2> QED BY <1>1, <1>5, <2>1, RegisterDeviceHandled, UpdateDeviceHandled, HandledMore DEF rest
<1>6. CASE CreateShift(t) \/ UpdateShiftStatus(t)
  <2>1. pc[t] = "loaded"
      BY <1>6, HandlesLoaded DEF CreateShift, UpdateShiftStatus
  <2> QED BY <1>1, <1>6, <2>1, CreateShiftHandled, ShiftStatusHandled, HandledMore DEF rest
<1>7. CASE CreateService(t) \/ UpdateService(t)
  <2>1. pc[t] = "loaded"
      BY <1>7, HandlesLoaded DEF CreateService, UpdateService
  <2> QED BY <1>1, <1>7, <2>1, CreateServiceHandled, UpdateServiceHandled, HandledMore DEF rest
<1>8. CASE SetServiceMaterial(t) \/ RemoveServiceMaterial(t)
  <2>1. pc[t] = "loaded"
      BY <1>8, HandlesLoaded DEF SetServiceMaterial, RemoveServiceMaterial
  <2> QED BY <1>1, <1>8, <2>1, MaterialHandled, HandledMore DEF rest
<1>9. CASE CreatePromotion(t)
  <2>1. pc[t] = "loaded"
      BY <1>9, HandlesLoaded DEF CreatePromotion
  <2> QED BY <1>1, <1>9, <2>1, PromotionHandled, HandledMore DEF rest
<1>10. CASE CreateDocument(t) \/ UpdateDocumentStatus(t)
  <2>1. pc[t] = "loaded"
      BY <1>10, HandlesLoaded DEF CreateDocument, UpdateDocumentStatus
  <2> QED BY <1>1, <1>10, <2>1, DocumentHandled, DocumentStatusHandled, HandledMore DEF rest
<1>11. CASE RefreshAlerts(t) \/ UpdateAlert(t)
  <2>1. pc[t] = "loaded"
      BY <1>11, HandlesLoaded DEF RefreshAlerts, UpdateAlert
  <2> QED BY <1>1, <1>11, <2>1, RefreshAlertsHandled, UpdateAlertHandled, HandledMore DEF rest
<1> QED BY <1>2, <1>3, <1>4, <1>5, <1>6, <1>7, <1>8, <1>9, <1>10, <1>11 DEF AccessStep, DeskStep

\* The commit of writes, and what it does.
Commits(t, writes) ==
    /\ Fits(t, writes) /\ Reachable(t, writes) /\ Close(t, "created")
    /\ stored' = [k \in Keys |-> IF k \notin DOMAIN writes THEN stored[k]
                                 ELSE IF Present(stored[k]) /\ Present(writes[k]) THEN writes[k] @@ stored[k]
                                 ELSE writes[k]]

LEMMA SaveCommits == ASSUME NEW t, NEW writes, Save(t, writes) PROVE Fail(t) \/ Commits(t, writes)
PROOF BY DEF Save, Commits

LEMMA CommittedRow ==
    ASSUME DeskInv, NEW t \in Txns, pc[t] = "loaded", NEW writes, Sound(t, writes),
           Commits(t, writes), NEW k \in Keys
    PROVE  /\ stored'[k] = Absent \/ stored'[k] \in DeskRow(k)
           /\ k \notin DOMAIN writes => stored'[k] = stored[k]
           /\ k[1] \notin Deletable /\ Present(stored[k]) => Present(stored'[k])
           /\ k \in DOMAIN writes /\ k[1] \notin Deletable =>
                 /\ Present(writes[k]) /\ (Present(found[t][k]) <=> Present(stored[k]))
                 /\ stored'[k] = IF Present(stored[k]) THEN writes[k] @@ stored[k] ELSE writes[k]
                 /\ Present(stored'[k])
           /\ Present(stored[k]) => \A c \in Lasting(k[1]) : stored'[k][c] = stored[k][c]
           /\ ~Present(stored[k]) /\ Present(stored'[k]) /\ k[1] \in Numbered => k[2] = t
PROOF
<1> DEFINE new == IF k \notin DOMAIN writes THEN stored[k]
                  ELSE IF Present(stored[k]) /\ Present(writes[k]) THEN writes[k] @@ stored[k]
                  ELSE writes[k]
<1>1. Fits(t, writes) /\ stored'[k] = new
    BY DEF Commits
<1>2. /\ new = Absent \/ new \in DeskRow(k)
      /\ k[1] \notin Deletable /\ Present(stored[k]) => Present(new)
      /\ k \in DOMAIN writes /\ k[1] \notin Deletable =>
            /\ Present(writes[k]) /\ (Present(found[t][k]) <=> Present(stored[k]))
            /\ new = IF Present(stored[k]) THEN writes[k] @@ stored[k] ELSE writes[k]
            /\ Present(new)
      /\ Present(stored[k]) => \A c \in Lasting(k[1]) : new[c] = stored[k][c]
      /\ ~Present(stored[k]) /\ Present(new) /\ k[1] \in Numbered => k[2] = t
    BY <1>1, SavedRow
<1>3. k \notin DOMAIN writes => new = stored[k]
    OBVIOUS
<1> HIDE DEF new
<1> QED BY <1>1, <1>2, <1>3

\* What a step leaves of the rows, if it writes to these tables only.
Keeps(t, tables) ==
    \A k \in Keys :
        /\ RowTyped(stored, k)'
        /\ k[1] \notin Deletable /\ Present(stored[k]) => Present(stored'[k])
        /\ Present(stored[k]) => \A c \in Lasting(k[1]) : stored'[k][c] = stored[k][c]
        /\ ~Present(stored[k]) /\ Present(stored'[k]) /\ k[1] \in Numbered => k[2] = t
        /\ k[1] \notin tables => stored'[k] = stored[k]

Ends(t) ==
    /\ \E what \in {"created", "refused"} : Close(t, what)
    /\ stored' = [k \in Keys |-> stored'[k]]
    /\ stored' # stored => Close(t, "created")

LEMMA HandledKeeps ==
    ASSUME DeskInv, NEW t \in Txns, pc[t] = "loaded", NEW tables, Handled(t, tables)
    PROVE  Keeps(t, tables) /\ Ends(t)
PROOF
<1>1. CASE Fail(t)
  <2>1. stored' = stored /\ Close(t, "refused")
      BY <1>1 DEF Fail
  <2>2. \A k \in Keys : RowTyped(stored, k) /\ stored'[k] = stored[k]
      BY <2>1 DEF DeskInv, RowsTyped
  <2> QED BY <2>1, <2>2 DEF Keeps, Ends, RowTyped, DeskInv, Frame
<1>2. CASE ~Fail(t)
  <2>1. PICK writes : Save(t, writes) /\ Sound(t, writes) /\ OnlyTo(writes, tables)
      BY <1>2 DEF Handled
  <2>2. Commits(t, writes)
      BY <1>2, <2>1, SaveCommits
  <2>3. \A k \in Keys : k \in DOMAIN writes => k[1] \in tables
      BY <2>1 DEF OnlyTo
  <2>4. Keeps(t, tables)
      BY <2>1, <2>2, <2>3, CommittedRow DEF Keeps, RowTyped
  <2> QED BY <2>2, <2>4 DEF Ends, Commits
<1> QED BY <1>1, <1>2

\* A row whose changed columns are written has the others as they are by then.
LEMMA DirtyRow ==
    ASSUME DeskInv, NEW t \in Txns, pc[t] = "loaded", NEW writes, Sound(t, writes), Commits(t, writes),
           NEW k \in Keys, k \in DOMAIN writes, k[1] \notin Deletable, Present(found[t][k]),
           NEW was, NEW new \in DeskRow(k), writes[k] = Dirty(was, new)
    PROVE  /\ Present(stored[k]) /\ stored[k] \in DeskRow(k) /\ stored'[k] \in DeskRow(k)
           /\ \A c \in DOMAIN new : stored'[k][c] = IF new[c] = was[c] THEN stored[k][c] ELSE new[c]
PROOF
<1>1. /\ Present(stored[k]) /\ stored'[k] = writes[k] @@ stored[k] /\ Present(stored'[k])
      /\ stored'[k] = Absent \/ stored'[k] \in DeskRow(k)
    BY CommittedRow
<1>2. stored[k] \in DeskRow(k)
    BY <1>1 DEF DeskInv, RowsTyped, RowTyped, Present
<1>3. DOMAIN stored[k] = DOMAIN new
    BY <1>2, SameColumns
<1>4. ASSUME NEW c \in DOMAIN new
      PROVE  stored'[k][c] = IF new[c] = was[c] THEN stored[k][c] ELSE new[c]
    BY <1>1, <1>3 DEF Dirty, @@
<1> QED BY <1>1, <1>2, <1>4 DEF Present

LEMMA UpdatedRow ==
    ASSUME DeskInv, NEW t \in Txns, pc[t] = "loaded", NEW k \in Keys, NEW new \in DeskRow(k),
           k[1] \notin Deletable, Present(found[t][k]),
           \A c \in Lasting(k[1]) : new[c] = Object(t, k)[c], Save(t, Update(t, k, new)), ~Fail(t)
    PROVE  /\ Close(t, "created") /\ Reachable(t, Update(t, k, new))
           /\ Present(stored[k]) /\ stored[k] \in DeskRow(k) /\ stored'[k] \in DeskRow(k)
           /\ \A c \in DOMAIN new : stored'[k][c] = IF new[c] = Object(t, k)[c] THEN stored[k][c] ELSE new[c]
           /\ \A l \in Keys \ {k} : stored'[l] = stored[l]
PROOF
<1> DEFINE w == Update(t, k, new)
<1>1. Sound(t, w) /\ DOMAIN w = {k}
    BY UpdateSound
<1>2. w[k] = Dirty(Object(t, k), new)
    BY DEF Update, :>
<1>3. Commits(t, w)
    BY SaveCommits
<1> HIDE DEF w
<1>4. \A l \in Keys \ {k} : stored'[l] = stored[l]
    BY <1>1, <1>3 DEF Commits
<1>5. /\ Present(stored[k]) /\ stored[k] \in DeskRow(k) /\ stored'[k] \in DeskRow(k)
      /\ \A c \in DOMAIN new : stored'[k][c] = IF new[c] = Object(t, k)[c] THEN stored[k][c] ELSE new[c]
    BY <1>1, <1>2, <1>3, DirtyRow
<1> QED BY <1>3, <1>4, <1>5 DEF Commits, w

LEMMA InsertedRow ==
    ASSUME DeskInv, NEW t \in Txns, pc[t] = "loaded", NEW k \in Keys, NEW new \in DeskRow(k),
           k[1] \notin Deletable, ~Present(found[t][k]),
           k[1] \in Numbered => k[2] = t, Save(t, k :> new), ~Fail(t)
    PROVE  /\ Close(t, "created")
           /\ ~Present(stored[k]) /\ stored'[k] = new
           /\ \A l \in Keys \ {k} : stored'[l] = stored[l]
PROOF
<1>1. Sound(t, k :> new) /\ DOMAIN (k :> new) = {k}
    BY InsertSound
<1>2. (k :> new)[k] = new
    BY DEF :>
<1>3. Commits(t, k :> new)
    BY SaveCommits
<1>4. \A l \in Keys \ {k} : stored'[l] = stored[l]
    BY <1>1, <1>3 DEF Commits
<1>5. ~Present(stored[k]) /\ stored'[k] = new
    BY <1>1, <1>2, <1>3, CommittedRow
<1> QED BY <1>3, <1>4, <1>5 DEF Commits

--------------------
(* Who writes to which table                                                *)

Untouched(T) == \A k \in KeysOf[T] : stored'[k] = stored[k]

LEMMA HandledTouches ==
    ASSUME DeskInv, NEW t \in Txns, pc[t] = "loaded", NEW tables, Handled(t, tables)
    PROVE  \A T \in Tables : T \notin tables => Untouched(T)
PROOF
<1>1. Keeps(t, tables)
    BY HandledKeeps
<1> QED BY <1>1 DEF Keeps, Untouched, KeysOf

\* The handlers that write to each of the tables that the properties are about.
LEMMA WhoTouches ==
    ASSUME DeskInv, NEW t \in Txns, AccessStep(t) \/ DeskStep(t)
    PROVE  /\ pc[t] = "loaded" /\ Keeps(t, Tables) /\ Ends(t)
           /\ Bootstrap(t) \/ Login(t) \/ Refresh(t) \/ Logout(t) \/ Reject(t) \/ Suspend(t) \/ Untouched("session")
           /\ SignUp(t) \/ Bootstrap(t) \/ Approve(t) \/ CreateStaff(t) \/ UpdateStaff(t) \/ Untouched("member")
           /\ SignUp(t) \/ Bootstrap(t) \/ Approve(t) \/ Reject(t) \/ Suspend(t) \/ Reactivate(t)
              \/ RenameTenant(t) \/ Untouched("tenant")
           /\ SignUp(t) \/ Bootstrap(t) \/ Approve(t) \/ CreateBranch(t) \/ UpdateBranch(t) \/ Untouched("branch")
           /\ CreateAppointment(t) \/ ChangeAppointmentStatus(t) \/ Untouched("appointment")
           /\ SelfPunch(t) \/ Untouched("punch")
           /\ CreatePurchaseOrder(t) \/ UpdatePurchaseOrderStatus(t) \/ ReceivePurchaseOrderLines(t) \/ Untouched("order")
           /\ PostLoyaltyTransaction(t) \/ (Untouched("points") /\ Untouched("loyalty"))
PROOF
<1>0. ASSUME NEW tables, tables \subseteq Tables, Handled(t, tables), pc[t] = "loaded"
      PROVE  Keeps(t, Tables) /\ Ends(t) /\ \A T \in Tables : T \notin tables => Untouched(T)
  <2>1. Handled(t, Tables)
      BY <1>0, HandledMore
  <2> QED BY <1>0, <2>1, HandledTouches, HandledKeeps
<1>1. CASE SignUp(t)
  <2>1. Handled(t, {"tenant", "user", "branch", "member", "access"}) /\ pc[t] = "loaded"
      BY <1>1, SignUpHandled, HandlesLoaded DEF SignUp
  <2> QED BY <1>0, <1>1, <2>1 DEF Tables
<1>2. CASE Bootstrap(t)
  <2>1. Handled(t, {"tenant", "user", "branch", "member", "access", "session"}) /\ pc[t] = "loaded"
      BY <1>2, BootstrapHandled, HandlesLoaded DEF Bootstrap
  <2> QED BY <1>0, <1>2, <2>1 DEF Tables
<1>3. CASE Login(t)
  <2>1. Handled(t, {"session"}) /\ pc[t] = "loaded"
      BY <1>3, LoginHandled, HandlesLoaded DEF Login
  <2> QED BY <1>0, <1>3, <2>1 DEF Tables
<1>4. CASE Refresh(t)
  <2>1. Handled(t, {"session"}) /\ pc[t] = "loaded"
      BY <1>4, RefreshHandled, HandlesLoaded DEF Refresh
  <2> QED BY <1>0, <1>4, <2>1 DEF Tables
<1>5. CASE Logout(t)
  <2>1. Handled(t, {"session"}) /\ pc[t] = "loaded"
      BY <1>5, LogoutHandled, HandlesLoaded DEF Logout
  <2> QED BY <1>0, <1>5, <2>1 DEF Tables
<1>6. CASE Approve(t)
  <2>1. Handled(t, {"tenant", "member", "branch"}) /\ pc[t] = "loaded"
      BY <1>6, ApproveHandled, HandlesLoaded, Zenon DEF Approve
  <2> QED BY <1>0, <1>6, <2>1 DEF Tables
<1>7. CASE Reject(t)
  <2>1. Handled(t, {"tenant", "session"}) /\ pc[t] = "loaded"
      BY <1>7, RejectHandled, HandlesLoaded, Zenon DEF Reject
  <2> QED BY <1>0, <1>7, <2>1 DEF Tables
<1>8. CASE Suspend(t)
  <2>1. Handled(t, {"tenant", "session"}) /\ pc[t] = "loaded"
      BY <1>8, SuspendHandled, HandlesLoaded DEF Suspend
  <2> QED BY <1>0, <1>8, <2>1 DEF Tables
<1>9. CASE Reactivate(t)
  <2>1. Handled(t, {"tenant"}) /\ pc[t] = "loaded"
      BY <1>9, ReactivateHandled, HandlesLoaded DEF Reactivate
  <2> QED BY <1>0, <1>9, <2>1 DEF Tables
<1>10. CASE RenameTenant(t)
  <2>1. Handled(t, {"tenant"}) /\ pc[t] = "loaded"
      BY <1>10, RenameTenantHandled, HandlesLoaded DEF RenameTenant
  <2> QED BY <1>0, <1>10, <2>1 DEF Tables
<1>11. CASE CreateBranch(t)
  <2>1. Handled(t, {"branch", "access"}) /\ pc[t] = "loaded"
      BY <1>11, CreateBranchHandled, HandlesLoaded DEF CreateBranch
  <2> QED BY <1>0, <1>11, <2>1 DEF Tables
<1>12. CASE UpdateBranch(t)
  <2>1. Handled(t, {"branch"}) /\ pc[t] = "loaded"
      BY <1>12, UpdateBranchHandled, HandlesLoaded, Zenon DEF UpdateBranch
  <2> QED BY <1>0, <1>12, <2>1 DEF Tables
<1>13. CASE CreateStaff(t)
  <2>1. Handled(t, {"member", "access", "user"}) /\ pc[t] = "loaded"
      BY <1>13, CreateStaffHandled, HandlesLoaded DEF CreateStaff
  <2> QED BY <1>0, <1>13, <2>1 DEF Tables
<1>14. CASE UpdateStaff(t)
  <2>1. Handled(t, {"member", "access"}) /\ pc[t] = "loaded"
      BY <1>14, UpdateStaffHandled, HandlesLoaded DEF UpdateStaff
  <2> QED BY <1>0, <1>14, <2>1 DEF Tables
<1>15. CASE SelfPunch(t)
  <2>1. Handled(t, {"punch"}) /\ pc[t] = "loaded"
      BY <1>15, SelfPunchHandled, HandlesLoaded DEF SelfPunch
  <2> QED BY <1>0, <1>15, <2>1 DEF Tables
<1>16. CASE CreateAppointment(t)
  <2>1. Handled(t, {"appointment"}) /\ pc[t] = "loaded"
      BY <1>16, CreateAppointmentHandled, HandlesLoaded DEF CreateAppointment
  <2> QED BY <1>0, <1>16, <2>1 DEF Tables
<1>17. CASE ChangeAppointmentStatus(t)
  <2>1. Handled(t, {"appointment"}) /\ pc[t] = "loaded"
      BY <1>17, AppointmentStatusHandled, HandlesLoaded DEF ChangeAppointmentStatus
  <2> QED BY <1>0, <1>17, <2>1 DEF Tables
<1>18. CASE CreatePurchaseOrder(t)
  <2>1. Handled(t, {"order"}) /\ pc[t] = "loaded"
      BY <1>18, CreateOrderHandled, HandlesLoaded DEF CreatePurchaseOrder
  <2> QED BY <1>0, <1>18, <2>1 DEF Tables
<1>19. CASE UpdatePurchaseOrderStatus(t)
  <2>1. Handled(t, {"order"}) /\ pc[t] = "loaded"
      BY <1>19, OrderStatusHandled, HandlesLoaded DEF UpdatePurchaseOrderStatus
  <2> QED BY <1>0, <1>19, <2>1 DEF Tables
<1>20. CASE ReceivePurchaseOrderLines(t)
  <2>1. Handled(t, {"order"}) /\ pc[t] = "loaded"
      BY <1>20, ReceiveHandled, HandlesLoaded, Zenon DEF ReceivePurchaseOrderLines
  <2> QED BY <1>0, <1>20, <2>1 DEF Tables
<1>21. CASE PostLoyaltyTransaction(t)
  <2>1. Handled(t, {"points", "loyalty"}) /\ pc[t] = "loaded"
      BY <1>21, LoyaltyHandled, HandlesLoaded DEF PostLoyaltyTransaction
  <2> QED BY <1>0, <1>21, <2>1 DEF Tables
<1>22. CASE Handled(t, Tables \ Watched) /\ pc[t] = "loaded"
    BY <1>0, <1>22 DEF Tables, Watched
<1> QED BY <1>1, <1>2, <1>3, <1>4, <1>5, <1>6, <1>7, <1>8, <1>9, <1>10, <1>11, <1>12, <1>13, <1>14,
             <1>15, <1>16, <1>17, <1>18, <1>19, <1>20, <1>21, <1>22, StepHandled

--------------------
(* What becomes of an order                                                 *)

OrderMade(t, k) ==
    /\ Call[t].do = "create_order" /\ k = Order(t) /\ ~Present(stored[k])
    /\ Call[t].ordered \in Seq(Nat \ {0}) \ {<<>>}
    /\ stored'[k] = [status |-> "draft", ordered |-> Call[t].ordered,
                     received |-> [i \in DOMAIN Call[t].ordered |-> 0]]

OrderMoved(t, k) ==
    /\ Call[t].do = "order_status" /\ k = Order(Call[t].order)
    /\ Present(found[t][k]) /\ Present(stored[k]) /\ Present(stored'[k])
    /\ Call[t].status \in OrderTransitions[found[t][k].status]
    /\ stored'[k].ordered = stored[k].ordered /\ stored'[k].received = stored[k].received
    /\ stored'[k].status = Call[t].status

\* the sums and the status that the receipt of t makes of the order it has found
Counted(t, was) == [i \in DOMAIN was.ordered |-> was.received[i] + Receipt(t, DOMAIN was.ordered)[i]]
CountedStatus(t, was) == IF Fully(was.ordered, Counted(t, was)) THEN "received" ELSE "part_received"

OrderCounted(t, k) ==
    LET was == found[t][k]
    IN  /\ Call[t].do = "receive" /\ k = Order(Call[t].order)
        /\ Free(k) \/ Holds(t, k)
        /\ Present(was) /\ Present(stored[k]) /\ Present(stored'[k])
        /\ was.status \in {"approved", "part_received"}
        /\ \A i \in DOMAIN was.ordered : Counted(t, was)[i] <= was.ordered[i]
        /\ stored'[k].ordered = stored[k].ordered
        /\ stored'[k].received = IF Counted(t, was) = was.received THEN stored[k].received ELSE Counted(t, was)
        /\ stored'[k].status = IF CountedStatus(t, was) = was.status THEN stored[k].status ELSE CountedStatus(t, was)

OthersUntouched(T, k) == \A l \in KeysOf[T] \ {k} : stored'[l] = stored[l]

LEMMA CreateOrderStep ==
    ASSUME DeskInv, NEW t \in Txns, CreatePurchaseOrder(t)
    PROVE  \/ Untouched("order")
           \/ /\ OrderMade(t, Order(t)) /\ Close(t, "created") /\ Order(t) \in Keys
              /\ OthersUntouched("order", Order(t))
PROOF
<1> DEFINE k == Order(t)
           new == [status |-> "draft", ordered |-> Call[t].ordered, received |-> [i \in DOMAIN Call[t].ordered |-> 0]]
<1>1. Call[t].do = "create_order" /\ pc[t] = "loaded" /\ Save(t, k :> new)
    BY HandlesLoaded DEF CreatePurchaseOrder
<1>2. Call[t].ordered \in Seq(Nat \ {0}) \ {<<>>}
    BY <1>1, DeskAssumption DEF DeskArguments
<1>3. new \in OrderRow
  <2>1. [i \in DOMAIN Call[t].ordered |-> 0] \in Seq(Nat)
      BY <1>2
  <2> QED BY <1>2, <2>1 DEF OrderRow, OrderTransitions
<1>4. k[1] = "order" /\ k[2] = t /\ DeskRow(k) = OrderRow /\ k[1] \in Numbered /\ k[1] \notin Deletable
    BY KeyTables DEF Numbered, Deletable
<1> HIDE DEF new, k
<1>5. CASE Fail(t)
    BY <1>5 DEF Fail, Untouched
<1>6. CASE ~Fail(t) /\ k \notin Keys
  <2>1. Commits(t, k :> new) /\ DOMAIN (k :> new) = {k}
      BY <1>1, <1>6, SaveCommits DEF :>
  <2> QED BY <1>6, <2>1 DEF Commits, Untouched, KeysOf, Tables
<1>7. CASE ~Fail(t) /\ k \in Keys
  <2>1. ~Present(found[t][k])
      BY <1>1, <1>4, <1>7, OwnNumberFree
  <2>2. /\ Close(t, "created") /\ ~Present(stored[k]) /\ stored'[k] = new
        /\ \A l \in Keys \ {k} : stored'[l] = stored[l]
      BY <1>1, <1>3, <1>4, <1>7, <2>1, InsertedRow
  <2> QED BY <1>1, <1>2, <1>7, <2>2 DEF OrderMade, OthersUntouched, KeysOf, Tables, new, k
<1> QED BY <1>5, <1>6, <1>7

\* Only the status of the row is written.
LEMMA StatusStep ==
    ASSUME DeskInv, NEW t \in Txns, pc[t] = "loaded", NEW k \in Keys, NEW ok, SetStatus(t, k, ok), ~Fail(t),
           k[1] \notin {"session", "user", "tenant", "member", "branch"} \cup Deletable,
           "status" \notin Lasting(k[1]),
           ok /\ Present(found[t][k]) => /\ [found[t][k] EXCEPT !.status = Call[t].status] \in DeskRow(k)
                                         /\ "status" \in DOMAIN found[t][k]
    PROVE  /\ ok /\ Present(found[t][k]) /\ Present(stored[k]) /\ Present(stored'[k]) /\ Close(t, "created")
           /\ stored[k] \in DeskRow(k) /\ stored'[k] \in DeskRow(k)
           /\ stored'[k].status = IF Call[t].status = found[t][k].status THEN stored[k].status ELSE Call[t].status
           /\ \A c \in DOMAIN found[t][k] \ {"status"} : stored'[k][c] = stored[k][c]
           /\ \A l \in Keys \ {k} : stored'[l] = stored[l]
PROOF
<1> DEFINE new == [found[t][k] EXCEPT !.status = Call[t].status]
<1>1. ok /\ Present(found[t][k]) /\ Save(t, Update(t, k, new))
    BY DEF SetStatus, Has
<1>2. Object(t, k) = found[t][k]
    BY DeskObject
<1>3. /\ DOMAIN new = DOMAIN found[t][k] /\ new.status = Call[t].status
      /\ \A c \in DOMAIN found[t][k] \ {"status"} : new[c] = found[t][k][c]
      /\ new \in DeskRow(k)
    BY <1>1
<1>4. \A c \in Lasting(k[1]) : new[c] = Object(t, k)[c]
  <2>1. \A c \in Lasting(k[1]) : c \in DOMAIN found[t][k]
      BY <1>1, LastingColumns, ObjectTyped
  <2> QED BY <1>2, <1>3, <2>1
<1> HIDE DEF new
<1>5. /\ Close(t, "created") /\ Present(stored[k]) /\ stored[k] \in DeskRow(k) /\ stored'[k] \in DeskRow(k)
      /\ \A c \in DOMAIN new : stored'[k][c] = IF new[c] = Object(t, k)[c] THEN stored[k][c] ELSE new[c]
      /\ \A l \in Keys \ {k} : stored'[l] = stored[l]
    BY <1>1, <1>3, <1>4, UpdatedRow
<1>6. Present(stored'[k])
    BY <1>5, RowIsPresent
<1> QED BY <1>1, <1>2, <1>3, <1>5, <1>6

LEMMA OrderStatusStep ==
    ASSUME DeskInv, NEW t \in Txns, UpdatePurchaseOrderStatus(t)
    PROVE  \/ Untouched("order")
           \/ \E k \in KeysOf["order"] : OrderMoved(t, k) /\ Close(t, "created") /\ OthersUntouched("order", k)
PROOF
<1> DEFINE k == Order(Call[t].order)
           to == Call[t].status
           ok == /\ to \in OrderTransitions[found[t][k].status]
                 /\ to = "approved" => "purchases.approve" \in RolePermissions[MyRole(t)]
<1>1. Call[t].do = "order_status" /\ pc[t] = "loaded"
    BY HandlesLoaded DEF UpdatePurchaseOrderStatus
<1>2. /\ k \in Keys /\ k[1] = "order" /\ DeskRow(k) = OrderRow /\ Lasting(k[1]) = {"ordered"}
    BY <1>1, DeskAssumption, KeyTables, NoneLasts DEF DeskArguments
<1>3. SetStatus(t, k, ok)
    BY DEF UpdatePurchaseOrderStatus
<1>4. Present(found[t][k]) => found[t][k] \in OrderRow
    BY <1>1, <1>2, ObjectTyped
<1>5. ok /\ Present(found[t][k]) =>
         /\ to \in DOMAIN OrderTransitions /\ to # found[t][k].status /\ to \in OrderTransitions[found[t][k].status]
  <2>1. \A from \in DOMAIN OrderTransitions :
           OrderTransitions[from] \subseteq DOMAIN OrderTransitions /\ from \notin OrderTransitions[from]
      BY DEF OrderTransitions
  <2>2. Present(found[t][k]) => found[t][k].status \in DOMAIN OrderTransitions
      BY <1>4 DEF OrderRow
  <2> QED BY <2>1, <2>2
<1>6. ok /\ Present(found[t][k]) => /\ [found[t][k] EXCEPT !.status = Call[t].status] \in OrderRow
                                    /\ DOMAIN found[t][k] = {"status", "ordered", "received"}
    BY <1>4, <1>5 DEF OrderRow
<1> HIDE DEF ok
<1>7. CASE Fail(t)
    BY <1>7 DEF Fail, Untouched
<1>8. CASE ~Fail(t)
  <2> HIDE DEF k
  <2>1. k[1] \notin Deletable
      BY <1>2 DEF Deletable
  <2>2. /\ ok /\ Present(found[t][k]) /\ Present(stored[k]) /\ Present(stored'[k]) /\ Close(t, "created")
        /\ stored'[k].status = IF to = found[t][k].status THEN stored[k].status ELSE to
        /\ \A c \in DOMAIN found[t][k] \ {"status"} : stored'[k][c] = stored[k][c]
        /\ \A l \in Keys \ {k} : stored'[l] = stored[l]
      BY <1>1, <1>2, <1>3, <1>6, <1>8, <2>1, StatusStep
  <2>3. OrderMoved(t, k)
      BY <1>1, <1>5, <1>6, <2>2 DEF OrderMoved, k
  <2>4. OthersUntouched("order", k) /\ k \in KeysOf["order"]
      BY <1>2, <2>2 DEF OthersUntouched, KeysOf, Tables
  <2> QED BY <2>2, <2>3, <2>4
<1> QED BY <1>7, <1>8

LEMMA ReceiveStep ==
    ASSUME DeskInv, NEW t \in Txns, ReceivePurchaseOrderLines(t)
    PROVE  \/ Fail(t)
           \/ \E k \in KeysOf["order"] : OrderCounted(t, k) /\ Close(t, "created") /\ OthersUntouched("order", k)
                                         /\ Counted(t, found[t][k]) \in Seq(Nat)
PROOF
<1> DEFINE k == Order(Call[t].order)
           was == found[t][k]
           new == [was EXCEPT !.received = Counted(t, was), !.status = CountedStatus(t, was)]
<1>1. Call[t].do = "receive" /\ pc[t] = "loaded"
    BY HandlesLoaded DEF ReceivePurchaseOrderLines
<1>2. /\ k \in Keys /\ k[1] = "order" /\ DeskRow(k) = OrderRow /\ Lasting(k[1]) = {"ordered"}
    BY <1>1, DeskAssumption, KeyTables, NoneLasts DEF DeskArguments
<1>4. CASE ~Fail(t)
  <2>1. /\ Present(was) /\ was.status \in {"approved", "part_received"}
        /\ \A i \in DOMAIN was.ordered : Counted(t, was)[i] <= was.ordered[i]
        /\ Save(t, Update(t, k, new))
    <3> DEFINE lines == DOMAIN was.ordered
               receipt == Receipt(t, lines)
               received == [i \in lines |-> was.received[i] + receipt[i]]
               status == IF Fully(was.ordered, received) THEN "received" ELSE "part_received"
    <3>1. /\ Present(was) /\ was.status \in {"approved", "part_received"}
          /\ \A i \in lines : ~(received[i] > was.ordered[i])
          /\ Save(t, Update(t, k, [was EXCEPT !.received = received, !.status = status]))
        BY <1>4, Zenon DEF ReceivePurchaseOrderLines, Has
    <3>2. received = Counted(t, was) /\ status = CountedStatus(t, was)
        BY DEF Counted, CountedStatus
    <3>3. \A i \in lines : received[i] \in Int /\ was.ordered[i] \in Int
      <4>1. was \in OrderRow /\ OrderWhole(was)
          BY <1>1, <1>2, <3>1, ObjectTyped, KeysTold, Zenon DEF DeskInv, OrdersWhole, Tables
      <4>2. DOMAIN was.received = lines /\ was.received \in Seq(Nat) /\ was.ordered \in Seq(Nat)
          BY <4>1 DEF OrderWhole
      <4>3. \A i \in lines : receipt[i] \in Nat
          BY <1>1, ReceiptIsNat
      <4> HIDE DEF receipt
      <4>4. \A s \in Seq(Nat) : \A i \in DOMAIN s : s[i] \in Nat
          OBVIOUS
      <4>5. \A i \in lines : was.received[i] \in Nat /\ was.ordered[i] \in Nat
          BY <4>2, <4>4
      <4> QED BY <4>3, <4>5
    <3> HIDE DEF received, status
    <3> QED BY <3>1, <3>2, <3>3
  <2>2. was \in OrderRow /\ OrderWhole(was)
      BY <1>1, <1>2, <2>1, ObjectTyped, KeysTold DEF DeskInv, OrdersWhole, Tables
  <2>3. Counted(t, was) \in Seq(Nat)
    <3>1. DOMAIN was.ordered = 1..Len(was.ordered) /\ Len(was.ordered) \in Nat
        BY <2>2 DEF OrderWhole
    <3>2. \A i \in DOMAIN was.ordered : was.received[i] \in Nat
      <4>1. DOMAIN was.received = DOMAIN was.ordered /\ was.received \in Seq(Nat)
          BY <2>2 DEF OrderWhole
      <4> QED BY <4>1
    <3>3. \A i \in DOMAIN was.ordered : Receipt(t, DOMAIN was.ordered)[i] \in Nat
        BY <1>1, ReceiptIsNat
    <3>4. \A i \in 1..Len(was.ordered) : was.received[i] + Receipt(t, DOMAIN was.ordered)[i] \in Nat
        BY <3>1, <3>2, <3>3
    <3> QED BY <3>1, <3>4 DEF Counted
  <2>4. CountedStatus(t, was) \in DOMAIN OrderTransitions
      BY DEF OrderTransitions, CountedStatus
  <2>5. /\ new \in OrderRow /\ new.ordered = was.ordered /\ new.received = Counted(t, was)
        /\ new.status = CountedStatus(t, was) /\ DOMAIN new = {"status", "ordered", "received"}
      BY <2>2, <2>3, <2>4 DEF OrderRow
  <2>6. Object(t, k) = was
      BY <1>1, <1>2, DeskObject
  <2> HIDE DEF k, new, was
  <2>7. k[1] \notin Deletable
      BY <1>2 DEF Deletable
  <2>8. /\ Close(t, "created") /\ Reachable(t, Update(t, k, new))
        /\ Present(stored[k]) /\ stored[k] \in OrderRow /\ stored'[k] \in OrderRow
        /\ \A c \in DOMAIN new : stored'[k][c] = IF new[c] = was[c] THEN stored[k][c] ELSE new[c]
        /\ \A l \in Keys \ {k} : stored'[l] = stored[l]
      BY <1>1, <1>2, <1>4, <2>1, <2>5, <2>6, <2>7, UpdatedRow DEF was
  <2>9. /\ stored'[k].ordered = stored[k].ordered
        /\ stored'[k].received = IF Counted(t, was) = was.received THEN stored[k].received ELSE Counted(t, was)
        /\ stored'[k].status = IF CountedStatus(t, was) = was.status THEN stored[k].status ELSE CountedStatus(t, was)
    <3>1. "ordered" \in DOMAIN new /\ "received" \in DOMAIN new /\ "status" \in DOMAIN new
        BY <2>5
    <3> QED BY <2>5, <2>8, <3>1
  <2>10. Present(stored'[k])
      BY <1>2, <2>8, RowIsPresent
  <2>11. Free(k) \/ Holds(t, k)
    <3>1. DOMAIN Update(t, k, new) = {k}
        BY DEF Update, :>
    <3> QED BY <2>8, <3>1 DEF Reachable
  <2>12. OrderCounted(t, k)
      BY <1>1, <2>1, <2>8, <2>9, <2>10, <2>11 DEF OrderCounted, was, k
  <2>13. OthersUntouched("order", k) /\ k \in KeysOf["order"]
      BY <1>2, <2>8 DEF OthersUntouched, KeysOf, Tables
  <2> QED BY <2>3, <2>8, <2>12, <2>13 DEF was
<1> QED BY <1>4

--------------------
(* What becomes of a session                                                *)

\* A session keeps its user and is never good again once it is revoked; a new one
\* is that of the request and of somebody who is there.
SessionMoves(t, k) ==
    \/ stored'[k] = stored[k]
    \/ /\ Present(stored[k]) /\ Present(stored'[k]) /\ stored'[k].user = stored[k].user
       /\ stored[k].revoked => stored'[k].revoked
    \/ /\ k = Session(t) /\ ~Present(stored[k]) /\ Present(stored'[k])
       /\ Present(stored'[User(stored'[k].user)])

LEMMA SessionUpdateStep ==
    ASSUME DeskInv, NEW t \in Txns, pc[t] = "loaded", NEW s \in KeysOf["session"], NEW new \in SessionRow,
           Present(found[t][s]), new.user = Object(t, s).user,
           new.revoked = Object(t, s).revoked \/ new.revoked = TRUE,
           Save(t, Update(t, s, new)), ~Fail(t)
    PROVE  \A k \in KeysOf["session"] : SessionMoves(t, k)
PROOF
<1>1. /\ s \in Keys /\ s[1] = "session" /\ s[1] \notin Deletable /\ DeskRow(s) = SessionRow
      /\ Lasting(s[1]) = {"user"}
    BY RowOfTable, NoneLasts DEF KeysOf, Tables, Deletable
<1>2. /\ Present(stored[s]) /\ stored[s] \in SessionRow /\ stored'[s] \in SessionRow
      /\ \A c \in DOMAIN new : stored'[s][c] = IF new[c] = Object(t, s)[c] THEN stored[s][c] ELSE new[c]
      /\ \A l \in Keys \ {s} : stored'[l] = stored[l]
    BY <1>1, UpdatedRow
<1>3. DOMAIN new = {"user", "token", "revoked"}
    BY DEF SessionRow
<1>4. stored'[s].user = stored[s].user
    BY <1>2, <1>3
<1>5. stored[s].revoked => stored'[s].revoked
    BY <1>2, <1>3
<1>6. Present(stored'[s])
    BY <1>1, <1>2, RowIsPresent
<1>7. \A k \in KeysOf["session"] : k \in Keys
    BY DEF KeysOf, Tables
<1> QED BY <1>2, <1>4, <1>5, <1>6, <1>7 DEF SessionMoves

\* A business that is suspended or rejected: the sessions of its people that the
\* request has found are revoked.
LEMMA RevokeStep ==
    ASSUME DeskInv, NEW t \in Txns, Suspend(t) \/ Reject(t)
    PROVE  \/ stored' = stored
           \/ \A k \in KeysOf["session"] :
                 IF Present(found[t][k]) /\ ~found[t][k].revoked
                    /\ found[t][k].user \in People(found[t], Call[t].tenant)
                 THEN Present(stored'[k]) /\ stored'[k].revoked = TRUE /\ Present(stored[k])
                      /\ stored'[k].user = stored[k].user
                 ELSE stored'[k] = stored[k]
PROOF
<1> DEFINE D == {s \in LiveSessions(t) : found[t][s].user \in People(found[t], Call[t].tenant)}
           r == RevokeTenantSessions(t)
<1>0. pc[t] = "loaded"
    BY HandlesLoaded DEF Suspend, Reject
<1>1. CASE Fail(t) \/ Save(t, Nothing)
  <2>1. CASE Fail(t)
      BY <2>1 DEF Fail
  <2>2. CASE ~Fail(t) /\ Save(t, Nothing)
    <3>1. Commits(t, Nothing) /\ DOMAIN Nothing = {}
        BY <2>2, SaveCommits, NothingSound
    <3>2. stored' = [k \in Keys |-> stored[k]]
        BY <3>1 DEF Commits
    <3>3. stored' = stored
        BY <3>2 DEF DeskInv, Frame
    <3> QED BY <3>3
  <2> QED BY <1>1, <2>1, <2>2
<1>2. ASSUME NEW new \in TenantRow, Present(Loaded(t)), Call[t].do \in {"suspend", "reject"},
             Save(t, Update(t, TenantOf(t), new) @@ r), ~Fail(t)
      PROVE  \A k \in KeysOf["session"] :
                 IF Present(found[t][k]) /\ ~found[t][k].revoked
                    /\ found[t][k].user \in People(found[t], Call[t].tenant)
                 THEN Present(stored'[k]) /\ stored'[k].revoked = TRUE /\ Present(stored[k])
                      /\ stored'[k].user = stored[k].user
                 ELSE stored'[k] = stored[k]
  <2> DEFINE f == Update(t, TenantOf(t), new)
             w == f @@ r
  <2>1. Sound(t, f) /\ OnlyTo(f, {"tenant"}) /\ Sound(t, r)
      BY <1>0, <1>2, TenantUpdate, RevokeSound
  <2>2. Sound(t, w) /\ DOMAIN w = DOMAIN f \cup DOMAIN r
      BY <2>1, BothSound
  <2>3. Commits(t, w)
      BY <1>2, SaveCommits
  <2>4. \A k \in KeysOf["session"] : k \in Keys /\ k[1] = "session" /\ k \notin DOMAIN f
      BY <2>1 DEF OnlyTo, KeysOf, Tables
  <2>5. DOMAIN r = D /\ \A k \in D : r[k] = [revoked |-> TRUE]
      BY DEF RevokeTenantSessions
  <2>6. ASSUME NEW k \in KeysOf["session"], k \in D
        PROVE  Present(stored'[k]) /\ stored'[k].revoked = TRUE /\ Present(stored[k])
               /\ stored'[k].user = stored[k].user
    <3>1. w[k] = [revoked |-> TRUE] /\ k \in DOMAIN w
        BY <2>2, <2>4, <2>5, <2>6 DEF @@
    <3>2. Present(found[t][k]) /\ k[1] \notin Deletable
        BY <2>4, <2>6 DEF LiveSessions, Deletable
    <3> HIDE DEF w
    <3>3. Present(stored[k]) /\ stored'[k] = w[k] @@ stored[k] /\ Present(stored'[k])
        BY <1>0, <2>2, <2>3, <2>4, <3>1, <3>2, CommittedRow
    <3>4. "revoked" \in DOMAIN [revoked |-> TRUE] /\ "user" \notin DOMAIN [revoked |-> TRUE]
        OBVIOUS
    <3>5. stored[k] \in SessionRow
        BY <2>4, <3>3, RowOfTable DEF DeskInv, RowsTyped, RowTyped, Present
    <3>6. DOMAIN stored[k] = {"user", "token", "revoked"}
        BY <3>5 DEF SessionRow
    <3>7. stored'[k].revoked = TRUE /\ stored'[k].user = stored[k].user
        BY <3>1, <3>3, <3>4, <3>6 DEF @@
    <3> QED BY <3>3, <3>7
  <2>7. ASSUME NEW k \in KeysOf["session"], k \notin D
        PROVE  stored'[k] = stored[k]
      BY <2>2, <2>3, <2>4, <2>5, <2>7 DEF Commits
  <2>8. \A k \in KeysOf["session"] : k \in D <=> Present(found[t][k]) /\ ~found[t][k].revoked
                                               /\ found[t][k].user \in People(found[t], Call[t].tenant)
      BY DEF LiveSessions
  <2> HIDE DEF D
  <2> QED BY <2>6, <2>7, <2>8
<1>3. CASE Suspend(t) /\ ~Fail(t) /\ ~Save(t, Nothing)
  <2> DEFINE new == [Loaded(t) EXCEPT !.active = FALSE]
  <2>1. Call[t].do = "suspend" /\ Present(Loaded(t)) /\ Save(t, Update(t, TenantOf(t), new) @@ r)
      BY <1>3, HandlesLoaded DEF Suspend
  <2>2. new \in TenantRow
      BY <1>0, <2>1, PlatformTenant DEF TenantRow
  <2> QED BY <1>2, <1>3, <2>1, <2>2
<1>4. CASE Reject(t) /\ ~Fail(t)
  <2> DEFINE new == [Loaded(t) EXCEPT !.status = "rejected", !.active = FALSE]
  <2>1. Call[t].do = "reject" /\ Present(Loaded(t)) /\ Save(t, Update(t, TenantOf(t), new) @@ r)
      BY <1>4, HandlesLoaded DEF Reject
  <2>2. new \in TenantRow
      BY <1>0, <2>1, PlatformTenant DEF TenantRow
  <2> QED BY <1>2, <1>4, <2>1, <2>2
<1> QED BY <1>1, <1>3, <1>4

LEMMA SessionStep ==
    ASSUME DeskInv, NEW t \in Txns, AccessStep(t) \/ DeskStep(t)
    PROVE  \A k \in KeysOf["session"] : SessionMoves(t, k)
PROOF
<1>0. pc[t] = "loaded" /\ Keeps(t, Tables)
    BY WhoTouches
<1>1. CASE Fail(t) \/ Untouched("session")
    BY <1>1 DEF Fail, Untouched, SessionMoves
<1>2. CASE Refresh(t) /\ ~Fail(t)
  <2> DEFINE k == Session(Call[t].session)
             new == [found[t][k] EXCEPT !.token = t]
  <2>1. Call[t].do = "refresh" /\ Present(found[t][k]) /\ Save(t, Update(t, k, new))
      BY <1>2, HandlesLoaded DEF Refresh
  <2>2. k \in KeysOf["session"] /\ k \in Keys /\ DeskRow(k) = SessionRow
      BY <2>1, DeskAssumption, KeyTables, KeysTold DEF AccessArguments, Tables
  <2>3. Object(t, k) = found[t][k]
      BY <1>0, <2>1 DEF DeskInv, HeldInv, Public, Object
  <2>4. found[t][k] \in SessionRow
      BY <1>0, <2>1, <2>2, ObjectTyped
  <2>5. new \in SessionRow /\ new.user = found[t][k].user /\ new.revoked = found[t][k].revoked
      BY <2>4 DEF SessionRow
  <2> HIDE DEF k, new
  <2> QED BY <1>0, <1>2, <2>1, <2>2, <2>3, <2>5, SessionUpdateStep
<1>3. CASE Logout(t) /\ ~Fail(t)
  <2> DEFINE k == Session(Call[t].session)
             new == [Object(t, k) EXCEPT !.revoked = TRUE]
  <2>1. Call[t].do = "logout" /\ Save(t, Update(t, k, new))
      BY <1>3, HandlesLoaded DEF Logout, Revoked
  <2>2. k \in KeysOf["session"] /\ k \in Keys /\ DeskRow(k) = SessionRow /\ k[1] \notin Deletable
      BY <2>1, DeskAssumption, KeyTables, KeysTold DEF AccessArguments, Tables, Deletable
  <2>3. k \in DOMAIN held[t] /\ Present(held[t][k])
      BY <1>0, <2>1 DEF DeskInv, HeldInv, Public
  <2>4. Object(t, k) \in SessionRow /\ Present(found[t][k])
      BY <1>0, <2>2, <2>3, ObjectTyped
  <2>5. new \in SessionRow /\ new.user = Object(t, k).user /\ new.revoked = TRUE
      BY <2>4 DEF SessionRow
  <2> HIDE DEF k, new
  <2> QED BY <1>0, <1>3, <2>1, <2>2, <2>4, <2>5, SessionUpdateStep
<1>4. CASE Suspend(t) \/ Reject(t)
    BY <1>4, RevokeStep DEF SessionMoves
<1>5. CASE Login(t) /\ ~Fail(t)
  <2> DEFINE u == Call[t].user
             s == Session(t)
             new == [user |-> u, token |-> t, revoked |-> FALSE]
  <2>1. Call[t].do = "login" /\ Present(found[t][User(u)]) /\ Save(t, s :> new)
      BY <1>5, HandlesLoaded DEF Login, NewSession
  <2>2. User(u) \in Keys /\ u \in Users /\ User(u)[1] \notin Deletable
      BY <2>1, DeskAssumption, NamesOfKeys, KeyTables DEF AccessArguments, Deletable
  <2>3. Present(stored[User(u)])
      BY <1>0, <2>1, <2>2 DEF DeskInv, KeptInv
  <2>4. s[1] = "session" /\ s[2] = t /\ new \in DeskRow(s) /\ s[1] \in Numbered /\ s[1] \notin Deletable
      BY <2>2, KeyTables DEF SessionRow, Numbered, Deletable
  <2>5. new.user = u
      OBVIOUS
  <2> HIDE DEF s, new
  <2>6. CASE s \in Keys
    <3>1. ~Present(found[t][s])
        BY <1>0, <2>4, <2>6, OwnNumberFree
    <3>2. ~Present(stored[s]) /\ stored'[s] = new /\ \A l \in Keys \ {s} : stored'[l] = stored[l]
        BY <1>0, <1>5, <2>1, <2>4, <2>6, <3>1, InsertedRow
    <3>3. Present(stored'[s]) /\ Present(stored'[User(u)])
        BY <1>0, <2>2, <2>3, <2>4, <2>6, <3>2, RowIsPresent DEF Keeps
    <3> QED BY <2>5, <3>2, <3>3 DEF SessionMoves, KeysOf, Tables, s
  <2>7. CASE s \notin Keys
    <3>1. Commits(t, s :> new) /\ DOMAIN (s :> new) = {s}
        BY <1>5, <2>1, SaveCommits DEF :>
    <3> QED BY <2>7, <3>1 DEF Commits, SessionMoves, KeysOf, Tables
  <2> QED BY <2>6, <2>7
<1>6. CASE Bootstrap(t) /\ ~Fail(t)
  <2> DEFINE u == Call[t].user
             s == Session(t)
             new == [user |-> u, token |-> t, revoked |-> FALSE]
             a == Business(t, TRUE)
             b == NewSession(t, u)
             w == a @@ b
  <2>1. Call[t].do = "bootstrap" /\ Save(t, w) /\ \A k \in DOMAIN w : ~Present(found[t][k])
      BY <1>6, HandlesLoaded DEF Bootstrap, Create
  <2>2. User(u) \in Keys /\ u \in Users /\ User(u)[1] \notin Deletable
      BY <2>1, DeskAssumption, NamesOfKeys, KeyTables DEF AccessArguments, Deletable
  <2>3. DOMAIN w = DOMAIN a \cup DOMAIN b
      BY DEF @@
  <2>4. /\ Sound(t, a) /\ OnlyTo(a, {"tenant", "user", "branch", "member", "access"})
        /\ Sound(t, b) /\ OnlyTo(b, {"session"})
      BY <1>0, <2>1, <2>2, <2>3, BusinessSound, NewSessionSound
  <2>5. Sound(t, w) /\ Commits(t, w)
      BY <1>6, <2>1, <2>4, BothSound, SaveCommits
  <2>6. User(u) \in DOMAIN w
      BY Zenon DEF Business, :>, @@
  <2>7. DOMAIN b = {s} /\ b[s] = new
      BY DEF NewSession, :>
  <2>8. s[1] = "session" /\ s[2] = t /\ s[1] \notin Deletable /\ s[1] \in Numbered /\ new.user = u
      BY KeyTables DEF Deletable, Numbered
  <2>9. s \notin DOMAIN a
      BY <2>4, <2>8 DEF OnlyTo
  <2>10. s \in DOMAIN w /\ w[s] = new
      BY <2>3, <2>7, <2>9 DEF @@
  <2> HIDE DEF a, b, s, new, w
  <2>11. Present(stored'[User(u)])
      BY <1>0, <2>2, <2>5, <2>6, CommittedRow
  <2>12. \A k \in KeysOf["session"] : k \in Keys /\ (k # s => stored'[k] = stored[k])
      BY <2>3, <2>4, <2>5, <2>7 DEF OnlyTo, KeysOf, Tables, Commits
  <2>13. CASE s \in Keys
    <3>1. ~Present(stored[s])
        BY <1>0, <2>8, <2>13, OwnNumberFree
    <3>2. stored'[s] = new /\ Present(stored'[s])
        BY <1>0, <2>5, <2>8, <2>10, <2>13, <3>1, CommittedRow
    <3> QED BY <2>8, <2>11, <2>12, <3>1, <3>2 DEF SessionMoves, s
  <2> QED BY <2>12, <2>13 DEF SessionMoves
<1> QED BY <1>1, <1>2, <1>3, <1>4, <1>5, <1>6, WhoTouches

--------------------
(* The invariant                                                            *)

LEMMA OrdersStep ==
    ASSUME DeskInv, NEW t \in Txns, AccessStep(t) \/ DeskStep(t), NEW k \in KeysOf["order"], Present(stored'[k])
    PROVE  OrderWhole(stored'[k])
PROOF
<1>1. CASE Untouched("order")
    BY <1>1 DEF Untouched, DeskInv, OrdersWhole
<1>2. CASE CreatePurchaseOrder(t) /\ ~Untouched("order")
  <2>1. OrderMade(t, Order(t)) /\ OthersUntouched("order", Order(t))
      BY <1>2, CreateOrderStep
  <2>2. CASE k = Order(t)
    <3>1. /\ stored'[k].ordered = Call[t].ordered /\ Call[t].ordered \in Seq(Nat \ {0}) \ {<<>>}
          /\ stored'[k].received = [i \in DOMAIN Call[t].ordered |-> 0]
        BY <2>1, <2>2 DEF OrderMade
    <3>2. [i \in DOMAIN Call[t].ordered |-> 0] \in Seq(Nat)
        BY <3>1
    <3> QED BY <3>1, <3>2 DEF OrderWhole
  <2> QED BY <2>1, <2>2 DEF OthersUntouched, DeskInv, OrdersWhole
<1>3. CASE UpdatePurchaseOrderStatus(t) /\ ~Untouched("order")
  <2>1. PICK l \in KeysOf["order"] : OrderMoved(t, l) /\ OthersUntouched("order", l)
      BY <1>3, OrderStatusStep
  <2> QED BY <2>1 DEF OrderMoved, OthersUntouched, DeskInv, OrdersWhole, OrderWhole
<1>4. CASE ReceivePurchaseOrderLines(t) /\ ~Untouched("order")
  <2>1. PICK l \in KeysOf["order"] : /\ OrderCounted(t, l) /\ OthersUntouched("order", l)
                                     /\ Counted(t, found[t][l]) \in Seq(Nat)
      BY <1>4, ReceiveStep DEF Fail, Untouched
  <2>2. CASE k = l
    <3>1. pc[t] = "loaded" /\ Present(found[t][k]) /\ Present(stored[k]) /\ k \in Keys /\ k[1] = "order"
        BY <2>1, <2>2, WhoTouches DEF OrderCounted, KeysOf, Tables
    <3>2. stored[k].ordered = found[t][k].ordered
        BY <3>1, NoneLasts DEF DeskInv, LastingInv
    <3>3. DOMAIN Counted(t, found[t][k]) = DOMAIN found[t][k].ordered
        BY DEF Counted
    <3>4. OrderWhole(stored[k])
        BY <3>1 DEF DeskInv, OrdersWhole
    <3>5. /\ stored'[k].ordered = stored[k].ordered
          /\ stored'[k].received \in {stored[k].received, Counted(t, found[t][k])}
        BY <2>1, <2>2 DEF OrderCounted
    <3> QED BY <2>1, <2>2, <3>2, <3>3, <3>4, <3>5 DEF OrderWhole
  <2> QED BY <2>1, <2>2 DEF OthersUntouched, DeskInv, OrdersWhole
<1> QED BY <1>1, <1>2, <1>3, <1>4, WhoTouches

\* A request that is answered.
LEMMA AnswerInv ==
    ASSUME DeskInv, NEW t \in Txns, AccessStep(t) \/ DeskStep(t)
    PROVE  DeskInv' /\ rivals' = rivals
PROOF
<1>1. pc[t] = "loaded" /\ Keeps(t, Tables) /\ Ends(t)
    BY WhoTouches
<1>2. PICK what \in {"created", "refused"} : Close(t, what)
    BY <1>1 DEF Ends
<1>3. /\ Frame' /\ RivalsInv' /\ rivals' = rivals
      /\ pc' = [pc EXCEPT ![t] = "done"]
      /\ \A u \in Txns : u # t => held'[u] = held[u] /\ found'[u] = found[u]
      /\ held'[t] = Unread
    BY <1>1, <1>2, CloseFrame DEF DeskInv, Ends
<1>4. /\ pc'[t] = "done" /\ \A u \in Txns : u # t => pc'[u] = pc[u]
      /\ DOMAIN held'[t] = {}
    BY <1>3, UnreadIs DEF DeskInv, Frame, RequestsTypeOK
<1>5. RowsTyped'
    BY <1>1, <1>3, <1>4 DEF DeskInv, RowsTyped, Keeps, RowTyped
<1>6. KeptInv'
    BY <1>1, <1>3, <1>4 DEF DeskInv, KeptInv, Keeps
<1>7. LastingInv'
  <2>1. ASSUME NEW u \in Txns, NEW k \in Keys, NEW c \in Lasting(k[1]), pc'[u] = "loaded", Present(found'[u][k])
        PROVE  stored'[k][c] = found'[u][k][c]
    <3>1. u # t /\ pc[u] = "loaded" /\ found'[u] = found[u]
        BY <1>3, <1>4, <2>1
    <3>2. stored[k][c] = found[u][k][c]
        BY <2>1, <3>1 DEF DeskInv, LastingInv
    <3>3. k[1] \notin Deletable
        BY <2>1, NoneLasts DEF Deletable
    <3>4. Present(stored[k])
        BY <2>1, <3>1, <3>3 DEF DeskInv, KeptInv
    <3> QED BY <1>1, <2>1, <3>1, <3>2, <3>4 DEF Keeps
  <2>2. ASSUME NEW k \in Keys, k[1] \in Numbered, k[2] \in Txns, pc'[k[2]] # "done"
        PROVE  ~Present(stored'[k])
    <3>1. k[2] # t /\ pc[k[2]] # "done"
        BY <1>4, <2>2
    <3> QED BY <1>1, <2>2, <3>1 DEF Keeps, DeskInv, LastingInv
  <2> QED BY <2>1, <2>2 DEF LastingInv
<1>8. OrdersWhole'
  <2>1. \A k \in KeysOf["order"] : Present(stored'[k]) => OrderWhole(stored'[k])
      BY OrdersStep
  <2> QED BY <1>3, <1>4, <2>1 DEF DeskInv, OrdersWhole, OrderWhole
<1>9. SessionsOwned'
  <2>1. ASSUME NEW k \in KeysOf["session"], Present(stored'[k])
        PROVE  Present(stored'[User(stored'[k].user)])
    <3>1. \/ Present(stored[k]) /\ stored'[k].user = stored[k].user
          \/ Present(stored'[User(stored'[k].user)])
        BY <2>1, SessionStep DEF SessionMoves
    <3>2. CASE Present(stored[k]) /\ stored'[k].user = stored[k].user
      <4>1. Present(stored[User(stored[k].user)])
          BY <3>2 DEF DeskInv, SessionsOwned
      <4>2. k \in Keys /\ DeskRow(k) = SessionRow
          BY RowOfTable DEF KeysOf, Tables
      <4>3. stored[k].user \in Users
          BY <3>2, <4>2 DEF DeskInv, RowsTyped, RowTyped, Present, SessionRow
      <4>4. User(stored[k].user) \in Keys /\ User(stored[k].user)[1] \notin Deletable
          BY <4>3, NamesOfKeys, KeyTables DEF Deletable
      <4> QED BY <1>1, <3>2, <4>1, <4>4 DEF Keeps
    <3> QED BY <3>1, <3>2
  <2> QED BY <2>1 DEF SessionsOwned
<1>10. HeldInv'
    BY <1>3, <1>4 DEF DeskInv, HeldInv
<1> QED BY <1>3, <1>5, <1>6, <1>7, <1>8, <1>9, <1>10 DEF DeskInv

\* A request that arrives and is turned away.
LEMMA RefusedInv ==
    ASSUME DeskInv, NEW t \in Txns, pc[t] = "idle", Fail(t)
    PROVE  DeskInv' /\ rivals' = rivals
PROOF
<1>1. Close(t, "refused") /\ stored' = stored
    BY DEF Fail
<1>2. stored' = [k \in Keys |-> stored'[k]]
    BY <1>1 DEF DeskInv, Frame
<1>3. /\ Frame' /\ RivalsInv' /\ rivals' = rivals
      /\ pc' = [pc EXCEPT ![t] = "done"]
      /\ \A u \in Txns : u # t => held'[u] = held[u] /\ found'[u] = found[u]
      /\ held'[t] = Unread
    BY <1>1, <1>2, CloseFrame DEF DeskInv
<1>4. /\ pc'[t] = "done" /\ \A u \in Txns : u # t => pc'[u] = pc[u]
      /\ DOMAIN held'[t] = {}
    BY <1>3, UnreadIs DEF DeskInv, Frame, RequestsTypeOK
<1>5. RowsTyped' /\ KeptInv' /\ SessionsOwned'
    BY <1>1, <1>3, <1>4 DEF DeskInv, RowsTyped, RowTyped, KeptInv, SessionsOwned
<1>6. LastingInv' /\ OrdersWhole'
    BY <1>1, <1>3, <1>4 DEF DeskInv, LastingInv, OrdersWhole, OrderWhole
<1>7. HeldInv'
    BY <1>3, <1>4 DEF DeskInv, HeldInv
<1> QED BY <1>3, <1>5, <1>6, <1>7 DEF DeskInv

\* What a request has when it is let in.
LEMMA AdmittedContext ==
    ASSUME DeskInv, NEW t \in Txns, Admitted(stored, t, Needs)
    PROVE  LET c == Call[t]
               s == stored[Session(c.session)]
               D == Context(stored, t) \cap Keys
           IN  /\ c.do \in Public => D = {}
               /\ c.do \notin Public =>
                     /\ Session(c.session) \in D /\ Present(s)
                     /\ User(s.user) \in D /\ Present(stored[User(s.user)])
                     /\ D \subseteq {Session(c.session), User(s.user), Tenant(c.tenant),
                                     Member(c.tenant, s.user), Branch(c.at)}
                     /\ c.do \in OfPlatform \cup {"logout"} => D \subseteq {Session(c.session), User(s.user)}
                     /\ c.do \notin OfPlatform \cup {"logout"} =>
                           LET m == Member(c.tenant, s.user)
                           IN  /\ {Tenant(c.tenant), m} \subseteq D
                               /\ Present(stored[Tenant(c.tenant)]) /\ stored[Tenant(c.tenant)].active
                               /\ Present(stored[m]) /\ stored[m].active
PROOF
<1> DEFINE c == Call[t]
           k == Session(c.session)
           u == stored[k].user
           D == Context(stored, t) \cap Keys
<1>1. CASE c.do \in Public
    BY <1>1 DEF Context
<1>2. CASE c.do \notin Public
  <2>1. Alive(stored, c.session)
      BY <1>2 DEF Admitted, AdmittedAs, AdmittedTo
  <2>2. k \in Keys /\ k \in KeysOf["session"] /\ DeskRow(k) = SessionRow
    <3>1. k \in Keys
        BY <1>2, DeskAssumption DEF AccessArguments, Public
    <3> QED BY <3>1, KeyTables, KeysTold DEF Tables
  <2>3. Present(stored[k]) /\ Sender(stored, t) = u
      BY <2>1 DEF Alive, Sender
  <2>4. stored[k] \in SessionRow
      BY <2>2, <2>3 DEF DeskInv, RowsTyped, RowTyped, Present
  <2>5. u \in Users
      BY <2>4 DEF SessionRow
  <2>6. User(u) \in Keys /\ Present(stored[User(u)])
      BY <2>2, <2>3, <2>5, NamesOfKeys DEF DeskInv, SessionsOwned
  <2>7. Context(stored, t) = {k, User(u)} \cup
             (IF c.do \in OfPlatform \cup {"logout"} THEN {}
              ELSE {Tenant(c.tenant), Member(c.tenant, u), Branch(c.at)})
      BY <1>2, <2>3 DEF Context
  <2>8. ASSUME c.do \notin OfPlatform \cup {"logout"}
        PROVE  LET m == Member(c.tenant, u)
               IN  /\ {Tenant(c.tenant), m} \subseteq D
                   /\ Present(stored[Tenant(c.tenant)]) /\ stored[Tenant(c.tenant)].active
                   /\ Present(stored[m]) /\ stored[m].active
    <3>1. AdmittedTo(stored, t, Needs[c.do])
        BY <1>2, <2>8 DEF Admitted, OfPlatform
    <3>2. BelongsTo(stored, c.tenant, u)
        BY <2>3, <3>1 DEF AdmittedTo
    <3>3. Present(stored[Tenant(c.tenant)]) /\ stored[Tenant(c.tenant)].active
                                            /\ stored[Member(c.tenant, u)].active /\ u \in People(stored, c.tenant)
        BY <3>2 DEF BelongsTo
    <3>4. PICK m \in KeysOf["member"] : m[2] = c.tenant /\ m[3] = u /\ Present(stored[m])
        BY <3>3 DEF People
    <3>5. m = Member(c.tenant, u) /\ m \in Keys
        BY <3>4, KeysTold DEF KeysOf, Tables
    <3>6. Tenant(c.tenant) \in Keys
        BY <1>2, <2>8, DeskAssumption DEF AccessArguments, Public, OfPlatform
    <3> QED BY <2>7, <2>8, <3>3, <3>4, <3>5, <3>6
  <2> QED BY <1>2, <2>2, <2>3, <2>6, <2>7, <2>8
<1> QED BY <1>1, <1>2

LEMMA AuthenticateInv ==
    ASSUME DeskInv, NEW t \in Txns, Authenticate(t, Needs)
    PROVE  DeskInv' /\ rivals' = rivals
PROOF
<1>1. CASE Fail(t)
    BY <1>1, RefusedInv DEF Authenticate
<1>2. CASE Admitted(stored, t, Needs) /\ Enter(t, Context(stored, t))
  <2> DEFINE D == Context(stored, t) \cap Keys
  <2>1. Frame' /\ RivalsInv'
      BY <1>2, EnterFrame DEF DeskInv
  <2>2. /\ pc' = [pc EXCEPT ![t] = "working"] /\ pc[t] = "idle"
        /\ held' = [held EXCEPT ![t] = [k \in D |-> stored[k]]] /\ UNCHANGED <<stored, found, rivals>>
      BY <1>2 DEF Enter, Goto
  <2>3. /\ pc'[t] = "working" /\ \A u \in Txns : u # t => pc'[u] = pc[u] /\ held'[u] = held[u]
        /\ held'[t] = [k \in D |-> stored[k]]
      BY <2>2 DEF DeskInv, Frame, RequestsTypeOK
  <2> HIDE DEF D
  <2>4. DOMAIN held'[t] = D /\ \A k \in D : held'[t][k] = stored[k]
      BY <2>3
  <2>5. D \subseteq Keys
      BY DEF D
  <2>6. RowsTyped' /\ KeptInv'
      BY <2>2, <2>3, <2>4, <2>5 DEF DeskInv, RowsTyped, RowTyped, KeptInv
  <2>7. LastingInv' /\ OrdersWhole' /\ SessionsOwned'
      BY <2>2, <2>3 DEF DeskInv, LastingInv, OrdersWhole, OrderWhole, SessionsOwned
  <2>8. HeldInv'
    <3>1. ASSUME NEW u \in Txns, u # t, pc'[u] \in {"working", "loaded"}
          PROVE  pc[u] \in {"working", "loaded"} /\ held'[u] = held[u]
        BY <2>3, <3>1
    <3>2. LET c == Call[t]
              s == stored[Session(c.session)]
          IN  /\ c.do \in Public => D = {}
              /\ c.do \notin Public =>
                    /\ Session(c.session) \in D /\ Present(s)
                    /\ User(s.user) \in D /\ Present(stored[User(s.user)])
                    /\ D \subseteq {Session(c.session), User(s.user), Tenant(c.tenant),
                                    Member(c.tenant, s.user), Branch(c.at)}
                    /\ c.do \in OfPlatform \cup {"logout"} => D \subseteq {Session(c.session), User(s.user)}
                    /\ c.do \notin OfPlatform \cup {"logout"} =>
                          LET m == Member(c.tenant, s.user)
                          IN  /\ {Tenant(c.tenant), m} \subseteq D
                              /\ Present(stored[Tenant(c.tenant)]) /\ stored[Tenant(c.tenant)].active
                              /\ Present(stored[m]) /\ stored[m].active
        BY <1>2, AdmittedContext DEF D
    <3> QED BY <2>4, <3>1, <3>2 DEF DeskInv, HeldInv
  <2> QED BY <2>1, <2>2, <2>6, <2>7, <2>8 DEF DeskInv
<1> QED BY <1>1, <1>2 DEF Authenticate

LEMMA WaitInv ==
    ASSUME DeskInv, NEW t \in Txns, NEW locks, Wait(t, locks)
    PROVE  DeskInv' /\ rivals' = rivals
PROOF
<1>1. Frame' /\ RivalsInv'
    BY WaitFrame DEF DeskInv
<1>2. UNCHANGED <<pc, stored, held, found, rivals>>
    BY DEF Wait, records
<1>3. RowsTyped' /\ KeptInv' /\ SessionsOwned'
    BY <1>2 DEF DeskInv, RowsTyped, RowTyped, KeptInv, SessionsOwned
<1>4. LastingInv' /\ OrdersWhole' /\ HeldInv'
    BY <1>2 DEF DeskInv, LastingInv, OrdersWhole, OrderWhole, HeldInv
<1> QED BY <1>1, <1>2, <1>3, <1>4 DEF DeskInv

LEMMA LoadInv ==
    ASSUME DeskInv, NEW t \in Txns, NEW locks, Load(t, locks)
    PROVE  /\ DeskInv' /\ \A u, w \in Txns : w \in rivals[u] => w \in rivals'[u]
           /\ pc[t] = "working" /\ pc'[t] = "loaded" /\ \A u \in Txns : u # t => pc'[u] = pc[u] /\ found'[u] = found[u]
           /\ found'[t] = stored /\ UNCHANGED <<stored, held>>
PROOF
<1>1. Frame' /\ RivalsInv' /\ \A u, w \in Txns : w \in rivals[u] => w \in rivals'[u]
    BY LoadFrame DEF DeskInv
<1>2. /\ pc' = [pc EXCEPT ![t] = "loaded"] /\ pc[t] = "working"
      /\ found' = [found EXCEPT ![t] = stored] /\ UNCHANGED <<stored, held>>
    BY DEF Load, At, Goto
<1>3. /\ pc'[t] = "loaded" /\ \A u \in Txns : u # t => pc'[u] = pc[u] /\ found'[u] = found[u]
      /\ found'[t] = stored
    BY <1>2 DEF DeskInv, Frame, RequestsTypeOK
<1>4. RowsTyped' /\ KeptInv' /\ SessionsOwned'
    BY <1>2, <1>3 DEF DeskInv, RowsTyped, RowTyped, KeptInv, SessionsOwned
<1>5. LastingInv' /\ OrdersWhole'
    BY <1>2, <1>3 DEF DeskInv, LastingInv, OrdersWhole, OrderWhole
<1>6. HeldInv'
    BY <1>2, <1>3 DEF DeskInv, HeldInv
<1> QED BY <1>1, <1>2, <1>3, <1>4, <1>5, <1>6 DEF DeskInv

LEMMA StartInv == ASSUME DeskInit PROVE DeskInv
PROOF
<1>1. /\ pc \in [Txns -> {"unsent", "idle"}] /\ answer = [t \in Txns |-> "none"] /\ queue = NoLocks
    BY DEF DeskInit, RecordsInit, RequestsInit
<1>2. /\ stored = AtStart /\ held = [t \in Txns |-> Unread] /\ found = [t \in Txns |-> Unread]
      /\ rivals = [t \in Txns |-> {}]
    BY DEF DeskInit, RecordsInit
<1>3. DOMAIN AtStart = Keys /\ AtStart = [k \in Keys |-> AtStart[k]]
    BY DEF AtStart
<1>4. QueueTypeOK
    BY <1>1 DEF QueueTypeOK, NoLocks
<1>5. \A t \in Txns : pc[t] \in {"unsent", "idle"} /\ held[t] = Unread /\ found[t] = Unread /\ rivals[t] = {}
    BY <1>1, <1>2
<1>6. Frame
  <2>1. RequestsTypeOK({"loaded"})
      BY <1>1, <1>4 DEF RequestsTypeOK
  <2> QED BY <1>2, <1>3, <1>5, <2>1, UnreadIs DEF Frame
<1>7. RivalsInv
    BY <1>2, <1>5 DEF RivalsInv
<1>8. \A k \in Keys : RowTyped(stored, k)
    BY <1>2, DeskAssumption DEF AtStart, RowTyped
<1>9. RowsTyped /\ KeptInv
    BY <1>5, <1>8, UnreadIs DEF RowsTyped, KeptInv
<1>10. LastingInv
    BY <1>2, <1>5, DeskAssumption DEF LastingInv, AtStart, Present
<1>11. OrdersWhole
  <2>1. ASSUME NEW k \in KeysOf["order"], Present(AtStart[k])
        PROVE  OrderWhole(AtStart[k])
    <3>1. /\ AtStart[k].ordered \in Seq(Nat \ {0}) \ {<<>>}
          /\ AtStart[k].received = [i \in DOMAIN AtStart[k].ordered |-> 0]
        BY <2>1, DeskAssumption DEF DeskAtStart
    <3>2. [i \in DOMAIN AtStart[k].ordered |-> 0] \in Seq(Nat)
        BY <3>1
    <3> QED BY <3>1, <3>2 DEF OrderWhole
  <2> QED BY <1>2, <1>5, <2>1 DEF OrdersWhole
<1>12. SessionsOwned
    BY <1>2, AccessAssumption DEF SessionsOwned, AccessAtStart
<1>13. HeldInv
    BY <1>5 DEF HeldInv
<1> QED BY <1>6, <1>7, <1>9, <1>10, <1>11, <1>12, <1>13 DEF DeskInv

\* The steps of a request, with what each of them does to the invariant.
LEMMA StepKinds ==
    ASSUME DeskInv, [DeskNext]_deskVars
    PROVE  /\ DeskInv'
           /\ \A u, w \in Txns : w \in rivals[u] => w \in rivals'[u]
           /\ \/ \E t \in Txns : AccessStep(t) \/ DeskStep(t)
              \/ \E t \in Txns : Authenticate(t, Needs)
              \/ \E t \in Txns : Wait(t, LocksOf(t))
              \/ \E t \in Txns : Load(t, LocksOf(t))
              \/ UNCHANGED deskVars
PROOF
<1>1. CASE UNCHANGED deskVars
  <2>1. UNCHANGED <<pc, answer, queue, stored, held, found, rivals>>
      BY <1>1 DEF deskVars, requests, records
  <2>2. Frame' /\ RivalsInv'
      BY <2>1 DEF DeskInv, Frame, RivalsInv, RequestsTypeOK, QueueTypeOK
  <2>3. RowsTyped' /\ KeptInv' /\ SessionsOwned'
      BY <2>1 DEF DeskInv, RowsTyped, RowTyped, KeptInv, SessionsOwned
  <2>4. LastingInv' /\ OrdersWhole' /\ HeldInv'
      BY <2>1 DEF DeskInv, LastingInv, OrdersWhole, OrderWhole, HeldInv
  <2> QED BY <1>1, <2>1, <2>2, <2>3, <2>4 DEF DeskInv
<1>2. ASSUME NEW t \in Txns,
             \/ Authenticate(t, Needs) \/ Wait(t, LocksOf(t)) \/ Load(t, LocksOf(t))
             \/ AccessStep(t) \/ DeskStep(t)
      PROVE  DeskInv' /\ \A u, w \in Txns : w \in rivals[u] => w \in rivals'[u]
  <2>1. CASE Authenticate(t, Needs)
      BY <2>1, AuthenticateInv
  <2>2. CASE Wait(t, LocksOf(t))
      BY <2>2, WaitInv
  <2>3. CASE Load(t, LocksOf(t))
      BY <2>3, LoadInv
  <2>4. CASE AccessStep(t) \/ DeskStep(t)
      BY <2>4, AnswerInv
  <2> QED BY <1>2, <2>1, <2>2, <2>3, <2>4
<1> QED BY <1>1, <1>2 DEF DeskNext

\* The invariant of the requests: what each has loaded and found, what lasts of
\* the rows, and their types.
THEOREM DeskAlways == DeskSpec => []DeskInv
PROOF
<1>1. DeskInit => DeskInv
    BY StartInv
<1>2. DeskInv /\ [DeskNext]_deskVars => DeskInv'
    BY StepKinds
<1> QED BY <1>1, <1>2, PTL DEF DeskSpec

\* Whatever is written by whichever requests, every row keeps its type: no balance,
\* quantity or total goes below zero.
THEOREM DeskTypes == DeskSpec => []DeskTypeOK
PROOF
<1>1. DeskInv => DeskTypeOK
  <2>1. ASSUME DeskInv PROVE RecordsTypeOK(DeskRow)
    <3>1. \A k \in Keys : stored[k] = Absent \/ stored[k] \in DeskRow(k)
        BY <2>1 DEF DeskInv, RowsTyped, RowTyped
    <3>2. \A t \in Txns : DOMAIN held[t] \subseteq Keys /\ DOMAIN found[t] \in {{}, Keys}
        BY <2>1, UnreadIs DEF DeskInv, Frame
    <3> QED BY <2>1, <3>1, <3>2 DEF RecordsTypeOK, DeskInv, RivalsInv
  <2>2. ASSUME DeskInv PROVE RequestsTypeOK({"loaded"})
      BY <2>2 DEF DeskInv, Frame
  <2> QED BY <2>1, <2>2 DEF DeskTypeOK
<1> QED BY <1>1, DeskAlways, PTL

\* A session that has been revoked stays so, whatever refresh of it was on its way
\* (auth.py:252): the columns that a handler has not changed are not written.
THEOREM RevokedStays == DeskSpec => RevokedForGood
PROOF
<1> DEFINE Good == \A k \in KeysOf["session"] : Present(stored[k]) /\ stored[k].revoked => stored'[k].revoked
<1>1. DeskInv /\ [DeskNext]_deskVars => [Good]_records
  <2> SUFFICES ASSUME DeskInv, [DeskNext]_deskVars, stored' # stored PROVE Good
    BY DEF records
  <2>1. \E t \in Txns : AccessStep(t) \/ DeskStep(t)
      BY StepKinds DEF Authenticate, Enter, Fail, Wait, Load, deskVars, records
  <2>2. \A k \in KeysOf["session"] : \E t : SessionMoves(t, k)
      BY <2>1, SessionStep
  <2> QED BY <2>2 DEF SessionMoves
<1> QED BY <1>1, DeskAlways, PTL DEF DeskSpec, RevokedForGood

--------------------
(* What becomes of businesses, memberships and branches                     *)

LEMMA NothingStep ==
    ASSUME DeskInv, NEW t, Fail(t) \/ Save(t, Nothing)
    PROVE  stored' = stored
PROOF
<1>1. CASE Fail(t)
    BY <1>1 DEF Fail
<1>2. CASE ~Fail(t)
  <2>1. Commits(t, Nothing) /\ DOMAIN Nothing = {}
      BY <1>2, SaveCommits, NothingSound
  <2>2. stored' = [k \in Keys |-> stored[k]]
      BY <2>1 DEF Commits
  <2> QED BY <2>2 DEF DeskInv, Frame
<1> QED BY <1>1, <1>2

\* The members and the branches of a business that is approved are switched on.
LEMMA ApproveStep ==
    ASSUME DeskInv, NEW t \in Txns, Approve(t)
    PROVE  \/ stored' = stored
           \/ /\ Present(found[t][TenantOf(t)])
              /\ \A k \in KeysOf["member"] \cup KeysOf["branch"] :
                    \/ stored'[k] = stored[k] /\ k \notin OfTenant(t, "member")
                    \/ /\ k \in OfTenant(t, "member") \cup OfTenant(t, "branch")
                       /\ Present(stored[k]) /\ Present(stored'[k])
                       /\ k[1] = "member" => /\ stored'[k].role = stored[k].role
                                             /\ stored'[k].active = (found[t][k].active => stored[k].active)
                       /\ k[1] = "branch" => stored'[k].main = stored[k].main
PROOF
<1> DEFINE new == [Loaded(t) EXCEPT !.status = "approved", !.active = TRUE]
           f == Update(t, TenantOf(t), new)
           g == ActivateChildren(t)
           w == f @@ g
           D == OfTenant(t, "member") \cup OfTenant(t, "branch")
<1>1. Call[t].do = "approve" /\ pc[t] = "loaded"
    BY HandlesLoaded DEF Approve
<1>2. CASE Fail(t) \/ Save(t, Nothing)
    BY <1>2, NothingStep
<1>3. CASE ~Fail(t) /\ Present(Loaded(t)) /\ Save(t, w)
  <2>1. new \in TenantRow /\ Present(found[t][TenantOf(t)])
      BY <1>1, <1>3, PlatformTenant DEF TenantRow
  <2>2. Sound(t, f) /\ OnlyTo(f, {"tenant"}) /\ Sound(t, g)
      BY <1>1, <1>3, <2>1, TenantUpdate, ActivateSound
  <2>3. DOMAIN w = DOMAIN f \cup DOMAIN g
      BY DEF @@
  <2>4. Sound(t, w) /\ Commits(t, w)
      BY <1>3, <2>2, BothSound, SaveCommits
  <2>5. DOMAIN g = D /\ \A k \in D : g[k] = Dirty(found[t][k], [found[t][k] EXCEPT !.active = TRUE])
      BY DEF ActivateChildren
  <2>6. \A k \in KeysOf["member"] \cup KeysOf["branch"] :
           k \in Keys /\ k[1] \in {"member", "branch"} /\ k[1] \notin Deletable /\ k \notin DOMAIN f
      BY <2>2 DEF OnlyTo, KeysOf, Tables, Deletable
  <2>7. ASSUME NEW k \in KeysOf["member"] \cup KeysOf["branch"], k \in D
        PROVE  /\ Present(stored[k]) /\ Present(stored'[k])
               /\ k[1] = "member" => /\ stored'[k].role = stored[k].role
                                     /\ stored'[k].active = (found[t][k].active => stored[k].active)
               /\ k[1] = "branch" => stored'[k].main = stored[k].main
    <3> DEFINE row == [found[t][k] EXCEPT !.active = TRUE]
    <3>1. k \in DOMAIN w /\ w[k] = Dirty(found[t][k], row)
        BY <2>3, <2>5, <2>6, <2>7 DEF @@
    <3>2. Present(found[t][k])
        BY <2>7 DEF OfTenant
    <3>3. found[t][k] \in DeskRow(k) /\ (k[1] = "member" => DeskRow(k) = MemberRow) /\ (k[1] = "branch" => DeskRow(k) = BranchRow)
        BY <1>1, <2>6, <3>2, ObjectTyped, RowOfTable
    <3>4. ASSUME k[1] = "member"
          PROVE  /\ row \in MemberRow /\ row.role = found[t][k].role /\ row.active = TRUE
                 /\ DOMAIN row = {"role", "active"} /\ found[t][k].active \in BOOLEAN
      <4>1. found[t][k] \in MemberRow
          BY <3>3, <3>4
      <4> QED BY <4>1 DEF MemberRow
    <3>5. ASSUME k[1] = "branch"
          PROVE  row \in BranchRow /\ row.main = found[t][k].main /\ DOMAIN row = {"tenant", "main", "active"}
      <4>1. found[t][k] \in BranchRow
          BY <3>3, <3>5
      <4> QED BY <4>1 DEF BranchRow
    <3>6. row \in DeskRow(k)
        BY <2>6, <3>3, <3>4, <3>5
    <3> HIDE DEF row, w
    <3>7. /\ Present(stored[k]) /\ stored[k] \in DeskRow(k) /\ stored'[k] \in DeskRow(k)
          /\ \A c \in DOMAIN row : stored'[k][c] = IF row[c] = found[t][k][c] THEN stored[k][c] ELSE row[c]
        BY <1>1, <2>4, <2>6, <3>1, <3>2, <3>6, DirtyRow
    <3>8. Present(stored'[k])
        BY <2>6, <3>7, RowIsPresent
    <3>9. k[1] = "member" => stored'[k].role = stored[k].role
        BY <3>4, <3>7
    <3>10. k[1] = "member" => stored'[k].active = (found[t][k].active => stored[k].active)
      <4>1. CASE k[1] = "member"
        <5>1. stored'[k].active = IF TRUE = found[t][k].active THEN stored[k].active ELSE TRUE
            BY <3>4, <3>7, <4>1
        <5>2. stored[k].active \in BOOLEAN /\ found[t][k].active \in BOOLEAN
          <6>1. stored[k] \in MemberRow
              BY <3>3, <3>7, <4>1
          <6> QED BY <3>4, <4>1, <6>1 DEF MemberRow
        <5> QED BY <5>1, <5>2
      <4> QED BY <4>1
    <3>11. k[1] = "branch" => stored'[k].main = stored[k].main
        BY <3>5, <3>7
    <3> QED BY <3>7, <3>8, <3>9, <3>10, <3>11
  <2>8. ASSUME NEW k \in KeysOf["member"] \cup KeysOf["branch"], k \notin D
        PROVE  stored'[k] = stored[k]
      BY <2>3, <2>4, <2>5, <2>6, <2>8 DEF Commits
  <2> QED BY <2>1, <2>7, <2>8
<1> QED BY <1>2, <1>3 DEF Approve

\* A new business, of a user who is new.
LEMMA BusinessStep ==
    ASSUME DeskInv, NEW t \in Txns, SignUp(t) \/ Bootstrap(t)
    PROVE  \/ stored' = stored
           \/ LET c == Call[t]
                  x == Tenant(c.tenant)
                  m == Member(c.tenant, c.user)
                  b == Branch(c.branch)
              IN  /\ c.do \in {"signup", "bootstrap"} /\ {x, m, b} \subseteq Keys
                  /\ ~Present(stored[x]) /\ ~Present(stored[m]) /\ ~Present(stored[b])
                  /\ \E is \in BOOLEAN :
                        /\ stored'[x] = [status |-> IF is THEN "approved" ELSE "pending", active |-> is, name |-> "first"]
                        /\ stored'[m] = [role |-> "owner", active |-> is]
                        /\ stored'[b] = [tenant |-> c.tenant, main |-> TRUE, active |-> is]
                  /\ \A k \in (KeysOf["tenant"] \cup KeysOf["member"] \cup KeysOf["branch"]) \ {x, m, b} :
                        stored'[k] = stored[k]
PROOF
<1> DEFINE c == Call[t]
           x == Tenant(c.tenant)
           u == User(c.user)
           m == Member(c.tenant, c.user)
           b == Branch(c.branch)
           g == Granted(c.tenant, c.user, c.branch)
           Made(is) == /\ stored'[x] = [status |-> IF is THEN "approved" ELSE "pending", active |-> is, name |-> "first"]
                       /\ stored'[m] = [role |-> "owner", active |-> is]
                       /\ stored'[b] = [tenant |-> c.tenant, main |-> TRUE, active |-> is]
<1>1. c.do \in {"signup", "bootstrap"} /\ pc[t] = "loaded"
    BY HandlesLoaded DEF SignUp, Bootstrap
<1>2. {x, m, b} \subseteq Keys /\ c.user \in Users
    BY <1>1, DeskAssumption, NamesOfKeys DEF AccessArguments
<1>3. /\ x[1] = "tenant" /\ u[1] = "user" /\ m[1] = "member" /\ b[1] = "branch" /\ g[1] = "access"
      /\ x[1] \notin Deletable /\ m[1] \notin Deletable /\ b[1] \notin Deletable
    BY KeyTables DEF Deletable
<1>4. ASSUME NEW is \in BOOLEAN, NEW s, Sound(t, s), OnlyTo(s, {"session"}), ~Fail(t),
             NEW w, w = Business(t, is) @@ s, Save(t, w), \A k \in DOMAIN w : ~Present(found[t][k])
      PROVE  /\ ~Present(stored[x]) /\ ~Present(stored[m]) /\ ~Present(stored[b]) /\ Made(is)
             /\ \A k \in (KeysOf["tenant"] \cup KeysOf["member"] \cup KeysOf["branch"]) \ {x, m, b} :
                   stored'[k] = stored[k]
  <2> DEFINE a == Business(t, is)
             rx == [status |-> IF is THEN "approved" ELSE "pending", active |-> is, name |-> "first"]
             rm == [role |-> "owner", active |-> is]
             rb == [tenant |-> c.tenant, main |-> TRUE, active |-> is]
             A1 == x :> rx
             A2 == u :> [platform |-> "none"]
             A3 == b :> rb
             A4 == m :> rm
             A5 == g :> Assigned
  <2>1. a = A1 @@ A2 @@ A3 @@ A4 @@ A5
      BY DEF Business
  <2>2. /\ DOMAIN A1 = {x} /\ DOMAIN A2 = {u} /\ DOMAIN A3 = {b} /\ DOMAIN A4 = {m} /\ DOMAIN A5 = {g}
        /\ A1[x] = rx /\ A3[b] = rb /\ A4[m] = rm
      BY DEF :>
  <2>3. x # u /\ x # b /\ x # m /\ x # g /\ u # b /\ u # m /\ b # m /\ b # g /\ m # g
      BY <1>3
  <2> HIDE DEF A1, A2, A3, A4, A5, rx, rm, rb, x, u, m, b, g
  <2>4. DOMAIN a = {x, u, b, m, g}
      BY <2>1, <2>2 DEF @@
  <2>5. a[x] = rx
      BY <2>1, <2>2 DEF @@
  <2>6. a[b] = rb
      BY <2>1, <2>2, <2>3 DEF @@
  <2>7. a[m] = rm
      BY <2>1, <2>2, <2>3 DEF @@
  <2>8. DOMAIN w = DOMAIN a \cup DOMAIN s
      BY <1>4 DEF @@
  <2>9. w[x] = rx /\ w[b] = rb /\ w[m] = rm /\ {x, b, m} \subseteq DOMAIN w
      BY <1>4, <2>4, <2>5, <2>6, <2>7, <2>8 DEF @@
  <2>10. Sound(t, a)
      BY <1>1, <1>4, <2>8, BusinessSound
  <2> HIDE DEF a
  <2>11. Sound(t, w) /\ Commits(t, w)
      BY <1>4, <2>10, BothSound, SaveCommits DEF a
  <2>12. \A k \in {x, b, m} : ~Present(stored[k]) /\ stored'[k] = w[k]
      BY <1>1, <1>2, <1>3, <1>4, <2>9, <2>11, CommittedRow
  <2>13. ASSUME NEW k \in (KeysOf["tenant"] \cup KeysOf["member"] \cup KeysOf["branch"]) \ {x, m, b}
         PROVE  stored'[k] = stored[k]
    <3>1. k \in Keys /\ k[1] \in {"tenant", "member", "branch"}
        BY DEF KeysOf, Tables
    <3>2. k \notin DOMAIN a
        BY <1>3, <2>4, <3>1
    <3>3. k \notin DOMAIN s
        BY <1>4, <3>1 DEF OnlyTo
    <3> QED BY <2>8, <2>11, <3>1, <3>2, <3>3 DEF Commits
  <2>14. Made(is)
      BY <2>9, <2>12 DEF rx, rm, rb
  <2> QED BY <2>12, <2>13, <2>14
<1>5. CASE Fail(t)
    BY <1>5 DEF Fail
<1>6. CASE SignUp(t) /\ ~Fail(t)
  <2>1. Save(t, Business(t, FALSE)) /\ \A k \in DOMAIN Business(t, FALSE) : ~Present(found[t][k])
      BY <1>6 DEF SignUp, Create
  <2>2. Sound(t, Nothing) /\ OnlyTo(Nothing, {"session"}) /\ DOMAIN Nothing = {}
      BY NothingSound DEF OnlyTo
  <2>3. Business(t, FALSE) = Business(t, FALSE) @@ Nothing
    <3> DEFINE B == Business(t, FALSE)
    <3>1. B = [k \in DOMAIN B |-> B[k]]
        BY Zenon DEF Business, @@
    <3> HIDE DEF B
    <3>2. B @@ Nothing = [k \in DOMAIN B |-> B[k]]
        BY <2>2 DEF @@
    <3> QED BY <3>1, <3>2 DEF B
  <2> QED BY <1>1, <1>2, <1>4, <1>6, <2>1, <2>2, <2>3
<1>7. CASE Bootstrap(t) /\ ~Fail(t)
  <2> DEFINE w == Business(t, TRUE) @@ NewSession(t, c.user)
  <2>1. Save(t, w) /\ \A k \in DOMAIN w : ~Present(found[t][k])
      BY <1>7 DEF Bootstrap, Create
  <2>2. Sound(t, NewSession(t, c.user)) /\ OnlyTo(NewSession(t, c.user), {"session"})
      BY <1>1, <1>2, NewSessionSound
  <2> QED BY <1>1, <1>2, <1>4, <1>7, <2>1, <2>2
<1> QED BY <1>5, <1>6, <1>7

LEMMA CreateStaffStep ==
    ASSUME DeskInv, NEW t \in Txns, CreateStaff(t)
    PROVE  \/ stored' = stored
           \/ LET m == Member(Call[t].tenant, Call[t].user)
              IN  /\ Call[t].do = "create_staff" /\ m \in Keys /\ ~Present(stored[m])
                  /\ \A k \in KeysOf["member"] \ {m} : stored'[k] = stored[k]
PROOF
<1> DEFINE c == Call[t]
           m == Member(c.tenant, c.user)
           new == [role |-> c.role, active |-> TRUE]
           a == m :> new
           b == [k \in {Granted(c.tenant, c.user, x) : x \in c.branches} |-> Assigned]
           d == IF Present(found[t][User(c.user)]) THEN Nothing ELSE User(c.user) :> [platform |-> "none"]
           w == a @@ b @@ d
<1>1. Call[t].do = "create_staff" /\ pc[t] = "loaded"
    BY HandlesLoaded DEF CreateStaff
<1>2. m \in Keys /\ m[1] = "member" /\ c.role \in Roles /\ m[1] \notin Deletable
    BY <1>1, DeskAssumption, KeyTables DEF AccessArguments, Deletable
<1>3. CASE Fail(t)
    BY <1>3 DEF Fail
<1>4. CASE ~Fail(t)
  <2>1. Save(t, w) /\ ~Present(found[t][m])
      BY <1>4 DEF CreateStaff
  <2>2. new \in MemberRow /\ [platform |-> "none"] \in UserRow
      BY <1>2 DEF MemberRow, UserRow, PlatformRoles
  <2>3. /\ new \in DeskRow(m) /\ Lasting("member") = {} /\ "member" \notin Numbered
        /\ [platform |-> "none"] \in DeskRow(User(c.user)) /\ User(c.user)[1] = "user"
        /\ Lasting("user") = {} /\ "user" \notin Numbered
      BY <2>2, KeyTables, NoneLasts DEF Numbered
  <2> HIDE DEF new
  <2>4. Sound(t, a) /\ DOMAIN a = {m}
      BY <1>2, <2>3, InsertSound
  <2>5. Sound(t, b) /\ OnlyTo(b, {"access"})
      BY GrantedSound
  <2>6. Sound(t, d) /\ OnlyTo(d, {"user"})
    <3>1. Sound(t, d) /\ DOMAIN d \subseteq {User(c.user)}
        BY <2>3, InsertSound, NothingSound
    <3> HIDE DEF d
    <3> QED BY <2>3, <3>1 DEF OnlyTo
  <2> HIDE DEF a, b, d, m
  <2>7. DOMAIN w = DOMAIN a \cup DOMAIN b \cup DOMAIN d
      BY DEF @@
  <2>8. Sound(t, a @@ b)
      BY <2>4, <2>5, BothSound
  <2>9. Sound(t, w) /\ Commits(t, w) /\ m \in DOMAIN w
      BY <1>4, <2>1, <2>4, <2>6, <2>7, <2>8, BothSound, SaveCommits
  <2> HIDE DEF w
  <2>10. ~Present(stored[m])
      BY <1>1, <1>2, <2>1, <2>9, CommittedRow
  <2>11. ASSUME NEW k \in KeysOf["member"] \ {m} PROVE stored'[k] = stored[k]
    <3>1. k \in Keys /\ k[1] = "member"
        BY DEF KeysOf, Tables
    <3>2. k \notin DOMAIN w
        BY <2>4, <2>5, <2>6, <2>7, <3>1 DEF OnlyTo
    <3> QED BY <2>9, <3>1, <3>2 DEF Commits
  <2> QED BY <1>1, <1>2, <2>10, <2>11 DEF m
<1> QED BY <1>3, <1>4

\* Only the role and the activity of the member are set, and nothing of one's own.
LEMMA UpdateStaffStep ==
    ASSUME DeskInv, NEW t \in Txns, UpdateStaff(t)
    PROVE  \/ Untouched("member")
           \/ LET c == Call[t]
                  m == Member(c.tenant, c.user)
                  was == found[t][m]
              IN  /\ c.do = "update_staff" /\ m \in Keys /\ m[2] = c.tenant
                  /\ Present(was) /\ Present(stored[m]) /\ Present(stored'[m])
                  /\ stored'[m].role = IF c.role = was.role THEN stored[m].role ELSE c.role
                  /\ stored'[m].active = IF c.active = was.active THEN stored[m].active ELSE c.active
                  /\ ~LastOwner(t, was)
                  /\ \A k \in KeysOf["member"] \ {m} : stored'[k] = stored[k]
PROOF
<1> DEFINE c == Call[t]
           m == Member(c.tenant, c.user)
           was == Object(t, m)
           now == BranchesOf(t, c.tenant, c.user)
           new == [role |-> c.role, active |-> c.active]
           a == Update(t, m, new)
           b == [g \in {Granted(c.tenant, c.user, x) : x \in now \cup c.branches} |->
                    IF g[4] \in c.branches THEN Assigned ELSE Absent]
           w == a @@ b
           own == c.user = Sender(held[t], t)
<1>1. Call[t].do = "update_staff" /\ pc[t] = "loaded"
    BY HandlesLoaded DEF UpdateStaff
<1>2. m \in Keys /\ c.role \in Roles /\ c.active \in BOOLEAN /\ m[1] = "member" /\ DeskRow(m) = MemberRow
      /\ m[1] \notin Deletable /\ m[2] = c.tenant /\ Lasting(m[1]) = {}
    BY <1>1, DeskAssumption, KeyTables, NoneLasts DEF AccessArguments, Deletable, Member
<1>3. CASE Fail(t)
    BY <1>3 DEF Fail, Untouched
<1>4. CASE ~Fail(t)
  <2>1. /\ Save(t, w) /\ Present(was) /\ ~LastOwner(t, was)
        /\ own => c.role = was.role /\ c.active
      BY <1>4 DEF UpdateStaff
  <2>2. Present(found[t][m]) /\ was \in MemberRow
      BY <1>1, <1>2, <2>1, ObjectTyped
  <2>3. new \in MemberRow /\ DOMAIN new = {"role", "active"} /\ new.role = c.role /\ new.active = c.active
      BY <1>2 DEF MemberRow
  <2>4. Sound(t, a) /\ DOMAIN a = {m} /\ a[m] = Dirty(was, new)
    <3>1. a[m] = Dirty(was, new)
        BY DEF Update, :>
    <3> HIDE DEF new, m, was
    <3>2. Sound(t, Update(t, m, new)) /\ DOMAIN Update(t, m, new) = {m}
        BY <1>2, <2>2, <2>3, UpdateSound
    <3> QED BY <3>1, <3>2
  <2>5. Sound(t, b) /\ OnlyTo(b, {"access"})
      BY GrantedSound
  <2> HIDE DEF a, b, m, new, was
  <2>6. DOMAIN w = DOMAIN a \cup DOMAIN b
      BY DEF @@
  <2>7. Sound(t, w) /\ Commits(t, w) /\ m \in DOMAIN w /\ w[m] = Dirty(was, new)
      BY <1>4, <2>1, <2>4, <2>5, <2>6, BothSound, SaveCommits DEF @@
  <2> HIDE DEF w
  <2>8. /\ Present(stored[m]) /\ stored[m] \in MemberRow /\ stored'[m] \in MemberRow
        /\ \A x \in DOMAIN new : stored'[m][x] = IF new[x] = was[x] THEN stored[m][x] ELSE new[x]
      BY <1>1, <1>2, <2>2, <2>3, <2>7, DirtyRow
  <2>9. /\ stored'[m].role = IF c.role = was.role THEN stored[m].role ELSE c.role
        /\ stored'[m].active = IF c.active = was.active THEN stored[m].active ELSE c.active
      BY <2>3, <2>8
  <2>10. ASSUME NEW k \in KeysOf["member"] \ {m} PROVE stored'[k] = stored[k]
    <3>1. k \in Keys /\ k[1] = "member"
        BY DEF KeysOf, Tables
    <3>2. k \notin DOMAIN w
        BY <2>4, <2>5, <2>6, <3>1 DEF OnlyTo
    <3> QED BY <2>7, <3>1, <3>2 DEF Commits
  <2>11. CASE own
    <3>1. Call[t].do \notin Public \cup OfPlatform \cup {"logout"}
        BY <1>1 DEF Public, OfPlatform
    <3>2. m \in DOMAIN held[t] /\ held[t][m] \in MemberRow /\ held[t][m].active
        BY <1>1, <2>11, <3>1, MemberContext DEF m
    <3>3. was = held[t][m]
        BY <3>2 DEF was, Object
    <3>4. was.active = TRUE /\ c.active = TRUE /\ c.role = was.role
        BY <1>2, <2>1, <2>11, <3>2, <3>3 DEF MemberRow
    <3>5. stored'[m].role = stored[m].role /\ stored'[m].active = stored[m].active
        BY <2>9, <3>4
    <3>6. stored'[m] = stored[m]
      <4>1. \A r, s \in MemberRow : r.role = s.role /\ r.active = s.active => r = s
          BY DEF MemberRow
      <4> QED BY <2>8, <3>5, <4>1
    <3> QED BY <2>10, <3>6 DEF Untouched
  <2>12. CASE ~own
    <3>1. m \notin DOMAIN held[t]
      <4>1. Call[t].do \notin Public \cup OfPlatform \cup {"logout"}
          BY <1>1 DEF Public, OfPlatform
      <4>2. DOMAIN held[t] \subseteq {Session(c.session), User(Sender(held[t], t)), Tenant(c.tenant),
                                      Member(c.tenant, Sender(held[t], t)), Branch(c.at)}
          BY <1>1, <4>1 DEF DeskInv, HeldInv, Sender
      <4>3. m # Member(c.tenant, Sender(held[t], t))
          BY <2>12 DEF m, Member
      <4> QED BY <1>2, <4>2, <4>3, KeyTables
    <3>2. was = found[t][m]
        BY <3>1 DEF was, Object
    <3>3. Present(stored'[m])
        BY <1>2, <2>8, RowIsPresent
    <3> QED BY <1>1, <1>2, <2>1, <2>2, <2>8, <2>9, <2>10, <3>2, <3>3 DEF m
  <2> QED BY <2>11, <2>12
<1> QED BY <1>3, <1>4

\* What a step does to a membership.
MemberMoves(t, k) ==
    LET do == Call[t].do
    IN  \/ stored'[k] = stored[k]
        \/ /\ do = "approve" /\ Present(stored[k]) /\ Present(stored'[k])
           /\ stored'[k].role = stored[k].role
           /\ stored[k].active => stored'[k].active
        \/ /\ k = Member(Call[t].tenant, Call[t].user) /\ ~Present(stored[k]) /\ Tenant(k[2]) \in Keys
           /\ \/ do = "create_staff"
              \/ do \in {"signup", "bootstrap"} /\ ~Present(stored[Tenant(k[2])])
        \/ do = "update_staff" /\ k = Member(Call[t].tenant, Call[t].user) /\ Present(stored[k])

LEMMA MemberStep ==
    ASSUME DeskInv, NEW t \in Txns, AccessStep(t) \/ DeskStep(t), NEW k \in KeysOf["member"]
    PROVE  MemberMoves(t, k)
PROOF
<1>0. /\ pc[t] = "loaded"
      /\ k \in Keys /\ k[1] = "member" /\ DeskRow(k) = MemberRow
    BY WhoTouches, RowOfTable DEF KeysOf, Tables
<1>1. CASE Untouched("member")
    BY <1>1 DEF Untouched, MemberMoves
<1>2. CASE (SignUp(t) \/ Bootstrap(t)) /\ stored' # stored
  <2> DEFINE m == Member(Call[t].tenant, Call[t].user)
  <2>1. m[2] = Call[t].tenant /\ m[1] = "member" /\ Tenant(Call[t].tenant)[1] = "tenant" /\ Branch(Call[t].branch)[1] = "branch"
      BY KeyTables DEF Member
  <2>2. /\ Call[t].do \in {"signup", "bootstrap"}
        /\ ~Present(stored[Tenant(Call[t].tenant)]) /\ ~Present(stored[m]) /\ Tenant(Call[t].tenant) \in Keys
        /\ \A l \in (KeysOf["tenant"] \cup KeysOf["member"] \cup KeysOf["branch"])
                   \ {Tenant(Call[t].tenant), m, Branch(Call[t].branch)} : stored'[l] = stored[l]
      BY <1>2, BusinessStep
  <2> HIDE DEF m
  <2>3. k # m => stored'[k] = stored[k]
      BY <1>0, <2>1, <2>2
  <2> QED BY <2>1, <2>2, <2>3 DEF MemberMoves, m
<1>3. CASE Approve(t) /\ stored' # stored
  <2>1. Call[t].do = "approve"
      BY <1>3, HandlesLoaded DEF Approve
  <2>2. \/ stored'[k] = stored[k]
        \/ /\ Present(stored[k]) /\ Present(stored'[k]) /\ stored'[k].role = stored[k].role
           /\ stored'[k].active = (found[t][k].active => stored[k].active)
      BY <1>0, <1>3, ApproveStep
  <2>3. CASE /\ Present(stored[k]) /\ Present(stored'[k]) /\ stored'[k].role = stored[k].role
             /\ stored'[k].active = (found[t][k].active => stored[k].active)
    <3>1. stored[k].active => stored'[k].active
        BY <2>3
    <3> QED BY <2>1, <2>3, <3>1 DEF MemberMoves
  <2> QED BY <2>2, <2>3 DEF MemberMoves
<1>4. CASE CreateStaff(t) /\ stored' # stored
  <2> DEFINE m == Member(Call[t].tenant, Call[t].user)
  <2>1. /\ Call[t].do = "create_staff" /\ ~Present(stored[m])
        /\ \A l \in KeysOf["member"] \ {m} : stored'[l] = stored[l]
      BY <1>4, CreateStaffStep
  <2>2. m[2] = Call[t].tenant /\ Tenant(Call[t].tenant) \in Keys
      BY <2>1, DeskAssumption DEF AccessArguments, Member
  <2> QED BY <2>1, <2>2 DEF MemberMoves
<1>5. CASE UpdateStaff(t) /\ ~Untouched("member")
    BY <1>5, UpdateStaffStep DEF MemberMoves
<1>6. CASE stored' = stored
    BY <1>6 DEF MemberMoves
<1> QED BY <1>1, <1>2, <1>3, <1>4, <1>5, <1>6, WhoTouches

--------------------
(* The steps, for the invariants that relate requests                       *)

\* a request is answered
Answers(t) ==
    /\ AccessStep(t) \/ DeskStep(t)
    /\ pc[t] = "loaded" /\ pc'[t] = "done" /\ rivals' = rivals
    /\ answer'[t] \in {"created", "refused"} /\ (stored' # stored => answer'[t] = "created")
    /\ \A u \in Txns : u # t => /\ pc'[u] = pc[u] /\ held'[u] = held[u] /\ found'[u] = found[u]
                                /\ answer'[u] = answer[u]
                                /\ pc[u] = "loaded" => t \in rivals[u] /\ u \in rivals[t]

\* it has loaded what it decides on
Loads(t) ==
    /\ Load(t, LocksOf(t))
    /\ pc[t] = "working" /\ pc'[t] = "loaded" /\ found'[t] = stored /\ UNCHANGED <<stored, held, answer>>
    /\ \A u \in Txns : u # t => pc'[u] = pc[u] /\ found'[u] = found[u]

\* nothing is decided: a request arrives, is turned away or waits
Rests ==
    /\ stored' = stored /\ rivals' = rivals
    /\ \A u \in Txns : /\ pc'[u] = "loaded" <=> pc[u] = "loaded"
                       /\ pc[u] = "loaded" => found'[u] = found[u]
                       /\ pc'[u] = "working" => pc[u] = "working" \/ (Authenticate(u, Needs) /\ ~Fail(u))
                       /\ Done(u)' <=> Done(u)

LEMMA AnswerFrame ==
    ASSUME DeskInv, NEW t \in Txns, AccessStep(t) \/ DeskStep(t)
    PROVE  Answers(t)
PROOF
<1>1. pc[t] = "loaded" /\ Ends(t)
    BY WhoTouches
<1>2. PICK what \in {"created", "refused"} : Close(t, what)
    BY <1>1 DEF Ends
<1>3. /\ rivals' = rivals /\ pc' = [pc EXCEPT ![t] = "done"] /\ answer' = [answer EXCEPT ![t] = what]
      /\ \A u \in Txns : u # t => held'[u] = held[u] /\ found'[u] = found[u]
    BY <1>1, <1>2, CloseFrame DEF DeskInv, Ends
<1>4. pc \in [Txns -> {"unsent", "idle", "lookup", "working", "done"} \cup {"loaded"}]
      /\ answer \in [Txns -> {"none", "created", "replayed", "refused"}]
    BY DEF DeskInv, Frame, RequestsTypeOK
<1>5. stored' # stored => answer'[t] = "created"
  <2>1. ASSUME Close(t, "created") PROVE answer'[t] = "created"
      BY <1>4, <2>1 DEF Close, End
  <2> QED BY <1>1, <2>1 DEF Ends
<1>6. \A u \in Txns : u # t /\ pc[u] = "loaded" => t \in rivals[u] /\ u \in rivals[t]
    BY <1>1 DEF DeskInv, RivalsInv
<1> QED BY <1>1, <1>3, <1>4, <1>5, <1>6 DEF Answers

LEMMA RestFrame ==
    ASSUME DeskInv,
           \/ \E t \in Txns : Authenticate(t, Needs) \/ Wait(t, LocksOf(t))
           \/ UNCHANGED deskVars
    PROVE  Rests
PROOF
<1>0. pc \in [Txns -> {"unsent", "idle", "lookup", "working", "done"} \cup {"loaded"}]
      /\ answer \in [Txns -> {"none", "created", "replayed", "refused"}]
    BY DEF DeskInv, Frame, RequestsTypeOK
<1>1. CASE UNCHANGED deskVars
  <2>1. UNCHANGED <<pc, answer, stored, found, rivals>>
      BY <1>1 DEF deskVars, requests, records
  <2> QED BY <2>1 DEF Rests, Done
<1>2. ASSUME NEW t \in Txns, Wait(t, LocksOf(t)) PROVE Rests
  <2>1. UNCHANGED <<pc, answer, stored, found, rivals>>
      BY <1>2 DEF Wait, records
  <2> QED BY <2>1 DEF Rests, Done
<1>3. ASSUME NEW t \in Txns, Authenticate(t, Needs), Fail(t) PROVE Rests
  <2>1. pc[t] = "idle" /\ Close(t, "refused") /\ stored' = stored /\ rivals' = rivals
      BY <1>3 DEF Authenticate, Fail, Close
  <2>2. pc' = [pc EXCEPT ![t] = "done"] /\ answer' = [answer EXCEPT ![t] = "refused"]
        /\ found' = [found EXCEPT ![t] = Unread]
      BY <2>1 DEF Close, End, Goto
  <2>3. \A u \in Txns : u # t => pc'[u] = pc[u] /\ answer'[u] = answer[u] /\ found'[u] = found[u]
      BY <1>0, <2>2 DEF DeskInv, Frame
  <2>4. pc'[t] = "done" /\ answer'[t] = "refused"
      BY <1>0, <2>2
  <2> QED BY <2>1, <2>3, <2>4 DEF Rests, Done
<1>4. ASSUME NEW t \in Txns, Authenticate(t, Needs), ~Fail(t) PROVE Rests
  <2>1. pc[t] = "idle" /\ pc' = [pc EXCEPT ![t] = "working"] /\ UNCHANGED <<answer, stored, found, rivals>>
      BY <1>4 DEF Authenticate, Enter, Goto
  <2>2. \A u \in Txns : u # t => pc'[u] = pc[u]
      BY <1>0, <2>1
  <2>3. pc'[t] = "working"
      BY <1>0, <2>1
  <2> QED BY <1>4, <2>1, <2>2, <2>3 DEF Rests, Done
<1> QED BY <1>1, <1>2, <1>3, <1>4

LEMMA StepCases ==
    ASSUME DeskInv, [DeskNext]_deskVars
    PROVE  /\ DeskInv'
           /\ \A u, w \in Txns : w \in rivals[u] => w \in rivals'[u]
           /\ (\E t \in Txns : Answers(t)) \/ (\E t \in Txns : Loads(t)) \/ Rests
PROOF
<1>1. ASSUME NEW t \in Txns, Load(t, LocksOf(t)) PROVE Loads(t)
    BY <1>1, LoadInv DEF Loads, Load
<1> QED BY <1>1, StepKinds, AnswerFrame, RestFrame

--------------------
(* A business that is shut                                                  *)

\* Who is signed in, and who belongs to a business, was so when a request looked, or
\* has become so by one it was deciding together with.
ShutInv ==
    \A t \in Txns : pc[t] = "loaded" =>
        /\ \A k \in KeysOf["session"] : Present(stored[k]) /\ ~stored[k].revoked =>
              \/ Present(found[t][k]) /\ ~found[t][k].revoked
              \/ \E u \in rivals[t] : k = Session(u)
        /\ \A k \in KeysOf["member"] : Present(stored[k]) =>
              \/ Present(found[t][k])
              \/ \E u \in rivals[t] : Hires(u, k[2], k[3])
              \/ Tenant(k[2]) \in Keys /\ ~Present(found[t][Tenant(k[2])])

LEMMA ShutStep ==
    ASSUME DeskInv, ShutInv, [DeskNext]_deskVars
    PROVE  ShutInv'
PROOF
<1>1. ASSUME NEW t \in Txns, Answers(t) PROVE ShutInv'
  <2>0. AccessStep(t) \/ DeskStep(t)
      BY <1>1 DEF Answers
  <2> SUFFICES ASSUME NEW u \in Txns, pc'[u] = "loaded"
               PROVE  /\ \A k \in KeysOf["session"] : Present(stored'[k]) /\ ~stored'[k].revoked =>
                            \/ Present(found'[u][k]) /\ ~found'[u][k].revoked
                            \/ \E w \in rivals'[u] : k = Session(w)
                      /\ \A k \in KeysOf["member"] : Present(stored'[k]) =>
                            \/ Present(found'[u][k])
                            \/ \E w \in rivals'[u] : Hires(w, k[2], k[3])
                            \/ Tenant(k[2]) \in Keys /\ ~Present(found'[u][Tenant(k[2])])
      BY DEF ShutInv
  <2>1. pc[u] = "loaded" /\ found'[u] = found[u] /\ rivals' = rivals /\ t \in rivals[u]
      BY <1>1 DEF Answers
  <2>2. ASSUME NEW k \in KeysOf["session"], Present(stored'[k]), ~stored'[k].revoked
        PROVE  \/ Present(found[u][k]) /\ ~found[u][k].revoked
               \/ \E w \in rivals[u] : k = Session(w)
    <3>1. SessionMoves(t, k)
        BY <2>0, SessionStep
    <3>2. k = Session(t) \/ (Present(stored[k]) /\ ~stored[k].revoked)
        BY <2>2, <3>1 DEF SessionMoves
    <3> QED BY <2>1, <3>2 DEF ShutInv
  <2>3. ASSUME NEW k \in KeysOf["member"], Present(stored'[k])
        PROVE  \/ Present(found[u][k])
               \/ \E w \in rivals[u] : Hires(w, k[2], k[3])
               \/ Tenant(k[2]) \in Keys /\ ~Present(found[u][Tenant(k[2])])
    <3>1. MemberMoves(t, k)
        BY <2>0, MemberStep
    <3>2. CASE Present(stored[k])
        BY <2>1, <3>2 DEF ShutInv
    <3>3. CASE ~Present(stored[k])
      <4>1. /\ k = Member(Call[t].tenant, Call[t].user) /\ Tenant(k[2]) \in Keys
            /\ Call[t].do = "create_staff" \/ ~Present(stored[Tenant(k[2])])
          BY <2>3, <3>1, <3>3 DEF MemberMoves
      <4>2. Call[t].do = "create_staff" => Hires(t, k[2], k[3])
          BY <4>1 DEF Member, Hires
      <4>3. ~Present(stored[Tenant(k[2])]) => ~Present(found[u][Tenant(k[2])])
          BY <2>1, <4>1, KeyTables DEF DeskInv, KeptInv, Deletable
      <4> QED BY <2>1, <4>1, <4>2, <4>3
    <3> QED BY <3>2, <3>3
  <2> QED BY <2>1, <2>2, <2>3
<1>2. ASSUME NEW t \in Txns, Loads(t), \A u, w \in Txns : w \in rivals[u] => w \in rivals'[u] PROVE ShutInv'
  <2>1. \A u \in Txns : rivals[u] \subseteq Txns
      BY DEF DeskInv, RivalsInv
  <2> QED BY <1>2, <2>1 DEF Loads, ShutInv
<1>3. CASE Rests
    BY <1>3 DEF Rests, ShutInv
<1> QED BY <1>1, <1>2, <1>3, StepCases

LEMMA ShutHandlers ==
    ASSUME DeskInv, NEW t \in Txns, AccessStep(t) \/ DeskStep(t), Call[t].do \in {"suspend", "reject"}
    PROVE  Suspend(t) \/ Reject(t)
PROOF
<1>1. Suspend(t) \/ Reject(t) \/ \E do : do \notin {"suspend", "reject"} /\ Handles(t, do)
  <2>1. CASE AccessStep(t)
      BY <2>1, Zenon DEF AccessStep, SignUp, Bootstrap, Login, Refresh, Logout, Approve, Reactivate,
         SetPlatformRole,
          CurrentSubscription, ListSubscriptions, UpdateSubscription, RenameTenant, CreateBranch, UpdateBranch,
          CreateStaff, UpdateStaff, RegisterDevice, UpdateDevice
  <2>2. CASE DeskStep(t)
      BY <2>2, Zenon DEF DeskStep, CreateShift, UpdateShiftStatus, SelfPunch, CreateAppointment,
         ChangeAppointmentStatus,
          CreateService, UpdateService, SetServiceMaterial, RemoveServiceMaterial,
          CreatePurchaseOrder, UpdatePurchaseOrderStatus, ReceivePurchaseOrderLines,
          CreatePromotion, PostLoyaltyTransaction, CreateDocument, UpdateDocumentStatus, RefreshAlerts, UpdateAlert
  <2> QED BY <2>1, <2>2
<1> QED BY <1>1 DEF Handles

LEMMA ShutTouches ==
    ASSUME DeskInv, NEW t \in Txns, Suspend(t) \/ Reject(t), stored' # stored
    PROVE  Untouched("member") /\ Present(found[t][TenantOf(t)])
PROOF
<1>1. pc[t] = "loaded" /\ Call[t].do \in {"suspend", "reject"}
    BY HandlesLoaded DEF Suspend, Reject
<1>2. Handled(t, {"tenant", "session"})
    BY SuspendHandled, RejectHandled
<1>3. Untouched("member")
    BY <1>1, <1>2, HandledTouches DEF Tables
<1>4. Present(Loaded(t))
    BY DEF Suspend, Reject, Fail
<1> QED BY <1>1, <1>3, <1>4, PlatformTenant

\* What a request that is shutting a business has found: every session that is not
\* revoked and every membership, but for those that are being made meanwhile.
THEOREM ShutKnown == DeskSpec => []ShutInv
PROOF
<1>1. DeskInit => ShutInv
    BY StartInv DEF ShutInv, DeskInit, RecordsInit, RequestsInit
<1>2. DeskInv /\ ShutInv /\ [DeskNext]_deskVars => ShutInv'
    BY ShutStep
<1> QED BY <1>1, <1>2, DeskAlways, PTL DEF DeskSpec

\* Nobody who belongs to a business that is suspended or rejected stays signed in,
\* except by a session or a membership that was being made meanwhile (platform.py:101):
\* the request has found everyone else and revokes their sessions.
THEOREM ShutOut == DeskSpec => ShutMeansOut
PROOF
<1> DEFINE Out == \A t \in Txns : Call[t].do \in {"suspend", "reject"} /\ stored' # stored /\ Done(t)' /\ ~Done(t) =>
                     \A k \in KeysOf["session"] :
                        Present(stored'[k]) /\ ~stored'[k].revoked /\ stored'[k].user \in People(stored', Call[t].tenant) =>
                           \E u \in rivals[t] : k = Session(u) \/ Hires(u, Call[t].tenant, stored'[k].user)
<1>1. DeskInv /\ ShutInv /\ [DeskNext]_deskVars => [Out]_<<stored, requests>>
  <2> SUFFICES ASSUME DeskInv, ShutInv, [DeskNext]_deskVars, NEW t \in Txns,
                      Call[t].do \in {"suspend", "reject"}, stored' # stored, Done(t)', ~Done(t),
                      NEW k \in KeysOf["session"], Present(stored'[k]), ~stored'[k].revoked,
                      stored'[k].user \in People(stored', Call[t].tenant)
               PROVE  \E u \in rivals[t] : k = Session(u) \/ Hires(u, Call[t].tenant, stored'[k].user)
      OBVIOUS
  <2>1. PICK s \in Txns : Answers(s)
      BY StepCases DEF Loads, Rests
  <2>2. s = t
      BY <2>1 DEF Answers, Done
  <2>3. pc[t] = "loaded" /\ (AccessStep(t) \/ DeskStep(t))
      BY <2>1, <2>2 DEF Answers
  <2>4. Suspend(t) \/ Reject(t)
      BY <2>3, HandlesLoaded, ShutHandlers
  <2>5. IF Present(found[t][k]) /\ ~found[t][k].revoked /\ found[t][k].user \in People(found[t], Call[t].tenant)
        THEN stored'[k].revoked = TRUE
        ELSE stored'[k] = stored[k]
      BY <2>4, RevokeStep
  <2>6. stored'[k] = stored[k] /\ ~(Present(found[t][k]) /\ ~found[t][k].revoked
                                     /\ found[t][k].user \in People(found[t], Call[t].tenant))
      BY <2>5
  <2>7. CASE Present(found[t][k]) /\ ~found[t][k].revoked
    <3>1. found[t][k].user = stored'[k].user /\ found[t][k].user \notin People(found[t], Call[t].tenant)
      <4>1. k \in Keys /\ k[1] = "session"
          BY DEF KeysOf, Tables
      <4> QED BY <2>3, <2>6, <2>7, <4>1, NoneLasts DEF DeskInv, LastingInv
    <3>2. PICK m \in KeysOf["member"] : m[2] = Call[t].tenant /\ Present(stored'[m]) /\ m[3] = stored'[k].user
        BY DEF People
    <3>3. stored'[m] = stored[m]
      <4>1. Untouched("member")
          BY <2>3, <2>4, ShutTouches
      <4> QED BY <4>1 DEF Untouched
    <3>4. ~Present(found[t][m])
        BY <3>1, <3>2 DEF People
    <3>5. Present(found[t][TenantOf(t)])
        BY <2>4, ShutTouches
    <3> QED BY <2>3, <3>2, <3>3, <3>4, <3>5 DEF ShutInv, TenantOf
  <2>8. CASE ~(Present(found[t][k]) /\ ~found[t][k].revoked)
      BY <2>3, <2>6, <2>8 DEF ShutInv
  <2> QED BY <2>7, <2>8
<1> QED BY <1>1, DeskAlways, ShutKnown, PTL DEF DeskSpec, ShutMeansOut

--------------------
(* One thing at a time                                                      *)

\* t books l for staff who are free as far as it has found.
BookedBy(t, l) ==
    /\ l = Appointment(t) /\ ~Present(stored[l]) /\ Present(stored'[l]) /\ stored'[l] \in AppointmentRow
    /\ stored'[l].staff = "nobody" \/ ~Conflicting(t, stored'[l])

\* t sets the status of l to one that may follow the one it has found.
MovedBy(t, l) ==
    /\ Call[t].do = "appointment_status" /\ l = Appointment(Call[t].row)
    /\ Present(found[t][l]) /\ Present(stored[l]) /\ Present(stored'[l])
    /\ \A c \in {"staff", "from", "to"} : stored'[l][c] = stored[l][c]
    /\ stored'[l].status \in Transitions[found[t][l].status]
    /\ stored'[l].status \in Standing => found[t][l].status \in Standing

LEMMA BookStep ==
    ASSUME DeskInv, NEW t \in Txns, CreateAppointment(t)
    PROVE  \/ Untouched("appointment")
           \/ \E l \in KeysOf["appointment"] : BookedBy(t, l) /\ OthersUntouched("appointment", l)
PROOF
<1> DEFINE c == Call[t]
           s == Service(c.service)
           k == Appointment(t)
           new == [staff |-> c.user, from |-> c.from, to |-> c.from + found[t][s].duration,
                   status |-> "scheduled"]
<1>1. Call[t].do = "book" /\ pc[t] = "loaded"
    BY HandlesLoaded DEF CreateAppointment
<1>2. c.user \in Users \cup {"nobody"} /\ c.from \in Nat /\ s \in Keys
    BY <1>1, DeskAssumption DEF DeskArguments
<1>3. CASE Fail(t)
    BY <1>3 DEF Fail, Untouched
<1>4. CASE ~Fail(t)
  <2>1. /\ Present(found[t][s]) /\ Save(t, k :> new)
        /\ c.user = "nobody" \/ ~Conflicting(t, new)
      BY <1>4 DEF CreateAppointment, Has
  <2>2. found[t][s] \in ServiceRow
      BY <1>1, <1>2, <2>1, ObjectTyped, KeyTables
  <2>3. new \in AppointmentRow /\ new.staff = c.user
      BY <1>2, <2>2 DEF ServiceRow, AppointmentRow, Booking, Transitions
  <2>4. k[1] = "appointment" /\ k[2] = t /\ DeskRow(k) = AppointmentRow /\ k[1] \in Numbered /\ k[1] \notin Deletable
      BY KeyTables DEF Numbered, Deletable
  <2> HIDE DEF new, k
  <2>5. CASE k \notin Keys
    <3>1. Commits(t, k :> new) /\ DOMAIN (k :> new) = {k}
        BY <1>4, <2>1, SaveCommits DEF :>
    <3> QED BY <2>5, <3>1 DEF Commits, Untouched, KeysOf, Tables
  <2>6. CASE k \in Keys
    <3>1. ~Present(found[t][k])
        BY <1>1, <2>4, <2>6, OwnNumberFree
    <3>2. ~Present(stored[k]) /\ stored'[k] = new /\ \A l \in Keys \ {k} : stored'[l] = stored[l]
        BY <1>1, <1>4, <2>1, <2>3, <2>4, <2>6, <3>1, InsertedRow
    <3>3. Present(new)
        BY <2>3, <2>4, <2>6, RowIsPresent
    <3>4. k \in KeysOf["appointment"]
        BY <2>4, <2>6 DEF KeysOf, Tables
    <3>5. OthersUntouched("appointment", k)
        BY <3>2 DEF OthersUntouched, KeysOf, Tables
    <3>6. BookedBy(t, k)
        BY <2>1, <2>3, <3>2, <3>3 DEF BookedBy, k
    <3> QED BY <3>4, <3>5, <3>6
  <2> QED BY <2>5, <2>6
<1> QED BY <1>3, <1>4

LEMMA AppointmentStep ==
    ASSUME DeskInv, NEW t \in Txns, ChangeAppointmentStatus(t)
    PROVE  \/ Untouched("appointment")
           \/ \E l \in KeysOf["appointment"] : MovedBy(t, l) /\ OthersUntouched("appointment", l)
PROOF
<1> DEFINE k == Appointment(Call[t].row)
           to == Call[t].status
           ok == to \in Transitions[found[t][k].status]
<1>1. Call[t].do = "appointment_status" /\ pc[t] = "loaded"
    BY HandlesLoaded DEF ChangeAppointmentStatus
<1>2. /\ k \in Keys /\ k[1] = "appointment" /\ DeskRow(k) = AppointmentRow
      /\ Lasting(k[1]) = {"staff", "from", "to"} /\ k[1] \notin Deletable
    BY <1>1, DeskAssumption, KeyTables, NoneLasts DEF DeskArguments, Deletable
<1>3. SetStatus(t, k, ok)
    BY DEF ChangeAppointmentStatus
<1>4. Present(found[t][k]) => found[t][k] \in AppointmentRow
    BY <1>1, <1>2, ObjectTyped
<1>5. ok /\ Present(found[t][k]) =>
         /\ to \in DOMAIN Transitions /\ to # found[t][k].status /\ to \in Transitions[found[t][k].status]
         /\ to \in Standing => found[t][k].status \in Standing
  <2>1. \A from \in DOMAIN Transitions :
           /\ Transitions[from] \subseteq DOMAIN Transitions /\ from \notin Transitions[from]
           /\ \A x \in Transitions[from] : x \in Standing => from \in Standing
      BY DEF Transitions, Standing
  <2>2. Present(found[t][k]) => found[t][k].status \in DOMAIN Transitions
      BY <1>4 DEF AppointmentRow, Booking
  <2> QED BY <2>1, <2>2
<1>6. ok /\ Present(found[t][k]) => /\ [found[t][k] EXCEPT !.status = Call[t].status] \in AppointmentRow
                                    /\ DOMAIN found[t][k] = {"status", "staff", "from", "to"}
    BY <1>4, <1>5 DEF AppointmentRow, Booking
<1>7. CASE Fail(t)
    BY <1>7 DEF Fail, Untouched
<1>8. CASE ~Fail(t)
  <2> HIDE DEF ok, k
  <2>1. /\ ok /\ Present(found[t][k]) /\ Present(stored[k]) /\ Present(stored'[k])
        /\ stored'[k].status = IF to = found[t][k].status THEN stored[k].status ELSE to
        /\ \A c \in DOMAIN found[t][k] \ {"status"} : stored'[k][c] = stored[k][c]
        /\ \A l \in Keys \ {k} : stored'[l] = stored[l]
      BY <1>1, <1>2, <1>3, <1>6, <1>8, StatusStep
  <2>2. MovedBy(t, k)
      BY <1>1, <1>5, <1>6, <2>1 DEF MovedBy, k
  <2>3. OthersUntouched("appointment", k) /\ k \in KeysOf["appointment"]
      BY <1>2, <2>1 DEF OthersUntouched, KeysOf, Tables
  <2> QED BY <2>2, <2>3
<1> QED BY <1>7, <1>8

\* t clocks in or out, after everything that its sender has done.
PunchedBy(t, l) ==
    /\ l = Punch(t) /\ ~Present(stored[l]) /\ Present(stored'[l]) /\ stored'[l] \in PunchRow
    /\ stored'[l].at = 1 + LastPunch(stored, stored'[l].staff).at
    /\ LastPunch(found[t], stored'[l].staff).kind # stored'[l].kind

LEMMA PunchStep ==
    ASSUME DeskInv, NEW t \in Txns, SelfPunch(t)
    PROVE  \/ Untouched("punch")
           \/ \E l \in KeysOf["punch"] : PunchedBy(t, l) /\ OthersUntouched("punch", l)
PROOF
<1> DEFINE u == Sender(held[t], t)
           k == Punch(t)
           new == [staff |-> u, kind |-> Call[t].kind, at |-> 1 + LastPunch(stored, u).at]
<1>1. Call[t].do = "punch" /\ pc[t] = "loaded"
    BY HandlesLoaded DEF SelfPunch
<1>2. Call[t].kind \in {"in", "out"} /\ Call[t].do \notin Public \cup OfPlatform \cup {"logout"}
    BY <1>1, DeskAssumption DEF DeskArguments, Public, OfPlatform
<1>3. u \in Users
    BY <1>1, <1>2, MemberContext
<1>4. \A l \in KeysOf["punch"] : Present(stored[l]) => stored[l] \in PunchRow
  <2>1. \A l \in KeysOf["punch"] : l \in Keys /\ l[1] = "punch"
      BY DEF KeysOf, Tables
  <2> QED BY <2>1, RowOfTable DEF DeskInv, RowsTyped, RowTyped, Present
<1>5. LastPunch(stored, u).at \in Nat
    BY <1>4, LastPunchIs
<1>6. new \in PunchRow /\ new.staff = u /\ new.kind = Call[t].kind /\ new.at = 1 + LastPunch(stored, u).at
    BY <1>2, <1>3, <1>5 DEF PunchRow
<1>7. CASE Fail(t)
    BY <1>7 DEF Fail, Untouched
<1>8. CASE ~Fail(t)
  <2>1. Save(t, k :> new) /\ LastPunch(found[t], u).kind # Call[t].kind
      BY <1>8 DEF SelfPunch
  <2>2. k[1] = "punch" /\ k[2] = t /\ DeskRow(k) = PunchRow /\ k[1] \in Numbered /\ k[1] \notin Deletable
      BY KeyTables DEF Numbered, Deletable
  <2> HIDE DEF new, k, u
  <2>3. CASE k \notin Keys
    <3>1. Commits(t, k :> new) /\ DOMAIN (k :> new) = {k}
        BY <1>8, <2>1, SaveCommits DEF :>
    <3> QED BY <2>3, <3>1 DEF Commits, Untouched, KeysOf, Tables
  <2>4. CASE k \in Keys
    <3>1. ~Present(found[t][k])
        BY <1>1, <2>2, <2>4, OwnNumberFree
    <3>2. ~Present(stored[k]) /\ stored'[k] = new /\ \A l \in Keys \ {k} : stored'[l] = stored[l]
        BY <1>1, <1>6, <1>8, <2>1, <2>2, <2>4, <3>1, InsertedRow
    <3>3. Present(new)
        BY <1>6, <2>2, <2>4, RowIsPresent
    <3>4. k \in KeysOf["punch"]
        BY <2>2, <2>4 DEF KeysOf, Tables
    <3>5. OthersUntouched("punch", k)
        BY <3>2 DEF OthersUntouched, KeysOf, Tables
    <3>6. PunchedBy(t, k)
        BY <1>6, <2>1, <3>2, <3>3 DEF PunchedBy, k
    <3> QED BY <3>4, <3>5, <3>6
  <2> QED BY <2>3, <2>4
<1> QED BY <1>7, <1>8

\* An appointment that stands was found standing, and a punch was found, except one
\* of a request that decided together; what overlapped when a request looked was
\* booked together, and nobody has two punches at a time.
OneThingInv ==
    /\ \A t \in Txns : pc[t] = "loaded" =>
          /\ \A l \in KeysOf["appointment"] : Present(stored[l]) =>
                \/ Present(found[t][l]) /\ (stored[l].status \in Standing => found[t][l].status \in Standing)
                \/ \E u \in Touching(l) : u \in rivals[t]
          /\ \A l \in KeysOf["punch"] : Present(stored[l]) => Present(found[t][l]) \/ l[2] \in rivals[t]
          /\ \A k, l \in KeysOf["appointment"] : Clash(found[t], k, l) => Together(k, l)
    /\ \A k, l \in KeysOf["punch"] :
          k # l /\ Present(stored[k]) /\ Present(stored[l]) /\ stored[k].staff = stored[l].staff
          => stored[k].at # stored[l].at
    /\ OneThingAtATime

LEMMA TogetherBoth ==
    ASSUME DeskInv, NEW k, NEW l
    PROVE  /\ Together(k, l) => Together(l, k)
           /\ (\A u, w \in Txns : w \in rivals[u] => w \in rivals'[u]) => (Together(k, l) => Together(k, l)')
PROOF
<1>1. Touching(k) \subseteq Txns /\ Touching(l) \subseteq Txns
    BY DEF Touching
<1> QED BY <1>1 DEF Together, DeskInv, RivalsInv

LEMMA ClashBoth ==
    ASSUME NEW v, NEW k, NEW l, v[k] \in AppointmentRow, v[l] \in AppointmentRow, Clash(v, k, l)
    PROVE  Clash(v, l, k)
PROOF
<1>1. v[k].from \in Nat /\ v[k].to \in Nat /\ v[l].from \in Nat /\ v[l].to \in Nat
    BY DEF AppointmentRow, Booking
<1> QED BY <1>1 DEF Clash, Overlap

LEMMA AppointmentsTyped ==
    ASSUME DeskInv, NEW l \in KeysOf["appointment"]
    PROVE  /\ l \in Keys /\ l[1] = "appointment" /\ DeskRow(l) = AppointmentRow
           /\ Lasting(l[1]) = {"staff", "from", "to"} /\ l[1] \notin Deletable
           /\ Present(stored[l]) => stored[l] \in AppointmentRow
           /\ \A t \in Txns : pc[t] = "loaded" /\ Present(found[t][l]) =>
                 /\ found[t][l] \in AppointmentRow /\ Present(stored[l])
                 /\ \A c \in {"staff", "from", "to"} : stored[l][c] = found[t][l][c]
PROOF
<1>1. l \in Keys /\ l[1] = "appointment" /\ DeskRow(l) = AppointmentRow /\ l[1] \notin Deletable
    BY RowOfTable DEF KeysOf, Tables, Deletable
<1>2. Lasting(l[1]) = {"staff", "from", "to"}
    BY <1>1, NoneLasts
<1>3. Present(stored[l]) => stored[l] \in AppointmentRow
    BY <1>1 DEF DeskInv, RowsTyped, RowTyped, Present
<1>4. \A t \in Txns : pc[t] = "loaded" /\ Present(found[t][l]) =>
                 /\ found[t][l] \in AppointmentRow /\ Present(stored[l])
                 /\ \A c \in {"staff", "from", "to"} : stored[l][c] = found[t][l][c]
    BY <1>1, <1>2 DEF DeskInv, RowsTyped, RowTyped, Present, KeptInv, LastingInv
<1> QED BY <1>1, <1>2, <1>3, <1>4

\* Whatever clashes with what t has written was booked together with it.
LEMMA ClashStep ==
    ASSUME DeskInv, OneThingInv, DeskInv', NEW t \in Txns, pc[t] = "loaded", rivals' = rivals,
           NEW k \in KeysOf["appointment"], BookedBy(t, k) \/ MovedBy(t, k),
           OthersUntouched("appointment", k),
           NEW l \in KeysOf["appointment"], Clash(stored', k, l)
    PROVE  Together(k, l)
PROOF
<1>1. /\ k # l /\ stored'[l] = stored[l] /\ Present(stored[l]) /\ Present(stored'[k])
      /\ stored'[k].staff = stored[l].staff /\ stored'[k].staff # "nobody"
      /\ stored'[k].status \in Standing /\ stored[l].status \in Standing
      /\ Overlap(stored'[k], stored[l])
    BY DEF Clash, OthersUntouched
<1>2. t \in Touching(k)
  <2>1. k[2] = t \/ (Call[t].do = "appointment_status" /\ k[2] = Call[t].row)
      BY DEF BookedBy, MovedBy, Appointment
  <2> QED BY <2>1 DEF Touching
<1>3. CASE \E u \in Touching(l) : u \in rivals[t]
    BY <1>2, <1>3 DEF Together
<1>4. CASE Present(found[t][l]) /\ found[t][l].status \in Standing
  <2>1. /\ stored[l] \in AppointmentRow /\ found[t][l] \in AppointmentRow
        /\ \A c \in {"staff", "from", "to"} : stored[l][c] = found[t][l][c]
      BY <1>1, <1>4, AppointmentsTyped
  <2>2. stored[l].staff = found[t][l].staff /\ stored[l].from = found[t][l].from /\ stored[l].to = found[t][l].to
      BY <2>1
  <2>3. stored'[k] \in AppointmentRow
      BY <1>1, AppointmentsTyped DEF DeskInv, RowsTyped, RowTyped, Present
  <2>4. /\ stored[l].from \in Nat /\ stored[l].to \in Nat /\ stored'[k].from \in Nat /\ stored'[k].to \in Nat
      BY <2>1, <2>3 DEF AppointmentRow, Booking
  <2>5. CASE BookedBy(t, k)
    <3>1. ~Conflicting(t, stored'[k])
        BY <1>1, <2>5 DEF BookedBy
    <3>2. l \in Rows(t, "appointment")
        BY <1>4 DEF Rows
    <3>3. Overlap(found[t][l], stored'[k])
        BY <1>1, <2>2, <2>4 DEF Overlap
    <3> QED BY <1>1, <1>4, <2>2, <3>1, <3>2, <3>3 DEF Conflicting
  <2>6. CASE MovedBy(t, k)
    <3>1. /\ Present(found[t][k]) /\ found[t][k].status \in Standing
          /\ stored'[k].staff = stored[k].staff /\ stored'[k].from = stored[k].from /\ stored'[k].to = stored[k].to
        BY <1>1, <2>6 DEF MovedBy
    <3>2. \A c \in {"staff", "from", "to"} : stored[k][c] = found[t][k][c]
        BY <3>1, AppointmentsTyped
    <3>3. stored[k].staff = found[t][k].staff /\ stored[k].from = found[t][k].from /\ stored[k].to = found[t][k].to
        BY <3>2
    <3>4. Overlap(found[t][k], found[t][l])
        BY <1>1, <2>2, <3>1, <3>3 DEF Overlap
    <3>5. Clash(found[t], k, l)
        BY <1>1, <1>4, <2>2, <3>1, <3>3, <3>4 DEF Clash
    <3> QED BY <3>5 DEF OneThingInv
  <2> QED BY <2>5, <2>6
<1> QED BY <1>1, <1>3, <1>4 DEF OneThingInv

LEMMA PunchesTyped ==
    ASSUME DeskInv, NEW l \in KeysOf["punch"]
    PROVE  /\ l \in Keys /\ l[1] = "punch"
           /\ Present(stored[l]) => stored[l] \in PunchRow
           /\ \A t \in Txns : pc[t] = "loaded" /\ Present(found[t][l]) =>
                 found[t][l] \in PunchRow /\ Present(stored[l]) /\ stored[l] = found[t][l]
PROOF
<1>1. l \in Keys /\ l[1] = "punch" /\ DeskRow(l) = PunchRow /\ l[1] \notin Deletable
    BY RowOfTable DEF KeysOf, Tables, Deletable
<1>2. Lasting(l[1]) = {"staff", "kind", "at"}
    BY <1>1 DEF Lasting
<1>3. Present(stored[l]) => stored[l] \in PunchRow
    BY <1>1 DEF DeskInv, RowsTyped, RowTyped, Present
<1>4. \A t \in Txns : pc[t] = "loaded" /\ Present(found[t][l]) =>
                 /\ found[t][l] \in PunchRow /\ Present(stored[l])
                 /\ \A c \in {"staff", "kind", "at"} : stored[l][c] = found[t][l][c]
    BY <1>1, <1>2 DEF DeskInv, RowsTyped, RowTyped, Present, KeptInv, LastingInv
<1>5. \A r, s \in PunchRow : (\A c \in {"staff", "kind", "at"} : r[c] = s[c]) => r = s
    BY DEF PunchRow
<1> QED BY <1>1, <1>3, <1>4, <1>5

\* The new punch differs from the last one that was found, and there is none later.
LEMMA TwiceStep ==
    ASSUME DeskInv, OneThingInv, NEW t \in Txns, pc[t] = "loaded", rivals' = rivals,
           NEW p \in KeysOf["punch"], PunchedBy(t, p), OthersUntouched("punch", p),
           NEW k \in KeysOf["punch"], NEW l \in KeysOf["punch"]
    PROVE  /\ k # l /\ Present(stored'[k]) /\ Present(stored'[l]) /\ stored'[k].staff = stored'[l].staff
              => stored'[k].at # stored'[l].at
           /\ TwiceInARow(stored', k, l) => Together(k, l)
PROOF
<1> DEFINE u == stored'[p].staff
<1>1. /\ p = Punch(t) /\ ~Present(stored[p]) /\ Present(stored'[p]) /\ stored'[p] \in PunchRow
      /\ stored'[p].at = 1 + LastPunch(stored, u).at
      /\ LastPunch(found[t], u).kind # stored'[p].kind
    BY DEF PunchedBy
<1>2. \A m \in KeysOf["punch"] : m # p => stored'[m] = stored[m]
    BY DEF OthersUntouched
<1>3. \A m \in KeysOf["punch"] : Present(stored[m]) => stored[m] \in PunchRow
    BY PunchesTyped
<1>4. LastPunch(stored, u).at \in Nat /\ \A m \in PunchesOf(stored, u) : stored[m].at <= LastPunch(stored, u).at
    BY <1>3, LastPunchIs
<1>5. \A m \in KeysOf["punch"] : Present(stored[m]) => stored[m].at \in Nat
    BY <1>3 DEF PunchRow
<1> HIDE DEF u
<1>6. \A m \in KeysOf["punch"] : m # p /\ Present(stored'[m]) /\ stored'[m].staff = u =>
         stored'[m].at \in Nat /\ stored'[m].at <= LastPunch(stored, u).at /\ m \in PunchesOf(stored, u)
    BY <1>2, <1>4, <1>5 DEF PunchesOf
<1>7. ASSUME k # l, Present(stored'[k]), Present(stored'[l]), stored'[k].staff = stored'[l].staff
      PROVE  stored'[k].at # stored'[l].at
  <2>1. CASE k # p /\ l # p
      BY <1>2, <1>7, <2>1 DEF OneThingInv
  <2>2. CASE k = p \/ l = p
      BY <1>1, <1>4, <1>6, <1>7, <2>2 DEF u
  <2> QED BY <2>1, <2>2
<1>8. ASSUME TwiceInARow(stored', k, l) PROVE Together(k, l)
  <2>0. /\ Present(stored'[k]) /\ Present(stored'[l]) /\ stored'[k].staff = stored'[l].staff
        /\ stored'[l].at = stored'[k].at + 1 /\ stored'[k].kind = stored'[l].kind
      BY <1>8 DEF TwiceInARow
  <2>1. CASE k # p /\ l # p
    <3>1. TwiceInARow(stored, k, l)
        BY <1>2, <2>0, <2>1 DEF TwiceInARow
    <3> QED BY <3>1 DEF OneThingInv, OneThingAtATime
  <2>2. CASE k = p
    <3>1. stored'[k].at = 1 + LastPunch(stored, u).at /\ stored'[k].at \in Nat
        BY <1>1, <1>4, <2>2
    <3>2. l # p
        BY <2>0, <2>2, <3>1
    <3>3. stored'[l].at <= LastPunch(stored, u).at /\ stored'[l].at \in Nat
        BY <1>6, <2>0, <2>2, <3>2 DEF u
    <3> QED BY <1>4, <2>0, <3>1, <3>3
  <2>3. CASE k # p /\ l = p
    <3>1. /\ k \in PunchesOf(stored, u) /\ stored'[k] = stored[k] /\ Present(stored[k])
          /\ stored[k].staff = u /\ stored[k].at = LastPunch(stored, u).at
        BY <1>1, <1>2, <1>4, <1>6, <2>0, <2>3 DEF u
    <3>2. CASE Present(found[t][k])
      <4>1. k \in PunchesOf(found[t], u) /\ found[t][k] = stored[k]
          BY <3>1, <3>2, PunchesTyped DEF PunchesOf
      <4>2. \A m \in KeysOf["punch"] : Present(found[t][m]) => found[t][m] \in PunchRow
          BY PunchesTyped
      <4>3. PICK m \in PunchesOf(found[t], u) : LastPunch(found[t], u) = found[t][m]
          BY <4>1, <4>2, LastPunchIs
      <4>4. found[t][k].at <= found[t][m].at
          BY <4>1, <4>2, <4>3, LastPunchIs
      <4>5. m \in KeysOf["punch"] /\ stored[m] = found[t][m] /\ Present(stored[m]) /\ stored[m].staff = u
          BY <4>3, PunchesTyped DEF PunchesOf
      <4>6. stored[m].at <= stored[k].at
          BY <1>4, <3>1, <4>5 DEF PunchesOf
      <4>7. stored[m].at = stored[k].at
          BY <1>5, <3>1, <4>1, <4>4, <4>5, <4>6
      <4>8. m = k
          BY <3>1, <4>5, <4>7 DEF OneThingInv
      <4> QED BY <1>1, <2>0, <2>3, <3>1, <4>1, <4>3, <4>8
    <3>3. CASE k[2] \in rivals[t]
      <4>1. k[2] \in Touching(k) /\ t \in Touching(l) /\ t \in rivals[k[2]]
          BY <1>1, <2>3, <3>3 DEF Touching, Punch, DeskInv, RivalsInv
      <4> QED BY <4>1 DEF Together
    <3> QED BY <3>1, <3>2, <3>3 DEF OneThingInv
  <2> QED BY <2>1, <2>2, <2>3
<1> QED BY <1>7, <1>8

LEMMA OneThingStep ==
    ASSUME DeskInv, OneThingInv, [DeskNext]_deskVars
    PROVE  OneThingInv'
PROOF
<1>0. DeskInv' /\ \A u, w \in Txns : w \in rivals[u] => w \in rivals'[u]
    BY StepCases
<1>1. \A k, l : Together(k, l) => Together(k, l)'
    BY <1>0, TogetherBoth
<1>2. \A l : Touching(l) \subseteq Txns
    BY DEF Touching
<1>3. ASSUME NEW t \in Txns, Answers(t) PROVE OneThingInv'
  <2>0. /\ AccessStep(t) \/ DeskStep(t)
        /\ pc[t] = "loaded" /\ rivals' = rivals
        /\ \A u \in Txns : pc'[u] = "loaded" => /\ pc[u] = "loaded" /\ found'[u] = found[u] /\ t \in rivals[u]
      BY <1>3 DEF Answers
  <2>1. \/ Untouched("appointment")
        \/ \E k \in KeysOf["appointment"] : (BookedBy(t, k) \/ MovedBy(t, k)) /\ OthersUntouched("appointment", k)
      BY <2>0, WhoTouches, BookStep, AppointmentStep
  <2>2. Untouched("punch") \/ \E p \in KeysOf["punch"] : PunchedBy(t, p) /\ OthersUntouched("punch", p)
      BY <2>0, WhoTouches, PunchStep
  <2>3. ASSUME NEW l \in KeysOf["appointment"], stored'[l] # stored[l]
        PROVE  t \in Touching(l)
    <3>1. PICK k \in KeysOf["appointment"] : (BookedBy(t, k) \/ MovedBy(t, k)) /\ OthersUntouched("appointment", k)
        BY <2>1, <2>3 DEF Untouched
    <3>2. l = k
        BY <2>3, <3>1 DEF OthersUntouched
    <3> QED BY <3>1, <3>2 DEF Touching, BookedBy, MovedBy, Appointment
  <2>4. ASSUME NEW l \in KeysOf["punch"], stored'[l] # stored[l]
        PROVE  l[2] = t
    <3>1. PICK k \in KeysOf["punch"] : PunchedBy(t, k) /\ OthersUntouched("punch", k)
        BY <2>2, <2>4 DEF Untouched
    <3>2. l = k
        BY <2>4, <3>1 DEF OthersUntouched
    <3> QED BY <3>1, <3>2 DEF PunchedBy, Punch
  <2>5. ASSUME NEW u \in Txns, pc'[u] = "loaded"
        PROVE  /\ \A l \in KeysOf["appointment"] : Present(stored'[l]) =>
                     \/ Present(found'[u][l]) /\ (stored'[l].status \in Standing => found'[u][l].status \in Standing)
                     \/ \E w \in Touching(l) : w \in rivals'[u]
               /\ \A l \in KeysOf["punch"] : Present(stored'[l]) => Present(found'[u][l]) \/ l[2] \in rivals'[u]
               /\ \A k, l \in KeysOf["appointment"] : Clash(found'[u], k, l) => Together(k, l)'
    <3>1. pc[u] = "loaded" /\ found'[u] = found[u] /\ t \in rivals[u] /\ rivals' = rivals
        BY <2>0, <2>5
    <3> QED BY <1>1, <2>3, <2>4, <3>1 DEF OneThingInv
  <2>6. ASSUME NEW k \in KeysOf["appointment"], NEW l \in KeysOf["appointment"], Clash(stored', k, l)
        PROVE  Together(k, l)
    <3>1. stored'[k] \in AppointmentRow /\ stored'[l] \in AppointmentRow
        BY <1>0, <2>6, AppointmentsTyped DEF Clash, DeskInv, RowsTyped, RowTyped, Present
    <3>2. CASE stored'[k] = stored[k] /\ stored'[l] = stored[l]
      <4>1. Clash(stored, k, l)
          BY <2>6, <3>2 DEF Clash
      <4> QED BY <4>1 DEF OneThingInv, OneThingAtATime
    <3>3. CASE stored'[k] # stored[k]
      <4>1. PICK j \in KeysOf["appointment"] : (BookedBy(t, j) \/ MovedBy(t, j)) /\ OthersUntouched("appointment", j)
          BY <2>1, <3>3 DEF Untouched
      <4>2. j = k
          BY <3>3, <4>1 DEF OthersUntouched
      <4> QED BY <1>0, <2>0, <2>6, <4>1, <4>2, ClashStep
    <3>4. CASE stored'[l] # stored[l]
      <4>1. PICK j \in KeysOf["appointment"] : (BookedBy(t, j) \/ MovedBy(t, j)) /\ OthersUntouched("appointment", j)
          BY <2>1, <3>4 DEF Untouched
      <4>2. j = l
          BY <3>4, <4>1 DEF OthersUntouched
      <4>3. Clash(stored', l, k)
          BY <2>6, <3>1, ClashBoth
      <4>4. Together(l, k)
          BY <1>0, <2>0, <4>1, <4>2, <4>3, ClashStep
      <4> QED BY <4>4, TogetherBoth
    <3> QED BY <3>2, <3>3, <3>4
  <2>7. ASSUME NEW k \in KeysOf["punch"], NEW l \in KeysOf["punch"]
        PROVE  /\ k # l /\ Present(stored'[k]) /\ Present(stored'[l]) /\ stored'[k].staff = stored'[l].staff
                  => stored'[k].at # stored'[l].at
               /\ TwiceInARow(stored', k, l) => Together(k, l)
    <3>1. CASE Untouched("punch")
        BY <3>1 DEF Untouched, OneThingInv, OneThingAtATime, TwiceInARow
    <3>2. ASSUME NEW p \in KeysOf["punch"], PunchedBy(t, p), OthersUntouched("punch", p)
          PROVE  /\ k # l /\ Present(stored'[k]) /\ Present(stored'[l]) /\ stored'[k].staff = stored'[l].staff
                    => stored'[k].at # stored'[l].at
                 /\ TwiceInARow(stored', k, l) => Together(k, l)
        BY <2>0, <3>2, TwiceStep
    <3> QED BY <2>2, <3>1, <3>2
  <2>8. OneThingAtATime'
    <3>1. \A k, l \in KeysOf["appointment"] : Clash(stored', k, l) => Together(k, l)'
        BY <1>1, <2>6
    <3>2. \A k, l \in KeysOf["punch"] : TwiceInARow(stored', k, l) => Together(k, l)'
        BY <1>1, <2>7
    <3> QED BY <3>1, <3>2 DEF OneThingAtATime, Clash, TwiceInARow
  <2> QED BY <2>5, <2>7, <2>8 DEF OneThingInv, Clash
<1>4. ASSUME stored' = stored,
             \A u \in Txns : pc'[u] = "loaded" =>
                found'[u] = stored \/ (pc[u] = "loaded" /\ found'[u] = found[u])
      PROVE  OneThingInv'
  <2>1. OneThingAtATime'
    <3>1. \A k, l \in KeysOf["appointment"] : Clash(stored', k, l) => Together(k, l)'
        BY <1>1, <1>4 DEF OneThingInv, OneThingAtATime
    <3>2. \A k, l \in KeysOf["punch"] : TwiceInARow(stored', k, l) => Together(k, l)'
        BY <1>1, <1>4 DEF OneThingInv, OneThingAtATime
    <3> QED BY <3>1, <3>2 DEF OneThingAtATime, Clash, TwiceInARow
  <2>2. ASSUME NEW u \in Txns, pc'[u] = "loaded"
        PROVE  /\ \A l \in KeysOf["appointment"] : Present(stored'[l]) =>
                     \/ Present(found'[u][l]) /\ (stored'[l].status \in Standing => found'[u][l].status \in Standing)
                     \/ \E w \in Touching(l) : w \in rivals'[u]
               /\ \A l \in KeysOf["punch"] : Present(stored'[l]) => Present(found'[u][l]) \/ l[2] \in rivals'[u]
               /\ \A k, l \in KeysOf["appointment"] : Clash(found'[u], k, l) => Together(k, l)'
    <3>1. CASE found'[u] = stored
        BY <1>1, <1>4, <3>1 DEF OneThingInv, OneThingAtATime
    <3>2. CASE pc[u] = "loaded" /\ found'[u] = found[u]
      <4>1. rivals[u] \subseteq rivals'[u] /\ rivals[u] \subseteq Txns
          BY <1>0 DEF DeskInv, RivalsInv
      <4> QED BY <1>1, <1>4, <3>2, <4>1 DEF OneThingInv
    <3> QED BY <1>4, <2>2, <3>1, <3>2
  <2>3. \A k, l \in KeysOf["punch"] :
          k # l /\ Present(stored'[k]) /\ Present(stored'[l]) /\ stored'[k].staff = stored'[l].staff
          => stored'[k].at # stored'[l].at
      BY <1>4 DEF OneThingInv
  <2> QED BY <2>1, <2>2, <2>3 DEF OneThingInv, Clash
<1>5. ASSUME NEW t \in Txns, Loads(t) PROVE OneThingInv'
    BY <1>4, <1>5 DEF Loads
<1>6. CASE Rests
    BY <1>4, <1>6 DEF Rests
<1> QED BY <1>3, <1>5, <1>6, StepCases

\* Nobody has two appointments at a time and nobody clocks in twice, unless the two
\* requests decided together (appointments.py:100, workforce.py:199).
THEOREM OneThing == DeskSpec => []OneThingAtATime
PROOF
<1>1. DeskInit => OneThingInv
  <2> SUFFICES ASSUME DeskInit PROVE OneThingInv
    OBVIOUS
  <2>1. stored = AtStart /\ \A t \in Txns : pc[t] # "loaded"
      BY DEF DeskInit, RecordsInit, RequestsInit
  <2>2. OneThingAtATime
      BY <2>1, DeskAssumption DEF DeskAtStart, OneThingAtATime
  <2> QED BY <2>1, <2>2, DeskAssumption DEF DeskAtStart, OneThingInv
<1>2. DeskInv /\ OneThingInv /\ [DeskNext]_deskVars => OneThingInv'
    BY OneThingStep
<1>3. OneThingInv => OneThingAtATime
    BY DEF OneThingInv
<1> QED BY <1>1, <1>2, <1>3, DeskAlways, PTL DEF DeskSpec

--------------------
(* What is counted up under a lock                                          *)

\* the row that a request locks when it is there
LockedRow(t) == IF Call[t].do = "receive" THEN Order(Call[t].order) ELSE Loyalty(Call[t].customer)

\* It is held until the answer, and as it was found.
LockedInv ==
    \A t \in Txns : pc[t] = "loaded" /\ Call[t].do \in {"receive", "loyalty"}
                        /\ Present(found[t][LockedRow(t)]) =>
           Holds(t, LockedRow(t)) /\ found[t][LockedRow(t)] = stored[LockedRow(t)]

LEMMA LockedKey ==
    ASSUME NEW t \in Txns, Call[t].do \in {"receive", "loyalty"}
    PROVE  LockedRow(t) \in KeysOf["order"] \cup KeysOf["loyalty"] /\ LockedRow(t) \in Keys
PROOF
<1>1. CASE Call[t].do = "receive"
  <2>1. Order(Call[t].order) \in Keys
      BY <1>1, DeskAssumption DEF DeskArguments
  <2> QED BY <1>1, <2>1, KeyTables DEF LockedRow, KeysOf, Tables
<1>2. CASE Call[t].do = "loyalty"
  <2>1. Loyalty(Call[t].customer) \in Keys
      BY <1>2, DeskAssumption DEF DeskArguments
  <2> QED BY <1>2, <2>1, KeyTables DEF LockedRow, KeysOf, Tables
<1> QED BY <1>1, <1>2

\* What somebody else has locked is not written.
LEMMA HandledSpares ==
    ASSUME DeskInv, NEW t \in Txns, NEW tables, Handled(t, tables),
           NEW u \in Txns, u # t, NEW k \in Keys, Holds(u, k)
    PROVE  stored'[k] = stored[k]
PROOF
<1>1. CASE Fail(t)
    BY <1>1 DEF Fail
<1>2. CASE ~Fail(t)
  <2>1. PICK writes : Save(t, writes)
      BY <1>2 DEF Handled
  <2>2. Commits(t, writes)
      BY <1>2, <2>1, SaveCommits
  <2>3. ~Free(k) /\ ~Holds(t, k)
      BY HolderIsOne DEF Holds
  <2>4. k \notin DOMAIN writes
      BY <2>2, <2>3 DEF Commits, Reachable
  <2> QED BY <2>2, <2>4 DEF Commits
<1> QED BY <1>1, <1>2

LEMMA StepSpares ==
    ASSUME DeskInv, NEW t \in Txns, AccessStep(t) \/ DeskStep(t),
           NEW u \in Txns, u # t, NEW k \in KeysOf["order"] \cup KeysOf["loyalty"], Holds(u, k)
    PROVE  stored'[k] = stored[k]
PROOF
<1>1. k \in Keys /\ (k \in KeysOf["order"] \/ k \in KeysOf["loyalty"])
    BY DEF KeysOf, Tables
<1>2. CASE Untouched("order") /\ k \in KeysOf["order"]
    BY <1>2 DEF Untouched
<1>3. CASE Untouched("loyalty") /\ k \in KeysOf["loyalty"]
    BY <1>3 DEF Untouched
<1>4. CASE CreatePurchaseOrder(t) \/ UpdatePurchaseOrderStatus(t) \/ ReceivePurchaseOrderLines(t)
  <2>1. Handled(t, {"order"})
      BY <1>4, CreateOrderHandled, OrderStatusHandled, ReceiveHandled
  <2> QED BY <1>1, <2>1, HandledSpares
<1>5. CASE PostLoyaltyTransaction(t)
  <2>1. Handled(t, {"points", "loyalty"})
      BY <1>5, LoyaltyHandled
  <2> QED BY <1>1, <2>1, HandledSpares
<1> QED BY <1>1, <1>2, <1>3, <1>4, <1>5, WhoTouches

LEMMA EndsLeave ==
    ASSUME NEW t, Ends(t) PROVE LeaveAll(t)
PROOF BY DEF Ends, Close, End

LEMMA LoadLocks ==
    ASSUME DeskInv, NEW t \in Txns, Load(t, LocksOf(t))
    PROVE  /\ \A u \in Txns : \A k : Holds(u, k) => Holds(u, k)'
           /\ Call[t].do \in {"receive", "loyalty"} /\ Present(stored[LockedRow(t)]) => Holds(t, LockedRow(t))'
PROOF
<1> DEFINE L == LocksOf(t)
           l == CHOOSE k \in L : Free(k)
<1>0. QueueTypeOK
    BY DEF DeskInv, Frame, RequestsTypeOK
<1>1. /\ \A k \in L : Free(k) \/ Holds(t, k)
      /\ IF \E k \in L : Free(k) THEN Ask(t, l) ELSE UNCHANGED queue
    BY DEF Load
<1>2. Call[t].do \in {"receive", "loyalty"} /\ Present(stored[LockedRow(t)]) => L = {LockedRow(t)}
    BY DEF LocksOf, LockedRow
<1> HIDE DEF L
<1>3. CASE \E k \in L : Free(k)
  <2>1. PICK m : m \in L /\ Free(m) /\ Ask(t, m)
      BY <1>1, <1>3
  <2>2. (\A u \in Txns : \A k : Holds(u, k) => Holds(u, k)') /\ Holds(t, m)'
      BY <1>0, <2>1, AskKeeps
  <2> QED BY <1>2, <2>1, <2>2
<1>4. CASE ~\E k \in L : Free(k)
  <2>1. UNCHANGED queue /\ \A k \in L : Holds(t, k)
      BY <1>1, <1>4
  <2> QED BY <1>2, <2>1 DEF Holds, Free
<1> QED BY <1>3, <1>4

LEMMA LockedStep ==
    ASSUME DeskInv, LockedInv, [DeskNext]_deskVars
    PROVE  LockedInv'
PROOF
<1>0. QueueTypeOK
    BY DEF DeskInv, Frame, RequestsTypeOK
<1>1. ASSUME NEW t \in Txns, AccessStep(t) \/ DeskStep(t) PROVE LockedInv'
  <2>1. Answers(t) /\ LeaveAll(t)
      BY <1>1, AnswerFrame, WhoTouches, EndsLeave
  <2>2. \A u \in Txns : \A k : u # t /\ Holds(u, k) => Holds(u, k)'
      BY <1>0, <2>1, LeaveKeeps
  <2> SUFFICES ASSUME NEW u \in Txns, pc'[u] = "loaded", Call[u].do \in {"receive", "loyalty"},
                      Present(found'[u][LockedRow(u)])
               PROVE  Holds(u, LockedRow(u))' /\ found'[u][LockedRow(u)] = stored'[LockedRow(u)]
    BY DEF LockedInv, LockedRow, Holds, Free
  <2>3. u # t /\ pc[u] = "loaded" /\ found'[u] = found[u]
      BY <2>1 DEF Answers
  <2>4. Holds(u, LockedRow(u)) /\ found[u][LockedRow(u)] = stored[LockedRow(u)]
      BY <2>3 DEF LockedInv
  <2>5. stored'[LockedRow(u)] = stored[LockedRow(u)]
      BY <1>1, <2>3, <2>4, LockedKey, StepSpares
  <2> QED BY <2>2, <2>3, <2>4, <2>5
<1>2. ASSUME NEW t \in Txns, Load(t, LocksOf(t)) PROVE LockedInv'
  <2>1. Loads(t)
      BY <1>2, LoadInv DEF Loads, Load
  <2> SUFFICES ASSUME NEW u \in Txns, pc'[u] = "loaded", Call[u].do \in {"receive", "loyalty"},
                      Present(found'[u][LockedRow(u)])
               PROVE  Holds(u, LockedRow(u))' /\ found'[u][LockedRow(u)] = stored'[LockedRow(u)]
    BY DEF LockedInv, LockedRow, Holds, Free
  <2>2. CASE u = t
    <3>1. found'[u] = stored /\ stored' = stored
        BY <2>1, <2>2 DEF Loads
    <3> QED BY <1>2, <2>2, <3>1, LoadLocks
  <2>3. CASE u # t
    <3>1. pc[u] = "loaded" /\ found'[u] = found[u] /\ stored' = stored
        BY <2>1, <2>3 DEF Loads
    <3> QED BY <1>2, <3>1, LoadLocks DEF LockedInv
  <2> QED BY <2>2, <2>3
<1>3. ASSUME \/ \E t \in Txns : Authenticate(t, Needs) \/ Wait(t, LocksOf(t))
             \/ UNCHANGED deskVars
      PROVE  LockedInv'
  <2>1. Rests
      BY <1>3, RestFrame
  <2>2. \A u \in Txns : pc[u] = "loaded" => \A k : Holds(u, k) => Holds(u, k)'
    <3>1. CASE UNCHANGED queue
        BY <3>1 DEF Holds, Free
    <3>2. ASSUME NEW t \in Txns, NEW l, Ask(t, l)
          PROVE  \A u \in Txns : \A k : Holds(u, k) => Holds(u, k)'
        BY <1>0, <3>2, AskKeeps
    <3>3. ASSUME NEW t \in Txns, pc[t] = "idle", LeaveAll(t)
          PROVE  \A u \in Txns : pc[u] = "loaded" => \A k : Holds(u, k) => Holds(u, k)'
      <4>1. \A u \in Txns : pc[u] = "loaded" => u # t
          BY <3>3
      <4> QED BY <1>0, <3>3, <4>1, LeaveKeeps
    <3>4. CASE UNCHANGED deskVars
        BY <3>1, <3>4 DEF deskVars, requests
    <3>5. ASSUME NEW t \in Txns, Wait(t, LocksOf(t))
          PROVE  \A u \in Txns : \A k : Holds(u, k) => Holds(u, k)'
        BY <3>2, <3>5 DEF Wait
    <3>6. ASSUME NEW t \in Txns, Authenticate(t, Needs)
          PROVE  UNCHANGED queue \/ (pc[t] = "idle" /\ LeaveAll(t))
        BY <3>6 DEF Authenticate, Enter, Fail, Close, End
    <3> QED BY <1>3, <3>1, <3>3, <3>4, <3>5, <3>6
  <2> QED BY <2>1, <2>2 DEF Rests, LockedInv, LockedRow
<1> QED BY <1>1, <1>2, <1>3, StepKinds

\* A transaction of points is posted, and the account of its customer with it.
PointsPosted(t) ==
    LET c == Call[t].customer
        p == Points(t)
        k == Loyalty(c)
    IN  /\ p \in KeysOf["points"] /\ k \in KeysOf["loyalty"] /\ k[2] = c
        /\ ~Present(stored[p]) /\ stored'[p] = [customer |-> c, points |-> PostedPoints(t)]
        /\ PostedPoints(t) \in Int /\ Present(stored'[p]) /\ Present(stored'[k])
        /\ Present(found[t][k]) <=> Present(stored[k])
        /\ \A c1 \in {"balance", "earned"} :
              stored'[k][c1] = IF Present(found[t][k]) /\ PostedAccount(t)[c1] = found[t][k][c1]
                               THEN stored[k][c1] ELSE PostedAccount(t)[c1]
        /\ OthersUntouched("points", p) /\ OthersUntouched("loyalty", k)

LEMMA PostStep ==
    ASSUME DeskInv, NEW t \in Txns, PostLoyaltyTransaction(t)
    PROVE  (Untouched("points") /\ Untouched("loyalty")) \/ PointsPosted(t)
PROOF
<1> DEFINE c == Call[t].customer
           p == Points(t)
           k == Loyalty(c)
           new == PostedAccount(t)
           row == [customer |-> c, points |-> PostedPoints(t)]
           a == p :> row
           b == IF Present(found[t][k]) THEN Update(t, k, new) ELSE k :> new
           w == PostedWrites(t)
<1>1. CASE Fail(t)
    BY <1>1 DEF Fail, Untouched
<1>2. CASE ~Fail(t)
  <2>1. Save(t, w) /\ new.balance >= 0 /\ pc[t] = "loaded" /\ PostedPoints(t) \in Int
      BY <1>2, LoyaltyWrites
  <2>2. new \in LoyaltyRow
    <3>1. /\ LoyaltyAccount(t).balance + PostedPoints(t) \in Nat
          /\ LoyaltyAccount(t).earned + (IF PostedPoints(t) > 0 THEN PostedPoints(t) ELSE 0) \in Nat
        BY <2>1, LoyaltyWrites DEF LoyaltyRow, PostedAccount
    <3> QED BY <3>1 DEF LoyaltyRow, PostedAccount
  <2>3. /\ k \in Keys /\ k[1] = "loyalty" /\ k[2] = c /\ DeskRow(k) = LoyaltyRow /\ Lasting(k[1]) = {} /\ k[1] \notin Numbered
        /\ p \in Keys /\ p[1] = "points" /\ p[2] = t /\ DeskRow(p) = PointsRow
        /\ p[1] \in Numbered /\ p[1] \notin Deletable /\ k[1] \notin Deletable
      BY LoyaltyWrites, KeyTables, NoneLasts DEF Numbered, Deletable
  <2>4. ~Present(found[t][p])
      BY <2>1, <2>3, OwnNumberFree
  <2>5. row \in PointsRow
      BY LoyaltyWrites DEF PointsRow
  <2>6. w = a @@ b
      BY DEF PostedWrites
  <2>7. a[p] = row
      BY DEF :>
  <2>8. IF Present(found[t][k]) THEN b[k] = Dirty(Object(t, k), new) ELSE b[k] = new
      BY DEF :>, Update
  <2>9. DOMAIN new = {"balance", "earned"}
      BY DEF PostedAccount
  <2> HIDE DEF new, row, p, k
  <2>10. Sound(t, a) /\ DOMAIN a = {p}
      BY <2>3, <2>4, <2>5, InsertSound
  <2>11. Sound(t, b) /\ DOMAIN b = {k}
    <3>1. CASE Present(found[t][k])
      <4>1. b = Update(t, k, new)
          BY <3>1
      <4>2. Sound(t, Update(t, k, new)) /\ DOMAIN Update(t, k, new) = {k}
          BY <2>2, <2>3, <3>1, UpdateSound
      <4> QED BY <4>1, <4>2
    <3>2. CASE ~Present(found[t][k])
      <4>1. b = k :> new
          BY <3>2
      <4>2. Sound(t, k :> new) /\ DOMAIN (k :> new) = {k}
          BY <2>2, <2>3, <3>2, InsertSound
      <4> QED BY <4>1, <4>2
    <3> QED BY <3>1, <3>2
  <2> HIDE DEF a, b, w
  <2>22. Sound(t, w) /\ DOMAIN w = {p, k}
    <3>1. Sound(t, a) /\ Sound(t, b)
        BY <2>10, <2>11
    <3>2. Sound(t, a @@ b) /\ DOMAIN (a @@ b) = DOMAIN a \cup DOMAIN b
        BY <3>1, BothSound
    <3> QED BY <2>6, <2>10, <2>11, <3>2
  <2>12. Sound(t, w) /\ DOMAIN w = {p, k} /\ Commits(t, w)
      BY <1>2, <2>1, <2>22, SaveCommits
  <2>13. p # k
      BY <2>3
  <2>14. w[p] = row /\ w[k] = b[k]
      BY <2>6, <2>7, <2>10, <2>11, <2>13 DEF @@
  <2>15. ~Present(stored[p]) /\ stored'[p] = row
      BY <2>1, <2>3, <2>4, <2>12, <2>14, CommittedRow
  <2>16. Present(row)
      BY <2>3, <2>5, RowIsPresent
  <2>17. Present(stored'[k]) /\ (Present(found[t][k]) <=> Present(stored[k]))
      BY <2>1, <2>3, <2>12, CommittedRow
  <2>18. ASSUME NEW x \in {"balance", "earned"}
         PROVE  stored'[k][x] = IF Present(found[t][k]) /\ new[x] = found[t][k][x] THEN stored[k][x] ELSE new[x]
    <3>1. CASE Present(found[t][k])
      <4>1. Object(t, k) = found[t][k]
          BY <2>1, <2>3, DeskObject
      <4>2. \A y \in DOMAIN new : stored'[k][y] = IF new[y] = found[t][k][y] THEN stored[k][y] ELSE new[y]
          BY <2>1, <2>2, <2>3, <2>8, <2>12, <2>14, <3>1, <4>1, DirtyRow
      <4> QED BY <2>9, <3>1, <4>2
    <3>2. CASE ~Present(found[t][k])
      <4>1. stored'[k] = new
          BY <2>1, <2>3, <2>8, <2>12, <2>14, <2>17, <3>2, CommittedRow
      <4> QED BY <3>2, <4>1
    <3> QED BY <3>1, <3>2
  <2>19. OthersUntouched("points", p) /\ OthersUntouched("loyalty", k)
    <3>1. \A l \in Keys : l[1] = "points" /\ l # p => l \notin DOMAIN w
        BY <2>3, <2>12
    <3>2. \A l \in Keys : l[1] = "loyalty" /\ l # k => l \notin DOMAIN w
        BY <2>3, <2>12
    <3> QED BY <2>12, <3>1, <3>2 DEF OthersUntouched, KeysOf, Tables, Commits
  <2>20. p \in KeysOf["points"] /\ k \in KeysOf["loyalty"]
      BY <2>3 DEF KeysOf, Tables
  <2>21. PointsPosted(t)
      BY <2>1, <2>3, <2>15, <2>16, <2>17, <2>18, <2>19, <2>20 DEF PointsPosted, p, k, row, new
  <2> QED BY <2>21
<1> QED BY <1>1, <1>2

\* The points of a customer who has an account add up to it, and nobody else has any.
LoyaltyInv ==
    /\ LoyaltyExact
    /\ \A k \in KeysOf["points"] : Present(stored[k]) => Present(stored[Loyalty(stored[k].customer)])

LEMMA PointsTyped ==
    ASSUME DeskInv, NEW c
    PROVE  /\ IsFiniteSet(PointsOf(stored, c)) /\ PointsOf(stored, c) \subseteq KeysOf["points"]
           /\ \A p \in PointsOf(stored, c) : stored[p].points \in Int /\ AtLeastZero(stored[p].points) \in Nat
PROOF
<1>1. IsFiniteSet(PointsOf(stored, c)) /\ PointsOf(stored, c) \subseteq KeysOf["points"]
    BY AccessAssumption, FS_Subset DEF PointsOf, KeysOf, Tables
<1>2. ASSUME NEW p \in PointsOf(stored, c)
      PROVE  stored[p].points \in Int /\ AtLeastZero(stored[p].points) \in Nat
  <2>1. p \in Keys /\ p[1] = "points" /\ Present(stored[p])
      BY DEF PointsOf, KeysOf, Tables
  <2>2. stored[p] \in PointsRow
      BY <2>1, RowOfTable DEF DeskInv, RowsTyped, RowTyped, Present
  <2> QED BY <2>2 DEF PointsRow, AtLeastZero
<1> QED BY <1>1, <1>2

LEMMA LoyaltyStep ==
    ASSUME DeskInv, LockedInv, LoyaltyInv, DeskInv', NEW t \in Txns, pc[t] = "loaded",
           Call[t].do = "loyalty", PointsPosted(t)
    PROVE  LoyaltyInv'
PROOF
<1> DEFINE c == Call[t].customer
           p == Points(t)
           k == Loyalty(c)
           n == PostedPoints(t)
           new == PostedAccount(t)
           was == LoyaltyAccount(t)
<1>1. /\ p \in KeysOf["points"] /\ k \in KeysOf["loyalty"] /\ k[2] = c
      /\ ~Present(stored[p]) /\ stored'[p] = [customer |-> c, points |-> n] /\ n \in Int
      /\ Present(stored'[p]) /\ Present(stored'[k])
      /\ Present(found[t][k]) <=> Present(stored[k])
      /\ \A c1 \in {"balance", "earned"} :
            stored'[k][c1] = IF Present(found[t][k]) /\ new[c1] = found[t][k][c1] THEN stored[k][c1] ELSE new[c1]
      /\ \A l \in KeysOf["points"] : l # p => stored'[l] = stored[l]
      /\ \A l \in KeysOf["loyalty"] : l # k => stored'[l] = stored[l]
    BY DEF PointsPosted, OthersUntouched
<1>2. Present(found[t][k]) => found[t][k] = stored[k]
  <2>1. LockedRow(t) = k
      BY DEF LockedRow
  <2> QED BY <2>1 DEF LockedInv
<1>3. stored'[k].balance = new.balance /\ stored'[k].earned = new.earned
    BY <1>1, <1>2
<1>4. new.balance = was.balance + n /\ new.earned = was.earned + AtLeastZero(n)
  <2>1. AtLeastZero(n) = IF n > 0 THEN n ELSE 0
      BY <1>1 DEF AtLeastZero
  <2> QED BY <2>1 DEF PostedAccount
<1>5. /\ Present(stored[k]) => was = stored[k]
      /\ ~Present(stored[k]) => was = [balance |-> 0, earned |-> 0]
    BY <1>1, <1>2 DEF LoyaltyAccount
<1>6. k \in Keys /\ \A x : k = Loyalty(x) <=> x = c
  <2>1. k \in Keys
      BY <1>1 DEF KeysOf, Tables
  <2> QED BY <2>1, KeysTold, KeyTables
<1> HIDE DEF new, was, n, k, p, c
<1>7. /\ PointsOf(stored', c) = PointsOf(stored, c) \cup {p} /\ p \notin PointsOf(stored, c)
      /\ \A d : d # c => PointsOf(stored', d) = PointsOf(stored, d)
    BY <1>1 DEF PointsOf
<1>8. p # k
    BY <1>1 DEF KeysOf, Tables
<1>9. \A d : \A q \in PointsOf(stored, d) : stored'[q] = stored[q]
    BY <1>1 DEF PointsOf
<1>10. ASSUME NEW l \in KeysOf["loyalty"], l # k, Present(stored'[l])
       PROVE  /\ stored'[l].balance = SumFunction([q \in PointsOf(stored', l[2]) |-> stored'[q].points])
              /\ stored'[l].earned = SumFunction([q \in PointsOf(stored', l[2]) |-> AtLeastZero(stored'[q].points)])
  <2>1. l[2] # c
    <3>1. l \in Keys /\ l[1] = "loyalty"
        BY DEF KeysOf, Tables
    <3> QED BY <1>10, <3>1, KeysTold DEF k
  <2>2. PointsOf(stored', l[2]) = PointsOf(stored, l[2]) /\ stored'[l] = stored[l]
      BY <1>1, <1>7, <1>10, <2>1
  <2>3. /\ [q \in PointsOf(stored', l[2]) |-> stored'[q].points] = [q \in PointsOf(stored, l[2]) |-> stored[q].points]
        /\ [q \in PointsOf(stored', l[2]) |-> AtLeastZero(stored'[q].points)]
              = [q \in PointsOf(stored, l[2]) |-> AtLeastZero(stored[q].points)]
      BY <1>9, <2>2
  <2> QED BY <1>10, <2>2, <2>3 DEF LoyaltyInv, LoyaltyExact, LoyaltyExactIn
<1>11. /\ stored'[k].balance = SumFunction([q \in PointsOf(stored', c) |-> stored'[q].points])
       /\ stored'[k].earned = SumFunction([q \in PointsOf(stored', c) |-> AtLeastZero(stored'[q].points)])
  <2> DEFINE f == [q \in PointsOf(stored, c) |-> stored[q].points]
             g == [q \in PointsOf(stored', c) |-> stored'[q].points]
             fe == [q \in PointsOf(stored, c) |-> AtLeastZero(stored[q].points)]
             ge == [q \in PointsOf(stored', c) |-> AtLeastZero(stored'[q].points)]
  <2>1. was.balance = SumFunction(f) /\ was.earned = SumFunction(fe)
    <3>1. CASE Present(stored[k])
        BY <1>1, <1>5, <3>1 DEF LoyaltyInv, LoyaltyExact, LoyaltyExactIn
    <3>2. CASE ~Present(stored[k])
      <4>1. PointsOf(stored, c) = {}
          BY <3>2 DEF LoyaltyInv, PointsOf, k
      <4>2. SumFunction(f) = 0 /\ SumFunction(fe) = 0
          BY <4>1, FS_EmptySet, SumAllZero
      <4> QED BY <1>5, <3>2, <4>2
    <3> QED BY <3>1, <3>2
  <2>2. /\ IsFiniteSet(DOMAIN f) /\ IsFiniteSet(DOMAIN fe) /\ p \notin DOMAIN f /\ p \notin DOMAIN fe
        /\ DOMAIN g = DOMAIN f \cup {p} /\ DOMAIN ge = DOMAIN fe \cup {p}
      BY <1>7, PointsTyped
  <2>3. /\ \A q \in DOMAIN f : g[q] = f[q] /\ f[q] \in Int
        /\ \A q \in DOMAIN fe : ge[q] = fe[q] /\ fe[q] \in Int
    <3>1. \A q \in PointsOf(stored, c) : q \in PointsOf(stored', c) /\ stored'[q] = stored[q]
        BY <1>7, <1>9
    <3>2. \A q \in PointsOf(stored, c) : stored[q].points \in Int /\ AtLeastZero(stored[q].points) \in Nat
        BY PointsTyped
    <3> QED BY <3>1, <3>2
  <2>4. g[p] = n /\ ge[p] = AtLeastZero(n) /\ AtLeastZero(n) \in Int
      BY <1>1, <1>7 DEF AtLeastZero
  <2> HIDE DEF f, g, fe, ge
  <2>5. (\A q \in DOMAIN g : g[q] \in Int) /\ (\A q \in DOMAIN ge : ge[q] \in Int)
      BY <1>1, <2>2, <2>3, <2>4
  <2>6. SumFunction(g) = SumFunction(f) + g[p] /\ SumFunction(ge) = SumFunction(fe) + ge[p]
      BY <2>2, <2>3, <2>5, SumAllOneMore
  <2>7. stored'[k].balance = SumFunction(g) /\ stored'[k].earned = SumFunction(ge)
      BY <1>3, <1>4, <2>1, <2>4, <2>6
  <2> QED BY <2>7 DEF g, ge
<1>12. LoyaltyExact'
  <2> SUFFICES ASSUME NEW l \in KeysOf["loyalty"], Present(stored'[l])
               PROVE  /\ stored'[l].balance = SumFunction([q \in PointsOf(stored', l[2]) |-> stored'[q].points])
                      /\ stored'[l].earned = SumFunction([q \in PointsOf(stored', l[2]) |-> AtLeastZero(stored'[q].points)])
    BY DEF LoyaltyExact, LoyaltyExactIn
  <2> QED BY <1>1, <1>10, <1>11
<1>13. ASSUME NEW q \in KeysOf["points"], Present(stored'[q])
       PROVE  Present(stored'[Loyalty(stored'[q].customer)])
  <2>1. CASE q = p
      BY <1>1, <1>6, <2>1 DEF k
  <2>2. CASE q # p
    <3>1. stored'[q] = stored[q] /\ Present(stored[Loyalty(stored[q].customer)])
        BY <1>1, <1>13, <2>2 DEF LoyaltyInv
    <3>2. CASE Loyalty(stored[q].customer) = k
        BY <1>1, <3>1, <3>2
    <3>3. CASE Loyalty(stored[q].customer) # k
      <4>1. stored[q].customer \in {l[2] : l \in KeysOf["loyalty"]}
        <5>1. q \in Keys /\ q[1] = "points"
            BY DEF KeysOf, Tables
        <5>2. stored[q] \in PointsRow
            BY <1>13, <3>1, <5>1, RowOfTable DEF DeskInv, RowsTyped, RowTyped, Present
        <5> QED BY <5>2 DEF PointsRow
      <4>2. PICK l \in KeysOf["loyalty"] : stored[q].customer = l[2]
          BY <4>1
      <4>3. Loyalty(stored[q].customer) = l
        <5>1. l \in Keys /\ l[1] = "loyalty"
            BY DEF KeysOf, Tables
        <5> QED BY <4>2, <5>1, KeysTold
      <4> QED BY <1>1, <3>1, <3>3, <4>3
    <3> QED BY <3>2, <3>3
  <2> QED BY <2>1, <2>2
<1> QED BY <1>12, <1>13 DEF LoyaltyInv


LEMMA LoyaltyKept ==
    ASSUME DeskInv, LockedInv, LoyaltyInv, [DeskNext]_deskVars
    PROVE  LoyaltyInv'
PROOF
<1>1. DeskInv'
    BY StepCases
<1>2. CASE Untouched("points") /\ Untouched("loyalty")
  <2>1. \A c : PointsOf(stored', c) = PointsOf(stored, c)
      BY <1>2 DEF Untouched, PointsOf
  <2>2. \A c : \A p \in PointsOf(stored, c) : stored'[p] = stored[p]
      BY <1>2 DEF Untouched, PointsOf
  <2>3. LoyaltyExact'
    <3> SUFFICES ASSUME NEW l \in KeysOf["loyalty"], Present(stored'[l])
                 PROVE  /\ stored'[l].balance = SumFunction([q \in PointsOf(stored', l[2]) |-> stored'[q].points])
                        /\ stored'[l].earned = SumFunction([q \in PointsOf(stored', l[2]) |-> AtLeastZero(stored'[q].points)])
      BY DEF LoyaltyExact, LoyaltyExactIn
    <3>1. stored'[l] = stored[l]
        BY <1>2 DEF Untouched
    <3>2. /\ [q \in PointsOf(stored', l[2]) |-> stored'[q].points] = [q \in PointsOf(stored, l[2]) |-> stored[q].points]
          /\ [q \in PointsOf(stored', l[2]) |-> AtLeastZero(stored'[q].points)]
                = [q \in PointsOf(stored, l[2]) |-> AtLeastZero(stored[q].points)]
        BY <2>1, <2>2
    <3> QED BY <3>1, <3>2 DEF LoyaltyInv, LoyaltyExact, LoyaltyExactIn
  <2>4. ASSUME NEW q \in KeysOf["points"], Present(stored'[q])
        PROVE  Present(stored'[Loyalty(stored'[q].customer)])
    <3> DEFINE l == Loyalty(stored[q].customer)
    <3>1. stored'[q] = stored[q] /\ Present(stored[l])
        BY <1>2, <2>4 DEF Untouched, LoyaltyInv
    <3>2. l \in KeysOf["loyalty"]
      <4>1. q \in Keys /\ q[1] = "points"
          BY DEF KeysOf, Tables
      <4>2. stored[q] \in PointsRow
          BY <2>4, <3>1, <4>1, RowOfTable DEF DeskInv, RowsTyped, RowTyped, Present
      <4>3. PICK m \in KeysOf["loyalty"] : stored[q].customer = m[2]
          BY <4>2 DEF PointsRow
      <4>4. m \in Keys /\ m[1] = "loyalty"
          BY DEF KeysOf, Tables
      <4>5. m = l
          BY <4>3, <4>4, KeysTold
      <4> QED BY <4>5
    <3> QED BY <1>2, <3>1, <3>2 DEF Untouched
  <2> QED BY <2>3, <2>4 DEF LoyaltyInv
<1>3. ASSUME NEW t \in Txns, Answers(t) PROVE LoyaltyInv'
  <2>1. (AccessStep(t) \/ DeskStep(t)) /\ pc[t] = "loaded"
      BY <1>3 DEF Answers
  <2>2. CASE PostLoyaltyTransaction(t)
    <3>1. Call[t].do = "loyalty"
        BY <2>2, LoyaltyWrites
    <3> QED BY <1>1, <1>2, <2>1, <2>2, <3>1, PostStep, LoyaltyStep
  <2>3. CASE ~PostLoyaltyTransaction(t)
      BY <1>2, <2>1, <2>3, WhoTouches
  <2> QED BY <2>2, <2>3
<1>4. ASSUME stored' = stored PROVE LoyaltyInv'
    BY <1>2, <1>4 DEF Untouched
<1> QED BY <1>3, <1>4, StepCases DEF Loads, Rests
--------------------
(* What has been received of an order                                       *)

\* a request about the status of order o was undecided when some receipt of it was
MovedMeanwhile(o) ==
    \E r \in Receipts(o) : \E u \in rivals[r] : Call[u].do = "order_status" /\ Call[u].order = o

ReceivedExact(k) ==
    \A i \in DOMAIN stored[k].ordered :
        /\ stored[k].received[i] <= stored[k].ordered[i]
        /\ stored[k].received[i] = SumFunction([r \in Receipts(k[2]) |-> Receipt(r, {i})[i]])

IsFull(k) == Fully(stored[k].ordered, stored[k].received)

\* An order of which something was accepted is there, and a request that is about
\* to set the status of one that is full has found it so, or was undecided when
\* the receipt that filled it was.
OrderInv ==
    /\ \A k \in KeysOf["order"] : Present(stored[k]) =>
          ReceivedExact(k) /\ (IsFull(k) => stored[k].status = "received" \/ MovedMeanwhile(k[2]))
    /\ \A r \in Txns : Call[r].do = "receive" /\ Done(r) => Present(stored[Order(Call[r].order)])
    /\ \A t \in Txns : \A k \in KeysOf["order"] :
          /\ pc[t] = "loaded" /\ Call[t].do = "order_status" /\ k = Order(Call[t].order)
          /\ Present(found[t][k]) /\ found[t][k].status # "received" /\ IsFull(k)
          => MovedMeanwhile(k[2])

LEMMA ReceiveHandlers ==
    ASSUME DeskInv, NEW t \in Txns, AccessStep(t) \/ DeskStep(t), Call[t].do = "receive"
    PROVE  ReceivePurchaseOrderLines(t)
PROOF
<1>1. ReceivePurchaseOrderLines(t) \/ \E do : do # "receive" /\ Handles(t, do)
  <2>1. CASE AccessStep(t)
      BY <2>1, Zenon DEF AccessStep, SignUp, Bootstrap, Login, Refresh, Logout, Approve, Reject,
         Suspend, Reactivate,
          SetPlatformRole, CurrentSubscription, ListSubscriptions, UpdateSubscription, RenameTenant,
          CreateBranch, UpdateBranch, CreateStaff, UpdateStaff, RegisterDevice, UpdateDevice
  <2>2. CASE DeskStep(t)
      BY <2>2, Zenon DEF DeskStep, CreateShift, UpdateShiftStatus, SelfPunch, CreateAppointment,
         ChangeAppointmentStatus,
          CreateService, UpdateService, SetServiceMaterial, RemoveServiceMaterial,
          CreatePurchaseOrder, UpdatePurchaseOrderStatus,
          CreatePromotion, PostLoyaltyTransaction, CreateDocument, UpdateDocumentStatus, RefreshAlerts, UpdateAlert
  <2> QED BY <2>1, <2>2
<1> QED BY <1>1 DEF Handles

\* What an answer does to the orders.
LEMMA OrderKinds ==
    ASSUME DeskInv, NEW t \in Txns, Answers(t)
    PROVE  \/ Untouched("order") /\ (Call[t].do # "receive" \/ ~Done(t)')
           \/ \E k \in KeysOf["order"] :
                 /\ OthersUntouched("order", k) /\ Done(t)'
                 /\ \/ OrderMade(t, k) \/ OrderMoved(t, k)
                    \/ OrderCounted(t, k) /\ Counted(t, found[t][k]) \in Seq(Nat)
PROOF
<1>1. (AccessStep(t) \/ DeskStep(t)) /\ pc[t] = "loaded"
    BY DEF Answers
<1>2. /\ \A what : Close(t, what) => answer'[t] = what
      /\ pc'[t] = "done"
  <2>1. answer \in [Txns -> {"none", "created", "replayed", "refused"}]
      BY DEF DeskInv, Frame, RequestsTypeOK
  <2> QED BY <2>1 DEF Answers, Close, End
<1>3. Close(t, "created") => Done(t)'
    BY <1>2 DEF Done
<1>4. Fail(t) => Untouched("order") /\ ~Done(t)'
    BY <1>2 DEF Fail, Done, Untouched
<1>5. CASE Call[t].do = "receive"
    BY <1>1, <1>3, <1>4, <1>5, ReceiveHandlers, ReceiveStep
<1>6. CASE Call[t].do # "receive"
  <2>1. ~ReceivePurchaseOrderLines(t)
      BY <1>6, Zenon DEF ReceivePurchaseOrderLines, Handles
  <2>2. CASE CreatePurchaseOrder(t)
    <3>1. Order(t) \in Keys => Order(t) \in KeysOf["order"]
        BY KeyTables DEF KeysOf, Tables
    <3> QED BY <1>3, <1>6, <2>2, <3>1, CreateOrderStep
  <2>3. CASE UpdatePurchaseOrderStatus(t)
      BY <1>3, <1>6, <2>3, OrderStatusStep
  <2> QED BY <1>1, <1>6, <2>1, <2>2, <2>3, WhoTouches
<1> QED BY <1>5, <1>6

LEMMA OrderKeyOf ==
    ASSUME NEW k \in KeysOf["order"]
    PROVE  k \in Keys /\ k[1] = "order" /\ k = Order(k[2]) /\ \A x : k = Order(x) <=> x = k[2]
PROOF
<1>1. k \in Keys /\ k[1] = "order"
    BY DEF KeysOf, Tables
<1> QED BY <1>1, KeysTold


\* the receipts that are accepted, after an answer
LEMMA ReceiptsAfter ==
    ASSUME DeskInv, NEW t \in Txns, Answers(t)
    PROVE  /\ ~Done(t) /\ \A u \in Txns : u # t => (Done(u)' <=> Done(u))
           /\ \A o : /\ Receipts(o) \subseteq Receipts(o)'
                     /\ Call[t].do # "receive" \/ Call[t].order # o \/ ~Done(t)' => Receipts(o)' = Receipts(o)
                     /\ Call[t].do = "receive" /\ Call[t].order = o /\ Done(t)' => Receipts(o)' = Receipts(o) \cup {t}
                     /\ t \notin Receipts(o) /\ IsFiniteSet(Receipts(o))
                     /\ MovedMeanwhile(o) => MovedMeanwhile(o)'
PROOF
<1>1. ~Done(t) /\ \A u \in Txns : u # t => (Done(u)' <=> Done(u))
    BY DEF Answers, Done
<1>2. ASSUME NEW o
      PROVE  /\ Receipts(o) \subseteq Receipts(o)'
             /\ Call[t].do # "receive" \/ Call[t].order # o \/ ~Done(t)' => Receipts(o)' = Receipts(o)
             /\ Call[t].do = "receive" /\ Call[t].order = o /\ Done(t)' => Receipts(o)' = Receipts(o) \cup {t}
             /\ t \notin Receipts(o) /\ IsFiniteSet(Receipts(o))
             /\ MovedMeanwhile(o) => MovedMeanwhile(o)'
  <2>1. /\ Receipts(o) \subseteq Receipts(o)'
        /\ Call[t].do # "receive" \/ Call[t].order # o \/ ~Done(t)' => Receipts(o)' = Receipts(o)
        /\ Call[t].do = "receive" /\ Call[t].order = o /\ Done(t)' => Receipts(o)' = Receipts(o) \cup {t}
        /\ t \notin Receipts(o)
      BY <1>1 DEF Receipts
  <2>2. IsFiniteSet(Receipts(o))
    <3>1. Receipts(o) \subseteq Txns
        BY DEF Receipts
    <3> QED BY <3>1, AccessAssumption, FS_Subset
  <2>3. MovedMeanwhile(o) => MovedMeanwhile(o)'
      BY <2>1 DEF MovedMeanwhile, Answers
  <2> QED BY <2>1, <2>2, <2>3
<1> QED BY <1>1, <1>2

\* What is summed up of an order that is left as it was.
LEMMA SameExact ==
    ASSUME NEW k, stored'[k].received = stored[k].received, stored'[k].ordered = stored[k].ordered,
           Receipts(k[2])' = Receipts(k[2])
    PROVE  (ReceivedExact(k) => ReceivedExact(k)') /\ (IsFull(k)' <=> IsFull(k))
PROOF
<1>1. IsFull(k)' <=> IsFull(k)
    BY DEF IsFull
<1>2. \A i : [r \in Receipts(k[2])' |-> Receipt(r, {i})[i]] = [r \in Receipts(k[2]) |-> Receipt(r, {i})[i]]
    OBVIOUS
<1>3. ASSUME ReceivedExact(k), NEW i \in DOMAIN stored'[k].ordered
      PROVE  /\ stored'[k].received[i] <= stored'[k].ordered[i]
             /\ stored'[k].received[i] = SumFunction([r \in Receipts(k[2])' |-> Receipt(r, {i})[i]])
    BY <1>2, <1>3 DEF ReceivedExact
<1> QED BY <1>1, <1>3 DEF ReceivedExact

LEMMA MadeExact ==
    ASSUME DeskInv, OrderInv, DeskInv', NEW t \in Txns, Answers(t), NEW k \in KeysOf["order"], OrderMade(t, k)
    PROVE  ReceivedExact(k)' /\ ~IsFull(k)'
PROOF
<1> DEFINE o == Call[t].ordered
<1>1. /\ o \in Seq(Nat \ {0}) \ {<<>>} /\ ~Present(stored[k]) /\ Call[t].do = "create_order"
      /\ stored'[k].ordered = o /\ stored'[k].received = [i \in DOMAIN o |-> 0]
    BY DEF OrderMade
<1>2. Receipts(k[2])' = {}
  <2>1. Receipts(k[2])' = Receipts(k[2])
      BY <1>1, ReceiptsAfter
  <2>2. Receipts(k[2]) = {}
      BY <1>1, OrderKeyOf DEF OrderInv, Receipts
  <2> QED BY <2>1, <2>2
<1> HIDE DEF o
<1>3. \A i \in DOMAIN o : o[i] \in Nat \ {0}
    BY <1>1
<1>4. 1 \in DOMAIN o
    BY <1>1
<1>5. \A i : SumFunction([r \in Receipts(k[2])' |-> Receipt(r, {i})[i]]) = 0
  <2> TAKE i
  <2> DEFINE f == [r \in Receipts(k[2])' |-> Receipt(r, {i})[i]]
  <2>1. DOMAIN f = {}
      BY <1>2
  <2> HIDE DEF f
  <2>2. SumFunction(f) = 0
      BY <2>1, FS_EmptySet, SumAllZero
  <2> QED BY <2>2 DEF f
<1>6. ReceivedExact(k)'
  <2>1. ASSUME NEW i \in DOMAIN o PROVE stored'[k].received[i] = 0 /\ 0 <= o[i]
      BY <1>1, <1>3
  <2> QED BY <1>1, <1>5, <2>1 DEF ReceivedExact
<1>7. ~IsFull(k)'
    BY <1>1, <1>3, <1>4 DEF IsFull, Fully
<1> QED BY <1>6, <1>7

LEMMA CountedExact ==
    ASSUME DeskInv, LockedInv, OrderInv, DeskInv', NEW t \in Txns, Answers(t), Done(t)', NEW k \in KeysOf["order"],
           OrderCounted(t, k), Counted(t, found[t][k]) \in Seq(Nat)
    PROVE  ReceivedExact(k)' /\ (IsFull(k)' => stored'[k].status = "received") /\ Receipts(k[2])' = Receipts(k[2]) \cup {t}
PROOF
<1> DEFINE was == found[t][k]
           S == DOMAIN was.ordered
<1>1. /\ Call[t].do = "receive" /\ k = Order(Call[t].order) /\ Present(was)
      /\ \A i \in S : Counted(t, was)[i] <= was.ordered[i]
      /\ stored'[k].ordered = stored[k].ordered
      /\ stored'[k].received = IF Counted(t, was) = was.received THEN stored[k].received ELSE Counted(t, was)
      /\ stored'[k].status = IF CountedStatus(t, was) = was.status THEN stored[k].status ELSE CountedStatus(t, was)
    BY DEF OrderCounted
<1>2. was = stored[k]
  <2>1. LockedRow(t) = k
      BY <1>1 DEF LockedRow
  <2> QED BY <1>1, <2>1 DEF LockedInv, Answers
<1>3. /\ stored'[k].ordered = was.ordered /\ stored'[k].received = Counted(t, was)
      /\ stored'[k].status = CountedStatus(t, was)
    BY <1>1, <1>2
<1>4. Call[t].order = k[2]
    BY <1>1, OrderKeyOf
<1>5. Receipts(k[2])' = Receipts(k[2]) \cup {t} /\ t \notin Receipts(k[2]) /\ IsFiniteSet(Receipts(k[2]))
    BY <1>1, <1>4, ReceiptsAfter, Zenon
<1>6. \A r \in Receipts(k[2])' : r \in Txns /\ Call[r].do = "receive"
    BY DEF Receipts
<1>7. ASSUME NEW i \in S
      PROVE  Counted(t, was)[i] = SumFunction([r \in Receipts(k[2])' |-> Receipt(r, {i})[i]])
  <2> DEFINE f == [r \in Receipts(k[2]) |-> Receipt(r, {i})[i]]
             g == [r \in Receipts(k[2])' |-> Receipt(r, {i})[i]]
  <2>1. Counted(t, was)[i] = was.received[i] + Receipt(t, S)[i]
      BY DEF Counted
  <2>2. Receipt(t, S)[i] = Receipt(t, {i})[i]
      BY <1>1, ReceiptIsNat
  <2>3. was.received[i] = SumFunction(f)
      BY <1>1, <1>2 DEF OrderInv, ReceivedExact, OrderCounted
  <2>4. /\ DOMAIN g = DOMAIN f \cup {t} /\ t \notin DOMAIN f /\ IsFiniteSet(DOMAIN f)
        /\ g[t] = Receipt(t, {i})[i]
      BY <1>5
  <2>5. \A r \in Receipts(k[2])' : Receipt(r, {i})[i] \in Int
    <3>1. i \in {i}
        OBVIOUS
    <3>2. ASSUME NEW r \in Receipts(k[2])' PROVE Receipt(r, {i})[i] \in Int
      <4>1. Receipt(r, {i})[i] \in Nat
          BY <1>6, <3>1, ReceiptIsNat
      <4> QED BY <4>1
    <3> QED BY <3>2
  <2>6. (\A r \in DOMAIN f : g[r] = f[r]) /\ \A r \in DOMAIN g : g[r] \in Int
      BY <1>5, <2>5
  <2> HIDE DEF f, g
  <2>7. SumFunction(g) = SumFunction(f) + g[t]
      BY <2>4, <2>6, SumAllOneMore
  <2>8. Counted(t, was)[i] = SumFunction(g)
      BY <2>1, <2>2, <2>3, <2>4, <2>7
  <2> QED BY <2>8 DEF g
<1>8. ReceivedExact(k)'
    BY <1>1, <1>3, <1>7, Zenon DEF ReceivedExact
<1>9. IsFull(k)' => stored'[k].status = "received"
    BY <1>3 DEF IsFull, CountedStatus
<1> QED BY <1>5, <1>8, <1>9


LEMMA OrderAnswer ==
    ASSUME DeskInv, LockedInv, OrderInv, DeskInv', NEW t \in Txns, Answers(t)
    PROVE  OrderInv'
PROOF
<1> DEFINE Exact(k) == ReceivedExact(k) /\ (IsFull(k) => stored[k].status = "received" \/ MovedMeanwhile(k[2]))
           Asks(u, k) == pc[u] = "loaded" /\ Call[u].do = "order_status" /\ k = Order(Call[u].order)
                           /\ Present(found[u][k]) /\ found[u][k].status # "received"
<1>0. /\ \A k \in KeysOf["order"] : Present(stored[k]) => Exact(k)
      /\ \A u \in Txns : \A k \in KeysOf["order"] : Asks(u, k) /\ IsFull(k) => MovedMeanwhile(k[2])
    BY DEF OrderInv
<1>1. ASSUME NEW u \in Txns, NEW k, Asks(u, k)'
      PROVE  u # t /\ Asks(u, k) /\ u \in rivals[t]
    BY <1>1 DEF Answers
<1>2. ASSUME NEW k \in KeysOf["order"], stored'[k] = stored[k],
             Receipts(k[2])' = Receipts(k[2])
      PROVE  /\ Present(stored'[k]) => Exact(k)'
             /\ \A u \in Txns : Asks(u, k)' /\ IsFull(k)' => MovedMeanwhile(k[2])'
  <2>1. (ReceivedExact(k) => ReceivedExact(k)') /\ (IsFull(k)' <=> IsFull(k))
      BY <1>2, SameExact
  <2>2. MovedMeanwhile(k[2]) => MovedMeanwhile(k[2])'
      BY ReceiptsAfter
  <2> QED BY <1>0, <1>1, <1>2, <2>1, <2>2
<1>3. CASE Untouched("order") /\ (Call[t].do # "receive" \/ ~Done(t)')
  <2>1. \A k \in KeysOf["order"] : stored'[k] = stored[k] /\ Receipts(k[2])' = Receipts(k[2])
      BY <1>3, ReceiptsAfter DEF Untouched
  <2>2. ASSUME NEW r \in Txns, Call[r].do = "receive", Done(r)'
        PROVE  Present(stored'[Order(Call[r].order)])
    <3>1. Done(r) /\ Order(Call[r].order) \in KeysOf["order"]
      <4>1. Order(Call[r].order) \in Keys
          BY <2>2, DeskAssumption DEF DeskArguments
      <4> QED BY <1>3, <2>2, <4>1, ReceiptsAfter, KeyTables DEF KeysOf, Tables
    <3> QED BY <2>1, <2>2, <3>1 DEF OrderInv
  <2> HIDE DEF Exact, Asks
  <2>3. \A k \in KeysOf["order"] : /\ Present(stored'[k]) => Exact(k)'
                                   /\ \A u \in Txns : Asks(u, k)' /\ IsFull(k)' => MovedMeanwhile(k[2])'
      BY <1>2, <2>1
  <2> QED BY <2>2, <2>3 DEF OrderInv, Exact, Asks
<1>4. ASSUME NEW k \in KeysOf["order"], OthersUntouched("order", k), Done(t)',
             \/ OrderMade(t, k) \/ OrderMoved(t, k)
             \/ OrderCounted(t, k) /\ Counted(t, found[t][k]) \in Seq(Nat)
      PROVE  OrderInv'
  <2>1. Call[t].do = "receive" => Call[t].order = k[2] /\ k = Order(Call[t].order)
      BY <1>4, OrderKeyOf DEF OrderMade, OrderMoved, OrderCounted
  <2>2. \A l \in KeysOf["order"] \ {k} : stored'[l] = stored[l] /\ Receipts(l[2])' = Receipts(l[2])
    <3>1. \A l \in KeysOf["order"] \ {k} : l[2] # k[2]
        BY OrderKeyOf
    <3> QED BY <1>4, <2>1, <3>1, ReceiptsAfter DEF OthersUntouched
  <2>3. Present(stored'[k])
    <3>1. CASE OrderMade(t, k)
      <4>1. "status" \in DOMAIN stored'[k]
          BY <3>1 DEF OrderMade
      <4>2. "status" \notin DOMAIN Absent
          BY DEF Absent
      <4> QED BY <4>1, <4>2 DEF Present
    <3> QED BY <1>4, <3>1 DEF OrderMoved, OrderCounted
  <2>4. ASSUME NEW r \in Txns, Call[r].do = "receive", Done(r)'
        PROVE  Present(stored'[Order(Call[r].order)])
    <3>1. Order(Call[r].order) \in KeysOf["order"]
      <4>1. Order(Call[r].order) \in Keys
          BY <2>4, DeskAssumption DEF DeskArguments
      <4> QED BY <4>1, KeyTables DEF KeysOf, Tables
    <3>2. CASE r = t
        BY <2>1, <2>3, <2>4, <3>2
    <3>3. CASE r # t
      <4>1. Done(r)
          BY <2>4, <3>3, ReceiptsAfter
      <4> QED BY <2>2, <2>3, <2>4, <3>1, <4>1 DEF OrderInv
    <3> QED BY <3>2, <3>3
  <2>5. Exact(k)' /\ \A u \in Txns : Asks(u, k)' /\ IsFull(k)' => MovedMeanwhile(k[2])'
    <3>1. CASE OrderMade(t, k)
        BY <1>4, <3>1, MadeExact
    <3>2. CASE OrderMoved(t, k)
      <4>1. /\ Call[t].do = "order_status" /\ k = Order(Call[t].order)
            /\ Present(found[t][k]) /\ Present(stored[k])
            /\ Call[t].status \in OrderTransitions[found[t][k].status]
            /\ stored'[k].ordered = stored[k].ordered /\ stored'[k].received = stored[k].received
          BY <3>2 DEF OrderMoved
      <4>2. Receipts(k[2])' = Receipts(k[2])
          BY <4>1, ReceiptsAfter
      <4>3. (ReceivedExact(k) => ReceivedExact(k)') /\ (IsFull(k)' <=> IsFull(k))
          BY <4>1, <4>2, SameExact
      <4>4. found[t][k].status # "received"
          BY <4>1 DEF OrderTransitions
      <4>5. Asks(t, k)
          BY <4>1, <4>4 DEF Answers
      <4>6. IsFull(k) => MovedMeanwhile(k[2])
          BY <1>0, <4>5
      <4>7. MovedMeanwhile(k[2]) => MovedMeanwhile(k[2])'
          BY ReceiptsAfter
      <4> QED BY <1>0, <4>1, <4>3, <4>6, <4>7
    <3>3. CASE OrderCounted(t, k) /\ Counted(t, found[t][k]) \in Seq(Nat)
      <4>1. ReceivedExact(k)' /\ (IsFull(k)' => stored'[k].status = "received") /\ Receipts(k[2])' = Receipts(k[2]) \cup {t}
          BY <1>4, <3>3, CountedExact
      <4>2. ASSUME NEW u \in Txns, Asks(u, k)' PROVE MovedMeanwhile(k[2])'
        <5>1. u \in rivals'[t] /\ Call[u].do = "order_status" /\ Call[u].order = k[2]
            BY <1>1, <4>2 DEF Answers, Order
        <5> QED BY <4>1, <5>1 DEF MovedMeanwhile
      <4> QED BY <4>1, <4>2
    <3> QED BY <1>4, <3>1, <3>2, <3>3
  <2> HIDE DEF Exact, Asks
  <2>6. \A l \in KeysOf["order"] : /\ Present(stored'[l]) => Exact(l)'
                                   /\ \A u \in Txns : Asks(u, l)' /\ IsFull(l)' => MovedMeanwhile(l[2])'
      BY <1>2, <2>2, <2>5
  <2> QED BY <2>4, <2>6 DEF OrderInv, Exact, Asks
<1> HIDE DEF Exact, Asks
<1> QED BY <1>3, <1>4, OrderKinds

LEMMA OrderStep ==
    ASSUME DeskInv, LockedInv, OrderInv, [DeskNext]_deskVars
    PROVE  OrderInv'
PROOF
<1>0. DeskInv' /\ \A u, w \in Txns : w \in rivals[u] => w \in rivals'[u]
    BY StepCases
<1>1. ASSUME NEW t \in Txns, Answers(t) PROVE OrderInv'
    BY <1>0, <1>1, OrderAnswer
<1>2. ASSUME stored' = stored, \A u \in Txns : Done(u)' <=> Done(u),
             \A u \in Txns : pc'[u] = "loaded" => found'[u] = stored \/ (pc[u] = "loaded" /\ found'[u] = found[u])
      PROVE  OrderInv'
  <2>1. \A o : Receipts(o)' = Receipts(o)
      BY <1>2 DEF Receipts
  <2>2. \A u \in Txns : rivals[u] \subseteq Txns
      BY DEF DeskInv, RivalsInv
  <2>3. \A o : MovedMeanwhile(o) => MovedMeanwhile(o)'
    <3>1. \A o : Receipts(o) \subseteq Txns
        BY DEF Receipts
    <3> QED BY <1>0, <2>1, <2>2, <3>1 DEF MovedMeanwhile
  <2>4. \A k : (ReceivedExact(k) => ReceivedExact(k)') /\ (IsFull(k)' <=> IsFull(k))
      BY <1>2, <2>1, SameExact
  <2>5. ASSUME NEW k \in KeysOf["order"], Present(stored'[k])
        PROVE  ReceivedExact(k)' /\ (IsFull(k)' => stored'[k].status = "received" \/ MovedMeanwhile(k[2])')
      BY <1>2, <2>3, <2>4, <2>5 DEF OrderInv
  <2>6. \A r \in Txns : Call[r].do = "receive" /\ Done(r)' => Present(stored'[Order(Call[r].order)])
      BY <1>2 DEF OrderInv
  <2>7. ASSUME NEW u \in Txns, NEW k \in KeysOf["order"], pc'[u] = "loaded", Call[u].do = "order_status",
               k = Order(Call[u].order), Present(found'[u][k]), found'[u][k].status # "received", IsFull(k)'
        PROVE  MovedMeanwhile(k[2])'
    <3>1. CASE found'[u] = stored
        BY <2>3, <2>4, <2>7, <3>1 DEF OrderInv
    <3>2. CASE pc[u] = "loaded" /\ found'[u] = found[u]
        BY <2>3, <2>4, <2>7, <3>2 DEF OrderInv
    <3> QED BY <1>2, <2>7, <3>1, <3>2
  <2> QED BY <2>5, <2>6, <2>7 DEF OrderInv
<1>3. ASSUME NEW t \in Txns, Loads(t) PROVE OrderInv'
  <2>1. \A u \in Txns : Done(u)' <=> Done(u)
      BY <1>3 DEF Loads, Done
  <2>2. \A u \in Txns : pc'[u] = "loaded" => found'[u] = stored \/ (pc[u] = "loaded" /\ found'[u] = found[u])
      BY <1>3 DEF Loads
  <2> QED BY <1>2, <1>3, <2>1, <2>2 DEF Loads
<1>4. CASE Rests
    BY <1>2, <1>4 DEF Rests
<1> QED BY <1>1, <1>3, <1>4, StepCases

LEMMA TalliesStart == DeskInit => LockedInv /\ LoyaltyInv /\ OrderInv
PROOF
<1> SUFFICES ASSUME DeskInit PROVE LockedInv /\ LoyaltyInv /\ OrderInv
    OBVIOUS
<1>1. stored = AtStart /\ \A t \in Txns : pc[t] # "loaded" /\ ~Done(t)
    BY DEF DeskInit, RecordsInit, RequestsInit, Done
<1>2. LockedInv
    BY <1>1 DEF LockedInv
<1>3. LoyaltyInv
    BY <1>1, DeskAssumption DEF DeskAtStart, LoyaltyInv, LoyaltyExact
<1>4. \A o : Receipts(o) = {}
    BY <1>1 DEF Receipts
<1>5. ASSUME NEW k \in KeysOf["order"], Present(stored[k])
      PROVE  ReceivedExact(k) /\ ~IsFull(k)
  <2>1. /\ stored[k].ordered \in Seq(Nat \ {0}) \ {<<>>}
        /\ stored[k].received = [i \in DOMAIN stored[k].ordered |-> 0]
      BY <1>1, <1>5, DeskAssumption DEF DeskAtStart
  <2>2. \A i \in DOMAIN stored[k].ordered : stored[k].ordered[i] \in Nat \ {0}
      BY <2>1
  <2>3. 1 \in DOMAIN stored[k].ordered
      BY <2>1
  <2>4. \A i : SumFunction([r \in Receipts(k[2]) |-> Receipt(r, {i})[i]]) = 0
    <3> TAKE i
    <3> DEFINE f == [r \in Receipts(k[2]) |-> Receipt(r, {i})[i]]
    <3>1. DOMAIN f = {}
        BY <1>4
    <3> HIDE DEF f
    <3>2. SumFunction(f) = 0
        BY <3>1, FS_EmptySet, SumAllZero
    <3> QED BY <3>2 DEF f
  <2>5. ASSUME NEW i \in DOMAIN stored[k].ordered PROVE stored[k].received[i] = 0 /\ 0 <= stored[k].ordered[i]
      BY <2>1, <2>2
  <2>6. ReceivedExact(k)
      BY <2>4, <2>5 DEF ReceivedExact
  <2>7. ~IsFull(k)
      BY <2>1, <2>2, <2>3 DEF IsFull, Fully
  <2> QED BY <2>6, <2>7
<1>6. OrderInv
    BY <1>1, <1>5 DEF OrderInv
<1> QED BY <1>2, <1>3, <1>6

\* What is counted up under a lock is exact, whatever requests meet (growth.py:226,
\* purchase_orders.py:235): the row that was found is still the one that is stored.
THEOREM Tallies == DeskSpec => []TalliesExact
PROOF
<1>1. DeskInv /\ (LockedInv /\ LoyaltyInv /\ OrderInv) /\ [DeskNext]_deskVars => (LockedInv /\ LoyaltyInv /\ OrderInv)'
    BY LockedStep, LoyaltyKept, OrderStep
<1>2. LoyaltyInv /\ OrderInv => TalliesExact
    BY DEF LoyaltyInv, OrderInv, TalliesExact, OrderReceivedExact, ReceivedExact, IsFull,
       MovedMeanwhile
<1> QED BY <1>1, <1>2, TalliesStart, DeskAlways, PTL DEF DeskSpec

--------------------
(* The main branch of a business                                            *)

\* t opens branch b, and of those it has found none stays the main one beside it.
CreatedBranch(t) ==
    LET c == Call[t]
        b == Branch(c.branch)
    IN  /\ c.do = "create_branch" /\ b \in Keys /\ ~Present(stored[b])
        /\ \E m \in BOOLEAN :
              /\ stored'[b] = [tenant |-> c.tenant, main |-> m, active |-> TRUE]
              /\ \A k \in KeysOf["branch"] \ {b} :
                    IF m /\ k \in OfTenant(t, "branch")
                    THEN Present(stored[k]) /\ Present(stored'[k]) /\ stored'[k].main = FALSE
                    ELSE stored'[k] = stored[k]

\* t makes branch b the main one, and those it has found ordinary ones, or leaves
\* them; b does not become the main one in any other way.
UpdatedBranch(t) ==
    LET c == Call[t]
        b == Branch(c.branch)
    IN  /\ c.do = "update_branch" /\ b \in Keys /\ Present(stored[b]) /\ Present(stored'[b])
        /\ Object(t, b).tenant = c.tenant /\ Present(Object(t, b))
        /\ stored'[b].main => c.main \/ stored[b].main
        /\ \A k \in KeysOf["branch"] \ {b} :
              IF c.main /\ k \in OfTenant(t, "branch")
              THEN Present(stored[k]) /\ Present(stored'[k]) /\ stored'[k].main = FALSE
              ELSE stored'[k] = stored[k]

LEMMA NoLongerMainRow ==
    ASSUME DeskInv, NEW t \in Txns, pc[t] = "loaded", NEW writes, Sound(t, writes), Commits(t, writes),
           NEW k \in OfTenant(t, "branch"), k \in DOMAIN writes, writes[k] = [main |-> FALSE]
    PROVE  Present(stored[k]) /\ Present(stored'[k]) /\ stored'[k].main = FALSE
PROOF
<1>1. k \in Keys /\ Present(found[t][k]) /\ k[1] = "branch" /\ k[1] \notin Deletable
    BY DEF OfTenant, KeysOf, Tables, Deletable
<1>2. Present(stored[k]) /\ Present(stored'[k]) /\ stored'[k] = [main |-> FALSE] @@ stored[k]
  <2>1. /\ Present(found[t][k]) <=> Present(stored[k])
        /\ stored'[k] = IF Present(stored[k]) THEN writes[k] @@ stored[k] ELSE writes[k]
        /\ Present(stored'[k])
      BY <1>1, CommittedRow
  <2> QED BY <1>1, <2>1
<1>3. ([main |-> FALSE] @@ stored[k]).main = FALSE
  <2> DEFINE w == [main |-> FALSE]
  <2>1. "main" \in DOMAIN w /\ w["main"] = FALSE
      OBVIOUS
  <2> HIDE DEF w
  <2>2. (w @@ stored[k])["main"] = FALSE
      BY <2>1 DEF @@
  <2> QED BY <2>2 DEF w
<1> QED BY <1>2, <1>3

LEMMA CreateBranchStep ==
    ASSUME DeskInv, NEW t \in Txns, CreateBranch(t)
    PROVE  stored' = stored \/ CreatedBranch(t)
PROOF
<1> DEFINE c == Call[t]
           k == Branch(c.branch)
           main == c.main \/ ActiveBranches(t) = {}
           row == [tenant |-> c.tenant, main |-> main, active |-> TRUE]
           g == Granted(c.tenant, Sender(held[t], t), c.branch)
           a == k :> row
           b == g :> Assigned
           d == IF main THEN NoLongerMain(t, OfTenant(t, "branch")) ELSE Nothing
           w == a @@ b @@ d
<1>1. Call[t].do = "create_branch" /\ pc[t] = "loaded"
    BY HandlesLoaded DEF CreateBranch
<1>2. c.tenant \in Tenants /\ c.main \in BOOLEAN /\ k \in Keys /\ k[1] = "branch" /\ k[1] \notin Deletable
    BY <1>1, DeskAssumption, NamesOfKeys, KeyTables DEF AccessArguments, Deletable
<1>3. CASE Fail(t)
    BY <1>3 DEF Fail
<1>4. CASE ~Fail(t)
  <2>1. ~Present(found[t][k]) /\ Save(t, w)
      BY <1>4 DEF CreateBranch
  <2>2. main \in BOOLEAN /\ row \in DeskRow(k)
      BY <1>2, KeyTables DEF BranchRow
  <2>3. /\ g[1] = "access" /\ Assigned \in DeskRow(g) /\ Lasting("access") = {}
        /\ "branch" \notin Numbered /\ "access" \notin Numbered
      BY KeyTables, NoneLasts DEF Numbered
  <2>4. Sound(t, a) /\ DOMAIN a = {k} /\ a[k] = row
    <3>1. a[k] = row
        BY DEF :>
    <3>2. k \in Keys => /\ row \in DeskRow(k)
                        /\ Lasting(k[1]) = {} \/ ~Present(found[t][k])
                        /\ k[1] \in Numbered => k[2] = t
        BY <1>2, <2>1, <2>2, <2>3
    <3> HIDE DEF row, k
    <3> QED BY <3>1, <3>2, InsertSound
  <2>5. Sound(t, b) /\ DOMAIN b = {g}
      BY <2>3, InsertSound
  <2>6. /\ Sound(t, d) /\ DOMAIN d = IF main THEN OfTenant(t, "branch") ELSE {}
        /\ \A l \in DOMAIN d : d[l] = [main |-> FALSE]
    <3>1. CASE main
        BY <1>1, <3>1, NoLongerMainSound DEF NoLongerMain
    <3>2. CASE ~main
        BY <3>2, NothingSound
    <3> QED BY <3>1, <3>2
  <2>7. k \notin OfTenant(t, "branch")
      BY <2>1 DEF OfTenant
  <2> HIDE DEF a, b, d, k, g, row, main
  <2>8. Sound(t, a @@ b) /\ DOMAIN (a @@ b) = {k, g}
      BY <2>4, <2>5, BothSound
  <2>9. Sound(t, w) /\ DOMAIN w = {k, g} \cup DOMAIN d
    <3>1. Sound(t, a @@ b) /\ Sound(t, d)
        BY <2>6, <2>8
    <3>2. Sound(t, (a @@ b) @@ d) /\ DOMAIN ((a @@ b) @@ d) = DOMAIN (a @@ b) \cup DOMAIN d
        BY <3>1, BothSound
    <3> QED BY <2>8, <3>2
  <2>10. w[k] = row
      BY <2>4, <2>5, <2>8 DEF @@
  <2>11. \A l \in DOMAIN d : l \notin {k, g} => w[l] = [main |-> FALSE]
      BY <2>6, <2>8 DEF @@
  <2> HIDE DEF w
  <2>12. Commits(t, w)
      BY <1>4, <2>1, SaveCommits
  <2>13. ~Present(stored[k]) /\ stored'[k] = row
      BY <1>1, <1>2, <2>1, <2>9, <2>10, <2>12, CommittedRow
  <2>14. ASSUME NEW l \in KeysOf["branch"] \ {k}
         PROVE  IF main /\ l \in OfTenant(t, "branch")
                THEN Present(stored[l]) /\ Present(stored'[l]) /\ stored'[l].main = FALSE
                ELSE stored'[l] = stored[l]
    <3>1. l \in Keys /\ l # g
        BY <2>3 DEF KeysOf, Tables
    <3>2. CASE main /\ l \in OfTenant(t, "branch")
      <4>1. l \in DOMAIN w /\ w[l] = [main |-> FALSE]
          BY <2>6, <2>9, <2>11, <3>1, <3>2
      <4> QED BY <1>1, <2>9, <2>12, <3>2, <4>1, NoLongerMainRow
    <3>3. CASE ~(main /\ l \in OfTenant(t, "branch"))
      <4>1. l \notin DOMAIN w
          BY <2>6, <2>9, <3>1, <3>3
      <4> QED BY <2>12, <3>1, <3>3, <4>1 DEF Commits
    <3> QED BY <3>2, <3>3
  <2>15. stored'[k] = [tenant |-> c.tenant, main |-> main, active |-> TRUE]
      BY <2>13 DEF row
  <2> QED BY <1>1, <1>2, <2>2, <2>13, <2>14, <2>15 DEF CreatedBranch, k
<1> QED BY <1>3, <1>4

LEMMA UpdateBranchStep ==
    ASSUME DeskInv, NEW t \in Txns, UpdateBranch(t)
    PROVE  stored' = stored \/ UpdatedBranch(t)
PROOF
<1> DEFINE c == Call[t]
           k == Branch(c.branch)
           was == Object(t, k)
           new == [was EXCEPT !.main = c.main, !.active = c.active]
           a == Update(t, k, new)
           ks == OfTenant(t, "branch") \ {k}
           d == IF c.main THEN NoLongerMain(t, ks) ELSE Nothing
           w == a @@ d
<1>1. Call[t].do = "update_branch" /\ pc[t] = "loaded"
    BY HandlesLoaded DEF UpdateBranch
<1>2. k \in Keys /\ c.main \in BOOLEAN /\ c.active \in BOOLEAN /\ k[1] = "branch" /\ DeskRow(k) = BranchRow
      /\ k[1] \notin Deletable
    BY <1>1, DeskAssumption, KeyTables DEF AccessArguments, Deletable
<1>3. CASE Fail(t)
    BY <1>3 DEF Fail
<1>4. CASE ~Fail(t)
  <2>1. Present(was) /\ was.tenant = c.tenant /\ Save(t, w)
      BY <1>4 DEF UpdateBranch
  <2>2. was \in BranchRow /\ Present(found[t][k])
      BY <1>1, <1>2, <2>1, ObjectTyped
  <2>3. new \in BranchRow /\ new.tenant = was.tenant /\ new.main = c.main /\ "main" \in DOMAIN new
      BY <1>2, <2>2 DEF BranchRow
  <2>4. \A x \in Lasting(k[1]) : new[x] = Object(t, k)[x]
      BY <1>2, <2>3, NoneLasts
  <2>5. a[k] = Dirty(was, new)
      BY DEF Update, :>
  <2>6. /\ Sound(t, d) /\ DOMAIN d = (IF c.main THEN ks ELSE {})
        /\ \A l \in DOMAIN d : d[l] = [main |-> FALSE]
    <3>1. CASE c.main
        BY <1>1, <3>1, NoLongerMainSound DEF NoLongerMain
    <3>2. CASE ~c.main
        BY <3>2, NothingSound
    <3> QED BY <3>1, <3>2
  <2> HIDE DEF new, k, was
  <2>7. Sound(t, a) /\ DOMAIN a = {k}
      BY <1>2, <2>2, <2>3, <2>4, UpdateSound
  <2> HIDE DEF a, d
  <2>8. Sound(t, w) /\ DOMAIN w = {k} \cup DOMAIN d
    <3>1. Sound(t, a) /\ Sound(t, d)
        BY <2>6, <2>7
    <3>2. Sound(t, a @@ d) /\ DOMAIN (a @@ d) = DOMAIN a \cup DOMAIN d
        BY <3>1, BothSound
    <3> QED BY <2>7, <3>2
  <2>9. w[k] = Dirty(was, new) /\ \A l \in DOMAIN d : l # k => w[l] = [main |-> FALSE]
      BY <2>5, <2>6, <2>7 DEF @@
  <2> HIDE DEF w
  <2>10. Commits(t, w)
      BY <1>4, <2>1, SaveCommits
  <2>11. /\ Present(stored[k]) /\ stored'[k] \in BranchRow
         /\ \A x \in DOMAIN new : stored'[k][x] = IF new[x] = was[x] THEN stored[k][x] ELSE new[x]
      BY <1>1, <1>2, <2>2, <2>3, <2>8, <2>9, <2>10, DirtyRow
  <2>12. stored'[k].main => c.main \/ stored[k].main
      BY <2>3, <2>11
  <2>13. Present(stored'[k])
      BY <1>2, <2>11, RowIsPresent
  <2>14. ASSUME NEW l \in KeysOf["branch"] \ {k}
         PROVE  IF c.main /\ l \in OfTenant(t, "branch")
                THEN Present(stored[l]) /\ Present(stored'[l]) /\ stored'[l].main = FALSE
                ELSE stored'[l] = stored[l]
    <3>1. l \in Keys
        BY DEF KeysOf, Tables
    <3>2. CASE c.main /\ l \in OfTenant(t, "branch")
      <4>1. l \in DOMAIN w /\ w[l] = [main |-> FALSE]
          BY <2>6, <2>8, <2>9, <3>2
      <4> QED BY <1>1, <2>8, <2>10, <3>2, <4>1, NoLongerMainRow
    <3>3. CASE ~(c.main /\ l \in OfTenant(t, "branch"))
      <4>1. l \notin DOMAIN w
          BY <2>6, <2>8, <3>3
      <4> QED BY <2>10, <3>1, <3>3, <4>1 DEF Commits
    <3> QED BY <3>2, <3>3
  <2> QED BY <1>1, <1>2, <2>1, <2>11, <2>12, <2>13, <2>14 DEF UpdatedBranch, k, was
<1> QED BY <1>3, <1>4


ChoosingTogether(x) == Collided(x, {"create_branch", "update_branch"})

\* No branch of x is a second main one, and the requests that choose one have found
\* all of its branches.
OneMainOf(x) ==
    /\ \A k, l \in KeysOf["branch"] : TwoMains(stored, k, l) => stored[k].tenant # x
    /\ \A t \in Txns : pc[t] = "loaded" /\ Call[t].do \in {"create_branch", "update_branch"} /\ Call[t].tenant = x =>
          \A k \in KeysOf["branch"] : Present(stored[k]) /\ stored[k].tenant = x => Present(found[t][k])

\* A branch is of a business that is there and stays its branch; and a request that
\* chooses a main branch has found all of the business's, unless two of them did so
\* together.
MainInv ==
    /\ \A k \in KeysOf["branch"] : Present(stored[k]) => Present(stored[Tenant(stored[k].tenant)])
    /\ \A t \in Txns : \A k \in KeysOf["branch"] :
          k \in DOMAIN held[t] /\ Present(held[t][k]) => stored[k].tenant = held[t][k].tenant
    /\ \A x \in Tenants : ChoosingTogether(x) \/ OneMainOf(x)

LEMMA BranchKept ==
    ASSUME DeskInv, NEW t \in Txns, Answers(t), NEW k \in KeysOf["branch"]
    PROVE  /\ k \in Keys /\ k[1] = "branch"
           /\ Present(stored[k]) => /\ Present(stored'[k]) /\ stored'[k].tenant = stored[k].tenant
                                    /\ stored[k] \in BranchRow /\ Tenant(stored[k].tenant) \in Keys
           /\ \A x : Tenant(x) \in Keys /\ Present(stored[Tenant(x)]) => Present(stored'[Tenant(x)])
           /\ Present(found[t][k]) => Present(stored[k]) /\ stored[k].tenant = found[t][k].tenant
PROOF
<1>1. k \in Keys /\ k[1] = "branch" /\ k[1] \notin Deletable /\ DeskRow(k) = BranchRow /\ Lasting(k[1]) = {"tenant"}
    BY RowOfTable, NoneLasts DEF KeysOf, Tables, Deletable
<1>2. Keeps(t, Tables) /\ pc[t] = "loaded"
    BY WhoTouches DEF Answers
<1>3. Present(stored[k]) => Present(stored'[k]) /\ stored'[k].tenant = stored[k].tenant
    BY <1>1, <1>2 DEF Keeps
<1>4. Present(stored[k]) => stored[k] \in BranchRow
    BY <1>1 DEF DeskInv, RowsTyped, RowTyped, Present
<1>5. stored[k] \in BranchRow => Tenant(stored[k].tenant) \in Keys
  <2>1. stored[k] \in BranchRow => stored[k].tenant \in Tenants
      BY DEF BranchRow
  <2> QED BY <2>1, NamesOfKeys
<1>6. \A x : Tenant(x) \in Keys /\ Present(stored[Tenant(x)]) => Present(stored'[Tenant(x)])
  <2>1. \A x : Tenant(x)[1] \notin Deletable
      BY KeyTables DEF Deletable
  <2> QED BY <1>2, <2>1 DEF Keeps
<1>7. Present(found[t][k]) => Present(stored[k]) /\ stored[k].tenant = found[t][k].tenant
    BY <1>1, <1>2 DEF DeskInv, KeptInv, LastingInv
<1> QED BY <1>1, <1>3, <1>4, <1>5, <1>6, <1>7

\* a business with its first branch
Opened(t) ==
    LET c == Call[t]
        b == Branch(c.branch)
    IN  /\ c.do \in {"signup", "bootstrap"} /\ b \in Keys /\ Tenant(c.tenant) \in Keys
        /\ ~Present(stored[Tenant(c.tenant)]) /\ Present(stored'[Tenant(c.tenant)])
        /\ ~Present(stored[b]) /\ stored'[b].tenant = c.tenant
        /\ \A k \in KeysOf["branch"] \ {b} : stored'[k] = stored[k]

\* no branch becomes the main one
NoneChosen ==
    \A k \in KeysOf["branch"] :
        \/ stored'[k] = stored[k]
        \/ Present(stored[k]) /\ Present(stored'[k]) /\ stored'[k].main = stored[k].main

LEMMA BranchKinds ==
    ASSUME DeskInv, NEW t \in Txns, Answers(t)
    PROVE  NoneChosen \/ Opened(t) \/ CreatedBranch(t) \/ UpdatedBranch(t)
PROOF
<1>0. AccessStep(t) \/ DeskStep(t)
    BY DEF Answers
<1>1. CASE stored' = stored
    BY <1>1 DEF NoneChosen
<1>2. CASE Untouched("branch")
    BY <1>2 DEF Untouched, NoneChosen
<1>3. CASE (SignUp(t) \/ Bootstrap(t)) /\ stored' # stored
  <2> DEFINE c == Call[t]
             x == Tenant(c.tenant)
             m == Member(c.tenant, c.user)
             b == Branch(c.branch)
  <2>1. /\ c.do \in {"signup", "bootstrap"} /\ {x, m, b} \subseteq Keys
        /\ ~Present(stored[x]) /\ ~Present(stored[b])
        /\ \E is \in BOOLEAN :
              /\ stored'[x] = [status |-> IF is THEN "approved" ELSE "pending", active |-> is, name |-> "first"]
              /\ stored'[b] = [tenant |-> c.tenant, main |-> TRUE, active |-> is]
        /\ \A k \in (KeysOf["tenant"] \cup KeysOf["member"] \cup KeysOf["branch"]) \ {x, m, b} :
              stored'[k] = stored[k]
      BY <1>3, BusinessStep
  <2>2. x[1] = "tenant" /\ m[1] = "member" /\ b[1] = "branch"
      BY KeyTables
  <2>3. Present(stored'[x])
    <3>1. "status" \in DOMAIN stored'[x]
        BY <2>1
    <3>2. "status" \notin DOMAIN Absent
        BY DEF Absent
    <3> QED BY <3>1, <3>2 DEF Present
  <2>4. stored'[b].tenant = c.tenant
      BY <2>1
  <2> HIDE DEF x, m, b
  <2>5. \A k \in KeysOf["branch"] \ {b} : stored'[k] = stored[k]
      BY <2>1, <2>2 DEF KeysOf, Tables
  <2>6. Opened(t)
      BY <2>1, <2>3, <2>4, <2>5 DEF Opened, x, b
  <2> QED BY <2>6
<1>4. CASE Approve(t) /\ stored' # stored
  <2>1. \A k \in KeysOf["branch"] : k[1] = "branch"
      BY DEF KeysOf, Tables
  <2> QED BY <1>4, <2>1, ApproveStep DEF NoneChosen
<1>5. CASE CreateBranch(t)
    BY <1>1, <1>5, CreateBranchStep
<1>6. CASE UpdateBranch(t)
    BY <1>1, <1>6, UpdateBranchStep
<1> QED BY <1>0, <1>1, <1>2, <1>3, <1>4, <1>5, <1>6, WhoTouches

LEMMA NewBranch ==
    ASSUME DeskInv, NEW t \in Txns, Answers(t), NEW k \in KeysOf["branch"], ~Present(stored[k]), Present(stored'[k])
    PROVE  /\ stored'[k].tenant = Call[t].tenant /\ Present(stored'[Tenant(Call[t].tenant)])
           /\ \/ Call[t].do = "create_branch"
              \/ Call[t].do \in {"signup", "bootstrap"} /\ ~Present(stored[Tenant(Call[t].tenant)])
PROOF
<1>1. CASE NoneChosen
    BY <1>1 DEF NoneChosen
<1>2. CASE Opened(t)
    BY <1>2 DEF Opened
<1>3. CASE CreatedBranch(t)
  <2>1. pc[t] = "loaded" /\ Call[t].do = "create_branch"
      BY <1>3 DEF Answers, CreatedBranch
  <2>2. Call[t].do \notin Public \cup OfPlatform \cup {"logout"}
      BY <2>1 DEF Public, OfPlatform
  <2>3. Tenant(Call[t].tenant) \in Keys /\ Present(stored[Tenant(Call[t].tenant)])
      BY <2>1, <2>2, MemberContext DEF TenantOf
  <2>4. k = Branch(Call[t].branch) /\ stored'[k].tenant = Call[t].tenant
      BY <1>3 DEF CreatedBranch
  <2> QED BY <2>1, <2>3, <2>4, BranchKept
<1>4. CASE UpdatedBranch(t)
    BY <1>4 DEF UpdatedBranch
<1> QED BY <1>1, <1>2, <1>3, <1>4, BranchKinds

LEMMA TwoMainsBoth ==
    ASSUME NEW v, NEW k, NEW l, TwoMains(v, k, l)
    PROVE  TwoMains(v, l, k)
PROOF BY DEF TwoMains


\* A branch of the business of a request that chooses is one of those it has found.
LEMMA FoundBranch ==
    ASSUME DeskInv, MainInv, NEW t \in Txns, Answers(t), ~ChoosingTogether(Call[t].tenant),
           Call[t].do \in {"create_branch", "update_branch"},
           NEW k \in KeysOf["branch"], Present(stored[k]), stored[k].tenant = Call[t].tenant
    PROVE  k \in OfTenant(t, "branch")
PROOF
<1>1. Present(found[t][k])
  <2>1. Call[t].tenant \in Tenants
      BY BranchKept DEF BranchRow
  <2> QED BY <2>1 DEF MainInv, OneMainOf, Answers
<1>2. found[t][k].tenant = Call[t].tenant
    BY <1>1, BranchKept
<1> QED BY <1>1, <1>2 DEF OfTenant

\* The branch that t chooses is one of its business.
LEMMA UpdatedTenant ==
    ASSUME DeskInv, MainInv, NEW t \in Txns, Answers(t), UpdatedBranch(t)
    PROVE  LET b == Branch(Call[t].branch)
           IN  /\ b \in KeysOf["branch"] /\ Present(stored[b])
               /\ stored[b].tenant = Call[t].tenant /\ stored'[b].tenant = Call[t].tenant
PROOF
<1> DEFINE b == Branch(Call[t].branch)
<1>1. b \in Keys /\ Present(stored[b]) /\ Object(t, b).tenant = Call[t].tenant /\ Present(Object(t, b))
    BY DEF UpdatedBranch
<1>2. b \in KeysOf["branch"]
    BY <1>1, KeyTables DEF KeysOf, Tables
<1>3. stored[b].tenant = Call[t].tenant
  <2>1. CASE b \in DOMAIN held[t]
    <3>1. Object(t, b) = held[t][b]
        BY <2>1 DEF Object
    <3> QED BY <1>1, <1>2, <2>1, <3>1 DEF MainInv
  <2>2. CASE b \notin DOMAIN held[t]
    <3>1. Object(t, b) = found[t][b]
        BY <2>2 DEF Object
    <3> QED BY <1>1, <1>2, <3>1, BranchKept
  <2> QED BY <2>1, <2>2
<1>4. stored'[b].tenant = Call[t].tenant
    BY <1>1, <1>2, <1>3, BranchKept
<1> QED BY <1>1, <1>2, <1>3, <1>4

LEMMA ChosenTenant ==
    ASSUME DeskInv, MainInv, NEW t \in Txns, Answers(t),
           Opened(t) \/ CreatedBranch(t) \/ UpdatedBranch(t)
    PROVE  stored'[Branch(Call[t].branch)].tenant = Call[t].tenant
PROOF
<1>1. CASE CreatedBranch(t)
  <2>1. PICK m \in BOOLEAN :
              stored'[Branch(Call[t].branch)] = [tenant |-> Call[t].tenant, main |-> m, active |-> TRUE]
      BY <1>1 DEF CreatedBranch
  <2> QED BY <2>1
<1> QED BY <1>1, UpdatedTenant DEF Opened

\* the branch that t chooses, and one beside it
LEMMA ChosenAlone ==
    ASSUME DeskInv, MainInv, NEW t \in Txns, Answers(t), ~ChoosingTogether(Call[t].tenant),
           Opened(t) \/ CreatedBranch(t) \/ UpdatedBranch(t),
           NEW l \in KeysOf["branch"]
    PROVE  ~TwoMains(stored', Branch(Call[t].branch), l)
PROOF
<1> DEFINE c == Call[t]
           b == Branch(c.branch)
<1> SUFFICES ASSUME TwoMains(stored', b, l) PROVE FALSE
    OBVIOUS
<1>1. /\ b # l /\ Present(stored'[b]) /\ Present(stored'[l])
      /\ stored'[b].tenant = stored'[l].tenant /\ stored'[b].main /\ stored'[l].main
    BY DEF TwoMains
<1>2. b \in KeysOf["branch"] /\ l \in KeysOf["branch"] \ {b}
  <2>1. b \in Keys
      BY DEF Opened, CreatedBranch, UpdatedBranch
  <2> QED BY <1>1, <2>1, KeyTables DEF KeysOf, Tables
<1>3. CASE Opened(t)
  <2>1. /\ ~Present(stored[Tenant(c.tenant)]) /\ stored'[b].tenant = c.tenant /\ stored'[l] = stored[l]
      BY <1>2, <1>3 DEF Opened
  <2> QED BY <1>1, <2>1 DEF MainInv
<1>4. ASSUME c.do \in {"create_branch", "update_branch"}, stored'[b].tenant = c.tenant, stored'[l] = stored[l]
      PROVE  l \in OfTenant(t, "branch")
    BY <1>1, <1>4, FoundBranch
<1>5. CASE CreatedBranch(t)
  <2>1. PICK m \in BOOLEAN :
              /\ stored'[b] = [tenant |-> c.tenant, main |-> m, active |-> TRUE]
              /\ \A k \in KeysOf["branch"] \ {b} :
                    IF m /\ k \in OfTenant(t, "branch")
                    THEN Present(stored[k]) /\ Present(stored'[k]) /\ stored'[k].main = FALSE
                    ELSE stored'[k] = stored[k]
      BY <1>5 DEF CreatedBranch
  <2>2. m = TRUE /\ stored'[b].tenant = c.tenant
      BY <1>1, <2>1
  <2>3. c.do = "create_branch"
      BY <1>5 DEF CreatedBranch
  <2> QED BY <1>1, <1>2, <1>4, <2>1, <2>2, <2>3
<1>6. CASE UpdatedBranch(t)
  <2>1. /\ c.do = "update_branch" /\ Present(stored[b]) /\ Object(t, b).tenant = c.tenant /\ Present(Object(t, b))
        /\ stored'[b].main => c.main \/ stored[b].main
        /\ IF c.main /\ l \in OfTenant(t, "branch") THEN stored'[l].main = FALSE ELSE stored'[l] = stored[l]
      BY <1>2, <1>6 DEF UpdatedBranch
  <2>2. stored[b].tenant = c.tenant /\ stored'[b].tenant = c.tenant
      BY <1>6, UpdatedTenant
  <2>3. stored'[l] = stored[l]
      BY <1>1, <2>1
  <2>4. ~c.main
      BY <1>1, <1>4, <2>1, <2>2, <2>3
  <2>5. TwoMains(stored, b, l)
      BY <1>1, <2>1, <2>2, <2>3, <2>4 DEF TwoMains
  <2>6. c.tenant \in Tenants
      BY <1>2, <2>1, <2>2, BranchKept DEF BranchRow
  <2> QED BY <1>2, <2>2, <2>5, <2>6 DEF MainInv, OneMainOf
<1> QED BY <1>3, <1>5, <1>6

LEMMA MainAnswer ==
    ASSUME DeskInv, MainInv, DeskInv', NEW t \in Txns, Answers(t)
    PROVE  MainInv'
PROOF
<1>1. ASSUME NEW k \in KeysOf["branch"], Present(stored'[k])
      PROVE  Present(stored'[Tenant(stored'[k].tenant)])
  <2>1. CASE Present(stored[k])
      BY <2>1, BranchKept DEF MainInv
  <2>2. CASE ~Present(stored[k])
      BY <1>1, <2>2, NewBranch
  <2> QED BY <2>1, <2>2
<1>2. ASSUME NEW u \in Txns, NEW k \in KeysOf["branch"], k \in DOMAIN held'[u], Present(held'[u][k])
      PROVE  stored'[k].tenant = held'[u][k].tenant
  <2>1. u # t
    <3>1. held'[t] = Unread
        BY DEF DeskInv, Frame, Answers
    <3>2. DOMAIN Unread = {}
        BY UnreadIs
    <3> QED BY <1>2, <3>1, <3>2
  <2>2. held'[u] = held[u]
      BY <2>1 DEF Answers
  <2>3. Present(stored[k])
    <3>1. k \in Keys /\ k[1] \notin Deletable
        BY BranchKept DEF Deletable
    <3> QED BY <1>2, <2>2, <3>1 DEF DeskInv, KeptInv
  <2> QED BY <1>2, <2>2, <2>3, BranchKept DEF MainInv
<1>3. ASSUME NEW x \in Tenants PROVE ChoosingTogether(x)' \/ OneMainOf(x)'
  <2>1. CASE ChoosingTogether(x)
      BY <2>1 DEF ChoosingTogether, Collided, Answers
  <2>2. CASE ~ChoosingTogether(x)
    <3>0. OneMainOf(x)
        BY <2>2 DEF MainInv
    <3>1. ASSUME NEW u \in Txns, pc'[u] = "loaded", Call[u].do \in {"create_branch", "update_branch"},
                 Call[u].tenant = x,
                 NEW k \in KeysOf["branch"], Present(stored'[k]), stored'[k].tenant = x
          PROVE  Present(found'[u][k])
      <4>1. u # t /\ pc[u] = "loaded" /\ found'[u] = found[u] /\ t \in rivals[u]
          BY <3>1 DEF Answers
      <4>2. CASE Present(stored[k])
          BY <3>0, <3>1, <4>1, <4>2, BranchKept DEF OneMainOf
      <4>3. CASE ~Present(stored[k])
        <5>1. Call[t].tenant = x
            BY <3>1, <4>3, NewBranch
        <5>2. Call[t].do # "create_branch"
            BY <2>2, <3>1, <4>1, <5>1 DEF ChoosingTogether, Collided
        <5>3. ~Present(stored[Tenant(Call[u].tenant)])
            BY <3>1, <4>3, <5>1, <5>2, NewBranch
        <5>4. Call[u].do \notin Public \cup OfPlatform \cup {"logout"}
            BY <3>1 DEF Public, OfPlatform
        <5> QED BY <4>1, <5>3, <5>4, MemberContext DEF TenantOf
      <4> QED BY <4>2, <4>3
    <3>2. ASSUME NEW k \in KeysOf["branch"], NEW l \in KeysOf["branch"], TwoMains(stored', k, l),
                 stored'[k].tenant = x
          PROVE  FALSE
      <4> DEFINE b == Branch(Call[t].branch)
      <4>1. /\ k # l /\ Present(stored'[k]) /\ Present(stored'[l])
            /\ stored'[k].tenant = x /\ stored'[l].tenant = x /\ stored'[k].main /\ stored'[l].main
          BY <3>2 DEF TwoMains
      <4>2. TwoMains(stored, k, l) => stored[k].tenant # x
          BY <3>0 DEF OneMainOf
      <4>3. CASE NoneChosen
        <5>1. /\ Present(stored[k]) /\ stored[k].main /\ Present(stored[l]) /\ stored[l].main
            BY <4>1, <4>3 DEF NoneChosen
        <5>2. stored[k].tenant = x /\ stored[l].tenant = x
            BY <4>1, <5>1, BranchKept
        <5> QED BY <4>1, <4>2, <5>1, <5>2 DEF TwoMains
      <4>4. ASSUME Opened(t) \/ CreatedBranch(t) \/ UpdatedBranch(t) PROVE FALSE
        <5>1. k # b /\ l # b
          <6>1. k = b \/ l = b => Call[t].tenant = x
              BY <4>1, <4>4, ChosenTenant
          <6>2. Call[t].tenant = x => ~TwoMains(stored', b, k) /\ ~TwoMains(stored', b, l)
              BY <2>2, <4>4, ChosenAlone
          <6> QED BY <3>2, <6>1, <6>2, TwoMainsBoth
        <5>2. stored'[k] = stored[k] /\ stored'[l] = stored[l]
          <6>1. CASE Opened(t)
              BY <5>1, <6>1 DEF Opened
          <6>2. CASE CreatedBranch(t)
              BY <4>1, <5>1, <6>2 DEF CreatedBranch
          <6>3. CASE UpdatedBranch(t)
              BY <4>1, <5>1, <6>3 DEF UpdatedBranch
          <6> QED BY <4>4, <6>1, <6>2, <6>3
        <5> QED BY <4>1, <4>2, <5>2 DEF TwoMains
      <4> QED BY <4>3, <4>4, BranchKinds
    <3> QED BY <3>1, <3>2 DEF OneMainOf
  <2> QED BY <2>1, <2>2
<1> QED BY <1>1, <1>2, <1>3 DEF MainInv

LEMMA MainStep ==
    ASSUME DeskInv, MainInv, [DeskNext]_deskVars
    PROVE  MainInv'
PROOF
<1>0. DeskInv' /\ \A u, w \in Txns : w \in rivals[u] => w \in rivals'[u]
    BY StepCases
<1>1. ASSUME NEW t \in Txns, AccessStep(t) \/ DeskStep(t) PROVE MainInv'
    BY <1>0, <1>1, AnswerFrame, MainAnswer
<1>2. ASSUME stored' = stored,
             \A u \in Txns : pc'[u] = "loaded" => found'[u] = stored \/ (pc[u] = "loaded" /\ found'[u] = found[u]),
             \A u \in Txns : \A k \in DOMAIN held'[u] :
                \/ k \in DOMAIN held[u] /\ held'[u][k] = held[u][k]
                \/ held'[u][k] = stored[k]
      PROVE  MainInv'
  <2>1. \A t \in Txns : \A k \in KeysOf["branch"] :
           k \in DOMAIN held'[t] /\ Present(held'[t][k]) => stored'[k].tenant = held'[t][k].tenant
      BY <1>2 DEF MainInv
  <2>2. ASSUME NEW x \in Tenants PROVE ChoosingTogether(x)' \/ OneMainOf(x)'
    <3>1. CASE ChoosingTogether(x)
        BY <1>0, <3>1 DEF ChoosingTogether, Collided
    <3>2. CASE OneMainOf(x)
      <4>1. ASSUME NEW t \in Txns, pc'[t] = "loaded", Call[t].do \in {"create_branch", "update_branch"},
                   Call[t].tenant = x, NEW k \in KeysOf["branch"], Present(stored'[k]), stored'[k].tenant = x
            PROVE  Present(found'[t][k])
        <5>1. CASE found'[t] = stored
            BY <1>2, <4>1, <5>1
        <5>2. CASE pc[t] = "loaded" /\ found'[t] = found[t]
            BY <1>2, <3>2, <4>1, <5>2 DEF OneMainOf
        <5> QED BY <1>2, <4>1, <5>1, <5>2
      <4>2. \A k, l \in KeysOf["branch"] : TwoMains(stored', k, l) => stored'[k].tenant # x
          BY <1>2, <3>2 DEF OneMainOf
      <4> QED BY <4>1, <4>2 DEF OneMainOf
    <3> QED BY <3>1, <3>2 DEF MainInv
  <2> QED BY <1>2, <2>1, <2>2 DEF MainInv
<1>3. ASSUME NEW t \in Txns, Load(t, LocksOf(t)) PROVE MainInv'
    BY <1>2, <1>3, LoadInv
<1>4. ASSUME NEW t \in Txns, Wait(t, LocksOf(t)) PROVE MainInv'
    BY <1>2, <1>4 DEF Wait, records
<1>5. ASSUME NEW t \in Txns, Authenticate(t, Needs) PROVE MainInv'
  <2>1. CASE Fail(t)
    <3>1. held' = [held EXCEPT ![t] = Unread] /\ stored' = stored
        BY <2>1 DEF Fail, Close
    <3>2. \A u \in Txns : \A k \in DOMAIN held'[u] : k \in DOMAIN held[u] /\ held'[u][k] = held[u][k]
      <4>1. held = [u \in Txns |-> held[u]]
          BY DEF DeskInv, Frame
      <4>2. \A u \in Txns : held'[u] = IF u = t THEN Unread ELSE held[u]
          BY <3>1, <4>1
      <4>3. DOMAIN Unread = {}
          BY UnreadIs
      <4> QED BY <4>2, <4>3
    <3>3. Rests
        BY <1>5, RestFrame
    <3> QED BY <1>2, <3>1, <3>2, <3>3 DEF Rests
  <2>2. CASE ~Fail(t)
    <3>1. /\ held' = [held EXCEPT ![t] = [k \in Context(stored, t) \cap Keys |-> stored[k]]]
        BY <1>5, <2>2 DEF Authenticate, Enter
    <3>2. \A u \in Txns : \A k \in DOMAIN held'[u] :
             \/ k \in DOMAIN held[u] /\ held'[u][k] = held[u][k]
             \/ held'[u][k] = stored[k]
      <4>1. held = [u \in Txns |-> held[u]]
          BY DEF DeskInv, Frame
      <4>2. \A u \in Txns : held'[u] = IF u = t THEN [k \in Context(stored, t) \cap Keys |-> stored[k]] ELSE held[u]
          BY <3>1, <4>1
      <4> QED BY <4>2
    <3>3. Rests
        BY <1>5, RestFrame
    <3> QED BY <1>2, <3>2, <3>3 DEF Rests
  <2> QED BY <2>1, <2>2
<1>6. CASE UNCHANGED deskVars
    BY <1>2, <1>6 DEF deskVars, records, requests
<1> QED BY <1>1, <1>3, <1>4, <1>5, <1>6, StepKinds


\* two requests were changing the staff of x together
Pair(x) == Collided(x, {"update_staff"})

OfBusiness(t) == Call[t].do \notin Public \cup OfPlatform \cup {"logout"}

\* A business that waits for its approval: its owner is not active yet, and no
\* request of it can be on its way.
Fresh(x) ==
    /\ ~stored[Tenant(x)].active /\ stored[Tenant(x)].status # "approved"
    /\ \E k \in KeysOf["member"] : k[2] = x /\ stored[k] = [role |-> "owner", active |-> FALSE]
    /\ \A t \in Txns : pc[t] \in {"working", "loaded"} /\ OfBusiness(t) => Call[t].tenant # x
    /\ \A t \in Txns : pc[t] = "loaded" /\ Present(found[t][Tenant(x)]) =>
          /\ ~found[t][Tenant(x)].active /\ found[t][Tenant(x)].status # "approved"
          /\ \A k \in KeysOf["member"] : k[2] = x => found[t][k] = stored[k]

\* What a request that changes the staff of x has found of the members still holds.
RolesKept(x) ==
    \A t \in Txns : pc[t] = "loaded" /\ Call[t].do = "update_staff" /\ Call[t].tenant = x =>
        \A k \in KeysOf["member"] : k[2] = x /\ Present(found[t][k]) =>
            /\ stored[k].role = found[t][k].role
            /\ found[t][k].active => stored[k].active

OwnerInv ==
    \A x \in Tenants :
        \/ Pair(x)
        \/ /\ Present(stored[Tenant(x)]) => Owners(stored, x) # {} \/ Fresh(x)
           /\ RolesKept(x)

\* What the platform's decisions write to the businesses: to one of them.
LEMMA TenantWritten ==
    ASSUME DeskInv, NEW t \in Txns, pc[t] = "loaded",
           Call[t].do \in {"approve", "reject", "suspend", "reactivate"},
           Present(Loaded(t)), NEW new \in TenantRow, NEW g, Sound(t, g),
           OnlyTo(g, {"session", "member", "branch"}), Save(t, Update(t, TenantOf(t), new) @@ g),
           NEW k \in KeysOf["tenant"]
    PROVE  \/ stored'[k] = stored[k]
           \/ /\ k = TenantOf(t) /\ stored' # stored /\ Present(found[t][k])
              /\ \A c \in DOMAIN new : stored'[k][c] = IF new[c] = found[t][k][c] THEN stored[k][c] ELSE new[c]
PROOF
<1> DEFINE f == Update(t, TenantOf(t), new)
           w == f @@ g
<1>1. /\ TenantOf(t) \in Keys /\ DeskRow(TenantOf(t)) = TenantRow /\ TenantOf(t)[1] \notin Deletable
      /\ Loaded(t) = found[t][TenantOf(t)] /\ Present(found[t][TenantOf(t)])
  <2>1. Call[t].do \in {"approve", "reject", "suspend", "reactivate", "plan"}
      OBVIOUS
  <2> QED BY <2>1, PlatformTenant DEF Deletable
<1>2. Sound(t, f) /\ OnlyTo(f, {"tenant"})
    BY TenantUpdate
<1>3. DOMAIN f = {TenantOf(t)} /\ f[TenantOf(t)] = Dirty(Loaded(t), new)
    BY DEF Update, :>, Loaded
<1>4. Sound(t, w)
    BY <1>2, BothSound
<1>5. DOMAIN w = DOMAIN f \cup DOMAIN g /\ w[TenantOf(t)] = Dirty(found[t][TenantOf(t)], new)
    BY <1>1, <1>3 DEF @@
<1>6. k \in Keys /\ k[1] = "tenant" /\ k \notin DOMAIN g
    BY DEF KeysOf, Tables, OnlyTo
<1>7. Fail(t) \/ Commits(t, w)
    BY SaveCommits
<1> HIDE DEF w, f
<1>8. CASE Fail(t)
    BY <1>8 DEF Fail
<1>9. CASE Commits(t, w) /\ k # TenantOf(t)
    BY <1>3, <1>4, <1>5, <1>6, <1>9, CommittedRow
<1>10. CASE Commits(t, w) /\ k = TenantOf(t)
  <2>1. \A c \in DOMAIN new : stored'[k][c] = IF new[c] = found[t][k][c] THEN stored[k][c] ELSE new[c]
      BY <1>1, <1>3, <1>4, <1>5, <1>6, <1>10, DirtyRow
  <2> QED BY <1>1, <1>10, <2>1
<1> QED BY <1>7, <1>8, <1>9, <1>10

\* What a step does to a business.
TenantMoves(t, x) ==
    LET k == Tenant(x)
        do == Call[t].do
    IN  \/ stored'[k] = stored[k]
        \/ Call[t].tenant = x /\ ~Present(stored[k]) /\ stored' # stored /\ (SignUp(t) \/ Bootstrap(t))
        \/ /\ Call[t].tenant = x /\ Present(found[t][k])
           /\ \/ Approve(t) /\ stored' # stored
              \/ do \in {"suspend", "reactivate"} /\ found[t][k].status = "approved"
              \/ /\ do = "reject"
                 /\ stored'[k].active => stored[k].active
                 /\ stored'[k].status \in {stored[k].status, "rejected"}
              \/ OfBusiness(t)

LEMMA TenantStep ==
    ASSUME DeskInv, NEW t \in Txns, Answers(t), NEW x \in Tenants
    PROVE  TenantMoves(t, x)
PROOF
<1> DEFINE k == Tenant(x)
<1>0. /\ AccessStep(t) \/ DeskStep(t)
      /\ pc[t] = "loaded"
      /\ k \in KeysOf["tenant"] /\ k \in Keys /\ k[2] = x
  <2>1. k \in Keys /\ k[1] = "tenant" /\ k[2] = x
      BY NamesOfKeys, KeyTables
  <2> QED BY <2>1 DEF Answers, KeysOf, Tables
<1>1. TenantOf(t) = k => Call[t].tenant = x
    BY KeyTables DEF TenantOf
<1> HIDE DEF k
<1>2. CASE stored'[k] = stored[k]
    BY <1>2 DEF TenantMoves, k
<1>3. CASE Untouched("tenant")
    BY <1>0, <1>2, <1>3 DEF Untouched
<1>4. CASE SignUp(t) \/ Bootstrap(t)
  <2>1. CASE stored' = stored
      BY <1>2, <2>1
  <2>2. CASE stored' # stored
    <3> DEFINE m == Member(Call[t].tenant, Call[t].user)
               b == Branch(Call[t].branch)
    <3>1. /\ ~Present(stored[TenantOf(t)])
          /\ \A l \in (KeysOf["tenant"] \cup KeysOf["member"] \cup KeysOf["branch"]) \ {TenantOf(t), m, b} :
                  stored'[l] = stored[l]
        BY <1>4, <2>2, BusinessStep DEF TenantOf
    <3>2. k[1] = "tenant" /\ m[1] = "member" /\ b[1] = "branch"
        BY KeyTables DEF k
    <3> HIDE DEF m, b
    <3>3. k \notin {m, b}
        BY <3>2
    <3>4. stored'[k] = stored[k] \/ k = TenantOf(t)
        BY <1>0, <3>1, <3>3
    <3>5. k = TenantOf(t) => Call[t].tenant = x /\ ~Present(stored[k])
        BY <1>1, <3>1
    <3> QED BY <1>2, <1>4, <2>2, <3>4, <3>5 DEF TenantMoves, k
  <2> QED BY <2>1, <2>2
<1>5. CASE Approve(t)
  <2> DEFINE new == [Loaded(t) EXCEPT !.status = "approved", !.active = TRUE]
  <2>1. Call[t].do = "approve"
      BY <1>5, HandlesLoaded DEF Approve
  <2>2. CASE Fail(t) \/ Save(t, Nothing)
      BY <1>2, <2>2, NothingStep
  <2>3. CASE Present(Loaded(t)) /\ Save(t, Update(t, TenantOf(t), new) @@ ActivateChildren(t))
    <3>1. new \in TenantRow
        BY <1>0, <2>1, <2>3, PlatformTenant DEF TenantRow
    <3>2. Sound(t, ActivateChildren(t)) /\ OnlyTo(ActivateChildren(t), {"session", "member", "branch"})
        BY <1>0, ActivateSound DEF OnlyTo
    <3>3. stored'[k] = stored[k] \/ (k = TenantOf(t) /\ stored' # stored /\ Present(found[t][k]))
        BY <1>0, <2>1, <2>3, <3>1, <3>2, TenantWritten
    <3> QED BY <1>1, <1>2, <1>5, <3>3 DEF TenantMoves, k
  <2> QED BY <1>5, <2>2, <2>3 DEF Approve
<1>6. CASE Reject(t)
  <2> DEFINE new == [Loaded(t) EXCEPT !.status = "rejected", !.active = FALSE]
  <2>1. Call[t].do = "reject"
      BY <1>6, HandlesLoaded DEF Reject
  <2>2. CASE Fail(t)
      BY <1>2, <2>2 DEF Fail
  <2>3. CASE Present(Loaded(t)) /\ Save(t, Update(t, TenantOf(t), new) @@ RevokeTenantSessions(t))
    <3>1. new \in TenantRow /\ new.active = FALSE /\ new.status = "rejected" /\ DOMAIN new = {"status", "active", "name"}
        BY <1>0, <2>1, <2>3, PlatformTenant DEF TenantRow
    <3>2. Sound(t, RevokeTenantSessions(t)) /\ OnlyTo(RevokeTenantSessions(t), {"session", "member", "branch"})
        BY <1>0, RevokeSound DEF OnlyTo
    <3>5. Save(t, Update(t, TenantOf(t), new) @@ RevokeTenantSessions(t)) /\ Present(Loaded(t))
        BY <2>3
    <3> HIDE DEF new
    <3>3. \/ stored'[k] = stored[k]
          \/ /\ k = TenantOf(t) /\ Present(found[t][k])
             /\ \A c \in DOMAIN new : stored'[k][c] = IF new[c] = found[t][k][c] THEN stored[k][c] ELSE new[c]
        BY <1>0, <2>1, <3>1, <3>2, <3>5, TenantWritten
    <3>4. CASE /\ k = TenantOf(t) /\ Present(found[t][k])
               /\ \A c \in DOMAIN new : stored'[k][c] = IF new[c] = found[t][k][c] THEN stored[k][c] ELSE new[c]
      <4>1. stored'[k].active = IF new.active = found[t][k].active THEN stored[k].active ELSE new.active
          BY <3>1, <3>4
      <4>2. stored'[k].status = IF new.status = found[t][k].status THEN stored[k].status ELSE new.status
          BY <3>1, <3>4
      <4>3. (stored'[k].active => stored[k].active) /\ stored'[k].status \in {stored[k].status, "rejected"}
          BY <3>1, <4>1, <4>2
      <4> QED BY <1>1, <2>1, <3>4, <4>3 DEF TenantMoves, k
    <3> QED BY <1>2, <3>3, <3>4
  <2> QED BY <1>6, <2>2, <2>3 DEF Reject
<1>7. CASE Suspend(t)
  <2> DEFINE new == [Loaded(t) EXCEPT !.active = FALSE]
  <2>1. Call[t].do = "suspend"
      BY <1>7, HandlesLoaded DEF Suspend
  <2>2. CASE Fail(t) \/ Save(t, Nothing)
      BY <1>2, <2>2, NothingStep
  <2>3. CASE /\ Present(Loaded(t)) /\ Loaded(t).status = "approved"
             /\ Save(t, Update(t, TenantOf(t), new) @@ RevokeTenantSessions(t))
    <3>1. new \in TenantRow /\ Loaded(t) = found[t][TenantOf(t)]
        BY <1>0, <2>1, <2>3, PlatformTenant DEF TenantRow
    <3>2. Sound(t, RevokeTenantSessions(t)) /\ OnlyTo(RevokeTenantSessions(t), {"session", "member", "branch"})
        BY <1>0, RevokeSound DEF OnlyTo
    <3>3. stored'[k] = stored[k] \/ (k = TenantOf(t) /\ Present(found[t][k]))
        BY <1>0, <2>1, <2>3, <3>1, <3>2, TenantWritten
    <3> QED BY <1>1, <1>2, <2>1, <2>3, <3>1, <3>3 DEF TenantMoves, k
  <2> QED BY <1>7, <2>2, <2>3 DEF Suspend
<1>8. CASE Reactivate(t)
  <2> DEFINE new == [Loaded(t) EXCEPT !.active = TRUE]
  <2>1. Call[t].do = "reactivate"
      BY <1>8, HandlesLoaded DEF Reactivate
  <2>2. CASE Fail(t)
      BY <1>2, <2>2, NothingStep
  <2>3. CASE /\ Present(Loaded(t)) /\ Loaded(t).status = "approved" /\ ~Fail(t)
             /\ Save(t, Update(t, TenantOf(t), new))
    <3>1. /\ new \in TenantRow /\ Loaded(t) = found[t][TenantOf(t)] /\ TenantOf(t) \in Keys
          /\ DeskRow(TenantOf(t)) = TenantRow /\ TenantOf(t)[1] \notin Deletable /\ Lasting(TenantOf(t)[1]) = {}
        BY <1>0, <2>1, <2>3, PlatformTenant DEF TenantRow, Deletable
    <3> HIDE DEF new
    <3>2. \A l \in Keys \ {TenantOf(t)} : stored'[l] = stored[l]
        BY <1>0, <2>3, <3>1, UpdatedRow
    <3>3. k = TenantOf(t) => Present(found[t][k])
        BY <2>3, <3>1
    <3> QED BY <1>0, <1>1, <1>2, <2>1, <2>3, <3>1, <3>2, <3>3 DEF TenantMoves, k
  <2> QED BY <1>8, <2>2, <2>3 DEF Reactivate
<1>9. CASE RenameTenant(t)
  <2> DEFINE new == [Loaded(t) EXCEPT !.name = Call[t].name]
  <2>1. Call[t].do = "rename"
      BY <1>9, HandlesLoaded DEF RenameTenant
  <2>2. Call[t].name \in Names /\ OfBusiness(t)
      BY <2>1, DeskAssumption DEF AccessArguments, Public, OfPlatform, OfBusiness
  <2>3. CASE Fail(t)
      BY <1>2, <2>3, NothingStep
  <2>4. CASE ~Fail(t)
    <3>1. /\ new \in TenantRow /\ TenantOf(t) \in Keys /\ Present(found[t][TenantOf(t)])
        BY <1>0, <2>2, MemberContext DEF TenantRow, OfBusiness
    <3>2. /\ DeskRow(TenantOf(t)) = TenantRow /\ TenantOf(t)[1] \notin Deletable /\ Lasting(TenantOf(t)[1]) = {}
        BY KeyTables, NoneLasts DEF TenantOf, Deletable
    <3>3. Save(t, Update(t, TenantOf(t), new))
        BY <1>9 DEF RenameTenant
    <3> HIDE DEF new
    <3>4. \A l \in Keys \ {TenantOf(t)} : stored'[l] = stored[l]
        BY <1>0, <2>4, <3>1, <3>2, <3>3, UpdatedRow
    <3> QED BY <1>0, <1>1, <1>2, <2>2, <3>1, <3>4 DEF TenantMoves, k
  <2> QED BY <2>3, <2>4
<1> QED BY <1>0, <1>3, <1>4, <1>5, <1>6, <1>7, <1>8, <1>9, WhoTouches


LEMMA OwnerIs ==
    ASSUME DeskInv, NEW v, NEW x, NEW k \in KeysOf["member"], k[2] = x, v[k] \in MemberRow,
           v[k].role = "owner", v[k].active
    PROVE  Owners(v, x) # {}
PROOF
<1>1. k \in Keys /\ DeskRow(k) = MemberRow
    BY RowOfTable DEF KeysOf, Tables
<1>2. Present(v[k])
    BY <1>1, RowIsPresent
<1> QED BY <1>2 DEF Owners

LEMMA MembersTyped ==
    ASSUME DeskInv, NEW k \in KeysOf["member"]
    PROVE  /\ k \in Keys /\ k[1] = "member"
           /\ Present(stored[k]) => stored[k] \in MemberRow
           /\ \A t \in Txns : pc[t] = "loaded" /\ Present(found[t][k]) =>
                 found[t][k] \in MemberRow /\ Present(stored[k])
PROOF
<1>1. k \in Keys /\ k[1] = "member" /\ DeskRow(k) = MemberRow /\ k[1] \notin Deletable
    BY RowOfTable DEF KeysOf, Tables, Deletable
<1> QED BY <1>1 DEF DeskInv, RowsTyped, RowTyped, Present, KeptInv

LEMMA StaffHandlers ==
    ASSUME DeskInv, NEW t \in Txns, Answers(t)
    PROVE  /\ Call[t].do = "update_staff" => Untouched("member") \/ UpdateStaff(t)
           /\ Call[t].do = "approve" => Untouched("member") \/ Approve(t)
PROOF
<1>1. AccessStep(t) \/ DeskStep(t)
    BY DEF Answers
<1>2. SignUp(t) \/ Bootstrap(t) \/ Approve(t) \/ CreateStaff(t) \/ UpdateStaff(t) \/ Untouched("member")
    BY <1>1, WhoTouches
<1>3. /\ SignUp(t) => Call[t].do = "signup"
      /\ Bootstrap(t) => Call[t].do = "bootstrap"
      /\ Approve(t) => Call[t].do = "approve"
      /\ CreateStaff(t) => Call[t].do = "create_staff"
      /\ UpdateStaff(t) => Call[t].do = "update_staff"
    BY HandlesLoaded DEF SignUp, Bootstrap, Approve, CreateStaff, UpdateStaff
<1> QED BY <1>2, <1>3

\* A change of the staff that is not of the last owner it finds leaves one.
LEMMA StaffLeavesOwner ==
    ASSUME DeskInv, DeskInv', NEW t \in Txns, Answers(t), UpdateStaff(t),
           NEW x \in Tenants, RolesKept(x), Owners(stored, x) # {}
    PROVE  Owners(stored', x) # {}
PROOF
<1> DEFINE c == Call[t]
           m == Member(c.tenant, c.user)
           was == found[t][m]
<1>1. PICK k \in KeysOf["member"] : k[2] = x /\ Present(stored[k]) /\ stored[k].role = "owner" /\ stored[k].active
    BY DEF Owners
<1>2. CASE stored'[k] = stored[k]
    BY <1>1, <1>2 DEF Owners
<1>3. CASE Untouched("member")
    BY <1>2, <1>3 DEF Untouched
<1>4. ASSUME /\ c.do = "update_staff" /\ m \in Keys /\ m[2] = c.tenant
             /\ Present(was) /\ Present(stored[m]) /\ Present(stored'[m])
             /\ stored'[m].role = IF c.role = was.role THEN stored[m].role ELSE c.role
             /\ stored'[m].active = IF c.active = was.active THEN stored[m].active ELSE c.active
             /\ ~LastOwner(t, was)
             /\ \A l \in KeysOf["member"] \ {m} : stored'[l] = stored[l],
             k = m
      PROVE  Owners(stored', x) # {}
  <2>1. m \in KeysOf["member"] /\ pc[t] = "loaded" /\ m[2] = x
      BY <1>1, <1>4 DEF Answers
  <2>2. was.role = "owner" /\ (was.active => stored[m].active) /\ was \in MemberRow
      BY <1>1, <1>4, <2>1, MembersTyped DEF RolesKept
  <2>3. c.active \in BOOLEAN
      BY <1>4, DeskAssumption DEF AccessArguments
  <2>4. CASE c.role = "owner" /\ c.active
    <3>1. stored'[m].role = "owner"
        BY <1>1, <1>4, <2>2, <2>4
    <3>2. stored'[m].active
      <4>1. CASE c.active = was.active
          BY <1>1, <1>4, <4>1
      <4>2. CASE c.active # was.active
          BY <1>4, <2>4, <4>2
      <4> QED BY <4>1, <4>2
    <3> QED BY <1>4, <2>1, <3>1, <3>2 DEF Owners
  <2>5. CASE ~(c.role = "owner" /\ c.active)
    <3> DEFINE O == {l \in OfTenant(t, "member") : found[t][l].role = "owner" /\ found[t][l].active}
    <3>1. ~(Cardinality(O) <= 1)
        BY <1>4, <2>2, <2>3, <2>5 DEF LastOwner
    <3>2. \E l \in O : l # m
      <4>1. SUFFICES ASSUME O \subseteq {m} PROVE FALSE
          OBVIOUS
      <4>2. O = {} \/ O = {m}
          BY <4>1
      <4> HIDE DEF O
      <4>3. Cardinality({}) = 0 /\ Cardinality({m}) = 1
          BY FS_EmptySet, FS_Singleton
      <4> QED BY <3>1, <4>2, <4>3
    <3>3. PICK l \in O : l # m
        BY <3>2
    <3>4. /\ l \in KeysOf["member"] /\ l[2] = x /\ Present(found[t][l])
          /\ found[t][l].role = "owner" /\ found[t][l].active
        BY <1>4, <2>1, <3>3 DEF OfTenant
    <3>5. /\ Present(stored[l]) /\ stored[l].role = "owner" /\ stored[l].active
        BY <1>4, <2>1, <3>4, MembersTyped DEF RolesKept
    <3>6. stored'[l] = stored[l]
        BY <1>4, <3>3, <3>4
    <3> QED BY <3>4, <3>5, <3>6 DEF Owners
  <2> QED BY <2>4, <2>5
<1>5. CASE ~Untouched("member")
  <2>1. /\ c.do = "update_staff" /\ m \in Keys /\ m[2] = c.tenant
        /\ Present(was) /\ Present(stored[m]) /\ Present(stored'[m])
        /\ stored'[m].role = IF c.role = was.role THEN stored[m].role ELSE c.role
        /\ stored'[m].active = IF c.active = was.active THEN stored[m].active ELSE c.active
        /\ ~LastOwner(t, was)
        /\ \A l \in KeysOf["member"] \ {m} : stored'[l] = stored[l]
      BY <1>5, UpdateStaffStep
  <2> QED BY <1>1, <1>2, <1>4, <2>1
<1> QED BY <1>3, <1>5

\* A business that has an owner keeps one.
LEMMA OwnerStays ==
    ASSUME DeskInv, DeskInv', NEW t \in Txns, Answers(t),
           NEW x \in Tenants, RolesKept(x), Owners(stored, x) # {}
    PROVE  Owners(stored', x) # {}
PROOF
<1>1. PICK k \in KeysOf["member"] : k[2] = x /\ Present(stored[k]) /\ stored[k].role = "owner" /\ stored[k].active
    BY DEF Owners
<1>2. CASE stored'[k] = stored[k]
    BY <1>1, <1>2 DEF Owners
<1>3. CASE Present(stored'[k]) /\ stored'[k].role = stored[k].role /\ (stored[k].active => stored'[k].active)
    BY <1>1, <1>3 DEF Owners
<1>4. CASE Call[t].do = "update_staff"
    BY <1>2, <1>4, StaffHandlers, StaffLeavesOwner DEF Untouched
<1>5. MemberMoves(t, k)
    BY MemberStep DEF Answers
<1> QED BY <1>1, <1>2, <1>3, <1>4, <1>5 DEF MemberMoves


LEMMA TenantKeyOf ==
    ASSUME NEW x \in Tenants
    PROVE  Tenant(x) \in Keys /\ Tenant(x) \in KeysOf["tenant"] /\ Tenant(x)[1] \notin Deletable
PROOF
<1>1. Tenant(x) \in Keys /\ Tenant(x)[1] = "tenant"
    BY NamesOfKeys, KeyTables
<1> QED BY <1>1 DEF KeysOf, Tables, Deletable

\* A waiting business waits on, unless it is approved: then its owner is active.
LEMMA FreshStays ==
    ASSUME DeskInv, DeskInv', NEW t \in Txns, Answers(t),
           NEW x \in Tenants, Present(stored[Tenant(x)]), Fresh(x)
    PROVE  Owners(stored', x) # {} \/ Fresh(x)'
PROOF
<1> DEFINE k == Tenant(x)
<1>0. /\ pc[t] = "loaded" /\ pc'[t] = "done" /\ (AccessStep(t) \/ DeskStep(t))
      /\ ~(OfBusiness(t) /\ Call[t].tenant = x)
    BY DEF Fresh, Answers
<1>1. PICK m \in KeysOf["member"] : m[2] = x /\ stored[m] = [role |-> "owner", active |-> FALSE]
    BY DEF Fresh
<1>2. CASE Approve(t) /\ Call[t].tenant = x /\ stored' # stored
  <2>1. m \in Keys /\ m[1] = "member" /\ (stored'[m] = Absent \/ stored'[m] \in MemberRow)
    <3>1. m \in Keys /\ m[1] = "member" /\ DeskRow(m) = MemberRow
        BY RowOfTable DEF KeysOf, Tables
    <3> QED BY <3>1 DEF DeskInv, RowsTyped, RowTyped
  <2>2. Present(stored[m])
    <3>1. "role" \in DOMAIN stored[m] /\ "role" \notin DOMAIN Absent
        BY <1>1 DEF Absent
    <3> QED BY <3>1 DEF Present
  <2>3. Present(found[t][k])
      BY <1>2, ApproveStep DEF TenantOf
  <2>4. found[t][m] = stored[m] /\ m \in OfTenant(t, "member")
    <3>1. found[t][m] = stored[m]
        BY <1>0, <1>1, <2>3 DEF Fresh
    <3> QED BY <1>1, <1>2, <2>2, <3>1 DEF OfTenant
  <2>5. /\ Present(stored'[m]) /\ stored'[m].role = stored[m].role
        /\ stored'[m].active = (found[t][m].active => stored[m].active)
      BY <1>2, <2>1, <2>4, ApproveStep
  <2>6. stored'[m].role = "owner" /\ stored'[m].active = TRUE
    <3>1. stored[m].role = "owner" /\ stored[m].active = FALSE
        BY <1>1
    <3>2. found[t][m].active = FALSE
        BY <2>4, <3>1
    <3> QED BY <2>5, <3>1, <3>2
  <2>7. m \in Owners(stored', x)
      BY <1>1, <2>5, <2>6 DEF Owners
  <2> QED BY <2>7
<1>3. CASE ~(Approve(t) /\ Call[t].tenant = x /\ stored' # stored)
  <2>1. ASSUME NEW l \in KeysOf["member"], l[2] = x
        PROVE  stored'[l] = stored[l]
    <3>1. l[1] = "member" /\ l \in Keys
        BY DEF KeysOf, Tables
    <3>2. CASE Approve(t) /\ stored' # stored
      <4>1. stored'[l] = stored[l] \/ l \in OfTenant(t, "member") \cup OfTenant(t, "branch")
          BY <3>2, ApproveStep
      <4>2. l \notin OfTenant(t, "member") /\ l \notin OfTenant(t, "branch")
          BY <1>3, <2>1, <3>1, <3>2 DEF OfTenant, KeysOf, Tables
      <4> QED BY <4>1, <4>2
    <3>3. CASE Call[t].do # "approve" /\ Call[t].tenant # x
      <4>1. Member(Call[t].tenant, Call[t].user)[2] = Call[t].tenant
          BY DEF Member
      <4>2. MemberMoves(t, l)
          BY <1>0, MemberStep
      <4> HIDE DEF k
      <4> QED BY <2>1, <3>3, <4>1, <4>2 DEF MemberMoves
    <3>4. CASE Call[t].do # "approve" /\ Call[t].tenant = x
      <4>1. Call[t].do \notin {"create_staff", "update_staff"}
          BY <1>0, <3>4 DEF OfBusiness, Public, OfPlatform
      <4>2. MemberMoves(t, l)
          BY <1>0, MemberStep
      <4> QED BY <2>1, <3>4, <4>1, <4>2 DEF MemberMoves
    <3>5. CASE Call[t].do = "approve"
      <4>1. Untouched("member") \/ Approve(t)
          BY <3>5, StaffHandlers
      <4> QED BY <3>2, <4>1 DEF Untouched
    <3> QED BY <3>3, <3>4, <3>5
  <2>2. ~stored'[k].active /\ stored'[k].status # "approved"
    <3>1. ~stored[k].active /\ stored[k].status # "approved"
        BY DEF Fresh
    <3>2. Present(found[t][k]) => found[t][k].status # "approved"
        BY <1>0 DEF Fresh
    <3>3. TenantMoves(t, x)
        BY TenantStep
    <3> HIDE DEF k
    <3> QED BY <1>0, <1>3, <3>1, <3>2, <3>3 DEF TenantMoves, k
  <2>3. \A u \in Txns : pc'[u] \in {"working", "loaded"} =>
            u # t /\ pc'[u] = pc[u] /\ found'[u] = found[u]
      BY <1>0 DEF Answers
  <2>4. \A u \in Txns : pc'[u] \in {"working", "loaded"} /\ OfBusiness(u) => Call[u].tenant # x
      BY <2>3 DEF Fresh
  <2>5. \A u \in Txns : pc'[u] = "loaded" /\ Present(found'[u][k]) =>
            /\ ~found'[u][k].active /\ found'[u][k].status # "approved"
            /\ \A l \in KeysOf["member"] : l[2] = x => found'[u][l] = stored'[l]
      BY <2>1, <2>3 DEF Fresh
  <2>6. stored'[m] = [role |-> "owner", active |-> FALSE]
      BY <1>1, <2>1
  <2> QED BY <1>1, <2>2, <2>4, <2>5, <2>6 DEF Fresh, OfBusiness
<1> QED BY <1>2, <1>3

\* A new business has an owner, who may have to wait for the approval.
LEMMA NewOwner ==
    ASSUME DeskInv, DeskInv', NEW t \in Txns, Answers(t),
           NEW x \in Tenants, ~Present(stored[Tenant(x)]), Present(stored'[Tenant(x)])
    PROVE  Owners(stored', x) # {} \/ Fresh(x)'
PROOF
<1> DEFINE k == Tenant(x)
           m == Member(Call[t].tenant, Call[t].user)
<1>1. pc[t] = "loaded" /\ pc'[t] = "done" /\ k \in Keys /\ k[1] \notin Deletable
    BY TenantKeyOf DEF Answers
<1>2. \A u \in Txns : pc[u] = "loaded" => ~Present(found[u][k])
    BY <1>1 DEF DeskInv, KeptInv
<1>3. Call[t].tenant = x /\ stored' # stored /\ (SignUp(t) \/ Bootstrap(t))
  <2>1. TenantMoves(t, x)
      BY TenantStep
  <2> QED BY <1>1, <1>2, <2>1 DEF TenantMoves
<1>4. m \in Keys /\ m[1] = "member" /\ m[2] = x
    BY <1>3, BusinessStep, KeyTables DEF Member
<1>5. m \in KeysOf["member"]
    BY <1>4 DEF KeysOf, Tables
<1>6. PICK is \in BOOLEAN :
          /\ stored'[k] = [status |-> IF is THEN "approved" ELSE "pending", active |-> is, name |-> "first"]
          /\ stored'[m] = [role |-> "owner", active |-> is]
    BY <1>3, BusinessStep
<1>7. stored'[m] \in MemberRow
  <2>1. stored'[m].role = "owner"
      BY <1>6
  <2>2. Present(stored'[m])
    <3>1. "role" \in DOMAIN stored'[m] /\ "role" \notin DOMAIN Absent
        BY <1>6 DEF Absent
    <3> QED BY <3>1 DEF Present
  <2>3. DeskRow(m) = MemberRow
      BY <1>4, RowOfTable
  <2> HIDE DEF m
  <2> QED BY <1>4, <2>2, <2>3 DEF DeskInv, RowsTyped, RowTyped, Present
<1>8. CASE is
  <2>1. stored'[m].role = "owner" /\ stored'[m].active
      BY <1>6, <1>8
  <2> HIDE DEF m
  <2> QED BY <1>4, <1>5, <1>7, <2>1, OwnerIs
<1>9. CASE ~is
  <2>1. ~stored'[k].active /\ stored'[k].status # "approved"
      BY <1>6, <1>9
  <2>2. stored'[m] = [role |-> "owner", active |-> FALSE]
      BY <1>6, <1>9
  <2>3. \A u \in Txns : pc'[u] \in {"working", "loaded"} =>
            u # t /\ pc'[u] = pc[u] /\ found'[u] = found[u] /\ held'[u] = held[u]
      BY <1>1 DEF Answers
  <2>4. ASSUME NEW u \in Txns, pc'[u] \in {"working", "loaded"}, OfBusiness(u), Call[u].tenant = x
        PROVE  FALSE
    <3>1. pc[u] \in {"working", "loaded"} /\ Call[u].do \notin Public /\ Call[u].do \notin OfPlatform \cup {"logout"}
        BY <2>3, <2>4 DEF OfBusiness
    <3>2. k \in DOMAIN held[u] /\ Present(held[u][k])
        BY <2>4, <3>1 DEF DeskInv, HeldInv
    <3>3. Present(stored[k])
        BY <1>1, <3>2 DEF DeskInv, KeptInv
    <3> QED BY <3>3
  <2>5. \A u \in Txns : pc'[u] = "loaded" => ~Present(found'[u][k])
      BY <1>2, <2>3
  <2> HIDE DEF m
  <2> QED BY <1>4, <1>5, <2>1, <2>2, <2>4, <2>5 DEF Fresh, OfBusiness
<1> QED BY <1>8, <1>9


LEMMA PairStays ==
    ASSUME \A u, w \in Txns : w \in rivals[u] => w \in rivals'[u], NEW x, Pair(x)
    PROVE  Pair(x)'
PROOF BY DEF Pair, Collided

LEMMA OwnerAnswer ==
    ASSUME DeskInv, OwnerInv, DeskInv', NEW t \in Txns, Answers(t)
    PROVE  OwnerInv'
PROOF
<1>1. ASSUME NEW x \in Tenants, Pair(x)
      PROVE  Pair(x)'
    BY <1>1, PairStays DEF Answers
<1>2. ASSUME NEW x \in Tenants, ~Pair(x)
      PROVE  /\ Present(stored'[Tenant(x)]) => Owners(stored', x) # {} \/ Fresh(x)'
             /\ RolesKept(x)'
  <2>1. RolesKept(x) /\ (Present(stored[Tenant(x)]) => Owners(stored, x) # {} \/ Fresh(x))
      BY <1>2 DEF OwnerInv
  <2>2. ASSUME Present(stored'[Tenant(x)])
        PROVE  Owners(stored', x) # {} \/ Fresh(x)'
      BY <2>1, <2>2, OwnerStays, FreshStays, NewOwner
  <2>3. ASSUME NEW u \in Txns, pc'[u] = "loaded", Call[u].do = "update_staff", Call[u].tenant = x,
               NEW k \in KeysOf["member"], k[2] = x, Present(found'[u][k])
        PROVE  /\ stored'[k].role = found'[u][k].role
               /\ found'[u][k].active => stored'[k].active
    <3>1. u # t /\ pc[u] = "loaded" /\ found'[u] = found[u] /\ u \in rivals[t]
        BY <2>3 DEF Answers
    <3>2. ~(Call[t].do = "update_staff" /\ Call[t].tenant = x)
        BY <1>2, <2>3, <3>1 DEF Pair, Collided
    <3>3. /\ Present(stored[k]) /\ stored[k].role = found[u][k].role
          /\ found[u][k].active => stored[k].active
        BY <2>1, <2>3, <3>1, MembersTyped DEF RolesKept
    <3>4. MemberMoves(t, k)
        BY MemberStep DEF Answers
    <3>5. CASE stored'[k] = stored[k]
        BY <3>1, <3>3, <3>5
    <3>6. CASE stored'[k] # stored[k]
        BY <2>3, <3>1, <3>2, <3>3, <3>4, <3>6 DEF MemberMoves, Member
    <3> QED BY <3>5, <3>6
  <2>4. RolesKept(x)'
      BY <2>3 DEF RolesKept
  <2> QED BY <2>2, <2>4
<1> QED BY <1>1, <1>2 DEF OwnerInv

LEMMA OwnerStep ==
    ASSUME DeskInv, OwnerInv, [DeskNext]_deskVars
    PROVE  OwnerInv'
PROOF
<1>0. /\ DeskInv' /\ \A u, w \in Txns : w \in rivals[u] => w \in rivals'[u]
      /\ (\E t \in Txns : Answers(t)) \/ (\E t \in Txns : Loads(t)) \/ Rests
    BY StepCases
<1>1. ASSUME NEW t \in Txns, Answers(t) PROVE OwnerInv'
    BY <1>0, <1>1, OwnerAnswer
<1>2. ASSUME stored' = stored,
             \A u \in Txns : pc'[u] = "loaded" => found'[u] = stored \/ (pc[u] = "loaded" /\ found'[u] = found[u]),
             \A u \in Txns : pc'[u] \in {"working", "loaded"} =>
                pc[u] \in {"working", "loaded"} \/ (Authenticate(u, Needs) /\ ~Fail(u))
      PROVE  OwnerInv'
  <2>1. ASSUME NEW x \in Tenants, Pair(x) PROVE Pair(x)'
      BY <1>0, <2>1, PairStays
  <2>2. ASSUME NEW x \in Tenants, ~Pair(x)
        PROVE  /\ Present(stored'[Tenant(x)]) => Owners(stored', x) # {} \/ Fresh(x)'
               /\ RolesKept(x)'
    <3>0. RolesKept(x) /\ (Present(stored[Tenant(x)]) => Owners(stored, x) # {} \/ Fresh(x))
        BY <2>2 DEF OwnerInv
    <3>1. RolesKept(x)'
      <4>1. ASSUME NEW u \in Txns, pc'[u] = "loaded", Call[u].do = "update_staff", Call[u].tenant = x,
                   NEW k \in KeysOf["member"], k[2] = x, Present(found'[u][k])
            PROVE  /\ stored'[k].role = found'[u][k].role
                   /\ found'[u][k].active => stored'[k].active
        <5>1. CASE found'[u] = stored
            BY <1>2, <5>1
        <5>2. CASE pc[u] = "loaded" /\ found'[u] = found[u]
            BY <1>2, <3>0, <4>1, <5>2 DEF RolesKept
        <5> QED BY <1>2, <4>1, <5>1, <5>2
      <4> QED BY <4>1 DEF RolesKept
    <3>2. ASSUME Present(stored'[Tenant(x)])
          PROVE  Owners(stored', x) # {} \/ Fresh(x)'
      <4>1. CASE Owners(stored, x) # {}
          BY <1>2, <4>1
      <4>2. CASE Fresh(x)
        <5>1. ASSUME NEW u \in Txns, pc'[u] \in {"working", "loaded"}, OfBusiness(u)
              PROVE  Call[u].tenant # x
          <6>1. CASE pc[u] \in {"working", "loaded"}
              BY <4>2, <5>1, <6>1 DEF Fresh
          <6>2. CASE Authenticate(u, Needs) /\ ~Fail(u)
            <7>1. Admitted(stored, u, Needs)
                BY <6>2 DEF Authenticate
            <7>2. stored[Tenant(Call[u].tenant)].active
                BY <5>1, <7>1, AdmittedContext DEF OfBusiness
            <7> QED BY <4>2, <7>2 DEF Fresh
          <6> QED BY <1>2, <5>1, <6>1, <6>2
        <5>2. ASSUME NEW u \in Txns, pc'[u] = "loaded", Present(found'[u][Tenant(x)])
              PROVE  /\ ~found'[u][Tenant(x)].active /\ found'[u][Tenant(x)].status # "approved"
                     /\ \A k \in KeysOf["member"] : k[2] = x => found'[u][k] = stored'[k]
          <6>1. CASE found'[u] = stored
              BY <1>2, <4>2, <6>1 DEF Fresh
          <6>2. CASE pc[u] = "loaded" /\ found'[u] = found[u]
              BY <1>2, <4>2, <5>2, <6>2 DEF Fresh
          <6> QED BY <1>2, <5>2, <6>1, <6>2
        <5> QED BY <1>2, <4>2, <5>1, <5>2 DEF Fresh, OfBusiness
      <4> QED BY <1>2, <3>0, <3>2, <4>1, <4>2
    <3> QED BY <3>1, <3>2
  <2> QED BY <2>1, <2>2 DEF OwnerInv
<1>3. ASSUME NEW t \in Txns, Loads(t) PROVE OwnerInv'
    BY <1>2, <1>3 DEF Loads
<1>4. CASE Rests
    BY <1>2, <1>4 DEF Rests
<1> QED BY <1>0, <1>1, <1>3, <1>4

LEMMA WholeStart == DeskInit => MainInv /\ OwnerInv
PROOF
<1> SUFFICES ASSUME DeskInit PROVE MainInv /\ OwnerInv
    OBVIOUS
<1>1. stored = AtStart /\ AccessAtStart /\ \A t \in Txns : held[t] = Unread /\ pc[t] \notin {"working", "loaded"}
    BY AccessAssumption DEF DeskInit, RecordsInit, RequestsInit
<1>2. DOMAIN Unread = {}
    BY UnreadIs
<1>3. MainInv
    BY <1>1, <1>2 DEF MainInv, OneMainOf, AccessAtStart
<1>4. \A x \in Tenants : RolesKept(x)
    BY <1>1 DEF RolesKept
<1>5. ASSUME NEW x \in Tenants, Present(stored[Tenant(x)])
      PROVE  Owners(stored, x) # {} \/ Fresh(x)
    BY <1>1, <1>5 DEF AccessAtStart, Fresh
<1> QED BY <1>3, <1>4, <1>5 DEF OwnerInv

\* Whatever requests about its staff and its branches meet, a business has an owner
\* and one main branch at most, unless two of them decided together (staff.py:222,
\* tenants.py:208).
THEOREM WholeBusiness == DeskSpec => []BusinessWhole
PROOF
<1>1. DeskInit => DeskInv /\ MainInv /\ OwnerInv
    BY StartInv, WholeStart
<1>2. DeskInv /\ MainInv /\ OwnerInv /\ [DeskNext]_deskVars => (DeskInv /\ MainInv /\ OwnerInv)'
    BY MainStep, OwnerStep, StepCases
<1>3. DeskInv /\ MainInv /\ OwnerInv => BusinessWhole
  <2> SUFFICES ASSUME DeskInv, MainInv, OwnerInv PROVE BusinessWhole
    OBVIOUS
  <2>1. ASSUME NEW k \in KeysOf["tenant"], Present(stored[k]), stored[k].status = "approved"
        PROVE  Owners(stored, k[2]) # {} \/ Pair(k[2])
    <3>1. k \in Keys /\ k[1] = "tenant"
        BY DEF KeysOf, Tables
    <3>2. k = Tenant(k[2]) /\ k[2] \in Tenants
        BY <3>1, KeysTold DEF Tenants
    <3>3. ~Fresh(k[2])
        BY <2>1, <3>2 DEF Fresh
    <3> QED BY <2>1, <3>2, <3>3 DEF OwnerInv
  <2>2. OwnerKept
      BY <2>1 DEF OwnerKept, Pair
  <2>3. OneMainBranch
    <3>1. SUFFICES ASSUME NEW k \in KeysOf["branch"], NEW l \in KeysOf["branch"], TwoMains(stored, k, l)
                   PROVE  ChoosingTogether(stored[k].tenant)
        BY DEF OneMainBranch, ChoosingTogether
    <3>2. k \in Keys /\ k[1] = "branch" /\ Present(stored[k])
        BY <3>1 DEF KeysOf, Tables, TwoMains
    <3>3. stored[k] \in BranchRow
        BY <3>2, RowOfTable DEF DeskInv, RowsTyped, RowTyped, Present
    <3>4. stored[k].tenant \in Tenants
        BY <3>3 DEF BranchRow
    <3> QED BY <3>1, <3>4 DEF MainInv, OneMainOf
  <2> QED BY <2>2, <2>3 DEF BusinessWhole
<1> QED BY <1>1, <1>2, <1>3, PTL DEF DeskSpec
===============================================================================
