-------------------------------- MODULE Books --------------------------------
(***************************************************************************)
(* The general ledger (services/accounting.py, routes/accounting.py): the  *)
(* journals that operations and accountants post, the reversal of manual   *)
(* ones, the lock on past periods, and the statements computed from what   *)
(* is posted (also services/management_reports.py).                        *)
(*                                                                         *)
(* A journal is checked with plain reads and committed some time later; a  *)
(* unique constraint is what decides between two of the same source.  A    *)
(* statement is several SELECTs of a READ COMMITTED transaction, each of   *)
(* which sees what is committed by then.                                   *)
(*                                                                         *)
(* Dates are numbers, and Today is the last of them.  An amount is debit   *)
(* positive.  Left out: entry numbers, descriptions and memos, and the     *)
(* creation of a tenant's settings and chart on first use.                 *)
(***************************************************************************)
EXTENDS Integers, FiniteSets, Functions, Requests

CONSTANTS
    Req,            \* what each request asks for
    Source,         \* source_type and source_id of the journal a request posts
    Branches, AllBranches,  \* the branches, and no branch in particular
    Today,
    Locked          \* locked_through when the model starts

OfKind(k) == {o \in Ops : Req[o].kind = k}
Reversals == OfKind("reverse")
Postings == OfKind("manual") \cup OfKind("operation") \cup Reversals
Statements == OfKind("sheet") \cup OfKind("cashflow")
Sources == {Source[o] : o \in Postings}
Dates == 1..Today

Settings == "accounting_settings"
Unreversed == "nothing"     \* reversal_of_id of a journal that reverses no other

-----------------------------------------------------------------------------
(* The accounts of DEFAULT_ACCOUNTS that the statements treat differently: *)
(* each type, both normal sides of equity, and the groups of money, revenue *)
(* and cost of sales; the accounts left out are treated as one of these     *)

Account(type, group, normal) == [type |-> type, group |-> group, normal |-> normal]

Chart ==
    [Cash |-> Account("asset", "cash", "debit"),
     Bank |-> Account("asset", "bank", "debit"),
     Clearing |-> Account("asset", "cash_equivalent", "debit"),
     Inventory |-> Account("asset", "inventory", "debit"),
     Payable |-> Account("liability", "payable", "credit"),
     Capital |-> Account("equity", "capital", "credit"),
     Drawings |-> Account("equity", "drawings", "debit"),
     Revenue |-> Account("income", "revenue", "credit"),
     Gains |-> Account("income", "other_income", "credit"),
     COGS |-> Account("expense", "cost_of_sales", "debit"),
     Rent |-> Account("expense", "operating_expense", "debit")]
Accounts == DOMAIN Chart

\* a line of a journal; those an accountant enters have one side
PostingLine == [account : Accounts, debit : Nat, credit : Nat]
ManualLine == {l \in PostingLine : (l.debit > 0) # (l.credit > 0)}

\* a journal may be dated after today, a lock may not
ASSUME BooksAssumption ==
    /\ IsFiniteSet(Ops) /\ OpOf \in [Txns -> Ops]
    /\ AllBranches \notin Branches /\ Unreversed \notin Sources
    /\ Today \in Nat /\ Locked \in 0..Today
    /\ Mortal \subseteq Txns /\ Scenarios \subseteq SUBSET Txns
    /\ \A o \in Postings : /\ Req[o].date \in Nat \ {0}
                          /\ Req[o].branch \in Branches \cup {AllBranches}
    /\ \A o \in Reversals : Req[o].of \in Sources
    /\ \A o \in OfKind("manual") : Req[o].lines \in Seq(ManualLine)
    /\ \A o \in OfKind("operation") : Req[o].lines \in Seq(PostingLine)
    /\ \A o \in OfKind("lock") : Req[o].through \in Nat
    /\ \A o \in Statements : Req[o].to \in Nat
    /\ \A o \in OfKind("cashflow") : Req[o].from \in 1..Req[o].to

VARIABLES
    entry,          \* rows of journal_entries, with their lines
    lockedThrough,  \* accounting_settings.locked_through
    seen,           \* the lock a request has read
    reads           \* the entries each SELECT of a statement has seen

vars == <<requests, entry, lockedThrough, seen, reads>>

NoRow == [none |-> TRUE]
Exists(row) == row # NoRow
Posted == {s \in Sources : Exists(entry[s])}

-----------------------------------------------------------------------------
(* The statements, of a set of entries                                      *)

\* _totals_subquery: the entries of a branch, or of all, dated in a range
Selected(E, branch, from, to) ==
    {s \in E : /\ branch \in {AllBranches, entry[s].branch}
               /\ entry[s].date \in from..to}

Debit(a, E) == SumFunction([s \in E |-> entry[s].lines[a]])

\* the balance of each account on its normal side
TrialBalance(E) ==
    [a \in Accounts |-> IF Chart[a].normal = "debit" THEN Debit(a, E) ELSE -Debit(a, E)]

Types(types) == {a \in Accounts : Chart[a].type \in types}
Groups(groups) == {a \in Accounts : Chart[a].group \in groups}
OfType(type, rows) == SumFunction([a \in Types({type}) |-> rows[a]])
OfGroup(groups, rows) == SumFunction([a \in Groups(groups) |-> rows[a]])

NetProfit(E) ==
    LET income(S) == SumFunction([a \in S |-> -Debit(a, E)])
        expense(S) == SumFunction([a \in S |-> Debit(a, E)])
    IN  income(Groups({"revenue"})) - expense(Groups({"cost_of_sales"}))
            + income(Types({"income"}) \ Groups({"revenue"}))
            - expense(Types({"expense"}) \ Groups({"cost_of_sales"}))

\* assets - liabilities - equity including current earnings: the balances are
\* read first, the profit afterwards
BalanceSheetDifference(balances, profit) ==
    LET rows == TrialBalance(balances)
    IN  OfType("asset", rows) - OfType("liability", rows)
            - (OfType("equity", rows) + NetProfit(profit))

CashGroups == {"cash", "bank", "cash_equivalent"}
LiquidBalance(E) == OfGroup(CashGroups, TrialBalance(E))
CashDelta(s) == SumFunction([a \in Groups(CashGroups) |-> entry[s].lines[a]])
CounterAccounts(s) == {a \in Accounts : entry[s].lines[a] # 0 /\ Chart[a].group \notin CashGroups}
Category(s) ==
    LET against(groups) == \E a \in CounterAccounts(s) : Chart[a].group \in groups
        equity == \E a \in CounterAccounts(s) : Chart[a].type = "equity"
    IN  CASE against({"fixed_asset", "investment"}) -> "investing"
          [] against({"capital", "drawings", "retained_earnings"}) \/ equity -> "financing"
          [] OTHER -> "operating"
Flow(E, category) == SumFunction([s \in {r \in E : Category(r) = category} |-> CashDelta(s)])

\* closing cash - (opening cash + the flows of the period)
CashFlowDifference(opening, closing, period) ==
    LiquidBalance(closing)
        - (LiquidBalance(opening) + Flow(period, "operating")
               + Flow(period, "investing") + Flow(period, "financing"))

\* management_summary adds up accounts 1000 and 1010 and a group
LiquidFunds(E) ==
    LET rows == TrialBalance(E)
    IN  rows["Cash"] + rows["Bank"] + OfGroup({"cash_equivalent"}, rows)

-----------------------------------------------------------------------------
(* Posting                                                                  *)

NoDate == 0

Init ==
    /\ RequestsInit
    /\ entry = [s \in Sources |-> NoRow]
    /\ lockedThrough = Locked
    /\ seen = [t \in Txns |-> NoDate]
    /\ reads = [t \in Txns |-> <<>>]

Arrive(t) == Start(t) /\ UNCHANGED <<entry, lockedThrough, seen, reads>>

Working(t, kinds) == At(t, "working") /\ Req[OpOf[t]].kind \in kinds

\* mutant: the day of the lock itself is still open
OpenAfter(date, lock) == date >= lock

\* _assert_period_open
Open(date, lock) == date > lock

Net(lines) ==
    [a \in Accounts |->
        SumFunction([i \in {j \in DOMAIN lines : lines[j].account = a} |->
                        lines[i].debit - lines[i].credit])]

\* post_journal: one side per line, two lines that are not zero, debits equal credits
WellFormed(lines) ==
    /\ \A i \in DOMAIN lines : /\ lines[i].account \in Accounts
                               /\ lines[i].debit = 0 \/ lines[i].credit = 0
    /\ Cardinality({i \in DOMAIN lines : lines[i].debit + lines[i].credit > 0}) >= 2
    /\ SumFunction([i \in DOMAIN lines |-> lines[i].debit])
          = SumFunction([i \in DOMAIN lines |-> lines[i].credit])

ReversalsOf(s) == {o \in Reversals : Exists(entry[Source[o]]) /\ entry[Source[o]].reverses = s}

\* reverse_manual_journal, before it posts
CannotReverse(o) ==
    LET s == Req[o].of
    IN  \/ ~Exists(entry[s])
        \/ Req[o].branch # AllBranches /\ entry[s].branch # Req[o].branch
        \/ entry[s].type # "manual"
        \/ \E r \in ReversalsOf(s) : Source[r] # Source[o]
        \/ Exists(entry[Source[o]]) /\ entry[Source[o]].reverses # s

\* the journal of this source is already there, and is what is answered
Replays(o) ==
    Exists(entry[Source[o]]) /\ (o \in Reversals => entry[Source[o]].reverses = Req[o].of)

Acceptable(o) ==
    /\ Open(Req[o].date, lockedThrough)
    /\ IF o \in Reversals THEN ~CannotReverse(o) ELSE WellFormed(Req[o].lines)

ReplayJournal(t) ==
    /\ Working(t, {"manual", "operation", "reverse"}) /\ Replays(OpOf[t])
    /\ End(t, "replayed")
    /\ UNCHANGED <<entry, lockedThrough, seen, reads>>

CheckJournal(t) ==
    /\ Working(t, {"manual", "operation", "reverse"}) /\ ~Replays(OpOf[t])
    /\ Acceptable(OpOf[t])
    /\ Goto(t, "checked")
    /\ UNCHANGED <<answer, queue, entry, lockedThrough, seen, reads>>

\* mutant: without uq_journal_entries_reversal_of
TakenSource(o) == Exists(entry[Source[o]])

\* uq_journal_entries_tenant_source and uq_journal_entries_reversal_of
Taken(o) == Exists(entry[Source[o]]) \/ (o \in Reversals /\ ReversalsOf(Req[o].of) # {})

\* nothing is written, whether a check refuses the journal (400, 409) or, at the
\* commit, an index whose IntegrityError the route does not catch (500)
RefuseJournal(t) ==
    /\ \/ Working(t, {"manual", "operation", "reverse"}) /\ ~Replays(OpOf[t]) /\ ~Acceptable(OpOf[t])
       \/ At(t, "checked") /\ Taken(OpOf[t])
    /\ End(t, "refused")
    /\ UNCHANGED <<entry, lockedThrough, seen, reads>>

Row(o) ==
    IF o \in Reversals
    THEN [type |-> "reverse", date |-> Req[o].date, branch |-> entry[Req[o].of].branch,
          lines |-> [a \in Accounts |-> -entry[Req[o].of].lines[a]], reverses |-> Req[o].of]
    ELSE [type |-> Req[o].kind, date |-> Req[o].date, branch |-> Req[o].branch,
          lines |-> Net(Req[o].lines), reverses |-> Unreversed]

CommitJournal(t) ==
    /\ At(t, "checked") /\ ~Taken(OpOf[t])
    /\ entry' = [entry EXCEPT ![Source[OpOf[t]]] = Row(OpOf[t])]
    /\ End(t, "created")
    /\ UNCHANGED <<lockedThrough, seen, reads>>

-----------------------------------------------------------------------------
(* The period lock: the row is locked, read again and moved forward         *)

LockSettings(t) ==
    /\ Working(t, {"lock"}) /\ Req[OpOf[t]].through <= Today
    /\ Ask(t, Settings) /\ Goto(t, "locking")
    /\ UNCHANGED <<answer, entry, lockedThrough, seen, reads>>

ReadSettings(t) ==
    /\ At(t, "locking")
    /\ seen' = [seen EXCEPT ![t] = lockedThrough]
    /\ Goto(t, "read")
    /\ UNCHANGED <<answer, queue, entry, lockedThrough, reads>>

RefuseLock(t) ==
    /\ \/ Working(t, {"lock"}) /\ Req[OpOf[t]].through > Today
       \/ At(t, "read") /\ Req[OpOf[t]].through <= seen[t]
    /\ End(t, "refused")
    /\ UNCHANGED <<entry, lockedThrough, seen, reads>>

AdvancePeriodLock(t) ==
    /\ At(t, "read") /\ Req[OpOf[t]].through > seen[t]
    /\ lockedThrough' = Req[OpOf[t]].through
    /\ End(t, "created")
    /\ UNCHANGED <<entry, seen, reads>>

-----------------------------------------------------------------------------
(* Statements                                                               *)

\* mutant: the first day of the period counts as before it
RangesFrom(o) ==
    LET r == Req[o]
    IN  IF r.kind = "sheet" THEN <<<<1, r.to>>, <<1, r.to>>>>
        ELSE <<<<1, r.from>>, <<1, r.to>>, <<r.from, r.to>>>>

\* the date range of each SELECT
Ranges(o) ==
    LET r == Req[o]
    IN  IF r.kind = "sheet" THEN <<<<1, r.to>>, <<1, r.to>>>>
        ELSE <<<<1, r.from - 1>>, <<1, r.to>>, <<r.from, r.to>>>>

Select(t) ==
    LET o == OpOf[t]
        range == Ranges(o)[Len(reads[t]) + 1]
    IN  /\ Working(t, {"sheet", "cashflow"})
        /\ reads' = [reads EXCEPT ![t] =
                        Append(@, Selected(Posted, Req[o].branch, range[1], range[2]))]
        /\ IF Len(reads'[t]) = Len(Ranges(o)) THEN End(t, "created")
           ELSE UNCHANGED <<pc, answer, queue>>
        /\ UNCHANGED <<entry, lockedThrough, seen>>

\* nothing was committed, and nobody sends the request again by itself
Die(t) ==
    /\ t \in Mortal /\ pc[t] \notin {"unsent", "idle", "done"}
    /\ End(t, "none")
    /\ UNCHANGED <<entry, lockedThrough, seen, reads>>

Next ==
    \/ \E t \in Txns :
          \/ Arrive(t) \/ Die(t)
          \/ ReplayJournal(t) \/ CheckJournal(t) \/ RefuseJournal(t) \/ CommitJournal(t)
          \/ LockSettings(t) \/ ReadSettings(t) \/ RefuseLock(t) \/ AdvancePeriodLock(t)
          \/ Select(t)
    \/ AllAnswered /\ UNCHANGED vars

Spec == Init /\ [][Next]_vars

-----------------------------------------------------------------------------
(* Properties                                                               *)

EntryRow ==
    [type : {"manual", "operation", "reverse"}, date : Nat \ {0},
     branch : Branches \cup {AllBranches}, lines : [Accounts -> Int],
     reverses : Sources \cup {Unreversed}]

\* The types of the rows; every entry balances.
TypeOK ==
    /\ RequestsTypeOK({"checked", "locking", "read"})
    /\ \A s \in Sources : Exists(entry[s]) =>
          /\ entry[s] \in EntryRow
          /\ SumFunction(entry[s].lines) = 0
    /\ lockedThrough \in 0..Today
    /\ seen \in [Txns -> 0..Today]
    /\ \A t \in Txns : \A i \in DOMAIN reads[t] : reads[t][i] \subseteq Sources

\* A manual journal is reversed at most once, to the cent and at its branch, and
\* nothing but a manual journal is (docs/accounting-engine.md:60), though two
\* reversals can both find that there is none yet (accounting.py:355).
ReversedOnce ==
    \A s \in Sources :
        /\ Cardinality({Source[r] : r \in ReversalsOf(s)}) <= 1
        /\ \A r \in ReversalsOf(s) :
              /\ entry[s].type = "manual" /\ entry[Source[r]].branch = entry[s].branch
              /\ \A a \in Accounts : Debit(a, {s, Source[r]}) = 0

\* locked, with no journal of it that was checked before
Settled(d) ==
    /\ lockedThrough >= d
    /\ \A t \in Txns : pc[t] = "checked" => Req[OpOf[t]].date > d

UpTo(d) == {s \in Posted : entry[s].date <= d}

\* The period lock never moves back, whoever moves it (accounting.py:158), and once
\* a day is locked and the journals of it that had been checked by then are
\* committed or refused, nothing is posted to it any more: what the plain read of
\* the settings leaves of a closed period (accounting.py:211).
PeriodSettles ==
    [][/\ lockedThrough' >= lockedThrough
       /\ \A d \in Dates : Settled(d) => Settled(d)' /\ UpTo(d)' = UpTo(d)]_vars

Complete(t, kind) == Req[OpOf[t]].kind = kind /\ Len(reads[t]) = Len(Ranges(OpOf[t]))

\* The only two things that put a balance sheet out: a journal committed between
\* the SELECT of the balances and that of the profit (accounting.py:541, 556), and
\* the drawings, which are added to equity (accounting.py:554).
SheetExplained(t) ==
    LET balances == reads[t][1]
        profit == reads[t][2]
    IN  BalanceSheetDifference(balances, profit) =
            -NetProfit(profit \ balances) - 2 * Debit("Drawings", balances)

\* A cash flow statement only differs by what was committed between its SELECTs
\* (management_reports.py:94-138), and its cash is that of the management summary.
FlowExplained(t) ==
    LET opening == reads[t][1]
        closing == reads[t][2]
        period == reads[t][3]
        before == {s \in closing : entry[s].date < Req[OpOf[t]].from}
    IN  /\ CashFlowDifference(opening, closing, period) =
              LiquidBalance(before \ opening) - LiquidBalance(period \ closing)
        /\ LiquidFunds(closing) = LiquidBalance(closing)

\* Whoever posts, reverses or locks while a statement is put together from several
\* SELECTs, its difference is exactly what was committed between them, and drawings
\* (accounting.py:541-556, management_reports.py:94-138).
StatementsExplained ==
    \A t \in Txns :
        /\ Complete(t, "sheet") => SheetExplained(t)
        /\ Complete(t, "cashflow") => FlowExplained(t)

\* What the statements screen calls "Balanced" (financial_statements_page.dart:236):
\* a balance sheet nobody posted during has no difference.
SheetBalances ==
    \A t \in Txns : Complete(t, "sheet") /\ reads[t][1] = reads[t][2] =>
        BalanceSheetDifference(reads[t][1], reads[t][2]) = 0
===============================================================================
