------------------------- MODULE BusinessRepository -------------------------
(***************************************************************************)
(* The tables behind the operator agent's tool: accounts, holdings and one *)
(* execution row per operation (dao/mysql/mock_business_repository.py).    *)
(* Several sessions may execute the same operation, and different          *)
(* operations on the same accounts, at once.                               *)
(*                                                                         *)
(* An execution is one transaction of MySQL at its default isolation,      *)
(* REPEATABLE READ.  A plain SELECT shows the snapshot taken by the first  *)
(* of them; SELECT ... FOR UPDATE waits for the row's lock and shows what  *)
(* is committed.  A row inserted under a unique key makes others that      *)
(* insert it wait until the transaction ends.  Locks are those of the rows *)
(* that an index finds, and of the gap before the first of them, or where  *)
(* it would be: others may search there, but a row inserted there waits.   *)
(***************************************************************************)
EXTENDS Integers, Sequences

CONSTANTS
  LastNumber,      \* of the accounts; all numbers have the same length
  Customers,       \* each with the one account seed_defaults opens: its number
  InitialBalance,  \* of each account
  BaseShares,      \* in fin_holdings, a table this code only reads
  Operations,
  Sessions,
  Amounts,
  MaxFaults

ASSUME RepositoryAssumption ==
  /\ LastNumber \in Nat
  /\ Customers \subseteq 1..LastNumber
  /\ InitialBalance \in [Customers -> Nat]
  /\ BaseShares \in [Customers -> Nat]
  /\ Amounts \subseteq Nat \ {0}
  /\ MaxFaults \in Nat

VARIABLES
  balance,    \* operator_mock_accounts.available_balance
  entries,    \* operator_mock_transactions, each row with its holding change,
              \* and the rows that operations of other kinds insert
  execution,  \* operator_mock_api_executions, by operation
  request,    \* what each operation was asked to do
  pc,         \* of each session
  current,    \* the operation a session executes, or executed last
  snapshot,   \* how many entries the session's plain reads show
  held,       \* how many of the locks of LockPlan the session holds
  seen,       \* the balances it has read with those locks
  faults

session == <<pc, current, snapshot, held, seen>>
vars == <<balance, entries, execution, request, session, faults>>

-----------------------------------------------------------------------------
(* Requests and rows.                                                      *)

BaseHolding(c) == <<"H", c>>
OpenedHolding(o) == <<"MH", o>>
Holdings ==
  {BaseHolding(c) : c \in Customers} \cup {OpenedHolding(o) : o \in Operations}

All == 0   \* redeem_type "all"
NoHolding == <<>>

Purchases == [kind: {"purchase"}, from: Customers, to: {0}, holding: {NoHolding},
              amount: Amounts]
Redemptions == [kind: {"redeem"}, from: {0}, to: Customers, holding: Holdings,
                amount: Amounts \cup {All}]
Transfers ==
  {r \in [kind: {"transfer"}, from: Customers, to: Customers,
          holding: {NoHolding}, amount: Amounts] : r.from # r.to}
\* Reassessments, profile updates, reports and work orders insert one row of
\* their own, of customers that are only read.
Records == [kind: {"record"}, from: {0}, to: {0}, holding: {NoHolding},
            amount: {0}]
Requests == Purchases \cup Redemptions \cup Transfers \cup Records
NoRequest == [kind |-> "none", from |-> 0, to |-> 0, holding |-> NoHolding,
              amount |-> 0]

\* The customer whose holding h is, after the first n entries: its own if it
\* is a base holding, else the one whose purchase opened it.
OwnerOf(h, n) ==
  {c \in Customers :
     \/ h = BaseHolding(c) /\ BaseShares[c] > 0
     \/ \E i \in 1..n : entries[i].holding = h /\ entries[i].from = c}

\* The sum of base and the first n numbers of d.
Total(base, d, n) ==
  LET sum[i \in 0..n] == IF i = 0 THEN base ELSE sum[i - 1] + d[i] IN sum[n]

\* The shares of a holding after the first n entries: the sum of its changes.
Change(e, h) ==
  IF e.holding # h THEN 0 ELSE IF e.kind = "purchase" THEN e.amount ELSE -e.amount
SharesAfter(h, n) ==
  Total(IF h[1] = "H" THEN BaseShares[h[2]] ELSE 0,
        [i \in 1..n |-> Change(entries[i], h)], n)

\* The balance of an account after the first n entries.
Movement(e, c) ==
  (IF e.to = c THEN e.amount ELSE 0) - (IF e.from = c THEN e.amount ELSE 0)
BalanceAfter(c, n) ==
  Total(InitialBalance[c], [i \in 1..n |-> Movement(entries[i], c)], n)

-----------------------------------------------------------------------------
(* Locks.                                                                  *)

Account(c) == <<"account", c>>
Row(h) == <<"change", h>>

\* Faulty variant: the two accounts of a transfer are locked as they are named.
AsNamed(a, b) == <<Account(a), Account(b)>>

\* ORDER BY account_no
ByNumber(a, b) ==
  IF a <= b THEN <<Account(a), Account(b)>> ELSE <<Account(b), Account(a)>>

\* What an execution locks, in this order: the account of a base holding before,
\* that of another holding after, the row of the holding's first change.  If a
\* base holding has none, only the gap is locked; its account keeps others out.
LockPlan(r) ==
  CASE r.kind = "purchase" -> <<Account(r.from)>>
    [] r.kind = "transfer" -> ByNumber(r.from, r.to)
    [] r.kind = "redeem" /\ r.holding[1] = "H" -> <<Account(r.to), Row(r.holding)>>
    [] r.kind = "redeem" /\ r.holding[1] = "MH" -> <<Row(r.holding), Account(r.to)>>
    [] OTHER -> <<>>

Plan(s) == LockPlan(request[current[s]])
Holds(s, x) == \E i \in 1..held[s] : Plan(s)[i] = x

\* The execution row of o was inserted by s and is not committed yet.
HoldsKey(s, o) == current[s] = o /\ pc[s] \in {"read", "lock"}
\* Faulty variant: the key is not unique while it is uncommitted.
KeyNotAwaited(s, o) == TRUE

KeyFree(s, o) == \A r \in Sessions \ {s} : ~HoldsKey(r, o)

\* Faulty variant: accounts are read without FOR UPDATE.
RowNotAwaited(s, x) == TRUE

RowFree(s, x) == \A r \in Sessions \ {s} : ~Holds(r, x)

\* The search for the first change of holding g locks the gap before it; if
\* there is none, the gap where it would be.  Whether a new change of h belongs
\* into that gap depends on the holdings' numbers, which are random for those
\* opened here and after the ones of base holdings.
InGap(h, g) ==
  (\E i \in 1..Len(entries) : entries[i].holding = g)
    => h # g /\ ~(h[1] = "MH" /\ g[1] = "H")

WaitsForKey(s, r) ==
  /\ pc[s] \in {"insert", "recordFailure"}
  /\ r # s /\ HoldsKey(r, current[s])
WaitsForRow(s, r) ==
  /\ pc[s] = "lock" /\ held[s] < Len(Plan(s))
  /\ r # s /\ Holds(r, Plan(s)[held[s] + 1])
-----------------------------------------------------------------------------
(* Steps of a session.                                                     *)

Goto(s, label) == pc' = [pc EXCEPT ![s] = label]

NothingSeen == [c \in Customers |-> 0]

\* The transaction ends: its locks are released.
End(s, label) ==
  /\ Goto(s, label)
  /\ held' = [held EXCEPT ![s] = 0]
  /\ snapshot' = [snapshot EXCEPT ![s] = 0]
  /\ seen' = [seen EXCEPT ![s] = NothingSeen]
  /\ UNCHANGED current

\* An operation is dispatched with its parameters.  A redemption names a
\* holding the customer has been shown.
Submit(o) ==
  /\ request[o] = NoRequest
  /\ \E r \in Requests :
       /\ r.kind = "redeem" => r.to \in OwnerOf(r.holding, Len(entries))
       /\ request' = [request EXCEPT ![o] = r]
  /\ UNCHANGED <<balance, entries, execution, session, faults>>

\* The outcome of an earlier execution is returned, else one is begun.
Execute(s, o) ==
  /\ pc[s] = "idle" /\ request[o] # NoRequest
  /\ current' = [current EXCEPT ![s] = o]
  /\ pc' = [pc EXCEPT ![s] = IF execution[o] = "none" THEN "insert" ELSE "idle"]
  /\ UNCHANGED <<balance, entries, execution, request, snapshot, held, seen,
                 faults>>

\* Faulty variant: an execution that failed is executed again.
InsertAfterFailure(s) ==
  LET o == current[s] IN
  /\ pc[s] = "insert" /\ KeyFree(s, o)
  /\ Goto(s, IF execution[o] = "succeeded" THEN "idle" ELSE "read")
  /\ UNCHANGED <<balance, entries, execution, request, current, snapshot, held,
                 seen, faults>>

\* The execution row is inserted and flushed; if another transaction has
\* committed one, its outcome is returned.
Insert(s) ==
  LET o == current[s] IN
  /\ pc[s] = "insert" /\ KeyFree(s, o)
  /\ Goto(s, IF execution[o] = "none" THEN "read" ELSE "idle")
  /\ UNCHANGED <<balance, entries, execution, request, current, snapshot, held,
                 seen, faults>>

\* The first plain read, of the customer, takes the snapshot.
Read(s) ==
  /\ pc[s] = "read"
  /\ snapshot' = [snapshot EXCEPT ![s] = Len(entries)]
  /\ Goto(s, "lock")
  /\ UNCHANGED <<balance, entries, execution, request, current, held, seen,
                 faults>>

\* Something about the request, the customer or the product is refused.
Invalid(s) ==
  /\ pc[s] = "read"
  /\ End(s, "recordFailure")
  /\ UNCHANGED <<balance, entries, execution, request, faults>>

\* Faulty variant: an account is read as the snapshot shows it.
SnapshotBalance(s, c) == BalanceAfter(c, snapshot[s])

\* What SELECT ... FOR UPDATE shows of an account: what is committed.
BalanceRead(s, c) == balance[c]

\* The next row is locked; an account is kept as it is read.
Lock(s) ==
  /\ pc[s] = "lock" /\ held[s] < Len(Plan(s))
  /\ LET x == Plan(s)[held[s] + 1] IN
       /\ RowFree(s, x)
       /\ seen' = [seen EXCEPT ![s] = [c \in Customers |->
                    IF x = Account(c) THEN BalanceRead(s, c) ELSE @[c]]]
  /\ held' = [held EXCEPT ![s] = @ + 1]
  /\ UNCHANGED <<balance, entries, execution, request, pc, current, snapshot,
                 faults>>

Locked(s) == pc[s] = "lock" /\ held[s] = Len(Plan(s))

\* The shares it sums up with a plain read.
SharesSeen(s, h) == SharesAfter(h, snapshot[s])

AmountOf(s, r) ==
  IF r.kind = "redeem" /\ r.amount = All THEN SharesSeen(s, r.holding) ELSE r.amount

Covered(s, r) ==
  IF r.kind = "redeem"
  THEN /\ SharesSeen(s, r.holding) > 0
       /\ AmountOf(s, r) <= SharesSeen(s, r.holding)
  ELSE r.kind # "record" => seen[s][r.from] >= r.amount

\* A purchase goes to the base holding, else to the holding of the customer's
\* latest change, else it opens one.
PurchaseHolding(s, c) ==
  LET known == {i \in 1..snapshot[s] :
                  /\ entries[i].kind # "transfer"
                  /\ c \in {entries[i].from, entries[i].to}}
  IN CASE BaseShares[c] > 0 -> BaseHolding(c)
       [] BaseShares[c] = 0 /\ known # {} ->
            entries[CHOOSE i \in known : \A j \in known : j <= i].holding
       [] OTHER -> OpenedHolding(current[s])

EntryOf(s, r) ==
  [op |-> current[s], kind |-> r.kind, from |-> r.from, to |-> r.to,
   holding |-> IF r.kind = "purchase" THEN PurchaseHolding(s, r.from) ELSE r.holding,
   amount |-> AmountOf(s, r)]

\* The change it inserts may belong into a gap that r has locked.  As numbers
\* are left open, a Commit may also be one that need not wait.
WaitsForGap(s, r) ==
  LET q == request[current[s]] IN
  /\ Locked(s) /\ Covered(s, q) /\ q.kind \in {"purchase", "redeem"}
  /\ r # s /\ \E g \in Holdings : Holds(r, Row(g)) /\ InGap(EntryOf(s, q).holding, g)

Waits(s, r) == WaitsForKey(s, r) \/ WaitsForRow(s, r) \/ WaitsForGap(s, r)
Circle(S) == S # {} /\ \A s \in S : \E r \in S : Waits(s, r)

\* Balances, holding change, transaction and execution row are committed.
Commit(s) ==
  LET r == request[current[s]] IN
  /\ Locked(s) /\ Covered(s, r)
  /\ balance' = [c \in Customers |->
       CASE c = r.from -> seen[s][c] - AmountOf(s, r)
         [] c = r.to -> seen[s][c] + AmountOf(s, r)
         [] OTHER -> balance[c]]
  /\ entries' = Append(entries, EntryOf(s, r))
  /\ execution' = [execution EXCEPT ![current[s]] = "succeeded"]
  /\ End(s, "idle")
  /\ UNCHANGED <<request, faults>>

Insufficient(s) ==
  /\ Locked(s) /\ ~Covered(s, request[current[s]])
  /\ End(s, "recordFailure")
  /\ UNCHANGED <<balance, entries, execution, request, faults>>

\* A transaction of its own records the failure, unless there is a row.
RecordFailure(s) ==
  LET o == current[s] IN
  /\ pc[s] = "recordFailure" /\ KeyFree(s, o)
  /\ execution' = [execution EXCEPT ![o] = IF @ = "none" THEN "failed" ELSE @]
  /\ Goto(s, "idle")
  /\ UNCHANGED <<balance, entries, request, current, snapshot, held, seen, faults>>

\* InnoDB fails one transaction of a circle, and rolls it back.
Deadlock(s) ==
  /\ \E S \in SUBSET Sessions : s \in S /\ Circle(S)
  /\ End(s, "idle")
  /\ UNCHANGED <<balance, entries, execution, request, faults>>

\* The connection is lost or the database refuses: everything is rolled back.
Break(s) ==
  /\ pc[s] # "idle" /\ faults < MaxFaults
  /\ faults' = faults + 1
  /\ End(s, "idle")
  /\ UNCHANGED <<balance, entries, execution, request>>

-----------------------------------------------------------------------------
Init ==
  /\ balance = InitialBalance
  /\ entries = <<>>
  /\ execution = [o \in Operations |-> "none"]
  /\ request = [o \in Operations |-> NoRequest]
  /\ pc = [s \in Sessions |-> "idle"]
  /\ current \in {[s \in Sessions |-> o] : o \in Operations}
  /\ snapshot = [s \in Sessions |-> 0]
  /\ held = [s \in Sessions |-> 0]
  /\ seen = [s \in Sessions |-> NothingSeen]
  /\ faults = 0

Step(s) ==
  \/ \E o \in Operations : Execute(s, o)
  \/ Insert(s) \/ Read(s) \/ Invalid(s) \/ Lock(s) \/ Commit(s)
  \/ Insufficient(s) \/ RecordFailure(s) \/ Deadlock(s) \/ Break(s)

Next == (\E o \in Operations : Submit(o)) \/ (\E s \in Sessions : Step(s))

Spec == Init /\ [][Next]_vars

-----------------------------------------------------------------------------
(* Safety.                                                                 *)

\* No account is overdrawn, whichever purchases and transfers meet on it.
NoOverdraft == \A c \in Customers : balance[c] >= 0

\* Every balance is the initial one and what the transactions moved: no update
\* of an account is lost.
BooksBalance == \A c \in Customers : balance[c] = BalanceAfter(c, Len(entries))

\* However many sessions execute an operation, and however often, it moves
\* money and shares at most once, and does so if and only if its execution row
\* says that it succeeded.
EffectOnce ==
  /\ \A i, j \in 1..Len(entries) : entries[i].op = entries[j].op => i = j
  /\ \A o \in Operations :
       execution[o] = "succeeded" <=> \E i \in 1..Len(entries) : entries[i].op = o

\* Where sessions wait for each other in a circle, so that InnoDB fails one of
\* them, one of the waits is that of an insertion.  The rows that executions
\* lock do not suffice for it, neither those of transfers in opposite directions
\* nor those of redemptions that begin with the account or with the holding
\* (dao/mysql/mock_business_repository.py:884-902, 980-1016).
CircleHasInsertion ==
  \A S \in SUBSET Sessions :
    Circle(S) => \E s, r \in S : WaitsForKey(s, r) \/ WaitsForGap(s, r)

\* To who looks at requests, balances and outcomes only, operations are carried
\* out or refused one after another, each in one step and from the balances of
\* that moment, whichever executions overlap and wherever they break off
\* (dao/mysql/mock_business_repository.py:143-203, 1087-1119).
Book == INSTANCE Ledger WITH outcome <- execution
ImplementsLedger == Book!Spec

-----------------------------------------------------------------------------
(* What the code means to refuse and does not.                              *)

\* No more shares are redeemed than the holding has.
NoOverRedemption == \A h \in Holdings : SharesAfter(h, Len(entries)) >= 0
=============================================================================
