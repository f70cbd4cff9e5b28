---------------------- MODULE BusinessRepositoryProofs ----------------------
(***************************************************************************)
(* Proofs about BusinessRepository for every number of sessions, customers *)
(* and operations.                                                         *)
(*                                                                         *)
(* Once: the unique key of the execution row lets one session at a time    *)
(* work on an operation, and only while it has no outcome, so an operation *)
(* has its effect once.                                                    *)
(*                                                                         *)
(* NoCircleOfRows: every execution locks its rows in the order of one      *)
(* ranking, so that in a circle of sessions waiting for rows alone the     *)
(* ranks of the rows waited for would rise for ever.                       *)
(*                                                                         *)
(* NeverOverdrawn, BalancesAreSums: what a session has read of an account  *)
(* it has locked is what is committed, so that it checks and writes what   *)
(* is there.                                                               *)
(*                                                                         *)
(* LedgerImplemented: a commit is the one step in which an operation is    *)
(* carried out, the record of its failure the one in which it is refused.  *)
(***************************************************************************)
EXTENDS BusinessRepository, SequenceTheorems, WellFoundedInduction, TLAPS

Working == {"read", "lock"}

\* What the argument needs of the types.
Shape ==
  /\ entries \in Seq({entries[i] : i \in 1..Len(entries)})
  /\ execution \in [Operations -> {"none", "succeeded", "failed"}]
  /\ pc \in [Sessions -> {"idle", "insert", "recordFailure"} \cup Working]
  /\ current \in [Sessions -> Operations]

\* A session works on an operation that has no outcome, and alone.
KeyHeld ==
  /\ \A s \in Sessions : pc[s] \in Working => execution[current[s]] = "none"
  /\ \A s, r \in Sessions :
       pc[s] \in Working /\ pc[r] \in Working /\ current[s] = current[r] => s = r

OnceInv == Shape /\ KeyHeld /\ EffectOnce

\* A function over 1..n is a sequence of its values.
LEMMA SeqOfValues ==
  ASSUME NEW S, NEW q \in Seq(S)
  PROVE  q \in Seq({q[i] : i \in 1..Len(q)})
<1> DEFINE T == {q[i] : i \in 1..Len(q)}
<1>1. Len(q) \in Nat /\ q \in [1..Len(q) -> S]
  BY LenProperties
<1>2. q \in [1..Len(q) -> T]
  BY <1>1
<1> HIDE DEF T
<1>3. q \in Seq(T)
  BY <1>1, <1>2, SeqDef
<1> QED
  BY <1>3 DEF T

LEMMA AppendShape ==
  ASSUME NEW q, q \in Seq({q[i] : i \in 1..Len(q)}), NEW e
  PROVE  /\ Len(q) \in Nat
         /\ Len(Append(q, e)) = Len(q) + 1
         /\ \A i \in 1..Len(q) : Append(q, e)[i] = q[i]
         /\ Append(q, e)[Len(q) + 1] = e
         /\ Append(q, e) \in
              Seq({Append(q, e)[i] : i \in 1..Len(Append(q, e))})
<1> DEFINE T == {q[i] : i \in 1..Len(q)}
           S == T \cup {e}
<1>1. Len(q) \in Nat /\ q \in [1..Len(q) -> T]
  BY LenProperties
<1> HIDE DEF T
<1>2. q \in [1..Len(q) -> S] /\ e \in S
  BY <1>1
<1> HIDE DEF S
<1>3. q \in Seq(S)
  BY <1>1, <1>2, SeqDef
<1>4. /\ Append(q, e) \in Seq(S) /\ Len(Append(q, e)) = Len(q) + 1
      /\ \A i \in 1..Len(q) : Append(q, e)[i] = q[i]
      /\ Append(q, e)[Len(q) + 1] = e
  BY <1>2, <1>3, AppendProperties
<1> QED
  BY <1>1, <1>4, SeqOfValues

LEMMA InitOnce == Init => OnceInv
<1> SUFFICES ASSUME Init PROVE OnceInv
  OBVIOUS
<1>1. entries = <<>> /\ Len(entries) = 0
  BY DEF Init
<1>2. Shape
  BY <1>1, EmptySeq DEF Init, Shape
<1>3. KeyHeld
  BY DEF Init, KeyHeld, Working
<1>4. EffectOnce
  BY <1>1 DEF Init, EffectOnce
<1> QED
  BY <1>2, <1>3, <1>4 DEF OnceInv

\* A step of session s that leaves the tables alone and does not begin to work.
LEMMA QuietStep ==
  ASSUME OnceInv, NEW s \in Sessions,
         UNCHANGED <<entries, execution>>,
         NEW l \in {"idle", "insert", "recordFailure"} \cup Working,
         pc' = [pc EXCEPT ![s] = l],
         \/ l \notin Working /\ current' \in [Sessions -> Operations]
            /\ \A r \in Sessions \ {s} : current'[r] = current[r]
         \/ pc[s] \in Working /\ UNCHANGED current
  PROVE  OnceInv'
<1>1. Shape'
  BY DEF OnceInv, Shape
<1>2. /\ pc'[s] = l
      /\ \A r \in Sessions \ {s} : pc'[r] = pc[r] /\ current'[r] = current[r]
  BY DEF OnceInv, Shape
<1>3. KeyHeld'
  BY <1>2 DEF OnceInv, KeyHeld
<1>4. EffectOnce'
  BY DEF OnceInv, EffectOnce
<1> QED
  BY <1>1, <1>3, <1>4 DEF OnceInv

LEMMA StepInsert ==
  ASSUME OnceInv, NEW s \in Sessions, Insert(s) PROVE OnceInv'
<1>1. CASE execution[current[s]] # "none"
  BY <1>1, QuietStep DEF Insert, Goto, OnceInv, Shape, Working
<1>2. CASE execution[current[s]] = "none"
  <2>1. /\ pc' = [pc EXCEPT ![s] = "read"] /\ UNCHANGED <<entries, execution, current>>
        /\ KeyFree(s, current[s])
    BY <1>2 DEF Insert, Goto
  <2>2. Shape'
    BY <2>1 DEF OnceInv, Shape, Working
  <2>3. /\ pc'[s] = "read" /\ \A r \in Sessions \ {s} : pc'[r] = pc[r]
    BY <2>1 DEF OnceInv, Shape
  <2>4. \A r \in Sessions \ {s} : pc[r] \in Working => current[r] # current[s]
    BY <2>1 DEF KeyFree, HoldsKey, Working
  <2>5. KeyHeld'
    BY <1>2, <2>1, <2>3, <2>4 DEF OnceInv, KeyHeld
  <2>6. EffectOnce'
    BY <2>1 DEF OnceInv, EffectOnce
  <2> QED
    BY <2>2, <2>5, <2>6 DEF OnceInv
<1> QED
  BY <1>1, <1>2

LEMMA StepCommit ==
  ASSUME OnceInv, NEW s \in Sessions, Commit(s) PROVE OnceInv'
<1> DEFINE o == current[s]
           e == EntryOf(s, request[o])
           n == Len(entries)
<1>1. /\ o \in Operations /\ pc[s] = "lock" /\ execution[o] = "none"
      /\ entries \in Seq({entries[i] : i \in 1..Len(entries)})
  BY DEF OnceInv, Shape, KeyHeld, Working, Commit, Locked
<1>2. /\ entries' = Append(entries, e)
      /\ execution' = [execution EXCEPT ![o] = "succeeded"]
      /\ pc' = [pc EXCEPT ![s] = "idle"] /\ current' = current
  BY DEF Commit, End, Goto
<1>3. e.op = o
  BY DEF EntryOf
<1>4. /\ n \in Nat /\ Len(entries') = n + 1
      /\ \A i \in 1..n : entries'[i] = entries[i]
      /\ entries'[n + 1] = e
      /\ entries' \in Seq({entries'[i] : i \in 1..Len(entries')})
  BY <1>1, <1>2, AppendShape
<1>5. Shape'
  BY <1>1, <1>2, <1>4 DEF OnceInv, Shape
<1>6. /\ pc'[s] = "idle" /\ \A r \in Sessions \ {s} : pc'[r] = pc[r]
      /\ execution'[o] = "succeeded"
      /\ \A q \in Operations \ {o} : execution'[q] = execution[q]
  BY <1>1, <1>2 DEF OnceInv, Shape
<1>7. KeyHeld'
  <2>1. \A r \in Sessions \ {s} : pc[r] \in Working => current[r] \in Operations \ {o}
    BY <1>1 DEF OnceInv, Shape, KeyHeld, Working
  <2> QED
    BY <1>2, <1>6, <2>1 DEF OnceInv, KeyHeld, Working
<1>8. \A i \in 1..n : entries[i].op # o
  BY <1>1 DEF OnceInv, EffectOnce
<1>9. EffectOnce'
  <2>1. 1..(n + 1) = 1..n \cup {n + 1}
    BY <1>4
  <2>2. /\ \A i \in 1..n : entries'[i].op = entries[i].op
        /\ entries'[n + 1].op = o
    BY <1>3, <1>4
  <2>3. /\ \A i, j \in 1..n : entries[i].op = entries[j].op => i = j
        /\ \A q \in Operations :
             execution[q] = "succeeded" <=> \E i \in 1..n : entries[i].op = q
    BY DEF OnceInv, EffectOnce
  <2> HIDE DEF o, e, n
  <2>4. ASSUME NEW i \in 1..(n + 1), NEW j \in 1..(n + 1),
               entries'[i].op = entries'[j].op
        PROVE  i = j
    <3>1. CASE i \in 1..n /\ j \in 1..n
      BY <2>2, <2>3, <2>4, <3>1
    <3>2. CASE i = n + 1 \/ j = n + 1
      BY <1>8, <2>1, <2>2, <2>4, <3>2
    <3> QED
      BY <2>1, <3>1, <3>2
  <2>5. ASSUME NEW q \in Operations
        PROVE  execution'[q] = "succeeded"
                 <=> \E i \in 1..(n + 1) : entries'[i].op = q
    <3>1. CASE q = o
      BY <1>6, <2>1, <2>2, <3>1
    <3>2. CASE q # o
      <4>1. (\E i \in 1..(n + 1) : entries'[i].op = q)
              <=> \E i \in 1..n : entries[i].op = q
        BY <2>1, <2>2, <3>2
      <4> QED
        BY <1>6, <2>3, <3>2, <4>1
    <3> QED
      BY <3>1, <3>2
  <2> QED
    BY <1>4, <2>4, <2>5 DEF EffectOnce
<1> QED
  BY <1>5, <1>7, <1>9 DEF OnceInv

LEMMA StepRecordFailure ==
  ASSUME OnceInv, NEW s \in Sessions, RecordFailure(s) PROVE OnceInv'
<1> DEFINE o == current[s]
<1>1. /\ o \in Operations /\ KeyFree(s, o) /\ pc[s] = "recordFailure"
      /\ execution' = [execution EXCEPT ![o] = IF @ = "none" THEN "failed" ELSE @]
      /\ pc' = [pc EXCEPT ![s] = "idle"] /\ UNCHANGED <<entries, current>>
  BY DEF OnceInv, Shape, RecordFailure, Goto
<1>2. Shape'
  BY <1>1 DEF OnceInv, Shape
<1>3. /\ pc'[s] = "idle" /\ \A r \in Sessions \ {s} : pc'[r] = pc[r]
      /\ \A q \in Operations \ {o} : execution'[q] = execution[q]
      /\ execution'[o] = "succeeded" <=> execution[o] = "succeeded"
  BY <1>1 DEF OnceInv, Shape
<1>4. \A r \in Sessions \ {s} : pc[r] \in Working => current[r] \in Operations \ {o}
  BY <1>1 DEF OnceInv, Shape, KeyFree, HoldsKey, Working
<1>5. KeyHeld'
  BY <1>1, <1>3, <1>4 DEF OnceInv, KeyHeld, Working
<1>6. EffectOnce'
  BY <1>1, <1>3 DEF OnceInv, EffectOnce
<1> QED
  BY <1>2, <1>5, <1>6 DEF OnceInv

LEMMA NextOnce == OnceInv /\ [Next]_vars => OnceInv'
<1> SUFFICES ASSUME OnceInv, [Next]_vars PROVE OnceInv'
  OBVIOUS
<1>1. ASSUME NEW o \in Operations, Submit(o) PROVE OnceInv'
  BY <1>1 DEF OnceInv, Shape, KeyHeld, EffectOnce, Submit, session
<1>2. ASSUME NEW s \in Sessions, Step(s) PROVE OnceInv'
  <2>1. ASSUME NEW o \in Operations, Execute(s, o) PROVE OnceInv'
    <3>1. /\ current' \in [Sessions -> Operations]
          /\ \A r \in Sessions \ {s} : current'[r] = current[r]
      BY <2>1 DEF Execute, OnceInv, Shape
    <3> QED
      BY <2>1, <3>1, QuietStep DEF Execute, Working
  <2>2. CASE Insert(s)
    BY <2>2, StepInsert
  <2>3. CASE Read(s)
    BY <2>3, QuietStep DEF Read, Goto, Working
  <2>4. CASE Invalid(s) \/ Insufficient(s) \/ Deadlock(s) \/ Break(s)
    <3>1. /\ UNCHANGED <<entries, execution, current>>
          /\ \/ pc' = [pc EXCEPT ![s] = "idle"]
             \/ pc' = [pc EXCEPT ![s] = "recordFailure"]
      BY <2>4 DEF Invalid, Insufficient, Deadlock, Break, End, Goto
    <3> QED
      BY <3>1, QuietStep DEF Working, OnceInv, Shape
  <2>5. CASE Lock(s)
    BY <2>5 DEF OnceInv, Shape, KeyHeld, EffectOnce, Lock
  <2>6. CASE Commit(s)
    BY <2>6, StepCommit
  <2>7. CASE RecordFailure(s)
    BY <2>7, StepRecordFailure
  <2> QED
    BY <1>2, <2>1, <2>2, <2>3, <2>4, <2>5, <2>6, <2>7 DEF Step
<1>3. CASE UNCHANGED vars
  BY <1>3 DEF OnceInv, Shape, KeyHeld, EffectOnce, vars, session
<1> QED
  BY <1>1, <1>2, <1>3 DEF Next

\* One transaction at most per operation, and one exactly if its execution row
\* says it succeeded, for any number of sessions that execute it.
THEOREM Once == Spec => []EffectOnce
<1>1. OnceInv => EffectOnce
  BY DEF OnceInv
<1> QED
  BY <1>1, InitOnce, NextOnce, PTL DEF Spec

-----------------------------------------------------------------------------
(* Waiting.                                                                *)

\* What a session holds before it locks a row: purchased holdings come first,
\* then accounts by number, then base holdings.
Rank(x) ==
  CASE x[1] = "account" -> x[2]
    [] x[1] = "change" /\ x[2][1] = "MH" -> 0
    [] OTHER -> LastNumber + 1

LockInv ==
  /\ held \in [Sessions -> Nat]
  /\ pc \in [Sessions -> {"idle", "insert", "recordFailure"} \cup Working]
  /\ current \in [Sessions -> Operations]
  /\ request \in [Operations -> Requests \cup {NoRequest}]
  /\ \A s \in Sessions : held[s] > 0 => pc[s] = "lock"

LEMMA LeastNat ==
  ASSUME NEW T, T \subseteq Nat, T # {}
  PROVE  \E x \in T : \A y \in T : x <= y
<1> DEFINE R == OpToRel(<, Nat)
<1>1. IsWellFoundedOn(R, Nat)
  BY NatLessThanWellFounded
<1>2. \A x, y \in Nat : <<y, x>> \notin R => x <= y
  BY DEF OpToRel
<1> HIDE DEF R
<1>3. PICK x \in T : \A y \in T : <<y, x>> \notin R
  BY <1>1, WFMin
<1>4. \A y \in T : x <= y
  BY <1>2, <1>3
<1> QED
  BY <1>4

\* A set of numbers up to n has a largest one.
LEMMA LargestUpTo ==
  ASSUME NEW n \in Nat, NEW T, T \subseteq 0..n, T # {}
  PROVE  \E x \in T : \A y \in T : y <= x
<1> DEFINE D == {n - x : x \in T}
<1>1. D \subseteq Nat /\ D # {}
  <2>1. \A x \in T : x \in 0..n /\ n - x \in Nat
    OBVIOUS
  <2> QED
    BY <2>1
<1>2. PICK d \in D : \A e \in D : d <= e
  <2> HIDE DEF D
  <2> QED
    BY <1>1, LeastNat
<1>3. PICK x \in T : d = n - x
  BY <1>2
<1>4. \A y \in T : n - x <= n - y
  BY <1>2, <1>3
<1> QED
  BY <1>3, <1>4

Ranked(p) ==
  /\ Len(p) \in 0..2
  /\ \A i \in 1..Len(p) : Rank(p[i]) \in 0..(LastNumber + 1)
  /\ Len(p) = 2 => Rank(p[1]) < Rank(p[2])

LEMMA RankedOne ==
  ASSUME NEW x, Rank(x) \in 0..(LastNumber + 1)
  PROVE  Ranked(<<x>>)
<1>1. Len(<<x>>) = 1 /\ <<x>>[1] = x
  OBVIOUS
<1> DEFINE p == <<x>>
<1>2. Len(p) = 1 /\ p[1] = x
  BY <1>1
<1> HIDE DEF p
<1>3. Ranked(p)
  BY <1>2 DEF Ranked
<1> QED
  BY <1>3 DEF p

LEMMA RankedTwo ==
  ASSUME NEW x, NEW y, Rank(x) \in 0..(LastNumber + 1),
         Rank(y) \in 0..(LastNumber + 1), Rank(x) < Rank(y)
  PROVE  Ranked(<<x, y>>)
<1> DEFINE p == <<x, y>>
<1>1. Len(p) = 2 /\ p[1] = x /\ p[2] = y
  OBVIOUS
<1> HIDE DEF p
<1>2. Ranked(p)
  BY <1>1 DEF Ranked
<1> QED
  BY <1>2 DEF p

\* Every plan locks rows of rising rank.
LEMMA PlanRises ==
  ASSUME NEW r \in Requests \cup {NoRequest}
  PROVE  Ranked(LockPlan(r))
<1>1. Customers \subseteq 1..LastNumber /\ LastNumber \in Nat
  BY RepositoryAssumption
<1>2. \A c \in Customers : Rank(Account(c)) = c /\ c \in 1..LastNumber
                            /\ Rank(Account(c)) \in 0..(LastNumber + 1)
  BY <1>1 DEF Rank, Account
<1>3. \A c \in Customers : Rank(Row(BaseHolding(c))) = LastNumber + 1
                            /\ Rank(Row(BaseHolding(c))) \in 0..(LastNumber + 1)
  BY <1>1 DEF Rank, Row, BaseHolding
<1>4. \A o \in Operations : Rank(Row(OpenedHolding(o))) = 0
                             /\ Rank(Row(OpenedHolding(o))) \in 0..(LastNumber + 1)
  BY <1>1 DEF Rank, Row, OpenedHolding
<1>5. CASE r \in Purchases
  <2>1. LockPlan(r) = <<Account(r.from)>> /\ r.from \in Customers
    BY <1>5 DEF LockPlan, Purchases
  <2> QED
    <3>1. Ranked(<<Account(r.from)>>)
      BY <2>1, <1>2, RankedOne
    <3> QED
      BY <2>1, <3>1
<1>6. CASE r \in Transfers
  <2>1. LockPlan(r) = ByNumber(r.from, r.to) /\ r.from # r.to
        /\ r.from \in Customers /\ r.to \in Customers
    BY <1>6 DEF LockPlan, Transfers
  <2>2. CASE r.from <= r.to
    <3>1. LockPlan(r) = <<Account(r.from), Account(r.to)>> /\ r.from < r.to
      BY <2>1, <2>2, <1>2 DEF ByNumber
    <3>2. Ranked(<<Account(r.from), Account(r.to)>>)
      BY <2>1, <3>1, <1>2, RankedTwo
    <3> QED
      BY <3>1, <3>2
  <2>3. CASE ~(r.from <= r.to)
    <3>1. LockPlan(r) = <<Account(r.to), Account(r.from)>> /\ r.to < r.from
      BY <2>1, <2>3, <1>2 DEF ByNumber
    <3>2. Ranked(<<Account(r.to), Account(r.from)>>)
      BY <2>1, <3>1, <1>2, RankedTwo
    <3> QED
      BY <3>1, <3>2
  <2> QED
    BY <2>2, <2>3
<1>7. CASE r \in Redemptions
  <2>1. r.kind = "redeem" /\ r.holding \in Holdings /\ r.to \in Customers
    BY <1>7 DEF Redemptions
  <2>2. CASE \E c \in Customers : r.holding = BaseHolding(c)
    <3>1. PICK c \in Customers : r.holding = BaseHolding(c)
      BY <2>2
    <3>2. LockPlan(r) = <<Account(r.to), Row(r.holding)>>
      BY <2>1, <3>1 DEF LockPlan, BaseHolding
    <3>3. Rank(Account(r.to)) < Rank(Row(r.holding))
      <4>1. Rank(Row(r.holding)) = LastNumber + 1
        BY <3>1, <1>3
      <4>2. Rank(Account(r.to)) = r.to /\ r.to \in 1..LastNumber
        BY <2>1, <1>2
      <4> QED
        BY <4>1, <4>2, <1>1
    <3>4. Ranked(<<Account(r.to), Row(r.holding)>>)
      BY <2>1, <3>1, <3>3, <1>2, <1>3, RankedTwo
    <3> QED
      BY <3>2, <3>4
  <2>3. CASE \E o \in Operations : r.holding = OpenedHolding(o)
    <3>1. PICK o \in Operations : r.holding = OpenedHolding(o)
      BY <2>3
    <3>2. LockPlan(r) = <<Row(r.holding), Account(r.to)>>
      BY <2>1, <3>1 DEF LockPlan, OpenedHolding
    <3>3. Rank(Row(r.holding)) < Rank(Account(r.to))
      <4>1. Rank(Row(r.holding)) = 0
        BY <3>1, <1>4
      <4>2. Rank(Account(r.to)) = r.to /\ r.to \in 1..LastNumber
        BY <2>1, <1>2
      <4> QED
        BY <4>1, <4>2, <1>1
    <3>4. Ranked(<<Row(r.holding), Account(r.to)>>)
      BY <2>1, <3>1, <3>3, <1>2, <1>4, RankedTwo
    <3> QED
      BY <3>2, <3>4
  <2> QED
    BY <2>1, <2>2, <2>3 DEF Holdings
<1>8. CASE r = NoRequest
  <2>1. LockPlan(r) = <<>>
    BY <1>8 DEF LockPlan, NoRequest
  <2> QED
    BY <2>1 DEF Ranked
<1>9. CASE r \in Records
  <2>1. LockPlan(r) = <<>>
    BY <1>9 DEF LockPlan, Records
  <2> QED
    BY <2>1 DEF Ranked
<1> QED
  BY <1>5, <1>6, <1>7, <1>8, <1>9 DEF Requests

LEMMA InitLocks == Init => LockInv
  BY DEF Init, LockInv, Working

LEMMA NextLocks == LockInv /\ [Next]_vars => LockInv'
<1> SUFFICES ASSUME LockInv, [Next]_vars PROVE LockInv'
  OBVIOUS
<1>1. ASSUME NEW o \in Operations, Submit(o) PROVE LockInv'
  BY <1>1 DEF LockInv, Submit, session
<1>2. ASSUME NEW s \in Sessions, Step(s) PROVE LockInv'
  <2>1. ASSUME NEW o \in Operations, Execute(s, o) PROVE LockInv'
    BY <2>1 DEF LockInv, Execute, Working
  <2>2. CASE Insert(s)
    BY <2>2 DEF LockInv, Insert, Goto, Working
  <2>3. CASE Read(s)
    BY <2>3 DEF LockInv, Read, Goto, Working
  <2>4. CASE Lock(s)
    BY <2>4 DEF LockInv, Lock
  <2>5. CASE RecordFailure(s)
    BY <2>5 DEF LockInv, RecordFailure, Goto
  <2>6. CASE Invalid(s) \/ Commit(s) \/ Insufficient(s) \/ Deadlock(s) \/ Break(s)
    <3>1. /\ \/ pc' = [pc EXCEPT ![s] = "idle"]
             \/ pc' = [pc EXCEPT ![s] = "recordFailure"]
          /\ held' = [held EXCEPT ![s] = 0]
          /\ UNCHANGED <<current, request>>
      BY <2>6 DEF Invalid, Commit, Insufficient, Deadlock, Break, End, Goto
    <3> QED
      BY <3>1 DEF LockInv
  <2> QED
    BY <1>2, <2>1, <2>2, <2>3, <2>4, <2>5, <2>6 DEF Step
<1>3. CASE UNCHANGED vars
  BY <1>3 DEF LockInv, vars, session
<1> QED
  BY <1>1, <1>2, <1>3 DEF Next

\* The rank of the row a session asks for next.
RankAwaited(s) == Rank(Plan(s)[held[s] + 1])

\* A session waits for a key while it holds nothing, for a row only while
\* another one holds it.
LEMMA RowWaits ==
  ASSUME LockInv, NEW s \in Sessions, NEW r \in Sessions, WaitsForRow(s, r)
  PROVE  /\ pc[r] = "lock"
         /\ RankAwaited(s) \in 0..(LastNumber + 1)
         /\ held[r] < Len(Plan(r)) => RankAwaited(s) < RankAwaited(r)
<1>1. /\ pc[s] = "lock" /\ held[s] < Len(Plan(s))
      /\ \E i \in 1..held[r] : Plan(r)[i] = Plan(s)[held[s] + 1]
      /\ held[s] \in Nat /\ held[r] \in Nat
  BY DEF WaitsForRow, Holds, LockInv
<1>2. PICK i \in 1..held[r] : Plan(r)[i] = Plan(s)[held[s] + 1]
  BY <1>1
<1>3. \A q \in Sessions : request[current[q]] \in Requests \cup {NoRequest}
  BY DEF LockInv
<1>4. /\ Len(Plan(s)) \in 0..2 /\ Len(Plan(r)) \in 0..2
      /\ \A j \in 1..Len(Plan(s)) : Rank(Plan(s)[j]) \in 0..(LastNumber + 1)
      /\ Len(Plan(r)) = 2 => Rank(Plan(r)[1]) < Rank(Plan(r)[2])
  BY <1>3, PlanRises DEF Plan, Ranked
<1>5. pc[r] = "lock"
  BY <1>1, <1>2 DEF LockInv
<1>6. RankAwaited(s) \in 0..(LastNumber + 1)
  <2>1. \A h \in Nat, m \in 0..2 : h < m => h + 1 \in 1..m
    OBVIOUS
  <2>2. held[s] + 1 \in 1..Len(Plan(s))
    BY <1>1, <1>4, <2>1
  <2> QED
    BY <1>4, <2>2 DEF RankAwaited
<1>7. ASSUME held[r] < Len(Plan(r)) PROVE RankAwaited(s) < RankAwaited(r)
  <2>1. \A h \in Nat, n \in 0..2 : \A j \in 1..h :
          h < n => j = 1 /\ h = 1 /\ n = 2
    OBVIOUS
  <2>2. i = 1 /\ held[r] = 1 /\ Len(Plan(r)) = 2
    BY <1>1, <1>2, <1>4, <1>7, <2>1
  <2> QED
    BY <1>2, <1>4, <2>2 DEF RankAwaited
<1> QED
  BY <1>5, <1>6, <1>7

LEMMA NoCircle == LockInv => CircleHasInsertion
<1> SUFFICES ASSUME LockInv, NEW S \in SUBSET Sessions, Circle(S),
                    \A s, r \in S : ~WaitsForKey(s, r) /\ ~WaitsForGap(s, r)
             PROVE  FALSE
  BY DEF CircleHasInsertion
<1>1. S # {} /\ \A s \in S : pc[s] = "lock" /\ \E r \in S : WaitsForRow(s, r)
  BY DEF Circle, Waits, WaitsForRow
<1> DEFINE Ranks == {RankAwaited(s) : s \in S}
<1>2. \A s \in S : held[s] < Len(Plan(s))
  BY <1>1 DEF WaitsForRow
<1>3. Ranks \subseteq 0..(LastNumber + 1) /\ Ranks # {}
  BY <1>1, RowWaits
<1>4. PICK k \in Ranks : \A l \in Ranks : l <= k
  <2>1. LastNumber + 1 \in Nat
    BY RepositoryAssumption
  <2> HIDE DEF Ranks
  <2> QED
    BY <1>3, <2>1, LargestUpTo
<1>5. PICK s \in S : k = RankAwaited(s)
  BY <1>4
<1>6. PICK r \in S : WaitsForRow(s, r)
  BY <1>1
<1>7. RankAwaited(s) < RankAwaited(r)
  BY <1>2, <1>6, RowWaits
<1>8. RankAwaited(r) <= RankAwaited(s) /\ RankAwaited(r) \in Int /\ RankAwaited(s) \in Int
  BY <1>3, <1>4, <1>5
<1> QED
  BY <1>7, <1>8

\* Rows alone never make sessions wait in a circle: an insertion is part of
\* each, however many sessions, accounts, holdings and operations there are.
THEOREM NoCircleOfRows == Spec => []CircleHasInsertion
  BY InitLocks, NextLocks, NoCircle, PTL DEF Spec

-----------------------------------------------------------------------------
(* Sums.  The numbers are added up by a recursive function, so that a fact *)
(* about a sum is proved by induction on the number of its terms.          *)

\* A set that holds 0, and with each number below n the next one, holds 0..n.
LEMMA Induction ==
  ASSUME NEW n \in Nat, NEW S, 0 \in S,
         \A i \in 1..n : i - 1 \in S => i \in S
  PROVE  \A i \in 0..n : i \in S
<1> SUFFICES ASSUME 0..n \ S # {} PROVE FALSE
  OBVIOUS
<1> DEFINE T == 0..n \ S
<1>1. T \subseteq Nat /\ T # {}
  OBVIOUS
<1> HIDE DEF T
<1>2. PICK m \in T : \A k \in T : m <= k
  BY <1>1, LeastNat
<1>3. m \in 1..n /\ m \notin S
  BY <1>2 DEF T
<1>4. m - 1 \in 0..n /\ m - 1 \notin T
  BY <1>2, <1>3 DEF T
<1> QED
  BY <1>3, <1>4 DEF T

\* What the recursive function in Total is to be, and what it says of f.
Sums(f, base, d, n) ==
  f = [i \in 0..n |-> IF i = 0 THEN base ELSE f[i - 1] + d[i]]
Adds(f, base, d, n) ==
  f[0] = base /\ \A i \in 1..n : f[i] = f[i - 1] + d[i]
Numbers(d, n) == \A i \in 1..n : d[i] \in Int

LEMMA SumsExist ==
  ASSUME NEW base \in Int, NEW n \in Nat, NEW d, Numbers(d, n)
  PROVE  \E f \in [0..n -> Int] : Sums(f, base, d, n)
<1> DEFINE S == {m \in 0..n : \E f \in [0..m -> Int] : Sums(f, base, d, m)}
<1>1. 0 \in S
  <2> DEFINE f == [i \in 0..0 |-> base]
  <2>1. f \in [0..0 -> Int] /\ Sums(f, base, d, 0)
    BY DEF Sums
  <2> QED
    BY <2>1
<1>2. ASSUME NEW m \in 1..n, m - 1 \in S PROVE m \in S
  <2>1. PICK f \in [0..(m - 1) -> Int] : Sums(f, base, d, m - 1)
    BY <1>2
  <2> DEFINE g == [i \in 0..m |-> IF i = m THEN f[m - 1] + d[m] ELSE f[i]]
  <2>2. g \in [0..m -> Int]
    BY <1>2, <2>1 DEF Numbers
  <2>3. \A i \in 0..(m - 1) : f[i] = IF i = 0 THEN base ELSE f[i - 1] + d[i]
    BY <2>1 DEF Sums
  <2>4. ASSUME NEW i \in 0..m
        PROVE  g[i] = IF i = 0 THEN base ELSE g[i - 1] + d[i]
    <3>1. CASE i = m
      BY <3>1
    <3>2. CASE i # m
      <4>1. i \in 0..(m - 1) /\ (i # 0 => i - 1 \in 0..(m - 1))
        BY <3>2
      <4> QED
        BY <4>1, <3>2, <2>3
    <3> QED
      BY <3>1, <3>2
  <2>5. Sums(g, base, d, m)
    <3> HIDE DEF g
    <3> QED
      BY <2>2, <2>4 DEF Sums
  <2> QED
    BY <2>2, <2>5
<1>3. \A m \in 0..n : m \in S
  <2> HIDE DEF S
  <2> QED
    BY <1>1, <1>2, Induction
<1> QED
  BY <1>3

LEMMA SumsAdd ==
  ASSUME NEW base, NEW n \in Nat, NEW d, NEW f, Sums(f, base, d, n)
  PROVE  Adds(f, base, d, n)
BY DEF Sums, Adds

LEMMA SumsAgree ==
  ASSUME NEW base, NEW n \in Nat, NEW d,
         NEW f, Adds(f, base, d, n), NEW g, Adds(g, base, d, n)
  PROVE  f[n] = g[n]
<1> DEFINE S == {i \in 0..n : f[i] = g[i]}
<1>1. 0 \in S
  BY DEF Adds
<1>2. \A i \in 1..n : i - 1 \in S => i \in S
  BY DEF Adds
<1>3. \A m \in 0..n : m \in S
  <2> HIDE DEF S
  <2> QED
    BY <1>1, <1>2, Induction
<1> QED
  BY <1>3

\* Total is the last of any numbers that begin with base and of which each
\* exceeds the one before by the next number of d.
LEMMA TotalIs ==
  ASSUME NEW base \in Int, NEW n \in Nat, NEW d, Numbers(d, n),
         NEW g, Adds(g, base, d, n)
  PROVE  Total(base, d, n) = g[n]
<1> DEFINE c == CHOOSE f : Sums(f, base, d, n)
<1>1. \E f : Sums(f, base, d, n)
  BY SumsExist
<1>2. Sums(c, base, d, n)
  BY <1>1
<1>3. Total(base, d, n) = c[n]
  BY DEF Total, Sums
<1> HIDE DEF c
<1>4. Adds(c, base, d, n)
  BY <1>2, SumsAdd
<1>5. c[n] = g[n]
  BY <1>4, SumsAgree
<1> QED
  BY <1>3, <1>5

LEMMA TotalExists ==
  ASSUME NEW base \in Int, NEW n \in Nat, NEW d, Numbers(d, n)
  PROVE  \E f \in [0..n -> Int] :
           Adds(f, base, d, n) /\ Total(base, d, n) = f[n]
<1>1. PICK f \in [0..n -> Int] : Sums(f, base, d, n)
  BY SumsExist
<1>2. Adds(f, base, d, n)
  BY <1>1, SumsAdd
<1>3. Total(base, d, n) = f[n]
  BY <1>2, TotalIs
<1> QED
  BY <1>2, <1>3

LEMMA TotalType ==
  ASSUME NEW base \in Int, NEW n \in Nat, NEW d, Numbers(d, n)
  PROVE  Total(base, d, n) \in Int
BY TotalExists

LEMMA TotalOfNone ==
  ASSUME NEW base \in Int, NEW d PROVE Total(base, d, 0) = base
<1>1. Numbers(d, 0)
  BY DEF Numbers
<1>2. PICK f : Adds(f, base, d, 0) /\ Total(base, d, 0) = f[0]
  BY <1>1, TotalExists
<1> QED
  BY <1>2 DEF Adds

\* One number more.
LEMMA TotalStep ==
  ASSUME NEW base \in Int, NEW n \in Nat, NEW d, Numbers(d, n),
         NEW e, \A i \in 1..n : e[i] = d[i], e[n + 1] \in Int
  PROVE  Total(base, e, n + 1) = Total(base, d, n) + e[n + 1]
<1>1. Numbers(e, n + 1)
  <2>1. \A i \in 1..(n + 1) : i \in 1..n \/ i = n + 1
    OBVIOUS
  <2> QED
    BY <2>1 DEF Numbers
<1> DEFINE m == n + 1
<1>2. PICK f \in [0..m -> Int] : Adds(f, base, e, m) /\ Total(base, e, m) = f[m]
  <2>1. m \in Nat /\ Numbers(e, m)
    BY <1>1
  <2> HIDE DEF m
  <2> QED
    BY <2>1, TotalExists
<1>3. Adds(f, base, d, n) /\ f[n + 1] = f[n] + e[n + 1]
  <2>1. n + 1 \in 1..(n + 1) /\ \A i \in 1..n : i \in 1..(n + 1)
    OBVIOUS
  <2> QED
    BY <1>2, <2>1 DEF Adds
<1>4. Total(base, d, n) = f[n]
  BY <1>3, TotalIs
<1> QED
  BY <1>2, <1>3, <1>4
-----------------------------------------------------------------------------
(* Money.                                                                  *)

\* Rows are locked by one session at a time, and what a session has read of an
\* account it holds is what is committed.
ReadsHold ==
  /\ \A s \in Sessions : held[s] <= Len(Plan(s))
  /\ \A s, r \in Sessions : s # r =>
       \A i \in 1..held[s], j \in 1..held[r] : Plan(s)[i] # Plan(r)[j]
  /\ \A s \in Sessions, c \in Customers :
       Holds(s, Account(c)) => seen[s][c] = balance[c]

\* What the argument needs of the types; a session that is not idle works on an
\* operation whose request stays as it is.
MoneyShape ==
  /\ entries \in Seq({entries[i] : i \in 1..Len(entries)})
  /\ \A i \in 1..Len(entries) : entries[i].amount \in Int
  /\ balance \in [Customers -> Nat]
  /\ seen \in [Sessions -> [Customers -> Int]]
  /\ snapshot \in [Sessions -> Nat]
  /\ \A s \in Sessions : snapshot[s] <= Len(entries)
  /\ \A s \in Sessions : pc[s] # "idle" => request[current[s]] # NoRequest

MoneyInv == LockInv /\ MoneyShape /\ ReadsHold /\ BooksBalance

LEMMA InitMoney == Init => MoneyInv
<1> SUFFICES ASSUME Init PROVE MoneyInv
  OBVIOUS
<1>1. entries = <<>> /\ Len(entries) = 0
  BY DEF Init
<1>2. LockInv
  BY InitLocks
<1>3. InitialBalance \in [Customers -> Nat] /\ balance = InitialBalance
  BY RepositoryAssumption DEF Init
<1>4. MoneyShape
  BY <1>1, <1>3, EmptySeq DEF Init, MoneyShape, NothingSeen
<1>5. ReadsHold
  <2>1. \A s \in Sessions : held[s] = 0 /\ Len(Plan(s)) \in Nat
    <3> SUFFICES ASSUME NEW s \in Sessions PROVE Len(Plan(s)) \in Nat
      BY DEF Init
    <3>1. request[current[s]] = NoRequest
      BY DEF Init
    <3>2. LockPlan(NoRequest) = <<>>
      BY DEF LockPlan, NoRequest
    <3> QED
      BY <3>1, <3>2 DEF Plan
  <2>2. \A s \in Sessions : 1..held[s] = {}
    BY <2>1
  <2> QED
    BY <2>1, <2>2 DEF ReadsHold, Holds
<1>6. BooksBalance
  <2> SUFFICES ASSUME NEW c \in Customers
               PROVE  balance[c] = BalanceAfter(c, 0)
    BY <1>1 DEF BooksBalance
  <2>1. InitialBalance[c] \in Int
    BY <1>3
  <2> QED
    BY <1>3, <2>1, TotalOfNone DEF BalanceAfter
<1> QED
  BY <1>2, <1>4, <1>5, <1>6 DEF MoneyInv

\* The accounts a request moves money of are in its plan.
LEMMA PlanHasAccounts ==
  ASSUME NEW r \in Requests
  PROVE  /\ Len(LockPlan(r)) \in Nat
         /\ r.from # r.to \/ r.kind = "record"
         /\ \A c \in Customers : c \in {r.from, r.to} =>
              \E i \in 1..Len(LockPlan(r)) : LockPlan(r)[i] = Account(c)
<1>1. 0 \notin Customers
  BY RepositoryAssumption
<1>2. CASE r \in Purchases
  <2>1. LockPlan(r) = <<Account(r.from)>> /\ r.from \in Customers /\ r.to = 0
    BY <1>2 DEF LockPlan, Purchases
  <2>2. Len(LockPlan(r)) = 1 /\ LockPlan(r)[1] = Account(r.from)
    BY <2>1
  <2> QED
    BY <1>1, <2>1, <2>2
<1>3. CASE r \in Transfers
  <2>1. LockPlan(r) = ByNumber(r.from, r.to) /\ r.from # r.to
    BY <1>3 DEF LockPlan, Transfers
  <2>2. /\ Len(LockPlan(r)) = 2
        /\ \/ LockPlan(r)[1] = Account(r.from) /\ LockPlan(r)[2] = Account(r.to)
           \/ LockPlan(r)[1] = Account(r.to) /\ LockPlan(r)[2] = Account(r.from)
    BY <2>1 DEF ByNumber
  <2>3. 1 \in 1..Len(LockPlan(r)) /\ 2 \in 1..Len(LockPlan(r))
    BY <2>2
  <2> QED
    BY <2>1, <2>2, <2>3
<1>4. CASE r \in Redemptions
  <2>1. r.kind = "redeem" /\ r.holding \in Holdings /\ r.to \in Customers
        /\ r.from = 0
    BY <1>4 DEF Redemptions
  <2>2. \/ LockPlan(r) = <<Account(r.to), Row(r.holding)>>
        \/ LockPlan(r) = <<Row(r.holding), Account(r.to)>>
    BY <2>1 DEF LockPlan, Holdings, BaseHolding, OpenedHolding
  <2>3. /\ Len(LockPlan(r)) = 2
        /\ LockPlan(r)[1] = Account(r.to) \/ LockPlan(r)[2] = Account(r.to)
    BY <2>2
  <2>4. 1 \in 1..Len(LockPlan(r)) /\ 2 \in 1..Len(LockPlan(r))
    BY <2>3
  <2> QED
    BY <1>1, <2>1, <2>3, <2>4
<1>5. CASE r \in Records
  <2>1. LockPlan(r) = <<>> /\ r.from = 0 /\ r.to = 0 /\ r.kind = "record"
    BY <1>5 DEF LockPlan, Records
  <2> QED
    BY <1>1, <2>1
<1> QED
  BY <1>2, <1>3, <1>4, <1>5 DEF Requests

\* The shares that a session sums up are a number.
LEMMA SharesType ==
  ASSUME MoneyInv, NEW s \in Sessions, NEW h \in Holdings
  PROVE  SharesSeen(s, h) \in Int
<1> DEFINE base == IF h[1] = "H" THEN BaseShares[h[2]] ELSE 0
           d == [i \in 1..snapshot[s] |-> Change(entries[i], h)]
<1>1. base \in Int
  <2>1. BaseShares \in [Customers -> Nat]
    BY RepositoryAssumption
  <2>2. h[1] = "H" => h[2] \in Customers
    BY DEF Holdings, BaseHolding, OpenedHolding
  <2> QED
    BY <2>1, <2>2
<1>2. snapshot[s] \in Nat /\ Numbers(d, snapshot[s])
  <2>1. snapshot[s] \in Nat /\ snapshot[s] <= Len(entries) /\ Len(entries) \in Nat
    BY LenProperties DEF MoneyInv, MoneyShape
  <2>2. \A i \in 1..Len(entries) : entries[i].amount \in Int
    BY DEF MoneyInv, MoneyShape
  <2>3. ASSUME NEW i \in 1..snapshot[s] PROVE d[i] \in Int
    <3>1. i \in 1..Len(entries)
      BY <2>1
    <3>2. entries[i].amount \in Int
      BY <2>2, <3>1
    <3> QED
      BY <3>2 DEF Change
  <2> QED
    BY <2>1, <2>3 DEF Numbers
<1> HIDE DEF base, d
<1>3. Total(base, d, snapshot[s]) \in Int
  BY <1>1, <1>2, TotalType
<1> QED
  BY <1>3 DEF SharesSeen, SharesAfter, base, d

\* What a commit moves is no less than nothing.
LEMMA AmountMoved ==
  ASSUME MoneyInv, NEW s \in Sessions, NEW r \in Requests, Covered(s, r)
  PROVE  /\ AmountOf(s, r) \in Nat
         /\ r.kind = "record" \/ AmountOf(s, r) > 0
         /\ r.from \in Customers => seen[s][r.from] >= AmountOf(s, r)
<1>0. 0 \notin Customers /\ Amounts \cup {0} \subseteq Nat /\ 0 \notin Amounts
  BY RepositoryAssumption
<1>1. CASE r \in Redemptions
  <2>1. r.kind = "redeem" /\ r.holding \in Holdings /\ r.from = 0
        /\ r.amount \in Amounts \cup {0}
    BY <1>1 DEF Redemptions, All
  <2>2. SharesSeen(s, r.holding) \in Int /\ SharesSeen(s, r.holding) > 0
    BY <2>1, SharesType DEF Covered
  <2>3. AmountOf(s, r) = SharesSeen(s, r.holding) \/ AmountOf(s, r) \in Amounts
    BY <2>1 DEF AmountOf, All
  <2>4. \A n \in Amounts : n \in Nat /\ n > 0
    BY <1>0
  <2>5. AmountOf(s, r) \in Nat /\ AmountOf(s, r) > 0
    BY <2>2, <2>3, <2>4
  <2>6. r.from \notin Customers
    BY <1>0, <2>1
  <2> QED
    BY <2>5, <2>6
<1>2. CASE r \in Purchases \cup Transfers
  <2>1. r.kind \notin {"redeem", "record"} /\ r.amount \in Nat /\ r.amount > 0
    BY <1>0, <1>2 DEF Purchases, Transfers
  <2> QED
    BY <2>1 DEF AmountOf, Covered
<1>3. CASE r \in Records
  <2>1. r.kind = "record" /\ r.amount = 0 /\ r.from = 0
    BY <1>3 DEF Records
  <2> QED
    BY <1>0, <2>1 DEF AmountOf
<1> QED
  BY <1>1, <1>2, <1>3 DEF Requests

LEMMA PlanLength ==
  ASSUME LockInv, NEW s \in Sessions PROVE Len(Plan(s)) \in Nat
BY PlanRises DEF LockInv, Plan, Ranked

LEMMA SubmitMoney ==
  ASSUME MoneyInv, LockInv', NEW o \in Operations, Submit(o)
  PROVE  MoneyInv'
<1>1. /\ request[o] = NoRequest
      /\ \A q \in Operations \ {o} : request'[q] = request[q]
      /\ UNCHANGED <<balance, entries, pc, current, snapshot, held, seen>>
  BY DEF Submit, session, MoneyInv, LockInv
<1>2. \A s \in Sessions :
        /\ Len(Plan(s)') \in Nat
        /\ held[s] > 0 => Plan(s)' = Plan(s)
        /\ held[s] \in Nat /\ current[s] \in Operations
  <2> TAKE s \in Sessions
  <2>1. held[s] \in Nat /\ current[s] \in Operations
    BY DEF MoneyInv, LockInv
  <2>2. Len(Plan(s)') \in Nat
    <3>1. request'[current'[s]] \in Requests \cup {NoRequest}
      BY DEF MoneyInv, LockInv
    <3> QED
      BY <3>1, PlanRises DEF Plan, Ranked
  <2>3. held[s] > 0 => current[s] # o
    BY <1>1 DEF MoneyInv, LockInv, MoneyShape
  <2>4. held[s] > 0 => Plan(s)' = Plan(s)
    BY <1>1, <2>1, <2>3 DEF Plan
  <2> QED
    BY <2>1, <2>2, <2>4
<1>3. MoneyShape'
  <2>1. \A s \in Sessions : pc[s] # "idle" => current[s] # o
    BY <1>1 DEF MoneyInv, MoneyShape
  <2>2. \A s \in Sessions : pc'[s] # "idle" => request'[current'[s]] # NoRequest
    BY <1>1, <1>2, <2>1 DEF MoneyInv, MoneyShape
  <2> QED
    BY <1>1, <2>2 DEF MoneyInv, MoneyShape
<1>4. ReadsHold'
  <2>1. \A s \in Sessions : held'[s] <= Len(Plan(s)')
    BY <1>1, <1>2 DEF MoneyInv, ReadsHold
  <2>2. ASSUME NEW s \in Sessions, NEW i \in 1..held[s] PROVE Plan(s)'[i] = Plan(s)[i]
    BY <1>2
  <2>3. \A s, r \in Sessions : s # r =>
          \A i \in 1..held[s], j \in 1..held[r] : Plan(s)'[i] # Plan(r)'[j]
    BY <2>2 DEF MoneyInv, ReadsHold
  <2>4. \A s \in Sessions, c \in Customers :
          Holds(s, Account(c))' => Holds(s, Account(c))
    BY <1>1, <2>2 DEF Holds
  <2> QED
    BY <1>1, <2>1, <2>3, <2>4 DEF MoneyInv, ReadsHold
<1>5. BooksBalance'
  BY <1>1 DEF MoneyInv, BooksBalance, BalanceAfter
<1> QED
  BY <1>3, <1>4, <1>5 DEF MoneyInv

\* A step of a session that moves nothing and holds no lock after it.
LEMMA NothingMoved ==
  ASSUME MoneyInv, LockInv', NEW s \in Sessions,
         UNCHANGED <<balance, entries, request>>,
         \A q \in Sessions \ {s} :
           /\ pc'[q] = pc[q] /\ current'[q] = current[q]
           /\ held'[q] = held[q] /\ seen'[q] = seen[q],
         seen' \in [Sessions -> [Customers -> Int]],
         snapshot' \in [Sessions -> Nat],
         \A q \in Sessions : snapshot'[q] <= Len(entries),
         held'[s] = 0, pc'[s] # "idle" => request[current'[s]] # NoRequest
  PROVE  MoneyInv'
<1>1. MoneyShape'
  <2>1. \A q \in Sessions : pc'[q] # "idle" => request'[current'[q]] # NoRequest
    BY DEF MoneyInv, MoneyShape
  <2> QED
    BY <2>1 DEF MoneyInv, MoneyShape
<1>2. Len(Plan(s)') \in Nat
  <2>1. request'[current'[s]] \in Requests \cup {NoRequest}
    BY DEF LockInv
  <2> QED
    BY <2>1, PlanRises DEF Plan, Ranked
<1>3. \A q \in Sessions \ {s} : Plan(q)' = Plan(q)
  BY DEF Plan
<1>4. 1..held'[s] = {}
  OBVIOUS
<1>5. ReadsHold'
  <2>1. ASSUME NEW q \in Sessions PROVE held'[q] <= Len(Plan(q)')
    <3>1. CASE q = s
      <4>1. Len(Plan(q)') \in Nat /\ held'[q] = 0
        BY <1>2, <3>1
      <4> QED
        BY <4>1
    <3>2. CASE q # s
      <4>1. held'[q] = held[q] /\ Plan(q)' = Plan(q)
        BY <1>3, <3>2
      <4>2. held[q] <= Len(Plan(q))
        BY DEF MoneyInv, ReadsHold
      <4> QED
        BY <4>1, <4>2
    <3> QED
      BY <3>1, <3>2
  <2>2. ASSUME NEW p \in Sessions, NEW q \in Sessions, p # q,
               NEW i \in 1..held'[p], NEW j \in 1..held'[q]
        PROVE  Plan(p)'[i] # Plan(q)'[j]
    <3>1. p # s /\ q # s
      BY <1>4
    <3>2. i \in 1..held[p] /\ j \in 1..held[q]
      BY <3>1
    <3>3. Plan(p)[i] # Plan(q)[j]
      BY <2>2, <3>2 DEF MoneyInv, ReadsHold
    <3> QED
      BY <1>3, <3>1, <3>3
  <2>3. ASSUME NEW q \in Sessions, NEW c \in Customers, Holds(q, Account(c))'
        PROVE  seen'[q][c] = balance'[c]
    <3>1. PICK i \in 1..held'[q] : Plan(q)'[i] = Account(c)
      BY <2>3 DEF Holds
    <3>2. q # s
      BY <1>4, <3>1
    <3>3. Holds(q, Account(c))
      BY <1>3, <3>1, <3>2 DEF Holds
    <3>4. seen[q][c] = balance[c]
      BY <3>3 DEF MoneyInv, ReadsHold
    <3>5. seen'[q] = seen[q] /\ balance' = balance
      BY <3>2
    <3> QED
      BY <3>4, <3>5
  <2> QED
    BY <2>1, <2>2, <2>3 DEF ReadsHold
<1>6. BooksBalance'
  BY DEF MoneyInv, BooksBalance, BalanceAfter
<1> QED
  BY <1>1, <1>5, <1>6 DEF MoneyInv

LEMMA LockMoney ==
  ASSUME MoneyInv, LockInv', NEW s \in Sessions, Lock(s)
  PROVE  MoneyInv'
<1> DEFINE k == held[s] + 1
           x == Plan(s)[k]
<1>1. /\ pc[s] = "lock" /\ held[s] < Len(Plan(s)) /\ RowFree(s, x)
      /\ seen' = [seen EXCEPT ![s] = [c \in Customers |->
                    IF x = Account(c) THEN balance[c] ELSE @[c]]]
      /\ held' = [held EXCEPT ![s] = @ + 1]
      /\ UNCHANGED <<balance, entries, request, pc, current, snapshot>>
  BY DEF Lock, BalanceRead
<1>2. /\ seen \in [Sessions -> [Customers -> Int]] /\ held \in [Sessions -> Nat]
      /\ balance \in [Customers -> Nat]
  BY DEF MoneyInv, LockInv, MoneyShape
<1>3. /\ held'[s] = k
      /\ \A q \in Sessions \ {s} : held'[q] = held[q] /\ seen'[q] = seen[q]
      /\ \A c \in Customers :
           seen'[s][c] = IF x = Account(c) THEN balance[c] ELSE seen[s][c]
  BY <1>1, <1>2
<1>4. \A q \in Sessions : Plan(q)' = Plan(q)
  BY <1>1 DEF Plan
<1>5. MoneyShape'
  BY <1>1, <1>2 DEF MoneyInv, MoneyShape
<1>6. ReadsHold'
  <2>1. \A q \in Sessions : held'[q] <= Len(Plan(q)')
    <3>1. held[s] \in Nat /\ Len(Plan(s)) \in Nat
      BY <1>2, PlanLength DEF MoneyInv
    <3> QED
      BY <1>1, <1>3, <1>4, <3>1 DEF MoneyInv, ReadsHold
  <2>2. \A i \in 1..k : i \in 1..held[s] \/ i = k
    BY <1>2
  <2>3. ASSUME NEW q \in Sessions \ {s}, NEW i \in 1..k, NEW j \in 1..held[q]
        PROVE  Plan(s)[i] # Plan(q)[j]
    <3>1. x # Plan(q)[j]
      BY <1>1 DEF RowFree, Holds
    <3> QED
      BY <2>2, <3>1 DEF MoneyInv, ReadsHold
  <2>4. \A p, q \in Sessions : p # q =>
          \A i \in 1..held'[p], j \in 1..held'[q] : Plan(p)'[i] # Plan(q)'[j]
    <3> SUFFICES ASSUME NEW p \in Sessions, NEW q \in Sessions, p # q,
                        NEW i \in 1..held'[p], NEW j \in 1..held'[q]
                 PROVE  Plan(p)[i] # Plan(q)[j]
      BY <1>4
    <3>1. CASE p = s
      BY <1>3, <2>3, <3>1
    <3>2. CASE q = s
      BY <1>3, <2>3, <3>2
    <3>3. CASE p # s /\ q # s
      BY <1>3, <3>3 DEF MoneyInv, ReadsHold
    <3> QED
      BY <3>1, <3>2, <3>3
  <2>5. ASSUME NEW q \in Sessions, NEW c \in Customers, Holds(q, Account(c))'
        PROVE  seen'[q][c] = balance'[c]
    <3>1. PICK i \in 1..held'[q] : Plan(q)[i] = Account(c)
      BY <1>4, <2>5 DEF Holds
    <3>2. CASE q = s
      BY <1>1, <1>3, <2>2, <3>1, <3>2 DEF MoneyInv, ReadsHold, Holds
    <3>3. CASE q # s
      BY <1>1, <1>3, <3>1, <3>3 DEF MoneyInv, ReadsHold, Holds
    <3> QED
      BY <3>2, <3>3
  <2> QED
    BY <2>1, <2>4, <2>5 DEF ReadsHold
<1>7. BooksBalance'
  BY <1>1 DEF MoneyInv, BooksBalance, BalanceAfter
<1> QED
  BY <1>5, <1>6, <1>7 DEF MoneyInv

\* An entry more moves a balance by its movement.
LEMMA BalanceStep ==
  ASSUME MoneyInv, NEW e, e.amount \in Int, entries' = Append(entries, e),
         NEW c \in Customers
  PROVE  BalanceAfter(c, Len(entries))'
           = BalanceAfter(c, Len(entries)) + Movement(e, c)
<1> DEFINE n == Len(entries)
           d == [i \in 1..n |-> Movement(entries[i], c)]
           f == [i \in 1..(n + 1) |-> Movement(entries'[i], c)]
<1>1. /\ n \in Nat /\ Len(entries') = n + 1
      /\ \A i \in 1..n : entries'[i] = entries[i]
      /\ entries'[n + 1] = e
  BY AppendShape DEF MoneyInv, MoneyShape
<1>2. InitialBalance[c] \in Int
  BY RepositoryAssumption
<1>3. Numbers(d, n)
  <2>1. ASSUME NEW i \in 1..n PROVE d[i] \in Int
    <3>1. entries[i].amount \in Int
      BY DEF MoneyInv, MoneyShape
    <3> QED
      BY <3>1 DEF Movement
  <2> QED
    BY <2>1 DEF Numbers
<1>4. (\A i \in 1..n : f[i] = d[i]) /\ f[n + 1] = Movement(e, c)
  <2>1. n + 1 \in 1..(n + 1) /\ \A i \in 1..n : i \in 1..(n + 1)
    BY <1>1
  <2> QED
    BY <1>1, <2>1
<1>5. Movement(e, c) \in Int
  BY DEF Movement
<1>6. BalanceAfter(c, n)' = Total(InitialBalance[c], f, n + 1)
  BY <1>1 DEF BalanceAfter
<1>7. BalanceAfter(c, n) = Total(InitialBalance[c], d, n)
  BY DEF BalanceAfter
<1> HIDE DEF d, f, n
<1>8. Total(InitialBalance[c], f, n + 1) = Total(InitialBalance[c], d, n) + f[n + 1]
  BY <1>1, <1>2, <1>3, <1>4, <1>5, TotalStep
<1> QED
  BY <1>4, <1>6, <1>7, <1>8 DEF n

\* A commit moves what its entry says, from and to balances that are there.
LEMMA CommitBalances ==
  ASSUME MoneyInv, NEW s \in Sessions, Commit(s),
         NEW r, r = request[current[s]], NEW a, a = AmountOf(s, r),
         NEW e, e = EntryOf(s, r)
  PROVE  /\ r \in Requests /\ a \in Nat
         /\ (r.kind = "record" \/ a > 0)
         /\ r.from = r.to => r.from \notin Customers
         /\ \A c \in Customers :
              /\ c \in {r.from, r.to} => Holds(s, Account(c))
              /\ c \notin {r.from, r.to} => balance'[c] = balance[c]
              /\ c = r.from => balance[c] >= a
              /\ c = r.to => balance'[c] = balance[c] + a
              /\ balance[c] \in Nat /\ balance'[c] \in Nat
              /\ balance'[c] = balance[c] + Movement(e, c)
<1>1. /\ Locked(s) /\ Covered(s, r)
      /\ balance' = [c \in Customers |->
           CASE c = r.from -> seen[s][c] - a
             [] c = r.to -> seen[s][c] + a
             [] OTHER -> balance[c]]
  BY DEF Commit, End
<1>2. r \in Requests /\ Plan(s) = LockPlan(r) /\ held[s] = Len(Plan(s))
  BY <1>1 DEF Locked, Plan, MoneyInv, LockInv, MoneyShape
<1>3. balance \in [Customers -> Nat]
  BY DEF MoneyInv, MoneyShape
<1>4. a \in Nat /\ (r.kind = "record" \/ a > 0)
      /\ (r.from \in Customers => seen[s][r.from] >= a)
  BY <1>1, <1>2, AmountMoved
<1>5. \A c \in Customers : c \in {r.from, r.to} => Holds(s, Account(c))
  BY <1>2, PlanHasAccounts DEF Holds
<1>6. \A c \in Customers : c \in {r.from, r.to} => seen[s][c] = balance[c]
  BY <1>5 DEF MoneyInv, ReadsHold
<1>7. e.amount = a /\ e.from = r.from /\ e.to = r.to
  BY DEF EntryOf
<1>8. r.from = r.to => r.from \notin Customers
  <2>1. r.from = r.to => r \in Records
    BY <1>2, PlanHasAccounts DEF Requests, Purchases, Redemptions, Transfers
  <2>2. 0 \notin Customers
    BY RepositoryAssumption
  <2> QED
    BY <2>1, <2>2 DEF Records
<1>9. ASSUME NEW c \in Customers
      PROVE  /\ balance'[c] = balance[c] + Movement(e, c)
             /\ balance'[c] \in Nat
             /\ c \notin {r.from, r.to} => balance'[c] = balance[c]
  <2>1. balance[c] \in Nat
    BY <1>3
  <2>2. CASE c = r.from
    <3>1. balance'[c] = balance[c] - a /\ c # r.to
      BY <1>1, <1>6, <1>8, <2>2
    <3>2. Movement(e, c) = 0 - a
      BY <1>7, <2>2, <3>1 DEF Movement
    <3>3. balance[c] >= a
      BY <1>4, <1>6, <2>2
    <3> QED
      BY <1>4, <2>1, <2>2, <3>1, <3>2, <3>3
  <2>3. CASE c = r.to /\ c # r.from
    <3>1. balance'[c] = balance[c] + a
      BY <1>1, <1>6, <2>3
    <3>2. Movement(e, c) = a - 0
      BY <1>7, <2>3 DEF Movement
    <3> QED
      BY <1>4, <2>1, <2>3, <3>1, <3>2
  <2>4. CASE c # r.from /\ c # r.to
    <3>1. balance'[c] = balance[c]
      BY <1>1, <2>4
    <3>2. Movement(e, c) = 0 - 0
      BY <1>7, <2>4 DEF Movement
    <3> QED
      BY <2>1, <3>1, <3>2
  <2> QED
    BY <2>2, <2>3, <2>4
<1>10. ASSUME NEW c \in Customers
       PROVE  /\ c = r.from => balance[c] >= a
              /\ c = r.to => balance'[c] = balance[c] + a
  <2>1. c = r.from => balance[c] >= a
    BY <1>4, <1>6
  <2>2. c = r.to => balance'[c] = balance[c] + a
    BY <1>1, <1>6, <1>8
  <2> QED
    BY <2>1, <2>2
<1> QED
  BY <1>2, <1>3, <1>4, <1>5, <1>8, <1>9, <1>10

\* A commit moves what its entry says, between accounts it has locked.
LEMMA CommitMoney ==
  ASSUME MoneyInv, LockInv', NEW s \in Sessions, Commit(s)
  PROVE  MoneyInv'
<1> DEFINE r == request[current[s]]
           a == AmountOf(s, r)
           e == EntryOf(s, r)
<1>1. /\ Locked(s) /\ Covered(s, r)
      /\ balance' = [c \in Customers |->
           CASE c = r.from -> seen[s][c] - a
             [] c = r.to -> seen[s][c] + a
             [] OTHER -> balance[c]]
      /\ entries' = Append(entries, e)
      /\ UNCHANGED <<request, current>>
  BY DEF Commit, End
<1>2. /\ pc' = [pc EXCEPT ![s] = "idle"]
      /\ held' = [held EXCEPT ![s] = 0]
      /\ snapshot' = [snapshot EXCEPT ![s] = 0]
      /\ seen' = [seen EXCEPT ![s] = NothingSeen]
  BY DEF Commit, End, Goto
<1>3. r \in Requests /\ Plan(s) = LockPlan(r) /\ held[s] = Len(Plan(s))
  BY <1>1 DEF Locked, Plan, MoneyInv, LockInv, MoneyShape
<1>4. /\ balance \in [Customers -> Nat] /\ seen \in [Sessions -> [Customers -> Int]]
      /\ snapshot \in [Sessions -> Nat] /\ held \in [Sessions -> Nat]
      /\ pc \in [Sessions -> {"idle", "insert", "recordFailure"} \cup Working]
  BY DEF MoneyInv, MoneyShape, LockInv
<1>5. /\ pc'[s] = "idle" /\ held'[s] = 0 /\ seen'[s] = NothingSeen /\ snapshot'[s] = 0
      /\ \A q \in Sessions \ {s} :
           /\ pc'[q] = pc[q] /\ held'[q] = held[q]
           /\ seen'[q] = seen[q] /\ snapshot'[q] = snapshot[q]
  BY <1>2, <1>4
<1>6. e.amount = a
  BY DEF EntryOf
<1>7. r = request[current[s]] /\ a = AmountOf(s, r) /\ e = EntryOf(s, r)
  OBVIOUS
<1> HIDE DEF a, e, r
<1>8. /\ a \in Nat
      /\ \A c \in Customers :
           /\ c \in {r.from, r.to} => Holds(s, Account(c))
           /\ c \notin {r.from, r.to} => balance'[c] = balance[c]
           /\ balance'[c] = balance[c] + Movement(e, c) /\ balance'[c] \in Nat
  BY <1>7, CommitBalances
<1>9. /\ Len(entries) \in Nat /\ Len(entries') = Len(entries) + 1
      /\ \A i \in 1..Len(entries) : entries'[i] = entries[i]
      /\ entries'[Len(entries) + 1] = e
      /\ entries' \in Seq({entries'[i] : i \in 1..Len(entries')})
  BY <1>1, AppendShape DEF MoneyInv, MoneyShape
<1>10. MoneyShape'
  <2>1. \A i \in 1..Len(entries') : entries'[i].amount \in Int
    <3>1. \A i \in 1..Len(entries') : i \in 1..Len(entries) \/ i = Len(entries) + 1
      BY <1>9
    <3>2. \A i \in 1..Len(entries) : entries[i].amount \in Int
      BY DEF MoneyInv, MoneyShape
    <3>3. e.amount \in Int
      BY <1>6, <1>8
    <3>4. ASSUME NEW i \in 1..Len(entries) PROVE entries'[i].amount \in Int
      BY <1>9, <3>2
    <3>5. entries'[Len(entries) + 1].amount \in Int
      BY <1>9, <3>3
    <3> QED
      BY <3>1, <3>4, <3>5
  <2>2. balance' \in [Customers -> Nat]
    BY <1>1, <1>8
  <2>3. seen' \in [Sessions -> [Customers -> Int]] /\ snapshot' \in [Sessions -> Nat]
    BY <1>2, <1>4 DEF NothingSeen
  <2>4. \A q \in Sessions : snapshot'[q] <= Len(entries')
    <3>1. \A q \in Sessions : snapshot[q] <= Len(entries) /\ snapshot[q] \in Nat
      BY <1>4 DEF MoneyInv, MoneyShape
    <3>2. \A q \in Sessions : snapshot'[q] \in {0, snapshot[q]}
      BY <1>5
    <3> QED
      BY <1>9, <3>1, <3>2
  <2>5. \A q \in Sessions : pc'[q] # "idle" => request'[current'[q]] # NoRequest
    BY <1>1, <1>5 DEF MoneyInv, MoneyShape
  <2>6. entries' \in Seq({entries'[i] : i \in 1..Len(entries')})
    BY <1>9
  <2> QED
    BY <2>1, <2>2, <2>3, <2>4, <2>5, <2>6 DEF MoneyShape
<1>11. \A q \in Sessions : Plan(q)' = Plan(q)
  BY <1>1 DEF Plan
<1>12. 1..held'[s] = {}
  BY <1>5
<1>13. ReadsHold'
  <2>1. \A q \in Sessions : held'[q] <= Len(Plan(q)')
    <3>1. Len(Plan(s)) \in Nat
      BY PlanLength DEF MoneyInv
    <3> QED
      BY <1>5, <1>11, <3>1 DEF MoneyInv, ReadsHold
  <2>2. ASSUME NEW p \in Sessions, NEW q \in Sessions, p # q,
               NEW i \in 1..held'[p], NEW j \in 1..held'[q]
        PROVE  Plan(p)'[i] # Plan(q)'[j]
    <3>1. p # s /\ q # s
      BY <1>12
    <3>2. i \in 1..held[p] /\ j \in 1..held[q]
      BY <1>5, <3>1
    <3> QED
      BY <1>11, <2>2, <3>2 DEF MoneyInv, ReadsHold
  <2>3. ASSUME NEW q \in Sessions, NEW c \in Customers, Holds(q, Account(c))'
        PROVE  seen'[q][c] = balance'[c]
    <3>1. PICK i \in 1..held'[q] : Plan(q)[i] = Account(c)
      BY <1>11, <2>3 DEF Holds
    <3>2. q # s
      BY <1>12, <3>1
    <3>3. i \in 1..held[q] /\ Holds(q, Account(c))
      BY <1>5, <3>1, <3>2 DEF Holds
    <3>4. c \notin {r.from, r.to}
      <4>1. ASSUME Holds(s, Account(c)) PROVE FALSE
        BY <3>1, <3>2, <3>3, <4>1 DEF MoneyInv, ReadsHold, Holds
      <4> QED
        BY <1>8, <4>1
    <3> QED
      BY <1>5, <1>8, <3>2, <3>3, <3>4 DEF MoneyInv, ReadsHold
  <2> QED
    BY <2>1, <2>2, <2>3 DEF ReadsHold
<1>14. BooksBalance'
  <2> SUFFICES ASSUME NEW c \in Customers
               PROVE  balance'[c] = BalanceAfter(c, Len(entries))'
    BY DEF BooksBalance
  <2>1. e.amount \in Int
    BY <1>6, <1>8
  <2>2. BalanceAfter(c, Len(entries))' = BalanceAfter(c, Len(entries)) + Movement(e, c)
    BY <1>1, <2>1, BalanceStep
  <2>3. balance[c] = BalanceAfter(c, Len(entries))
    BY DEF MoneyInv, BooksBalance
  <2> QED
    BY <1>8, <2>2, <2>3
<1> QED
  BY <1>10, <1>13, <1>14 DEF MoneyInv

LEMMA NextMoney == MoneyInv /\ [Next]_vars => MoneyInv'
<1> SUFFICES ASSUME MoneyInv, [Next]_vars PROVE MoneyInv'
  OBVIOUS
<1>1. LockInv'
  BY NextLocks DEF MoneyInv
<1>2. ASSUME NEW o \in Operations, Submit(o) PROVE MoneyInv'
  BY <1>1, <1>2, SubmitMoney
<1>3. ASSUME NEW s \in Sessions, Step(s) PROVE MoneyInv'
  <2>1. /\ pc \in [Sessions -> {"idle", "insert", "recordFailure"} \cup Working]
        /\ current \in [Sessions -> Operations] /\ held \in [Sessions -> Nat]
        /\ seen \in [Sessions -> [Customers -> Int]]
        /\ snapshot \in [Sessions -> Nat]
        /\ \A q \in Sessions : snapshot[q] <= Len(entries)
        /\ pc[s] # "lock" => held[s] = 0
        /\ Len(entries) \in Nat
    BY LenProperties DEF MoneyInv, LockInv, MoneyShape
  <2>2. ASSUME NEW o \in Operations, Execute(s, o) PROVE MoneyInv'
    <3>1. /\ UNCHANGED <<balance, entries, request, held, seen, snapshot>>
          /\ pc[s] = "idle" /\ current' = [current EXCEPT ![s] = o]
          /\ request[o] # NoRequest
          /\ \A q \in Sessions \ {s} : pc'[q] = pc[q] /\ current'[q] = current[q]
      BY <2>1, <2>2 DEF Execute
    <3>2. held'[s] = 0 /\ request[current'[s]] # NoRequest
      BY <2>1, <3>1
    <3> QED
      BY <1>1, <2>1, <3>1, <3>2, NothingMoved
  <2>3. CASE Insert(s) \/ RecordFailure(s)
    <3>1. /\ UNCHANGED <<balance, entries, request, current, held, seen, snapshot>>
          /\ pc[s] \in {"insert", "recordFailure"}
          /\ \A q \in Sessions \ {s} : pc'[q] = pc[q]
      BY <2>1, <2>3 DEF Insert, RecordFailure, Goto
    <3>2. held'[s] = 0 /\ request[current'[s]] # NoRequest
      BY <2>1, <3>1 DEF MoneyInv, MoneyShape
    <3> QED
      BY <1>1, <2>1, <3>1, <3>2, NothingMoved
  <2>4. CASE Read(s)
    <3>1. /\ UNCHANGED <<balance, entries, request, current, held, seen>>
          /\ pc[s] = "read"
          /\ snapshot' = [snapshot EXCEPT ![s] = Len(entries)]
          /\ \A q \in Sessions \ {s} : pc'[q] = pc[q]
      BY <2>1, <2>4 DEF Read, Goto
    <3>2. held'[s] = 0 /\ request[current'[s]] # NoRequest
      BY <2>1, <3>1 DEF MoneyInv, MoneyShape
    <3>3. /\ snapshot' \in [Sessions -> Nat]
          /\ \A q \in Sessions : snapshot'[q] <= Len(entries)
      BY <2>1, <3>1
    <3> QED
      BY <1>1, <2>1, <3>1, <3>2, <3>3, NothingMoved
  <2>5. CASE Invalid(s) \/ Insufficient(s) \/ Deadlock(s) \/ Break(s)
    <3>4. Deadlock(s) => pc[s] # "idle"
      BY DEF Deadlock, Circle, Waits, WaitsForKey, WaitsForRow, WaitsForGap, Locked
    <3>1. /\ UNCHANGED <<balance, entries, request, current>>
          /\ pc[s] # "idle"
          /\ \/ pc' = [pc EXCEPT ![s] = "idle"]
             \/ pc' = [pc EXCEPT ![s] = "recordFailure"]
          /\ held' = [held EXCEPT ![s] = 0]
          /\ snapshot' = [snapshot EXCEPT ![s] = 0]
          /\ seen' = [seen EXCEPT ![s] = NothingSeen]
      BY <2>5, <3>4 DEF Invalid, Insufficient, Deadlock, Break, End, Goto, Locked
    <3>2. /\ held'[s] = 0 /\ request[current'[s]] # NoRequest
          /\ \A q \in Sessions \ {s} :
               pc'[q] = pc[q] /\ held'[q] = held[q] /\ seen'[q] = seen[q]
      BY <2>1, <3>1 DEF MoneyInv, MoneyShape
    <3>3. /\ snapshot' \in [Sessions -> Nat]
          /\ seen' \in [Sessions -> [Customers -> Int]]
          /\ \A q \in Sessions : snapshot'[q] <= Len(entries)
      BY <2>1, <3>1 DEF NothingSeen
    <3> QED
      BY <1>1, <3>1, <3>2, <3>3, NothingMoved
  <2>6. CASE Lock(s)
    BY <1>1, <2>6, LockMoney
  <2>7. CASE Commit(s)
    BY <1>1, <2>7, CommitMoney
  <2> QED
    BY <1>3, <2>2, <2>3, <2>4, <2>5, <2>6, <2>7 DEF Step
<1>4. CASE UNCHANGED vars
  <2>1. UNCHANGED <<balance, entries, request, pc, current, snapshot, held, seen>>
    BY <1>4 DEF vars, session
  <2> QED
    BY <1>1, <2>1 DEF MoneyInv, MoneyShape, ReadsHold, BooksBalance, BalanceAfter,
                      Holds, Plan
<1> QED
  BY <1>2, <1>3, <1>4 DEF Next

\* No account is overdrawn, whatever meets on it: what an execution compares
\* with its amount is what is committed, because it holds the row.
THEOREM NeverOverdrawn == Spec => []NoOverdraft
<1>1. MoneyInv => NoOverdraft
  BY DEF MoneyInv, MoneyShape, NoOverdraft
<1> QED
  BY <1>1, InitMoney, NextMoney, PTL DEF Spec

\* No update of a balance is lost: for any number of entries, a balance is the
\* initial one and the sum of what they moved.
THEOREM BalancesAreSums == Spec => []BooksBalance
<1>1. MoneyInv => BooksBalance
  BY DEF MoneyInv
<1> QED
  BY <1>1, InitMoney, NextMoney, PTL DEF Spec
-----------------------------------------------------------------------------
(* The transactions are those of a ledger.                                 *)

\* A commit carries its operation out, from the balances of that moment.
LEMMA CommitCarriesOut ==
  ASSUME OnceInv, MoneyInv, NEW s \in Sessions, Commit(s)
  PROVE  Book!CarryOut(current[s])
<1> DEFINE o == current[s]
           r == request[o]
           a == AmountOf(s, r)
           e == EntryOf(s, r)
           Moved(c) == (IF c = r.to THEN a ELSE 0) - (IF c = r.from THEN a ELSE 0)
<1>1. /\ Locked(s) /\ pc[s] = "lock"
      /\ DOMAIN balance' = Customers
      /\ balance' = [c \in Customers |-> balance'[c]]
      /\ execution' = [execution EXCEPT ![o] = "succeeded"]
      /\ UNCHANGED request
  BY DEF Commit, Locked
<1>2. r # NoRequest /\ r \in Requests /\ execution[o] = "none"
  BY <1>1, CommitBalances DEF MoneyInv, MoneyShape, OnceInv, KeyHeld, Working
<1>3. e.amount = a /\ e.from = r.from /\ e.to = r.to
  BY DEF EntryOf
<1>4. r = request[current[s]] /\ a = AmountOf(s, r) /\ e = EntryOf(s, r)
  OBVIOUS
<1>5. (r.kind = "redeem" /\ r.amount = All) \/ a = r.amount
  BY DEF AmountOf
<1>6. r.kind = "redeem" => r.to \in Customers
  BY <1>2 DEF Requests, Purchases, Redemptions, Transfers, Records
<1> HIDE DEF e, a, r, o
<1>7. /\ a \in Nat /\ (r.kind = "record" \/ a > 0)
      /\ \A c \in Customers :
           /\ c = r.from => balance[c] >= a
           /\ c = r.to => balance'[c] = balance[c] + a
           /\ balance[c] \in Nat /\ balance'[c] \in Nat
           /\ balance'[c] = balance[c] + Movement(e, c)
  BY <1>4, CommitBalances
<1>8. Book!Due(r) = a
  <2>1. CASE r.kind = "redeem" /\ r.amount = All
    <3>1. balance'[r.to] = balance[r.to] + a /\ balance[r.to] \in Nat
      BY <1>6, <1>7, <2>1
    <3>2. balance'[r.to] - balance[r.to] = a
      BY <1>7, <3>1
    <3> QED
      BY <2>1, <3>2 DEF Book!Due
  <2>2. CASE ~(r.kind = "redeem" /\ r.amount = All)
    BY <1>5, <2>2 DEF Book!Due
  <2> QED
    BY <2>1, <2>2
<1>9. balance' = [c \in Customers |-> balance[c]
                   + (IF c = r.to THEN a ELSE 0) - (IF c = r.from THEN a ELSE 0)]
  <2>1. ASSUME NEW c \in Customers
        PROVE  balance'[c] = balance[c]
                 + (IF c = r.to THEN a ELSE 0) - (IF c = r.from THEN a ELSE 0)
    <3>1. Movement(e, c) = Moved(c)
      BY <1>3 DEF Movement
    <3>2. balance'[c] = balance[c] + Moved(c)
      BY <1>7, <3>1
    <3>3. balance[c] \in Int /\ a \in Int
      BY <1>7
    <3> QED
      BY <3>2, <3>3
  <2> QED
    BY <1>1, <2>1
<1>10. r.from \in Customers => balance[r.from] >= a
  BY <1>7
<1>11. r = request[o]
  BY DEF r
<1>12. r.kind = "record" \/ a > 0
  BY <1>7
<1>13. Book!CarryOut(o)
  BY <1>1, <1>2, <1>8, <1>9, <1>10, <1>11, <1>12 DEF Book!CarryOut
<1> QED
  BY <1>13 DEF o

\* Recording a failure refuses the operation, if it has no outcome.
LEMMA FailureRefuses ==
  ASSUME OnceInv, MoneyInv, NEW s \in Sessions, RecordFailure(s)
  PROVE  Book!Refuse(current[s]) \/ UNCHANGED Book!ledger
<1> DEFINE o == current[s]
<1>1. /\ execution' = [execution EXCEPT ![o] = IF @ = "none" THEN "failed" ELSE @]
      /\ pc[s] = "recordFailure" /\ UNCHANGED <<request, balance>>
  BY DEF RecordFailure
<1>2. o \in Operations /\ request[o] # NoRequest
      /\ execution \in [Operations -> {"none", "succeeded", "failed"}]
  BY <1>1 DEF MoneyInv, MoneyShape, OnceInv, Shape
<1>3. CASE execution[o] = "none"
  BY <1>1, <1>2, <1>3 DEF Book!Refuse
<1>4. CASE execution[o] # "none"
  <2>1. execution' = execution
    BY <1>1, <1>2, <1>4
  <2> QED
    BY <1>1, <2>1 DEF Book!ledger
<1> QED
  BY <1>3, <1>4

LEMMA LedgerInit == Init => Book!Init
BY DEF Init, Book!Init

\* Every step is a step of the ledger, or none.
LEMMA LedgerStep ==
  ASSUME OnceInv, MoneyInv, [Next]_vars
  PROVE  [Book!Next]_(Book!ledger)
<1>1. ASSUME NEW o \in Operations, Submit(o) PROVE Book!Ask(o)
  BY <1>1 DEF Submit, Book!Ask
<1>2. ASSUME NEW s \in Sessions, Step(s)
      PROVE  \/ \E o \in Operations : Book!CarryOut(o) \/ Book!Refuse(o)
             \/ UNCHANGED Book!ledger
  <2>1. current[s] \in Operations
    BY DEF OnceInv, Shape
  <2>2. CASE Commit(s)
    BY <2>1, <2>2, CommitCarriesOut
  <2>3. CASE RecordFailure(s)
    BY <2>1, <2>3, FailureRefuses
  <2>4. CASE Insert(s) \/ Read(s) \/ Invalid(s) \/ Lock(s) \/ Insufficient(s)
             \/ Deadlock(s) \/ Break(s)
    BY <2>4 DEF Insert, Read, Invalid, Lock, Insufficient, Deadlock, Break, End,
                Book!ledger
  <2>5. CASE \E o \in Operations : Execute(s, o)
    BY <2>5 DEF Execute, Book!ledger
  <2> QED
    BY <1>2, <2>2, <2>3, <2>4, <2>5 DEF Step
<1>3. UNCHANGED vars => UNCHANGED Book!ledger
  BY DEF vars, Book!ledger
<1> QED
  BY <1>1, <1>2, <1>3 DEF Next, Book!Next

\* Whatever sessions execute whatever operations at once, and wherever they
\* break off, it is as if the operations were carried out or refused in single
\* steps one after another: each at most once, as it was asked for, and from
\* balances that suffice.
THEOREM LedgerImplemented == Spec => ImplementsLedger
<1>1. OnceInv /\ MoneyInv /\ [Next]_vars => [Book!Next]_(Book!ledger)
  BY LedgerStep
<1> QED
  BY <1>1, InitOnce, NextOnce, InitMoney, NextMoney, LedgerInit, PTL
  DEF Spec, ImplementsLedger, Book!Spec
=============================================================================
