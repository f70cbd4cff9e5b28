------------------------------- MODULE Ledger -------------------------------
(***************************************************************************)
(* What the tool behind the operator agent promises about money, however   *)
(* many sessions execute however many operations at once:                  *)
(*                                                                         *)
(*  - an operation is carried out in one step, as it was asked for, from   *)
(*    the balances of that moment, and only if they suffice;               *)
(*  - or it is refused, which moves nothing;                               *)
(*  - what has come out of it stays so.                                    *)
(*                                                                         *)
(* It promises nothing about the shares that are redeemed.                 *)
(*                                                                         *)
(* BusinessRepository implements this specification.                       *)
(***************************************************************************)
EXTENDS Integers

CONSTANTS Customers, InitialBalance, Operations, Requests, NoRequest, All

VARIABLES
  request,  \* what each operation is to do
  balance,  \* of each customer's account
  outcome   \* of each operation: "none", "succeeded" or "failed"

ledger == <<request, balance, outcome>>

Init ==
  /\ request = [o \in Operations |-> NoRequest]
  /\ balance = InitialBalance
  /\ outcome = [o \in Operations |-> "none"]

Ask(o) ==
  /\ request[o] = NoRequest
  /\ \E r \in Requests : request' = [request EXCEPT ![o] = r]
  /\ UNCHANGED <<balance, outcome>>

\* All the shares of a holding are worth what the customer gets for them.
Due(r) ==
  IF r.kind = "redeem" /\ r.amount = All
  THEN balance'[r.to] - balance[r.to] ELSE r.amount

CarryOut(o) ==
  LET r == request[o] IN
  /\ r # NoRequest
  /\ outcome[o] = "none" /\ outcome' = [outcome EXCEPT ![o] = "succeeded"]
  /\ r.kind = "record" \/ Due(r) > 0
  /\ r.from \in Customers => balance[r.from] >= Due(r)
  /\ balance' = [c \in Customers |-> balance[c]
                   + (IF c = r.to THEN Due(r) ELSE 0)
                   - (IF c = r.from THEN Due(r) ELSE 0)]
  /\ UNCHANGED request

Refuse(o) ==
  /\ request[o] # NoRequest
  /\ outcome[o] = "none" /\ outcome' = [outcome EXCEPT ![o] = "failed"]
  /\ UNCHANGED <<request, balance>>

Next == \E o \in Operations : Ask(o) \/ CarryOut(o) \/ Refuse(o)

Spec == Init /\ [][Next]_ledger
=============================================================================
