----------------------- MODULE OperationLifecycleProofs -----------------------
(***************************************************************************)
(* The abstract life cycle keeps its promises about authority: what runs   *)
(* was approved and consented to, and what was done is what was authorised.*)
(***************************************************************************)
EXTENDS OperationLifecycle, TLAPS

Inv == phase \in Phases /\ Authorised /\ EffectAuthorised

LEMMA InvInit == Init => Inv
  BY DEF Init, Inv, Phases, Authorised, EffectAuthorised, Running, Nothing

\* Approvals and consents are only added, and from the approval on the subject
\* changes only by going back to a draft.
LEMMA InvStep == Inv /\ [Next]_lifecycle => Inv'
<1> SUFFICES ASSUME Inv, [Next]_lifecycle PROVE Inv'
  OBVIOUS
<1> USE DEF Inv, Phases, Authorised, EffectAuthorised, Running, Subject, Enter
<1>1. CASE Submit
  BY <1>1 DEF Submit
<1>2. CASE Revise
  BY <1>2 DEF Revise
<1>3. CASE AskForReview
  BY <1>3 DEF AskForReview
<1>4. CASE Approve
  BY <1>4 DEF Approve
<1>5. CASE Offer
  BY <1>5 DEF Offer
<1>6. CASE Consent
  BY <1>6 DEF Consent
<1>7. CASE Confirm
  BY <1>7 DEF Confirm
<1>8. CASE Reopen
  BY <1>8 DEF Reopen
<1>9. CASE Execute
  BY <1>9 DEF Execute
<1>10. CASE TakeEffect
  BY <1>10 DEF TakeEffect
<1>11. CASE Succeed
  BY <1>11 DEF Succeed
<1>12. CASE Fail
  BY <1>12 DEF Fail
<1>13. CASE Close
  BY <1>13 DEF Close
<1>14. CASE UNCHANGED lifecycle
  BY <1>14 DEF lifecycle
<1> QED
  BY <1>1, <1>2, <1>3, <1>4, <1>5, <1>6, <1>7, <1>8, <1>9, <1>10, <1>11,
     <1>12, <1>13, <1>14 DEF Next

\* Whatever implements the life cycle executes only what the risk agent approved
\* and, if it is large, the customer consented to, and does nothing else.
THEOREM LifecycleAuthorised == Spec => [](Authorised /\ EffectAuthorised)
<1>1. Inv => Authorised /\ EffectAuthorised
  BY DEF Inv
<1> QED
  BY <1>1, InvInit, InvStep, PTL DEF Spec
=============================================================================
