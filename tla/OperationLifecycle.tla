-------------------------- MODULE OperationLifecycle --------------------------
(***************************************************************************)
(* What the operator agent promises about one business operation, whoever  *)
(* works on it, in whatever order, and wherever they are interrupted:      *)
(*                                                                         *)
(*  - its parameters are revised only while it is a draft, and the number  *)
(*    of their version never goes back;                                    *)
(*  - it runs only with parameters the risk agent has approved and, when   *)
(*    they are large, the customer has consented to, as that version;      *)
(*  - it takes effect at most once, and with those parameters;             *)
(*  - it is reported a success only after it took effect;                  *)
(*  - what is over stays over.                                             *)
(*                                                                         *)
(* OperationService implements this specification.                         *)
(***************************************************************************)
EXTENDS Naturals

CONSTANTS Params, LargeParams, NoParams, Versions

VARIABLES
  phase,      \* how far the operation has come
  version,    \* of its parameters
  params,
  approved,   \* the <<version, params>> approved by the risk agent
  consented,  \* the <<version, params>> consented to
  effect      \* what was done: <<version, params>>, or Nothing

lifecycle == <<phase, version, params, approved, consented, effect>>

Nothing == <<0, NoParams>>
Subject == <<version, params>>

Phases == {"none", "draft", "review", "approved", "offered", "confirmed",
           "running", "succeeded", "failed", "closed"}

Enter(p) == phase' = p

Init ==
  /\ phase = "none" /\ version = 0 /\ params = NoParams
  /\ approved = {} /\ consented = {} /\ effect = Nothing

Submit ==
  /\ phase = "none" /\ Enter("draft")
  /\ version' = 1 /\ params' \in Params
  /\ UNCHANGED <<approved, consented, effect>>

\* Drafts make no promise about parameters: of two revisions one may be lost.
Revise ==
  /\ phase = "draft" /\ Enter("draft")
  /\ version' \in {version, version + 1} /\ params' \in Params
  /\ UNCHANGED <<approved, consented, effect>>

AskForReview ==
  /\ phase = "draft" /\ Enter("review")
  /\ UNCHANGED <<version, params, approved, consented, effect>>

Approve ==
  /\ phase = "review" /\ Enter("approved")
  /\ approved' = approved \cup {Subject}
  /\ UNCHANGED <<version, params, consented, effect>>

Offer ==
  /\ phase = "approved" /\ Enter("offered")
  /\ UNCHANGED <<version, params, approved, consented, effect>>

\* The customer consents to some version, not always the current one.
Consent ==
  /\ \E v \in Versions, p \in Params : consented' = consented \cup {<<v, p>>}
  /\ UNCHANGED <<phase, version, params, approved, effect>>

Confirm ==
  /\ phase = "offered" /\ Enter("confirmed")
  /\ Subject \in consented
  /\ UNCHANGED <<version, params, approved, consented, effect>>

Reopen ==
  /\ phase \in {"review", "approved", "offered"} /\ Enter("draft")
  /\ UNCHANGED <<version, params, approved, consented, effect>>

Execute ==
  /\ \/ phase = "approved" /\ params \notin LargeParams
     \/ phase = "confirmed"
  /\ Enter("running")
  /\ UNCHANGED <<version, params, approved, consented, effect>>

\* The effect may still come after a failure has been reported.
TakeEffect ==
  /\ phase \in {"running", "failed"}
  /\ effect = Nothing
  /\ effect' = Subject
  /\ UNCHANGED <<phase, version, params, approved, consented>>

Succeed ==
  /\ phase = "running" /\ effect = Subject /\ Enter("succeeded")
  /\ UNCHANGED <<version, params, approved, consented, effect>>

Fail ==
  /\ phase = "running" /\ Enter("failed")
  /\ UNCHANGED <<version, params, approved, consented, effect>>

\* Denied, rejected, cancelled, expired or timed out.
Close ==
  /\ \/ phase = "draft" /\ params' \in Params
     \/ /\ phase \in {"review", "approved", "offered", "confirmed"}
        /\ UNCHANGED params
  /\ Enter("closed")
  /\ UNCHANGED <<version, approved, consented, effect>>

Next ==
  \/ Submit \/ Revise \/ AskForReview \/ Approve \/ Offer \/ Consent \/ Confirm
  \/ Reopen \/ Execute \/ TakeEffect \/ Succeed \/ Fail \/ Close

Spec == Init /\ [][Next]_lifecycle
-----------------------------------------------------------------------------
Running == {"running", "succeeded", "failed"}

\* The parameters the operation carries have passed what its phase requires.
Authorised ==
  /\ phase \in {"approved", "offered", "confirmed"} \cup Running =>
       Subject \in approved
  /\ phase = "confirmed" => Subject \in consented
  /\ phase \in Running /\ params \in LargeParams => Subject \in consented

\* What was done is what was authorised, and only when it ran.
EffectAuthorised ==
  effect # Nothing =>
    /\ phase \in Running
    /\ effect = Subject
    /\ effect \in approved
    /\ params \in LargeParams => effect \in consented
=============================================================================
