--------------------------- MODULE OperationStatus ---------------------------
(***************************************************************************)
(* The statuses of a business operation and the table of the moves that    *)
(* assert_transition accepts (app/service/nl2api/state_machine.py).  The   *)
(* names are the values of the enumeration OperationStatus.                *)
(***************************************************************************)

\* The row of an operation that has not been created.
NotCreated == "none"

ALLOWED_TRANSITIONS(s) ==
  CASE s = "draft" -> {"resolving_entities", "cancelled"}
    [] s = "resolving_entities" ->
         {"validating", "need_more_information", "validation_failed"}
    [] s = "need_more_information" ->
         {"resolving_entities", "cancelled", "expired"}
    [] s = "validating" ->
         {"permission_denied", "validation_failed", "waiting_risk_review"}
    [] s = "waiting_risk_review" ->
         {"resolving_entities", "risk_approved", "risk_rejected",
          "risk_review_timeout", "manual_review", "cancelled"}
    [] s = "risk_approved" ->
         {"resolving_entities", "pending_confirmation", "executing", "cancelled"}
    [] s = "pending_confirmation" ->
         {"resolving_entities", "confirmed", "cancelled", "expired"}
    [] s = "confirmed" -> {"executing", "cancelled"}
    [] s = "executing" -> {"succeeded", "failed", "pending_verification"}
    [] s = "pending_verification" -> {"succeeded", "failed", "manual_review"}
    [] s = "manual_review" -> {"risk_approved", "risk_rejected", "cancelled"}
    [] OTHER -> {}

TERMINAL_STATUSES ==
  {"permission_denied", "validation_failed", "risk_rejected",
   "risk_review_timeout", "succeeded", "failed", "cancelled", "expired"}

OperationStatuses ==
  {"draft", "resolving_entities", "need_more_information", "validating",
   "waiting_risk_review", "risk_approved", "pending_confirmation",
   "confirmed", "executing", "pending_verification", "manual_review"}
  \cup TERMINAL_STATUSES

\* assert_transition
CanMove(current, target) == target \in ALLOWED_TRANSITIONS(current)

-----------------------------------------------------------------------------
\* Groups of statuses the properties speak of.

\* The parameters are still being put together.
Drafts ==
  {"draft", "resolving_entities", "need_more_information", "validating"}

\* The parameters are normalised and stored as a version: from here on the row
\* changes its parameters only by leaving the group.
Versioned ==
  {"validating", "waiting_risk_review", "manual_review", "risk_approved",
   "pending_confirmation", "confirmed", "executing", "pending_verification",
   "succeeded", "failed"}

\* A version that got here has been let through by the risk agent.
Approved ==
  {"risk_approved", "pending_confirmation", "confirmed", "executing",
   "pending_verification", "succeeded", "failed"}

\* The business call may have been made.
Dispatched == {"executing", "pending_verification", "succeeded", "failed"}
=============================================================================
