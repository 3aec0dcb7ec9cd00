---------------------------- MODULE ActionStates ----------------------------
(***************************************************************************)
(* The closed vocabularies of the durable execution protocol and the table  *)
(* of action transitions it permits (internal/domain/actions.go).           *)
(***************************************************************************)

ActionState ==
    {"queued", "running", "waiting_dependency", "reconciling", "needs_review",
     "succeeded", "failed", "cancelled", "deadline_exceeded"}

AttemptState ==
    {"running", "reconciling", "succeeded", "failed", "cancelled"}

AttemptPhase == {"observe", "dispatch", "reconcile"}

\* "none" stands for an action that has no effect row yet.
EffectState ==
    {"none", "pending", "applied", "already_satisfied", "failed", "cancelled",
     "unknown"}

Terminal == {"succeeded", "failed", "cancelled", "deadline_exceeded"}

\* The states a worker may claim an action from.
Claimable == {"queued", "waiting_dependency", "reconciling"}

\* The states in which an outcome update keeps the durable reservation keys.
Retaining == {"running", "reconciling", "needs_review"}

actionTransitions ==
    [s \in ActionState |->
        CASE s = "queued" ->
                {"running", "waiting_dependency", "needs_review", "succeeded",
                 "cancelled", "deadline_exceeded"}
          [] s = "running" ->
                {"waiting_dependency", "reconciling", "needs_review",
                 "succeeded", "failed", "cancelled", "deadline_exceeded"}
          [] s = "waiting_dependency" ->
                {"queued", "running", "needs_review", "cancelled",
                 "deadline_exceeded"}
          [] s = "reconciling" ->
                {"queued", "succeeded", "needs_review", "cancelled",
                 "deadline_exceeded"}
          [] s = "needs_review" ->
                {"queued", "running", "cancelled", "deadline_exceeded"}
          [] OTHER -> {}]

CanTransition(from, to) == to \in actionTransitions[from]
=============================================================================
