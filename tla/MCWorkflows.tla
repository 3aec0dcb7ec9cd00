---------------------------- MODULE MCWorkflows -----------------------------
(* Instances of Workflows for TLC. *)
EXTENDS Workflows, TLC

CONSTANTS c1, c2, w1, w2, p1, p2

\* Plans are alike.
SwapPlans == Permutations(Plans)

\* An action that is claimed, succeeds or is stopped.
PlainStates == {"running", "succeeded", "cancelled"}
\* An action that waits, or is held for review.
HeldStates ==
    {"queued", "running", "waiting_dependency", "needs_review", "succeeded",
     "failed"}
=============================================================================
