----------------------------- MODULE ActionLife -----------------------------
(***************************************************************************)
(* What the rest of the system may rely on about one action run: the states *)
(* it moves through, and what a stop (a cancellation request or a deadline)  *)
(* does to it.  The executor is shown to implement it, and the workflows are *)
(* composed with it.  state, cancel and overdue are the row's state,         *)
(* cancellation_requested_at and deadline_at <= now.                         *)
(***************************************************************************)
EXTENDS ActionStates

VARIABLES state, cancel, overdue

vars == <<state, cancel, overdue>>

\* A claim takes a claimable action that was not stopped; reconciling is
\* claimed into running too, which the table of transitions leaves out.
Claimed(s, c, o) ==
    IF s \in Claimable /\ ~c /\ ~o THEN {"running"} ELSE {}

\* Any other move is in the table, except that a claimed reconciliation that
\* proves a retry safe queues the action again.  Success is recorded by the
\* worker that holds the claim, and by nobody else; it may come after a stop,
\* for an observation that found the desired state looks at no stop.  A stopped
\* action that ends as stopped does so for the reason it was stopped for:
\* cancellation goes before the deadline.
Settled(s, c, o) ==
    {n \in ActionState \ {"running"} :
        /\ CanTransition(s, n) \/ <<s, n>> = <<"running", "queued">>
        /\ n = "succeeded" => s = "running"
        /\ n = "cancelled" => c
        /\ n = "deadline_exceeded" => o /\ ~c}

Moves(s, c, o) == Claimed(s, c, o) \cup Settled(s, c, o)

Init == state = "queued" /\ ~cancel /\ ~overdue

Move ==
    /\ state' \in Moves(state, cancel, overdue)
    /\ UNCHANGED <<cancel, overdue>>

RequestCancellation ==
    /\ state \notin Terminal
    /\ cancel' = TRUE
    /\ UNCHANGED <<state, overdue>>

DeadlinePasses ==
    /\ overdue' = TRUE
    /\ UNCHANGED <<state, cancel>>

Next == Move \/ RequestCancellation \/ DeadlinePasses

Spec == Init /\ [][Next]_vars
=============================================================================
