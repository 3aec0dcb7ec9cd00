----------------------------- MODULE Workflows ------------------------------
(***************************************************************************)
(* Workflows (internal/workflows/workflows.go) and the reviews that approve  *)
(* their steps (internal/reviews/reviews.go), composed with the life of the  *)
(* action runs they queue.                                                   *)
(*                                                                           *)
(* A workflow is an ordered list of steps, each bound to one revision of one *)
(* plan.  Approving a step records a decision, queues an action run and links*)
(* it to the step.  Sync projects the actions into steps and workflow;       *)
(* Cancel and a passed deadline close the workflow and ask its actions to    *)
(* stop.  Every call is one transaction, except that ApproveStep and AddStep *)
(* read and check before the transaction that writes.                        *)
(***************************************************************************)
EXTENDS Integers, Sequences, FiniteSetsExt, ActionStates

CONSTANTS
    Workflows,   \* workflow ids
    Plans,       \* plan ids
    Deadlined,   \* the workflows created with a deadline
    Callers,     \* concurrent callers of ApproveStep and AddStep
    MaxSteps,    \* Service.maxSteps
    Revisable,   \* bound: the plans that get a second revision
    Unlinked,    \* the plans that may be approved outside a workflow
    Cancellable, \* the workflows a user may cancel
    Reached,     \* bound: the action states an instance looks at
    None

VARIABLES
    workflow, \* workflow_runs with their workflow_steps, or None
    plan,     \* action_plans: current revision and its status
    decision, \* review_decisions, by plan and revision
    action,   \* action_runs, by plan and revision, or None
    overdue,  \* the workflows whose deadline has passed
    call      \* what a caller has read, before its transaction

vars == <<workflow, plan, decision, action, overdue, call>>

Life == INSTANCE ActionLife WITH state <- "queued", cancel <- FALSE, overdue <- FALSE

-----------------------------------------------------------------------------
(* The tables of internal/domain/actions.go *)

WorkflowState ==
    {"awaiting_approval", "running", "waiting_dependency", "needs_review",
     "succeeded", "failed", "cancelled", "deadline_exceeded"}

WorkflowTerminal == {"succeeded", "failed", "cancelled", "deadline_exceeded"}

\* The two ways a workflow is closed from outside its actions.
Closed == {"cancelled", "deadline_exceeded"}

StepState ==
    {"queued", "running", "blocked", "succeeded", "failed", "skipped",
     "cancelled"}

workflowTransitions ==
    [s \in WorkflowState |->
        CASE s = "awaiting_approval" -> {"running"} \cup Closed
          [] s = "running" ->
                {"waiting_dependency", "needs_review", "succeeded", "failed"}
                \cup Closed
          [] s = "waiting_dependency" -> {"running", "needs_review"} \cup Closed
          [] s = "needs_review" -> {"running"} \cup Closed
          [] OTHER -> {}]

\* Mutant of CanTransitionWorkflow: a held workflow does not go on.
CanTransitionWorkflowHeld(from, to) ==
    to \in workflowTransitions[from] /\ (from = "needs_review" => to \in Closed)

CanTransitionWorkflow(from, to) == to \in workflowTransitions[from]

-----------------------------------------------------------------------------
(* Rows *)

Revisions == (Plans \X {1}) \cup (Revisable \X {2})

\* seen is the action state Sync last wrote into the step's metadata.
Step ==
    [rev : Revisions, state : StepState, link : BOOLEAN, rejected : BOOLEAN,
     seen : ActionState \cup {"none"}]

WorkflowRun ==
    [state : WorkflowState, current : Nat, steps : Seq(Step)]

\* due is the workflow whose deadline the action was given.
ActionRun ==
    [state : ActionState, cancel : BOOLEAN, due : Workflows \cup {None}]

PlanStatus == {"ready", "blocked", "expired"}

Call ==
    [op : {"approve", "append"}, workflow : Workflows, step : Nat,
     rev : Revisions, fresh : BOOLEAN]

ASSUME WorkflowsAssumption ==
    /\ Deadlined \subseteq Workflows
    /\ Cancellable \subseteq Workflows
    /\ Unlinked \subseteq Plans
    /\ Reached \subseteq ActionState
    /\ MaxSteps \in Nat \ {0}
    /\ Revisable \subseteq Plans
    /\ None \notin Workflows \cup WorkflowRun \cup ActionRun \cup Call

TypeOK ==
    /\ workflow \in [Workflows -> WorkflowRun \cup {None}]
    /\ plan \in [Plans -> [rev : {1, 2}, status : PlanStatus]]
    /\ decision \in [Revisions -> {"none", "approve", "reject"}]
    /\ action \in [Revisions -> ActionRun \cup {None}]
    /\ overdue \subseteq Deadlined
    /\ call \in [Callers -> Call \cup {None}]

Exists(w) == workflow[w] # None
Steps(w) == workflow[w].steps
Open(w) == Exists(w) /\ workflow[w].state \notin WorkflowTerminal

\* The deadline of an action approved for w, or outside any workflow.
DueOf(w) == IF w \in Deadlined THEN w ELSE None

Linked(w) == {Steps(w)[i].rev : i \in {j \in DOMAIN Steps(w) : Steps(w)[j].link}}

Current(p) == <<p, plan[p].rev>>

NewStep(p, i) ==
    [rev |-> Current(p), state |-> IF i = 1 THEN "queued" ELSE "blocked",
     link |-> FALSE, rejected |-> FALSE, seen |-> "none"]

Init ==
    /\ workflow = [w \in Workflows |-> None]
    /\ plan = [p \in Plans |-> [rev |-> 1, status |-> "ready"]]
    /\ decision = [x \in Revisions |-> "none"]
    /\ action = [x \in Revisions |-> None]
    /\ overdue = {}
    /\ call = [c \in Callers |-> None]

-----------------------------------------------------------------------------
(* Plans: StorePlan and the clock *)

\* StorePlan appends the next revision of a plan, ready or with conflicts.
StorePlan(p) ==
    /\ p \in Revisable /\ plan[p].rev = 1
    /\ \E status \in {"ready", "blocked"} :
          plan' = [plan EXCEPT ![p] = [rev |-> @.rev + 1, status |-> status]]
    /\ UNCHANGED <<workflow, decision, action, overdue, call>>

PlanExpires(p) ==
    /\ plan[p].status = "ready"
    /\ plan' = [plan EXCEPT ![p].status = "expired"]
    /\ UNCHANGED <<workflow, decision, action, overdue, call>>

DeadlinePasses(w) ==
    /\ w \in Deadlined \ overdue
    /\ Exists(w)
    /\ overdue' = overdue \cup {w}
    /\ UNCHANGED <<workflow, plan, decision, action, call>>

-----------------------------------------------------------------------------
(* Actions, as ActionLife describes them *)

Overdue(x) == action[x].due \in overdue

\* The executor moves an action on.
ActionMoves(x) ==
    /\ action[x] # None
    /\ \E s \in Reached \cap Life!Moves(action[x].state, action[x].cancel, Overdue(x)) :
          action' = [action EXCEPT ![x].state = s]
    /\ UNCHANGED <<workflow, plan, decision, overdue, call>>

\* Mutant of Stopping: only queued actions are asked to stop.
StoppingQueued(act) == [act EXCEPT !.cancel = @ \/ act.state = "queued"]

\* cancellation_requested_at is set once, in a row that has not ended.
Stopping(act) == [act EXCEPT !.cancel = @ \/ act.state \notin Terminal]

\* Somebody cancels one action directly.
CancelAction(x) ==
    /\ action[x] # None
    /\ action' = [action EXCEPT ![x] = Stopping(@)]
    /\ UNCHANGED <<workflow, plan, decision, overdue, call>>

\* cancelLinkedActions
cancelLinkedActions(w) ==
    [x \in Revisions |->
        IF x \in Linked(w) THEN Stopping(action[x]) ELSE action[x]]

-----------------------------------------------------------------------------
(* Create, AddStep *)

\* A workflow over plans each used once.  Whether a plan has expired is judged
\* by a time the caller may give, so only stored states are checked.
Create(w) ==
    /\ ~Exists(w)
    /\ \E n \in 1..MaxSteps : \E ps \in [1..n -> Plans] :
          /\ \A i, j \in 1..n : ps[i] = ps[j] => i = j
          /\ \A i \in 1..n : plan[ps[i]].status # "blocked"
          /\ workflow' = [workflow EXCEPT ![w] =
                [state |-> "awaiting_approval", current |-> 1,
                 steps |-> [i \in 1..n |-> NewStep(ps[i], i)]]]
    /\ UNCHANGED <<plan, decision, action, overdue, call>>

\* AddStep reads its clock and the plan (resolveStep) before its transaction.
AddStepRead(c, w) ==
    /\ call[c] = None
    /\ Exists(w)
    /\ w \notin overdue
    /\ \E p \in Plans :
          /\ plan[p].status = "ready"
          /\ call' = [call EXCEPT ![c] =
                [op |-> "append", workflow |-> w, step |-> 0,
                 rev |-> Current(p), fresh |-> TRUE]]
    /\ UNCHANGED <<workflow, plan, decision, action, overdue>>

\* ensureOpen and verifyPlanInTransaction; an expired plan is stored as ready.
MayAppend(w, x) ==
    /\ Open(w)
    /\ Len(Steps(w)) < MaxSteps
    /\ \A i \in DOMAIN Steps(w) : Steps(w)[i].rev[1] # x[1]
    /\ x = Current(x[1])

AddStep(c) ==
    /\ call[c] # None /\ call[c].op = "append"
    /\ LET w == call[c].workflow
           x == call[c].rev
       IN  IF MayAppend(w, x)
           THEN workflow' = [workflow EXCEPT ![w].steps =
                    Append(@, NewStep(x[1], Len(@) + 1))]
           ELSE UNCHANGED workflow
    /\ call' = [call EXCEPT ![c] = None]
    /\ UNCHANGED <<plan, decision, action, overdue>>

-----------------------------------------------------------------------------
(* Reviews: Approve and its workflow binding *)

\* Mutant of MayBind: the workflow may have been closed since it was read.
MayBindClosed(w, i, x, d) ==
    /\ i \in DOMAIN Steps(w)
    /\ Steps(w)[i].rev = x
    /\ d = "reject" => ~Steps(w)[i].link

\* What ensureWorkflowBinding asks of the workflow and the step.
MayBind(w, i, x, d) ==
    /\ Open(w)
    /\ i \in DOMAIN Steps(w)
    /\ Steps(w)[i].rev = x
    /\ Steps(w)[i].state \in {"queued", "blocked"}
    /\ d = "reject" => ~Steps(w)[i].link

\* The step after the binding; a binding it has already is left alone.
BoundStep(step, d) ==
    CASE d = "approve" /\ ~step.link ->
            [step EXCEPT !.link = TRUE, !.state = "queued"]
      [] d = "reject" /\ ~step.rejected ->
            [step EXCEPT !.rejected = TRUE, !.state = "blocked"]
      [] OTHER -> step

Bind(w, i, d) ==
    workflow' = [workflow EXCEPT
        ![w].steps[i] = BoundStep(@, d),
        ![w].state = IF @ = "awaiting_approval" THEN "running" ELSE @]

\* The revision asked for is the current one and its plan can be approved.
MayDecide(x) == x = Current(x[1])

\* Mutant of Confirm: the deadline of the action is not compared.
ConfirmAnyDeadline(x, d, due) ==
    /\ decision[x] = d
    /\ UNCHANGED <<decision, action>>

\* A decision made before is confirmed, also for another workflow, when it is
\* the same one and its action has that workflow's deadline.
Confirm(x, d, due) ==
    /\ decision[x] = d
    /\ d = "approve" => action[x].due = due
    /\ UNCHANGED <<decision, action>>

\* A first decision; an approval queues the action.
Decide(x, d, due) ==
    /\ decision[x] = "none"
    /\ plan[x[1]].status # "blocked"
    /\ decision' = [decision EXCEPT ![x] = d]
    /\ action' =
          IF d = "approve"
          THEN [action EXCEPT ![x] =
                   [state |-> "queued", cancel |-> FALSE, due |-> due]]
          ELSE action

\* reviews.Approve outside any workflow; confirming changes nothing.
ApproveUnlinked(p) ==
    /\ p \in Unlinked
    /\ plan[p].status = "ready"
    /\ \E d \in {"approve", "reject"} : Decide(Current(p), d, None)
    /\ UNCHANGED <<workflow, plan, overdue, call>>

\* The state of a step as loadWorkflow shows it: that of its action now.
actionStateToStep(s, closed) ==
    CASE closed \in Closed /\ s \notin {"succeeded", "failed"} -> "cancelled"
      [] s = "queued" -> "queued"
      [] s \in {"running", "reconciling", "waiting_dependency"} -> "running"
      [] s = "needs_review" -> "blocked"
      [] s = "succeeded" -> "succeeded"
      [] s = "failed" -> "failed"
      [] OTHER -> "cancelled"

Shown(w, i) ==
    LET step == Steps(w)[i] IN
    IF step.link THEN actionStateToStep(action[step.rev].state, workflow[w].state)
    ELSE step.state

Done == {"succeeded", "skipped"}

\* Mutant of InOrder: any step may be approved.
InOrderAny(w, i) == TRUE

\* The step is the current one, and everything before it is done.
InOrder(w, i) ==
    /\ i = workflow[w].current
    /\ \A j \in 1..(i - 1) : Shown(w, j) \in Done

\* ApproveStep up to its call of reviews: the workflow is read and checked
\* outside the transaction that records the decision.
ApproveStepRead(c, w) ==
    /\ call[c] = None
    /\ Open(w)
    /\ w \notin overdue
    /\ \E i \in DOMAIN Steps(w) :
          /\ InOrder(w, i)
          /\ call' = [call EXCEPT ![c] =
                [op |-> "approve", workflow |-> w, step |-> i,
                 rev |-> Steps(w)[i].rev,
                 fresh |-> plan[Steps(w)[i].rev[1]].status # "expired"]]
    /\ UNCHANGED <<workflow, plan, decision, action, overdue>>

\* The transaction of reviews.Approve for the step that was read.
ApproveStep(c) ==
    /\ call[c] # None /\ call[c].op = "approve"
    /\ LET w == call[c].workflow
           i == call[c].step
           x == call[c].rev
       IN  \E d \in {"approve", "reject"} :
              /\ MayDecide(x)
              /\ MayBind(w, i, x, d)
              /\ \/ Confirm(x, d, DueOf(w))
                 \/ call[c].fresh /\ Decide(x, d, DueOf(w))
              /\ Bind(w, i, d)
    /\ call' = [call EXCEPT ![c] = None]
    /\ UNCHANGED <<plan, overdue>>

\* The caller fails, or the transaction refuses the decision.
ApproveRefused(c) ==
    /\ call[c] # None /\ call[c].op = "approve"
    /\ call' = [call EXCEPT ![c] = None]
    /\ UNCHANGED <<workflow, plan, decision, action, overdue>>

-----------------------------------------------------------------------------
(* Sync: actions projected into steps and workflow *)

\* A linked step follows its action; another one ends with a closed workflow.
ProjectedStep(step, closed) ==
    CASE step.link ->
            [step EXCEPT !.state = actionStateToStep(action[step.rev].state, closed),
                         !.seen = action[step.rev].state]
      [] ~step.link /\ closed \in Closed
                    /\ step.state \in {"queued", "blocked", "running"} ->
            [step EXCEPT !.state = "cancelled"]
      [] OTHER -> step

Projected(w, closed) ==
    [i \in DOMAIN Steps(w) |-> ProjectedStep(Steps(w)[i], closed)]

\* current_step after the steps that are done.
Advanced(steps, current) ==
    LET left == {i \in DOMAIN steps : i >= current /\ steps[i].state \notin Done}
    IN  IF left = {} THEN Len(steps) + 1 ELSE Min(left)

\* The step that has become the current one may be approved.
Requeued(steps, current) ==
    [i \in DOMAIN steps |->
        IF i = current /\ steps[i].state = "blocked" /\ ~steps[i].rejected
        THEN [steps[i] EXCEPT !.state = "queued"] ELSE steps[i]]

\* A step that decides the state of its workflow, whatever follows it.
Decisive(step) ==
    \/ step.state \in {"failed", "cancelled"}
    \/ step.state = "blocked" /\ (step.rejected \/ step.seen = "needs_review")

VerdictOf(step) == IF step.state = "blocked" THEN "needs_review" ELSE step.state

Hinting == {"waiting_dependency", "needs_review", "reconciling"}

HintOf(step) ==
    IF step.seen = "waiting_dependency" THEN "waiting_dependency" ELSE "needs_review"

\* projectAggregate of a workflow that was not closed from outside: the first
\* decisive step, else the last action that waits or needs attention.
Aggregate(steps, current) ==
    LET decisive == {i \in DOMAIN steps : Decisive(steps[i])}
        hints == {i \in DOMAIN steps : steps[i].seen \in Hinting}
    IN  CASE current > Len(steps) -> "succeeded"
          [] current <= Len(steps) /\ steps[current].rejected
                                   /\ steps[current].state = "blocked" -> "needs_review"
          [] OTHER ->
                IF decisive # {} THEN VerdictOf(steps[Min(decisive)])
                ELSE IF hints # {} THEN HintOf(steps[Max(hints)])
                ELSE "running"

\* The workflow row Sync wants to write.
projectAggregate(w, steps, closed) ==
    LET current == Advanced(steps, workflow[w].current)
        requeued == Requeued(steps, current)
    IN  IF closed \in Closed
        THEN [state |-> closed, current |-> workflow[w].current, steps |-> steps]
        ELSE [state |-> Aggregate(requeued, current), current |-> current,
              steps |-> requeued]

\* Mutant of ClosedState: the deadline closes running workflows only.
ClosedStateRunning(w, late) ==
    IF workflow[w].state = "running" /\ late
    THEN "deadline_exceeded" ELSE workflow[w].state

\* What Sync takes the workflow to be: the deadline closes an open one.
ClosedState(w, late) ==
    IF Open(w) /\ late THEN "deadline_exceeded" ELSE workflow[w].state

\* A transition the table does not list fails and rolls everything back.
MaySync(w, next) ==
    next.state = workflow[w].state \/ CanTransitionWorkflow(workflow[w].state, next.state)

\* One Sync; its clock was read before the transaction, so a deadline that has
\* just passed may not count yet.
SyncAt(w, late) ==
    /\ Exists(w)
    /\ \E closed \in {ClosedState(w, late)} :
       \E steps \in {Projected(w, closed)} :
       \E next \in {projectAggregate(w, steps, closed)} :
           /\ MaySync(w, next)
           /\ workflow' = [workflow EXCEPT ![w] = next]
    /\ action' = IF Open(w) /\ late THEN cancelLinkedActions(w) ELSE action
    /\ UNCHANGED <<plan, decision, overdue, call>>

Sync(w) == \E late \in {FALSE, (w \in overdue)} : SyncAt(w, late)

-----------------------------------------------------------------------------
(* Cancel *)

CancelledStep(step) ==
    IF step.state \in {"queued", "blocked", "running"}
    THEN [step EXCEPT !.state = "cancelled"] ELSE step

\* Cancel closes an open workflow, asks its actions to stop and ends its steps;
\* of a workflow that has ended only the last two.
Cancel(w) ==
    /\ w \in Cancellable
    /\ Exists(w)
    /\ workflow' = [workflow EXCEPT
          ![w].state = IF Open(w) THEN "cancelled" ELSE @,
          ![w].steps = [i \in DOMAIN @ |-> CancelledStep(@[i])]]
    /\ action' = cancelLinkedActions(w)
    /\ UNCHANGED <<plan, decision, overdue, call>>

-----------------------------------------------------------------------------
(* Specification *)

Next ==
    \/ \E p \in Plans : StorePlan(p) \/ PlanExpires(p) \/ ApproveUnlinked(p)
    \/ \E x \in Revisions : ActionMoves(x) \/ CancelAction(x)
    \/ \E w \in Workflows : Create(w) \/ Sync(w) \/ Cancel(w) \/ DeadlinePasses(w)
    \/ \E c \in Callers :
          \/ \E w \in Workflows : AddStepRead(c, w) \/ ApproveStepRead(c, w)
          \/ AddStep(c) \/ ApproveStep(c) \/ ApproveRefused(c)

Spec == Init /\ [][Next]_vars

\* Someone polls every workflow, with a clock that is right when it settles.
Fairness == \A w \in Workflows : WF_vars(SyncAt(w, (w \in overdue)))

FairSpec == Spec /\ Fairness

-----------------------------------------------------------------------------
(* Properties *)

\* A step gets an action only when the actions of all the steps before it have
\* succeeded: the order is checked on a workflow read before the transaction
\* that links the action, while other callers approve, append, sync and cancel.
\* And success is never claimed for less than all steps.
StepsInOrder ==
    \A w \in Workflows : Exists(w) =>
        LET StepDone(j) == Steps(w)[j].link /\ action[Steps(w)[j].rev].state = "succeeded" IN
        /\ \A i \in DOMAIN Steps(w) : Steps(w)[i].link => \A j \in 1..(i - 1) : StepDone(j)
        /\ workflow[w].state = "succeeded" => \A j \in DOMAIN Steps(w) : StepDone(j)

\* Nothing of a workflow that was cancelled, failed or ran out of time can
\* start any more: each of its actions has ended or has been asked to stop, and
\* a stopped action is never claimed (ActionLife).
ClosedIsFenced ==
    \A w \in Workflows :
        Exists(w) /\ workflow[w].state \in WorkflowTerminal =>
            \A x \in Linked(w) : action[x].state \in Terminal \/ action[x].cancel

\* Decision, action and step agree: an action exists exactly for an approved
\* revision, a linked step has one with the workflow's own deadline, and a
\* rejected step has none, whichever workflows share the plan.  The rows stay
\* well formed.
ApprovalsAgree ==
    /\ TypeOK
    /\ \A x \in Revisions : (action[x] # None) <=> (decision[x] = "approve")
    /\ \A w \in Workflows : Exists(w) =>
          \A i \in DOMAIN Steps(w) :
             LET s == Steps(w)[i] IN
             /\ s.link => action[s.rev] # None /\ action[s.rev].due = DueOf(w)
             /\ s.rejected => decision[s.rev] = "reject"

\* A workflow that has ended keeps its state, its steps and their links.
EndedIsFinal ==
    [][\A w \in Workflows :
          Exists(w) /\ ~Open(w) =>
              /\ workflow'[w].state = workflow[w].state
              /\ DOMAIN workflow'[w].steps = DOMAIN Steps(w)
              /\ \A i \in DOMAIN Steps(w) :
                    workflow'[w].steps[i].link = Steps(w)[i].link]_vars

\* A passed deadline closes the workflow, whatever state it is in.
DeadlineCloses ==
    \A w \in Workflows : w \in overdue ~> (Exists(w) /\ ~Open(w))

\* When the action of a step that is not the last has succeeded, the workflow
\* moves past that step, or has ended.
StepAdvances ==
    \A w \in Workflows : \A i \in 1..(MaxSteps - 1) :
        (Exists(w) /\ i < Len(Steps(w)) /\ Steps(w)[i].link
                   /\ action[Steps(w)[i].rev].state = "succeeded")
        ~> (Exists(w) /\ (workflow[w].current > i \/ ~Open(w)))
=============================================================================
