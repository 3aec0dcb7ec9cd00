--------------------------- MODULE WorkflowsProofs ---------------------------
(***************************************************************************)
(* Proofs about Workflows for every set of workflows, plans and callers and  *)
(* every number of steps: steps get their actions in order, a workflow that  *)
(* has ended leaves none of them going, decisions and actions agree.         *)
(*                                                                         *)
(* RunGood says what holds of one workflow with its actions; RunKept what a  *)
(* step may do to actions and decisions so that it still holds of a workflow *)
(* that is left alone, and one lemma for each operation that it holds of the *)
(* workflow the operation writes.                                            *)
(***************************************************************************)
EXTENDS Workflows, FiniteSetTheorems, TLAPS

-----------------------------------------------------------------------------
(* The inductive invariant *)

\* The action act asks nothing more of the worker.
Stopped(act) == act.state \in Terminal \/ act.cancel

\* The action of step i has succeeded.
StepDone(run, acts, i) == run.steps[i].link /\ acts[run.steps[i].rev].state = "succeeded"

\* The states of a step that has no action.
Unlinkable(run) ==
    {"queued", "blocked"} \cup (IF run.state \in WorkflowTerminal THEN {"cancelled"} ELSE {})

\* Steps are done up to current_step, and linked only behind steps that are.
Ordered(run, acts) ==
    /\ run.current <= Len(run.steps) + 1
    /\ \A i \in DOMAIN run.steps :
        /\ i < run.current => StepDone(run, acts, i)
        /\ run.steps[i].link => \A j \in 1..(i - 1) : StepDone(run, acts, j)
        /\ ~run.steps[i].link => run.steps[i].state \in Unlinkable(run)

\* Each step agrees with the decision and the action of its revision.
Agreed(run, acts, decisions, due) ==
    \A i \in DOMAIN run.steps :
        LET x == run.steps[i].rev IN
        /\ run.steps[i].link => acts[x] # None /\ acts[x].due = due
        /\ run.steps[i].rejected => decisions[x] = "reject"

\* Success is the success of every step, and no end leaves an action going.
Ended(run, acts) ==
    /\ run.state = "succeeded" => \A i \in DOMAIN run.steps : StepDone(run, acts, i)
    /\ run.state \in WorkflowTerminal =>
        \A i \in DOMAIN run.steps : run.steps[i].link => Stopped(acts[run.steps[i].rev])

RunGood(run, acts, decisions, due) ==
    /\ run \in WorkflowRun
    /\ Ordered(run, acts)
    /\ Agreed(run, acts, decisions, due)
    /\ Ended(run, acts)

\* What an approval has read stays true: the step keeps its revision, and the
\* steps before it are done.
CallGood(c) ==
    c # None /\ c.op = "approve" =>
        /\ workflow[c.workflow] # None
        /\ c.step \in DOMAIN workflow[c.workflow].steps
        /\ c.rev = workflow[c.workflow].steps[c.step].rev
        /\ \A j \in 1..(c.step - 1) : StepDone(workflow[c.workflow], action, j)

IInv ==
    /\ TypeOK
    /\ \A p \in Plans : plan[p].rev = 2 => p \in Revisable
    /\ \A x \in Revisions : action[x] # None <=> decision[x] = "approve"
    /\ \A w \in Workflows :
        workflow[w] # None => RunGood(workflow[w], action, decision, DueOf(w))
    /\ \A c \in Callers : CallGood(call[c])

-----------------------------------------------------------------------------
(* Lemmas *)

\* A set of naturals that is not empty has a least element: of the intervals
\* that end in it, one contains no other.
LEMMA MinIsLeast ==
    ASSUME NEW S, S \subseteq Nat, S # {}
    PROVE  Min(S) \in S /\ \A j \in S : Min(S) <= j
<1> DEFINE F == {0..j : j \in S}
           R == StrictSubsetOrdering(Nat)
<1>1. \A j \in S : IsFiniteSet(0..j) /\ 0..j \subseteq Nat
    BY FS_Interval
<1>2. F \subseteq FiniteSubsetsOf(Nat) /\ F # {}
    BY <1>1 DEF FiniteSubsetsOf
<1>3. IsWellFoundedOn(R, FiniteSubsetsOf(Nat))
    BY FS_StrictSubsetOrderingWellFounded
<1> HIDE DEF R
<1>4. PICK x \in F : \A y \in F : ~(<<y, x>> \in R)
    BY <1>2, <1>3, WFMin
<1>5. PICK m \in S : x = 0..m
    OBVIOUS
<1>6. ASSUME NEW j \in S, j < m PROVE FALSE
    <2>1. 0..j \in F /\ 0..j \subseteq 0..m /\ m \in 0..m /\ m \notin 0..j
        BY <1>6
    <2>2. 0..j \in SUBSET Nat /\ 0..m \in SUBSET Nat /\ 0..j # 0..m
        BY <2>1
    <2>3. <<0..j, x>> \in R
        BY <1>5, <2>1, <2>2 DEF R, StrictSubsetOrdering
    <2> QED
        BY <1>4, <2>1, <2>3
<1>7. \A j \in S : m <= j
    BY <1>6
<1> QED
    BY <1>7 DEF Min

\* The steps of a workflow are a list of rows.
LEMMA StepRows ==
    ASSUME NEW run \in WorkflowRun
    PROVE  /\ run.steps \in Seq(Step) /\ Len(run.steps) \in Nat
           /\ DOMAIN run.steps = 1..Len(run.steps)
           /\ \A i \in DOMAIN run.steps :
                /\ run.steps[i] \in Step /\ run.steps[i].rev \in Revisions
                /\ i \in Nat \ {0}
                /\ \A j \in 1..(i - 1) : j \in DOMAIN run.steps
           /\ run.current \in Nat /\ run.state \in WorkflowState
<1>1. /\ run.steps \in Seq(Step) /\ run.current \in Nat /\ run.state \in WorkflowState
      /\ Len(run.steps) \in Nat /\ DOMAIN run.steps = 1..Len(run.steps)
    BY DEF WorkflowRun
<1>2. \A i \in DOMAIN run.steps : run.steps[i] \in Step
    BY <1>1
<1>3. \A i \in DOMAIN run.steps : run.steps[i].rev \in Revisions
    BY <1>2 DEF Step
<1> QED
    BY <1>1, <1>2, <1>3

\* A list with the positions of another one.
LEMMA SameLength ==
    ASSUME NEW s \in Seq(Step), NEW f, f = [i \in DOMAIN s |-> f[i]],
           \A i \in DOMAIN s : f[i] \in Step
    PROVE  f \in Seq(Step) /\ Len(f) = Len(s) /\ DOMAIN f = DOMAIN s
<1>1. DOMAIN s = 1..Len(s) /\ Len(s) \in Nat
    OBVIOUS
<1> QED
    BY <1>1

-----------------------------------------------------------------------------
(* What is left alone *)

\* What a step may do to actions and decisions: those that are there stay, with
\* their deadline; success and a stop are kept.
GoOn ==
    \A x \in Revisions :
        /\ action[x] # None =>
            /\ action'[x] # None /\ action'[x].due = action[x].due
            /\ action[x].state = "succeeded" => action'[x].state = "succeeded"
            /\ Stopped(action[x]) => Stopped(action'[x])
        /\ decision[x] = "reject" => decision'[x] = "reject"

\* A step of one workflow keeps its place and its revision, and a link it has.
StepsKept(old, new) ==
    \A i \in DOMAIN old.steps :
        /\ i \in DOMAIN new.steps
        /\ new.steps[i].rev = old.steps[i].rev
        /\ old.steps[i].link => new.steps[i].link

LEMMA DoneKept ==
    ASSUME GoOn, NEW run, NEW due, RunGood(run, action, decision, due),
           NEW new, StepsKept(run, new), NEW i \in DOMAIN run.steps,
           StepDone(run, action, i)
    PROVE  StepDone(new, action', i)
<1>1. run.steps[i].rev \in Revisions /\ run.steps[i].link
    BY StepRows DEF RunGood, StepDone
<1>2. action[run.steps[i].rev] # None
    BY <1>1 DEF RunGood, Agreed
<1> QED
    BY <1>1, <1>2 DEF GoOn, StepsKept, StepDone

\* A workflow that is left alone stays good.
LEMMA RunKept ==
    ASSUME GoOn, NEW run, NEW due, RunGood(run, action, decision, due)
    PROVE  RunGood(run, action', decision', due)
<1>1. run \in WorkflowRun
    BY DEF RunGood
<1>2. \A i \in DOMAIN run.steps :
        /\ run.steps[i].rev \in Revisions
        /\ \A j \in 1..(i - 1) : j \in DOMAIN run.steps
        /\ run.steps[i].link => action[run.steps[i].rev] # None
        /\ StepDone(run, action, i) => StepDone(run, action', i)
    BY <1>1, StepRows, DoneKept DEF RunGood, Agreed, StepsKept
<1>3. Ordered(run, action')
    BY <1>2 DEF RunGood, Ordered
<1>4. Agreed(run, action', decision', due)
    BY <1>2 DEF RunGood, Agreed, GoOn
<1>5. Ended(run, action')
    BY <1>2 DEF RunGood, Ended, GoOn
<1> QED
    BY <1>1, <1>3, <1>4, <1>5 DEF RunGood

\* What an approval has read stays true while steps and actions go on.
LEMMA CallKept ==
    ASSUME IInv, GoOn, NEW k \in Call \cup {None}, CallGood(k),
           \A w \in Workflows : workflow[w] # None =>
                workflow'[w] # None /\ StepsKept(workflow[w], workflow'[w])
    PROVE  CallGood(k)'
<1> SUFFICES ASSUME k # None, k.op = "approve"
             PROVE  /\ workflow'[k.workflow] # None
                    /\ k.step \in DOMAIN workflow'[k.workflow].steps
                    /\ k.rev = workflow'[k.workflow].steps[k.step].rev
                    /\ \A j \in 1..(k.step - 1) : StepDone(workflow'[k.workflow], action', j)
    BY DEF CallGood
<1>1. k.workflow \in Workflows
    BY DEF Call
<1>2. PICK w \in Workflows : w = k.workflow
    BY <1>1
<1>3. /\ workflow[w] # None /\ k.step \in DOMAIN workflow[w].steps
      /\ k.rev = workflow[w].steps[k.step].rev
      /\ \A j \in 1..(k.step - 1) : StepDone(workflow[w], action, j)
    BY <1>2 DEF CallGood
<1>4. /\ RunGood(workflow[w], action, decision, DueOf(w))
      /\ workflow'[w] # None /\ StepsKept(workflow[w], workflow'[w])
    BY <1>3 DEF IInv
<1>5. \A j \in 1..(k.step - 1) : j \in DOMAIN workflow[w].steps
    BY <1>3, <1>4, StepRows DEF RunGood
<1>6. \A j \in 1..(k.step - 1) : StepDone(workflow'[w], action', j)
    BY <1>3, <1>4, <1>5, DoneKept
<1> QED
    BY <1>2, <1>3, <1>4, <1>6 DEF StepsKept

\* What a step has to keep for the invariant.
LEMMA Kept ==
    ASSUME IInv, GoOn, TypeOK',
           \A p \in Plans : plan'[p].rev = 2 => p \in Revisable,
           \A x \in Revisions : action'[x] # None <=> decision'[x] = "approve",
           \A w \in Workflows :
                /\ workflow'[w] = workflow[w] \/ RunGood(workflow'[w], action', decision', DueOf(w))
                /\ workflow[w] # None =>
                        workflow'[w] # None /\ StepsKept(workflow[w], workflow'[w]),
           \A c \in Callers : call'[c] \in {call[c], None} \/ CallGood(call[c])'
    PROVE  IInv'
<1>1. ASSUME NEW w \in Workflows, workflow'[w] # None
      PROVE  RunGood(workflow'[w], action', decision', DueOf(w))
    <2>1. CASE workflow'[w] = workflow[w]
        BY <1>1, <2>1, RunKept DEF IInv
    <2> QED
        BY <2>1
<1>2. ASSUME NEW c \in Callers PROVE CallGood(call[c])'
    <2>1. CASE call'[c] = call[c]
        <3>1. PICK k \in Call \cup {None} : k = call[c]
            BY DEF IInv, TypeOK
        <3>2. CallGood(k)
            BY <3>1 DEF IInv
        <3>3. CallGood(k)'
            BY <3>2, CallKept
        <3> QED
            BY <2>1, <3>1, <3>3 DEF CallGood
    <2>2. CASE call'[c] = None
        BY <2>2 DEF CallGood
    <2> QED
        BY <2>1, <2>2
<1>3. \A w \in Workflows : DueOf(w)' = DueOf(w)
    BY DEF DueOf
<1> QED
    BY <1>1, <1>2, <1>3 DEF IInv

\* Steps that touch no workflow keep their place.
LEMMA SameSteps == \A run : StepsKept(run, run)
BY DEF StepsKept

\* A step that writes one workflow, and ends at most one call.
LEMMA WriteKept ==
    ASSUME IInv, GoOn, NEW w \in Workflows, NEW run \in WorkflowRun,
           workflow' = [workflow EXCEPT ![w] = run],
           RunGood(run, action', decision', DueOf(w)),
           workflow[w] # None => StepsKept(workflow[w], run),
           UNCHANGED <<plan, overdue>>,
           action' \in [Revisions -> ActionRun \cup {None}],
           decision' \in [Revisions -> {"none", "approve", "reject"}],
           \A x \in Revisions : action'[x] # None <=> decision'[x] = "approve",
           call' \in [Callers -> Call \cup {None}],
           \A c \in Callers : call'[c] \in {call[c], None}
    PROVE  IInv'
<1>1. \A v \in Workflows : workflow'[v] = IF v = w THEN run ELSE workflow[v]
    BY DEF IInv, TypeOK
<1>2. TypeOK'
    BY DEF IInv, TypeOK
<1>3. run # None
    BY WorkflowsAssumption
<1>4. \A v \in Workflows :
        /\ workflow'[v] = workflow[v] \/ RunGood(workflow'[v], action', decision', DueOf(v))
        /\ workflow[v] # None =>
                workflow'[v] # None /\ StepsKept(workflow[v], workflow'[v])
    BY <1>1, <1>3, SameSteps
<1>5. \A p \in Plans : plan'[p].rev = 2 => p \in Revisable
    BY DEF IInv
<1> QED
    BY <1>2, <1>4, <1>5, Kept

\* A step that touches no workflow and no call.
LEMMA ActionKept ==
    ASSUME IInv, GoOn, UNCHANGED <<workflow, plan, overdue, call>>,
           action' \in [Revisions -> ActionRun \cup {None}],
           decision' \in [Revisions -> {"none", "approve", "reject"}],
           \A x \in Revisions : action'[x] # None <=> decision'[x] = "approve"
    PROVE  IInv'
<1>1. TypeOK' /\ \A p \in Plans : plan'[p].rev = 2 => p \in Revisable
    BY DEF IInv, TypeOK
<1> QED
    BY <1>1, Kept, SameSteps

LEMMA SameActions ==
    ASSUME IInv, action' = action, decision' = decision
    PROVE  /\ GoOn
           /\ action' \in [Revisions -> ActionRun \cup {None}]
           /\ decision' \in [Revisions -> {"none", "approve", "reject"}]
           /\ \A x \in Revisions : action'[x] # None <=> decision'[x] = "approve"
BY DEF GoOn, IInv, TypeOK

-----------------------------------------------------------------------------
(* Plans and actions *)

\* An action that has ended does not move.
LEMMA EndedStays ==
    ASSUME NEW s \in Terminal, NEW c, NEW o
    PROVE  Life!Moves(s, c, o) = {}
<1>1. Life!Claimed(s, c, o) = {}
    BY DEF Life!Claimed, Life!Claimable, Terminal
<1>2. \A n \in Life!ActionState : ~Life!CanTransition(s, n) /\ s # "running"
    BY DEF Life!CanTransition, Life!actionTransitions, Life!ActionState, Terminal
<1>3. Life!Settled(s, c, o) = {}
    BY <1>2 DEF Life!Settled
<1> QED
    BY <1>1, <1>3 DEF Life!Moves

LEMMA PlanSteps ==
    ASSUME IInv, NEW p \in Plans, StorePlan(p) \/ PlanExpires(p)
    PROVE  IInv'
<1>1. UNCHANGED <<workflow, decision, action, overdue, call>>
    BY DEF StorePlan, PlanExpires
<1>2. /\ plan \in [Plans -> [rev : {1, 2}, status : PlanStatus]]
      /\ \A q \in Plans : plan[q].rev = 2 => q \in Revisable
    BY DEF IInv, TypeOK
<1>3. /\ plan' \in [Plans -> [rev : {1, 2}, status : PlanStatus]]
      /\ \A q \in Plans : plan'[q].rev = 2 => q \in Revisable
    <2>1. CASE StorePlan(p)
        <3>1. PICK status \in {"ready", "blocked"} :
                plan' = [plan EXCEPT ![p] = [rev |-> plan[p].rev + 1, status |-> status]]
            BY <2>1 DEF StorePlan
        <3>2. plan[p].rev + 1 = 2 /\ p \in Revisable
            BY <2>1 DEF StorePlan
        <3>3. [rev |-> plan[p].rev + 1, status |-> status] \in [rev : {1, 2}, status : PlanStatus]
            BY <3>2 DEF PlanStatus
        <3> QED
            BY <1>2, <3>1, <3>2, <3>3
    <2>2. CASE PlanExpires(p)
        <3>1. plan' = [plan EXCEPT ![p] = [plan[p] EXCEPT !.status = "expired"]]
            BY <2>2 DEF PlanExpires
        <3>2. /\ [plan[p] EXCEPT !.status = "expired"] \in [rev : {1, 2}, status : PlanStatus]
              /\ [plan[p] EXCEPT !.status = "expired"].rev = plan[p].rev
            BY <1>2 DEF PlanStatus
        <3> QED
            BY <1>2, <3>1, <3>2
    <2> QED
        BY <2>1, <2>2
<1>4. TypeOK'
    BY <1>1, <1>3 DEF IInv, TypeOK
<1> QED
    BY <1>1, <1>3, <1>4, SameActions, SameSteps, Kept

LEMMA DeadlineStep ==
    ASSUME IInv, NEW w \in Workflows, DeadlinePasses(w)
    PROVE  IInv'
<1>1. UNCHANGED <<workflow, plan, decision, action, call>> /\ overdue' \subseteq Deadlined
    BY DEF DeadlinePasses, IInv, TypeOK
<1>2. TypeOK' /\ \A q \in Plans : plan'[q].rev = 2 => q \in Revisable
    BY <1>1 DEF IInv, TypeOK
<1> QED
    BY <1>1, <1>2, SameActions, SameSteps, Kept

\* One action goes on, or is asked to stop.
LEMMA OneActionKept ==
    ASSUME IInv, NEW x \in Revisions, action[x] # None,
           NEW act \in ActionRun, act.due = action[x].due,
           action[x].state = "succeeded" => act.state = "succeeded",
           Stopped(action[x]) => Stopped(act),
           action' = [action EXCEPT ![x] = act],
           UNCHANGED <<workflow, plan, decision, overdue, call>>
    PROVE  IInv'
<1>1. /\ action \in [Revisions -> ActionRun \cup {None}]
      /\ decision \in [Revisions -> {"none", "approve", "reject"}]
      /\ \A y \in Revisions : action[y] # None <=> decision[y] = "approve"
    BY DEF IInv, TypeOK
<1>2. \A y \in Revisions : action'[y] = IF y = x THEN act ELSE action[y]
    BY <1>1
<1>3. act # None
    BY WorkflowsAssumption
<1>4. GoOn
    BY <1>2, <1>3 DEF GoOn
<1>5. /\ action' \in [Revisions -> ActionRun \cup {None}]
      /\ \A y \in Revisions : action'[y] # None <=> decision'[y] = "approve"
    BY <1>1, <1>2, <1>3
<1> QED
    BY <1>1, <1>4, <1>5, ActionKept

LEMMA StoppingStops ==
    ASSUME NEW act \in ActionRun
    PROVE  LET s == Stopping(act) IN
           s \in ActionRun /\ Stopped(s) /\ s.due = act.due /\ s.state = act.state
BY DEF Stopping, ActionRun, Stopped

LEMMA ActionSteps ==
    ASSUME IInv, NEW x \in Revisions, ActionMoves(x) \/ CancelAction(x)
    PROVE  IInv'
<1>1. action[x] # None /\ action[x] \in ActionRun
    BY DEF ActionMoves, CancelAction, IInv, TypeOK
<1>2. CASE ActionMoves(x)
    <2>1. PICK s \in Reached \cap Life!Moves(action[x].state, action[x].cancel, Overdue(x)) :
            action' = [action EXCEPT ![x].state = s]
        BY <1>2 DEF ActionMoves
    <2>2. action[x].state \notin Terminal /\ s \in ActionState
        BY <2>1, EndedStays, WorkflowsAssumption
    <2> DEFINE act == [action[x] EXCEPT !.state = s]
    <2>3. /\ act \in ActionRun /\ act.due = action[x].due /\ act.cancel = action[x].cancel
        BY <1>1, <2>2 DEF ActionRun
    <2>4. action' = [action EXCEPT ![x] = act]
        BY <2>1
    <2>5. /\ action[x].state = "succeeded" => act.state = "succeeded"
          /\ Stopped(action[x]) => Stopped(act)
        BY <2>2, <2>3 DEF Stopped, Terminal
    <2>6. UNCHANGED <<workflow, plan, decision, overdue, call>>
        BY <1>2 DEF ActionMoves
    <2> HIDE DEF act
    <2> QED
        BY <1>1, <2>3, <2>4, <2>5, <2>6, OneActionKept
<1>3. CASE CancelAction(x)
    <2>1. /\ action' = [action EXCEPT ![x] = Stopping(action[x])]
          /\ UNCHANGED <<workflow, plan, decision, overdue, call>>
        BY <1>3 DEF CancelAction
    <2> QED
        BY <1>1, <2>1, StoppingStops, OneActionKept
<1> QED
    BY <1>2, <1>3

-----------------------------------------------------------------------------
(* Create and AddStep *)

\* The current revision of a plan exists.
LEMMA CurrentExists ==
    ASSUME IInv, NEW p \in Plans
    PROVE  Current(p) \in Revisions /\ Current(p)[1] = p
<1>1. plan[p].rev \in {1, 2} /\ (plan[p].rev = 2 => p \in Revisable)
    BY DEF IInv, TypeOK
<1> QED
    BY <1>1 DEF Current, Revisions

LEMMA NewStepRow ==
    ASSUME IInv, NEW p \in Plans, NEW i
    PROVE  LET s == NewStep(p, i) IN
           /\ s \in Step /\ s.state \in {"queued", "blocked"} /\ ~s.link /\ ~s.rejected
BY CurrentExists DEF NewStep, Step, StepState

LEMMA CreateKeeps ==
    ASSUME IInv, NEW w \in Workflows, Create(w)
    PROVE  IInv'
<1>1. PICK n \in 1..MaxSteps : \E ps \in [1..n -> Plans] :
        workflow' = [workflow EXCEPT ![w] =
            [state |-> "awaiting_approval", current |-> 1,
             steps |-> [i \in 1..n |-> NewStep(ps[i], i)]]]
    BY DEF Create
<1>2. PICK ps \in [1..n -> Plans] :
        workflow' = [workflow EXCEPT ![w] =
            [state |-> "awaiting_approval", current |-> 1,
             steps |-> [i \in 1..n |-> NewStep(ps[i], i)]]]
    BY <1>1
<1> DEFINE steps == [i \in 1..n |-> NewStep(ps[i], i)]
           run == [state |-> "awaiting_approval", current |-> 1, steps |-> steps]
<1>3. \A i \in 1..n : /\ steps[i] \in Step /\ steps[i].state \in {"queued", "blocked"}
                      /\ ~steps[i].link /\ ~steps[i].rejected
    <2> SUFFICES ASSUME NEW i \in 1..n
                 PROVE  LET s == NewStep(ps[i], i) IN
                        /\ s \in Step /\ s.state \in {"queued", "blocked"}
                        /\ ~s.link /\ ~s.rejected
        OBVIOUS
    <2>1. ps[i] \in Plans
        OBVIOUS
    <2> QED
        BY <2>1, NewStepRow
<1>4. steps \in Seq(Step) /\ Len(steps) = n /\ DOMAIN steps = 1..n /\ n \in Nat
    <2>1. n \in Nat /\ \A i \in 1..n : steps[i] \in Step
        BY <1>3, WorkflowsAssumption
    <2> QED
        BY <2>1
<1> HIDE DEF steps
<1>5. /\ run \in WorkflowRun /\ run.steps = steps
      /\ run.state = "awaiting_approval" /\ run.current = 1
    BY <1>4 DEF WorkflowRun, WorkflowState
<1>6. workflow' = [workflow EXCEPT ![w] = run]
    BY <1>2 DEF steps
<1> HIDE DEF run
<1>7. Ordered(run, action')
    BY <1>3, <1>4, <1>5 DEF Ordered, Unlinkable
<1>8. Agreed(run, action', decision', DueOf(w)) /\ Ended(run, action')
    BY <1>3, <1>4, <1>5 DEF Agreed, Ended, WorkflowTerminal
<1>9. RunGood(run, action', decision', DueOf(w))
    BY <1>5, <1>7, <1>8 DEF RunGood
<1>10. workflow[w] = None /\ UNCHANGED <<plan, decision, action, overdue, call>>
    BY DEF Create, Exists
<1>11. /\ call' \in [Callers -> Call \cup {None}]
       /\ \A c \in Callers : call'[c] \in {call[c], None}
    BY <1>10 DEF IInv, TypeOK
<1>12. /\ GoOn /\ action' \in [Revisions -> ActionRun \cup {None}]
       /\ decision' \in [Revisions -> {"none", "approve", "reject"}]
       /\ \A x \in Revisions : action'[x] # None <=> decision'[x] = "approve"
    BY <1>10, SameActions
<1> QED
    BY <1>5, <1>6, <1>9, <1>10, <1>11, <1>12, WriteKept

\* A caller has read something, or has given up.
LEMMA CallSteps ==
    ASSUME IInv, NEW c \in Callers, NEW k \in Call \cup {None},
           call' = [call EXCEPT ![c] = k], k # None => CallGood(k),
           UNCHANGED <<workflow, plan, decision, action, overdue>>
    PROVE  IInv'
<1>1. TypeOK' /\ \A q \in Plans : plan'[q].rev = 2 => q \in Revisable
    BY DEF IInv, TypeOK
<1>2. call \in [Callers -> Call \cup {None}]
    BY DEF IInv, TypeOK
<1>3. ASSUME NEW b \in Callers PROVE call'[b] \in {call[b], None} \/ CallGood(call[b])'
    <2>1. CASE b = c /\ k # None
        <3>1. CallGood(k)'
            BY <2>1, SameActions, SameSteps, CallKept
        <3> QED
            BY <1>2, <2>1, <3>1 DEF CallGood
    <2> QED
        BY <1>2, <2>1
<1> QED
    BY <1>1, <1>3, SameActions, SameSteps, Kept

LEMMA AddStepReadKeeps ==
    ASSUME IInv, NEW c \in Callers, NEW w \in Workflows, AddStepRead(c, w)
    PROVE  IInv'
<1>1. PICK p \in Plans : call' = [call EXCEPT ![c] =
            [op |-> "append", workflow |-> w, step |-> 0, rev |-> Current(p), fresh |-> TRUE]]
    BY DEF AddStepRead
<1> DEFINE k == [op |-> "append", workflow |-> w, step |-> 0, rev |-> Current(p), fresh |-> TRUE]
<1>2. k \in Call /\ k.op = "append"
    BY CurrentExists DEF Call
<1>3. CallGood(k)
    BY <1>2 DEF CallGood
<1>4. UNCHANGED <<workflow, plan, decision, action, overdue>>
    BY DEF AddStepRead
<1> QED
    BY <1>1, <1>2, <1>3, <1>4, CallSteps

LEMMA ApproveRefusedKeeps ==
    ASSUME IInv, NEW c \in Callers, ApproveRefused(c)
    PROVE  IInv'
BY CallSteps DEF ApproveRefused

\* An open workflow with one more step, that has no action yet.
LEMMA AppendGood ==
    ASSUME NEW run, NEW acts, NEW decs, NEW due, RunGood(run, acts, decs, due),
           run.state \notin WorkflowTerminal,
           NEW s \in Step, s.state \in {"queued", "blocked"}, ~s.link, ~s.rejected
    PROVE  LET new == [run EXCEPT !.steps = Append(run.steps, s)] IN
           RunGood(new, acts, decs, due) /\ StepsKept(run, new)
<1> DEFINE steps == Append(run.steps, s)
           new == [run EXCEPT !.steps = steps]
           n == Len(run.steps)
<1>1. run \in WorkflowRun
    BY DEF RunGood
<1>2. /\ n \in Nat /\ run.steps \in Seq(Step) /\ DOMAIN run.steps = 1..n
      /\ run.current \in Nat
    BY <1>1, StepRows
<1>3. /\ steps \in Seq(Step) /\ Len(steps) = n + 1 /\ DOMAIN steps = 1..(n + 1)
      /\ \A i \in 1..n : steps[i] = run.steps[i]
      /\ steps[n + 1] = s
    BY <1>2
<1> HIDE DEF steps
<1>4. /\ new \in WorkflowRun /\ new.steps = steps /\ new.state = run.state
      /\ new.current = run.current
    BY <1>1, <1>3 DEF WorkflowRun
<1> HIDE DEF new, n
<1>5. \A i \in DOMAIN new.steps : i \in 1..n \/ i = n + 1
    BY <1>2, <1>3, <1>4
<1>6. \A i \in 1..n : StepDone(run, acts, i) => StepDone(new, acts, i)
    BY <1>3, <1>4 DEF StepDone
<1>7. Ordered(new, acts)
    <2>1. new.current <= Len(new.steps) + 1 /\ new.current <= n + 1
        BY <1>2, <1>3, <1>4 DEF RunGood, Ordered, n
    <2>2. ASSUME NEW i \in 1..n
          PROVE  /\ i < new.current => StepDone(new, acts, i)
                 /\ new.steps[i].link => \A j \in 1..(i - 1) : StepDone(new, acts, j)
                 /\ ~new.steps[i].link => new.steps[i].state \in Unlinkable(new)
        <3>1. \A j \in 1..(i - 1) : j \in 1..n
            BY <1>2
        <3>2. Unlinkable(new) = Unlinkable(run)
            BY <1>4 DEF Unlinkable
        <3> QED
            BY <1>2, <1>3, <1>4, <1>6, <3>1, <3>2 DEF RunGood, Ordered
    <2>3. new.steps[n + 1] = s /\ s.state \in Unlinkable(new) /\ ~(n + 1 < new.current)
        BY <1>2, <1>3, <1>4, <2>1 DEF Unlinkable
    <2> QED
        BY <1>5, <2>1, <2>2, <2>3 DEF Ordered
<1>8. Agreed(new, acts, decs, due)
    BY <1>2, <1>3, <1>4, <1>5 DEF RunGood, Agreed
<1>9. Ended(new, acts)
    BY <1>4 DEF Ended, WorkflowTerminal
<1>10. RunGood(new, acts, decs, due)
    BY <1>4, <1>7, <1>8, <1>9 DEF RunGood
<1>11. StepsKept(run, new)
    BY <1>2, <1>3, <1>4 DEF StepsKept
<1> QED
    BY <1>10, <1>11 DEF new, steps

LEMMA AddStepKeeps ==
    ASSUME IInv, NEW c \in Callers, AddStep(c)
    PROVE  IInv'
<1>1. /\ call[c] # None /\ call[c] \in Call
      /\ call' = [call EXCEPT ![c] = None]
      /\ UNCHANGED <<plan, decision, action, overdue>>
    BY DEF AddStep, IInv, TypeOK
<1>2. PICK w \in Workflows : w = call[c].workflow
    BY <1>1 DEF Call
<1>3. PICK x \in Revisions : x = call[c].rev
    BY <1>1 DEF Call
<1>4. IF MayAppend(w, x)
      THEN workflow' = [workflow EXCEPT ![w].steps =
                Append(@, NewStep(x[1], Len(@) + 1))]
      ELSE UNCHANGED workflow
    BY <1>2, <1>3 DEF AddStep
<1>5. CASE ~MayAppend(w, x)
    BY <1>1, <1>4, <1>5, CallSteps
<1>6. CASE MayAppend(w, x)
    <2> DEFINE run == workflow[w]
               s == NewStep(x[1], Len(run.steps) + 1)
               new == [run EXCEPT !.steps = Append(run.steps, s)]
    <2>1. /\ run # None /\ run.state \notin WorkflowTerminal
          /\ RunGood(run, action, decision, DueOf(w))
        BY <1>6 DEF MayAppend, Open, Exists, IInv
    <2>2. x[1] \in Plans
        BY WorkflowsAssumption DEF Revisions
    <2>3. s \in Step /\ s.state \in {"queued", "blocked"} /\ ~s.link /\ ~s.rejected
        BY <2>2, NewStepRow
    <2>4. workflow' = [workflow EXCEPT ![w] = new]
        BY <1>4, <1>6
    <2> HIDE DEF s
    <2>5. RunGood(new, action, decision, DueOf(w)) /\ StepsKept(run, new)
        BY <2>1, <2>3, AppendGood
    <2>6. new \in WorkflowRun
        BY <2>5 DEF RunGood
    <2>7. RunGood(new, action', decision', DueOf(w))
        BY <1>1, <2>5
    <2> HIDE DEF new
    <2>8. /\ call' \in [Callers -> Call \cup {None}]
          /\ \A b \in Callers : call'[b] \in {call[b], None}
        BY <1>1 DEF IInv, TypeOK
    <2> QED
        BY <1>1, <2>4, <2>5, <2>6, <2>7, <2>8, SameActions, WriteKept
<1> QED
    BY <1>5, <1>6

-----------------------------------------------------------------------------
(* Decisions *)

\* A first decision touches no action that is there.
LEMMA DecideGood ==
    ASSUME IInv, NEW x \in Revisions, NEW d \in {"approve", "reject"},
           NEW due \in Workflows \cup {None}, Decide(x, d, due)
    PROVE  /\ GoOn
           /\ action' \in [Revisions -> ActionRun \cup {None}]
           /\ decision' \in [Revisions -> {"none", "approve", "reject"}]
           /\ \A y \in Revisions : action'[y] # None <=> decision'[y] = "approve"
           /\ decision'[x] = d
           /\ d = "approve" => action'[x] # None /\ action'[x].due = due
<1> DEFINE act == [state |-> "queued", cancel |-> FALSE, due |-> due]
<1>1. /\ action \in [Revisions -> ActionRun \cup {None}]
      /\ decision \in [Revisions -> {"none", "approve", "reject"}]
      /\ \A y \in Revisions : action[y] # None <=> decision[y] = "approve"
    BY DEF IInv, TypeOK
<1>2. /\ decision[x] = "none" /\ decision' = [decision EXCEPT ![x] = d]
      /\ action' = IF d = "approve" THEN [action EXCEPT ![x] = act] ELSE action
    BY DEF Decide
<1>3. act \in ActionRun /\ act # None /\ act.due = due
    <2>1. act \in ActionRun /\ act.due = due
        BY DEF ActionRun, ActionState
    <2> QED
        BY <2>1, WorkflowsAssumption
<1> HIDE DEF act
<1>4. /\ \A y \in Revisions : decision'[y] = IF y = x THEN d ELSE decision[y]
      /\ \A y \in Revisions : action'[y] = IF y = x /\ d = "approve" THEN act ELSE action[y]
    BY <1>1, <1>2
<1>5. action[x] = None
    BY <1>1, <1>2
<1>6. GoOn
    BY <1>2, <1>4, <1>5 DEF GoOn
<1>7. /\ action' \in [Revisions -> ActionRun \cup {None}]
      /\ decision' \in [Revisions -> {"none", "approve", "reject"}]
    BY <1>1, <1>2, <1>3
<1>8. \A y \in Revisions : action'[y] # None <=> decision'[y] = "approve"
    BY <1>1, <1>3, <1>4, <1>5
<1> QED
    BY <1>3, <1>4, <1>6, <1>7, <1>8

LEMMA ApproveUnlinkedKeeps ==
    ASSUME IInv, NEW p \in Plans, ApproveUnlinked(p)
    PROVE  IInv'
<1>1. PICK d \in {"approve", "reject"} : Decide(Current(p), d, None)
    BY DEF ApproveUnlinked
<1>2. UNCHANGED <<workflow, plan, overdue, call>>
    BY DEF ApproveUnlinked
<1> QED
    BY <1>1, <1>2, CurrentExists, DecideGood, ActionKept

\* ApproveStep takes a step only when the actions of the steps before it have
\* succeeded.
LEMMA ApproveStepReadKeeps ==
    ASSUME IInv, NEW c \in Callers, NEW w \in Workflows, ApproveStepRead(c, w)
    PROVE  IInv'
<1> DEFINE run == workflow[w]
<1>1. /\ run # None /\ run.state \notin WorkflowTerminal
      /\ UNCHANGED <<workflow, plan, decision, action, overdue>>
    BY DEF ApproveStepRead, Open, Exists
<1>2. PICK i \in DOMAIN run.steps :
        /\ InOrder(w, i)
        /\ call' = [call EXCEPT ![c] =
                [op |-> "approve", workflow |-> w, step |-> i, rev |-> run.steps[i].rev,
                 fresh |-> plan[run.steps[i].rev[1]].status # "expired"]]
    BY DEF ApproveStepRead, Steps
<1> DEFINE fresh == plan[run.steps[i].rev[1]].status # "expired"
           k == [op |-> "approve", workflow |-> w, step |-> i, rev |-> run.steps[i].rev,
                 fresh |-> fresh]
<1>3. RunGood(run, action, decision, DueOf(w)) /\ run \in WorkflowRun
    BY <1>1 DEF IInv, RunGood
<1>4. ASSUME NEW j \in 1..(i - 1) PROVE StepDone(run, action, j)
    <2>1. j \in DOMAIN run.steps /\ Shown(w, j) \in Done
        BY <1>2, <1>3, StepRows DEF InOrder
    <2>2. run.steps[j].link
        <3> SUFFICES ASSUME ~run.steps[j].link PROVE FALSE
            OBVIOUS
        <3>1. run.steps[j].state \in Unlinkable(run)
            BY <1>3, <2>1 DEF RunGood, Ordered
        <3> QED
            BY <1>1, <2>1, <3>1 DEF Shown, Steps, Unlinkable, Done
    <2>3. actionStateToStep(action[run.steps[j].rev].state, run.state) \in Done
        BY <2>1, <2>2 DEF Shown, Steps
    <2>4. run.state \notin Closed
        BY <1>1 DEF Closed, WorkflowTerminal
    <2> QED
        BY <2>2, <2>3, <2>4 DEF actionStateToStep, Done, StepDone
<1>5. k \in Call
    BY <1>3, StepRows DEF Call
<1>6. CallGood(k)
    BY <1>1, <1>4 DEF CallGood
<1>7. call' = [call EXCEPT ![c] = k]
    BY <1>2
<1> HIDE DEF k
<1> QED
    BY <1>1, <1>5, <1>6, <1>7, CallSteps

\* The step that is decided, with its decision and its action in place.
LEMMA BindGood ==
    ASSUME NEW run, NEW acts, NEW decs, NEW due, RunGood(run, acts, decs, due),
           run.state \notin WorkflowTerminal,
           NEW i \in DOMAIN run.steps, NEW d \in {"approve", "reject"},
           decs[run.steps[i].rev] = d,
           d = "reject" => ~run.steps[i].link,
           d = "approve" => acts[run.steps[i].rev] # None /\ acts[run.steps[i].rev].due = due,
           \A j \in 1..(i - 1) : StepDone(run, acts, j)
    PROVE  LET new == [run EXCEPT
                    !.steps = [run.steps EXCEPT ![i] = BoundStep(run.steps[i], d)],
                    !.state = IF run.state = "awaiting_approval" THEN "running" ELSE run.state]
           IN  RunGood(new, acts, decs, due) /\ StepsKept(run, new)
<1> DEFINE b == BoundStep(run.steps[i], d)
           steps == [run.steps EXCEPT ![i] = b]
           st == IF run.state = "awaiting_approval" THEN "running" ELSE run.state
           new == [run EXCEPT !.steps = steps, !.state = st]
<1>1. run \in WorkflowRun
    BY DEF RunGood
<1>2. /\ run.steps \in Seq(Step) /\ run.steps[i] \in Step /\ Len(run.steps) \in Nat
      /\ run.current \in Nat /\ run.state \in WorkflowState
      /\ \A j \in DOMAIN run.steps : \A k \in 1..(j - 1) : k \in DOMAIN run.steps
    BY <1>1, StepRows
<1>3. /\ b \in Step /\ b.rev = run.steps[i].rev
      /\ run.steps[i].link => b.link
      /\ b.link => run.steps[i].link \/ d = "approve"
      /\ b.rejected => run.steps[i].rejected \/ d = "reject"
      /\ ~b.link => b.state = run.steps[i].state \/ b.state = "blocked"
    BY <1>2 DEF BoundStep, Step, StepState
<1> HIDE DEF b
<1>4. /\ steps \in Seq(Step) /\ Len(steps) = Len(run.steps)
      /\ DOMAIN steps = DOMAIN run.steps
      /\ \A j \in DOMAIN run.steps : steps[j] = IF j = i THEN b ELSE run.steps[j]
    BY <1>2, <1>3
<1> HIDE DEF steps
<1>5. st \in WorkflowState /\ st \notin WorkflowTerminal
    BY <1>2 DEF WorkflowState, WorkflowTerminal
<1> HIDE DEF st
<1>6. /\ new \in WorkflowRun /\ new.steps = steps /\ new.state = st
      /\ new.current = run.current
    BY <1>1, <1>4, <1>5 DEF WorkflowRun
<1> HIDE DEF new
<1>7. StepsKept(run, new)
    BY <1>3, <1>4, <1>6 DEF StepsKept
<1>8. \A j \in DOMAIN run.steps : StepDone(run, acts, j) => StepDone(new, acts, j)
    BY <1>7 DEF StepsKept, StepDone
<1>9. Ordered(new, acts)
    <2>1. Unlinkable(new) = Unlinkable(run) /\ "blocked" \in Unlinkable(new)
        BY <1>5, <1>6 DEF Unlinkable
    <2>2. new.current <= Len(new.steps) + 1
        BY <1>4, <1>6 DEF RunGood, Ordered
    <2>3. ASSUME NEW j \in DOMAIN run.steps
          PROVE  /\ j < new.current => StepDone(new, acts, j)
                 /\ new.steps[j].link => \A k \in 1..(j - 1) : StepDone(new, acts, k)
                 /\ ~new.steps[j].link => new.steps[j].state \in Unlinkable(new)
        <3>1. j < new.current => StepDone(new, acts, j)
            BY <1>6, <1>8 DEF RunGood, Ordered
        <3>2. new.steps[j].link => \A k \in 1..(j - 1) : StepDone(new, acts, k)
            BY <1>2, <1>4, <1>6, <1>8 DEF RunGood, Ordered
        <3>3. ~new.steps[j].link => new.steps[j].state \in Unlinkable(new)
            BY <1>3, <1>4, <1>6, <2>1 DEF RunGood, Ordered
        <3> QED
            BY <3>1, <3>2, <3>3
    <2> QED
        BY <1>4, <1>6, <2>2, <2>3 DEF Ordered
<1>10. Agreed(new, acts, decs, due)
    BY <1>3, <1>4, <1>6 DEF RunGood, Agreed
<1>11. Ended(new, acts)
    BY <1>5, <1>6 DEF Ended, WorkflowTerminal
<1>12. RunGood(new, acts, decs, due)
    BY <1>6, <1>9, <1>10, <1>11 DEF RunGood
<1> QED
    BY <1>7, <1>12 DEF new, steps, st, b

\* The binding writes one step and the state of one workflow.
LEMMA BindWrites ==
    ASSUME IInv, NEW w \in Workflows, workflow[w] # None,
           NEW i, NEW d, Bind(w, i, d)
    PROVE  workflow' = [workflow EXCEPT ![w] =
                [workflow[w] EXCEPT
                    !.steps = [workflow[w].steps EXCEPT ![i] = BoundStep(workflow[w].steps[i], d)],
                    !.state = IF workflow[w].state = "awaiting_approval" THEN "running"
                              ELSE workflow[w].state]]
<1> DEFINE run == workflow[w]
           steps == [run.steps EXCEPT ![i] = BoundStep(run.steps[i], d)]
           mid == [run EXCEPT !.steps = steps]
           f == [workflow EXCEPT ![w] = mid]
           st == IF run.state = "awaiting_approval" THEN "running" ELSE run.state
<1>1. run \in WorkflowRun /\ workflow \in [Workflows -> WorkflowRun \cup {None}]
    BY DEF IInv, TypeOK
<1>2. workflow' = [f EXCEPT ![w].state = IF @ = "awaiting_approval" THEN "running" ELSE @]
    BY DEF Bind
<1>3. f[w] = mid
    BY <1>1
<1> HIDE DEF steps
<1>4. mid.state = run.state /\ [mid EXCEPT !.state = st] = [run EXCEPT !.steps = steps, !.state = st]
    BY <1>1 DEF WorkflowRun
<1> HIDE DEF mid
<1>5. workflow' = [f EXCEPT ![w] = [mid EXCEPT !.state = st]]
    BY <1>2, <1>3, <1>4
<1> HIDE DEF st
<1>6. [f EXCEPT ![w] = [mid EXCEPT !.state = st]] = [workflow EXCEPT ![w] = [mid EXCEPT !.state = st]]
    BY <1>1
<1> QED
    BY <1>4, <1>5, <1>6 DEF st, steps

LEMMA ApproveStepKeeps ==
    ASSUME IInv, NEW c \in Callers, ApproveStep(c)
    PROVE  IInv'
<1>1. /\ call[c] # None /\ call[c] \in Call /\ call[c].op = "approve"
      /\ call' = [call EXCEPT ![c] = None] /\ UNCHANGED <<plan, overdue>>
    BY DEF ApproveStep, IInv, TypeOK
<1>2. PICK w \in Workflows : w = call[c].workflow
    BY <1>1 DEF Call
<1>3. PICK x \in Revisions : x = call[c].rev
    BY <1>1 DEF Call
<1>4. PICK i \in Nat : i = call[c].step
    BY <1>1 DEF Call
<1>5. PICK d \in {"approve", "reject"} :
        /\ MayBind(w, i, x, d)
        /\ Confirm(x, d, DueOf(w)) \/ Decide(x, d, DueOf(w))
        /\ Bind(w, i, d)
    BY <1>2, <1>3, <1>4 DEF ApproveStep
<1> DEFINE run == workflow[w]
           new == [run EXCEPT
                    !.steps = [run.steps EXCEPT ![i] = BoundStep(run.steps[i], d)],
                    !.state = IF run.state = "awaiting_approval" THEN "running" ELSE run.state]
<1>6. /\ run # None /\ run.state \notin WorkflowTerminal /\ i \in DOMAIN run.steps
      /\ run.steps[i].rev = x /\ (d = "reject" => ~run.steps[i].link)
    BY <1>5 DEF MayBind, Open, Exists, Steps
<1>7. \A j \in 1..(i - 1) : StepDone(run, action, j)
    BY <1>1, <1>2, <1>4 DEF IInv, CallGood
<1>8. RunGood(run, action, decision, DueOf(w)) /\ run \in WorkflowRun
    BY <1>6 DEF IInv, RunGood
<1>9. DueOf(w) \in Workflows \cup {None}
    BY DEF DueOf
<1>10. /\ GoOn
       /\ action' \in [Revisions -> ActionRun \cup {None}]
       /\ decision' \in [Revisions -> {"none", "approve", "reject"}]
       /\ \A y \in Revisions : action'[y] # None <=> decision'[y] = "approve"
       /\ decision'[x] = d
       /\ d = "approve" => action'[x] # None /\ action'[x].due = DueOf(w)
    <2>1. CASE Decide(x, d, DueOf(w))
        BY <1>9, <2>1, DecideGood
    <2>2. CASE Confirm(x, d, DueOf(w))
        <3>1. /\ action' = action /\ decision' = decision /\ decision[x] = d
              /\ d = "approve" => action[x].due = DueOf(w)
            BY <2>2 DEF Confirm
        <3> QED
            BY <3>1, SameActions
    <2> QED
        BY <1>5, <2>1, <2>2
<1>11. RunGood(run, action', decision', DueOf(w))
    BY <1>8, <1>10, RunKept
<1>12. \A j \in 1..(i - 1) : StepDone(run, action', j)
    <2>1. \A j \in 1..(i - 1) : j \in DOMAIN run.steps
        BY <1>6, <1>8, StepRows
    <2> QED
        BY <1>7, <1>8, <1>10, <2>1, SameSteps, DoneKept
<1>13. RunGood(new, action', decision', DueOf(w)) /\ StepsKept(run, new)
    BY <1>6, <1>10, <1>11, <1>12, BindGood
<1>14. workflow' = [workflow EXCEPT ![w] = new]
    BY <1>5, <1>6, BindWrites
<1>15. new \in WorkflowRun
    BY <1>13 DEF RunGood
<1>16. /\ call' \in [Callers -> Call \cup {None}]
       /\ \A b \in Callers : call'[b] \in {call[b], None}
    BY <1>1 DEF IInv, TypeOK
<1> HIDE DEF new
<1> QED
    BY <1>1, <1>10, <1>13, <1>14, <1>15, <1>16, WriteKept

-----------------------------------------------------------------------------
(* Sync and Cancel *)

\* The actions of a workflow are asked to stop.
LEMMA CancelLinkedGood ==
    ASSUME IInv, NEW w \in Workflows, workflow[w] # None,
           action' = cancelLinkedActions(w), decision' = decision
    PROVE  /\ GoOn
           /\ action' \in [Revisions -> ActionRun \cup {None}]
           /\ decision' \in [Revisions -> {"none", "approve", "reject"}]
           /\ \A x \in Revisions : action'[x] # None <=> decision'[x] = "approve"
           /\ \A i \in DOMAIN workflow[w].steps : workflow[w].steps[i].link =>
                Stopped(action'[workflow[w].steps[i].rev])
<1>1. /\ action \in [Revisions -> ActionRun \cup {None}]
      /\ decision \in [Revisions -> {"none", "approve", "reject"}]
      /\ \A x \in Revisions : action[x] # None <=> decision[x] = "approve"
      /\ RunGood(workflow[w], action, decision, DueOf(w))
      /\ workflow[w] \in WorkflowRun
    BY DEF IInv, TypeOK, RunGood
<1>2. \A x \in Revisions :
        action'[x] = IF x \in Linked(w) THEN Stopping(action[x]) ELSE action[x]
    BY DEF cancelLinkedActions
<1>3. \A x \in Linked(w) : action[x] # None
    BY <1>1 DEF Linked, Steps, RunGood, Agreed
<1>4. \A x \in Revisions : x \in Linked(w) =>
        /\ action'[x] \in ActionRun /\ action'[x] # None /\ Stopped(action'[x])
        /\ action'[x].due = action[x].due /\ action'[x].state = action[x].state
    BY <1>1, <1>2, <1>3, StoppingStops, WorkflowsAssumption
<1>5. GoOn
    BY <1>2, <1>4 DEF GoOn
<1>6. action' \in [Revisions -> ActionRun \cup {None}]
    <2>1. action' = [x \in Revisions |->
                        IF x \in Linked(w) THEN Stopping(action[x]) ELSE action[x]]
        BY DEF cancelLinkedActions
    <2> QED
        BY <1>1, <1>2, <1>4, <2>1
<1>7. \A x \in Revisions : action'[x] # None <=> decision'[x] = "approve"
    BY <1>1, <1>2, <1>3, <1>4
<1>8. \A i \in DOMAIN workflow[w].steps : workflow[w].steps[i].link =>
            Stopped(action'[workflow[w].steps[i].rev])
    <2>1. \A i \in DOMAIN workflow[w].steps : workflow[w].steps[i].rev \in Revisions
        BY <1>1, StepRows
    <2> QED
        BY <1>4, <2>1 DEF Linked, Steps
<1> QED
    BY <1>1, <1>5, <1>6, <1>7, <1>8

\* What a step shows after its action was projected into it.
LEMMA ProjectedRow ==
    ASSUME NEW run \in WorkflowRun, NEW due, RunGood(run, action, decision, due),
           action \in [Revisions -> ActionRun \cup {None}],
           NEW i \in DOMAIN run.steps, NEW closed \in WorkflowState
    PROVE  LET s == run.steps[i]
               p == ProjectedStep(s, closed)
           IN  /\ p \in Step /\ p.rev = s.rev /\ p.link = s.link /\ p.rejected = s.rejected
               /\ p.state \in Done => StepDone(run, action, i)
               /\ ~s.link => \/ p.state \in Unlinkable(run)
                             \/ closed \in Closed /\ p.state = "cancelled"
               /\ s.link /\ closed \notin Closed /\ p.state \in {"failed", "cancelled"} =>
                        action[s.rev].state \in Terminal \ {"succeeded"}
<1> DEFINE s == run.steps[i]
           p == ProjectedStep(s, closed)
<1>1. s \in Step /\ s.rev \in Revisions
    BY StepRows
<1>2. CASE s.link
    <2> DEFINE a == action[s.rev].state
               st == actionStateToStep(a, closed)
    <2>1. a \in ActionState
        <3>1. action[s.rev] \in ActionRun
            BY <1>1, <1>2 DEF RunGood, Agreed
        <3> QED
            BY <3>1 DEF ActionRun
    <2>2. /\ st \in StepState
          /\ st \in Done => a = "succeeded"
          /\ closed \notin Closed /\ st \in {"failed", "cancelled"} =>
                a \in Terminal \ {"succeeded"}
        <3> HIDE DEF a
        <3> QED
            BY <2>1 DEF actionStateToStep, StepState, Done, ActionState, Terminal
    <2>3. p = [s EXCEPT !.state = st, !.seen = a]
        BY <1>2 DEF ProjectedStep
    <2> HIDE DEF st
    <2>4. /\ p \in Step /\ p.rev = s.rev /\ p.link = s.link /\ p.rejected = s.rejected
          /\ p.state = st
        BY <1>1, <2>1, <2>2, <2>3 DEF Step
    <2> HIDE DEF p
    <2> QED
        BY <1>2, <2>2, <2>4 DEF StepDone, p
<1>3. CASE ~s.link
    <2>1. s.state \in Unlinkable(run)
        BY <1>3 DEF RunGood, Ordered
    <2>2. p = s \/ (closed \in Closed /\ p = [s EXCEPT !.state = "cancelled"])
        BY <1>3 DEF ProjectedStep
    <2>3. /\ p \in Step /\ p.rev = s.rev /\ p.link = s.link /\ p.rejected = s.rejected
          /\ p.state = s.state \/ (closed \in Closed /\ p.state = "cancelled")
        BY <1>1, <2>2 DEF Step, StepState
    <2> HIDE DEF p
    <2>4. p.state \notin Done
        BY <2>1, <2>3 DEF Unlinkable, Done
    <2> QED
        BY <1>3, <2>1, <2>3, <2>4 DEF p
<1> QED
    BY <1>2, <1>3

\* The steps of a workflow after their actions were projected into them.
LEMMA ProjectedSteps ==
    ASSUME NEW w \in Workflows, workflow[w] \in WorkflowRun,
           RunGood(workflow[w], action, decision, DueOf(w)),
           action \in [Revisions -> ActionRun \cup {None}], NEW closed \in WorkflowState
    PROVE  LET steps == Projected(w, closed) IN
           /\ steps \in Seq(Step) /\ Len(steps) = Len(workflow[w].steps)
           /\ DOMAIN steps = DOMAIN workflow[w].steps
           /\ \A i \in DOMAIN steps : steps[i] = ProjectedStep(workflow[w].steps[i], closed)
<1> DEFINE run == workflow[w]
           f == [i \in DOMAIN run.steps |-> ProjectedStep(run.steps[i], closed)]
<1>1. f = Projected(w, closed)
    BY DEF Projected, Steps
<1>2. \A i \in DOMAIN run.steps : f[i] \in Step
    <2>1. \A i \in DOMAIN run.steps : ProjectedStep(run.steps[i], closed) \in Step
        BY ProjectedRow
    <2> QED
        BY <2>1
<1>3. f = [i \in DOMAIN run.steps |-> f[i]]
    OBVIOUS
<1>4. f \in Seq(Step) /\ Len(f) = Len(run.steps) /\ DOMAIN f = DOMAIN run.steps
    <2>1. run.steps \in Seq(Step)
        BY StepRows
    <2> HIDE DEF f
    <2> QED
        BY <1>2, <1>3, <2>1, SameLength
<1> QED
    BY <1>1, <1>4

\* current_step moves over steps that are done, and not beyond the last.
LEMMA AdvancedGood ==
    ASSUME NEW steps \in Seq(Step), NEW current \in Nat, current <= Len(steps) + 1
    PROVE  LET a == Advanced(steps, current) IN
           /\ a \in Nat /\ a <= Len(steps) + 1
           /\ \A i \in DOMAIN steps : i >= current /\ i < a => steps[i].state \in Done
<1> DEFINE left == {i \in DOMAIN steps : i >= current /\ steps[i].state \notin Done}
<1>1. DOMAIN steps = 1..Len(steps) /\ Len(steps) \in Nat
    OBVIOUS
<1>2. CASE left = {}
    <2>1. Advanced(steps, current) = Len(steps) + 1
        BY <1>2 DEF Advanced
    <2> QED
        BY <1>1, <1>2, <2>1
<1>3. CASE left # {}
    <2>1. Advanced(steps, current) = Min(left)
        BY <1>3 DEF Advanced
    <2>2. left \subseteq Nat
        BY <1>1
    <2>3. Min(left) \in left /\ \A j \in left : Min(left) <= j
        BY <1>3, <2>2, MinIsLeast
    <2> DEFINE m == Min(left)
    <2>4. m \in 1..Len(steps)
        BY <1>1, <2>3
    <2>5. \A i \in DOMAIN steps : i < m => i \notin left
        <3> HIDE DEF left
        <3>1. m \in Nat /\ \A j \in left : m <= j
            BY <2>3, <2>4
        <3> HIDE DEF m
        <3> QED
            BY <1>1, <3>1
    <2>6. \A i \in DOMAIN steps : i >= current /\ i < m => steps[i].state \in Done
        <3> HIDE DEF m
        <3> QED
            BY <2>5
    <2>7. Advanced(steps, current) = m
        BY <2>1
    <2>8. m \in Nat /\ m <= Len(steps) + 1
        <3> HIDE DEF m
        <3> QED
            BY <1>1, <2>4
    <2> HIDE DEF m
    <2> QED
        BY <2>6, <2>7, <2>8
<1> QED
    BY <1>2, <1>3

\* Requeuing changes the state of a blocked step only.
LEMMA RequeuedRow ==
    ASSUME NEW steps \in Seq(Step), NEW current
    PROVE  LET new == Requeued(steps, current) IN
           /\ new \in Seq(Step) /\ Len(new) = Len(steps) /\ DOMAIN new = DOMAIN steps
           /\ \A i \in DOMAIN steps :
                /\ new[i].rev = steps[i].rev /\ new[i].link = steps[i].link
                /\ new[i].rejected = steps[i].rejected /\ new[i].seen = steps[i].seen
                /\ \/ new[i].state = steps[i].state
                   \/ steps[i].state = "blocked" /\ new[i].state = "queued"
<1> DEFINE f == Requeued(steps, current)
<1>1. \A i \in DOMAIN steps : steps[i] \in Step
    OBVIOUS
<1>2. /\ f = [i \in DOMAIN steps |-> f[i]]
      /\ \A i \in DOMAIN steps : f[i] = IF i = current /\ steps[i].state = "blocked"
                                           /\ ~steps[i].rejected
                                        THEN [steps[i] EXCEPT !.state = "queued"] ELSE steps[i]
    BY DEF Requeued
<1> HIDE DEF f
<1>3. ASSUME NEW i \in DOMAIN steps
      PROVE  /\ f[i] \in Step
             /\ f[i].rev = steps[i].rev /\ f[i].link = steps[i].link
             /\ f[i].rejected = steps[i].rejected /\ f[i].seen = steps[i].seen
             /\ \/ f[i].state = steps[i].state
                \/ steps[i].state = "blocked" /\ f[i].state = "queued"
    BY <1>1, <1>2 DEF Step, StepState
<1>4. f \in Seq(Step) /\ Len(f) = Len(steps) /\ DOMAIN f = DOMAIN steps
    BY <1>2, <1>3, SameLength
<1> QED
    BY <1>3, <1>4 DEF f

\* A workflow with the steps of run, further on or ended, is as good as run.
LEMMA LikeGood ==
    ASSUME NEW run \in WorkflowRun, NEW due, RunGood(run, action', decision', due),
           NEW new \in WorkflowRun,
           Len(new.steps) = Len(run.steps),
           \A i \in DOMAIN run.steps :
                /\ new.steps[i].rev = run.steps[i].rev
                /\ new.steps[i].link = run.steps[i].link
                /\ new.steps[i].rejected = run.steps[i].rejected
                /\ ~run.steps[i].link => new.steps[i].state \in Unlinkable(new)
                /\ i < new.current => StepDone(run, action', i),
           new.current <= Len(run.steps) + 1,
           Ended(new, action')
    PROVE  RunGood(new, action', decision', due) /\ StepsKept(run, new)
<1>1. DOMAIN new.steps = DOMAIN run.steps
    BY StepRows
<1>2. \A i \in DOMAIN run.steps : \A j \in 1..(i - 1) : j \in DOMAIN run.steps
    BY StepRows
<1>3. \A i \in DOMAIN run.steps : StepDone(run, action', i) => StepDone(new, action', i)
    BY DEF StepDone
<1>4. Ordered(new, action')
    <2>1. \A i \in DOMAIN new.steps : new.steps[i].link =>
                \A j \in 1..(i - 1) : StepDone(new, action', j)
        BY <1>1, <1>2, <1>3 DEF RunGood, Ordered
    <2> QED
        BY <1>1, <1>3, <2>1 DEF Ordered
<1>5. Agreed(new, action', decision', due)
    BY <1>1 DEF RunGood, Agreed
<1>6. StepsKept(run, new)
    BY <1>1 DEF StepsKept
<1> QED
    BY <1>4, <1>5, <1>6 DEF RunGood

\* The ways projectAggregate comes to the state of an open workflow.
LEMMA AggregateCases ==
    ASSUME NEW steps \in Seq(Step), NEW current \in Nat
    PROVE  LET s == Aggregate(steps, current) IN
           \/ s = "succeeded" /\ current > Len(steps)
           \/ s \in {"running", "waiting_dependency", "needs_review"}
           \/ \E i \in DOMAIN steps : s = steps[i].state /\ s \in {"failed", "cancelled"}
<1> DEFINE decisive == {i \in DOMAIN steps : Decisive(steps[i])}
<1>1. decisive \subseteq Nat
    OBVIOUS
<1>2. CASE current > Len(steps)
    BY <1>2 DEF Aggregate
<1>3. CASE /\ current <= Len(steps) /\ steps[current].rejected
           /\ steps[current].state = "blocked"
    BY <1>3 DEF Aggregate
<1>4. CASE /\ current <= Len(steps)
           /\ ~(steps[current].rejected /\ steps[current].state = "blocked")
    <2>1. CASE decisive # {}
        <3>1. PICK i \in DOMAIN steps : i = Min(decisive) /\ Decisive(steps[i])
            <4>1. Min(decisive) \in decisive
                BY <1>1, <2>1, MinIsLeast
            <4> QED
                BY <4>1
        <3>2. Aggregate(steps, current) = VerdictOf(steps[Min(decisive)])
            BY <1>4, <2>1 DEF Aggregate
        <3>3. Aggregate(steps, current) = VerdictOf(steps[i])
            BY <3>1, <3>2
        <3> QED
            BY <3>1, <3>3 DEF VerdictOf, Decisive
    <2>2. CASE decisive = {}
        <3> DEFINE hints == {i \in DOMAIN steps : steps[i].seen \in Hinting}
        <3>1. \/ Aggregate(steps, current) = "running"
              \/ Aggregate(steps, current) = HintOf(steps[Max(hints)])
            BY <1>4, <2>2 DEF Aggregate
        <3> QED
            BY <3>1 DEF HintOf
    <2> QED
        BY <2>1, <2>2
<1>5. Len(steps) \in Nat
    OBVIOUS
<1> QED
    BY <1>2, <1>3, <1>4, <1>5

\* A workflow that is closed, or stays closed: its steps end, its actions were
\* asked to stop.
LEMMA SyncClosedGood ==
    ASSUME IInv, NEW w \in Workflows, workflow[w] # None, GoOn,
           NEW closed \in Closed,
           \A i \in DOMAIN workflow[w].steps : workflow[w].steps[i].link =>
                Stopped(action'[workflow[w].steps[i].rev])
    PROVE  LET run == workflow[w]
               new == projectAggregate(w, Projected(w, closed), closed)
           IN  /\ new \in WorkflowRun
               /\ RunGood(new, action', decision', DueOf(w)) /\ StepsKept(run, new)
<1> DEFINE run == workflow[w]
           due == DueOf(w)
<1>1. /\ run \in WorkflowRun /\ RunGood(run, action, decision, due)
      /\ action \in [Revisions -> ActionRun \cup {None}]
    BY DEF IInv, TypeOK, RunGood
<1>2. closed \in WorkflowState /\ closed \in WorkflowTerminal /\ closed # "succeeded"
    BY DEF Closed, WorkflowState, WorkflowTerminal
<1>3. PICK steps : steps = Projected(w, closed)
    OBVIOUS
<1>4. /\ steps \in Seq(Step) /\ Len(steps) = Len(run.steps)
      /\ DOMAIN steps = DOMAIN run.steps
      /\ \A i \in DOMAIN steps : steps[i] = ProjectedStep(run.steps[i], closed)
    BY <1>1, <1>2, <1>3, ProjectedSteps
<1>5. PICK new : new = [state |-> closed, current |-> run.current, steps |-> steps]
    OBVIOUS
<1>6. new = projectAggregate(w, Projected(w, closed), closed)
    BY <1>3, <1>5 DEF projectAggregate
<1>7. run.current \in Nat
    BY <1>1, StepRows
<1>8. /\ new \in WorkflowRun /\ new.state = closed /\ new.steps = steps
      /\ new.current = run.current
    BY <1>2, <1>4, <1>5, <1>7 DEF WorkflowRun
<1>9. Unlinkable(new) = {"queued", "blocked", "cancelled"}
    BY <1>2, <1>8 DEF Unlinkable
<1>10. RunGood(run, action', decision', due)
    BY <1>1, RunKept
<1>11. ASSUME NEW i \in DOMAIN run.steps
       PROVE  /\ steps[i].rev = run.steps[i].rev
              /\ steps[i].link = run.steps[i].link
              /\ steps[i].rejected = run.steps[i].rejected
              /\ ~run.steps[i].link => steps[i].state \in Unlinkable(new)
              /\ i < run.current => StepDone(run, action', i)
    <2>1. i < run.current => StepDone(run, action', i)
        BY <1>10 DEF RunGood, Ordered
    <2>2. LET p == ProjectedStep(run.steps[i], closed) IN
          /\ p.rev = run.steps[i].rev /\ p.link = run.steps[i].link
          /\ p.rejected = run.steps[i].rejected
          /\ ~run.steps[i].link => p.state \in Unlinkable(run) \cup {"cancelled"}
        BY <1>1, <1>2, ProjectedRow
    <2>3. Unlinkable(run) \subseteq {"queued", "blocked", "cancelled"}
        BY DEF Unlinkable
    <2> QED
        BY <1>4, <1>9, <2>1, <2>2, <2>3
<1>12. run.current <= Len(run.steps) + 1
    BY <1>1 DEF RunGood, Ordered
<1>13. Ended(new, action')
    BY <1>2, <1>4, <1>8, <1>11 DEF Ended
<1> HIDE DEF due
<1>14. RunGood(new, action', decision', due) /\ StepsKept(run, new)
    <2> HIDE DEF run
    <2> QED
        BY <1>1, <1>4, <1>8, <1>10, <1>11, <1>12, <1>13, LikeGood
<1> QED
    BY <1>6, <1>8, <1>14 DEF due

\* A Sync that reads an open end for a workflow: the steps it moves over are
\* done, and a decisive one leaves no linked step going behind it.
LEMMA SyncOpenGood ==
    ASSUME IInv, NEW w \in Workflows, workflow[w] # None,
           action' = action, decision' = decision, workflow[w].state \notin Closed,
           MaySync(w, projectAggregate(w, Projected(w, workflow[w].state), workflow[w].state))
    PROVE  LET run == workflow[w]
               new == projectAggregate(w, Projected(w, run.state), run.state)
           IN  /\ new \in WorkflowRun
               /\ RunGood(new, action', decision', DueOf(w)) /\ StepsKept(run, new)
<1> DEFINE run == workflow[w]
           due == DueOf(w)
<1>1. /\ run \in WorkflowRun /\ RunGood(run, action, decision, due)
      /\ action \in [Revisions -> ActionRun \cup {None}]
    BY DEF IInv, TypeOK, RunGood
<1>2. run.state \in WorkflowState /\ run.current \in Nat /\ run.current <= Len(run.steps) + 1
    BY <1>1, StepRows DEF RunGood, Ordered
<1>3. PICK steps : steps = Projected(w, run.state)
    OBVIOUS
<1>4. /\ steps \in Seq(Step) /\ Len(steps) = Len(run.steps)
      /\ DOMAIN steps = DOMAIN run.steps
      /\ \A i \in DOMAIN steps : steps[i] = ProjectedStep(run.steps[i], run.state)
    BY <1>1, <1>2, <1>3, ProjectedSteps
<1>5. PICK at : at = Advanced(steps, run.current)
    OBVIOUS
<1>6. /\ at \in Nat /\ at <= Len(steps) + 1
      /\ \A i \in DOMAIN steps : i >= run.current /\ i < at => steps[i].state \in Done
    BY <1>2, <1>4, <1>5, AdvancedGood
<1>7. PICK rows : rows = Requeued(steps, at)
    OBVIOUS
<1>8. /\ rows \in Seq(Step) /\ Len(rows) = Len(steps) /\ DOMAIN rows = DOMAIN steps
      /\ \A i \in DOMAIN steps :
            /\ rows[i].rev = steps[i].rev /\ rows[i].link = steps[i].link
            /\ rows[i].rejected = steps[i].rejected
            /\ \/ rows[i].state = steps[i].state
               \/ steps[i].state = "blocked" /\ rows[i].state = "queued"
    BY <1>4, <1>7, RequeuedRow
<1>9. PICK s : s = Aggregate(rows, at)
    OBVIOUS
<1>10. PICK new : new = [state |-> s, current |-> at, steps |-> rows]
    OBVIOUS
<1>11. new = projectAggregate(w, Projected(w, run.state), run.state)
    BY <1>3, <1>5, <1>7, <1>9, <1>10 DEF projectAggregate
<1>12. new.state = s /\ new.current = at /\ new.steps = rows
    BY <1>10
<1>13. s = run.state \/ (run.state \notin WorkflowTerminal /\ s \in WorkflowState)
    <2>1. s = run.state \/ s \in workflowTransitions[run.state]
        BY <1>11, <1>12 DEF MaySync, CanTransitionWorkflow
    <2>2. run.state \in WorkflowTerminal => workflowTransitions[run.state] = {}
        BY <1>2 DEF workflowTransitions, WorkflowTerminal
    <2>3. workflowTransitions[run.state] \subseteq WorkflowState
        BY <1>2 DEF workflowTransitions, WorkflowState, Closed
    <2> QED
        BY <2>1, <2>2, <2>3
<1>14. new \in WorkflowRun
    BY <1>2, <1>6, <1>8, <1>10, <1>13 DEF WorkflowRun
<1>15. Unlinkable(run) \subseteq Unlinkable(new) /\ "queued" \in Unlinkable(new)
    BY <1>12, <1>13 DEF Unlinkable
<1>16. ASSUME NEW i \in DOMAIN run.steps
       PROVE  /\ rows[i].rev = run.steps[i].rev
              /\ rows[i].link = run.steps[i].link
              /\ rows[i].rejected = run.steps[i].rejected
              /\ ~run.steps[i].link => steps[i].state \in Unlinkable(run)
              /\ ~run.steps[i].link => rows[i].state \in Unlinkable(new)
              /\ steps[i].state \in Done => StepDone(run, action, i)
              /\ i < at => StepDone(run, action, i)
              /\ run.steps[i].link /\ steps[i].state \in {"failed", "cancelled"} =>
                    action[run.steps[i].rev].state \in Terminal \ {"succeeded"}
    <2>1. /\ steps[i].rev = run.steps[i].rev /\ steps[i].link = run.steps[i].link
          /\ steps[i].rejected = run.steps[i].rejected
          /\ steps[i].state \in Done => StepDone(run, action, i)
          /\ ~run.steps[i].link => steps[i].state \in Unlinkable(run)
          /\ run.steps[i].link /\ steps[i].state \in {"failed", "cancelled"} =>
                action[run.steps[i].rev].state \in Terminal \ {"succeeded"}
        BY <1>1, <1>2, <1>4, ProjectedRow
    <2>2. i < run.current => StepDone(run, action, i)
        BY <1>1 DEF RunGood, Ordered
    <2>3. i \in Nat
        BY <1>1, StepRows
    <2>4. i < at => StepDone(run, action, i)
        BY <1>2, <1>4, <1>6, <2>1, <2>2, <2>3
    <2> QED
        BY <1>4, <1>8, <1>15, <2>1, <2>4
<1>17. Ended(new, action)
    <2>1. CASE s = run.state
        BY <1>1, <1>4, <1>8, <1>12, <1>16, <2>1 DEF RunGood, Ended, StepDone
    <2>2. CASE s # run.state /\ s = "succeeded" /\ at > Len(rows)
        <3>1. \A i \in DOMAIN run.steps : StepDone(run, action, i)
            <4>1. \A i \in DOMAIN run.steps : i < at
                BY <1>1, <1>4, <1>6, <1>8, <2>2, StepRows
            <4> QED
                BY <1>16, <4>1
        <3> QED
            BY <1>4, <1>8, <1>12, <1>16, <3>1 DEF Ended, StepDone, Stopped, Terminal
    <2>3. CASE s \in {"running", "waiting_dependency", "needs_review"}
        BY <1>12, <2>3 DEF Ended, WorkflowTerminal
    <2>4. CASE /\ s # run.state /\ s \in {"failed", "cancelled"}
               /\ \E i \in DOMAIN rows : s = rows[i].state
        <3>1. PICK d \in DOMAIN run.steps : steps[d].state \in {"failed", "cancelled"}
            BY <1>4, <1>8, <2>4
        <3>2. run.steps[d].link
            BY <1>13, <1>16, <2>4, <3>1 DEF Unlinkable
        <3>3. action[run.steps[d].rev].state \in Terminal \ {"succeeded"}
            BY <1>16, <3>1, <3>2
        <3>4. ASSUME NEW i \in DOMAIN run.steps, run.steps[i].link
              PROVE  Stopped(action[run.steps[i].rev])
            <4>1. i \in Nat /\ d \in Nat /\ i >= 1 /\ d >= 1
                BY <1>1, StepRows
            <4>2. CASE i < d
                <5>1. i \in 1..(d - 1)
                    BY <4>1, <4>2
                <5>2. StepDone(run, action, i)
                    BY <1>1, <3>2, <5>1 DEF RunGood, Ordered
                <5> QED
                    BY <5>2 DEF StepDone, Stopped, Terminal
            <4>3. CASE i = d
                BY <3>3, <4>3 DEF Stopped
            <4>4. CASE d < i
                <5>1. d \in 1..(i - 1)
                    BY <4>1, <4>4
                <5>2. StepDone(run, action, d)
                    BY <1>1, <3>4, <5>1 DEF RunGood, Ordered
                <5> QED
                    BY <3>3, <5>2 DEF StepDone
            <4> QED
                BY <4>1, <4>2, <4>3, <4>4
        <3> QED
            BY <1>4, <1>8, <1>12, <1>16, <2>4, <3>4 DEF Ended
    <2> QED
        BY <1>6, <1>8, <1>9, <2>1, <2>2, <2>3, <2>4, AggregateCases
<1> HIDE DEF due
<1>18. RunGood(new, action', decision', due) /\ StepsKept(run, new)
    <2>1. RunGood(run, action', decision', due) /\ Ended(new, action')
        BY <1>1, <1>17
    <2>2. \A i \in DOMAIN run.steps : i < at => StepDone(run, action', i)
        BY <1>16
    <2> HIDE DEF run
    <2> QED
        BY <1>1, <1>4, <1>6, <1>8, <1>12, <1>14, <1>16, <2>1, <2>2, LikeGood
<1> QED
    BY <1>11, <1>14, <1>18 DEF due

LEMMA SyncKeeps ==
    ASSUME IInv, NEW w \in Workflows, NEW late, SyncAt(w, late)
    PROVE  IInv'
<1> DEFINE run == workflow[w]
<1>1. /\ run # None /\ UNCHANGED <<plan, decision, overdue, call>>
      /\ workflow \in [Workflows -> WorkflowRun \cup {None}]
      /\ action' = IF Open(w) /\ late THEN cancelLinkedActions(w) ELSE action
    BY DEF SyncAt, Exists, IInv, TypeOK
<1>2. PICK closed : closed = ClosedState(w, late)
    OBVIOUS
<1>3. PICK new : new = projectAggregate(w, Projected(w, closed), closed)
    OBVIOUS
<1>4. MaySync(w, new) /\ workflow' = [workflow EXCEPT ![w] = new]
    BY <1>2, <1>3 DEF SyncAt
<1>5. RunGood(run, action, decision, DueOf(w))
    BY <1>1 DEF IInv
<1>6. CASE Open(w) /\ late
    <2>1. closed = "deadline_exceeded" /\ closed \in Closed
        BY <1>2, <1>6 DEF ClosedState, Closed
    <2>2. action' = cancelLinkedActions(w) /\ decision' = decision
        BY <1>1, <1>6
    <2>3. /\ GoOn
          /\ action' \in [Revisions -> ActionRun \cup {None}]
          /\ decision' \in [Revisions -> {"none", "approve", "reject"}]
          /\ \A x \in Revisions : action'[x] # None <=> decision'[x] = "approve"
          /\ \A i \in DOMAIN run.steps : run.steps[i].link =>
                Stopped(action'[run.steps[i].rev])
        BY <1>1, <2>2, CancelLinkedGood
    <2>4. /\ new \in WorkflowRun
          /\ RunGood(new, action', decision', DueOf(w)) /\ StepsKept(run, new)
        BY <1>1, <1>3, <2>1, <2>3, SyncClosedGood
    <2> QED
        BY <1>1, <1>4, <2>3, <2>4, WriteKept DEF IInv, TypeOK
<1>7. CASE ~(Open(w) /\ late)
    <2>1. closed = run.state /\ action' = action /\ decision' = decision
        BY <1>1, <1>2, <1>7 DEF ClosedState
    <2>2. /\ GoOn
          /\ action' \in [Revisions -> ActionRun \cup {None}]
          /\ decision' \in [Revisions -> {"none", "approve", "reject"}]
          /\ \A x \in Revisions : action'[x] # None <=> decision'[x] = "approve"
        BY <2>1, SameActions
    <2>3. CASE run.state \in Closed
        <3>1. run.state \in WorkflowTerminal
            BY <2>3 DEF Closed, WorkflowTerminal
        <3>2. \A i \in DOMAIN run.steps : run.steps[i].link =>
                    Stopped(action'[run.steps[i].rev])
            BY <1>5, <2>1, <3>1 DEF RunGood, Ended
        <3>3. /\ new \in WorkflowRun
              /\ RunGood(new, action', decision', DueOf(w)) /\ StepsKept(run, new)
            BY <1>1, <1>3, <2>1, <2>2, <2>3, <3>2, SyncClosedGood
        <3> QED
            BY <1>1, <1>4, <2>2, <3>3, WriteKept DEF IInv, TypeOK
    <2>4. CASE run.state \notin Closed
        <3>1. /\ new \in WorkflowRun
              /\ RunGood(new, action', decision', DueOf(w)) /\ StepsKept(run, new)
            BY <1>1, <1>3, <1>4, <2>1, <2>4, SyncOpenGood
        <3> QED
            BY <1>1, <1>4, <2>2, <3>1, WriteKept DEF IInv, TypeOK
    <2> QED
        BY <2>3, <2>4
<1> QED
    BY <1>6, <1>7

\* The workflow row Cancel writes.
LEMMA CancelWrites ==
    ASSUME IInv, NEW w \in Workflows, Cancel(w)
    PROVE  workflow' = [workflow EXCEPT ![w] =
                [workflow[w] EXCEPT
                    !.state = IF Open(w) THEN "cancelled" ELSE workflow[w].state,
                    !.steps = [i \in DOMAIN workflow[w].steps |->
                                    CancelledStep(workflow[w].steps[i])]]]
<1>1. workflow[w] \in WorkflowRun
    BY DEF Cancel, Exists, IInv, TypeOK
<1> QED
    BY <1>1 DEF Cancel, WorkflowRun, IInv, TypeOK

LEMMA CancelKeeps ==
    ASSUME IInv, NEW w \in Workflows, Cancel(w)
    PROVE  IInv'
<1> DEFINE run == workflow[w]
           due == DueOf(w)
<1>1. /\ run # None /\ UNCHANGED <<plan, decision, overdue, call>>
      /\ action' = cancelLinkedActions(w)
    BY DEF Cancel, Exists
<1>2. /\ run \in WorkflowRun /\ RunGood(run, action, decision, due)
    BY <1>1 DEF IInv, RunGood
<1>3. /\ GoOn
      /\ action' \in [Revisions -> ActionRun \cup {None}]
      /\ decision' \in [Revisions -> {"none", "approve", "reject"}]
      /\ \A x \in Revisions : action'[x] # None <=> decision'[x] = "approve"
      /\ \A i \in DOMAIN run.steps : run.steps[i].link =>
            Stopped(action'[run.steps[i].rev])
    BY <1>1, CancelLinkedGood
<1>4. PICK rows : rows = [i \in DOMAIN run.steps |-> CancelledStep(run.steps[i])]
    OBVIOUS
<1>5. PICK s : s = IF Open(w) THEN "cancelled" ELSE run.state
    OBVIOUS
<1>6. PICK new : new = [run EXCEPT !.state = s, !.steps = rows]
    OBVIOUS
<1>7. workflow' = [workflow EXCEPT ![w] = new]
    BY <1>4, <1>5, <1>6, CancelWrites
<1>8. \A i \in DOMAIN run.steps :
        /\ rows[i] \in Step
        /\ rows[i].rev = run.steps[i].rev /\ rows[i].link = run.steps[i].link
        /\ rows[i].rejected = run.steps[i].rejected
        /\ rows[i].state \in {run.steps[i].state, "cancelled"}
    <2>1. \A i \in DOMAIN run.steps : run.steps[i] \in Step
        BY <1>2, StepRows
    <2> QED
        BY <1>4, <2>1 DEF CancelledStep, Step, StepState
<1>9. rows \in Seq(Step) /\ Len(rows) = Len(run.steps) /\ DOMAIN rows = DOMAIN run.steps
    <2>1. run.steps \in Seq(Step)
        BY <1>2, StepRows
    <2>2. rows = [i \in DOMAIN run.steps |-> rows[i]]
        BY <1>4
    <2> QED
        BY <1>8, <2>1, <2>2, SameLength
<1>10. s \in WorkflowTerminal /\ s \in WorkflowState /\ (s = "succeeded" => run.state = s)
    BY <1>1, <1>2, <1>5, StepRows DEF Open, Exists, WorkflowTerminal, WorkflowState
<1>11. /\ new \in WorkflowRun /\ new.state = s /\ new.steps = rows
       /\ new.current = run.current /\ run.current \in Nat
    BY <1>2, <1>6, <1>9, <1>10 DEF WorkflowRun
<1>12. RunGood(run, action', decision', due)
    BY <1>2, <1>3, RunKept
<1>13. run.current <= Len(run.steps) + 1
    BY <1>2 DEF RunGood, Ordered
<1>14. \A i \in DOMAIN run.steps :
        /\ ~run.steps[i].link => rows[i].state \in Unlinkable(new)
        /\ i < run.current => StepDone(run, action', i)
    <2>1. \A i \in DOMAIN run.steps :
            /\ i < run.current => StepDone(run, action', i)
            /\ ~run.steps[i].link => run.steps[i].state \in Unlinkable(run)
        BY <1>12 DEF RunGood, Ordered
    <2>2. Unlinkable(new) = {"queued", "blocked", "cancelled"}
        BY <1>10, <1>11 DEF Unlinkable
    <2>3. Unlinkable(run) \subseteq {"queued", "blocked", "cancelled"}
        BY DEF Unlinkable
    <2> QED
        BY <1>8, <2>1, <2>2, <2>3
<1>15. Ended(new, action')
    <2>1. s = "succeeded" => \A i \in DOMAIN run.steps : StepDone(run, action', i)
        BY <1>10, <1>12 DEF RunGood, Ended
    <2> QED
        BY <1>3, <1>8, <1>9, <1>11, <2>1 DEF Ended, StepDone
<1> HIDE DEF due
<1>16. RunGood(new, action', decision', due) /\ StepsKept(run, new)
    <2> HIDE DEF run
    <2> QED
        BY <1>2, <1>8, <1>9, <1>11, <1>12, <1>13, <1>14, <1>15, LikeGood
<1> QED
    BY <1>1, <1>3, <1>7, <1>11, <1>16, WriteKept DEF IInv, TypeOK, due

-----------------------------------------------------------------------------
(* Every reachable state is good *)

LEMMA InitIInv == Init => IInv
<1> SUFFICES ASSUME Init PROVE IInv
    OBVIOUS
<1>1. \A x \in Revisions : action[x] = None /\ decision[x] = "none"
    BY DEF Init
<1>2. TypeOK
    BY WorkflowsAssumption DEF Init, TypeOK, PlanStatus
<1>3. \A p \in Plans : plan[p].rev # 2
    BY DEF Init
<1>4. \A w \in Workflows : workflow[w] = None
    BY DEF Init
<1>5. \A c \in Callers : call[c] = None
    BY DEF Init
<1> QED
    BY <1>1, <1>2, <1>3, <1>4, <1>5 DEF IInv, CallGood

LEMMA StutterKeeps ==
    ASSUME IInv, UNCHANGED vars
    PROVE  IInv'
<1>1. /\ TypeOK'
      /\ GoOn
    BY DEF IInv, TypeOK, GoOn, vars
<1>2. \A w \in Workflows : workflow'[w] = workflow[w] /\ StepsKept(workflow[w], workflow[w])
    BY SameSteps DEF vars
<1> QED
    BY <1>1, <1>2, Kept DEF IInv, vars

LEMMA NextIInv == IInv /\ [Next]_vars => IInv'
<1> SUFFICES ASSUME IInv, [Next]_vars PROVE IInv'
    OBVIOUS
<1>1. CASE UNCHANGED vars
    BY <1>1, StutterKeeps
<1>2. ASSUME NEW p \in Plans, StorePlan(p) \/ PlanExpires(p) \/ ApproveUnlinked(p)
      PROVE  IInv'
    BY <1>2, PlanSteps, ApproveUnlinkedKeeps
<1>3. ASSUME NEW x \in Revisions, ActionMoves(x) \/ CancelAction(x)
      PROVE  IInv'
    BY <1>3, ActionSteps
<1>4. ASSUME NEW w \in Workflows, Create(w) \/ Sync(w) \/ Cancel(w) \/ DeadlinePasses(w)
      PROVE  IInv'
    <2>1. ASSUME Sync(w) PROVE IInv'
        <3>1. PICK late : SyncAt(w, late)
            BY <2>1 DEF Sync
        <3> QED
            BY <3>1, SyncKeeps
    <2> QED
        BY <1>4, <2>1, CreateKeeps, CancelKeeps, DeadlineStep
<1>5. ASSUME NEW c \in Callers, NEW w \in Workflows, AddStepRead(c, w) \/ ApproveStepRead(c, w)
      PROVE  IInv'
    BY <1>5, AddStepReadKeeps, ApproveStepReadKeeps
<1>6. ASSUME NEW c \in Callers, AddStep(c) \/ ApproveStep(c) \/ ApproveRefused(c)
      PROVE  IInv'
    BY <1>6, AddStepKeeps, ApproveStepKeeps, ApproveRefusedKeeps
<1> QED
    BY <1>1, <1>2, <1>3, <1>4, <1>5, <1>6 DEF Next

\* Whatever calls, projections and closes interleave, every workflow is good
\* and every approval that has read one can still rely on it.
THEOREM SpecIInv == Spec => []IInv
BY InitIInv, NextIInv, PTL DEF Spec

-----------------------------------------------------------------------------
(* The properties *)

\* A step gets an action only when the actions of all the steps before it have
\* succeeded, and a workflow succeeds only with all its steps.
THEOREM StepsStartInOrder == Spec => []StepsInOrder
<1>1. IInv => StepsInOrder
    <2> SUFFICES ASSUME IInv, NEW w \in Workflows, workflow[w] # None
                 PROVE  /\ \A i \in DOMAIN Steps(w) : Steps(w)[i].link =>
                            \A j \in 1..(i - 1) : StepDone(workflow[w], action, j)
                        /\ workflow[w].state = "succeeded" =>
                            \A j \in DOMAIN Steps(w) : StepDone(workflow[w], action, j)
        BY DEF StepsInOrder, Exists, Steps, StepDone
    <2> QED
        BY DEF IInv, RunGood, Ordered, Ended, Steps
<1> QED
    BY <1>1, SpecIInv, PTL

\* Each action of a workflow that has ended has ended itself, or was asked to
\* stop.
THEOREM NothingStartsAfterTheEnd == Spec => []ClosedIsFenced
<1>1. IInv => ClosedIsFenced
    <2> SUFFICES ASSUME IInv, NEW w \in Workflows, workflow[w] # None,
                        workflow[w].state \in WorkflowTerminal, NEW x \in Linked(w)
                 PROVE  Stopped(action[x])
        BY DEF ClosedIsFenced, Exists, Stopped
    <2>1. PICK i \in DOMAIN workflow[w].steps :
                workflow[w].steps[i].link /\ x = workflow[w].steps[i].rev
        BY DEF Linked, Steps
    <2> QED
        BY <2>1 DEF IInv, RunGood, Ended
<1> QED
    BY <1>1, SpecIInv, PTL

\* An action exists exactly for an approved revision, a linked step has one with
\* the deadline of its own workflow, a rejected step stays without.
THEOREM DecisionsBindSteps == Spec => []ApprovalsAgree
<1>1. IInv => ApprovalsAgree
    BY DEF IInv, RunGood, Agreed, ApprovalsAgree, Exists, Steps
<1> QED
    BY <1>1, SpecIInv, PTL

\* A workflow that has ended is written with its own state, steps and links.
LEMMA EndedKept ==
    ASSUME IInv, NEW w \in Workflows, Exists(w), ~Open(w),
           NEW v \in Workflows, Sync(v) \/ Cancel(v)
    PROVE  /\ workflow'[w].state = workflow[w].state
           /\ DOMAIN workflow'[w].steps = DOMAIN workflow[w].steps
           /\ \A i \in DOMAIN workflow[w].steps :
                workflow'[w].steps[i].link = workflow[w].steps[i].link
<1> DEFINE run == workflow[w]
<1>1. /\ workflow \in [Workflows -> WorkflowRun \cup {None}]
      /\ action \in [Revisions -> ActionRun \cup {None}]
      /\ run # None /\ run \in WorkflowRun /\ run.state \in WorkflowTerminal
      /\ RunGood(run, action, decision, DueOf(w))
    BY DEF IInv, TypeOK, Exists, Open
<1>2. ASSUME Sync(v), v # w PROVE workflow'[w] = workflow[w]
    BY <1>1, <1>2 DEF Sync, SyncAt
<1>3. ASSUME Cancel(v), v # w PROVE workflow'[w] = workflow[w]
    BY <1>1, <1>3 DEF Cancel
<1>4. ASSUME Sync(w)
      PROVE  /\ workflow'[w].state = run.state
             /\ DOMAIN workflow'[w].steps = DOMAIN run.steps
             /\ \A i \in DOMAIN run.steps : workflow'[w].steps[i].link = run.steps[i].link
    <2>1. PICK late : SyncAt(w, late)
        BY <1>4 DEF Sync
    <2>2. ClosedState(w, late) = run.state
        BY DEF ClosedState
    <2>3. run.state \in WorkflowState
        BY <1>1, StepRows
    <2>4. PICK steps : steps = Projected(w, run.state)
        OBVIOUS
    <2>5. PICK new : new = projectAggregate(w, steps, run.state)
        OBVIOUS
    <2>6. MaySync(w, new) /\ workflow'[w] = new
        BY <1>1, <2>1, <2>2, <2>4, <2>5 DEF SyncAt
    <2>7. new.state = run.state
        <3>1. workflowTransitions[run.state] = {}
            BY <1>1, <2>3 DEF workflowTransitions, WorkflowTerminal
        <3> QED
            BY <2>6, <3>1 DEF MaySync, CanTransitionWorkflow
    <2>8. /\ steps \in Seq(Step) /\ DOMAIN steps = DOMAIN run.steps
          /\ \A i \in DOMAIN run.steps : steps[i].link = run.steps[i].link
        <3>1. /\ steps \in Seq(Step) /\ DOMAIN steps = DOMAIN run.steps
              /\ \A i \in DOMAIN steps : steps[i] = ProjectedStep(run.steps[i], run.state)
            BY <1>1, <2>3, <2>4, ProjectedSteps
        <3>2. \A i \in DOMAIN run.steps :
                ProjectedStep(run.steps[i], run.state).link = run.steps[i].link
            BY <1>1, <2>3, ProjectedRow
        <3> QED
            BY <3>1, <3>2
    <2>9. new.steps = steps \/ new.steps = Requeued(steps, Advanced(steps, run.current))
        BY <2>5 DEF projectAggregate
    <2>10. /\ DOMAIN new.steps = DOMAIN steps
           /\ \A i \in DOMAIN steps : new.steps[i].link = steps[i].link
        BY <2>8, <2>9, RequeuedRow
    <2> QED
        BY <2>6, <2>7, <2>8, <2>10
<1>5. ASSUME Cancel(w)
      PROVE  /\ workflow'[w].state = run.state
             /\ DOMAIN workflow'[w].steps = DOMAIN run.steps
             /\ \A i \in DOMAIN run.steps : workflow'[w].steps[i].link = run.steps[i].link
    <2>1. PICK rows : rows = [i \in DOMAIN run.steps |-> CancelledStep(run.steps[i])]
        OBVIOUS
    <2>2. workflow' = [workflow EXCEPT ![w] =
                            [run EXCEPT !.state = run.state, !.steps = rows]]
        BY <1>5, <2>1, CancelWrites
    <2>3. workflow'[w] = [run EXCEPT !.state = run.state, !.steps = rows]
        BY <1>1, <2>2
    <2>4. workflow'[w].state = run.state /\ workflow'[w].steps = rows
        BY <1>1, <2>3 DEF WorkflowRun
    <2>5. \A i \in DOMAIN run.steps : CancelledStep(run.steps[i]).link = run.steps[i].link
        <3>1. \A i \in DOMAIN run.steps : run.steps[i] \in Step
            BY <1>1, StepRows
        <3> QED
            BY <3>1 DEF CancelledStep, Step
    <2> QED
        BY <2>1, <2>4, <2>5
<1> QED
    BY <1>2, <1>3, <1>4, <1>5

\* A workflow that has ended keeps its state, its steps and their links, under
\* late approvals and additions that had read it open, Sync and Cancel.
THEOREM EndIsFinal == Spec => EndedIsFinal
<1>1. ASSUME IInv, [Next]_vars, NEW w \in Workflows, Exists(w), ~Open(w)
      PROVE  /\ workflow'[w].state = workflow[w].state
             /\ DOMAIN workflow'[w].steps = DOMAIN Steps(w)
             /\ \A i \in DOMAIN Steps(w) :
                    workflow'[w].steps[i].link = Steps(w)[i].link
    <2>0. workflow \in [Workflows -> WorkflowRun \cup {None}]
        BY <1>1 DEF IInv, TypeOK
    <2>1. CASE workflow'[w] = workflow[w]
        BY <2>1 DEF Steps
    <2>2. ASSUME NEW v \in Workflows, Sync(v) \/ Cancel(v)
          PROVE  /\ workflow'[w].state = workflow[w].state
                 /\ DOMAIN workflow'[w].steps = DOMAIN Steps(w)
                 /\ \A i \in DOMAIN Steps(w) :
                        workflow'[w].steps[i].link = Steps(w)[i].link
        BY <1>1, <2>2, EndedKept DEF Steps
    <2>3. ASSUME NEW v \in Workflows, Create(v) PROVE workflow'[w] = workflow[w]
        <3>1. v # w
            BY <1>1, <2>3 DEF Create
        <3> QED
            BY <2>0, <2>3, <3>1 DEF Create
    <2>4. ASSUME NEW c \in Callers, AddStep(c) PROVE workflow'[w] = workflow[w]
        <3>1. CASE MayAppend(call[c].workflow, call[c].rev)
            <4>1. call[c].workflow # w
                BY <1>1, <3>1 DEF MayAppend
            <4> QED
                BY <2>0, <2>4, <3>1, <4>1 DEF AddStep
        <3> QED
            BY <2>4, <3>1 DEF AddStep
    <2>5. ASSUME NEW c \in Callers, ApproveStep(c) PROVE workflow'[w] = workflow[w]
        <3>1. PICK d : /\ MayBind(call[c].workflow, call[c].step, call[c].rev, d)
                       /\ Bind(call[c].workflow, call[c].step, d)
            BY <2>5 DEF ApproveStep
        <3>2. call[c].workflow # w
            BY <1>1, <3>1 DEF MayBind
        <3> QED
            BY <2>0, <3>1, <3>2 DEF Bind
    <2>6. CASE UNCHANGED workflow
        BY <2>1, <2>6
    <2>7. \/ UNCHANGED workflow
          \/ \E v \in Workflows : Create(v) \/ Sync(v) \/ Cancel(v)
          \/ \E c \in Callers : AddStep(c) \/ ApproveStep(c)
        BY <1>1 DEF Next, vars, StorePlan, PlanExpires, ApproveUnlinked, ActionMoves,
                    CancelAction, DeadlinePasses, AddStepRead, ApproveStepRead, ApproveRefused
    <2> QED
        BY <2>1, <2>2, <2>3, <2>4, <2>5, <2>6, <2>7
<1>2. IInv /\ [Next]_vars => [\A w \in Workflows :
        Exists(w) /\ ~Open(w) =>
            /\ workflow'[w].state = workflow[w].state
            /\ DOMAIN workflow'[w].steps = DOMAIN Steps(w)
            /\ \A i \in DOMAIN Steps(w) :
                workflow'[w].steps[i].link = Steps(w)[i].link]_vars
    BY <1>1
<1> QED
    BY <1>2, SpecIInv, PTL DEF Spec, EndedIsFinal
=============================================================================
