------------------------------ MODULE Executor ------------------------------
(***************************************************************************)
(* The durable action executor (internal/execution/execution.go) over its   *)
(* SQLite journal (internal/storage/query.sql).                             *)
(*                                                                         *)
(* Threads are the goroutines of one process that run RunOnce/RunAction;    *)
(* each belongs to one Executor value, which carries a WorkerID and an      *)
(* in-process reservation map.  SQLite runs with one connection, so every   *)
(* statement and every transaction is one atomic step; everything else      *)
(* (handler calls, the gap between two transactions) interleaves.           *)
(***************************************************************************)
EXTENDS ActionStates, Integers, Sequences, FiniteSets

CONSTANTS
    Actions,      \* action_runs rows
    Threads,      \* goroutines calling claimAndProcess
    Executors,    \* Executor values of the process
    None,         \* no worker (claimed_by IS NULL)
    ExecutorOf,   \* [Threads -> Executors]
    Handling,     \* the executors with a handler registered for the actions
    Overlap,      \* pairs of actions whose reservation keys conflict
    Deadlined,    \* actions that have a deadline
    Cancellable,  \* actions whose cancellation a caller may request
    Foreign,      \* actions whose desired state others may bring about
    RetryLimit,   \* Retry.MaxAttempts; 0 is no limit
    MaxJournal,   \* bound: attempts of one action
    MaxSends,     \* bound: external requests of one action
    FaultPoints,  \* program points at which a journal transaction may fail
    MaxFaults,    \* bound: journal transactions that fail
    MaxStalls,    \* bound: leases that expire under a working thread
    MaxCrashes    \* bound: process crashes

ASSUME ConstantsAssumption ==
    /\ ExecutorOf \in [Threads -> Executors]
    /\ None \notin Executors
    /\ Handling \subseteq Executors
    /\ Overlap \subseteq Actions \X Actions
    /\ \A a, b \in Actions : <<a, b>> \in Overlap => <<b, a>> \in Overlap
    /\ \A a \in Actions : <<a, a>> \notin Overlap
    /\ Deadlined \subseteq Actions /\ Cancellable \subseteq Actions
    /\ Foreign \subseteq Actions
    /\ RetryLimit \in Nat /\ MaxJournal \in Nat /\ MaxSends \in Nat
    /\ MaxFaults \in Nat /\ MaxStalls \in Nat /\ MaxCrashes \in Nat

VARIABLES
    run,       \* action_runs: one row per action
    attempts,  \* action_attempts: the sequence of attempts of each action
    effect,    \* action_effects: the action's target and the attempt it is bound to
    overdue,   \* has the action's deadline passed?
    world,     \* what the upstream system has received, applied and got from others (external)
    th,        \* each thread's local variables
    local,     \* Executor.reservations: actions holding in-process keys
    fallback,  \* dispatchBarrierFallbackRegistry
    up,        \* has startup recovery completed?
    spent      \* how much of each fault bound has been used

vars == <<run, attempts, effect, overdue, world, th, local, fallback, up, spent>>

-----------------------------------------------------------------------------
(* Types *)

\* by and expired are claimed_by and "lease_until <= now"; reserved and marker
\* are the two fields of outcome_json that control reads: the reservation keys
\* and the dispatchBarrierReturnedAttempt (0 when absent).
Row == [state : ActionState, version : Nat, by : Executors \cup {None},
        expired : BOOLEAN, cancel : BOOLEAN, reserved : BOOLEAN,
        marker : Nat, unresolved : 0..1]

\* intent is dispatchBarrierRetryAttempt in the attempt's evidence.
Attempt == [phase : AttemptPhase, state : AttemptState, intent : BOOLEAN]

\* What a handler call, or a check before it, told the executor.
Verdict ==
    {"none", "satisfied", "unproven", "dependency", "review", "stopped",
     "applied", "uncertain", "failed", "safe", "unresolved", "retry"}

\* pc values at which the next step is a journal transaction of the thread.
JournalPoint ==
    {"reserve", "wait", "obs_new", "prepare", "close", "effects", "final",
     "defer", "rec_att", "rel_intent", "rel_mark", "rel_resolve"}

PC == JournalPoint \cup
    {"idle", "claim", "local", "observe", "before", "dispatch", "rec_find",
     "rec_refresh", "rec_active", "reconcile", "finish", "bg"}

Thread == [pc : PC, act : Actions \cup {None}, ver : Nat, from : ActionState,
           claimed : BOOLEAN, mark : Nat, phase : AttemptPhase \cup {"none"},
           res : Verdict, att : Nat, sent : BOOLEAN, ierr : BOOLEAN,
           back : {"none", "finish", "rec", "bg"}, keep : BOOLEAN]

Idle == [pc |-> "idle", act |-> None, ver |-> 0, from |-> "queued",
         claimed |-> FALSE, mark |-> 0, phase |-> "none", res |-> "none",
         att |-> 0, sent |-> FALSE, ierr |-> FALSE, back |-> "none",
         keep |-> FALSE]

\* The one type invariant: every row, attempt, effect and thread-local value
\* is well formed.
TypeOK ==
    /\ run \in [Actions -> Row]
    /\ attempts \in [Actions -> Seq(Attempt)]
    /\ effect \in [Actions -> [state : EffectState, att : Nat]]
    /\ overdue \in [Actions -> BOOLEAN]
    /\ world \in [Actions -> [inflight : Nat, applied : Nat, foreign : BOOLEAN]]
    /\ th \in [Threads -> Thread]
    /\ local \in [Executors -> SUBSET Actions]
    /\ fallback \subseteq (Actions \X Nat)
    /\ up \in BOOLEAN
    /\ spent \in [faults : Nat, stalls : Nat, crashes : Nat]

Init ==
    /\ run = [a \in Actions |->
                [state |-> "queued", version |-> 1, by |-> None,
                 expired |-> FALSE, cancel |-> FALSE, reserved |-> FALSE,
                 marker |-> 0, unresolved |-> 0]]
    /\ attempts = [a \in Actions |-> <<>>]
    /\ effect = [a \in Actions |-> [state |-> "none", att |-> 0]]
    /\ overdue = [a \in Actions |-> FALSE]
    /\ world = [a \in Actions |-> [inflight |-> 0, applied |-> 0, foreign |-> FALSE]]
    /\ th = [t \in Threads |-> Idle]
    /\ local = [e \in Executors |-> {}]
    /\ fallback = {}
    /\ up = TRUE
    /\ spent = [faults |-> 0, stalls |-> 0, crashes |-> 0]

-----------------------------------------------------------------------------
(* Journal helpers *)

\* Mutant of Outcome: the claim is not cleared.
OutcomeKeepsClaim(row, s, n) ==
    [row EXCEPT !.state = s, !.version = @ + 1, !.marker = 0, !.unresolved = n,
                !.reserved = @ /\ s \in Retaining]

\* UpdateOutcome as every transition calls it: the claim is cleared, the
\* version advances, the outcome is replaced (so a returned marker is lost)
\* and the reservation keys survive only in the retaining states.
Outcome(row, s, n) ==
    [row EXCEPT !.state = s, !.version = @ + 1, !.by = None, !.expired = FALSE,
                !.reserved = @ /\ s \in Retaining, !.marker = 0,
                !.unresolved = n]

\* Mutant of unresolvedEffectCount: unknown effects are not counted.
unresolvedEffectCountKnown(a, includePending) ==
    IF effect[a].state \in {"failed", "cancelled"} THEN 1 ELSE 0

unresolvedEffectCount(a, includePending) ==
    IF \/ effect[a].state \in {"unknown", "failed", "cancelled"}
       \/ includePending /\ effect[a].state = "pending"
    THEN 1 ELSE 0

\* cancelledOrDeadline: cancellation wins over the deadline.
Stopped(a) == run[a].cancel \/ overdue[a]

\* Mutant of StopState: the deadline wins over the cancellation.
StopStateOverdue(a) == IF overdue[a] THEN "deadline_exceeded" ELSE "cancelled"

StopState(a) == IF run[a].cancel THEN "cancelled" ELSE "deadline_exceeded"

IsActiveDispatch(at) == at.phase = "dispatch" /\ at.state = "running"

\* Mutant of ActiveDispatches: a running dispatch is no barrier.
ActiveDispatchesIgnored(a) == {}

ActiveDispatches(a) == {n \in DOMAIN attempts[a] : IsActiveDispatch(attempts[a][n])}

NewAttempt(phase) == [phase |-> phase, state |-> "running", intent |-> FALSE]

ExecOf(t) == ExecutorOf[t]
Act(t) == th[t].act

\* Mutant of FenceMatches: the claim generation is not compared.
FenceMatchesUnversioned(t) ==
    run[Act(t)].state = "running" /\ run[Act(t)].by = ExecOf(t)

\* claimFenceMatches / InTxClaimed: the row is still this thread's claim
\* generation, up to the one version a cancellation request adds.  The time the
\* fence compares lease_until with is the one it was taken at, so an expired
\* lease that nobody has recovered yet still matches.
FenceMatches(t) ==
    LET r == run[Act(t)] IN
    /\ r.state = "running"
    /\ r.by = ExecOf(t)
    /\ \/ r.version = th[t].ver
       \/ r.version = th[t].ver + 1 /\ r.cancel

\* A write of thread t: fenced when it holds a claim, free when it does not
\* (the reconciliation of a cancelled or overdue action takes no claim).
MayWrite(t) == th[t].claimed => FenceMatches(t)

At(t, p) == up /\ th[t].pc = p

Goto(t, p) == th' = [th EXCEPT ![t].pc = p]

CanFault(t) ==
    /\ th[t].pc \in FaultPoints
    /\ spent.faults < MaxFaults

UseFault == spent' = [spent EXCEPT !.faults = @ + 1]

-----------------------------------------------------------------------------
(* The process, the clock and the callers *)

\* lease_until IS NULL OR lease_until <= now
Unleased(row) == row.by = None \/ row.expired

\* Mutant of HasClaim: only claimed reconciliations are recovered.
HasClaimReconciling(row) == row.state = "reconciling" /\ row.by # None

HasClaim(row) ==
    row.state = "running" \/ (row.state = "reconciling" /\ row.by # None)

\* Mutant of Recovered: an expired claim is simply queued again.
RecoveredQueued(row) ==
    [row EXCEPT !.state = "queued", !.version = @ + 1, !.by = None, !.expired = FALSE]

\* RecoverRunning/RecoverExpired on one row.
Recovered(row) ==
    [row EXCEPT !.state = "reconciling", !.version = @ + 1, !.by = None,
                !.expired = FALSE]

Finalized(row, s) ==
    [row EXCEPT !.state = s, !.version = @ + 1, !.by = None, !.expired = FALSE]

Unstarted == {"queued", "waiting_dependency"}

\* The rows FinalizeCancelled and, after it, FinalizeDeadline leave behind.
FinalizeCancelledRows(rows) ==
    [a \in Actions |->
        IF rows[a].state \in Unstarted /\ rows[a].cancel
        THEN Finalized(rows[a], "cancelled") ELSE rows[a]]

FinalizeDeadlineRows(rows) ==
    [a \in Actions |->
        IF rows[a].state \in Unstarted /\ ~rows[a].cancel /\ overdue[a]
        THEN Finalized(rows[a], "deadline_exceeded") ELSE rows[a]]

\* Every goroutine stops where it is; what is in the database and what the
\* upstream system has already received survive.
Crash ==
    /\ up
    /\ spent.crashes < MaxCrashes
    /\ up' = FALSE
    /\ th' = [t \in Threads |-> Idle]
    /\ local' = [e \in Executors |-> {}]
    /\ fallback' = {}
    /\ spent' = [spent EXCEPT !.crashes = @ + 1]
    /\ UNCHANGED <<run, attempts, effect, overdue, world>>

RecoverRunningRows ==
    [a \in Actions |->
        IF HasClaim(run[a]) THEN Recovered(run[a]) ELSE run[a]]

RecoverRunningAttempts ==
    [a \in Actions |->
        [n \in DOMAIN attempts[a] |->
            IF attempts[a][n].state = "running"
            THEN [attempts[a][n] EXCEPT !.state = "reconciling"]
            ELSE attempts[a][n]]]

\* Startup recovery; no worker runs before it has completed.
Recover ==
    /\ ~up
    /\ up' = TRUE
    /\ run' = FinalizeDeadlineRows(FinalizeCancelledRows(RecoverRunningRows))
    /\ attempts' = RecoverRunningAttempts
    /\ UNCHANGED <<effect, overdue, world, th, local, fallback, spent>>

\* The three statements RunOnce executes before it lists due work.
RecoverExpired ==
    /\ up
    /\ \E a \in Actions : HasClaim(run[a]) /\ Unleased(run[a])
    /\ run' = [a \in Actions |->
                IF HasClaim(run[a]) /\ Unleased(run[a])
                THEN Recovered(run[a]) ELSE run[a]]
    /\ UNCHANGED <<attempts, effect, overdue, world, th, local, fallback, up, spent>>

FinalizeCancelled ==
    /\ up
    /\ FinalizeCancelledRows(run) # run
    /\ run' = FinalizeCancelledRows(run)
    /\ UNCHANGED <<attempts, effect, overdue, world, th, local, fallback, up, spent>>

FinalizeDeadline ==
    /\ up
    /\ FinalizeDeadlineRows(run) # run
    /\ run' = FinalizeDeadlineRows(run)
    /\ UNCHANGED <<attempts, effect, overdue, world, th, local, fallback, up, spent>>

\* Cancel: the marker is set once and advances the version once.
RequestCancellation(a) ==
    /\ up
    /\ a \in Cancellable
    /\ run[a].state \notin Terminal
    /\ ~run[a].cancel
    /\ run' = [run EXCEPT ![a].cancel = TRUE, ![a].version = @ + 1]
    /\ UNCHANGED <<attempts, effect, overdue, world, th, local, fallback, up, spent>>

\* cancelLinkedActions of a workflow that closes: the marker without a version.
CancelLinked(a) ==
    /\ up
    /\ a \in Cancellable
    /\ run[a].state \notin Terminal
    /\ ~run[a].cancel
    /\ run' = [run EXCEPT ![a].cancel = TRUE]
    /\ UNCHANGED <<attempts, effect, overdue, world, th, local, fallback, up, spent>>

DeadlinePasses(a) ==
    /\ a \in Deadlined
    /\ ~overdue[a]
    /\ overdue' = [overdue EXCEPT ![a] = TRUE]
    /\ UNCHANGED <<run, attempts, effect, world, th, local, fallback, up, spent>>

\* Does a live thread still renew the lease of a?  RenewLease refuses a
\* cancelled generation.
Renewed(a) ==
    /\ ~run[a].cancel
    /\ \E t \in Threads : Act(t) = a /\ th[t].claimed /\ FenceMatches(t)

\* A lease that nobody renews runs out; one that is being renewed runs out
\* only when its process is stalled past it.
LeaseExpires(a) ==
    /\ run[a].by # None
    /\ ~run[a].expired
    /\ IF Renewed(a)
       THEN /\ spent.stalls < MaxStalls
            /\ spent' = [spent EXCEPT !.stalls = @ + 1]
       ELSE UNCHANGED spent
    /\ run' = [run EXCEPT ![a].expired = TRUE]
    /\ UNCHANGED <<attempts, effect, overdue, world, th, local, fallback, up>>

\* The upstream system applies, or loses, a request it was sent.
Land(a) ==
    /\ world[a].inflight > 0
    /\ world' = [world EXCEPT ![a].inflight = @ - 1, ![a].applied = @ + 1]
    /\ UNCHANGED <<run, attempts, effect, overdue, th, local, fallback, up, spent>>

Drop(a) ==
    /\ world[a].inflight > 0
    /\ world' = [world EXCEPT ![a].inflight = @ - 1]
    /\ UNCHANGED <<run, attempts, effect, overdue, th, local, fallback, up, spent>>

\* A user, or another client, brings about upstream what the action wants.
Establish(a) ==
    /\ a \in Foreign
    /\ ~world[a].foreign
    /\ world' = [world EXCEPT ![a].foreign = TRUE]
    /\ UNCHANGED <<run, attempts, effect, overdue, th, local, fallback, up, spent>>

\* The state the action wants exists upstream.
Desired(a) == world[a].applied > 0 \/ world[a].foreign

-----------------------------------------------------------------------------
(* Claiming: RunOnce/RunAction and claimAndProcess *)

\* The thread reads the row it is going to process.  A cancelled or overdue
\* reconciliation is processed without a claim.
Pick(t, a) ==
    /\ At(t, "idle")
    /\ run[a].state \in Claimable
    /\ LET free == run[a].state = "reconciling" /\ Stopped(a) IN
       th' = [th EXCEPT ![t] =
                [Idle EXCEPT !.pc = IF free THEN "rec_find" ELSE "claim",
                             !.act = a, !.ver = run[a].version,
                             !.from = run[a].state, !.mark = run[a].marker,
                             !.phase = IF free THEN "reconcile" ELSE "none",
                             !.keep = free]]
    /\ UNCHANGED <<run, attempts, effect, overdue, world, local, fallback, up, spent>>

\* RunAction may name a row that is not claimable; only an executor without a
\* handler does more with it than fail to claim it.
PickById(t, a) ==
    /\ At(t, "idle")
    /\ run[a].state \notin Claimable
    /\ th' = [th EXCEPT ![t] = [Idle EXCEPT !.pc = "claim", !.act = a, !.ver = run[a].version]]
    /\ UNCHANGED <<run, attempts, effect, overdue, world, local, fallback, up, spent>>

\* The executor has no handler for the action's kind: hold is not fenced and
\* takes the row from whatever state it is in now.
HoldUnhandled(t) ==
    /\ At(t, "claim") \/ At(t, "rec_find")
    /\ ~th[t].claimed
    /\ ExecOf(t) \notin Handling
    /\ LET a == Act(t) IN
       run' = [run EXCEPT ![a] =
                Outcome(@, "needs_review", unresolvedEffectCount(a, FALSE))]
    /\ th' = [th EXCEPT ![t] = Idle]
    /\ UNCHANGED <<attempts, effect, overdue, world, local, fallback, up, spent>>

\* Mutant of ClaimPredicate: the claim statement leaves the state out.
ClaimPredicateAnyState(t) ==
    LET a == Act(t) IN
    /\ run[a].version = th[t].ver
    /\ ~run[a].cancel
    /\ ~overdue[a]
    /\ Unleased(run[a])

ClaimPredicate(t) ==
    LET a == Act(t) IN
    /\ run[a].version = th[t].ver
    /\ run[a].state \in Claimable
    /\ ~run[a].cancel
    /\ ~overdue[a]
    /\ Unleased(run[a])

Claim(t) ==
    /\ At(t, "claim")
    /\ ExecOf(t) \in Handling
    /\ LET a == Act(t) IN
       IF ClaimPredicate(t)
       THEN /\ run' = [run EXCEPT ![a].state = "running", ![a].by = ExecOf(t),
                                  ![a].expired = FALSE, ![a].version = @ + 1]
            /\ th' = [th EXCEPT ![t].pc = "local", ![t].claimed = TRUE,
                                ![t].ver = run[a].version + 1,
                                ![t].mark = run[a].marker]
       ELSE /\ th' = [th EXCEPT ![t] = Idle]
            /\ UNCHANGED run
    /\ UNCHANGED <<attempts, effect, overdue, world, local, fallback, up, spent>>

-----------------------------------------------------------------------------
(* Reservations: acquireAndPersistReservations *)

LocalConflict(t) ==
    \E b \in local[ExecOf(t)] : <<Act(t), b>> \in Overlap

DurableConflict(a) ==
    \E b \in Actions : /\ <<a, b>> \in Overlap
                       /\ run[b].reserved
                       /\ run[b].state \in Retaining

AcquireReservations(t) ==
    /\ At(t, "local")
    /\ IF LocalConflict(t)
       THEN /\ Goto(t, "wait")
            /\ UNCHANGED local
       ELSE /\ local' = [local EXCEPT ![ExecOf(t)] = @ \cup {Act(t)}]
            /\ Goto(t, "reserve")
    /\ UNCHANGED <<run, attempts, effect, overdue, world, fallback, up, spent>>

Reserve(t) ==
    /\ At(t, "reserve")
    /\ FenceMatches(t)
    /\ ~DurableConflict(Act(t))
    /\ run' = [run EXCEPT ![Act(t)].reserved = TRUE]
    /\ th' = [th EXCEPT ![t] =
                IF @.from = "reconciling"
                THEN [@ EXCEPT !.pc = "rec_find", !.phase = "reconcile", !.from = "queued"]
                ELSE [@ EXCEPT !.pc = "obs_new", !.phase = "observe", !.from = "queued",
                               !.mark = 0]]
    /\ UNCHANGED <<attempts, effect, overdue, world, local, fallback, up, spent>>

\* A conflicting row, a lost claim or a failed transaction: the in-process
\* keys are given back and the action waits.
ReserveRefused(t) ==
    /\ At(t, "reserve")
    /\ \/ ~FenceMatches(t) /\ UNCHANGED spent
       \/ DurableConflict(Act(t)) /\ UNCHANGED spent
       \/ CanFault(t) /\ UseFault
    /\ local' = [local EXCEPT ![ExecOf(t)] = @ \ {Act(t)}]
    /\ Goto(t, "wait")
    /\ UNCHANGED <<run, attempts, effect, overdue, world, fallback, up>>

\* applyWait, or applyHold once the retry limit is reached.
WaitRow(a) ==
    IF RetryLimit > 0 /\ Len(attempts[a]) >= RetryLimit
    THEN Outcome(run[a], "needs_review", unresolvedEffectCount(a, FALSE))
    ELSE Outcome(run[a], "waiting_dependency", 0)

\* Only the in-process keys are left to give back.
Finishing(t, keep) == [Idle EXCEPT !.pc = "finish", !.act = Act(t), !.keep = keep]

\* Where a thread goes when its part of claimAndProcess is over: a failed
\* reservation returns at once, a dispatch first releases its barrier if its
\* attempt was left running, everything else releases the in-process keys.
Leave(t, keep) ==
    IF th[t].phase = "none"
    THEN Idle
    ELSE IF /\ th[t].phase = "dispatch"
            /\ IsActiveDispatch(attempts[Act(t)][th[t].att])
         THEN [th[t] EXCEPT !.pc = "rel_intent", !.back = "finish",
                            !.keep = keep, !.ierr = FALSE, !.res = "none"]
         ELSE Finishing(t, keep)

Wait(t) ==
    /\ At(t, "wait")
    /\ FenceMatches(t)
    /\ run' = [run EXCEPT ![Act(t)] = WaitRow(Act(t))]
    /\ th' = [th EXCEPT ![t] = Leave(t, FALSE)]
    /\ UNCHANGED <<attempts, effect, overdue, world, local, fallback, up, spent>>

\* releaseReservationsForAction unless the result says the effect is open.
Finish(t) ==
    /\ At(t, "finish")
    /\ local' = [local EXCEPT ![ExecOf(t)] =
                    IF th[t].keep THEN @ ELSE @ \ {Act(t)}]
    /\ th' = [th EXCEPT ![t] = Idle]
    /\ UNCHANGED <<run, attempts, effect, overdue, world, fallback, up, spent>>

-----------------------------------------------------------------------------
(* Observation: the first half of processObserved *)

JournalHasRoom(a) == Len(attempts[a]) < MaxJournal

ObserveBegin(t) ==
    /\ At(t, "obs_new")
    /\ FenceMatches(t)
    /\ JournalHasRoom(Act(t))
    /\ attempts' = [attempts EXCEPT ![Act(t)] = Append(@, NewAttempt("observe"))]
    /\ th' = [th EXCEPT ![t].pc = "observe", ![t].att = Len(attempts[Act(t)]) + 1]
    /\ UNCHANGED <<run, effect, overdue, world, local, fallback, up, spent>>

\* What handler.Observe may answer: the desired state as it is upstream now,
\* or no answer.  An error is read together with the row: a cancelled or
\* overdue action is stopped, a dependency failure waits, any other is held,
\* as is an observation that does not validate.
ObserveVerdict(a) ==
    (IF Desired(a) THEN {"satisfied"} ELSE {"needs_action"})
    \cup {"unproven", "review"}
    \cup (IF Stopped(a) THEN {"stopped"} ELSE {"dependency"})

ObserveReturn(t) ==
    /\ At(t, "observe")
    /\ \E v \in ObserveVerdict(Act(t)) :
        th' = [th EXCEPT ![t] =
                IF v = "needs_action"
                THEN [@ EXCEPT !.pc = "prepare"]
                ELSE [@ EXCEPT !.pc = "close", !.res = v]]
    /\ UNCHANGED <<run, attempts, effect, overdue, world, local, fallback, up, spent>>

\* prepareDispatch: one transaction closes the observation, creates the
\* dispatch attempt and makes the effect pending on it.
PrepareDispatch(t) ==
    /\ At(t, "prepare")
    /\ FenceMatches(t)
    /\ JournalHasRoom(Act(t))
    /\ LET a == Act(t)
           n == Len(attempts[a]) + 1
       IN
       /\ attempts' = [attempts EXCEPT ![a] =
                Append([@ EXCEPT ![th[t].att].state = "succeeded"],
                       NewAttempt("dispatch"))]
       /\ effect' = [effect EXCEPT ![a] = [state |-> "pending", att |-> n]]
       /\ th' = [th EXCEPT ![t].pc = "before", ![t].phase = "dispatch",
                           ![t].att = n]
    /\ UNCHANGED <<run, overdue, world, local, fallback, up, spent>>

-----------------------------------------------------------------------------
(* Dispatch: the second half of processObserved *)

StillOwner(t) ==
    LET r == run[Act(t)] IN
    /\ r.version = th[t].ver
    /\ r.by = ExecOf(t)
    /\ ~r.expired

\* beforeDispatch.  The check and the handler call are two steps: what it
\* read may be stale when the handler sends its request.
BeforeDispatch(t) ==
    /\ At(t, "before")
    /\ th' = [th EXCEPT ![t] =
                IF Stopped(Act(t))
                THEN [@ EXCEPT !.pc = "close", !.res = "stopped"]
                ELSE IF StillOwner(t)
                     THEN [@ EXCEPT !.pc = "dispatch"]
                     ELSE Leave(t, FALSE)]
    /\ UNCHANGED <<run, attempts, effect, overdue, world, local, fallback, up, spent>>

\* The context was cancelled before the check: the caller is shutting down,
\* or the watcher saw the claim change or the lease run out.
BeforeDispatchCancelled(t) ==
    /\ At(t, "before")
    /\ th' = [th EXCEPT ![t].pc = "close", ![t].res = "stopped"]
    /\ UNCHANGED <<run, attempts, effect, overdue, world, local, fallback, up, spent>>

\* The handler sends its mutation upstream.
DispatchSend(t) ==
    /\ At(t, "dispatch")
    /\ ~th[t].sent
    /\ world[Act(t)].inflight + world[Act(t)].applied < MaxSends
    /\ world' = [world EXCEPT ![Act(t)].inflight = @ + 1]
    /\ th' = [th EXCEPT ![t].sent = TRUE]
    /\ UNCHANGED <<run, attempts, effect, overdue, local, fallback, up, spent>>

\* What handler.Dispatch and the read-back may establish.  Success needs the
\* read-back to find the desired state; a failure that claims nothing was
\* dispatched is believed only when nothing was; anything else is uncertain.
DispatchVerdict(t) ==
    LET w == world[Act(t)] IN
    {"uncertain"}
    \cup (IF Desired(Act(t)) THEN {"applied"} ELSE {})
    \cup (IF ~th[t].sent \/ (w.inflight = 0 /\ w.applied = 0)
          THEN {"dependency", "failed"} ELSE {})

DispatchReturn(t) ==
    /\ At(t, "dispatch")
    /\ \E v \in DispatchVerdict(t) :
        th' = [th EXCEPT ![t].pc = "close", ![t].res = v, ![t].sent = FALSE]
    /\ UNCHANGED <<run, attempts, effect, overdue, world, local, fallback, up, spent>>

-----------------------------------------------------------------------------
(* Recording a verdict: attempt, effects, transition, in that order, each in *)
(* a transaction of its own                                                 *)

\* Mutant of CloseState: a stopped attempt gets the action's state.
CloseStateOfAction(v) == IF v = "stopped" THEN "deadline_exceeded" ELSE "succeeded"

CloseState(v) ==
    CASE v \in {"satisfied", "unproven", "applied", "safe"} -> "succeeded"
      [] v \in {"uncertain", "unresolved", "retry"}         -> "reconciling"
      [] v \in {"dependency", "review", "failed"}           -> "failed"
      [] OTHER                                              -> "cancelled"

HasEffects(v) == v \in {"satisfied", "applied", "safe", "uncertain", "unresolved"}

CloseAttempt(t) ==
    /\ At(t, "close")
    /\ MayWrite(t)
    /\ attempts' = [attempts EXCEPT ![Act(t)][th[t].att].state = CloseState(th[t].res)]
    /\ Goto(t, IF HasEffects(th[t].res) THEN "effects"
               ELSE IF th[t].res = "dependency" THEN "wait" ELSE "final")
    /\ UNCHANGED <<run, effect, overdue, world, local, fallback, up, spent>>

\* The states the effect row may take.  An errored dispatch may report its
\* target in any state (already_satisfied and cancelled are treated as applied
\* and failed are); a target it leaves out becomes unknown.
EffectStates(v) ==
    CASE v = "satisfied"  -> {"already_satisfied"}
      [] v = "applied"    -> {"applied"}
      [] v = "safe"       -> {"pending"}
      [] v = "uncertain"  -> {"unknown", "applied", "failed", "pending"}
      [] OTHER            -> {"unknown"}

RecordEffects(t) ==
    /\ At(t, "effects")
    /\ MayWrite(t)
    /\ \E s \in EffectStates(th[t].res) :
        effect' = [effect EXCEPT ![Act(t)] = [state |-> s, att |-> th[t].att]]
    /\ Goto(t, "final")
    /\ UNCHANGED <<run, attempts, overdue, world, local, fallback, up, spent>>

\* The reported targets are not the journalled ones: a reconciliation is
\* closed again as failed and held, an observation just returns the error.
EffectsRefused(t) ==
    /\ At(t, "effects")
    /\ MayWrite(t)
    /\ th[t].phase # "dispatch"
    /\ effect[Act(t)].state # "none"
    /\ th' = [th EXCEPT ![t] =
                IF @.phase = "reconcile"
                THEN [@ EXCEPT !.pc = "close", !.res = "review"]
                ELSE Leave(t, FALSE)]
    /\ UNCHANGED <<run, attempts, effect, overdue, world, local, fallback, up, spent>>

\* Mutants of OwnedTarget: an uncertain dispatch is retried; an unresolved
\* reconciliation counts as done.
OwnedTargetRetried(t) ==
    CASE th[t].res = "uncertain" -> "waiting_dependency"
      [] th[t].res \in {"satisfied", "applied"} -> "succeeded"
      [] th[t].res \in {"unresolved", "retry"} -> "reconciling"
      [] OTHER -> "needs_review"
OwnedTargetDone(t) ==
    CASE th[t].res \in {"satisfied", "applied", "unresolved"} -> "succeeded"
      [] th[t].res \in {"uncertain", "retry"} -> "reconciling"
      [] OTHER -> "needs_review"

\* The state a claimed verdict takes the action to.
OwnedTarget(t) ==
    LET a == Act(t)
        v == th[t].res
    IN  CASE v = "satisfied" -> "succeeded"
          [] v = "applied"   -> IF Stopped(a) THEN StopState(a) ELSE "succeeded"
          [] v \in {"uncertain", "retry"} ->
                IF Stopped(a) THEN StopState(a) ELSE "reconciling"
          [] v = "unresolved" -> "reconciling"
          [] v = "safe"       -> "queued"
          [] v = "failed"     -> "failed"
          [] v = "stopped"    -> StopState(a)
          [] OTHER            -> "needs_review"

\* unresolved_count as the transition writes it.
OwnedUnresolved(t, s) ==
    IF th[t].res \in {"stopped", "safe"}
    THEN 0 ELSE unresolvedEffectCount(Act(t), s = "reconciling")

\* transitionOwned, transitionDispatchOwned, transitionUncertainOwned,
\* transitionStopOwned, holdOwned and requeueOwned.  requeueOwned passes
\* through reconciling inside its transaction.
FinalOwned(t) ==
    /\ At(t, "final")
    /\ th[t].claimed
    /\ FenceMatches(t)
    /\ th[t].res = "stopped" => Stopped(Act(t))
    /\ LET a == Act(t)
           s == OwnedTarget(t)
           r == IF th[t].res = "safe" THEN Outcome(run[a], "reconciling", 0) ELSE run[a]
       IN  /\ run' = [run EXCEPT ![a] = Outcome(r, s, OwnedUnresolved(t, s))]
           /\ th' = [th EXCEPT ![t] = Leave(t, s \in {"reconciling", "needs_review"})]
    /\ UNCHANGED <<attempts, effect, overdue, world, local, fallback, up, spent>>

\* transitionStopOwned without a stop marker (the context alone was cancelled)
\* reports a lost lease and leaves the row claimed.
FinalNotStopped(t) ==
    /\ At(t, "final")
    /\ th[t].claimed
    /\ FenceMatches(t)
    /\ th[t].res = "stopped"
    /\ ~Stopped(Act(t))
    /\ th' = [th EXCEPT ![t] = Leave(t, FALSE)]
    /\ UNCHANGED <<run, attempts, effect, overdue, world, local, fallback, up, spent>>

FreeTarget(t) ==
    IF th[t].res \in {"unresolved", "retry"} THEN "reconciling" ELSE StopState(Act(t))

\* transition/transitionAt from the row's current state: the domain table
\* decides, and there is no claim to check.
FinalFree(t) ==
    /\ At(t, "final")
    /\ ~th[t].claimed
    /\ LET a == Act(t)
           s == FreeTarget(t)
       IN  IF CanTransition(run[a].state, s) \/ run[a].state = s
           THEN /\ run' = [run EXCEPT ![a] =
                        Outcome(@, s, unresolvedEffectCount(a, s = "reconciling"))]
                /\ th' = [th EXCEPT ![t] = Leave(t, s = "reconciling")]
           ELSE /\ th' = [th EXCEPT ![t] =
                        Leave(t, run[a].state \in {"reconciling", "needs_review"})]
                /\ UNCHANGED run
    /\ UNCHANGED <<attempts, effect, overdue, world, local, fallback, up, spent>>

-----------------------------------------------------------------------------
(* Reconciliation: processReconciliation *)

\* Dispatches known to have returned: the action marker the thread read, else
\* an attempt-level intent, else the process-local registry.
IntentAttempts(a) == {n \in ActiveDispatches(a) : attempts[a][n].intent}

\* Mutant of FallbackAttempts: the registry is not consulted.
FallbackAttemptsLost(a) == {}
FallbackAttempts(a) == {n \in ActiveDispatches(a) : <<a, n>> \in fallback}

ReturnedAttempts(t) ==
    LET a == Act(t) IN
    IF th[t].mark # 0 THEN {th[t].mark}
    ELSE IF IntentAttempts(a) # {} THEN IntentAttempts(a)
    ELSE FallbackAttempts(a)

ReconcileFind(t) ==
    /\ At(t, "rec_find")
    /\ ExecOf(t) \in Handling
    /\ LET returned == ReturnedAttempts(t) IN
       \/ /\ returned = {}
          /\ th' = [th EXCEPT ![t].pc = "rec_active", ![t].mark = 0]
       \/ \E n \in returned :
            /\ \A m \in returned : m <= n
            /\ th' = [th EXCEPT ![t] =
                    [@ EXCEPT !.pc = "rel_intent", !.back = "rec", !.mark = 0,
                              !.att = n, !.ierr = FALSE]]
    /\ UNCHANGED <<run, attempts, effect, overdue, world, local, fallback, up, spent>>

\* advanceAfterOutcome: the marker this thread wrote added one version.
AdvanceAfterOutcome(t) ==
    LET r == run[Act(t)] IN
    r.state = "running" /\ r.by = ExecOf(t) /\ ~r.cancel /\ r.version = th[t].ver + 1

\* After a release the row is read again: a claim that is gone ends the pass,
\* a version that moved must be the marker's.
ReconcileRefresh(t) ==
    /\ At(t, "rec_refresh")
    /\ LET r == run[Act(t)]
           go == [th[t] EXCEPT !.pc = "rec_active", !.att = 0, !.back = "none",
                               !.ver = IF th[t].claimed THEN r.version ELSE @]
       IN th' = [th EXCEPT ![t] =
            IF th[t].claimed /\ (r.state # "running" \/ r.by # ExecOf(t))
            THEN Leave(t, r.state \in {"reconciling", "needs_review"})
            ELSE IF th[t].claimed /\ r.version # th[t].ver /\ ~AdvanceAfterOutcome(t)
                 THEN Leave(t, FALSE) ELSE go]
    /\ UNCHANGED <<run, attempts, effect, overdue, world, local, fallback, up, spent>>

ReconcileActive(t) ==
    /\ At(t, "rec_active")
    /\ Goto(t, IF ActiveDispatches(Act(t)) # {} THEN "defer" ELSE "rec_att")
    /\ UNCHANGED <<run, attempts, effect, overdue, world, local, fallback, up, spent>>

\* deferActiveDispatch: the handler may still be running, so look again later.
DeferActiveDispatch(t) ==
    /\ At(t, "defer")
    /\ MayWrite(t)
    /\ LET a == Act(t)
           ok == th[t].claimed \/ run[a].state = "reconciling"
                 \/ CanTransition(run[a].state, "reconciling")
       IN  /\ run' = IF ok
                     THEN [run EXCEPT ![a] =
                            Outcome(@, "reconciling", unresolvedEffectCount(a, TRUE))]
                     ELSE run
           /\ th' = [th EXCEPT ![t] = Leave(t, TRUE)]
    /\ UNCHANGED <<attempts, effect, overdue, world, local, fallback, up, spent>>

\* The reconcile attempt to continue: a claimed pass takes any open one, an
\* unclaimed pass only the latest attempt.
OpenReconciles(t) ==
    LET a == Act(t) IN
    {n \in DOMAIN attempts[a] :
        /\ attempts[a][n].phase = "reconcile"
        /\ attempts[a][n].state = "reconciling"
        /\ th[t].claimed \/ n = Len(attempts[a])}

\* Reusing an attempt may still write the dispatch's external ID into it, a
\* fenced update that FenceLost and JournalFails let fail.
ReconcileReuse(t) ==
    /\ At(t, "rec_att")
    /\ \E n \in OpenReconciles(t) :
        /\ \A m \in OpenReconciles(t) : n <= m
        /\ th' = [th EXCEPT ![t].pc = "reconcile", ![t].att = n]
    /\ UNCHANGED <<run, attempts, effect, overdue, world, local, fallback, up, spent>>

ReconcileBegin(t) ==
    /\ At(t, "rec_att")
    /\ OpenReconciles(t) = {}
    /\ MayWrite(t)
    /\ JournalHasRoom(Act(t))
    /\ attempts' = [attempts EXCEPT ![Act(t)] = Append(@, NewAttempt("reconcile"))]
    /\ th' = [th EXCEPT ![t].pc = "reconcile", ![t].att = Len(attempts[Act(t)]) + 1]
    /\ UNCHANGED <<run, effect, overdue, world, local, fallback, up, spent>>

\* What handler.Reconcile may prove: the desired state, or that no effect was
\* or will be made; otherwise it stays unresolved or fails.
ReconcileVerdict(a) ==
    {"unresolved", "retry", "review"}
    \cup (IF Desired(a) THEN {"applied"} ELSE {})
    \cup (IF ~Desired(a) /\ world[a].inflight = 0 THEN {"safe"} ELSE {})

ReconcileReturn(t) ==
    /\ At(t, "reconcile")
    /\ \E v \in ReconcileVerdict(Act(t)) :
        th' = [th EXCEPT ![t].pc = "close", ![t].res = v]
    /\ UNCHANGED <<run, attempts, effect, overdue, world, local, fallback, up, spent>>

-----------------------------------------------------------------------------
(* The dispatch barrier: releaseDispatchBarrierWithClaim *)

Barrier(t) == <<Act(t), th[t].att>>

BarrierHeld(t) ==
    /\ th[t].att \in DOMAIN attempts[Act(t)]
    /\ IsActiveDispatch(attempts[Act(t)][th[t].att])

\* A worker that has just claimed the returned dispatch keeps its claim.
PreserveClaim(t) == th[t].back = "rec" /\ th[t].claimed

AfterRelease(t) ==
    CASE th[t].back = "rec" -> [th[t] EXCEPT !.pc = "rec_refresh"]
      [] th[t].back = "bg"  -> Idle
      [] OTHER              -> Finishing(t, th[t].keep)

\* Nothing is left to release: every write of the sequence is a no-op.
ReleaseResolved(t) ==
    /\ At(t, "rel_intent") \/ At(t, "rel_mark") \/ At(t, "rel_resolve")
    /\ ~BarrierHeld(t)
    /\ fallback' = fallback \ {Barrier(t)}
    /\ th' = [th EXCEPT ![t] = AfterRelease(t)]
    /\ UNCHANGED <<run, attempts, effect, overdue, world, local, up, spent>>

\* persistDispatchBarrierIntent on the exact running attempt.  Its failure is
\* remembered and the action marker is still tried.
ReleaseIntent(t) ==
    /\ At(t, "rel_intent")
    /\ BarrierHeld(t)
    /\ fallback' = fallback \cup {Barrier(t)}
    /\ \/ /\ attempts' = [attempts EXCEPT ![Act(t)][th[t].att].intent = TRUE]
          /\ Goto(t, "rel_mark")
          /\ UNCHANGED spent
       \/ /\ CanFault(t) /\ UseFault
          /\ th' = [th EXCEPT ![t].pc = "rel_mark", ![t].ierr = TRUE]
          /\ UNCHANGED attempts
    /\ UNCHANGED <<run, effect, overdue, world, local, up>>

\* markDispatchBarrierReturned: the row a return marker leaves.
MarkedRow(t) ==
    LET a == Act(t)
        r == run[a]
        hold == r.state = "running" /\ PreserveClaim(t) /\ ~r.cancel
        s == IF r.state = "running" /\ ~hold THEN "reconciling" ELSE r.state
    IN  IF r.marker = th[t].att /\ (r.state # "running" \/ hold)
        THEN r
        ELSE [Outcome(r, s, unresolvedEffectCount(a, TRUE)) EXCEPT
                !.marker = th[t].att,
                !.by = IF hold THEN r.by ELSE None,
                !.expired = hold /\ r.expired]

ReleaseMark(t) ==
    /\ At(t, "rel_mark")
    /\ BarrierHeld(t)
    /\ run' = [run EXCEPT ![Act(t)] = MarkedRow(t)]
    /\ Goto(t, "rel_resolve")
    /\ UNCHANGED <<attempts, effect, overdue, world, local, fallback, up, spent>>

\* The last transaction: the effect bound to the attempt becomes unknown and
\* the attempt stops being a barrier.
ReleaseResolve(t) ==
    /\ At(t, "rel_resolve")
    /\ BarrierHeld(t)
    /\ ~th[t].ierr
    /\ LET a == Act(t) IN
       /\ attempts' = [attempts EXCEPT ![a][th[t].att] =
                            [@ EXCEPT !.state = "reconciling", !.intent = FALSE]]
       /\ effect' = [effect EXCEPT ![a].state =
                        IF effect[a].att = th[t].att THEN "unknown" ELSE @]
    /\ fallback' = fallback \ {Barrier(t)}
    /\ th' = [th EXCEPT ![t] = AfterRelease(t)]
    /\ UNCHANGED <<run, overdue, world, local, up, spent>>

\* The release failed: scheduleBarrierRetry hands it to a background
\* goroutine (this thread goes on as that goroutine) and the worker's pass
\* ends, giving its in-process keys back.
ReleaseFailed(t) ==
    /\ \/ (At(t, "rel_mark") \/ At(t, "rel_resolve")) /\ CanFault(t) /\ UseFault
       \/ At(t, "rel_resolve") /\ th[t].ierr /\ UNCHANGED spent
    /\ BarrierHeld(t)
    /\ th' = [th EXCEPT ![t] =
                [Idle EXCEPT !.pc = "bg", !.act = Act(t), !.att = th[t].att,
                             !.back = "bg"]]
    /\ local' = [local EXCEPT ![ExecOf(t)] =
                    IF th[t].back = "bg" \/ th[t].keep THEN @ ELSE @ \ {Act(t)}]
    /\ UNCHANGED <<run, attempts, effect, overdue, world, fallback, up>>

BarrierRetry(t) ==
    /\ At(t, "bg")
    /\ Goto(t, "rel_intent")
    /\ UNCHANGED <<run, attempts, effect, overdue, world, local, fallback, up, spent>>

\* After 32 tries only the registry remembers the returned handler.
BarrierGiveUp(t) ==
    /\ At(t, "bg")
    /\ th' = [th EXCEPT ![t] = Idle]
    /\ UNCHANGED <<run, attempts, effect, overdue, world, local, fallback, up, spent>>

-----------------------------------------------------------------------------
(* Lost claims and failed transactions *)

Fenced == {"wait", "obs_new", "prepare", "close", "effects", "final", "defer", "rec_att"}

\* ErrLeaseLost from a fenced transaction: the pass ends without a write.
FenceLost(t) ==
    /\ up /\ th[t].pc \in Fenced
    /\ th[t].claimed
    /\ ~FenceMatches(t)
    /\ th' = [th EXCEPT ![t] = Leave(t, FALSE)]
    /\ UNCHANGED <<run, attempts, effect, overdue, world, local, fallback, up, spent>>

\* A transaction fails and rolls back.  A reconciliation that cannot record
\* its effects is closed again as failed; a hold that cannot be written still
\* reports needs_review, and an unclaimed pass the reconciling row it read.
JournalFails(t) ==
    /\ up /\ th[t].pc \in Fenced
    /\ MayWrite(t)
    /\ CanFault(t) /\ UseFault
    /\ th' = [th EXCEPT ![t] =
                IF @.pc = "effects" /\ @.phase = "reconcile"
                THEN [@ EXCEPT !.pc = "close", !.res = "review"]
                ELSE Leave(t, \/ ~th[t].claimed
                              \/ /\ th[t].pc = "final" /\ th[t].phase = "observe"
                                 /\ th[t].res \in {"unproven", "review"})]
    /\ UNCHANGED <<run, attempts, effect, overdue, world, local, fallback, up>>

\* The model's bound on the journal: the pass ends as on a failed insert.
JournalFull(t) ==
    /\ At(t, "obs_new") \/ At(t, "prepare") \/ (At(t, "rec_att") /\ OpenReconciles(t) = {})
    /\ MayWrite(t)
    /\ ~JournalHasRoom(Act(t))
    /\ th' = [th EXCEPT ![t] = Leave(t, ~th[t].claimed)]
    /\ UNCHANGED <<run, attempts, effect, overdue, world, local, fallback, up, spent>>

-----------------------------------------------------------------------------
(* The specification *)

\* One step of thread t.
Step(t) ==
    \/ HoldUnhandled(t) \/ Claim(t)
    \/ AcquireReservations(t) \/ Reserve(t) \/ ReserveRefused(t) \/ Wait(t) \/ Finish(t)
    \/ ObserveBegin(t) \/ ObserveReturn(t) \/ PrepareDispatch(t)
    \/ BeforeDispatch(t) \/ BeforeDispatchCancelled(t)
    \/ DispatchSend(t) \/ DispatchReturn(t)
    \/ CloseAttempt(t) \/ RecordEffects(t) \/ EffectsRefused(t)
    \/ FinalOwned(t) \/ FinalNotStopped(t) \/ FinalFree(t)
    \/ ReconcileFind(t) \/ ReconcileRefresh(t) \/ ReconcileActive(t)
    \/ DeferActiveDispatch(t) \/ ReconcileReuse(t) \/ ReconcileBegin(t)
    \/ ReconcileReturn(t)
    \/ ReleaseResolved(t) \/ ReleaseIntent(t) \/ ReleaseMark(t) \/ ReleaseResolve(t)
    \/ ReleaseFailed(t) \/ BarrierRetry(t) \/ BarrierGiveUp(t)
    \/ FenceLost(t) \/ JournalFails(t) \/ JournalFull(t)

\* One step of the process, the clock, a caller or the upstream system.
Environment ==
    \/ Crash \/ Recover \/ RecoverExpired \/ FinalizeCancelled \/ FinalizeDeadline
    \/ \E a \in Actions : \/ RequestCancellation(a) \/ CancelLinked(a)
                          \/ DeadlinePasses(a) \/ LeaseExpires(a)
                          \/ Land(a) \/ Drop(a) \/ Establish(a)

Next ==
    \/ Environment
    \/ \E t \in Threads : Step(t) \/ \E a \in Actions : Pick(t, a) \/ PickById(t, a)

Spec == Init /\ [][Next]_vars

\* The scheduling the code provides: RunOnce is polled for ever, goroutines
\* are scheduled, a handler call returns (its context is bounded), startup
\* recovery runs after a crash and the clock moves past a lease.
Fairness ==
    /\ \A t \in Threads : /\ WF_vars(Step(t))
                         /\ WF_vars(\E a \in Actions : Pick(t, a))
    /\ WF_vars(Recover) /\ WF_vars(RecoverExpired)
    /\ WF_vars(FinalizeCancelled) /\ WF_vars(FinalizeDeadline)
    /\ \A a \in Actions : WF_vars(LeaseExpires(a))

FairSpec == Spec /\ Fairness

-----------------------------------------------------------------------------
(* Properties *)

\* The effect row is bound to an attempt that was left running or uncertain:
\* nobody has recorded yet whether the mutation was made.
OpenEffect(a) ==
    /\ effect[a].att \in DOMAIN attempts[a]
    /\ attempts[a][effect[a].att].state \in {"running", "reconciling"}

Dispatching(t, a) == th[t].pc = "dispatch" /\ Act(t) = a

\* The claim fence (InTxClaimed) admits at most one goroutine per action: after
\* any interleaving of claims, recoveries, cancellations and returns, two
\* goroutines can never both pass it.
SingleOwner ==
    \A t, u \in Threads :
        /\ t # u
        /\ th[t].claimed /\ th[u].claimed /\ Act(t) = Act(u)
        => ~(FenceMatches(t) /\ FenceMatches(u))

\* claimed_by is set exactly while the row is running, so that the lease
\* recovery statements see every claim and no other row.
ClaimedIffRunning ==
    \A a \in Actions : run[a].by # None <=> run[a].state = "running"

\* While a handler may be writing upstream its dispatch attempt is running in
\* the journal, whoever owns the action by then: the barrier that keeps other
\* workers from reconciling under it.
\* At most one handler at a time is dispatching an action.
OneLiveDispatch ==
    /\ \A t \in Threads : th[t].pc = "dispatch" => BarrierHeld(t)
    /\ \A t, u \in Threads : \A a \in Actions :
          Dispatching(t, a) /\ Dispatching(u, a) => t = u

\* "Callers must reconcile before any new dispatch": the owner of an action is
\* on the way to a dispatch only when the attempt its effect is bound to was
\* closed: it failed before sending, was cancelled or was settled by a
\* reconciliation.
NoBlindReplay ==
    \A t \in Threads :
        th[t].claimed /\ th[t].phase = "observe" /\ FenceMatches(t) => ~OpenEffect(Act(t))

\* The mutation an action stands for is never applied or in flight twice.
AppliedAtMostOnce ==
    \A a \in Actions : world[a].inflight + world[a].applied <= 1

\* An action is recorded as succeeded only when the state it wants exists
\* upstream ("succeeded: desired state proven").
SucceededIsApplied ==
    \A a \in Actions : run[a].state = "succeeded" => Desired(a)

\* Once an action is terminal no handler is dispatching it any more ("No
\* further mutation dispatch").
TerminalIsQuiet ==
    \A a \in Actions : run[a].state \in Terminal =>
        \A t \in Threads : ~Dispatching(t, a)

\* A terminal or held action whose effect row is unknown counts it in
\* unresolved_count.
UnknownIsCounted ==
    \A a \in Actions :
        /\ run[a].state \in Terminal \cup {"needs_review"}
        /\ effect[a].state = "unknown"
        => run[a].unresolved = 1

\* No two rows hold conflicting durable reservation keys.
ReservationsDisjoint ==
    \A p \in Overlap : ~(run[p[1]].reserved /\ run[p[2]].reserved)

\* "Reservations remain durable and local while an effect is unresolved": until
\* the action is terminal its durable keys outlive every claim, crash and
\* release that leaves its effect open. False of the code when a reconciliation
\* cannot reserve: waiting_dependency keeps no keys, whatever its effect.
ReservationSpansEffect ==
    \A a \in Actions :
        OpenEffect(a) /\ run[a].state \notin Terminal => run[a].reserved

\* Two actions with conflicting keys are never dispatched at the same time.
\* False of the code: a claim taken from reconciling that meets in-process keys
\* of the other action gives up the durable ones under a working handler.
OverlapExclusion ==
    \A t, u \in Threads :
        th[t].pc = "dispatch" /\ th[u].pc = "dispatch" => <<Act(t), Act(u)>> \notin Overlap

\* Nothing takes an action out of a terminal state but an executor without the
\* handler of its kind, whose hold checks neither the state nor the version of
\* the row it read.
ReopenedOnlyByHold ==
    [][\A a \in Actions :
        run[a].state \in Terminal /\ run'[a].state # run[a].state =>
            /\ run'[a].state = "needs_review"
            /\ \E t \in Threads : HoldUnhandled(t) /\ Act(t) = a]_run

\* A claim never holds an action for ever: whatever its worker does, the row
\* leaves running.
ClaimsEnd ==
    \A a \in Actions : run[a].state = "running" ~> run[a].state # "running"

\* A dispatch attempt does not block reconciliation for ever: once its handler
\* has returned the barrier is released, also when the journal refused the
\* release at first or the process crashed.
BarrierReleased ==
    \A a \in Actions :
        (ActiveDispatches(a) # {}) ~> (ActiveDispatches(a) = {})

Life(a) == INSTANCE ActionLife WITH
    state <- run[a].state, cancel <- run[a].cancel, overdue <- overdue[a]

\* With every handler registered in every executor, an action lives the life
\* the other services rely on, whatever executors, crashes, failing
\* transactions and stops do: no claim is taken of a stopped action, it is
\* cancelled only on request and overdue only past its deadline, and a request
\* is never withdrawn.
ImplementsActionLife ==
    /\ \A a \in Actions : Life(a)!Init
    /\ [][\A a \in Actions : Life(a)!Next \/ UNCHANGED Life(a)!vars]_<<run, overdue>>
=============================================================================
