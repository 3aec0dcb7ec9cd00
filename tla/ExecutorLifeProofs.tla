------------------------- MODULE ExecutorLifeProofs -------------------------
(***************************************************************************)
(* Executor implements ActionLife, and success is recorded only of a state  *)
(* that exists upstream: for every set of actions, goroutines and executors *)
(* and every value of the bounds.                                           *)
(*                                                                         *)
(* Both rest on Control: what the local variables of a goroutine are at     *)
(* each point of its pass, and that a pass without a claim is one of an     *)
(* action that was stopped.                                                 *)
(***************************************************************************)
EXTENDS ExecutorProofs

-----------------------------------------------------------------------------
(* The control of a pass *)

\* The verdicts each phase can reach.
Outcomes(phase) ==
    CASE phase = "observe"  -> {"satisfied", "unproven", "review", "stopped", "dependency"}
      [] phase = "dispatch" -> {"stopped", "uncertain", "applied", "dependency", "failed"}
      [] OTHER              -> {"unresolved", "retry", "review", "applied", "safe"}

\* The parts of a pass.
Outside == {"idle", "claim", "finish", "bg"}
Entering == {"local", "reserve"}
Observing == {"obs_new", "observe", "prepare"}
Sending == {"before", "dispatch"}
Closing == {"close", "effects", "final"}
Releasing == {"rel_intent", "rel_mark", "rel_resolve"}
Reconciling == {"rec_find", "rec_refresh", "rec_active", "rec_att", "reconcile", "defer"}

\* What the local variables of a goroutine are in each part.
Controlled(h) ==
    /\ h.pc \in Outside => ~h.claimed /\ h.phase = "none"
    /\ h.pc \in Entering => h.claimed /\ h.phase = "none"
    /\ h.pc \in Observing => h.claimed /\ h.phase = "observe"
    /\ h.pc \in Sending => h.claimed /\ h.phase = "dispatch"
    /\ h.pc \in Reconciling => h.phase = "reconcile"
    /\ h.pc = "wait" =>
          /\ h.claimed /\ h.phase # "reconcile"
          /\ h.phase # "none" => h.res = "dependency"
    /\ h.pc \in Closing =>
          /\ h.phase \in AttemptPhase /\ h.res \in Outcomes(h.phase)
          /\ h.claimed \/ h.phase = "reconcile"
    /\ h.pc = "effects" => HasEffects(h.res)
    /\ h.pc = "final" => h.res # "dependency"
    /\ h.pc \in Releasing =>
          \/ h.back = "finish" /\ h.phase = "dispatch" /\ h.claimed
          \/ h.back = "rec" /\ h.phase = "reconcile"
          \/ h.back = "bg" /\ h.phase = "none" /\ ~h.claimed
    /\ h.pc = "bg" => h.back = "bg"
    /\ h.sent => h.pc = "dispatch"

\* A pass that took no claim.
Free(h) == ~h.claimed /\ h.phase = "reconcile"

Control ==
    \A t \in Threads : /\ Controlled(th[t])
                       /\ Free(th[t]) => Stopped(Act(t))

\* r goes on from the state of t: an unclaimed pass stays one of its action.
Proceeds(t, r) ==
    /\ Controlled(r)
    /\ Free(r) => Free(th[t]) /\ r.act = th[t].act

\* Every point is in one part, and so is every outcome in its phase.
LEMMA Parts ==
    /\ PC = Outside \cup Entering \cup Observing \cup Sending \cup Closing
            \cup Releasing \cup Reconciling \cup {"wait"}
    /\ AttemptPhase = {"observe", "dispatch", "reconcile"}
    /\ Outcomes("observe") = {"satisfied", "unproven", "review", "stopped", "dependency"}
    /\ Outcomes("dispatch") = {"stopped", "uncertain", "applied", "dependency", "failed"}
    /\ Outcomes("reconcile") = {"unresolved", "retry", "review", "applied", "safe"}
  BY DEF PC, JournalPoint, AttemptPhase, Outcomes, Outside, Entering, Observing, Sending,
         Closing, Releasing, Reconciling

USE DEF Outside, Entering, Observing, Sending, Closing, Releasing, Reconciling

\* Returning from claimAndProcess.
LEMMA IdleProceeds ==
    ASSUME NEW t \in Threads
    PROVE  Proceeds(t, Idle)
  BY DEF Idle, Proceeds, Free, Controlled

\* Going on to release the in-process keys.
LEMMA FinishingProceeds ==
    ASSUME NEW t \in Threads, NEW keep
    PROVE  Proceeds(t, Finishing(t, keep))
  BY DEF Finishing, Idle, Proceeds, Free, Controlled

\* Leaving the processing of an action.
LEMMA LeaveProceeds ==
    ASSUME TypeInv, NEW t \in Threads, Controlled(th[t]), NEW keep \in BOOLEAN,
           th[t].pc \notin Outside \cup Releasing \cup {"dispatch"}
    PROVE  Proceeds(t, Leave(t, keep))
<1> DEFINE r == [th[t] EXCEPT !.pc = "rel_intent", !.back = "finish", !.keep = keep,
                              !.ierr = FALSE, !.res = "none"]
<1>1. th[t] \in Thread
  BY ThreadTyped
<1>2. CASE th[t].phase = "dispatch"
  <2>1. /\ r.pc = "rel_intent" /\ r.back = "finish" /\ r.phase = "dispatch"
        /\ r.claimed = th[t].claimed /\ r.sent = th[t].sent
    BY <1>1, <1>2 DEF Thread
  <2>2. th[t].claimed /\ ~th[t].sent
    BY <1>1, <1>2, Parts DEF Controlled, Thread
  <2> HIDE DEF r
  <2>3. Proceeds(t, r)
    BY <2>1, <2>2 DEF Proceeds, Free, Controlled
  <2> QED BY <2>3, IdleProceeds, FinishingProceeds DEF Leave, r
<1>3. CASE th[t].phase # "dispatch"
  BY <1>3, IdleProceeds, FinishingProceeds DEF Leave
<1> QED BY <1>2, <1>3

\* Going on to another point of the same part, or to the next one.
LEMMA GoesOn ==
    ASSUME TypeInv, NEW t \in Threads, NEW r, r \in Thread, Controlled(r),
           r.claimed = th[t].claimed, r.act = th[t].act, th[t].phase = "reconcile" \/ r.claimed
    PROVE  Proceeds(t, r)
  BY ThreadTyped DEF Proceeds, Free, Thread

\* HoldUnhandled ends the pass.
LEMMA HoldUnhandledProceeds ==
    ASSUME TypeInv, NEW t \in Threads, Controlled(th[t]), HoldUnhandled(t)
    PROVE  \E r : th' = [th EXCEPT ![t] = r] /\ Proceeds(t, r)
  BY IdleProceeds DEF HoldUnhandled

\* Finish ends the pass.
LEMMA FinishProceeds ==
    ASSUME TypeInv, NEW t \in Threads, Controlled(th[t]), Finish(t)
    PROVE  \E r : th' = [th EXCEPT ![t] = r] /\ Proceeds(t, r)
  BY IdleProceeds DEF Finish

\* BarrierGiveUp ends the goroutine.
LEMMA BarrierGiveUpProceeds ==
    ASSUME TypeInv, NEW t \in Threads, Controlled(th[t]), BarrierGiveUp(t)
    PROVE  \E r : th' = [th EXCEPT ![t] = r] /\ Proceeds(t, r)
  BY IdleProceeds DEF BarrierGiveUp

\* FinalNotStopped leaves the action.
LEMMA FinalNotStoppedProceeds ==
    ASSUME TypeInv, NEW t \in Threads, Controlled(th[t]), FinalNotStopped(t)
    PROVE  \E r : th' = [th EXCEPT ![t] = r] /\ Proceeds(t, r)
  BY LeaveProceeds DEF FinalNotStopped, At, Fenced

\* FenceLost leaves the action.
LEMMA FenceLostProceeds ==
    ASSUME TypeInv, NEW t \in Threads, Controlled(th[t]), FenceLost(t)
    PROVE  \E r : th' = [th EXCEPT ![t] = r] /\ Proceeds(t, r)
  BY LeaveProceeds DEF FenceLost, At, Fenced

\* Wait leaves the action.
LEMMA WaitProceeds ==
    ASSUME TypeInv, NEW t \in Threads, Controlled(th[t]), Wait(t)
    PROVE  \E r : th' = [th EXCEPT ![t] = r] /\ Proceeds(t, r)
  BY LeaveProceeds DEF Wait, At, Fenced

\* ObserveBegin creates the observe attempt.
LEMMA ObserveBeginProceeds ==
    ASSUME TypeInv, NEW t \in Threads, Controlled(th[t]), ObserveBegin(t)
    PROVE  \E r : th' = [th EXCEPT ![t] = r] /\ Proceeds(t, r)
<1> DEFINE r == [th[t] EXCEPT !.pc = "observe", !.att = Len(attempts[Act(t)]) + 1]
<1>1. th[t] \in Thread
  BY ThreadTyped
<1>2. th' = [th EXCEPT ![t] = r]
  BY DEF ObserveBegin
<1>3. Proceeds(t, r)
  BY <1>1 DEF ObserveBegin, At, Thread, Proceeds, Free, Controlled
<1> QED BY <1>2, <1>3

\* PrepareDispatch enters the dispatch.
LEMMA PrepareDispatchProceeds ==
    ASSUME TypeInv, NEW t \in Threads, Controlled(th[t]), PrepareDispatch(t)
    PROVE  \E r : th' = [th EXCEPT ![t] = r] /\ Proceeds(t, r)
<1> DEFINE r == [th[t] EXCEPT !.pc = "before", !.phase = "dispatch", !.att = Len(attempts[Act(t)]) + 1]
<1>1. th[t] \in Thread
  BY ThreadTyped
<1>2. th' = [th EXCEPT ![t] = r]
  BY DEF PrepareDispatch
<1>3. Proceeds(t, r)
  BY <1>1 DEF PrepareDispatch, At, Thread, Proceeds, Free, Controlled
<1> QED BY <1>2, <1>3

\* BeforeDispatchCancelled closes the attempt as stopped.
LEMMA BeforeDispatchCancelledProceeds ==
    ASSUME TypeInv, NEW t \in Threads, Controlled(th[t]), BeforeDispatchCancelled(t)
    PROVE  \E r : th' = [th EXCEPT ![t] = r] /\ Proceeds(t, r)
<1> DEFINE r == [th[t] EXCEPT !.pc = "close", !.res = "stopped"]
<1>1. th[t] \in Thread
  BY ThreadTyped
<1>2. th' = [th EXCEPT ![t] = r]
  BY DEF BeforeDispatchCancelled
<1>3. Proceeds(t, r)
  BY <1>1, Parts DEF BeforeDispatchCancelled, At, Thread, Proceeds, Free, Controlled
<1> QED BY <1>2, <1>3

\* DispatchSend stays in the handler.
LEMMA DispatchSendProceeds ==
    ASSUME TypeInv, NEW t \in Threads, Controlled(th[t]), DispatchSend(t)
    PROVE  \E r : th' = [th EXCEPT ![t] = r] /\ Proceeds(t, r)
<1> DEFINE r == [th[t] EXCEPT !.sent = TRUE]
<1>1. th[t] \in Thread
  BY ThreadTyped
<1>2. th' = [th EXCEPT ![t] = r]
  BY DEF DispatchSend
<1>3. Proceeds(t, r)
  BY <1>1 DEF DispatchSend, At, Thread, Proceeds, Free, Controlled
<1> QED BY <1>2, <1>3

\* RecordEffects goes on to the transition.
LEMMA RecordEffectsProceeds ==
    ASSUME TypeInv, NEW t \in Threads, Controlled(th[t]), RecordEffects(t)
    PROVE  \E r : th' = [th EXCEPT ![t] = r] /\ Proceeds(t, r)
<1> DEFINE r == [th[t] EXCEPT !.pc = "final"]
<1>1. th[t] \in Thread
  BY ThreadTyped
<1>2. th' = [th EXCEPT ![t] = r]
  BY DEF RecordEffects, Goto
<1>3. Proceeds(t, r)
  BY <1>1 DEF RecordEffects, At, Thread, Proceeds, Free, Controlled, HasEffects
<1> QED BY <1>2, <1>3

\* ReconcileActive defers or goes on.
LEMMA ReconcileActiveProceeds ==
    ASSUME TypeInv, NEW t \in Threads, Controlled(th[t]), ReconcileActive(t)
    PROVE  \E r : th' = [th EXCEPT ![t] = r] /\ Proceeds(t, r)
<1> DEFINE r == [th[t] EXCEPT !.pc = IF ActiveDispatches(Act(t)) # {} THEN "defer" ELSE "rec_att"]
<1>1. th[t] \in Thread
  BY ThreadTyped
<1>2. th' = [th EXCEPT ![t] = r]
  BY DEF ReconcileActive, Goto
<1>3. Proceeds(t, r)
  BY <1>1 DEF ReconcileActive, At, Thread, Proceeds, Free, Controlled
<1> QED BY <1>2, <1>3

\* ReconcileBegin creates the reconcile attempt.
LEMMA ReconcileBeginProceeds ==
    ASSUME TypeInv, NEW t \in Threads, Controlled(th[t]), ReconcileBegin(t)
    PROVE  \E r : th' = [th EXCEPT ![t] = r] /\ Proceeds(t, r)
<1> DEFINE r == [th[t] EXCEPT !.pc = "reconcile", !.att = Len(attempts[Act(t)]) + 1]
<1>1. th[t] \in Thread
  BY ThreadTyped
<1>2. th' = [th EXCEPT ![t] = r]
  BY DEF ReconcileBegin
<1>3. Proceeds(t, r)
  BY <1>1 DEF ReconcileBegin, At, Thread, Proceeds, Free, Controlled
<1> QED BY <1>2, <1>3

\* ReleaseMark goes on to resolve the attempt.
LEMMA ReleaseMarkProceeds ==
    ASSUME TypeInv, NEW t \in Threads, Controlled(th[t]), ReleaseMark(t)
    PROVE  \E r : th' = [th EXCEPT ![t] = r] /\ Proceeds(t, r)
<1> DEFINE r == [th[t] EXCEPT !.pc = "rel_resolve"]
<1>1. th[t] \in Thread
  BY ThreadTyped
<1>2. th' = [th EXCEPT ![t] = r]
  BY DEF ReleaseMark, Goto
<1>3. Proceeds(t, r)
  BY <1>1 DEF ReleaseMark, At, Thread, Proceeds, Free, Controlled
<1> QED BY <1>2, <1>3

\* BarrierRetry starts the release again.
LEMMA BarrierRetryProceeds ==
    ASSUME TypeInv, NEW t \in Threads, Controlled(th[t]), BarrierRetry(t)
    PROVE  \E r : th' = [th EXCEPT ![t] = r] /\ Proceeds(t, r)
<1> DEFINE r == [th[t] EXCEPT !.pc = "rel_intent"]
<1>1. th[t] \in Thread
  BY ThreadTyped
<1>2. th' = [th EXCEPT ![t] = r]
  BY DEF BarrierRetry, Goto
<1>3. Proceeds(t, r)
  BY <1>1 DEF BarrierRetry, At, Thread, Proceeds, Free, Controlled
<1> QED BY <1>2, <1>3

\* Claim enters the pass, or gives up.
LEMMA ClaimProceeds ==
    ASSUME TypeInv, NEW t \in Threads, Controlled(th[t]), Claim(t)
    PROVE  \E r : th' = [th EXCEPT ![t] = r] /\ Proceeds(t, r)
<1> DEFINE a == Act(t)
           r == [th[t] EXCEPT !.pc = "local", !.claimed = TRUE,
                              !.ver = run[a].version + 1, !.mark = run[a].marker]
<1>1. th[t] \in Thread
  BY ThreadTyped
<1>2. th' = [th EXCEPT ![t] = r] \/ th' = [th EXCEPT ![t] = Idle]
  BY DEF Claim
<1>3. Proceeds(t, r)
  <2>1. /\ r.pc = "local" /\ r.claimed /\ r.phase = th[t].phase /\ r.sent = th[t].sent
    BY <1>1 DEF Thread
  <2>2. th[t].phase = "none" /\ ~th[t].sent
    BY DEF Claim, At, Controlled
  <2> HIDE DEF r
  <2> QED BY <2>1, <2>2 DEF Proceeds, Free, Controlled
<1> QED BY <1>2, <1>3, IdleProceeds

\* AcquireReservations goes on to the durable keys, or waits.
LEMMA AcquireReservationsProceeds ==
    ASSUME TypeInv, NEW t \in Threads, Controlled(th[t]), AcquireReservations(t)
    PROVE  \E r : th' = [th EXCEPT ![t] = r] /\ Proceeds(t, r)
<1> DEFINE p == IF LocalConflict(t) THEN "wait" ELSE "reserve"
           r == [th[t] EXCEPT !.pc = p]
<1>1. th[t] \in Thread /\ p \in {"wait", "reserve"}
  BY ThreadTyped
<1>2. th' = [th EXCEPT ![t] = r]
  BY DEF AcquireReservations, Goto
<1> HIDE DEF p
<1>3. Proceeds(t, r)
  BY <1>1 DEF AcquireReservations, At, Thread, Proceeds, Free, Controlled
<1> QED BY <1>2, <1>3

\* Reserve goes on to the observation or the reconciliation.
LEMMA ReserveProceeds ==
    ASSUME TypeInv, NEW t \in Threads, Controlled(th[t]), Reserve(t)
    PROVE  \E r : th' = [th EXCEPT ![t] = r] /\ Proceeds(t, r)
<1> DEFINE r == IF th[t].from = "reconciling"
                THEN [th[t] EXCEPT !.pc = "rec_find", !.phase = "reconcile", !.from = "queued"]
                ELSE [th[t] EXCEPT !.pc = "obs_new", !.phase = "observe", !.from = "queued",
                                   !.mark = 0]
<1>1. th[t] \in Thread
  BY ThreadTyped
<1>2. th' = [th EXCEPT ![t] = r]
  BY DEF Reserve
<1>3. Proceeds(t, r)
  BY <1>1 DEF Reserve, At, Thread, Proceeds, Free, Controlled
<1> QED BY <1>2, <1>3

\* ReserveRefused goes on to wait.
LEMMA ReserveRefusedProceeds ==
    ASSUME TypeInv, NEW t \in Threads, Controlled(th[t]), ReserveRefused(t)
    PROVE  \E r : th' = [th EXCEPT ![t] = r] /\ Proceeds(t, r)
<1> DEFINE r == [th[t] EXCEPT !.pc = "wait"]
<1>1. th[t] \in Thread
  BY ThreadTyped
<1>2. th' = [th EXCEPT ![t] = r]
  BY DEF ReserveRefused, Goto
<1>3. Proceeds(t, r)
  BY <1>1 DEF ReserveRefused, At, Thread, Proceeds, Free, Controlled
<1> QED BY <1>2, <1>3

\* ObserveReturn goes on to the dispatch, or closes the attempt.
LEMMA ObserveReturnProceeds ==
    ASSUME TypeInv, NEW t \in Threads, Controlled(th[t]), ObserveReturn(t)
    PROVE  \E r : th' = [th EXCEPT ![t] = r] /\ Proceeds(t, r)
<1>1. th[t] \in Thread
  BY ThreadTyped
<1>2. PICK v \in ObserveVerdict(Act(t)) :
        th' = [th EXCEPT ![t] = IF v = "needs_action"
                                THEN [th[t] EXCEPT !.pc = "prepare"]
                                ELSE [th[t] EXCEPT !.pc = "close", !.res = v]]
  BY DEF ObserveReturn
<1>3. v = "needs_action" \/ v \in Outcomes("observe")
  BY <1>2, Parts DEF ObserveVerdict
<1> DEFINE r == IF v = "needs_action" THEN [th[t] EXCEPT !.pc = "prepare"]
                ELSE [th[t] EXCEPT !.pc = "close", !.res = v]
<1>4. Proceeds(t, r)
  BY <1>1, <1>3, Parts DEF ObserveReturn, At, Thread, Proceeds, Free, Controlled
<1> QED BY <1>2, <1>4

\* BeforeDispatch enters the handler, closes the attempt or leaves.
LEMMA BeforeDispatchProceeds ==
    ASSUME TypeInv, NEW t \in Threads, Controlled(th[t]), BeforeDispatch(t)
    PROVE  \E r : th' = [th EXCEPT ![t] = r] /\ Proceeds(t, r)
<1> DEFINE stopped == [th[t] EXCEPT !.pc = "close", !.res = "stopped"]
           sends == [th[t] EXCEPT !.pc = "dispatch"]
<1>1. th[t] \in Thread
  BY ThreadTyped
<1>2. \/ th' = [th EXCEPT ![t] = stopped] \/ th' = [th EXCEPT ![t] = sends]
      \/ th' = [th EXCEPT ![t] = Leave(t, FALSE)]
  BY DEF BeforeDispatch
<1>3. Proceeds(t, stopped)
  BY <1>1, Parts DEF BeforeDispatch, At, Thread, Proceeds, Free, Controlled
<1>4. Proceeds(t, sends)
  BY <1>1 DEF BeforeDispatch, At, Thread, Proceeds, Free, Controlled
<1>5. Proceeds(t, Leave(t, FALSE))
  BY LeaveProceeds DEF BeforeDispatch, At
<1> QED BY <1>2, <1>3, <1>4, <1>5

\* DispatchReturn closes the attempt with a verdict of the dispatch.
LEMMA DispatchReturnProceeds ==
    ASSUME TypeInv, NEW t \in Threads, Controlled(th[t]), DispatchReturn(t)
    PROVE  \E r : th' = [th EXCEPT ![t] = r] /\ Proceeds(t, r)
<1>1. th[t] \in Thread
  BY ThreadTyped
<1>2. PICK v \in DispatchVerdict(t) :
        th' = [th EXCEPT ![t].pc = "close", ![t].res = v, ![t].sent = FALSE]
  BY DEF DispatchReturn
<1>3. v \in Outcomes("dispatch")
  BY <1>2, Parts DEF DispatchVerdict
<1> DEFINE r == [th[t] EXCEPT !.pc = "close", !.res = v, !.sent = FALSE]
<1>4. Proceeds(t, r)
  BY <1>1, <1>3, Parts DEF DispatchReturn, At, Thread, Proceeds, Free, Controlled
<1> QED BY <1>2, <1>4

\* CloseAttempt goes on to the effects, the wait or the transition.
LEMMA CloseAttemptProceeds ==
    ASSUME TypeInv, NEW t \in Threads, Controlled(th[t]), CloseAttempt(t)
    PROVE  \E r : th' = [th EXCEPT ![t] = r] /\ Proceeds(t, r)
<1> DEFINE p == IF HasEffects(th[t].res) THEN "effects"
                ELSE IF th[t].res = "dependency" THEN "wait" ELSE "final"
           r == [th[t] EXCEPT !.pc = p]
<1>1. th[t] \in Thread
  BY ThreadTyped
<1>2. th' = [th EXCEPT ![t] = r]
  BY DEF CloseAttempt, Goto
<1>3. /\ r.pc = p /\ r.claimed = th[t].claimed /\ r.phase = th[t].phase
      /\ r.res = th[t].res /\ r.sent = th[t].sent /\ r.act = th[t].act
  BY <1>1 DEF Thread
<1>4. /\ th[t].phase \in AttemptPhase /\ th[t].res \in Outcomes(th[t].phase)
      /\ th[t].claimed \/ th[t].phase = "reconcile"
      /\ ~th[t].sent
  BY DEF CloseAttempt, At, Controlled
<1>5. /\ p \in {"effects", "wait", "final"}
      /\ p = "effects" => HasEffects(th[t].res)
      /\ p = "wait" => th[t].res = "dependency"
      /\ p = "final" => th[t].res # "dependency"
  OBVIOUS
<1>6. th[t].res = "dependency" => th[t].phase # "reconcile"
  BY <1>4, Parts
<1> HIDE DEF p, r
<1>7. Proceeds(t, r)
  BY <1>3, <1>4, <1>5, <1>6 DEF Proceeds, Free, Controlled
<1> QED BY <1>2, <1>7

\* EffectsRefused closes a reconciliation again, or leaves.
LEMMA EffectsRefusedProceeds ==
    ASSUME TypeInv, NEW t \in Threads, Controlled(th[t]), EffectsRefused(t)
    PROVE  \E r : th' = [th EXCEPT ![t] = r] /\ Proceeds(t, r)
<1> DEFINE r == [th[t] EXCEPT !.pc = "close", !.res = "review"]
<1>1. th[t] \in Thread
  BY ThreadTyped
<1>2. \/ th[t].phase = "reconcile" /\ th' = [th EXCEPT ![t] = r]
      \/ th' = [th EXCEPT ![t] = Leave(t, FALSE)]
  BY DEF EffectsRefused
<1>3. th[t].phase = "reconcile" => Proceeds(t, r)
  BY <1>1, Parts DEF EffectsRefused, At, Thread, Proceeds, Free, Controlled
<1>4. Proceeds(t, Leave(t, FALSE))
  BY LeaveProceeds DEF EffectsRefused, At
<1> QED BY <1>2, <1>3, <1>4

\* JournalFails closes a reconciliation again, or leaves.
LEMMA JournalFailsProceeds ==
    ASSUME TypeInv, NEW t \in Threads, Controlled(th[t]), JournalFails(t)
    PROVE  \E r : th' = [th EXCEPT ![t] = r] /\ Proceeds(t, r)
<1> DEFINE r == [th[t] EXCEPT !.pc = "close", !.res = "review"]
           keep == \/ ~th[t].claimed
                   \/ /\ th[t].pc = "final" /\ th[t].phase = "observe"
                      /\ th[t].res \in {"unproven", "review"}
<1>1. th[t] \in Thread /\ keep \in BOOLEAN
  BY ThreadTyped DEF Thread
<1>2. \/ th[t].pc = "effects" /\ th[t].phase = "reconcile" /\ th' = [th EXCEPT ![t] = r]
      \/ th' = [th EXCEPT ![t] = Leave(t, keep)]
  BY DEF JournalFails
<1>3. th[t].pc = "effects" /\ th[t].phase = "reconcile" => Proceeds(t, r)
  BY <1>1, Parts DEF Thread, Proceeds, Free, Controlled
<1>4. Proceeds(t, Leave(t, keep))
  <2> HIDE DEF keep
  <2> QED BY <1>1, LeaveProceeds DEF JournalFails, Fenced
<1> QED BY <1>2, <1>3, <1>4

\* JournalFull leaves the action.
LEMMA JournalFullProceeds ==
    ASSUME TypeInv, NEW t \in Threads, Controlled(th[t]), JournalFull(t)
    PROVE  \E r : th' = [th EXCEPT ![t] = r] /\ Proceeds(t, r)
<1> DEFINE keep == ~th[t].claimed
<1>1. keep \in BOOLEAN /\ th' = [th EXCEPT ![t] = Leave(t, keep)]
  BY ThreadTyped DEF JournalFull, Thread
<1> HIDE DEF keep
<1> QED BY <1>1, LeaveProceeds DEF JournalFull, At

\* FinalOwned leaves the action.
LEMMA FinalOwnedProceeds ==
    ASSUME TypeInv, NEW t \in Threads, Controlled(th[t]), FinalOwned(t)
    PROVE  \E r : th' = [th EXCEPT ![t] = r] /\ Proceeds(t, r)
<1> DEFINE keep == OwnedTarget(t) \in {"reconciling", "needs_review"}
<1>1. keep \in BOOLEAN /\ th' = [th EXCEPT ![t] = Leave(t, keep)]
  BY DEF FinalOwned
<1> HIDE DEF keep
<1> QED BY <1>1, LeaveProceeds DEF FinalOwned, At

\* FinalFree leaves the action.
LEMMA FinalFreeProceeds ==
    ASSUME TypeInv, NEW t \in Threads, Controlled(th[t]), FinalFree(t)
    PROVE  \E r : th' = [th EXCEPT ![t] = r] /\ Proceeds(t, r)
<1> DEFINE kept == FreeTarget(t) = "reconciling"
           held == run[Act(t)].state \in {"reconciling", "needs_review"}
<1>1. kept \in BOOLEAN /\ held \in BOOLEAN
  OBVIOUS
<1>2. th' = [th EXCEPT ![t] = Leave(t, kept)] \/ th' = [th EXCEPT ![t] = Leave(t, held)]
  BY DEF FinalFree
<1> HIDE DEF kept, held
<1> QED BY <1>1, <1>2, LeaveProceeds DEF FinalFree, At

\* DeferActiveDispatch leaves the action.
LEMMA DeferActiveDispatchProceeds ==
    ASSUME TypeInv, NEW t \in Threads, Controlled(th[t]), DeferActiveDispatch(t)
    PROVE  \E r : th' = [th EXCEPT ![t] = r] /\ Proceeds(t, r)
  BY LeaveProceeds DEF DeferActiveDispatch, At

\* ReconcileFind looks for a live dispatch, or releases a returned one.
LEMMA ReconcileFindProceeds ==
    ASSUME TypeInv, NEW t \in Threads, Controlled(th[t]), ReconcileFind(t)
    PROVE  \E r : th' = [th EXCEPT ![t] = r] /\ Proceeds(t, r)
<1> DEFINE looks == [th[t] EXCEPT !.pc = "rec_active", !.mark = 0]
           release(n) == [th[t] EXCEPT !.pc = "rel_intent", !.back = "rec", !.mark = 0,
                                       !.att = n, !.ierr = FALSE]
<1>1. th[t] \in Thread
  BY ThreadTyped
<1>2. th' = [th EXCEPT ![t] = looks] \/ \E n : th' = [th EXCEPT ![t] = release(n)]
  BY DEF ReconcileFind
<1>3. Proceeds(t, looks)
  BY <1>1 DEF ReconcileFind, At, Thread, Proceeds, Free, Controlled
<1>4. ASSUME NEW n PROVE Proceeds(t, release(n))
  BY <1>1 DEF ReconcileFind, At, Thread, Proceeds, Free, Controlled
<1> QED BY <1>2, <1>3, <1>4

\* ReconcileRefresh goes on, or leaves.
LEMMA ReconcileRefreshProceeds ==
    ASSUME TypeInv, NEW t \in Threads, Controlled(th[t]), ReconcileRefresh(t)
    PROVE  \E r : th' = [th EXCEPT ![t] = r] /\ Proceeds(t, r)
<1> DEFINE row == run[Act(t)]
           keep == row.state \in {"reconciling", "needs_review"}
           v == IF th[t].claimed THEN row.version ELSE th[t].ver
           go == [th[t] EXCEPT !.pc = "rec_active", !.att = 0, !.back = "none", !.ver = v]
<1>1. th[t] \in Thread /\ keep \in BOOLEAN
  BY ThreadTyped
<1>2. \/ th' = [th EXCEPT ![t] = Leave(t, keep)] \/ th' = [th EXCEPT ![t] = Leave(t, FALSE)]
      \/ th' = [th EXCEPT ![t] = go]
  BY DEF ReconcileRefresh
<1> HIDE DEF keep, v
<1>3. Proceeds(t, go)
  BY <1>1 DEF ReconcileRefresh, At, Thread, Proceeds, Free, Controlled
<1>4. Proceeds(t, Leave(t, keep)) /\ Proceeds(t, Leave(t, FALSE))
  BY <1>1, LeaveProceeds DEF ReconcileRefresh, At
<1> QED BY <1>2, <1>3, <1>4

\* ReconcileReuse continues an attempt.
LEMMA ReconcileReuseProceeds ==
    ASSUME TypeInv, NEW t \in Threads, Controlled(th[t]), ReconcileReuse(t)
    PROVE  \E r : th' = [th EXCEPT ![t] = r] /\ Proceeds(t, r)
<1> DEFINE r(n) == [th[t] EXCEPT !.pc = "reconcile", !.att = n]
<1>1. th[t] \in Thread
  BY ThreadTyped
<1>2. \E n : th' = [th EXCEPT ![t] = r(n)]
  BY DEF ReconcileReuse
<1>3. ASSUME NEW n PROVE Proceeds(t, r(n))
  BY <1>1 DEF ReconcileReuse, At, Thread, Proceeds, Free, Controlled
<1> QED BY <1>2, <1>3

\* ReconcileReturn closes the attempt with a verdict of the reconciliation.
LEMMA ReconcileReturnProceeds ==
    ASSUME TypeInv, NEW t \in Threads, Controlled(th[t]), ReconcileReturn(t)
    PROVE  \E r : th' = [th EXCEPT ![t] = r] /\ Proceeds(t, r)
<1>1. th[t] \in Thread
  BY ThreadTyped
<1>2. PICK v \in ReconcileVerdict(Act(t)) :
        th' = [th EXCEPT ![t].pc = "close", ![t].res = v]
  BY DEF ReconcileReturn
<1>3. v \in Outcomes("reconcile")
  BY <1>2, Parts DEF ReconcileVerdict
<1> DEFINE r == [th[t] EXCEPT !.pc = "close", !.res = v]
<1>4. Proceeds(t, r)
  BY <1>1, <1>3, Parts DEF ReconcileReturn, At, Thread, Proceeds, Free, Controlled
<1> QED BY <1>2, <1>4

\* The end of a release leads back to where it was started from.
LEMMA AfterReleaseProceeds ==
    ASSUME TypeInv, NEW t \in Threads, Controlled(th[t]), th[t].pc \in Releasing
    PROVE  Proceeds(t, AfterRelease(t))
<1> DEFINE r == [th[t] EXCEPT !.pc = "rec_refresh"]
<1>1. th[t] \in Thread
  BY ThreadTyped
<1>2. th[t].back = "rec" => Proceeds(t, r)
  BY <1>1 DEF Thread, Proceeds, Free, Controlled
<1> QED BY <1>2, IdleProceeds, FinishingProceeds DEF AfterRelease

\* ReleaseResolved finds nothing to release.
LEMMA ReleaseResolvedProceeds ==
    ASSUME TypeInv, NEW t \in Threads, Controlled(th[t]), ReleaseResolved(t)
    PROVE  \E r : th' = [th EXCEPT ![t] = r] /\ Proceeds(t, r)
  BY AfterReleaseProceeds DEF ReleaseResolved, At

\* ReleaseResolve releases the barrier.
LEMMA ReleaseResolveProceeds ==
    ASSUME TypeInv, NEW t \in Threads, Controlled(th[t]), ReleaseResolve(t)
    PROVE  \E r : th' = [th EXCEPT ![t] = r] /\ Proceeds(t, r)
  BY AfterReleaseProceeds DEF ReleaseResolve, At

\* ReleaseIntent goes on to the marker.
LEMMA ReleaseIntentProceeds ==
    ASSUME TypeInv, NEW t \in Threads, Controlled(th[t]), ReleaseIntent(t)
    PROVE  \E r : th' = [th EXCEPT ![t] = r] /\ Proceeds(t, r)
<1> DEFINE quiet == [th[t] EXCEPT !.pc = "rel_mark"]
           erred == [th[t] EXCEPT !.pc = "rel_mark", !.ierr = TRUE]
<1>1. th[t] \in Thread
  BY ThreadTyped
<1>2. th' = [th EXCEPT ![t] = quiet] \/ th' = [th EXCEPT ![t] = erred]
  BY DEF ReleaseIntent, Goto
<1>3. Proceeds(t, quiet) /\ Proceeds(t, erred)
  BY <1>1 DEF ReleaseIntent, At, Thread, Proceeds, Free, Controlled
<1> QED BY <1>2, <1>3

\* ReleaseFailed goes on in the background.
LEMMA ReleaseFailedProceeds ==
    ASSUME TypeInv, NEW t \in Threads, Controlled(th[t]), ReleaseFailed(t)
    PROVE  \E r : th' = [th EXCEPT ![t] = r] /\ Proceeds(t, r)
<1> DEFINE r == [Idle EXCEPT !.pc = "bg", !.act = Act(t), !.att = th[t].att, !.back = "bg"]
<1>1. th' = [th EXCEPT ![t] = r]
  BY DEF ReleaseFailed
<1>2. Proceeds(t, r)
  BY DEF Idle, Proceeds, Free, Controlled
<1> QED BY <1>1, <1>2

\* Every step of a goroutine replaces its state by one it proceeds to.
LEMMA StepProceeds ==
    ASSUME TypeInv, NEW t \in Threads, Controlled(th[t]), Step(t)
    PROVE  \E r : th' = [th EXCEPT ![t] = r] /\ Proceeds(t, r)
<1>1. CASE HoldUnhandled(t) \/ Finish(t) \/ BarrierGiveUp(t)
           \/ FinalNotStopped(t) \/ FenceLost(t) \/ Wait(t)
    BY <1>1, HoldUnhandledProceeds, FinishProceeds, BarrierGiveUpProceeds,
     FinalNotStoppedProceeds, FenceLostProceeds, WaitProceeds
<1>2. CASE ObserveBegin(t) \/ PrepareDispatch(t) \/ BeforeDispatchCancelled(t)
           \/ DispatchSend(t) \/ RecordEffects(t) \/ ReconcileActive(t)
    BY <1>2, ObserveBeginProceeds, PrepareDispatchProceeds, BeforeDispatchCancelledProceeds,
     DispatchSendProceeds, RecordEffectsProceeds, ReconcileActiveProceeds
<1>3. CASE ReconcileBegin(t) \/ ReleaseMark(t) \/ BarrierRetry(t)
           \/ Claim(t) \/ AcquireReservations(t) \/ Reserve(t)
    BY <1>3, ReconcileBeginProceeds, ReleaseMarkProceeds, BarrierRetryProceeds, ClaimProceeds,
     AcquireReservationsProceeds, ReserveProceeds
<1>4. CASE ReserveRefused(t) \/ ObserveReturn(t) \/ BeforeDispatch(t)
           \/ DispatchReturn(t) \/ CloseAttempt(t) \/ EffectsRefused(t)
    BY <1>4, ReserveRefusedProceeds, ObserveReturnProceeds, BeforeDispatchProceeds,
     DispatchReturnProceeds, CloseAttemptProceeds, EffectsRefusedProceeds
<1>5. CASE JournalFails(t) \/ JournalFull(t) \/ FinalOwned(t)
           \/ FinalFree(t) \/ DeferActiveDispatch(t) \/ ReconcileFind(t)
    BY <1>5, JournalFailsProceeds, JournalFullProceeds, FinalOwnedProceeds, FinalFreeProceeds,
     DeferActiveDispatchProceeds, ReconcileFindProceeds
<1>6. CASE ReconcileRefresh(t) \/ ReconcileReuse(t) \/ ReconcileReturn(t)
           \/ ReleaseResolved(t) \/ ReleaseResolve(t) \/ ReleaseIntent(t)
    BY <1>6, ReconcileRefreshProceeds, ReconcileReuseProceeds, ReconcileReturnProceeds,
     ReleaseResolvedProceeds, ReleaseResolveProceeds, ReleaseIntentProceeds
<1>7. CASE ReleaseFailed(t)
  BY <1>7, ReleaseFailedProceeds
<1> QED BY <1>1, <1>2, <1>3, <1>4, <1>5, <1>6, <1>7 DEF Step

-----------------------------------------------------------------------------
(* The moves of a row *)

\* A row moves as ActionLife says, or not at all.
MayMove(a) ==
    \/ run'[a].state = run[a].state
    \/ run'[a].state \in Life(a)!Moves(run[a].state, run[a].cancel, overdue[a])

\* A row that is not made a success.
Unsucceeded(a) == run'[a].state = "succeeded" => run[a].state = "succeeded"

\* A step that stops nothing and moves every row as it may.
Moved ==
    /\ overdue' = overdue
    /\ \A a \in Actions : run'[a].cancel = run[a].cancel /\ MayMove(a)

\* The moves, spelled out.
LEMMA Moves ==
    ASSUME NEW a \in Actions, NEW s \in ActionState, NEW n \in ActionState, NEW c, NEW o
    PROVE  n \in Life(a)!Moves(s, c, o) <=>
             \/ n = "running" /\ s \in Claimable /\ ~c /\ ~o
             \/ /\ n # "running"
                /\ CanTransition(s, n) \/ (s = "running" /\ n = "queued")
                /\ n = "succeeded" => s = "running"
                /\ n = "cancelled" => c
                /\ n = "deadline_exceeded" => o /\ ~c
<1>1. Life(a)!ActionState = ActionState /\ Life(a)!Claimable = Claimable
  BY DEF Life!ActionState, ActionState, Life!Claimable, Claimable
<1>2. Life(a)!actionTransitions = actionTransitions
  BY <1>1 DEF Life!actionTransitions, actionTransitions
<1>3. Life(a)!CanTransition(s, n) <=> CanTransition(s, n)
  BY <1>2 DEF Life!CanTransition, CanTransition
<1>4. Life(a)!Claimed(s, c, o) = IF s \in Claimable /\ ~c /\ ~o THEN {"running"} ELSE {}
  BY <1>1 DEF Life!Claimed
<1>5. n \in Life(a)!Settled(s, c, o) <=>
        /\ n # "running"
        /\ CanTransition(s, n) \/ (s = "running" /\ n = "queued")
        /\ n = "succeeded" => s = "running"
        /\ n = "cancelled" => c
        /\ n = "deadline_exceeded" => o /\ ~c
  BY <1>1, <1>3 DEF Life!Settled
<1> QED BY <1>4, <1>5 DEF Life!Moves

\* The exits of a claimed row are all its transitions but failed ones listed in
\* the table, and queued.
LEMMA RunningMoves ==
    ASSUME NEW a \in Actions, NEW c, NEW o,
           NEW n \in ActionState, n # "running",
           n = "cancelled" => c, n = "deadline_exceeded" => o /\ ~c
    PROVE  n \in Life(a)!Moves("running", c, o)
<1>1. "running" \in ActionState
  BY Words
<1>2. n = "queued" \/ CanTransition("running", n)
  BY <1>1 DEF CanTransition, actionTransitions, ActionState
<1> QED BY <1>1, <1>2, Moves

\* UpdateActionRunOutcome leaves the cancellation marker.
LEMMA OutcomeStop ==
    ASSUME NEW row \in Row, NEW s, NEW n
    PROVE  Outcome(row, s, n).cancel = row.cancel /\ Outcome(row, s, n).state = s
<1> DEFINE k == row.reserved /\ s \in Retaining
           v == row.version + 1
<1>1. Outcome(row, s, n) = [row EXCEPT !.state = s, !.version = v, !.by = None, !.expired = FALSE,
                                       !.reserved = k, !.marker = 0, !.unresolved = n]
  BY DEF Outcome
<1> HIDE DEF k, v
<1> QED BY <1>1 DEF Row

\* A step that writes no row moves none.
LEMMA NoMove ==
    ASSUME UNCHANGED <<run, overdue>>
    PROVE  Moved
  BY DEF Moved, MayMove

\* A step that moves one row.
LEMMA OneMove ==
    ASSUME TypeInv, NEW a \in Actions, NEW row, run' = [run EXCEPT ![a] = row],
           UNCHANGED overdue, row.cancel = run[a].cancel,
           \/ row.state = run[a].state
           \/ row.state \in Life(a)!Moves(run[a].state, run[a].cancel, overdue[a])
    PROVE  Moved
<1>1. \A b \in Actions : run'[b] = IF b = a THEN row ELSE run[b]
  BY DEF TypeInv, TypeOK
<1> QED BY <1>1 DEF Moved, MayMove

\* A claim takes a claimable row that was not stopped.
LEMMA ClaimMoves ==
    ASSUME TypeInv, NEW t \in Threads, Claim(t)
    PROVE  Moved
<1> DEFINE a == Act(t)
           row == [run[a] EXCEPT !.state = "running", !.by = ExecOf(t), !.expired = FALSE,
                                 !.version = run[a].version + 1]
<1>1. a \in Actions /\ run[a] \in Row /\ run[a].state \in ActionState
  BY ThreadTyped, RowTyped DEF Claim, At, Act, Row
<1>2. CASE ClaimPredicate(t)
  <2>1. run' = [run EXCEPT ![a] = row] /\ UNCHANGED overdue
    BY <1>2 DEF Claim
  <2>2. row.state = "running" /\ row.cancel = run[a].cancel
    BY <1>1 DEF Row
  <2>3. "running" \in Life(a)!Moves(run[a].state, run[a].cancel, overdue[a])
    BY <1>1, <1>2, Words, Moves DEF ClaimPredicate
  <2> HIDE DEF row, a
  <2> QED BY <1>1, <2>1, <2>2, <2>3, OneMove
<1>3. CASE ~ClaimPredicate(t)
  BY <1>3, NoMove DEF Claim
<1> QED BY <1>2, <1>3

\* The durable keys are no move.
LEMMA ReserveMoves ==
    ASSUME TypeInv, NEW t \in Threads, Reserve(t)
    PROVE  Moved
<1> DEFINE a == Act(t)
           row == [run[a] EXCEPT !.reserved = TRUE]
<1>1. a \in Actions /\ run[a] \in Row
  BY ThreadTyped, RowTyped DEF Reserve, At, Act
<1>2. row.state = run[a].state /\ row.cancel = run[a].cancel
  BY <1>1 DEF Row
<1>3. run' = [run EXCEPT ![a] = row] /\ UNCHANGED overdue
  BY DEF Reserve
<1> HIDE DEF a, row
<1> QED BY <1>1, <1>2, <1>3, OneMove

\* A claimed row waits or is held.
LEMMA WaitMoves ==
    ASSUME TypeInv, NEW t \in Threads, Wait(t)
    PROVE  Moved
<1> DEFINE a == Act(t)
           n == WaitRow(a).state
<1>1. a \in Actions /\ run[a] \in Row /\ run[a].state = "running"
  BY ThreadTyped, RowTyped DEF Wait, At, Act, FenceMatches
<1>2. WaitRow(a).cancel = run[a].cancel /\ n \in {"needs_review", "waiting_dependency"}
  <2>1. \A s, m : Outcome(run[a], s, m).cancel = run[a].cancel /\ Outcome(run[a], s, m).state = s
    BY <1>1, OutcomeStop
  <2> HIDE DEF a
  <2> QED BY <2>1 DEF WaitRow
<1>3. run' = [run EXCEPT ![a] = WaitRow(a)] /\ UNCHANGED overdue
  BY DEF Wait
<1> HIDE DEF a, n
<1>4. n \in Life(a)!Moves("running", run[a].cancel, overdue[a])
  BY <1>1, <1>2, Words, RunningMoves
<1> QED BY <1>1, <1>2, <1>3, <1>4, OneMove DEF n

\* A claimed transition ends a stopped action for the reason it was stopped.
LEMMA FinalOwnedMoves ==
    ASSUME TypeInv, NEW t \in Threads, FinalOwned(t)
    PROVE  Moved
<1> DEFINE a == Act(t)
           s == OwnedTarget(t)
           n == OwnedUnresolved(t, s)
           mid == IF th[t].res = "safe" THEN Outcome(run[a], "reconciling", 0) ELSE run[a]
           row == Outcome(mid, s, n)
<1>1. a \in Actions /\ run[a] \in Row /\ run[a].state = "running"
  BY ThreadTyped, RowTyped DEF FinalOwned, At, Act, FenceMatches
<1>2. s \in ActionState /\ s # "running"
  BY Words, StopStateTyped DEF OwnedTarget
<1>3. /\ s = "cancelled" => run[a].cancel
      /\ s = "deadline_exceeded" => overdue[a] /\ ~run[a].cancel
  BY DEF FinalOwned, OwnedTarget, StopState, Stopped
<1>4. mid \in Row /\ mid.cancel = run[a].cancel
  <2>1. Outcome(run[a], "reconciling", 0) \in Row
    BY <1>1, Words, OutcomeRow DEF RowStep
  <2> QED BY <1>1, <2>1, OutcomeStop
<1>5. row.cancel = run[a].cancel /\ row.state = s
  <2> HIDE DEF mid, s, n
  <2> QED BY <1>4, OutcomeStop
<1>6. run' = [run EXCEPT ![a] = row] /\ UNCHANGED overdue
  BY DEF FinalOwned
<1> HIDE DEF a, s, n, mid, row
<1>7. s \in Life(a)!Moves("running", run[a].cancel, overdue[a])
  BY <1>1, <1>2, <1>3, RunningMoves
<1> QED BY <1>1, <1>5, <1>6, <1>7, OneMove

\* An unclaimed transition takes what the table has, and only of a stopped
\* action.
LEMMA FinalFreeMoves ==
    ASSUME TypeInv, Control, NEW t \in Threads, FinalFree(t)
    PROVE  Moved
<1> DEFINE a == Act(t)
           s == FreeTarget(t)
           n == unresolvedEffectCount(a, s = "reconciling")
           row == Outcome(run[a], s, n)
<1>1. a \in Actions /\ run[a] \in Row /\ run[a].state \in ActionState
  BY ThreadTyped, RowTyped DEF FinalFree, At, Act, Row
<1>2. Stopped(a)
  BY DEF Control, Controlled, Free, FinalFree, At
<1>3. /\ s \in {"reconciling", "cancelled", "deadline_exceeded"}
      /\ s = "cancelled" => run[a].cancel
      /\ s = "deadline_exceeded" => overdue[a] /\ ~run[a].cancel
  BY <1>2 DEF FreeTarget, StopState, Stopped
<1>4. row.cancel = run[a].cancel /\ row.state = s
  <2> HIDE DEF s, n
  <2> QED BY <1>1, OutcomeStop
<1>5. \/ UNCHANGED run
      \/ run' = [run EXCEPT ![a] = row] /\ (CanTransition(run[a].state, s) \/ run[a].state = s)
  BY DEF FinalFree
<1>6. UNCHANGED overdue
  BY DEF FinalFree
<1> HIDE DEF a, s, n, row
<1>7. s \in ActionState
  BY <1>3, Words
<1>8. CanTransition(run[a].state, s)
        => s \in Life(a)!Moves(run[a].state, run[a].cancel, overdue[a])
  BY <1>1, <1>3, <1>7, Moves
<1> QED BY <1>1, <1>4, <1>5, <1>6, <1>8, OneMove, NoMove

\* A deferred reconciliation is reconciling.
LEMMA DeferActiveDispatchMoves ==
    ASSUME TypeInv, Control, NEW t \in Threads, DeferActiveDispatch(t)
    PROVE  Moved
<1> DEFINE a == Act(t)
           n == unresolvedEffectCount(a, TRUE)
           row == Outcome(run[a], "reconciling", n)
<1>1. a \in Actions /\ run[a] \in Row /\ run[a].state \in ActionState
  BY ThreadTyped, RowTyped DEF DeferActiveDispatch, At, Act, Row
<1>2. row.cancel = run[a].cancel /\ row.state = "reconciling"
  <2> HIDE DEF n
  <2> QED BY <1>1, OutcomeStop
<1>3. \/ UNCHANGED run
      \/ /\ run' = [run EXCEPT ![a] = row]
         /\ \/ run[a].state = "running" \/ run[a].state = "reconciling"
            \/ CanTransition(run[a].state, "reconciling")
  BY DEF DeferActiveDispatch, MayWrite, FenceMatches
<1>4. UNCHANGED overdue
  BY DEF DeferActiveDispatch
<1> HIDE DEF a, n, row
<1>5. run[a].state = "running" \/ CanTransition(run[a].state, "reconciling")
        => "reconciling" \in Life(a)!Moves(run[a].state, run[a].cancel, overdue[a])
  BY <1>1, Words, RunningMoves, Moves
<1> QED BY <1>1, <1>2, <1>3, <1>4, <1>5, OneMove, NoMove

\* The return marker gives a claim up to reconciliation, or moves nothing.
LEMMA ReleaseMarkMoves ==
    ASSUME TypeInv, NEW t \in Threads, ReleaseMark(t)
    PROVE  Moved
<1> DEFINE a == Act(t)
           hold == run[a].state = "running" /\ PreserveClaim(t) /\ ~run[a].cancel
           s == IF run[a].state = "running" /\ ~hold THEN "reconciling" ELSE run[a].state
           n == unresolvedEffectCount(a, TRUE)
           out == Outcome(run[a], s, n)
           new == [out EXCEPT !.marker = th[t].att, !.by = IF hold THEN run[a].by ELSE None,
                              !.expired = hold /\ run[a].expired]
<1>1. a \in Actions /\ run[a] \in Row /\ th[t].att \in Nat
  BY ThreadTyped, RowTyped DEF ReleaseMark, At, Act, Thread
<1>2. out.cancel = run[a].cancel /\ out.state = s
  <2> HIDE DEF s, n
  <2> QED BY <1>1, OutcomeStop
<1>3. new.cancel = run[a].cancel /\ new.state = s
  <2>1. out = [run[a] EXCEPT !.state = s, !.version = run[a].version + 1, !.by = None,
                             !.expired = FALSE,
                             !.reserved = run[a].reserved /\ s \in Retaining, !.marker = 0,
                             !.unresolved = n]
    BY DEF Outcome
  <2>2. \A f \in {"state", "cancel", "marker", "by", "expired"} : f \in DOMAIN out
    BY <1>1, <2>1 DEF Row
  <2> HIDE DEF out, s, hold
  <2> QED BY <1>2, <2>2
<1>4. run' = [run EXCEPT ![a] = MarkedRow(t)] /\ UNCHANGED overdue
  BY DEF ReleaseMark
<1>5. MarkedRow(t) = run[a] \/ MarkedRow(t) = new
  BY DEF MarkedRow
<1>6. s = run[a].state \/ (run[a].state = "running" /\ s = "reconciling")
  OBVIOUS
<1> HIDE DEF a, s, new
<1>7. "reconciling" \in Life(a)!Moves("running", run[a].cancel, overdue[a])
  BY <1>1, Words, RunningMoves
<1> QED BY <1>1, <1>3, <1>4, <1>5, <1>6, <1>7, OneMove

\* The set-based statements, and what callers and the clock do to a row.
LEMMA ProcessMoves ==
    ASSUME TypeInv, ClaimedIffRunning,
           Crash \/ Recover \/ RecoverExpired \/ FinalizeCancelled \/ FinalizeDeadline
    PROVE  Moved /\ \A a \in Actions : Unsucceeded(a)
<1>1. \A a \in Actions : run[a] \in Row /\ run[a].state \in ActionState
  BY RowTyped DEF Row
<1>2. ASSUME NEW row \in Row
      PROVE  /\ Recovered(row) \in Row
             /\ Recovered(row).cancel = row.cancel /\ Recovered(row).state = "reconciling"
  <2> DEFINE v == row.version + 1
  <2>1. Recovered(row) = [row EXCEPT !.state = "reconciling", !.version = v, !.by = None,
                                     !.expired = FALSE]
    BY DEF Recovered
  <2>2. v \in Nat
    BY DEF Row
  <2> HIDE DEF v
  <2> QED BY <2>1, <2>2, Words DEF Row
<1>3. ASSUME NEW row \in Row, NEW s \in ActionState
      PROVE  /\ Finalized(row, s) \in Row
             /\ Finalized(row, s).cancel = row.cancel /\ Finalized(row, s).state = s
  <2> DEFINE v == row.version + 1
  <2>1. Finalized(row, s) = [row EXCEPT !.state = s, !.version = v, !.by = None,
                                        !.expired = FALSE]
    BY DEF Finalized
  <2>2. v \in Nat
    BY DEF Row
  <2> HIDE DEF v
  <2> QED BY <2>1, <2>2 DEF Row
<1>4. ASSUME NEW a \in Actions
      PROVE  "reconciling" \in Life(a)!Moves("running", run[a].cancel, overdue[a])
  BY Words, RunningMoves
<1>5. ASSUME NEW a \in Actions, run[a].state \in Unstarted, run[a].cancel
      PROVE  "cancelled" \in Life(a)!Moves(run[a].state, run[a].cancel, overdue[a])
  <2>1. CanTransition(run[a].state, "cancelled")
    BY <1>1, <1>5 DEF CanTransition, actionTransitions, Unstarted
  <2>2. run[a].state \in ActionState /\ "cancelled" \in ActionState
    BY <1>1, Words
  <2> DEFINE c == run[a].cancel
             o == overdue[a]
  <2>3. c
    BY <1>5
  <2> HIDE DEF c, o
  <2>4. "cancelled" \in Life(a)!Moves(run[a].state, c, o)
    BY <2>1, <2>2, <2>3, Moves
  <2> QED BY <2>4 DEF c, o
<1>6. ASSUME NEW a \in Actions, run[a].state \in Unstarted, ~run[a].cancel, overdue[a]
      PROVE  "deadline_exceeded" \in Life(a)!Moves(run[a].state, run[a].cancel, overdue[a])
  <2>1. CanTransition(run[a].state, "deadline_exceeded")
    BY <1>1, <1>6 DEF CanTransition, actionTransitions, Unstarted
  <2> QED BY <1>1, <1>6, <2>1, Words, Moves
<1>7. CASE Crash
  BY <1>7, NoMove DEF Crash, Unsucceeded
<1>8. CASE RecoverExpired
  <2>1. ASSUME NEW a \in Actions
        PROVE  run'[a].cancel = run[a].cancel /\ MayMove(a) /\ Unsucceeded(a)
    <3>1. run'[a] = IF HasClaim(run[a]) /\ Unleased(run[a]) THEN Recovered(run[a]) ELSE run[a]
      BY <1>8 DEF RecoverExpired
    <3>2. HasClaim(run[a]) => run[a].state = "running" \/ run[a].state = "reconciling"
      BY DEF HasClaim
    <3>3. Recovered(run[a]).cancel = run[a].cancel /\ Recovered(run[a]).state = "reconciling"
      BY <1>1, <1>2
    <3>4. CASE HasClaim(run[a]) /\ Unleased(run[a])
      <4>1. run'[a].state = "reconciling" /\ run'[a].cancel = run[a].cancel
        BY <3>1, <3>3, <3>4
      <4>2. run[a].state = "running" \/ run[a].state = "reconciling"
        BY <3>2, <3>4
      <4> QED BY <1>4, <4>1, <4>2 DEF MayMove, Unsucceeded
    <3>5. CASE ~(HasClaim(run[a]) /\ Unleased(run[a]))
      <4>1. run'[a] = run[a]
        BY <3>1, <3>5
      <4> QED BY <4>1 DEF MayMove, Unsucceeded
    <3> QED BY <3>4, <3>5
  <2> QED BY <1>8, <2>1 DEF RecoverExpired, Moved
<1>9. CASE FinalizeCancelled
  <2>1. ASSUME NEW a \in Actions
        PROVE  run'[a].cancel = run[a].cancel /\ MayMove(a) /\ Unsucceeded(a)
    <3>1. run'[a] = IF run[a].state \in Unstarted /\ run[a].cancel
                    THEN Finalized(run[a], "cancelled") ELSE run[a]
      BY <1>9 DEF FinalizeCancelled, FinalizeCancelledRows
    <3>2. /\ Finalized(run[a], "cancelled").cancel = run[a].cancel
          /\ Finalized(run[a], "cancelled").state = "cancelled"
      BY <1>1, <1>3, Words
    <3>3. CASE run[a].state \in Unstarted /\ run[a].cancel
      <4>1. run'[a].state = "cancelled" /\ run'[a].cancel = run[a].cancel
        BY <3>1, <3>2, <3>3
      <4> QED BY <1>5, <3>3, <4>1 DEF MayMove, Unsucceeded
    <3>4. CASE ~(run[a].state \in Unstarted /\ run[a].cancel)
      <4>1. run'[a] = run[a]
        BY <3>1, <3>4
      <4> QED BY <4>1 DEF MayMove, Unsucceeded
    <3> QED BY <3>3, <3>4
  <2> QED BY <1>9, <2>1 DEF FinalizeCancelled, Moved
<1>10. CASE FinalizeDeadline
  <2>1. ASSUME NEW a \in Actions
        PROVE  run'[a].cancel = run[a].cancel /\ MayMove(a) /\ Unsucceeded(a)
    <3>1. run'[a] = IF run[a].state \in Unstarted /\ ~run[a].cancel /\ overdue[a]
                    THEN Finalized(run[a], "deadline_exceeded") ELSE run[a]
      BY <1>10 DEF FinalizeDeadline, FinalizeDeadlineRows
    <3>2. /\ Finalized(run[a], "deadline_exceeded").cancel = run[a].cancel
          /\ Finalized(run[a], "deadline_exceeded").state = "deadline_exceeded"
      BY <1>1, <1>3, Words
    <3>3. CASE run[a].state \in Unstarted /\ ~run[a].cancel /\ overdue[a]
      <4>1. run'[a].state = "deadline_exceeded" /\ run'[a].cancel = run[a].cancel
        BY <3>1, <3>2, <3>3
      <4> QED BY <1>6, <3>3, <4>1 DEF MayMove, Unsucceeded
    <3>4. CASE ~(run[a].state \in Unstarted /\ ~run[a].cancel /\ overdue[a])
      <4>1. run'[a] = run[a]
        BY <3>1, <3>4
      <4> QED BY <4>1 DEF MayMove, Unsucceeded
    <3> QED BY <3>3, <3>4
  <2> QED BY <1>10, <2>1 DEF FinalizeDeadline, Moved
<1>11. CASE Recover
  <2>1. ASSUME NEW a \in Actions
        PROVE  run'[a].cancel = run[a].cancel /\ MayMove(a) /\ Unsucceeded(a)
    <3> DEFINE r1 == RecoverRunningRows
               r2 == FinalizeCancelledRows(r1)
    <3>1. r1[a] = IF HasClaim(run[a]) THEN Recovered(run[a]) ELSE run[a]
      BY DEF RecoverRunningRows
    <3>2. r2[a] = IF r1[a].state \in Unstarted /\ r1[a].cancel
                  THEN Finalized(r1[a], "cancelled") ELSE r1[a]
      BY DEF FinalizeCancelledRows
    <3>3. run'[a] = IF r2[a].state \in Unstarted /\ ~r2[a].cancel /\ overdue[a]
                    THEN Finalized(r2[a], "deadline_exceeded") ELSE r2[a]
      BY <1>11 DEF Recover, FinalizeDeadlineRows
    <3> HIDE DEF r1, r2
    <3>4. HasClaim(run[a]) => run[a].state = "running" \/ run[a].state = "reconciling"
      BY DEF HasClaim
    <3>5. CASE HasClaim(run[a])
      <4>1. r1[a].state = "reconciling" /\ r1[a].cancel = run[a].cancel
        BY <1>1, <1>2, <3>1, <3>5
      <4>2. r2[a] = r1[a]
        BY <3>2, <4>1 DEF Unstarted
      <4>3. run'[a] = r1[a]
        BY <3>3, <4>1, <4>2 DEF Unstarted
      <4> QED BY <1>4, <3>4, <3>5, <4>1, <4>3 DEF MayMove, Unsucceeded
    <3>6. CASE ~HasClaim(run[a]) /\ run[a].state \in Unstarted /\ run[a].cancel
      <4>0. /\ Finalized(run[a], "cancelled").cancel = run[a].cancel
            /\ Finalized(run[a], "cancelled").state = "cancelled"
        BY <1>1, <1>3, Words
      <4>1. r2[a].state = "cancelled" /\ r2[a].cancel = run[a].cancel
        BY <3>1, <3>2, <3>6, <4>0
      <4>2. run'[a] = r2[a]
        BY <3>3, <4>1 DEF Unstarted
      <4> QED BY <1>5, <3>6, <4>1, <4>2 DEF MayMove, Unsucceeded
    <3>7. CASE ~HasClaim(run[a]) /\ ~(run[a].state \in Unstarted /\ run[a].cancel)
      <4>1. r2[a] = run[a]
        BY <3>1, <3>2, <3>7
      <4>2. run'[a] = IF run[a].state \in Unstarted /\ ~run[a].cancel /\ overdue[a]
                      THEN Finalized(run[a], "deadline_exceeded") ELSE run[a]
        BY <3>3, <4>1
      <4>3. /\ Finalized(run[a], "deadline_exceeded").cancel = run[a].cancel
            /\ Finalized(run[a], "deadline_exceeded").state = "deadline_exceeded"
        BY <1>1, <1>3, Words
      <4>4. CASE run[a].state \in Unstarted /\ ~run[a].cancel /\ overdue[a]
        <5>1. run'[a].state = "deadline_exceeded" /\ run'[a].cancel = run[a].cancel
          BY <4>2, <4>3, <4>4
        <5> QED BY <1>6, <4>4, <5>1 DEF MayMove, Unsucceeded
      <4>5. CASE ~(run[a].state \in Unstarted /\ ~run[a].cancel /\ overdue[a])
        <5>1. run'[a] = run[a]
          BY <4>2, <4>5
        <5> QED BY <5>1 DEF MayMove, Unsucceeded
      <4> QED BY <4>4, <4>5
    <3> QED BY <3>5, <3>6, <3>7
  <2> QED BY <1>11, <2>1 DEF Recover, Moved
<1> QED BY <1>7, <1>8, <1>9, <1>10, <1>11

\* Every step of a goroutine moves the rows as ActionLife says.
LEMMA StepMoves ==
    ASSUME TypeInv, Control, NEW t \in Threads, Step(t), ~HoldUnhandled(t)
    PROVE  Moved
<1>1. CASE \/ HoldUnhandled(t) \/ Claim(t) \/ Reserve(t) \/ Wait(t) \/ FinalOwned(t)
           \/ FinalFree(t) \/ DeferActiveDispatch(t) \/ ReleaseMark(t)
  BY <1>1, ClaimMoves, ReserveMoves, WaitMoves, FinalOwnedMoves, FinalFreeMoves,
     DeferActiveDispatchMoves, ReleaseMarkMoves
<1>2. CASE \/ AcquireReservations(t) \/ ReserveRefused(t) \/ Finish(t) \/ ObserveBegin(t)
           \/ ObserveReturn(t) \/ PrepareDispatch(t) \/ BeforeDispatch(t)
           \/ BeforeDispatchCancelled(t) \/ DispatchSend(t) \/ DispatchReturn(t)
           \/ CloseAttempt(t) \/ RecordEffects(t) \/ EffectsRefused(t) \/ FinalNotStopped(t)
  BY <1>2, NoMove DEF AcquireReservations, ReserveRefused, Finish, ObserveBegin, ObserveReturn,
     PrepareDispatch, BeforeDispatch, BeforeDispatchCancelled, DispatchSend, DispatchReturn,
     CloseAttempt, RecordEffects, EffectsRefused, FinalNotStopped
<1>3. CASE \/ ReconcileFind(t) \/ ReconcileRefresh(t) \/ ReconcileActive(t)
           \/ ReconcileReuse(t) \/ ReconcileBegin(t) \/ ReconcileReturn(t)
           \/ ReleaseResolved(t) \/ ReleaseIntent(t) \/ ReleaseResolve(t) \/ ReleaseFailed(t)
           \/ BarrierRetry(t) \/ BarrierGiveUp(t) \/ FenceLost(t) \/ JournalFails(t)
           \/ JournalFull(t)
  BY <1>3, NoMove DEF ReconcileFind, ReconcileRefresh, ReconcileActive, ReconcileReuse,
     ReconcileBegin, ReconcileReturn, ReleaseResolved, ReleaseIntent, ReleaseResolve,
     ReleaseFailed, BarrierRetry, BarrierGiveUp, FenceLost, JournalFails, JournalFull
<1> QED BY <1>1, <1>2, <1>3 DEF Step

-----------------------------------------------------------------------------
(* Stops persist, so Control does *)

\* What is asked of an action is never withdrawn.
StopsPersist ==
    \A a \in Actions : /\ run[a].cancel => run'[a].cancel
                       /\ overdue[a] => overdue'[a]

\* A hold by an executor without the handler keeps the cancellation marker.
LEMMA HoldUnhandledStops ==
    ASSUME TypeInv, NEW t \in Threads, HoldUnhandled(t)
    PROVE  StopsPersist
<1> DEFINE a == Act(t)
           n == unresolvedEffectCount(a, FALSE)
           row == Outcome(run[a], "needs_review", n)
<1>1. a \in Actions /\ run[a] \in Row
  BY ThreadTyped, RowTyped DEF HoldUnhandled, At, Act
<1>2. run' = [run EXCEPT ![a] = row] /\ UNCHANGED overdue
  BY DEF HoldUnhandled
<1>3. row.cancel = run[a].cancel
  <2> HIDE DEF n
  <2> QED BY <1>1, OutcomeStop
<1> HIDE DEF row, a
<1>4. \A b \in Actions : run'[b] = IF b = a THEN row ELSE run[b]
  BY <1>2 DEF TypeInv, TypeOK
<1> QED BY <1>2, <1>3, <1>4 DEF StopsPersist

LEMMA StepStops ==
    ASSUME TypeInv, Control, NEW t \in Threads, Step(t)
    PROVE  StopsPersist
<1>1. CASE HoldUnhandled(t)
  BY <1>1, HoldUnhandledStops
<1>2. CASE ~HoldUnhandled(t)
  BY <1>2, StepMoves DEF Moved, StopsPersist
<1> QED BY <1>1, <1>2

\* A goroutine starts under Control: a pass without a claim is one of an action
\* that was stopped when the row was read.
LEMMA PickControl ==
    ASSUME TypeInv, Control, NEW t \in Threads, NEW a \in Actions, Pick(t, a) \/ PickById(t, a)
    PROVE  Control'
<1>1. UNCHANGED <<run, overdue>>
  BY DEF Pick, PickById
<1>2. PICK r : /\ th' = [th EXCEPT ![t] = r]
               /\ Controlled(r)
               /\ Free(r) => Stopped(a) /\ r.act = a
  <2>1. CASE Pick(t, a)
    <3> DEFINE free == run[a].state = "reconciling" /\ Stopped(a)
               p == IF free THEN "rec_find" ELSE "claim"
               q == IF free THEN "reconcile" ELSE "none"
               r == [Idle EXCEPT !.pc = p, !.act = a, !.ver = run[a].version,
                                 !.from = run[a].state, !.mark = run[a].marker,
                                 !.phase = q, !.keep = free]
    <3>1. th' = [th EXCEPT ![t] = r]
      BY <2>1 DEF Pick
    <3>2. free \in BOOLEAN
      OBVIOUS
    <3>3. free => Stopped(a)
      OBVIOUS
    <3> HIDE DEF free
    <3>4. /\ r.pc = p /\ r.phase = q /\ r.act = a /\ ~r.claimed /\ ~r.sent /\ r.back = Idle.back
      BY DEF Idle
    <3> HIDE DEF r
    <3>5. Controlled(r)
      BY <3>4 DEF Controlled
    <3>6. Free(r) => free
      BY <3>4 DEF Free
    <3> QED BY <3>1, <3>3, <3>4, <3>5, <3>6
  <2>2. CASE PickById(t, a)
    <3> DEFINE r == [Idle EXCEPT !.pc = "claim", !.act = a, !.ver = run[a].version]
    <3>1. th' = [th EXCEPT ![t] = r]
      BY <2>2 DEF PickById
    <3>2. r.pc = "claim" /\ r.phase = "none" /\ ~r.claimed /\ ~r.sent
      BY DEF Idle
    <3> HIDE DEF r
    <3>3. Controlled(r) /\ ~Free(r)
      BY <3>2 DEF Controlled, Free
    <3> QED BY <3>1, <3>3
  <2> QED BY <2>1, <2>2
<1>3. \A u \in Threads : th'[u] = IF u = t THEN r ELSE th[u]
  BY <1>2 DEF TypeInv, TypeOK
<1>4. ASSUME NEW u \in Threads
      PROVE  /\ Controlled(th'[u])
             /\ Free(th'[u]) => run'[th'[u].act].cancel \/ overdue'[th'[u].act]
  BY <1>1, <1>2, <1>3 DEF Control, Stopped, Act
<1> QED BY <1>4 DEF Control, Stopped, Act

LEMMA StepControl ==
    ASSUME TypeInv, Control, NEW t \in Threads, Step(t)
    PROVE  Control'
<1>1. StopsPersist
  BY StepStops
<1>2. PICK r : th' = [th EXCEPT ![t] = r] /\ Proceeds(t, r)
  BY StepProceeds DEF Control
<1>3. \A u \in Threads : th'[u] = IF u = t THEN r ELSE th[u]
  BY <1>2 DEF TypeInv, TypeOK
<1>4. ASSUME NEW u \in Threads
      PROVE  /\ Controlled(th'[u])
             /\ Free(th'[u]) => run'[th'[u].act].cancel \/ overdue'[th'[u].act]
  <2>1. Controlled(th'[u])
    BY <1>2, <1>3 DEF Control, Proceeds
  <2>2. ASSUME Free(th'[u])
        PROVE  Free(th[u]) /\ th'[u].act = th[u].act
    BY <1>2, <1>3, <2>2 DEF Proceeds
  <2>3. ASSUME Free(th[u])
        PROVE  th[u].act \in Actions /\ (run[th[u].act].cancel \/ overdue[th[u].act])
    <3>1. Controlled(th[u]) /\ Stopped(Act(u))
      BY <2>3 DEF Control
    <3>2. th[u].pc # "idle"
      BY <2>3, <3>1 DEF Controlled, Free
    <3> QED BY <3>1, <3>2, ThreadTyped DEF Stopped, Act
  <2> QED BY <1>1, <2>1, <2>2, <2>3 DEF StopsPersist
<1> QED BY <1>4 DEF Control, Stopped, Act

\* A step of the environment that stops actions at most.
LEMMA QuietControl ==
    ASSUME TypeInv, Control, th' = th \/ th' = [t \in Threads |-> Idle], StopsPersist
    PROVE  Control'
<1>1. Controlled(Idle) /\ ~Free(Idle)
  BY DEF Idle, Controlled, Free
<1>2. ASSUME NEW u \in Threads
      PROVE  /\ Controlled(th'[u])
             /\ Free(th'[u]) => run'[th'[u].act].cancel \/ overdue'[th'[u].act]
  <2>1. CASE th' = [t \in Threads |-> Idle]
    BY <1>1, <2>1
  <2>2. CASE th' = th
    <3>1. Controlled(th[u])
      BY DEF Control
    <3>2. ASSUME Free(th[u])
          PROVE  th[u].act \in Actions /\ (run[th[u].act].cancel \/ overdue[th[u].act])
      <4>1. Stopped(Act(u))
        BY <3>2 DEF Control
      <4>2. th[u].pc # "idle"
        BY <3>1, <3>2 DEF Controlled, Free
      <4> QED BY <4>1, <4>2, ThreadTyped DEF Stopped, Act
    <3> QED BY <2>2, <3>1, <3>2 DEF StopsPersist
  <2> QED BY <2>1, <2>2
<1> QED BY <1>2 DEF Control, Stopped, Act

-----------------------------------------------------------------------------
(* The environment *)

\* What callers, the clock, leases and the upstream system do to the life of
\* each action: one of them is asked to stop, or nothing happens.
LEMMA CallerMoves ==
    ASSUME TypeInv, NEW a \in Actions,
           \/ RequestCancellation(a) \/ CancelLinked(a) \/ DeadlinePasses(a)
           \/ LeaseExpires(a) \/ Land(a) \/ Drop(a) \/ Establish(a)
    PROVE  /\ StopsPersist
           /\ th' = th
           /\ \A b \in Actions : Life(b)!Next \/ UNCHANGED Life(b)!vars
<1>1. \A b \in Actions : run[b] \in Row
  BY RowTyped
<1>2. run \in [Actions -> Row] /\ overdue \in [Actions -> BOOLEAN]
  BY DEF TypeInv, TypeOK
<1>3. th' = th
  BY DEF RequestCancellation, CancelLinked, DeadlinePasses, LeaseExpires, Land, Drop, Establish
<1>4. ASSUME UNCHANGED <<run, overdue>>
      PROVE  StopsPersist /\ \A b \in Actions : UNCHANGED Life(b)!vars
  BY <1>4 DEF StopsPersist, Life!vars
<1>5. ASSUME run' = [run EXCEPT ![a] = run'[a]], UNCHANGED overdue,
             run'[a].state = run[a].state, run'[a].cancel, run[a].state \notin Terminal
      PROVE  StopsPersist /\ \A b \in Actions : Life(b)!Next \/ UNCHANGED Life(b)!vars
  <2>1. \A b \in Actions \ {a} : run'[b] = run[b]
    BY <1>2, <1>5
  <2>2. StopsPersist
    BY <1>5, <2>1 DEF StopsPersist
  <2>3. Life(a)!RequestCancellation
    <3>1. Life(a)!Terminal = Terminal
      BY DEF Life!Terminal, Terminal
    <3>2. (run'[a].cancel) = TRUE
      BY <1>5
    <3> QED BY <1>5, <3>1, <3>2 DEF Life!RequestCancellation
  <2>4. \A b \in Actions \ {a} : UNCHANGED Life(b)!vars
    BY <1>5, <2>1 DEF Life!vars
  <2> QED BY <2>2, <2>3, <2>4 DEF Life!Next
<1>6. CASE RequestCancellation(a)
  <2> DEFINE row == [run[a] EXCEPT !.cancel = TRUE, !.version = run[a].version + 1]
  <2>1. run' = [run EXCEPT ![a] = row] /\ UNCHANGED overdue /\ run[a].state \notin Terminal
    BY <1>6 DEF RequestCancellation
  <2>2. row.state = run[a].state /\ row.cancel = TRUE
    BY <1>1 DEF Row
  <2> HIDE DEF row
  <2>3. run'[a] = row
    BY <1>2, <2>1
  <2> QED BY <1>3, <1>5, <2>1, <2>2, <2>3
<1>7. CASE CancelLinked(a)
  <2> DEFINE row == [run[a] EXCEPT !.cancel = TRUE]
  <2>1. run' = [run EXCEPT ![a] = row] /\ UNCHANGED overdue /\ run[a].state \notin Terminal
    BY <1>7 DEF CancelLinked
  <2>2. row.state = run[a].state /\ row.cancel = TRUE
    BY <1>1 DEF Row
  <2> HIDE DEF row
  <2>3. run'[a] = row
    BY <1>2, <2>1
  <2> QED BY <1>3, <1>5, <2>1, <2>2, <2>3
<1>8. CASE DeadlinePasses(a)
  <2>1. overdue' = [overdue EXCEPT ![a] = TRUE] /\ UNCHANGED run
    BY <1>8 DEF DeadlinePasses
  <2>2. \A b \in Actions : overdue'[b] = IF b = a THEN TRUE ELSE overdue[b]
    BY <1>2, <2>1
  <2>3. StopsPersist
    BY <2>1, <2>2 DEF StopsPersist
  <2>4. Life(a)!DeadlinePasses
    BY <2>1, <2>2 DEF Life!DeadlinePasses
  <2>5. \A b \in Actions \ {a} : UNCHANGED Life(b)!vars
    BY <2>1, <2>2 DEF Life!vars
  <2> QED BY <1>3, <2>3, <2>4, <2>5 DEF Life!Next
<1>9. CASE LeaseExpires(a)
  <2> DEFINE row == [run[a] EXCEPT !.expired = TRUE]
  <2>1. run' = [run EXCEPT ![a] = row] /\ UNCHANGED overdue
    BY <1>9 DEF LeaseExpires
  <2>2. row.state = run[a].state /\ row.cancel = run[a].cancel
    BY <1>1 DEF Row
  <2> HIDE DEF row
  <2>3. \A b \in Actions : run'[b] = IF b = a THEN row ELSE run[b]
    BY <1>2, <2>1
  <2>4. StopsPersist
    BY <2>1, <2>2, <2>3 DEF StopsPersist
  <2>5. \A b \in Actions : UNCHANGED Life(b)!vars
    BY <2>1, <2>2, <2>3 DEF Life!vars
  <2> QED BY <1>3, <2>4, <2>5
<1>10. CASE Land(a) \/ Drop(a) \/ Establish(a)
  <2>1. UNCHANGED <<run, overdue>>
    BY <1>10 DEF Land, Drop, Establish
  <2> QED BY <1>3, <1>4, <2>1
<1> QED BY <1>6, <1>7, <1>8, <1>9, <1>10

\* A move of the rows is a step, or a stutter, of every life.
LEMMA MovedLives ==
    ASSUME TypeInv, Moved
    PROVE  StopsPersist /\ \A a \in Actions : Life(a)!Next \/ UNCHANGED Life(a)!vars
<1>1. overdue' = overdue
  BY DEF Moved
<1>2. ASSUME NEW a \in Actions
      PROVE  Life(a)!Next \/ UNCHANGED Life(a)!vars
  <2>1. (run'[a].cancel) = run[a].cancel /\ overdue'[a] = overdue[a]
    BY <1>1 DEF Moved
  <2>2. CASE run'[a].state = run[a].state
    BY <2>1, <2>2 DEF Life!vars
  <2>3. CASE run'[a].state \in Life(a)!Moves(run[a].state, run[a].cancel, overdue[a])
    <3>1. Life(a)!Move
      BY <2>1, <2>3 DEF Life!Move
    <3> QED BY <3>1 DEF Life!Next
  <2> QED BY <2>2, <2>3 DEF Moved, MayMove
<1> QED BY <1>1, <1>2 DEF Moved, StopsPersist

LEMMA ProcessThreads ==
    ASSUME Crash \/ Recover \/ RecoverExpired \/ FinalizeCancelled \/ FinalizeDeadline
    PROVE  th' = th \/ th' = [t \in Threads |-> Idle]
  BY DEF Crash, Recover, RecoverExpired, FinalizeCancelled, FinalizeDeadline

\* Control is inductive, and every step of the executor is one of the lives.
LEMMA NextControls ==
    ASSUME IInv, Control, [Next]_vars
    PROVE  Control'
<1>1. TypeInv /\ ClaimedIffRunning
  BY DEF IInv
<1>2. CASE UNCHANGED vars
  BY <1>1, <1>2, QuietControl DEF vars, StopsPersist
<1>3. CASE Crash \/ Recover \/ RecoverExpired \/ FinalizeCancelled \/ FinalizeDeadline
  <2>1. StopsPersist
    BY <1>1, <1>3, ProcessMoves, MovedLives
  <2> QED BY <1>1, <1>3, <2>1, ProcessThreads, QuietControl
<1>4. ASSUME NEW a \in Actions,
             \/ RequestCancellation(a) \/ CancelLinked(a) \/ DeadlinePasses(a)
             \/ LeaseExpires(a) \/ Land(a) \/ Drop(a) \/ Establish(a)
      PROVE  Control'
  BY <1>1, <1>4, CallerMoves, QuietControl
<1>5. ASSUME NEW t \in Threads, Step(t) PROVE Control'
  BY <1>1, <1>5, StepControl
<1>6. ASSUME NEW t \in Threads, NEW a \in Actions, Pick(t, a) \/ PickById(t, a) PROVE Control'
  BY <1>1, <1>6, PickControl
<1> QED BY <1>2, <1>3, <1>4, <1>5, <1>6 DEF Next, Environment

LEMMA NextLives ==
    ASSUME IInv, Control, [Next]_vars, Handling = Executors
    PROVE  \A a \in Actions : Life(a)!Next \/ UNCHANGED Life(a)!vars
<1>1. TypeInv /\ ClaimedIffRunning
  BY DEF IInv
<1>2. ASSUME UNCHANGED <<run, overdue>>
      PROVE  \A a \in Actions : UNCHANGED Life(a)!vars
  BY <1>2 DEF Life!vars
<1>3. CASE UNCHANGED vars
  BY <1>2, <1>3 DEF vars
<1>4. CASE Crash \/ Recover \/ RecoverExpired \/ FinalizeCancelled \/ FinalizeDeadline
  BY <1>1, <1>4, ProcessMoves, MovedLives
<1>5. CASE \E a \in Actions :
              \/ RequestCancellation(a) \/ CancelLinked(a) \/ DeadlinePasses(a)
              \/ LeaseExpires(a) \/ Land(a) \/ Drop(a) \/ Establish(a)
  BY <1>1, <1>5, CallerMoves
<1>6. ASSUME NEW t \in Threads, Step(t)
      PROVE  Moved
  <2>1. ~HoldUnhandled(t)
    BY ExecutorTyped DEF HoldUnhandled
  <2> QED BY <1>1, <1>6, <2>1, StepMoves
<1>7. CASE \E t \in Threads : Step(t)
  BY <1>1, <1>6, <1>7, MovedLives
<1>8. CASE \E t \in Threads, a \in Actions : Pick(t, a) \/ PickById(t, a)
  <2>1. UNCHANGED <<run, overdue>>
    BY <1>8 DEF Pick, PickById
  <2> QED BY <1>2, <2>1
<1> QED BY <1>3, <1>4, <1>5, <1>7, <1>8 DEF Next, Environment

LEMMA InitControls == Init => Control
<1> SUFFICES ASSUME Init PROVE Control
  OBVIOUS
<1>1. \A t \in Threads : th[t] = Idle
  BY DEF Init
<1>2. Controlled(Idle) /\ ~Free(Idle)
  BY DEF Idle, Controlled, Free
<1> QED BY <1>1, <1>2 DEF Control

LEMMA AlwaysControl == Spec => [](IInv /\ Control)
<1>1. Init => Control
  BY InitControls
<1>2. IInv /\ Control /\ [Next]_vars => Control'
  BY NextControls
<1> QED BY <1>1, <1>2, Inductive, PTL DEF Spec

LEMMA InitLives == Init => \A a \in Actions : Life(a)!Init
<1> SUFFICES ASSUME Init, NEW a \in Actions
             PROVE  Life(a)!Init
  OBVIOUS
<1>1. run[a] = [state |-> "queued", version |-> 1, by |-> None, expired |-> FALSE,
                cancel |-> FALSE, reserved |-> FALSE, marker |-> 0, unresolved |-> 0]
      /\ overdue[a] = FALSE
  BY DEF Init
<1>2. run[a].state = "queued" /\ run[a].cancel = FALSE /\ overdue[a] = FALSE
  BY <1>1
<1> QED BY <1>2 DEF Life!Init

-----------------------------------------------------------------------------
(* Refinement *)

\* With every handler registered in every executor, each action lives the life
\* the workflows rely on: for any number of actions, goroutines, executors,
\* crashes, failing transactions and stalls, a claim is taken only of an action
\* that was not stopped, a run ends cancelled only on request and overdue only
\* past its deadline, succeeds only out of a claim, and a request is never
\* withdrawn (ImplementsActionLife).
THEOREM LifeImplemented ==
    ASSUME Handling = Executors
    PROVE  Spec => ImplementsActionLife
<1>1. Init => \A a \in Actions : Life(a)!Init
  BY InitLives
<1>2. IInv /\ Control /\ [Next]_vars =>
        [\A a \in Actions : Life(a)!Next \/ UNCHANGED Life(a)!vars]_<<run, overdue>>
  BY NextLives
<1> QED BY <1>1, <1>2, AlwaysControl, PTL DEF Spec, ImplementsActionLife

-----------------------------------------------------------------------------
(* Success *)

\* The verdicts that say the desired state is there.
Sure == {"satisfied", "applied"}

\* A verdict that is going to be recorded as a success was right when the
\* handler gave it.
Proved ==
    \A t \in Threads :
        th[t].pc \in Closing /\ th[t].res \in Sure => Desired(Act(t))

LEMMA LeavePoint ==
    ASSUME TypeInv, NEW t \in Threads, NEW keep
    PROVE  Leave(t, keep).pc \in {"idle", "finish", "rel_intent"}
  BY ThreadTyped DEF Leave, Idle, Finishing, Thread

\* The handlers' verdicts, and what carries a verdict on.
LEMMA StepProved ==
    ASSUME TypeInv, Proved, NEW t \in Threads, Step(t),
           th'[t].pc \in Closing, th'[t].res \in Sure
    PROVE  th'[t].act \in Actions /\ Desired(th'[t].act)
<1>1. th \in [Threads -> Thread] /\ th[t] \in Thread
  BY ThreadTyped DEF TypeInv, TypeOK
<1>2. th[t].pc # "idle" => th[t].act \in Actions
  BY ThreadTyped
<1>3. \A k : Leave(t, k).pc \notin Closing
  BY LeavePoint
<1>4. Idle.pc \notin Closing /\ AfterRelease(t).pc \notin Closing
  BY <1>1 DEF Idle, AfterRelease, Finishing, Thread
<1>5. CASE ObserveReturn(t)
  BY <1>1, <1>2, <1>5 DEF ObserveReturn, At, Thread, ObserveVerdict, Act, Sure
<1>6. CASE DispatchReturn(t)
  BY <1>1, <1>2, <1>6 DEF DispatchReturn, At, Thread, DispatchVerdict, Act, Sure
<1>7. CASE ReconcileReturn(t)
  BY <1>1, <1>2, <1>7 DEF ReconcileReturn, At, Thread, ReconcileVerdict, Act, Sure
<1>8. CASE CloseAttempt(t) \/ RecordEffects(t)
  BY <1>1, <1>2, <1>8 DEF CloseAttempt, RecordEffects, At, Goto, Thread, Act, Proved
<1>9. CASE EffectsRefused(t) \/ BeforeDispatchCancelled(t)
  <2>1. CASE BeforeDispatchCancelled(t)
    BY <1>1, <2>1 DEF BeforeDispatchCancelled, Thread, Sure
  <2>2. CASE EffectsRefused(t) /\ th[t].phase = "reconcile"
    BY <1>1, <2>2 DEF EffectsRefused, Thread, Sure
  <2>3. CASE EffectsRefused(t) /\ th[t].phase # "reconcile"
    <3>1. th' = [th EXCEPT ![t] = Leave(t, FALSE)]
      BY <1>1, <2>3 DEF EffectsRefused
    <3> QED BY <1>1, <1>3, <3>1
  <2> QED BY <1>9, <2>1, <2>2, <2>3
<1>10. CASE JournalFails(t)
  <2> DEFINE keep == \/ ~th[t].claimed
                     \/ /\ th[t].pc = "final" /\ th[t].phase = "observe"
                        /\ th[t].res \in {"unproven", "review"}
  <2>1. th' = [th EXCEPT ![t] = IF @.pc = "effects" /\ @.phase = "reconcile"
                                THEN [@ EXCEPT !.pc = "close", !.res = "review"]
                                ELSE Leave(t, keep)]
    BY <1>10 DEF JournalFails
  <2> HIDE DEF keep
  <2> QED BY <1>1, <1>3, <2>1 DEF Thread, Sure
<1>11. CASE BeforeDispatch(t)
  BY <1>1, <1>3, <1>11 DEF BeforeDispatch, Thread, Sure
<1>12. CASE \/ HoldUnhandled(t) \/ Claim(t) \/ AcquireReservations(t) \/ Reserve(t)
            \/ ReserveRefused(t)
  <2>1. CASE HoldUnhandled(t)
    BY <1>1, <1>4, <2>1 DEF HoldUnhandled
  <2>2. CASE Claim(t)
    <3> DEFINE r == [th[t] EXCEPT !.pc = "local", !.claimed = TRUE,
                                  !.ver = run[Act(t)].version + 1, !.mark = run[Act(t)].marker]
    <3>1. th' = [th EXCEPT ![t] = r] \/ th' = [th EXCEPT ![t] = Idle]
      BY <1>1, <2>2 DEF Claim
    <3>2. r.pc = "local"
      BY <1>1 DEF Thread
    <3> HIDE DEF r
    <3> QED BY <1>1, <1>4, <3>1, <3>2
  <2>3. CASE AcquireReservations(t) \/ ReserveRefused(t)
    BY <1>1, <2>3 DEF AcquireReservations, ReserveRefused, Goto, Thread
  <2>4. CASE Reserve(t)
    BY <1>1, <2>4 DEF Reserve, Thread
  <2> QED BY <1>12, <2>1, <2>2, <2>3, <2>4
<1>13. CASE Wait(t) \/ Finish(t) \/ FinalOwned(t) \/ FinalNotStopped(t) \/ DeferActiveDispatch(t)
  BY <1>1, <1>3, <1>4, <1>13 DEF Wait, Finish, FinalOwned, FinalNotStopped, DeferActiveDispatch
<1>14. CASE FinalFree(t) \/ FenceLost(t) \/ JournalFull(t)
  BY <1>1, <1>3, <1>14 DEF FinalFree, FenceLost, JournalFull
<1>15. CASE \/ ObserveBegin(t) \/ PrepareDispatch(t) \/ DispatchSend(t) \/ ReconcileActive(t)
            \/ ReconcileReuse(t) \/ ReconcileBegin(t)
  BY <1>1, <1>15 DEF ObserveBegin, PrepareDispatch, DispatchSend, ReconcileActive,
     ReconcileReuse, ReconcileBegin, At, Goto, Thread
<1>16. CASE ReconcileFind(t)
  <2>1. \/ th' = [th EXCEPT ![t].pc = "rec_active", ![t].mark = 0]
        \/ \E n : th' = [th EXCEPT ![t] = [@ EXCEPT !.pc = "rel_intent", !.back = "rec",
                                                   !.mark = 0, !.att = n, !.ierr = FALSE]]
    BY <1>16 DEF ReconcileFind
  <2>2. ASSUME NEW n, th' = [th EXCEPT ![t] = [@ EXCEPT !.pc = "rel_intent", !.back = "rec",
                                                       !.mark = 0, !.att = n, !.ierr = FALSE]]
        PROVE  th'[t].pc = "rel_intent"
    BY <1>1, <2>2 DEF Thread
  <2>3. ASSUME th' = [th EXCEPT ![t].pc = "rec_active", ![t].mark = 0]
        PROVE  th'[t].pc = "rec_active"
    BY <1>1, <2>3 DEF Thread
  <2>4. th'[t].pc = "rec_active" \/ th'[t].pc = "rel_intent"
    BY <2>1, <2>2, <2>3
  <2> QED BY <2>4
<1>17. CASE ReconcileRefresh(t)
  <2> DEFINE go == [th[t] EXCEPT !.pc = "rec_active", !.att = 0, !.back = "none",
                                 !.ver = IF th[t].claimed THEN run[Act(t)].version ELSE @]
  <2>1. \/ th' = [th EXCEPT ![t] = go]
        \/ \E k : th' = [th EXCEPT ![t] = Leave(t, k)]
    BY <1>17 DEF ReconcileRefresh
  <2>2. go.pc = "rec_active"
    BY <1>1 DEF Thread
  <2> HIDE DEF go
  <2> QED BY <1>1, <1>3, <2>1, <2>2
<1>18. CASE ReleaseResolved(t) \/ ReleaseResolve(t)
  BY <1>1, <1>4, <1>18 DEF ReleaseResolved, ReleaseResolve
<1>19. CASE ReleaseIntent(t) \/ ReleaseMark(t) \/ BarrierRetry(t)
  BY <1>1, <1>19 DEF ReleaseIntent, ReleaseMark, BarrierRetry, Goto, Thread
<1>20. CASE ReleaseFailed(t) \/ BarrierGiveUp(t)
  <2> DEFINE r == [Idle EXCEPT !.pc = "bg", !.act = Act(t), !.att = th[t].att, !.back = "bg"]
  <2>1. th' = [th EXCEPT ![t] = r] \/ th' = [th EXCEPT ![t] = Idle]
    BY <1>20 DEF ReleaseFailed, BarrierGiveUp
  <2>2. r.pc = "bg"
    BY DEF Idle
  <2> HIDE DEF r
  <2> QED BY <1>1, <1>4, <2>1, <2>2
<1> QED BY <1>5, <1>6, <1>7, <1>8, <1>9, <1>10, <1>11, <1>12, <1>13, <1>14, <1>15, <1>16,
           <1>17, <1>18, <1>19, <1>20 DEF Step

\* The state each write of a row sets.
LEMMA OutcomeState ==
    ASSUME NEW row \in Row, NEW s, NEW n
    PROVE  Outcome(row, s, n).state = s
  BY OutcomeStop

\* Only the recording of a sure verdict ends an action as succeeded.
LEMMA StepSucceeds ==
    ASSUME TypeInv, Control, NEW t \in Threads, Step(t), NEW b \in Actions,
           run'[b].state = "succeeded"
    PROVE  \/ run[b].state = "succeeded"
           \/ b = Act(t) /\ th[t].pc \in Closing /\ th[t].res \in Sure
<1> SUFFICES ASSUME run[b].state # "succeeded"
             PROVE  b = Act(t) /\ th[t].pc \in Closing /\ th[t].res \in Sure
  OBVIOUS
<1> DEFINE a == Act(t)
<1>1. run \in [Actions -> Row] /\ run[b] \in Row
  BY DEF TypeInv, TypeOK
<1>2. th[t] \in Thread /\ (th[t].pc # "idle" => a \in Actions)
  BY ThreadTyped DEF Act
<1>3. ASSUME NEW row, run' = [run EXCEPT ![a] = row], row.state # "succeeded"
      PROVE  FALSE
  BY <1>1, <1>3
<1>4. ASSUME run' = run PROVE FALSE
  BY <1>4
<1>5. StopState(a) # "succeeded"
  BY DEF StopState
<1>6. CASE HoldUnhandled(t)
  <2> DEFINE n == unresolvedEffectCount(a, FALSE)
  <2>1. a \in Actions
    BY <1>2, <1>6 DEF HoldUnhandled, At
  <2>2. run' = [run EXCEPT ![a] = Outcome(run[a], "needs_review", n)]
    BY <1>6 DEF HoldUnhandled
  <2> HIDE DEF n
  <2>3. Outcome(run[a], "needs_review", n).state = "needs_review"
    BY <1>1, <2>1, OutcomeState
  <2> QED BY <1>3, <2>2, <2>3
<1>7. CASE Wait(t)
  <2>1. run' = [run EXCEPT ![a] = WaitRow(a)] /\ a \in Actions
    BY <1>2, <1>7 DEF Wait, At
  <2>2. WaitRow(a).state # "succeeded"
    <3> DEFINE n == unresolvedEffectCount(a, FALSE)
    <3>1. \/ WaitRow(a) = Outcome(run[a], "needs_review", n)
          \/ WaitRow(a) = Outcome(run[a], "waiting_dependency", 0)
      BY DEF WaitRow
    <3> HIDE DEF n, a
    <3> QED BY <1>1, <2>1, <3>1, OutcomeState
  <2> QED BY <1>3, <2>1, <2>2
<1>8. CASE Claim(t)
  <2> DEFINE row == [run[a] EXCEPT !.state = "running", !.by = ExecOf(t), !.expired = FALSE,
                                   !.version = run[a].version + 1]
  <2>1. run' = [run EXCEPT ![a] = row] \/ run' = run
    BY <1>8 DEF Claim
  <2>2. a \in Actions
    BY <1>2, <1>8 DEF Claim, At
  <2>3. row.state = "running"
    BY <1>1, <2>2 DEF Row
  <2> HIDE DEF row
  <2> QED BY <1>3, <1>4, <2>1, <2>3
<1>9. CASE Reserve(t)
  <2> DEFINE row == [run[a] EXCEPT !.reserved = TRUE]
  <2>1. run' = [run EXCEPT ![a] = row] /\ a \in Actions
    BY <1>2, <1>9 DEF Reserve, At
  <2>2. row.state = run[a].state
    BY <1>1, <2>1 DEF Row
  <2> HIDE DEF row
  <2> QED BY <1>1, <2>1, <2>2
<1>10. CASE FinalOwned(t)
  <2> DEFINE s == OwnedTarget(t)
             n == OwnedUnresolved(t, s)
             r == IF th[t].res = "safe" THEN Outcome(run[a], "reconciling", 0) ELSE run[a]
  <2>1. run' = [run EXCEPT ![a] = Outcome(r, s, n)]
    BY <1>10 DEF FinalOwned
  <2>2. a \in Actions /\ th[t].pc = "final"
    BY <1>2, <1>10 DEF FinalOwned, At
  <2>3. Outcome(r, s, n).state = s
    BY DEF Outcome
  <2>4. s = "succeeded" => th[t].res \in Sure
    BY <1>5 DEF OwnedTarget, Sure
  <2> HIDE DEF r, s, n
  <2>5. s = "succeeded"
    BY <1>3, <2>1, <2>3
  <2>6. b = a
    BY <1>1, <2>1
  <2> QED BY <2>2, <2>4, <2>5, <2>6
<1>11. CASE FinalFree(t)
  <2> DEFINE s == FreeTarget(t)
             n == unresolvedEffectCount(a, s = "reconciling")
  <2>1. run' = [run EXCEPT ![a] = Outcome(run[a], s, n)] \/ run' = run
    BY <1>11 DEF FinalFree
  <2>2. a \in Actions
    BY <1>2, <1>11 DEF FinalFree, At
  <2>3. s # "succeeded"
    BY <1>5 DEF FreeTarget
  <2> HIDE DEF s, n
  <2>4. Outcome(run[a], s, n).state = s
    BY <1>1, <2>2, OutcomeState
  <2> QED BY <1>3, <1>4, <2>1, <2>3, <2>4
<1>12. CASE DeferActiveDispatch(t)
  <2> DEFINE n == unresolvedEffectCount(a, TRUE)
  <2>1. run' = [run EXCEPT ![a] = Outcome(run[a], "reconciling", n)] \/ run' = run
    BY <1>12 DEF DeferActiveDispatch
  <2>2. a \in Actions
    BY <1>2, <1>12 DEF DeferActiveDispatch, At
  <2> HIDE DEF n
  <2>3. Outcome(run[a], "reconciling", n).state = "reconciling"
    BY <1>1, <2>2, OutcomeState
  <2> QED BY <1>3, <1>4, <2>1, <2>3
<1>13. CASE ReleaseMark(t)
  <2>1. overdue' = overdue /\ run' = [run EXCEPT ![a] = MarkedRow(t)] /\ a \in Actions
    BY <1>2, <1>13 DEF ReleaseMark, At
  <2> DEFINE hold == run[a].state = "running" /\ PreserveClaim(t) /\ ~run[a].cancel
             s == IF run[a].state = "running" /\ ~hold THEN "reconciling" ELSE run[a].state
             n == unresolvedEffectCount(a, TRUE)
             m == th[t].att
             by == IF hold THEN run[a].by ELSE None
             e == hold /\ run[a].expired
             out == Outcome(run[a], s, n)
  <2>2. \/ MarkedRow(t) = run[a]
        \/ MarkedRow(t) = [out EXCEPT !.marker = m, !.by = by, !.expired = e]
    BY DEF MarkedRow
  <2>3. s = run[a].state \/ s = "reconciling"
    OBVIOUS
  <2> HIDE DEF s, n, m, by, e
  <2>4. out.state = s
    BY <1>1, <2>1, OutcomeState
  <2>5. [out EXCEPT !.marker = m, !.by = by, !.expired = e].state = s
    <3>1. "state" \in DOMAIN out
      BY <1>1, <2>1 DEF Outcome, Row
    <3> HIDE DEF out
    <3> QED BY <2>4, <3>1
  <2> HIDE DEF out
  <2>6. MarkedRow(t).state = run[a].state \/ MarkedRow(t).state = "reconciling"
    BY <2>2, <2>3, <2>5
  <2> QED BY <1>1, <2>1, <2>6
<1>14. CASE \/ AcquireReservations(t) \/ ReserveRefused(t) \/ Finish(t) \/ ObserveBegin(t)
            \/ ObserveReturn(t) \/ PrepareDispatch(t) \/ BeforeDispatch(t)
            \/ BeforeDispatchCancelled(t) \/ DispatchSend(t) \/ DispatchReturn(t)
            \/ CloseAttempt(t) \/ RecordEffects(t) \/ EffectsRefused(t) \/ FinalNotStopped(t)
  BY <1>4, <1>14 DEF AcquireReservations, ReserveRefused, Finish, ObserveBegin, ObserveReturn,
     PrepareDispatch, BeforeDispatch, BeforeDispatchCancelled, DispatchSend, DispatchReturn,
     CloseAttempt, RecordEffects, EffectsRefused, FinalNotStopped
<1>15. CASE \/ ReconcileFind(t) \/ ReconcileRefresh(t) \/ ReconcileActive(t)
            \/ ReconcileReuse(t) \/ ReconcileBegin(t) \/ ReconcileReturn(t)
            \/ ReleaseResolved(t) \/ ReleaseIntent(t) \/ ReleaseResolve(t) \/ ReleaseFailed(t)
            \/ BarrierRetry(t) \/ BarrierGiveUp(t) \/ FenceLost(t) \/ JournalFails(t)
            \/ JournalFull(t)
  BY <1>4, <1>15 DEF ReconcileFind, ReconcileRefresh, ReconcileActive, ReconcileReuse,
     ReconcileBegin, ReconcileReturn, ReleaseResolved, ReleaseIntent, ReleaseResolve,
     ReleaseFailed, BarrierRetry, BarrierGiveUp, FenceLost, JournalFails, JournalFull
<1> QED BY <1>6, <1>7, <1>8, <1>9, <1>10, <1>11, <1>12, <1>13, <1>14, <1>15 DEF Step

\* Nothing the actions wanted is undone upstream.
StillDesired(a) == world'[a].applied > 0 \/ world'[a].foreign

DesiredStays == \A a \in Actions : Desired(a) => StillDesired(a)

LEMMA StepDesired ==
    ASSUME TypeInv, NEW t \in Threads, Step(t)
    PROVE  DesiredStays
<1>1. CASE DispatchSend(t)
  <2> DEFINE a == Act(t)
             w == [world[a] EXCEPT !.inflight = world[a].inflight + 1]
  <2>1. world' = [world EXCEPT ![a] = w]
    BY <1>1 DEF DispatchSend
  <2>2. a \in Actions
    BY <1>1, ThreadTyped DEF DispatchSend, At, Act
  <2>3. w.applied = world[a].applied /\ w.foreign = world[a].foreign
    BY <2>2, WorldTyped
  <2> HIDE DEF w, a
  <2>4. \A b \in Actions : world'[b] = IF b = a THEN w ELSE world[b]
    BY <2>1, WorldTyped
  <2> QED BY <2>3, <2>4 DEF DesiredStays, Desired, StillDesired
<1>2. CASE world' = world
  BY <1>2 DEF DesiredStays, Desired, StillDesired
<1>3. CASE \/ HoldUnhandled(t) \/ Claim(t) \/ AcquireReservations(t) \/ Reserve(t)
           \/ ReserveRefused(t) \/ Wait(t) \/ Finish(t) \/ ObserveBegin(t)
           \/ ObserveReturn(t) \/ PrepareDispatch(t) \/ BeforeDispatch(t)
           \/ BeforeDispatchCancelled(t) \/ DispatchReturn(t) \/ CloseAttempt(t)
           \/ RecordEffects(t) \/ EffectsRefused(t) \/ FinalOwned(t) \/ FinalNotStopped(t)
           \/ FinalFree(t)
  BY <1>2, <1>3 DEF HoldUnhandled, Claim, AcquireReservations, Reserve, ReserveRefused, Wait,
     Finish, ObserveBegin, ObserveReturn, PrepareDispatch, BeforeDispatch,
     BeforeDispatchCancelled, DispatchReturn, CloseAttempt, RecordEffects, EffectsRefused,
     FinalOwned, FinalNotStopped, FinalFree
<1>4. CASE \/ ReconcileFind(t) \/ ReconcileRefresh(t) \/ ReconcileActive(t)
           \/ DeferActiveDispatch(t) \/ ReconcileReuse(t) \/ ReconcileBegin(t)
           \/ ReconcileReturn(t) \/ ReleaseResolved(t) \/ ReleaseIntent(t) \/ ReleaseMark(t)
           \/ ReleaseResolve(t) \/ ReleaseFailed(t) \/ BarrierRetry(t) \/ BarrierGiveUp(t)
           \/ FenceLost(t) \/ JournalFails(t) \/ JournalFull(t)
  BY <1>2, <1>4 DEF ReconcileFind, ReconcileRefresh, ReconcileActive, DeferActiveDispatch,
     ReconcileReuse, ReconcileBegin, ReconcileReturn, ReleaseResolved, ReleaseIntent,
     ReleaseMark, ReleaseResolve, ReleaseFailed, BarrierRetry, BarrierGiveUp, FenceLost,
     JournalFails, JournalFull
<1> QED BY <1>1, <1>3, <1>4 DEF Step

LEMMA CallerDesired ==
    ASSUME TypeInv, NEW a \in Actions,
           \/ RequestCancellation(a) \/ CancelLinked(a) \/ DeadlinePasses(a)
           \/ LeaseExpires(a) \/ Land(a) \/ Drop(a) \/ Establish(a)
    PROVE  DesiredStays
<1>1. ASSUME NEW w, world' = [world EXCEPT ![a] = w],
             world[a].applied > 0 => w.applied > 0, world[a].foreign => w.foreign
      PROVE  DesiredStays
  <2>1. \A b \in Actions : world'[b] = IF b = a THEN w ELSE world[b]
    BY <1>1, WorldTyped
  <2> QED BY <1>1, <2>1 DEF DesiredStays, Desired, StillDesired
<1>2. CASE world' = world
  BY <1>2 DEF DesiredStays, Desired, StillDesired
<1>3. CASE Land(a)
  <2> DEFINE w == [world[a] EXCEPT !.inflight = world[a].inflight - 1,
                                   !.applied = world[a].applied + 1]
  <2>1. world' = [world EXCEPT ![a] = w]
    BY <1>3 DEF Land
  <2>2. w.applied = world[a].applied + 1 /\ w.foreign = world[a].foreign
    BY WorldTyped
  <2>3. world[a].applied \in Nat
    BY WorldTyped
  <2> HIDE DEF w
  <2>4. world[a].applied > 0 => w.applied > 0
    BY <2>2, <2>3
  <2>5. world[a].foreign => w.foreign
    BY <2>2
  <2> QED BY <1>1, <2>1, <2>4, <2>5
<1>4. CASE Drop(a)
  <2> DEFINE w == [world[a] EXCEPT !.inflight = world[a].inflight - 1]
  <2>1. world' = [world EXCEPT ![a] = w]
    BY <1>4 DEF Drop
  <2>2. w.applied = world[a].applied /\ w.foreign = world[a].foreign
    BY WorldTyped
  <2> HIDE DEF w
  <2> QED BY <1>1, <2>1, <2>2
<1>5. CASE Establish(a)
  <2> DEFINE w == [world[a] EXCEPT !.foreign = TRUE]
  <2>1. world' = [world EXCEPT ![a] = w]
    BY <1>5 DEF Establish
  <2>2. w.applied = world[a].applied /\ w.foreign = TRUE
    BY WorldTyped
  <2> HIDE DEF w
  <2> QED BY <1>1, <2>1, <2>2
<1>6. CASE RequestCancellation(a) \/ CancelLinked(a) \/ DeadlinePasses(a) \/ LeaseExpires(a)
  BY <1>2, <1>6 DEF RequestCancellation, CancelLinked, DeadlinePasses, LeaseExpires
<1> QED BY <1>3, <1>4, <1>5, <1>6

\* Callers and the clock end no action.
LEMMA CallerSucceeds ==
    ASSUME TypeInv, NEW a \in Actions, NEW b \in Actions,
           \/ RequestCancellation(a) \/ CancelLinked(a) \/ DeadlinePasses(a)
           \/ LeaseExpires(a) \/ Land(a) \/ Drop(a) \/ Establish(a)
    PROVE  Unsucceeded(b)
<1>1. run \in [Actions -> Row]
  BY DEF TypeInv, TypeOK
<1>2. ASSUME NEW row, run' = [run EXCEPT ![a] = row], row.state = run[a].state
      PROVE  Unsucceeded(b)
  BY <1>1, <1>2 DEF Unsucceeded
<1>3. CASE RequestCancellation(a)
  <2> DEFINE row == [run[a] EXCEPT !.cancel = TRUE, !.version = run[a].version + 1]
  <2>1. run' = [run EXCEPT ![a] = row]
    BY <1>3 DEF RequestCancellation
  <2>2. row.state = run[a].state
    BY <1>1 DEF Row
  <2> HIDE DEF row
  <2> QED BY <1>2, <2>1, <2>2
<1>4. CASE CancelLinked(a)
  <2> DEFINE row == [run[a] EXCEPT !.cancel = TRUE]
  <2>1. run' = [run EXCEPT ![a] = row]
    BY <1>4 DEF CancelLinked
  <2>2. row.state = run[a].state
    BY <1>1 DEF Row
  <2> HIDE DEF row
  <2> QED BY <1>2, <2>1, <2>2
<1>5. CASE LeaseExpires(a)
  <2> DEFINE row == [run[a] EXCEPT !.expired = TRUE]
  <2>1. run' = [run EXCEPT ![a] = row]
    BY <1>5 DEF LeaseExpires
  <2>2. row.state = run[a].state
    BY <1>1 DEF Row
  <2> HIDE DEF row
  <2> QED BY <1>2, <2>1, <2>2
<1>6. CASE DeadlinePasses(a) \/ Land(a) \/ Drop(a) \/ Establish(a)
  BY <1>6 DEF DeadlinePasses, Land, Drop, Establish, Unsucceeded
<1> QED BY <1>3, <1>4, <1>5, <1>6

LEMMA ProcessDesired ==
    ASSUME Crash \/ Recover \/ RecoverExpired \/ FinalizeCancelled \/ FinalizeDeadline
    PROVE  DesiredStays
  BY DEF Crash, Recover, RecoverExpired, FinalizeCancelled, FinalizeDeadline, DesiredStays,
         Desired, StillDesired

\* Proved carries every success: together they are inductive.
LEMMA StepSuccess ==
    ASSUME TypeInv, Control, Proved, SucceededIsApplied, NEW t \in Threads, Step(t)
    PROVE  Proved' /\ SucceededIsApplied'
<1>1. DesiredStays
  BY StepDesired
<1>2. PICK r : th' = [th EXCEPT ![t] = r]
  BY StepProceeds DEF Control
<1>3. \A u \in Threads \ {t} : th'[u] = th[u]
  BY <1>2 DEF TypeInv, TypeOK
<1>4. ASSUME NEW u \in Threads, th'[u].pc \in Closing, th'[u].res \in Sure
      PROVE  StillDesired(th'[u].act)
  <2>1. CASE u = t
    BY <1>1, <1>4, <2>1, StepProved DEF DesiredStays
  <2>2. CASE u # t
    <3>1. th[u].pc \in Closing /\ th[u].res \in Sure /\ th'[u].act = th[u].act
      BY <1>3, <1>4, <2>2
    <3>2. Desired(th[u].act) /\ th[u].act \in Actions
      BY <3>1, ThreadTyped DEF Proved, Act
    <3> QED BY <1>1, <3>1, <3>2 DEF DesiredStays
  <2> QED BY <2>1, <2>2
<1>5. ASSUME NEW b \in Actions, run'[b].state = "succeeded"
      PROVE  StillDesired(b)
  <2>1. CASE run[b].state = "succeeded"
    BY <1>1, <2>1 DEF SucceededIsApplied, DesiredStays
  <2>2. CASE b = Act(t) /\ th[t].pc \in Closing /\ th[t].res \in Sure
    BY <1>1, <2>2 DEF Proved, DesiredStays
  <2> QED BY <1>5, <2>1, <2>2, StepSucceeds
<1> QED BY <1>4, <1>5 DEF Proved, SucceededIsApplied, Act, Desired, StillDesired

LEMMA QuietSuccess ==
    ASSUME TypeInv, Proved, SucceededIsApplied, DesiredStays,
           th' = th \/ th' = [t \in Threads |-> Idle], \A a \in Actions : Unsucceeded(a)
    PROVE  Proved' /\ SucceededIsApplied'
<1>1. ASSUME NEW u \in Threads, th'[u].pc \in Closing, th'[u].res \in Sure
      PROVE  StillDesired(th'[u].act)
  <2>1. th'[u] = th[u]
    BY <1>1 DEF Idle
  <2>2. Desired(th[u].act) /\ th[u].act \in Actions
    BY <1>1, <2>1, ThreadTyped DEF Proved, Act
  <2> QED BY <2>1, <2>2 DEF DesiredStays
<1>2. ASSUME NEW b \in Actions, run'[b].state = "succeeded"
      PROVE  StillDesired(b)
  BY <1>2 DEF Unsucceeded, SucceededIsApplied, DesiredStays
<1> QED BY <1>1, <1>2 DEF Proved, SucceededIsApplied, Act, Desired, StillDesired

LEMMA PickSuccess ==
    ASSUME TypeInv, Proved, SucceededIsApplied, NEW t \in Threads, NEW a \in Actions,
           Pick(t, a) \/ PickById(t, a)
    PROVE  Proved' /\ SucceededIsApplied'
<1>1. UNCHANGED <<run, world>>
  BY DEF Pick, PickById
<1>2. PICK r : th' = [th EXCEPT ![t] = r] /\ r.pc \notin Closing
  <2>1. CASE Pick(t, a)
    <3> DEFINE free == run[a].state = "reconciling" /\ Stopped(a)
               p == IF free THEN "rec_find" ELSE "claim"
               q == IF free THEN "reconcile" ELSE "none"
               r == [Idle EXCEPT !.pc = p, !.act = a, !.ver = run[a].version,
                                 !.from = run[a].state, !.mark = run[a].marker,
                                 !.phase = q, !.keep = free]
    <3>1. th' = [th EXCEPT ![t] = r]
      BY <2>1 DEF Pick
    <3>2. free \in BOOLEAN
      OBVIOUS
    <3> HIDE DEF free
    <3>3. r.pc = p
      BY DEF Idle
    <3> HIDE DEF r
    <3> QED BY <3>1, <3>3
  <2>2. CASE PickById(t, a)
    <3> DEFINE r == [Idle EXCEPT !.pc = "claim", !.act = a, !.ver = run[a].version]
    <3>1. th' = [th EXCEPT ![t] = r]
      BY <2>2 DEF PickById
    <3>2. r.pc = "claim"
      BY DEF Idle
    <3> HIDE DEF r
    <3> QED BY <3>1, <3>2
  <2> QED BY <2>1, <2>2
<1>3. \A u \in Threads : th'[u] = IF u = t THEN r ELSE th[u]
  BY <1>2 DEF TypeInv, TypeOK
<1>4. ASSUME NEW u \in Threads, th'[u].pc \in Closing, th'[u].res \in Sure
      PROVE  StillDesired(th'[u].act)
  <2>1. th'[u] = th[u]
    BY <1>2, <1>3, <1>4
  <2> QED BY <1>1, <1>4, <2>1 DEF Proved, Act, Desired, StillDesired
<1> QED BY <1>1, <1>4 DEF Proved, SucceededIsApplied, Act, Desired, StillDesired

\* An action that is recorded as succeeded has its desired state upstream,
\* whatever crashes, lost claims, stale passes and lost answers came before:
\* no other state is ever overwritten by a success (SucceededIsApplied).
THEOREM SuccessIsTrue == Spec => []SucceededIsApplied
<1> DEFINE Inv == IInv /\ Control
<1>1. Init => Proved /\ SucceededIsApplied
  <2> SUFFICES ASSUME Init PROVE Proved /\ SucceededIsApplied
    OBVIOUS
  <2>1. \A t \in Threads : th[t].pc = "idle"
    BY DEF Init, Idle
  <2>2. \A a \in Actions : run[a].state = "queued"
    BY DEF Init
  <2> QED BY <2>1, <2>2 DEF Proved, SucceededIsApplied
<1>2. Inv /\ Proved /\ SucceededIsApplied /\ [Next]_vars => Proved' /\ SucceededIsApplied'
  <2> SUFFICES ASSUME Inv, Proved, SucceededIsApplied, [Next]_vars
               PROVE  Proved' /\ SucceededIsApplied'
    OBVIOUS
  <2>1. TypeInv /\ Control /\ ClaimedIffRunning
    BY DEF IInv
  <2>2. CASE UNCHANGED vars
    BY <2>2 DEF vars, Proved, SucceededIsApplied, Act, Desired
  <2>3. CASE Crash \/ Recover \/ RecoverExpired \/ FinalizeCancelled \/ FinalizeDeadline
    BY <2>1, <2>3, ProcessMoves, ProcessDesired, ProcessThreads, QuietSuccess
  <2>4. ASSUME NEW a \in Actions,
               \/ RequestCancellation(a) \/ CancelLinked(a) \/ DeadlinePasses(a)
               \/ LeaseExpires(a) \/ Land(a) \/ Drop(a) \/ Establish(a)
        PROVE  Proved' /\ SucceededIsApplied'
    BY <2>1, <2>4, CallerDesired, CallerMoves, CallerSucceeds, QuietSuccess
  <2>5. ASSUME NEW t \in Threads, Step(t) PROVE Proved' /\ SucceededIsApplied'
    BY <2>1, <2>5, StepSuccess
  <2>6. ASSUME NEW t \in Threads, NEW a \in Actions, Pick(t, a) \/ PickById(t, a)
        PROVE  Proved' /\ SucceededIsApplied'
    BY <2>1, <2>6, PickSuccess
  <2> QED BY <2>2, <2>3, <2>4, <2>5, <2>6 DEF Next, Environment
<1>3. Spec => []Inv
  BY AlwaysControl
<1> QED BY <1>1, <1>2, <1>3, PTL DEF Spec
=============================================================================
