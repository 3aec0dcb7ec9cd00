------------------------ MODULE ExecutorCountProofs ------------------------
(***************************************************************************)
(* The count of unresolved effects, for every set of actions, one goroutine *)
(* and every value of the bounds: if no two actions conflict and no         *)
(* reservation transaction fails, a terminal or held action counts its      *)
(* unknown effect.                                                          *)
(*                                                                         *)
(* Flow says how a pass goes on, and Counting what a pass knows of the      *)
(* effect of its action until its verdict.  One lemma for each part of a    *)
(* pass shows that it keeps count, and StepCounted that the rows do.        *)
(***************************************************************************)
EXTENDS ExecutorBarrierProofs

USE DEF Outside, Entering, Observing, Sending, Closing, Releasing, Reconciling

-----------------------------------------------------------------------------
(* How a pass goes on *)

\* h goes on as r in the same pass, and not where a verdict is recorded.
SamePass(h, r) ==
    /\ r.claimed = h.claimed /\ r.act = h.act /\ r.phase = h.phase /\ r.from = h.from
    /\ r.pc \notin {"effects", "final", "wait", "rel_resolve"}
    /\ h.claimed => h.phase # "none"
    /\ h.phase = "dispatch" /\ r.pc \in LivePoint \cup {"close"} => h.pc \in LivePoint
    /\ h.claimed => r.ver = h.ver \/ run[h.act].version <= h.ver + 1

\* The pass is over.
Ended(r) == ~r.claimed /\ r.phase = "none" /\ r.pc # "rel_resolve"

Flow(h, r) == Ended(r) \/ SamePass(h, r)

\* The steps that take a pass further, one lemma each.
Advances(t) ==
    \/ Claim(t) \/ AcquireReservations(t) \/ Reserve(t) \/ ReserveRefused(t)
    \/ PrepareDispatch(t) \/ CloseAttempt(t) \/ RecordEffects(t) \/ ReleaseMark(t)

LEMMA SameFlow ==
    ASSUME NEW h, NEW r, r.claimed = h.claimed, r.act = h.act, r.phase = h.phase,
           r.from = h.from, r.ver = h.ver,
           r.pc \notin {"effects", "final", "wait", "rel_resolve"},
           h.claimed => h.phase # "none",
           h.phase = "dispatch" /\ r.pc \in LivePoint \cup {"close"} => h.pc \in LivePoint
    PROVE  Flow(h, r)
  BY DEF Flow, SamePass

LEMMA LeaveFlow ==
    ASSUME TypeInv, NEW t \in Threads, NEW keep
    PROVE  /\ Flow(th[t], Leave(t, keep)) /\ Ended(Idle)
           /\ Ended(Finishing(t, keep))
<1>1. th[t] \in Thread
  BY ThreadTyped
<1>2. Ended(Idle)
  BY DEF Ended, Idle
<1>3. Ended(Finishing(t, keep))
  BY DEF Ended, Finishing, Idle
<1>4. PICK r : r = [th[t] EXCEPT !.pc = "rel_intent", !.back = "finish", !.keep = keep,
                                 !.ierr = FALSE, !.res = "none"]
  OBVIOUS
<1>5. /\ r.pc = "rel_intent" /\ r.claimed = th[t].claimed /\ r.phase = th[t].phase
      /\ r.act = th[t].act /\ r.ver = th[t].ver /\ r.from = th[t].from
  BY <1>1, <1>4 DEF Thread
<1>6. th[t].phase # "none" => Flow(th[t], r)
  BY <1>5, SameFlow DEF LivePoint
<1> QED BY <1>2, <1>3, <1>4, <1>6 DEF Leave, Flow

LEMMA StepFlow ==
    ASSUME TypeInv, Control, NEW t \in Threads, Step(t), ~Advances(t)
    PROVE  Flow(th[t], th'[t])
<1>1. th \in [Threads -> Thread] /\ th[t] \in Thread /\ Controlled(th[t])
  BY ThreadTyped DEF TypeInv, TypeOK, Control
<1>2. ASSUME NEW r, th' = [th EXCEPT ![t] = r], Flow(th[t], r) PROVE Flow(th[t], th'[t])
  <2>1. th'[t] = r
    BY <1>1, <1>2
  <2> QED BY <1>2, <2>1
<1>3. ASSUME NEW k, th' = [th EXCEPT ![t] = Leave(t, k)] PROVE Flow(th[t], th'[t])
  BY <1>2, <1>3, LeaveFlow
<1>4. ASSUME th' = [th EXCEPT ![t] = Idle] PROVE Flow(th[t], th'[t])
  BY <1>2, <1>4, LeaveFlow DEF Flow
<1>5. ASSUME NEW r, th' = [th EXCEPT ![t] = r],
             /\ r.claimed = th[t].claimed /\ r.act = th[t].act /\ r.phase = th[t].phase
             /\ r.from = th[t].from /\ r.ver = th[t].ver,
             r.pc \notin {"effects", "final", "wait", "rel_resolve"},
             th[t].claimed => th[t].phase # "none",
             th[t].phase = "dispatch" /\ r.pc \in LivePoint \cup {"close"} => th[t].pc \in LivePoint
      PROVE  Flow(th[t], th'[t])
  BY <1>2, <1>5, SameFlow
<1>6. CASE \/ HoldUnhandled(t) \/ Finish(t) \/ BarrierGiveUp(t)
  BY <1>4, <1>6 DEF HoldUnhandled, Finish, BarrierGiveUp
<1>7. CASE \/ Wait(t) \/ FinalOwned(t) \/ FinalNotStopped(t) \/ FinalFree(t)
           \/ DeferActiveDispatch(t) \/ FenceLost(t) \/ JournalFull(t)
  <2>1. \E k : th' = [th EXCEPT ![t] = Leave(t, k)]
    BY <1>7 DEF Wait, FinalOwned, FinalNotStopped, FinalFree, DeferActiveDispatch, FenceLost,
       JournalFull
  <2> QED BY <1>3, <2>1
<1>8. ASSUME NEW p, th[t].pc # "idle", th' = [th EXCEPT ![t] = [th[t] EXCEPT !.pc = p]],
             p \notin {"effects", "final", "wait", "rel_resolve"},
             th[t].claimed => th[t].phase # "none",
             th[t].phase = "dispatch" /\ p \in LivePoint \cup {"close"} => th[t].pc \in LivePoint
      PROVE  Flow(th[t], th'[t])
  <2>1. PICK r : r = [th[t] EXCEPT !.pc = p]
    OBVIOUS
  <2>2. /\ r.claimed = th[t].claimed /\ r.act = th[t].act /\ r.phase = th[t].phase
        /\ r.from = th[t].from /\ r.ver = th[t].ver /\ r.pc = p
    BY <1>1, <2>1 DEF Thread
  <2> QED BY <1>5, <1>8, <2>1, <2>2
<1>9. ASSUME NEW n, NEW p, p \in {"observe", "reconcile"},
             th' = [th EXCEPT ![t] = [th[t] EXCEPT !.pc = p, !.att = n]],
             th[t].phase # "none"
      PROVE  Flow(th[t], th'[t])
  <2>1. PICK r : r = [th[t] EXCEPT !.pc = p, !.att = n]
    OBVIOUS
  <2>2. /\ r.claimed = th[t].claimed /\ r.act = th[t].act /\ r.phase = th[t].phase
        /\ r.from = th[t].from /\ r.ver = th[t].ver /\ r.pc = p
    BY <1>1, <2>1 DEF Thread
  <2> QED BY <1>5, <1>9, <2>1, <2>2 DEF LivePoint
<1>10. CASE ObserveBegin(t)
  <2>1. th[t].phase = "observe"
    BY <1>1, <1>10 DEF ObserveBegin, At, Controlled
  <2>2. th' = [th EXCEPT ![t] = [th[t] EXCEPT !.pc = "observe", !.att = Len(attempts[Act(t)]) + 1]]
    BY <1>1, <1>10 DEF ObserveBegin, Thread
  <2> QED BY <1>9, <2>1, <2>2
<1>11. CASE ReconcileReuse(t) \/ ReconcileBegin(t)
  <2>1. th[t].phase = "reconcile"
    BY <1>1, <1>11 DEF ReconcileReuse, ReconcileBegin, At, Controlled
  <2>2. \E n : th' = [th EXCEPT ![t] = [th[t] EXCEPT !.pc = "reconcile", !.att = n]]
    BY <1>1, <1>11 DEF ReconcileReuse, ReconcileBegin, Thread
  <2> QED BY <1>9, <2>1, <2>2
<1>12. CASE ReconcileActive(t)
  <2>1. th[t].phase = "reconcile" /\ th[t].pc = "rec_active"
    BY <1>1, <1>12 DEF ReconcileActive, At, Controlled
  <2>2. \E p \in {"defer", "rec_att"} : th' = [th EXCEPT ![t] = [th[t] EXCEPT !.pc = p]]
    BY <1>12 DEF ReconcileActive, Goto
  <2> QED BY <1>8, <2>1, <2>2 DEF LivePoint
<1>13. CASE BarrierRetry(t) \/ (ReleaseIntent(t) /\ Goto(t, "rel_mark"))
  <2>1. th[t].pc # "idle" /\ (th[t].claimed => th[t].phase # "none")
    BY <1>1, <1>13 DEF BarrierRetry, ReleaseIntent, At, Controlled
  <2>2. \E p \in {"rel_intent", "rel_mark"} : th' = [th EXCEPT ![t] = [th[t] EXCEPT !.pc = p]]
    BY <1>13 DEF BarrierRetry, Goto
  <2> QED BY <1>8, <2>1, <2>2 DEF LivePoint
<1>14. CASE ReleaseIntent(t) /\ ~Goto(t, "rel_mark")
  <2>1. th[t].claimed => th[t].phase # "none"
    BY <1>1, <1>14 DEF ReleaseIntent, At, Controlled
  <2>2. PICK r : r = [th[t] EXCEPT !.pc = "rel_mark", !.ierr = TRUE]
    OBVIOUS
  <2>3. /\ r.claimed = th[t].claimed /\ r.act = th[t].act /\ r.phase = th[t].phase
        /\ r.from = th[t].from /\ r.ver = th[t].ver /\ r.pc = "rel_mark"
    BY <1>1, <2>2 DEF Thread
  <2>4. th' = [th EXCEPT ![t] = r]
    BY <1>1, <1>14, <2>2 DEF ReleaseIntent, Thread
  <2> QED BY <1>5, <2>1, <2>3, <2>4 DEF LivePoint
<1>15. ASSUME NEW v, NEW s, th[t].phase # "none",
              th[t].phase = "dispatch" => th[t].pc \in LivePoint,
              th' = [th EXCEPT ![t] = [th[t] EXCEPT !.pc = "close", !.res = v, !.sent = s]]
       PROVE  Flow(th[t], th'[t])
  <2>1. PICK r : r = [th[t] EXCEPT !.pc = "close", !.res = v, !.sent = s]
    OBVIOUS
  <2>2. /\ r.claimed = th[t].claimed /\ r.act = th[t].act /\ r.phase = th[t].phase
        /\ r.from = th[t].from /\ r.ver = th[t].ver /\ r.pc = "close"
    BY <1>1, <2>1 DEF Thread
  <2> QED BY <1>5, <1>15, <2>1, <2>2
<1>16. ASSUME NEW v, th[t].phase # "none",
              th[t].phase = "dispatch" => th[t].pc \in LivePoint,
              th' = [th EXCEPT ![t] = [th[t] EXCEPT !.pc = "close", !.res = v]]
       PROVE  Flow(th[t], th'[t])
  <2>1. [th[t] EXCEPT !.pc = "close", !.res = v]
           = [th[t] EXCEPT !.pc = "close", !.res = v, !.sent = th[t].sent]
    BY <1>1 DEF Thread
  <2> QED BY <1>15, <1>16, <2>1
<1>17. CASE ObserveReturn(t)
  <2>1. th[t].phase = "observe" /\ th[t].pc = "observe"
    BY <1>1, <1>17 DEF ObserveReturn, At, Controlled
  <2>2. \/ th' = [th EXCEPT ![t] = [th[t] EXCEPT !.pc = "prepare"]]
        \/ \E v : th' = [th EXCEPT ![t] = [th[t] EXCEPT !.pc = "close", !.res = v]]
    BY <1>17 DEF ObserveReturn
  <2>3. CASE th' = [th EXCEPT ![t] = [th[t] EXCEPT !.pc = "prepare"]]
    <3>1. PICK p : p = "prepare"
      OBVIOUS
    <3>2. /\ th' = [th EXCEPT ![t] = [th[t] EXCEPT !.pc = p]]
          /\ p \notin {"effects", "final", "wait", "rel_resolve"}
          /\ th[t].pc # "idle" /\ th[t].phase # "none" /\ th[t].phase # "dispatch"
      BY <2>1, <2>3, <3>1
    <3> QED BY <1>8, <3>2
  <2>4. CASE \E v : th' = [th EXCEPT ![t] = [th[t] EXCEPT !.pc = "close", !.res = v]]
    BY <1>16, <2>1, <2>4
  <2> QED BY <2>2, <2>3, <2>4
<1>18. CASE DispatchReturn(t)
  <2>1. th[t].phase = "dispatch" /\ th[t].pc \in LivePoint
    BY <1>1, <1>18 DEF DispatchReturn, At, Controlled, LivePoint
  <2>2. PICK v : th' = [th EXCEPT ![t] = [th[t] EXCEPT !.pc = "close", !.res = v, !.sent = FALSE]]
    BY <1>1, <1>18 DEF DispatchReturn, Thread
  <2> QED BY <1>15, <2>1, <2>2
<1>19. CASE BeforeDispatchCancelled(t) \/ ReconcileReturn(t)
  <2>1. /\ th[t].phase # "none" /\ (th[t].phase = "dispatch" => th[t].pc \in LivePoint)
    BY <1>1, <1>19 DEF BeforeDispatchCancelled, ReconcileReturn, At, Controlled, LivePoint
  <2>2. BeforeDispatchCancelled(t)
           => \E v : th' = [th EXCEPT ![t] = [th[t] EXCEPT !.pc = "close", !.res = v]]
    BY DEF BeforeDispatchCancelled
  <2>3. ReconcileReturn(t)
           => \E v : th' = [th EXCEPT ![t] = [th[t] EXCEPT !.pc = "close", !.res = v]]
    BY DEF ReconcileReturn
  <2> QED BY <1>16, <1>19, <2>1, <2>2, <2>3
<1>20. CASE BeforeDispatch(t)
  <2>1. th[t].phase = "dispatch" /\ th[t].pc = "before"
    BY <1>1, <1>20 DEF BeforeDispatch, At, Controlled
  <2>2. \/ th' = [th EXCEPT ![t] = [th[t] EXCEPT !.pc = "close", !.res = "stopped"]]
        \/ th' = [th EXCEPT ![t] = [th[t] EXCEPT !.pc = "dispatch"]]
        \/ th' = [th EXCEPT ![t] = Leave(t, FALSE)]
    BY <1>20 DEF BeforeDispatch
  <2>3. CASE th' = [th EXCEPT ![t] = [th[t] EXCEPT !.pc = "close", !.res = "stopped"]]
    BY <1>16, <2>1, <2>3 DEF LivePoint
  <2>4. CASE th' = [th EXCEPT ![t] = [th[t] EXCEPT !.pc = "dispatch"]]
    BY <1>8, <2>1, <2>4 DEF LivePoint
  <2> QED BY <1>3, <2>2, <2>3, <2>4
<1>21. CASE DispatchSend(t)
  <2>1. th[t].phase = "dispatch" /\ th[t].pc = "dispatch"
    BY <1>1, <1>21 DEF DispatchSend, At, Controlled
  <2>2. PICK r : r = [th[t] EXCEPT !.sent = TRUE]
    OBVIOUS
  <2>3. /\ r.claimed = th[t].claimed /\ r.act = th[t].act /\ r.phase = th[t].phase
        /\ r.from = th[t].from /\ r.ver = th[t].ver /\ r.pc = "dispatch"
    BY <1>1, <2>1, <2>2 DEF Thread
  <2>4. th' = [th EXCEPT ![t] = r]
    BY <1>21, <2>2 DEF DispatchSend
  <2> QED BY <1>5, <2>1, <2>3, <2>4 DEF LivePoint
<1>22. CASE EffectsRefused(t) \/ JournalFails(t)
  <2>1. \/ /\ th' = [th EXCEPT ![t] = [th[t] EXCEPT !.pc = "close", !.res = "review"]]
           /\ th[t].phase = "reconcile"
        \/ \E k : th' = [th EXCEPT ![t] = Leave(t, k)]
    BY <1>22 DEF EffectsRefused, JournalFails
  <2> QED BY <1>3, <1>16, <2>1
<1>23. CASE ReconcileFind(t)
  <2>1. th[t].phase = "reconcile"
    BY <1>1, <1>23 DEF ReconcileFind, At, Controlled
  <2>2. \/ th' = [th EXCEPT ![t] = [th[t] EXCEPT !.pc = "rec_active", !.mark = 0]]
        \/ \E n : th' = [th EXCEPT ![t] = [th[t] EXCEPT !.pc = "rel_intent", !.back = "rec",
                                                   !.mark = 0, !.att = n, !.ierr = FALSE]]
    BY <1>1, <1>23 DEF ReconcileFind, Thread
  <2>3. ASSUME NEW r, th' = [th EXCEPT ![t] = r],
               \/ r = [th[t] EXCEPT !.pc = "rec_active", !.mark = 0]
               \/ \E n : r = [th[t] EXCEPT !.pc = "rel_intent", !.back = "rec", !.mark = 0,
                                           !.att = n, !.ierr = FALSE]
        PROVE  Flow(th[t], th'[t])
    <3>1. /\ r.claimed = th[t].claimed /\ r.act = th[t].act /\ r.phase = th[t].phase
          /\ r.from = th[t].from /\ r.ver = th[t].ver /\ r.pc \in {"rec_active", "rel_intent"}
      BY <1>1, <2>3 DEF Thread
    <3> QED BY <1>5, <2>1, <2>3, <3>1
  <2> QED BY <2>2, <2>3
<1>24. CASE ReconcileRefresh(t)
  <2>1. PICK h : h = th[t]
    OBVIOUS
  <2>2. PICK row : row = run[h.act]
    OBVIOUS
  <2>3. PICK v : v = IF h.claimed THEN row.version ELSE h.ver
    OBVIOUS
  <2>4. PICK go : go = [h EXCEPT !.pc = "rec_active", !.att = 0, !.back = "none", !.ver = v]
    OBVIOUS
  <2>5. /\ go.pc = "rec_active" /\ go.act = h.act /\ go.claimed = h.claimed
        /\ go.phase = h.phase /\ go.ver = v /\ go.from = h.from
    BY <1>1, <2>1, <2>4 DEF Thread
  <2>6. \/ \E k : th' = [th EXCEPT ![t] = Leave(t, k)]
        \/ /\ th' = [th EXCEPT ![t] = go]
           /\ h.claimed => row.version = h.ver \/ row.version = h.ver + 1
    BY <1>24, <2>1, <2>2, <2>3, <2>4 DEF ReconcileRefresh, Act, AdvanceAfterOutcome
  <2>7. CASE th' = [th EXCEPT ![t] = go] /\ (h.claimed => row.version = h.ver \/ row.version = h.ver + 1)
    <3>1. h.ver \in Nat /\ h.phase = "reconcile"
      BY <1>1, <1>24, <2>1 DEF Thread, ReconcileRefresh, At, Controlled
    <3>2. h.claimed => row.version <= h.ver + 1
      BY <2>7, <3>1
    <3>3. Flow(h, go)
      BY <2>2, <2>5, <3>1, <3>2 DEF Flow, SamePass
    <3> QED BY <1>2, <2>1, <2>7, <3>3
  <2> QED BY <1>3, <2>6, <2>7
<1>25. CASE ReleaseResolved(t) \/ ReleaseResolve(t)
  <2>1. th' = [th EXCEPT ![t] = AfterRelease(t)] /\ (th[t].claimed => th[t].phase # "none")
    BY <1>1, <1>25 DEF ReleaseResolved, ReleaseResolve, At, Controlled
  <2>2. PICK r : r = [th[t] EXCEPT !.pc = "rec_refresh"]
    OBVIOUS
  <2>3. /\ r.claimed = th[t].claimed /\ r.act = th[t].act /\ r.phase = th[t].phase
        /\ r.from = th[t].from /\ r.ver = th[t].ver /\ r.pc = "rec_refresh"
    BY <1>1, <2>2 DEF Thread
  <2>4. Flow(th[t], r)
    BY <2>1, <2>3, SameFlow DEF LivePoint
  <2>5. AfterRelease(t) \in {r, Idle, Finishing(t, th[t].keep)}
    BY <2>2 DEF AfterRelease
  <2>6. Flow(th[t], AfterRelease(t))
    BY <2>4, <2>5, LeaveFlow DEF Flow
  <2> QED BY <1>2, <2>1, <2>6
<1>26. CASE ReleaseFailed(t)
  <2>1. PICK r : r = [Idle EXCEPT !.pc = "bg", !.act = Act(t), !.att = th[t].att, !.back = "bg"]
    OBVIOUS
  <2>2. r.pc = "bg" /\ ~r.claimed /\ r.phase = "none"
    BY <2>1 DEF Idle
  <2>3. th' = [th EXCEPT ![t] = r]
    BY <1>26, <2>1 DEF ReleaseFailed
  <2> QED BY <1>2, <2>2, <2>3 DEF Flow, Ended
<1> QED BY <1>6, <1>7, <1>10, <1>11, <1>12, <1>13, <1>14, <1>17, <1>18, <1>19, <1>20, <1>21,
           <1>22, <1>23, <1>24, <1>25, <1>26 DEF Step, Advances

-----------------------------------------------------------------------------
(* Unknown effects are counted *)

Unknown(a) == effect[a].state = "unknown"

\* Before effects nothing is unknown; a row that has ended or is held counts
\* what is; the effect of a running dispatch is pending, and whoever marked the
\* dispatch as returned has counted it.
Counted(a) ==
    /\ run[a].state \in Unstarted => Settled(a) /\ ~Unknown(a)
    /\ run[a].state \in Terminal \cup {"needs_review"} /\ Unknown(a) => run[a].unresolved = 1
    /\ effect[a].att \in ActiveDispatches(a) =>
          /\ effect[a].state = "pending"
          /\ run[a].marker = effect[a].att => run[a].unresolved = 1

\* Where the effect of an owned action is not unknown.
OwnerEffect(h) ==
    /\ Fresh(h) \/ h.phase = "observe" => ~Unknown(h.act)
    /\ /\ h.phase = "dispatch"
       /\ \/ h.pc \in LivePoint \cup {"close", "effects", "wait"}
          \/ h.pc = "final" /\ h.res # "uncertain"
       => ~Unknown(h.act)
    /\ h.phase = "reconcile" /\ h.pc = "final" /\ h.res = "safe" => ~Unknown(h.act)

\* The row a reconciliation was claimed from changes only by a cancellation
\* before its reservations are taken.
Unmoved(h) ==
    LET r == run[h.act] IN
    /\ h.pc # "wait"
    /\ r.version = h.ver \/ (r.version = h.ver + 1 /\ r.cancel)

Counting(h) ==
    /\ Free(h) => run[h.act].state = "reconciling"
    /\ Owning(h) => OwnerEffect(h) /\ (Again(h) => Unmoved(h))
    /\ h.pc = "rel_resolve" => run[h.act].marker = h.att

Counts ==
    /\ \A t \in Threads : Counting(th[t])
    /\ \A a \in Actions : Counted(a)

LEMMA CountingAt ==
    ASSUME NEW t \in Threads, NEW h, th'[t] = h, Counting(h)'
    PROVE  Counting(th[t])'
  BY DEF Counting, Free, Owning, OwnerEffect, Unmoved, Fresh, Again, Unknown

\* A goroutine whose pass is over counts nothing.
LEMMA EndedCounting ==
    ASSUME NEW t \in Threads, Ended(th'[t])
    PROVE  Counting(th[t])'
<1>1. PICK h : h = th'[t]
  OBVIOUS
<1>2. Counting(h)'
  BY <1>1 DEF Counting, Ended, Free, Owning
<1> QED BY <1>1, <1>2, CountingAt

-----------------------------------------------------------------------------
(* What the rows say of it *)

LEMMA OutcomeBooks ==
    ASSUME NEW row, {"state", "marker", "unresolved"} \subseteq DOMAIN row, NEW s, NEW n
    PROVE  /\ Outcome(row, s, n).state = s /\ Outcome(row, s, n).marker = 0
           /\ Outcome(row, s, n).unresolved = n
           /\ DOMAIN Outcome(row, s, n) = DOMAIN row
<1>1. PICK k : k = (row.reserved /\ s \in Retaining)
  OBVIOUS
<1>2. PICK v : v = row.version + 1
  OBVIOUS
<1>3. Outcome(row, s, n) = [row EXCEPT !.state = s, !.version = v, !.by = None, !.expired = FALSE,
                                       !.reserved = k, !.marker = 0, !.unresolved = n]
  BY <1>1, <1>2 DEF Outcome
<1> QED BY <1>3

\* An unknown effect is always counted, a pending one where it is asked for.
LEMMA Count ==
    ASSUME NEW a
    PROVE  /\ Unknown(a) => unresolvedEffectCount(a, TRUE) = 1 /\ unresolvedEffectCount(a, FALSE) = 1
           /\ effect[a].state = "pending" => unresolvedEffectCount(a, TRUE) = 1
  BY DEF Unknown, unresolvedEffectCount

\* The books of a row stay as they are.
SameBooks(b) ==
    /\ run'[b].marker = run[b].marker /\ run'[b].unresolved = run[b].unresolved
    /\ run'[b].state \in {run[b].state, "running"}

\* An outcome was written: it counts what is unknown, unless there is nothing.
NewBooks(t, b) ==
    /\ run'[b].marker = 0
    /\ Unknown(b) => \/ run'[b].unresolved = 1
                     \/ run'[b].state \in Unstarted
                     \/ FinalOwned(t) /\ th[t].res = "stopped"

\* A returned dispatch was marked, with what is pending counted.
MarkedBooks(t, b) ==
    /\ ReleaseMark(t)
    /\ run'[b].marker = th[t].att
    /\ Unknown(b) \/ effect[b].state = "pending" => run'[b].unresolved = 1

LEMMA StepBooks ==
    ASSUME TypeInv, NEW t \in Threads, Step(t), NEW a \in Actions, a = Act(t)
    PROVE  SameBooks(a) \/ NewBooks(t, a) \/ MarkedBooks(t, a)
<1>1. run[a] \in Row /\ run \in [Actions -> Row]
  BY RowTyped DEF TypeInv, TypeOK
<1>2. {"state", "marker", "unresolved"} \subseteq DOMAIN run[a]
  BY <1>1 DEF Row
<1>3. CASE run' = run
  BY <1>3 DEF SameBooks
<1>4. ASSUME NEW row, run' = [run EXCEPT ![a] = row] PROVE run'[a] = row
  BY <1>1, <1>4
<1>5. ASSUME NEW row, run' = [run EXCEPT ![a] = row], row.marker = run[a].marker,
             row.unresolved = run[a].unresolved, row.state \in {run[a].state, "running"}
      PROVE  SameBooks(a)
  <2>1. run'[a] = row
    BY <1>4, <1>5
  <2> QED BY <1>5, <2>1 DEF SameBooks
<1>6. ASSUME NEW s, NEW n, run' = [run EXCEPT ![a] = Outcome(run[a], s, n)],
             Unknown(a) => n = 1 \/ s \in Unstarted
      PROVE  NewBooks(t, a)
  <2>1. PICK row : row = Outcome(run[a], s, n)
    OBVIOUS
  <2>2. row.marker = 0 /\ row.unresolved = n /\ row.state = s
    BY <1>2, <2>1, OutcomeBooks
  <2>3. run'[a] = row
    BY <1>4, <1>6, <2>1
  <2> QED BY <1>6, <2>2, <2>3 DEF NewBooks
<1>7. \A p \in BOOLEAN : Unknown(a) => unresolvedEffectCount(a, p) = 1
  BY Count
<1>8. CASE HoldUnhandled(t)
  <2>1. run' = [run EXCEPT ![a] = Outcome(run[a], "needs_review", unresolvedEffectCount(a, FALSE))]
    BY <1>8 DEF HoldUnhandled
  <2> QED BY <1>6, <1>7, <2>1
<1>9. CASE Claim(t)
  <2>1. PICK v : v = run[a].version + 1
    OBVIOUS
  <2>2. PICK row : row = [run[a] EXCEPT !.state = "running", !.by = ExecOf(t),
                                        !.expired = FALSE, !.version = v]
    OBVIOUS
  <2>3. run' = run \/ run' = [run EXCEPT ![a] = row]
    BY <1>9, <2>1, <2>2 DEF Claim
  <2>4. row.marker = run[a].marker /\ row.unresolved = run[a].unresolved /\ row.state = "running"
    BY <1>1, <2>2 DEF Row
  <2> QED BY <1>3, <1>5, <2>3, <2>4
<1>10. CASE Reserve(t)
  <2>1. PICK row : row = [run[a] EXCEPT !.reserved = TRUE]
    OBVIOUS
  <2>2. run' = [run EXCEPT ![a] = row]
    BY <1>10, <2>1 DEF Reserve
  <2>3. /\ row.marker = run[a].marker /\ row.unresolved = run[a].unresolved
        /\ row.state = run[a].state
    BY <1>1, <2>1 DEF Row
  <2> QED BY <1>5, <2>2, <2>3
<1>11. CASE Wait(t)
  <2>1. run' = [run EXCEPT ![a] = WaitRow(a)]
    BY <1>11 DEF Wait
  <2>2. \/ WaitRow(a) = Outcome(run[a], "needs_review", unresolvedEffectCount(a, FALSE))
        \/ WaitRow(a) = Outcome(run[a], "waiting_dependency", 0)
    BY DEF WaitRow
  <2>3. "waiting_dependency" \in Unstarted
    BY DEF Unstarted
  <2> QED BY <1>6, <1>7, <2>1, <2>2, <2>3
<1>12. CASE FinalOwned(t)
  <2>1. PICK mid : mid = IF th[t].res = "safe" THEN Outcome(run[a], "reconciling", 0) ELSE run[a]
    OBVIOUS
  <2>2. PICK s : s = OwnedTarget(t)
    OBVIOUS
  <2>3. PICK n : n = OwnedUnresolved(t, s)
    OBVIOUS
  <2>4. PICK row : row = Outcome(mid, s, n)
    OBVIOUS
  <2>5. run' = [run EXCEPT ![a] = row]
    BY <1>12, <2>1, <2>2, <2>3, <2>4 DEF FinalOwned
  <2>6. {"state", "marker", "unresolved"} \subseteq DOMAIN mid
    <3>1. CASE th[t].res = "safe"
      <4>1. mid = Outcome(run[a], "reconciling", 0)
        BY <2>1, <3>1
      <4> QED BY <1>2, <4>1, OutcomeBooks
    <3>2. CASE th[t].res # "safe"
      BY <1>2, <2>1, <3>2
    <3> QED BY <3>1, <3>2
  <2>7. row.marker = 0 /\ row.unresolved = n /\ row.state = s
    BY <2>4, <2>6, OutcomeBooks
  <2>8. run'[a] = row
    BY <1>4, <2>5
  <2>9. th[t].res = "safe" => s \in Unstarted
    BY <2>2 DEF OwnedTarget, Unstarted
  <2>10. th[t].res \notin {"safe", "stopped"} /\ Unknown(a) => n = 1
    BY <1>7, <2>3 DEF OwnedUnresolved
  <2> QED BY <1>12, <2>7, <2>8, <2>9, <2>10 DEF NewBooks
<1>13. CASE FinalFree(t)
  <2>1. PICK s : s = FreeTarget(t)
    OBVIOUS
  <2>2. PICK p \in BOOLEAN : p = (s = "reconciling")
    OBVIOUS
  <2>3. run' = run \/ run' = [run EXCEPT ![a] = Outcome(run[a], s, unresolvedEffectCount(a, p))]
    BY <1>13, <2>1, <2>2 DEF FinalFree
  <2> QED BY <1>3, <1>6, <1>7, <2>3
<1>14. CASE DeferActiveDispatch(t)
  <2>1. \/ run' = run
        \/ run' = [run EXCEPT ![a] = Outcome(run[a], "reconciling", unresolvedEffectCount(a, TRUE))]
    BY <1>14 DEF DeferActiveDispatch
  <2> QED BY <1>3, <1>6, <1>7, <2>1
<1>15. CASE ReleaseMark(t)
  <2>1. run' = [run EXCEPT ![a] = MarkedRow(t)]
    BY <1>15 DEF ReleaseMark
  <2>2. CASE MarkedRow(t) = run[a]
    BY <1>5, <2>1, <2>2
  <2>3. CASE \E s, by, e : MarkedRow(t) = [Outcome(run[a], s, unresolvedEffectCount(a, TRUE)) EXCEPT
                                     !.marker = th[t].att, !.by = by, !.expired = e]
    <3>1. PICK s, by, e : MarkedRow(t) = [Outcome(run[a], s, unresolvedEffectCount(a, TRUE)) EXCEPT
                                     !.marker = th[t].att, !.by = by, !.expired = e]
      BY <2>3
    <3>2. PICK n : n = unresolvedEffectCount(a, TRUE)
      OBVIOUS
    <3>3. PICK out : out = Outcome(run[a], s, n)
      OBVIOUS
    <3>4. out.unresolved = n /\ {"state", "marker", "unresolved"} \subseteq DOMAIN out
      BY <1>2, <3>3, OutcomeBooks
    <3>5. PICK row : row = [out EXCEPT !.marker = th[t].att, !.by = by, !.expired = e]
      OBVIOUS
    <3>6. row.marker = th[t].att /\ row.unresolved = n
      BY <3>4, <3>5
    <3>7. run'[a] = row
      BY <1>4, <2>1, <3>1, <3>2, <3>3, <3>5
    <3>8. Unknown(a) \/ effect[a].state = "pending" => n = 1
      BY <3>2, Count
    <3> QED BY <1>15, <3>6, <3>7, <3>8 DEF MarkedBooks
  <2> QED BY <2>2, <2>3 DEF MarkedRow, Act
<1> QED BY <1>3, <1>8, <1>9, <1>10, <1>11, <1>12, <1>13, <1>14, <1>15, RowsSame

-----------------------------------------------------------------------------
(* A pass keeps count *)

\* The return marker of the attempt is in the row, written now or before.
LEMMA Marks ==
    ASSUME TypeInv, NEW t \in Threads, ReleaseMark(t), NEW a \in Actions, a = Act(t)
    PROVE  run'[a].marker = th[t].att
<1>1. run[a] \in Row /\ run \in [Actions -> Row]
  BY RowTyped DEF TypeInv, TypeOK
<1>2. {"state", "marker", "unresolved"} \subseteq DOMAIN run[a]
  BY <1>1 DEF Row
<1>3. run' = [run EXCEPT ![a] = MarkedRow(t)]
  BY DEF ReleaseMark
<1>4. run'[a] = MarkedRow(t)
  BY <1>1, <1>3
<1>5. CASE MarkedRow(t) = run[a] /\ run[a].marker = th[t].att
  BY <1>4, <1>5
<1>6. CASE \E s, n, by, e : MarkedRow(t) = [Outcome(run[a], s, n) EXCEPT
                                     !.marker = th[t].att, !.by = by, !.expired = e]
  <2>1. PICK s, n, by, e : MarkedRow(t) = [Outcome(run[a], s, n) EXCEPT
                                     !.marker = th[t].att, !.by = by, !.expired = e]
    BY <1>6
  <2>2. PICK out : out = Outcome(run[a], s, n)
    OBVIOUS
  <2>3. {"state", "marker", "unresolved"} \subseteq DOMAIN out
    BY <1>2, <2>2, OutcomeBooks
  <2>4. PICK row : row = [out EXCEPT !.marker = th[t].att, !.by = by, !.expired = e]
    OBVIOUS
  <2>5. row.marker = th[t].att
    BY <2>3, <2>4
  <2> QED BY <1>4, <2>1, <2>2, <2>4, <2>5
<1> QED BY <1>5, <1>6 DEF MarkedRow, Act

\* An unclaimed pass that goes on has written no row but its marker.
LEMMA FreeStays ==
    ASSUME TypeInv, NEW t \in Threads, Step(t), ~Advances(t), Free(th'[t])
    PROVE  run' = run
<1>1. th \in [Threads -> Thread] /\ th[t] \in Thread
  BY ThreadTyped DEF TypeInv, TypeOK
<1>2. ~Free(Idle)
  BY DEF Free, Idle
<1>3. ASSUME NEW k PROVE ~Free(Leave(t, k))
  <2>1. ~Free(Finishing(t, k))
    BY DEF Free, Finishing, Idle
  <2>2. PICK r : r = [th[t] EXCEPT !.pc = "rel_intent", !.back = "finish", !.keep = k,
                                   !.ierr = FALSE, !.res = "none"]
    OBVIOUS
  <2>3. r.phase = th[t].phase
    BY <1>1, <2>2 DEF Thread
  <2>4. th[t].phase = "dispatch" => ~Free(r)
    BY <2>3 DEF Free
  <2> QED BY <1>2, <2>1, <2>2, <2>4 DEF Leave
<1>4. ASSUME NEW r, th' = [th EXCEPT ![t] = r] PROVE th'[t] = r
  BY <1>1, <1>4
<1>5. CASE HoldUnhandled(t)
  <2>1. th' = [th EXCEPT ![t] = Idle]
    BY <1>5 DEF HoldUnhandled
  <2> QED BY <1>2, <1>4, <2>1
<1>6. CASE Wait(t) \/ FinalOwned(t) \/ FinalFree(t) \/ DeferActiveDispatch(t)
  <2>1. \E k : th' = [th EXCEPT ![t] = Leave(t, k)]
    BY <1>6 DEF Wait, FinalOwned, FinalFree, DeferActiveDispatch
  <2> QED BY <1>3, <1>4, <2>1
<1> QED BY <1>5, <1>6, RowsSame DEF Advances

\* Whoever records nothing and returns no barrier leaves the effect as it is.
LEMMA EffectStays ==
    ASSUME TypeInv, NEW t \in Threads, Step(t), ~PrepareDispatch(t), ~RecordEffects(t),
           ~ReleaseResolve(t)
    PROVE  effect' = effect
<1>1. CASE ObserveBegin(t) \/ CloseAttempt(t) \/ ReconcileBegin(t) \/ ReleaseIntent(t)
           \/ DispatchSend(t)
  BY <1>1 DEF ObserveBegin, CloseAttempt, ReconcileBegin, ReleaseIntent, DispatchSend
<1> QED BY <1>1, JournalSame

\* A pass that goes on, counts on.
LEMMA FlowCounting ==
    ASSUME IInv, Control, Counts, NEW t \in Threads, Step(t), ~Advances(t)
    PROVE  Counting(th[t])'
<1>1. PICK h : h = th[t]
  OBVIOUS
<1>2. PICK r : r = th'[t]
  OBVIOUS
<1>3. /\ TypeInv /\ h \in Thread /\ Controlled(h) /\ Counting(h) /\ Act(t) = h.act
  BY <1>1, ThreadTyped DEF IInv, Control, Counts, Act
<1>4. CASE Ended(r)
  BY <1>2, <1>4, EndedCounting
<1>5. CASE SamePass(h, r)
  <2>1. Free(r) => run'[r.act].state = "reconciling"
    <3> SUFFICES ASSUME Free(r) PROVE run'[r.act].state = "reconciling"
      OBVIOUS
    <3>1. run' = run
      BY <1>2, <1>3, FreeStays
    <3>2. Free(h) /\ r.act = h.act
      BY <1>5 DEF SamePass, Free
    <3> QED BY <1>3, <3>1, <3>2 DEF Counting
  <2>2. ASSUME Owning(r)' PROVE OwnerEffect(r)' /\ ~Again(r)
    <3>1. /\ r.claimed /\ h.claimed /\ r.act = h.act /\ r.phase = h.phase /\ h.phase # "none"
          /\ r.ver = h.ver \/ run[h.act].version <= h.ver + 1
      BY <1>5, <2>2 DEF SamePass, Owning
    <3>2. ~Claim(t)
      BY DEF Advances
    <3>3. Owning(h)
      BY <1>1, <1>2, <2>2, <3>1, <3>2, OwnedBefore
    <3>4. OwnerEffect(h)
      BY <1>3, <3>3 DEF Counting
    <3>5. CASE ReleaseResolve(t)
      <4>1. th[t].back = "rec" => r.phase = "reconcile"
        <5>1. h.pc = "rel_resolve"
          BY <1>1, <3>5 DEF ReleaseResolve, At
        <5>2. h.back = "rec" => h.phase = "reconcile"
          BY <1>3, <5>1 DEF Controlled
        <5> QED BY <1>1, <3>1, <5>2
      <4>2. th[t].back = "rec"
        <5>1. th' = [th EXCEPT ![t] = AfterRelease(t)]
          BY <3>5 DEF ReleaseResolve
        <5>2. r = AfterRelease(t)
          BY <1>2, <1>3, <5>1 DEF TypeInv, TypeOK
        <5>3. th[t].back # "rec" => Ended(r)
          BY <1>3, <5>2, LeaveFlow DEF AfterRelease
        <5> QED BY <3>1, <5>3 DEF Ended
      <4>3. r.phase = "reconcile" /\ r.pc # "final"
        BY <1>5, <4>1, <4>2 DEF SamePass
      <4> QED BY <4>3 DEF OwnerEffect, Fresh, Again
    <3>6. CASE ~ReleaseResolve(t)
      <4>1. effect' = effect
        BY <1>3, <3>6, EffectStays DEF Advances
      <4>2. Unknown(h.act)' = Unknown(h.act)
        BY <4>1 DEF Unknown
      <4>3. /\ r.pc \notin {"effects", "final", "wait"}
            /\ h.phase = "dispatch" /\ r.pc \in LivePoint \cup {"close"} => h.pc \in LivePoint
        BY <1>5 DEF SamePass
      <4>4. r.phase = "observe" => ~Unknown(r.act)'
        BY <3>1, <3>4, <4>2 DEF OwnerEffect
      <4>5. r.phase = "dispatch" /\ r.pc \in LivePoint \cup {"close"} => ~Unknown(r.act)'
        BY <3>1, <3>4, <4>2, <4>3 DEF OwnerEffect
      <4>6. OwnerEffect(r)'
        BY <3>1, <4>3, <4>4, <4>5 DEF OwnerEffect, Fresh
      <4> QED BY <3>1, <4>6 DEF Again
    <3> QED BY <3>5, <3>6
  <2>3. r.pc # "rel_resolve"
    BY <1>5 DEF SamePass
  <2>4. Counting(r)'
    BY <2>1, <2>2, <2>3 DEF Counting, Free, Again
  <2> QED BY <1>2, <2>4, CountingAt
<1> QED BY <1>1, <1>2, <1>3, <1>4, <1>5, StepFlow DEF Flow, Control

-----------------------------------------------------------------------------
\* A claim finds nothing unknown but where a reconciliation was left.
LEMMA ClaimCounting ==
    ASSUME IInv, Control, Exclusive, Counts, NEW t \in Threads, Step(t), Claim(t)
    PROVE  Counting(th[t])'
<1>1. PICK h : h = th[t]
  OBVIOUS
<1>2. PICK a \in Actions : a = h.act
  BY <1>1, StepActs DEF IInv, Act
<1>3. /\ TypeInv /\ h \in Thread /\ Controlled(h) /\ Counted(a) /\ PassInv(h, ExecOf(t))
      /\ h.pc = "claim" /\ run[a] \in Row
  BY <1>1, ThreadTyped, RowTyped DEF IInv, Control, Counts, Exclusive, ThreadInv, Claim, At
<1>4. th \in [Threads -> Thread] /\ run \in [Actions -> Row] /\ run[a].version \in Nat
  BY <1>3 DEF TypeInv, TypeOK, Row
<1>5. CASE ~ClaimPredicate(t)
  <2>1. th'[t] = Idle
    BY <1>4, <1>5 DEF Claim
  <2>2. Ended(th'[t])
    BY <1>3, <2>1, LeaveFlow
  <2> QED BY <2>2, EndedCounting
<1>6. CASE ClaimPredicate(t)
  <2>1. PICK v : v = run[a].version + 1
    OBVIOUS
  <2>2. PICK row : row = [run[a] EXCEPT !.state = "running", !.by = ExecOf(t),
                                        !.expired = FALSE, !.version = v]
    OBVIOUS
  <2>3. PICK r : r = [h EXCEPT !.pc = "local", !.claimed = TRUE, !.ver = v,
                               !.mark = run[a].marker]
    OBVIOUS
  <2>4. run' = [run EXCEPT ![a] = row] /\ th' = [th EXCEPT ![t] = r] /\ effect' = effect
    <3>1. run' = [run EXCEPT ![a] = row]
      BY <1>1, <1>2, <1>6, <2>1, <2>2 DEF Claim, Act
    <3>2. th' = [th EXCEPT ![t] = r]
      BY <1>1, <1>2, <1>6, <2>1, <2>3 DEF Claim, Act
    <3>3. effect' = effect
      BY DEF Claim
    <3> QED BY <3>1, <3>2, <3>3
  <2>5. run'[a] = row /\ th'[t] = r
    BY <1>4, <2>4
  <2>6. row.version = v /\ row.state = "running"
    BY <1>3, <2>2 DEF Row
  <2>7. r.pc = "local" /\ r.act = h.act /\ r.ver = v /\ r.phase = h.phase /\ r.from = h.from
    BY <1>3, <2>3 DEF Thread
  <2>8. h.phase = "none" /\ Origin(h)
    BY <1>3 DEF Controlled, PassInv
  <2>9. run[a].state \in Claimable /\ h.ver = run[a].version
    BY <1>1, <1>2, <1>6 DEF ClaimPredicate, Act
  <2>10. run[a].state = h.from
    BY <1>2, <2>8, <2>9 DEF Origin
  <2>11. Fresh(r) => ~Unknown(a)
    BY <1>3, <2>7, <2>9, <2>10 DEF Fresh, Counted, Claimable, Unstarted
  <2>12. OwnerEffect(r)'
    BY <1>2, <2>4, <2>7, <2>8, <2>11 DEF OwnerEffect, Fresh, Unknown
  <2>13. Unmoved(r)'
    BY <1>2, <2>5, <2>6, <2>7 DEF Unmoved
  <2>14. Counting(r)'
    BY <2>7, <2>8, <2>12, <2>13 DEF Counting, Free
  <2> QED BY <2>5, <2>14, CountingAt
<1> QED BY <1>5, <1>6

\* Nothing refuses the reservations of an action but a lost claim.
LEMMA EnterCounting ==
    ASSUME IInv, Control, Exclusive, Counts, Overlap = {}, "reserve" \notin FaultPoints,
           NEW t \in Threads, Step(t), AcquireReservations(t) \/ ReserveRefused(t)
    PROVE  Counting(th[t])'
<1>1. PICK h : h = th[t]
  OBVIOUS
<1>2. PICK p : p = IF ReserveRefused(t) THEN "wait" ELSE "reserve"
  OBVIOUS
<1>3. PICK r : r = [h EXCEPT !.pc = p]
  OBVIOUS
<1>4. PICK a \in Actions : a = h.act
  BY <1>1, StepActs DEF IInv, Act
<1>5. /\ TypeInv /\ h \in Thread /\ Controlled(h) /\ Counting(h) /\ PassInv(h, ExecOf(t))
      /\ run[a] \in Row /\ h.pc \in {"local", "reserve"}
  BY <1>1, ThreadTyped, RowTyped
     DEF IInv, Control, Counts, Exclusive, ThreadInv, AcquireReservations, ReserveRefused, At
<1>6. ~LocalConflict(t) /\ ~DurableConflict(h.act)
  BY DEF LocalConflict, DurableConflict
<1>7. ~ReserveRefused(t) => th' = [th EXCEPT ![t] = [th[t] EXCEPT !.pc = "reserve"]]
  BY <1>6 DEF AcquireReservations, Goto
<1>8. ReserveRefused(t) =>
         /\ th' = [th EXCEPT ![t] = [th[t] EXCEPT !.pc = "wait"]]
         /\ ~FenceMatches(t)
  BY <1>1, <1>6 DEF ReserveRefused, Goto, CanFault, Act, At
<1>9. th' = [th EXCEPT ![t] = r] /\ UNCHANGED <<run, effect>>
  BY <1>1, <1>2, <1>3, <1>7, <1>8 DEF AcquireReservations, ReserveRefused
<1>10. th'[t] = r
  BY <1>5, <1>9 DEF TypeInv, TypeOK
<1>11. /\ r.pc = p /\ r.act = h.act /\ r.ver = h.ver /\ r.phase = h.phase /\ r.from = h.from
       /\ r.claimed = h.claimed /\ h.phase = "none" /\ h.claimed
  BY <1>3, <1>5 DEF Thread, Controlled
<1>12. ASSUME Owning(r)' PROVE OwnerEffect(r)' /\ (Again(r) => Unmoved(r)')
  <2>1. Owning(h)
    BY <1>9, <1>11, <1>12 DEF Owning
  <2>2. OwnerEffect(h) /\ (Again(h) => Unmoved(h)) /\ run[a].by = ExecOf(t)
    BY <1>4, <1>5, <2>1 DEF Counting, PassInv, OwnerRow
  <2>3. OwnerEffect(r)'
    BY <1>9, <1>11, <2>2 DEF OwnerEffect, Fresh, Unknown
  <2>4. ASSUME Again(r) PROVE Unmoved(r)'
    <3>1. Unmoved(h)
      BY <1>11, <2>2, <2>4 DEF Again
    <3>2. run[a].state = "running"
      BY <1>4, <2>1 DEF Owning
    <3>3. FenceMatches(t)
      BY <1>1, <1>4, <2>2, <3>1, <3>2 DEF FenceMatches, Unmoved, Act
    <3>4. p = "reserve"
      BY <1>2, <1>8, <3>3
    <3> QED BY <1>9, <1>11, <3>1, <3>4 DEF Unmoved
  <2> QED BY <2>3, <2>4
<1>13. Counting(r)'
  BY <1>2, <1>11, <1>12 DEF Counting, Free, Again
<1> QED BY <1>10, <1>13, CountingAt

\* The observation of an action that was not reconciled starts.
LEMMA ReserveCounting ==
    ASSUME IInv, Control, Counts, NEW t \in Threads, Step(t), Reserve(t)
    PROVE  Counting(th[t])'
<1>1. PICK h : h = th[t]
  OBVIOUS
<1>2. /\ TypeInv /\ h \in Thread /\ Controlled(h) /\ Counting(h) /\ h.pc = "reserve"
  BY <1>1, ThreadTyped DEF IInv, Control, Counts, Reserve, At
<1>3. h.phase = "none" /\ h.claimed
  BY <1>2 DEF Controlled
<1>4. Owning(h)
  BY <1>1, <1>3, FenceOwns DEF Reserve, Owns
<1>5. Fresh(h) => ~Unknown(h.act)
  BY <1>2, <1>4 DEF Counting, OwnerEffect
<1>6. PICK x : x = [h EXCEPT !.pc = "rec_find", !.phase = "reconcile", !.from = "queued"]
  OBVIOUS
<1>7. PICK y : y = [h EXCEPT !.pc = "obs_new", !.phase = "observe", !.from = "queued",
                             !.mark = 0]
  OBVIOUS
<1>8. th' = [th EXCEPT ![t] = IF h.from = "reconciling" THEN x ELSE y] /\ effect' = effect
  BY <1>1, <1>6, <1>7 DEF Reserve
<1>9. /\ x.act = h.act /\ x.pc = "rec_find" /\ x.phase = "reconcile" /\ x.claimed = h.claimed
      /\ y.act = h.act /\ y.pc = "obs_new" /\ y.phase = "observe" /\ y.claimed = h.claimed
  BY <1>2, <1>6, <1>7 DEF Thread
<1>10. th'[t] = IF h.from = "reconciling" THEN x ELSE y
  BY <1>2, <1>8 DEF TypeInv, TypeOK
<1>11. CASE h.from = "reconciling"
  <2>1. Counting(x)'
    BY <1>3, <1>9 DEF Counting, Free, OwnerEffect, Fresh, Again
  <2> QED BY <1>10, <1>11, <2>1, CountingAt
<1>12. CASE h.from # "reconciling"
  <2>1. ~Unknown(h.act)'
    BY <1>3, <1>5, <1>8, <1>12 DEF Fresh, Unknown
  <2>2. Counting(y)'
    BY <1>3, <1>9, <2>1 DEF Counting, Free, OwnerEffect, Fresh, Again
  <2> QED BY <1>10, <1>12, <2>2, CountingAt
<1> QED BY <1>11, <1>12

\* A dispatch is prepared: its effect is pending.
LEMMA PrepareCounting ==
    ASSUME IInv, Control, NEW t \in Threads, Step(t), PrepareDispatch(t)
    PROVE  Counting(th[t])' /\ effect'[Act(t)].state = "pending"
<1>1. PICK h : h = th[t]
  OBVIOUS
<1>2. PICK a \in Actions : a = h.act
  BY <1>1, StepActs DEF IInv, Act
<1>3. TypeInv /\ h \in Thread /\ Controlled(h) /\ h.pc = "prepare"
  BY <1>1, ThreadTyped DEF IInv, Control, PrepareDispatch, At
<1>4. PICK n : n = Len(attempts[a]) + 1
  OBVIOUS
<1>5. PICK r : r = [h EXCEPT !.pc = "before", !.phase = "dispatch", !.att = n]
  OBVIOUS
<1>6. th' = [th EXCEPT ![t] = r] /\ effect' = [effect EXCEPT ![a] = [state |-> "pending", att |-> n]]
  BY <1>1, <1>2, <1>4, <1>5 DEF PrepareDispatch, Act
<1>7. th'[t] = r /\ effect'[a].state = "pending"
  BY <1>3, <1>6, EffectTyped DEF TypeInv, TypeOK
<1>8. /\ r.act = h.act /\ r.pc = "before" /\ r.phase = "dispatch" /\ r.claimed = h.claimed
      /\ h.claimed
  BY <1>3, <1>5 DEF Thread, Controlled
<1>9. ~Unknown(a)'
  BY <1>7 DEF Unknown
<1>10. Counting(r)'
  BY <1>2, <1>8, <1>9 DEF Counting, Free, OwnerEffect, Fresh, Again
<1> QED BY <1>1, <1>2, <1>7, <1>10, CountingAt DEF Act

-----------------------------------------------------------------------------
\* Closing an attempt records no effect.
LEMMA CloseCounting ==
    ASSUME IInv, Control, Counts, NEW t \in Threads, Step(t), CloseAttempt(t)
    PROVE  Counting(th[t])'
<1>1. PICK h : h = th[t]
  OBVIOUS
<1>2. /\ TypeInv /\ h \in Thread /\ Controlled(h) /\ Counting(h) /\ h.pc = "close"
      /\ (Free(h) \/ Owns(t))
  BY <1>1, ThreadTyped, Owners DEF IInv, Control, Counts, CloseAttempt, At
<1>3. PICK p : p = IF HasEffects(h.res) THEN "effects"
                   ELSE IF h.res = "dependency" THEN "wait" ELSE "final"
  OBVIOUS
<1>4. PICK r : r = [h EXCEPT !.pc = p]
  OBVIOUS
<1>5. th' = [th EXCEPT ![t] = r] /\ UNCHANGED <<run, effect>>
  BY <1>1, <1>3, <1>4 DEF CloseAttempt, Goto
<1>6. th'[t] = r
  BY <1>2, <1>5 DEF TypeInv, TypeOK
<1>7. /\ r.act = h.act /\ r.pc = p /\ r.phase = h.phase /\ r.claimed = h.claimed /\ r.res = h.res
      /\ r.ver = h.ver /\ r.from = h.from
  BY <1>2, <1>4 DEF Thread
<1>8. h.phase \in AttemptPhase
  BY <1>2 DEF Controlled
<1>9. h.res = "safe" => p = "effects"
  BY <1>3 DEF HasEffects
<1>10. h.phase # "none"
  BY <1>8 DEF AttemptPhase
<1>11. ASSUME Owning(r)' PROVE OwnerEffect(r)'
  <2>1. Owning(h)
    BY <1>5, <1>7, <1>11 DEF Owning
  <2>2. OwnerEffect(h)
    BY <1>2, <2>1 DEF Counting
  <2>3. h.phase = "observe" => ~Unknown(h.act)'
    BY <1>5, <2>2 DEF OwnerEffect, Unknown
  <2>4. h.phase = "dispatch" => ~Unknown(h.act)'
    BY <1>2, <1>5, <2>2 DEF OwnerEffect, Unknown
  <2> QED BY <1>7, <1>9, <1>10, <2>3, <2>4 DEF OwnerEffect, Fresh
<1>12. p # "rel_resolve"
  BY <1>3
<1>13. Free(r) => run'[r.act].state = "reconciling"
  BY <1>2, <1>5, <1>7 DEF Counting, Free
<1>14. Counting(r)'
  BY <1>7, <1>10, <1>11, <1>12, <1>13 DEF Counting, Free, Again
<1> QED BY <1>6, <1>14, CountingAt

\* Only an uncertain dispatch, or a reconciliation, records an unknown effect.
LEMMA RecordCounting ==
    ASSUME IInv, Control, Counts, NEW t \in Threads, Step(t), RecordEffects(t)
    PROVE  Counting(th[t])'
<1>1. PICK h : h = th[t]
  OBVIOUS
<1>2. PICK a \in Actions : a = h.act
  BY <1>1, StepActs DEF IInv, Act
<1>3. /\ TypeInv /\ h \in Thread /\ Controlled(h) /\ Counting(h) /\ h.pc = "effects"
  BY <1>1, ThreadTyped DEF IInv, Control, Counts, RecordEffects, At
<1>4. PICK r : r = [h EXCEPT !.pc = "final"]
  OBVIOUS
<1>5. th' = [th EXCEPT ![t] = r] /\ UNCHANGED run
  BY <1>1, <1>4 DEF RecordEffects, Goto
<1>6. th'[t] = r
  BY <1>3, <1>5 DEF TypeInv, TypeOK
<1>7. /\ r.act = h.act /\ r.pc = "final" /\ r.phase = h.phase /\ r.claimed = h.claimed
      /\ r.res = h.res
  BY <1>3, <1>4 DEF Thread
<1>8. h.phase \in AttemptPhase /\ h.res \in Outcomes(h.phase) /\ HasEffects(h.res)
  BY <1>3 DEF Controlled
<1>9. h.phase # "none"
  BY <1>8 DEF AttemptPhase
<1>10. PICK s \in EffectStates(h.res) :
          effect' = [effect EXCEPT ![a] = [state |-> s, att |-> h.att]]
  BY <1>1, <1>2 DEF RecordEffects, Act
<1>11. effect'[a].state = s
  BY <1>3, <1>10, EffectTyped
<1>12. h.phase = "observe" => s # "unknown"
  BY <1>8, Parts DEF HasEffects, EffectStates
<1>13. h.phase = "dispatch" /\ h.res # "uncertain" => s # "unknown"
  <2>1. h.phase = "dispatch" /\ h.res # "uncertain" => h.res = "applied"
    BY <1>8, Parts DEF HasEffects
  <2> QED BY <2>1 DEF EffectStates
<1>14. h.res = "safe" => s # "unknown"
  BY DEF EffectStates
<1>15. OwnerEffect(r)'
  BY <1>2, <1>7, <1>9, <1>11, <1>12, <1>13, <1>14 DEF OwnerEffect, Fresh, Unknown, LivePoint
<1>16. Free(r) => run'[r.act].state = "reconciling"
  BY <1>3, <1>5, <1>7 DEF Counting, Free
<1>17. Counting(r)'
  BY <1>7, <1>9, <1>15, <1>16 DEF Counting, Free, Again
<1> QED BY <1>6, <1>17, CountingAt

\* A dispatch is marked as returned.
LEMMA MarkCounting ==
    ASSUME IInv, Control, Counts, NEW t \in Threads, Step(t), ReleaseMark(t)
    PROVE  Counting(th[t])'
<1>1. PICK h : h = th[t]
  OBVIOUS
<1>2. PICK a \in Actions : a = h.act
  BY <1>1, StepActs DEF IInv, Act
<1>3. /\ TypeInv /\ h \in Thread /\ Controlled(h) /\ Counting(h) /\ h.pc = "rel_mark"
  BY <1>1, ThreadTyped DEF IInv, Control, Counts, ReleaseMark, At
<1>4. PICK r : r = [h EXCEPT !.pc = "rel_resolve"]
  OBVIOUS
<1>5. th' = [th EXCEPT ![t] = r] /\ UNCHANGED effect
  BY <1>1, <1>4 DEF ReleaseMark, Goto
<1>6. th'[t] = r
  BY <1>3, <1>5 DEF TypeInv, TypeOK
<1>7. /\ r.act = h.act /\ r.pc = "rel_resolve" /\ r.phase = h.phase /\ r.claimed = h.claimed
      /\ r.att = h.att
  BY <1>3, <1>4 DEF Thread
<1>8. run'[a].marker = h.att
  BY <1>1, <1>2, <1>3, Marks DEF Act
<1>9. h.phase = "none" => ~h.claimed
  BY <1>3 DEF Controlled
<1>10. h.phase # "observe"
  BY <1>3 DEF Controlled
<1>11. Free(r) => run'[r.act].state = "reconciling"
  <2> SUFFICES ASSUME Free(r) PROVE run'[a].state = "reconciling"
    BY <1>2, <1>7
  <2>1. run[a].state = "reconciling"
    BY <1>2, <1>3, <1>7 DEF Counting, Free
  <2>2. {"state", "marker", "unresolved"} \subseteq DOMAIN run[a]
    BY <1>3, RowTyped DEF Row
  <2>3. run'[a] = MarkedRow(t)
    BY <1>1, <1>2, <1>3 DEF ReleaseMark, TypeInv, TypeOK, Act
  <2>4. \/ MarkedRow(t) = run[a]
        \/ \E n, by, e : MarkedRow(t) = [Outcome(run[a], "reconciling", n) EXCEPT
                                           !.marker = th[t].att, !.by = by, !.expired = e]
    BY <1>1, <1>2, <2>1 DEF MarkedRow, Act
  <2>5. CASE MarkedRow(t) = run[a]
    BY <2>1, <2>3, <2>5
  <2>6. CASE \E n, by, e : MarkedRow(t) = [Outcome(run[a], "reconciling", n) EXCEPT
                                           !.marker = th[t].att, !.by = by, !.expired = e]
    <3>1. PICK n, by, e : MarkedRow(t) = [Outcome(run[a], "reconciling", n) EXCEPT
                                           !.marker = th[t].att, !.by = by, !.expired = e]
      BY <2>6
    <3>2. PICK out : out = Outcome(run[a], "reconciling", n)
      OBVIOUS
    <3>3. out.state = "reconciling" /\ "state" \in DOMAIN out
      BY <2>2, <3>2, OutcomeBooks
    <3>4. PICK row : row = [out EXCEPT !.marker = th[t].att, !.by = by, !.expired = e]
      OBVIOUS
    <3>5. row.state = "reconciling"
      BY <3>3, <3>4
    <3> QED BY <2>3, <3>1, <3>2, <3>4, <3>5
  <2> QED BY <2>4, <2>5, <2>6
<1>12. ASSUME Owning(r)' PROVE OwnerEffect(r)' /\ ~Again(r)
  <2>1. r.claimed
    BY <1>12 DEF Owning
  <2> QED BY <1>7, <1>9, <1>10, <2>1 DEF OwnerEffect, Fresh, Again, LivePoint
<1>13. Counting(r)'
  BY <1>2, <1>7, <1>8, <1>11, <1>12 DEF Counting, Free, Again
<1> QED BY <1>6, <1>13, CountingAt

LEMMA OwnCounting ==
    ASSUME IInv, Control, Exclusive, Counts, Overlap = {}, "reserve" \notin FaultPoints,
           NEW t \in Threads, Step(t)
    PROVE  Counting(th[t])'
  BY FlowCounting, ClaimCounting, EnterCounting, ReserveCounting, PrepareCounting,
     CloseCounting, RecordCounting, MarkCounting DEF Advances

-----------------------------------------------------------------------------
(* A row keeps count *)

LEMMA CountedKept ==
    ASSUME NEW b, Counted(b), run'[b] = run[b], effect'[b] = effect[b],
           ActiveDispatches(b)' \subseteq ActiveDispatches(b)
    PROVE  Counted(b)'
<1>1. Unknown(b)' = Unknown(b) /\ (Settled(b) => Settled(b)')
  BY DEF Unknown, Settled
<1> QED BY <1>1 DEF Counted

\* An action returns to the states before effects only with nothing unknown.
LEMMA RequeueKnown ==
    ASSUME IInv, Control, Exclusive, Counts, NEW t \in Threads, Step(t),
           Wait(t) \/ FinalOwned(t), NEW a \in Actions, a = Act(t), run'[a].state \in Unstarted
    PROVE  Settled(a) /\ ~Unknown(a)
<1>1. PICK h : h = th[t]
  OBVIOUS
<1>2. /\ TypeInv /\ h \in Thread /\ Controlled(h) /\ Counting(h) /\ PassInv(h, ExecOf(t))
      /\ Owning(h) /\ a = h.act
  BY <1>1, ThreadTyped, Owners DEF IInv, Control, Counts, Exclusive, ThreadInv, Owns, Act
<1>3. OwnerEffect(h) /\ (Again(h) => Unmoved(h)) /\ OwnerJournal(h)
  BY <1>2 DEF Counting, PassInv
<1>4. h.phase \in {"none", "observe", "dispatch", "reconcile"}
  BY <1>2, Parts DEF Thread
<1>5. CASE Wait(t)
  <2>1. h.pc = "wait"
    BY <1>1, <1>5 DEF Wait, At
  <2>2. h.phase # "reconcile"
    BY <1>2, <2>1 DEF Controlled
  <2>3. ~Again(h)
    BY <1>3, <2>1 DEF Unmoved
  <2>4. CASE h.phase = "dispatch"
    BY <1>2, <1>3, <2>1, <2>4 DEF OwnerEffect, OwnerJournal
  <2>5. CASE h.phase # "dispatch"
    <3>1. Fresh(h) \/ h.phase = "observe"
      BY <1>4, <2>2, <2>3, <2>5 DEF Fresh, Again
    <3> QED BY <1>2, <1>3, <3>1 DEF OwnerEffect, OwnerJournal, Clean
  <2> QED BY <2>4, <2>5
<1>6. CASE FinalOwned(t)
  <2>1. h.pc = "final" /\ OwnedTarget(t) \in Unstarted
    BY <1>1, <1>2, <1>6, Targets DEF FinalOwned, At
  <2>2. h.res = "safe"
    BY <1>1, <2>1 DEF OwnedTarget, StopState, Unstarted
  <2>3. h.phase = "reconcile"
    BY <1>2, <1>4, <2>1, <2>2, Parts DEF Controlled
  <2> QED BY <1>2, <1>3, <2>1, <2>2, <2>3 DEF OwnerEffect, OwnerJournal
<1> QED BY <1>5, <1>6

\* A stop whose verdict is known to have changed nothing has nothing to count.
LEMMA StopKnown ==
    ASSUME IInv, Control, Counts, NEW t \in Threads, FinalOwned(t), th[t].res = "stopped",
           NEW a \in Actions, a = Act(t)
    PROVE  ~Unknown(a)
<1>1. PICK h : h = th[t]
  OBVIOUS
<1>2. /\ TypeInv /\ h \in Thread /\ Controlled(h) /\ Counting(h)
      /\ Owning(h) /\ a = h.act /\ h.pc = "final" /\ h.res = "stopped"
  BY <1>1, ThreadTyped, Owners DEF IInv, Control, Counts, Owns, Act, FinalOwned, At
<1>3. h.phase \in {"observe", "dispatch"}
  BY <1>2, Parts DEF Controlled
<1> QED BY <1>2, <1>3 DEF Counting, OwnerEffect

LEMMA StepCounted ==
    ASSUME IInv, Control, Bounds, Exclusive, Counts, NEW t \in Threads, Step(t),
           NEW b \in Actions
    PROVE  Counted(b)'
<1>1. PICK h : h = th[t]
  OBVIOUS
<1>2. PICK a \in Actions : a = h.act
  BY <1>1, StepActs DEF IInv, Act
<1>3. /\ TypeInv /\ h \in Thread /\ Controlled(h) /\ Counting(h) /\ PassInv(h, ExecOf(t))
      /\ Counted(a) /\ Counted(b) /\ a = Act(t)
  BY <1>1, <1>2, ThreadTyped DEF IInv, Control, Counts, Exclusive, ThreadInv, Act
<1>4. 0 \notin DOMAIN attempts[a]
  <2>1. attempts[a] \in Seq(Attempt)
    BY <1>3, AttemptsTyped
  <2> QED BY <2>1
<1>5. CASE b # a
  <2>1. run'[b] = run[b] /\ effect'[b] = effect[b] /\ attempts'[b] = attempts[b]
    BY <1>3, <1>5, StepElsewhere DEF Elsewhere
  <2>2. ActiveDispatches(b)' = ActiveDispatches(b)
    BY <2>1 DEF ActiveDispatches
  <2> QED BY <1>3, <2>1, <2>2, CountedKept
<1>6. CASE b = a /\ PrepareDispatch(t)
  <2>1. run' = run /\ effect'[a].state = "pending"
    <3>1. effect'[Act(t)].state = "pending"
      BY <1>6, PrepareCounting
    <3> QED BY <1>3, <1>6, <3>1 DEF PrepareDispatch
  <2>2. run[a].state = "running"
    BY <1>2, <1>6, <1>1, Owners DEF Owns, Owning
  <2>3. run[a].marker # effect'[a].att
    <3>1. effect'[a].att # 0 /\ effect'[a].att \notin DOMAIN attempts[a]
      <4>1. \E n \in Nat \ {0} : n \notin DOMAIN attempts[a] /\ effect'[a].att = n
        BY <1>3, <1>6, Prepared
      <4> QED BY <4>1
    <3>2. run[a].marker \in {0} \cup DOMAIN attempts[a]
      BY DEF Bounds, Known
    <3> QED BY <3>1, <3>2
  <2> QED BY <1>6, <2>1, <2>2, <2>3 DEF Counted, Unknown, Unstarted, Terminal
<1>7. CASE b = a /\ RecordEffects(t)
  <2>1. UNCHANGED <<run, attempts>> /\ effect'[a].att = h.att /\ h.pc = "effects"
    BY <1>1, <1>3, <1>7, Recorded DEF RecordEffects, At
  <2>2. Owning(h) \/ Free(h)
    BY <1>1, <1>7, Owners DEF Owns
  <2>3. run[a].state \in {"running", "reconciling"}
    BY <1>2, <1>3, <2>2 DEF Owning, Counting
  <2>4. Settled(a)
    <3>1. CASE Free(h)
      BY <1>2, <1>3, <2>1, <3>1 DEF PassInv, FreePass
    <3>2. CASE Owning(h)
      <4>1. OwnerJournal(h) /\ h.phase \in {"observe", "dispatch", "reconcile"}
        BY <1>3, <2>1, <3>2, Parts DEF PassInv, Controlled
      <4>2. h.phase = "observe" => Settled(a)
        BY <1>2, <4>1 DEF OwnerJournal, Clean
      <4>3. h.phase # "observe" => Settled(a)
        BY <1>2, <2>1, <4>1 DEF OwnerJournal
      <4> QED BY <4>2, <4>3
    <3> QED BY <2>2, <3>1, <3>2
  <2>5. ActiveDispatches(a)' = {}
    BY <2>1, <2>4 DEF Settled, ActiveDispatches
  <2> QED BY <1>7, <2>1, <2>3, <2>5 DEF Counted, Unstarted, Terminal
<1>8. CASE b = a /\ ReleaseResolve(t)
  <2>1. PICK e : e = IF effect[a].att = h.att THEN "unknown" ELSE effect[a].state
    OBVIOUS
  <2>2. PICK x : x = [attempts[a][h.att] EXCEPT !.state = "reconciling", !.intent = FALSE]
    OBVIOUS
  <2>3. /\ run' = run /\ h.pc = "rel_resolve" /\ h.att \in ActiveDispatches(a)
        /\ effect' = [effect EXCEPT ![a] = [effect[a] EXCEPT !.state = e]]
        /\ attempts' = [attempts EXCEPT ![a] = [attempts[a] EXCEPT ![h.att] = x]]
    BY <1>1, <1>2, <1>8, <2>1, <2>2
       DEF ReleaseResolve, At, BarrierHeld, ActiveDispatches, Act
  <2>4. effect'[a].state = e /\ effect'[a].att = effect[a].att
    BY <1>3, <2>3, EffectTyped
  <2>5. ActiveDispatches(a)' \subseteq ActiveDispatches(a)
    <3>1. ~PrepareDispatch(t)
      BY <1>1, <2>3 DEF PrepareDispatch, At
    <3> QED BY <1>3, <3>1, JournalMoves
  <2>6. h.att \notin ActiveDispatches(a)'
    <3>1. attempts[a] \in Seq(Attempt) /\ h.att \in DOMAIN attempts[a]
      BY <1>3, <2>3, AttemptsTyped DEF ActiveDispatches
    <3>2. x.state = "reconciling"
      <4>1. attempts[a][h.att] \in Attempt
        BY <3>1
      <4> QED BY <2>2, <4>1 DEF Attempt
    <3>3. attempts'[a] = [attempts[a] EXCEPT ![h.att] = x]
      BY <1>3, <2>3 DEF TypeInv, TypeOK
    <3>4. attempts'[a][h.att] = x
      BY <3>1, <3>3
    <3> QED BY <3>2, <3>4 DEF ActiveDispatches, IsActiveDispatch
  <2>7. run[a].state \notin Unstarted /\ run[a].marker = h.att
    BY <1>2, <1>3, <2>3 DEF Counted, Settled, Counting
  <2>8. CASE effect[a].att = h.att
    <3>1. run[a].unresolved = 1
      BY <1>3, <2>3, <2>7, <2>8 DEF Counted
    <3> QED BY <1>8, <2>3, <2>4, <2>6, <2>7, <2>8, <3>1 DEF Counted
  <2>9. CASE effect[a].att # h.att
    <3>1. effect'[a].state = effect[a].state
      BY <2>1, <2>4, <2>9
    <3>2. Unknown(a)' = Unknown(a)
      BY <3>1 DEF Unknown
    <3> QED BY <1>3, <1>8, <2>3, <2>4, <2>5, <2>7, <3>1, <3>2 DEF Counted
  <2> QED BY <2>8, <2>9
<1>9. CASE b = a /\ ~PrepareDispatch(t) /\ ~RecordEffects(t) /\ ~ReleaseResolve(t)
  <2>1. effect' = effect /\ ActiveDispatches(a)' \subseteq ActiveDispatches(a)
    BY <1>3, <1>9, EffectStays, JournalMoves
  <2>2. Unknown(a)' = Unknown(a) /\ (Settled(a) => Settled(a)')
    BY <2>1 DEF Unknown, Settled
  <2>3. SameBooks(a) \/ NewBooks(t, a) \/ MarkedBooks(t, a)
    BY <1>3, StepBooks
  <2>4. ASSUME run'[a].state \in Unstarted PROVE Settled(a) /\ ~Unknown(a)
    <3>1. RowMove(t, a)
      BY <1>3, RowMoves
    <3>2. CASE run[a].state = run'[a].state
      BY <1>3, <2>4, <3>2 DEF Counted
    <3>3. CASE Wait(t) \/ FinalOwned(t)
      BY <1>3, <2>4, <3>3, RequeueKnown
    <3> QED BY <2>4, <3>1, <3>2, <3>3 DEF RowMove
  <2>5. ASSUME run'[a].state \in Terminal \cup {"needs_review"}, Unknown(a)
        PROVE  run'[a].unresolved = 1
    <3>1. CASE SameBooks(a)
      <4>1. run'[a].state # "running"
        BY <2>5 DEF Terminal
      <4> QED BY <1>3, <2>5, <3>1, <4>1 DEF SameBooks, Counted
    <3>2. CASE NewBooks(t, a)
      <4>1. ~(FinalOwned(t) /\ th[t].res = "stopped")
        BY <1>3, <2>5, StopKnown
      <4>2. run'[a].state \notin Unstarted
        BY <2>5 DEF Terminal, Unstarted
      <4> QED BY <2>5, <3>2, <4>1, <4>2 DEF NewBooks
    <3>3. CASE MarkedBooks(t, a)
      BY <2>5, <3>3 DEF MarkedBooks
    <3> QED BY <2>3, <3>1, <3>2, <3>3
  <2>6. ASSUME effect[a].att \in ActiveDispatches(a)
        PROVE  /\ effect[a].state = "pending"
               /\ run'[a].marker = effect[a].att => run'[a].unresolved = 1
    <3>1. effect[a].state = "pending" /\ (run[a].marker = effect[a].att => run[a].unresolved = 1)
      BY <1>3, <2>6 DEF Counted
    <3>2. effect[a].att # 0
      BY <1>4, <2>6 DEF ActiveDispatches
    <3> QED BY <2>3, <3>1, <3>2 DEF SameBooks, NewBooks, MarkedBooks
  <2>7. Counted(a)'
    BY <2>1, <2>2, <2>4, <2>5, <2>6 DEF Counted
  <2> QED BY <1>9, <2>7
<1> QED BY <1>5, <1>6, <1>7, <1>8, <1>9

-----------------------------------------------------------------------------
(* The process, the clock and the callers count nothing *)

\* Books are kept, and a row that was not before effects is only reconciled.
BooksKept ==
    \A b \in Actions :
        /\ run'[b].marker = run[b].marker /\ run'[b].unresolved = run[b].unresolved
        /\ \/ run'[b].state \in {run[b].state, "reconciling"}
           \/ run[b].state \in Unstarted

\* A row that stays running is at most asked to stop.
RunningKept ==
    \A b \in Actions : run'[b].state = "running" =>
        /\ run[b].state = "running"
        /\ \/ run'[b].version = run[b].version /\ (run[b].cancel => run'[b].cancel)
           \/ run'[b].version = run[b].version + 1 /\ ~run[b].cancel /\ run'[b].cancel

LEMMA BooksCounted ==
    ASSUME BooksKept, NEW b \in Actions, Counted(b), effect' = effect,
           ActiveDispatches(b)' \subseteq ActiveDispatches(b)
    PROVE  Counted(b)'
<1>1. Unknown(b)' = Unknown(b) /\ (Settled(b) => Settled(b)')
  BY DEF Unknown, Settled
<1>2. /\ run'[b].marker = run[b].marker /\ run'[b].unresolved = run[b].unresolved
      /\ run'[b].state \in {run[b].state, "reconciling"} \/ run[b].state \in Unstarted
  BY DEF BooksKept
<1>3. run'[b].state \in Unstarted => run[b].state \in Unstarted
  BY <1>2 DEF Unstarted
<1>4. run'[b].state \in Terminal \cup {"needs_review"} /\ Unknown(b) => run'[b].unresolved = 1
  <2>1. "reconciling" \notin Terminal \cup {"needs_review"}
    BY DEF Terminal
  <2> QED BY <1>2, <2>1 DEF Counted
<1> QED BY <1>1, <1>2, <1>3, <1>4 DEF Counted

LEMMA DriftCounts ==
    ASSUME IInv, IInv', Control, Counts, BooksKept, RunningKept,
           UNCHANGED <<attempts, effect, th>>
    PROVE  Counts'
<1>1. ASSUME NEW b \in Actions PROVE Counted(b)'
  <2>1. ActiveDispatches(b)' = ActiveDispatches(b)
    BY DEF ActiveDispatches
  <2> QED BY <2>1, BooksCounted DEF Counts
<1>2. ASSUME NEW u \in Threads PROVE Counting(th[u])'
  <2>1. PICK h : h = th[u]
    OBVIOUS
  <2>2. /\ th'[u] = h /\ Counting(h) /\ Controlled(h) /\ h \in Thread
        /\ h.pc # "idle" => h.act \in Actions
    BY <2>1, ThreadTyped DEF Counts, Control, IInv
  <2>3. CASE h.pc = "idle"
    <3>1. Ended(h)
      BY <2>2, <2>3 DEF Controlled, Ended
    <3> QED BY <2>2, <3>1, EndedCounting
  <2>4. CASE h.pc # "idle"
    <3>1. PICK a \in Actions : a = h.act
      BY <2>2, <2>4
    <3>2. /\ run'[a].marker = run[a].marker
          /\ run'[a].state \in {run[a].state, "reconciling"} \/ run[a].state \in Unstarted
      BY DEF BooksKept
    <3>3. Free(h) => run'[a].state = "reconciling"
      BY <2>2, <3>1, <3>2 DEF Counting, Unstarted
    <3>4. h.pc = "rel_resolve" => run'[a].marker = h.att
      BY <2>2, <3>1, <3>2 DEF Counting
    <3>5. ASSUME Owning(h)' PROVE OwnerEffect(h)' /\ (Again(h) => Unmoved(h)')
      <4>1. run[a].version \in Nat /\ run'[a].version \in Nat /\ h.ver \in Nat
        <5>1. run[a] \in Row /\ run'[a] \in Row
          BY DEF IInv, TypeInv, TypeOK
        <5> QED BY <2>2, <5>1 DEF Row, Thread
      <4>2. h.claimed /\ run'[a].state = "running" /\ run'[a].version <= h.ver + 1
        BY <3>1, <3>5 DEF Owning
      <4>3. /\ run[a].state = "running"
            /\ \/ run'[a].version = run[a].version /\ (run[a].cancel => run'[a].cancel)
               \/ run'[a].version = run[a].version + 1 /\ ~run[a].cancel /\ run'[a].cancel
        BY <4>2 DEF RunningKept
      <4>4. run[a].version <= h.ver + 1
        BY <4>1, <4>2, <4>3
      <4>5. Owning(h)
        BY <3>1, <4>2, <4>3, <4>4 DEF Owning
      <4>6. OwnerEffect(h) /\ (Again(h) => Unmoved(h))
        BY <2>2, <4>5 DEF Counting
      <4>7. OwnerEffect(h)'
        BY <4>6 DEF OwnerEffect, Unknown
      <4>8. ASSUME Again(h) PROVE Unmoved(h)'
        <5>1. h.pc # "wait"
          BY <4>6, <4>8 DEF Unmoved
        <5>2. run[a].version = h.ver \/ (run[a].version = h.ver + 1 /\ run[a].cancel)
          BY <3>1, <4>6, <4>8 DEF Unmoved
        <5>3. run'[a].version = h.ver \/ (run'[a].version = h.ver + 1 /\ run'[a].cancel)
          <6>1. CASE run'[a].version = run[a].version /\ (run[a].cancel => run'[a].cancel)
            BY <5>2, <6>1
          <6>2. CASE run'[a].version = run[a].version + 1 /\ ~run[a].cancel /\ run'[a].cancel
            BY <5>2, <6>2
          <6> QED BY <4>3, <6>1, <6>2
        <5> QED BY <3>1, <5>1, <5>3 DEF Unmoved
      <4> QED BY <4>7, <4>8
    <3>6. Counting(h)'
      BY <3>1, <3>3, <3>4, <3>5 DEF Counting, Free, Again
    <3> QED BY <2>2, <3>6, CountingAt
  <2> QED BY <2>3, <2>4
<1> QED BY <1>1, <1>2 DEF Counts

\* The rows that a restart, an expired lease or a stop before the start leaves.
LEMMA FinalizedBooks ==
    ASSUME NEW row, {"state", "marker", "unresolved"} \subseteq DOMAIN row, NEW s
    PROVE  /\ Finalized(row, s).marker = row.marker /\ Finalized(row, s).unresolved = row.unresolved
           /\ Finalized(row, s).state = s /\ DOMAIN Finalized(row, s) = DOMAIN row
           /\ Recovered(row).marker = row.marker /\ Recovered(row).unresolved = row.unresolved
           /\ Recovered(row).state = "reconciling" /\ DOMAIN Recovered(row) = DOMAIN row
<1>1. PICK v : v = row.version + 1
  OBVIOUS
<1>2. PICK f : f = [row EXCEPT !.state = s, !.version = v, !.by = None, !.expired = FALSE]
  OBVIOUS
<1>3. PICK r : r = [row EXCEPT !.state = "reconciling", !.version = v, !.by = None,
                               !.expired = FALSE]
  OBVIOUS
<1>4. /\ f.marker = row.marker /\ f.unresolved = row.unresolved /\ f.state = s
      /\ DOMAIN f = DOMAIN row
  BY <1>2
<1>5. /\ r.marker = row.marker /\ r.unresolved = row.unresolved /\ r.state = "reconciling"
      /\ DOMAIN r = DOMAIN row
  BY <1>3
<1> QED BY <1>1, <1>2, <1>3, <1>4, <1>5 DEF Finalized, Recovered

LEMMA DriftBooks ==
    ASSUME TypeInv,
           \/ RecoverExpired \/ FinalizeCancelled \/ FinalizeDeadline
           \/ \E a \in Actions : RequestCancellation(a) \/ CancelLinked(a) \/ LeaseExpires(a)
    PROVE  BooksKept /\ RunningKept
<1>1. \A b \in Actions : run[b] \in Row /\ {"state", "marker", "unresolved"} \subseteq DOMAIN run[b]
  BY RowTyped DEF Row
<1>2. ASSUME \A b \in Actions :
                \/ run'[b] = run[b]
                \/ run'[b] = Recovered(run[b])
                \/ \E s \in Terminal : run[b].state \in Unstarted /\ run'[b] = Finalized(run[b], s)
      PROVE  BooksKept /\ RunningKept
  <2>1. ASSUME NEW b \in Actions
        PROVE  /\ run'[b].marker = run[b].marker /\ run'[b].unresolved = run[b].unresolved
               /\ \/ run'[b].state \in {run[b].state, "reconciling"}
                  \/ run[b].state \in Unstarted
               /\ run'[b].state = "running" => run'[b] = run[b]
    <3>1. CASE run'[b] = run[b]
      BY <3>1
    <3>2. CASE run'[b] = Recovered(run[b])
      BY <1>1, <3>2, FinalizedBooks
    <3>3. ASSUME NEW s \in Terminal, run[b].state \in Unstarted, run'[b] = Finalized(run[b], s)
          PROVE  /\ run'[b].marker = run[b].marker /\ run'[b].unresolved = run[b].unresolved
                 /\ run'[b].state # "running"
      <4>1. s # "running"
        BY DEF Terminal
      <4> QED BY <1>1, <3>3, <4>1, FinalizedBooks
    <3> QED BY <1>2, <3>1, <3>2, <3>3
  <2> QED BY <2>1 DEF BooksKept, RunningKept
<1>3. CASE RecoverExpired
  <2>1. \A b \in Actions : run'[b] = run[b] \/ run'[b] = Recovered(run[b])
    BY <1>3 DEF RecoverExpired
  <2> QED BY <1>2, <2>1
<1>4. CASE FinalizeCancelled
  <2>1. "cancelled" \in Terminal
    BY DEF Terminal
  <2>2. \A b \in Actions :
           \/ run'[b] = run[b]
           \/ run[b].state \in Unstarted /\ run'[b] = Finalized(run[b], "cancelled")
    BY <1>4 DEF FinalizeCancelled, FinalizeCancelledRows
  <2> QED BY <1>2, <2>1, <2>2
<1>5. CASE FinalizeDeadline
  <2>1. "deadline_exceeded" \in Terminal
    BY DEF Terminal
  <2>2. \A b \in Actions :
           \/ run'[b] = run[b]
           \/ run[b].state \in Unstarted /\ run'[b] = Finalized(run[b], "deadline_exceeded")
    BY <1>5 DEF FinalizeDeadline, FinalizeDeadlineRows
  <2> QED BY <1>2, <2>1, <2>2
<1>6. ASSUME NEW a \in Actions, NEW row, run' = [run EXCEPT ![a] = row],
             row.marker = run[a].marker, row.unresolved = run[a].unresolved,
             row.state = run[a].state,
             \/ row.version = run[a].version /\ (run[a].cancel => row.cancel)
             \/ row.version = run[a].version + 1 /\ ~run[a].cancel /\ row.cancel
      PROVE  BooksKept /\ RunningKept
  <2>1. \A b \in Actions : run'[b] = IF b = a THEN row ELSE run[b]
    BY <1>6 DEF TypeInv, TypeOK
  <2> QED BY <1>6, <2>1 DEF BooksKept, RunningKept
<1>7. ASSUME NEW a \in Actions, RequestCancellation(a) PROVE BooksKept /\ RunningKept
  <2>1. PICK v : v = run[a].version + 1
    OBVIOUS
  <2>2. PICK row : row = [run[a] EXCEPT !.cancel = TRUE, !.version = v]
    OBVIOUS
  <2>3. run' = [run EXCEPT ![a] = row] /\ ~run[a].cancel
    BY <1>7, <2>1, <2>2 DEF RequestCancellation
  <2>4. /\ row.marker = run[a].marker /\ row.unresolved = run[a].unresolved
        /\ row.state = run[a].state /\ row.version = v /\ row.cancel
    BY <1>1, <2>2 DEF Row
  <2> QED BY <1>6, <2>1, <2>3, <2>4
<1>8. ASSUME NEW a \in Actions, CancelLinked(a) PROVE BooksKept /\ RunningKept
  <2>1. PICK row : row = [run[a] EXCEPT !.cancel = TRUE]
    OBVIOUS
  <2>2. run' = [run EXCEPT ![a] = row]
    BY <1>8, <2>1 DEF CancelLinked
  <2>3. /\ row.marker = run[a].marker /\ row.unresolved = run[a].unresolved
        /\ row.state = run[a].state /\ row.version = run[a].version /\ row.cancel
    BY <1>1, <2>1 DEF Row
  <2> QED BY <1>6, <2>2, <2>3
<1>9. ASSUME NEW a \in Actions, LeaseExpires(a) PROVE BooksKept /\ RunningKept
  <2>1. PICK row : row = [run[a] EXCEPT !.expired = TRUE]
    OBVIOUS
  <2>2. run' = [run EXCEPT ![a] = row]
    BY <1>9, <2>1 DEF LeaseExpires
  <2>3. /\ row.marker = run[a].marker /\ row.unresolved = run[a].unresolved
        /\ row.state = run[a].state /\ row.version = run[a].version /\ row.cancel = run[a].cancel
    BY <1>1, <2>1 DEF Row
  <2> QED BY <1>6, <2>2, <2>3
<1> QED BY <1>3, <1>4, <1>5, <1>7, <1>8, <1>9

-----------------------------------------------------------------------------
LEMMA RecoverCounts ==
    ASSUME IInv, Control, Up, Counts, Recover
    PROVE  Counts'
<1>1. TypeInv
  BY DEF IInv
<1>2. ASSUME NEW u \in Threads PROVE Counting(th[u])'
  <2>1. th'[u] = th[u] /\ th[u].pc = "idle" /\ Controlled(th[u])
    BY DEF Recover, Up, Control
  <2>2. Ended(th'[u])
    BY <2>1 DEF Controlled, Ended
  <2> QED BY <2>2, EndedCounting
<1>3. BooksKept
  <2>1. ASSUME NEW b \in Actions
        PROVE  /\ run'[b].marker = run[b].marker /\ run'[b].unresolved = run[b].unresolved
               /\ \/ run'[b].state \in {run[b].state, "reconciling"}
                  \/ run[b].state \in Unstarted
    <3> DEFINE Fields == {"state", "marker", "unresolved"}
               x == IF HasClaim(run[b]) THEN Recovered(run[b]) ELSE run[b]
               y == IF x.state \in Unstarted /\ x.cancel THEN Finalized(x, "cancelled") ELSE x
               z == IF y.state \in Unstarted /\ ~y.cancel /\ overdue[b]
                    THEN Finalized(y, "deadline_exceeded") ELSE y
    <3>1. Fields \subseteq DOMAIN run[b]
      BY <1>1, RowTyped DEF Row
    <3>2. run'[b] = z
      BY DEF Recover, RecoverRunningRows, FinalizeCancelledRows, FinalizeDeadlineRows
    <3>3. /\ x.marker = run[b].marker /\ x.unresolved = run[b].unresolved /\ Fields \subseteq DOMAIN x
          /\ x.state \in {run[b].state, "reconciling"}
      BY <3>1, FinalizedBooks
    <3> HIDE DEF x
    <3>4. /\ y.marker = x.marker /\ y.unresolved = x.unresolved /\ Fields \subseteq DOMAIN y
          /\ y.state = x.state \/ x.state \in Unstarted
      BY <3>3, FinalizedBooks
    <3> HIDE DEF y
    <3>5. /\ z.marker = y.marker /\ z.unresolved = y.unresolved
          /\ z.state = y.state \/ y.state \in Unstarted
      BY <3>4, FinalizedBooks
    <3> HIDE DEF z
    <3>6. "reconciling" \notin Unstarted
      BY DEF Unstarted
    <3> QED BY <3>2, <3>3, <3>4, <3>5, <3>6
  <2> QED BY <2>1 DEF BooksKept
<1>4. ASSUME NEW b \in Actions PROVE Counted(b)'
  <2>1. attempts'[b] = [n \in DOMAIN attempts[b] |->
                          IF attempts[b][n].state = "running"
                          THEN [attempts[b][n] EXCEPT !.state = "reconciling"]
                          ELSE attempts[b][n]]
    BY DEF Recover, RecoverRunningAttempts
  <2>2. \A n \in DOMAIN attempts[b] : attempts[b][n] \in Attempt
    BY <1>1, AttemptsTyped
  <2>3. ASSUME NEW n \in DOMAIN attempts[b] PROVE attempts'[b][n].state # "running"
    BY <2>1, <2>2 DEF Attempt
  <2>4. ActiveDispatches(b)' \subseteq ActiveDispatches(b)
    BY <2>1, <2>3 DEF ActiveDispatches, IsActiveDispatch
  <2>5. effect' = effect
    BY DEF Recover
  <2> QED BY <1>3, <2>4, <2>5, BooksCounted DEF Counts
<1> QED BY <1>2, <1>4 DEF Counts

\* A pass that starts without a claim starts from a reconciling row.
LEMMA PickCounts ==
    ASSUME IInv, Control, Counts, NEW t \in Threads, NEW a \in Actions,
           Pick(t, a) \/ PickById(t, a)
    PROVE  Counts'
<1>1. UNCHANGED <<run, attempts, effect>> /\ TypeInv
  BY DEF Pick, PickById, IInv
<1>2. ASSUME NEW r, th' = [th EXCEPT ![t] = r], r.act = a, ~r.claimed, r.pc # "rel_resolve",
             r.phase = "reconcile" => run[a].state = "reconciling"
      PROVE  (\A u \in Threads \ {t} : th'[u] = th[u]) /\ Counting(th[t])'
  <2>1. th'[t] = r
    BY <1>1, <1>2 DEF TypeInv, TypeOK
  <2>2. Counting(r)'
    BY <1>1, <1>2 DEF Counting, Free, Owning
  <2> QED BY <1>1, <1>2, <2>1, <2>2, CountingAt, OthersStay
<1>3. (\A u \in Threads \ {t} : th'[u] = th[u]) /\ Counting(th[t])'
  <2>1. CASE Pick(t, a)
    <3>1. PICK free \in BOOLEAN : free = (run[a].state = "reconciling" /\ Stopped(a))
      OBVIOUS
    <3>2. PICK p : p = IF free THEN "rec_find" ELSE "claim"
      OBVIOUS
    <3>3. PICK q : q = IF free THEN "reconcile" ELSE "none"
      OBVIOUS
    <3>4. PICK r : r = [Idle EXCEPT !.pc = p, !.act = a, !.ver = run[a].version,
                           !.from = run[a].state, !.mark = run[a].marker, !.phase = q,
                           !.keep = free]
      OBVIOUS
    <3>5. th' = [th EXCEPT ![t] = r]
      BY <2>1, <3>1, <3>2, <3>3, <3>4 DEF Pick
    <3>6. r.pc = p /\ r.act = a /\ ~r.claimed /\ r.phase = q
      BY <3>4 DEF Idle
    <3>7. q = "reconcile" => run[a].state = "reconciling"
      BY <3>1, <3>3
    <3> QED BY <1>2, <3>2, <3>5, <3>6, <3>7
  <2>2. CASE PickById(t, a)
    <3>1. PICK r : r = [Idle EXCEPT !.pc = "claim", !.act = a, !.ver = run[a].version]
      OBVIOUS
    <3>2. r.pc = "claim" /\ r.act = a /\ ~r.claimed /\ r.phase = "none"
      BY <3>1 DEF Idle
    <3>3. th' = [th EXCEPT ![t] = r]
      BY <2>2, <3>1 DEF PickById
    <3> QED BY <1>2, <3>2, <3>3
  <2> QED BY <2>1, <2>2
<1>4. ASSUME NEW u \in Threads \ {t} PROVE Counting(th[u])'
  <2>1. PICK h : h = th[u]
    OBVIOUS
  <2>2. Counting(h)'
    BY <1>1, <2>1
       DEF Counts, Counting, Free, Owning, OwnerEffect, Unmoved, Fresh, Again, Unknown
  <2> QED BY <1>3, <2>1, <2>2, CountingAt
<1>5. ASSUME NEW b \in Actions PROVE Counted(b)'
  <2>1. ActiveDispatches(b)' = ActiveDispatches(b)
    BY <1>1 DEF ActiveDispatches
  <2> QED BY <1>1, <2>1, CountedKept DEF Counts
<1> QED BY <1>3, <1>4, <1>5 DEF Counts

LEMMA InitCounts == Init => Counts
<1> SUFFICES ASSUME Init PROVE Counts
  OBVIOUS
<1>1. ASSUME NEW t \in Threads PROVE Counting(th[t])
  <2>1. ~th[t].claimed /\ th[t].phase = "none" /\ th[t].pc = "idle"
    BY DEF Init, Idle
  <2> QED BY <2>1 DEF Counting, Owning, Free
<1>2. ASSUME NEW a \in Actions PROVE Counted(a)
  <2>1. ActiveDispatches(a) = {} /\ effect[a].state = "none"
    BY DEF Init, ActiveDispatches
  <2> QED BY <2>1 DEF Counted, Settled, Unknown
<1> QED BY <1>1, <1>2 DEF Counts

\* A single goroutine executes the actions.
Alone == \A t, u \in Threads : t = u

LEMMA NextCounts ==
    ASSUME IInv, Control, Bounds, Up, Exclusive, Counts, [Next]_vars, Alone, Overlap = {},
           "reserve" \notin FaultPoints
    PROVE  Counts'
<1>1. IInv' /\ TypeInv
  BY NextKeeps DEF IInv
<1>2. ASSUME UNCHANGED <<run, attempts, effect, th>> PROVE Counts'
  <2>1. BooksKept /\ RunningKept
    BY <1>2 DEF BooksKept, RunningKept
  <2> QED BY <1>1, <1>2, <2>1, DriftCounts
<1>3. CASE UNCHANGED vars
  BY <1>2, <1>3 DEF vars
<1>4. CASE Crash
  <2>1. ASSUME NEW u \in Threads PROVE Counting(th[u])'
    <3>1. th'[u] = Idle
      BY <1>4 DEF Crash
    <3>2. Ended(th'[u])
      BY <3>1 DEF Ended, Idle
    <3> QED BY <3>2, EndedCounting
  <2>2. ASSUME NEW b \in Actions PROVE Counted(b)'
    <3>1. UNCHANGED <<run, attempts, effect>>
      BY <1>4 DEF Crash
    <3>2. ActiveDispatches(b)' = ActiveDispatches(b)
      BY <3>1 DEF ActiveDispatches
    <3> QED BY <3>1, <3>2, CountedKept DEF Counts
  <2> QED BY <2>1, <2>2 DEF Counts
<1>5. CASE Recover
  BY <1>5, RecoverCounts
<1>6. CASE RecoverExpired \/ FinalizeCancelled \/ FinalizeDeadline
  <2>1. BooksKept /\ RunningKept
    BY <1>1, <1>6, DriftBooks
  <2>2. UNCHANGED <<attempts, effect, th>>
    BY <1>6 DEF RecoverExpired, FinalizeCancelled, FinalizeDeadline
  <2> QED BY <1>1, <2>1, <2>2, DriftCounts
<1>7. ASSUME NEW a \in Actions, RequestCancellation(a) \/ CancelLinked(a) \/ LeaseExpires(a)
      PROVE  Counts'
  <2>1. BooksKept /\ RunningKept
    BY <1>1, <1>7, DriftBooks
  <2>2. UNCHANGED <<attempts, effect, th>>
    BY <1>7 DEF RequestCancellation, CancelLinked, LeaseExpires
  <2> QED BY <1>1, <2>1, <2>2, DriftCounts
<1>8. ASSUME NEW a \in Actions, Land(a) \/ Drop(a) \/ Establish(a) \/ DeadlinePasses(a)
      PROVE  Counts'
  <2>1. UNCHANGED <<run, attempts, effect, th>>
    BY <1>8 DEF Land, Drop, Establish, DeadlinePasses
  <2> QED BY <1>2, <2>1
<1>9. CASE Environment
  BY <1>4, <1>5, <1>6, <1>7, <1>8, <1>9 DEF Environment
<1>10. ASSUME NEW t \in Threads, Step(t)
       PROVE  Counts'
  <2>1. ASSUME NEW u \in Threads PROVE Counting(th[u])'
    <3>1. u = t
      BY DEF Alone
    <3> QED BY <1>10, <3>1, OwnCounting
  <2>2. ASSUME NEW b \in Actions PROVE Counted(b)'
    BY <1>10, StepCounted
  <2> QED BY <2>1, <2>2 DEF Counts
<1>11. ASSUME NEW t \in Threads, NEW a \in Actions, Pick(t, a) \/ PickById(t, a)
       PROVE  Counts'
  BY <1>11, PickCounts
<1> QED BY <1>3, <1>9, <1>10, <1>11 DEF Next

LEMMA AlwaysCounts ==
    ASSUME Alone, Overlap = {}, "reserve" \notin FaultPoints
    PROVE  Spec => []Counts
<1>1. Init => Counts
  BY InitCounts
<1>2. IInv /\ Control /\ Bounds /\ Up /\ Exclusive /\ Counts /\ [Next]_vars => Counts'
  BY NextCounts
<1> QED BY <1>1, <1>2, AlwaysControl, AlwaysGuarded, AlwaysExclusive, PTL DEF Spec

\* With one poller the count of unresolved effects that a terminal or held
\* action reports covers its unknown effect, whatever crashes, faults, retries,
\* cancellations and late returns came before.
THEOREM UnknownCounted ==
    ASSUME Alone, Overlap = {}, "reserve" \notin FaultPoints
    PROVE  Spec => []UnknownIsCounted
<1>1. Counts => UnknownIsCounted
  BY DEF Counts, Counted, Unknown, UnknownIsCounted
<1> QED BY <1>1, AlwaysCounts, PTL
=============================================================================
