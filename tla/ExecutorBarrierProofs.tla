------------------------ MODULE ExecutorBarrierProofs ------------------------
(***************************************************************************)
(* The dispatch barrier, for every set of actions, goroutines and executors *)
(* and every value of the bounds.  Without any assumption, a handler that   *)
(* may be writing upstream has its attempt running in the journal.  If no   *)
(* two actions conflict and no reservation transaction fails, then at most  *)
(* one handler dispatches an action, none does once it is terminal, a new   *)
(* dispatch comes only after the last one was settled, the mutation is made *)
(* at most once, and until an action is stopped its durable keys outlive    *)
(* whatever leaves its effect open.                                        *)
(***************************************************************************)
EXTENDS ExecutorLifeProofs

USE DEF Outside, Entering, Observing, Sending, Closing, Releasing, Reconciling

-----------------------------------------------------------------------------
(* The barrier of a dispatching goroutine *)

\* Between prepareDispatch and the return of the handler.
LivePoint == {"before", "dispatch"}

\* The attempts of an action that exist, and 0 for none.
Known(a) == {0} \cup DOMAIN attempts[a]

\* Whatever names an attempt names one that exists.
Bounds ==
    /\ \A t \in Threads : th[t].pc # "idle" =>
          th[t].att \in Known(Act(t)) /\ th[t].mark \in Known(Act(t))
    /\ \A t \in Threads : th[t].pc = "idle" => th[t].att = 0 /\ th[t].mark = 0
    /\ \A a \in Actions : run[a].marker \in Known(a) /\ effect[a].att \in Known(a)
    /\ \A p \in fallback : p[2] \in Known(p[1])

\* Nobody may release the barrier of a goroutine whose handler has not
\* returned: nothing says that it has, and nobody else names its attempt.
GuardedBy(t) ==
    LET a == Act(t)
        n == th[t].att
    IN  /\ n \in DOMAIN attempts[a]
        /\ IsActiveDispatch(attempts[a][n]) /\ ~attempts[a][n].intent
        /\ run[a].marker # n /\ <<a, n>> \notin fallback
        /\ \A u \in Threads \ {t} : Act(u) = a => th[u].att # n /\ th[u].mark # n

Guarded == \A t \in Threads : th[t].pc \in LivePoint => GuardedBy(t)

\* No goroutine runs before startup recovery has completed.
Up == ~up => \A t \in Threads : th[t].pc = "idle"

\* The next state of a goroutine names no attempt it did not name before.
Plain(t, r) ==
    /\ r.pc = "idle" => r.att = 0 /\ r.mark = 0
    /\ r.pc # "idle" => r.act = th[t].act
    /\ r.mark \in {0, th[t].mark}
    /\ r.att \in {0, th[t].att}
    /\ r.pc \in LivePoint => th[t].pc \in LivePoint /\ r.att = th[t].att

LEMMA IdlePlain ==
    ASSUME NEW t \in Threads
    PROVE  Plain(t, Idle)
  BY DEF Plain, Idle, LivePoint

LEMMA FinishingPlain ==
    ASSUME NEW t \in Threads, NEW keep
    PROVE  Plain(t, Finishing(t, keep))
  BY DEF Plain, Finishing, Idle, LivePoint, Act

LEMMA LeavePlain ==
    ASSUME TypeInv, NEW t \in Threads, NEW keep
    PROVE  Plain(t, Leave(t, keep))
<1> DEFINE r == [th[t] EXCEPT !.pc = "rel_intent", !.back = "finish", !.keep = keep,
                              !.ierr = FALSE, !.res = "none"]
<1>1. /\ r.pc = "rel_intent" /\ r.act = th[t].act
      /\ r.mark = th[t].mark /\ r.att = th[t].att
  BY ThreadTyped DEF Thread
<1> HIDE DEF r
<1>2. Plain(t, r)
  BY <1>1 DEF Plain, LivePoint
<1> USE DEF r
<1> QED BY <1>2, IdlePlain, FinishingPlain DEF Leave

LEMMA AfterReleasePlain ==
    ASSUME TypeInv, NEW t \in Threads
    PROVE  Plain(t, AfterRelease(t))
<1> DEFINE r == [th[t] EXCEPT !.pc = "rec_refresh"]
<1>1. /\ r.pc = "rec_refresh" /\ r.act = th[t].act
      /\ r.mark = th[t].mark /\ r.att = th[t].att
  BY ThreadTyped DEF Thread
<1> HIDE DEF r
<1>2. Plain(t, r)
  BY <1>1 DEF Plain, LivePoint
<1> USE DEF r
<1> QED BY <1>2, IdlePlain, FinishingPlain DEF AfterRelease

\* All steps but those that claim, find a returned dispatch or take another
\* attempt are plain.
LEMMA StepPlain ==
    ASSUME TypeInv, NEW t \in Threads, Step(t),
           ~(\/ Claim(t) \/ ObserveBegin(t) \/ PrepareDispatch(t) \/ ReconcileFind(t)
             \/ ReconcileReuse(t) \/ ReconcileBegin(t))
    PROVE  \E r : th' = [th EXCEPT ![t] = r] /\ Plain(t, r)
<1>1. th[t] \in Thread
  BY ThreadTyped
<1>2. Plain(t, Idle) /\ Plain(t, AfterRelease(t)) /\ \A k : Plain(t, Leave(t, k))
  BY IdlePlain, AfterReleasePlain, LeavePlain
<1>3. ASSUME NEW p, p \notin LivePoint, p # "idle"
      PROVE  Plain(t, [th[t] EXCEPT !.pc = p])
  BY <1>1, <1>3 DEF Plain, Thread
<1>4. \A p : Goto(t, p) => th' = [th EXCEPT ![t] = [th[t] EXCEPT !.pc = p]]
  BY DEF Goto
<1>5. CASE HoldUnhandled(t) \/ BarrierGiveUp(t) \/ Finish(t)
  BY <1>2, <1>5 DEF HoldUnhandled, BarrierGiveUp, Finish
<1>6. CASE \/ AcquireReservations(t) \/ ReserveRefused(t) \/ CloseAttempt(t)
           \/ RecordEffects(t) \/ ReconcileActive(t)
  BY <1>3, <1>4, <1>6 DEF AcquireReservations, ReserveRefused, CloseAttempt, RecordEffects,
     ReconcileActive, LivePoint
<1>7. CASE ReleaseMark(t) \/ BarrierRetry(t)
  BY <1>3, <1>4, <1>7 DEF ReleaseMark, BarrierRetry, LivePoint
<1>8. CASE Wait(t) \/ FinalOwned(t) \/ FinalNotStopped(t) \/ DeferActiveDispatch(t)
           \/ FinalFree(t) \/ FenceLost(t) \/ JournalFull(t)
  BY <1>2, <1>8 DEF Wait, FinalOwned, FinalNotStopped, DeferActiveDispatch, FinalFree,
     FenceLost, JournalFull
<1>9. CASE ReleaseResolved(t) \/ ReleaseResolve(t)
  BY <1>2, <1>9 DEF ReleaseResolved, ReleaseResolve
<1>10. CASE Reserve(t)
  <2> DEFINE r1 == [th[t] EXCEPT !.pc = "rec_find", !.phase = "reconcile", !.from = "queued"]
             r2 == [th[t] EXCEPT !.pc = "obs_new", !.phase = "observe", !.from = "queued",
                                 !.mark = 0]
  <2>1. th' = [th EXCEPT ![t] = r1] \/ th' = [th EXCEPT ![t] = r2]
    BY <1>10 DEF Reserve
  <2>2. Plain(t, r1)
    BY <1>1 DEF Plain, Thread, LivePoint
  <2>3. Plain(t, r2)
    BY <1>1 DEF Plain, Thread, LivePoint
  <2> HIDE DEF r1, r2
  <2> QED BY <2>1, <2>2, <2>3
<1>11. CASE ObserveReturn(t) \/ DispatchReturn(t) \/ ReconcileReturn(t)
            \/ BeforeDispatchCancelled(t)
  <2> DEFINE r(v) == [th[t] EXCEPT !.pc = "close", !.res = v]
             s(v) == [th[t] EXCEPT !.pc = "close", !.res = v, !.sent = FALSE]
  <2>1. ASSUME NEW v PROVE Plain(t, r(v))
    BY <1>1 DEF Plain, Thread, LivePoint
  <2>2. ASSUME NEW v PROVE Plain(t, s(v))
    BY <1>1 DEF Plain, Thread, LivePoint
  <2>3. Plain(t, [th[t] EXCEPT !.pc = "prepare"])
    BY <1>3 DEF LivePoint
  <2>4. CASE ObserveReturn(t)
    BY <2>1, <2>3, <2>4 DEF ObserveReturn
  <2>5. CASE DispatchReturn(t)
    <3>1. PICK v : th' = [th EXCEPT ![t].pc = "close", ![t].res = v, ![t].sent = FALSE]
      BY <2>5 DEF DispatchReturn
    <3>2. th' = [th EXCEPT ![t] = s(v)]
      BY <3>1 DEF TypeInv, TypeOK, Thread
    <3> QED BY <2>2, <3>2
  <2>6. CASE ReconcileReturn(t)
    <3>1. PICK v : th' = [th EXCEPT ![t].pc = "close", ![t].res = v]
      BY <2>6 DEF ReconcileReturn
    <3>2. th' = [th EXCEPT ![t] = r(v)]
      BY <3>1 DEF TypeInv, TypeOK, Thread
    <3> QED BY <2>1, <3>2
  <2>7. CASE BeforeDispatchCancelled(t)
    <3>1. th' = [th EXCEPT ![t] = r("stopped")]
      BY <2>7 DEF BeforeDispatchCancelled, TypeInv, TypeOK, Thread
    <3> QED BY <2>1, <3>1
  <2> QED BY <1>11, <2>4, <2>5, <2>6, <2>7
<1>12. CASE BeforeDispatch(t)
  <2> DEFINE r1 == [th[t] EXCEPT !.pc = "close", !.res = "stopped"]
             r2 == [th[t] EXCEPT !.pc = "dispatch"]
  <2>1. /\ \/ th' = [th EXCEPT ![t] = r1] \/ th' = [th EXCEPT ![t] = r2]
           \/ th' = [th EXCEPT ![t] = Leave(t, FALSE)]
        /\ th[t].pc = "before"
    BY <1>12 DEF BeforeDispatch, At
  <2>2. Plain(t, r1)
    BY <1>1 DEF Plain, Thread, LivePoint
  <2>3. Plain(t, r2)
    BY <1>1, <2>1 DEF Plain, Thread, LivePoint
  <2> HIDE DEF r1, r2
  <2> QED BY <1>2, <2>1, <2>2, <2>3
<1>13. CASE DispatchSend(t)
  <2> DEFINE r == [th[t] EXCEPT !.sent = TRUE]
  <2>1. th' = [th EXCEPT ![t] = r] /\ th[t].pc = "dispatch"
    BY <1>13 DEF DispatchSend, At
  <2>2. Plain(t, r)
    BY <1>1, <2>1 DEF Plain, Thread, LivePoint
  <2> QED BY <2>1, <2>2
<1>14. CASE EffectsRefused(t) \/ JournalFails(t)
  <2> DEFINE r == [th[t] EXCEPT !.pc = "close", !.res = "review"]
  <2>1. th' = [th EXCEPT ![t] = r] \/ \E k : th' = [th EXCEPT ![t] = Leave(t, k)]
    BY <1>14 DEF EffectsRefused, JournalFails
  <2>2. Plain(t, r)
    BY <1>1 DEF Plain, Thread, LivePoint
  <2> HIDE DEF r
  <2> QED BY <1>2, <2>1, <2>2
<1>15. CASE ReconcileRefresh(t)
  <2> DEFINE v == IF th[t].claimed THEN run[Act(t)].version ELSE th[t].ver
             go == [th[t] EXCEPT !.pc = "rec_active", !.att = 0, !.back = "none", !.ver = v]
  <2>1. th' = [th EXCEPT ![t] = go] \/ \E k : th' = [th EXCEPT ![t] = Leave(t, k)]
    BY <1>15 DEF ReconcileRefresh
  <2>2. Plain(t, go)
    <3> HIDE DEF v
    <3> QED BY <1>1 DEF Plain, Thread, LivePoint
  <2> HIDE DEF go
  <2> QED BY <1>2, <2>1, <2>2
<1>16. CASE ReleaseIntent(t)
  <2> DEFINE r1 == [th[t] EXCEPT !.pc = "rel_mark"]
             r2 == [th[t] EXCEPT !.pc = "rel_mark", !.ierr = TRUE]
  <2>1. th' = [th EXCEPT ![t] = r1] \/ th' = [th EXCEPT ![t] = r2]
    BY <1>16 DEF ReleaseIntent, Goto, TypeInv, TypeOK, Thread
  <2>2. Plain(t, r1)
    BY <1>3 DEF LivePoint
  <2>3. Plain(t, r2)
    BY <1>1 DEF Plain, Thread, LivePoint
  <2> HIDE DEF r1, r2
  <2> QED BY <2>1, <2>2, <2>3
<1>17. CASE ReleaseFailed(t)
  <2> DEFINE r == [Idle EXCEPT !.pc = "bg", !.act = Act(t), !.att = th[t].att, !.back = "bg"]
  <2>1. th' = [th EXCEPT ![t] = r]
    BY <1>17 DEF ReleaseFailed
  <2>2. Plain(t, r)
    BY DEF Plain, Idle, LivePoint, Act
  <2> QED BY <2>1, <2>2
<1> QED BY <1>5, <1>6, <1>7, <1>8, <1>9, <1>10, <1>11, <1>12, <1>13, <1>14, <1>15, <1>16,
           <1>17 DEF Step

-----------------------------------------------------------------------------
(* What a step writes *)

\* A step of t keeps every attempt but the one t names.
JournalKept(t) ==
    \A b \in Actions :
        /\ DOMAIN attempts[b] \subseteq DOMAIN attempts'[b]
        /\ \A n \in DOMAIN attempts[b] :
              attempts'[b][n] = attempts[b][n] \/ (b = Act(t) /\ n = th[t].att)

\* Only ReleaseMark sets a marker, to the attempt the goroutine names.
MarkersKept(t) ==
    \A b \in Actions : \/ run'[b].marker \in {run[b].marker, 0}
                       \/ b = Act(t) /\ run'[b].marker = th[t].att

\* An effect row stays bound, or is bound to the attempt of the goroutine.
EffectsKept(t) ==
    \A b \in Actions : \/ effect'[b].att = effect[b].att
                       \/ b = Act(t) /\ effect'[b].att \in {th[t].att, th'[t].att}

Writes(t) ==
    /\ JournalKept(t) /\ MarkersKept(t) /\ EffectsKept(t)
    /\ fallback' \subseteq fallback \cup {Barrier(t)}
    /\ th[t].pc \in LivePoint => UNCHANGED <<run, attempts, effect, fallback>>

LEMMA AppendKept ==
    ASSUME NEW s \in Seq(Attempt), NEW x \in Attempt
    PROVE  /\ Len(s) + 1 \notin DOMAIN s /\ Len(s) + 1 # 0
           /\ DOMAIN Append(s, x) = DOMAIN s \cup {Len(s) + 1}
           /\ Append(s, x)[Len(s) + 1] = x
           /\ \A n \in DOMAIN s : Append(s, x)[n] = s[n]
<1>1. Len(s) \in Nat /\ DOMAIN s = 1..Len(s)
  OBVIOUS
<1>2. Len(Append(s, x)) = Len(s) + 1 /\ DOMAIN Append(s, x) = 1..(Len(s) + 1)
  OBVIOUS
<1>3. \A n \in 1..Len(s) : Append(s, x)[n] = s[n]
  OBVIOUS
<1>4. Append(s, x)[Len(s) + 1] = x
  OBVIOUS
<1> QED BY <1>1, <1>2, <1>3, <1>4

\* Writing the journal of one action.
LEMMA OneJournal ==
    ASSUME TypeInv, NEW t \in Threads, NEW s,
           attempts' = [attempts EXCEPT ![Act(t)] = s],
           Act(t) \in Actions => DOMAIN attempts[Act(t)] \subseteq DOMAIN s,
           \A n \in DOMAIN attempts[Act(t)] : s[n] = attempts[Act(t)][n] \/ n = th[t].att
    PROVE  JournalKept(t)
<1>1. \A b \in Actions : attempts'[b] = IF b = Act(t) THEN s ELSE attempts[b]
  BY DEF TypeInv, TypeOK
<1> QED BY <1>1 DEF JournalKept

\* Writing the row of one action.
LEMMA OneMarker ==
    ASSUME TypeInv, NEW t \in Threads, NEW row, run' = [run EXCEPT ![Act(t)] = row],
           row.marker \in {run[Act(t)].marker, 0, th[t].att}
    PROVE  MarkersKept(t)
<1>1. \A b \in Actions : run'[b] = IF b = Act(t) THEN row ELSE run[b]
  BY DEF TypeInv, TypeOK
<1> QED BY <1>1 DEF MarkersKept

LEMMA OutcomeMarker ==
    ASSUME NEW row \in Row, NEW s, NEW n
    PROVE  Outcome(row, s, n).marker = 0
<1> DEFINE k == row.reserved /\ s \in Retaining
           v == row.version + 1
<1>1. Outcome(row, s, n) = [row EXCEPT !.state = s, !.version = v, !.by = None, !.expired = FALSE,
                                       !.reserved = k, !.marker = 0, !.unresolved = n]
  BY DEF Outcome
<1> HIDE DEF k, v
<1> QED BY <1>1 DEF Row

\* Steps that write rows.
LEMMA RowWrites ==
    ASSUME TypeInv, NEW t \in Threads,
           \/ HoldUnhandled(t) \/ Claim(t) \/ Reserve(t) \/ Wait(t) \/ FinalOwned(t)
           \/ FinalFree(t) \/ DeferActiveDispatch(t) \/ ReleaseMark(t)
    PROVE  Writes(t)
<1> DEFINE a == Act(t)
<1>1. UNCHANGED <<attempts, effect, fallback>> /\ th[t].pc \notin LivePoint /\ th[t].pc # "idle"
  BY DEF HoldUnhandled, Claim, Reserve, Wait, FinalOwned, FinalFree, DeferActiveDispatch,
         ReleaseMark, At, LivePoint
<1>2. a \in Actions /\ run[a] \in Row
  BY <1>1, ThreadTyped, RowTyped DEF Act
<1>3. JournalKept(t) /\ EffectsKept(t)
  BY <1>1 DEF JournalKept, EffectsKept
<1>4. run' = run => MarkersKept(t)
  BY DEF MarkersKept
<1>5. \A s, n : Outcome(run[a], s, n).marker = 0
  BY <1>2, OutcomeMarker
<1>6. ASSUME NEW s, NEW n, run' = [run EXCEPT ![a] = Outcome(run[a], s, n)]
      PROVE  MarkersKept(t)
  BY <1>5, <1>6, OneMarker
<1> SUFFICES MarkersKept(t)
  BY <1>1, <1>3 DEF Writes
<1>7. CASE HoldUnhandled(t)
  <2>1. run' = [run EXCEPT ![a] = Outcome(run[a], "needs_review", unresolvedEffectCount(a, FALSE))]
    BY <1>7 DEF HoldUnhandled
  <2> QED BY <1>6, <2>1
<1>8. CASE Claim(t)
  <2> DEFINE row == [run[a] EXCEPT !.state = "running", !.by = ExecOf(t), !.expired = FALSE,
                                   !.version = run[a].version + 1]
  <2>1. run' = run \/ run' = [run EXCEPT ![a] = row]
    BY <1>8 DEF Claim
  <2>2. row.marker = run[a].marker
    BY <1>2 DEF Row
  <2> HIDE DEF row
  <2> QED BY <1>4, <2>1, <2>2, OneMarker
<1>9. CASE Reserve(t)
  <2> DEFINE row == [run[a] EXCEPT !.reserved = TRUE]
  <2>1. run' = [run EXCEPT ![a] = row]
    BY <1>9 DEF Reserve
  <2>2. row.marker = run[a].marker
    BY <1>2 DEF Row
  <2> HIDE DEF row
  <2> QED BY <2>1, <2>2, OneMarker
<1>10. CASE Wait(t)
  <2>1. run' = [run EXCEPT ![a] = WaitRow(a)]
    BY <1>10 DEF Wait
  <2>2. \E s, n : WaitRow(a) = Outcome(run[a], s, n)
    BY DEF WaitRow
  <2> QED BY <1>6, <2>1, <2>2
<1>11. CASE FinalOwned(t)
  <2> DEFINE r == IF th[t].res = "safe" THEN Outcome(run[a], "reconciling", 0) ELSE run[a]
             s == OwnedTarget(t)
             n == OwnedUnresolved(t, s)
  <2>1. run' = [run EXCEPT ![a] = Outcome(r, s, n)]
    BY <1>11 DEF FinalOwned
  <2>2. "marker" \in DOMAIN r
    BY <1>2 DEF Outcome, Row
  <2> HIDE DEF r, s, n
  <2>3. Outcome(r, s, n).marker = 0
    <3> DEFINE k == r.reserved /\ s \in Retaining
               v == r.version + 1
    <3>1. Outcome(r, s, n) = [r EXCEPT !.state = s, !.version = v, !.by = None, !.expired = FALSE,
                                       !.reserved = k, !.marker = 0, !.unresolved = n]
      BY DEF Outcome
    <3> HIDE DEF k, v
    <3> QED BY <2>2, <3>1
  <2> QED BY <2>1, <2>3, OneMarker
<1>12. CASE FinalFree(t)
  <2> DEFINE s == FreeTarget(t)
             n == unresolvedEffectCount(a, s = "reconciling")
  <2>1. run' = run \/ run' = [run EXCEPT ![a] = Outcome(run[a], s, n)]
    BY <1>12 DEF FinalFree
  <2> HIDE DEF s, n
  <2> QED BY <1>4, <1>6, <2>1
<1>13. CASE DeferActiveDispatch(t)
  <2>1. \/ run' = run
        \/ run' = [run EXCEPT ![a] = Outcome(run[a], "reconciling", unresolvedEffectCount(a, TRUE))]
    BY <1>13 DEF DeferActiveDispatch
  <2> QED BY <1>4, <1>6, <2>1
<1>14. CASE ReleaseMark(t)
  <2> DEFINE hold == run[a].state = "running" /\ PreserveClaim(t) /\ ~run[a].cancel
             s == IF run[a].state = "running" /\ ~hold THEN "reconciling" ELSE run[a].state
             n == unresolvedEffectCount(a, TRUE)
             m == th[t].att
             by == IF hold THEN run[a].by ELSE None
             e == hold /\ run[a].expired
             out == Outcome(run[a], s, n)
             row == [out EXCEPT !.marker = m, !.by = by, !.expired = e]
  <2>1. run' = [run EXCEPT ![a] = MarkedRow(t)]
    BY <1>14 DEF ReleaseMark
  <2>2. MarkedRow(t) = run[a] \/ MarkedRow(t) = row
    BY DEF MarkedRow
  <2>3. row.marker = th[t].att
    <3>1. "marker" \in DOMAIN out
      BY <1>2 DEF Outcome, Row
    <3> HIDE DEF out, by, e
    <3> QED BY <3>1
  <2> HIDE DEF row
  <2> QED BY <2>1, <2>2, <2>3, OneMarker
<1> QED BY <1>7, <1>8, <1>9, <1>10, <1>11, <1>12, <1>13, <1>14

\* Steps that write the journal.
LEMMA JournalWrites ==
    ASSUME TypeInv, NEW t \in Threads,
           \/ ObserveBegin(t) \/ PrepareDispatch(t) \/ CloseAttempt(t) \/ RecordEffects(t)
           \/ ReconcileBegin(t) \/ ReleaseIntent(t) \/ ReleaseResolve(t)
    PROVE  Writes(t)
<1> DEFINE a == Act(t)
           s == attempts[a]
           k == th[t].att
<1>1. run' = run /\ th[t].pc \notin LivePoint /\ th[t].pc # "idle"
  BY DEF ObserveBegin, PrepareDispatch, CloseAttempt, RecordEffects, ReconcileBegin,
         ReleaseIntent, ReleaseResolve, At, LivePoint
<1>2. a \in Actions /\ s \in Seq(Attempt) /\ th[t] \in Thread
  BY <1>1, ThreadTyped, AttemptsTyped DEF Act
<1>3. MarkersKept(t)
  BY <1>1 DEF MarkersKept
<1>4. effect' = effect => EffectsKept(t)
  BY DEF EffectsKept
<1>5. ASSUME NEW x, attempts' = [attempts EXCEPT ![a] = [s EXCEPT ![k] = x]]
      PROVE  JournalKept(t)
  <2> DEFINE w == [s EXCEPT ![k] = x]
  <2>1. DOMAIN w = DOMAIN s /\ \A n \in DOMAIN s : w[n] = s[n] \/ n = k
    OBVIOUS
  <2> HIDE DEF w
  <2> QED BY <1>5, <2>1, OneJournal DEF w
<1>6. ASSUME NEW e, effect' = [effect EXCEPT ![a] = e], e.att \in {effect[a].att, k, th'[t].att}
      PROVE  EffectsKept(t)
  <2>1. \A b \in Actions : effect'[b] = IF b = a THEN e ELSE effect[b]
    BY <1>6, EffectTyped
  <2> QED BY <1>6, <2>1 DEF EffectsKept
<1> SUFFICES /\ JournalKept(t) /\ EffectsKept(t)
             /\ fallback' \subseteq fallback \cup {Barrier(t)}
  BY <1>1, <1>3 DEF Writes
<1>7. CASE ObserveBegin(t) \/ ReconcileBegin(t)
  <2>1. PICK p \in AttemptPhase : attempts' = [attempts EXCEPT ![a] = Append(s, NewAttempt(p))]
    BY <1>7, Words DEF ObserveBegin, ReconcileBegin
  <2>2. UNCHANGED <<effect, fallback>>
    BY <1>7 DEF ObserveBegin, ReconcileBegin
  <2>3. NewAttempt(p) \in Attempt
    BY NewAttemptTyped
  <2>4. JournalKept(t)
    <3> DEFINE w == Append(s, NewAttempt(p))
    <3>1. DOMAIN s \subseteq DOMAIN w /\ \A n \in DOMAIN s : w[n] = s[n]
      BY <1>2, <2>3, AppendKept
    <3> HIDE DEF w
    <3> QED BY <2>1, <3>1, OneJournal DEF w
  <2> QED BY <1>4, <2>2, <2>4
<1>8. CASE PrepareDispatch(t)
  <2> DEFINE x == [s[k] EXCEPT !.state = "succeeded"]
             s1 == [s EXCEPT ![k] = x]
             n == Len(s) + 1
  <2>1. /\ attempts' = [attempts EXCEPT ![a] = Append(s1, NewAttempt("dispatch"))]
        /\ effect' = [effect EXCEPT ![a] = [state |-> "pending", att |-> n]]
        /\ th' = [th EXCEPT ![t].pc = "before", ![t].phase = "dispatch", ![t].att = n]
        /\ fallback' = fallback
    BY <1>8 DEF PrepareDispatch
  <2>2. s1 \in Seq(Attempt)
    BY <1>2, Words, SeqState
  <2>3. NewAttempt("dispatch") \in Attempt
    BY Words, NewAttemptTyped
  <2>4. DOMAIN s1 = DOMAIN s /\ \A m \in DOMAIN s : m # k => s1[m] = s[m]
    OBVIOUS
  <2>5. th'[t].att = n
    BY <1>2, <2>1 DEF TypeInv, TypeOK, Thread
  <2> HIDE DEF s1, n
  <2>6. JournalKept(t)
    <3> DEFINE s2 == Append(s1, NewAttempt("dispatch"))
    <3>1. DOMAIN s \subseteq DOMAIN s2 /\ \A m \in DOMAIN s : s2[m] = s[m] \/ m = k
      BY <2>2, <2>3, <2>4, AppendKept
    <3> HIDE DEF s2
    <3> QED BY <2>1, <3>1, OneJournal DEF s2
  <2>7. EffectsKept(t)
    BY <1>6, <2>1, <2>5
  <2> QED BY <2>1, <2>6, <2>7
<1>9. CASE CloseAttempt(t)
  <2>1. /\ attempts' = [attempts EXCEPT ![a] =
                          [s EXCEPT ![k] = [s[k] EXCEPT !.state = CloseState(th[t].res)]]]
        /\ UNCHANGED <<effect, fallback>>
    BY <1>9 DEF CloseAttempt
  <2> QED BY <1>4, <1>5, <2>1
<1>10. CASE RecordEffects(t)
  <2>1. UNCHANGED <<attempts, fallback>>
    BY <1>10 DEF RecordEffects
  <2>2. PICK v : effect' = [effect EXCEPT ![a] = [state |-> v, att |-> k]]
    BY <1>10 DEF RecordEffects
  <2>3. JournalKept(t)
    BY <2>1 DEF JournalKept
  <2> QED BY <1>6, <2>1, <2>2, <2>3
<1>11. CASE ReleaseIntent(t)
  <2>1. /\ \/ attempts' = attempts
           \/ attempts' = [attempts EXCEPT ![a] = [s EXCEPT ![k] = [s[k] EXCEPT !.intent = TRUE]]]
        /\ UNCHANGED effect
        /\ fallback' = fallback \cup {Barrier(t)}
    BY <1>11 DEF ReleaseIntent
  <2>2. JournalKept(t)
    BY <1>5, <2>1 DEF JournalKept
  <2> QED BY <1>4, <2>1, <2>2
<1>12. CASE ReleaseResolve(t)
  <2> DEFINE v == IF effect[a].att = k THEN "unknown" ELSE effect[a].state
             e == [effect[a] EXCEPT !.state = v]
  <2>1. /\ attempts' = [attempts EXCEPT ![a] =
                          [s EXCEPT ![k] = [s[k] EXCEPT !.state = "reconciling", !.intent = FALSE]]]
        /\ effect' = [effect EXCEPT ![a] = e]
        /\ fallback' = fallback \ {Barrier(t)}
    BY <1>12 DEF ReleaseResolve
  <2>2. e.att = effect[a].att
    <3> HIDE DEF v
    <3> QED BY <1>2, EffectTyped
  <2> HIDE DEF e
  <2> QED BY <1>5, <1>6, <2>1, <2>2
<1> QED BY <1>7, <1>8, <1>9, <1>10, <1>11, <1>12

LEMMA StepWrites ==
    ASSUME TypeInv, NEW t \in Threads, Step(t)
    PROVE  Writes(t)
<1>1. ASSUME UNCHANGED <<run, attempts, effect>>, fallback' \subseteq fallback,
             th[t].pc \in LivePoint => fallback' = fallback
      PROVE  Writes(t)
  BY <1>1 DEF Writes, JournalKept, MarkersKept, EffectsKept
<1>2. CASE \/ AcquireReservations(t) \/ ReserveRefused(t) \/ Finish(t)
           \/ ObserveReturn(t) \/ BeforeDispatch(t) \/ BeforeDispatchCancelled(t)
           \/ DispatchSend(t) \/ DispatchReturn(t) \/ EffectsRefused(t) \/ FinalNotStopped(t)
  <2>1. UNCHANGED <<run, attempts, effect, fallback>>
    BY <1>2 DEF AcquireReservations, ReserveRefused, Finish, ObserveReturn, BeforeDispatch,
       BeforeDispatchCancelled, DispatchSend, DispatchReturn, EffectsRefused, FinalNotStopped
  <2> QED BY <1>1, <2>1
<1>3. CASE \/ ReconcileFind(t) \/ ReconcileRefresh(t) \/ ReconcileActive(t)
           \/ ReconcileReuse(t) \/ ReconcileReturn(t) \/ ReleaseFailed(t) \/ BarrierRetry(t)
           \/ BarrierGiveUp(t) \/ FenceLost(t) \/ JournalFails(t) \/ JournalFull(t)
  <2>1. UNCHANGED <<run, attempts, effect, fallback>>
    BY <1>3 DEF ReconcileFind, ReconcileRefresh, ReconcileActive, ReconcileReuse,
       ReconcileReturn, ReleaseFailed, BarrierRetry, BarrierGiveUp, FenceLost, JournalFails,
       JournalFull
  <2> QED BY <1>1, <2>1
<1>4. CASE ReleaseResolved(t)
  BY <1>1, <1>4 DEF ReleaseResolved, At, LivePoint
<1> QED BY <1>2, <1>3, <1>4, RowWrites, JournalWrites DEF Step

-----------------------------------------------------------------------------
(* The barrier holds *)

\* The next state of t names attempts that exist, none that a dispatching
\* goroutine other than t relies on, and dispatches only what it has prepared.
Names(t) ==
    LET h == th'[t]
        a == Act(t)
    IN  /\ h.pc = "idle" => h.att = 0 /\ h.mark = 0
        /\ h.pc # "idle" => h.act = a
        /\ h.mark \in {0, th[t].mark, run[a].marker}
        /\ \/ h.att \in {0, th[t].att} \cup ReturnedAttempts(t) \cup OpenReconciles(t)
           \/ h.att \in DOMAIN attempts'[a] \ Known(a)
        /\ h.pc \in LivePoint =>
              \/ th[t].pc \in LivePoint /\ h.att = th[t].att
              \/ /\ h.att \in DOMAIN attempts'[a] \ Known(a)
                 /\ attempts'[a][h.att] = NewAttempt("dispatch")
                 /\ UNCHANGED <<run, fallback>>

\* Everything but the goroutine stays where it is.
LEMMA OthersStay ==
    ASSUME TypeInv, NEW t \in Threads, NEW r, th' = [th EXCEPT ![t] = r]
    PROVE  th'[t] = r /\ \A u \in Threads \ {t} : th'[u] = th[u]
  BY DEF TypeInv, TypeOK

LEMMA StepNames ==
    ASSUME TypeInv, NEW t \in Threads, Step(t)
    PROVE  Names(t) /\ (\A u \in Threads \ {t} : th'[u] = th[u])
<1> DEFINE a == Act(t)
<1>1. th[t] \in Thread /\ th \in [Threads -> Thread]
  BY ThreadTyped DEF TypeInv, TypeOK
<1>2. ASSUME NEW r, th' = [th EXCEPT ![t] = r], Plain(t, r)
      PROVE  Names(t) /\ (\A u \in Threads \ {t} : th'[u] = th[u])
  BY <1>2, OthersStay DEF Plain, Names, Act
<1>3. CASE ~(\/ Claim(t) \/ ObserveBegin(t) \/ PrepareDispatch(t) \/ ReconcileFind(t)
             \/ ReconcileReuse(t) \/ ReconcileBegin(t))
  BY <1>2, <1>3, StepPlain
<1>4. CASE Claim(t)
  <2> DEFINE r == [th[t] EXCEPT !.pc = "local", !.claimed = TRUE,
                                !.ver = run[a].version + 1, !.mark = run[a].marker]
  <2>1. th' = [th EXCEPT ![t] = r] \/ th' = [th EXCEPT ![t] = Idle]
    BY <1>1, <1>4 DEF Claim
  <2>2. r.pc = "local" /\ r.act = a /\ r.mark = run[a].marker /\ r.att = th[t].att
    BY <1>1 DEF Thread, Act
  <2> HIDE DEF r
  <2>3. CASE th' = [th EXCEPT ![t] = r]
    BY <2>2, <2>3, OthersStay DEF Names, LivePoint
  <2>4. CASE th' = [th EXCEPT ![t] = Idle]
    BY <1>2, <2>4, IdlePlain
  <2> QED BY <2>1, <2>3, <2>4
<1>5. ASSUME NEW r, th' = [th EXCEPT ![t] = r], r.pc # "idle", r.pc \notin LivePoint,
             r.act = a, r.mark \in {0, th[t].mark},
             \/ r.att \in ReturnedAttempts(t) \cup OpenReconciles(t) \cup {0, th[t].att}
             \/ r.att \in DOMAIN attempts'[a] \ Known(a)
      PROVE  Names(t) /\ (\A u \in Threads \ {t} : th'[u] = th[u])
  <2>1. th'[t] = r /\ \A u \in Threads \ {t} : th'[u] = th[u]
    BY <1>5, OthersStay
  <2> QED BY <1>5, <2>1 DEF Names
<1>6. CASE ReconcileFind(t)
  <2> DEFINE r0 == [th[t] EXCEPT !.pc = "rec_active", !.mark = 0]
             r(n) == [th[t] EXCEPT !.pc = "rel_intent", !.back = "rec", !.mark = 0,
                                   !.att = n, !.ierr = FALSE]
  <2>1. \/ th' = [th EXCEPT ![t] = r0]
        \/ \E n \in ReturnedAttempts(t) : th' = [th EXCEPT ![t] = r(n)]
    BY <1>1, <1>6 DEF ReconcileFind
  <2>2. r0.pc = "rec_active" /\ r0.act = a /\ r0.mark = 0 /\ r0.att = th[t].att
    BY <1>1 DEF Thread, Act
  <2>3. ASSUME NEW n
        PROVE  r(n).pc = "rel_intent" /\ r(n).act = a /\ r(n).mark = 0 /\ r(n).att = n
    BY <1>1 DEF Thread, Act
  <2> HIDE DEF r, r0
  <2>4. CASE th' = [th EXCEPT ![t] = r0]
    BY <1>5, <2>2, <2>4 DEF LivePoint
  <2>5. ASSUME NEW n \in ReturnedAttempts(t), th' = [th EXCEPT ![t] = r(n)]
        PROVE  Names(t) /\ (\A u \in Threads \ {t} : th'[u] = th[u])
    BY <1>5, <2>3, <2>5 DEF LivePoint
  <2> QED BY <2>1, <2>4, <2>5
<1>7. CASE ReconcileReuse(t)
  <2> DEFINE r(n) == [th[t] EXCEPT !.pc = "reconcile", !.att = n]
  <2>1. PICK n \in OpenReconciles(t) : th' = [th EXCEPT ![t] = r(n)]
    BY <1>1, <1>7 DEF ReconcileReuse
  <2>2. r(n).pc = "reconcile" /\ r(n).act = a /\ r(n).mark = th[t].mark /\ r(n).att = n
    BY <1>1 DEF Thread, Act
  <2> HIDE DEF r
  <2> QED BY <1>5, <2>1, <2>2 DEF LivePoint
<1>8. CASE ObserveBegin(t) \/ ReconcileBegin(t)
  <2> DEFINE n == Len(attempts[a]) + 1
             r(p) == [th[t] EXCEPT !.pc = p, !.att = n]
  <2>1. PICK p \in {"observe", "reconcile"} : th' = [th EXCEPT ![t] = r(p)]
    BY <1>1, <1>8 DEF ObserveBegin, ReconcileBegin
  <2>2. a \in Actions
    BY <1>8, ThreadTyped DEF ObserveBegin, ReconcileBegin, At, Act
  <2>3. PICK q \in AttemptPhase :
            attempts' = [attempts EXCEPT ![a] = Append(attempts[a], NewAttempt(q))]
    BY <1>8, Words DEF ObserveBegin, ReconcileBegin
  <2>4. n \in DOMAIN attempts'[a] \ Known(a)
    <3>1. attempts'[a] = Append(attempts[a], NewAttempt(q))
      BY <2>2, <2>3 DEF TypeInv, TypeOK
    <3>2. NewAttempt(q) \in Attempt /\ attempts[a] \in Seq(Attempt)
      BY <2>2, NewAttemptTyped, AttemptsTyped
    <3> QED BY <3>1, <3>2, AppendKept DEF Known
  <2> HIDE DEF n
  <2>5. r(p).pc = p /\ r(p).act = a /\ r(p).mark = th[t].mark /\ r(p).att = n
    BY <1>1 DEF Thread, Act
  <2> HIDE DEF r
  <2> QED BY <1>5, <2>1, <2>4, <2>5 DEF LivePoint
<1>9. CASE PrepareDispatch(t)
  <2> DEFINE n == Len(attempts[a]) + 1
             k == th[t].att
             s1 == [attempts[a] EXCEPT ![k] = [attempts[a][k] EXCEPT !.state = "succeeded"]]
             r == [th[t] EXCEPT !.pc = "before", !.phase = "dispatch", !.att = n]
  <2>1. /\ th' = [th EXCEPT ![t] = r]
        /\ attempts' = [attempts EXCEPT ![a] = Append(s1, NewAttempt("dispatch"))]
        /\ UNCHANGED <<run, fallback>>
    BY <1>1, <1>9 DEF PrepareDispatch
  <2>2. a \in Actions
    BY <1>9, ThreadTyped DEF PrepareDispatch, At, Act
  <2>3. s1 \in Seq(Attempt) /\ attempts[a] \in Seq(Attempt)
    BY <2>2, Words, SeqState, AttemptsTyped
  <2>4. DOMAIN s1 = DOMAIN attempts[a]
    OBVIOUS
  <2> HIDE DEF s1
  <2>5. Len(s1) = Len(attempts[a])
    BY <2>3, <2>4
  <2>6. n \in DOMAIN attempts'[a] \ Known(a) /\ attempts'[a][n] = NewAttempt("dispatch")
    <3>1. attempts'[a] = Append(s1, NewAttempt("dispatch"))
      BY <2>1, <2>2 DEF TypeInv, TypeOK
    <3>2. NewAttempt("dispatch") \in Attempt
      BY Words, NewAttemptTyped
    <3> QED BY <2>3, <2>4, <2>5, <3>1, <3>2, AppendKept DEF Known
  <2> HIDE DEF n
  <2>7. r.pc = "before" /\ r.act = a /\ r.mark = th[t].mark /\ r.att = n
    BY <1>1 DEF Thread, Act
  <2> HIDE DEF r
  <2> QED BY <2>1, <2>6, <2>7, OthersStay DEF Names
<1> QED BY <1>3, <1>4, <1>6, <1>7, <1>8, <1>9

LEMMA StepActs ==
    ASSUME TypeInv, NEW t \in Threads, Step(t)
    PROVE  up /\ up' /\ th[t].pc # "idle" /\ Act(t) \in Actions
<1>1. CASE \/ HoldUnhandled(t) \/ Claim(t) \/ AcquireReservations(t) \/ Reserve(t)
           \/ ReserveRefused(t) \/ Wait(t) \/ Finish(t) \/ ObserveBegin(t)
           \/ ObserveReturn(t) \/ PrepareDispatch(t) \/ BeforeDispatch(t)
           \/ BeforeDispatchCancelled(t) \/ DispatchSend(t) \/ DispatchReturn(t)
           \/ CloseAttempt(t) \/ RecordEffects(t) \/ EffectsRefused(t) \/ FinalOwned(t)
           \/ FinalNotStopped(t) \/ FinalFree(t)
  <2>1. up /\ up' = up /\ th[t].pc # "idle"
    BY <1>1 DEF At, HoldUnhandled, Claim, AcquireReservations, Reserve, ReserveRefused, Wait,
       Finish, ObserveBegin, ObserveReturn, PrepareDispatch, BeforeDispatch,
       BeforeDispatchCancelled, DispatchSend, DispatchReturn, CloseAttempt, RecordEffects,
       EffectsRefused, FinalOwned, FinalNotStopped, FinalFree
  <2> QED BY <2>1, ThreadTyped DEF Act
<1>2. CASE \/ ReconcileFind(t) \/ ReconcileRefresh(t) \/ ReconcileActive(t)
           \/ DeferActiveDispatch(t) \/ ReconcileReuse(t) \/ ReconcileBegin(t)
           \/ ReconcileReturn(t) \/ ReleaseResolved(t) \/ ReleaseIntent(t) \/ ReleaseMark(t)
           \/ ReleaseResolve(t) \/ ReleaseFailed(t) \/ BarrierRetry(t) \/ BarrierGiveUp(t)
           \/ FenceLost(t) \/ JournalFails(t) \/ JournalFull(t)
  <2>1. up /\ up' = up /\ th[t].pc # "idle"
    BY <1>2 DEF At, Fenced, ReconcileFind, ReconcileRefresh, ReconcileActive,
       DeferActiveDispatch, ReconcileReuse, ReconcileBegin, ReconcileReturn, ReleaseResolved,
       ReleaseIntent, ReleaseMark, ReleaseResolve, ReleaseFailed, BarrierRetry, BarrierGiveUp,
       FenceLost, JournalFails, JournalFull
  <2> QED BY <2>1, ThreadTyped DEF Act
<1> QED BY <1>1, <1>2 DEF Step

\* Where the names come from is known.
LEMMA NamesKnown ==
    ASSUME Bounds, NEW t \in Threads, th[t].pc # "idle", Act(t) \in Actions
    PROVE  /\ ReturnedAttempts(t) \subseteq Known(Act(t))
           /\ OpenReconciles(t) \subseteq Known(Act(t))
           /\ th[t].att \in Known(Act(t)) /\ th[t].mark \in Known(Act(t))
           /\ run[Act(t)].marker \in Known(Act(t))
  BY DEF Bounds, Known, ReturnedAttempts, OpenReconciles, IntentAttempts, FallbackAttempts,
         ActiveDispatches

LEMMA StepBounds ==
    ASSUME TypeInv, Bounds, NEW t \in Threads, Step(t)
    PROVE  Bounds'
<1> DEFINE a == Act(t)
           later(b) == {0} \cup DOMAIN attempts'[b]
<1>1. Writes(t) /\ Names(t) /\ (\A u \in Threads \ {t} : th'[u] = th[u])
  BY StepWrites, StepNames
<1>2. th[t].pc # "idle" /\ a \in Actions
  BY StepActs
<1>3. \A b \in Actions : Known(b) \subseteq later(b)
  BY <1>1 DEF Writes, JournalKept, Known
<1>4. /\ ReturnedAttempts(t) \subseteq Known(a) /\ OpenReconciles(t) \subseteq Known(a)
      /\ th[t].att \in Known(a) /\ th[t].mark \in Known(a) /\ run[a].marker \in Known(a)
      /\ 0 \in Known(a)
  BY <1>2, NamesKnown DEF Known
<1>5. th'[t].pc # "idle" => th'[t].act = a
  BY <1>1 DEF Names
<1>6. th'[t].att \in later(a) /\ th'[t].mark \in later(a)
  <2>1. th'[t].mark \in Known(a)
    BY <1>1, <1>4 DEF Names
  <2>2. th'[t].att \in Known(a) \/ th'[t].att \in DOMAIN attempts'[a]
    BY <1>1, <1>4 DEF Names
  <2> QED BY <1>2, <1>3, <2>1, <2>2
<1>7. ASSUME NEW u \in Threads, th'[u].pc # "idle"
      PROVE  th'[u].att \in later(th'[u].act) /\ th'[u].mark \in later(th'[u].act)
  <2>1. CASE u = t
    BY <1>5, <1>6, <1>7, <2>1
  <2>2. CASE u # t
    <3>1. th'[u] = th[u]
      BY <1>1, <2>2
    <3>2. /\ th[u].act \in Actions
          /\ th[u].att \in Known(th[u].act) /\ th[u].mark \in Known(th[u].act)
      BY <1>7, <3>1, ThreadTyped DEF Bounds, Act
    <3> QED BY <1>3, <3>1, <3>2
  <2> QED BY <2>1, <2>2
<1>8. ASSUME NEW u \in Threads, th'[u].pc = "idle"
       PROVE  th'[u].att = 0 /\ th'[u].mark = 0
  BY <1>1, <1>8 DEF Names, Bounds
<1>9. ASSUME NEW b \in Actions
      PROVE  run'[b].marker \in later(b) /\ effect'[b].att \in later(b)
  <2>1. run[b].marker \in Known(b) /\ effect[b].att \in Known(b) /\ 0 \in Known(b)
    BY DEF Bounds, Known
  <2>2. run'[b].marker \in Known(b)
    BY <1>1, <1>4, <2>1 DEF Writes, MarkersKept
  <2>3. effect'[b].att \in later(b)
    BY <1>1, <1>3, <1>4, <1>6, <2>1 DEF Writes, EffectsKept
  <2> QED BY <1>3, <2>2, <2>3
<1>10. ASSUME NEW p \in fallback'
      PROVE  p[2] \in later(p[1])
  <2>1. CASE p = Barrier(t)
    BY <1>2, <1>3, <1>4, <2>1 DEF Barrier
  <2>2. CASE p \in fallback
    <3>1. p[1] \in Actions
      BY <2>2 DEF TypeInv, TypeOK
    <3> QED BY <1>3, <2>2, <3>1 DEF Bounds
  <2> QED BY <1>1, <2>1, <2>2 DEF Writes
<1> QED BY <1>7, <1>8, <1>9, <1>10 DEF Bounds, Known, Act

LEMMA StepGuarded ==
    ASSUME TypeInv, Bounds, Guarded, NEW t \in Threads, Step(t)
    PROVE  Guarded'
<1> DEFINE a == Act(t)
<1>1. Writes(t) /\ Names(t) /\ (\A u \in Threads \ {t} : th'[u] = th[u])
  BY StepWrites, StepNames
<1>2. th[t].pc # "idle" /\ a \in Actions
  BY StepActs
<1>3. th'[t].pc # "idle" => th'[t].act = a
  BY <1>1 DEF Names
<1>4. /\ th[t].att \in Known(a) /\ run[a].marker \in Known(a)
      /\ \A p \in fallback : p[2] \in Known(p[1])
  BY <1>2, NamesKnown DEF Bounds
\* Another goroutine goes on dispatching: t names nothing of it.
<1>5. ASSUME NEW u \in Threads \ {t}, th'[u].pc \in LivePoint
      PROVE  GuardedBy(u)'
  <2> DEFINE b == th[u].act
             n == th[u].att
  <2>1. th'[u] = th[u] /\ th[u].pc \in LivePoint
    BY <1>1, <1>5
  <2>2. b \in Actions
    BY <2>1, ThreadTyped DEF LivePoint
  <2>3. /\ n \in DOMAIN attempts[b]
        /\ IsActiveDispatch(attempts[b][n]) /\ ~attempts[b][n].intent
        /\ run[b].marker # n /\ <<b, n>> \notin fallback
        /\ \A w \in Threads \ {u} : th[w].act = b => th[w].att # n /\ th[w].mark # n
    BY <2>1 DEF Guarded, GuardedBy, Act
  <2>4. n # 0
    BY <2>2, <2>3, AttemptsTyped
  <2>5. a = b => th[t].att # n /\ th[t].mark # n
    BY <2>3 DEF Act
  <2>6. n \in DOMAIN attempts'[b] /\ attempts'[b][n] = attempts[b][n]
    BY <1>1, <2>2, <2>3, <2>5 DEF Writes, JournalKept
  <2>7. run'[b].marker # n
    BY <1>1, <2>2, <2>3, <2>4, <2>5 DEF Writes, MarkersKept
  <2>8. <<b, n>> \notin fallback'
    BY <1>1, <2>3, <2>5 DEF Writes, Barrier
  <2>9. a = b => n \notin ReturnedAttempts(t) /\ n \notin OpenReconciles(t)
    BY <2>3, <2>5 DEF ReturnedAttempts, OpenReconciles, IntentAttempts, FallbackAttempts,
       IsActiveDispatch
  <2>10. th'[t].act = b => th'[t].att # n /\ th'[t].mark # n
    <3>1. CASE th'[t].pc = "idle"
      BY <1>1, <2>4, <3>1 DEF Names
    <3>2. CASE th'[t].pc # "idle" /\ a = b
      <4>1. n \in Known(a)
        BY <2>3, <3>2 DEF Known
      <4> QED BY <1>1, <2>3, <2>4, <2>5, <2>9, <3>2, <4>1 DEF Names
    <3> QED BY <1>3, <3>1, <3>2
  <2>11. \A w \in Threads \ {u} : th'[w].act = b => th'[w].att # n /\ th'[w].mark # n
    BY <1>1, <2>3, <2>10
  <2> QED BY <2>1, <2>3, <2>6, <2>7, <2>8, <2>11 DEF GuardedBy, Act
\* t itself goes on, or has just prepared its dispatch.
<1>6. ASSUME th'[t].pc \in LivePoint
      PROVE  GuardedBy(t)'
  <2> DEFINE n == th'[t].att
  <2>1. th'[t].act = a
    BY <1>3, <1>6 DEF LivePoint
  <2>2. CASE th[t].pc \in LivePoint /\ n = th[t].att
    <3>1. UNCHANGED <<run, attempts, fallback>>
      BY <1>1, <2>2 DEF Writes
    <3> QED BY <1>1, <2>1, <2>2, <3>1 DEF Guarded, GuardedBy, Act
  <2>3. CASE /\ n \in DOMAIN attempts'[a] \ Known(a)
             /\ attempts'[a][n] = NewAttempt("dispatch")
             /\ UNCHANGED <<run, fallback>>
    <3>1. IsActiveDispatch(attempts'[a][n]) /\ ~attempts'[a][n].intent
      BY <2>3 DEF NewAttempt, IsActiveDispatch
    <3>2. run'[a].marker # n /\ <<a, n>> \notin fallback'
      BY <1>4, <2>3
    <3>3. ASSUME NEW w \in Threads \ {t}, th'[w].act = a
          PROVE  th'[w].att # n /\ th'[w].mark # n
      <4>1. th'[w] = th[w]
        BY <1>1
      <4>2. CASE th[w].pc # "idle"
        BY <2>3, <3>3, <4>1, <4>2 DEF Bounds, Act
      <4>3. CASE th[w].pc = "idle"
        BY <2>3, <4>1, <4>3 DEF Bounds, Known
      <4> QED BY <4>2, <4>3
    <3> QED BY <2>1, <2>3, <3>1, <3>2, <3>3 DEF GuardedBy, Act
  <2> QED BY <1>1, <1>6, <2>2, <2>3 DEF Names
<1> QED BY <1>5, <1>6 DEF Guarded

\* Steps that are not a goroutine's.
LEMMA QuietGuarded ==
    ASSUME TypeInv, Bounds, Guarded, Up,
           \/ Crash \/ Recover \/ RecoverExpired \/ FinalizeCancelled \/ FinalizeDeadline
           \/ \E a \in Actions : \/ RequestCancellation(a) \/ CancelLinked(a)
                                 \/ DeadlinePasses(a) \/ LeaseExpires(a)
                                 \/ Land(a) \/ Drop(a) \/ Establish(a)
    PROVE  Bounds' /\ Guarded' /\ Up'
<1>1. \A a \in Actions : run[a] \in Row
  BY RowTyped
<1>2. run \in [Actions -> Row]
  BY DEF TypeInv, TypeOK
<1>3. ASSUME NEW row \in Row
      PROVE  Recovered(row).marker = row.marker /\ Recovered(row) \in Row
  <2> DEFINE v == row.version + 1
  <2>1. Recovered(row) = [row EXCEPT !.state = "reconciling", !.version = v, !.by = None,
                                     !.expired = FALSE]
    BY DEF Recovered
  <2>2. v \in Nat
    BY DEF Row
  <2> HIDE DEF v
  <2> QED BY <2>1, <2>2, Words DEF Row
<1>4. ASSUME NEW row \in Row, NEW s \in ActionState
      PROVE  Finalized(row, s).marker = row.marker /\ Finalized(row, s) \in Row
  <2> DEFINE v == row.version + 1
  <2>1. Finalized(row, s) = [row EXCEPT !.state = s, !.version = v, !.by = None,
                                        !.expired = FALSE]
    BY DEF Finalized
  <2>2. v \in Nat
    BY DEF Row
  <2> HIDE DEF v
  <2> QED BY <2>1, <2>2 DEF Row
<1>5. ASSUME NEW rows \in [Actions -> Row]
      PROVE  /\ FinalizeCancelledRows(rows) \in [Actions -> Row]
             /\ FinalizeDeadlineRows(rows) \in [Actions -> Row]
             /\ \A b \in Actions : /\ FinalizeCancelledRows(rows)[b].marker = rows[b].marker
                                   /\ FinalizeDeadlineRows(rows)[b].marker = rows[b].marker
  <2>1. \A b \in Actions : /\ Finalized(rows[b], "cancelled") \in Row
                           /\ Finalized(rows[b], "cancelled").marker = rows[b].marker
    BY <1>4, Words
  <2>2. \A b \in Actions : /\ Finalized(rows[b], "deadline_exceeded") \in Row
                           /\ Finalized(rows[b], "deadline_exceeded").marker = rows[b].marker
    BY <1>4, Words
  <2>3. \A b \in Actions : /\ FinalizeCancelledRows(rows)[b] \in Row
                           /\ FinalizeCancelledRows(rows)[b].marker = rows[b].marker
    BY <2>1 DEF FinalizeCancelledRows
  <2>4. \A b \in Actions : /\ FinalizeDeadlineRows(rows)[b] \in Row
                           /\ FinalizeDeadlineRows(rows)[b].marker = rows[b].marker
    BY <2>2 DEF FinalizeDeadlineRows
  <2> QED BY <2>3, <2>4 DEF FinalizeCancelledRows, FinalizeDeadlineRows
\* As long as no marker changes, and no goroutine acts, the barrier holds.
<1>6. ASSUME \A b \in Actions : run'[b].marker = run[b].marker,
             UNCHANGED <<attempts, effect, th, fallback, up>>
      PROVE  Bounds' /\ Guarded' /\ Up'
  <2>1. Bounds' /\ Up'
    BY <1>6 DEF Bounds, Up, Known, Act
  <2>2. ASSUME NEW t \in Threads, th[t].pc \in LivePoint
        PROVE  GuardedBy(t)'
    <3>1. th[t].act \in Actions
      BY <2>2, ThreadTyped DEF LivePoint
    <3>2. GuardedBy(t)
      BY <2>2 DEF Guarded
    <3> QED BY <1>6, <3>1, <3>2 DEF GuardedBy, Act
  <2> QED BY <1>6, <2>1, <2>2 DEF Guarded
<1>7. CASE Crash
  <2>1. /\ \A t \in Threads : th'[t] = Idle
        /\ fallback' = {} /\ UNCHANGED <<run, attempts, effect>>
    BY <1>7 DEF Crash
  <2>2. \A t \in Threads : th'[t].pc = "idle" /\ th'[t].att = 0 /\ th'[t].mark = 0
    BY <2>1 DEF Idle
  <2> QED BY <2>1, <2>2 DEF Bounds, Guarded, Up, Known, LivePoint
<1>8. CASE Recover
  <2> DEFINE r1 == RecoverRunningRows
             r2 == FinalizeCancelledRows(r1)
  <2>1. run' = FinalizeDeadlineRows(r2) /\ attempts' = RecoverRunningAttempts
        /\ UNCHANGED <<effect, th, fallback>> /\ ~up
    BY <1>8 DEF Recover
  <2>2. r1 \in [Actions -> Row] /\ \A b \in Actions : r1[b].marker = run[b].marker
    BY <1>1, <1>3 DEF RecoverRunningRows
  <2> HIDE DEF r1
  <2>3. r2 \in [Actions -> Row] /\ \A b \in Actions : r2[b].marker = run[b].marker
    BY <1>5, <2>2
  <2> HIDE DEF r2
  <2>4. \A b \in Actions : run'[b].marker = run[b].marker
    BY <1>5, <2>1, <2>3
  <2>5. \A b \in Actions : DOMAIN attempts'[b] = DOMAIN attempts[b]
    BY <2>1 DEF RecoverRunningAttempts
  <2>6. \A t \in Threads : th[t].pc = "idle"
    BY <2>1 DEF Up
  <2>7. \A p \in fallback : p[1] \in Actions
    BY DEF TypeInv, TypeOK
  <2> QED BY <2>1, <2>4, <2>5, <2>6, <2>7 DEF Bounds, Guarded, Up, Known, LivePoint, Act
<1>9. CASE RecoverExpired
  <2>1. \A b \in Actions : run'[b] = IF HasClaim(run[b]) /\ Unleased(run[b])
                                     THEN Recovered(run[b]) ELSE run[b]
    BY <1>9 DEF RecoverExpired
  <2>2. \A b \in Actions : run'[b].marker = run[b].marker
    BY <1>1, <1>3, <2>1
  <2> QED BY <1>6, <1>9, <2>2 DEF RecoverExpired
<1>10. CASE FinalizeCancelled
  BY <1>2, <1>5, <1>6, <1>10 DEF FinalizeCancelled
<1>11. CASE FinalizeDeadline
  BY <1>2, <1>5, <1>6, <1>11 DEF FinalizeDeadline
<1>12. ASSUME NEW a \in Actions, NEW row, run' = [run EXCEPT ![a] = row],
              row.marker = run[a].marker, UNCHANGED <<attempts, effect, th, fallback, up>>
       PROVE  Bounds' /\ Guarded' /\ Up'
  BY <1>2, <1>6, <1>12
<1>13. ASSUME NEW a \in Actions, RequestCancellation(a)
       PROVE  Bounds' /\ Guarded' /\ Up'
  <2> DEFINE row == [run[a] EXCEPT !.cancel = TRUE, !.version = run[a].version + 1]
  <2>1. run' = [run EXCEPT ![a] = row] /\ UNCHANGED <<attempts, effect, th, fallback, up>>
    BY <1>13 DEF RequestCancellation
  <2>2. row.marker = run[a].marker
    BY <1>1 DEF Row
  <2> HIDE DEF row
  <2> QED BY <1>12, <2>1, <2>2
<1>14. ASSUME NEW a \in Actions, CancelLinked(a)
       PROVE  Bounds' /\ Guarded' /\ Up'
  <2> DEFINE row == [run[a] EXCEPT !.cancel = TRUE]
  <2>1. run' = [run EXCEPT ![a] = row] /\ UNCHANGED <<attempts, effect, th, fallback, up>>
    BY <1>14 DEF CancelLinked
  <2>2. row.marker = run[a].marker
    BY <1>1 DEF Row
  <2> HIDE DEF row
  <2> QED BY <1>12, <2>1, <2>2
<1>15. ASSUME NEW a \in Actions, LeaseExpires(a)
       PROVE  Bounds' /\ Guarded' /\ Up'
  <2> DEFINE row == [run[a] EXCEPT !.expired = TRUE]
  <2>1. run' = [run EXCEPT ![a] = row] /\ UNCHANGED <<attempts, effect, th, fallback, up>>
    BY <1>15 DEF LeaseExpires
  <2>2. row.marker = run[a].marker
    BY <1>1 DEF Row
  <2> HIDE DEF row
  <2> QED BY <1>12, <2>1, <2>2
<1>16. ASSUME NEW a \in Actions, DeadlinePasses(a) \/ Land(a) \/ Drop(a) \/ Establish(a)
       PROVE  Bounds' /\ Guarded' /\ Up'
  <2>1. UNCHANGED <<run, attempts, effect, th, fallback, up>>
    BY <1>16 DEF DeadlinePasses, Land, Drop, Establish
  <2> QED BY <1>6, <2>1
<1> QED BY <1>7, <1>8, <1>9, <1>10, <1>11, <1>13, <1>14, <1>15, <1>16

\* A goroutine starts at claim or rec_find, with the marker of the row.
LEMMA PickNames ==
    ASSUME TypeInv, NEW t \in Threads, NEW a \in Actions, Pick(t, a) \/ PickById(t, a)
    PROVE  \E r : /\ th' = [th EXCEPT ![t] = r]
                  /\ r.pc \in {"claim", "rec_find"} /\ r.act = a
                  /\ r.att = 0 /\ r.mark \in {0, run[a].marker}
<1>1. CASE Pick(t, a)
  <2> DEFINE free == run[a].state = "reconciling" /\ Stopped(a)
             p == IF free THEN "rec_find" ELSE "claim"
             q == IF free THEN "reconcile" ELSE "none"
             r == [Idle EXCEPT !.pc = p, !.act = a, !.ver = run[a].version,
                               !.from = run[a].state, !.mark = run[a].marker,
                               !.phase = q, !.keep = free]
  <2>1. th' = [th EXCEPT ![t] = r]
    BY <1>1 DEF Pick
  <2>2. p \in {"claim", "rec_find"}
    OBVIOUS
  <2> HIDE DEF free, p, q
  <2>3. r.pc = p /\ r.act = a /\ r.att = 0 /\ r.mark = run[a].marker
    BY DEF Idle
  <2> HIDE DEF r
  <2> QED BY <2>1, <2>2, <2>3
<1>2. CASE PickById(t, a)
  <2> DEFINE r == [Idle EXCEPT !.pc = "claim", !.act = a, !.ver = run[a].version]
  <2>1. th' = [th EXCEPT ![t] = r]
    BY <1>2 DEF PickById
  <2>2. r.pc = "claim" /\ r.act = a /\ r.att = 0 /\ r.mark = 0
    BY DEF Idle
  <2> HIDE DEF r
  <2> QED BY <2>1, <2>2
<1> QED BY <1>1, <1>2

LEMMA PickGuarded ==
    ASSUME TypeInv, Bounds, Guarded, Up, NEW t \in Threads, NEW a \in Actions,
           Pick(t, a) \/ PickById(t, a)
    PROVE  Bounds' /\ Guarded' /\ Up'
<1>1. UNCHANGED <<run, attempts, effect, fallback, up>> /\ up
  BY DEF Pick, PickById, At
<1>2. PICK r : /\ th' = [th EXCEPT ![t] = r]
               /\ r.pc \in {"claim", "rec_find"} /\ r.act = a
               /\ r.att = 0 /\ r.mark \in {0, run[a].marker}
  BY PickNames
<1>3. th'[t] = r /\ \A u \in Threads \ {t} : th'[u] = th[u]
  BY <1>2, OthersStay
<1>4. Bounds'
  BY <1>1, <1>2, <1>3 DEF Bounds, Known, Act
<1>5. ASSUME NEW u \in Threads, th'[u].pc \in LivePoint
      PROVE  GuardedBy(u)'
  <2>1. u # t /\ th'[u] = th[u]
    BY <1>2, <1>3, <1>5 DEF LivePoint
  <2>2. GuardedBy(u)
    BY <1>5, <2>1 DEF Guarded
  <2>3. th[u].act \in Actions
    BY <1>5, <2>1, ThreadTyped DEF LivePoint
  <2>4. th[u].att # 0
    BY <2>2, <2>3, AttemptsTyped DEF GuardedBy, Act
  <2>5. th'[t].act = th[u].act => th'[t].att # th[u].att /\ th'[t].mark # th[u].att
    BY <1>2, <1>3, <2>2, <2>4 DEF GuardedBy, Act
  <2> QED BY <1>1, <1>3, <2>1, <2>2, <2>5 DEF GuardedBy, Act
<1> QED BY <1>1, <1>4, <1>5 DEF Guarded, Up

LEMMA NextGuarded ==
    ASSUME TypeInv, Bounds, Guarded, Up, [Next]_vars
    PROVE  Bounds' /\ Guarded' /\ Up'
<1>1. CASE UNCHANGED vars
  BY <1>1 DEF vars, Bounds, Guarded, GuardedBy, Up, Known, Act
<1>2. CASE Environment
  BY <1>2, QuietGuarded DEF Environment
<1>3. ASSUME NEW t \in Threads, Step(t)
      PROVE  Bounds' /\ Guarded' /\ Up'
  BY <1>3, StepBounds, StepGuarded, StepActs DEF Up
<1>4. ASSUME NEW t \in Threads, NEW a \in Actions, Pick(t, a) \/ PickById(t, a)
      PROVE  Bounds' /\ Guarded' /\ Up'
  BY <1>4, PickGuarded
<1> QED BY <1>1, <1>2, <1>3, <1>4 DEF Next

LEMMA AlwaysGuarded == Spec => [](Bounds /\ Guarded /\ Up)
<1>1. Init => Bounds /\ Guarded /\ Up
  <2> SUFFICES ASSUME Init PROVE Bounds /\ Guarded /\ Up
    OBVIOUS
  <2>1. \A t \in Threads : th[t].pc = "idle" /\ th[t].att = 0 /\ th[t].mark = 0
    BY DEF Init, Idle
  <2>2. \A a \in Actions : run[a].marker = 0 /\ effect[a].att = 0
    BY DEF Init
  <2>3. fallback = {} /\ up
    BY DEF Init
  <2> QED BY <2>1, <2>2, <2>3 DEF Bounds, Guarded, Up, Known, LivePoint
<1>2. IInv => TypeInv
  BY DEF IInv
<1>3. TypeInv /\ Bounds /\ Guarded /\ Up /\ [Next]_vars => Bounds' /\ Guarded' /\ Up'
  BY NextGuarded
<1> QED BY <1>1, <1>2, <1>3, Inductive, PTL DEF Spec

\* While a handler may be writing upstream its dispatch attempt is running in
\* the journal, whoever owns the action by then: no recovery, return of another
\* dispatch or background retry ever releases it.  No assumption on conflicts
\* or failing transactions is needed (the first half of OneLiveDispatch).
DispatchIsJournalled == \A t \in Threads : th[t].pc = "dispatch" => BarrierHeld(t)

THEOREM BarrierSpansDispatch == Spec => []DispatchIsJournalled
<1>1. Guarded => DispatchIsJournalled
  BY DEF Guarded, GuardedBy, DispatchIsJournalled, BarrierHeld, LivePoint
<1> QED BY <1>1, AlwaysGuarded, PTL

-----------------------------------------------------------------------------
(* The owner of an action and its journal *)

\* h, a goroutine's state, holds the newest claim of its action, and at most
\* one version was added since.  This is the fence up to a cancellation that
\* may still be recorded: a late return marker adds a version without one, and
\* the cancellation of a closing workflow then makes the fence match again.
Owning(h) ==
    /\ h.claimed
    /\ run[h.act].state = "running"
    /\ run[h.act].version <= h.ver + 1

Owns(t) == Owning(th[t])

\* No dispatch of a is running in the journal; no goroutine is dispatching it;
\* the upstream system has not seen a request for it.
Settled(a) == ActiveDispatches(a) = {}
Quiet(a) == \A t \in Threads : th[t].pc \in LivePoint => th[t].act # a
Zero(a) == world[a].inflight = 0 /\ world[a].applied = 0

\* A dispatch of a may be prepared.
Clean(a) == Settled(a) /\ ~OpenEffect(a) /\ Zero(a)

\* A claim of an action that waited, and one of a reconciliation, before the
\* reservations are taken.
Fresh(h) == h.phase = "none" /\ h.from # "reconciling"
Again(h) == h.phase = "none" /\ h.from = "reconciling"

\* What the row says to the goroutine of e that owns it.  A version that a late
\* return marker added shows that no handler is working.
OwnerRow(h, e) ==
    LET r == run[h.act]
    IN  /\ r.by = e
        /\ /\ Again(h) /\ r.version = h.ver + 1
           /\ ~r.cancel \/ h.pc = "wait"
           => Quiet(h.act)
        /\ Again(h) /\ h.pc = "wait" => r.version = h.ver + 1

\* What the journal and the upstream system say at each point of its pass.
OwnerJournal(h) ==
    LET a == h.act
    IN  /\ Fresh(h) \/ h.phase = "observe" => Clean(a)
        /\ h.phase = "dispatch" =>
              /\ ActiveDispatches(a) \subseteq {h.att}
              /\ h.pc \in {"effects", "final", "wait"} => Settled(a)
              /\ h.pc \in LivePoint \cup {"close"} => effect[a].att = h.att
              /\ h.pc = "wait" => ~OpenEffect(a)
              /\ h.pc \in {"close", "wait"} /\ h.res = "dependency" => Zero(a)
        /\ h.phase = "reconcile" =>
              /\ h.pc \in {"rec_att", "reconcile"} \cup Closing => Settled(a)
              /\ h.pc \in Closing /\ h.res = "safe" => Zero(a)
              /\ h.pc = "final" /\ h.res = "safe" => ~OpenEffect(a)
        /\ h.pc = "effects" /\ h.res \in {"satisfied", "safe"} =>
              (h.att \in DOMAIN attempts[a] => attempts[a][h.att].state = "succeeded")

\* The row a claim is going to be tried on is as it was read, or newer.
Origin(h) ==
    LET r == run[h.act]
    IN  /\ h.ver <= r.version
        /\ h.ver = r.version => r.state \notin Claimable \/ r.state = h.from

\* An unclaimed pass: the row stays stopped, and is not started again.
FreePass(h) ==
    /\ run[h.act].state \notin {"running"} \cup Unstarted
    /\ h.pc \in {"rec_att", "reconcile"} \cup Closing => Settled(h.act)

PassInv(h, e) ==
    /\ h.pc = "claim" => Origin(h)
    /\ Owning(h) => OwnerRow(h, e) /\ OwnerJournal(h)
    /\ Free(h) => FreePass(h)
    /\ h.pc \in LivePoint /\ ~h.sent => Zero(h.act)

ThreadInv(t) == PassInv(th[t], ExecOf(t))

ActionInv(a) ==
    /\ \A m, n \in ActiveDispatches(a) : m = n
    /\ run[a].state \in Unstarted \cup Terminal => Quiet(a)
    /\ run[a].state \in Unstarted /\ ~run[a].cancel => Clean(a)
    /\ world[a].inflight + world[a].applied <= 1

Exclusive ==
    /\ \A t \in Threads : ThreadInv(t)
    /\ \A a \in Actions : ActionInv(a)

-----------------------------------------------------------------------------
(* What a step leaves alone *)

\* The other actions.
Elsewhere(t) ==
    /\ overdue' = overdue
    /\ \A b \in Actions \ {Act(t)} :
          /\ run'[b] = run[b] /\ attempts'[b] = attempts[b]
          /\ effect'[b] = effect[b] /\ world'[b] = world[b]

LEMMA StepElsewhere ==
    ASSUME TypeInv, NEW t \in Threads, Step(t)
    PROVE  Elsewhere(t)
<1> DEFINE a == Act(t)
<1>1. DOMAIN run = Actions /\ DOMAIN attempts = Actions
      /\ DOMAIN effect = Actions /\ DOMAIN world = Actions
  BY DEF TypeInv, TypeOK
<1>2. ASSUME run' = run \/ (\E row : run' = [run EXCEPT ![a] = row]),
             attempts' = attempts \/ (\E s : attempts' = [attempts EXCEPT ![a] = s]),
             effect' = effect \/ (\E e : effect' = [effect EXCEPT ![a] = e]),
             world' = world \/ (\E w : world' = [world EXCEPT ![a] = w]),
             overdue' = overdue
      PROVE  Elsewhere(t)
  BY <1>1, <1>2 DEF Elsewhere
<1>3. CASE \/ AcquireReservations(t) \/ ReserveRefused(t) \/ Finish(t)
           \/ ObserveReturn(t) \/ BeforeDispatch(t) \/ BeforeDispatchCancelled(t)
           \/ DispatchReturn(t) \/ EffectsRefused(t) \/ FinalNotStopped(t)
  <2>1. UNCHANGED <<run, attempts, effect, overdue, world>>
    BY <1>3 DEF AcquireReservations, ReserveRefused, Finish, ObserveReturn, BeforeDispatch,
       BeforeDispatchCancelled, DispatchReturn, EffectsRefused, FinalNotStopped
  <2> QED BY <1>2, <2>1
<1>4. CASE \/ ReconcileFind(t) \/ ReconcileRefresh(t) \/ ReconcileActive(t)
           \/ ReconcileReuse(t) \/ ReconcileReturn(t) \/ ReleaseFailed(t) \/ BarrierRetry(t)
           \/ BarrierGiveUp(t) \/ FenceLost(t) \/ JournalFails(t) \/ JournalFull(t)
           \/ ReleaseResolved(t)
  <2>1. UNCHANGED <<run, attempts, effect, overdue, world>>
    BY <1>4 DEF ReconcileFind, ReconcileRefresh, ReconcileActive, ReconcileReuse,
       ReconcileReturn, ReleaseFailed, BarrierRetry, BarrierGiveUp, FenceLost, JournalFails,
       JournalFull, ReleaseResolved
  <2> QED BY <1>2, <2>1
<1>5. CASE HoldUnhandled(t)
  BY <1>2, <1>5 DEF HoldUnhandled
<1>6. CASE Claim(t)
  <2>1. \/ run' = run
        \/ run' = [run EXCEPT ![a] = [run[a] EXCEPT !.state = "running", !.by = ExecOf(t),
                                        !.expired = FALSE, !.version = run[a].version + 1]]
    BY <1>6 DEF Claim
  <2> QED BY <1>2, <1>6, <2>1 DEF Claim
<1>7. CASE Reserve(t)
  <2>1. run' = [run EXCEPT ![a] = [run[a] EXCEPT !.reserved = TRUE]]
    BY <1>7 DEF Reserve
  <2> QED BY <1>2, <1>7, <2>1 DEF Reserve
<1>8. CASE Wait(t) \/ ReleaseMark(t)
  BY <1>2, <1>8 DEF Wait, ReleaseMark
<1>9. CASE FinalOwned(t)
  <2>1. \E row : run' = [run EXCEPT ![a] = row]
    BY <1>9 DEF FinalOwned
  <2> QED BY <1>2, <1>9, <2>1 DEF FinalOwned
<1>10. CASE FinalFree(t)
  <2>1. run' = run \/ \E row : run' = [run EXCEPT ![a] = row]
    BY <1>10 DEF FinalFree
  <2> QED BY <1>2, <1>10, <2>1 DEF FinalFree
<1>11. CASE DeferActiveDispatch(t)
  <2>1. run' = run \/ \E row : run' = [run EXCEPT ![a] = row]
    BY <1>11 DEF DeferActiveDispatch
  <2> QED BY <1>2, <1>11, <2>1 DEF DeferActiveDispatch
<1>12. CASE ObserveBegin(t) \/ ReconcileBegin(t)
  BY <1>2, <1>12 DEF ObserveBegin, ReconcileBegin
<1>13. CASE PrepareDispatch(t)
  <2>1. /\ \E s : attempts' = [attempts EXCEPT ![a] = s]
        /\ \E e : effect' = [effect EXCEPT ![a] = e]
    BY <1>13 DEF PrepareDispatch
  <2> QED BY <1>2, <1>13, <2>1 DEF PrepareDispatch
<1>14. CASE CloseAttempt(t)
  <2>1. \E s : attempts' = [attempts EXCEPT ![a] = s]
    BY <1>14 DEF CloseAttempt
  <2> QED BY <1>2, <1>14, <2>1 DEF CloseAttempt
<1>15. CASE RecordEffects(t)
  <2>1. \E e : effect' = [effect EXCEPT ![a] = e]
    BY <1>15 DEF RecordEffects
  <2> QED BY <1>2, <1>15, <2>1 DEF RecordEffects
<1>16. CASE ReleaseIntent(t)
  <2>1. attempts' = attempts \/ \E s : attempts' = [attempts EXCEPT ![a] = s]
    BY <1>16 DEF ReleaseIntent
  <2> QED BY <1>2, <1>16, <2>1 DEF ReleaseIntent
<1>17. CASE ReleaseResolve(t)
  <2>1. /\ \E s : attempts' = [attempts EXCEPT ![a] = s]
        /\ \E e : effect' = [effect EXCEPT ![a] = e]
    BY <1>17 DEF ReleaseResolve
  <2> QED BY <1>2, <1>17, <2>1 DEF ReleaseResolve
<1>18. CASE DispatchSend(t)
  <2>1. \E w : world' = [world EXCEPT ![a] = w]
    BY <1>18 DEF DispatchSend
  <2> QED BY <1>2, <1>18, <2>1 DEF DispatchSend
<1> QED BY <1>3, <1>4, <1>5, <1>6, <1>7, <1>8, <1>9, <1>10, <1>11, <1>12, <1>13, <1>14,
           <1>15, <1>16, <1>17, <1>18 DEF Step

-----------------------------------------------------------------------------
(* What a step does to a row *)

\* A version names one state; only a claim starts a row; a row waits again only
\* through Wait and FinalOwned, and ends only through the writing of a verdict.
RowMove(t, b) ==
    /\ run'[b].version >= run[b].version
    /\ run'[b].version = run[b].version => run'[b].state = run[b].state
    /\ run'[b].state = "running" =>
          Claim(t) \/ (run[b].state = "running" /\ run'[b].by = run[b].by)
    /\ run'[b].state \in Unstarted =>
          \/ run[b].state = run'[b].state
          \/ b = Act(t) /\ (Wait(t) \/ FinalOwned(t))
    /\ run'[b].state \in Terminal =>
          \/ run[b].state = run'[b].state
          \/ b = Act(t) /\ (Wait(t) \/ FinalOwned(t) \/ FinalFree(t))

\* Every step but a claim and a reservation is a RowStep of every row.
LEMMA OrdinarySteps ==
    ASSUME TypeInv, NEW t \in Threads, Step(t), ~Claim(t), ~Reserve(t)
    PROVE  RowsStep
<1>1. StepInv => RowsStep
  BY DEF StepInv
<1>2. CASE ReconcileRefresh(t)
  BY <1>2, RowsKept DEF ReconcileRefresh
<1>3. CASE HoldUnhandled(t) \/ AcquireReservations(t) \/ ReserveRefused(t) \/ Wait(t) \/ Finish(t)
  BY <1>1, <1>3, HoldUnhandledStep, AcquireReservationsStep, ReserveRefusedStep,
     WaitStep, FinishStep
<1>4. CASE ObserveBegin(t) \/ ObserveReturn(t) \/ PrepareDispatch(t)
           \/ BeforeDispatch(t) \/ BeforeDispatchCancelled(t)
           \/ DispatchSend(t) \/ DispatchReturn(t)
  BY <1>1, <1>4, ObserveBeginStep, ObserveReturnStep, PrepareDispatchStep,
     BeforeDispatchStep, BeforeDispatchCancelledStep, DispatchSendStep, DispatchReturnStep
<1>5. CASE CloseAttempt(t) \/ RecordEffects(t) \/ EffectsRefused(t)
           \/ FinalOwned(t) \/ FinalNotStopped(t) \/ FinalFree(t)
  BY <1>1, <1>5, CloseAttemptStep, RecordEffectsStep, EffectsRefusedStep,
     FinalOwnedStep, FinalNotStoppedStep, FinalFreeStep
<1>6. CASE ReconcileFind(t) \/ ReconcileActive(t) \/ DeferActiveDispatch(t)
           \/ ReconcileReuse(t) \/ ReconcileBegin(t) \/ ReconcileReturn(t)
  BY <1>1, <1>6, ReconcileFindStep, ReconcileActiveStep, DeferActiveDispatchStep,
     ReconcileReuseStep, ReconcileBeginStep, ReconcileReturnStep
<1>7. CASE ReleaseResolved(t) \/ ReleaseIntent(t) \/ ReleaseMark(t) \/ ReleaseResolve(t)
            \/ ReleaseFailed(t) \/ BarrierRetry(t) \/ BarrierGiveUp(t)
  BY <1>1, <1>7, ReleaseResolvedStep, ReleaseIntentStep, ReleaseMarkStep,
     ReleaseResolveStep, ReleaseFailedStep, BarrierRetryStep, BarrierGiveUpStep
<1>8. CASE FenceLost(t) \/ JournalFails(t) \/ JournalFull(t)
  BY <1>1, <1>8, FenceLostStep, JournalFailsStep, JournalFullStep
<1> QED BY <1>2, <1>3, <1>4, <1>5, <1>6, <1>7, <1>8 DEF Step

\* Steps that write no row.
LEMMA RowsSame ==
    ASSUME NEW t \in Threads, Step(t),
           ~(\/ HoldUnhandled(t) \/ Claim(t) \/ Reserve(t) \/ Wait(t) \/ FinalOwned(t)
             \/ FinalFree(t) \/ DeferActiveDispatch(t) \/ ReleaseMark(t))
    PROVE  run' = run
<1>1. CASE \/ AcquireReservations(t) \/ ReserveRefused(t) \/ Finish(t)
           \/ ObserveReturn(t) \/ BeforeDispatch(t) \/ BeforeDispatchCancelled(t)
           \/ DispatchReturn(t) \/ EffectsRefused(t) \/ FinalNotStopped(t)
  <2>1. UNCHANGED <<run, attempts, effect, overdue, world>>
    BY <1>1 DEF AcquireReservations, ReserveRefused, Finish, ObserveReturn, BeforeDispatch,
       BeforeDispatchCancelled, DispatchReturn, EffectsRefused, FinalNotStopped
  <2> QED BY <2>1
<1>2. CASE ObserveBegin(t) \/ PrepareDispatch(t) \/ DispatchSend(t) \/ CloseAttempt(t)
  BY <1>2 DEF ObserveBegin, PrepareDispatch, DispatchSend, CloseAttempt
<1>3. CASE RecordEffects(t) \/ ReconcileBegin(t) \/ ReleaseIntent(t) \/ ReleaseResolve(t)
  BY <1>3 DEF RecordEffects, ReconcileBegin, ReleaseIntent, ReleaseResolve
<1>4. CASE \/ ReconcileFind(t) \/ ReconcileRefresh(t) \/ ReconcileActive(t)
           \/ ReconcileReuse(t) \/ ReconcileReturn(t) \/ ReleaseFailed(t) \/ BarrierRetry(t)
           \/ BarrierGiveUp(t) \/ FenceLost(t) \/ JournalFails(t) \/ JournalFull(t)
           \/ ReleaseResolved(t)
  <2>1. UNCHANGED <<run, attempts, effect, overdue, world>>
    BY <1>4 DEF ReconcileFind, ReconcileRefresh, ReconcileActive, ReconcileReuse,
       ReconcileReturn, ReleaseFailed, BarrierRetry, BarrierGiveUp, FenceLost, JournalFails,
       JournalFull, ReleaseResolved
  <2> QED BY <2>1
<1> QED BY <1>1, <1>2, <1>3, <1>4 DEF Step

\* The states that the other row writers write.
LEMMA PlainTargets ==
    ASSUME TypeInv, NEW t \in Threads, Step(t),
           HoldUnhandled(t) \/ Reserve(t) \/ DeferActiveDispatch(t) \/ ReleaseMark(t)
    PROVE  run'[Act(t)].state \in {run[Act(t)].state, "needs_review", "reconciling"}
<1> DEFINE a == Act(t)
<1>1. a \in Actions /\ run[a] \in Row /\ run \in [Actions -> Row]
  BY StepActs, RowTyped DEF TypeInv, TypeOK
<1>2. ASSUME NEW row, run' = [run EXCEPT ![a] = row] PROVE run'[a] = row
  BY <1>1, <1>2
<1>3. CASE HoldUnhandled(t)
  <2> DEFINE n == unresolvedEffectCount(a, FALSE)
             row == Outcome(run[a], "needs_review", n)
  <2>1. run' = [run EXCEPT ![a] = row]
    BY <1>3 DEF HoldUnhandled
  <2>2. row.state = "needs_review"
    <3> HIDE DEF n
    <3> QED BY <1>1, OutcomeState
  <2> HIDE DEF row
  <2> QED BY <1>2, <2>1, <2>2
<1>4. CASE Reserve(t)
  <2> DEFINE row == [run[a] EXCEPT !.reserved = TRUE]
  <2>1. run' = [run EXCEPT ![a] = row]
    BY <1>4 DEF Reserve
  <2>2. row.state = run[a].state
    BY <1>1 DEF Row
  <2> HIDE DEF row
  <2> QED BY <1>2, <2>1, <2>2
<1>5. CASE DeferActiveDispatch(t)
  <2> DEFINE n == unresolvedEffectCount(a, TRUE)
             row == Outcome(run[a], "reconciling", n)
  <2>1. run' = run \/ run' = [run EXCEPT ![a] = row]
    BY <1>5 DEF DeferActiveDispatch
  <2>2. row.state = "reconciling"
    <3> HIDE DEF n
    <3> QED BY <1>1, OutcomeState
  <2> HIDE DEF row
  <2> QED BY <1>2, <2>1, <2>2
<1>6. CASE ReleaseMark(t)
  <2> DEFINE hold == run[a].state = "running" /\ PreserveClaim(t) /\ ~run[a].cancel
             s == IF run[a].state = "running" /\ ~hold THEN "reconciling" ELSE run[a].state
             n == unresolvedEffectCount(a, TRUE)
             m == th[t].att
             by == IF hold THEN run[a].by ELSE None
             e == hold /\ run[a].expired
             out == Outcome(run[a], s, n)
             row == [out EXCEPT !.marker = m, !.by = by, !.expired = e]
  <2>1. run' = [run EXCEPT ![a] = MarkedRow(t)]
    BY <1>6 DEF ReleaseMark
  <2>2. MarkedRow(t) = run[a] \/ MarkedRow(t) = row
    BY DEF MarkedRow
  <2>3. s \in {run[a].state, "reconciling"}
    OBVIOUS
  <2>4. out.state = s
    <3> HIDE DEF s, n
    <3> QED BY <1>1, OutcomeState
  <2>5. "state" \in DOMAIN out
    <3> HIDE DEF s, n
    <3> QED BY <1>1 DEF Outcome, Row
  <2> HIDE DEF out, by, e, m
  <2>6. row.state = s
    BY <2>4, <2>5
  <2> HIDE DEF row, s
  <2> QED BY <1>2, <2>1, <2>2, <2>3, <2>6
<1> QED BY <1>3, <1>4, <1>5, <1>6

LEMMA RowMoves ==
    ASSUME TypeInv, NEW t \in Threads, Step(t), NEW b \in Actions
    PROVE  RowMove(t, b)
<1> DEFINE a == Act(t)
<1>1. a \in Actions /\ run[b] \in Row /\ run[b].version \in Nat /\ run \in [Actions -> Row]
  BY StepActs, RowTyped DEF TypeInv, TypeOK, Row
<1>2. b # a => run'[b] = run[b]
  BY StepElsewhere DEF Elsewhere
<1>3. run'[b] = run[b] => RowMove(t, b)
  BY <1>1 DEF RowMove
<1>4. CASE b = a /\ Claim(t)
  <2> DEFINE v == run[a].version + 1
             row == [run[a] EXCEPT !.state = "running", !.by = ExecOf(t), !.expired = FALSE,
                                   !.version = v]
  <2>1. run' = run \/ run' = [run EXCEPT ![a] = row]
    BY <1>4 DEF Claim
  <2>2. row.version = v /\ row.state = "running"
    BY <1>1 DEF Row
  <2>3. v > run[a].version /\ v \in Nat
    BY <1>1, <1>4
  <2> HIDE DEF row, v
  <2>4. run'[b] = run[b] \/ run'[b] = row
    BY <1>1, <1>4, <2>1
  <2> QED BY <1>1, <1>3, <1>4, <2>2, <2>3, <2>4 DEF RowMove, Unstarted, Terminal
<1>5. CASE b = a /\ Reserve(t)
  <2> DEFINE row == [run[a] EXCEPT !.reserved = TRUE]
  <2>1. run' = [run EXCEPT ![a] = row]
    BY <1>5 DEF Reserve
  <2>2. row.version = run[a].version /\ row.state = run[a].state /\ row.by = run[a].by
    BY <1>1 DEF Row
  <2> HIDE DEF row
  <2>3. run'[b] = row
    BY <1>1, <1>5, <2>1
  <2> QED BY <1>1, <1>5, <2>2, <2>3 DEF RowMove
<1>6. CASE b = a /\ ~Claim(t) /\ ~Reserve(t)
  <2>1. RowStep(run[b], run'[b])
    BY <1>6, OrdinarySteps DEF RowsStep
  <2>2. /\ run'[b].version >= run[b].version
        /\ run'[b].version = run[b].version => run'[b].state = run[b].state
        /\ run'[b].state = "running" => run[b].state = "running" /\ run'[b].by = run[b].by
    BY <1>1, <2>1 DEF RowStep, Kept, Released, Row
  <2>3. CASE HoldUnhandled(t) \/ DeferActiveDispatch(t) \/ ReleaseMark(t)
    <3>1. run'[b].state \in {run[b].state, "needs_review", "reconciling"}
      BY <1>6, <2>3, PlainTargets
    <3> QED BY <2>2, <3>1 DEF RowMove, Unstarted, Terminal
  <2>4. CASE Wait(t) \/ FinalOwned(t)
    BY <1>6, <2>2, <2>4 DEF RowMove
  <2>5. CASE FinalFree(t)
    <3> DEFINE s == FreeTarget(t)
               n == unresolvedEffectCount(a, s = "reconciling")
               row == Outcome(run[a], s, n)
    <3>1. run' = run \/ run' = [run EXCEPT ![a] = row]
      BY <2>5 DEF FinalFree
    <3>2. s \notin Unstarted
      BY DEF FreeTarget, StopState, Unstarted
    <3>3. row.state = s
      <4> HIDE DEF s, n
      <4> QED BY <1>1, OutcomeState
    <3> HIDE DEF s, row
    <3>4. run'[b] = run[b] \/ run'[b].state \notin Unstarted
      BY <1>1, <1>6, <3>1, <3>2, <3>3
    <3> QED BY <1>3, <1>6, <2>2, <2>5, <3>4 DEF RowMove
  <2> QED BY <1>3, <1>6, <2>3, <2>4, <2>5, RowsSame
<1> QED BY <1>2, <1>3, <1>4, <1>5, <1>6

-----------------------------------------------------------------------------
(* What a step does to the journal and to the upstream system *)

\* No barrier is raised, nothing becomes open, nothing settled is reopened.
Passive(b) ==
    /\ ActiveDispatches(b)' \subseteq ActiveDispatches(b)
    /\ effect'[b].att = effect[b].att
    /\ OpenEffect(b)' => OpenEffect(b)
    /\ \A n \in DOMAIN attempts[b] :
          attempts[b][n].state = "succeeded" => attempts'[b][n].state = "succeeded"

\* Steps that neither write the journal nor send.
LEMMA JournalSame ==
    ASSUME TypeInv, NEW t \in Threads, Step(t)
    PROVE  \/ UNCHANGED <<attempts, effect, world>>
           \/ ObserveBegin(t) \/ PrepareDispatch(t) \/ CloseAttempt(t) \/ RecordEffects(t)
           \/ ReconcileBegin(t) \/ ReleaseIntent(t) \/ ReleaseResolve(t) \/ DispatchSend(t)
<1>1. CASE \/ AcquireReservations(t) \/ ReserveRefused(t) \/ Finish(t)
           \/ ObserveReturn(t) \/ BeforeDispatch(t) \/ BeforeDispatchCancelled(t)
           \/ DispatchReturn(t) \/ EffectsRefused(t) \/ FinalNotStopped(t)
  <2>1. UNCHANGED <<attempts, effect, world>>
    BY <1>1 DEF AcquireReservations, ReserveRefused, Finish, ObserveReturn, BeforeDispatch,
       BeforeDispatchCancelled, DispatchReturn, EffectsRefused, FinalNotStopped
  <2> QED BY <2>1
<1>2. CASE \/ ReconcileFind(t) \/ ReconcileRefresh(t) \/ ReconcileActive(t)
           \/ ReconcileReuse(t) \/ ReconcileReturn(t) \/ ReleaseFailed(t) \/ BarrierRetry(t)
           \/ BarrierGiveUp(t) \/ FenceLost(t) \/ JournalFails(t) \/ JournalFull(t)
           \/ ReleaseResolved(t)
  <2>1. UNCHANGED <<attempts, effect, world>>
    BY <1>2 DEF ReconcileFind, ReconcileRefresh, ReconcileActive, ReconcileReuse,
       ReconcileReturn, ReleaseFailed, BarrierRetry, BarrierGiveUp, FenceLost, JournalFails,
       JournalFull, ReleaseResolved
  <2> QED BY <2>1
<1>3. CASE HoldUnhandled(t) \/ Claim(t) \/ Reserve(t) \/ Wait(t)
  <2>1. UNCHANGED <<attempts, effect, world>>
    BY <1>3 DEF HoldUnhandled, Claim, Reserve, Wait
  <2> QED BY <2>1
<1>4. CASE FinalOwned(t) \/ FinalFree(t) \/ DeferActiveDispatch(t) \/ ReleaseMark(t)
  <2>1. UNCHANGED <<attempts, effect, world>>
    BY <1>4 DEF FinalOwned, FinalFree, DeferActiveDispatch, ReleaseMark
  <2> QED BY <2>1
<1> QED BY <1>1, <1>2, <1>3, <1>4 DEF Step

\* The closed states of an attempt.
LEMMA CloseStates ==
    ASSUME NEW v
    PROVE  /\ CloseState(v) # "running"
           /\ CloseState(v) = "reconciling" <=> v \in {"uncertain", "unresolved", "retry"}
           /\ v \in {"satisfied", "unproven", "applied", "safe"} => CloseState(v) = "succeeded"
  BY DEF CloseState

LEMMA JournalMoves ==
    ASSUME TypeInv, Bounds, NEW t \in Threads, Step(t), NEW b \in Actions
    PROVE  /\ \/ Passive(b)
              \/ b = Act(t) /\ (PrepareDispatch(t) \/ CloseAttempt(t) \/ RecordEffects(t))
           /\ PrepareDispatch(t) \/ ActiveDispatches(b)' \subseteq ActiveDispatches(b)
<1> DEFINE a == Act(t)
           s == attempts[a]
           k == th[t].att
<1>1. /\ a \in Actions /\ s \in Seq(Attempt) /\ attempts[b] \in Seq(Attempt)
      /\ effect[b].att \in Known(b)
  BY StepActs, AttemptsTyped DEF Bounds
<1>2. ASSUME attempts'[b] = attempts[b], effect'[b].att = effect[b].att
      PROVE  Passive(b)
  BY <1>2 DEF Passive, OpenEffect, ActiveDispatches
<1>3. CASE b # a
  BY <1>2, <1>3, StepElsewhere DEF Elsewhere, Passive
<1>4. CASE UNCHANGED <<attempts, effect, world>>
  BY <1>2, <1>4 DEF Passive
<1>5. CASE DispatchSend(t)
  BY <1>2, <1>5 DEF Passive, DispatchSend
\* A new attempt that is no dispatch.
<1>6. CASE b = a /\ (ObserveBegin(t) \/ ReconcileBegin(t))
  <2>1. PICK p \in {"observe", "reconcile"} :
              attempts' = [attempts EXCEPT ![a] = Append(s, NewAttempt(p))]
    BY <1>6 DEF ObserveBegin, ReconcileBegin
  <2>2. effect' = effect
    BY <1>6 DEF ObserveBegin, ReconcileBegin
  <2> DEFINE x == NewAttempt(p)
             w == Append(s, x)
             m == Len(s) + 1
  <2>3. x \in Attempt /\ ~IsActiveDispatch(x)
    BY Words, NewAttemptTyped DEF NewAttempt, IsActiveDispatch
  <2>4. /\ m \notin DOMAIN s /\ m # 0 /\ DOMAIN w = DOMAIN s \cup {m} /\ w[m] = x
        /\ \A n \in DOMAIN s : w[n] = s[n]
    BY <1>1, <2>3, AppendKept
  <2>5. attempts'[b] = w
    BY <1>6, <2>1 DEF TypeInv, TypeOK
  <2> HIDE DEF w, m, x
  <2>6. ActiveDispatches(b)' \subseteq ActiveDispatches(b)
    BY <1>6, <2>3, <2>4, <2>5 DEF ActiveDispatches
  <2>7. OpenEffect(b)' => OpenEffect(b)
    BY <1>1, <1>6, <2>2, <2>4, <2>5 DEF OpenEffect, Known
  <2> QED BY <1>6, <2>2, <2>4, <2>5, <2>6, <2>7 DEF Passive
\* Writing one attempt.
<1>7. ASSUME NEW x, b = a, attempts' = [attempts EXCEPT ![a] = [s EXCEPT ![k] = x]]
      PROVE  /\ DOMAIN attempts'[b] = DOMAIN s
             /\ \A n \in DOMAIN s : attempts'[b][n] = IF n = k THEN x ELSE s[n]
  <2> DEFINE w == [s EXCEPT ![k] = x]
  <2>1. attempts'[b] = w
    BY <1>1, <1>7 DEF TypeInv, TypeOK
  <2>2. DOMAIN w = DOMAIN s /\ \A n \in DOMAIN s : w[n] = IF n = k THEN x ELSE s[n]
    BY <1>1
  <2> HIDE DEF w
  <2> QED BY <2>1, <2>2
<1>8. CASE b = a /\ ReleaseIntent(t)
  <2> DEFINE x == [s[k] EXCEPT !.intent = TRUE]
  <2>1. effect' = effect /\ k \in DOMAIN s
    BY <1>8 DEF ReleaseIntent, BarrierHeld
  <2>2. CASE attempts' = attempts
    BY <1>2, <2>1, <2>2 DEF Passive
  <2>3. CASE attempts' = [attempts EXCEPT ![a] = [s EXCEPT ![k] = x]]
    <3>1. s[k] \in Attempt
      BY <1>1, <2>1
    <3>2. x.phase = s[k].phase /\ x.state = s[k].state
      BY <3>1 DEF Attempt
    <3> HIDE DEF x
    <3>3. /\ DOMAIN attempts'[b] = DOMAIN s
          /\ \A n \in DOMAIN s : attempts'[b][n] = IF n = k THEN x ELSE s[n]
      BY <1>7, <1>8, <2>3
    <3> QED BY <1>8, <2>1, <3>2, <3>3 DEF Passive, ActiveDispatches, IsActiveDispatch, OpenEffect
  <2> QED BY <1>8, <2>2, <2>3 DEF ReleaseIntent
<1>9. CASE b = a /\ ReleaseResolve(t)
  <2> DEFINE x == [s[k] EXCEPT !.state = "reconciling", !.intent = FALSE]
             v == IF effect[a].att = k THEN "unknown" ELSE effect[a].state
             e == [effect[a] EXCEPT !.state = v]
  <2>1. /\ attempts' = [attempts EXCEPT ![a] = [s EXCEPT ![k] = x]]
        /\ effect' = [effect EXCEPT ![a] = e]
        /\ k \in DOMAIN s /\ s[k].state = "running"
    BY <1>9 DEF ReleaseResolve, BarrierHeld, IsActiveDispatch
  <2>2. s[k] \in Attempt
    BY <1>1, <2>1
  <2>3. x.state = "reconciling"
    BY <2>2 DEF Attempt
  <2>4. e.att = effect[a].att
    <3> HIDE DEF v
    <3> QED BY <1>1, EffectTyped
  <2> HIDE DEF x, e
  <2>5. /\ DOMAIN attempts'[b] = DOMAIN s
        /\ \A n \in DOMAIN s : attempts'[b][n] = IF n = k THEN x ELSE s[n]
    BY <1>7, <1>9, <2>1
  <2>6. effect'[b].att = effect[b].att
    BY <1>9, <2>1, <2>4, EffectTyped
  <2> QED BY <1>9, <2>1, <2>3, <2>5, <2>6 DEF Passive, ActiveDispatches, IsActiveDispatch,
             OpenEffect
<1>10. CASE b = a /\ CloseAttempt(t)
  <2> DEFINE x == [s[k] EXCEPT !.state = CloseState(th[t].res)]
  <2>1. attempts' = [attempts EXCEPT ![a] = [s EXCEPT ![k] = x]]
    BY <1>10 DEF CloseAttempt
  <2>2. k \in DOMAIN s => x.state # "running"
    <3> SUFFICES ASSUME k \in DOMAIN s PROVE x.state # "running"
      OBVIOUS
    <3>1. s[k] \in Attempt
      BY <1>1
    <3>2. x.state = CloseState(th[t].res)
      BY <3>1 DEF Attempt
    <3> QED BY <3>2, CloseStates
  <2> HIDE DEF x
  <2>3. /\ DOMAIN attempts'[b] = DOMAIN s
        /\ \A n \in DOMAIN s : attempts'[b][n] = IF n = k THEN x ELSE s[n]
    BY <1>7, <1>10, <2>1
  <2>4. ActiveDispatches(b)' \subseteq ActiveDispatches(b)
    BY <1>10, <2>2, <2>3 DEF ActiveDispatches, IsActiveDispatch
  <2> QED BY <1>10, <2>4
<1>11. CASE b = a /\ RecordEffects(t)
  <2>1. attempts' = attempts
    BY <1>11 DEF RecordEffects
  <2> QED BY <1>11, <2>1 DEF ActiveDispatches
<1>12. CASE b = a /\ PrepareDispatch(t)
  BY <1>12
<1> QED BY <1>3, <1>4, <1>5, <1>6, <1>8, <1>9, <1>10, <1>11, <1>12, JournalSame

\* The upstream system only hears from a dispatching goroutine.
LEMMA WorldMoves ==
    ASSUME TypeInv, NEW t \in Threads, Step(t)
    PROVE  DispatchSend(t) \/ world' = world
<1>1. CASE \/ ObserveBegin(t) \/ PrepareDispatch(t) \/ CloseAttempt(t) \/ RecordEffects(t)
  BY <1>1 DEF ObserveBegin, PrepareDispatch, CloseAttempt, RecordEffects
<1>2. CASE ReconcileBegin(t) \/ ReleaseIntent(t) \/ ReleaseResolve(t)
  BY <1>2 DEF ReconcileBegin, ReleaseIntent, ReleaseResolve
<1> QED BY <1>1, <1>2, JournalSame

-----------------------------------------------------------------------------
(* Owners and dispatching goroutines *)

\* The state each writer of a verdict leaves.
LEMMA Targets ==
    ASSUME TypeInv, NEW t \in Threads, Step(t)
    PROVE  /\ HoldUnhandled(t) => run'[Act(t)].state = "needs_review"
           /\ Wait(t) => run'[Act(t)].state \in {"needs_review", "waiting_dependency"}
           /\ FinalOwned(t) => run'[Act(t)].state = OwnedTarget(t)
           /\ FinalFree(t) => run' = run \/ run'[Act(t)].state = FreeTarget(t)
           /\ DeferActiveDispatch(t) => run' = run \/ run'[Act(t)].state = "reconciling"
<1> DEFINE a == Act(t)
<1>1. a \in Actions /\ run[a] \in Row /\ run \in [Actions -> Row]
  BY StepActs, RowTyped DEF TypeInv, TypeOK
<1>2. ASSUME NEW row, run' = [run EXCEPT ![a] = row] PROVE run'[a] = row
  BY <1>1, <1>2
<1>3. ASSUME NEW s, NEW n, run' = [run EXCEPT ![a] = Outcome(run[a], s, n)]
      PROVE  run'[a].state = s
  BY <1>1, <1>2, <1>3, OutcomeState
<1>4. ASSUME HoldUnhandled(t) PROVE run'[a].state = "needs_review"
  <2>1. run' = [run EXCEPT ![a] = Outcome(run[a], "needs_review", unresolvedEffectCount(a, FALSE))]
    BY <1>4 DEF HoldUnhandled
  <2> QED BY <1>3, <2>1
<1>5. ASSUME Wait(t) PROVE run'[a].state \in {"needs_review", "waiting_dependency"}
  <2>1. run' = [run EXCEPT ![a] = WaitRow(a)]
    BY <1>5 DEF Wait
  <2>2. CASE RetryLimit > 0 /\ Len(attempts[a]) >= RetryLimit
    <3>1. WaitRow(a) = Outcome(run[a], "needs_review", unresolvedEffectCount(a, FALSE))
      BY <2>2 DEF WaitRow
    <3> QED BY <1>3, <2>1, <3>1
  <2>3. CASE ~(RetryLimit > 0 /\ Len(attempts[a]) >= RetryLimit)
    <3>1. WaitRow(a) = Outcome(run[a], "waiting_dependency", 0)
      BY <2>3 DEF WaitRow
    <3> QED BY <1>3, <2>1, <3>1
  <2> QED BY <2>2, <2>3
<1>6. ASSUME FinalOwned(t) PROVE run'[a].state = OwnedTarget(t)
  <2> DEFINE mid == IF th[t].res = "safe" THEN Outcome(run[a], "reconciling", 0) ELSE run[a]
             s == OwnedTarget(t)
             n == OwnedUnresolved(t, s)
  <2>1. run' = [run EXCEPT ![a] = Outcome(mid, s, n)]
    BY <1>6 DEF FinalOwned
  <2>2. "state" \in DOMAIN mid
    BY <1>1 DEF Outcome, Row
  <2> HIDE DEF mid, s, n
  <2>3. Outcome(mid, s, n).state = s
    <3> DEFINE k == mid.reserved /\ s \in Retaining
               v == mid.version + 1
    <3>1. Outcome(mid, s, n) = [mid EXCEPT !.state = s, !.version = v, !.by = None,
                                           !.expired = FALSE, !.reserved = k, !.marker = 0,
                                           !.unresolved = n]
      BY DEF Outcome
    <3> HIDE DEF k, v
    <3> QED BY <2>2, <3>1
  <2>4. run'[a].state = s
    BY <1>2, <2>1, <2>3
  <2> QED BY <2>4 DEF s
<1>7. ASSUME FinalFree(t) PROVE run' = run \/ run'[a].state = FreeTarget(t)
  <2> DEFINE s == FreeTarget(t)
             n == unresolvedEffectCount(a, s = "reconciling")
  <2>1. run' = run \/ run' = [run EXCEPT ![a] = Outcome(run[a], s, n)]
    BY <1>7 DEF FinalFree
  <2> HIDE DEF s, n
  <2>2. run' = run \/ run'[a].state = s
    BY <1>3, <2>1
  <2> QED BY <2>2 DEF s
<1>8. ASSUME DeferActiveDispatch(t) PROVE run' = run \/ run'[a].state = "reconciling"
  <2>1. \/ run' = run
        \/ run' = [run EXCEPT ![a] = Outcome(run[a], "reconciling", unresolvedEffectCount(a, TRUE))]
    BY <1>8 DEF DeferActiveDispatch
  <2> QED BY <1>3, <2>1
<1> QED BY <1>4, <1>5, <1>6, <1>7, <1>8

\* No verdict leaves a row running.
LEMMA TargetsStop ==
    ASSUME NEW t \in Threads
    PROVE  OwnedTarget(t) # "running" /\ FreeTarget(t) # "running"
  BY DEF OwnedTarget, FreeTarget, StopState

\* The fence admits owners only.
LEMMA FenceOwns ==
    ASSUME IInv, NEW t \in Threads, th[t].claimed, FenceMatches(t)
    PROVE  Owns(t)
<1>1. th[t].ver \in Nat
  BY ThreadTyped DEF IInv, Thread
<1> QED BY <1>1 DEF Owns, Owning, FenceMatches, Act

\* Who writes the journal and the verdicts.
LEMMA Owners ==
    ASSUME IInv, Control, NEW t \in Threads
    PROVE  /\ PrepareDispatch(t) => Owns(t) /\ th[t].phase = "observe"
           /\ Wait(t) \/ FinalOwned(t) => Owns(t)
           /\ CloseAttempt(t) \/ RecordEffects(t) => Owns(t) \/ Free(th[t])
<1>1. Controlled(th[t])
  BY DEF Control
<1>2. FenceMatches(t) /\ th[t].claimed => Owns(t)
  BY FenceOwns
<1>3. PrepareDispatch(t) => Owns(t) /\ th[t].phase = "observe"
  BY <1>1, <1>2 DEF PrepareDispatch, At, Controlled
<1>4. Wait(t) \/ FinalOwned(t) => Owns(t)
  BY <1>1, <1>2 DEF Wait, FinalOwned, At, Controlled
<1>5. CloseAttempt(t) \/ RecordEffects(t) => Owns(t) \/ Free(th[t])
  BY <1>1, <1>2 DEF CloseAttempt, RecordEffects, MayWrite, At, Controlled, Free
<1> QED BY <1>3, <1>4, <1>5

\* An action has one owner: two claims are further apart than the fence spans.
LEMMA OneOwner ==
    ASSUME IInv, NEW t \in Threads, NEW u \in Threads, Owns(t), Owns(u), Act(t) = Act(u)
    PROVE  t = u
<1> DEFINE v == run[Act(t)].version
<1>1. Act(t) \in Actions /\ th[t].ver \in Nat /\ th[u].ver \in Nat /\ v \in Nat
  BY ThreadTyped, RowTyped DEF IInv, Generations, Owns, Owning, Thread, Row, Act
<1>2. th[t].ver <= v /\ th[u].ver <= v /\ v <= th[t].ver + 1 /\ v <= th[u].ver + 1
  BY DEF IInv, Generations, Owns, Owning, Act
<1>3. t # u => th[t].ver + 2 <= th[u].ver \/ th[u].ver + 2 <= th[t].ver
  BY DEF IInv, Apart, Owns, Owning, Act
<1> HIDE DEF v
<1> QED BY <1>1, <1>2, <1>3

\* A dispatching goroutine has a running attempt that nobody else names.
LEMMA LiveActive ==
    ASSUME TypeInv, Guarded, NEW u \in Threads, th[u].pc \in LivePoint
    PROVE  /\ Act(u) \in Actions /\ th[u].att \in ActiveDispatches(Act(u))
           /\ \A w \in Threads \ {u} : Act(w) = Act(u) => th[w].att # th[u].att
<1>1. GuardedBy(u)
  BY DEF Guarded
<1>2. Act(u) \in Actions
  BY ThreadTyped DEF LivePoint, Act
<1> QED BY <1>1, <1>2 DEF GuardedBy, ActiveDispatches

LEMMA SettledQuiet ==
    ASSUME TypeInv, Guarded, NEW a, Settled(a)
    PROVE  Quiet(a)
  BY LiveActive DEF Settled, Quiet, Act

\* A goroutine starts dispatching by preparing.
LEMMA LiveMoves ==
    ASSUME TypeInv, Bounds, NEW t \in Threads, Step(t), th'[t].pc \in LivePoint
    PROVE  /\ th'[t].act = Act(t)
           /\ PrepareDispatch(t) \/ (th[t].pc \in LivePoint /\ th'[t].att = th[t].att)
<1> DEFINE a == Act(t)
           n == th'[t].att
<1>1. Names(t) /\ a \in Actions
  BY StepNames, StepActs
<1>2. th'[t].act = a
  BY <1>1 DEF Names, LivePoint
<1>3. CASE n \in DOMAIN attempts'[a] \ Known(a) /\ attempts'[a][n] = NewAttempt("dispatch")
  <2>1. PICK b \in Actions : b = a
    BY <1>1
  <2>2. n \in ActiveDispatches(b)' /\ n \notin ActiveDispatches(b)
    BY <1>3, <2>1 DEF ActiveDispatches, IsActiveDispatch, NewAttempt, Known
  <2>3. PrepareDispatch(t) \/ ActiveDispatches(b)' \subseteq ActiveDispatches(b)
    BY JournalMoves
  <2> QED BY <1>2, <2>2, <2>3
<1> QED BY <1>1, <1>2, <1>3 DEF Names

LEMMA QuietStays ==
    ASSUME TypeInv, Bounds, NEW t \in Threads, Step(t), NEW b \in Actions, Quiet(b),
           b = Act(t) => ~PrepareDispatch(t)
    PROVE  Quiet(b)'
<1>1. \A u \in Threads \ {t} : th'[u] = th[u]
  BY StepNames
<1>2. th'[t].pc \in LivePoint => th'[t].act # b
  BY LiveMoves DEF Quiet, Act
<1> QED BY <1>1, <1>2 DEF Quiet

\* A row that stays running under a new version got the marker of a returned
\* dispatch, the only one that was running.
LEMMA VersionQuiet ==
    ASSUME TypeInv, Guarded, NEW t \in Threads, Step(t), ~Claim(t), NEW b \in Actions,
           \A m, n \in ActiveDispatches(b) : m = n,
           run[b].state = "running", run'[b].state = "running",
           run'[b].version # run[b].version
    PROVE  Quiet(b)
<1>1. b = Act(t)
  BY StepElsewhere DEF Elsewhere
<1>2. run' # run
  OBVIOUS
<1>3. ~Reserve(t)
  <2> SUFFICES ASSUME Reserve(t) PROVE FALSE
    OBVIOUS
  <2> DEFINE row == [run[b] EXCEPT !.reserved = TRUE]
  <2>1. run' = [run EXCEPT ![b] = row]
    BY <1>1 DEF Reserve
  <2>2. row.version = run[b].version
    BY RowTyped DEF Row
  <2> HIDE DEF row
  <2> QED BY <2>1, <2>2 DEF TypeInv, TypeOK
<1>4. ~(HoldUnhandled(t) \/ Wait(t) \/ FinalOwned(t) \/ FinalFree(t) \/ DeferActiveDispatch(t))
  BY <1>1, <1>2, Targets, TargetsStop
<1>5. ReleaseMark(t)
  BY <1>2, <1>3, <1>4, RowsSame
<1>6. th[t].att \in ActiveDispatches(b) /\ th[t].pc \notin LivePoint
  BY <1>1, <1>5 DEF ReleaseMark, BarrierHeld, ActiveDispatches, At, LivePoint
<1>7. ASSUME NEW u \in Threads, th[u].pc \in LivePoint, th[u].act = b
      PROVE  FALSE
  <2>1. /\ th[u].att \in ActiveDispatches(b)
        /\ \A w \in Threads \ {u} : Act(w) = b => th[w].att # th[u].att
    BY <1>7, LiveActive DEF Act
  <2> QED BY <1>1, <1>6, <1>7, <2>1
<1> QED BY <1>7 DEF Quiet

-----------------------------------------------------------------------------
(* What a step is to the other goroutines *)

LEMMA PassAt ==
    ASSUME NEW t \in Threads, NEW h, th'[t] = h, PassInv(h, ExecOf(t))'
    PROVE  ThreadInv(t)'
  BY DEF ThreadInv, PassInv, Origin, Owning, OwnerRow, OwnerJournal, FreePass, Free, Fresh, Again,
         Clean, Settled, Zero, Quiet, OpenEffect, ActiveDispatches, ExecOf

\* Nothing of the action has changed.
LEMMA PassStays ==
    ASSUME NEW h, NEW e, PassInv(h, e), Quiet(h.act) => Quiet(h.act)',
           run'[h.act] = run[h.act], attempts'[h.act] = attempts[h.act],
           effect'[h.act] = effect[h.act], world'[h.act] = world[h.act]
    PROVE  PassInv(h, e)'
<1> DEFINE b == h.act
<1>1. /\ ActiveDispatches(b)' = ActiveDispatches(b) /\ OpenEffect(b)' = OpenEffect(b)
      /\ Zero(b)' = Zero(b)
  BY DEF ActiveDispatches, OpenEffect, Zero
<1>2. Clean(b)' = Clean(b) /\ Settled(b)' = Settled(b)
  BY <1>1 DEF Clean, Settled
<1>3. Owning(h)' = Owning(h) /\ Origin(h)' = Origin(h)
  BY DEF Owning, Origin
<1>4. OwnerRow(h, e) => OwnerRow(h, e)'
  BY DEF OwnerRow, Again
<1>5. OwnerJournal(h) => OwnerJournal(h)'
  BY <1>1, <1>2 DEF OwnerJournal, Fresh
<1>6. FreePass(h) => FreePass(h)'
  BY <1>2 DEF FreePass
<1> QED BY <1>1, <1>3, <1>4, <1>5, <1>6 DEF PassInv, Free

\* What a step of t leaves of an action that another goroutine owns.
LEMMA RowSeen ==
    ASSUME IInv, Control, Exclusive, NEW t \in Threads, Step(t),
           NEW h, NEW u \in Threads \ {t}, h = th[u], h.act = Act(t), Owning(h)'
    PROVE  /\ Owning(h) /\ ~Owns(t) /\ ~Free(th[t])
           /\ run'[h.act].by = run[h.act].by
           /\ run'[h.act].version \in {h.ver, h.ver + 1}
           /\ run[h.act].version = run'[h.act].version \/ run[h.act].version = h.ver
           /\ run[h.act].version # run'[h.act].version => ~Claim(t)
<1> DEFINE a == Act(t)
           v == run[a].version
           w == run'[a].version
<1>1. a \in Actions /\ h.claimed /\ run'[a].state = "running" /\ w <= h.ver + 1
  BY StepActs DEF Owning, IInv
<1>2. v \in Nat /\ h.ver \in Nat
  BY <1>1, RowTyped, ThreadTyped DEF IInv, Row, Thread
<1>3. h.ver <= v /\ (run[a].state # "running" => h.ver < v)
  BY <1>1 DEF IInv, Generations
<1>4. RowMove(t, a)
  BY <1>1, RowMoves DEF IInv
<1>5. w \in Nat
  <2>1. IInv'
    BY NextKeeps DEF Next
  <2> QED BY <1>1, <2>1 DEF IInv, TypeInv, TypeOK, Row
<1>6. v <= w
  BY <1>4 DEF RowMove
<1>7. CASE Claim(t) /\ ClaimPredicate(t)
  <2> DEFINE n == v + 1
             row == [run[a] EXCEPT !.state = "running", !.by = ExecOf(t), !.expired = FALSE,
                                   !.version = n]
  <2>1. run' = [run EXCEPT ![a] = row] /\ run[a].state # "running"
    BY <1>7 DEF Claim, ClaimPredicate, Claimable
  <2>2. row.version = n
    BY <1>1, RowTyped DEF IInv, Row
  <2> HIDE DEF row
  <2>3. w = n
    BY <1>1, <2>1, <2>2 DEF IInv, TypeInv, TypeOK
  <2> QED BY <1>1, <1>2, <1>3, <2>1, <2>3
<1>8. CASE ~(Claim(t) /\ ClaimPredicate(t))
  <2>1. Claim(t) => run' = run
    BY <1>8 DEF Claim
  <2>2. run[a].state = "running" /\ run'[a].by = run[a].by
    BY <1>1, <1>4, <2>1 DEF RowMove
  <2>3. Owning(h)
    BY <1>1, <1>2, <1>5, <1>6, <2>2 DEF Owning
  <2>4. ~Owns(t)
    BY <2>3, OneOwner DEF Owns, Act
  <2>5. Controlled(th[t]) /\ ThreadInv(t)
    BY DEF Control, Exclusive
  <2>6. ~Free(th[t])
    BY <2>2, <2>5 DEF ThreadInv, PassInv, FreePass, Act
  <2>7. w \in {h.ver, h.ver + 1} /\ (v = w \/ v = h.ver)
    BY <1>1, <1>2, <1>3, <1>5, <1>6
  <2>8. v # w => ~Claim(t)
    BY <2>1
  <2> QED BY <2>2, <2>3, <2>4, <2>6, <2>7, <2>8
<1> QED BY <1>7, <1>8

LEMMA OwnerWatches ==
    ASSUME IInv, Control, Bounds, Guarded, Exclusive, NEW t \in Threads, Step(t),
           NEW h, NEW u \in Threads \ {t}, h = th[u], h.act = Act(t), h.pc # "idle",
           Owning(h)'
    PROVE  OwnerRow(h, ExecOf(u))' /\ OwnerJournal(h)'
<1> DEFINE e == ExecOf(u)
<1>1. /\ Owning(h) /\ ~Owns(t) /\ ~Free(th[t])
      /\ run'[h.act].by = run[h.act].by
      /\ run'[h.act].version \in {h.ver, h.ver + 1}
      /\ run[h.act].version = run'[h.act].version \/ run[h.act].version = h.ver
      /\ run[h.act].version # run'[h.act].version => ~Claim(t)
  BY RowSeen
<1>2. PICK a \in Actions : a = h.act
  BY StepActs DEF IInv
<1>3. OwnerRow(h, e) /\ OwnerJournal(h) /\ ActionInv(a) /\ TypeInv
  BY <1>1 DEF Exclusive, ThreadInv, PassInv, IInv
<1>4. Controlled(h) /\ StopsPersist
  BY <1>3, StepStops DEF Control
<1>5. ~PrepareDispatch(t) /\ ~CloseAttempt(t) /\ ~RecordEffects(t)
  BY <1>1, Owners
<1>6. Passive(a)
  BY <1>3, <1>5, JournalMoves
<1>7. Quiet(a) => Quiet(a)'
  BY <1>3, <1>5, QuietStays
<1>8. run'[a].version # run[a].version => Quiet(a)
  <2>1. run[a].state = "running" /\ run'[a].state = "running"
    BY <1>1, <1>2 DEF Owning
  <2> QED BY <1>1, <1>2, <1>3, <2>1, VersionQuiet DEF ActionInv
<1>9. h.ver \in Nat
  BY <1>3, ThreadTyped DEF Thread
\* The row.
<1>10. OwnerRow(h, e)'
  <2>1. run'[a].by = e
    BY <1>1, <1>2, <1>3 DEF OwnerRow
  <2>2. ASSUME Again(h), run'[a].version = h.ver + 1, ~run'[a].cancel \/ h.pc = "wait"
        PROVE  Quiet(a)'
    <3>1. CASE run[a].version = run'[a].version
      <4>1. ~run[a].cancel \/ h.pc = "wait"
        BY <1>4, <2>2 DEF StopsPersist
      <4> QED BY <1>2, <1>3, <1>7, <2>2, <3>1, <4>1 DEF OwnerRow
    <3>2. CASE run[a].version # run'[a].version
      BY <1>7, <1>8, <3>2
    <3> QED BY <3>1, <3>2
  <2>3. Again(h) /\ h.pc = "wait" => run'[a].version = h.ver + 1
    BY <1>1, <1>2, <1>3, <1>9 DEF OwnerRow
  <2> QED BY <1>2, <2>1, <2>2, <2>3 DEF OwnerRow, Again
\* The upstream system hears from t only if t dispatches, and then its attempt
\* is running.
<1>11. world' = world \/ (th[t].pc \in LivePoint /\ th[t].att \in ActiveDispatches(a)
                          /\ th[t].att # h.att)
  <2>1. CASE DispatchSend(t)
    <3>1. th[t].pc \in LivePoint
      BY <2>1 DEF DispatchSend, At, LivePoint
    <3> QED BY <1>2, <1>3, <3>1, LiveActive DEF Act
  <2> QED BY <1>3, <2>1, WorldMoves
<1>12. (Settled(a) => world' = world) /\ (ActiveDispatches(a) \subseteq {h.att} => world' = world)
  BY <1>11 DEF Settled
<1>13. Settled(a) => Settled(a)'
  BY <1>6 DEF Passive, Settled
<1>14. Settled(a) /\ Zero(a) => Zero(a)'
  BY <1>12 DEF Zero
<1>15. ~OpenEffect(a) => ~OpenEffect(a)'
  BY <1>6 DEF Passive
<1>16. Clean(a) => Clean(a)'
  BY <1>13, <1>14, <1>15 DEF Clean
<1>17. ASSUME h.phase = "dispatch"
       PROVE  /\ ActiveDispatches(a)' \subseteq {h.att}
              /\ h.pc \in {"effects", "final", "wait"} => Settled(a)'
              /\ h.pc \in LivePoint \cup {"close"} => effect'[a].att = h.att
              /\ h.pc = "wait" => ~OpenEffect(a)'
              /\ h.pc \in {"close", "wait"} /\ h.res = "dependency" => Zero(a)'
  <2>1. ActiveDispatches(a) \subseteq {h.att}
    BY <1>2, <1>3, <1>17 DEF OwnerJournal
  <2>2. Zero(a)' = Zero(a)
    BY <1>12, <2>1 DEF Zero
  <2> QED BY <1>2, <1>3, <1>6, <1>13, <1>15, <1>17, <2>1, <2>2 DEF OwnerJournal, Passive
<1>18. ASSUME h.phase = "reconcile"
       PROVE  /\ h.pc \in {"rec_att", "reconcile"} \cup Closing => Settled(a)'
              /\ h.pc \in Closing /\ h.res = "safe" => Zero(a)'
              /\ h.pc = "final" /\ h.res = "safe" => ~OpenEffect(a)'
  BY <1>2, <1>3, <1>13, <1>14, <1>15, <1>18 DEF OwnerJournal
<1>19. ASSUME h.pc = "effects", h.res \in {"satisfied", "safe"}, h.att \in DOMAIN attempts'[a]
       PROVE  attempts'[a][h.att].state = "succeeded"
  <2>1. h.att \in Known(a) /\ 0 \notin DOMAIN attempts'[a]
    <3>1. IInv'
      BY NextKeeps DEF Next
    <3>2. attempts'[a] \in Seq(Attempt)
      BY <3>1 DEF IInv, TypeInv, TypeOK
    <3> QED BY <1>2, <3>2 DEF Bounds, Act
  <2> QED BY <1>2, <1>3, <1>6, <1>19, <2>1 DEF OwnerJournal, Passive, Known
<1>20. OwnerJournal(h)'
  BY <1>2, <1>3, <1>16, <1>17, <1>18, <1>19 DEF OwnerJournal, Fresh
<1> QED BY <1>10, <1>20

LEMMA Bystander ==
    ASSUME IInv, Control, Bounds, Guarded, Exclusive, NEW t \in Threads, Step(t),
           NEW u \in Threads \ {t}
    PROVE  ThreadInv(u)'
<1> DEFINE e == ExecOf(u)
<1>1. PICK h : h = th[u]
  OBVIOUS
<1>2. th'[u] = h /\ TypeInv
  BY <1>1, StepNames DEF IInv
<1>3. PassInv(h, e) /\ Controlled(h) /\ (Free(h) => Stopped(h.act))
  BY <1>1 DEF Exclusive, ThreadInv, Control, Act
<1>4. CASE h.pc = "idle"
  <2>1. PassInv(h, e)'
    BY <1>3, <1>4 DEF Controlled, PassInv, Owning, Free, LivePoint
  <2> QED BY <1>2, <2>1, PassAt
<1>5. CASE h.pc # "idle" /\ h.act # Act(t)
  <2>1. h.act \in Actions
    BY <1>1, <1>2, <1>5, ThreadTyped
  <2>2. /\ run'[h.act] = run[h.act] /\ attempts'[h.act] = attempts[h.act]
        /\ effect'[h.act] = effect[h.act] /\ world'[h.act] = world[h.act]
    BY <1>2, <1>5, <2>1, StepElsewhere DEF Elsewhere
  <2>3. PICK b \in Actions : b = h.act
    BY <2>1
  <2>4. Quiet(b) => Quiet(b)'
    BY <1>2, <1>5, <2>3, QuietStays
  <2>5. Quiet(h.act) => Quiet(h.act)'
    BY <2>3, <2>4 DEF Quiet
  <2>6. PassInv(h, e)'
    BY <1>3, <2>2, <2>5, PassStays
  <2> QED BY <1>2, <2>6, PassAt
<1>6. CASE h.pc # "idle" /\ h.act = Act(t)
  <2>1. PICK a \in Actions : a = h.act
    BY <1>1, <1>2, <1>6, ThreadTyped
  <2>2. RowMove(t, a) /\ ActionInv(a)
    BY <1>2, RowMoves DEF Exclusive
  <2>3. h.ver \in Nat /\ run[a].version \in Nat /\ run'[a].version \in Nat
    <3>1. IInv'
      BY NextKeeps DEF Next
    <3>2. run'[a] \in Row
      BY <3>1 DEF IInv, TypeInv, TypeOK
    <3> QED BY <1>1, <1>2, <3>2, ThreadTyped, RowTyped DEF Thread, Row
  <2>4. h.pc = "claim" => Origin(h)'
    <3> SUFFICES ASSUME h.pc = "claim" PROVE Origin(h)'
      OBVIOUS
    <3>1. h.ver <= run[a].version /\ run'[a].version >= run[a].version
      BY <1>3, <2>1, <2>2 DEF PassInv, Origin, RowMove
    <3>2. h.ver <= run'[a].version
      BY <2>3, <3>1
    <3>3. h.ver = run'[a].version => h.ver = run[a].version
      BY <2>3, <3>1
    <3>4. h.ver = run'[a].version => run'[a].state = run[a].state
      BY <2>2, <3>3 DEF RowMove
    <3>5. h.ver = run'[a].version => run'[a].state \notin Claimable \/ run'[a].state = h.from
      BY <1>3, <2>1, <3>3, <3>4 DEF PassInv, Origin
    <3> QED BY <2>1, <3>2, <3>5 DEF Origin
  <2>5. Owning(h)' => OwnerRow(h, e)' /\ OwnerJournal(h)'
    <3>1. ASSUME Owning(h)' PROVE OwnerRow(h, ExecOf(u))' /\ OwnerJournal(h)'
      BY <1>1, <1>6, <3>1, OwnerWatches
    <3> QED BY <3>1 DEF OwnerRow, ExecOf
  <2>6. Free(h) => FreePass(h)'
    <3> SUFFICES ASSUME Free(h) PROVE FreePass(h)'
      OBVIOUS
    <3>1. FreePass(h) /\ Stopped(a)
      BY <1>3, <2>1 DEF PassInv
    <3>2. ~Owns(t)
      BY <1>6, <2>1, <3>1 DEF FreePass, Owns, Owning, Act
    <3>3. ~PrepareDispatch(t) /\ ~Wait(t) /\ ~FinalOwned(t)
      BY <3>2, Owners
    <3>4. Claim(t) => run' = run
      BY <1>6, <2>1, <3>1 DEF Claim, ClaimPredicate, Stopped
    <3>5. run'[a].state \notin {"running"} \cup Unstarted
      BY <2>1, <2>2, <3>1, <3>3, <3>4 DEF RowMove, FreePass
    <3>6. Settled(a) => Settled(a)'
      BY <1>2, <3>3, JournalMoves DEF Settled
    <3> QED BY <2>1, <3>1, <3>5, <3>6 DEF FreePass
  <2>7. h.pc \in LivePoint /\ ~h.sent => Zero(a)'
    <3> SUFFICES ASSUME h.pc \in LivePoint, ~h.sent PROVE Zero(a)'
      OBVIOUS
    <3>1. Zero(a)
      BY <1>3, <2>1 DEF PassInv
    <3>2. ~DispatchSend(t)
      <4> SUFFICES ASSUME DispatchSend(t) PROVE FALSE
        OBVIOUS
      <4>1. th[t].pc \in LivePoint
        BY DEF DispatchSend, At, LivePoint
      <4>2. th[t].att \in ActiveDispatches(a) /\ th[u].att # th[t].att
        BY <1>1, <1>2, <1>6, <2>1, <4>1, LiveActive DEF Act
      <4>3. th[u].att \in ActiveDispatches(a)
        BY <1>1, <1>2, <2>1, LiveActive DEF Act
      <4> QED BY <2>2, <4>2, <4>3 DEF ActionInv
    <3> QED BY <1>2, <3>1, <3>2, WorldMoves DEF Zero
  <2>8. PassInv(h, e)'
    BY <2>1, <2>4, <2>5, <2>6, <2>7 DEF PassInv, Free
  <2> QED BY <1>2, <2>8, PassAt
<1> QED BY <1>4, <1>5, <1>6

-----------------------------------------------------------------------------
(* What a step does to its action *)

\* What PrepareDispatch writes.
LEMMA Prepared ==
    ASSUME TypeInv, NEW t \in Threads, PrepareDispatch(t), NEW a \in Actions, a = Act(t)
    PROVE  \E n \in Nat \ {0} :
              /\ n \notin DOMAIN attempts[a]
              /\ ActiveDispatches(a)' \subseteq ActiveDispatches(a) \cup {n}
              /\ n \in DOMAIN attempts'[a] /\ effect'[a].att = n
              /\ th' = [th EXCEPT ![t] = [th[t] EXCEPT !.pc = "before", !.phase = "dispatch",
                                                       !.att = n]]
<1> DEFINE s == attempts[a]
           k == th[t].att
           x == [s[k] EXCEPT !.state = "succeeded"]
           y == NewAttempt("dispatch")
           v == [s EXCEPT ![k] = x]
           w == Append(v, y)
           n == Len(s) + 1
<1>1. s \in Seq(Attempt)
  BY AttemptsTyped
<1>2. v \in Seq(Attempt) /\ Len(v) = Len(s) /\ DOMAIN v = DOMAIN s
  <2>1. v \in Seq(Attempt)
    <3>1. "succeeded" \in AttemptState
      BY Words
    <3> QED BY <1>1, <3>1, SeqState
  <2> HIDE DEF x
  <2>2. DOMAIN v = DOMAIN s
    BY <1>1
  <2> HIDE DEF v
  <2> QED BY <1>1, <2>1, <2>2
<1>3. k \in DOMAIN s => x.state = "succeeded"
  BY <1>1 DEF Attempt
<1>4. y \in Attempt
  BY Words, NewAttemptTyped
<1>5. \A m \in DOMAIN s : v[m] = IF m = k THEN x ELSE s[m]
  BY <1>1
<1>6. attempts' = [attempts EXCEPT ![a] = w]
  BY DEF PrepareDispatch
<1>7. attempts'[a] = w
  BY <1>6 DEF TypeInv, TypeOK
<1>8. effect'[a].att = n
  BY EffectTyped DEF PrepareDispatch
<1>9. th' = [th EXCEPT ![t] = [th[t] EXCEPT !.pc = "before", !.phase = "dispatch", !.att = n]]
  BY DEF PrepareDispatch
<1>10. n \in Nat \ {0} /\ n \notin DOMAIN s /\ n = Len(v) + 1
  BY <1>1, <1>2
<1> HIDE DEF v, x, y, n
<1>11. DOMAIN w = DOMAIN v \cup {n} /\ (\A m \in DOMAIN v : w[m] = v[m])
  BY <1>2, <1>4, <1>10, AppendKept
<1>12. ActiveDispatches(a)' \subseteq ActiveDispatches(a) \cup {n}
  <2> SUFFICES ASSUME NEW m \in ActiveDispatches(a)', m # n PROVE m \in ActiveDispatches(a)
    OBVIOUS
  <2>1. m \in DOMAIN s /\ w[m] = v[m] /\ IsActiveDispatch(w[m])
    BY <1>2, <1>7, <1>11 DEF ActiveDispatches
  <2>2. v[m] = s[m]
    BY <1>3, <1>5, <2>1 DEF IsActiveDispatch
  <2> QED BY <2>1, <2>2 DEF ActiveDispatches
<1> QED BY <1>7, <1>8, <1>9, <1>10, <1>11, <1>12

\* Whoever takes an action out of running lets it end or wait only when nobody
\* dispatches it.
LEMMA VerdictQuiet ==
    ASSUME IInv, Control, Guarded, Exclusive, NEW t \in Threads, NEW a \in Actions, a = Act(t),
           Wait(t) \/ FinalOwned(t) \/ FinalFree(t)
    PROVE  Quiet(a)
<1>1. Controlled(th[t]) /\ PassInv(th[t], ExecOf(t))
  BY DEF Control, Exclusive, ThreadInv
<1>2. Settled(a) => Quiet(a)
  BY SettledQuiet DEF IInv
<1>3. CASE FinalFree(t)
  <2>1. Free(th[t]) /\ th[t].pc \in Closing
    BY <1>1, <1>3 DEF FinalFree, At, Controlled, Free
  <2> QED BY <1>1, <1>2, <2>1 DEF PassInv, FreePass, Act
<1>4. CASE FinalOwned(t)
  <2>1. OwnerJournal(th[t]) /\ th[t].pc = "final"
    BY <1>1, <1>4, Owners DEF PassInv, Owns, FinalOwned, At
  <2>2. th[t].phase \in {"observe", "dispatch", "reconcile"}
    BY <1>1, <2>1, Parts DEF Controlled
  <2> QED BY <1>2, <2>1, <2>2 DEF OwnerJournal, Clean, Act
<1>5. CASE Wait(t)
  <2>1. OwnerJournal(th[t]) /\ OwnerRow(th[t], ExecOf(t)) /\ th[t].pc = "wait"
    BY <1>1, <1>5, Owners DEF PassInv, Owns, Wait, At
  <2>2. th[t].phase \in {"none", "observe", "dispatch"}
    BY <1>1, <2>1, ThreadTyped, Parts DEF Controlled, IInv, Thread
  <2>3. Again(th[t]) => Quiet(a)
    BY <2>1 DEF OwnerRow, Act
  <2>4. Again(th[t]) \/ Settled(a)
    BY <2>1, <2>2 DEF OwnerJournal, Clean, Fresh, Again, Act
  <2> QED BY <1>2, <2>3, <2>4
<1> QED BY <1>3, <1>4, <1>5

\* Whoever lets an action wait, or queues it again, leaves it clean.
LEMMA VerdictClean ==
    ASSUME IInv, Control, Exclusive, NEW t \in Threads, NEW a \in Actions, a = Act(t), Step(t),
           Wait(t) \/ FinalOwned(t), run'[a].state \in Unstarted, ~run[a].cancel
    PROVE  Clean(a)
<1>1. Controlled(th[t]) /\ PassInv(th[t], ExecOf(t)) /\ Owns(t)
  BY Owners DEF Control, Exclusive, ThreadInv
<1>2. OwnerJournal(th[t]) /\ OwnerRow(th[t], ExecOf(t))
  BY <1>1 DEF PassInv, Owns
<1>3. CASE FinalOwned(t)
  <2>1. run'[a].state = OwnedTarget(t)
    BY <1>3, Targets DEF IInv
  <2>2. th[t].res = "safe"
    BY <2>1 DEF OwnedTarget, StopState, Unstarted
  <2>3. th[t].pc = "final" /\ th[t].phase \in AttemptPhase
        /\ th[t].res \in Outcomes(th[t].phase)
    BY <1>1, <1>3 DEF FinalOwned, At, Controlled
  <2>4. th[t].phase = "reconcile"
    BY <2>2, <2>3, Parts
  <2> QED BY <1>2, <2>2, <2>3, <2>4 DEF OwnerJournal, Clean, Act
<1>4. CASE Wait(t)
  <2>1. th[t].pc = "wait" /\ FenceMatches(t)
    BY <1>4 DEF Wait, At
  <2>2. th[t].phase \in {"none", "observe", "dispatch"}
        /\ (th[t].phase # "none" => th[t].res = "dependency")
    BY <1>1, <2>1, ThreadTyped, Parts DEF Controlled, IInv, Thread
  <2>3. ~Again(th[t])
    <3>1. th[t].ver \in Nat
      BY ThreadTyped DEF IInv, Thread
    <3>2. run[a].version = th[t].ver
      BY <2>1 DEF FenceMatches
    <3> QED BY <1>2, <2>1, <3>1, <3>2 DEF OwnerRow, Act
  <2>4. CASE th[t].phase = "dispatch"
    BY <1>2, <2>1, <2>2, <2>4 DEF OwnerJournal, Clean, Act
  <2>5. CASE th[t].phase # "dispatch"
    BY <1>2, <2>2, <2>3, <2>5 DEF OwnerJournal, Fresh, Again, Act
  <2> QED BY <2>4, <2>5
<1> QED BY <1>3, <1>4

LEMMA StepOne ==
    ASSUME IInv, Control, Bounds, Exclusive, NEW t \in Threads, Step(t), NEW b \in Actions
    PROVE  \A m, n \in ActiveDispatches(b)' : m = n
<1>1. TypeInv /\ ActionInv(b)
  BY DEF IInv, Exclusive
<1>2. CASE ActiveDispatches(b)' \subseteq ActiveDispatches(b)
  BY <1>1, <1>2 DEF ActionInv
<1>3. CASE PrepareDispatch(t) /\ b = Act(t)
  <2>1. Owns(t) /\ th[t].phase = "observe"
    BY <1>3, Owners
  <2>2. Settled(b)
    BY <1>3, <2>1 DEF Exclusive, ThreadInv, PassInv, Owns, OwnerJournal, Clean, Act
  <2>3. PICK n \in Nat \ {0} : ActiveDispatches(b)' \subseteq ActiveDispatches(b) \cup {n}
    BY <1>1, <1>3, Prepared
  <2> QED BY <2>2, <2>3 DEF Settled
<1>4. CASE b # Act(t)
  <2>1. attempts'[b] = attempts[b]
    BY <1>1, <1>4, StepElsewhere DEF Elsewhere
  <2> QED BY <1>2, <2>1 DEF ActiveDispatches
<1> QED BY <1>1, <1>2, <1>3, <1>4, JournalMoves

LEMMA StepQuiet ==
    ASSUME IInv, Control, Bounds, Guarded, Exclusive, NEW t \in Threads, Step(t),
           NEW b \in Actions, run'[b].state \in Unstarted \cup Terminal
    PROVE  Quiet(b)'
<1>1. TypeInv /\ ActionInv(b) /\ RowMove(t, b)
  BY RowMoves DEF IInv, Exclusive
<1>2. CASE run'[b].state = run[b].state
  <2>1. b = Act(t) => ~PrepareDispatch(t)
    BY <1>2, Owners DEF Owns, Owning, Act, Unstarted, Terminal
  <2> QED BY <1>1, <1>2, <2>1, QuietStays DEF ActionInv
<1>3. CASE run'[b].state # run[b].state
  <2>1. b = Act(t) /\ (Wait(t) \/ FinalOwned(t) \/ FinalFree(t))
    BY <1>1, <1>3 DEF RowMove
  <2>2. ~PrepareDispatch(t)
    BY <1>3 DEF PrepareDispatch
  <2>3. Quiet(b)
    BY <2>1, VerdictQuiet
  <2> QED BY <1>1, <2>2, <2>3, QuietStays
<1> QED BY <1>2, <1>3

LEMMA StepClean ==
    ASSUME IInv, Control, Bounds, Guarded, Exclusive, NEW t \in Threads, Step(t),
           NEW b \in Actions, run'[b].state \in Unstarted, ~run'[b].cancel
    PROVE  Clean(b)'
<1>1. TypeInv /\ ActionInv(b) /\ RowMove(t, b) /\ ~run[b].cancel
  <2>1. TypeInv /\ StopsPersist
    BY StepStops DEF IInv
  <2> QED BY <2>1, RowMoves DEF Exclusive, StopsPersist
<1>2. ASSUME Clean(b), Passive(b), world' = world
      PROVE  Clean(b)'
  BY <1>2 DEF Clean, Passive, Settled, Zero
<1>3. CASE run'[b].state = run[b].state
  <2>1. Clean(b) /\ Quiet(b)
    BY <1>1, <1>3 DEF ActionInv
  <2>2. CASE b # Act(t)
    BY <1>1, <2>1, <2>2, StepElsewhere DEF Elsewhere, Clean, Settled, Zero, OpenEffect,
       ActiveDispatches
  <2>3. CASE b = Act(t)
    <3>1. ~Owns(t) /\ ~Free(th[t])
      BY <1>3, <2>3 DEF Owns, Owning, Act, Unstarted, Exclusive, ThreadInv, PassInv, FreePass
    <3>2. Passive(b)
      BY <1>1, <3>1, JournalMoves, Owners
    <3>3. ~DispatchSend(t)
      BY <2>1, <2>3 DEF DispatchSend, At, Quiet, LivePoint, Act
    <3>4. world' = world
      BY <1>1, <3>3, WorldMoves
    <3> QED BY <1>2, <2>1, <3>2, <3>4
  <2> QED BY <2>2, <2>3
<1>4. CASE run'[b].state # run[b].state
  <2>1. b = Act(t) /\ (Wait(t) \/ FinalOwned(t))
    BY <1>1, <1>4 DEF RowMove
  <2>2. Clean(b)
    BY <1>1, <2>1, VerdictClean
  <2>3. UNCHANGED <<attempts, effect, world>>
    BY <2>1 DEF Wait, FinalOwned
  <2> QED BY <2>2, <2>3 DEF Clean, Settled, Zero, OpenEffect, ActiveDispatches
<1> QED BY <1>3, <1>4

LEMMA StepOnce ==
    ASSUME IInv, Exclusive, NEW t \in Threads, Step(t), NEW b \in Actions
    PROVE  world'[b].inflight + world'[b].applied <= 1
<1>1. TypeInv /\ world[b].inflight + world[b].applied <= 1
  BY DEF IInv, Exclusive, ActionInv
<1>2. CASE DispatchSend(t)
  <2> DEFINE a == Act(t)
             n == world[a].inflight + 1
             w == [world[a] EXCEPT !.inflight = n]
  <2>1. a \in Actions /\ world[a] \in [inflight : Nat, applied : Nat, foreign : BOOLEAN]
    BY <1>1, StepActs, WorldTyped
  <2>2. Zero(a)
    BY <1>2 DEF DispatchSend, At, LivePoint, Exclusive, ThreadInv, PassInv, Act
  <2>3. world' = [world EXCEPT ![a] = w]
    BY <1>2 DEF DispatchSend
  <2>4. n = 1 /\ world[a].applied = 0
    BY <2>2 DEF Zero
  <2> HIDE DEF n
  <2>5. w.inflight = 1 /\ w.applied = 0
    BY <2>1, <2>4
  <2> HIDE DEF w
  <2>6. world'[b] = world[b] \/ world'[b] = w
    BY <1>1, <2>1, <2>3, WorldTyped
  <2> QED BY <1>1, <2>5, <2>6
<1>3. CASE world' = world
  BY <1>1, <1>3
<1> QED BY <1>1, <1>2, <1>3, WorldMoves

LEMMA StepActions ==
    ASSUME IInv, Control, Bounds, Guarded, Exclusive, NEW t \in Threads, Step(t),
           NEW b \in Actions
    PROVE  ActionInv(b)'
  BY StepOne, StepQuiet, StepClean, StepOnce DEF ActionInv

-----------------------------------------------------------------------------
(* What a step is to its goroutine *)

LEMMA Unowned ==
    ASSUME TypeInv, NEW t \in Threads, NEW r, th' = [th EXCEPT ![t] = r],
           ~r.claimed, r.phase = "none", r.pc \notin LivePoint \cup {"claim"}
    PROVE  ThreadInv(t)'
<1>1. PassInv(r, ExecOf(t))'
  BY DEF PassInv, Owning, Free
<1>2. th'[t] = r
  BY OthersStay
<1> QED BY <1>1, <1>2, PassAt

LEMMA OwnIdle ==
    ASSUME TypeInv, NEW t \in Threads, th' = [th EXCEPT ![t] = Idle]
    PROVE  ThreadInv(t)'
<1>1. PICK r : r = Idle
  OBVIOUS
<1>2. ~r.claimed /\ r.phase = "none" /\ r.pc = "idle"
  BY <1>1 DEF Idle
<1>3. th' = [th EXCEPT ![t] = r]
  BY <1>1
<1> QED BY <1>2, <1>3, Unowned DEF LivePoint

\* A pass goes on: what is left to show is what its new point says.
LEMMA Stage ==
    ASSUME IInv, Control, Exclusive, NEW t \in Threads, Step(t), ~Claim(t),
           NEW h, h = th[t], NEW r, th' = [th EXCEPT ![t] = r], r.pc # "claim",
           r.claimed => /\ h.claimed /\ r.act = h.act /\ r.phase # "none"
                        /\ r.ver = h.ver \/ run[h.act].version <= h.ver + 1,
           Owning(h) /\ OwnerJournal(h) /\ Owning(r)' => OwnerJournal(r)',
           Free(r) /\ r.pc \in {"rec_att", "reconcile"} \cup Closing => Settled(r.act)',
           r.pc \in LivePoint /\ ~r.sent => Zero(r.act)'
    PROVE  ThreadInv(t)'
<1> DEFINE e == ExecOf(t)
<1>1. th'[t] = r /\ TypeInv
  BY OthersStay DEF IInv
<1>2. PassInv(h, e) /\ h.act \in Actions /\ RowMove(t, h.act)
  BY StepActs, RowMoves DEF Exclusive, ThreadInv, IInv, Act
<1>3. ASSUME Owning(r)' PROVE OwnerRow(r, e)' /\ OwnerJournal(r)'
  <2>1. /\ r.claimed /\ h.claimed /\ r.act = h.act /\ r.phase # "none"
        /\ run'[h.act].state = "running" /\ run'[h.act].version <= r.ver + 1
    BY <1>3 DEF Owning
  <2>2. /\ run[h.act].state = "running" /\ run'[h.act].by = run[h.act].by
        /\ run'[h.act].version >= run[h.act].version
    BY <1>2, <2>1 DEF RowMove
  <2>3. run[h.act].version \in Nat /\ run'[h.act].version \in Nat /\ r.ver \in Nat
    <3>1. IInv'
      BY NextKeeps DEF Next
    <3>2. run'[h.act] \in Row /\ th'[t] \in Thread
      BY <1>2, <3>1 DEF IInv, TypeInv, TypeOK
    <3> QED BY <1>1, <1>2, <3>2, RowTyped DEF Row, Thread
  <2>4. run[h.act].version <= h.ver + 1
    <3>1. CASE r.ver = h.ver
      <4>1. run'[h.act].version <= h.ver + 1 /\ h.ver \in Nat
        BY <2>1, <2>3, <3>1
      <4> QED BY <2>2, <2>3, <4>1
    <3> QED BY <2>1, <3>1
  <2>5. Owning(h)
    BY <2>1, <2>2, <2>4 DEF Owning
  <2>6. OwnerRow(h, e) /\ OwnerJournal(h)
    BY <1>2, <2>5 DEF PassInv
  <2>7. run'[h.act].by = e
    BY <2>2, <2>6 DEF OwnerRow
  <2>8. OwnerRow(r, e)'
    BY <2>1, <2>7 DEF OwnerRow, Again
  <2> QED BY <1>3, <2>5, <2>6, <2>8
<1>4. ASSUME Free(r) PROVE FreePass(r)'
  <2>1. Free(h) /\ r.act = h.act
    <3>1. Controlled(th[t])
      BY DEF Control
    <3>2. PICK s : th' = [th EXCEPT ![t] = s] /\ Proceeds(t, s)
      BY <1>1, <3>1, StepProceeds
    <3>3. s = r
      BY <1>1, <3>2, OthersStay
    <3> QED BY <1>4, <3>2, <3>3 DEF Proceeds
  <2>2. FreePass(h)
    BY <1>2, <2>1 DEF PassInv
  <2>3. ~Wait(t) /\ ~FinalOwned(t)
    BY <2>1, Owners DEF Free, Owns, Owning
  <2>4. run'[h.act].state \notin {"running"} \cup Unstarted
    BY <1>2, <2>2, <2>3 DEF FreePass, RowMove
  <2> QED BY <1>4, <2>1, <2>4 DEF FreePass
<1>5. PassInv(r, e)'
  BY <1>3, <1>4 DEF PassInv, Free
<1> QED BY <1>1, <1>5, PassAt

\* Points at which the journal only has to name no other running dispatch.
Roaming == Releasing \cup {"rec_find", "rec_refresh", "rec_active", "defer"}

LEMMA Roams ==
    ASSUME IInv, Control, Exclusive, NEW t \in Threads, Step(t), ~Claim(t),
           NEW h, h = th[t], NEW r, th' = [th EXCEPT ![t] = r], r.pc \in Roaming,
           r.claimed => /\ h.claimed /\ r.act = h.act
                        /\ r.ver = h.ver \/ run[h.act].version <= h.ver + 1,
           \/ r.phase = "reconcile"
           \/ /\ r.phase = "dispatch" /\ h.phase = "dispatch"
              /\ r.act = h.act /\ r.att = h.att
              /\ ActiveDispatches(h.act)' \subseteq ActiveDispatches(h.act)
    PROVE  ThreadInv(t)'
<1>1. r.pc \notin {"claim", "before", "dispatch", "close", "effects", "final", "wait",
                   "rec_att", "reconcile"}
  BY DEF Roaming
<1>2. ASSUME Owning(h) /\ OwnerJournal(h) /\ Owning(r)' PROVE OwnerJournal(r)'
  <2>1. CASE r.phase = "reconcile"
    BY <1>1, <2>1 DEF OwnerJournal, Fresh
  <2>2. CASE r.phase # "reconcile"
    <3>1. ActiveDispatches(h.act)' \subseteq {r.att}
      BY <1>2, <2>2 DEF OwnerJournal
    <3>2. r.phase = "dispatch" /\ r.act = h.act
      BY <2>2
    <3> QED BY <1>1, <3>1, <3>2 DEF OwnerJournal, Fresh, LivePoint
  <2> QED BY <2>1, <2>2
<1>3. r.claimed => r.phase # "none"
  OBVIOUS
<1>4. r.pc \notin LivePoint /\ r.pc \notin {"rec_att", "reconcile"} \cup Closing
  BY <1>1 DEF LivePoint
<1> QED BY <1>1, <1>2, <1>3, <1>4, Stage

LEMMA LeaveOwn ==
    ASSUME IInv, Control, Exclusive, NEW t \in Threads, Step(t), ~Claim(t), NEW keep,
           th' = [th EXCEPT ![t] = Leave(t, keep)],
           attempts' = attempts
    PROVE  ThreadInv(t)'
<1>1. TypeInv
  BY DEF IInv
<1>2. ASSUME NEW r, r \in {Idle, Finishing(t, keep)}, th' = [th EXCEPT ![t] = r]
      PROVE  ThreadInv(t)'
  <2>1. ~r.claimed /\ r.phase = "none" /\ r.pc \in {"idle", "finish"}
    <3>1. CASE r = Idle
      BY <3>1 DEF Idle
    <3>2. CASE r = Finishing(t, keep)
      BY <3>2 DEF Idle, Finishing
    <3> QED BY <1>2, <3>1, <3>2
  <2> QED BY <1>1, <1>2, <2>1, Unowned DEF LivePoint
<1>3. PICK h : h = th[t]
  OBVIOUS
<1>4. PICK r : r = [h EXCEPT !.pc = "rel_intent", !.back = "finish",
                             !.keep = keep, !.ierr = FALSE, !.res = "none"]
  OBVIOUS
<1>5. h \in Thread
  BY <1>1, <1>3, ThreadTyped
<1>6. /\ r.pc = "rel_intent" /\ r.claimed = h.claimed /\ r.act = h.act /\ r.ver = h.ver
      /\ r.phase = h.phase /\ r.att = h.att
  BY <1>4, <1>5 DEF Thread
<1>7. CASE h.phase = "dispatch" /\ th' = [th EXCEPT ![t] = r]
  <2>1. ActiveDispatches(h.act)' \subseteq ActiveDispatches(h.act)
    BY DEF ActiveDispatches
  <2>2. r.pc \in Roaming
    BY <1>6 DEF Roaming
  <2> QED BY <1>3, <1>6, <1>7, <2>1, <2>2, Roams
<1> QED BY <1>2, <1>3, <1>4, <1>7 DEF Leave

\* A claim: of an action that waited it finds a clean journal.
LEMMA OwnClaim ==
    ASSUME IInv, Control, Exclusive, NEW t \in Threads, Claim(t)
    PROVE  ThreadInv(t)'
<1>1. TypeInv /\ UNCHANGED <<attempts, effect, world>>
  BY DEF IInv, Claim
<1>2. PICK h : h = th[t]
  OBVIOUS
<1>3. h \in Thread /\ h.pc = "claim" /\ h.phase = "none" /\ ~h.sent /\ ~h.claimed
  BY <1>1, <1>2, ThreadTyped DEF Claim, At, Control, Controlled
<1>4. PICK a \in Actions : a = h.act
  BY <1>1, <1>2, <1>3, ThreadTyped
<1>5. CASE th' = [th EXCEPT ![t] = Idle]
  BY <1>1, <1>5, OwnIdle
<1>6. CASE ClaimPredicate(t)
  <2>1. run[a] \in Row /\ Act(t) = a
    BY <1>1, <1>2, <1>4, RowTyped DEF Act
  <2>2. PICK v \in Nat : v = run[a].version + 1
    BY <2>1 DEF Row
  <2>3. PICK r : r = [h EXCEPT !.pc = "local", !.claimed = TRUE, !.ver = v, !.mark = run[a].marker]
    OBVIOUS
  <2>4. /\ r.pc = "local" /\ r.claimed /\ r.ver = v /\ r.act = a /\ r.phase = "none"
        /\ r.from = h.from /\ ~r.sent
    BY <1>3, <1>4, <2>3 DEF Thread
  <2>5. th' = [th EXCEPT ![t] = r]
    BY <1>2, <1>6, <2>1, <2>2, <2>3 DEF Claim
  <2> DEFINE row == [run[a] EXCEPT !.state = "running", !.by = ExecOf(t), !.expired = FALSE,
                                   !.version = v]
  <2>6. run' = [run EXCEPT ![a] = row]
    BY <1>6, <2>1, <2>2 DEF Claim
  <2>7. row.version = v /\ row.by = ExecOf(t)
    BY <2>1 DEF Row
  <2> HIDE DEF row
  <2>8. run'[a].version = v /\ run'[a].by = ExecOf(t)
    BY <1>1, <1>4, <2>6, <2>7 DEF TypeInv, TypeOK
  <2>9. h.from # "reconciling" => Clean(a)'
    <3> SUFFICES ASSUME h.from # "reconciling" PROVE Clean(a)'
      OBVIOUS
    <3>1. Origin(h) /\ ActionInv(a)
      BY <1>2, <1>3 DEF Exclusive, ThreadInv, PassInv
    <3>2. run[a].state \in Claimable /\ run[a].version = h.ver /\ ~run[a].cancel
      BY <1>2, <1>6, <2>1 DEF ClaimPredicate
    <3>3. run[a].state = h.from
      BY <1>4, <3>1, <3>2 DEF Origin
    <3>4. run[a].state \in Unstarted
      BY <3>2, <3>3 DEF Claimable, Unstarted
    <3>5. Clean(a)
      BY <3>1, <3>2, <3>4 DEF ActionInv
    <3> QED BY <1>1, <3>5 DEF Clean, Settled, Zero, OpenEffect, ActiveDispatches
  <2>10. OwnerRow(r, ExecOf(t))'
    BY <2>4, <2>8 DEF OwnerRow
  <2>11. OwnerJournal(r)'
    BY <2>4, <2>9 DEF OwnerJournal, Fresh
  <2>12. PassInv(r, ExecOf(t))'
    BY <2>4, <2>10, <2>11 DEF PassInv, Free, LivePoint
  <2>13. th'[t] = r
    BY <1>1, <2>5, OthersStay
  <2> QED BY <2>12, <2>13, PassAt
<1> QED BY <1>5, <1>6 DEF Claim

\* The reservations of a claim are taken, or refused.
LEMMA Enters ==
    ASSUME IInv, Control, Bounds, Exclusive, NEW t \in Threads, Step(t), ~PrepareDispatch(t),
           NEW h, h = th[t], NEW r, th' = [th EXCEPT ![t] = r],
           UNCHANGED <<run, attempts, effect, world>>,
           r.pc \in {"reserve", "wait"}, r.phase = "none", h.phase = "none", r.claimed,
           h.claimed, r.act = h.act, r.ver = h.ver, r.from = h.from,
           r.pc = "wait" /\ Owning(h) /\ Again(h) =>
              run[h.act].version = h.ver + 1 /\ Quiet(h.act)
    PROVE  ThreadInv(t)'
<1> DEFINE e == ExecOf(t)
<1>1. th'[t] = r /\ TypeInv
  BY OthersStay DEF IInv
<1>2. PICK a \in Actions : a = h.act
  BY StepActs DEF IInv, Act
<1>3. Quiet(a) => Quiet(a)'
  BY <1>1, QuietStays
<1>4. ASSUME Owning(r)' PROVE OwnerRow(r, e)' /\ OwnerJournal(r)'
  <2>1. Owning(h)
    BY <1>4 DEF Owning
  <2>2. OwnerRow(h, e) /\ OwnerJournal(h)
    BY <2>1 DEF Exclusive, ThreadInv, PassInv
  <2>3. Again(r) = Again(h) /\ Fresh(r) = Fresh(h)
    BY DEF Again, Fresh
  <2>4. run'[a].by = e
    BY <1>2, <2>2 DEF OwnerRow
  <2>5. ASSUME Again(r), run'[a].version = h.ver + 1, ~run'[a].cancel \/ r.pc = "wait"
        PROVE  Quiet(a)'
    <3>1. Again(h) /\ run[a].version = h.ver + 1 /\ (~run[a].cancel \/ r.pc = "wait")
      BY <2>3, <2>5
    <3>2. CASE ~run[a].cancel
      BY <1>2, <1>3, <2>2, <3>1, <3>2 DEF OwnerRow
    <3>3. CASE r.pc = "wait"
      BY <1>2, <1>3, <2>1, <3>1, <3>3
    <3> QED BY <3>1, <3>2, <3>3
  <2>6. Again(r) /\ r.pc = "wait" => run'[a].version = h.ver + 1
    BY <1>2, <2>1, <2>3
  <2>7. OwnerRow(r, e)'
    BY <1>2, <2>4, <2>5, <2>6 DEF OwnerRow, Again
  <2>8. Fresh(h) => Clean(a)
    BY <1>2, <2>2 DEF OwnerJournal
  <2>9. Fresh(h) => Clean(a)'
    BY <2>8 DEF Clean, Settled, Zero, OpenEffect, ActiveDispatches
  <2>10. OwnerJournal(r)'
    BY <1>2, <2>3, <2>9 DEF OwnerJournal, Fresh
  <2> QED BY <2>7, <2>10
<1>5. PassInv(r, e)'
  BY <1>4 DEF PassInv, Free, LivePoint
<1> QED BY <1>1, <1>5, PassAt

LEMMA OwnAcquire ==
    ASSUME IInv, Control, Bounds, Exclusive, Overlap = {}, NEW t \in Threads, Step(t),
           AcquireReservations(t)
    PROVE  ThreadInv(t)'
<1>1. PICK h : h = th[t]
  OBVIOUS
<1>2. h \in Thread /\ h.pc = "local" /\ h.claimed /\ h.phase = "none"
  BY <1>1, ThreadTyped DEF IInv, AcquireReservations, At, Control, Controlled
<1>3. PICK r : r = [h EXCEPT !.pc = "reserve"]
  OBVIOUS
<1>4. /\ r.pc = "reserve" /\ r.claimed /\ r.phase = "none" /\ r.act = h.act /\ r.ver = h.ver
      /\ r.from = h.from
  BY <1>2, <1>3 DEF Thread
<1>5. /\ th' = [th EXCEPT ![t] = r] /\ ~PrepareDispatch(t)
      /\ UNCHANGED <<run, attempts, effect, world>>
  BY <1>1, <1>2, <1>3 DEF AcquireReservations, LocalConflict, Goto, PrepareDispatch, At
<1> QED BY <1>1, <1>2, <1>4, <1>5, Enters

LEMMA OwnRefused ==
    ASSUME IInv, Control, Bounds, Exclusive, Overlap = {}, "reserve" \notin FaultPoints,
           NEW t \in Threads, Step(t), ReserveRefused(t)
    PROVE  ThreadInv(t)'
<1>1. PICK h : h = th[t]
  OBVIOUS
<1>2. h \in Thread /\ h.pc = "reserve" /\ h.claimed /\ h.phase = "none"
  BY <1>1, ThreadTyped DEF IInv, ReserveRefused, At, Control, Controlled
<1>3. PICK r : r = [h EXCEPT !.pc = "wait"]
  OBVIOUS
<1>4. /\ r.pc = "wait" /\ r.claimed /\ r.phase = "none" /\ r.act = h.act /\ r.ver = h.ver
      /\ r.from = h.from
  BY <1>2, <1>3 DEF Thread
<1>5. /\ th' = [th EXCEPT ![t] = r] /\ ~PrepareDispatch(t)
      /\ UNCHANGED <<run, attempts, effect, world>>
  BY <1>1, <1>2, <1>3 DEF ReserveRefused, Goto, PrepareDispatch, At
<1>6. ~FenceMatches(t)
  BY <1>1, <1>2 DEF ReserveRefused, DurableConflict, CanFault
<1>7. ASSUME Owning(h), Again(h)
      PROVE  run[h.act].version = h.ver + 1 /\ Quiet(h.act)
  <2>1. OwnerRow(h, ExecOf(t))
    BY <1>1, <1>7 DEF Exclusive, ThreadInv, PassInv
  <2>2. /\ h.act \in Actions /\ h.ver <= run[h.act].version /\ run[h.act].version <= h.ver + 1
        /\ run[h.act].state = "running" /\ run[h.act].by = ExecOf(t)
    BY <1>1, <1>2, <1>7, <2>1 DEF Owning, OwnerRow, IInv, Generations
  <2>3. run[h.act].version \in Nat /\ h.ver \in Nat
    BY <1>2, <2>2, RowTyped DEF IInv, Row, Thread
  <2>4. run[h.act].version # h.ver
    BY <1>1, <1>6, <2>2 DEF FenceMatches, Act
  <2>5. run[h.act].version = h.ver + 1
    BY <2>2, <2>3, <2>4
  <2>6. ~run[h.act].cancel
    BY <1>1, <1>6, <2>2, <2>5 DEF FenceMatches, Act
  <2> QED BY <1>7, <2>1, <2>5, <2>6 DEF OwnerRow
<1> QED BY <1>1, <1>2, <1>4, <1>5, <1>7, Enters

\* A pass that observes keeps the journal clean.
LEMMA Observes ==
    ASSUME IInv, Control, Exclusive, NEW t \in Threads, Step(t), ~Claim(t),
           NEW h, h = th[t], NEW r, th' = [th EXCEPT ![t] = r],
           Fresh(h) \/ h.phase = "observe", r.phase = "observe",
           h.claimed, r.act = h.act, r.ver = h.ver,
           r.pc \notin LivePoint \cup {"claim"},
           OwnerJournal(h) /\ Clean(h.act) => Clean(h.act)',
           OwnerJournal(h) /\ r.pc = "effects" /\ r.att \in DOMAIN attempts'[h.act]
              => attempts'[h.act][r.att].state = "succeeded"
    PROVE  ThreadInv(t)'
<1>1. ASSUME Owning(h) /\ OwnerJournal(h) PROVE OwnerJournal(r)'
  <2>1. Clean(h.act)'
    BY <1>1 DEF OwnerJournal
  <2> QED BY <1>1, <2>1 DEF OwnerJournal
<1> QED BY <1>1, Stage DEF Free

LEMMA SameClean ==
    ASSUME NEW a, UNCHANGED <<attempts, effect, world>>
    PROVE  /\ Clean(a)' = Clean(a) /\ Settled(a)' = Settled(a) /\ Zero(a)' = Zero(a)
           /\ OpenEffect(a)' = OpenEffect(a) /\ ActiveDispatches(a)' = ActiveDispatches(a)
  BY DEF Clean, Settled, Zero, OpenEffect, ActiveDispatches

LEMMA OwnReserve ==
    ASSUME IInv, Control, Exclusive, NEW t \in Threads, Step(t), Reserve(t)
    PROVE  ThreadInv(t)'
<1>1. PICK h : h = th[t]
  OBVIOUS
<1>2. h \in Thread /\ h.pc = "reserve" /\ h.claimed /\ h.phase = "none"
  BY <1>1, ThreadTyped DEF IInv, Reserve, At, Control, Controlled
<1>3. ~Claim(t) /\ UNCHANGED <<attempts, effect, world>>
  BY <1>1, <1>2 DEF Claim, Reserve, At
<1>4. CASE h.from = "reconciling"
  <2>1. PICK r : r = [h EXCEPT !.pc = "rec_find", !.phase = "reconcile", !.from = "queued"]
    OBVIOUS
  <2>2. /\ r.pc \in Roaming /\ r.claimed /\ r.phase = "reconcile" /\ r.act = h.act
        /\ r.ver = h.ver
    BY <1>2, <2>1 DEF Thread, Roaming
  <2>3. th' = [th EXCEPT ![t] = r]
    BY <1>1, <1>4, <2>1 DEF Reserve
  <2> QED BY <1>1, <1>2, <1>3, <2>2, <2>3, Roams
<1>5. CASE h.from # "reconciling"
  <2>1. PICK r : r = [h EXCEPT !.pc = "obs_new", !.phase = "observe", !.from = "queued", !.mark = 0]
    OBVIOUS
  <2>2. /\ r.pc = "obs_new" /\ r.claimed /\ r.phase = "observe" /\ r.act = h.act
        /\ r.ver = h.ver
    BY <1>2, <2>1 DEF Thread
  <2>3. th' = [th EXCEPT ![t] = r]
    BY <1>1, <1>5, <2>1 DEF Reserve
  <2>4. Clean(h.act) => Clean(h.act)'
    BY <1>3, SameClean
  <2> QED BY <1>1, <1>2, <1>3, <1>5, <2>2, <2>3, <2>4, Observes DEF Fresh, LivePoint
<1> QED BY <1>4, <1>5

LEMMA OwnObserve ==
    ASSUME IInv, Control, Bounds, Exclusive, NEW t \in Threads, Step(t),
           ObserveBegin(t) \/ ObserveReturn(t)
    PROVE  ThreadInv(t)'
<1>1. PICK h : h = th[t]
  OBVIOUS
<1>2. h \in Thread /\ h.pc \in {"obs_new", "observe"} /\ h.claimed /\ h.phase = "observe"
  BY <1>1, ThreadTyped DEF IInv, ObserveBegin, ObserveReturn, At, Control, Controlled
<1>3. /\ ~Claim(t) /\ ~PrepareDispatch(t) /\ ~CloseAttempt(t) /\ ~RecordEffects(t)
      /\ ~DispatchSend(t)
  BY <1>1, <1>2 DEF Claim, PrepareDispatch, CloseAttempt, RecordEffects, DispatchSend, At
<1>4. PICK a \in Actions : a = h.act
  BY <1>1, StepActs DEF IInv, Act
<1>5. Clean(a) => Clean(a)'
  <2>1. Passive(a) /\ world' = world
    BY <1>3, JournalMoves, WorldMoves DEF IInv
  <2> QED BY <2>1 DEF Passive, Clean, Settled, Zero
<1>6. Clean(h.act) => Clean(h.act)'
  BY <1>4, <1>5 DEF Clean, Settled, Zero, OpenEffect, ActiveDispatches
<1>7. ASSUME NEW r, th' = [th EXCEPT ![t] = r], r.pc \in {"observe", "prepare", "close"},
             r.phase = h.phase, r.act = h.act, r.ver = h.ver
      PROVE  ThreadInv(t)'
  BY <1>1, <1>2, <1>3, <1>6, <1>7, Observes DEF LivePoint
<1>8. CASE ObserveBegin(t)
  <2>1. PICK r : r = [h EXCEPT !.pc = "observe", !.att = Len(attempts[a]) + 1]
    OBVIOUS
  <2>2. r.pc = "observe" /\ r.phase = h.phase /\ r.act = h.act /\ r.ver = h.ver
    BY <1>2, <2>1 DEF Thread
  <2>3. th' = [th EXCEPT ![t] = r]
    BY <1>1, <1>4, <1>8, <2>1 DEF ObserveBegin, Act
  <2> QED BY <1>7, <2>2, <2>3
<1>9. CASE ObserveReturn(t)
  <2>1. PICK v : th' = [th EXCEPT ![t] = IF v = "needs_action"
                                         THEN [h EXCEPT !.pc = "prepare"]
                                         ELSE [h EXCEPT !.pc = "close", !.res = v]]
    BY <1>1, <1>9 DEF ObserveReturn
  <2>2. PICK r : r = IF v = "needs_action" THEN [h EXCEPT !.pc = "prepare"]
                     ELSE [h EXCEPT !.pc = "close", !.res = v]
    OBVIOUS
  <2>3. r.pc \in {"prepare", "close"} /\ r.phase = h.phase /\ r.act = h.act /\ r.ver = h.ver
    BY <1>2, <2>2 DEF Thread
  <2> QED BY <1>7, <2>1, <2>2, <2>3
<1> QED BY <1>8, <1>9

\* A dispatch starts from a clean journal, and is its only one.
LEMMA OwnPrepare ==
    ASSUME IInv, Control, Exclusive, NEW t \in Threads, Step(t), PrepareDispatch(t)
    PROVE  ThreadInv(t)'
<1>1. PICK h : h = th[t]
  OBVIOUS
<1>2. h \in Thread /\ h.pc = "prepare" /\ h.claimed /\ h.phase = "observe" /\ ~h.sent
  BY <1>1, ThreadTyped DEF IInv, PrepareDispatch, At, Control, Controlled
<1>3. ~Claim(t) /\ world' = world
  BY <1>1, <1>2 DEF Claim, PrepareDispatch, At
<1>4. PICK a \in Actions : a = h.act /\ a = Act(t)
  BY <1>1, StepActs DEF IInv, Act
<1>5. Clean(a)
  BY <1>1, <1>4, Owners DEF Exclusive, ThreadInv, PassInv, Owns, OwnerJournal
<1>6. PICK n \in Nat \ {0} :
         /\ n \notin DOMAIN attempts[a]
         /\ ActiveDispatches(a)' \subseteq ActiveDispatches(a) \cup {n}
         /\ n \in DOMAIN attempts'[a] /\ effect'[a].att = n
         /\ th' = [th EXCEPT ![t] = [th[t] EXCEPT !.pc = "before", !.phase = "dispatch",
                                                  !.att = n]]
  <2>1. TypeInv /\ a = Act(t)
    BY <1>4 DEF IInv
  <2> QED BY <2>1, Prepared
<1>7. PICK r : r = [h EXCEPT !.pc = "before", !.phase = "dispatch", !.att = n]
  OBVIOUS
<1>8. /\ r.pc = "before" /\ r.phase = "dispatch" /\ r.att = n /\ r.act = a /\ r.ver = h.ver
      /\ r.claimed
  BY <1>2, <1>4, <1>7 DEF Thread
<1>9. th' = [th EXCEPT ![t] = r]
  BY <1>1, <1>6, <1>7
<1>10. ActiveDispatches(a)' \subseteq {n} /\ Zero(a)'
  BY <1>3, <1>5, <1>6 DEF Clean, Settled, Zero
<1>11. OwnerJournal(r)'
  BY <1>6, <1>8, <1>10 DEF OwnerJournal, Fresh
<1>12. Zero(r.act)'
  BY <1>8, <1>10 DEF Zero
<1> QED BY <1>1, <1>2, <1>3, <1>4, <1>8, <1>9, <1>11, <1>12, Stage DEF Free

\* A dispatch that goes on, or returns.
LEMMA Sends ==
    ASSUME IInv, Control, Exclusive, NEW t \in Threads, Step(t),
           NEW h, h = th[t], h.pc \in LivePoint, NEW r, th' = [th EXCEPT ![t] = r],
           UNCHANGED <<attempts, effect>>,
           r.phase = h.phase, r.claimed = h.claimed, r.act = h.act, r.ver = h.ver, r.att = h.att,
           r.pc \in LivePoint \cup {"close"},
           r.pc = "close" /\ r.res = "dependency" => Zero(h.act)',
           r.pc \in LivePoint /\ ~r.sent => Zero(h.act)'
    PROVE  ThreadInv(t)'
<1>1. h.claimed /\ h.phase = "dispatch" /\ ~Claim(t)
  BY DEF Control, Controlled, LivePoint, Claim, At
<1>2. ASSUME Owning(h) /\ OwnerJournal(h) PROVE OwnerJournal(r)'
  <2>1. ActiveDispatches(h.act) \subseteq {h.att} /\ effect[h.act].att = h.att
    BY <1>1, <1>2 DEF OwnerJournal
  <2>2. ActiveDispatches(h.act)' \subseteq {r.att} /\ effect'[h.act].att = r.att
    BY <2>1 DEF ActiveDispatches
  <2>3. r.pc \notin {"effects", "final", "wait"}
    BY DEF LivePoint
  <2>4. r.phase = "dispatch" /\ r.act = h.act
    BY <1>1
  <2>5. r.pc \in {"close", "wait"} /\ r.res = "dependency" => Zero(h.act)'
    BY <2>3
  <2> QED BY <2>2, <2>3, <2>4, <2>5 DEF OwnerJournal, Fresh
<1>3. r.pc \in LivePoint /\ ~r.sent => Zero(r.act)'
  OBVIOUS
<1>4. r.pc # "claim" /\ ~Free(r)
  BY <1>1 DEF LivePoint, Free
<1> QED BY <1>1, <1>2, <1>3, <1>4, Stage

LEMMA OwnBefore ==
    ASSUME IInv, Control, Exclusive, NEW t \in Threads, Step(t),
           BeforeDispatch(t) \/ BeforeDispatchCancelled(t)
    PROVE  ThreadInv(t)'
<1>1. PICK h : h = th[t]
  OBVIOUS
<1>2. h \in Thread /\ h.pc = "before"
  BY <1>1, ThreadTyped DEF IInv, BeforeDispatch, BeforeDispatchCancelled, At
<1>3. ~Claim(t) /\ ~h.sent /\ UNCHANGED <<attempts, effect, world>>
  BY <1>1, <1>2 DEF Claim, BeforeDispatch, BeforeDispatchCancelled, At, Control, Controlled
<1>4. Zero(h.act)'
  BY <1>1, <1>2, <1>3 DEF Exclusive, ThreadInv, PassInv, LivePoint, Zero
<1>5. CASE th' = [th EXCEPT ![t] = Leave(t, FALSE)]
  BY <1>3, <1>5, LeaveOwn
<1>6. CASE th' = [th EXCEPT ![t] = [h EXCEPT !.pc = "close", !.res = "stopped"]]
  <2>1. PICK r : r = [h EXCEPT !.pc = "close", !.res = "stopped"]
    OBVIOUS
  <2>2. /\ r.pc = "close" /\ r.phase = h.phase /\ r.claimed = h.claimed /\ r.act = h.act
        /\ r.ver = h.ver /\ r.att = h.att
    BY <1>2, <2>1 DEF Thread
  <2> QED BY <1>1, <1>2, <1>3, <1>4, <1>6, <2>1, <2>2, Sends DEF LivePoint
<1>7. CASE th' = [th EXCEPT ![t] = [h EXCEPT !.pc = "dispatch"]]
  <2>1. PICK r : r = [h EXCEPT !.pc = "dispatch"]
    OBVIOUS
  <2>2. /\ r.pc = "dispatch" /\ r.phase = h.phase /\ r.claimed = h.claimed /\ r.act = h.act
        /\ r.ver = h.ver /\ r.att = h.att
    BY <1>2, <2>1 DEF Thread
  <2> QED BY <1>1, <1>2, <1>3, <1>4, <1>7, <2>1, <2>2, Sends DEF LivePoint
<1> QED BY <1>1, <1>5, <1>6, <1>7 DEF BeforeDispatch, BeforeDispatchCancelled

LEMMA OwnSend ==
    ASSUME IInv, Control, Exclusive, NEW t \in Threads, Step(t),
           DispatchSend(t) \/ DispatchReturn(t)
    PROVE  ThreadInv(t)'
<1>1. PICK h : h = th[t]
  OBVIOUS
<1>2. h \in Thread /\ h.pc = "dispatch" /\ UNCHANGED <<attempts, effect>>
  BY <1>1, ThreadTyped DEF IInv, DispatchSend, DispatchReturn, At
<1>3. CASE DispatchSend(t)
  <2>1. PICK r : r = [h EXCEPT !.sent = TRUE]
    OBVIOUS
  <2>2. /\ r.pc = "dispatch" /\ r.phase = h.phase /\ r.claimed = h.claimed /\ r.act = h.act
        /\ r.ver = h.ver /\ r.att = h.att /\ r.sent
    BY <1>2, <2>1 DEF Thread
  <2>3. th' = [th EXCEPT ![t] = r]
    BY <1>1, <1>3, <2>1 DEF DispatchSend
  <2> QED BY <1>1, <1>2, <2>2, <2>3, Sends DEF LivePoint
<1>4. CASE DispatchReturn(t)
  <2>1. PICK v \in DispatchVerdict(t) :
           th' = [th EXCEPT ![t].pc = "close", ![t].res = v, ![t].sent = FALSE]
    BY <1>4 DEF DispatchReturn
  <2>2. PICK r : r = [h EXCEPT !.pc = "close", !.res = v, !.sent = FALSE]
    OBVIOUS
  <2>3. /\ r.pc = "close" /\ r.phase = h.phase /\ r.claimed = h.claimed /\ r.act = h.act
        /\ r.ver = h.ver /\ r.att = h.att /\ r.res = v
    BY <1>2, <2>2 DEF Thread
  <2>4. th' = [th EXCEPT ![t] = r]
    BY <1>1, <2>1, <2>2
  <2>5. v = "dependency" => Zero(h.act)'
    <3> SUFFICES ASSUME v = "dependency" PROVE Zero(h.act)'
      OBVIOUS
    <3>1. ~h.sent \/ (world[h.act].inflight = 0 /\ world[h.act].applied = 0)
      BY <1>1, <2>1 DEF DispatchVerdict, Act
    <3>2. ~h.sent => Zero(h.act)
      BY <1>1, <1>2 DEF Exclusive, ThreadInv, PassInv, LivePoint
    <3>3. world' = world
      BY <1>4 DEF DispatchReturn
    <3> QED BY <3>1, <3>2, <3>3 DEF Zero
  <2> QED BY <1>1, <1>2, <2>3, <2>4, <2>5, Sends DEF LivePoint
<1> QED BY <1>3, <1>4

\* What CloseAttempt writes.
LEMMA Closed ==
    ASSUME TypeInv, NEW t \in Threads, CloseAttempt(t), NEW a \in Actions, a = Act(t),
           NEW k, k = th[t].att, NEW c, c = CloseState(th[t].res)
    PROVE  /\ UNCHANGED <<run, effect, world>>
           /\ ActiveDispatches(a)' \subseteq ActiveDispatches(a) \ {k}
           /\ k \in DOMAIN attempts'[a] => attempts'[a][k].state = c
           /\ c # "reconciling" /\ effect[a].att = k => ~OpenEffect(a)'
           /\ effect[a].att # k => OpenEffect(a)' = OpenEffect(a)
<1> DEFINE s == attempts[a]
           x == [s[k] EXCEPT !.state = c]
           w == [s EXCEPT ![k] = x]
<1>1. s \in Seq(Attempt) /\ c # "running"
  BY AttemptsTyped, CloseStates
<1>2. UNCHANGED <<run, effect, world>> /\ attempts' = [attempts EXCEPT ![a] = w]
  BY DEF CloseAttempt
<1>3. attempts'[a] = w
  BY <1>2 DEF TypeInv, TypeOK
<1>4. k \in DOMAIN s => x.state = c
  BY <1>1 DEF Attempt
<1> HIDE DEF x
<1>5. DOMAIN w = DOMAIN s /\ \A n \in DOMAIN s : w[n] = IF n = k THEN x ELSE s[n]
  BY <1>1
<1> HIDE DEF w
<1>6. ActiveDispatches(a)' \subseteq ActiveDispatches(a) \ {k}
  BY <1>1, <1>3, <1>4, <1>5 DEF ActiveDispatches, IsActiveDispatch
<1>7. k \in DOMAIN attempts'[a] => attempts'[a][k].state = c
  BY <1>3, <1>4, <1>5
<1>8. c # "reconciling" /\ effect[a].att = k => ~OpenEffect(a)'
  BY <1>1, <1>2, <1>7 DEF OpenEffect
<1>9. effect[a].att # k => OpenEffect(a)' = OpenEffect(a)
  BY <1>2, <1>3, <1>5 DEF OpenEffect
<1> QED BY <1>2, <1>6, <1>7, <1>8, <1>9

LEMMA OwnClose ==
    ASSUME IInv, Control, Exclusive, NEW t \in Threads, Step(t), CloseAttempt(t)
    PROVE  ThreadInv(t)'
<1>1. PICK h : h = th[t]
  OBVIOUS
<1>2. /\ h \in Thread /\ h.pc = "close" /\ ~Claim(t) /\ Controlled(h)
      /\ PassInv(h, ExecOf(t))
  BY <1>1, ThreadTyped DEF IInv, CloseAttempt, Claim, At, Control, Exclusive, ThreadInv
<1>3. /\ h.phase \in AttemptPhase /\ h.res \in Outcomes(h.phase)
      /\ h.claimed \/ h.phase = "reconcile"
  BY <1>2 DEF Controlled
<1>4. PICK a \in Actions : a = h.act /\ a = Act(t)
  BY <1>1, StepActs DEF IInv, Act
<1>5. PICK c : c = CloseState(h.res)
  OBVIOUS
<1>6. PICK p : p = IF HasEffects(h.res) THEN "effects"
                   ELSE IF h.res = "dependency" THEN "wait" ELSE "final"
  OBVIOUS
<1>7. PICK r : r = [h EXCEPT !.pc = p]
  OBVIOUS
<1>8. /\ r.pc = p /\ r.phase = h.phase /\ r.claimed = h.claimed /\ r.act = h.act
      /\ r.ver = h.ver /\ r.att = h.att /\ r.res = h.res
  BY <1>2, <1>7 DEF Thread
<1>9. th' = [th EXCEPT ![t] = r]
  BY <1>1, <1>6, <1>7 DEF CloseAttempt, Goto
<1>10. /\ UNCHANGED <<run, effect, world>>
       /\ ActiveDispatches(a)' \subseteq ActiveDispatches(a) \ {h.att}
       /\ h.att \in DOMAIN attempts'[a] => attempts'[a][h.att].state = c
       /\ c # "reconciling" /\ effect[a].att = h.att => ~OpenEffect(a)'
       /\ effect[a].att # h.att => OpenEffect(a)' = OpenEffect(a)
  <2>1. PICK k : k = th[t].att
    OBVIOUS
  <2>2. c = CloseState(th[t].res) /\ a = Act(t) /\ TypeInv
    BY <1>1, <1>4, <1>5 DEF IInv
  <2>3. /\ UNCHANGED <<run, effect, world>>
        /\ ActiveDispatches(a)' \subseteq ActiveDispatches(a) \ {k}
        /\ k \in DOMAIN attempts'[a] => attempts'[a][k].state = c
        /\ c # "reconciling" /\ effect[a].att = k => ~OpenEffect(a)'
        /\ effect[a].att # k => OpenEffect(a)' = OpenEffect(a)
    BY <2>1, <2>2, Closed
  <2>4. k = h.att
    BY <1>1, <2>1
  <2> QED BY <2>3, <2>4
<1>11. Zero(a)' = Zero(a)
  BY <1>10 DEF Zero
<1>12. p \in {"effects", "wait", "final"}
  BY <1>6
<1>13. CASE h.phase = "observe"
  <2>1. h.res \in {"satisfied", "unproven", "review", "stopped", "dependency"}
    BY <1>3, <1>13, Parts
  <2>2. c # "reconciling" /\ (p = "effects" => c = "succeeded")
    BY <1>5, <1>6, <2>1 DEF CloseState, HasEffects
  <2>3. Clean(a) => Clean(a)'
    BY <1>10, <1>11, <2>2 DEF Clean, Settled
  <2>4. Clean(h.act) => Clean(h.act)'
    BY <1>4, <2>3 DEF Clean, Settled, Zero, OpenEffect, ActiveDispatches
  <2>5. r.pc = "effects" /\ r.att \in DOMAIN attempts'[h.act]
           => attempts'[h.act][r.att].state = "succeeded"
    BY <1>4, <1>8, <1>10, <2>2
  <2> QED BY <1>1, <1>2, <1>3, <1>8, <1>9, <1>12, <1>13, <2>4, <2>5, Observes DEF LivePoint
<1>14. CASE h.phase = "dispatch"
  <2>1. ASSUME OwnerJournal(h) PROVE OwnerJournal(r)'
    <3>1. /\ ActiveDispatches(a) \subseteq {h.att} /\ effect[a].att = h.att
          /\ h.res = "dependency" => Zero(a)
      BY <1>2, <1>4, <1>14, <2>1 DEF OwnerJournal
    <3>2. ActiveDispatches(a)' = {}
      BY <1>10, <3>1
    <3>3. p = "wait" => h.res = "dependency"
      BY <1>6
    <3>4. p = "wait" => ~OpenEffect(a)' /\ Zero(a)'
      BY <1>5, <1>10, <1>11, <3>1, <3>3 DEF CloseState
    <3>5. p = "effects" /\ h.res \in {"satisfied", "safe"} => c = "succeeded"
      BY <1>5 DEF CloseState
    <3> QED BY <1>4, <1>8, <1>10, <1>12, <1>14, <3>2, <3>4, <3>5
            DEF OwnerJournal, Fresh, Settled, LivePoint
  <2> QED BY <1>1, <1>2, <1>3, <1>8, <1>9, <1>12, <1>14, <2>1, Stage DEF Free, LivePoint
<1>15. CASE h.phase = "reconcile"
  <2>1. Settled(a) => Settled(a)'
    BY <1>10 DEF Settled
  <2>2. p = "final" => h.res # "safe"
    BY <1>6 DEF HasEffects
  <2>3. p = "effects" /\ h.res \in {"satisfied", "safe"} => c = "succeeded"
    BY <1>5 DEF CloseState
  <2>4. ASSUME OwnerJournal(h) PROVE OwnerJournal(r)'
    <3>1. Settled(a) /\ (h.res = "safe" => Zero(a))
      BY <1>2, <1>4, <1>15, <2>4 DEF OwnerJournal
    <3> QED BY <1>4, <1>8, <1>10, <1>11, <1>12, <1>15, <2>1, <2>2, <2>3, <3>1
            DEF OwnerJournal, Fresh
  <2>5. Free(r) => Settled(r.act)'
    <3>1. Free(r) => Settled(a)
      BY <1>2, <1>4, <1>8 DEF Free, PassInv, FreePass
    <3> QED BY <1>4, <1>8, <2>1, <3>1 DEF Settled, ActiveDispatches
  <2> QED BY <1>1, <1>2, <1>3, <1>8, <1>9, <1>12, <1>15, <2>4, <2>5, Stage DEF LivePoint
<1> QED BY <1>3, <1>13, <1>14, <1>15, Parts

\* What RecordEffects writes.
LEMMA Recorded ==
    ASSUME TypeInv, NEW t \in Threads, RecordEffects(t), NEW a \in Actions, a = Act(t)
    PROVE  /\ UNCHANGED <<run, attempts, world>>
           /\ effect'[a].att = th[t].att
           /\ th' = [th EXCEPT ![t] = [th[t] EXCEPT !.pc = "final"]]
<1>1. PICK s : effect' = [effect EXCEPT ![a] = [state |-> s, att |-> th[t].att]]
  BY DEF RecordEffects
<1>2. effect'[a].att = th[t].att
  BY <1>1, EffectTyped
<1> QED BY <1>2 DEF RecordEffects, Goto

LEMMA OwnRecord ==
    ASSUME IInv, Control, Exclusive, NEW t \in Threads, Step(t), RecordEffects(t)
    PROVE  ThreadInv(t)'
<1>1. PICK h : h = th[t]
  OBVIOUS
<1>2. /\ h \in Thread /\ h.pc = "effects" /\ ~Claim(t) /\ Controlled(h)
      /\ PassInv(h, ExecOf(t))
  BY <1>1, ThreadTyped DEF IInv, RecordEffects, Claim, At, Control, Exclusive, ThreadInv
<1>3. /\ h.phase \in AttemptPhase /\ h.res \in Outcomes(h.phase) /\ HasEffects(h.res)
      /\ h.claimed \/ h.phase = "reconcile"
  BY <1>2 DEF Controlled
<1>4. PICK a \in Actions : a = h.act /\ a = Act(t)
  BY <1>1, StepActs DEF IInv, Act
<1>5. PICK r : r = [h EXCEPT !.pc = "final"]
  OBVIOUS
<1>6. /\ r.pc = "final" /\ r.phase = h.phase /\ r.claimed = h.claimed /\ r.act = h.act
      /\ r.ver = h.ver /\ r.att = h.att /\ r.res = h.res
  BY <1>2, <1>5 DEF Thread
<1>7. /\ UNCHANGED <<run, attempts, world>> /\ effect'[a].att = h.att
      /\ th' = [th EXCEPT ![t] = r]
  <2>1. TypeInv
    BY DEF IInv
  <2> QED BY <1>1, <1>4, <1>5, <2>1, Recorded
<1>8. Zero(a)' = Zero(a) /\ Settled(a)' = Settled(a)
  BY <1>7 DEF Zero, Settled, ActiveDispatches
<1>9. ASSUME OwnerJournal(h), h.res \in {"satisfied", "safe"}
      PROVE  ~OpenEffect(a)'
  <2>1. h.att \in DOMAIN attempts[a] => attempts[a][h.att].state = "succeeded"
    BY <1>2, <1>4, <1>9 DEF OwnerJournal
  <2> QED BY <1>7, <2>1 DEF OpenEffect
<1>10. CASE h.phase = "observe"
  <2>1. h.res = "satisfied"
    BY <1>3, <1>10, Parts DEF HasEffects
  <2>2. OwnerJournal(h) /\ Clean(a) => Clean(a)'
    BY <1>8, <1>9, <2>1 DEF Clean
  <2>3. OwnerJournal(h) /\ Clean(h.act) => Clean(h.act)'
    BY <1>4, <2>2 DEF Clean, Settled, Zero, OpenEffect, ActiveDispatches
  <2> QED BY <1>1, <1>2, <1>3, <1>6, <1>7, <1>10, <2>3, Observes DEF LivePoint
<1>11. CASE h.phase = "dispatch"
  <2>1. ASSUME OwnerJournal(h) PROVE OwnerJournal(r)'
    <3>1. Settled(a)
      BY <1>2, <1>4, <1>11, <2>1 DEF OwnerJournal
    <3>2. ActiveDispatches(a)' = {}
      BY <1>8, <3>1 DEF Settled
    <3> QED BY <1>4, <1>6, <1>11, <3>2 DEF OwnerJournal, Fresh, Settled, LivePoint
  <2> QED BY <1>1, <1>2, <1>3, <1>6, <1>7, <1>11, <2>1, Stage DEF Free, LivePoint
<1>12. CASE h.phase = "reconcile"
  <2>1. ASSUME OwnerJournal(h) PROVE OwnerJournal(r)'
    <3>1. Settled(a) /\ (h.res = "safe" => Zero(a))
      BY <1>2, <1>4, <1>12, <2>1 DEF OwnerJournal
    <3>2. Settled(r.act)' /\ (r.res = "safe" => Zero(r.act)')
      BY <1>4, <1>6, <1>8, <3>1
    <3>3. r.res = "safe" => ~OpenEffect(r.act)'
      BY <1>4, <1>6, <1>9, <2>1
    <3>4. ~Fresh(r) /\ r.phase = "reconcile" /\ r.pc # "effects"
      BY <1>6, <1>12 DEF Fresh
    <3> QED BY <3>2, <3>3, <3>4 DEF OwnerJournal
  <2>2. Free(r) => Settled(r.act)'
    <3>1. Free(r) => Settled(a)
      BY <1>2, <1>4, <1>6 DEF Free, PassInv, FreePass
    <3> QED BY <1>4, <1>6, <1>8, <3>1 DEF Settled, ActiveDispatches
  <2> QED BY <1>1, <1>2, <1>3, <1>6, <1>7, <1>12, <2>1, <2>2, Stage DEF LivePoint
<1> QED BY <1>3, <1>10, <1>11, <1>12, Parts

\* A pass that reconciles goes on under a settled journal.
LEMMA Reconciles ==
    ASSUME IInv, Control, Exclusive, NEW t \in Threads, Step(t), ~Claim(t),
           NEW h, h = th[t], NEW r, th' = [th EXCEPT ![t] = r],
           h.phase = "reconcile", r.phase = h.phase, r.claimed = h.claimed,
           r.act = h.act, r.ver = h.ver,
           r.pc \in {"rec_att", "reconcile", "close"},
           OwnerJournal(h) \/ Free(h) => Settled(h.act)',
           r.pc = "close" /\ r.res = "safe" => Zero(h.act)'
    PROVE  ThreadInv(t)'
<1>1. ASSUME OwnerJournal(h) PROVE OwnerJournal(r)'
  <2>1. Settled(h.act)'
    BY <1>1
  <2> QED BY <2>1 DEF OwnerJournal, Fresh
<1>2. Free(r) => Settled(r.act)'
  <2>1. Free(r) => Free(h)
    BY DEF Free
  <2> QED BY <2>1
<1> QED BY <1>1, <1>2, Stage DEF LivePoint

\* The effects are refused: a reconciliation closes again, an observation ends.
LEMMA Refused ==
    ASSUME IInv, Control, Exclusive, NEW t \in Threads, Step(t), ~Claim(t),
           UNCHANGED <<attempts, effect, world>>, th[t].pc = "effects",
           th[t].phase = "reconcile",
           th' = [th EXCEPT ![t] = [th[t] EXCEPT !.pc = "close", !.res = "review"]]
    PROVE  ThreadInv(t)'
<1>1. PICK h : h = th[t]
  OBVIOUS
<1>2. h \in Thread /\ PassInv(h, ExecOf(t))
  BY <1>1, ThreadTyped DEF IInv, Exclusive, ThreadInv
<1>3. PICK r : r = [h EXCEPT !.pc = "close", !.res = "review"]
  OBVIOUS
<1>4. /\ r.pc = "close" /\ r.phase = h.phase /\ r.claimed = h.claimed /\ r.act = h.act
      /\ r.ver = h.ver /\ r.res = "review"
  BY <1>2, <1>3 DEF Thread
<1>5. OwnerJournal(h) \/ Free(h) => Settled(h.act)
  BY <1>1, <1>2 DEF OwnerJournal, PassInv, FreePass
<1>6. OwnerJournal(h) \/ Free(h) => Settled(h.act)'
  BY <1>5 DEF Settled, ActiveDispatches
<1> QED BY <1>1, <1>3, <1>4, <1>6, Reconciles

\* Every pass that ends.
LEMMA OwnEnd ==
    ASSUME IInv, Control, Exclusive, NEW t \in Threads, Step(t),
           \/ HoldUnhandled(t) \/ Finish(t) \/ Wait(t) \/ EffectsRefused(t) \/ FinalOwned(t)
           \/ FinalNotStopped(t) \/ FinalFree(t) \/ DeferActiveDispatch(t)
           \/ FenceLost(t) \/ JournalFails(t) \/ JournalFull(t)
    PROVE  ThreadInv(t)'
<1>1. TypeInv
  BY DEF IInv
<1>2. CASE HoldUnhandled(t) \/ Finish(t)
  BY <1>1, <1>2, OwnIdle DEF HoldUnhandled, Finish
<1>3. ASSUME NEW keep, th' = [th EXCEPT ![t] = Leave(t, keep)],
             attempts' = attempts, th[t].pc # "claim"
      PROVE  ThreadInv(t)'
  <2>1. ~Claim(t)
    BY <1>3 DEF Claim, At
  <2> QED BY <1>3, <2>1, LeaveOwn
<1>4. CASE Wait(t) \/ FinalOwned(t) \/ FinalNotStopped(t) \/ FinalFree(t)
  <2>1. th[t].pc # "claim" /\ attempts' = attempts
    BY <1>4 DEF Wait, FinalOwned, FinalNotStopped, FinalFree, At
  <2>2. \E keep : th' = [th EXCEPT ![t] = Leave(t, keep)]
    BY <1>4 DEF Wait, FinalOwned, FinalNotStopped, FinalFree
  <2> QED BY <1>3, <2>1, <2>2
<1>5. CASE DeferActiveDispatch(t) \/ FenceLost(t) \/ JournalFull(t)
  <2>1. th[t].pc # "claim" /\ attempts' = attempts
    BY <1>5 DEF DeferActiveDispatch, FenceLost, JournalFull, At, Fenced
  <2>2. \E keep : th' = [th EXCEPT ![t] = Leave(t, keep)]
    BY <1>5 DEF DeferActiveDispatch, FenceLost, JournalFull
  <2> QED BY <1>3, <2>1, <2>2
<1>6. CASE EffectsRefused(t) \/ JournalFails(t)
  <2>1. /\ th[t].pc # "claim" /\ ~Claim(t) /\ UNCHANGED <<attempts, effect, world>>
        /\ EffectsRefused(t) => th[t].pc = "effects"
    BY <1>6 DEF EffectsRefused, JournalFails, At, Fenced, Claim
  <2>2. \/ /\ th[t].pc = "effects" /\ th[t].phase = "reconcile"
           /\ th' = [th EXCEPT ![t] = [th[t] EXCEPT !.pc = "close", !.res = "review"]]
        \/ \E keep : th' = [th EXCEPT ![t] = Leave(t, keep)]
    BY <1>6, <2>1 DEF EffectsRefused, JournalFails
  <2> QED BY <1>3, <2>1, <2>2, Refused
<1> QED BY <1>2, <1>4, <1>5, <1>6

\* The way to the reconciliation.
LEMMA OwnFind ==
    ASSUME IInv, Control, Exclusive, NEW t \in Threads, Step(t),
           ReconcileFind(t) \/ ReconcileRefresh(t)
    PROVE  ThreadInv(t)'
<1>1. PICK h : h = th[t]
  OBVIOUS
<1>2. /\ h \in Thread /\ h.pc \in {"rec_find", "rec_refresh"} /\ h.phase = "reconcile"
      /\ attempts' = attempts
  BY <1>1, ThreadTyped DEF IInv, ReconcileFind, ReconcileRefresh, At, Control, Controlled
<1>3. ~Claim(t)
  BY <1>1, <1>2 DEF Claim, At
<1>4. ASSUME NEW r, th' = [th EXCEPT ![t] = r], r.pc \in Roaming, r.phase = "reconcile",
             r.claimed => /\ h.claimed /\ r.act = h.act
                          /\ r.ver = h.ver \/ run[h.act].version <= h.ver + 1
      PROVE  ThreadInv(t)'
  BY <1>1, <1>3, <1>4, Roams
<1>5. CASE ReconcileFind(t)
  <2>1. CASE th' = [th EXCEPT ![t].pc = "rec_active", ![t].mark = 0]
    <3>1. PICK r : r = [h EXCEPT !.pc = "rec_active", !.mark = 0]
      OBVIOUS
    <3>2. /\ r.pc = "rec_active" /\ r.phase = h.phase /\ r.claimed = h.claimed
          /\ r.act = h.act /\ r.ver = h.ver
      BY <1>2, <3>1 DEF Thread
    <3>3. th' = [th EXCEPT ![t] = r]
      BY <1>1, <2>1, <3>1
    <3> QED BY <1>2, <1>4, <3>2, <3>3 DEF Roaming
  <2>2. ASSUME NEW n, th' = [th EXCEPT ![t] =
                    [@ EXCEPT !.pc = "rel_intent", !.back = "rec", !.mark = 0,
                              !.att = n, !.ierr = FALSE]]
        PROVE  ThreadInv(t)'
    <3>1. PICK r : r = [h EXCEPT !.pc = "rel_intent", !.back = "rec", !.mark = 0,
                                 !.att = n, !.ierr = FALSE]
      OBVIOUS
    <3>2. /\ r.pc = "rel_intent" /\ r.phase = h.phase /\ r.claimed = h.claimed
          /\ r.act = h.act /\ r.ver = h.ver
      BY <1>2, <3>1 DEF Thread
    <3>3. th' = [th EXCEPT ![t] = r]
      BY <1>1, <2>2, <3>1
    <3> QED BY <1>2, <1>4, <3>2, <3>3 DEF Roaming
  <2> QED BY <1>5, <2>1, <2>2 DEF ReconcileFind
<1>6. CASE ReconcileRefresh(t)
  <2> DEFINE v == IF h.claimed THEN run[h.act].version ELSE h.ver
             go == [h EXCEPT !.pc = "rec_active", !.att = 0, !.back = "none", !.ver = v]
  <2>1. CASE \E keep : th' = [th EXCEPT ![t] = Leave(t, keep)]
    BY <1>2, <1>3, <2>1, LeaveOwn
  <2>2. CASE /\ th' = [th EXCEPT ![t] = go]
             /\ h.claimed => run[h.act].version = h.ver \/ AdvanceAfterOutcome(t)
    <3>1. PICK r : r = go
      OBVIOUS
    <3>2. /\ r.pc = "rec_active" /\ r.phase = h.phase /\ r.claimed = h.claimed
          /\ r.act = h.act
      BY <1>2, <3>1 DEF Thread
    <3>3. h.ver \in Nat
      BY <1>2 DEF Thread
    <3>4. h.claimed => run[h.act].version <= h.ver + 1
      <4>1. AdvanceAfterOutcome(t) => run[h.act].version = h.ver + 1
        BY <1>1 DEF AdvanceAfterOutcome, Act
      <4> QED BY <2>2, <3>3, <4>1
    <3> QED BY <1>2, <1>4, <2>2, <3>1, <3>2, <3>4 DEF Roaming
  <2> QED BY <1>1, <1>6, <2>1, <2>2 DEF ReconcileRefresh, Act
<1> QED BY <1>5, <1>6

\* The reconciliation up to its verdict.
LEMMA OwnReconcile ==
    ASSUME IInv, Control, Bounds, Exclusive, NEW t \in Threads, Step(t),
           ReconcileActive(t) \/ ReconcileReuse(t) \/ ReconcileBegin(t) \/ ReconcileReturn(t)
    PROVE  ThreadInv(t)'
<1>1. PICK h : h = th[t]
  OBVIOUS
<1>2. /\ h \in Thread /\ h.pc \in {"rec_active", "rec_att", "reconcile"}
      /\ h.phase = "reconcile" /\ PassInv(h, ExecOf(t))
  BY <1>1, ThreadTyped DEF IInv, ReconcileActive, ReconcileReuse, ReconcileBegin,
     ReconcileReturn, At, Control, Controlled, Exclusive, ThreadInv
<1>3. ~Claim(t) /\ ~PrepareDispatch(t) /\ ~DispatchSend(t) /\ TypeInv
  BY <1>1, <1>2 DEF Claim, PrepareDispatch, DispatchSend, At, IInv
<1>4. PICK a \in Actions : a = h.act /\ a = Act(t)
  BY <1>1, StepActs DEF IInv, Act
<1>5. (Settled(a) => Settled(a)') /\ world' = world
  BY <1>3, JournalMoves, WorldMoves DEF Settled
<1>6. h.pc # "rec_active" /\ (OwnerJournal(h) \/ Free(h)) => Settled(a)
  BY <1>2, <1>4 DEF OwnerJournal, PassInv, FreePass
<1>7. ASSUME NEW r, th' = [th EXCEPT ![t] = r], r.pc \in {"rec_att", "reconcile", "close"},
             r.phase = h.phase, r.claimed = h.claimed, r.act = h.act, r.ver = h.ver,
             h.pc = "rec_active" => Settled(a), r.pc = "close" /\ r.res = "safe" => Zero(a)
      PROVE  ThreadInv(t)'
  <2>1. OwnerJournal(h) \/ Free(h) => Settled(h.act)'
    <3>1. OwnerJournal(h) \/ Free(h) => Settled(a)'
      BY <1>5, <1>6, <1>7
    <3> QED BY <1>4, <3>1 DEF Settled, ActiveDispatches
  <2>2. r.pc = "close" /\ r.res = "safe" => Zero(h.act)'
    BY <1>4, <1>5, <1>7 DEF Zero
  <2> QED BY <1>1, <1>2, <1>3, <1>7, <2>1, <2>2, Reconciles
<1>8. CASE ReconcileActive(t)
  <2>1. PICK p : p = IF ActiveDispatches(a) # {} THEN "defer" ELSE "rec_att"
    OBVIOUS
  <2>2. PICK r : r = [h EXCEPT !.pc = p]
    OBVIOUS
  <2>3. /\ r.pc = p /\ r.phase = h.phase /\ r.claimed = h.claimed /\ r.act = h.act
        /\ r.ver = h.ver
    BY <1>2, <2>2 DEF Thread
  <2>4. th' = [th EXCEPT ![t] = r] /\ h.pc = "rec_active"
    BY <1>1, <1>4, <1>8, <2>1, <2>2 DEF ReconcileActive, Goto, At
  <2>5. CASE p = "defer"
    BY <1>1, <1>2, <1>3, <2>3, <2>4, <2>5, Roams DEF Roaming
  <2>6. CASE p = "rec_att"
    BY <1>7, <2>1, <2>3, <2>4, <2>6 DEF Settled
  <2> QED BY <2>1, <2>5, <2>6
<1>9. CASE ReconcileReuse(t) \/ ReconcileBegin(t)
  <2>1. PICK n : th' = [th EXCEPT ![t].pc = "reconcile", ![t].att = n]
    BY <1>9 DEF ReconcileReuse, ReconcileBegin
  <2>2. PICK r : r = [h EXCEPT !.pc = "reconcile", !.att = n]
    OBVIOUS
  <2>3. /\ r.pc = "reconcile" /\ r.phase = h.phase /\ r.claimed = h.claimed /\ r.act = h.act
        /\ r.ver = h.ver
    BY <1>2, <2>2 DEF Thread
  <2>4. th' = [th EXCEPT ![t] = r] /\ h.pc = "rec_att"
    BY <1>1, <1>9, <2>1, <2>2 DEF ReconcileReuse, ReconcileBegin, At
  <2> QED BY <1>7, <2>3, <2>4
<1>10. CASE ReconcileReturn(t)
  <2>1. PICK v \in ReconcileVerdict(Act(t)) : th' = [th EXCEPT ![t].pc = "close", ![t].res = v]
    BY <1>10 DEF ReconcileReturn
  <2>2. PICK r : r = [h EXCEPT !.pc = "close", !.res = v]
    OBVIOUS
  <2>3. /\ r.pc = "close" /\ r.phase = h.phase /\ r.claimed = h.claimed /\ r.act = h.act
        /\ r.ver = h.ver /\ r.res = v
    BY <1>2, <2>2 DEF Thread
  <2>4. th' = [th EXCEPT ![t] = r] /\ h.pc = "reconcile"
    BY <1>1, <1>10, <2>1, <2>2 DEF ReconcileReturn, At
  <2>5. v = "safe" => Zero(a)
    <3>1. v = "safe" => world[a].inflight = 0 /\ ~(world[a].applied > 0)
      BY <1>4, <2>1 DEF ReconcileVerdict, Desired
    <3>2. world[a].applied \in Nat
      BY <1>3, WorldTyped
    <3> QED BY <3>1, <3>2 DEF Zero
  <2> QED BY <1>7, <2>3, <2>4, <2>5
<1> QED BY <1>8, <1>9, <1>10

\* The release of a barrier.
LEMMA OwnRelease ==
    ASSUME IInv, Control, Bounds, Exclusive, NEW t \in Threads, Step(t),
           \/ ReleaseResolved(t) \/ ReleaseIntent(t) \/ ReleaseMark(t) \/ ReleaseResolve(t)
           \/ ReleaseFailed(t) \/ BarrierRetry(t) \/ BarrierGiveUp(t)
    PROVE  ThreadInv(t)'
<1>1. PICK h : h = th[t]
  OBVIOUS
<1>2. h \in Thread /\ h.pc \in Releasing \cup {"bg"} /\ Controlled(h) /\ TypeInv
  BY <1>1, ThreadTyped DEF IInv, ReleaseResolved, ReleaseIntent, ReleaseMark, ReleaseResolve,
     ReleaseFailed, BarrierRetry, BarrierGiveUp, At, Control
<1>3. ~Claim(t) /\ ~PrepareDispatch(t)
  BY <1>1, <1>2 DEF Claim, PrepareDispatch, At
<1>4. PICK a \in Actions : a = h.act
  BY <1>1, StepActs DEF IInv, Act
<1>5. ActiveDispatches(h.act)' \subseteq ActiveDispatches(h.act)
  <2>1. ActiveDispatches(a)' \subseteq ActiveDispatches(a)
    BY <1>2, <1>3, JournalMoves
  <2> QED BY <1>4, <2>1 DEF ActiveDispatches
<1>6. ASSUME NEW r, th' = [th EXCEPT ![t] = r], r.pc \in Releasing \cup {"rec_refresh"},
             r.phase = h.phase, r.claimed = h.claimed, r.act = h.act, r.ver = h.ver,
             r.att = h.att
      PROVE  ThreadInv(t)'
  <2>1. CASE h.phase = "none"
    <3>1. ~r.claimed /\ r.pc \notin LivePoint \cup {"claim"}
      BY <1>2, <1>6, <2>1 DEF Controlled, LivePoint
    <3> QED BY <1>2, <1>6, <2>1, <3>1, Unowned
  <2>2. CASE h.phase \in {"dispatch", "reconcile"}
    <3>1. r.pc \in Roaming
      BY <1>6 DEF Roaming
    <3> QED BY <1>1, <1>3, <1>5, <1>6, <2>2, <3>1, Roams
  <2>3. h.phase \in {"none", "dispatch", "reconcile"}
    BY <1>2 DEF Controlled
  <2> QED BY <2>1, <2>2, <2>3
<1>7. ASSUME NEW p \in Releasing \cup {"rec_refresh"}, th' = [th EXCEPT ![t] = [h EXCEPT !.pc = p]]
      PROVE  ThreadInv(t)'
  <2>1. PICK r : r = [h EXCEPT !.pc = p]
    OBVIOUS
  <2>2. /\ r.pc = p /\ r.phase = h.phase /\ r.claimed = h.claimed /\ r.act = h.act
        /\ r.ver = h.ver /\ r.att = h.att
    BY <1>2, <2>1 DEF Thread
  <2> QED BY <1>6, <1>7, <2>1, <2>2
<1>8. CASE th' = [th EXCEPT ![t] = AfterRelease(t)]
  <2>1. CASE th' = [th EXCEPT ![t] = [h EXCEPT !.pc = "rec_refresh"]]
    BY <1>7, <2>1
  <2>2. CASE th' = [th EXCEPT ![t] = Idle]
    BY <1>2, <2>2, OwnIdle
  <2>3. CASE th' = [th EXCEPT ![t] = Finishing(t, h.keep)]
    <3>1. PICK r : r = Finishing(t, h.keep)
      OBVIOUS
    <3>2. ~r.claimed /\ r.phase = "none" /\ r.pc = "finish"
      BY <3>1 DEF Finishing, Idle
    <3> QED BY <1>2, <2>3, <3>1, <3>2, Unowned DEF LivePoint
  <2>4. AfterRelease(t) \in {[h EXCEPT !.pc = "rec_refresh"], Idle, Finishing(t, h.keep)}
    BY <1>1 DEF AfterRelease
  <2> QED BY <1>8, <2>1, <2>2, <2>3, <2>4
<1>9. CASE ReleaseResolved(t) \/ ReleaseResolve(t)
  BY <1>8, <1>9 DEF ReleaseResolved, ReleaseResolve
<1>10. CASE ReleaseMark(t) \/ BarrierRetry(t)
  BY <1>1, <1>7, <1>10 DEF ReleaseMark, BarrierRetry, Goto
<1>11. CASE ReleaseIntent(t)
  <2>1. CASE Goto(t, "rel_mark")
    BY <1>1, <1>7, <2>1 DEF Goto
  <2>2. CASE th' = [th EXCEPT ![t].pc = "rel_mark", ![t].ierr = TRUE]
    <3>1. PICK r : r = [h EXCEPT !.pc = "rel_mark", !.ierr = TRUE]
      OBVIOUS
    <3>2. /\ r.pc = "rel_mark" /\ r.phase = h.phase /\ r.claimed = h.claimed /\ r.act = h.act
          /\ r.ver = h.ver /\ r.att = h.att
      BY <1>2, <3>1 DEF Thread
    <3>3. th' = [th EXCEPT ![t] = r]
      BY <1>1, <2>2, <3>1
    <3> QED BY <1>6, <3>2, <3>3
  <2> QED BY <1>11, <2>1, <2>2 DEF ReleaseIntent
<1>12. CASE ReleaseFailed(t)
  <2>1. PICK r : r = [Idle EXCEPT !.pc = "bg", !.act = Act(t), !.att = th[t].att, !.back = "bg"]
    OBVIOUS
  <2>2. ~r.claimed /\ r.phase = "none" /\ r.pc = "bg"
    BY <2>1 DEF Idle
  <2>3. th' = [th EXCEPT ![t] = r]
    BY <1>12, <2>1 DEF ReleaseFailed
  <2> QED BY <1>2, <2>2, <2>3, Unowned DEF LivePoint
<1>13. CASE BarrierGiveUp(t)
  BY <1>2, <1>13, OwnIdle DEF BarrierGiveUp
<1> QED BY <1>9, <1>10, <1>11, <1>12, <1>13

LEMMA StepOwn ==
    ASSUME IInv, Control, Bounds, Exclusive, Overlap = {}, "reserve" \notin FaultPoints,
           NEW t \in Threads, Step(t)
    PROVE  ThreadInv(t)'
<1>1. CASE \/ HoldUnhandled(t) \/ Finish(t) \/ Wait(t) \/ EffectsRefused(t) \/ FinalOwned(t)
           \/ FinalNotStopped(t) \/ FinalFree(t) \/ DeferActiveDispatch(t)
           \/ FenceLost(t) \/ JournalFails(t) \/ JournalFull(t)
  BY <1>1, OwnEnd
<1>2. CASE Claim(t) \/ AcquireReservations(t) \/ Reserve(t) \/ ReserveRefused(t)
  BY <1>2, OwnClaim, OwnAcquire, OwnReserve, OwnRefused
<1>3. CASE ObserveBegin(t) \/ ObserveReturn(t) \/ PrepareDispatch(t)
  BY <1>3, OwnObserve, OwnPrepare
<1>4. CASE \/ BeforeDispatch(t) \/ BeforeDispatchCancelled(t)
           \/ DispatchSend(t) \/ DispatchReturn(t)
  BY <1>4, OwnBefore, OwnSend
<1>5. CASE CloseAttempt(t) \/ RecordEffects(t)
  BY <1>5, OwnClose, OwnRecord
<1>6. CASE ReconcileFind(t) \/ ReconcileRefresh(t)
  BY <1>6, OwnFind
<1>7. CASE ReconcileActive(t) \/ ReconcileReuse(t) \/ ReconcileBegin(t) \/ ReconcileReturn(t)
  BY <1>7, OwnReconcile
<1>8. CASE \/ ReleaseResolved(t) \/ ReleaseIntent(t) \/ ReleaseMark(t) \/ ReleaseResolve(t)
           \/ ReleaseFailed(t) \/ BarrierRetry(t) \/ BarrierGiveUp(t)
  BY <1>8, OwnRelease
<1> QED BY <1>1, <1>2, <1>3, <1>4, <1>5, <1>6, <1>7, <1>8 DEF Step

LEMMA StepExclusive ==
    ASSUME IInv, Control, Bounds, Guarded, Exclusive, Overlap = {},
           "reserve" \notin FaultPoints, NEW t \in Threads, Step(t)
    PROVE  Exclusive'
<1>1. ASSUME NEW u \in Threads PROVE ThreadInv(u)'
  BY Bystander, StepOwn
<1>2. ASSUME NEW b \in Actions PROVE ActionInv(b)'
  BY StepActions
<1> QED BY <1>1, <1>2 DEF Exclusive

-----------------------------------------------------------------------------
(* What the process, the clock and the callers do *)

\* The rows change, the goroutines and the journals stay: no row is claimed,
\* queued again or ended by force.
RowDrift(old, new) ==
    /\ new.version >= old.version
    /\ new.version = old.version => new.state = old.state
    /\ new.cancel \/ ~old.cancel
    /\ new.state = "running" => /\ old.state = "running" /\ new.by = old.by
                                /\ new.version = old.version \/ new.cancel
    /\ new.state \in Unstarted => old.state = new.state
    /\ new.state \in Terminal => old.state = new.state \/ old.state \in Unstarted

RowsDrift == \A b \in Actions : RowDrift(run[b], run'[b])

LEMMA DriftExclusive ==
    ASSUME IInv, IInv', Control, Exclusive, RowsDrift, UNCHANGED <<attempts, effect, world, th>>
    PROVE  Exclusive'
<1>1. \A a : /\ Clean(a)' = Clean(a) /\ Settled(a)' = Settled(a) /\ Zero(a)' = Zero(a)
             /\ OpenEffect(a)' = OpenEffect(a) /\ ActiveDispatches(a)' = ActiveDispatches(a)
             /\ Quiet(a)' = Quiet(a)
  BY DEF Clean, Settled, Zero, OpenEffect, ActiveDispatches, Quiet
<1>2. ASSUME NEW b \in Actions PROVE ActionInv(b)'
  <2>1. ActionInv(b)
    BY DEF Exclusive
  <2>2. \A m, n \in ActiveDispatches(b)' : m = n
    BY <1>1, <2>1 DEF ActionInv
  <2>3. run'[b].state \in Unstarted \cup Terminal => Quiet(b)'
    BY <1>1, <2>1 DEF ActionInv, RowsDrift, RowDrift
  <2>4. run'[b].state \in Unstarted /\ ~run'[b].cancel => Clean(b)'
    BY <1>1, <2>1 DEF ActionInv, RowsDrift, RowDrift
  <2>5. world'[b].inflight + world'[b].applied <= 1
    BY <2>1 DEF ActionInv
  <2> QED BY <2>2, <2>3, <2>4, <2>5 DEF ActionInv
<1>3. ASSUME NEW u \in Threads PROVE ThreadInv(u)'
  <2> DEFINE e == ExecOf(u)
  <2>1. PICK h : h = th[u]
    OBVIOUS
  <2>2. /\ th'[u] = h /\ PassInv(h, e) /\ Controlled(h) /\ h \in Thread
        /\ h.pc # "idle" => h.act \in Actions
    BY <2>1, ThreadTyped DEF Exclusive, ThreadInv, Control, IInv
  <2>3. CASE h.pc = "idle"
    <3>1. PassInv(h, e)'
      BY <2>2, <2>3 DEF Controlled, PassInv, Owning, Free, LivePoint
    <3> QED BY <2>2, <3>1, PassAt
  <2>4. CASE h.pc # "idle"
    <3>1. PICK a \in Actions : a = h.act
      BY <2>2, <2>4
    <3> DEFINE v == run[a].version
               w == run'[a].version
    <3>2. v \in Nat /\ w \in Nat /\ h.ver \in Nat
      <4>1. run[a] \in Row /\ run'[a] \in Row
        BY DEF IInv, TypeInv, TypeOK
      <4> QED BY <2>2, <4>1 DEF Row, Thread
    <3>3. /\ w >= v /\ (w = v => run'[a].state = run[a].state)
          /\ run'[a].cancel \/ ~run[a].cancel
          /\ run'[a].state = "running" =>
                /\ run[a].state = "running" /\ run'[a].by = run[a].by
                /\ w = v \/ run'[a].cancel
          /\ run'[a].state \in Unstarted => run[a].state = run'[a].state
      BY DEF RowsDrift, RowDrift
    <3>4. h.pc = "claim" => Origin(h)'
      <4> SUFFICES ASSUME h.pc = "claim" PROVE Origin(h)'
        OBVIOUS
      <4>1. h.ver <= v
        BY <2>2, <3>1 DEF PassInv, Origin
      <4>2. h.ver <= w /\ (h.ver = w => h.ver = v /\ v = w)
        BY <3>2, <3>3, <4>1
      <4>3. h.ver = w => run'[a].state \notin Claimable \/ run'[a].state = h.from
        BY <2>2, <3>1, <3>3, <4>2 DEF PassInv, Origin
      <4> QED BY <3>1, <4>2, <4>3 DEF Origin
    <3>5. ASSUME Owning(h)' PROVE OwnerRow(h, e)' /\ OwnerJournal(h)'
      <4>1. h.claimed /\ run'[a].state = "running" /\ w <= h.ver + 1
        BY <3>1, <3>5 DEF Owning
      <4>2. Owning(h)
        <5>1. v <= h.ver + 1
          BY <3>2, <3>3, <4>1
        <5> QED BY <3>1, <3>3, <4>1, <5>1 DEF Owning
      <4>3. OwnerRow(h, e) /\ OwnerJournal(h) /\ h.ver <= v
        BY <2>1, <2>2, <3>1, <4>2, <4>1 DEF PassInv, IInv, Generations
      <4>4. ASSUME Again(h), w = h.ver + 1, ~run'[a].cancel \/ h.pc = "wait" PROVE Quiet(a)'
        <5>1. CASE w = v
          BY <1>1, <3>1, <3>3, <4>3, <4>4, <5>1 DEF OwnerRow
        <5>2. CASE w # v
          <6>1. run'[a].cancel
            BY <3>3, <4>1, <5>2
          <6>2. h.pc = "wait" /\ v = h.ver + 1
            BY <3>1, <4>3, <4>4, <6>1 DEF OwnerRow
          <6> QED BY <4>4, <5>2, <6>2
        <5> QED BY <5>1, <5>2
      <4>5. Again(h) /\ h.pc = "wait" => w = h.ver + 1
        <5> SUFFICES ASSUME Again(h), h.pc = "wait" PROVE w = h.ver + 1
          OBVIOUS
        <5>1. v = h.ver + 1
          BY <3>1, <4>3 DEF OwnerRow
        <5> QED BY <3>2, <3>3, <4>1, <5>1
      <4>6. run'[a].by = e
        BY <3>1, <3>3, <4>1, <4>3 DEF OwnerRow
      <4>7. OwnerRow(h, e)'
        BY <3>1, <4>4, <4>5, <4>6 DEF OwnerRow, Again
      <4>8. OwnerJournal(h)'
        BY <1>1, <4>3 DEF OwnerJournal, Fresh
      <4> QED BY <4>7, <4>8
    <3>6. Free(h) => FreePass(h)'
      <4> SUFFICES ASSUME Free(h) PROVE FreePass(h)'
        OBVIOUS
      <4>1. FreePass(h)
        BY <2>2 DEF PassInv
      <4>2. run'[a].state \notin {"running"} \cup Unstarted
        BY <3>1, <3>3, <4>1 DEF FreePass
      <4> QED BY <1>1, <3>1, <4>1, <4>2 DEF FreePass
    <3>7. h.pc \in LivePoint /\ ~h.sent => Zero(h.act)'
      BY <1>1, <2>2 DEF PassInv
    <3>8. PassInv(h, e)'
      BY <3>4, <3>5, <3>6, <3>7 DEF PassInv, Free
    <3> QED BY <2>2, <3>8, PassAt
  <2> QED BY <2>3, <2>4
<1> QED BY <1>2, <1>3 DEF Exclusive

\* No statement of the process, of the clock or of a caller does more.
LEMMA RowsDrifting ==
    ASSUME TypeInv,
           \/ RecoverExpired \/ FinalizeCancelled \/ FinalizeDeadline
           \/ \E a \in Actions : RequestCancellation(a) \/ CancelLinked(a) \/ LeaseExpires(a)
    PROVE  RowsDrift
<1>1. ASSUME NEW b \in Actions
      PROVE  run[b] \in Row /\ run[b].version \in Nat /\ RowDrift(run[b], run[b])
  <2>1. run[b] \in Row
    BY <1>1, RowTyped
  <2>2. run[b].version \in Nat
    BY <2>1 DEF Row
  <2> QED BY <2>1, <2>2 DEF RowDrift
<1>2. ASSUME NEW a \in Actions, NEW row, run' = [run EXCEPT ![a] = row], RowDrift(run[a], row)
      PROVE  RowsDrift
  <2>1. \A b \in Actions : run'[b] = IF b = a THEN row ELSE run[b]
    BY <1>2 DEF TypeInv, TypeOK
  <2> QED BY <1>1, <1>2, <2>1 DEF RowsDrift
<1>3. CASE RecoverExpired
  <2>1. ASSUME NEW b \in Actions PROVE RowDrift(run[b], run'[b])
    <3>1. run[b] \in Row
      BY <1>1
    <3> DEFINE v == run[b].version + 1
               row == [run[b] EXCEPT !.state = "reconciling", !.version = v, !.by = None,
                                     !.expired = FALSE]
    <3>2. run'[b] = run[b] \/ run'[b] = row
      BY <1>3 DEF RecoverExpired, Recovered
    <3>3. v >= run[b].version /\ v # run[b].version
      BY <1>1
    <3>4. row.version = v /\ row.state = "reconciling" /\ row.cancel = run[b].cancel
      BY <3>1 DEF Row
    <3> HIDE DEF row, v
    <3>5. RowDrift(run[b], row)
      BY <3>3, <3>4 DEF RowDrift, Unstarted, Terminal
    <3> QED BY <1>1, <3>2, <3>5
  <2> QED BY <2>1 DEF RowsDrift
<1>4. ASSUME NEW b \in Actions, NEW s, s \in {"cancelled", "deadline_exceeded"},
             run[b].state \in Unstarted, run'[b] = Finalized(run[b], s)
      PROVE  RowDrift(run[b], run'[b])
  <2>1. run[b] \in Row
    BY <1>1
  <2> DEFINE v == run[b].version + 1
             row == [run[b] EXCEPT !.state = s, !.version = v, !.by = None, !.expired = FALSE]
  <2>2. run'[b] = row
    BY <1>4 DEF Finalized
  <2>3. v # run[b].version /\ v >= run[b].version
    BY <1>1
  <2>4. row.version = v /\ row.state = s /\ row.cancel = run[b].cancel
    BY <2>1 DEF Row
  <2> HIDE DEF row, v
  <2>5. s # "running" /\ s \notin Unstarted
    BY <1>4 DEF Unstarted
  <2> QED BY <1>4, <2>2, <2>3, <2>4, <2>5 DEF RowDrift
<1>5. CASE FinalizeCancelled
  <2>1. ASSUME NEW b \in Actions PROVE RowDrift(run[b], run'[b])
    <3>1. \/ run'[b] = run[b]
          \/ run[b].state \in Unstarted /\ run'[b] = Finalized(run[b], "cancelled")
      BY <1>5 DEF FinalizeCancelled, FinalizeCancelledRows
    <3> QED BY <1>1, <1>4, <3>1
  <2> QED BY <2>1 DEF RowsDrift
<1>6. CASE FinalizeDeadline
  <2>1. ASSUME NEW b \in Actions PROVE RowDrift(run[b], run'[b])
    <3>1. \/ run'[b] = run[b]
          \/ run[b].state \in Unstarted /\ run'[b] = Finalized(run[b], "deadline_exceeded")
      BY <1>6 DEF FinalizeDeadline, FinalizeDeadlineRows
    <3> QED BY <1>1, <1>4, <3>1
  <2> QED BY <2>1 DEF RowsDrift
<1>7. ASSUME NEW a \in Actions, RequestCancellation(a) PROVE RowsDrift
  <2> DEFINE v == run[a].version + 1
             row == [run[a] EXCEPT !.cancel = TRUE, !.version = v]
  <2>1. run' = [run EXCEPT ![a] = row]
    BY <1>7 DEF RequestCancellation
  <2>2. v >= run[a].version /\ v # run[a].version /\ run[a] \in Row
    BY <1>1
  <2>3. row.version = v /\ row.state = run[a].state /\ row.by = run[a].by /\ row.cancel
    BY <2>2 DEF Row
  <2> HIDE DEF row, v
  <2>4. RowDrift(run[a], row)
    BY <2>2, <2>3 DEF RowDrift
  <2> QED BY <1>2, <2>1, <2>4
<1>8. ASSUME NEW a \in Actions, CancelLinked(a) \/ LeaseExpires(a) PROVE RowsDrift
  <2>1. \/ run' = [run EXCEPT ![a] = [run[a] EXCEPT !.cancel = TRUE]]
        \/ run' = [run EXCEPT ![a] = [run[a] EXCEPT !.expired = TRUE]]
    BY <1>8 DEF CancelLinked, LeaseExpires
  <2>2. run[a] \in Row /\ run[a].version \in Nat
    BY <1>1
  <2>3. ASSUME NEW row, row.version = run[a].version, row.state = run[a].state,
               row.by = run[a].by, row.cancel \/ ~run[a].cancel
        PROVE  RowDrift(run[a], row)
    BY <2>2, <2>3 DEF RowDrift
  <2>4. RowDrift(run[a], [run[a] EXCEPT !.cancel = TRUE])
    <3>1. PICK row : row = [run[a] EXCEPT !.cancel = TRUE]
      OBVIOUS
    <3>2. row.version = run[a].version /\ row.state = run[a].state /\ row.by = run[a].by
          /\ row.cancel
      BY <2>2, <3>1 DEF Row
    <3> QED BY <2>3, <3>1, <3>2
  <2>5. RowDrift(run[a], [run[a] EXCEPT !.expired = TRUE])
    <3>1. PICK row : row = [run[a] EXCEPT !.expired = TRUE]
      OBVIOUS
    <3>2. row.version = run[a].version /\ row.state = run[a].state /\ row.by = run[a].by
          /\ row.cancel = run[a].cancel
      BY <2>2, <3>1 DEF Row
    <3> QED BY <2>3, <3>1, <3>2
  <2> QED BY <1>2, <2>1, <2>4, <2>5
<1> QED BY <1>3, <1>5, <1>6, <1>7, <1>8

\* The upstream system loses a request, or applies it.
LEMMA WorldExclusive ==
    ASSUME Exclusive, UNCHANGED <<run, attempts, effect, th>>,
           \A b \in Actions : world'[b].inflight + world'[b].applied <= 1,
           \A b \in Actions : Zero(b) => Zero(b)',
           \A u \in Threads : th[u].pc # "idle" => th[u].act \in Actions,
           Control
    PROVE  Exclusive'
<1>1. \A b : /\ Settled(b)' = Settled(b) /\ OpenEffect(b)' = OpenEffect(b)
             /\ ActiveDispatches(b)' = ActiveDispatches(b) /\ Quiet(b)' = Quiet(b)
  BY DEF Settled, OpenEffect, ActiveDispatches, Quiet
<1>2. \A b \in Actions : Clean(b) => Clean(b)'
  BY <1>1 DEF Clean
<1>3. ASSUME NEW b \in Actions PROVE ActionInv(b)'
  BY <1>1, <1>2 DEF Exclusive, ActionInv
<1>4. ASSUME NEW u \in Threads PROVE ThreadInv(u)'
  <2> DEFINE e == ExecOf(u)
  <2>1. PICK h : h = th[u]
    OBVIOUS
  <2>2. th'[u] = h /\ PassInv(h, e) /\ Controlled(h)
    BY <2>1 DEF Exclusive, ThreadInv, Control
  <2>3. CASE h.pc = "idle"
    <3>1. PassInv(h, e)'
      BY <2>2, <2>3 DEF Controlled, PassInv, Owning, Free, LivePoint
    <3> QED BY <2>2, <3>1, PassAt
  <2>4. CASE h.pc # "idle"
    <3>1. PICK a \in Actions : a = h.act
      BY <2>1, <2>4
    <3>2. Owning(h)' = Owning(h) /\ Origin(h)' = Origin(h) /\ FreePass(h)' = FreePass(h)
      BY <1>1 DEF Owning, Origin, FreePass
    <3>3. OwnerRow(h, e)' = OwnerRow(h, e)
      BY <1>1 DEF OwnerRow, Again
    <3>4. Zero(a) => Zero(a)'
      OBVIOUS
    <3>5. Clean(a) => Clean(a)'
      BY <1>2
    <3>6. OwnerJournal(h) => OwnerJournal(h)'
      BY <1>1, <3>1, <3>4, <3>5 DEF OwnerJournal, Fresh
    <3>7. PassInv(h, e)'
      BY <2>2, <3>1, <3>2, <3>3, <3>4, <3>6 DEF PassInv, Free
    <3> QED BY <2>2, <3>7, PassAt
  <2> QED BY <2>3, <2>4
<1> QED BY <1>3, <1>4 DEF Exclusive

LEMMA CallerExclusive ==
    ASSUME IInv, Control, Exclusive, NEW a \in Actions,
           Land(a) \/ Drop(a) \/ Establish(a) \/ DeadlinePasses(a)
    PROVE  Exclusive'
<1>1. UNCHANGED <<run, attempts, effect, th>>
  BY DEF Land, Drop, Establish, DeadlinePasses
<1>2. ASSUME NEW b \in Actions
      PROVE  /\ world[b].inflight \in Nat /\ world[b].applied \in Nat
             /\ world[b].inflight + world[b].applied <= 1
  BY <1>2, WorldTyped DEF IInv, Exclusive, ActionInv
<1>3. ASSUME NEW w, world' = [world EXCEPT ![a] = w],
             \/ w.inflight = world[a].inflight /\ w.applied = world[a].applied
             \/ /\ world[a].inflight > 0 /\ w.inflight = world[a].inflight - 1
                /\ w.applied = world[a].applied \/ w.applied = world[a].applied + 1
      PROVE  Exclusive'
  <2>1. \A b \in Actions : world'[b] = IF b = a THEN w ELSE world[b]
    BY <1>3, WorldTyped DEF IInv
  <2>2. w.inflight + w.applied <= 1
    BY <1>2, <1>3
  <2>3. \A b \in Actions : world'[b].inflight + world'[b].applied <= 1
    BY <1>2, <2>1, <2>2
  <2>4. Zero(a) => w.inflight = 0 /\ w.applied = 0
    BY <1>2, <1>3 DEF Zero
  <2>5. \A b \in Actions : Zero(b) => Zero(b)'
    BY <2>1, <2>4 DEF Zero
  <2>6. \A u \in Threads : th[u].pc # "idle" => th[u].act \in Actions
    BY ThreadTyped DEF IInv
  <2> QED BY <1>1, <2>3, <2>5, <2>6, WorldExclusive
<1>4. world[a] \in [inflight : Nat, applied : Nat, foreign : BOOLEAN]
  BY WorldTyped DEF IInv
<1>5. CASE Land(a)
  <2>1. PICK n : n = world[a].inflight - 1
    OBVIOUS
  <2>2. PICK m : m = world[a].applied + 1
    OBVIOUS
  <2>3. PICK w : w = [world[a] EXCEPT !.inflight = n, !.applied = m]
    OBVIOUS
  <2>4. w.inflight = n /\ w.applied = m
    BY <1>4, <2>3
  <2>5. world' = [world EXCEPT ![a] = w] /\ world[a].inflight > 0
    BY <1>5, <2>1, <2>2, <2>3 DEF Land
  <2> QED BY <1>3, <2>1, <2>2, <2>4, <2>5
<1>6. CASE Drop(a)
  <2>1. PICK n : n = world[a].inflight - 1
    OBVIOUS
  <2>2. PICK w : w = [world[a] EXCEPT !.inflight = n]
    OBVIOUS
  <2>3. w.inflight = n /\ w.applied = world[a].applied
    BY <1>4, <2>2
  <2>4. world' = [world EXCEPT ![a] = w] /\ world[a].inflight > 0
    BY <1>6, <2>1, <2>2 DEF Drop
  <2> QED BY <1>3, <2>1, <2>3, <2>4
<1>7. CASE Establish(a)
  <2>1. PICK w : w = [world[a] EXCEPT !.foreign = TRUE]
    OBVIOUS
  <2>2. w.inflight = world[a].inflight /\ w.applied = world[a].applied
    BY <1>4, <2>1
  <2>3. world' = [world EXCEPT ![a] = w]
    BY <1>7, <2>1 DEF Establish
  <2> QED BY <1>3, <2>2, <2>3
<1>8. CASE DeadlinePasses(a)
  <2>1. world' = world
    BY <1>8 DEF DeadlinePasses
  <2>2. \A b \in Actions : Zero(b) => Zero(b)'
    BY <2>1 DEF Zero
  <2>3. \A u \in Threads : th[u].pc # "idle" => th[u].act \in Actions
    BY ThreadTyped DEF IInv
  <2> QED BY <1>1, <1>2, <2>1, <2>2, <2>3, WorldExclusive
<1> QED BY <1>5, <1>6, <1>7, <1>8

\* No goroutine is at work.
LEMMA IdleExclusive ==
    ASSUME \A u \in Threads : th'[u].pc = "idle" /\ ~th'[u].claimed /\ th'[u].phase = "none",
           \A b \in Actions : ActionInv(b)'
    PROVE  Exclusive'
<1>1. ASSUME NEW u \in Threads PROVE ThreadInv(u)'
  <2>1. PICK r : r = th'[u]
    OBVIOUS
  <2>2. ~r.claimed /\ r.phase = "none" /\ r.pc = "idle"
    BY <2>1
  <2>3. PassInv(r, ExecOf(u))'
    BY <2>2 DEF PassInv, Owning, Free, LivePoint
  <2> QED BY <2>1, <2>3, PassAt
<1> QED BY <1>1 DEF Exclusive

LEMMA CrashExclusive ==
    ASSUME Exclusive, Crash
    PROVE  Exclusive'
<1>1. UNCHANGED <<run, attempts, effect, world>> /\ \A u \in Threads : th'[u] = Idle
  BY DEF Crash
<1>2. ASSUME NEW b \in Actions PROVE ActionInv(b)'
  <2>1. ActionInv(b)
    BY DEF Exclusive
  <2>2. Clean(b)' = Clean(b) /\ ActiveDispatches(b)' = ActiveDispatches(b)
    BY <1>1, SameClean
  <2>3. Quiet(b)'
    BY <1>1 DEF Quiet, Idle, LivePoint
  <2> QED BY <1>1, <2>1, <2>2, <2>3 DEF ActionInv
<1>3. \A u \in Threads : th'[u].pc = "idle" /\ ~th'[u].claimed /\ th'[u].phase = "none"
  BY <1>1 DEF Idle
<1> QED BY <1>2, <1>3, IdleExclusive

\* Startup recovery: what was running is to be reconciled, rows and attempts.
LEMMA RecoverExclusive ==
    ASSUME TypeInv, Control, Exclusive, Up, Recover
    PROVE  Exclusive'
<1>1. UNCHANGED <<effect, world, th>> /\ \A u \in Threads : th[u].pc = "idle"
  BY DEF Recover, Up
<1>2. ASSUME NEW b \in Actions PROVE ActionInv(b)'
  <2>1. ActionInv(b)
    BY DEF Exclusive
  <2>2. attempts'[b] = [n \in DOMAIN attempts[b] |->
                          IF attempts[b][n].state = "running"
                          THEN [attempts[b][n] EXCEPT !.state = "reconciling"]
                          ELSE attempts[b][n]]
    BY DEF Recover, RecoverRunningAttempts
  <2>3. \A n \in DOMAIN attempts[b] : attempts[b][n] \in Attempt
    BY AttemptsTyped
  <2>4. ASSUME NEW n \in DOMAIN attempts[b]
        PROVE  attempts'[b][n].state = IF attempts[b][n].state = "running" THEN "reconciling"
                                       ELSE attempts[b][n].state
    BY <2>2, <2>3 DEF Attempt
  <2>5. DOMAIN attempts'[b] = DOMAIN attempts[b]
    BY <2>2
  <2>6. ActiveDispatches(b)' = {}
    BY <2>4, <2>5 DEF ActiveDispatches, IsActiveDispatch
  <2>7. OpenEffect(b)' => OpenEffect(b)
    BY <1>1, <2>4, <2>5 DEF OpenEffect
  <2>8. Quiet(b)'
    BY <1>1 DEF Quiet, LivePoint
  <2>9. run'[b].state \in Unstarted /\ ~run'[b].cancel
           => run[b].state \in Unstarted /\ ~run[b].cancel
    <3>1. run[b] \in Row
      BY RowTyped
    <3> DEFINE x == IF HasClaim(run[b]) THEN Recovered(run[b]) ELSE run[b]
               y == IF x.state \in Unstarted /\ x.cancel THEN Finalized(x, "cancelled") ELSE x
               z == IF y.state \in Unstarted /\ ~y.cancel /\ overdue[b]
                    THEN Finalized(y, "deadline_exceeded") ELSE y
    <3>2. run'[b] = z
      BY DEF Recover, RecoverRunningRows, FinalizeCancelledRows, FinalizeDeadlineRows
    <3>3. x = run[b] \/ x.state = "reconciling"
      BY <3>1 DEF Recovered, Row
    <3>4. x \in Row
      BY <3>1, RecoveredRow DEF HasClaim, RowStep
    <3> HIDE DEF x
    <3>5. y = x \/ y.state = "cancelled"
      BY <3>4 DEF Finalized, Row
    <3>6. "state" \in DOMAIN y
      BY <3>4 DEF Finalized, Row
    <3> HIDE DEF y
    <3>7. z = y \/ z.state = "deadline_exceeded"
      BY <3>6 DEF Finalized
    <3> HIDE DEF z
    <3> QED BY <3>2, <3>3, <3>5, <3>7 DEF Unstarted
  <2>10. Clean(b) => Clean(b)'
    BY <1>1, <2>6, <2>7 DEF Clean, Settled, Zero
  <2>11. world'[b].inflight + world'[b].applied <= 1
    BY <1>1, <2>1 DEF ActionInv
  <2> QED BY <2>1, <2>6, <2>8, <2>9, <2>10, <2>11 DEF ActionInv
<1>3. ASSUME NEW u \in Threads
      PROVE  th'[u].pc = "idle" /\ ~th'[u].claimed /\ th'[u].phase = "none"
  <2>1. th'[u] = th[u] /\ th[u].pc = "idle" /\ Controlled(th[u])
    BY <1>1 DEF Control
  <2> QED BY <2>1 DEF Controlled
<1> QED BY <1>2, <1>3, IdleExclusive

LEMMA PickExclusive ==
    ASSUME IInv, Control, Exclusive, NEW t \in Threads, NEW a \in Actions,
           Pick(t, a) \/ PickById(t, a)
    PROVE  Exclusive'
<1>1. UNCHANGED <<run, attempts, effect, world>> /\ th[t].pc = "idle"
  BY DEF Pick, PickById, At
<1>2. PICK r : /\ th' = [th EXCEPT ![t] = r] /\ r.act = a /\ ~r.claimed
               /\ \/ /\ r.pc = "claim" /\ r.ver = run[a].version /\ r.phase = "none"
                     /\ run[a].state \in Claimable => run[a].state = r.from
                  \/ r.pc = "rec_find" /\ run[a].state = "reconciling"
  <2>1. CASE Pick(t, a)
    <3>1. CASE run[a].state = "reconciling" /\ Stopped(a)
      <4>1. PICK r : r = [Idle EXCEPT !.pc = "rec_find", !.act = a, !.ver = run[a].version,
                             !.from = run[a].state, !.mark = run[a].marker,
                             !.phase = "reconcile", !.keep = TRUE]
        OBVIOUS
      <4>2. r.act = a /\ ~r.claimed /\ r.pc = "rec_find"
        BY <4>1 DEF Idle
      <4>3. th' = [th EXCEPT ![t] = r]
        BY <2>1, <3>1, <4>1 DEF Pick
      <4> QED BY <3>1, <4>2, <4>3
    <3>2. CASE ~(run[a].state = "reconciling" /\ Stopped(a))
      <4>1. PICK r : r = [Idle EXCEPT !.pc = "claim", !.act = a, !.ver = run[a].version,
                             !.from = run[a].state, !.mark = run[a].marker,
                             !.phase = "none", !.keep = FALSE]
        OBVIOUS
      <4>2. /\ r.act = a /\ ~r.claimed /\ r.pc = "claim" /\ r.ver = run[a].version
            /\ r.from = run[a].state /\ r.phase = "none"
        BY <4>1 DEF Idle
      <4>3. th' = [th EXCEPT ![t] = r]
        BY <2>1, <3>2, <4>1 DEF Pick
      <4> QED BY <4>2, <4>3
    <3> QED BY <3>1, <3>2
  <2>2. CASE PickById(t, a)
    <3>1. PICK r : r = [Idle EXCEPT !.pc = "claim", !.act = a, !.ver = run[a].version]
      OBVIOUS
    <3>2. r.act = a /\ ~r.claimed /\ r.pc = "claim" /\ r.ver = run[a].version /\ r.phase = "none"
      BY <3>1 DEF Idle
    <3>3. th' = [th EXCEPT ![t] = r] /\ run[a].state \notin Claimable
      BY <2>2, <3>1 DEF PickById
    <3> QED BY <3>2, <3>3
  <2> QED BY <2>1, <2>2
<1>3. TypeInv /\ th'[t] = r /\ \A u \in Threads \ {t} : th'[u] = th[u]
  BY <1>2, OthersStay DEF IInv
<1>4. \A b : Quiet(b) => Quiet(b)'
  BY <1>1, <1>2, <1>3 DEF Quiet, LivePoint
<1>5. ASSUME NEW b \in Actions PROVE ActionInv(b)'
  <2>1. ActionInv(b)
    BY DEF Exclusive
  <2>2. Clean(b)' = Clean(b) /\ ActiveDispatches(b)' = ActiveDispatches(b)
    BY <1>1, SameClean
  <2> QED BY <1>1, <1>4, <2>1, <2>2 DEF ActionInv
<1>6. ASSUME NEW u \in Threads \ {t} PROVE ThreadInv(u)'
  <2>1. PICK h : h = th[u]
    OBVIOUS
  <2>2. th'[u] = h /\ PassInv(h, ExecOf(u))
    BY <1>3, <2>1 DEF Exclusive, ThreadInv
  <2>3. Quiet(h.act) => Quiet(h.act)'
    BY <1>4
  <2>4. PassInv(h, ExecOf(u))'
    BY <1>1, <2>2, <2>3, PassStays
  <2> QED BY <2>2, <2>4, PassAt
<1>7. ThreadInv(t)'
  <2>1. r.pc = "claim" => Origin(r)'
    <3>1. run[a].version \in Nat
      BY <1>3, RowTyped DEF Row
    <3> QED BY <1>1, <1>2, <3>1 DEF Origin
  <2>2. r.pc = "rec_find" => FreePass(r)'
    BY <1>1, <1>2 DEF FreePass, Unstarted
  <2>3. PassInv(r, ExecOf(t))'
    BY <1>2, <2>1, <2>2 DEF PassInv, Owning, Free, LivePoint
  <2> QED BY <1>3, <2>3, PassAt
<1> QED BY <1>5, <1>6, <1>7 DEF Exclusive

-----------------------------------------------------------------------------
(* One mutation *)

LEMMA InitExclusive == Init => Exclusive
<1> SUFFICES ASSUME Init PROVE Exclusive
  OBVIOUS
<1>1. ASSUME NEW t \in Threads PROVE ThreadInv(t)
  <2>1. th[t].pc = "idle" /\ ~th[t].claimed /\ th[t].phase = "none"
    BY DEF Init, Idle
  <2> QED BY <2>1 DEF ThreadInv, PassInv, Owning, Free, LivePoint
<1>2. ASSUME NEW a \in Actions PROVE ActionInv(a)
  <2>1. DOMAIN attempts[a] = {}
    BY DEF Init
  <2>2. Settled(a) /\ ActiveDispatches(a) = {} /\ ~OpenEffect(a)
    BY <2>1 DEF Settled, ActiveDispatches, OpenEffect
  <2>3. world[a].inflight = 0 /\ world[a].applied = 0
    BY DEF Init
  <2>4. Quiet(a)
    BY DEF Init, Idle, Quiet, LivePoint
  <2> QED BY <2>2, <2>3, <2>4 DEF ActionInv, Clean, Zero
<1> QED BY <1>1, <1>2 DEF Exclusive

LEMMA NextExclusive ==
    ASSUME IInv, Control, Bounds, Guarded, Up, Exclusive, Overlap = {},
           "reserve" \notin FaultPoints, [Next]_vars
    PROVE  Exclusive'
<1>1. IInv' /\ TypeInv
  BY NextKeeps DEF IInv
<1>2. CASE UNCHANGED vars
  <2>1. RowsDrift
    <3>1. ASSUME NEW a \in Actions PROVE RowDrift(run[a], run[a])
      <4>1. run[a] \in Row
        BY <1>1, RowTyped
      <4>2. run[a].version \in Nat
        BY <4>1 DEF Row
      <4> QED BY <4>2 DEF RowDrift
    <3> QED BY <1>2, <3>1 DEF RowsDrift, vars
  <2>2. UNCHANGED <<attempts, effect, world, th>>
    BY <1>2 DEF vars
  <2> QED BY <1>1, <2>1, <2>2, DriftExclusive
<1>3. CASE Crash
  BY <1>3, CrashExclusive
<1>4. CASE Recover
  BY <1>1, <1>4, RecoverExclusive
<1>5. CASE \/ RecoverExpired \/ FinalizeCancelled \/ FinalizeDeadline
           \/ \E a \in Actions : RequestCancellation(a) \/ CancelLinked(a) \/ LeaseExpires(a)
  <2>1. RowsDrift
    BY <1>1, <1>5, RowsDrifting
  <2>2. UNCHANGED <<attempts, effect, world, th>>
    BY <1>5 DEF RecoverExpired, FinalizeCancelled, FinalizeDeadline, RequestCancellation,
       CancelLinked, LeaseExpires
  <2> QED BY <1>1, <2>1, <2>2, DriftExclusive
<1>6. ASSUME NEW a \in Actions, Land(a) \/ Drop(a) \/ Establish(a) \/ DeadlinePasses(a)
      PROVE  Exclusive'
  BY <1>6, CallerExclusive
<1>7. CASE Environment
  BY <1>3, <1>4, <1>5, <1>6, <1>7 DEF Environment
<1>8. ASSUME NEW t \in Threads, Step(t)
      PROVE  Exclusive'
  BY <1>8, StepExclusive
<1>9. ASSUME NEW t \in Threads, NEW a \in Actions, Pick(t, a) \/ PickById(t, a)
      PROVE  Exclusive'
  BY <1>9, PickExclusive
<1> QED BY <1>2, <1>7, <1>8, <1>9 DEF Next

LEMMA AlwaysExclusive ==
    ASSUME Overlap = {}, "reserve" \notin FaultPoints
    PROVE  Spec => [](Exclusive /\ Guarded /\ IInv)
<1>1. Init => Exclusive
  BY InitExclusive
<1>2. IInv /\ Control /\ Bounds /\ Guarded /\ Up /\ Exclusive /\ [Next]_vars => Exclusive'
  BY NextExclusive
<1> QED BY <1>1, <1>2, AlwaysControl, AlwaysGuarded, PTL DEF Spec

\* The barrier and the claim fence admit one dispatching handler per action:
\* recovery, a lost lease, a cancellation or a late return never let a second
\* worker reach Dispatch while the first has not returned.
THEOREM OneDispatcher ==
    ASSUME Overlap = {}, "reserve" \notin FaultPoints
    PROVE  Spec => []OneLiveDispatch
<1>1. Exclusive /\ Guarded /\ IInv => OneLiveDispatch
  <2> SUFFICES ASSUME Exclusive, Guarded, IInv PROVE OneLiveDispatch
    OBVIOUS
  <2>1. \A t \in Threads : th[t].pc = "dispatch" => GuardedBy(t)
    BY DEF Guarded, LivePoint
  <2>2. \A t \in Threads : th[t].pc = "dispatch" => BarrierHeld(t)
    BY <2>1 DEF GuardedBy, BarrierHeld
  <2>3. ASSUME NEW t \in Threads, NEW u \in Threads, NEW a \in Actions,
               Dispatching(t, a), Dispatching(u, a), t # u
        PROVE  FALSE
    <3>1. GuardedBy(t) /\ GuardedBy(u) /\ Act(t) = a /\ Act(u) = a
      BY <2>1, <2>3 DEF Dispatching
    <3>2. th[t].att \in ActiveDispatches(a) /\ th[u].att \in ActiveDispatches(a)
      BY <3>1 DEF GuardedBy, ActiveDispatches
    <3>3. th[t].att = th[u].att
      BY <3>2 DEF Exclusive, ActionInv
    <3> QED BY <2>3, <3>1, <3>3 DEF GuardedBy
  <2> QED BY <2>2, <2>3 DEF OneLiveDispatch
<1> QED BY <1>1, AlwaysExclusive, PTL

\* No handler dispatches an action whose row is terminal: neither the outcome
\* of a reconciliation nor the finalisation of a cancelled or overdue row
\* closes an action under a handler that has not returned.
THEOREM TerminalQuiet ==
    ASSUME Overlap = {}, "reserve" \notin FaultPoints
    PROVE  Spec => []TerminalIsQuiet
<1>1. Exclusive => TerminalIsQuiet
  BY DEF Exclusive, ActionInv, Quiet, LivePoint, TerminalIsQuiet, Dispatching, Act
<1> QED BY <1>1, AlwaysExclusive, PTL

\* The mutation of an action is in flight or applied at most once, however
\* often its workers crash, lose their leases or are cancelled: a new dispatch
\* comes only once nothing of the last one was made or is under way.
THEOREM MutationOnce ==
    ASSUME Overlap = {}, "reserve" \notin FaultPoints
    PROVE  Spec => []AppliedAtMostOnce
<1>1. Exclusive => AppliedAtMostOnce
  BY DEF Exclusive, ActionInv, AppliedAtMostOnce
<1> QED BY <1>1, AlwaysExclusive, PTL

\* The owner of an action observes, on the way to a dispatch, only when the
\* attempt its effect is bound to was closed: whoever takes an unsettled
\* action over reconciles first.
THEOREM ReconciledFirst ==
    ASSUME Overlap = {}, "reserve" \notin FaultPoints
    PROVE  Spec => []NoBlindReplay
<1>1. Exclusive /\ Guarded /\ IInv => NoBlindReplay
  <2> SUFFICES ASSUME Exclusive, IInv, NEW t \in Threads, th[t].claimed,
                      th[t].phase = "observe", FenceMatches(t)
               PROVE  ~OpenEffect(Act(t))
    BY DEF NoBlindReplay
  <2>1. Owning(th[t])
    BY FenceOwns DEF Owns
  <2>2. OwnerJournal(th[t])
    BY <2>1 DEF Exclusive, ThreadInv, PassInv
  <2> QED BY <2>2 DEF OwnerJournal, Clean, Act
<1> QED BY <1>1, AlwaysExclusive, PTL

-----------------------------------------------------------------------------
(* What a step does to the durable keys *)

\* A row gives its keys up only by leaving the retaining states.
RowKeys(b) == run[b].reserved /\ run'[b].state \in Retaining => run'[b].reserved

LEMMA OutcomeKeys ==
    ASSUME NEW row, "reserved" \in DOMAIN row, NEW s, NEW n
    PROVE  /\ Outcome(row, s, n).reserved = (row.reserved /\ s \in Retaining)
           /\ "reserved" \in DOMAIN Outcome(row, s, n)
<1> DEFINE k == row.reserved /\ s \in Retaining
           v == row.version + 1
<1>1. Outcome(row, s, n) = [row EXCEPT !.state = s, !.version = v, !.by = None, !.expired = FALSE,
                                       !.reserved = k, !.marker = 0, !.unresolved = n]
  BY DEF Outcome
<1> HIDE DEF v
<1> SUFFICES Outcome(row, s, n).reserved = k /\ "reserved" \in DOMAIN Outcome(row, s, n)
  OBVIOUS
<1> HIDE DEF k
<1> QED BY <1>1

LEMMA StepKeys ==
    ASSUME TypeInv, NEW t \in Threads, Step(t), NEW b \in Actions
    PROVE  RowKeys(b)
<1> DEFINE a == Act(t)
<1>1. a \in Actions /\ run[a] \in Row /\ run \in [Actions -> Row]
  BY StepActs, RowTyped DEF TypeInv, TypeOK
<1>2. CASE run'[b] = run[b]
  BY <1>2 DEF RowKeys
<1>3. b # a => run'[b] = run[b]
  BY StepElsewhere DEF Elsewhere
<1>4. ASSUME NEW row, run' = [run EXCEPT ![a] = row],
             run[a].reserved /\ row.state \in Retaining => row.reserved
      PROVE  RowKeys(b)
  BY <1>1, <1>2, <1>3, <1>4 DEF RowKeys
<1>5. "reserved" \in DOMAIN run[a]
  BY <1>1 DEF Row
<1>6. ASSUME NEW s, NEW n, run' = [run EXCEPT ![a] = Outcome(run[a], s, n)]
      PROVE  RowKeys(b)
  <2>1. PICK row : row = Outcome(run[a], s, n)
    OBVIOUS
  <2>2. row.state = s
    BY <1>1, <2>1, OutcomeState
  <2>3. row.reserved = (run[a].reserved /\ s \in Retaining)
    BY <1>5, <2>1, OutcomeKeys
  <2> QED BY <1>4, <1>6, <2>1, <2>2, <2>3
<1>7. CASE HoldUnhandled(t)
  BY <1>6, <1>7 DEF HoldUnhandled
<1>8. CASE Claim(t)
  <2>1. PICK v : v = run[a].version + 1
    OBVIOUS
  <2>2. PICK row : row = [run[a] EXCEPT !.state = "running", !.by = ExecOf(t),
                                        !.expired = FALSE, !.version = v]
    OBVIOUS
  <2>3. run' = run \/ run' = [run EXCEPT ![a] = row]
    BY <1>8, <2>1, <2>2 DEF Claim
  <2>4. row.reserved = run[a].reserved
    BY <1>1, <2>2 DEF Row
  <2> QED BY <1>2, <1>4, <2>3, <2>4
<1>9. CASE Reserve(t)
  <2>1. PICK row : row = [run[a] EXCEPT !.reserved = TRUE]
    OBVIOUS
  <2>2. run' = [run EXCEPT ![a] = row]
    BY <1>9, <2>1 DEF Reserve
  <2>3. row.reserved
    BY <1>1, <2>1 DEF Row
  <2> QED BY <1>4, <2>2, <2>3
<1>10. CASE Wait(t)
  <2>1. \E s, n : WaitRow(a) = Outcome(run[a], s, n)
    BY DEF WaitRow
  <2> QED BY <1>6, <1>10, <2>1 DEF Wait
<1>11. CASE FinalOwned(t)
  <2>1. PICK mid : mid = IF th[t].res = "safe" THEN Outcome(run[a], "reconciling", 0) ELSE run[a]
    OBVIOUS
  <2>2. PICK s : s = OwnedTarget(t)
    OBVIOUS
  <2>3. PICK n : n = OwnedUnresolved(t, s)
    OBVIOUS
  <2>4. PICK row : row = Outcome(mid, s, n)
    OBVIOUS
  <2>5. run' = [run EXCEPT ![a] = row]
    BY <1>11, <2>1, <2>2, <2>3, <2>4 DEF FinalOwned
  <2>6. mid.reserved = run[a].reserved /\ "reserved" \in DOMAIN mid
    <3>1. CASE th[t].res = "safe"
      <4>1. "reconciling" \in Retaining
        BY DEF Retaining
      <4>2. run[a].reserved \in BOOLEAN
        BY <1>1 DEF Row
      <4> QED BY <1>5, <2>1, <3>1, <4>1, <4>2, OutcomeKeys
    <3>2. CASE th[t].res # "safe"
      BY <1>5, <2>1, <3>2
    <3> QED BY <3>1, <3>2
  <2>7. row.reserved = (run[a].reserved /\ s \in Retaining)
    BY <2>4, <2>6, OutcomeKeys
  <2>8. row.state = s
    <3>1. run'[a].state = s
      BY <1>11, <2>2, Targets
    <3> QED BY <1>1, <2>5, <3>1
  <2> QED BY <1>4, <2>5, <2>7, <2>8
<1>12. CASE FinalFree(t)
  <2>1. run' = run \/ \E s, n : run' = [run EXCEPT ![a] = Outcome(run[a], s, n)]
    BY <1>12 DEF FinalFree
  <2> QED BY <1>2, <1>6, <2>1
<1>13. CASE DeferActiveDispatch(t)
  <2>1. run' = run \/ \E s, n : run' = [run EXCEPT ![a] = Outcome(run[a], s, n)]
    BY <1>13 DEF DeferActiveDispatch
  <2> QED BY <1>2, <1>6, <2>1
<1>14. CASE ReleaseMark(t)
  <2>1. run' = [run EXCEPT ![a] = MarkedRow(t)]
    BY <1>14 DEF ReleaseMark
  <2>2. CASE MarkedRow(t) = run[a]
    BY <1>4, <2>1, <2>2
  <2>3. CASE \E s, n, m, by, e : MarkedRow(t) = [Outcome(run[a], s, n) EXCEPT
                                     !.marker = m, !.by = by, !.expired = e]
    <3>1. PICK s, n, m, by, e : MarkedRow(t) = [Outcome(run[a], s, n) EXCEPT
                                     !.marker = m, !.by = by, !.expired = e]
      BY <2>3
    <3>2. PICK out : out = Outcome(run[a], s, n)
      OBVIOUS
    <3>3. out.state = s
      BY <1>1, <3>2, OutcomeState
    <3>4. out.reserved = (run[a].reserved /\ s \in Retaining) /\ "reserved" \in DOMAIN out
      BY <1>5, <3>2, OutcomeKeys
    <3>5. PICK row : row = [out EXCEPT !.marker = m, !.by = by, !.expired = e]
      OBVIOUS
    <3>6. row.state = s /\ row.reserved = out.reserved
      BY <3>3, <3>5
    <3> QED BY <1>4, <2>1, <3>1, <3>2, <3>4, <3>5, <3>6
  <2> QED BY <2>2, <2>3 DEF MarkedRow
<1> QED BY <1>2, <1>7, <1>8, <1>9, <1>10, <1>11, <1>12, <1>13, <1>14, RowsSame

-----------------------------------------------------------------------------
(* Where a goroutine goes on *)

\* It records no verdict and holds no claim but the one it held, past the
\* reservations only if it was.
Onward(h, r) ==
    /\ r.pc \notin {"effects", "final"}
    /\ r.claimed =>
          \/ r.phase = "none"
          \/ /\ h.phase # "none" /\ h.claimed /\ r.act = h.act
             /\ r.ver = h.ver \/ run[h.act].version <= h.ver + 1

LEMMA SameOnward ==
    ASSUME NEW h, NEW r, r.pc \notin {"effects", "final"}, r.claimed = h.claimed,
           r.phase = h.phase, r.act = h.act, r.ver = h.ver
    PROVE  Onward(h, r)
  BY DEF Onward

LEMMA LeaveOnward ==
    ASSUME TypeInv, NEW t \in Threads, NEW keep
    PROVE  /\ Onward(th[t], Leave(t, keep)) /\ Onward(th[t], Idle)
           /\ Onward(th[t], Finishing(t, keep))
<1>1. th[t] \in Thread
  BY ThreadTyped
<1>2. Onward(th[t], Idle)
  BY DEF Onward, Idle
<1>3. Onward(th[t], Finishing(t, keep))
  BY DEF Onward, Finishing, Idle
<1>4. PICK r : r = [th[t] EXCEPT !.pc = "rel_intent", !.back = "finish", !.keep = keep,
                                 !.ierr = FALSE, !.res = "none"]
  OBVIOUS
<1>5. /\ r.pc = "rel_intent" /\ r.claimed = th[t].claimed /\ r.phase = th[t].phase
      /\ r.act = th[t].act /\ r.ver = th[t].ver
  BY <1>1, <1>4 DEF Thread
<1>6. Onward(th[t], r)
  BY <1>5, SameOnward
<1> QED BY <1>2, <1>3, <1>4, <1>6 DEF Leave

LEMMA StepOnward ==
    ASSUME TypeInv, Control, NEW t \in Threads, Step(t), ~Reserve(t), ~CloseAttempt(t),
           ~RecordEffects(t)
    PROVE  Onward(th[t], th'[t])
<1>1. th \in [Threads -> Thread] /\ th[t] \in Thread
  BY ThreadTyped DEF TypeInv, TypeOK
<1>2. ASSUME NEW r, th' = [th EXCEPT ![t] = r], Onward(th[t], r) PROVE Onward(th[t], th'[t])
  <2>1. th'[t] = r
    BY <1>1, <1>2
  <2> QED BY <1>2, <2>1
<1>3. ASSUME NEW k, th' = [th EXCEPT ![t] = Leave(t, k)] PROVE Onward(th[t], th'[t])
  BY <1>2, <1>3, LeaveOnward
<1>4. ASSUME th' = [th EXCEPT ![t] = Idle] PROVE Onward(th[t], th'[t])
  BY <1>2, <1>4, LeaveOnward
<1>5. CASE \/ HoldUnhandled(t) \/ Finish(t) \/ BarrierGiveUp(t)
  BY <1>4, <1>5 DEF HoldUnhandled, Finish, BarrierGiveUp
<1>6. CASE \/ Wait(t) \/ FinalOwned(t) \/ FinalNotStopped(t) \/ FinalFree(t)
           \/ DeferActiveDispatch(t) \/ FenceLost(t) \/ JournalFull(t)
  <2>1. \E k : th' = [th EXCEPT ![t] = Leave(t, k)]
    BY <1>6 DEF Wait, FinalOwned, FinalNotStopped, FinalFree, DeferActiveDispatch, FenceLost,
       JournalFull
  <2> QED BY <1>3, <2>1
<1>7. CASE Claim(t)
  <2>1. PICK v : v = run[Act(t)].version + 1
    OBVIOUS
  <2>2. PICK r : r = [th[t] EXCEPT !.pc = "local", !.claimed = TRUE, !.ver = v,
                                   !.mark = run[Act(t)].marker]
    OBVIOUS
  <2>3. th' = [th EXCEPT ![t] = r] \/ th' = [th EXCEPT ![t] = Idle]
    BY <1>7, <2>1, <2>2 DEF Claim
  <2>4. th[t].phase = "none"
    BY <1>7 DEF Claim, At, Control, Controlled
  <2>5. r.pc = "local" /\ r.phase = "none"
    BY <1>1, <2>2, <2>4 DEF Thread
  <2>6. Onward(th[t], r)
    BY <2>5 DEF Onward
  <2> QED BY <1>2, <1>4, <2>3, <2>6
<1>8. CASE \/ AcquireReservations(t) \/ ReserveRefused(t) \/ ObserveBegin(t)
           \/ DispatchSend(t) \/ BeforeDispatchCancelled(t)
           \/ ReconcileActive(t) \/ ReconcileReuse(t) \/ ReconcileBegin(t)
  <2>1. /\ th'[t].pc \notin {"effects", "final"} /\ th'[t].claimed = th[t].claimed
        /\ th'[t].phase = th[t].phase /\ th'[t].act = th[t].act /\ th'[t].ver = th[t].ver
    <3>1. CASE AcquireReservations(t) \/ ReserveRefused(t) \/ ReconcileActive(t)
      BY <1>1, <3>1 DEF AcquireReservations, ReserveRefused, ReconcileActive, Goto, Thread
    <3>2. CASE ObserveBegin(t) \/ DispatchSend(t) \/ BeforeDispatchCancelled(t)
      BY <1>1, <3>2 DEF ObserveBegin, DispatchSend, BeforeDispatchCancelled, At, Thread
    <3>3. CASE ReconcileReuse(t) \/ ReconcileBegin(t)
      BY <1>1, <3>3 DEF ReconcileReuse, ReconcileBegin, Thread
    <3> QED BY <1>8, <3>1, <3>2, <3>3
  <2> QED BY <2>1, SameOnward
<1>9. CASE ObserveReturn(t) \/ DispatchReturn(t) \/ ReconcileReturn(t)
  <2>1. /\ th'[t].pc \notin {"effects", "final"} /\ th'[t].claimed = th[t].claimed
        /\ th'[t].phase = th[t].phase /\ th'[t].act = th[t].act /\ th'[t].ver = th[t].ver
    <3>1. CASE ObserveReturn(t)
      <4>1. \/ th' = [th EXCEPT ![t] = [@ EXCEPT !.pc = "prepare"]]
            \/ \E v : th' = [th EXCEPT ![t] = [@ EXCEPT !.pc = "close", !.res = v]]
        BY <3>1 DEF ObserveReturn
      <4>2. CASE th' = [th EXCEPT ![t] = [@ EXCEPT !.pc = "prepare"]]
        BY <1>1, <4>2 DEF Thread
      <4>3. CASE \E v : th' = [th EXCEPT ![t] = [@ EXCEPT !.pc = "close", !.res = v]]
        BY <1>1, <4>3 DEF Thread
      <4> QED BY <4>1, <4>2, <4>3
    <3>2. CASE DispatchReturn(t)
      BY <1>1, <3>2 DEF DispatchReturn, Thread
    <3>3. CASE ReconcileReturn(t)
      BY <1>1, <3>3 DEF ReconcileReturn, Thread
    <3> QED BY <1>9, <3>1, <3>2, <3>3
  <2> QED BY <2>1, SameOnward
<1>10. CASE PrepareDispatch(t)
  <2>1. th[t].phase = "observe"
    BY <1>10 DEF PrepareDispatch, At, Control, Controlled
  <2> QED BY <1>1, <1>10, <2>1 DEF PrepareDispatch, Thread, Onward
<1>11. CASE BeforeDispatch(t)
  <2>1. \/ th' = [th EXCEPT ![t] = [@ EXCEPT !.pc = "close", !.res = "stopped"]]
        \/ th' = [th EXCEPT ![t] = [@ EXCEPT !.pc = "dispatch"]]
        \/ th' = [th EXCEPT ![t] = Leave(t, FALSE)]
    BY <1>11 DEF BeforeDispatch
  <2>2. CASE th' = [th EXCEPT ![t] = Leave(t, FALSE)]
    BY <1>3, <2>2
  <2>3. CASE th' # [th EXCEPT ![t] = Leave(t, FALSE)]
    <3> DEFINE Same == /\ th'[t].pc \notin {"effects", "final"} /\ th'[t].claimed = th[t].claimed
                       /\ th'[t].phase = th[t].phase /\ th'[t].act = th[t].act
                       /\ th'[t].ver = th[t].ver
    <3>1. CASE th' = [th EXCEPT ![t] = [@ EXCEPT !.pc = "close", !.res = "stopped"]]
      <4>1. Same
        BY <1>1, <3>1 DEF Thread
      <4> QED BY <4>1, SameOnward
    <3>2. CASE th' = [th EXCEPT ![t] = [@ EXCEPT !.pc = "dispatch"]]
      <4>1. Same
        BY <1>1, <3>2 DEF Thread
      <4> QED BY <4>1, SameOnward
    <3> QED BY <2>1, <2>3, <3>1, <3>2
  <2> QED BY <2>2, <2>3
<1>12. CASE EffectsRefused(t) \/ JournalFails(t)
  <2>1. \/ th' = [th EXCEPT ![t] = [@ EXCEPT !.pc = "close", !.res = "review"]]
        \/ \E k : th' = [th EXCEPT ![t] = Leave(t, k)]
    BY <1>12 DEF EffectsRefused, JournalFails
  <2>2. CASE th' = [th EXCEPT ![t] = [@ EXCEPT !.pc = "close", !.res = "review"]]
    BY <1>1, <2>2 DEF Thread, Onward
  <2> QED BY <1>3, <2>1, <2>2
<1>13. CASE ReconcileFind(t)
  <2>1. \/ th' = [th EXCEPT ![t].pc = "rec_active", ![t].mark = 0]
        \/ \E n : th' = [th EXCEPT ![t] = [@ EXCEPT !.pc = "rel_intent", !.back = "rec",
                                                   !.mark = 0, !.att = n, !.ierr = FALSE]]
    BY <1>13 DEF ReconcileFind
  <2>2. ASSUME NEW n, th' = [th EXCEPT ![t] = [@ EXCEPT !.pc = "rel_intent", !.back = "rec",
                                                       !.mark = 0, !.att = n, !.ierr = FALSE]]
        PROVE  Onward(th[t], th'[t])
    BY <1>1, <2>2 DEF Thread, Onward
  <2>3. ASSUME th' = [th EXCEPT ![t].pc = "rec_active", ![t].mark = 0]
        PROVE  Onward(th[t], th'[t])
    BY <1>1, <2>3 DEF Thread, Onward
  <2> QED BY <2>1, <2>2, <2>3
<1>14. CASE ReconcileRefresh(t)
  <2>1. PICK h : h = th[t]
    OBVIOUS
  <2>2. PICK row : row = run[h.act]
    OBVIOUS
  <2>3. PICK v : v = IF h.claimed THEN row.version ELSE h.ver
    OBVIOUS
  <2>4. PICK go : go = [h EXCEPT !.pc = "rec_active", !.att = 0, !.back = "none", !.ver = v]
    OBVIOUS
  <2>5. /\ go.pc = "rec_active" /\ go.act = h.act /\ go.claimed = h.claimed
        /\ go.phase = h.phase /\ go.ver = v
    BY <1>1, <2>1, <2>4 DEF Thread
  <2>6. \/ \E k : th' = [th EXCEPT ![t] = Leave(t, k)]
        \/ /\ th' = [th EXCEPT ![t] = go]
           /\ h.claimed => row.version = h.ver \/ row.version = h.ver + 1
    BY <1>14, <2>1, <2>2, <2>3, <2>4 DEF ReconcileRefresh, Act, AdvanceAfterOutcome
  <2>7. CASE th' = [th EXCEPT ![t] = go] /\ (h.claimed => row.version = h.ver \/ row.version = h.ver + 1)
    <3>1. h.ver \in Nat /\ h.phase = "reconcile"
      BY <1>1, <1>14, <2>1 DEF Thread, ReconcileRefresh, At, Control, Controlled
    <3>2. h.claimed => row.version <= h.ver + 1
      BY <2>7, <3>1
    <3>3. Onward(h, go)
      BY <2>2, <2>5, <3>1, <3>2 DEF Onward
    <3> QED BY <1>2, <2>1, <2>7, <3>3
  <2> QED BY <1>3, <2>6, <2>7
<1>15. CASE ReleaseResolved(t) \/ ReleaseResolve(t)
  <2>1. th' = [th EXCEPT ![t] = AfterRelease(t)]
    BY <1>15 DEF ReleaseResolved, ReleaseResolve
  <2>2. PICK r : r = [th[t] EXCEPT !.pc = "rec_refresh"]
    OBVIOUS
  <2>3. Onward(th[t], r)
    BY <1>1, <2>2, SameOnward DEF Thread
  <2>4. AfterRelease(t) \in {r, Idle, Finishing(t, th[t].keep)}
    BY <2>2 DEF AfterRelease
  <2>5. Onward(th[t], AfterRelease(t))
    BY <2>3, <2>4, LeaveOnward
  <2> QED BY <1>2, <2>1, <2>5
<1>16. CASE ReleaseIntent(t) \/ ReleaseMark(t) \/ BarrierRetry(t)
  BY <1>1, <1>16 DEF ReleaseIntent, ReleaseMark, BarrierRetry, Goto, Thread, Onward
<1>17. CASE ReleaseFailed(t)
  <2>1. PICK r : r = [Idle EXCEPT !.pc = "bg", !.act = Act(t), !.att = th[t].att, !.back = "bg"]
    OBVIOUS
  <2>2. r.pc = "bg" /\ ~r.claimed
    BY <2>1 DEF Idle
  <2>3. th' = [th EXCEPT ![t] = r]
    BY <1>17, <2>1 DEF ReleaseFailed
  <2> QED BY <1>2, <2>2, <2>3 DEF Onward
<1> QED BY <1>5, <1>6, <1>7, <1>8, <1>9, <1>10, <1>11, <1>12, <1>13, <1>14, <1>15, <1>16,
           <1>17 DEF Step

-----------------------------------------------------------------------------
(* Keys span an open effect *)

\* The owner of an action that was not stopped holds its keys from the
\* reservation on; when it records a sure verdict, or a failure, the attempt
\* the effect is bound to is closed.
Holding(h) ==
    LET a == h.act IN
    Owning(h) /\ ~Stopped(a) =>
        /\ h.phase # "none" => run[a].reserved
        /\ h.pc = "effects" /\ h.res \in Sure /\ h.att \in DOMAIN attempts[a] =>
              attempts[a][h.att].state = "succeeded"
        /\ h.pc = "final" /\ h.res \in Sure \cup {"failed"} => ~OpenEffect(a)

\* Until an action is stopped its keys outlive whatever leaves its effect open.
Spanned(a) == ~Stopped(a) /\ OpenEffect(a) => run[a].reserved

Spans ==
    /\ \A t \in Threads : Holding(th[t])
    /\ \A a \in Actions : Spanned(a)

LEMMA HoldingAt ==
    ASSUME NEW t \in Threads, NEW h, th'[t] = h, Holding(h)'
    PROVE  Holding(th[t])'
  BY DEF Holding, Owning, Stopped, OpenEffect

\* A goroutine without a claim holds nothing.
LEMMA Unclaimed ==
    ASSUME NEW t \in Threads, ~th'[t].claimed
    PROVE  Holding(th[t])'
<1>1. PICK h : h = th'[t]
  OBVIOUS
<1>2. Holding(h)'
  BY <1>1 DEF Holding, Owning
<1> QED BY <1>1, <1>2, HoldingAt

\* A goroutine that owns its action after the step owned it before.
LEMMA OwnedBefore ==
    ASSUME IInv, NEW t \in Threads, Step(t), ~Claim(t), NEW h, h = th[t], NEW r, r = th'[t],
           Owning(r)', h.claimed, r.act = h.act,
           r.ver = h.ver \/ run[h.act].version <= h.ver + 1
    PROVE  Owning(h) /\ run'[h.act].state = "running"
<1>1. h.act \in Actions /\ RowMove(t, h.act)
  BY StepActs, RowMoves DEF IInv, Act
<1>2. run'[h.act].state = "running" /\ run'[h.act].version <= r.ver + 1
  BY DEF Owning
<1>3. run[h.act].state = "running" /\ run'[h.act].version >= run[h.act].version
  BY <1>1, <1>2 DEF RowMove
<1>4. run[h.act].version \in Nat /\ run'[h.act].version \in Nat /\ h.ver \in Nat
  <2>1. IInv'
    BY NextKeeps DEF Next
  <2>2. run'[h.act] \in Row
    BY <1>1, <2>1 DEF IInv, TypeInv, TypeOK
  <2> QED BY <1>1, <2>2, RowTyped, ThreadTyped DEF IInv, Row, Thread
<1>5. run[h.act].version <= h.ver + 1
  <2>1. CASE r.ver = h.ver
    BY <1>2, <1>3, <1>4, <2>1
  <2> QED BY <2>1
<1> QED BY <1>2, <1>3, <1>5 DEF Owning

LEMMA OwnHolding ==
    ASSUME IInv, Control, Exclusive, Spans, NEW t \in Threads, Step(t)
    PROVE  Holding(th[t])'
<1>1. PICK h : h = th[t]
  OBVIOUS
<1>2. PICK r : r = th'[t]
  OBVIOUS
<1>3. /\ TypeInv /\ h \in Thread /\ Controlled(h) /\ Holding(h) /\ Act(t) = h.act
      /\ Owning(h) => OwnerJournal(h)
  BY <1>1, ThreadTyped DEF IInv, Control, Spans, Act, Exclusive, ThreadInv, PassInv
<1>4. PICK a \in Actions : a = h.act
  BY <1>3, StepActs
<1>5. StopsPersist /\ (Stopped(a) => Stopped(a)')
  BY <1>3, StepStops DEF StopsPersist, Stopped
<1>6. th \in [Threads -> Thread]
  BY <1>3 DEF TypeInv, TypeOK
<1>7. CASE ~r.claimed
  BY <1>2, <1>7, Unclaimed
<1>8. CASE Reserve(t)
  <2>1. r.act = h.act /\ r.pc \in {"rec_find", "obs_new"}
    <3>1. PICK x : x = [h EXCEPT !.pc = "rec_find", !.phase = "reconcile", !.from = "queued"]
      OBVIOUS
    <3>2. PICK y : y = [h EXCEPT !.pc = "obs_new", !.phase = "observe", !.from = "queued",
                                 !.mark = 0]
      OBVIOUS
    <3>3. r = x \/ r = y
      BY <1>1, <1>2, <1>6, <1>8, <3>1, <3>2 DEF Reserve
    <3>4. x.act = h.act /\ x.pc = "rec_find" /\ y.act = h.act /\ y.pc = "obs_new"
      BY <1>3, <3>1, <3>2 DEF Thread
    <3> QED BY <3>3, <3>4
  <2>2. run'[a].reserved
    <3>1. run[a] \in Row /\ run \in [Actions -> Row]
      BY <1>3, RowTyped DEF TypeInv, TypeOK
    <3>2. PICK row : row = [run[a] EXCEPT !.reserved = TRUE]
      OBVIOUS
    <3>3. row.reserved
      BY <3>1, <3>2 DEF Row
    <3>4. run' = [run EXCEPT ![a] = row]
      BY <1>3, <1>4, <1>8, <3>2 DEF Reserve
    <3> QED BY <3>1, <3>3, <3>4
  <2>3. Holding(r)'
    BY <1>4, <2>1, <2>2 DEF Holding
  <2> QED BY <1>2, <2>3, HoldingAt
<1>9. CASE CloseAttempt(t)
  <2>1. /\ r.claimed = h.claimed /\ r.act = h.act /\ r.ver = h.ver /\ r.phase = h.phase
        /\ r.res = h.res /\ r.att = h.att /\ h.pc = "close"
        /\ r.pc = IF HasEffects(h.res) THEN "effects"
                  ELSE IF h.res = "dependency" THEN "wait" ELSE "final"
    BY <1>1, <1>2, <1>3, <1>6, <1>9 DEF CloseAttempt, Goto, Thread, At
  <2>2. PICK c : c = CloseState(h.res)
    OBVIOUS
  <2>3. /\ UNCHANGED <<run, effect>>
        /\ h.att \in DOMAIN attempts'[a] => attempts'[a][h.att].state = c
        /\ c # "reconciling" /\ effect[a].att = h.att => ~OpenEffect(a)'
    BY <1>1, <1>3, <1>4, <1>9, <2>2, Closed
  <2>4. ASSUME Owning(r)', ~Stopped(a)'
        PROVE  /\ run'[a].reserved
               /\ r.pc = "effects" /\ r.res \in Sure /\ r.att \in DOMAIN attempts'[a] =>
                     attempts'[a][r.att].state = "succeeded"
               /\ r.pc = "final" /\ r.res \in Sure \cup {"failed"} => ~OpenEffect(a)'
    <3>1. Owning(h) /\ ~Stopped(a)
      BY <1>5, <2>1, <2>3, <2>4 DEF Owning
    <3>2. h.phase \in AttemptPhase /\ h.res \in Outcomes(h.phase)
      BY <1>3, <2>1 DEF Controlled
    <3>3. run'[a].reserved
      BY <1>3, <1>4, <2>3, <3>1, <3>2 DEF Holding, AttemptPhase
    <3>4. h.res \in Sure => c = "succeeded"
      BY <2>2, CloseStates DEF Sure
    <3>5. h.res \in Sure => HasEffects(h.res)
      BY DEF Sure, HasEffects
    <3>6. ASSUME h.res = "failed" PROVE ~OpenEffect(a)'
      <4>1. h.phase = "dispatch"
        BY <3>2, <3>6, Parts
      <4>2. effect[a].att = h.att
        BY <1>3, <1>4, <2>1, <3>1, <4>1 DEF OwnerJournal
      <4>3. c # "reconciling"
        BY <2>2, <3>6, CloseStates
      <4> QED BY <2>3, <4>2, <4>3
    <3> QED BY <2>1, <2>3, <3>3, <3>4, <3>5, <3>6
  <2>5. Holding(r)'
    BY <1>4, <2>1, <2>4 DEF Holding, Stopped, OpenEffect
  <2> QED BY <1>2, <2>5, HoldingAt
<1>10. CASE RecordEffects(t)
  <2>1. UNCHANGED <<run, attempts>> /\ effect'[a].att = h.att
        /\ th' = [th EXCEPT ![t] = [th[t] EXCEPT !.pc = "final"]]
    BY <1>1, <1>3, <1>4, <1>10, Recorded
  <2>2. /\ r.claimed = h.claimed /\ r.act = h.act /\ r.ver = h.ver /\ r.phase = h.phase
        /\ r.res = h.res /\ r.pc = "final" /\ h.pc = "effects"
    BY <1>1, <1>2, <1>3, <1>6, <1>10, <2>1 DEF RecordEffects, Thread, At
  <2>3. ASSUME Owning(r)', ~Stopped(a)'
        PROVE  run'[a].reserved /\ (r.res \in Sure \cup {"failed"} => ~OpenEffect(a)')
    <3>1. Owning(h) /\ ~Stopped(a)
      BY <1>5, <2>1, <2>2, <2>3 DEF Owning
    <3>2. h.phase \in AttemptPhase /\ h.res # "failed"
      BY <1>3, <2>2 DEF Controlled, HasEffects
    <3>3. run'[a].reserved
      BY <1>3, <1>4, <2>1, <3>1, <3>2 DEF Holding, AttemptPhase
    <3>4. h.res \in Sure /\ h.att \in DOMAIN attempts[a] => attempts[a][h.att].state = "succeeded"
      BY <1>3, <1>4, <2>2, <3>1 DEF Holding
    <3> QED BY <2>1, <2>2, <3>2, <3>3, <3>4 DEF OpenEffect
  <2>4. Holding(r)'
    BY <1>4, <2>2, <2>3 DEF Holding, Stopped, OpenEffect
  <2> QED BY <1>2, <2>4, HoldingAt
<1>11. CASE r.claimed /\ ~Reserve(t) /\ ~CloseAttempt(t) /\ ~RecordEffects(t)
  <2>1. Onward(h, r)
    BY <1>1, <1>2, <1>3, <1>11, StepOnward
  <2>2. ASSUME Owning(r)', ~Stopped(r.act)', r.phase # "none" PROVE run'[r.act].reserved
    <3>1. /\ h.phase # "none" /\ h.claimed /\ r.act = h.act
          /\ r.ver = h.ver \/ run[h.act].version <= h.ver + 1
      BY <1>11, <2>1, <2>2 DEF Onward
    <3>2. ~Claim(t)
      BY <1>1, <1>3, <3>1 DEF Claim, At, Controlled
    <3>3. Owning(h) /\ run'[a].state = "running"
      BY <1>1, <1>2, <1>4, <2>2, <3>1, <3>2, OwnedBefore
    <3>4. ~Stopped(a)
      BY <1>4, <1>5, <2>2, <3>1 DEF Stopped
    <3>5. run[a].reserved
      BY <1>3, <1>4, <3>1, <3>3, <3>4 DEF Holding
    <3>6. RowKeys(a)
      BY <1>3, StepKeys
    <3> QED BY <1>4, <3>1, <3>3, <3>5, <3>6 DEF RowKeys, Retaining
  <2>3. Holding(r)'
    BY <2>1, <2>2 DEF Holding, Onward, Stopped
  <2> QED BY <1>2, <2>3, HoldingAt
<1> QED BY <1>7, <1>8, <1>9, <1>10, <1>11

\* Who names nothing new, loses no keys and whose stop stays holds on.
LEMMA HoldingKept ==
    ASSUME NEW u \in Threads, NEW h, h = th[u], th'[u] = h, Holding(h), NEW a, a = h.act,
           Owning(h)' =>
              /\ Owning(h) /\ (run[a].reserved => run'[a].reserved)
              /\ Stopped(a) => Stopped(a)'
              /\ OpenEffect(a)' => OpenEffect(a)
              /\ h.att \in DOMAIN attempts'[a] =>
                    /\ h.att \in DOMAIN attempts[a]
                    /\ attempts[a][h.att].state = "succeeded" =>
                          attempts'[a][h.att].state = "succeeded"
    PROVE  Holding(th[u])'
<1>1. ASSUME Owning(h)', ~Stopped(a)'
      PROVE  /\ h.phase # "none" => run'[a].reserved
             /\ h.pc = "effects" /\ h.res \in Sure /\ h.att \in DOMAIN attempts'[a] =>
                   attempts'[a][h.att].state = "succeeded"
             /\ h.pc = "final" /\ h.res \in Sure \cup {"failed"} => ~OpenEffect(a)'
  BY <1>1 DEF Holding
<1>2. Holding(h)'
  BY <1>1 DEF Holding, Stopped, OpenEffect
<1> QED BY <1>2, HoldingAt

LEMMA OtherHolding ==
    ASSUME IInv, Control, Bounds, Guarded, Exclusive, Spans, NEW t \in Threads, Step(t),
           NEW u \in Threads \ {t}
    PROVE  Holding(th[u])'
<1>1. PICK h : h = th[u]
  OBVIOUS
<1>2. /\ TypeInv /\ Controlled(h) /\ Holding(h) /\ h \in Thread
      /\ h.pc # "idle" => h.act \in Actions
  BY <1>1, ThreadTyped DEF IInv, Control, Spans
<1>3. th'[u] = h
  BY <1>1, <1>2, StepNames
<1>4. StopsPersist
  BY <1>2, StepStops
<1>5. CASE h.pc = "idle"
  <2>1. ~h.claimed
    BY <1>2, <1>5 DEF Controlled, Outside
  <2> QED BY <1>3, <2>1, Unclaimed
<1>6. CASE h.pc # "idle" /\ h.act # Act(t)
  <2>1. PICK a \in Actions : a = h.act
    BY <1>2, <1>6
  <2>2. /\ run'[a] = run[a] /\ attempts'[a] = attempts[a] /\ effect'[a] = effect[a]
        /\ overdue' = overdue
    BY <1>2, <1>6, <2>1, StepElsewhere DEF Elsewhere
  <2>3. Owning(h)' => Owning(h)
    BY <2>1, <2>2 DEF Owning
  <2>4. (Stopped(a) => Stopped(a)') /\ (OpenEffect(a)' => OpenEffect(a))
    BY <2>2 DEF Stopped, OpenEffect
  <2> QED BY <1>1, <1>2, <1>3, <2>1, <2>2, <2>3, <2>4, HoldingKept
<1>7. CASE h.pc # "idle" /\ h.act = Act(t)
  <2>1. PICK a \in Actions : a = h.act
    BY <1>2, <1>7
  <2>2. Stopped(a) => Stopped(a)'
    BY <1>4 DEF StopsPersist, Stopped
  <2>3. ASSUME Owning(h)'
        PROVE  /\ Owning(h) /\ (run[a].reserved => run'[a].reserved)
               /\ OpenEffect(a)' => OpenEffect(a)
               /\ h.att \in DOMAIN attempts'[a] =>
                     /\ h.att \in DOMAIN attempts[a]
                     /\ attempts[a][h.att].state = "succeeded" =>
                           attempts'[a][h.att].state = "succeeded"
    <3>1. Owning(h) /\ ~Owns(t) /\ ~Free(th[t])
      BY <1>1, <1>7, <2>3, RowSeen
    <3>2. Passive(a)
      BY <1>2, <3>1, Owners, JournalMoves
    <3>3. RowKeys(a) /\ run'[a].state = "running"
      BY <1>2, <2>1, <2>3, StepKeys DEF Owning
    <3>4. run[a].reserved => run'[a].reserved
      BY <3>3 DEF RowKeys, Retaining
    <3>5. h.att \in DOMAIN attempts'[a] => h.att \in DOMAIN attempts[a]
      <4>1. IInv'
        BY NextKeeps DEF Next
      <4>2. attempts'[a] \in Seq(Attempt)
        BY <4>1 DEF IInv, TypeInv, TypeOK
      <4>3. 0 \notin DOMAIN attempts'[a]
        BY <4>2
      <4> QED BY <1>1, <1>7, <2>1, <4>3 DEF Bounds, Known, Act
    <3> QED BY <3>1, <3>2, <3>4, <3>5 DEF Passive
  <2> QED BY <1>1, <1>2, <1>3, <2>1, <2>2, <2>3, HoldingKept
<1> QED BY <1>5, <1>6, <1>7

\* A claimed verdict that ends an action that was not stopped is a sure one, or
\* a failure.
LEMMA EndsSurely ==
    ASSUME NEW t \in Threads, FinalOwned(t), ~Stopped(Act(t)), OwnedTarget(t) \in Terminal
    PROVE  th[t].res \in Sure \cup {"failed"}
  BY DEF OwnedTarget, Terminal, Sure, FinalOwned

\* What leaves an effect open, or opens it, has the keys; only what settles it
\* gives them up.
LEMMA StepSpanned ==
    ASSUME IInv, Control, Bounds, Guarded, Exclusive, Exclusive', Spans, NEW t \in Threads,
           Step(t), NEW b \in Actions
    PROVE  Spanned(b)'
<1> SUFFICES ASSUME ~Stopped(b)', OpenEffect(b)' PROVE run'[b].reserved
  BY DEF Spanned
<1>1. TypeInv /\ Controlled(th[t]) /\ (Free(th[t]) => Stopped(Act(t))) /\ Holding(th[t])
      /\ Spanned(b)
  BY DEF IInv, Control, Spans
<1>2. ~Stopped(b)
  BY <1>1, StepStops DEF StopsPersist, Stopped
<1>3. run[b].reserved
  <2>1. CASE Passive(b)
    BY <1>1, <1>2, <2>1 DEF Passive, Spanned
  <2>2. CASE b = Act(t) /\ (PrepareDispatch(t) \/ CloseAttempt(t) \/ RecordEffects(t))
    <3>1. Owns(t)
      BY <1>1, <1>2, <2>2, Owners
    <3>2. th[t].phase # "none"
      <4>1. CASE PrepareDispatch(t)
        BY <4>1, Owners
      <4>2. CASE CloseAttempt(t) \/ RecordEffects(t)
        <5>1. th[t].pc \in Closing
          BY <4>2 DEF CloseAttempt, RecordEffects, At, Closing
        <5> QED BY <1>1, <5>1, Parts DEF Controlled
      <4> QED BY <2>2, <4>1, <4>2
    <3> QED BY <1>1, <1>2, <2>2, <3>1, <3>2 DEF Owns, Holding, Act
  <2> QED BY <1>1, <2>1, <2>2, JournalMoves
<1>4. run'[b].state \in ActionState
  <2>1. IInv'
    BY NextKeeps DEF Next
  <2>2. run'[b] \in Row
    BY <2>1 DEF IInv, TypeInv, TypeOK
  <2> QED BY <2>2 DEF Row
<1>5. CASE run'[b].state \in Retaining
  BY <1>1, <1>3, <1>5, StepKeys DEF RowKeys
<1>6. CASE run'[b].state \in Unstarted
  <2>1. ActionInv(b)'
    BY DEF Exclusive
  <2>2. ~OpenEffect(b)'
    BY <1>6, <2>1 DEF ActionInv, Clean, Stopped
  <2> QED BY <2>2
<1>7. CASE run'[b].state \in Terminal
  <2>1. run[b].state \in Retaining
    BY <1>3 DEF IInv, KeysRetained
  <2>2. run[b].state # run'[b].state /\ RowMove(t, b)
    BY <1>1, <1>7, <2>1, RowMoves DEF Retaining, Terminal
  <2>3. b = Act(t) /\ (Wait(t) \/ FinalOwned(t) \/ FinalFree(t))
    BY <1>7, <2>2 DEF RowMove
  <2>4. ~Wait(t)
    BY <1>1, <1>7, <2>3, Targets DEF Terminal
  <2>5. ~FinalFree(t)
    <3>1. FinalFree(t) => Free(th[t])
      BY <1>1 DEF FinalFree, At, Controlled, Closing, Free
    <3> QED BY <1>1, <1>2, <2>3, <3>1
  <2>6. FinalOwned(t) /\ th[t].res \in Sure \cup {"failed"}
    BY <1>1, <1>2, <1>7, <2>3, <2>4, <2>5, Targets, EndsSurely
  <2>7. th[t].pc = "final" /\ Owns(t)
    BY <1>1, <2>6, Owners DEF FinalOwned, At
  <2>8. ~OpenEffect(b)
    BY <1>1, <1>2, <2>3, <2>6, <2>7 DEF Owns, Holding, Act
  <2>9. UNCHANGED <<attempts, effect>>
    BY <2>6 DEF FinalOwned
  <2> QED BY <2>8, <2>9 DEF OpenEffect
<1> QED BY <1>4, <1>5, <1>6, <1>7 DEF ActionState, Retaining, Unstarted, Terminal

\* The keys survive what is not a step of a goroutine.
KeysKept == \A b \in Actions : run[b].reserved => run'[b].reserved

LEMMA QuietSpanned ==
    ASSUME StopsPersist, KeysKept, NEW b \in Actions, Spanned(b), OpenEffect(b)' => OpenEffect(b)
    PROVE  Spanned(b)'
  BY DEF StopsPersist, KeysKept, Spanned, Stopped

LEMMA IdleSpans ==
    ASSUME StopsPersist, KeysKept, \A u \in Threads : ~th'[u].claimed,
           \A b \in Actions : Spanned(b) /\ (OpenEffect(b)' => OpenEffect(b))
    PROVE  Spans'
  BY Unclaimed, QuietSpanned DEF Spans

LEMMA DriftSpans ==
    ASSUME IInv, IInv', Control, Spans, RowsDrift, StopsPersist, KeysKept,
           UNCHANGED <<attempts, effect, th>>
    PROVE  Spans'
<1>1. \A b : OpenEffect(b)' = OpenEffect(b)
  BY DEF OpenEffect
<1>2. ASSUME NEW b \in Actions PROVE Spanned(b)'
  BY <1>1, QuietSpanned DEF Spans
<1>3. ASSUME NEW u \in Threads PROVE Holding(th[u])'
  <2>1. PICK h : h = th[u]
    OBVIOUS
  <2>2. /\ th'[u] = h /\ Holding(h) /\ Controlled(h) /\ h \in Thread
        /\ h.pc # "idle" => h.act \in Actions
    BY <2>1, ThreadTyped DEF Spans, Control, IInv
  <2>3. CASE h.pc = "idle"
    BY <2>2, <2>3, Unclaimed DEF Controlled, Outside
  <2>4. CASE h.pc # "idle"
    <3>1. PICK a \in Actions : a = h.act
      BY <2>2, <2>4
    <3>2. ASSUME Owning(h)' PROVE Owning(h)
      <4>1. run[a].version \in Nat /\ run'[a].version \in Nat /\ h.ver \in Nat
        <5>1. run[a] \in Row /\ run'[a] \in Row
          BY DEF IInv, TypeInv, TypeOK
        <5> QED BY <2>2, <5>1 DEF Row, Thread
      <4>2. h.claimed /\ run'[a].state = "running" /\ run'[a].version <= h.ver + 1
        BY <3>1, <3>2 DEF Owning
      <4>3. run[a].state = "running" /\ run'[a].version >= run[a].version
        BY <4>2 DEF RowsDrift, RowDrift
      <4>4. run[a].version <= h.ver + 1
        BY <4>1, <4>2, <4>3
      <4> QED BY <3>1, <4>2, <4>3, <4>4 DEF Owning
    <3>3. (run[a].reserved => run'[a].reserved) /\ (Stopped(a) => Stopped(a)')
      BY DEF KeysKept, StopsPersist, Stopped
    <3> QED BY <1>1, <2>1, <2>2, <3>1, <3>2, <3>3, HoldingKept
  <2> QED BY <2>3, <2>4
<1> QED BY <1>2, <1>3 DEF Spans

LEMMA FinalizedKeys ==
    ASSUME NEW row, "reserved" \in DOMAIN row, NEW s
    PROVE  /\ Finalized(row, s).reserved = row.reserved
           /\ Recovered(row).reserved = row.reserved
           /\ "reserved" \in DOMAIN Finalized(row, s)
           /\ "reserved" \in DOMAIN Recovered(row)
<1>1. PICK v : v = row.version + 1
  OBVIOUS
<1>2. PICK f : f = [row EXCEPT !.state = s, !.version = v, !.by = None, !.expired = FALSE]
  OBVIOUS
<1>3. PICK r : r = [row EXCEPT !.state = "reconciling", !.version = v, !.by = None,
                               !.expired = FALSE]
  OBVIOUS
<1>4. /\ f.reserved = row.reserved /\ r.reserved = row.reserved
      /\ "reserved" \in DOMAIN f /\ "reserved" \in DOMAIN r
  BY <1>2, <1>3
<1> QED BY <1>1, <1>2, <1>3, <1>4 DEF Finalized, Recovered

LEMMA DriftKeys ==
    ASSUME TypeInv,
           \/ RecoverExpired \/ FinalizeCancelled \/ FinalizeDeadline
           \/ \E a \in Actions : RequestCancellation(a) \/ CancelLinked(a) \/ LeaseExpires(a)
    PROVE  KeysKept
<1>1. \A b \in Actions : run[b] \in Row /\ "reserved" \in DOMAIN run[b]
  BY RowTyped DEF Row
<1>2. ASSUME NEW a \in Actions, NEW row, run' = [run EXCEPT ![a] = row],
             row.reserved = run[a].reserved
      PROVE  KeysKept
  <2>1. \A b \in Actions : run'[b] = IF b = a THEN row ELSE run[b]
    BY <1>2 DEF TypeInv, TypeOK
  <2> QED BY <1>2, <2>1 DEF KeysKept
<1>3. CASE RecoverExpired
  <2>1. \A b \in Actions : run'[b] = run[b] \/ run'[b] = Recovered(run[b])
    BY <1>3 DEF RecoverExpired
  <2> QED BY <1>1, <2>1, FinalizedKeys DEF KeysKept
<1>4. CASE FinalizeCancelled
  <2>1. \A b \in Actions : run'[b] = run[b] \/ run'[b] = Finalized(run[b], "cancelled")
    BY <1>4 DEF FinalizeCancelled, FinalizeCancelledRows
  <2> QED BY <1>1, <2>1, FinalizedKeys DEF KeysKept
<1>5. CASE FinalizeDeadline
  <2>1. \A b \in Actions : run'[b] = run[b] \/ run'[b] = Finalized(run[b], "deadline_exceeded")
    BY <1>5 DEF FinalizeDeadline, FinalizeDeadlineRows
  <2> QED BY <1>1, <2>1, FinalizedKeys DEF KeysKept
<1>6. ASSUME NEW a \in Actions, RequestCancellation(a) PROVE KeysKept
  <2>1. PICK v : v = run[a].version + 1
    OBVIOUS
  <2>2. PICK row : row = [run[a] EXCEPT !.cancel = TRUE, !.version = v]
    OBVIOUS
  <2>3. run' = [run EXCEPT ![a] = row]
    BY <1>6, <2>1, <2>2 DEF RequestCancellation
  <2>4. row.reserved = run[a].reserved
    BY <1>1, <2>2 DEF Row
  <2> QED BY <1>2, <2>3, <2>4
<1>7. ASSUME NEW a \in Actions, CancelLinked(a) PROVE KeysKept
  <2>1. PICK row : row = [run[a] EXCEPT !.cancel = TRUE]
    OBVIOUS
  <2>2. run' = [run EXCEPT ![a] = row] /\ row.reserved = run[a].reserved
    BY <1>1, <1>7, <2>1 DEF CancelLinked, Row
  <2> QED BY <1>2, <2>2
<1>8. ASSUME NEW a \in Actions, LeaseExpires(a) PROVE KeysKept
  <2>1. PICK row : row = [run[a] EXCEPT !.expired = TRUE]
    OBVIOUS
  <2>2. run' = [run EXCEPT ![a] = row] /\ row.reserved = run[a].reserved
    BY <1>1, <1>8, <2>1 DEF LeaseExpires, Row
  <2> QED BY <1>2, <2>2
<1> QED BY <1>3, <1>4, <1>5, <1>6, <1>7, <1>8

LEMMA RecoverSpans ==
    ASSUME IInv, Control, Up, Spans, Recover
    PROVE  Spans'
<1>1. TypeInv /\ ClaimedIffRunning
  BY DEF IInv
<1>2. StopsPersist
  BY <1>1, ProcessMoves, MovedLives
<1>3. \A u \in Threads : ~th'[u].claimed
  <2>1. \A u \in Threads : th'[u] = th[u] /\ th[u].pc = "idle" /\ Controlled(th[u])
    BY DEF Recover, Up, Control
  <2> QED BY <2>1 DEF Controlled, Outside
<1>4. KeysKept
  <2>1. ASSUME NEW b \in Actions PROVE run'[b].reserved = run[b].reserved
    <3>1. "reserved" \in DOMAIN run[b]
      BY <1>1, RowTyped DEF Row
    <3> DEFINE x == IF HasClaim(run[b]) THEN Recovered(run[b]) ELSE run[b]
               y == IF x.state \in Unstarted /\ x.cancel THEN Finalized(x, "cancelled") ELSE x
               z == IF y.state \in Unstarted /\ ~y.cancel /\ overdue[b]
                    THEN Finalized(y, "deadline_exceeded") ELSE y
    <3>2. run'[b] = z
      BY DEF Recover, RecoverRunningRows, FinalizeCancelledRows, FinalizeDeadlineRows
    <3>3. x.reserved = run[b].reserved /\ "reserved" \in DOMAIN x
      BY <3>1, FinalizedKeys
    <3> HIDE DEF x
    <3>4. y.reserved = x.reserved /\ "reserved" \in DOMAIN y
      BY <3>3, FinalizedKeys
    <3> HIDE DEF y
    <3>5. z.reserved = y.reserved
      BY <3>4, FinalizedKeys
    <3> HIDE DEF z
    <3> QED BY <3>2, <3>3, <3>4, <3>5
  <2> QED BY <2>1 DEF KeysKept
<1>5. ASSUME NEW b \in Actions PROVE OpenEffect(b)' => OpenEffect(b)
  <2>1. attempts'[b] = [n \in DOMAIN attempts[b] |->
                          IF attempts[b][n].state = "running"
                          THEN [attempts[b][n] EXCEPT !.state = "reconciling"]
                          ELSE attempts[b][n]]
    BY DEF Recover, RecoverRunningAttempts
  <2>2. \A n \in DOMAIN attempts[b] : attempts[b][n] \in Attempt
    BY <1>1, AttemptsTyped
  <2>3. ASSUME NEW n \in DOMAIN attempts[b]
        PROVE  attempts'[b][n].state = IF attempts[b][n].state = "running" THEN "reconciling"
                                       ELSE attempts[b][n].state
    BY <2>1, <2>2 DEF Attempt
  <2>4. DOMAIN attempts'[b] = DOMAIN attempts[b] /\ effect' = effect
    BY <2>1 DEF Recover
  <2> QED BY <2>3, <2>4 DEF OpenEffect
<1> QED BY <1>2, <1>3, <1>4, <1>5, IdleSpans DEF Spans

LEMMA PickSpans ==
    ASSUME IInv, Control, Spans, NEW t \in Threads, NEW a \in Actions, Pick(t, a) \/ PickById(t, a)
    PROVE  Spans'
<1>1. UNCHANGED <<run, attempts, effect, overdue>> /\ TypeInv
  BY DEF Pick, PickById, IInv
<1>2. /\ \A u \in Threads \ {t} : th'[u] = th[u]
      /\ ~th'[t].claimed
  <2>1. ASSUME NEW r, r.claimed = Idle.claimed, th' = [th EXCEPT ![t] = r]
        PROVE  /\ \A u \in Threads \ {t} : th'[u] = th[u]
               /\ ~th'[t].claimed
    BY <1>1, <2>1, OthersStay DEF Idle
  <2>2. CASE Pick(t, a)
    <3>1. PICK p, q, f : th' = [th EXCEPT ![t] = [Idle EXCEPT !.pc = p, !.act = a,
              !.ver = run[a].version, !.from = run[a].state, !.mark = run[a].marker,
              !.phase = q, !.keep = f]]
      BY <2>2 DEF Pick
    <3>2. PICK r : r = [Idle EXCEPT !.pc = p, !.act = a, !.ver = run[a].version,
                           !.from = run[a].state, !.mark = run[a].marker, !.phase = q, !.keep = f]
      OBVIOUS
    <3>3. r.claimed = Idle.claimed
      BY <3>2 DEF Idle
    <3> QED BY <2>1, <3>1, <3>2, <3>3
  <2>3. CASE PickById(t, a)
    <3>1. PICK r : r = [Idle EXCEPT !.pc = "claim", !.act = a, !.ver = run[a].version]
      OBVIOUS
    <3>2. r.claimed = Idle.claimed
      BY <3>1 DEF Idle
    <3> QED BY <2>1, <2>3, <3>1, <3>2 DEF PickById
  <2> QED BY <2>2, <2>3
<1>3. ASSUME NEW u \in Threads \ {t} PROVE Holding(th[u])'
  <2>1. PICK h : h = th[u]
    OBVIOUS
  <2>2. Holding(h)'
    BY <1>1, <2>1 DEF Spans, Holding, Owning, Stopped, OpenEffect
  <2> QED BY <1>2, <2>1, <2>2, HoldingAt
<1>4. Holding(th[t])'
  BY <1>2, Unclaimed
<1>5. ASSUME NEW b \in Actions PROVE Spanned(b)'
  BY <1>1 DEF Spans, Spanned, Stopped, OpenEffect
<1> QED BY <1>3, <1>4, <1>5 DEF Spans

LEMMA InitSpans == Init => Spans
<1> SUFFICES ASSUME Init PROVE Spans
  OBVIOUS
<1>1. ASSUME NEW t \in Threads PROVE Holding(th[t])
  <2>1. ~th[t].claimed
    BY DEF Init, Idle
  <2> QED BY <2>1 DEF Holding, Owning
<1>2. ASSUME NEW a \in Actions PROVE Spanned(a)
  <2>1. DOMAIN attempts[a] = {}
    BY DEF Init
  <2> QED BY <2>1 DEF Spanned, OpenEffect
<1> QED BY <1>1, <1>2 DEF Spans

LEMMA NextSpans ==
    ASSUME IInv, Control, Bounds, Guarded, Up, Exclusive, Exclusive', Spans, [Next]_vars
    PROVE  Spans'
<1>1. IInv' /\ TypeInv /\ ClaimedIffRunning
  BY NextKeeps DEF IInv
<1>2. ASSUME UNCHANGED <<run, attempts, effect, th>>, StopsPersist
      PROVE  Spans'
  <2>1. RowsDrift
    <3>1. ASSUME NEW a \in Actions PROVE RowDrift(run[a], run[a])
      <4>1. run[a] \in Row
        BY <1>1, RowTyped
      <4>2. run[a].version \in Nat
        BY <4>1 DEF Row
      <4> QED BY <4>2 DEF RowDrift
    <3> QED BY <1>2, <3>1 DEF RowsDrift
  <2>2. KeysKept
    BY <1>2 DEF KeysKept
  <2> QED BY <1>1, <1>2, <2>1, <2>2, DriftSpans
<1>3. CASE UNCHANGED vars
  <2>1. UNCHANGED <<run, attempts, effect, th, overdue>>
    BY <1>3 DEF vars
  <2> QED BY <1>2, <2>1 DEF StopsPersist
<1>4. CASE Crash
  <2>1. StopsPersist /\ KeysKept
    BY <1>1, <1>4, ProcessMoves, MovedLives DEF Crash, KeysKept
  <2>2. UNCHANGED <<attempts, effect>> /\ \A u \in Threads : ~th'[u].claimed
    BY <1>4 DEF Crash, Idle
  <2>3. \A b \in Actions : Spanned(b) /\ (OpenEffect(b)' => OpenEffect(b))
    BY <2>2 DEF Spans, OpenEffect
  <2> QED BY <2>1, <2>2, <2>3, IdleSpans
<1>5. CASE Recover
  BY <1>5, RecoverSpans
<1>6. CASE RecoverExpired \/ FinalizeCancelled \/ FinalizeDeadline
  <2>1. RowsDrift /\ KeysKept
    BY <1>1, <1>6, RowsDrifting, DriftKeys
  <2>2. StopsPersist
    BY <1>1, <1>6, ProcessMoves, MovedLives
  <2>3. UNCHANGED <<attempts, effect, th>>
    BY <1>6 DEF RecoverExpired, FinalizeCancelled, FinalizeDeadline
  <2> QED BY <1>1, <2>1, <2>2, <2>3, DriftSpans
<1>7. ASSUME NEW a \in Actions, RequestCancellation(a) \/ CancelLinked(a) \/ LeaseExpires(a)
      PROVE  Spans'
  <2>1. RowsDrift /\ KeysKept
    BY <1>1, <1>7, RowsDrifting, DriftKeys
  <2>2. StopsPersist
    BY <1>1, <1>7, CallerMoves
  <2>3. UNCHANGED <<attempts, effect, th>>
    BY <1>7 DEF RequestCancellation, CancelLinked, LeaseExpires
  <2> QED BY <1>1, <2>1, <2>2, <2>3, DriftSpans
<1>8. ASSUME NEW a \in Actions, Land(a) \/ Drop(a) \/ Establish(a) \/ DeadlinePasses(a)
      PROVE  Spans'
  <2>1. StopsPersist
    BY <1>1, <1>8, CallerMoves
  <2>2. UNCHANGED <<run, attempts, effect, th>>
    BY <1>8 DEF Land, Drop, Establish, DeadlinePasses
  <2> QED BY <1>2, <2>1, <2>2
<1>9. CASE Environment
  BY <1>4, <1>5, <1>6, <1>7, <1>8, <1>9 DEF Environment
<1>10. ASSUME NEW t \in Threads, Step(t)
       PROVE  Spans'
  <2>1. ASSUME NEW u \in Threads PROVE Holding(th[u])'
    BY <1>10, OwnHolding, OtherHolding
  <2>2. ASSUME NEW b \in Actions PROVE Spanned(b)'
    BY <1>10, StepSpanned
  <2> QED BY <2>1, <2>2 DEF Spans
<1>11. ASSUME NEW t \in Threads, NEW a \in Actions, Pick(t, a) \/ PickById(t, a)
       PROVE  Spans'
  BY <1>11, PickSpans
<1> QED BY <1>3, <1>9, <1>10, <1>11 DEF Next

\* Nothing is stopped but on a request, or by a deadline that it has.
Unasked ==
    \A a \in Actions : (run[a].cancel => a \in Cancellable) /\ (overdue[a] => a \in Deadlined)

\* No stop comes from nowhere.
StopsAsked ==
    \A b \in Actions : /\ run'[b].cancel => run[b].cancel \/ b \in Cancellable
                       /\ overdue'[b] => overdue[b] \/ b \in Deadlined

LEMMA NextAsked ==
    ASSUME IInv, Control, [Next]_vars
    PROVE  StopsAsked
<1>1. TypeInv /\ ClaimedIffRunning /\ \A b \in Actions : run[b] \in Row
  BY RowTyped DEF IInv
<1>2. run \in [Actions -> Row] /\ overdue \in [Actions -> BOOLEAN]
  BY <1>1 DEF TypeInv, TypeOK
<1>3. Moved => StopsAsked
  BY DEF Moved, StopsAsked
<1>4. UNCHANGED <<run, overdue>> => StopsAsked
  BY DEF StopsAsked
<1>5. CASE Crash \/ Recover \/ RecoverExpired \/ FinalizeCancelled \/ FinalizeDeadline
  BY <1>1, <1>3, <1>5, ProcessMoves
<1>6. ASSUME NEW a \in Actions, RequestCancellation(a) \/ CancelLinked(a)
      PROVE  StopsAsked
  <2>1. \A b \in Actions \ {a} : run'[b] = run[b]
    BY <1>2, <1>6 DEF RequestCancellation, CancelLinked
  <2>2. a \in Cancellable /\ overdue' = overdue
    BY <1>6 DEF RequestCancellation, CancelLinked
  <2> QED BY <2>1, <2>2 DEF StopsAsked
<1>7. ASSUME NEW a \in Actions, DeadlinePasses(a) PROVE StopsAsked
  <2>1. \A b \in Actions \ {a} : overdue'[b] = overdue[b]
    BY <1>2, <1>7 DEF DeadlinePasses
  <2>2. a \in Deadlined /\ run' = run
    BY <1>7 DEF DeadlinePasses
  <2> QED BY <2>1, <2>2 DEF StopsAsked
<1>8. ASSUME NEW a \in Actions, LeaseExpires(a) PROVE StopsAsked
  <2>1. PICK row : row = [run[a] EXCEPT !.expired = TRUE]
    OBVIOUS
  <2>2. run' = [run EXCEPT ![a] = row] /\ overdue' = overdue
    BY <1>8, <2>1 DEF LeaseExpires
  <2>3. row.cancel = run[a].cancel
    BY <1>1, <2>1 DEF Row
  <2>4. \A b \in Actions : run'[b].cancel = run[b].cancel
    BY <1>2, <2>2, <2>3
  <2> QED BY <2>2, <2>4 DEF StopsAsked
<1>9. ASSUME NEW a \in Actions, Land(a) \/ Drop(a) \/ Establish(a) PROVE StopsAsked
  BY <1>4, <1>9 DEF Land, Drop, Establish
<1>10. ASSUME NEW t \in Threads, Step(t) PROVE StopsAsked
  <2>1. CASE ~HoldUnhandled(t)
    BY <1>1, <1>3, <1>10, <2>1, StepMoves
  <2>2. CASE HoldUnhandled(t)
    <3>1. PICK a \in Actions : a = Act(t)
      BY <1>1, <1>10, StepActs
    <3>2. PICK n : n = unresolvedEffectCount(a, FALSE)
      OBVIOUS
    <3>3. PICK row : row = Outcome(run[a], "needs_review", n)
      OBVIOUS
    <3>4. row.cancel = run[a].cancel
      BY <1>1, <3>3, OutcomeStop
    <3>5. run' = [run EXCEPT ![a] = row] /\ overdue' = overdue
      BY <2>2, <3>1, <3>2, <3>3 DEF HoldUnhandled
    <3>6. \A b \in Actions : run'[b].cancel = run[b].cancel
      BY <1>2, <3>4, <3>5
    <3> QED BY <3>5, <3>6 DEF StopsAsked
  <2> QED BY <2>1, <2>2
<1>11. ASSUME NEW t \in Threads, NEW a \in Actions, Pick(t, a) \/ PickById(t, a)
       PROVE  StopsAsked
  BY <1>4, <1>11 DEF Pick, PickById
<1>12. CASE UNCHANGED vars
  BY <1>4, <1>12 DEF vars
<1> QED BY <1>5, <1>6, <1>7, <1>8, <1>9, <1>10, <1>11, <1>12 DEF Next, Environment

LEMMA AlwaysUnasked == Spec => []Unasked
<1>1. Init => Unasked
  BY DEF Init, Unasked
<1>2. IInv /\ Control /\ Unasked /\ [Next]_vars => Unasked'
  BY NextAsked DEF StopsAsked, Unasked
<1> QED BY <1>1, <1>2, AlwaysControl, PTL DEF Spec

LEMMA AlwaysSpans ==
    ASSUME Overlap = {}, "reserve" \notin FaultPoints
    PROVE  Spec => []Spans
<1>1. Init => Spans
  BY InitSpans
<1>2. /\ IInv /\ Control /\ Bounds /\ Guarded /\ Up /\ Exclusive /\ Exclusive' /\ Spans
      /\ [Next]_vars
      => Spans'
  BY NextSpans
<1> QED BY <1>1, <1>2, AlwaysControl, AlwaysGuarded, AlwaysExclusive, PTL DEF Spec

\* Until an action is stopped its durable keys outlive every claim, crash, hold
\* and barrier release that leaves its effect open, so that nothing conflicting
\* starts over it; it ends only once its effect is settled.
THEOREM KeysUntilSettled ==
    ASSUME Overlap = {}, "reserve" \notin FaultPoints
    PROVE  Spec => [](\A a \in Actions : ~Stopped(a) /\ OpenEffect(a) => run[a].reserved)
<1>1. Spans => \A a \in Actions : ~Stopped(a) /\ OpenEffect(a) => run[a].reserved
  BY DEF Spans, Spanned
<1> QED BY <1>1, AlwaysSpans, PTL

\* "Reservations remain durable and local while an effect is unresolved"
\* (execution.go:1203), where nobody cancels and no deadline passes. The code
\* keeps it only under the two other assumptions: a reservation that fails, or
\* meets the keys of a conflicting action, drops the keys with the effect open.
THEOREM KeysSpanEffect ==
    ASSUME Overlap = {}, "reserve" \notin FaultPoints, Cancellable = {}, Deadlined = {}
    PROVE  Spec => []ReservationSpansEffect
<1>1. Spans /\ Unasked => ReservationSpansEffect
  BY DEF Spans, Unasked, Spanned, Stopped, ReservationSpansEffect
<1> QED BY <1>1, AlwaysSpans, AlwaysUnasked, PTL
=============================================================================
