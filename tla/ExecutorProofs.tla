--------------------------- MODULE ExecutorProofs ---------------------------
(***************************************************************************)
(* Proofs about Executor for every set of actions, goroutines and executors *)
(* and every value of the bounds: types, exclusive ownership of a claim,    *)
(* the claim columns, disjoint reservations and finality of terminal rows.  *)
(*                                                                         *)
(* Every action but three is shown to satisfy StepInv: a goroutine gains no *)
(* claim and every row is either kept or released.  StepInv preserves IInv  *)
(* once and for all; Claim, Reserve and ReconcileRefresh do something else  *)
(* and are shown to preserve IInv one by one.                               *)
(***************************************************************************)
EXTENDS Executor, SequenceTheorems, TLAPS

-----------------------------------------------------------------------------
(* The inductive invariant *)

\* A goroutine that is not idle works on an action.
Working == \A t \in Threads : th[t].pc # "idle" => th[t].act \in Actions

TypeInv == TypeOK /\ Working

\* A row that left the retaining states has given its keys up.
KeysRetained ==
    \A a \in Actions : run[a].reserved => run[a].state \in Retaining

\* A claim is never newer than its row, and older once the row left running.
Generations ==
    \A t \in Threads : th[t].claimed =>
        /\ th[t].act \in Actions
        /\ th[t].ver <= run[th[t].act].version
        /\ run[th[t].act].state # "running" => th[t].ver < run[th[t].act].version

\* Two claims of one action are at least two versions apart: one for leaving
\* running, one for the next claim.  A fence spans only two versions.
Apart ==
    \A t, u \in Threads :
        t # u /\ th[t].claimed /\ th[u].claimed /\ th[t].act = th[u].act
        => th[t].ver + 2 <= th[u].ver \/ th[u].ver + 2 <= th[t].ver

IInv ==
    /\ TypeInv
    /\ KeysRetained
    /\ ClaimedIffRunning
    /\ ReservationsDisjoint
    /\ Generations
    /\ Apart

-----------------------------------------------------------------------------
(* What an ordinary step does *)

\* r is a well-formed next state of thread t that claims nothing new.
Good(t, r) ==
    /\ r \in Thread
    /\ r.pc # "idle" => r.act \in Actions
    /\ r.claimed => th[t].claimed /\ r.act = th[t].act /\ r.ver = th[t].ver

ThreadsKeep ==
    \A t \in Threads : th'[t].claimed =>
        th[t].claimed /\ th'[t].act = th[t].act /\ th'[t].ver = th[t].ver

\* A row keeps its claim and its keys ...
Kept(old, new) ==
    /\ new.version >= old.version
    /\ new.state = old.state /\ new.by = old.by /\ new.reserved = old.reserved

\* ... or gives the claim up under a new version.
Released(old, new) ==
    /\ new.version > old.version
    /\ new.state # "running" /\ new.by = None
    /\ new.reserved => old.reserved /\ new.state \in Retaining

RowStep(old, new) == new \in Row /\ (Kept(old, new) \/ Released(old, new))

Final(old, new) == old.state \in Terminal => new.state = old.state

RowsStep == \A a \in Actions : RowStep(run[a], run'[a])

\* The step is the hold of an executor without the handler of the action.
Held(a) == \E t \in Threads : HoldUnhandled(t) /\ Act(t) = a

\* Terminal rows stay as they are, unless they are held.
RowsFinal ==
    \A a \in Actions : \/ Final(run[a], run'[a])
                       \/ run'[a].state = "needs_review" /\ Held(a)

StepInv == TypeInv' /\ ThreadsKeep /\ RowsStep /\ RowsFinal

-----------------------------------------------------------------------------
(* Types and states of a goroutine *)

\* The strings the actions write are members of the vocabularies.
LEMMA Words ==
    /\ \A p \in {"idle", "claim", "local", "reserve", "wait", "obs_new", "observe",
                 "prepare", "before", "dispatch", "close", "effects", "final",
                 "finish", "rec_find", "rec_refresh", "rec_active", "rec_att",
                 "reconcile", "defer", "rel_intent", "rel_mark", "rel_resolve",
                 "bg"} : p \in PC
    /\ \A v \in {"none", "satisfied", "unproven", "dependency", "review", "stopped",
                 "applied", "uncertain", "failed", "safe", "unresolved", "retry"} :
            v \in Verdict
    /\ \A s \in {"queued", "running", "waiting_dependency", "reconciling",
                 "needs_review", "succeeded", "failed", "cancelled",
                 "deadline_exceeded"} : s \in ActionState
    /\ \A p \in {"observe", "dispatch", "reconcile"} : p \in AttemptPhase
    /\ \A s \in {"running", "reconciling", "succeeded", "failed", "cancelled"} :
            s \in AttemptState
  BY DEF PC, JournalPoint, Verdict, ActionState, AttemptPhase, AttemptState

\* The record of a goroutine is well formed.
LEMMA ThreadTyped ==
    ASSUME TypeInv, NEW t \in Threads
    PROVE  th[t] \in Thread /\ (th[t].pc # "idle" => th[t].act \in Actions)
  BY DEF TypeInv, TypeOK, Working

\* An action_runs row is well formed.
LEMMA RowTyped ==
    ASSUME TypeInv, NEW a \in Actions
    PROVE  run[a] \in Row
  BY DEF TypeInv, TypeOK

\* A step that leaves the rows alone keeps all of them.
LEMMA RowsKept ==
    ASSUME TypeInv, UNCHANGED run
    PROVE  RowsStep /\ RowsFinal
  BY RowTyped DEF RowsStep, RowStep, Kept, RowsFinal, Final, Row

\* Replacing the state of one goroutine by a good one.
LEMMA ThreadSet ==
    ASSUME TypeInv, NEW t \in Threads, NEW r, Good(t, r), th' = [th EXCEPT ![t] = r]
    PROVE  th' \in [Threads -> Thread] /\ Working' /\ ThreadsKeep
<1>1. th \in [Threads -> Thread] /\ Working
  BY DEF TypeInv, TypeOK
<1>2. \A u \in Threads : th'[u] = IF u = t THEN r ELSE th[u]
  BY <1>1
<1> QED BY <1>1, <1>2 DEF Good, Working, ThreadsKeep

\* A step that changes the state of one goroutine and nothing else.
LEMMA ThreadStep ==
    ASSUME TypeInv, NEW t \in Threads, NEW r, Good(t, r), th' = [th EXCEPT ![t] = r],
           UNCHANGED <<run, attempts, effect, overdue, world, local, fallback, up, spent>>
    PROVE  StepInv
<1>1. th' \in [Threads -> Thread] /\ Working' /\ ThreadsKeep
  BY ThreadSet
<1>2. TypeInv'
  BY <1>1 DEF TypeInv, TypeOK
<1> QED BY <1>1, <1>2, RowsKept DEF StepInv

\* Returning from claimAndProcess is good.
LEMMA IdleGood ==
    ASSUME NEW t \in Threads
    PROVE  Good(t, Idle)
  BY Words DEF Idle, Thread, Good

\* Going on to release the in-process keys is good.
LEMMA FinishingGood ==
    ASSUME TypeInv, NEW t \in Threads, th[t].pc # "idle", NEW keep \in BOOLEAN
    PROVE  Good(t, Finishing(t, keep))
  BY Words, ThreadTyped DEF Finishing, Act, Thread, Idle, Good

\* Leaving the processing of an action, with or without a barrier, is good.
LEMMA LeaveGood ==
    ASSUME TypeInv, NEW t \in Threads, th[t].pc # "idle", NEW keep \in BOOLEAN
    PROVE  Good(t, Leave(t, keep))
<1> DEFINE r == [th[t] EXCEPT !.pc = "rel_intent", !.back = "finish", !.keep = keep,
                              !.ierr = FALSE, !.res = "none"]
<1>1. th[t] \in Thread /\ th[t].act \in Actions
  BY ThreadTyped
<1>2. r \in Thread /\ r.act = th[t].act /\ r.ver = th[t].ver
  BY <1>1, Words DEF Thread
<1>3. r.claimed = th[t].claimed
  BY <1>1 DEF Thread
<1>4. Good(t, r)
  <2> HIDE DEF r
  <2> QED BY <1>1, <1>2, <1>3 DEF Good
<1> QED BY <1>4, IdleGood, FinishingGood DEF Leave

-----------------------------------------------------------------------------
(* The journal and the in-process state *)

\* Creating an attempt.
LEMMA SeqAppend ==
    ASSUME NEW s \in Seq(Attempt), NEW x \in Attempt
    PROVE  Append(s, x) \in Seq(Attempt)
  OBVIOUS

\* Replacing one attempt of a journal by a well-formed one, or none.
LEMMA SeqSet ==
    ASSUME NEW s \in Seq(Attempt), NEW n, NEW x,
           n \in DOMAIN s => x \in Attempt
    PROVE  [s EXCEPT ![n] = x] \in Seq(Attempt)
<1>1. CASE n \in DOMAIN s
  BY <1>1, ExceptSeq
<1>2. CASE n \notin DOMAIN s
  <2>1. [s EXCEPT ![n] = x] = s
    BY <1>2
  <2> QED BY <2>1
<1> QED BY <1>1, <1>2

\* Updating the state of an attempt.
LEMMA SeqState ==
    ASSUME NEW s \in Seq(Attempt), NEW n, NEW x \in AttemptState
    PROVE  [s EXCEPT ![n].state = x] \in Seq(Attempt)
<1>1. n \in DOMAIN s => [s[n] EXCEPT !.state = x] \in Attempt
  <2> SUFFICES ASSUME n \in DOMAIN s PROVE [s[n] EXCEPT !.state = x] \in Attempt
    OBVIOUS
  <2>1. s[n] \in Attempt
    OBVIOUS
  <2> QED BY <2>1 DEF Attempt
<1> QED BY <1>1, SeqSet

\* Writing the retry intent into an attempt.
LEMMA SeqIntent ==
    ASSUME NEW s \in Seq(Attempt), NEW n
    PROVE  [s EXCEPT ![n].intent = TRUE] \in Seq(Attempt)
<1>1. n \in DOMAIN s => [s[n] EXCEPT !.intent = TRUE] \in Attempt
  <2> SUFFICES ASSUME n \in DOMAIN s PROVE [s[n] EXCEPT !.intent = TRUE] \in Attempt
    OBVIOUS
  <2>1. s[n] \in Attempt
    OBVIOUS
  <2> QED BY <2>1 DEF Attempt
<1> QED BY <1>1, SeqSet

\* Closing an attempt that was a barrier.
LEMMA SeqReleased ==
    ASSUME NEW s \in Seq(Attempt), NEW n
    PROVE  [s EXCEPT ![n] = [@ EXCEPT !.state = "reconciling", !.intent = FALSE]] \in Seq(Attempt)
<1>1. n \in DOMAIN s => [s[n] EXCEPT !.state = "reconciling", !.intent = FALSE] \in Attempt
  <2> SUFFICES ASSUME n \in DOMAIN s
               PROVE  [s[n] EXCEPT !.state = "reconciling", !.intent = FALSE] \in Attempt
    OBVIOUS
  <2>1. s[n] \in Attempt
    OBVIOUS
  <2> QED BY <2>1, Words DEF Attempt
<1> QED BY <1>1, SeqSet

\* Counting a failed transaction.
LEMMA FaultTyped ==
    ASSUME TypeInv, UseFault
    PROVE  spent' \in [faults : Nat, stalls : Nat, crashes : Nat]
<1>1. spent \in [faults : Nat, stalls : Nat, crashes : Nat]
  BY DEF TypeInv, TypeOK
<1> QED BY <1>1 DEF UseFault

\* The executor of a goroutine.
LEMMA ExecutorTyped ==
    ASSUME NEW t \in Threads
    PROVE  ExecOf(t) \in Executors
  BY ConstantsAssumption DEF ExecOf

\* The in-process reservation maps.
LEMMA LocalTyped ==
    ASSUME TypeInv
    PROVE  local \in [Executors -> SUBSET Actions]
  BY DEF TypeInv, TypeOK

\* The upstream state.
LEMMA WorldTyped ==
    ASSUME TypeInv
    PROVE  world \in [Actions -> [inflight : Nat, applied : Nat, foreign : BOOLEAN]]
  BY DEF TypeInv, TypeOK

-----------------------------------------------------------------------------
(* Steps that write no row *)

\* Pick: RunOnce picks a due row.
LEMMA PickStep ==
    ASSUME TypeInv, NEW t \in Threads, NEW a \in Actions, Pick(t, a)
    PROVE  StepInv
<1> DEFINE free == run[a].state = "reconciling" /\ Stopped(a)
           r == [Idle EXCEPT !.pc = IF free THEN "rec_find" ELSE "claim",
                             !.act = a, !.ver = run[a].version,
                             !.from = run[a].state, !.mark = run[a].marker,
                             !.phase = IF free THEN "reconcile" ELSE "none",
                             !.keep = free]
<1>1. run[a] \in Row
  BY RowTyped
<1>2. free \in BOOLEAN
  OBVIOUS
<1>3. th' = [th EXCEPT ![t] = r]
  BY DEF Pick
<1>4. Good(t, r)
  <2> HIDE DEF free
  <2> QED BY <1>1, <1>2, Words DEF Thread, Idle, Row, Good
<1>5. UNCHANGED <<run, attempts, effect, overdue, world, local, fallback, up, spent>>
  BY DEF Pick
<1> HIDE DEF r
<1> QED BY <1>3, <1>4, <1>5, ThreadStep

\* PickById: RunAction picks a row that is not claimable.
LEMMA PickByIdStep ==
    ASSUME TypeInv, NEW t \in Threads, NEW a \in Actions, PickById(t, a)
    PROVE  StepInv
<1> DEFINE r == [Idle EXCEPT !.pc = "claim", !.act = a, !.ver = run[a].version]
<1>1. th[t] \in Thread
  BY ThreadTyped DEF PickById, At
<1>2. Good(t, r)
  BY <1>1, Words, IdleGood, RowTyped DEF Thread, Idle, Row, Good
<1>3. th' = [th EXCEPT ![t] = r]
  BY DEF PickById
<1>4. UNCHANGED <<run, attempts, effect, overdue, world, local, fallback, up, spent>>
  BY DEF PickById
<1> HIDE DEF r
<1> QED BY <1>2, <1>3, <1>4, ThreadStep

\* BeforeDispatchCancelled: a cancelled context stops the dispatch.
LEMMA BeforeDispatchCancelledStep ==
    ASSUME TypeInv, NEW t \in Threads, BeforeDispatchCancelled(t)
    PROVE  StepInv
<1> DEFINE r == [th[t] EXCEPT !.pc = "close", !.res = "stopped"]
<1>1. th[t] \in Thread /\ th[t].pc # "idle" /\ th[t].act \in Actions
  BY ThreadTyped DEF BeforeDispatchCancelled, At
<1>2. Good(t, r)
  BY <1>1, Words, IdleGood DEF Thread, Idle, Good
<1>3. th' = [th EXCEPT ![t] = r]
  BY DEF BeforeDispatchCancelled
<1>4. UNCHANGED <<run, attempts, effect, overdue, world, local, fallback, up, spent>>
  BY DEF BeforeDispatchCancelled
<1> HIDE DEF r
<1> QED BY <1>2, <1>3, <1>4, ThreadStep

\* FinalNotStopped: a stop without a stop marker leaves the row.
LEMMA FinalNotStoppedStep ==
    ASSUME TypeInv, NEW t \in Threads, FinalNotStopped(t)
    PROVE  StepInv
<1> DEFINE r == Leave(t, FALSE)
<1>1. th[t] \in Thread /\ th[t].pc # "idle" /\ th[t].act \in Actions
  BY ThreadTyped DEF FinalNotStopped, At
<1>2. Good(t, r)
  BY <1>1, Words, IdleGood, LeaveGood DEF Thread, Idle, Good
<1>3. th' = [th EXCEPT ![t] = r]
  BY DEF FinalNotStopped
<1>4. UNCHANGED <<run, attempts, effect, overdue, world, local, fallback, up, spent>>
  BY DEF FinalNotStopped
<1> HIDE DEF r
<1> QED BY <1>2, <1>3, <1>4, ThreadStep

\* ReconcileActive: the look for a live dispatch.
LEMMA ReconcileActiveStep ==
    ASSUME TypeInv, NEW t \in Threads, ReconcileActive(t)
    PROVE  StepInv
<1> DEFINE r == [th[t] EXCEPT !.pc = IF ActiveDispatches(Act(t)) # {} THEN "defer" ELSE "rec_att"]
<1>1. th[t] \in Thread /\ th[t].pc # "idle" /\ th[t].act \in Actions
  BY ThreadTyped DEF ReconcileActive, At
<1>2. Good(t, r)
  BY <1>1, Words, IdleGood DEF Thread, Idle, Good
<1>3. th' = [th EXCEPT ![t] = r]
  BY DEF ReconcileActive, Goto
<1>4. UNCHANGED <<run, attempts, effect, overdue, world, local, fallback, up, spent>>
  BY DEF ReconcileActive
<1> HIDE DEF r
<1> QED BY <1>2, <1>3, <1>4, ThreadStep

\* BarrierRetry: the background retry.
LEMMA BarrierRetryStep ==
    ASSUME TypeInv, NEW t \in Threads, BarrierRetry(t)
    PROVE  StepInv
<1> DEFINE r == [th[t] EXCEPT !.pc = "rel_intent"]
<1>1. th[t] \in Thread /\ th[t].pc # "idle" /\ th[t].act \in Actions
  BY ThreadTyped DEF BarrierRetry, At
<1>2. Good(t, r)
  BY <1>1, Words, IdleGood DEF Thread, Idle, Good
<1>3. th' = [th EXCEPT ![t] = r]
  BY DEF BarrierRetry, Goto
<1>4. UNCHANGED <<run, attempts, effect, overdue, world, local, fallback, up, spent>>
  BY DEF BarrierRetry
<1> HIDE DEF r
<1> QED BY <1>2, <1>3, <1>4, ThreadStep

\* BarrierGiveUp: the end of the background retries.
LEMMA BarrierGiveUpStep ==
    ASSUME TypeInv, NEW t \in Threads, BarrierGiveUp(t)
    PROVE  StepInv
<1> DEFINE r == Idle
<1>1. th[t] \in Thread /\ th[t].pc # "idle" /\ th[t].act \in Actions
  BY ThreadTyped DEF BarrierGiveUp, At
<1>2. Good(t, r)
  BY <1>1, Words, IdleGood DEF Thread, Idle, Good
<1>3. th' = [th EXCEPT ![t] = r]
  BY DEF BarrierGiveUp
<1>4. UNCHANGED <<run, attempts, effect, overdue, world, local, fallback, up, spent>>
  BY DEF BarrierGiveUp
<1> HIDE DEF r
<1> QED BY <1>2, <1>3, <1>4, ThreadStep

\* FenceLost: a lost claim ends the pass.
LEMMA FenceLostStep ==
    ASSUME TypeInv, NEW t \in Threads, FenceLost(t)
    PROVE  StepInv
<1> DEFINE r == Leave(t, FALSE)
<1>1. th[t] \in Thread /\ th[t].pc # "idle" /\ th[t].act \in Actions
  BY ThreadTyped DEF FenceLost, At, Fenced
<1>2. Good(t, r)
  BY <1>1, Words, IdleGood, LeaveGood DEF Thread, Idle, Good
<1>3. th' = [th EXCEPT ![t] = r]
  BY DEF FenceLost
<1>4. UNCHANGED <<run, attempts, effect, overdue, world, local, fallback, up, spent>>
  BY DEF FenceLost
<1> HIDE DEF r
<1> QED BY <1>2, <1>3, <1>4, ThreadStep

\* JournalFull: a refused insert ends the pass.
LEMMA JournalFullStep ==
    ASSUME TypeInv, NEW t \in Threads, JournalFull(t)
    PROVE  StepInv
<1> DEFINE r == Leave(t, ~th[t].claimed)
<1>1. th[t] \in Thread /\ th[t].pc # "idle" /\ th[t].act \in Actions
  BY ThreadTyped DEF JournalFull, At
<1>2. Good(t, r)
  BY <1>1, Words, IdleGood, LeaveGood DEF Thread, Idle, Good
<1>3. th' = [th EXCEPT ![t] = r]
  BY DEF JournalFull
<1>4. UNCHANGED <<run, attempts, effect, overdue, world, local, fallback, up, spent>>
  BY DEF JournalFull
<1> HIDE DEF r
<1> QED BY <1>2, <1>3, <1>4, ThreadStep

\* BeforeDispatch: the last check before the handler.
LEMMA BeforeDispatchStep ==
    ASSUME TypeInv, NEW t \in Threads, BeforeDispatch(t)
    PROVE  StepInv
<1> DEFINE r == IF Stopped(Act(t)) THEN [th[t] EXCEPT !.pc = "close", !.res = "stopped"]
             ELSE IF StillOwner(t) THEN [th[t] EXCEPT !.pc = "dispatch"] ELSE Leave(t, FALSE)
<1>1. th[t] \in Thread /\ th[t].pc # "idle" /\ th[t].act \in Actions
  BY ThreadTyped DEF BeforeDispatch, At
<1>2. Good(t, r)
  BY <1>1, Words, IdleGood, LeaveGood DEF Thread, Idle, Good
<1>3. th' = [th EXCEPT ![t] = r]
  BY DEF BeforeDispatch
<1>4. UNCHANGED <<run, attempts, effect, overdue, world, local, fallback, up, spent>>
  BY DEF BeforeDispatch
<1> HIDE DEF r
<1> QED BY <1>2, <1>3, <1>4, ThreadStep

\* EffectsRefused: refused effects.
LEMMA EffectsRefusedStep ==
    ASSUME TypeInv, NEW t \in Threads, EffectsRefused(t)
    PROVE  StepInv
<1> DEFINE r == IF th[t].phase = "reconcile" THEN [th[t] EXCEPT !.pc = "close", !.res = "review"]
             ELSE Leave(t, FALSE)
<1>1. th[t] \in Thread /\ th[t].pc # "idle" /\ th[t].act \in Actions
  BY ThreadTyped DEF EffectsRefused, At
<1>2. Good(t, r)
  BY <1>1, Words, IdleGood, LeaveGood DEF Thread, Idle, Good
<1>3. th' = [th EXCEPT ![t] = r]
  BY DEF EffectsRefused
<1>4. UNCHANGED <<run, attempts, effect, overdue, world, local, fallback, up, spent>>
  BY DEF EffectsRefused
<1> HIDE DEF r
<1> QED BY <1>2, <1>3, <1>4, ThreadStep

\* JournalFails: a failed transaction.
LEMMA JournalFailsStep ==
    ASSUME TypeInv, NEW t \in Threads, JournalFails(t)
    PROVE  StepInv
<1> DEFINE keep == \/ ~th[t].claimed
                   \/ /\ th[t].pc = "final" /\ th[t].phase = "observe"
                      /\ th[t].res \in {"unproven", "review"}
           r == IF th[t].pc = "effects" /\ th[t].phase = "reconcile"
                THEN [th[t] EXCEPT !.pc = "close", !.res = "review"]
                ELSE Leave(t, keep)
<1>1. th[t] \in Thread /\ th[t].pc # "idle" /\ th[t].act \in Actions
  BY ThreadTyped DEF JournalFails, Fenced
<1>2. keep \in BOOLEAN
  OBVIOUS
<1>3. th' = [th EXCEPT ![t] = r]
  BY DEF JournalFails
<1>4. Good(t, r)
  <2>1. Good(t, [th[t] EXCEPT !.pc = "close", !.res = "review"])
    BY <1>1, Words DEF Thread, Good
  <2> HIDE DEF keep
  <2> QED BY <1>1, <1>2, <2>1, LeaveGood
<1> HIDE DEF r
<1>5. th' \in [Threads -> Thread] /\ Working' /\ ThreadsKeep
  BY <1>3, <1>4, ThreadSet
<1>6. UNCHANGED <<run, attempts, effect, overdue, world, local, fallback, up>>
  BY DEF JournalFails
<1>7. spent' \in [faults : Nat, stalls : Nat, crashes : Nat]
  BY FaultTyped DEF JournalFails
<1>9. TypeInv'
  BY <1>5, <1>6, <1>7 DEF TypeInv, TypeOK
<1> QED BY <1>9, RowsKept, <1>5, <1>6, <1>7 DEF StepInv

\* AcquireReservations: in-process keys.
LEMMA AcquireReservationsStep ==
    ASSUME TypeInv, NEW t \in Threads, AcquireReservations(t)
    PROVE  StepInv
<1> DEFINE r == [th[t] EXCEPT !.pc = IF LocalConflict(t) THEN "wait" ELSE "reserve"]
<1>1. th[t] \in Thread /\ th[t].act \in Actions
  BY ThreadTyped DEF AcquireReservations, At
<1>2. Good(t, r)
  BY <1>1, Words DEF Thread, Good
<1>3. th' = [th EXCEPT ![t] = r]
  BY DEF AcquireReservations, Goto
<1> HIDE DEF r
<1>4. th' \in [Threads -> Thread] /\ Working' /\ ThreadsKeep
  BY <1>2, <1>3, ThreadSet
<1>5. local' \in [Executors -> SUBSET Actions]
  BY <1>1, LocalTyped, ExecutorTyped DEF AcquireReservations, Act
<1>6. UNCHANGED <<run, attempts, effect, overdue, world, fallback, up, spent>>
  BY DEF AcquireReservations
<1>9. TypeInv'
  BY <1>4, <1>5, <1>6 DEF TypeInv, TypeOK
<1> QED BY <1>9, RowsKept, <1>4, <1>5, <1>6 DEF StepInv

\* ReserveRefused: a refused reservation.
LEMMA ReserveRefusedStep ==
    ASSUME TypeInv, NEW t \in Threads, ReserveRefused(t)
    PROVE  StepInv
<1> DEFINE r == [th[t] EXCEPT !.pc = "wait"]
<1>1. th[t] \in Thread /\ th[t].act \in Actions
  BY ThreadTyped DEF ReserveRefused, At
<1>2. Good(t, r)
  BY <1>1, Words DEF Thread, Good
<1>3. th' = [th EXCEPT ![t] = r]
  BY DEF ReserveRefused, Goto
<1> HIDE DEF r
<1>4. th' \in [Threads -> Thread] /\ Working' /\ ThreadsKeep
  BY <1>2, <1>3, ThreadSet
<1>5. local' \in [Executors -> SUBSET Actions]
  BY DEF ReserveRefused, ExecOf, Act, TypeInv, TypeOK
<1>6. spent' \in [faults : Nat, stalls : Nat, crashes : Nat]
  <2>1. UseFault \/ UNCHANGED spent
    BY DEF ReserveRefused
  <2> QED BY <2>1, FaultTyped DEF TypeInv, TypeOK
<1>7. UNCHANGED <<run, attempts, effect, overdue, world, fallback, up>>
  BY DEF ReserveRefused
<1>9. TypeInv'
  BY <1>4, <1>5, <1>6, <1>7 DEF TypeInv, TypeOK
<1> QED BY <1>9, RowsKept, <1>4, <1>5, <1>6, <1>7 DEF StepInv

\* Finish: giving the in-process keys back.
LEMMA FinishStep ==
    ASSUME TypeInv, NEW t \in Threads, Finish(t)
    PROVE  StepInv
<1>1. th' = [th EXCEPT ![t] = Idle] /\ Idle.pc = "idle"
  BY DEF Finish, Idle
<1>2. th' \in [Threads -> Thread] /\ Working' /\ ThreadsKeep
  BY <1>1, IdleGood, ThreadSet
<1>3. local' \in [Executors -> SUBSET Actions]
  BY DEF Finish, ExecOf, Act, TypeInv, TypeOK
<1>4. UNCHANGED <<run, attempts, effect, overdue, world, fallback, up, spent>>
  BY DEF Finish
<1>9. TypeInv'
  BY <1>2, <1>3, <1>4 DEF TypeInv, TypeOK
<1> QED BY <1>9, RowsKept, <1>2, <1>3, <1>4 DEF StepInv

\* ObserveReturn: the observation returns.
LEMMA ObserveReturnStep ==
    ASSUME TypeInv, NEW t \in Threads, ObserveReturn(t)
    PROVE  StepInv
<1>1. th[t] \in Thread /\ th[t].act \in Actions
  BY ThreadTyped DEF ObserveReturn, At
<1>2. PICK v \in ObserveVerdict(Act(t)) :
        th' = [th EXCEPT ![t] = IF v = "needs_action"
                                THEN [th[t] EXCEPT !.pc = "prepare"]
                                ELSE [th[t] EXCEPT !.pc = "close", !.res = v]]
  BY DEF ObserveReturn
<1>3. v = "needs_action" \/ v \in Verdict
  BY <1>2, Words DEF ObserveVerdict
<1> DEFINE r == IF v = "needs_action" THEN [th[t] EXCEPT !.pc = "prepare"]
                ELSE [th[t] EXCEPT !.pc = "close", !.res = v]
<1>4. Good(t, r)
  BY <1>1, <1>3, Words DEF Thread, Good
<1>5. th' = [th EXCEPT ![t] = r]
  BY <1>2
<1>6. UNCHANGED <<run, attempts, effect, overdue, world, local, fallback, up, spent>>
  BY DEF ObserveReturn
<1> HIDE DEF r
<1> QED BY <1>4, <1>5, <1>6, ThreadStep

\* DispatchSend: the handler sends its mutation.
LEMMA DispatchSendStep ==
    ASSUME TypeInv, NEW t \in Threads, DispatchSend(t)
    PROVE  StepInv
<1> DEFINE r == [th[t] EXCEPT !.sent = TRUE]
<1>1. th[t] \in Thread /\ th[t].act \in Actions
  BY ThreadTyped DEF DispatchSend, At
<1>2. Good(t, r)
  BY <1>1 DEF Thread, Good
<1>3. th' = [th EXCEPT ![t] = r]
  BY DEF DispatchSend
<1> HIDE DEF r
<1>4. th' \in [Threads -> Thread] /\ Working' /\ ThreadsKeep
  BY <1>2, <1>3, ThreadSet
<1>5. world' \in [Actions -> [inflight : Nat, applied : Nat, foreign : BOOLEAN]]
  BY <1>1, WorldTyped DEF DispatchSend, Act
<1>6. UNCHANGED <<run, attempts, effect, overdue, local, fallback, up, spent>>
  BY DEF DispatchSend
<1>9. TypeInv'
  BY <1>4, <1>5, <1>6 DEF TypeInv, TypeOK
<1> QED BY <1>9, RowsKept, <1>4, <1>5, <1>6 DEF StepInv

\* DispatchReturn: the dispatch returns.
LEMMA DispatchReturnStep ==
    ASSUME TypeInv, NEW t \in Threads, DispatchReturn(t)
    PROVE  StepInv
<1>1. th[t] \in Thread /\ th[t].act \in Actions
  BY ThreadTyped DEF DispatchReturn, At
<1>2. PICK v \in DispatchVerdict(t) :
        th' = [th EXCEPT ![t].pc = "close", ![t].res = v, ![t].sent = FALSE]
  BY DEF DispatchReturn
<1>3. v \in Verdict
  BY <1>2, Words DEF DispatchVerdict
<1> DEFINE r == [th[t] EXCEPT !.pc = "close", !.res = v, !.sent = FALSE]
<1>4. Good(t, r)
  BY <1>1, <1>3, Words DEF Thread, Good
<1>5. th' = [th EXCEPT ![t] = r]
  BY <1>2
<1>6. UNCHANGED <<run, attempts, effect, overdue, world, local, fallback, up, spent>>
  BY DEF DispatchReturn
<1> HIDE DEF r
<1> QED BY <1>4, <1>5, <1>6, ThreadStep

\* ReconcileReturn: the reconciliation returns.
LEMMA ReconcileReturnStep ==
    ASSUME TypeInv, NEW t \in Threads, ReconcileReturn(t)
    PROVE  StepInv
<1>1. th[t] \in Thread /\ th[t].act \in Actions
  BY ThreadTyped DEF ReconcileReturn, At
<1>2. PICK v \in ReconcileVerdict(Act(t)) :
        th' = [th EXCEPT ![t].pc = "close", ![t].res = v]
  BY DEF ReconcileReturn
<1>3. v \in Verdict
  BY <1>2, Words DEF ReconcileVerdict
<1> DEFINE r == [th[t] EXCEPT !.pc = "close", !.res = v]
<1>4. Good(t, r)
  BY <1>1, <1>3, Words DEF Thread, Good
<1>5. th' = [th EXCEPT ![t] = r]
  BY <1>2
<1>6. UNCHANGED <<run, attempts, effect, overdue, world, local, fallback, up, spent>>
  BY DEF ReconcileReturn
<1> HIDE DEF r
<1> QED BY <1>4, <1>5, <1>6, ThreadStep

\* The journal of an action is a sequence of attempts.
LEMMA AttemptsTyped ==
    ASSUME TypeInv, NEW a \in Actions
    PROVE  attempts[a] \in Seq(Attempt) /\ DOMAIN attempts[a] \subseteq Nat
<1>1. attempts[a] \in Seq(Attempt)
  BY DEF TypeInv, TypeOK
<1> QED BY <1>1

\* Attempts known to have returned are attempt numbers.
LEMMA ReturnedTyped ==
    ASSUME TypeInv, NEW t \in Threads, th[t].pc # "idle"
    PROVE  ReturnedAttempts(t) \subseteq Nat
<1>1. th[t].mark \in Nat /\ th[t].act \in Actions
  BY ThreadTyped DEF Thread
<1> QED BY <1>1, AttemptsTyped DEF ReturnedAttempts, IntentAttempts, FallbackAttempts,
             ActiveDispatches, Act

\* ReconcileFind: the look for a returned dispatch.
LEMMA ReconcileFindStep ==
    ASSUME TypeInv, NEW t \in Threads, ReconcileFind(t)
    PROVE  StepInv
<1>1. th[t] \in Thread /\ th[t].pc # "idle" /\ th[t].act \in Actions
  BY ThreadTyped DEF ReconcileFind, At
<1>2. UNCHANGED <<run, attempts, effect, overdue, world, local, fallback, up, spent>>
  BY DEF ReconcileFind
<1>3. CASE th' = [th EXCEPT ![t].pc = "rec_active", ![t].mark = 0]
  <2> DEFINE r == [th[t] EXCEPT !.pc = "rec_active", !.mark = 0]
  <2>1. Good(t, r)
    BY <1>1, Words DEF Thread, Good
  <2>2. th' = [th EXCEPT ![t] = r]
    BY <1>3
  <2> HIDE DEF r
  <2> QED BY <2>1, <2>2, <1>2, ThreadStep
<1>4. ASSUME NEW n \in ReturnedAttempts(t),
             th' = [th EXCEPT ![t] = [th[t] EXCEPT !.pc = "rel_intent", !.back = "rec",
                                        !.mark = 0, !.att = n, !.ierr = FALSE]]
      PROVE  StepInv
  <2> DEFINE r == [th[t] EXCEPT !.pc = "rel_intent", !.back = "rec", !.mark = 0,
                                !.att = n, !.ierr = FALSE]
  <2>1. n \in Nat
    BY <1>1, ReturnedTyped
  <2>2. Good(t, r)
    BY <1>1, <2>1, Words DEF Thread, Good
  <2>3. th' = [th EXCEPT ![t] = r]
    BY <1>4
  <2> HIDE DEF r
  <2> QED BY <2>2, <2>3, <1>2, ThreadStep
<1> QED BY <1>3, <1>4 DEF ReconcileFind

\* ReconcileReuse: an open reconciliation is continued.
LEMMA ReconcileReuseStep ==
    ASSUME TypeInv, NEW t \in Threads, ReconcileReuse(t)
    PROVE  StepInv
<1>1. th[t] \in Thread /\ th[t].act \in Actions
  BY ThreadTyped DEF ReconcileReuse, At
<1>2. PICK n \in OpenReconciles(t) :
        th' = [th EXCEPT ![t].pc = "reconcile", ![t].att = n]
  BY DEF ReconcileReuse
<1>3. n \in Nat
  BY <1>1, <1>2, AttemptsTyped DEF OpenReconciles, Act
<1> DEFINE r == [th[t] EXCEPT !.pc = "reconcile", !.att = n]
<1>4. Good(t, r)
  BY <1>1, <1>3, Words DEF Thread, Good
<1>5. th' = [th EXCEPT ![t] = r]
  BY <1>2
<1>6. UNCHANGED <<run, attempts, effect, overdue, world, local, fallback, up, spent>>
  BY DEF ReconcileReuse
<1> HIDE DEF r
<1> QED BY <1>4, <1>5, <1>6, ThreadStep

\* What follows a barrier release is good.
LEMMA AfterReleaseGood ==
    ASSUME TypeInv, NEW t \in Threads, th[t].pc # "idle"
    PROVE  Good(t, AfterRelease(t))
<1>1. th[t] \in Thread /\ th[t].act \in Actions /\ th[t].keep \in BOOLEAN
  BY ThreadTyped DEF Thread
<1>2. Good(t, [th[t] EXCEPT !.pc = "rec_refresh"])
  BY <1>1, Words DEF Thread, Good
<1> QED BY <1>1, <1>2, IdleGood, FinishingGood DEF AfterRelease

\* The fallback registry and the entry of a goroutine.
LEMMA FallbackTyped ==
    ASSUME TypeInv, NEW t \in Threads, th[t].pc # "idle"
    PROVE  fallback \subseteq (Actions \X Nat) /\ Barrier(t) \in Actions \X Nat
<1>1. th[t].att \in Nat /\ th[t].act \in Actions
  BY ThreadTyped DEF Thread
<1> QED BY <1>1 DEF Barrier, Act, TypeInv, TypeOK

\* ReleaseResolved: nothing is left to release.
LEMMA ReleaseResolvedStep ==
    ASSUME TypeInv, NEW t \in Threads, ReleaseResolved(t)
    PROVE  StepInv
<1>1. th[t].pc # "idle"
  BY DEF ReleaseResolved, At
<1>2. th' = [th EXCEPT ![t] = AfterRelease(t)]
  BY DEF ReleaseResolved
<1>3. th' \in [Threads -> Thread] /\ Working' /\ ThreadsKeep
  BY <1>1, <1>2, AfterReleaseGood, ThreadSet
<1>4. fallback' \subseteq (Actions \X Nat)
  BY <1>1, FallbackTyped DEF ReleaseResolved
<1>5. UNCHANGED <<run, attempts, effect, overdue, world, local, up, spent>>
  BY DEF ReleaseResolved
<1>9. TypeInv'
  BY <1>3, <1>4, <1>5 DEF TypeInv, TypeOK
<1> QED BY <1>9, RowsKept, <1>3, <1>4, <1>5 DEF StepInv

\* ReleaseFailed: the release goes to the background.
LEMMA ReleaseFailedStep ==
    ASSUME TypeInv, NEW t \in Threads, ReleaseFailed(t)
    PROVE  StepInv
<1> DEFINE r == [Idle EXCEPT !.pc = "bg", !.act = Act(t), !.att = th[t].att, !.back = "bg"]
<1>1. th[t] \in Thread /\ th[t].act \in Actions /\ th[t].att \in Nat
  BY ThreadTyped DEF ReleaseFailed, At, Thread
<1>2. Good(t, r)
  BY <1>1, Words DEF Thread, Idle, Act, Good
<1>3. th' = [th EXCEPT ![t] = r]
  BY DEF ReleaseFailed
<1> HIDE DEF r
<1>4. th' \in [Threads -> Thread] /\ Working' /\ ThreadsKeep
  BY <1>2, <1>3, ThreadSet
<1>5. local' \in [Executors -> SUBSET Actions]
  BY LocalTyped, ExecutorTyped DEF ReleaseFailed
<1>6. UseFault \/ UNCHANGED spent
  BY DEF ReleaseFailed
<1>7. spent' \in [faults : Nat, stalls : Nat, crashes : Nat]
  BY <1>6, FaultTyped DEF TypeInv, TypeOK
<1>8. UNCHANGED <<run, attempts, effect, overdue, world, fallback, up>>
  BY DEF ReleaseFailed
<1>9. TypeInv'
  BY <1>4, <1>5, <1>7, <1>8 DEF TypeInv, TypeOK
<1> QED BY <1>9, RowsKept, <1>4, <1>5, <1>7, <1>8 DEF StepInv

\* A new attempt is well formed.
LEMMA NewAttemptTyped ==
    ASSUME NEW p \in AttemptPhase
    PROVE  NewAttempt(p) \in Attempt
  BY Words DEF NewAttempt, Attempt

\* Replacing the journal of one action.
LEMMA AttemptsSet ==
    ASSUME TypeInv, NEW a \in Actions, NEW s \in Seq(Attempt),
           attempts' = [attempts EXCEPT ![a] = s]
    PROVE  attempts' \in [Actions -> Seq(Attempt)]
  BY DEF TypeInv, TypeOK

\* The effect rows.
LEMMA EffectTyped ==
    ASSUME TypeInv
    PROVE  effect \in [Actions -> [state : EffectState, att : Nat]]
  BY DEF TypeInv, TypeOK

\* ObserveBegin: a new observation.
LEMMA ObserveBeginStep ==
    ASSUME TypeInv, NEW t \in Threads, ObserveBegin(t)
    PROVE  StepInv
<1> DEFINE a == Act(t)
           r == [th[t] EXCEPT !.pc = "observe", !.att = Len(attempts[a]) + 1]
<1>1. th[t] \in Thread /\ th[t].act \in Actions /\ a \in Actions
  BY ThreadTyped DEF ObserveBegin, At, Act
<1>2. attempts[a] \in Seq(Attempt) /\ Len(attempts[a]) + 1 \in Nat
  BY <1>1, AttemptsTyped
<1>3. Good(t, r)
  <2> HIDE DEF a
  <2> QED BY <1>1, <1>2, Words DEF Thread, Good
<1>4. th' = [th EXCEPT ![t] = r]
  BY DEF ObserveBegin
<1>5. th' \in [Threads -> Thread] /\ Working' /\ ThreadsKeep
  <2> HIDE DEF r
  <2> QED BY <1>3, <1>4, ThreadSet
<1>6. attempts' \in [Actions -> Seq(Attempt)]
  <2>1. Append(attempts[a], NewAttempt("observe")) \in Seq(Attempt)
    BY <1>2, NewAttemptTyped, Words, SeqAppend
  <2>2. attempts' = [attempts EXCEPT ![a] = Append(attempts[a], NewAttempt("observe"))]
    BY DEF ObserveBegin
  <2> HIDE DEF a
  <2> QED BY <1>1, <2>1, <2>2, AttemptsSet
<1>7. UNCHANGED <<run, effect, overdue, world, local, fallback, up, spent>>
  BY DEF ObserveBegin
<1>9. TypeInv'
  BY <1>5, <1>6, <1>7 DEF TypeInv, TypeOK
<1> QED BY <1>9, RowsKept, <1>5, <1>6, <1>7 DEF StepInv

\* ReconcileBegin: a new reconciliation.
LEMMA ReconcileBeginStep ==
    ASSUME TypeInv, NEW t \in Threads, ReconcileBegin(t)
    PROVE  StepInv
<1> DEFINE a == Act(t)
           r == [th[t] EXCEPT !.pc = "reconcile", !.att = Len(attempts[a]) + 1]
<1>1. th[t] \in Thread /\ th[t].act \in Actions /\ a \in Actions
  BY ThreadTyped DEF ReconcileBegin, At, Act
<1>2. attempts[a] \in Seq(Attempt) /\ Len(attempts[a]) + 1 \in Nat
  BY <1>1, AttemptsTyped
<1>3. Good(t, r)
  <2> HIDE DEF a
  <2> QED BY <1>1, <1>2, Words DEF Thread, Good
<1>4. th' = [th EXCEPT ![t] = r]
  BY DEF ReconcileBegin
<1>5. th' \in [Threads -> Thread] /\ Working' /\ ThreadsKeep
  <2> HIDE DEF r
  <2> QED BY <1>3, <1>4, ThreadSet
<1>6. attempts' \in [Actions -> Seq(Attempt)]
  <2>1. Append(attempts[a], NewAttempt("reconcile")) \in Seq(Attempt)
    BY <1>2, NewAttemptTyped, Words, SeqAppend
  <2>2. attempts' = [attempts EXCEPT ![a] = Append(attempts[a], NewAttempt("reconcile"))]
    BY DEF ReconcileBegin
  <2> HIDE DEF a
  <2> QED BY <1>1, <2>1, <2>2, AttemptsSet
<1>7. UNCHANGED <<run, effect, overdue, world, local, fallback, up, spent>>
  BY DEF ReconcileBegin
<1>9. TypeInv'
  BY <1>5, <1>6, <1>7 DEF TypeInv, TypeOK
<1> QED BY <1>9, RowsKept, <1>5, <1>6, <1>7 DEF StepInv

\* PrepareDispatch: prepareDispatch.
LEMMA PrepareDispatchStep ==
    ASSUME TypeInv, NEW t \in Threads, PrepareDispatch(t)
    PROVE  StepInv
<1> DEFINE a == Act(t)
           n == Len(attempts[a]) + 1
           closed == [attempts[a] EXCEPT ![th[t].att].state = "succeeded"]
           r == [th[t] EXCEPT !.pc = "before", !.phase = "dispatch", !.att = n]
<1>1. th[t] \in Thread /\ th[t].act \in Actions /\ a \in Actions
  BY ThreadTyped DEF PrepareDispatch, At, Act
<1>2. attempts[a] \in Seq(Attempt) /\ n \in Nat
  BY <1>1, AttemptsTyped
<1>3. Good(t, r)
  <2> HIDE DEF n
  <2> QED BY <1>1, <1>2, Words DEF Thread, Good
<1>4. th' = [th EXCEPT ![t] = r]
  BY DEF PrepareDispatch
<1>5. th' \in [Threads -> Thread] /\ Working' /\ ThreadsKeep
  <2> HIDE DEF r
  <2> QED BY <1>3, <1>4, ThreadSet
<1>6. attempts' \in [Actions -> Seq(Attempt)]
  <2>1. closed \in Seq(Attempt)
    BY <1>2, Words, SeqState
  <2>2. attempts' = [attempts EXCEPT ![a] = Append(closed, NewAttempt("dispatch"))]
    BY DEF PrepareDispatch
  <2> HIDE DEF a, closed
  <2>3. Append(closed, NewAttempt("dispatch")) \in Seq(Attempt)
    BY <2>1, NewAttemptTyped, Words, SeqAppend
  <2> QED BY <1>1, <2>2, <2>3, AttemptsSet
<1>7. effect' \in [Actions -> [state : EffectState, att : Nat]]
  <2>1. effect' = [effect EXCEPT ![a] = [state |-> "pending", att |-> n]]
    BY DEF PrepareDispatch
  <2>2. [state |-> "pending", att |-> n] \in [state : EffectState, att : Nat]
    BY <1>2 DEF EffectState
  <2> HIDE DEF a, n
  <2> QED BY <2>1, <2>2, EffectTyped
<1>8. UNCHANGED <<run, overdue, world, local, fallback, up, spent>>
  BY DEF PrepareDispatch
<1>9. TypeInv'
  BY <1>5, <1>6, <1>7, <1>8 DEF TypeInv, TypeOK
<1> QED BY <1>9, RowsKept, <1>5, <1>6, <1>7, <1>8 DEF StepInv

\* An attempt is closed with an attempt state.
LEMMA CloseStateTyped ==
    ASSUME NEW v \in Verdict
    PROVE  CloseState(v) \in AttemptState
  BY Words DEF CloseState

\* CloseAttempt: the attempt is closed.
LEMMA CloseAttemptStep ==
    ASSUME TypeInv, NEW t \in Threads, CloseAttempt(t)
    PROVE  StepInv
<1> DEFINE a == Act(t)
           s == CloseState(th[t].res)
           r == [th[t] EXCEPT !.pc = IF HasEffects(th[t].res) THEN "effects"
                                     ELSE IF th[t].res = "dependency" THEN "wait"
                                     ELSE "final"]
<1>1. th[t] \in Thread /\ th[t].act \in Actions /\ a \in Actions /\ th[t].res \in Verdict
  BY ThreadTyped DEF CloseAttempt, At, Act, Thread
<1>2. attempts[a] \in Seq(Attempt) /\ s \in AttemptState
  BY <1>1, AttemptsTyped, CloseStateTyped
<1>3. Good(t, r)
  BY <1>1, Words DEF Thread, Good
<1>4. th' = [th EXCEPT ![t] = r]
  BY DEF CloseAttempt, Goto
<1>5. th' \in [Threads -> Thread] /\ Working' /\ ThreadsKeep
  <2> HIDE DEF r
  <2> QED BY <1>3, <1>4, ThreadSet
<1>6. attempts' \in [Actions -> Seq(Attempt)]
  <2>1. [attempts[a] EXCEPT ![th[t].att].state = s] \in Seq(Attempt)
    BY <1>2, SeqState
  <2>2. attempts' = [attempts EXCEPT ![a] = [attempts[a] EXCEPT ![th[t].att].state = s]]
    BY DEF CloseAttempt
  <2> HIDE DEF a, s
  <2> QED BY <1>1, <2>1, <2>2, AttemptsSet
<1>7. UNCHANGED <<run, effect, overdue, world, local, fallback, up, spent>>
  BY DEF CloseAttempt
<1>9. TypeInv'
  BY <1>5, <1>6, <1>7 DEF TypeInv, TypeOK
<1> QED BY <1>9, RowsKept, <1>5, <1>6, <1>7 DEF StepInv

\* RecordEffects: the effects are recorded.
LEMMA RecordEffectsStep ==
    ASSUME TypeInv, NEW t \in Threads, RecordEffects(t)
    PROVE  StepInv
<1> DEFINE r == [th[t] EXCEPT !.pc = "final"]
<1>1. th[t] \in Thread /\ th[t].act \in Actions /\ th[t].att \in Nat
  BY ThreadTyped DEF RecordEffects, At, Thread
<1>2. Good(t, r)
  BY <1>1, Words DEF Thread, Good
<1>3. th' = [th EXCEPT ![t] = r]
  BY DEF RecordEffects, Goto
<1>4. th' \in [Threads -> Thread] /\ Working' /\ ThreadsKeep
  <2> HIDE DEF r
  <2> QED BY <1>2, <1>3, ThreadSet
<1>5. PICK s \in EffectStates(th[t].res) :
        effect' = [effect EXCEPT ![Act(t)] = [state |-> s, att |-> th[t].att]]
  BY DEF RecordEffects
<1>6. s \in EffectState
  BY <1>5 DEF EffectStates, EffectState
<1>7. effect' \in [Actions -> [state : EffectState, att : Nat]]
  BY <1>1, <1>5, <1>6, EffectTyped
<1>8. UNCHANGED <<run, attempts, overdue, world, local, fallback, up, spent>>
  BY DEF RecordEffects
<1>9. TypeInv'
  BY <1>4, <1>7, <1>8 DEF TypeInv, TypeOK
<1> QED BY <1>9, RowsKept, <1>4, <1>7, <1>8 DEF StepInv

-----------------------------------------------------------------------------
(* What the statements do to a row *)

\* The version column advances.
LEMMA NextVersion ==
    ASSUME NEW row \in Row
    PROVE  row.version + 1 \in Nat /\ row.version + 1 > row.version
  BY DEF Row

\* UpdateActionRunOutcome to any state but running releases the row.
LEMMA OutcomeRow ==
    ASSUME NEW row \in Row, NEW s \in ActionState, s # "running", NEW n \in 0..1
    PROVE  RowStep(row, Outcome(row, s, n)) /\ Outcome(row, s, n).state = s
<1> DEFINE k == row.reserved /\ s \in Retaining
           v == row.version + 1
           new == [row EXCEPT !.state = s, !.version = v, !.by = None,
                              !.expired = FALSE, !.reserved = k, !.marker = 0,
                              !.unresolved = n]
<1>1. k \in BOOLEAN /\ (k => row.reserved /\ s \in Retaining)
  OBVIOUS
<1>2. v \in Nat /\ v > row.version
  BY NextVersion
<1>3. Outcome(row, s, n) = new
  BY DEF Outcome
<1> HIDE DEF k, v
<1>4. new \in Row
  BY <1>1, <1>2 DEF Row
<1>5. /\ new.version = v /\ new.state = s /\ new.by = None
      /\ new.reserved = k
  BY <1>1, <1>2 DEF Row
<1> HIDE DEF new
<1> QED BY <1>1, <1>2, <1>3, <1>4, <1>5 DEF RowStep, Released

\* FinalizeCancelled and FinalizeDeadline release a row that was never started.
LEMMA FinalizedRow ==
    ASSUME NEW row \in Row, NEW s \in ActionState, s # "running",
           row.reserved => row.state \in Retaining, row.state \in Unstarted
    PROVE  /\ RowStep(row, Finalized(row, s))
           /\ Final(row, Finalized(row, s))
           /\ Finalized(row, s).state = s
<1> DEFINE v == row.version + 1
           new == [row EXCEPT !.state = s, !.version = v, !.by = None, !.expired = FALSE]
<1>1. v \in Nat /\ v > row.version
  BY NextVersion
<1>2. Finalized(row, s) = new
  BY DEF Finalized
<1>3. ~row.reserved /\ row.state \notin Terminal
  BY DEF Unstarted, Retaining, Terminal
<1> HIDE DEF v
<1>4. new \in Row
  BY <1>1 DEF Row
<1>5. /\ new.version = v /\ new.state = s /\ new.by = None
      /\ ~new.reserved
  BY <1>1, <1>3 DEF Row
<1> HIDE DEF new
<1> QED BY <1>1, <1>2, <1>3, <1>4, <1>5 DEF RowStep, Released, Final

\* Lease recovery releases the row and keeps its keys.
LEMMA RecoveredRow ==
    ASSUME NEW row \in Row, row.state \in {"running", "reconciling"}
    PROVE  /\ RowStep(row, Recovered(row))
           /\ Final(row, Recovered(row))
           /\ Recovered(row).state = "reconciling"
<1> DEFINE v == row.version + 1
           new == [row EXCEPT !.state = "reconciling", !.version = v, !.by = None,
                              !.expired = FALSE]
<1>1. v \in Nat /\ v > row.version
  BY NextVersion
<1>2. Recovered(row) = new
  BY DEF Recovered
<1>3. "reconciling" \in Retaining /\ row.state \notin Terminal
  BY DEF Retaining, Terminal
<1> HIDE DEF v
<1>4. new \in Row
  BY <1>1, Words DEF Row
<1>5. /\ new.version = v /\ new.state = "reconciling" /\ new.by = None
      /\ new.reserved => row.reserved
  BY <1>1 DEF Row
<1> HIDE DEF new
<1> QED BY <1>1, <1>2, <1>3, <1>4, <1>5 DEF RowStep, Released, Final

\* unresolved_count of one effect row.
LEMMA CountTyped ==
    ASSUME NEW a, NEW b
    PROVE  unresolvedEffectCount(a, b) \in 0..1
  BY DEF unresolvedEffectCount

\* Replacing one row.
LEMMA RowSet ==
    ASSUME TypeInv, NEW a \in Actions, NEW r,
           RowStep(run[a], r), run' = [run EXCEPT ![a] = r]
    PROVE  /\ run' \in [Actions -> Row]
           /\ RowsStep
           /\ Final(run[a], r) => RowsFinal
           /\ r.state = "needs_review" /\ Held(a) => RowsFinal
<1>1. run \in [Actions -> Row] /\ r \in Row
  BY DEF TypeInv, TypeOK, RowStep
<1>2. \A b \in Actions : run'[b] = IF b = a THEN r ELSE run[b]
  BY <1>1
<1>3. \A b \in Actions : RowStep(run[b], run[b]) /\ Final(run[b], run[b])
  BY <1>1 DEF RowStep, Kept, Final, Row
<1>4. RowsStep
  BY <1>2, <1>3 DEF RowsStep
<1>5. Final(run[a], r) => RowsFinal
  BY <1>2, <1>3 DEF RowsFinal
<1>6. r.state = "needs_review" /\ Held(a) => RowsFinal
  BY <1>2, <1>3 DEF RowsFinal
<1> QED BY <1>1, <1>4, <1>5, <1>6

\* Replacing every row, as the set-based statements do.
LEMMA RowsSet ==
    ASSUME TypeInv, NEW rows, run' = rows, rows = [a \in Actions |-> rows[a]],
           \A a \in Actions : RowStep(run[a], rows[a])
    PROVE  run' \in [Actions -> Row] /\ RowsStep
<1>1. \A a \in Actions : rows[a] \in Row
  BY DEF RowStep
<1>2. [a \in Actions |-> rows[a]] \in [Actions -> Row]
  BY <1>1
<1> QED BY <1>2 DEF RowsStep

\* An untouched row is kept.
LEMMA SameRow ==
    ASSUME NEW row \in Row
    PROVE  RowStep(row, row) /\ Final(row, row)
  BY DEF RowStep, Kept, Final, Row

\* Two row steps in one transaction are one.
LEMMA RowStepTrans ==
    ASSUME NEW x \in Row, NEW y, NEW z, RowStep(x, y), RowStep(y, z)
    PROVE  RowStep(x, z)
<1>1. x.version \in Nat /\ y.version \in Nat /\ z.version \in Nat
  BY DEF RowStep, Row
<1> QED BY <1>1 DEF RowStep, Kept, Released

\* A step that writes one row and moves one goroutine.
LEMMA RunStep ==
    ASSUME TypeInv, NEW a \in Actions, NEW row, NEW t \in Threads, NEW r,
           run' = [run EXCEPT ![a] = row], th' = [th EXCEPT ![t] = r],
           RowStep(run[a], row), Final(run[a], row), Good(t, r),
           UNCHANGED <<attempts, effect, overdue, world, local, fallback, up, spent>>
    PROVE  StepInv
<1>1. th' \in [Threads -> Thread] /\ Working' /\ ThreadsKeep
  BY ThreadSet
<1>2. run' \in [Actions -> Row] /\ RowsStep /\ RowsFinal
  BY RowSet
<1>3. TypeInv'
  BY <1>1, <1>2 DEF TypeInv, TypeOK
<1> QED BY <1>1, <1>2, <1>3 DEF StepInv

-----------------------------------------------------------------------------
(* Steps that write a row *)

\* HoldUnhandled: the unfenced hold releases the row, whatever state it has.
LEMMA HoldUnhandledStep ==
    ASSUME TypeInv, NEW t \in Threads, HoldUnhandled(t)
    PROVE  StepInv
<1> DEFINE n == unresolvedEffectCount(Act(t), FALSE)
           row == Outcome(run[Act(t)], "needs_review", n)
<1>1. Act(t) \in Actions
  BY ThreadTyped DEF HoldUnhandled, At, Act
<1>2. RowStep(run[Act(t)], row)
  BY <1>1, RowTyped, CountTyped, Words, OutcomeRow
<1>3. row.state = "needs_review" /\ Held(Act(t))
  BY <1>1, RowTyped DEF Outcome, Held, Row
<1>4. /\ run' = [run EXCEPT ![Act(t)] = row]
      /\ th' = [th EXCEPT ![t] = Idle]
      /\ UNCHANGED <<attempts, effect, overdue, world, local, fallback, up, spent>>
  BY DEF HoldUnhandled
<1> HIDE DEF row
<1>5. th' \in [Threads -> Thread] /\ Working' /\ ThreadsKeep
  BY <1>1, <1>4, IdleGood, ThreadSet
<1>6. run' \in [Actions -> Row] /\ RowsStep /\ RowsFinal
  BY <1>1, <1>2, <1>3, <1>4, RowSet
<1>7. TypeInv'
  BY <1>4, <1>5, <1>6 DEF TypeInv, TypeOK
<1> QED BY <1>5, <1>6, <1>7 DEF StepInv

\* Wait: waitOwned.
LEMMA WaitStep ==
    ASSUME TypeInv, NEW t \in Threads, Wait(t)
    PROVE  StepInv
<1> DEFINE a == Act(t)
<1>1. a \in Actions /\ th[t].pc # "idle"
  BY ThreadTyped DEF Wait, At, Act
<1>2. RowStep(run[a], WaitRow(a))
  <2>1. 0 \in 0..1
    OBVIOUS
  <2> QED BY <1>1, <2>1, RowTyped, CountTyped, Words, OutcomeRow DEF WaitRow
<1>3. run[a].state \notin Terminal
  BY DEF Wait, FenceMatches, Terminal
<1>4. /\ run' = [run EXCEPT ![a] = WaitRow(a)]
      /\ th' = [th EXCEPT ![t] = Leave(t, FALSE)]
      /\ UNCHANGED <<attempts, effect, overdue, world, local, fallback, up, spent>>
  BY DEF Wait
<1> HIDE DEF a
<1> QED BY <1>1, <1>2, <1>3, <1>4, LeaveGood, RunStep DEF Final

\* cancelled and deadline_exceeded.
LEMMA StopStateTyped ==
    ASSUME NEW a
    PROVE  StopState(a) \in ActionState /\ StopState(a) # "running"
  BY Words DEF StopState

\* FinalOwned: a fenced transition starts from running.
LEMMA FinalOwnedStep ==
    ASSUME TypeInv, NEW t \in Threads, FinalOwned(t)
    PROVE  StepInv
<1> DEFINE a == Act(t)
           s == OwnedTarget(t)
           n == OwnedUnresolved(t, s)
           mid == IF th[t].res = "safe" THEN Outcome(run[a], "reconciling", 0) ELSE run[a]
           row == Outcome(mid, s, n)
           keep == s \in {"reconciling", "needs_review"}
<1>1. a \in Actions /\ th[t].pc # "idle" /\ run[a] \in Row
  BY ThreadTyped, RowTyped DEF FinalOwned, At, Act
<1>2. s \in ActionState /\ s # "running"
  BY Words, StopStateTyped DEF OwnedTarget
<1>3. n \in 0..1 /\ keep \in BOOLEAN
  BY CountTyped DEF OwnedUnresolved
<1>4. mid \in Row /\ RowStep(run[a], mid)
  <2>1. 0 \in 0..1
    OBVIOUS
  <2>2. RowStep(run[a], Outcome(run[a], "reconciling", 0))
    BY <1>1, <2>1, Words, OutcomeRow
  <2> QED BY <1>1, <2>2, SameRow DEF RowStep
<1>5. RowStep(run[a], row)
  <2> HIDE DEF a, s, n, mid
  <2>1. RowStep(mid, row)
    BY <1>2, <1>3, <1>4, OutcomeRow
  <2> HIDE DEF row
  <2> QED BY <1>1, <1>4, <2>1, RowStepTrans
<1>6. run[a].state \notin Terminal
  BY DEF FinalOwned, FenceMatches, Terminal
<1>7. /\ run' = [run EXCEPT ![a] = row]
      /\ th' = [th EXCEPT ![t] = Leave(t, keep)]
      /\ UNCHANGED <<attempts, effect, overdue, world, local, fallback, up, spent>>
  BY DEF FinalOwned
<1> HIDE DEF a, row, keep
<1> QED BY <1>1, <1>3, <1>5, <1>6, <1>7, LeaveGood, RunStep DEF Final

\* The transition table has no exit from a terminal state.
LEMMA NoExitFromTerminal ==
    ASSUME NEW from \in ActionState, NEW to, CanTransition(from, to)
    PROVE  from \notin Terminal
  BY DEF CanTransition, actionTransitions, Terminal, ActionState

\* FinalFree: an unfenced transition asks the table.
LEMMA FinalFreeStep ==
    ASSUME TypeInv, NEW t \in Threads, FinalFree(t)
    PROVE  StepInv
<1> DEFINE a == Act(t)
           s == FreeTarget(t)
           n == unresolvedEffectCount(a, s = "reconciling")
           row == Outcome(run[a], s, n)
           kept == s = "reconciling"
           held == run[a].state \in {"reconciling", "needs_review"}
<1>1. a \in Actions /\ th[t].pc # "idle" /\ run[a] \in Row /\ run[a].state \in ActionState
  BY ThreadTyped, RowTyped DEF FinalFree, At, Act, Row
<1>2. s \in ActionState /\ s # "running"
  BY Words, StopStateTyped DEF FreeTarget
<1>3. n \in 0..1 /\ kept \in BOOLEAN /\ held \in BOOLEAN
  BY CountTyped
<1>4. RowStep(run[a], row) /\ row.state = s
  <2> HIDE DEF a, s, n
  <2> QED BY <1>1, <1>2, <1>3, OutcomeRow
<1>5. UNCHANGED <<attempts, effect, overdue, world, local, fallback, up, spent>>
  BY DEF FinalFree
<1>6. CASE /\ CanTransition(run[a].state, s) \/ run[a].state = s
           /\ run' = [run EXCEPT ![a] = row]
           /\ th' = [th EXCEPT ![t] = Leave(t, kept)]
  <2>1. Final(run[a], row)
    <3> HIDE DEF a, s, row
    <3> QED BY <1>1, <1>4, <1>6, NoExitFromTerminal DEF Final
  <2> HIDE DEF a, row, kept
  <2> QED BY <1>1, <1>3, <1>4, <1>5, <1>6, <2>1, LeaveGood, RunStep
<1>7. CASE th' = [th EXCEPT ![t] = Leave(t, held)] /\ UNCHANGED run
  <2> HIDE DEF held
  <2> QED BY <1>1, <1>3, <1>5, <1>7, LeaveGood, ThreadStep
<1> QED BY <1>6, <1>7 DEF FinalFree

\* DeferActiveDispatch: a deferred reconciliation.
LEMMA DeferActiveDispatchStep ==
    ASSUME TypeInv, NEW t \in Threads, DeferActiveDispatch(t)
    PROVE  StepInv
<1> DEFINE a == Act(t)
           ok == \/ th[t].claimed \/ run[a].state = "reconciling"
                 \/ CanTransition(run[a].state, "reconciling")
           row == Outcome(run[a], "reconciling", unresolvedEffectCount(a, TRUE))
<1>1. a \in Actions /\ th[t].pc # "idle" /\ run[a] \in Row /\ run[a].state \in ActionState
  BY ThreadTyped, RowTyped DEF DeferActiveDispatch, At, Act, Row
<1>2. RowStep(run[a], row)
  BY <1>1, CountTyped, Words, OutcomeRow
<1>3. ok => run[a].state \notin Terminal
  BY <1>1, NoExitFromTerminal DEF DeferActiveDispatch, MayWrite, FenceMatches, Terminal
<1>4. /\ run' = IF ok THEN [run EXCEPT ![a] = row] ELSE run
      /\ th' = [th EXCEPT ![t] = Leave(t, TRUE)]
      /\ UNCHANGED <<attempts, effect, overdue, world, local, fallback, up, spent>>
  BY DEF DeferActiveDispatch
<1>5. CASE ok
  <2> HIDE DEF a, row
  <2> QED BY <1>1, <1>2, <1>3, <1>4, <1>5, LeaveGood, RunStep DEF Final
<1>6. CASE ~ok
  <2> QED BY <1>1, <1>4, <1>6, LeaveGood, ThreadStep
<1> QED BY <1>5, <1>6

\* The return marker keeps a claim it preserves and releases any other row.
LEMMA MarkedRowStep ==
    ASSUME TypeInv, NEW t \in Threads, Act(t) \in Actions, th[t].att \in Nat
    PROVE  RowStep(run[Act(t)], MarkedRow(t)) /\ Final(run[Act(t)], MarkedRow(t))
<1> DEFINE a == Act(t)
           r == run[a]
           hold == r.state = "running" /\ PreserveClaim(t) /\ ~r.cancel
           s == IF r.state = "running" /\ ~hold THEN "reconciling" ELSE r.state
           same == r.marker = th[t].att /\ (r.state # "running" \/ hold)
           n == unresolvedEffectCount(a, TRUE)
           v == r.version + 1
           k == r.reserved /\ s \in Retaining
           b == IF hold THEN r.by ELSE None
           x == hold /\ r.expired
           new == [r EXCEPT !.state = s, !.version = v, !.by = b, !.expired = x,
                            !.reserved = k, !.marker = th[t].att, !.unresolved = n]
<1>1. r \in Row /\ r.state \in ActionState
  BY RowTyped DEF Row
<1>2. v \in Nat /\ v > r.version /\ n \in 0..1
  BY <1>1, NextVersion, CountTyped
<1>3. k \in BOOLEAN /\ x \in BOOLEAN /\ hold \in BOOLEAN /\ (k => r.reserved /\ s \in Retaining)
  OBVIOUS
<1>4. s \in ActionState /\ b \in Executors \cup {None}
  BY <1>1, Words DEF Row
<1>5. MarkedRow(t) = IF same THEN r ELSE new
  BY <1>1 DEF MarkedRow, Outcome, Row
<1>6. hold => s = "running" /\ b = r.by /\ r.state = "running" /\ k = r.reserved
  BY <1>1 DEF Retaining, Row
<1>7. ~hold => s # "running" /\ b = None
  OBVIOUS
<1>8. r.state \in Terminal => s = r.state
  BY DEF Terminal
<1> HIDE DEF v, n, k, x, s, b, hold, same
<1>9. new \in Row
  BY <1>1, <1>2, <1>3, <1>4 DEF Row
<1>10. new.version = v /\ new.state = s /\ new.by = b /\ new.reserved = k
  BY <1>1 DEF Row
<1> HIDE DEF new, r
<1>11. RowStep(r, new) /\ Final(r, new)
  BY <1>1, <1>2, <1>3, <1>6, <1>7, <1>8, <1>9, <1>10
  DEF RowStep, Kept, Released, Final, Row
<1>12. RowStep(r, MarkedRow(t)) /\ Final(r, MarkedRow(t))
  BY <1>1, <1>5, <1>11, SameRow
<1> QED BY <1>12 DEF r

\* ReleaseMark: the return marker.
LEMMA ReleaseMarkStep ==
    ASSUME TypeInv, NEW t \in Threads, ReleaseMark(t)
    PROVE  StepInv
<1> DEFINE a == Act(t)
           r == [th[t] EXCEPT !.pc = "rel_resolve"]
<1>1. th[t] \in Thread /\ a \in Actions /\ th[t].act \in Actions /\ th[t].att \in Nat
  BY ThreadTyped DEF ReleaseMark, At, Act, Thread
<1>2. RowStep(run[a], MarkedRow(t)) /\ Final(run[a], MarkedRow(t))
  BY <1>1, MarkedRowStep
<1>3. Good(t, r)
  BY <1>1, Words DEF Thread, Good
<1>4. /\ run' = [run EXCEPT ![a] = MarkedRow(t)]
      /\ th' = [th EXCEPT ![t] = r]
      /\ UNCHANGED <<attempts, effect, overdue, world, local, fallback, up, spent>>
  BY DEF ReleaseMark, Goto
<1> HIDE DEF a, r
<1> QED BY <1>1, <1>2, <1>3, <1>4, RunStep

\* ReleaseIntent: the retry intent, written or not.
LEMMA ReleaseIntentStep ==
    ASSUME TypeInv, NEW t \in Threads, ReleaseIntent(t)
    PROVE  StepInv
<1> DEFINE a == Act(t)
           quiet == [th[t] EXCEPT !.pc = "rel_mark"]
           erred == [th[t] EXCEPT !.pc = "rel_mark", !.ierr = TRUE]
<1>1. th[t] \in Thread /\ a \in Actions /\ th[t].act \in Actions /\ th[t].pc # "idle"
  BY ThreadTyped DEF ReleaseIntent, At, Act
<1>2. Good(t, quiet) /\ Good(t, erred)
  BY <1>1, Words DEF Thread, Good
<1>3. fallback' \subseteq (Actions \X Nat)
  BY <1>1, FallbackTyped DEF ReleaseIntent
<1>4. UNCHANGED <<run, effect, overdue, world, local, up>>
  BY DEF ReleaseIntent
<1>5. CASE /\ attempts' = [attempts EXCEPT ![a][th[t].att].intent = TRUE]
           /\ th' = [th EXCEPT ![t] = quiet]
           /\ UNCHANGED spent
  <2> HIDE DEF quiet
  <2>1. th' \in [Threads -> Thread] /\ Working' /\ ThreadsKeep
    BY <1>2, <1>5, ThreadSet
  <2>2. [attempts[a] EXCEPT ![th[t].att].intent = TRUE] \in Seq(Attempt)
    BY <1>1, AttemptsTyped, SeqIntent
  <2>3. attempts' \in [Actions -> Seq(Attempt)]
    BY <1>1, <1>5, <2>2, AttemptsSet
  <2>4. TypeInv'
    BY <1>3, <1>4, <1>5, <2>1, <2>3 DEF TypeInv, TypeOK
  <2> QED BY <1>4, <2>1, <2>4, RowsKept DEF StepInv
<1>6. CASE UseFault /\ th' = [th EXCEPT ![t] = erred] /\ UNCHANGED attempts
  <2> HIDE DEF erred
  <2>1. th' \in [Threads -> Thread] /\ Working' /\ ThreadsKeep
    BY <1>2, <1>6, ThreadSet
  <2>2. TypeInv'
    BY <1>3, <1>4, <1>6, <2>1, FaultTyped DEF TypeInv, TypeOK
  <2> QED BY <1>4, <2>1, <2>2, RowsKept DEF StepInv
<1> QED BY <1>5, <1>6 DEF ReleaseIntent, Goto

\* ReleaseResolve: the barrier is closed.
LEMMA ReleaseResolveStep ==
    ASSUME TypeInv, NEW t \in Threads, ReleaseResolve(t)
    PROVE  StepInv
<1> DEFINE a == Act(t)
           seq == [attempts[a] EXCEPT ![th[t].att] =
                        [@ EXCEPT !.state = "reconciling", !.intent = FALSE]]
           s == IF effect[a].att = th[t].att THEN "unknown" ELSE effect[a].state
<1>1. a \in Actions /\ th[t].pc # "idle"
  BY ThreadTyped DEF ReleaseResolve, At, Act
<1>2. th' = [th EXCEPT ![t] = AfterRelease(t)]
  BY DEF ReleaseResolve
<1>3. th' \in [Threads -> Thread] /\ Working' /\ ThreadsKeep
  BY <1>1, <1>2, AfterReleaseGood, ThreadSet
<1>4. attempts' \in [Actions -> Seq(Attempt)]
  <2>1. seq \in Seq(Attempt)
    BY <1>1, AttemptsTyped, SeqReleased
  <2>2. attempts' = [attempts EXCEPT ![a] = seq]
    BY DEF ReleaseResolve
  <2> HIDE DEF a, seq
  <2> QED BY <1>1, <2>1, <2>2, AttemptsSet
<1>5. effect' \in [Actions -> [state : EffectState, att : Nat]]
  <2>1. effect' = [effect EXCEPT ![a].state = s]
    BY DEF ReleaseResolve
  <2>2. s \in EffectState
    BY <1>1, EffectTyped DEF EffectState
  <2> HIDE DEF a, s
  <2> QED BY <1>1, <2>1, <2>2, EffectTyped
<1>6. fallback' \subseteq (Actions \X Nat)
  BY <1>1, FallbackTyped DEF ReleaseResolve
<1>7. UNCHANGED <<run, overdue, world, local, up, spent>>
  BY DEF ReleaseResolve
<1>8. TypeInv'
  BY <1>3, <1>4, <1>5, <1>6, <1>7 DEF TypeInv, TypeOK
<1> QED BY <1>3, <1>7, <1>8, RowsKept DEF StepInv

-----------------------------------------------------------------------------
(* Callers, clock, crashes and recovery *)

\* A step that moves no goroutine.
LEMMA ThreadsSame ==
    ASSUME TypeInv, UNCHANGED th
    PROVE  th' \in [Threads -> Thread] /\ Working' /\ ThreadsKeep
  BY DEF TypeInv, TypeOK, Working, ThreadsKeep

\* A step that only writes rows.
LEMMA RowOnly ==
    ASSUME TypeInv, run' \in [Actions -> Row], RowsStep, RowsFinal,
           UNCHANGED <<attempts, effect, overdue, world, th, local, fallback, up, spent>>
    PROVE  StepInv
<1>1. th' \in [Threads -> Thread] /\ Working' /\ ThreadsKeep
  BY ThreadsSame
<1>2. TypeInv'
  BY <1>1 DEF TypeInv, TypeOK
<1> QED BY <1>1, <1>2 DEF StepInv

\* RequestCancellation: the cancellation marker keeps the claim.
LEMMA RequestCancellationStep ==
    ASSUME TypeInv, NEW a \in Actions, RequestCancellation(a)
    PROVE  StepInv
<1> DEFINE v == run[a].version + 1
           row == [run[a] EXCEPT !.cancel = TRUE, !.version = v]
<1>1. run[a] \in Row /\ v \in Nat /\ v > run[a].version
  BY RowTyped, NextVersion
<1>2. run' = [run EXCEPT ![a] = row]
  BY DEF RequestCancellation
<1>3. RowStep(run[a], row) /\ Final(run[a], row)
  <2> HIDE DEF v
  <2>1. row \in Row
    BY <1>1 DEF Row
  <2>2. /\ row.version = v /\ row.state = run[a].state /\ row.by = run[a].by
        /\ row.reserved = run[a].reserved
    BY <1>1 DEF Row
  <2> HIDE DEF row
  <2> QED BY <1>1, <2>1, <2>2 DEF RowStep, Kept, Final, Row
<1> HIDE DEF row
<1>4. run' \in [Actions -> Row] /\ RowsStep /\ RowsFinal
  BY <1>2, <1>3, RowSet
<1> QED BY <1>4, RowOnly DEF RequestCancellation

\* CancelLinked: the marker of a closing workflow keeps the claim.
LEMMA CancelLinkedStep ==
    ASSUME TypeInv, NEW a \in Actions, CancelLinked(a)
    PROVE  StepInv
<1> DEFINE row == [run[a] EXCEPT !.cancel = TRUE]
<1>1. run[a] \in Row
  BY RowTyped
<1>2. run' = [run EXCEPT ![a] = row]
  BY DEF CancelLinked
<1>3. RowStep(run[a], row) /\ Final(run[a], row)
  <2>1. row \in Row
    BY <1>1 DEF Row
  <2>2. /\ row.version = run[a].version /\ row.state = run[a].state
        /\ row.by = run[a].by /\ row.reserved = run[a].reserved
    BY <1>1 DEF Row
  <2> HIDE DEF row
  <2> QED BY <1>1, <2>1, <2>2 DEF RowStep, Kept, Final, Row
<1> HIDE DEF row
<1>4. run' \in [Actions -> Row] /\ RowsStep /\ RowsFinal
  BY <1>2, <1>3, RowSet
<1> QED BY <1>4, RowOnly DEF CancelLinked

\* LeaseExpires: an expired lease keeps the claim until recovery.
LEMMA LeaseExpiresStep ==
    ASSUME TypeInv, NEW a \in Actions, LeaseExpires(a)
    PROVE  StepInv
<1> DEFINE row == [run[a] EXCEPT !.expired = TRUE]
<1>1. run[a] \in Row
  BY RowTyped
<1>2. run' = [run EXCEPT ![a] = row]
  BY DEF LeaseExpires
<1>3. RowStep(run[a], row) /\ Final(run[a], row)
  <2>1. row \in Row
    BY <1>1 DEF Row
  <2>2. /\ row.version = run[a].version /\ row.state = run[a].state
        /\ row.by = run[a].by /\ row.reserved = run[a].reserved
    BY <1>1 DEF Row
  <2> HIDE DEF row
  <2> QED BY <1>1, <2>1, <2>2 DEF RowStep, Kept, Final, Row
<1> HIDE DEF row
<1>4. run' \in [Actions -> Row] /\ RowsStep /\ RowsFinal
  BY <1>2, <1>3, RowSet
<1>5. spent' \in [faults : Nat, stalls : Nat, crashes : Nat]
  <2>1. spent \in [faults : Nat, stalls : Nat, crashes : Nat]
    BY DEF TypeInv, TypeOK
  <2>2. spent' = [spent EXCEPT !.stalls = @ + 1] \/ spent' = spent
    BY DEF LeaseExpires
  <2> QED BY <2>1, <2>2
<1>6. UNCHANGED <<attempts, effect, overdue, world, th, local, fallback, up>>
  BY DEF LeaseExpires
<1>7. th' \in [Threads -> Thread] /\ Working' /\ ThreadsKeep
  BY <1>6, ThreadsSame
<1>8. TypeInv'
  BY <1>4, <1>5, <1>6, <1>7 DEF TypeInv, TypeOK
<1> QED BY <1>4, <1>7, <1>8 DEF StepInv

\* The clock and the upstream system touch no row and no goroutine.
LEMMA ExternalStep ==
    ASSUME TypeInv, NEW a \in Actions,
           DeadlinePasses(a) \/ Land(a) \/ Drop(a) \/ Establish(a)
    PROVE  StepInv
<1>1. UNCHANGED <<run, attempts, effect, th, local, fallback, up, spent>>
  BY DEF DeadlinePasses, Land, Drop, Establish
<1>2. th' \in [Threads -> Thread] /\ Working' /\ ThreadsKeep
  BY <1>1, ThreadsSame
<1>3. overdue' \in [Actions -> BOOLEAN]
  BY DEF DeadlinePasses, Land, Drop, Establish, TypeInv, TypeOK
<1>4. world' \in [Actions -> [inflight : Nat, applied : Nat, foreign : BOOLEAN]]
  <2>1. CASE DeadlinePasses(a)
    BY <2>1, WorldTyped DEF DeadlinePasses
  <2>2. CASE Land(a)
    BY <2>2, WorldTyped DEF Land
  <2>3. CASE Drop(a)
    BY <2>3, WorldTyped DEF Drop
  <2>4. CASE Establish(a)
    BY <2>4, WorldTyped DEF Establish
  <2> QED BY <2>1, <2>2, <2>3, <2>4
<1>5. TypeInv'
  BY <1>1, <1>2, <1>3, <1>4 DEF TypeInv, TypeOK
<1> QED BY <1>1, <1>2, <1>5, RowsKept DEF StepInv

\* Crash: a crash loses every goroutine.
LEMMA CrashStep ==
    ASSUME TypeInv, Crash
    PROVE  StepInv
<1>1. UNCHANGED <<run, attempts, effect, overdue, world>>
  BY DEF Crash
<1>2. Idle \in Thread /\ Idle.pc = "idle" /\ Idle.claimed = FALSE
  BY Words DEF Idle, Thread
<1>3. th' \in [Threads -> Thread] /\ Working' /\ ThreadsKeep
  BY <1>2 DEF Crash, Working, ThreadsKeep
<1>4. local' \in [Executors -> SUBSET Actions] /\ fallback' \subseteq (Actions \X Nat)
      /\ up' \in BOOLEAN
  BY DEF Crash
<1>5. spent' \in [faults : Nat, stalls : Nat, crashes : Nat]
  <2>1. spent \in [faults : Nat, stalls : Nat, crashes : Nat]
    BY DEF TypeInv, TypeOK
  <2> QED BY <2>1 DEF Crash
<1>6. TypeInv'
  BY <1>1, <1>3, <1>4, <1>5 DEF TypeInv, TypeOK
<1> QED BY <1>1, <1>3, <1>6, RowsKept DEF StepInv

\* FinalizeCancelled on one row.
LEMMA CancelledRowsStep ==
    ASSUME NEW row \in Row, row.reserved => row.state \in Retaining
    PROVE  LET new == IF row.state \in Unstarted /\ row.cancel
                      THEN Finalized(row, "cancelled") ELSE row
           IN  /\ RowStep(row, new) /\ Final(row, new)
               /\ new.reserved => new.state \in Retaining
<1>1. CASE row.state \in Unstarted /\ row.cancel
  <2>1. RowStep(row, Finalized(row, "cancelled")) /\ Final(row, Finalized(row, "cancelled"))
    BY <1>1, FinalizedRow, Words
  <2>2. Finalized(row, "cancelled").reserved => Finalized(row, "cancelled").state \in Retaining
    BY <2>1 DEF RowStep, Kept, Released
  <2> QED BY <1>1, <2>1, <2>2
<1>2. CASE ~(row.state \in Unstarted /\ row.cancel)
  BY <1>2, SameRow
<1> QED BY <1>1, <1>2

\* FinalizeDeadline on one row.
LEMMA OverdueRowsStep ==
    ASSUME NEW row \in Row, row.reserved => row.state \in Retaining, NEW late
    PROVE  LET new == IF row.state \in Unstarted /\ ~row.cancel /\ late
                      THEN Finalized(row, "deadline_exceeded") ELSE row
           IN  RowStep(row, new) /\ Final(row, new)
<1>1. CASE row.state \in Unstarted /\ ~row.cancel /\ late
  BY <1>1, FinalizedRow, Words
<1>2. CASE ~(row.state \in Unstarted /\ ~row.cancel /\ late)
  BY <1>2, SameRow
<1> QED BY <1>1, <1>2

\* FinalizeCancelled: FinalizeCancelled.
LEMMA FinalizeCancelledStep ==
    ASSUME TypeInv, KeysRetained, FinalizeCancelled
    PROVE  StepInv
<1> DEFINE rows == FinalizeCancelledRows(run)
<1>1. \A a \in Actions : RowStep(run[a], rows[a]) /\ Final(run[a], rows[a])
  BY RowTyped, CancelledRowsStep DEF KeysRetained, FinalizeCancelledRows
<1>2. rows = [a \in Actions |-> rows[a]] /\ run' = rows
  BY DEF FinalizeCancelledRows, FinalizeCancelled
<1> HIDE DEF rows
<1>3. run' \in [Actions -> Row] /\ RowsStep
  BY <1>1, <1>2, RowsSet
<1>4. RowsFinal
  BY <1>1, <1>2 DEF RowsFinal
<1> QED BY <1>3, <1>4, RowOnly DEF FinalizeCancelled

\* FinalizeDeadline: FinalizeDeadline.
LEMMA FinalizeDeadlineStep ==
    ASSUME TypeInv, KeysRetained, FinalizeDeadline
    PROVE  StepInv
<1> DEFINE rows == FinalizeDeadlineRows(run)
<1>1. \A a \in Actions : RowStep(run[a], rows[a]) /\ Final(run[a], rows[a])
  BY RowTyped, OverdueRowsStep DEF KeysRetained, FinalizeDeadlineRows
<1>2. rows = [a \in Actions |-> rows[a]] /\ run' = rows
  BY DEF FinalizeDeadlineRows, FinalizeDeadline
<1> HIDE DEF rows
<1>3. run' \in [Actions -> Row] /\ RowsStep
  BY <1>1, <1>2, RowsSet
<1>4. RowsFinal
  BY <1>1, <1>2 DEF RowsFinal
<1> QED BY <1>3, <1>4, RowOnly DEF FinalizeDeadline

\* RecoverExpired: lease recovery.
LEMMA RecoverExpiredStep ==
    ASSUME TypeInv, RecoverExpired
    PROVE  StepInv
<1> DEFINE rows == [a \in Actions |-> IF HasClaim(run[a]) /\ Unleased(run[a])
                                      THEN Recovered(run[a]) ELSE run[a]]
<1>1. \A a \in Actions : RowStep(run[a], rows[a]) /\ Final(run[a], rows[a])
  <2> SUFFICES ASSUME NEW a \in Actions
               PROVE  RowStep(run[a], rows[a]) /\ Final(run[a], rows[a])
    OBVIOUS
  <2>1. run[a] \in Row
    BY RowTyped
  <2>2. HasClaim(run[a]) => run[a].state \in {"running", "reconciling"}
    BY DEF HasClaim
  <2> QED BY <2>1, <2>2, RecoveredRow, SameRow
<1>2. rows = [a \in Actions |-> rows[a]] /\ run' = rows
  BY DEF RecoverExpired
<1> HIDE DEF rows
<1>3. run' \in [Actions -> Row] /\ RowsStep
  BY <1>1, <1>2, RowsSet
<1>4. RowsFinal
  BY <1>1, <1>2 DEF RowsFinal
<1> QED BY <1>3, <1>4, RowOnly DEF RecoverExpired

\* RecoverRunningActionAttempts on the journal of one action.
LEMMA RecoveredAttemptsTyped ==
    ASSUME NEW s \in Seq(Attempt)
    PROVE  [n \in DOMAIN s |-> IF s[n].state = "running"
                               THEN [s[n] EXCEPT !.state = "reconciling"]
                               ELSE s[n]] \in Seq(Attempt)
<1> DEFINE f(n) == IF s[n].state = "running" THEN [s[n] EXCEPT !.state = "reconciling"]
                   ELSE s[n]
<1>1. DOMAIN s = 1..Len(s) /\ Len(s) \in Nat
  OBVIOUS
<1>2. \A n \in 1..Len(s) : f(n) \in Attempt
  <2> SUFFICES ASSUME NEW n \in 1..Len(s) PROVE f(n) \in Attempt
    OBVIOUS
  <2>1. s[n] \in Attempt
    OBVIOUS
  <2> QED BY <2>1, Words DEF Attempt
<1> HIDE DEF f
<1>3. [n \in 1..Len(s) |-> f(n)] \in Seq(Attempt)
  BY <1>1, <1>2, IsASeq
<1> QED BY <1>1, <1>3 DEF f

\* Recover: startup recovery: the three row statements compose.
LEMMA RecoverStep ==
    ASSUME TypeInv, KeysRetained, Recover
    PROVE  StepInv
<1> DEFINE r1 == RecoverRunningRows
           r2 == FinalizeCancelledRows(r1)
           r3 == FinalizeDeadlineRows(r2)
<1>1. \A a \in Actions : RowStep(run[a], r3[a]) /\ Final(run[a], r3[a])
  <2> SUFFICES ASSUME NEW a \in Actions
               PROVE  RowStep(run[a], r3[a]) /\ Final(run[a], r3[a])
    OBVIOUS
  <2>1. run[a] \in Row /\ (run[a].reserved => run[a].state \in Retaining)
    BY RowTyped DEF KeysRetained
  <2>2. HasClaim(run[a]) => run[a].state \in {"running", "reconciling"}
    BY DEF HasClaim
  <2>3. r1[a] = IF HasClaim(run[a]) THEN Recovered(run[a]) ELSE run[a]
    BY DEF RecoverRunningRows
  <2>4. RowStep(run[a], r1[a]) /\ Final(run[a], r1[a])
    BY <2>1, <2>2, <2>3, RecoveredRow, SameRow
  <2>5. r1[a] \in Row /\ (r1[a].reserved => r1[a].state \in Retaining)
    BY <2>1, <2>4 DEF RowStep, Kept, Released
  <2>6. r2[a] = IF r1[a].state \in Unstarted /\ r1[a].cancel
                THEN Finalized(r1[a], "cancelled") ELSE r1[a]
    BY DEF FinalizeCancelledRows
  <2>7. r3[a] = IF r2[a].state \in Unstarted /\ ~r2[a].cancel /\ overdue[a]
                THEN Finalized(r2[a], "deadline_exceeded") ELSE r2[a]
    BY DEF FinalizeDeadlineRows
  <2> HIDE DEF r1, r2, r3
  <2>8. /\ RowStep(r1[a], r2[a]) /\ Final(r1[a], r2[a])
        /\ r2[a].reserved => r2[a].state \in Retaining
    BY <2>5, <2>6, CancelledRowsStep
  <2>9. r2[a] \in Row
    BY <2>8 DEF RowStep
  <2>10. RowStep(r2[a], r3[a]) /\ Final(r2[a], r3[a])
    BY <2>7, <2>8, <2>9, OverdueRowsStep
  <2>11. RowStep(run[a], r2[a])
    BY <2>1, <2>4, <2>8, RowStepTrans
  <2>12. RowStep(run[a], r3[a])
    BY <2>1, <2>10, <2>11, RowStepTrans
  <2> QED BY <2>4, <2>8, <2>10, <2>12 DEF Final
<1>2. r3 = [a \in Actions |-> r3[a]] /\ run' = r3
  BY DEF FinalizeDeadlineRows, Recover
<1> HIDE DEF r1, r2, r3
<1>3. run' \in [Actions -> Row] /\ RowsStep
  BY <1>1, <1>2, RowsSet
<1>4. RowsFinal
  BY <1>1, <1>2 DEF RowsFinal
<1>5. attempts' \in [Actions -> Seq(Attempt)]
  <2>1. \A a \in Actions :
            [n \in DOMAIN attempts[a] |->
                IF attempts[a][n].state = "running"
                THEN [attempts[a][n] EXCEPT !.state = "reconciling"]
                ELSE attempts[a][n]] \in Seq(Attempt)
    BY AttemptsTyped, RecoveredAttemptsTyped
  <2> QED BY <2>1 DEF Recover, RecoverRunningAttempts
<1>6. UNCHANGED <<effect, overdue, world, th, local, fallback, spent>> /\ up' = TRUE
  BY DEF Recover
<1>7. th' \in [Threads -> Thread] /\ Working' /\ ThreadsKeep
  BY <1>6, ThreadsSame
<1>8. TypeInv'
  BY <1>3, <1>5, <1>6, <1>7 DEF TypeInv, TypeOK
<1> QED BY <1>3, <1>4, <1>7, <1>8 DEF StepInv

-----------------------------------------------------------------------------
(* The inductive invariant is preserved *)

\* Every ordinary step preserves the inductive invariant.
LEMMA StepKeepsIInv ==
    ASSUME IInv, StepInv
    PROVE  IInv'
<1>1. TypeInv /\ TypeInv' /\ ThreadsKeep /\ RowsStep
  BY DEF IInv, StepInv
<1>2. \A a \in Actions : RowStep(run[a], run'[a]) /\ run[a].version \in Nat
                         /\ run'[a].version \in Nat
  BY <1>1, RowTyped DEF RowsStep, RowStep, Row
<1>3. KeysRetained'
  BY <1>2 DEF IInv, KeysRetained, RowStep, Kept, Released
<1>4. ClaimedIffRunning'
  BY <1>2 DEF IInv, ClaimedIffRunning, RowStep, Kept, Released
<1>5. ReservationsDisjoint'
  <2>1. \A a \in Actions : run'[a].reserved => run[a].reserved
    BY <1>2 DEF RowStep, Kept, Released
  <2>2. \A p \in Overlap : p[1] \in Actions /\ p[2] \in Actions
    BY ConstantsAssumption
  <2> QED BY <2>1, <2>2 DEF IInv, ReservationsDisjoint
<1>6. \A t \in Threads : th[t].ver \in Nat
  BY <1>1, ThreadTyped DEF Thread
<1>7. Generations'
  <2> SUFFICES ASSUME NEW t \in Threads, th'[t].claimed
               PROVE  /\ th'[t].act \in Actions
                      /\ th'[t].ver <= run'[th'[t].act].version
                      /\ run'[th'[t].act].state # "running"
                            => th'[t].ver < run'[th'[t].act].version
    BY DEF Generations
  <2>1. th[t].claimed /\ th'[t].act = th[t].act /\ th'[t].ver = th[t].ver
    BY <1>1 DEF ThreadsKeep
  <2> QED BY <1>2, <1>6, <2>1 DEF IInv, Generations, RowStep, Kept, Released
<1>8. Apart'
  BY <1>1 DEF IInv, Apart, ThreadsKeep
<1> QED BY <1>1, <1>3, <1>4, <1>5, <1>7, <1>8 DEF IInv

\* ReconcileRefresh moves a claim to the version its own marker wrote, which
\* no other claim has reached.
LEMMA ReconcileRefreshKeepsIInv ==
    ASSUME IInv, NEW t \in Threads, ReconcileRefresh(t)
    PROVE  IInv' /\ UNCHANGED run
<1> DEFINE row == run[Act(t)]
           ver == IF th[t].claimed THEN row.version ELSE th[t].ver
           go == [th[t] EXCEPT !.pc = "rec_active", !.att = 0, !.back = "none", !.ver = ver]
           keep == row.state \in {"reconciling", "needs_review"}
           r == IF th[t].claimed /\ (row.state # "running" \/ row.by # ExecOf(t))
                THEN Leave(t, keep)
                ELSE IF th[t].claimed /\ row.version # th[t].ver /\ ~AdvanceAfterOutcome(t)
                     THEN Leave(t, FALSE) ELSE go
<1>1. th[t] \in Thread /\ th[t].pc # "idle" /\ th[t].act \in Actions /\ TypeInv
  BY ThreadTyped DEF ReconcileRefresh, At, IInv
<1>2. row.version \in Nat /\ th[t].ver \in Nat /\ ver \in Nat
  BY <1>1, RowTyped DEF Act, Row, Thread
<1>3. /\ go \in Thread /\ go.act = th[t].act /\ go.pc # "idle"
      /\ go.claimed = th[t].claimed /\ go.ver = ver
  <2> HIDE DEF ver
  <2> QED BY <1>1, <1>2, Words DEF Thread
<1>4. th' = [th EXCEPT ![t] = r]
  BY DEF ReconcileRefresh
<1>5. UNCHANGED <<run, attempts, effect, overdue, world, local, fallback, up, spent>>
  BY DEF ReconcileRefresh
<1>6. CASE Good(t, r)
  <2> HIDE DEF r
  <2> QED BY <1>1, <1>4, <1>5, <1>6, ThreadStep, StepKeepsIInv
<1>7. CASE ~Good(t, r)
  <2>1. r = go /\ th[t].claimed /\ row.version = th[t].ver + 1 /\ row.state = "running"
    <3>1. keep \in BOOLEAN
      OBVIOUS
    <3>2. Good(t, Leave(t, keep)) /\ Good(t, Leave(t, FALSE))
      <4> HIDE DEF keep
      <4> QED BY <1>1, <3>1, LeaveGood
    <3>3. r = go
      BY <1>7, <3>2
    <3>4. th[t].claimed /\ row.version # th[t].ver
      <4> HIDE DEF go
      <4> QED BY <1>1, <1>3, <1>7, <3>3 DEF Good
    <3>5. AdvanceAfterOutcome(t)
      BY <1>7, <3>2, <3>4
    <3> QED BY <3>3, <3>4, <3>5 DEF AdvanceAfterOutcome
  <2>2. th \in [Threads -> Thread] /\ Working
    BY <1>1 DEF TypeInv, TypeOK
  <2> HIDE DEF go, r
  <2>3. \A u \in Threads : th'[u] = IF u = t THEN go ELSE th[u]
    BY <1>4, <2>1, <2>2
  <2>4. th' \in [Threads -> Thread] /\ Working'
    BY <1>1, <1>3, <1>4, <2>1, <2>2, <2>3 DEF Working
  <2>5. TypeInv'
    BY <1>1, <1>5, <2>4 DEF TypeInv, TypeOK
  <2>6. KeysRetained' /\ ClaimedIffRunning' /\ ReservationsDisjoint'
    BY <1>5 DEF IInv, KeysRetained, ClaimedIffRunning, ReservationsDisjoint
  <2>7. ver = row.version
    BY <2>1
  <2>8. Generations'
    <3> HIDE DEF ver
    <3> QED BY <1>1, <1>2, <1>3, <1>5, <2>1, <2>3, <2>7 DEF IInv, Generations, Act
  <2>9. Apart'
    <3>1. \A u \in Threads : u # t /\ th[u].claimed /\ th[u].act = th[t].act
                                => th[u].ver + 2 <= ver
      <4> SUFFICES ASSUME NEW u \in Threads, u # t, th[u].claimed, th[u].act = th[t].act
                   PROVE  th[u].ver + 2 <= ver
        OBVIOUS
      <4>1. th[u].ver \in Nat
        BY <2>2 DEF Thread
      <4>2. th[u].ver <= row.version
        BY DEF IInv, Generations, Act
      <4>3. th[t].ver + 2 <= th[u].ver \/ th[u].ver + 2 <= th[t].ver
        BY <2>1 DEF IInv, Apart
      <4> HIDE DEF row, ver
      <4> QED BY <1>2, <2>1, <2>7, <4>1, <4>2, <4>3
    <3> HIDE DEF ver
    <3> QED BY <1>3, <2>1, <2>3, <3>1 DEF IInv, Apart
  <2> QED BY <1>5, <2>5, <2>6, <2>8, <2>9 DEF IInv
<1> QED BY <1>6, <1>7

\* Claim takes a row that is not running, so every older claim is two versions
\* behind the new one.
LEMMA ClaimKeepsIInv ==
    ASSUME IInv, NEW t \in Threads, Claim(t)
    PROVE  IInv' /\ RowsFinal
<1> DEFINE a == Act(t)
           v == run[a].version + 1
           row == [run[a] EXCEPT !.state = "running", !.by = ExecOf(t), !.expired = FALSE,
                                 !.version = v]
           r == [th[t] EXCEPT !.pc = "local", !.claimed = TRUE, !.ver = v,
                              !.mark = run[a].marker]
<1>1. th[t] \in Thread /\ th[t].act \in Actions /\ a \in Actions /\ a = th[t].act /\ TypeInv
  BY ThreadTyped DEF Claim, At, Act, IInv
<1>2. run[a] \in Row /\ v \in Nat /\ v > run[a].version /\ run[a].marker \in Nat
  BY <1>1, RowTyped, NextVersion DEF Row
<1>3. UNCHANGED <<attempts, effect, overdue, world, local, fallback, up, spent>>
  BY DEF Claim
<1>4. CASE ~ClaimPredicate(t)
  <2>1. th' = [th EXCEPT ![t] = Idle] /\ UNCHANGED run
    BY <1>4 DEF Claim
  <2>2. StepInv
    BY <1>1, <1>3, <2>1, IdleGood, ThreadStep
  <2> QED BY <2>2, StepKeepsIInv DEF StepInv
<1>5. CASE ClaimPredicate(t)
  <2>1. run' = [run EXCEPT ![a] = row] /\ th' = [th EXCEPT ![t] = r]
    BY <1>5 DEF Claim
  <2>2. run[a].state \in Claimable
    BY <1>5 DEF ClaimPredicate
  <2>3. run[a].state # "running" /\ run[a].state \notin Terminal
    BY <2>2 DEF Claimable, Terminal
  <2>4. run \in [Actions -> Row] /\ th \in [Threads -> Thread] /\ Working
    BY <1>1 DEF TypeInv, TypeOK
  <2>5. ExecOf(t) \in Executors /\ ExecOf(t) # None
    BY ExecutorTyped, ConstantsAssumption
  <2> HIDE DEF v
  <2>6. /\ row \in Row /\ row.state = "running" /\ row.by = ExecOf(t)
        /\ row.reserved = run[a].reserved /\ row.version = v
    BY <1>2, <2>5, Words DEF Row
  <2>7. /\ r \in Thread /\ r.pc = "local" /\ r.claimed /\ r.ver = v /\ r.act = a
    BY <1>1, <1>2, Words DEF Thread
  <2> HIDE DEF row, r, a
  <2>8. \A b \in Actions : run'[b] = IF b = a THEN row ELSE run[b]
    BY <2>1, <2>4
  <2>9. \A u \in Threads : th'[u] = IF u = t THEN r ELSE th[u]
    BY <2>1, <2>4
  <2>10. th' \in [Threads -> Thread] /\ Working'
    BY <1>1, <2>1, <2>4, <2>7, <2>9 DEF Working
  <2>11. TypeInv'
    BY <1>1, <1>3, <2>1, <2>4, <2>6, <2>10 DEF TypeInv, TypeOK
  <2>12. KeysRetained'
    BY <2>6, <2>8 DEF IInv, KeysRetained, Retaining
  <2>13. ClaimedIffRunning'
    BY <2>5, <2>6, <2>8 DEF IInv, ClaimedIffRunning
  <2>14. ReservationsDisjoint'
    <3>1. \A b \in Actions : run'[b].reserved = run[b].reserved
      BY <2>6, <2>8
    <3>2. \A p \in Overlap : p[1] \in Actions /\ p[2] \in Actions
      BY ConstantsAssumption
    <3> QED BY <3>1, <3>2 DEF IInv, ReservationsDisjoint
  <2>15. \A u \in Threads : th[u].ver \in Nat
    BY <2>4 DEF Thread
  <2>16. run[a].version \in Nat /\ v = run[a].version + 1
    BY <1>2 DEF Row, v
  <2>17. \A u \in Threads : th[u].claimed /\ th[u].act = a => th[u].ver + 2 <= v
    <3> SUFFICES ASSUME NEW u \in Threads, th[u].claimed, th[u].act = a
                 PROVE  th[u].ver + 2 <= v
      OBVIOUS
    <3>1. th[u].ver < run[a].version
      BY <2>3 DEF IInv, Generations
    <3> QED BY <2>15, <2>16, <3>1
  <2>18. Generations'
    BY <1>1, <1>2, <2>6, <2>7, <2>8, <2>9, <2>15, <2>16, <2>17 DEF IInv, Generations
  <2>19. Apart'
    BY <2>7, <2>9, <2>17 DEF IInv, Apart
  <2>20. RowsFinal
    BY <2>3, <2>8 DEF RowsFinal, Final
  <2> QED BY <2>11, <2>12, <2>13, <2>14, <2>18, <2>19, <2>20 DEF IInv
<1> QED BY <1>4, <1>5

\* Reserve writes keys only when no retaining row conflicts; rows that do not
\* retain hold none.
LEMMA ReserveKeepsIInv ==
    ASSUME IInv, NEW t \in Threads, Reserve(t)
    PROVE  IInv' /\ RowsFinal
<1> DEFINE a == Act(t)
           row == [run[a] EXCEPT !.reserved = TRUE]
           r == IF th[t].from = "reconciling"
                THEN [th[t] EXCEPT !.pc = "rec_find", !.phase = "reconcile", !.from = "queued"]
                ELSE [th[t] EXCEPT !.pc = "obs_new", !.phase = "observe", !.from = "queued",
                                   !.mark = 0]
<1>1. th[t] \in Thread /\ th[t].act \in Actions /\ a \in Actions /\ TypeInv
  BY ThreadTyped DEF Reserve, At, Act, IInv
<1>2. run \in [Actions -> Row] /\ run[a] \in Row /\ run[a].state = "running"
  BY <1>1 DEF TypeInv, TypeOK, Reserve, FenceMatches
<1>3. Good(t, r)
  BY <1>1, Words DEF Thread, Good
<1>4. run' = [run EXCEPT ![a] = row] /\ th' = [th EXCEPT ![t] = r]
  BY DEF Reserve
<1>5. UNCHANGED <<attempts, effect, overdue, world, local, fallback, up, spent>>
  BY DEF Reserve
<1>6. /\ row \in Row /\ row.state = run[a].state /\ row.by = run[a].by
      /\ row.version = run[a].version
  BY <1>2 DEF Row
<1>7. \A b \in Actions : <<a, b>> \in Overlap => ~run[b].reserved
  BY <1>1 DEF Reserve, DurableConflict, IInv, KeysRetained
<1> HIDE DEF a, row, r
<1>8. th' \in [Threads -> Thread] /\ Working' /\ ThreadsKeep
  BY <1>1, <1>3, <1>4, ThreadSet
<1>9. TypeInv'
  BY <1>1, <1>2, <1>4, <1>5, <1>6, <1>8 DEF TypeInv, TypeOK
<1>10. \A b \in Actions : run'[b] = IF b = a THEN row ELSE run[b]
  BY <1>2, <1>4
<1>11. \A b \in Actions : /\ run'[b].state = run[b].state /\ run'[b].by = run[b].by
                          /\ run'[b].version = run[b].version
                          /\ b # a => run'[b].reserved = run[b].reserved
  BY <1>6, <1>10
<1>12. KeysRetained'
  BY <1>2, <1>11 DEF IInv, KeysRetained, Retaining
<1>13. ClaimedIffRunning' /\ RowsFinal
  BY <1>11 DEF IInv, ClaimedIffRunning, RowsFinal, Final
<1>14. ReservationsDisjoint'
  <2> SUFFICES ASSUME NEW p \in Overlap, run'[p[1]].reserved, run'[p[2]].reserved
               PROVE  FALSE
    BY DEF ReservationsDisjoint
  <2>1. /\ p[1] \in Actions /\ p[2] \in Actions /\ p = <<p[1], p[2]>>
        /\ <<p[2], p[1]>> \in Overlap /\ p[1] # p[2]
    BY ConstantsAssumption
  <2>2. CASE p[1] = a
    BY <1>7, <1>11, <2>1, <2>2
  <2>3. CASE p[2] = a
    BY <1>7, <1>11, <2>1, <2>3
  <2>4. CASE p[1] # a /\ p[2] # a
    BY <1>11, <2>1, <2>4 DEF IInv, ReservationsDisjoint
  <2> QED BY <2>2, <2>3, <2>4
<1>15. Generations' /\ Apart'
  BY <1>8, <1>11 DEF IInv, Generations, Apart, ThreadsKeep
<1> QED BY <1>9, <1>12, <1>13, <1>14, <1>15 DEF IInv

\* The initial states satisfy the inductive invariant.
LEMMA InitEstablishes ==
    ASSUME Init
    PROVE  IInv
<1>1. Idle \in Thread /\ Idle.pc = "idle" /\ Idle.claimed = FALSE
  BY Words DEF Idle, Thread
<1> DEFINE row == [state |-> "queued", version |-> 1, by |-> None, expired |-> FALSE,
                   cancel |-> FALSE, reserved |-> FALSE, marker |-> 0, unresolved |-> 0]
<1>2. row \in Row
  BY Words DEF Row
<1>3. run = [a \in Actions |-> row]
  BY DEF Init
<1>4. /\ row.state = "queued" /\ row.by = None /\ row.reserved = FALSE
  OBVIOUS
<1> HIDE DEF row
<1>5. run \in [Actions -> Row]
  BY <1>2, <1>3
<1>6. attempts \in [Actions -> Seq(Attempt)]
  BY DEF Init
<1>7. effect \in [Actions -> [state : EffectState, att : Nat]]
  BY DEF Init, EffectState
<1>8. th \in [Threads -> Thread] /\ (\A t \in Threads : th[t] = Idle)
  BY <1>1 DEF Init
<1>9. TypeOK
  BY <1>5, <1>6, <1>7, <1>8 DEF Init, TypeOK
<1>10. TypeInv
  BY <1>1, <1>8, <1>9 DEF TypeInv, Working
<1>11. KeysRetained /\ ClaimedIffRunning
  BY <1>3, <1>4 DEF KeysRetained, ClaimedIffRunning
<1>12. ReservationsDisjoint
  <2>1. \A p \in Overlap : p[1] \in Actions
    BY ConstantsAssumption
  <2> QED BY <1>3, <1>4, <2>1 DEF ReservationsDisjoint
<1>13. Generations /\ Apart
  BY <1>1, <1>8 DEF Generations, Apart
<1> QED BY <1>10, <1>11, <1>12, <1>13 DEF IInv

\* Every step of a goroutine preserves the inductive invariant.
LEMMA StepKeeps ==
    ASSUME IInv, NEW t \in Threads, Step(t)
    PROVE  IInv' /\ RowsFinal
<1>1. TypeInv
  BY DEF IInv
<1>2. StepInv => IInv' /\ RowsFinal
  BY StepKeepsIInv DEF StepInv
<1>3. CASE Claim(t)
  BY <1>3, ClaimKeepsIInv
<1>4. CASE Reserve(t)
  BY <1>4, ReserveKeepsIInv
<1>5. CASE ReconcileRefresh(t)
  BY <1>1, <1>5, ReconcileRefreshKeepsIInv, RowsKept
<1>6. CASE HoldUnhandled(t) \/ AcquireReservations(t) \/ ReserveRefused(t) \/ Wait(t) \/ Finish(t)
  BY <1>1, <1>2, <1>6, HoldUnhandledStep, AcquireReservationsStep, ReserveRefusedStep,
     WaitStep, FinishStep
<1>7. CASE ObserveBegin(t) \/ ObserveReturn(t) \/ PrepareDispatch(t)
           \/ BeforeDispatch(t) \/ BeforeDispatchCancelled(t)
           \/ DispatchSend(t) \/ DispatchReturn(t)
  BY <1>1, <1>2, <1>7, ObserveBeginStep, ObserveReturnStep, PrepareDispatchStep,
     BeforeDispatchStep, BeforeDispatchCancelledStep, DispatchSendStep, DispatchReturnStep
<1>8. CASE CloseAttempt(t) \/ RecordEffects(t) \/ EffectsRefused(t)
           \/ FinalOwned(t) \/ FinalNotStopped(t) \/ FinalFree(t)
  BY <1>1, <1>2, <1>8, CloseAttemptStep, RecordEffectsStep, EffectsRefusedStep,
     FinalOwnedStep, FinalNotStoppedStep, FinalFreeStep
<1>9. CASE ReconcileFind(t) \/ ReconcileActive(t) \/ DeferActiveDispatch(t)
           \/ ReconcileReuse(t) \/ ReconcileBegin(t) \/ ReconcileReturn(t)
  BY <1>1, <1>2, <1>9, ReconcileFindStep, ReconcileActiveStep, DeferActiveDispatchStep,
     ReconcileReuseStep, ReconcileBeginStep, ReconcileReturnStep
<1>10. CASE ReleaseResolved(t) \/ ReleaseIntent(t) \/ ReleaseMark(t) \/ ReleaseResolve(t)
            \/ ReleaseFailed(t) \/ BarrierRetry(t) \/ BarrierGiveUp(t)
  BY <1>1, <1>2, <1>10, ReleaseResolvedStep, ReleaseIntentStep, ReleaseMarkStep,
     ReleaseResolveStep, ReleaseFailedStep, BarrierRetryStep, BarrierGiveUpStep
<1>11. CASE FenceLost(t) \/ JournalFails(t) \/ JournalFull(t)
  BY <1>1, <1>2, <1>11, FenceLostStep, JournalFailsStep, JournalFullStep
<1> QED BY <1>3, <1>4, <1>5, <1>6, <1>7, <1>8, <1>9, <1>10, <1>11 DEF Step

\* Every step preserves the inductive invariant and terminal rows.
LEMMA NextKeeps ==
    ASSUME IInv, [Next]_vars
    PROVE  IInv' /\ RowsFinal
<1>1. TypeInv /\ KeysRetained
  BY DEF IInv
<1>2. StepInv => IInv' /\ RowsFinal
  BY StepKeepsIInv DEF StepInv
<1>3. CASE UNCHANGED vars
  <2>1. UNCHANGED <<run, attempts, effect, overdue, world, th, local, fallback, up, spent>>
    BY <1>3 DEF vars
  <2>2. RowsStep /\ RowsFinal /\ run' \in [Actions -> Row]
    BY <1>1, <2>1, RowsKept DEF TypeInv, TypeOK
  <2> QED BY <1>1, <1>2, <2>1, <2>2, RowOnly
<1>4. CASE Environment
  <2>1. CASE \E a \in Actions : \/ RequestCancellation(a) \/ CancelLinked(a)
                                \/ DeadlinePasses(a) \/ LeaseExpires(a)
                                \/ Land(a) \/ Drop(a) \/ Establish(a)
    BY <1>1, <1>2, <2>1, RequestCancellationStep, CancelLinkedStep, LeaseExpiresStep, ExternalStep
  <2>2. CASE Crash \/ Recover \/ RecoverExpired \/ FinalizeCancelled \/ FinalizeDeadline
    BY <1>1, <1>2, <2>2, CrashStep, RecoverStep, RecoverExpiredStep,
       FinalizeCancelledStep, FinalizeDeadlineStep
  <2> QED BY <1>4, <2>1, <2>2 DEF Environment
<1>5. ASSUME NEW t \in Threads, Step(t) \/ \E a \in Actions : Pick(t, a) \/ PickById(t, a)
      PROVE  IInv' /\ RowsFinal
  BY <1>1, <1>2, <1>5, StepKeeps, PickStep, PickByIdStep
<1> QED BY <1>3, <1>4, <1>5 DEF Next

\* The inductive invariant holds in every reachable state.
LEMMA Inductive == Spec => []IInv
<1>1. Init => IInv
  BY InitEstablishes
<1>2. IInv /\ [Next]_vars => IInv'
  BY NextKeeps
<1> QED BY <1>1, <1>2, PTL DEF Spec

-----------------------------------------------------------------------------
(* Theorems *)

\* Every row, attempt, effect row and goroutine of the executor stays well
\* formed, in particular every attempt is closed with a state of the attempt
\* vocabulary (TypeOK).
THEOREM TypeCorrect == Spec => []TypeOK
<1>1. IInv => TypeOK
  BY DEF IInv, TypeInv
<1> QED BY <1>1, Inductive, PTL

\* claimFenceMatches never admits two goroutines to one action, for any number
\* of goroutines, executors, crashes, stalls and cancellations (SingleOwner).
THEOREM OwnershipCorrect == Spec => []SingleOwner
<1>1. IInv => SingleOwner
  <2> SUFFICES ASSUME IInv, NEW t \in Threads, NEW u \in Threads, t # u,
                      th[t].claimed, th[u].claimed, Act(t) = Act(u),
                      FenceMatches(t), FenceMatches(u)
               PROVE  FALSE
    BY DEF SingleOwner
  <2>1. th[t].ver \in Nat /\ th[u].ver \in Nat
    BY ThreadTyped DEF IInv, Thread
  <2>2. run[Act(t)].version \in Nat
    BY RowTyped DEF IInv, Generations, Act, Row
  <2>3. th[t].ver + 2 <= th[u].ver \/ th[u].ver + 2 <= th[t].ver
    BY DEF IInv, Apart, Act
  <2>4. /\ run[Act(t)].version = th[t].ver \/ run[Act(t)].version = th[t].ver + 1
        /\ run[Act(t)].version = th[u].ver \/ run[Act(t)].version = th[u].ver + 1
    BY DEF FenceMatches
  <2> QED BY <2>1, <2>2, <2>3, <2>4
<1> QED BY <1>1, Inductive, PTL

\* claimed_by is set exactly in running rows, so lease recovery sees every
\* claim (ClaimedIffRunning).
THEOREM ClaimedCorrect == Spec => []ClaimedIffRunning
<1>1. IInv => ClaimedIffRunning
  BY DEF IInv
<1> QED BY <1>1, Inductive, PTL

\* Conflicting actions never both hold durable reservation keys, for any
\* conflict relation (ReservationsDisjoint).
THEOREM ReservationsCorrect == Spec => []ReservationsDisjoint
<1>1. IInv => ReservationsDisjoint
  BY DEF IInv
<1> QED BY <1>1, Inductive, PTL

\* No step takes an action out of a terminal state but the unfenced hold of an
\* executor without the handler of its kind, which leaves needs_review
\* (ReopenedOnlyByHold).
THEOREM TerminalStable == Spec => ReopenedOnlyByHold
<1>1. ASSUME IInv, [Next]_vars, run' # run,
             NEW a \in Actions, run[a].state \in Terminal, run'[a].state # run[a].state
      PROVE  /\ run'[a].state = "needs_review"
             /\ \E t \in Threads : HoldUnhandled(t) /\ Act(t) = a
  <2>1. RowsFinal
    BY <1>1, NextKeeps
  <2> QED BY <1>1, <2>1 DEF RowsFinal, Final, Held
<1>2. IInv /\ [Next]_vars =>
        [\A a \in Actions :
            run[a].state \in Terminal /\ run'[a].state # run[a].state =>
                /\ run'[a].state = "needs_review"
                /\ \E t \in Threads : HoldUnhandled(t) /\ Act(t) = a]_run
  BY <1>1
<1> QED BY <1>2, Inductive, PTL DEF Spec, ReopenedOnlyByHold
=============================================================================
