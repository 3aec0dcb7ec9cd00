------------------------------- MODULE Scans -------------------------------
(***************************************************************************)
(* The scan scheduler (internal/scanning/scanning.go).                      *)
(*                                                                         *)
(* Every change of the scheduler's state is one commit: it runs under       *)
(* commitMu, is saved to the StateStore as a whole and becomes the memory   *)
(* state once saved, so a commit is one step and a failed save leaves both  *)
(* as they were.  Runner goroutines, calls, the polling loop, Stop and      *)
(* restarts interleave between commits.                                     *)
(***************************************************************************)
EXTENDS Integers, Sequences, FiniteSets

CONSTANTS
    Roots,          \* storage roots
    Revisions,      \* configuration revisions of a root
    None,           \* no revision: the root was never configured
    Reports,        \* the evidence runners report
    MaxConcurrent,  \* Options.MaxConcurrent
    MaxScans,       \* bound: scan records
    MaxConfigs,     \* bound: configuration calls
    MaxFaults,      \* bound: runner results that cannot be committed
    MaxRestarts     \* bound: process restarts

ScanState ==
    {"queued", "running", "waiting", "succeeded", "failed", "cancelled",
     "deadline_exceeded"}

Terminal == {"succeeded", "failed", "cancelled", "deadline_exceeded"}

\* SourceCoverage: empty, all complete, or with a partial or unknown member.
Sources == {"none", "partial", "complete"}

\* A point in time: unset, still to come, or reached.
When == {"none", "later", "due"}

\* What a runner passes to Progress or returns; "same" stands for a field left
\* empty, which keeps what the record has.
Report ==
    [cursor : BOOLEAN, complete : {"yes", "no", "same"}, src : Sources \cup {"same"}]

\* complete is Coverage.Completeness = complete, at is NextAttemptAt; what
\* triggered a scan is left out.
ScanRecord ==
    [root : Roots, rev : Revisions, state : ScanState, cursor : BOOLEAN,
     complete : BOOLEAN, src : Sources, cancel : BOOLEAN, at : When]

\* active, last and complete are ActiveScanID, LastScanID and
\* LastCompleteScanID as positions in the list of scans (0 is none).
RootState ==
    [rev : Revisions \cup {None}, enabled : BOOLEAN, retired : BOOLEAN,
     next : When, active : Nat, follow : BOOLEAN, last : Nat, complete : Nat]

ASSUME ScansAssumption ==
    /\ None \notin Revisions
    /\ Reports \subseteq Report
    /\ MaxConcurrent \in Nat \ {0} /\ MaxScans \in Nat
    /\ MaxConfigs \in Nat /\ MaxFaults \in Nat /\ MaxRestarts \in Nat
    /\ IsFiniteSet(Roots)

VARIABLES
    state,    \* Scheduler.state: the roots and the list of scans
    store,    \* what the StateStore holds
    phase,    \* started, stopping and closed of the Scheduler
    runner,   \* per scan: its goroutine and the state of its context
    spent     \* how much of each bound has been used

vars == <<state, store, phase, runner, spent>>

ScanIDs == 1..MaxScans

\* live, cancelled, deadline: inside runner.Run with such a context (and in the
\* running map); done: finish has committed and not yet left the map.
RunnerState == {"none", "live", "cancelled", "deadline", "done"}

-----------------------------------------------------------------------------
(* Records *)

Unconfigured ==
    [rev |-> None, enabled |-> FALSE, retired |-> FALSE, next |-> "none",
     active |-> 0, follow |-> FALSE, last |-> 0, complete |-> 0]

\* The zero Snapshot of a new Scheduler.
EmptySnapshot == [roots |-> [r \in Roots |-> Unconfigured], scans |-> <<>>]

newScanRecord(r, root) ==
    [root |-> r, rev |-> root.rev, state |-> "queued", cursor |-> FALSE,
     complete |-> FALSE, src |-> "none", cancel |-> FALSE, at |-> "none"]

\* Mutant of CanAssertAbsence: the sources are not asked.
CanAssertAbsenceAggregate(s) ==
    s.state = "succeeded" /\ s.complete /\ ~s.cursor

CanAssertAbsence(s) ==
    /\ s.state = "succeeded"
    /\ s.complete
    /\ ~s.cursor
    /\ s.src = "complete"

due(w) == w # "later"

\* normalizeEvidence: a pending cursor and an incomplete source each take the
\* aggregate down.
normalizeEvidence(s, report) ==
    LET src == IF report.src = "same" THEN s.src ELSE report.src
        complete == IF report.complete = "same" THEN s.complete ELSE report.complete = "yes"
    IN  [s EXCEPT !.cursor = report.cursor,
                  !.src = src,
                  !.complete = complete /\ ~report.cursor /\ src # "partial"]

\* finalizeCancelled, finalizeStale and finalizeDeadline: the record ends and
\* its evidence is no longer complete.
Finalized(s, final) ==
    [s EXCEPT !.state = final, !.at = "none", !.complete = FALSE]

clearFollowUp(root) == [root EXCEPT !.follow = FALSE]

retainFollowUp(root) == [root EXCEPT !.follow = TRUE]

invalidateRootEvidence(root) == [root EXCEPT !.last = 0, !.complete = 0]

\* Mutant of updateRootAfterTerminal: any terminal scan counts as complete.
updateRootAfterTerminalAny(root, s, i) ==
    [root EXCEPT !.active = IF @ = i THEN 0 ELSE @, !.last = i, !.complete = i]

updateRootAfterTerminal(root, s, i) ==
    LET left == [root EXCEPT !.active = IF @ = i THEN 0 ELSE @]
    IN  IF s.rev # root.rev
        THEN left
        ELSE [left EXCEPT !.last = i,
                          !.complete = IF CanAssertAbsence(s) THEN i ELSE @]

-----------------------------------------------------------------------------
(* Snapshots *)

Open(snap, r) ==
    {i \in DOMAIN snap.scans :
        snap.scans[i].root = r /\ snap.scans[i].state \notin Terminal}

\* activeScanIndex; 0 when the root has no open scan.
activeScan(snap, r) ==
    IF Open(snap, r) = {} THEN 0
    ELSE CHOOSE i \in Open(snap, r) : \A j \in Open(snap, r) : i <= j

\* What a commit does to one root: its new record, the scan it rewrites (id 0
\* for none) and whether it admits a new scan.
Change(root, id, scan, fresh) ==
    [root |-> root, id |-> id, scan |-> scan, fresh |-> fresh]

Kept(root) == Change(root, 0, None, FALSE)

\* The orders in which the scans of one commit may be created: their IDs are
\* random, and the order of creation is the order of dispatch.
Orders(R) ==
    {o \in [1..Cardinality(R) -> R] :
        \A q \in R : \E k \in DOMAIN o : \A j \in DOMAIN o : o[j] = q <=> j = k}

Admitting(ch) == {r \in Roots : ch[r].fresh}

\* Mutant of Updated: a new scan is entered as active one position too far.
UpdatedOffByOne(snap, ch, order) ==
    LET n == Len(snap.scans) IN
    [roots |-> [r \in Roots |->
        IF ~ch[r].fresh THEN ch[r].root
        ELSE [ch[r].root EXCEPT !.active = n + 1 + CHOOSE k \in DOMAIN order : order[k] = r]],
     scans |-> snap.scans \o [k \in DOMAIN order |->
        newScanRecord(order[k], ch[order[k]].root)]]

Updated(snap, ch, order) ==
    LET n == Len(snap.scans) IN
    [roots |-> [r \in Roots |->
        IF ~ch[r].fresh THEN ch[r].root
        ELSE [ch[r].root EXCEPT !.active = n + CHOOSE k \in DOMAIN order : order[k] = r]],
     scans |-> [i \in 1..(n + Cardinality(Admitting(ch))) |->
        IF i > n THEN newScanRecord(order[i - n], ch[order[i - n]].root)
        ELSE IF ch[snap.scans[i].root].id = i THEN ch[snap.scans[i].root].scan
        ELSE snap.scans[i]]]

\* One commit over all roots.  Save has to succeed; the bound on records is
\* part of the guard.
CommitAll(snap, ch) ==
    /\ Len(snap.scans) + Cardinality(Admitting(ch)) <= MaxScans
    /\ \E order \in Orders(Admitting(ch)) :
        /\ state' = Updated(snap, ch, order)
        /\ store' = state'

\* One commit of a change of root r.
Commit(r, change) ==
    CommitAll(state, [q \in Roots |-> IF q = r THEN change ELSE Kept(state.roots[q])])

\* commitState of a public call.  Nothing asks for Start: a call on a restarted
\* process that has not run it commits over the zero snapshot.
MayCommit == phase \in {"new", "started"}

\* enqueueCurrentRevision after the scan of another revision ended.
enqueueCurrentRevision(root, id, scan) ==
    LET next == IF root.enabled /\ ~root.retired THEN "later" ELSE "none"
        open == [clearFollowUp(root) EXCEPT !.next = next]
    IN  IF root.retired
        THEN Change([open EXCEPT !.active = 0], id, scan, FALSE)
        ELSE Change(open, id, scan, TRUE)

Stale(root, scan, i) ==
    LET ended == Finalized(scan, "cancelled")
    IN  enqueueCurrentRevision(
            updateRootAfterTerminal(invalidateRootEvidence(root), ended, i), i, ended)

\* A scan of the root ends as cancelled and takes the follow-up with it.
Cancelled(root, scan, i) ==
    LET ended == Finalized(scan, "cancelled")
    IN  Change(clearFollowUp(updateRootAfterTerminal(root, ended, i)), i, ended, FALSE)

-----------------------------------------------------------------------------
(* Start, Stop and restarts *)

Init ==
    /\ state = EmptySnapshot
    /\ store = EmptySnapshot
    /\ phase = "new"
    /\ runner = [i \in ScanIDs |-> "none"]
    /\ spent = [configs |-> 0, faults |-> 0, restarts |-> 0]

\* recoverSnapshot, evidence of one root: its last scans are checked again.
RecoveredEvidence(snap, root) ==
    IF root.last # 0 /\ snap.scans[root.last].rev # root.rev
    THEN invalidateRootEvidence(root)
    ELSE IF /\ root.complete # 0
            /\ \/ snap.scans[root.complete].rev # root.rev
               \/ ~CanAssertAbsence(snap.scans[root.complete])
         THEN [root EXCEPT !.complete = 0]
         ELSE root

\* recoverSnapshot, scans of one root: an abandoned run is queued again, with
\* its cursor, unless its cancellation was requested.
RecoveredScan(root, scan, i) ==
    CASE scan.rev # root.rev -> Stale(root, scan, i)
      [] scan.rev = root.rev /\ scan.state = "running" /\ scan.cancel ->
            Cancelled(root, scan, i)
      [] scan.rev = root.rev /\ scan.state = "running" /\ ~scan.cancel ->
            Change(root, i, [scan EXCEPT !.state = "queued"], FALSE)
      [] OTHER -> Kept(root)

\* Mutant of RecoverRoot: abandoned runs are left as they are.
RecoverRootRunning(snap, r) == Kept(snap.roots[r])

RecoverRoot(snap, r) ==
    LET i == activeScan(snap, r)
        root == RecoveredEvidence(snap, snap.roots[r])
        ch == IF i = 0 THEN Kept(root) ELSE RecoveredScan(root, snap.scans[i], i)
        next == IF ch.root.enabled /\ ~ch.root.retired /\ ch.root.next = "none"
                THEN "due" ELSE ch.root.next
    IN  [ch EXCEPT !.root.next = next]

Start ==
    /\ phase = "new"
    /\ CommitAll(store, [r \in Roots |-> RecoverRoot(store, r)])
    /\ phase' = "started"
    /\ UNCHANGED <<runner, spent>>

Runners == {i \in ScanIDs : runner[i] # "none"}

InRun(i) == runner[i] \in {"live", "cancelled", "deadline"}

\* Stop before its wait; the contexts end one by one (Interrupt).
Stop ==
    /\ phase \in {"new", "started"}
    /\ phase' = IF phase = "new" THEN "closed" ELSE "stopping"
    /\ UNCHANGED <<state, store, runner, spent>>

\* The wait of Stop is over.
StopReturns ==
    /\ phase = "stopping"
    /\ Runners = {}
    /\ phase' = "closed"
    /\ UNCHANGED <<state, store, runner, spent>>

\* The process ends, at any point, and a new one is assembled: memory and
\* goroutines are gone.
Restart ==
    /\ spent.restarts < MaxRestarts
    /\ phase # "new"
    /\ spent' = [spent EXCEPT !.restarts = @ + 1]
    /\ state' = EmptySnapshot
    /\ phase' = "new"
    /\ runner' = [i \in ScanIDs |-> "none"]
    /\ UNCHANGED store

-----------------------------------------------------------------------------
(* Calls *)

\* Mutant of Reconfigured: the scan of the old revision is left open.
ReconfiguredOpen(r, rev, enabled) ==
    LET base == [state.roots[r] EXCEPT !.rev = rev, !.enabled = enabled, !.retired = FALSE,
                                       !.next = IF enabled THEN "due" ELSE "none"]
    IN  IF rev = state.roots[r].rev THEN Kept(base)
        ELSE Change(invalidateRootEvidence(base), 0, None, TRUE)

\* ConfigureRoots, a root that is already known.
Reconfigured(r, rev, enabled) ==
    LET root == state.roots[r]
        i == activeScan(state, r)
        wasEnabled == root.enabled /\ ~root.retired
        base == [root EXCEPT !.rev = rev, !.enabled = enabled, !.retired = FALSE]
        ended == Finalized(state.scans[i], "cancelled")
        ch == CASE rev = root.rev -> Kept(base)
                [] rev # root.rev /\ (i = 0 \/ state.scans[i].rev = rev) ->
                        Kept(invalidateRootEvidence(base))
                [] OTHER ->
                        Change([clearFollowUp(updateRootAfterTerminal(
                                    invalidateRootEvidence(base), ended, i))
                                  EXCEPT !.next = "later"],
                               i, ended, TRUE)
        next == CASE ~enabled -> "none"
                  [] /\ enabled
                     /\ ch.root.active = 0 /\ ~ch.fresh
                     /\ ~wasEnabled \/ ch.root.next = "none" -> "due"
                  [] OTHER -> ch.root.next
    IN  [ch EXCEPT !.root.next = next]

\* ConfigureRoots, a root seen for the first time.
Configured(rev, enabled) ==
    Kept([Unconfigured EXCEPT !.rev = rev, !.enabled = enabled,
                              !.next = IF enabled THEN "due" ELSE "none"])

\* ConfigureRoots with a new schedule for r and the others as they are.
ConfigureRoots(r, rev, enabled) ==
    /\ MayCommit
    /\ spent.configs < MaxConfigs
    /\ Commit(r, IF state.roots[r].rev = None
                 THEN Configured(rev, enabled)
                 ELSE Reconfigured(r, rev, enabled))
    /\ spent' = [spent EXCEPT !.configs = @ + 1]
    /\ UNCHANGED <<phase, runner>>

\* ConfigureRoots without r.
RetireRoot(r) ==
    /\ MayCommit
    /\ spent.configs < MaxConfigs
    /\ state.roots[r].rev # None
    /\ ~state.roots[r].retired
    /\ Commit(r, Kept([state.roots[r] EXCEPT !.retired = TRUE, !.enabled = FALSE,
                                             !.next = "none"]))
    /\ spent' = [spent EXCEPT !.configs = @ + 1]
    /\ UNCHANGED <<phase, runner>>

Trigger(r) ==
    /\ MayCommit
    /\ state.roots[r].rev # None
    /\ ~state.roots[r].retired
    /\ LET root == state.roots[r]
           i == activeScan(state, r)
       IN  Commit(r, IF i = 0 THEN Change(root, 0, None, TRUE)
                     ELSE IF state.scans[i].state = "waiting"
                     THEN Change(root, i, [state.scans[i] EXCEPT !.at = "due"], FALSE)
                     ELSE Kept(retainFollowUp(root)))
    /\ UNCHANGED <<phase, runner, spent>>

\* Cancel: a scan that is not running ends at once.
Cancel(i) ==
    /\ MayCommit
    /\ i \in DOMAIN state.scans
    /\ state.scans[i].state \notin Terminal
    /\ LET scan == [state.scans[i] EXCEPT !.cancel = TRUE]
           root == state.roots[scan.root]
       IN  Commit(scan.root, IF scan.state = "running" THEN Change(root, i, scan, FALSE)
                             ELSE Cancelled(root, scan, i))
    /\ UNCHANGED <<phase, runner, spent>>

\* The cancel function Cancel, ConfigureRoots, Tick or Stop calls after its
\* commit reaches the runner.
Interrupt(i) ==
    /\ runner[i] = "live"
    /\ \/ phase = "stopping"
       \/ state.scans[i].cancel
       \/ state.scans[i].state \in Terminal
    /\ runner' = [runner EXCEPT ![i] = "cancelled"]
    /\ UNCHANGED <<state, store, phase, spent>>

-----------------------------------------------------------------------------
(* The loop *)

\* Mutant of TickActive: a waiting scan is not queued again.
TickActiveWaiting(root, scan, i) == Kept([root EXCEPT !.active = i])

TickActive(root, scan, i) ==
    LET claimed == [root EXCEPT !.active = i]
        again == root.enabled /\ ~root.retired /\ due(root.next)
    IN  IF scan.rev # root.rev
        THEN Stale(claimed, scan, i)
        ELSE Change(IF again THEN [retainFollowUp(claimed) EXCEPT !.next = "later"]
                             ELSE claimed,
                    i,
                    IF scan.state = "waiting" /\ due(scan.at)
                    THEN [scan EXCEPT !.state = "queued", !.at = "none"]
                    ELSE scan,
                    FALSE)

TickRoot(r) ==
    LET root == state.roots[r]
        i == activeScan(state, r)
    IN  CASE i # 0 -> TickActive(root, state.scans[i], i)
          [] i = 0 /\ (root.retired \/ ~root.enabled) -> Kept(root)
          [] i = 0 /\ ~root.retired /\ root.enabled /\ ~due(root.next) ->
                Kept([root EXCEPT !.active = 0])
          [] OTHER -> Change([root EXCEPT !.active = 0, !.next = "later"], 0, None, TRUE)

\* Tick without its pump: what the pump does is StartOne.
Tick ==
    /\ phase = "started"
    /\ CommitAll(state, [r \in Roots |-> TickRoot(r)])
    /\ UNCHANGED <<phase, runner, spent>>

runningRoot(r) == \E i \in Runners : state.scans[i].root = r

\* Mutant of Selectable: only the scan itself must not be running.
SelectableAny == {i \in DOMAIN state.scans : state.scans[i].state = "queued" /\ runner[i] = "none"}

Selectable ==
    {i \in DOMAIN state.scans :
        state.scans[i].state = "queued" /\ ~runningRoot(state.scans[i].root)}

\* startOne: the oldest queued scan of a root without a runner.
StartOne ==
    /\ phase = "started"
    /\ Cardinality(Runners) < MaxConcurrent
    /\ \E i \in Selectable :
        /\ \A j \in Selectable : i <= j
        /\ LET scan == state.scans[i]
               root == state.roots[scan.root]
               run == scan.rev = root.rev /\ ~root.retired /\ ~scan.cancel
           IN  /\ Commit(scan.root,
                    CASE run -> Change(root, i, [scan EXCEPT !.state = "running", !.at = "none"], FALSE)
                      [] ~run /\ scan.rev # root.rev /\ ~root.retired -> Stale(root, scan, i)
                      [] OTHER -> Cancelled(root, scan, i))
               /\ runner' = [runner EXCEPT ![i] = IF run THEN "live" ELSE @]
    /\ UNCHANGED <<phase, spent>>

-----------------------------------------------------------------------------
(* Runners *)

reportProgress(i) ==
    /\ phase = "started"
    /\ runner[i] = "live"
    /\ LET scan == state.scans[i]
           root == state.roots[scan.root]
       IN  /\ scan.state = "running"
           /\ scan.rev = root.rev
           /\ \E report \in Reports :
                Commit(scan.root, Change(root, i, normalizeEvidence(scan, report), FALSE))
    /\ UNCHANGED <<phase, runner, spent>>

\* RunTimeout.
Timeout(i) ==
    /\ runner[i] = "live"
    /\ runner' = [runner EXCEPT ![i] = "deadline"]
    /\ UNCHANGED <<state, store, phase, spent>>

\* The error a runner returns.
Result == {"ok", "retryable", "error", "canceled", "deadline"}

\* Mutant of Outcomes: a late success wins over a cancellation request.
OutcomesLate(scan, context, result) ==
    CASE context = "cancelled" \/ result = "canceled" -> {Finalized(scan, "cancelled")}
      [] result = "deadline" -> {Finalized(scan, "deadline_exceeded")}
      [] result = "retryable" -> {[scan EXCEPT !.state = "waiting", !.at = "later"]}
      [] result = "error" -> {[scan EXCEPT !.state = "failed"]}
      [] result = "ok" /\ scan.cursor -> {[scan EXCEPT !.state = "waiting", !.at = "due"]}
      [] OTHER -> {[scan EXCEPT !.state = "succeeded"]}

\* finish: the records one runner invocation may leave (a runner may ask for
\* its continuation to wait).
Outcomes(scan, context, result) ==
    LET cancelled == scan.cancel \/ context = "cancelled" \/ result = "canceled"
        deadline == context = "deadline" \/ result = "deadline"
    IN  CASE cancelled -> {Finalized(scan, "cancelled")}
          [] ~cancelled /\ deadline -> {Finalized(scan, "deadline_exceeded")}
          [] ~cancelled /\ ~deadline /\ result = "retryable" ->
                {[scan EXCEPT !.state = "waiting", !.at = "later"]}
          [] ~cancelled /\ ~deadline /\ result = "error" ->
                {[scan EXCEPT !.state = "failed"]}
          [] ~cancelled /\ ~deadline /\ result = "ok" /\ scan.cursor ->
                {[scan EXCEPT !.state = "waiting", !.at = w] : w \in {"later", "due"}}
          [] OTHER -> {[scan EXCEPT !.state = "succeeded"]}

\* Mutant of FollowUp: only a successful scan is followed up.
FollowUpSucceeded(root, scan) ==
    root.follow /\ ~root.retired /\ scan.state = "succeeded"

\* finish: is a terminal scan followed by another?
FollowUp(root, scan) ==
    root.follow /\ ~root.retired /\ scan.state # "cancelled"

\* finish of a scan that is still running in the snapshot.
Finished(root, scan, i) ==
    LET left == updateRootAfterTerminal(root, scan, i)
    IN  IF scan.state \in Terminal
        THEN Change(clearFollowUp(left), i, scan, FollowUp(left, scan))
        ELSE Change(root, i, scan, FALSE)

\* Mutant of Finish: it commits as a public call does, not during Stop.
FinishPublic(i) ==
    /\ InRun(i)
    /\ IF phase = "started" /\ state.scans[i].state = "running"
       THEN Commit(state.scans[i].root,
                   Finished(state.roots[state.scans[i].root],
                            Finalized(state.scans[i], "cancelled"), i))
       ELSE UNCHANGED <<state, store>>
    /\ runner' = [runner EXCEPT ![i] = "done"]
    /\ UNCHANGED <<phase, spent>>

\* Mutant of Finish: during Stop its commit is refused and tried again.
FinishRetried(i) ==
    /\ InRun(i)
    /\ phase = "started"
    /\ UNCHANGED <<state, store>>
    /\ runner' = [runner EXCEPT ![i] = "done"]
    /\ UNCHANGED <<phase, spent>>

\* The runner returns and finish commits, also while Stop waits.  A scan that
\* was ended meanwhile is left alone.
Finish(i) ==
    /\ InRun(i)
    /\ LET scan == state.scans[i]
           root == state.roots[scan.root]
       IN  \/ /\ scan.state # "running"
              /\ UNCHANGED <<state, store>>
           \/ /\ scan.state = "running"
              /\ \E report \in Reports, result \in Result :
                 \E s \in Outcomes(normalizeEvidence(scan, report), runner[i], result) :
                    Commit(scan.root, IF scan.rev # root.rev
                                      THEN Stale(root, scan, i)
                                      ELSE Finished(root, s, i))
    /\ runner' = [runner EXCEPT ![i] = "done"]
    /\ UNCHANGED <<phase, spent>>

\* finish cannot commit: the save fails or the evidence is refused.
FinishFails(i) ==
    /\ InRun(i)
    /\ state.scans[i].state = "running"
    /\ spent.faults < MaxFaults
    /\ spent' = [spent EXCEPT !.faults = @ + 1]
    /\ runner' = [runner EXCEPT ![i] = "done"]
    /\ UNCHANGED <<state, store, phase>>

\* The goroutine leaves the running map.
Exit(i) ==
    /\ runner[i] = "done"
    /\ runner' = [runner EXCEPT ![i] = "none"]
    /\ UNCHANGED <<state, store, phase, spent>>

-----------------------------------------------------------------------------
(* Time *)

\* A scheduled time is reached.
RootDue(r) ==
    /\ phase = "started"
    /\ state.roots[r].next = "later"
    /\ state' = [state EXCEPT !.roots[r].next = "due"]
    /\ store' = state'
    /\ UNCHANGED <<phase, runner, spent>>

\* The next attempt of a waiting scan is due.
ScanDue(i) ==
    /\ phase = "started"
    /\ i \in DOMAIN state.scans
    /\ state.scans[i].at = "later"
    /\ state' = [state EXCEPT !.scans[i].at = "due"]
    /\ store' = state'
    /\ UNCHANGED <<phase, runner, spent>>

-----------------------------------------------------------------------------
(* Specification *)

ScanStep(i) ==
    \/ Cancel(i)
    \/ Interrupt(i)
    \/ reportProgress(i)
    \/ Timeout(i)
    \/ Finish(i)
    \/ FinishFails(i)
    \/ Exit(i)
    \/ ScanDue(i)

RootStep(r) ==
    \/ \E rev \in Revisions, enabled \in BOOLEAN : ConfigureRoots(r, rev, enabled)
    \/ RetireRoot(r)
    \/ Trigger(r)
    \/ RootDue(r)

Next ==
    \/ Start
    \/ Stop
    \/ StopReturns
    \/ Restart
    \/ Tick
    \/ StartOne
    \/ \E i \in ScanIDs : ScanStep(i)
    \/ \E r \in Roots : RootStep(r)

Spec == Init /\ [][Next]_vars

\* What a runner and its goroutine do by themselves.
RunnerStep(i) ==
    \/ Interrupt(i)
    \/ Timeout(i)
    \/ runner[i] # "live" /\ Finish(i)
    \/ Exit(i)

\* The process is started, the loop polls, the clock advances, RunTimeout ends
\* every context, and a runner whose context has ended returns (the contract of
\* ScanRunner).
Fairness ==
    /\ WF_vars(Start \/ StopReturns)
    /\ WF_vars(Tick)
    /\ WF_vars(StartOne)
    /\ \A i \in ScanIDs : WF_vars(RunnerStep(i)) /\ WF_vars(ScanDue(i))

FairSpec == Spec /\ Fairness

-----------------------------------------------------------------------------
(* Properties *)

Snapshots == [roots : [Roots -> RootState], scans : Seq(ScanRecord)]

\* Every variable keeps its type, and a root's references are scans of the list.
TypeOK ==
    /\ \A snap \in {state, store} :
        /\ snap \in Snapshots
        /\ Len(snap.scans) <= MaxScans
        /\ \A r \in Roots :
            {snap.roots[r].active, snap.roots[r].last, snap.roots[r].complete}
                \subseteq {0} \cup DOMAIN snap.scans
    /\ phase \in {"new", "started", "stopping", "closed"}
    /\ runner \in [ScanIDs -> RunnerState]
    /\ spent \in [configs : 0..MaxConfigs, faults : 0..MaxFaults, restarts : 0..MaxRestarts]

\* Snapshot.Validate, which every commit must pass or be refused, never has to
\* refuse one: a root has at most one open scan, its ActiveScanID is exactly
\* that scan, every scan belongs to a configured root, and a retired root is
\* neither enabled nor scheduled.
ValidSnapshot(snap) ==
    /\ \A r \in Roots :
        /\ Open(snap, r) = IF snap.roots[r].active = 0 THEN {} ELSE {snap.roots[r].active}
        /\ snap.roots[r].retired => ~snap.roots[r].enabled /\ snap.roots[r].next = "none"
    /\ \A i \in DOMAIN snap.scans : snap.roots[snap.scans[i].root].rev # None

SnapshotValid == ValidSnapshot(state) /\ ValidSnapshot(store)

\* Evidence shown for a root was produced under its current configuration
\* revision, by a scan that has ended; what is shown as complete was complete
\* in the aggregate and in each source, with no page left (LastScanID,
\* LastCompleteScanID and the open scan, across reconfiguration and recovery).
EvidenceCurrent ==
    \A r \in Roots : LET root == store.roots[r] IN
        /\ \A i \in {root.active, root.last, root.complete} \ {0} :
            store.scans[i].root = r /\ store.scans[i].rev = root.rev
        /\ root.last # 0 => store.scans[root.last].state \in Terminal
        /\ root.complete # 0 =>
            LET s == store.scans[root.complete] IN
            /\ s.state = "succeeded" /\ s.complete /\ s.src = "complete" /\ ~s.cursor

\* A root has one runner at a time, also while the cancelled runner of an older
\* revision is still returning and its replacement is queued, and there are
\* never more than MaxConcurrent (selectQueuedScan, startOne).
OneRunnerPerRoot ==
    /\ Cardinality(Runners) <= MaxConcurrent
    /\ \A i, j \in Runners : i # j => state.scans[i].root # state.scans[j].root

\* A late result cannot erase a cancellation request (Cancel): a scan whose
\* cancellation was recorded ends as cancelled or not at all.
CancelWins ==
    \A i \in DOMAIN store.scans :
        store.scans[i].cancel => store.scans[i].state \notin Terminal \ {"cancelled"}

\* Stop returns after durable terminal updates: once the scheduler is closed no
\* scan it ran is still marked running, provided each result could be committed.
ClosedIsQuiet ==
    phase = "closed" /\ spent.faults = 0 =>
        \A i \in DOMAIN state.scans : state.scans[i].state # "running"

\* A retained follow-up is not lost: a step of a started scheduler that clears
\* it has admitted a new scan of the root, or has ended the open scan as
\* cancelled (Trigger, Tick, finish).
FollowUpHonoured ==
    [][\A r \in Roots :
        /\ phase = "started" /\ phase' = "started"
        /\ state.roots[r].follow /\ ~state'.roots[r].follow
        /\ ~state.roots[r].retired
        => \/ state'.roots[r].active > Len(state.scans)
           \/ state'.scans[state.roots[r].active].state = "cancelled"]_vars

CancelPending(i) ==
    /\ i \in DOMAIN store.scans
    /\ store.scans[i].cancel
    /\ store.scans[i].state \notin Terminal

\* A cancellation that was recorded takes effect, across the return of the
\* runner, Stop and restarts, unless a result could not be committed or the
\* process that found it was closed before it started.
CancelEnds ==
    \A i \in ScanIDs :
        CancelPending(i) ~> ~CancelPending(i) \/ spent.faults > 0 \/ phase = "closed"

\* No scan is forgotten: a queued scan is dispatched, a run returns, a waiting
\* scan is queued again when it is due, as long as the scheduler is not stopped,
\* each result can be committed and records may be added.
ScanMoves ==
    \A i \in ScanIDs : \A st \in {"queued", "running", "waiting"} :
        (i \in DOMAIN store.scans /\ store.scans[i].state = st) ~>
            \/ i \notin DOMAIN store.scans \/ store.scans[i].state # st
            \/ phase \in {"stopping", "closed"}
            \/ spent.faults > 0
            \/ Len(store.scans) = MaxScans

\* Stop ends: everything it waits for returns.
StopEnds == phase = "stopping" ~> phase # "stopping"

=============================================================================
