------------------------------- MODULE Trash --------------------------------
(***************************************************************************)
(* The recoverable trash (internal/trash/trash.go) with the statements and   *)
(* triggers its journal relies on: one trash entry, its items, the two       *)
(* janitor records, the payload files and the download client.               *)
(*                                                                           *)
(* A call (Trash, ReconcileTrash, RetryTrash, a purge, a restore) is run by a *)
(* goroutine in several steps: transactions on the journal, and effects on   *)
(* files and client.  In between other calls run, leases pass and the        *)
(* process may end.  Entry and records are guarded by versions; a call keeps *)
(* whether the version it holds is still the current one.                    *)
(***************************************************************************)
EXTENDS Integers, FiniteSets

LOCAL INSTANCE FiniteSetsExt

CONSTANTS
    Items,      \* the items of the entry, in the order of their paths
    Callers,    \* goroutines that run calls of the API
    Trashers,   \* those that call Trash with the ID of the entry
    Janitors,   \* goroutines that run ticks
    Clients,    \* bound: the states of the client the entry may start with
    MaxFaults,  \* bound: crashes, resumed downloads and clocks set back, together
    None

Workers == Callers \cup Janitors

ASSUME TrashAssumption ==
    /\ Items \subseteq Nat \ {0} /\ Items # {} /\ IsFiniteSet(Items)
    /\ Clients \subseteq {"none", "active", "stopped", "missing"}
    /\ MaxFaults \in Nat
    /\ Trashers \subseteq Callers
    /\ None \notin Workers /\ Callers \cap Janitors = {}

VARIABLES
    entry,   \* trash_entries
    item,    \* trash_items.state
    record,  \* janitor_records, by operation
    file,    \* where the payload of an item is
    client,  \* the download the entry is associated with
    faults,  \* how many faults have occurred
    call     \* what the goroutines are doing

vars == <<entry, item, record, file, client, faults, call>>

-----------------------------------------------------------------------------
(* Rows and calls *)

Operation == {"purge", "restore"}

\* due: expires_at has passed.  ahead: trashed_at is after the time of the clock.
\* retry: hold_reason begins with "trash_retry".
Entry ==
    [state : {"planned", "trashed", "restoring", "restored", "purging", "purged", "held"},
     op : Operation \cup {"none"}, lease : {"none", "live", "over"},
     trashedAt : BOOLEAN, ahead : BOOLEAN, due : BOOLEAN, retry : BOOLEAN]

\* wait: next_attempt_at is still ahead.  first: nothing wrote the row between
\* its creation and its approval, so that its version is the one of the action
\* run of the approval.  trash and scope are read from outcome_json: the
\* operation it tells of, and unresolved scope evidence.
JanitorRecord ==
    [state : {"queued", "running", "reconciling", "succeeded", "held"},
     lease : {"none", "live", "over"}, approved : BOOLEAN, wait : BOOLEAN,
     first : BOOLEAN, trash : BOOLEAN, scope : BOOLEAN]

\* What a call has come to: what the file port reports, what an observation
\* sees (TrashReconciliationState), how an operation ends.
Verdicts ==
    {"", "ok", "error", "foreign", "held", "succeeded", "reconciling",
     "trash_only", "source_only", "stale", "neither", "partial"}

Call ==
    [kind : {"trash", "reconcile", "retry"} \cup Operation,
     at : {"plan", "write", "claim", "verify", "stop", "move", "run", "mark", "finish"},
     todo : SUBSET Items, done : SUBSET Items, verdict : Verdicts,
     absent : BOOLEAN, scope : BOOLEAN, current : BOOLEAN]

\* The absence of a row or of a call is none of them.
ASSUME NoneAssumption == None \notin Entry \cup JanitorRecord \cup Call

TypeOK ==
    /\ entry \in Entry \cup {None}
    /\ item \in [Items -> {"selected", "trashed", "purged", "restored"}]
    /\ record \in [Operation -> JanitorRecord \cup {None}]
    /\ file \in [Items -> {"original", "trash", "aged", "gone"}]
    /\ client \in {"none", "active", "stopped", "missing", "removed"}
    /\ call \in [Workers -> Call \cup {None}]
    /\ faults \in 0..MaxFaults

\* "aged": in the trash for the retention period.
InTrash == {i \in Items : file[i] \in {"trash", "aged"}}
Original == {i \in Items : file[i] = "original"}
Ended == {"purged", "restored"}
Pending == {i \in Items : item[i] = "selected"}

Busy(kinds) == {w \in Workers : call[w] # None /\ call[w].kind \in kinds}

\* The calls of these kinds hold a version that is no longer the current one.
Outdated(kinds) ==
    [w \in Workers |->
        IF w \in Busy(kinds) THEN [call[w] EXCEPT !.current = FALSE] ELSE call[w]]

Begin(w, kind, at) ==
    [kind |-> kind, at |-> at, todo |-> {}, done |-> {}, verdict |-> "",
     absent |-> FALSE, scope |-> FALSE, current |-> TRUE]

\* The calls that hold a version of the entry.
EntryCalls == {"reconcile", "retry"}

Idle(w) == call[w] = None
At(w, kind, at) == call[w] # None /\ call[w].kind = kind /\ call[w].at = at

\* validateEntryClock
ClockHolds == entry.trashedAt /\ ~entry.ahead

Init ==
    /\ entry = None
    /\ item = [i \in Items |-> "selected"]
    /\ record = [op \in Operation |-> None]
    /\ file = [i \in Items |-> "original"]
    /\ client \in Clients
    /\ faults = 0
    /\ call = [w \in Workers |-> None]

Queued ==
    [state |-> "queued", lease |-> "none", approved |-> FALSE, wait |-> FALSE,
     first |-> TRUE, trash |-> FALSE, scope |-> FALSE]

\* The entry after its state was set by UpdateTrashEntryState: no operation.
Held(e) ==
    [e EXCEPT !.state = "held", !.op = "none", !.lease = "none",
              !.trashedAt = FALSE, !.ahead = FALSE, !.retry = FALSE]

\* Mutant of Materialized: retention counts from the creation of the entry.
MaterializedSinceCreation(e) ==
    [e EXCEPT !.state = "trashed", !.op = "none", !.lease = "none",
              !.trashedAt = TRUE, !.ahead = FALSE, !.retry = FALSE]

\* Retention starts when the payload is known to be in the trash.
Materialized(e) ==
    [e EXCEPT !.state = "trashed", !.op = "none", !.lease = "none",
              !.trashedAt = TRUE, !.ahead = FALSE, !.due = FALSE, !.retry = FALSE]

Marked(items, state, from) ==
    [i \in Items |-> IF i \in items /\ item[i] \in from THEN state ELSE item[i]]

-----------------------------------------------------------------------------
(* The client and the file ports *)

\* What ensureStopped may come to: stopped, found missing, or no answer.
Stops ==
    CASE client = "none" -> {"skipped"}
      [] client \in {"missing", "removed"} -> {"missing", "failed"}
      [] OTHER -> {"stopped", "failed"}

\* A stop that fails may have reached the client.
StoppedBy(outcome) ==
    CASE outcome = "stopped" -> {"stopped"}
      [] outcome = "failed" /\ client = "active" -> {"active", "stopped"}
      [] OTHER -> {client}

\* The file port moves some of the items to the trash and reports what it
\* moved, all of it or, with an error, nothing; a foreign object may be in it.
Moves(w, wanted) ==
    \E moved \in SUBSET (wanted \cap Original) :
       \E verdict \in {"ok", "error", "foreign"} :
          \E reported \in {moved} \cup (IF verdict = "error" THEN {{}} ELSE {}) :
             /\ file' = [i \in Items |-> IF i \in moved THEN "trash" ELSE file[i]]
             /\ call' = [call EXCEPT
                   ![w].at = "finish", ![w].done = reported, ![w].verdict = verdict,
                   ![w].scope = (verdict = "foreign")]

-----------------------------------------------------------------------------
(* Trash *)

\* Trash finds no entry of its ID and the sources as they are requested
\* (preflightSource).
Trash(w) ==
    /\ Idle(w) /\ w \in Trashers
    /\ entry = None
    /\ call' = [call EXCEPT ![w] = Begin(w, "trash", "plan")]
    /\ UNCHANGED <<entry, item, record, file, client, faults>>

\* ensurePlannedEntry creates the entry with its purge record, or finds one that
\* was created since; Trash goes on to dispatch in either case.
TrashPlan(w) ==
    /\ At(w, "trash", "plan")
    /\ IF entry = None
       THEN /\ entry' = [state |-> "planned", op |-> "none", lease |-> "none",
                         trashedAt |-> FALSE, ahead |-> FALSE, due |-> FALSE, retry |-> FALSE]
            /\ record' = [record EXCEPT !["purge"] = Queued]
       ELSE UNCHANGED <<entry, record>>
    /\ call' = [call EXCEPT ![w].at = "stop"]
    /\ UNCHANGED <<item, file, client, faults>>

\* The purge record of a failed trash.
HeldPurge(scope) ==
    IF record["purge"].state # "queued" THEN record
    ELSE [record EXCEPT !["purge"] =
            [@ EXCEPT !.state = "held", !.first = FALSE, !.trash = FALSE, !.scope = scope]]

\* The client is stopped (persistClientObservation), or the entry is held.
TrashStop(w) ==
    /\ At(w, "trash", "stop")
    /\ \E outcome \in Stops :
          /\ client' \in StoppedBy(outcome)
          /\ IF outcome = "failed"
             THEN /\ entry' = Held(entry)
                  /\ record' = HeldPurge(FALSE)
                  /\ call' = [Outdated(EntryCalls) EXCEPT ![w] = None]
             ELSE /\ call' = [(IF outcome = "skipped" THEN call ELSE Outdated(EntryCalls))
                                 EXCEPT ![w].at = "move"]
                  /\ UNCHANGED <<entry, record>>
    /\ UNCHANGED <<item, file, faults>>

TrashMove(w) ==
    /\ At(w, "trash", "move")
    /\ Moves(w, Items)
    /\ UNCHANGED <<entry, item, record, client, faults>>

\* finalizeTrash and finishTrashState, on the entry as it is by now.
TrashFinish(w) ==
    /\ At(w, "trash", "finish")
    /\ LET live == {i \in Items : item[i] \notin Ended}
           reported == call[w].done
           exact == reported = live /\ call[w].verdict # "foreign"
       IN  /\ item' = Marked(reported \cap live, "trashed", {"selected"})
           /\ IF exact /\ reported # {} /\ call[w].verdict = "ok"
              THEN entry' = Materialized(entry) /\ UNCHANGED record
              ELSE entry' = Held(entry) /\ record' = HeldPurge(~exact)
    /\ call' = [Outdated(EntryCalls) EXCEPT ![w] = None]
    /\ UNCHANGED <<file, client, faults>>

-----------------------------------------------------------------------------
(* ReconcileTrash and RetryTrash *)

Gone == {i \in Items : file[i] = "gone"}

\* observePlannedTrash: what the files say of an intent to trash them.
Disposition ==
    LET rest == Items \ Pending \subseteq InTrash
    IN  CASE ~rest -> "stale"
          [] rest /\ Pending \cap Gone # {} -> "neither"
          [] rest /\ Pending # {} /\ Pending \subseteq Original -> "source_only"
          [] InTrash = Items -> "trash_only"
          [] OTHER -> "partial"

\* isHeldTrashRetry
HeldRetry == entry.state = "held" /\ entry.retry /\ record["purge"].trash

\* A planned entry, or one held by a retry, is observed: by a tick, by a call,
\* or by a retry before it claims.  The verdict is kept for the write.
ReconcileRead(w) ==
    /\ Idle(w)
    /\ entry # None /\ (entry.state = "planned" \/ HeldRetry) /\ entry.op = "none"
    /\ \E kind \in EntryCalls, seen \in {Disposition, "neither"} :
          /\ w \in (IF kind = "retry" THEN Callers ELSE Janitors)
          /\ call' = [call EXCEPT ![w] = [Begin(w, kind, "write") EXCEPT !.verdict = seen]]
    /\ UNCHANGED <<entry, item, record, file, client, faults>>

\* persistTrashReconciliation: whatever the verdict, the purge record now
\* tells of the trash operation; it is held only with the entry.
ReconcileWrite(w) ==
    LET seen == call[w].verdict
        scope == record["purge"].scope
        found == seen = "trash_only" /\ ~scope
        left == seen = "source_only"
    IN  /\ \E kind \in EntryCalls : At(w, kind, "write")
        /\ IF ~(call[w].current /\ entry.op = "none" /\ entry.state \in {"planned", "held"})
           THEN /\ call' = [call EXCEPT ![w] = None]
                /\ UNCHANGED <<entry, item, record>>
           ELSE /\ item' = IF seen = "trash_only" THEN Marked(Items, "trashed", {"selected"})
                           ELSE item
                /\ entry' = CASE found -> Materialized(entry)
                              [] left -> entry
                              [] OTHER -> [entry EXCEPT !.state = "held"]
                /\ record' = [record EXCEPT !["purge"] =
                      [@ EXCEPT !.state = IF found \/ left THEN record["purge"].state ELSE "held",
                                !.lease = "none", !.wait = FALSE, !.first = FALSE,
                                !.trash = TRUE]]
                /\ call' = [(IF left THEN call ELSE Outdated(EntryCalls)) EXCEPT
                      ![w] = IF call[w].kind = "retry" /\ left /\ Pending # {}
                                   /\ (entry.state = "planned" \/ ~scope)
                             THEN Begin(w, "retry", "claim") ELSE None]
        /\ UNCHANGED <<file, client, faults>>

\* Calls that move files of the entry, or are about to.
Moving(w) ==
    {v \in Busy({"trash", "retry"}) \ {w} : call[v].at \in {"plan", "stop", "move", "finish"}}

\* claimPlannedTrash takes the purge slot of the entry.  A retry is given only
\* when the call it is to repeat has ended (assumed of the caller).
RetryClaim(w) ==
    /\ At(w, "retry", "claim")
    /\ Moving(w) = {}
    /\ IF /\ entry.op = "none" /\ ~record["purge"].approved
          /\ \/ entry.state = "planned" /\ record["purge"].state = "queued"
             \/ /\ entry.state = "held" /\ record["purge"].state = "held"
                /\ record["purge"].trash /\ ~record["purge"].scope
       THEN /\ entry' = [entry EXCEPT !.op = "purge", !.lease = "live"]
            /\ record' = [record EXCEPT !["purge"] =
                  [@ EXCEPT !.state = "queued", !.wait = FALSE, !.first = FALSE]]
            /\ call' = [Outdated(EntryCalls) EXCEPT ![w] = Begin(w, "retry", "stop")]
       ELSE call' = [call EXCEPT ![w] = None] /\ UNCHANGED <<entry, record>>
    /\ UNCHANGED <<item, file, client, faults>>

\* dispatchPlannedTrash: the sources are looked at, then the client is stopped.
RetryStop(w) ==
    /\ At(w, "retry", "stop")
    /\ \E outcome \in Stops \cup {"changed"} :
          /\ client' \in IF Pending \subseteq Original THEN StoppedBy(outcome) ELSE {client}
          /\ IF outcome \in {"failed", "missing", "changed"} \/ ~(Pending \subseteq Original)
             THEN call' = [call EXCEPT ![w].at = "finish", ![w].verdict = "error"]
             ELSE call' = [(IF outcome = "skipped" THEN call ELSE Outdated(EntryCalls))
                              EXCEPT ![w].at = "move"]
    /\ UNCHANGED <<entry, item, record, file, faults>>

RetryMove(w) ==
    /\ At(w, "retry", "move")
    /\ Moves(w, Pending)
    /\ UNCHANGED <<entry, item, record, client, faults>>

\* finishClaimedTrash
RetryFinish(w) ==
    LET reported == call[w].done
        complete == reported = Pending /\ reported # {} /\ call[w].verdict = "ok"
    IN  /\ At(w, "retry", "finish")
        /\ IF ~(entry.state \in {"planned", "held"} /\ entry.op = "purge")
           THEN /\ call' = [call EXCEPT ![w] = None]
                /\ UNCHANGED <<entry, item, record>>
           ELSE /\ item' = Marked(reported, "trashed", {"selected"})
                /\ entry' = IF complete THEN Materialized(entry)
                            ELSE [entry EXCEPT !.state = "held", !.op = "none",
                                               !.lease = "none", !.retry = TRUE]
                /\ record' = [record EXCEPT !["purge"] =
                      [@ EXCEPT !.state = IF complete THEN "queued" ELSE "held",
                                !.lease = "none", !.wait = FALSE, !.trash = TRUE,
                                !.first = FALSE, !.scope = (call[w].verdict = "foreign")]]
                /\ call' = [Outdated(EntryCalls) EXCEPT ![w] = None]
        /\ UNCHANGED <<file, client, faults>>

\* recoverExpiredPlannedTrashClaim
RecoverPlanned ==
    /\ entry # None /\ entry.state \in {"planned", "held"}
    /\ entry.op = "purge" /\ entry.lease # "live"
    /\ entry' = [entry EXCEPT !.op = "none", !.lease = "none"]
    /\ call' = Outdated(EntryCalls)
    /\ UNCHANGED <<item, record, file, client, faults>>

-----------------------------------------------------------------------------
(* Claims of the two operations *)

\* ensureJanitorRecord of a Restore call, whether its claim comes to pass or not.
RequestRestore ==
    /\ entry # None /\ entry.state \notin Ended /\ ClockHolds
    /\ record["restore"] = None
    /\ record' = [record EXCEPT !["restore"] = Queued]
    /\ UNCHANGED <<entry, item, file, client, faults, call>>

ActiveState(op) == IF op = "purge" THEN "purging" ELSE "restoring"

\* What janitor_records_claim_trash_entry lets an operation start from.
Eligible(op) ==
    \/ entry.op = op /\ entry.state = ActiveState(op)
    \/ op = "purge" /\ entry.state = "trashed" /\ entry.due
    \/ op = "restore" /\ entry.state \in {"trashed", "held"}

\* ClaimJanitorRecord and its triggers.
Claimable(op) ==
    /\ record[op] # None /\ record[op].state \in {"queued", "reconciling"}
    /\ ~record[op].approved /\ ~record[op].wait
    /\ entry.op \in {"none", op} /\ (entry.op = "none" \/ entry.lease # "live")
    /\ Eligible(op)

Claimed(w, op, approved, at) ==
    /\ record' = [record EXCEPT ![op] =
          [@ EXCEPT !.state = "running", !.lease = "live", !.approved = approved,
                    !.first = approved /\ record[op].first]]
    /\ entry' = [entry EXCEPT !.state = ActiveState(op), !.op = op, !.lease = "live"]
    /\ call' = [Outdated(EntryCalls \cup {op}) EXCEPT ![w] = Begin(w, op, at)]

\* Tick, Restore and Purge take a record that is due.
Claim(w, op) ==
    /\ Idle(w) /\ entry # None
    /\ Claimable(op)
    /\ Claimed(w, op, FALSE, "stop")
    /\ UNCHANGED <<item, file, client, faults>>

\* claimApprovedEarlyPurge: an approval of the entry as it is, due or not.
ClaimApproved(w) ==
    /\ Idle(w) /\ entry # None /\ ClockHolds
    /\ record["purge"].state = "queued" /\ ~record["purge"].approved
    /\ entry.state = "trashed" /\ entry.op = "none"
    /\ Claimed(w, "purge", TRUE, "verify")
    /\ UNCHANGED <<item, file, client, faults>>

\* claimApprovedEarlyPurgeReconciliation
ClaimApprovedAgain(w) ==
    /\ Idle(w) /\ entry # None
    /\ record["purge"].state = "reconciling" /\ ~record["purge"].wait
    /\ record["purge"].approved /\ record["purge"].first
    /\ entry.state = "purging" /\ entry.op = "purge" /\ entry.lease = "none"
    /\ Claimed(w, "purge", TRUE, "verify")
    /\ UNCHANGED <<item, file, client, faults>>

\* janitor_records_approved_recovery_action: a running record goes back to
\* reconciling only if its version is the one of the approved action run.
Fenced(r) == ~r.approved \/ r.first

\* The record is put back to reconciling; the entry keeps the operation.
Reconciling(ops, wait) ==
    /\ record' = [op \in Operation |->
          IF op \in ops THEN [record[op] EXCEPT !.state = "reconciling", !.lease = "none",
                                                !.wait = wait \/ @]
          ELSE record[op]]
    /\ entry' = IF entry.op \in ops THEN [entry EXCEPT !.lease = "none"] ELSE entry

\* Reconcile finds every remaining target where the operation expects it.
Verified(op) ==
    /\ ClockHolds
    /\ record[op] # None => ~record[op].scope
    /\ op = "purge" => client # "active"
    /\ \A i \in Items : item[i] \notin Ended =>
          file[i] \in {"trash", "aged"} \cup (IF op = "restore" THEN {"original"} ELSE {})

\* reconcileBeforePurgeDispatch: an approved purge is run when the read-back
\* agrees, and is released (releaseClaimForReconciliation) when it does not.
VerifyPurge(w) ==
    /\ At(w, "purge", "verify")
    /\ \/ /\ Verified("purge")
          /\ call' = [call EXCEPT ![w].at = "stop"]
          /\ UNCHANGED <<entry, record>>
       \/ /\ call[w].current /\ Fenced(record["purge"])
          /\ Reconciling({"purge"}, TRUE)
          /\ call' = [Outdated(EntryCalls \cup {"purge"}) EXCEPT ![w] = None]
       \/ /\ ~(call[w].current /\ Fenced(record["purge"]))
          /\ call' = [call EXCEPT ![w] = None]
          /\ UNCHANGED <<entry, record>>
    /\ UNCHANGED <<item, file, client, faults>>

-----------------------------------------------------------------------------
(* Purge and restore *)

\* Items are taken in the order of their paths (ListTrashItems).
First(c) == Min(c.todo)

Turn(w, at) == call' = [call EXCEPT ![w].at = at]

\* Mutant of Rest: the loop ends one item early.
RestEarly(c, todo, at) ==
    [c EXCEPT !.todo = todo,
              !.at = IF Cardinality(todo) < 2 /\ c.todo # {} THEN "finish" ELSE at,
              !.verdict = IF Cardinality(todo) < 2 /\ c.todo # {} THEN "succeeded" ELSE ""]

\* The verdict of a run over the items of todo, once none is left.
Rest(c, todo, at) ==
    [c EXCEPT !.todo = todo, !.at = IF todo = {} THEN "finish" ELSE at,
              !.verdict = IF todo = {} THEN "succeeded" ELSE ""]

\* Mutant of Verdict: the item that failed is reported with the others.
VerdictDone(c, verdict, scope) ==
    [c EXCEPT !.at = "finish", !.verdict = verdict, !.scope = scope,
              !.done = @ \cup (IF c.todo = {} THEN {} ELSE {First(c)})]

Verdict(c, verdict, scope) ==
    [c EXCEPT !.at = "finish", !.verdict = verdict, !.scope = scope]

\* runPurge passes over the items that are purged, runRestore over both.
PurgeTodo == {i \in Items : item[i] # "purged"}

\* runPurge loads the entry and stops the client.
PurgeStart(w) ==
    /\ At(w, "purge", "stop")
    /\ IF entry.state = "purging" /\ entry.op = "purge"
       THEN \E outcome \in Stops :
              /\ client' \in StoppedBy(outcome)
              /\ call' = [call EXCEPT ![w] =
                    IF outcome = "failed" THEN Verdict(@, "held", FALSE)
                    ELSE [@ EXCEPT !.at = "run", !.todo = PurgeTodo,
                                   !.absent = outcome \in {"skipped", "missing"}]]
       ELSE call' = [call EXCEPT ![w] = None] /\ UNCHANGED client
    /\ UNCHANGED <<entry, item, record, file, faults>>

\* The next item, with the client stopped once more: deleted, or left with an
\* error and perhaps without a report; nothing of it is recorded yet.
PurgeItem(w) ==
    /\ At(w, "purge", "run") /\ call[w].todo # {}
    /\ LET i == First(call[w])
           After(c) == [c EXCEPT !.todo = @ \ {i}, !.done = @ \cup {i}]
       IN  \E outcome \in IF call[w].absent THEN {"skipped"} ELSE Stops :
              /\ client' \in StoppedBy(outcome)
              /\ \/ /\ outcome = "failed" \/ i \notin InTrash
                    /\ call' = [call EXCEPT ![w] = Verdict(@, "held", FALSE)]
                    /\ UNCHANGED file
                 \/ /\ outcome # "failed" /\ i \in InTrash
                    /\ file' = [file EXCEPT ![i] = "gone"]
                    /\ \E next \in {After([call[w] EXCEPT !.absent = @ \/ outcome = "missing"]),
                                    Verdict(call[w], "held", FALSE), Verdict(call[w], "held", TRUE)} :
                          call' = [call EXCEPT ![w] = next]
                 \/ /\ outcome # "failed" /\ i \in InTrash
                    /\ call' = [call EXCEPT ![w] = Verdict(@, "held", TRUE)]
                    /\ UNCHANGED file
    /\ UNCHANGED <<entry, item, record, faults>>

\* The record of the client goes last.
PurgeRemove(w) ==
    /\ At(w, "purge", "run") /\ call[w].todo = {}
    /\ \/ /\ client' = IF call[w].absent THEN client ELSE "removed"
          /\ call' = [call EXCEPT ![w] = Verdict(@, "succeeded", FALSE)]
       \/ /\ ~call[w].absent
          /\ client' \in {client, "removed"}
          /\ call' = [call EXCEPT ![w] = Verdict(@, "held", FALSE)]
    /\ UNCHANGED <<entry, item, record, file, faults>>

\* runRestore
RestoreStart(w) ==
    /\ At(w, "restore", "stop")
    /\ IF entry.state = "restoring" /\ entry.op = "restore"
       THEN call' = [call EXCEPT ![w] = Rest(@, {i \in Items : item[i] \notin Ended}, "run")]
       ELSE call' = [call EXCEPT ![w] = None]
    /\ UNCHANGED <<entry, item, record, file, client, faults>>

\* The next item is moved back, or found where it belongs; it is marked at once.
RestoreItem(w) ==
    /\ At(w, "restore", "run")
    /\ LET i == First(call[w])
       IN  \/ /\ file[i] = "gone"
              /\ call' = [call EXCEPT ![w] = Verdict(@, "held", FALSE)]
              /\ UNCHANGED file
           \/ /\ file[i] = "original"
              /\ Turn(w, "mark")
              /\ UNCHANGED file
           \/ /\ i \in InTrash
              /\ file' = [file EXCEPT ![i] = "original"]
              /\ \E next \in {[call[w] EXCEPT !.at = "mark"],
                              Verdict(call[w], "held", FALSE), Verdict(call[w], "held", TRUE)} :
                    call' = [call EXCEPT ![w] = next]
           \/ /\ i \in InTrash
              /\ call' = [call EXCEPT ![w] = Verdict(@, "held", TRUE)]
              /\ UNCHANGED file
    /\ UNCHANGED <<entry, item, record, client, faults>>

RestoreMark(w) ==
    /\ At(w, "restore", "mark")
    /\ LET i == First(call[w])
       IN  /\ item' = Marked({i}, "restored", {"selected", "trashed"})
           /\ call' = [call EXCEPT ![w] = Rest(@, @.todo \ {i}, "run")]
    /\ UNCHANGED <<entry, record, file, client, faults>>

\* The context of the call ends between two items.
RunCancelled(w) ==
    /\ \E op \in Operation : At(w, op, "run")
    /\ call[w].todo # {}
    /\ call' = [call EXCEPT ![w] = Verdict(@, "reconciling", FALSE)]
    /\ UNCHANGED <<entry, item, record, file, client, faults>>

\* janitor_records_finish_trash_entry
EntryAfter(e, op, verdict) ==
    IF e.op # op THEN e
    ELSE [e EXCEPT !.op = "none", !.lease = "none",
                   !.state = CASE verdict = "held" -> "held"
                               [] verdict # "held" /\ op = "purge" -> "purged"
                               [] OTHER -> "restored"]

\* finishClaim, in one transaction on the version that was claimed.
Finish(w) ==
    \E op \in Operation :
       LET verdict == call[w].verdict
       IN  /\ At(w, op, "finish")
           /\ call[w].current
           /\ item' = IF op = "purge" THEN Marked(call[w].done, "purged", {"selected", "trashed"})
                      ELSE item
           /\ IF verdict = "reconciling"
              THEN /\ Fenced(record[op])
                   /\ record' = [record EXCEPT ![op] =
                        [@ EXCEPT !.state = "reconciling", !.lease = "none", !.wait = TRUE,
                                  !.trash = FALSE, !.scope = FALSE]]
                   /\ entry' = IF entry.op = op THEN [entry EXCEPT !.lease = "none"] ELSE entry
              ELSE /\ record' = [record EXCEPT ![op] =
                        [@ EXCEPT !.state = verdict, !.lease = "none", !.wait = FALSE,
                                  !.first = FALSE, !.trash = FALSE, !.scope = call[w].scope]]
                   /\ entry' = EntryAfter(entry, op, verdict)
           /\ call' = [Outdated(EntryCalls \cup {op}) EXCEPT ![w] = None]
           /\ UNCHANGED <<file, client, faults>>

\* The call ends with nothing recorded: the version is gone, or the journal fails.
FinishFails(w) ==
    /\ \E op \in Operation : At(w, op, "finish") \/ At(w, op, "mark")
    /\ call' = [call EXCEPT ![w] = None]
    /\ UNCHANGED <<entry, item, record, file, client, faults>>

-----------------------------------------------------------------------------
(* Holds, retries and recovery *)

\* Restore and Purge refuse a clock that contradicts the entry (holdEntry): an
\* operation under way is held with the entry, else the entry alone is.
HoldByClock(op) ==
    /\ entry # None /\ entry.state \notin Ended /\ ~ClockHolds
    /\ IF record[op] # None /\ record[op].state \in {"running", "reconciling"}
       THEN /\ record' = [record EXCEPT ![op] =
                  [@ EXCEPT !.state = "held", !.lease = "none", !.wait = FALSE,
                            !.first = FALSE, !.trash = FALSE, !.scope = FALSE]]
            /\ entry' = EntryAfter(entry, op, "held")
            /\ call' = Outdated(EntryCalls \cup {op})
       ELSE /\ entry' = Held(entry)
            /\ call' = Outdated(EntryCalls)
            /\ UNCHANGED record
    /\ UNCHANGED <<item, file, client, faults>>

\* Retry of a held operation whose targets were verified: requeueHeld.
Retry(op) ==
    /\ entry # None /\ entry.state = "held" /\ entry.op = "none"
    /\ Verified(op)
    /\ record[op] # None /\ record[op].state = "held"
    /\ entry' = [entry EXCEPT !.state = IF op = "purge" THEN "trashed" ELSE "held",
                              !.retry = FALSE]
    /\ record' = [record EXCEPT ![op] =
          [@ EXCEPT !.state = "queued", !.lease = "none", !.wait = FALSE, !.first = FALSE]]
    /\ call' = Outdated(EntryCalls \cup {op})
    /\ UNCHANGED <<item, file, client, faults>>

Running(op) == record[op] # None /\ record[op].state = "running"

Overdue == {op \in Operation : Running(op) /\ record[op].lease = "over"}

\* RecoverExpiredJanitorRecords, with which every tick begins: one statement,
\* aborted by a record it cannot put back.
RecoverExpired ==
    /\ Overdue # {} /\ \A op \in Overdue : Fenced(record[op])
    /\ Reconciling(Overdue, FALSE)
    /\ call' = Outdated(EntryCalls \cup Overdue)
    /\ UNCHANGED <<item, file, client, faults>>

\* Recover of a process that starts, before it takes calls: RecoverRunningJanitorRecords.
RecoverRunning ==
    LET ops == {op \in Operation : Running(op)}
    IN  /\ \A w \in Workers : Idle(w)
        /\ ops # {} /\ \A op \in ops : Fenced(record[op])
        /\ Reconciling(ops, FALSE)
        /\ UNCHANGED <<item, file, client, faults, call>>

-----------------------------------------------------------------------------
(* Time, the outside and crashes *)

LeasesPass ==
    /\ entry # None /\ ~entry.ahead
    /\ entry.lease = "live" \/ \E op \in Operation : Running(op) /\ record[op].lease = "live"
    /\ entry' = [entry EXCEPT !.lease = IF @ = "live" THEN "over" ELSE @]
    /\ record' = [op \in Operation |->
          IF Running(op) THEN [record[op] EXCEPT !.lease = "over"] ELSE record[op]]
    /\ UNCHANGED <<item, file, client, faults, call>>

RetryPasses(op) ==
    /\ record[op] # None /\ record[op].wait /\ ~entry.ahead
    /\ record' = [record EXCEPT ![op].wait = FALSE]
    /\ UNCHANGED <<entry, item, file, client, faults, call>>

\* expires_at passes: what lay in the trash since trashed_at has aged.
RetentionPasses ==
    /\ entry # None /\ entry.state # "purged" /\ ~entry.due /\ ~entry.ahead
    /\ entry' = [entry EXCEPT !.due = TRUE]
    /\ file' = [i \in Items |-> IF entry.trashedAt /\ file[i] = "trash" THEN "aged" ELSE file[i]]
    /\ UNCHANGED <<item, record, client, faults, call>>

Fault == faults < MaxFaults /\ faults' = faults + 1

ClientResumes ==
    /\ client = "stopped"
    /\ client' = "active"
    /\ Fault
    /\ UNCHANGED <<entry, item, record, file, call>>

\* The clock of the host is set back beyond trashed_at, and gets there again.
ClockBack ==
    /\ entry # None /\ entry.trashedAt /\ ~entry.ahead
    /\ Fault
    /\ entry' = [entry EXCEPT !.ahead = TRUE, !.due = FALSE]
    /\ UNCHANGED <<item, record, file, client, call>>

ClockSet ==
    /\ entry # None /\ entry.ahead
    /\ entry' = [entry EXCEPT !.ahead = FALSE]
    /\ UNCHANGED <<item, record, file, client, faults, call>>

Crash ==
    /\ \E w \in Workers : ~Idle(w)
    /\ Fault
    /\ call' = [w \in Workers |-> None]
    /\ UNCHANGED <<entry, item, record, file, client>>

-----------------------------------------------------------------------------
(* The service *)

\* One step of the call a worker runs.
Step(w) ==
    \/ TrashPlan(w) \/ TrashStop(w) \/ TrashMove(w) \/ TrashFinish(w)
    \/ ReconcileWrite(w)
    \/ RetryClaim(w) \/ RetryStop(w) \/ RetryMove(w) \/ RetryFinish(w)
    \/ VerifyPurge(w)
    \/ PurgeStart(w) \/ PurgeItem(w) \/ PurgeRemove(w)
    \/ RestoreStart(w) \/ RestoreItem(w) \/ RestoreMark(w)
    \/ RunCancelled(w) \/ Finish(w) \/ FinishFails(w)

\* Trash, RetryTrash, Restore and Purge with an approval, called by a user.
Request(w) ==
    Trash(w) \/ ReconcileRead(w) \/ Claim(w, "restore") \/ ClaimApproved(w)

\* Tick
Tick(w) ==
    \/ ReconcileRead(w) \/ ClaimApprovedAgain(w)
    \/ \E op \in Operation : Claim(w, op)

Environment ==
    \/ LeasesPass \/ RetentionPasses \/ ClientResumes \/ ClockBack \/ ClockSet \/ Crash
    \/ \E op \in Operation : RetryPasses(op)

Next ==
    \/ \E w \in Callers : Request(w)
    \/ \E w \in Janitors : Tick(w)
    \/ \E w \in Workers : Step(w)
    \/ RequestRestore \/ RecoverPlanned \/ RecoverExpired \/ RecoverRunning
    \/ \E op \in Operation : HoldByClock(op) \/ Retry(op)
    \/ Environment

Spec == Init /\ [][Next]_vars

\* Calls end, time passes, and the ticker calls Tick again and again.
Fairness ==
    /\ \A w \in Workers : WF_vars(Step(w))
    /\ WF_vars(LeasesPass) /\ WF_vars(ClockSet)
    /\ WF_vars(RecoverExpired) /\ WF_vars(RecoverPlanned)
    /\ WF_vars(\E w \in Janitors : ReconcileRead(w))

FairSpec == Spec /\ Fairness

-----------------------------------------------------------------------------
(* Properties *)

\* An item is recorded as purged or restored only when its payload is gone, or
\* back, across errors without a report, crashes between the effect and the one
\* transaction that records it, and runs that overlap after a lease.  The rows
\* stay well formed.
RecordedMeansDone ==
    /\ TypeOK
    /\ \A i \in Items :
          /\ item[i] = "purged" => file[i] = "gone"
          /\ item[i] = "restored" => file[i] = "original"

\* No entry that ended, and no operation that succeeded, leaves a payload
\* behind in the trash, where nothing would look for it again; and the record
\* of the client is removed last: as long as payload is in the trash, the
\* download it belongs to is known.
NothingLeftBehind ==
    /\ entry # None /\ entry.state \in Ended => InTrash = {}
    /\ \A op \in Operation :
          record[op] # None /\ record[op].state = "succeeded" => InTrash = {}
    /\ client = "removed" => InTrash = {}

\* Without an approval no payload is deleted before it has been in the trash for
\* its retention, however the trash was recorded and whatever was held, retried
\* or recovered since.
NeverEarly ==
    [][(\E i \in Items : file[i] = "trash" /\ file'[i] = "gone")
          => record["purge"].approved]_vars

\* A running record that is abandoned is put back to reconciling in the end.
AbandonedReconciled == \A op \in Operation : Running(op) ~> ~Running(op)

=============================================================================
