----------------------------- MODULE Idempotency -----------------------------
(***************************************************************************)
(* Idempotency keys of the HTTP API (internal/transport/server.go,           *)
(* idempotency_recovery.go) over the SQLite journal of keys                  *)
(* (cmd/mastarr/persistence.go): requests that create, patch or delete one   *)
(* connection, the key's rows, the pending and replay maps of the process,   *)
(* the configuration in memory and the one in the database.                  *)
(*                                                                           *)
(* A request looks its key up, owns or waits for it, reserves it, runs the   *)
(* handler, and completes the key with the response.  A key left reserved is *)
(* completed by a later request, if the handler's transaction left a mark of *)
(* its effect and the configuration still shows it.                          *)
(***************************************************************************)
EXTENDS Integers, FiniteSets

CONSTANTS
    Keys,         \* idempotency keys (with the method and path they were sent to)
    Bodies,       \* function: the requests clients send under a key
    Starts,       \* configurations the server may start with
    CacheLimit,   \* maxIdempotencyEntries
    MaxRequests,  \* bound: requests sent
    MaxFaults,    \* bound: failed transactions, reloads, disconnects, crashes
    None

Requests == 1 .. MaxRequests
Intents == UNION {Bodies[k] : k \in Keys}
Values == {i.value : i \in Intents}

\* The row of the connection.  A revision is a hash of the content: the value.
Absent == [state |-> "absent", value |-> None]
Active(v) == [state |-> "active", value |-> v]
Retired(v) == [state |-> "retired", value |-> v]
Configurations == {Absent} \cup {Active(v) : v \in Values} \cup {Retired(v) : v \in Values}

\* What a response comes to: 2xx, 4xx, 5xx.
Answers == {"ok", "refused", "error"}

ASSUME IdempotencyAssumption ==
    /\ \A i \in Intents : i.op \in {"create", "patch", "delete"} /\ i.match \in Values
    /\ Starts \subseteq Configurations
    /\ CacheLimit \in Nat \ {0} /\ MaxRequests \in Nat /\ MaxFaults \in Nat
    /\ None \notin Requests /\ None \notin Values /\ None \notin Intents
    /\ None \notin Keys /\ None \notin Configurations /\ None \notin Answers

VARIABLES
    resource,  \* the connection in the database
    manager,   \* the connection in memory, None when no manager is installed
    gate,      \* the request that holds configurationGate over a failed mutation
    journal,   \* the latest row of idempotency_records of each key
    pending,   \* requests in flight, by key
    cache,     \* responses kept for replay, by key
    req,       \* the requests
    faults,
    done,      \* history: intents a key has committed
    changes    \* history: how often a key has changed the connection (up to 2)

vars == <<resource, manager, gate, journal, pending, cache, req, faults, done, changes>>
memory == <<manager, gate, pending, cache>>
history == <<done, changes>>

-----------------------------------------------------------------------------
(* Rows and requests *)

\* attempt: the request that reserved the key.  effect: the revision its
\* transaction recorded.
Row ==
    [state : {"none", "reserved", "completed", "released"},
     intent : Intents \cup {None}, attempt : Requests \cup {None},
     effect : Values \cup {None}, answer : Answers \cup {None}]
NoRow == [state |-> "none", intent |-> None, attempt |-> None, effect |-> None, answer |-> None]

\* owner: registered in pending.  waits: the owner it waits for.  row: the row
\* recovery has read.  gone: the client is, and its context cancelled.
Request ==
    [at : {"new", "lookup", "reload", "recover", "settle", "begin", "wait", "reserve",
           "handle", "repair", "release", "complete", "reply", "ended"},
     key : Keys \cup {None}, intent : Intents \cup {None}, owner : BOOLEAN,
     waits : Requests \cup {None}, row : Row, gone : BOOLEAN,
     answer : Answers \cup {None, "stale", "unready"}]
Unsent ==
    [at |-> "new", key |-> None, intent |-> None, owner |-> FALSE, waits |-> None,
     row |-> NoRow, gone |-> FALSE, answer |-> None]

TypeOK ==
    /\ resource \in Configurations /\ manager \in Configurations \cup {None}
    /\ gate \in Requests \cup {None}
    /\ journal \in [Keys -> Row]
    /\ pending \in [Keys -> Requests \cup {None}]
    /\ cache \in [Keys -> [intent : Intents, answer : {"ok", "refused"}] \cup {None}]
    /\ req \in [Requests -> Request]
    /\ faults \in 0 .. MaxFaults
    /\ done \in [Keys -> SUBSET Intents] /\ changes \in [Keys -> 0 .. 2]

Init ==
    /\ resource \in Starts /\ manager = resource /\ gate = None
    /\ journal = [k \in Keys |-> NoRow]
    /\ pending = [k \in Keys |-> None] /\ cache = [k \in Keys |-> None]
    /\ req = [n \in Requests |-> Unsent]
    /\ faults = 0
    /\ done = [k \in Keys |-> {}] /\ changes = [k \in Keys |-> 0]

-----------------------------------------------------------------------------
(* Steps of a request *)

Goto(n, at) == req' = [req EXCEPT ![n].at = at]

\* Mutant of Finish: only a request that gets to its reply finishes.
FinishReplied(n) ==
    pending' = IF req[n].owner /\ req[n].at = "reply"
               THEN [pending EXCEPT ![req[n].key] = None] ELSE pending

\* The deferred finishIdempotency: waiters of an owner go on.
Finish(n) ==
    pending' = IF req[n].owner THEN [pending EXCEPT ![req[n].key] = None] ELSE pending

\* Of a request that was answered, only what a success promises is kept.
Ended(n, answer) ==
    IF answer = "ok" THEN [Unsent EXCEPT !.at = "ended", !.answer = answer,
                                         !.key = req[n].key, !.intent = req[n].intent]
    ELSE [Unsent EXCEPT !.at = "ended"]

End(n, answer) ==
    /\ req' = [req EXCEPT ![n] = Ended(n, answer)]
    /\ Finish(n)

At(n, at) == n \in Requests /\ req[n].at = at
Key(n) == req[n].key
Latest(n) == journal[Key(n)]
Present(row) == row.state \in {"reserved", "completed"}
\* Mutant of Unsettled: a reservation is taken for a response.
UnsettledError(row) == row.answer = "error"

Unsettled(row) == row.state = "reserved" \/ row.answer = "error"

Send ==
    \E n \in Requests, k \in Keys : \E i \in Bodies[k] :
        /\ At(n, "new") /\ \A m \in 1 .. n - 1 : req[m].at # "new"
        /\ req' = [req EXCEPT ![n] = [Unsent EXCEPT !.at = "lookup", !.key = k, !.intent = i]]
        /\ UNCHANGED <<resource, memory, journal, faults, history>>

\* The lookup before the request owns its key, and the one after another
\* process or request has turned out to hold the reservation.
Lookup(n) ==
    /\ At(n, "lookup") /\ ~req[n].gone
    /\ LET row == Latest(n) IN
       \/ /\ ~Present(row)
          /\ IF req[n].owner THEN End(n, "unavailable") ELSE Goto(n, "begin") /\ UNCHANGED pending
       \/ /\ Present(row) /\ row.intent # req[n].intent
          /\ End(n, "conflict")
       \/ /\ Present(row) /\ row.intent = req[n].intent /\ Unsettled(row)
          /\ Goto(n, "reload") /\ UNCHANGED pending
       \/ /\ Present(row) /\ row.intent = req[n].intent /\ ~Unsettled(row)
          /\ req' = [req EXCEPT ![n].at = "reply", ![n].answer = row.answer]
          /\ UNCHANGED pending
    /\ UNCHANGED <<resource, manager, gate, cache, journal, faults, history>>

\* Recovery reads the row again.
Reload(n) ==
    /\ At(n, "reload") /\ ~req[n].gone
    /\ IF Present(Latest(n)) /\ Unsettled(Latest(n))
       THEN /\ req' = [req EXCEPT ![n].at = "recover", ![n].row = Latest(n)]
            /\ UNCHANGED pending
       ELSE End(n, "pending")
    /\ UNCHANGED <<resource, manager, gate, cache, journal, faults, history>>

\* Mutant of Proven: the configuration alone is the proof.
ProvenByReading(config, intent, row) ==
    CASE intent.op = "create" -> config = Active(intent.value)
      [] intent.op = "patch"  -> config = Active(intent.value)
      [] intent.op = "delete" -> config = Retired(intent.match)

\* What recovery asks of the configuration before it takes the request for done:
\* the outcome the request asks for, and the mark of the attempt's transaction.
Proven(config, intent, row) ==
    /\ row.effect # None /\ row.effect = config.value
    /\ CASE intent.op = "create" -> config = Active(intent.value)
         [] intent.op = "patch"  -> config = Active(intent.value)
         [] intent.op = "delete" -> config = Retired(intent.match)

Recover(n) ==
    /\ At(n, "recover") /\ gate = None
    /\ IF manager # None /\ ~req[n].gone /\ Proven(manager, req[n].intent, req[n].row)
       THEN Goto(n, "settle") /\ UNCHANGED pending
       ELSE End(n, "pending")
    /\ UNCHANGED <<resource, manager, gate, cache, journal, faults, history>>

\* Mutant of Completes: whatever became of the reservation.
CompletesLate(k, attempt) == journal[k].attempt = attempt

\* Complete takes a row that is reserved, by this attempt.
Completes(k, attempt) == journal[k].state = "reserved" /\ journal[k].attempt = attempt
Completed(k, answer) ==
    journal' = [journal EXCEPT ![k].state = "completed", ![k].answer = answer]

Settle(n) ==
    /\ At(n, "settle") /\ ~req[n].gone
    /\ IF Completes(Key(n), req[n].row.attempt)
       THEN /\ Completed(Key(n), "ok")
            /\ req' = [req EXCEPT ![n].at = "reply", ![n].answer = "ok"]
            /\ UNCHANGED pending
       ELSE End(n, "unavailable") /\ UNCHANGED journal
    /\ UNCHANGED <<resource, manager, gate, cache, faults, history>>

Begin(n) ==
    /\ At(n, "begin")
    /\ LET k == Key(n) IN
       \/ /\ cache[k] # None
          /\ End(n, IF cache[k].intent = req[n].intent THEN cache[k].answer ELSE "conflict")
       \/ /\ cache[k] = None /\ pending[k] # None /\ req[pending[k]].intent # req[n].intent
          /\ End(n, "conflict")
       \/ /\ cache[k] = None /\ pending[k] # None /\ req[pending[k]].intent = req[n].intent
          /\ req' = [req EXCEPT ![n].at = "wait", ![n].waits = pending[k]]
          /\ UNCHANGED pending
       \/ /\ cache[k] = None /\ pending[k] = None
          /\ pending' = [pending EXCEPT ![k] = n]
          /\ req' = [req EXCEPT ![n].at = "reserve", ![n].owner = TRUE]
    /\ UNCHANGED <<resource, manager, gate, cache, journal, faults, history>>

Wait(n) ==
    /\ At(n, "wait") /\ pending[Key(n)] # req[n].waits
    /\ req' = [req EXCEPT ![n].at = "lookup", ![n].waits = None]
    /\ UNCHANGED <<resource, memory, journal, faults, history>>

\* A released row keeps its digest: the key is never free for another request.
Reserve(n) ==
    /\ At(n, "reserve") /\ ~req[n].gone
    /\ LET row == Latest(n) IN
       \/ /\ row.intent \notin {None, req[n].intent}
          /\ End(n, "conflict") /\ UNCHANGED journal
       \/ /\ Present(row) /\ row.intent = req[n].intent
          /\ Goto(n, "lookup") /\ UNCHANGED <<journal, pending>>
       \/ /\ ~Present(row) /\ row.intent \in {None, req[n].intent}
          /\ journal' = [journal EXCEPT ![Key(n)] =
                [NoRow EXCEPT !.state = "reserved", !.intent = req[n].intent, !.attempt = n]]
          /\ Goto(n, "handle") /\ UNCHANGED pending
    /\ UNCHANGED <<resource, manager, gate, cache, faults, history>>

-----------------------------------------------------------------------------
(* The handler, under configurationGate *)

\* Manager.CreateConnection; the database is asked first, and takes a retired
\* connection for a conflict as well.
CreateDecision(config) == IF config = Absent THEN "ok" ELSE "stale"

\* Manager.UpdateConnection and RetireConnection.  The error of a retired
\* connection has no status of its own: 500.
ChangeDecision(config, match) ==
    CASE config.state = "absent"  -> "refused"
      [] config.state = "retired" -> "error"
      [] config.state = "active"  -> IF config.value = match THEN "ok" ELSE "stale"

Decision(config, intent) ==
    IF intent.op = "create" THEN CreateDecision(config) ELSE ChangeDecision(config, intent.match)

Result(intent) ==
    IF intent.op = "delete" THEN Retired(intent.match) ELSE Active(intent.value)

\* The mutation, the mark of its effect, and nothing else in one transaction.
Commit(n) ==
    LET k == Key(n)  i == req[n].intent IN
    /\ Decision(resource, i) = "ok"
    /\ resource' = Result(i)
    /\ journal' = [journal EXCEPT ![k].effect = Result(i).value]
    /\ done' = [done EXCEPT ![k] = @ \cup {i}]
    /\ changes' = [changes EXCEPT ![k] =
          IF resource = Result(i) \/ @ = 2 THEN @ ELSE @ + 1]

\* 412 and 409 may be released, as may "not ready"; other responses complete.
Handled(n, answer) ==
    req' = [req EXCEPT ![n].answer = answer,
                       ![n].at = IF answer \in {"stale", "unready"} THEN "release" ELSE "complete"]

Handle(n) ==
    /\ At(n, "handle") /\ gate = None
    /\ \/ /\ manager = None
          /\ Handled(n, "unready")
          /\ UNCHANGED <<resource, manager, journal, history>>
       \/ /\ manager # None /\ ~req[n].gone /\ Decision(manager, req[n].intent) # "ok"
          /\ Handled(n, Decision(manager, req[n].intent))
          /\ UNCHANGED <<resource, manager, journal, history>>
       \/ /\ manager # None /\ ~req[n].gone /\ Decision(manager, req[n].intent) = "ok"
          /\ Commit(n)
          /\ manager' = Result(req[n].intent)
          /\ Handled(n, "ok")
    /\ UNCHANGED <<gate, pending, cache, faults>>

\* The transaction fails before the manager took the change (as it does when
\* the client is gone) or after it, or commits and says it failed.
HandleFails(n) ==
    /\ At(n, "handle") /\ gate = None /\ manager # None
    /\ \/ /\ UNCHANGED <<resource, journal, history>>
          /\ \/ UNCHANGED manager
             \/ /\ Decision(manager, req[n].intent) = "ok"
                /\ manager' = Result(req[n].intent)
       \/ /\ ~req[n].gone /\ Decision(manager, req[n].intent) = "ok"
          /\ Commit(n)
          /\ manager' = Result(req[n].intent)
    /\ gate' = n
    /\ req' = [req EXCEPT ![n].at = "repair", ![n].answer = "error"]
    /\ UNCHANGED <<pending, cache>>

\* Mutant of Materialized: a connection that is still active was not changed.
MaterializedIfGone(config, intent) ==
    CASE intent.op = "create" -> config.state = "active"
      [] intent.op # "create" -> config.state = "retired"

\* configurationEffectMaterialized, of a configuration just read back.
Materialized(config, intent) ==
    CASE intent.op = "create" -> config.state = "active"
      [] intent.op = "patch"  -> config.state = "active" /\ config.value # intent.match
      [] intent.op = "delete" -> config.state = "retired"

\* Mutant of Released: the key's request is forgotten with its reservation.
ReleasedForgotten(n) == journal' = [journal EXCEPT ![Key(n)] = NoRow]

Released(n) == journal' = [journal EXCEPT ![Key(n)] =
    [@ EXCEPT !.state = "released", !.effect = None]]

\* Mutant of ReadBack: the manager is trusted.
ReadBackNever == manager

\* recoverConfiguration: a manager built from the database.
ReadBack == resource

\* finishConfigurationMutation: the manager is read back under the gate, and a
\* key whose mutation is not there is released.
Repair(n) ==
    /\ At(n, "repair")
    /\ manager' = ReadBack /\ gate' = None
    /\ \/ /\ ~req[n].gone /\ ~Materialized(resource, req[n].intent)
          /\ Completes(Key(n), n)
          /\ Released(n)
          /\ End(n, "unavailable")
       \/ /\ req[n].gone \/ Materialized(resource, req[n].intent) \/ ~Completes(Key(n), n)
          /\ Goto(n, "complete") /\ UNCHANGED <<journal, pending>>
    /\ UNCHANGED <<resource, cache, faults, history>>

\* The reading back, which no disconnect cancels, fails, and takes the manager away; or only the release does.
RepairFails(n) ==
    /\ At(n, "repair")
    /\ manager' \in {None, ReadBack} /\ gate' = None
    /\ Goto(n, "complete")
    /\ UNCHANGED <<resource, journal, pending, cache, history>>

\* A 412 or 409 of the handler is a response like others when it is completed.
Response(answer) ==
    CASE answer = "stale"   -> "refused"
      [] answer = "unready" -> "error"
      [] OTHER              -> answer

Release(n) ==
    /\ At(n, "release") /\ ~req[n].gone
    /\ IF Completes(Key(n), n)
       THEN /\ Released(n)
            /\ End(n, IF req[n].answer = "stale" THEN "refused" ELSE "unavailable")
       ELSE Goto(n, "complete") /\ UNCHANGED <<journal, pending>>
    /\ UNCHANGED <<resource, manager, gate, cache, faults, history>>

Complete(n) ==
    /\ At(n, "complete") /\ ~req[n].gone
    /\ LET answer == Response(req[n].answer) IN
       IF Completes(Key(n), n)
       THEN /\ Completed(Key(n), answer)
            /\ req' = [req EXCEPT ![n].at = "reply", ![n].answer = answer]
            /\ UNCHANGED pending
       ELSE End(n, "unavailable") /\ UNCHANGED journal
    /\ UNCHANGED <<resource, manager, gate, cache, faults, history>>

\* rememberIdempotency: a full map loses one of its entries.
Remembered(k, entry) ==
    LET kept == {j \in Keys : cache[j] # None} IN
    \E lost \in IF Cardinality(kept) >= CacheLimit THEN kept ELSE {k} :
        cache' = [cache EXCEPT ![lost] = None, ![k] = entry]

Reply(n) ==
    /\ At(n, "reply")
    /\ IF req[n].answer = "error"
       THEN UNCHANGED cache
       ELSE Remembered(Key(n), [intent |-> req[n].intent, answer |-> req[n].answer])
    /\ End(n, req[n].answer)
    /\ UNCHANGED <<resource, manager, gate, journal, faults, history>>

-----------------------------------------------------------------------------
(* Faults *)

\* A transaction of the journal fails.
Fails(n) ==
    /\ n \in Requests
    /\ \/ /\ req[n].at \in {"lookup", "reload", "settle", "reserve", "complete"}
          /\ End(n, "unavailable")
       \/ /\ At(n, "release")
          /\ Goto(n, "complete") /\ UNCHANGED pending
    /\ UNCHANGED <<resource, manager, gate, cache, journal, history>>

GivesUp(n) ==
    /\ At(n, "wait")
    /\ End(n, "unavailable")
    /\ UNCHANGED <<resource, manager, gate, cache, journal, history>>

\* What happens to the steps of a request whose context is cancelled.
Abandoned(n) ==
    /\ n \in Requests /\ req[n].gone
    /\ Fails(n) \/ GivesUp(n) \/ HandleFails(n)
    /\ UNCHANGED faults

Fault == faults < MaxFaults /\ faults' = faults + 1

StoreFails(n) ==
    /\ Fault
    /\ \/ n \in Requests /\ ~req[n].gone /\ (Fails(n) \/ HandleFails(n))
       \/ RepairFails(n)

Open(n) == req[n].at \notin {"new", "ended"}

Disconnect(n) ==
    /\ n \in Requests /\ Open(n) /\ ~req[n].gone
    /\ Fault
    /\ req' = [req EXCEPT ![n].gone = TRUE]
    /\ UNCHANGED <<resource, memory, journal, history>>

\* The process ends, and another loads the configuration from the database.
Restart ==
    /\ Fault
    /\ manager' = resource /\ gate' = None
    /\ pending' = [k \in Keys |-> None] /\ cache' = [k \in Keys |-> None]
    /\ req' = [n \in Requests |->
          IF Open(n) THEN Ended(n, "lost") ELSE req[n]]
    /\ UNCHANGED <<resource, journal, history>>

-----------------------------------------------------------------------------
Serve(n) ==
    \/ Lookup(n) \/ Reload(n) \/ Recover(n) \/ Settle(n)
    \/ Begin(n) \/ Wait(n) \/ Reserve(n)
    \/ Handle(n) \/ Repair(n) \/ Release(n) \/ Complete(n) \/ Reply(n)
    \/ Abandoned(n)

\* All requests were answered: the only state in which nothing can happen.
Answered ==
    /\ \A n \in Requests : req[n].at = "ended"
    /\ UNCHANGED vars

Next ==
    \/ Send
    \/ \E n \in Requests : Serve(n) \/ StoreFails(n) \/ Disconnect(n)
    \/ Restart
    \/ Answered

Spec == Init /\ [][Next]_vars

-----------------------------------------------------------------------------
(* Properties *)

\* However often a key is sent, released, recovered or retried after a lost
\* answer, it takes effect for one request only, and changes the connection at
\* most once.
AppliedOnce ==
    \A k \in Keys : changes[k] <= 1 /\ Cardinality(done[k]) <= 1

\* A success, told to a client or recorded for replay, is of the request it is
\* told to, and that request's mutation is committed: neither recovery nor a
\* replay infers it from a configuration that only looks like it.  A key that is
\* free for another attempt, or that answers with a refusal for good, has
\* changed nothing.
AnswersAreTrue ==
    /\ \A n \in Requests : req[n].answer = "ok" /\ req[n].at \in {"reply", "ended"}
          => req[n].intent \in done[req[n].key]
    /\ \A k \in Keys : journal[k].answer = "ok" => journal[k].intent \in done[k]
    /\ \A k \in Keys : journal[k].state = "released" \/ journal[k].answer = "refused"
          => changes[k] = 0

\* What the process holds in memory is what the database holds: outside
\* configurationGate nobody reads a candidate that was not committed, and what
\* is replayed from the cache is the completed row of its key.  All of it stays
\* well formed.
MemoryAgrees ==
    /\ TypeOK
    /\ gate = None => manager \in {None, resource}
    /\ \A k \in Keys : cache[k] # None =>
          /\ journal[k].state = "completed"
          /\ journal[k].intent = cache[k].intent /\ journal[k].answer = cache[k].answer

\* A completed key keeps its response, and a key its request, whatever is late.
RecordIsFinal ==
    [][\A k \in Keys :
        /\ journal[k].intent # None => journal'[k].intent = journal[k].intent
        /\ journal[k].state = "completed" => journal'[k] = journal[k]]_vars

\* A request that others wait for is being served, and so is the one that holds
\* the gate: with no deadlock, every request ends.
WaitedForIsServed ==
    /\ \A k \in Keys : pending[k] # None =>
          Open(pending[k]) /\ req[pending[k]].owner /\ req[pending[k]].key = k
    /\ \A n \in Requests : req[n].at = "wait" =>
          \/ pending[req[n].key] # req[n].waits
          \/ req[req[n].waits].at \notin {"wait", "ended"}
    /\ gate # None => req[gate].at = "repair"
=============================================================================
