------------------------- MODULE IdempotencyProofs -------------------------
(***************************************************************************)
(* Proofs about Idempotency for every set of keys, whatever requests are    *)
(* sent under them, and every value of the bounds.                          *)
(*                                                                         *)
(* The argument: a request that holds a reservation knows what its key's    *)
(* row says of it (Held), a row that recovery has read is behind the        *)
(* journal in one direction only (ReadRow), and an attempt is marked in the *)
(* journal by the transaction that changes the connection (KeyGood).        *)
(***************************************************************************)
EXTENDS Idempotency, FiniteSetTheorems, TLAPS

-----------------------------------------------------------------------------
(* The inductive invariant *)

\* What the row of a key says of the key's history.
KeyGood(k) ==
    LET row == journal[k] IN
    /\ row.state = "none" => row.intent = None /\ row.attempt = None
    /\ row.state # "none" => row.intent # None /\ row.attempt # None
    /\ row.state = "completed" <=> row.answer # None
    /\ row.effect # None => Present(row) /\ row.intent \in done[k]
    /\ row.answer = "ok" => row.intent \in done[k]
    /\ row.answer = "refused" => row.effect = None
    /\ done[k] \subseteq {row.intent}
    /\ changes[k] # 0 => changes[k] = 1 /\ row.effect # None

\* The request has reserved its key, and has not answered.
Holding == {"handle", "repair", "release", "complete"}

Held(n) ==
    LET r == req[n]  row == journal[r.key] IN
    /\ r.owner /\ Present(row) /\ row.attempt = n /\ row.intent = r.intent
    /\ r.at \in {"handle", "release"} => row.effect = None
    /\ r.at = "handle" => row.state = "reserved"
    /\ r.at = "repair" =>
          /\ gate = n /\ r.answer = "error"
          /\ row.effect # None =>
                resource = Result(r.intent)
                /\ (~Materialized(resource, r.intent) => changes[r.key] = 0)
    /\ r.at \in {"release", "complete"} =>
          /\ r.answer \in Answers \cup {"stale", "unready"}
          /\ r.answer = "ok" => r.intent \in done[r.key]
          /\ r.answer \in {"stale", "refused", "unready"} => row.effect = None
    /\ r.at = "release" => r.answer \in {"stale", "unready"}

\* The row that recovery has read, and the one the journal has now.
ReadRow(n) ==
    LET r == req[n]  row == journal[r.key] IN
    /\ r.row.intent = r.intent /\ row.intent = r.intent
    /\ r.row.effect # None => r.intent \in done[r.key]
    /\ r.at = "settle" => r.row.effect # None
    /\ r.row.effect # None /\ row.attempt = r.row.attempt /\ row.state = "reserved"
          => row.effect # None

RequestGood(n) ==
    LET r == req[n] IN
    /\ r.at \notin {"new", "ended"} => r.key \in Keys /\ r.intent \in Intents
    /\ r.at = "new" => r = Unsent
    /\ r.at \in {"begin", "wait"} => ~r.owner
    /\ r.at = "wait" => r.waits # None
    /\ r.at = "reserve" => r.owner
    /\ r.at = "reload" => journal[r.key].intent = r.intent
    /\ r.at \in Holding => Held(n)
    /\ r.at \in {"recover", "settle"} => ReadRow(n)
    /\ r.at = "reply" =>
          /\ journal[r.key].state = "completed"
          /\ journal[r.key].intent = r.intent /\ journal[r.key].answer = r.answer
    /\ r.at = "ended" /\ r.answer = "ok" => r.key \in Keys /\ r.intent \in done[r.key]

\* A request that has reserved nothing is not the attempt of any row.
Unreserved == {"new", "lookup", "begin", "wait", "reserve"}

FreshAttempts ==
    \A n \in Requests : req[n].at \in Unreserved =>
        /\ \A k \in Keys : journal[k].attempt # n
        /\ \A m \in Requests : req[m].row.attempt # n

PendingGood ==
    \A k \in Keys : pending[k] # None =>
        /\ req[pending[k]].owner /\ req[pending[k]].key = k
        /\ req[pending[k]].at \notin {"new", "begin", "wait", "ended"}

MemoryGood ==
    /\ gate # None => req[gate].at = "repair"
    /\ gate = None => manager \in {None, resource}
    /\ \A k \in Keys : cache[k] # None =>
          /\ journal[k].state = "completed"
          /\ journal[k].intent = cache[k].intent /\ journal[k].answer = cache[k].answer

IInv ==
    /\ TypeOK
    /\ \A k \in Keys : KeyGood(k)
    /\ \A n \in Requests : RequestGood(n)
    /\ FreshAttempts
    /\ PendingGood
    /\ MemoryGood

-----------------------------------------------------------------------------
(* Steps of one request that leave the journal alone *)

\* The outcome of a request is a configuration, and its value a revision.
LEMMA ResultType ==
    ASSUME NEW i \in Intents
    PROVE  /\ Result(i) \in Configurations /\ Result(i).value \in Values
           /\ Result(i).value # None
<1>1. i.value \in Values /\ i.match \in Values
    BY IdempotencyAssumption DEF Values
<1> QED
    BY <1>1, IdempotencyAssumption DEF Result, Active, Retired, Configurations

\* A record of one request is replaced: what has to be shown is about it, and
\* about the maps of the process.
LEMMA Frame ==
    ASSUME IInv, NEW n \in Requests, NEW rec,
           req' = [req EXCEPT ![n] = rec],
           UNCHANGED <<resource, journal, done, changes>>,
           gate' = gate \/ \A m \in Requests \ {n} : req[m].at # "repair",
           TypeOK', RequestGood(n)', PendingGood', MemoryGood',
           rec.at \in Unreserved => req[n].at \in Unreserved,
           \/ rec.row \in {req[n].row, NoRow}
           \/ req[n].key \in Keys /\ rec.row = journal[req[n].key]
    PROVE  IInv'
<1>1. \A m \in Requests : req'[m] = IF m = n THEN rec ELSE req[m]
    BY DEF IInv, TypeOK
<1>2. \A k \in Keys : KeyGood(k)'
    BY DEF IInv, KeyGood, Present
<1>3. ASSUME NEW m \in Requests PROVE RequestGood(m)'
    <2>1. CASE m = n
        BY <2>1
    <2>2. CASE m # n
        <3>1. req'[m] = req[m] /\ RequestGood(m)
            BY <1>1, <2>2 DEF IInv
        <3>2. req[m].at \in Holding => Held(m)'
            BY <3>1, <2>2 DEF RequestGood, Held, Present, Holding
        <3>3. req[m].at \in {"recover", "settle"} => ReadRow(m)'
            BY <3>1 DEF RequestGood, ReadRow
        <3> QED
            BY <3>1, <3>2, <3>3 DEF RequestGood
    <2> QED
        BY <2>1, <2>2
<1>4. FreshAttempts'
    <2> SUFFICES ASSUME NEW m \in Requests, req'[m].at \in Unreserved
                 PROVE  /\ \A k \in Keys : journal[k].attempt # m
                        /\ \A l \in Requests : req'[l].row.attempt # m
        BY DEF FreshAttempts
    <2>1. req[m].at \in Unreserved
        BY <1>1
    <2>2. \A k \in Keys : journal[k].attempt # m
        BY <2>1 DEF IInv, FreshAttempts
    <2>3. \A l \in Requests : req[l].row.attempt # m
        BY <2>1 DEF IInv, FreshAttempts
    <2>4. NoRow.attempt # m
        BY IdempotencyAssumption DEF NoRow
    <2> QED
        BY <1>1, <2>2, <2>3, <2>4
<1> QED
    BY <1>2, <1>3, <1>4 DEF IInv

\* What a success leaves of a request is well formed.
LEMMA EndedType ==
    ASSUME TypeOK, NEW n \in Requests, NEW answer,
           answer = "ok" => req[n].key \in Keys /\ req[n].intent \in Intents
    PROVE  /\ Ended(n, answer) \in Request /\ Ended(n, answer).at = "ended"
           /\ ~Ended(n, answer).owner /\ Ended(n, answer).row = NoRow
           /\ answer = "ok" => /\ Ended(n, answer).key = req[n].key
                               /\ Ended(n, answer).intent = req[n].intent
           /\ Ended(n, answer).answer = "ok" => answer = "ok"
<1>1. Unsent \in Request /\ Unsent.row = NoRow
    BY DEF Unsent, Request, NoRow, Row
<1>2. CASE answer = "ok"
    BY <1>1, <1>2 DEF Ended, Request, Unsent, Answers
<1>3. CASE answer # "ok"
    BY <1>1, <1>3, IdempotencyAssumption DEF Ended, Request, Unsent, Answers
<1> QED
    BY <1>2, <1>3

\* A request that ends leaves the pending map.
LEMMA EndPending ==
    ASSUME TypeOK, PendingGood, NEW n \in Requests, NEW answer, End(n, answer)
    PROVE  /\ PendingGood'
           /\ pending' \in [Keys -> Requests \cup {None}]
<1>1. req' = [req EXCEPT ![n] = Ended(n, answer)]
    BY DEF End
<1>2. \A k \in Keys : pending'[k] \in {pending[k], None} /\ pending'[k] # n
    BY IdempotencyAssumption DEF End, Finish, PendingGood, TypeOK
<1>3. \A m \in Requests : m # n => req'[m] = req[m]
    BY <1>1 DEF TypeOK
<1>4. pending' \in [Keys -> Requests \cup {None}]
    BY DEF End, Finish, TypeOK
<1> QED
    BY <1>2, <1>3, <1>4 DEF PendingGood, TypeOK

\* A step that only ends a request.
LEMMA EndStep ==
    ASSUME IInv, NEW n \in Requests, NEW answer, End(n, answer),
           req[n].at \notin {"new", "repair", "ended"},
           answer = "ok" => req[n].intent \in done[req[n].key],
           UNCHANGED <<resource, manager, gate, journal, done, changes>>,
           cache' \in [Keys -> [intent : Intents, answer : {"ok", "refused"}] \cup {None}],
           \A k \in Keys : cache'[k] # None =>
               /\ journal[k].state = "completed"
               /\ journal[k].intent = cache'[k].intent /\ journal[k].answer = cache'[k].answer,
           faults' \in 0 .. MaxFaults
    PROVE  IInv'
<1> DEFINE rec == Ended(n, answer)
<1> HIDE DEF rec
<1>0. req[n].key \in Keys /\ req[n].intent \in Intents
    BY DEF IInv, RequestGood
<1>1. /\ rec \in Request /\ rec.at = "ended" /\ ~rec.owner /\ rec.row = NoRow
      /\ answer = "ok" => rec.key = req[n].key /\ rec.intent = req[n].intent
      /\ rec.answer = "ok" => answer = "ok"
    BY <1>0, EndedType DEF rec, IInv
<1>2. req' = [req EXCEPT ![n] = rec] /\ req'[n] = rec
    BY DEF End, rec, IInv, TypeOK
<1>3. PendingGood' /\ pending' \in [Keys -> Requests \cup {None}]
    BY EndPending DEF IInv
<1>4. TypeOK'
    BY <1>1, <1>2, <1>3 DEF IInv, TypeOK
<1>5. RequestGood(n)'
    BY <1>0, <1>1, <1>2 DEF RequestGood, Holding
<1>6. MemoryGood'
    BY <1>2 DEF IInv, MemoryGood, TypeOK
<1>7. rec.at \notin Unreserved
    BY <1>1 DEF Unreserved
<1> QED
    BY <1>1, <1>2, <1>3, <1>4, <1>5, <1>6, <1>7, Frame

\* A request that goes on keeps its place in the pending map.
LEMMA MovePending ==
    ASSUME TypeOK, PendingGood, NEW n \in Requests, NEW rec,
           req' = [req EXCEPT ![n] = rec], UNCHANGED pending,
           rec.owner = req[n].owner, rec.key = req[n].key,
           ~rec.owner \/ rec.at \notin {"new", "begin", "wait", "ended"}
    PROVE  PendingGood'
<1>1. \A m \in Requests : req'[m] = IF m = n THEN rec ELSE req[m]
    BY DEF TypeOK
<1> QED
    BY <1>1 DEF TypeOK, PendingGood

\* A step that only takes a request further.
LEMMA MoveStep ==
    ASSUME IInv, NEW n \in Requests, NEW rec \in Request,
           req' = [req EXCEPT ![n] = rec], UNCHANGED pending,
           rec.owner = req[n].owner, rec.key = req[n].key,
           ~rec.owner \/ rec.at \notin {"new", "begin", "wait", "ended"},
           req[n].at = "repair" => rec.at = "repair",
           UNCHANGED <<resource, manager, gate, cache, journal, done, changes>>,
           faults' \in 0 .. MaxFaults,
           RequestGood(n)',
           rec.at \in Unreserved => req[n].at \in Unreserved,
           \/ rec.row \in {req[n].row, NoRow}
           \/ req[n].key \in Keys /\ rec.row = journal[req[n].key]
    PROVE  IInv'
<1>1. \A m \in Requests : req'[m] = IF m = n THEN rec ELSE req[m]
    BY DEF IInv, TypeOK
<1>2. TypeOK'
    BY DEF IInv, TypeOK
<1>3. PendingGood'
    BY MovePending DEF IInv
<1>4. MemoryGood'
    BY <1>1 DEF IInv, MemoryGood, TypeOK
<1> QED
    BY <1>2, <1>3, <1>4, Frame

-----------------------------------------------------------------------------
(* The actions that leave the journal alone *)

\* A record takes the fields that its step gives it.
LEMMA GotoType ==
    ASSUME TypeOK, NEW n \in Requests, NEW at
    PROVE  /\ Goto(n, at) <=> req' = [req EXCEPT ![n] = [req[n] EXCEPT !.at = at]]
           /\ at \in {"reload", "settle", "begin", "lookup", "handle", "complete"} =>
                [req[n] EXCEPT !.at = at] \in Request
<1>1. req[n] \in Request
    BY DEF TypeOK
<1> QED
    BY <1>1 DEF Goto, Request, TypeOK

LEMMA SendIInv == IInv /\ Send => IInv'
<1> SUFFICES ASSUME IInv, NEW n \in Requests, NEW k \in Keys, NEW i \in Bodies[k],
                    req[n].at = "new",
                    req' = [req EXCEPT ![n] =
                        [Unsent EXCEPT !.at = "lookup", !.key = k, !.intent = i]],
                    UNCHANGED <<resource, memory, journal, faults, history>>
             PROVE  IInv'
    BY DEF Send, At
<1> DEFINE rec == [Unsent EXCEPT !.at = "lookup", !.key = k, !.intent = i]
<1>1. UNCHANGED <<resource, manager, gate, pending, cache, journal, faults, done, changes>>
    BY DEF memory, history
<1>2. i \in Intents /\ req[n] = Unsent
    BY DEF Intents, IInv, RequestGood
<1>3. /\ rec \in Request /\ rec.at = "lookup" /\ rec.key = k /\ rec.intent = i
      /\ ~rec.owner /\ rec.row = NoRow
    BY <1>2 DEF Unsent, Request, NoRow, Row
<1> HIDE DEF rec
<1>4. \A m \in Requests : req'[m] = IF m = n THEN rec ELSE req[m]
    BY DEF rec, IInv, TypeOK
<1>5. TypeOK' /\ req' = [req EXCEPT ![n] = rec]
    BY <1>1, <1>3 DEF rec, IInv, TypeOK
<1>6. RequestGood(n)'
    BY <1>2, <1>3, <1>4 DEF RequestGood, Holding
<1>7. PendingGood' /\ MemoryGood'
    BY <1>1, <1>2, <1>4 DEF IInv, PendingGood, MemoryGood, TypeOK, Unsent
<1> QED
    BY <1>1, <1>2, <1>3, <1>5, <1>6, <1>7, Frame DEF Unreserved, Unsent

LEMMA LookupIInv == ASSUME NEW n \in Requests PROVE IInv /\ Lookup(n) => IInv'
<1> SUFFICES ASSUME IInv, Lookup(n)
             PROVE  IInv'
    OBVIOUS
<1>1. /\ req[n].at = "lookup" /\ req[n] \in Request /\ journal \in [Keys -> Row]
      /\ faults' \in 0 .. MaxFaults
      /\ req[n].key \in Keys /\ req[n].intent \in Intents
    BY DEF Lookup, At, IInv, TypeOK, RequestGood
<1>2. UNCHANGED <<resource, manager, gate, cache, journal, faults, done, changes>>
    BY DEF Lookup, history
<1>3. ASSUME NEW answer, answer # "ok", End(n, answer)
      PROVE  IInv'
    BY <1>1, <1>2, <1>3, EndStep DEF IInv, MemoryGood, TypeOK
<1>4. CASE ~Present(Latest(n)) /\ ~req[n].owner /\ Goto(n, "begin") /\ UNCHANGED pending
    <2> DEFINE rec == [req[n] EXCEPT !.at = "begin"]
    <2>1. rec \in Request /\ req' = [req EXCEPT ![n] = rec]
        BY <1>4, GotoType DEF IInv
    <2>2. /\ rec.at = "begin" /\ rec.owner = req[n].owner /\ rec.key = req[n].key
          /\ rec.row = req[n].row /\ rec.intent = req[n].intent
        BY <1>1 DEF Request
    <2> HIDE DEF rec
    <2>3. RequestGood(n)'
        BY <1>1, <1>4, <2>1, <2>2 DEF RequestGood, Holding, IInv, TypeOK
    <2> QED
        BY <1>1, <1>2, <1>4, <2>1, <2>2, <2>3, MoveStep DEF Unreserved
<1>5. CASE Present(Latest(n)) /\ Latest(n).intent = req[n].intent /\ Goto(n, "reload")
           /\ UNCHANGED pending
    <2> DEFINE rec == [req[n] EXCEPT !.at = "reload"]
    <2>1. rec \in Request /\ req' = [req EXCEPT ![n] = rec]
        BY <1>5, GotoType DEF IInv
    <2>2. /\ rec.at = "reload" /\ rec.owner = req[n].owner /\ rec.key = req[n].key
          /\ rec.row = req[n].row /\ rec.intent = req[n].intent
        BY <1>1 DEF Request
    <2> HIDE DEF rec
    <2>3. RequestGood(n)'
        BY <1>1, <1>2, <1>5, <2>1, <2>2 DEF RequestGood, Holding, IInv, TypeOK, Latest, Key
    <2> QED
        BY <1>1, <1>2, <1>5, <2>1, <2>2, <2>3, MoveStep DEF Unreserved
<1>6. CASE /\ Present(Latest(n)) /\ Latest(n).intent = req[n].intent /\ ~Unsettled(Latest(n))
           /\ req' = [req EXCEPT ![n].at = "reply", ![n].answer = Latest(n).answer]
           /\ UNCHANGED pending
    <2> DEFINE rec == [req[n] EXCEPT !.at = "reply", !.answer = Latest(n).answer]
    <2>1. req' = [req EXCEPT ![n] = rec]
        BY <1>1, <1>6 DEF Request, IInv, TypeOK
    <2>2. Latest(n) \in Row /\ Latest(n) = journal[req[n].key] /\ Latest(n).state = "completed"
        BY <1>1, <1>6 DEF Latest, Key, Present, Unsettled
    <2>3. /\ rec \in Request /\ rec.at = "reply" /\ rec.owner = req[n].owner
          /\ rec.key = req[n].key /\ rec.answer = Latest(n).answer
          /\ rec.row = req[n].row /\ rec.intent = req[n].intent
        BY <1>1, <2>2 DEF Request, Row
    <2> HIDE DEF rec
    <2>4. RequestGood(n)'
        BY <1>1, <1>2, <1>6, <2>1, <2>2, <2>3 DEF RequestGood, Holding, IInv, TypeOK
    <2> QED
        BY <1>1, <1>2, <1>6, <2>1, <2>3, <2>4, MoveStep DEF Unreserved
<1> QED
    BY <1>3, <1>4, <1>5, <1>6 DEF Lookup

LEMMA ReloadIInv == ASSUME NEW n \in Requests PROVE IInv /\ Reload(n) => IInv'
<1> SUFFICES ASSUME IInv, Reload(n)
             PROVE  IInv'
    OBVIOUS
<1>1. /\ req[n].at = "reload" /\ req[n] \in Request /\ journal \in [Keys -> Row]
      /\ faults' \in 0 .. MaxFaults /\ RequestGood(n)
      /\ req[n].key \in Keys /\ req[n].intent \in Intents
    BY DEF Reload, At, IInv, TypeOK, RequestGood
<1>2. UNCHANGED <<resource, manager, gate, cache, journal, faults, done, changes>>
    BY DEF Reload, history
<1>3. ASSUME End(n, "pending")
      PROVE  IInv'
    BY <1>1, <1>2, <1>3, EndStep DEF IInv, MemoryGood, TypeOK
<1>4. CASE /\ Present(Latest(n)) /\ UNCHANGED pending
           /\ req' = [req EXCEPT ![n].at = "recover", ![n].row = Latest(n)]
    <2> DEFINE rec == [req[n] EXCEPT !.at = "recover", !.row = Latest(n)]
    <2>1. req' = [req EXCEPT ![n] = rec]
        BY <1>1, <1>4 DEF Request, IInv, TypeOK
    <2>2. Latest(n) \in Row /\ Latest(n) = journal[req[n].key]
        BY <1>1 DEF Latest, Key
    <2>3. /\ rec \in Request /\ rec.at = "recover" /\ rec.owner = req[n].owner
          /\ rec.key = req[n].key /\ rec.row = Latest(n) /\ rec.intent = req[n].intent
        BY <1>1, <2>2 DEF Request
    <2> HIDE DEF rec
    <2>4. journal[req[n].key].intent = req[n].intent
        BY <1>1 DEF RequestGood
    <2>5. journal[req[n].key].effect # None => req[n].intent \in done[req[n].key]
        BY <1>1, <2>4 DEF IInv, KeyGood
    <2>6. req'[n] = rec
        BY <2>1 DEF IInv, TypeOK
    <2>7. ReadRow(n)'
        BY <1>2, <2>2, <2>3, <2>4, <2>5, <2>6 DEF ReadRow
    <2>8. RequestGood(n)'
        BY <1>1, <2>3, <2>6, <2>7 DEF RequestGood, Holding
    <2> QED
        BY <1>1, <1>2, <1>4, <2>1, <2>2, <2>3, <2>8, MoveStep DEF Unreserved
<1> QED
    BY <1>3, <1>4 DEF Reload

LEMMA RecoverIInv == ASSUME NEW n \in Requests PROVE IInv /\ Recover(n) => IInv'
<1> SUFFICES ASSUME IInv, Recover(n)
             PROVE  IInv'
    OBVIOUS
<1>1. /\ req[n].at = "recover" /\ req[n] \in Request /\ journal \in [Keys -> Row]
      /\ faults' \in 0 .. MaxFaults /\ RequestGood(n)
      /\ req[n].key \in Keys /\ req[n].intent \in Intents
    BY DEF Recover, At, IInv, TypeOK, RequestGood
<1>2. UNCHANGED <<resource, manager, gate, cache, journal, faults, done, changes>>
    BY DEF Recover, history
<1>3. ASSUME End(n, "pending")
      PROVE  IInv'
    BY <1>1, <1>2, <1>3, EndStep DEF IInv, MemoryGood, TypeOK
<1>4. CASE Proven(manager, req[n].intent, req[n].row) /\ Goto(n, "settle") /\ UNCHANGED pending
    <2> DEFINE rec == [req[n] EXCEPT !.at = "settle"]
    <2>1. rec \in Request /\ req' = [req EXCEPT ![n] = rec]
        BY <1>4, GotoType DEF IInv
    <2>2. /\ rec.at = "settle" /\ rec.owner = req[n].owner /\ rec.key = req[n].key
          /\ rec.row = req[n].row /\ rec.intent = req[n].intent
        BY <1>1 DEF Request
    <2> HIDE DEF rec
    <2>3. req[n].row.effect # None
        BY <1>4 DEF Proven
    <2>4. req'[n] = rec
        BY <2>1 DEF IInv, TypeOK
    <2>5. ReadRow(n)
        BY <1>1 DEF RequestGood
    <2>6. ReadRow(n)'
        BY <1>2, <2>2, <2>3, <2>4, <2>5 DEF ReadRow
    <2>7. RequestGood(n)'
        BY <1>1, <2>2, <2>4, <2>6 DEF RequestGood, Holding
    <2> QED
        BY <1>1, <1>2, <1>4, <2>1, <2>2, <2>7, MoveStep DEF Unreserved
<1> QED
    BY <1>3, <1>4 DEF Recover

LEMMA WaitIInv == ASSUME NEW n \in Requests PROVE IInv /\ Wait(n) => IInv'
<1> SUFFICES ASSUME IInv, Wait(n)
             PROVE  IInv'
    OBVIOUS
<1>1. /\ req[n].at = "wait" /\ req[n] \in Request /\ faults' \in 0 .. MaxFaults
      /\ RequestGood(n) /\ ~req[n].owner
      /\ req[n].key \in Keys /\ req[n].intent \in Intents
    BY DEF Wait, At, IInv, TypeOK, RequestGood
<1>2. UNCHANGED <<resource, manager, gate, pending, cache, journal, faults, done, changes>>
    BY DEF Wait, history, memory
<1> DEFINE rec == [req[n] EXCEPT !.at = "lookup", !.waits = None]
<1>3. rec \in Request /\ req' = [req EXCEPT ![n] = rec]
    BY <1>1 DEF Wait, Request, IInv, TypeOK
<1>4. /\ rec.at = "lookup" /\ rec.owner = req[n].owner /\ rec.key = req[n].key
      /\ rec.row = req[n].row /\ rec.intent = req[n].intent
    BY <1>1 DEF Request
<1> HIDE DEF rec
<1>5. req'[n] = rec
    BY <1>3 DEF IInv, TypeOK
<1>6. RequestGood(n)'
    BY <1>1, <1>4, <1>5 DEF RequestGood, Holding
<1> QED
    BY <1>1, <1>2, <1>3, <1>4, <1>6, MoveStep DEF Unreserved

LEMMA BeginIInv == ASSUME NEW n \in Requests PROVE IInv /\ Begin(n) => IInv'
<1> SUFFICES ASSUME IInv, Begin(n)
             PROVE  IInv'
    OBVIOUS
<1>1. /\ req[n].at = "begin" /\ req[n] \in Request /\ faults' \in 0 .. MaxFaults
      /\ RequestGood(n) /\ ~req[n].owner /\ TypeOK
      /\ req[n].key \in Keys /\ req[n].intent \in Intents
    BY DEF Begin, At, IInv, TypeOK, RequestGood
<1>2. UNCHANGED <<resource, manager, gate, cache, journal, faults, done, changes>>
    BY DEF Begin, history
<1>3. ASSUME NEW answer, End(n, answer), answer = "ok" => req[n].intent \in done[req[n].key]
      PROVE  IInv'
    BY <1>1, <1>2, <1>3, EndStep DEF IInv, MemoryGood, TypeOK
<1> DEFINE k == req[n].key
<1>4. CASE /\ cache[k] # None
           /\ End(n, IF cache[k].intent = req[n].intent THEN cache[k].answer ELSE "conflict")
    <2>1. journal[k].intent = cache[k].intent /\ journal[k].answer = cache[k].answer
        BY <1>1, <1>4 DEF IInv, MemoryGood
    <2>2. journal[k].answer = "ok" => journal[k].intent \in done[k]
        BY <1>1 DEF IInv, KeyGood
    <2> QED
        BY <1>3, <1>4, <2>1, <2>2
<1>5. CASE End(n, "conflict")
    BY <1>3, <1>5
<1>6. CASE /\ pending[k] # None /\ UNCHANGED pending
           /\ req' = [req EXCEPT ![n].at = "wait", ![n].waits = pending[k]]
    <2> DEFINE rec == [req[n] EXCEPT !.at = "wait", !.waits = pending[k]]
    <2>1. rec \in Request /\ req' = [req EXCEPT ![n] = rec]
        BY <1>1, <1>6 DEF Request, TypeOK
    <2>2. /\ rec.at = "wait" /\ rec.waits = pending[k] /\ rec.owner = req[n].owner /\ rec.key = req[n].key
          /\ rec.row = req[n].row /\ rec.intent = req[n].intent
        BY <1>1 DEF Request
    <2> HIDE DEF rec
    <2>3. req'[n] = rec
        BY <1>1, <2>1 DEF TypeOK
    <2>4. RequestGood(n)'
        BY <1>1, <1>6, <2>2, <2>3 DEF RequestGood, Holding
    <2> QED
        BY <1>1, <1>2, <1>6, <2>1, <2>2, <2>4, MoveStep DEF Unreserved
<1>7. CASE /\ pending[k] = None /\ pending' = [pending EXCEPT ![k] = n]
           /\ req' = [req EXCEPT ![n].at = "reserve", ![n].owner = TRUE]
    <2> DEFINE rec == [req[n] EXCEPT !.at = "reserve", !.owner = TRUE]
    <2>1. rec \in Request /\ req' = [req EXCEPT ![n] = rec]
        BY <1>1, <1>7 DEF Request, TypeOK
    <2>2. /\ rec.at = "reserve" /\ rec.owner /\ rec.key = req[n].key
          /\ rec.row = req[n].row /\ rec.intent = req[n].intent
        BY <1>1 DEF Request
    <2> HIDE DEF rec
    <2>3. \A m \in Requests : req'[m] = IF m = n THEN rec ELSE req[m]
        BY <1>1, <2>1 DEF TypeOK
    <2>4. TypeOK'
        BY <1>1, <1>2, <1>7, <2>1 DEF TypeOK
    <2>5. RequestGood(n)'
        BY <1>1, <2>2, <2>3 DEF RequestGood, Holding
    <2>6. \A j \in Keys : pending'[j] = IF j = k THEN n ELSE pending[j]
        BY <1>1, <1>7 DEF TypeOK
    <2>7. PendingGood'
        BY <1>1, <2>2, <2>3, <2>6 DEF PendingGood, IInv, TypeOK
    <2>8. MemoryGood'
        BY <1>1, <1>2, <2>3 DEF MemoryGood, IInv, TypeOK
    <2> QED
        BY <1>1, <1>2, <2>1, <2>2, <2>4, <2>5, <2>7, <2>8, Frame DEF Unreserved
<1> QED
    BY <1>1, <1>4, <1>5, <1>6, <1>7 DEF Begin, Key

\* The map of replays loses entries, and gains the one given.
LEMMA RememberedKeeps ==
    ASSUME TypeOK, NEW k \in Keys, NEW entry, Remembered(k, entry)
    PROVE  /\ cache' = [j \in Keys |-> cache'[j]]
           /\ \A j \in Keys : cache'[j] \in {cache[j], None} \/ (j = k /\ cache'[j] = entry)
<1>1. PICK lost : cache' = [cache EXCEPT ![lost] = None, ![k] = entry]
    BY DEF Remembered
<1> DEFINE lossy == [cache EXCEPT ![lost] = None]
<1>2. lossy = [j \in Keys |-> lossy[j]] /\ \A j \in Keys : lossy[j] \in {cache[j], None}
    BY DEF TypeOK
<1>3. cache' = [lossy EXCEPT ![k] = entry]
    BY <1>1
<1> HIDE DEF lossy
<1> QED
    BY <1>2, <1>3

LEMMA ReplyIInv == ASSUME NEW n \in Requests PROVE IInv /\ Reply(n) => IInv'
<1> SUFFICES ASSUME IInv, Reply(n)
             PROVE  IInv'
    OBVIOUS
<1>1. /\ req[n].at = "reply" /\ req[n] \in Request /\ faults' \in 0 .. MaxFaults
      /\ RequestGood(n) /\ TypeOK
      /\ req[n].key \in Keys /\ req[n].intent \in Intents
    BY DEF Reply, At, IInv, TypeOK, RequestGood
<1>2. /\ UNCHANGED <<resource, manager, gate, journal, faults, done, changes>>
      /\ End(n, req[n].answer)
    BY DEF Reply, history
<1> DEFINE k == req[n].key
<1>3. /\ journal[k].state = "completed" /\ journal[k].intent = req[n].intent
      /\ journal[k].answer = req[n].answer
    BY <1>1 DEF RequestGood
<1>4. req[n].answer = "ok" => req[n].intent \in done[k]
    BY <1>1, <1>3 DEF IInv, KeyGood
<1>5. req[n].answer \in Answers
    BY <1>1, <1>3 DEF IInv, KeyGood, TypeOK, Row
<1> DEFINE entry == [intent |-> req[n].intent, answer |-> req[n].answer]
<1>6. \A j \in Keys : \/ cache'[j] \in {cache[j], None}
                      \/ j = k /\ cache'[j] = entry /\ req[n].answer # "error"
    <2>1. CASE req[n].answer = "error"
        BY <2>1 DEF Reply
    <2>2. CASE req[n].answer # "error"
        <3>1. Remembered(k, entry)
            BY <2>2 DEF Reply, Key
        <3> HIDE DEF entry
        <3> QED
            BY <1>1, <2>2, <3>1, RememberedKeeps
    <2> QED
        BY <2>1, <2>2
<1>7. cache' \in [Keys -> [intent : Intents, answer : {"ok", "refused"}] \cup {None}]
    <2>1. req[n].answer # "error" => entry \in [intent : Intents, answer : {"ok", "refused"}]
        BY <1>1, <1>5 DEF Answers
    <2>2. cache' = [j \in Keys |-> cache'[j]]
        <3>1. CASE req[n].answer = "error"
            BY <1>1, <3>1 DEF Reply, TypeOK
        <3>2. CASE req[n].answer # "error"
            <4>1. Remembered(k, entry)
                BY <3>2 DEF Reply, Key
            <4> HIDE DEF entry
            <4> QED
                BY <1>1, <4>1, RememberedKeeps
        <3> QED
            BY <3>1, <3>2
    <2> QED
        BY <1>1, <1>6, <2>1, <2>2 DEF TypeOK
<1>8. \A j \in Keys : cache'[j] # None =>
               /\ journal[j].state = "completed"
               /\ journal[j].intent = cache'[j].intent /\ journal[j].answer = cache'[j].answer
    BY <1>3, <1>6 DEF IInv, MemoryGood
<1> QED
    BY <1>1, <1>2, <1>4, <1>7, <1>8, EndStep

LEMMA FailsIInv ==
    ASSUME NEW n \in Requests, IInv, Fails(n), faults' \in 0 .. MaxFaults
    PROVE  IInv'
<1>1. UNCHANGED <<resource, manager, gate, cache, journal, done, changes>>
    BY DEF Fails, history
<1>2. CASE /\ req[n].at \in {"lookup", "reload", "settle", "reserve", "complete"}
           /\ End(n, "unavailable")
    BY <1>1, <1>2, EndStep DEF IInv, MemoryGood, TypeOK
<1>3. CASE At(n, "release") /\ Goto(n, "complete") /\ UNCHANGED pending
    <2> DEFINE rec == [req[n] EXCEPT !.at = "complete"]
    <2>1. rec \in Request /\ req' = [req EXCEPT ![n] = rec]
        BY <1>3, GotoType DEF IInv
    <2>2. req[n].at = "release" /\ req[n] \in Request /\ RequestGood(n)
        BY <1>3 DEF At, IInv, TypeOK
    <2>3. /\ rec.at = "complete" /\ rec.owner = req[n].owner /\ rec.key = req[n].key
          /\ rec.row = req[n].row /\ rec.intent = req[n].intent /\ rec.answer = req[n].answer
        BY <2>2 DEF Request
    <2> HIDE DEF rec
    <2>4. req'[n] = rec
        BY <2>1 DEF IInv, TypeOK
    <2>5. Held(n)
        BY <2>2 DEF RequestGood, Holding
    <2>6. Held(n)'
        BY <1>1, <2>2, <2>3, <2>4, <2>5 DEF Held, Present
    <2>7. RequestGood(n)'
        BY <2>2, <2>3, <2>4, <2>6 DEF RequestGood, Holding
    <2> QED
        BY <1>1, <1>3, <2>1, <2>2, <2>3, <2>7, MoveStep DEF Unreserved
<1> QED
    BY <1>2, <1>3 DEF Fails

LEMMA GivesUpIInv ==
    ASSUME NEW n \in Requests, IInv, GivesUp(n), faults' \in 0 .. MaxFaults
    PROVE  IInv'
<1>1. /\ UNCHANGED <<resource, manager, gate, cache, journal, done, changes>>
      /\ req[n].at = "wait" /\ End(n, "unavailable")
    BY DEF GivesUp, history, At
<1> QED
    BY <1>1, EndStep DEF IInv, MemoryGood, TypeOK

\* That the client is gone changes what its request does next, not what is true of it.
LEMMA DisconnectIInv == ASSUME NEW n \in Requests PROVE IInv /\ Disconnect(n) => IInv'
<1> SUFFICES ASSUME IInv, Disconnect(n)
             PROVE  IInv'
    OBVIOUS
<1>1. /\ UNCHANGED <<resource, manager, gate, pending, cache, journal, done, changes>>
      /\ faults' \in 0 .. MaxFaults /\ req[n].at \notin {"new", "ended"}
    BY IdempotencyAssumption DEF Disconnect, Fault, Open, memory, history, IInv, TypeOK
<1>2. RequestGood(n) /\ req[n] \in Request
    BY DEF IInv, TypeOK
<1> DEFINE rec == [req[n] EXCEPT !.gone = TRUE]
<1>3. rec \in Request /\ req' = [req EXCEPT ![n] = rec]
    BY <1>2 DEF Disconnect, Request, IInv, TypeOK
<1>4. /\ rec.at = req[n].at /\ rec.owner = req[n].owner /\ rec.key = req[n].key
      /\ rec.waits = req[n].waits /\ rec.row = req[n].row /\ rec.intent = req[n].intent /\ rec.answer = req[n].answer
    BY <1>2 DEF Request
<1> HIDE DEF rec
<1>5. req'[n] = rec
    BY <1>3 DEF IInv, TypeOK
<1>6. req[n].at \in Holding => Held(n)'
    BY <1>1, <1>2, <1>4, <1>5 DEF RequestGood, Held, Present, Holding
<1>7. req[n].at \in {"recover", "settle"} => ReadRow(n)'
    BY <1>1, <1>2, <1>4, <1>5 DEF RequestGood, ReadRow
<1>8. RequestGood(n)'
    BY <1>1, <1>2, <1>4, <1>5, <1>6, <1>7 DEF RequestGood
<1>9. req[n].at \in {"begin", "wait"} => ~req[n].owner
    BY <1>2 DEF RequestGood
<1> QED
    BY <1>1, <1>3, <1>4, <1>8, <1>9, MoveStep

\* A request that holds its reservation records what its handler answered.
LEMMA HandledType ==
    ASSUME IInv, NEW n \in Requests, req[n].at = "handle",
           NEW answer \in {"ok", "refused", "error", "stale", "unready"}, Handled(n, answer)
    PROVE  \E rec \in Request :
              /\ req' = [req EXCEPT ![n] = rec]
              /\ rec.owner = req[n].owner /\ rec.key = req[n].key
              /\ rec.row = req[n].row /\ rec.intent = req[n].intent /\ rec.answer = answer
              /\ rec.at = IF answer \in {"stale", "unready"} THEN "release" ELSE "complete"
<1> DEFINE rec == [req[n] EXCEPT !.answer = answer,
                       !.at = IF answer \in {"stale", "unready"} THEN "release" ELSE "complete"]
<1>1. req[n] \in Request
    BY DEF IInv, TypeOK
<1>2. req' = [req EXCEPT ![n] = rec]
    BY <1>1 DEF Handled, Request, IInv, TypeOK
<1>3. rec \in Request
    BY <1>1 DEF Request, Answers
<1> QED
    BY <1>1, <1>2, <1>3 DEF Request

\* What the manager says of a request.
LEMMA DecisionType ==
    ASSUME NEW config \in Configurations, NEW intent \in Intents
    PROVE  Decision(config, intent) \in {"ok", "refused", "error", "stale"}
<1>1. CreateDecision(config) \in {"ok", "stale"}
    BY DEF CreateDecision
<1>2. ChangeDecision(config, intent.match) \in {"ok", "refused", "error", "stale"}
    BY DEF ChangeDecision, Configurations, Absent, Active, Retired
<1> QED
    BY <1>1, <1>2 DEF Decision

LEMMA RefusedIInv ==
    ASSUME NEW n \in Requests, IInv, req[n].at = "handle",
           NEW answer \in {"refused", "error", "stale", "unready"}, Handled(n, answer),
           UNCHANGED <<resource, manager, gate, pending, cache, journal, faults, done, changes>>
    PROVE  IInv'
<1>1. PICK rec \in Request :
              /\ req' = [req EXCEPT ![n] = rec]
              /\ rec.owner = req[n].owner /\ rec.key = req[n].key
              /\ rec.row = req[n].row /\ rec.intent = req[n].intent /\ rec.answer = answer
              /\ rec.at = IF answer \in {"stale", "unready"} THEN "release" ELSE "complete"
    BY HandledType
<1>2. RequestGood(n) /\ Held(n) /\ req'[n] = rec /\ faults' \in 0 .. MaxFaults
    BY <1>1 DEF IInv, TypeOK, RequestGood, Holding
<1>3. answer \in Answers \cup {"stale", "unready"}
    BY DEF Answers
<1>4. Held(n)'
    BY <1>1, <1>2, <1>3 DEF Held, Present
<1>5. RequestGood(n)'
    BY <1>1, <1>2, <1>4 DEF RequestGood, Holding
<1>6. rec.at \in {"release", "complete"}
    BY <1>1
<1> QED
    BY <1>1, <1>2, <1>5, <1>6, MoveStep DEF Unreserved

-----------------------------------------------------------------------------
(* The actions that change the journal *)

\* Nobody else's reservation or reading is disturbed by a step on the row of one
\* request's key that keeps the row's request and what is completed, and that
\* leaves the marks of attempts alone.
LEMMA JournalFrame ==
    ASSUME IInv, NEW n \in Requests, NEW rec, NEW k \in Keys,
           req' = [req EXCEPT ![n] = rec], rec.at \notin Unreserved,
           rec.row \in {req[n].row, NoRow},
           TypeOK', KeyGood(k)', RequestGood(n)', PendingGood', MemoryGood',
           \A j \in Keys \ {k} : /\ journal'[j] = journal[j] /\ done'[j] = done[j]
                                 /\ changes'[j] = changes[j],
           journal[k].intent # None => journal'[k].intent = journal[k].intent,
           journal[k].state = "completed" => journal'[k] = journal[k],
           journal'[k].attempt \in {journal[k].attempt, n},
           done[k] \subseteq done'[k],
           \/ UNCHANGED <<resource, gate>>
           \/ \A m \in Requests \ {n} : req[m].at # "repair",
           \A m \in Requests \ {n} : req[m].at \in Holding /\ req[m].key = k => Held(m)',
           \A m \in Requests \ {n} :
               /\ req[m].at \in {"recover", "settle"} /\ req[m].key = k /\ ReadRow(m)
               /\ req[m].row.effect # None /\ journal'[k].attempt = req[m].row.attempt
               /\ journal'[k].state = "reserved"
               => journal'[k].effect # None
    PROVE  IInv'
<1>1. \A m \in Requests : req'[m] = IF m = n THEN rec ELSE req[m]
    BY DEF IInv, TypeOK
<1>2. ASSUME NEW j \in Keys PROVE KeyGood(j)'
    <2>1. CASE j = k
        BY <2>1
    <2>2. CASE j # k
        BY <2>2 DEF IInv, KeyGood, Present
    <2> QED
        BY <2>1, <2>2
<1>3. ASSUME NEW m \in Requests PROVE RequestGood(m)'
    <2>1. CASE m = n
        BY <2>1
    <2>2. CASE m # n
        <3>1. req'[m] = req[m] /\ RequestGood(m)
            BY <1>1, <2>2 DEF IInv
        <3>2. \A j \in Keys : /\ journal[j].intent # None => journal'[j].intent = journal[j].intent
                              /\ journal[j].state = "completed" => journal'[j] = journal[j]
                              /\ done[j] \subseteq done'[j]
            OBVIOUS
        <3>3. req[m].at \notin {"new", "ended"} =>
                  req[m].key \in Keys /\ req[m].intent \in Intents /\ req[m].intent # None
            BY <3>1, IdempotencyAssumption DEF RequestGood
        <3>4. ASSUME req[m].at \in Holding
              PROVE  Held(m)'
            <4>1. CASE req[m].key = k
                BY <2>2, <3>4, <4>1
            <4>2. CASE req[m].key # k
                <5>1. Held(m) /\ req[m].key \in Keys \ {k}
                    BY <3>1, <3>3, <3>4, <4>2 DEF RequestGood, Holding
                <5>2. /\ journal'[req[m].key] = journal[req[m].key]
                      /\ done'[req[m].key] = done[req[m].key]
                      /\ changes'[req[m].key] = changes[req[m].key]
                    BY <5>1
                <5>3. req[m].at = "repair" => UNCHANGED <<resource, gate>>
                    BY <2>2
                <5> QED
                    BY <3>1, <5>1, <5>2, <5>3 DEF Held, Present
            <4> QED
                BY <4>1, <4>2
        <3>5. ASSUME req[m].at \in {"recover", "settle"}
              PROVE  ReadRow(m)'
            <4>1. ReadRow(m) /\ req[m].key \in Keys
                BY <3>1, <3>3, <3>5 DEF RequestGood
            <4>2. \/ journal'[req[m].key] = journal[req[m].key]
                  \/ req[m].key = k
                BY <4>1
            <4> QED
                BY <2>2, <3>1, <3>2, <3>3, <3>5, <4>1, <4>2 DEF ReadRow
        <3> QED
            BY <3>1, <3>2, <3>3, <3>4, <3>5 DEF RequestGood
    <2> QED
        BY <2>1, <2>2
<1>4. FreshAttempts'
    <2> SUFFICES ASSUME NEW m \in Requests, req'[m].at \in Unreserved
                 PROVE  /\ \A j \in Keys : journal'[j].attempt # m
                        /\ \A l \in Requests : req'[l].row.attempt # m
        BY DEF FreshAttempts
    <2>1. m # n /\ req[m].at \in Unreserved
        BY <1>1
    <2>2. /\ \A j \in Keys : journal[j].attempt # m
          /\ \A l \in Requests : req[l].row.attempt # m
        BY <2>1 DEF IInv, FreshAttempts
    <2>3. NoRow.attempt # m
        BY IdempotencyAssumption DEF NoRow
    <2>4. \A j \in Keys : journal'[j].attempt # m
        BY <2>1, <2>2
    <2> QED
        BY <1>1, <2>2, <2>3, <2>4
<1> QED
    BY <1>2, <1>3, <1>4 DEF IInv

\* Two requests never hold a reservation of one key.
LEMMA OneHolder ==
    ASSUME IInv, NEW n \in Requests, NEW m \in Requests \ {n},
           req[n].at \in Holding, req[m].at \in Holding
    PROVE  req[m].key # req[n].key
<1>1. Held(n) /\ Held(m)
    BY DEF IInv, RequestGood
<1> QED
    BY <1>1 DEF Held

LEMMA ReserveIInv == ASSUME NEW n \in Requests PROVE IInv /\ Reserve(n) => IInv'
<1> SUFFICES ASSUME IInv, Reserve(n)
             PROVE  IInv'
    OBVIOUS
<1>0. PICK k \in Keys, i \in Intents : k = req[n].key /\ i = req[n].intent
    BY DEF Reserve, At, IInv, RequestGood
<1>1. /\ req[n].at = "reserve" /\ req[n] \in Request /\ faults' \in 0 .. MaxFaults
      /\ RequestGood(n) /\ req[n].owner /\ TypeOK
      /\ journal[k] \in Row
    BY <1>0 DEF Reserve, At, IInv, TypeOK, RequestGood
<1>2. UNCHANGED <<resource, manager, gate, cache, faults, done, changes>>
    BY DEF Reserve, history
<1>3. CASE End(n, "conflict") /\ UNCHANGED journal
    BY <1>0, <1>1, <1>2, <1>3, EndStep DEF IInv, MemoryGood, TypeOK
<1>4. CASE Goto(n, "lookup") /\ UNCHANGED <<journal, pending>>
    <2> DEFINE rec == [req[n] EXCEPT !.at = "lookup"]
    <2>1. rec \in Request /\ req' = [req EXCEPT ![n] = rec]
        BY <1>0, <1>1, <1>4, GotoType
    <2>2. /\ rec.at = "lookup" /\ rec.owner = req[n].owner /\ rec.key = k
          /\ rec.row = req[n].row /\ rec.intent = i
        BY <1>0, <1>1 DEF Request
    <2> HIDE DEF rec
    <2>3. RequestGood(n)'
        BY <1>0, <1>1, <2>1, <2>2 DEF RequestGood, Holding, TypeOK
    <2> QED
        BY <1>0, <1>1, <1>2, <1>4, <2>1, <2>2, <2>3, MoveStep DEF Unreserved
<1>5. CASE /\ ~Present(journal[k]) /\ journal[k].intent \in {None, i}
           /\ journal' = [journal EXCEPT ![k] =
                [NoRow EXCEPT !.state = "reserved", !.intent = i, !.attempt = n]]
           /\ Goto(n, "handle") /\ UNCHANGED pending
    <2> DEFINE row == [NoRow EXCEPT !.state = "reserved", !.intent = i, !.attempt = n]
               rec == [req[n] EXCEPT !.at = "handle"]
    <2>1. /\ row \in Row /\ row.state = "reserved" /\ row.intent = i /\ row.attempt = n
          /\ row.effect = None /\ row.answer = None
        BY <1>0, <1>1 DEF NoRow, Row
    <2>2. rec \in Request /\ req' = [req EXCEPT ![n] = rec]
        BY <1>0, <1>1, <1>5, GotoType
    <2>3. /\ rec.at = "handle" /\ rec.owner /\ rec.key = k
          /\ rec.row = req[n].row /\ rec.intent = i
        BY <1>0, <1>1 DEF Request
    <2>4. journal' = [journal EXCEPT ![k] = row]
        BY <1>0, <1>5
    <2> HIDE DEF row, rec
    <2>5. journal'[k] = row /\ \A j \in Keys \ {k} : journal'[j] = journal[j]
        BY <1>0, <1>1, <2>4 DEF TypeOK
    <2>6. \A m \in Requests : req'[m] = IF m = n THEN rec ELSE req[m]
        BY <1>0, <1>1, <2>2 DEF TypeOK
    <2>7. TypeOK'
        BY <1>0, <1>1, <1>2, <1>5, <2>1, <2>2, <2>4 DEF TypeOK
    <2>8. PendingGood'
        BY <1>0, <1>1, <1>5, <2>2, <2>3, MovePending DEF IInv
    <2>9. MemoryGood'
        BY <1>0, <1>1, <1>2, <1>5, <2>5, <2>6 DEF IInv, MemoryGood, Present, TypeOK
    <2>10. KeyGood(k)'
        <3>1. /\ changes[k] = 0 /\ done[k] \subseteq {i}
            BY <1>0, <1>1, <1>5, IdempotencyAssumption DEF IInv, KeyGood, TypeOK
        <3> QED
            BY <1>0, <1>1, <1>2, <2>1, <2>5, <3>1, IdempotencyAssumption DEF KeyGood, Present, Answers
    <2>11. RequestGood(n)'
        BY <1>0, <1>1, <2>1, <2>3, <2>5, <2>6 DEF RequestGood, Holding, Held, Present
    <2>12. \A m \in Requests \ {n} : req[m].at \in Holding => req[m].key # k
        BY <1>0, <1>5 DEF IInv, RequestGood, Held
    <2>13. \A m \in Requests \ {n} : req[m].row.attempt # n
        BY <1>0, <1>1 DEF IInv, FreshAttempts, Unreserved
    <2>14. rec.at \notin Unreserved
        BY <2>3 DEF Unreserved
    <2>15. journal[k].state # "completed" /\ (journal[k].intent # None => row.intent = journal[k].intent)
        BY <1>0, <1>5, <2>1 DEF Present
    <2> QED
        BY <1>0, <1>1, <1>2, <2>1, <2>2, <2>3, <2>5, <2>7, <2>8, <2>9, <2>10, <2>11, <2>12, <2>13, <2>14,
           <2>15, JournalFrame
<1> QED
    BY <1>0, <1>3, <1>4, <1>5 DEF Reserve, Latest, Key

\* Completing a row that is reserved by an attempt.
LEMMA CompletedRow ==
    ASSUME TypeOK, NEW k \in Keys, NEW answer \in Answers, Completed(k, answer)
    PROVE  /\ journal' \in [Keys -> Row]
           /\ \A j \in Keys \ {k} : journal'[j] = journal[j]
           /\ journal'[k].state = "completed" /\ journal'[k].answer = answer
           /\ journal'[k].intent = journal[k].intent /\ journal'[k].attempt = journal[k].attempt
           /\ journal'[k].effect = journal[k].effect
<1> DEFINE row == [journal[k] EXCEPT !.state = "completed", !.answer = answer]
<1>1. journal[k] \in Row
    BY DEF TypeOK
<1>2. /\ row \in Row /\ row.state = "completed" /\ row.answer = answer
      /\ row.intent = journal[k].intent /\ row.attempt = journal[k].attempt
      /\ row.effect = journal[k].effect
    BY <1>1 DEF Row
<1>3. journal' = [journal EXCEPT ![k] = row]
    BY <1>1 DEF Completed, TypeOK, Row
<1> HIDE DEF row
<1> QED
    BY <1>2, <1>3 DEF TypeOK

\* Completing keeps what is known of a key, if the answer is true of it.
LEMMA CompletedKey ==
    ASSUME IInv, NEW k \in Keys, NEW answer \in Answers, Completed(k, answer),
           journal[k].state = "reserved", UNCHANGED <<done, changes>>,
           answer = "ok" => journal[k].intent \in done[k],
           answer = "refused" => journal[k].effect = None
    PROVE  KeyGood(k)'
<1>1. /\ journal'[k].state = "completed" /\ journal'[k].answer = answer
      /\ journal'[k].intent = journal[k].intent /\ journal'[k].attempt = journal[k].attempt
      /\ journal'[k].effect = journal[k].effect
    BY CompletedRow DEF IInv
<1>2. KeyGood(k)
    BY DEF IInv
<1> QED
    BY <1>1, <1>2, IdempotencyAssumption DEF KeyGood, Present

\* An attempt that completes the key, or a recovery that completes it for one.
LEMMA CompletingIInv ==
    ASSUME IInv, NEW n \in Requests, NEW k \in Keys, k = req[n].key, NEW answer \in Answers,
           req[n].at \in {"settle", "complete"},
           req[n].at = "settle" => answer = "ok",
           journal[k].state = "reserved", Completed(k, answer),
           journal[k].intent = req[n].intent,
           answer = "ok" => journal[k].intent \in done[k],
           answer = "refused" => journal[k].effect = None,
           req' = [req EXCEPT ![n].at = "reply", ![n].answer = answer],
           UNCHANGED <<resource, manager, gate, pending, cache, faults, done, changes>>,
           \A m \in Requests \ {n} : req[m].at \in Holding /\ req[m].key = k => Held(m)'
    PROVE  IInv'
<1> DEFINE rec == [req[n] EXCEPT !.at = "reply", !.answer = answer]
<1>1. req[n] \in Request /\ TypeOK /\ RequestGood(n)
    BY DEF IInv, TypeOK
<1>2. rec \in Request /\ req' = [req EXCEPT ![n] = rec]
    BY <1>1 DEF Request, TypeOK
<1>3. /\ rec.at = "reply" /\ rec.owner = req[n].owner /\ rec.key = k /\ rec.answer = answer
      /\ rec.row = req[n].row /\ rec.intent = req[n].intent
    BY <1>1 DEF Request
<1> HIDE DEF rec
<1>4. /\ journal' \in [Keys -> Row]
      /\ \A j \in Keys \ {k} : journal'[j] = journal[j]
      /\ journal'[k].state = "completed" /\ journal'[k].answer = answer
      /\ journal'[k].intent = journal[k].intent /\ journal'[k].attempt = journal[k].attempt
      /\ journal'[k].effect = journal[k].effect
    BY <1>1, CompletedRow
<1>5. KeyGood(k)'
    BY CompletedKey
<1>6. TypeOK'
    BY <1>1, <1>2, <1>4 DEF TypeOK
<1>7. PendingGood'
    <2>1. PendingGood /\ rec.owner = req[n].owner /\ rec.key = req[n].key
        BY <1>3 DEF IInv
    <2>2. rec.at \notin {"new", "begin", "wait", "ended"}
        BY <1>3
    <2> QED
        BY <1>1, <1>2, <2>1, <2>2, MovePending
<1>8. \A m \in Requests : req'[m] = IF m = n THEN rec ELSE req[m]
    BY <1>1, <1>2 DEF TypeOK
<1>9. MemoryGood'
    BY <1>1, <1>4, <1>8 DEF IInv, MemoryGood, TypeOK
<1>10. RequestGood(n)'
    BY <1>1, <1>3, <1>4, <1>8 DEF RequestGood, Holding
<1>11. rec.at \notin Unreserved
    BY <1>3 DEF Unreserved
<1> QED
    BY <1>2, <1>3, <1>4, <1>5, <1>6, <1>7, <1>9, <1>10, <1>11, JournalFrame

LEMMA SettleIInv == ASSUME NEW n \in Requests PROVE IInv /\ Settle(n) => IInv'
<1> SUFFICES ASSUME IInv, Settle(n)
             PROVE  IInv'
    OBVIOUS
<1>0. PICK k \in Keys : k = req[n].key
    BY DEF Settle, At, IInv, RequestGood
<1>1. /\ req[n].at = "settle" /\ req[n] \in Request /\ TypeOK /\ RequestGood(n)
      /\ faults' \in 0 .. MaxFaults /\ ReadRow(n)
    BY DEF Settle, At, IInv, TypeOK, RequestGood
<1>2. UNCHANGED <<resource, manager, gate, cache, faults, done, changes>>
    BY DEF Settle, history
<1>3. CASE End(n, "unavailable") /\ UNCHANGED journal
    BY <1>1, <1>2, <1>3, EndStep DEF IInv, MemoryGood, TypeOK
<1>4. CASE /\ Completes(k, req[n].row.attempt) /\ Completed(k, "ok")
           /\ req' = [req EXCEPT ![n].at = "reply", ![n].answer = "ok"]
           /\ UNCHANGED pending
    <2>1. /\ journal[k].state = "reserved" /\ journal[k].intent = req[n].intent
          /\ journal[k].effect # None /\ journal[k].intent \in done[k]
        BY <1>0, <1>1, <1>4 DEF Completes, ReadRow
    <2>2. /\ \A j \in Keys \ {k} : journal'[j] = journal[j]
          /\ journal'[k].state = "completed" /\ journal'[k].intent = journal[k].intent
          /\ journal'[k].attempt = journal[k].attempt /\ journal'[k].effect = journal[k].effect
        BY <1>1, <1>4, CompletedRow DEF Answers
    <2>3. ASSUME NEW m \in Requests \ {n}, req[m].at \in Holding, req[m].key = k
          PROVE  Held(m)'
        <3>1. Held(m) /\ req'[m] = req[m]
            BY <1>1, <1>4, <2>3 DEF IInv, TypeOK, RequestGood
        <3> QED
            BY <1>2, <2>1, <2>2, <2>3, <3>1 DEF Held, Present
    <2>4. "ok" \in Answers /\ "ok" # "refused"
        BY DEF Answers
    <2> QED
        BY <1>0, <1>1, <1>2, <1>4, <2>1, <2>3, <2>4, CompletingIInv
<1> QED
    BY <1>0, <1>3, <1>4 DEF Settle, Key

\* A 412 or 409 of a handler counts as refused, other answers as they are.
LEMMA ResponseType ==
    ASSUME NEW answer \in Answers \cup {"stale", "unready"}
    PROVE  /\ Response(answer) \in Answers
           /\ Response(answer) = "ok" => answer = "ok"
           /\ Response(answer) = "refused" => answer \in {"stale", "refused"}
BY DEF Answers, Response

LEMMA CompleteIInv == ASSUME NEW n \in Requests PROVE IInv /\ Complete(n) => IInv'
<1> SUFFICES ASSUME IInv, Complete(n)
             PROVE  IInv'
    OBVIOUS
<1>0. PICK k \in Keys : k = req[n].key
    BY DEF Complete, At, IInv, RequestGood
<1>1. /\ req[n].at = "complete" /\ req[n] \in Request /\ TypeOK
      /\ faults' \in 0 .. MaxFaults /\ Held(n)
    BY DEF Complete, At, IInv, TypeOK, RequestGood, Holding
<1>2. UNCHANGED <<resource, manager, gate, cache, faults, done, changes>>
    BY DEF Complete, history
<1>3. CASE End(n, "unavailable") /\ UNCHANGED journal
    BY <1>1, <1>2, <1>3, EndStep DEF IInv, MemoryGood, TypeOK
<1>4. CASE /\ Completes(k, n) /\ Completed(k, Response(req[n].answer))
           /\ req' = [req EXCEPT ![n].at = "reply", ![n].answer = Response(req[n].answer)]
           /\ UNCHANGED pending
    <2>1. PICK answer \in Answers :
              /\ answer = Response(req[n].answer)
              /\ answer = "ok" => req[n].answer = "ok"
              /\ answer = "refused" => req[n].answer \in {"stale", "refused"}
        BY <1>1, ResponseType DEF Held
    <2>2. \A m \in Requests \ {n} : req[m].at \in Holding => req[m].key # k
        BY <1>0, <1>1, OneHolder DEF Holding
    <2>3. /\ journal[k].state = "reserved" /\ journal[k].intent = req[n].intent
          /\ answer = "ok" => journal[k].intent \in done[k]
          /\ answer = "refused" => journal[k].effect = None
        BY <1>0, <1>1, <1>4, <2>1 DEF Held, Completes
    <2>4. /\ req' = [req EXCEPT ![n].at = "reply", ![n].answer = answer]
          /\ Completed(k, answer) /\ UNCHANGED pending
        BY <1>4, <2>1
    <2>5. req[n].at \in {"settle", "complete"} /\ req[n].at # "settle"
        BY <1>1
    <2> QED
        BY <1>0, <1>2, <2>2, <2>3, <2>4, <2>5, CompletingIInv
<1> QED
    BY <1>0, <1>3, <1>4 DEF Complete, Key

\* Releasing a row that is reserved by its attempt, when the attempt changed nothing.
LEMMA ReleasedRow ==
    ASSUME IInv, NEW n \in Requests, NEW k \in Keys, k = req[n].key, Released(n),
           journal[k].state = "reserved", changes[k] = 0, UNCHANGED <<done, changes>>
    PROVE  /\ journal' \in [Keys -> Row]
           /\ \A j \in Keys \ {k} : journal'[j] = journal[j]
           /\ journal'[k].state = "released"
           /\ journal'[k].intent = journal[k].intent /\ journal'[k].attempt = journal[k].attempt
           /\ KeyGood(k)'
<1> DEFINE row == [journal[k] EXCEPT !.state = "released", !.effect = None]
<1>1. journal[k] \in Row /\ journal \in [Keys -> Row] /\ KeyGood(k)
    BY DEF IInv, TypeOK
<1>2. /\ row \in Row /\ row.state = "released" /\ row.effect = None
      /\ row.intent = journal[k].intent /\ row.attempt = journal[k].attempt
      /\ row.answer = journal[k].answer
    BY <1>1 DEF Row
<1>3. journal' = [journal EXCEPT ![k] = row]
    BY <1>1 DEF Released, Key
<1> HIDE DEF row
<1>4. journal'[k] = row
    BY <1>1, <1>3
<1>5. KeyGood(k)'
    BY <1>1, <1>2, <1>4, IdempotencyAssumption DEF KeyGood, Present, Answers
<1> QED
    BY <1>1, <1>2, <1>3, <1>4, <1>5

\* Only the request that holds the gate is being repaired.
LEMMA OneRepair ==
    ASSUME IInv, NEW m \in Requests, req[m].at = "repair"
    PROVE  gate = m /\ gate # None
BY IdempotencyAssumption DEF IInv, RequestGood, Held, Holding

LEMMA ReleasingIInv ==
    ASSUME IInv, NEW n \in Requests, NEW k \in Keys, k = req[n].key,
           req[n].at \in {"repair", "release"}, Completes(k, n), Released(n), changes[k] = 0,
           NEW answer, answer # "ok", End(n, answer),
           UNCHANGED <<resource, cache, faults, done, changes>>,
           req[n].at = "release" => UNCHANGED <<manager, gate>>,
           req[n].at = "repair" => manager' = resource /\ gate' = None
    PROVE  IInv'
<1> DEFINE rec == Ended(n, answer)
<1>1. TypeOK /\ req[n].at \in Holding
    BY DEF IInv, Holding
<1>2. rec \in Request /\ rec.at = "ended" /\ rec.row = NoRow /\ rec.answer # "ok"
    BY <1>1, EndedType
<1>3. req' = [req EXCEPT ![n] = rec]
    BY DEF End
<1> HIDE DEF rec
<1>4. \A m \in Requests : req'[m] = IF m = n THEN rec ELSE req[m]
    BY <1>1, <1>3 DEF TypeOK
<1>5. /\ journal' \in [Keys -> Row]
      /\ \A j \in Keys \ {k} : journal'[j] = journal[j]
      /\ journal'[k].state = "released"
      /\ journal'[k].intent = journal[k].intent /\ journal'[k].attempt = journal[k].attempt
      /\ KeyGood(k)'
    BY ReleasedRow DEF Completes
<1>6. PendingGood' /\ pending' \in [Keys -> Requests \cup {None}]
    BY <1>1, EndPending DEF IInv
<1>7. TypeOK'
    BY <1>1, <1>2, <1>3, <1>5, <1>6 DEF TypeOK
<1>8. RequestGood(n)'
    BY <1>2, <1>4 DEF RequestGood, Holding
<1>9. journal[k].state = "reserved"
    BY DEF Completes
<1>10. MemoryGood'
    <2>1. gate' # None => req'[gate'].at = "repair"
        BY <1>1, <1>4 DEF IInv, MemoryGood, TypeOK
    <2>2. gate' = None => manager' \in {None, resource'}
        BY DEF IInv, MemoryGood
    <2>3. \A j \in Keys : cache[j] # None => journal'[j] = journal[j]
        BY <1>5, <1>9 DEF IInv, MemoryGood
    <2> QED
        BY <2>1, <2>2, <2>3 DEF IInv, MemoryGood
<1>11. \A m \in Requests \ {n} : req[m].at \in Holding => req[m].key # k
    BY <1>1, OneHolder
<1>12. \/ UNCHANGED <<resource, gate>>
       \/ \A m \in Requests \ {n} : req[m].at # "repair"
    BY OneRepair
<1>13. rec.at \notin Unreserved
    BY <1>2 DEF Unreserved
<1> QED
    BY <1>2, <1>3, <1>5, <1>6, <1>7, <1>8, <1>9, <1>10, <1>11, <1>12, <1>13, JournalFrame

LEMMA ReleaseIInv == ASSUME NEW n \in Requests PROVE IInv /\ Release(n) => IInv'
<1> SUFFICES ASSUME IInv, Release(n)
             PROVE  IInv'
    OBVIOUS
<1>0. PICK k \in Keys : k = req[n].key
    BY DEF Release, At, IInv, RequestGood
<1>1. /\ req[n].at = "release" /\ req[n] \in Request /\ TypeOK
      /\ faults' \in 0 .. MaxFaults /\ Held(n)
    BY DEF Release, At, IInv, TypeOK, RequestGood, Holding
<1>2. UNCHANGED <<resource, manager, gate, cache, faults, done, changes>>
    BY DEF Release, history
<1>3. ASSUME NEW answer \in {"refused", "unavailable"},
             Completes(k, n), Released(n), End(n, answer)
      PROVE  IInv'
    <2>1. changes[k] = 0
        BY <1>0, <1>1 DEF Held, IInv, KeyGood
    <2> QED
        BY <1>0, <1>1, <1>2, <1>3, <2>1, ReleasingIInv
<1>4. CASE Goto(n, "complete") /\ UNCHANGED <<journal, pending>>
    <2> DEFINE rec == [req[n] EXCEPT !.at = "complete"]
    <2>1. rec \in Request /\ req' = [req EXCEPT ![n] = rec]
        BY <1>1, <1>4, GotoType
    <2>2. /\ rec.at = "complete" /\ rec.owner = req[n].owner /\ rec.key = req[n].key
          /\ rec.row = req[n].row /\ rec.intent = req[n].intent /\ rec.answer = req[n].answer
        BY <1>1 DEF Request
    <2> HIDE DEF rec
    <2>3. req'[n] = rec
        BY <1>1, <2>1 DEF TypeOK
    <2>4. Held(n)'
        BY <1>1, <1>2, <1>4, <2>2, <2>3 DEF Held, Present
    <2>5. RequestGood(n) /\ RequestGood(n)'
        BY <1>1, <2>2, <2>3, <2>4 DEF RequestGood, Holding, IInv
    <2> QED
        BY <1>1, <1>2, <1>4, <2>1, <2>2, <2>5, MoveStep DEF Unreserved
<1> QED
    BY <1>0, <1>3, <1>4 DEF Release, Key

\* The gate is left to a completion: what the row says of the attempt stays.
LEMMA LeaveRepairIInv ==
    ASSUME IInv, NEW n \in Requests, req[n].at = "repair", Goto(n, "complete"),
           manager' \in {None, resource}, gate' = None, faults' \in 0 .. MaxFaults,
           UNCHANGED <<resource, pending, cache, journal, done, changes>>
    PROVE  IInv'
<1> DEFINE rec == [req[n] EXCEPT !.at = "complete"]
<1>1. TypeOK /\ RequestGood(n) /\ req[n] \in Request /\ Held(n)
    BY DEF IInv, TypeOK, RequestGood, Holding
<1>2. rec \in Request /\ req' = [req EXCEPT ![n] = rec]
    BY <1>1, GotoType
<1>3. /\ rec.at = "complete" /\ rec.owner = req[n].owner /\ rec.key = req[n].key
      /\ rec.row = req[n].row /\ rec.intent = req[n].intent /\ rec.answer = req[n].answer
    BY <1>1 DEF Request
<1> HIDE DEF rec
<1>4. req'[n] = rec
    BY <1>1, <1>2 DEF TypeOK
<1>5. Held(n)'
    BY <1>1, <1>3, <1>4 DEF Held, Present, Answers
<1>6. RequestGood(n)'
    BY <1>1, <1>3, <1>4, <1>5 DEF RequestGood, Holding
<1>7. TypeOK'
    BY <1>1, <1>2 DEF TypeOK
<1>8. PendingGood'
    BY <1>1, <1>2, <1>3, MovePending DEF IInv
<1>9. MemoryGood'
    BY DEF IInv, MemoryGood
<1>10. \A m \in Requests \ {n} : req[m].at # "repair"
    BY OneRepair
<1> QED
    BY <1>2, <1>3, <1>6, <1>7, <1>8, <1>9, <1>10, Frame DEF Unreserved

LEMMA RepairIInv == ASSUME NEW n \in Requests PROVE IInv /\ Repair(n) => IInv'
<1> SUFFICES ASSUME IInv, Repair(n)
             PROVE  IInv'
    OBVIOUS
<1>0. PICK k \in Keys : k = req[n].key
    BY DEF Repair, At, IInv, RequestGood
<1>1. /\ req[n].at = "repair" /\ TypeOK /\ faults' \in 0 .. MaxFaults /\ Held(n)
      /\ manager' = resource /\ gate' = None
      /\ UNCHANGED <<resource, cache, faults, done, changes>>
    BY DEF Repair, At, IInv, TypeOK, RequestGood, Holding, ReadBack, history
<1>2. CASE /\ ~Materialized(resource, req[n].intent)
           /\ Completes(k, n) /\ Released(n) /\ End(n, "unavailable")
    <2>1. changes[k] = 0
        BY <1>0, <1>1, <1>2 DEF Held, IInv, KeyGood
    <2> QED
        BY <1>0, <1>1, <1>2, <2>1, ReleasingIInv
<1>3. CASE Goto(n, "complete") /\ UNCHANGED <<journal, pending>>
    BY <1>1, <1>3, LeaveRepairIInv
<1> QED
    BY <1>0, <1>2, <1>3 DEF Repair, Key

LEMMA RepairFailsIInv ==
    ASSUME NEW n \in Requests, IInv, RepairFails(n), faults' \in 0 .. MaxFaults
    PROVE  IInv'
BY LeaveRepairIInv DEF RepairFails, At, ReadBack, history

\* A mutation that the connection does not show left it as it was.
LEMMA CommitUnseen ==
    ASSUME NEW i \in Intents, resource \in Configurations, Decision(resource, i) = "ok",
           ~Materialized(Result(i), i)
    PROVE  resource = Result(i)
<1>1. i.op \in {"create", "patch", "delete"}
    BY IdempotencyAssumption
<1>2. CASE i.op = "create"
    BY <1>2 DEF Materialized, Result, Active
<1>3. CASE i.op = "delete"
    BY <1>3 DEF Materialized, Result, Retired
<1>4. CASE i.op = "patch"
    <2>1. Result(i) = Active(i.value) /\ i.value = i.match
        BY <1>4 DEF Materialized, Result, Active
    <2>2. ChangeDecision(resource, i.match) = "ok"
        BY <1>4 DEF Decision
    <2>3. resource.state \in {"absent", "retired", "active"}
        BY DEF Configurations, Absent, Active, Retired
    <2>4. resource.state = "active" /\ resource.value = i.match
        BY <2>2, <2>3 DEF ChangeDecision
    <2>5. resource = Active(i.match)
        BY <2>4 DEF Configurations, Absent, Active, Retired
    <2> QED
        BY <2>1, <2>5
<1> QED
    BY <1>1, <1>2, <1>3, <1>4

\* The transaction of a handler: the connection, the mark, and the history.
LEMMA CommitEffect ==
    ASSUME IInv, NEW n \in Requests, NEW k \in Keys, NEW i \in Intents,
           k = req[n].key, i = req[n].intent, req[n].at = "handle", Commit(n)
    PROVE  /\ resource' = Result(i) /\ resource' \in Configurations
           /\ journal' \in [Keys -> Row] /\ done' \in [Keys -> SUBSET Intents]
           /\ changes' \in [Keys -> 0 .. 2]
           /\ \A j \in Keys \ {k} : /\ journal'[j] = journal[j] /\ done'[j] = done[j]
                                    /\ changes'[j] = changes[j]
           /\ journal[k].state = "reserved"
           /\ journal'[k].state = "reserved" /\ journal'[k].intent = i
           /\ journal[k].intent = i
           /\ journal'[k].attempt = n /\ journal'[k].effect # None
           /\ i \in done'[k] /\ done[k] \subseteq done'[k]
           /\ ~Materialized(resource', i) => changes'[k] = 0
           /\ KeyGood(k)'
<1>1. /\ Decision(resource, i) = "ok" /\ resource' = Result(i)
      /\ journal' = [journal EXCEPT ![k].effect = Result(i).value]
      /\ done' = [done EXCEPT ![k] = @ \cup {i}]
      /\ changes' = [changes EXCEPT ![k] =
            IF resource = Result(i) \/ @ = 2 THEN @ ELSE @ + 1]
    BY DEF Commit, Key
<1>2. /\ TypeOK /\ KeyGood(k) /\ Held(n) /\ journal[k] \in Row
      /\ journal \in [Keys -> Row] /\ changes[k] \in 0 .. 2
    BY DEF IInv, TypeOK, RequestGood, Holding
<1>3. Result(i) \in Configurations /\ Result(i).value \in Values /\ Result(i).value # None
    BY ResultType
<1>4. /\ journal[k].state = "reserved" /\ journal[k].intent = i /\ journal[k].attempt = n
      /\ journal[k].effect = None /\ changes[k] = 0 /\ done[k] \subseteq {i}
      /\ journal[k].answer = None
    BY <1>2 DEF Held, KeyGood
<1> DEFINE row == [journal[k] EXCEPT !.effect = Result(i).value]
<1>5. /\ row \in Row /\ row.state = "reserved" /\ row.intent = i /\ row.attempt = n
      /\ row.effect = Result(i).value /\ row.answer = None
    BY <1>2, <1>3, <1>4 DEF Row
<1>6. journal' = [journal EXCEPT ![k] = row]
    BY <1>1, <1>2
<1> HIDE DEF row
<1>7. /\ journal'[k] = row /\ journal' \in [Keys -> Row]
      /\ \A j \in Keys \ {k} : journal'[j] = journal[j]
    BY <1>2, <1>5, <1>6
<1>8. /\ done'[k] = done[k] \cup {i} /\ done' \in [Keys -> SUBSET Intents]
      /\ \A j \in Keys \ {k} : done'[j] = done[j]
    BY <1>1, <1>2 DEF TypeOK
<1>9. /\ changes'[k] = IF resource = Result(i) THEN 0 ELSE 1
      /\ changes' \in [Keys -> 0 .. 2]
      /\ \A j \in Keys \ {k} : changes'[j] = changes[j]
    BY <1>1, <1>2, <1>4 DEF TypeOK
<1>10. ~Materialized(resource', i) => changes'[k] = 0
    BY <1>1, <1>2, <1>9, CommitUnseen DEF TypeOK
<1>11. KeyGood(k)'
    <2>1. /\ journal'[k].state = "reserved" /\ journal'[k].answer = None
          /\ journal'[k].intent = i /\ journal'[k].attempt = n /\ journal'[k].effect # None
        BY <1>3, <1>5, <1>7
    <2>2. i # None /\ n # None /\ None \notin Answers
        BY IdempotencyAssumption
    <2>3. done'[k] = {i}
        BY <1>4, <1>8
    <2>4. changes'[k] # 0 => changes'[k] = 1
        BY <1>9
    <2> QED
        BY <2>1, <2>2, <2>3, <2>4 DEF KeyGood, Present, Answers
<1> QED
    BY <1>1, <1>3, <1>4, <1>5, <1>7, <1>8, <1>9, <1>10, <1>11

\* A handler that commits, whether it then says so or has to be repaired.
LEMMA CommitIInv ==
    ASSUME IInv, NEW n \in Requests, req[n].at = "handle", gate = None, Commit(n),
           NEW rec \in Request, req' = [req EXCEPT ![n] = rec],
           rec.owner = req[n].owner, rec.key = req[n].key, rec.row = req[n].row,
           rec.intent = req[n].intent,
           \/ /\ rec.at = "complete" /\ rec.answer = "ok"
              /\ gate' = gate /\ manager' = Result(req[n].intent)
           \/ /\ rec.at = "repair" /\ rec.answer = "error"
              /\ gate' = n /\ manager' = Result(req[n].intent),
           UNCHANGED <<pending, cache>>, faults' \in 0 .. MaxFaults
    PROVE  IInv'
<1>0. PICK k \in Keys, i \in Intents : k = req[n].key /\ i = req[n].intent
    BY DEF IInv, RequestGood
<1>1. /\ TypeOK /\ RequestGood(n) /\ req[n].owner /\ n # None
    BY IdempotencyAssumption DEF IInv, RequestGood, Holding, Held
<1>2. /\ resource' = Result(i) /\ resource' \in Configurations
      /\ journal' \in [Keys -> Row] /\ done' \in [Keys -> SUBSET Intents]
      /\ changes' \in [Keys -> 0 .. 2]
      /\ \A j \in Keys \ {k} : /\ journal'[j] = journal[j] /\ done'[j] = done[j]
                               /\ changes'[j] = changes[j]
      /\ journal[k].state = "reserved" /\ journal[k].intent = i
      /\ journal'[k].state = "reserved" /\ journal'[k].intent = i
      /\ journal'[k].attempt = n /\ journal'[k].effect # None
      /\ i \in done'[k] /\ done[k] \subseteq done'[k]
      /\ ~Materialized(resource', i) => changes'[k] = 0
      /\ KeyGood(k)'
    BY <1>0, CommitEffect
<1>3. \A m \in Requests : req'[m] = IF m = n THEN rec ELSE req[m]
    BY <1>1 DEF TypeOK
<1>4. TypeOK'
    BY <1>0, <1>1, <1>2 DEF TypeOK
<1>5. PendingGood'
    <2>1. rec.at \notin {"new", "begin", "wait", "ended"}
        OBVIOUS
    <2> QED
        BY <1>1, <2>1, MovePending DEF IInv
<1>6. MemoryGood'
    <2>1. gate' # None => req'[gate'].at = "repair"
        BY <1>3
    <2>2. gate' = None => manager' \in {None, resource'}
        BY <1>0, <1>1, <1>2
    <2>3. \A j \in Keys : cache[j] # None => journal'[j] = journal[j]
        BY <1>2 DEF IInv, MemoryGood
    <2> QED
        BY <2>1, <2>2, <2>3 DEF IInv, MemoryGood
<1>7. Held(n)'
    <2>1. req'[n] = rec
        BY <1>3
    <2>2. rec.at \notin {"handle", "release"}
        OBVIOUS
    <2>3. "ok" \notin {"stale", "refused", "unready"} /\ "error" # "ok" /\ "ok" \in Answers
        BY DEF Answers
    <2>4. /\ rec.owner /\ rec.key = k /\ rec.intent = i
          /\ journal'[k].state = "reserved" /\ journal'[k].attempt = n
          /\ journal'[k].intent = i
        BY <1>0, <1>1, <1>2
    <2>5. CASE rec.at = "complete" /\ rec.answer = "ok"
        BY <1>2, <2>1, <2>3, <2>4, <2>5 DEF Held, Present
    <2>6. CASE rec.at = "repair" /\ rec.answer = "error" /\ gate' = n
        BY <1>2, <2>1, <2>3, <2>4, <2>6 DEF Held, Present
    <2> QED
        BY <2>5, <2>6
<1>8. RequestGood(n)'
    BY <1>0, <1>3, <1>7 DEF RequestGood, Holding
<1>9. \A m \in Requests \ {n} : req[m].at \in Holding => req[m].key # k
    BY <1>0, OneHolder DEF Holding
<1>10. \A m \in Requests \ {n} : req[m].at # "repair"
    BY OneRepair
<1>11. rec.at \notin Unreserved
    BY DEF Unreserved
<1> QED
    BY <1>0, <1>2, <1>4, <1>5, <1>6, <1>8, <1>9, <1>10, <1>11, JournalFrame

LEMMA HandleIInv == ASSUME NEW n \in Requests PROVE IInv /\ Handle(n) => IInv'
<1> SUFFICES ASSUME IInv, Handle(n)
             PROVE  IInv'
    OBVIOUS
<1>1. /\ req[n].at = "handle" /\ gate = None /\ TypeOK /\ faults' \in 0 .. MaxFaults
      /\ UNCHANGED <<gate, pending, cache, faults>> /\ req[n].intent \in Intents
    BY DEF Handle, At, IInv, TypeOK, RequestGood
<1>2. CASE Handled(n, "unready") /\ UNCHANGED <<resource, manager, journal, history>>
    BY <1>1, <1>2, RefusedIInv DEF history
<1>3. CASE /\ manager # None /\ Decision(manager, req[n].intent) # "ok"
           /\ Handled(n, Decision(manager, req[n].intent))
           /\ UNCHANGED <<resource, manager, journal, history>>
    <2>1. Decision(manager, req[n].intent) \in {"refused", "error", "stale"}
        BY <1>1, <1>3, DecisionType DEF TypeOK
    <2> QED
        BY <1>1, <1>3, <2>1, RefusedIInv DEF history
<1>4. CASE Commit(n) /\ manager' = Result(req[n].intent) /\ Handled(n, "ok")
    <2>1. PICK rec \in Request :
              /\ req' = [req EXCEPT ![n] = rec]
              /\ rec.owner = req[n].owner /\ rec.key = req[n].key
              /\ rec.row = req[n].row /\ rec.intent = req[n].intent /\ rec.answer = "ok"
              /\ rec.at = IF "ok" \in {"stale", "unready"} THEN "release" ELSE "complete"
        BY <1>1, <1>4, HandledType
    <2> QED
        BY <1>1, <1>4, <2>1, CommitIInv
<1> QED
    BY <1>2, <1>3, <1>4 DEF Handle

LEMMA HandleFailsIInv ==
    ASSUME NEW n \in Requests, IInv, HandleFails(n), faults' \in 0 .. MaxFaults
    PROVE  IInv'
<1>1. /\ req[n].at = "handle" /\ gate = None /\ TypeOK /\ RequestGood(n) /\ Held(n)
      /\ gate' = n /\ UNCHANGED <<pending, cache>> /\ req[n] \in Request
      /\ req[n].intent \in Intents
    BY DEF HandleFails, At, IInv, TypeOK, RequestGood, Holding
<1> DEFINE rec == [req[n] EXCEPT !.at = "repair", !.answer = "error"]
<1>2. rec \in Request /\ req' = [req EXCEPT ![n] = rec]
    BY <1>1 DEF HandleFails, Request, TypeOK, Answers
<1>3. /\ rec.at = "repair" /\ rec.owner = req[n].owner /\ rec.key = req[n].key
      /\ rec.row = req[n].row /\ rec.intent = req[n].intent /\ rec.answer = "error"
    BY <1>1 DEF Request
<1> HIDE DEF rec
<1>4. CASE Commit(n) /\ manager' = Result(req[n].intent)
    BY <1>1, <1>2, <1>3, <1>4, CommitIInv
<1>5. CASE /\ UNCHANGED <<resource, journal, history>>
           /\ manager' \in {manager, Result(req[n].intent)}
    <2>1. req'[n] = rec
        BY <1>1, <1>2 DEF TypeOK
    <2>2. Held(n)'
        BY <1>1, <1>3, <1>5, <2>1 DEF Held, Present, history
    <2>3. RequestGood(n)'
        BY <1>1, <1>3, <2>1, <2>2 DEF RequestGood, Holding
    <2>4. TypeOK'
        BY <1>1, <1>2, <1>5, ResultType DEF TypeOK, history
    <2>5. PendingGood'
        BY <1>1, <1>2, <1>3, MovePending DEF IInv
    <2>6. MemoryGood'
        BY <1>1, <1>3, <1>5, <2>1, IdempotencyAssumption DEF IInv, MemoryGood
    <2>7. \A m \in Requests \ {n} : req[m].at # "repair"
        BY <1>1, OneRepair
    <2>8. rec.at \notin Unreserved
        BY <1>3 DEF Unreserved
    <2> QED
        BY <1>2, <1>3, <1>5, <2>3, <2>4, <2>5, <2>6, <2>7, <2>8, Frame DEF history
<1> QED
    BY <1>4, <1>5 DEF HandleFails

\* A restart keeps the connection and the journal, and ends every request.
LEMMA RestartIInv == IInv /\ Restart => IInv'
<1> SUFFICES ASSUME IInv, Restart
             PROVE  IInv'
    OBVIOUS
<1>1. /\ UNCHANGED <<resource, journal, done, changes>> /\ TypeOK
      /\ manager' = resource /\ gate' = None /\ faults' \in 0 .. MaxFaults
      /\ pending' = [k \in Keys |-> None] /\ cache' = [k \in Keys |-> None]
    BY IdempotencyAssumption DEF Restart, Fault, history, IInv, TypeOK
<1>2. ASSUME NEW m \in Requests
      PROVE  /\ req'[m] \in Request
             /\ \/ req'[m] = req[m] /\ req[m].at \in {"new", "ended"}
                \/ req'[m].at = "ended" /\ req'[m].answer # "ok" /\ req'[m].row = NoRow
    <2>1. CASE Open(m)
        <3>1. req'[m] = Ended(m, "lost")
            BY <2>1 DEF Restart
        <3> QED
            BY <1>1, <3>1, EndedType
    <2>2. CASE ~Open(m)
        BY <1>1, <2>2 DEF Restart, Open, TypeOK
    <2> QED
        BY <2>1, <2>2
<1>3. req' \in [Requests -> Request]
    BY <1>2 DEF Restart
<1>4. TypeOK'
    BY <1>1, <1>3 DEF TypeOK
<1>5. \A k \in Keys : KeyGood(k)'
    BY <1>1 DEF IInv, KeyGood, Present
<1>6. ASSUME NEW m \in Requests PROVE RequestGood(m)'
    BY <1>1, <1>2 DEF IInv, RequestGood, Holding
<1>7. FreshAttempts'
    <2> SUFFICES ASSUME NEW m \in Requests, req'[m].at \in Unreserved
                 PROVE  /\ \A k \in Keys : journal[k].attempt # m
                        /\ \A l \in Requests : req'[l].row.attempt # m
        BY <1>1 DEF FreshAttempts
    <2>1. req[m].at \in Unreserved
        BY <1>2 DEF Unreserved
    <2>2. /\ \A k \in Keys : journal[k].attempt # m
          /\ \A l \in Requests : req[l].row.attempt # m
        BY <2>1 DEF IInv, FreshAttempts
    <2>3. NoRow.attempt # m
        BY IdempotencyAssumption DEF NoRow
    <2> QED
        BY <1>2, <2>2, <2>3
<1>8. PendingGood' /\ MemoryGood'
    BY <1>1 DEF PendingGood, MemoryGood
<1> QED
    BY <1>4, <1>5, <1>6, <1>7, <1>8 DEF IInv

-----------------------------------------------------------------------------
(* The invariant *)

LEMMA InitIInv == Init => IInv
<1> SUFFICES ASSUME Init
             PROVE  IInv
    OBVIOUS
<1>1. Unsent \in Request /\ NoRow \in Row
    BY DEF Unsent, Request, NoRow, Row
<1>2. TypeOK
    BY <1>1, IdempotencyAssumption DEF Init, TypeOK
<1>3. \A k \in Keys : KeyGood(k)
    BY IdempotencyAssumption DEF Init, KeyGood, NoRow, Answers
<1>4. \A n \in Requests : RequestGood(n)
    BY DEF Init, RequestGood, Unsent, Holding
<1>5. FreshAttempts
    BY IdempotencyAssumption DEF Init, FreshAttempts, Unsent, NoRow
<1>6. PendingGood /\ MemoryGood
    BY DEF Init, PendingGood, MemoryGood
<1> QED
    BY <1>2, <1>3, <1>4, <1>5, <1>6 DEF IInv

LEMMA StutterIInv == IInv /\ UNCHANGED vars => IInv'
<1> SUFFICES ASSUME IInv, UNCHANGED vars
             PROVE  IInv'
    OBVIOUS
<1>1. UNCHANGED <<resource, manager, gate, journal, pending, cache, req, faults, done, changes>>
    BY DEF vars
<1>2. TypeOK'
    BY <1>1 DEF IInv, TypeOK
<1>3. \A k \in Keys : KeyGood(k)'
    BY <1>1 DEF IInv, KeyGood, Present
<1>4. ASSUME NEW n \in Requests PROVE RequestGood(n)'
    <2>1. RequestGood(n)
        BY DEF IInv
    <2>2. Held(n) => Held(n)'
        BY <1>1 DEF Held, Present
    <2>3. ReadRow(n) => ReadRow(n)'
        BY <1>1 DEF ReadRow
    <2> QED
        BY <1>1, <2>1, <2>2, <2>3 DEF RequestGood
<1>5. FreshAttempts' /\ PendingGood' /\ MemoryGood'
    BY <1>1 DEF IInv, FreshAttempts, PendingGood, MemoryGood
<1> QED
    BY <1>2, <1>3, <1>4, <1>5 DEF IInv

LEMMA AbandonedIInv == ASSUME NEW n \in Requests PROVE IInv /\ Abandoned(n) => IInv'
<1> SUFFICES ASSUME IInv, Abandoned(n)
             PROVE  IInv'
    OBVIOUS
<1>1. faults' \in 0 .. MaxFaults
    BY DEF Abandoned, IInv, TypeOK
<1> QED
    BY <1>1, FailsIInv, GivesUpIInv, HandleFailsIInv DEF Abandoned

LEMMA StoreFailsIInv == ASSUME NEW n \in Requests PROVE IInv /\ StoreFails(n) => IInv'
<1> SUFFICES ASSUME IInv, StoreFails(n)
             PROVE  IInv'
    OBVIOUS
<1>1. faults' \in 0 .. MaxFaults
    BY IdempotencyAssumption DEF StoreFails, Fault, IInv, TypeOK
<1> QED
    BY <1>1, FailsIInv, HandleFailsIInv, RepairFailsIInv DEF StoreFails

LEMMA NextIInv == IInv /\ [Next]_vars => IInv'
<1> SUFFICES ASSUME IInv, [Next]_vars
             PROVE  IInv'
    OBVIOUS
<1>1. CASE Send
    BY <1>1, SendIInv
<1>2. ASSUME NEW n \in Requests, Serve(n)
      PROVE  IInv'
    BY <1>2, LookupIInv, ReloadIInv, RecoverIInv, SettleIInv, BeginIInv, WaitIInv, ReserveIInv,
       HandleIInv, RepairIInv, ReleaseIInv, CompleteIInv, ReplyIInv, AbandonedIInv DEF Serve
<1>3. ASSUME NEW n \in Requests, StoreFails(n) \/ Disconnect(n)
      PROVE  IInv'
    BY <1>3, StoreFailsIInv, DisconnectIInv
<1>4. CASE Restart
    BY <1>4, RestartIInv
<1>5. CASE Answered \/ UNCHANGED vars
    BY <1>5, StutterIInv DEF Answered
<1> QED
    BY <1>1, <1>2, <1>3, <1>4, <1>5 DEF Next

\* Every reachable state satisfies the inductive invariant.
THEOREM SpecIInv == Spec => []IInv
BY InitIInv, NextIInv, PTL DEF Spec

-----------------------------------------------------------------------------
(* What follows from it *)

\* However often a key is sent, released, recovered or retried after a lost
\* answer, it has taken effect for one request only, and has changed the
\* connection at most once.
THEOREM AlwaysAppliedOnce == Spec => []AppliedOnce
<1>1. ASSUME IInv PROVE AppliedOnce
    <2> SUFFICES ASSUME NEW k \in Keys
                 PROVE  changes[k] <= 1 /\ Cardinality(done[k]) <= 1
        BY DEF AppliedOnce
    <2>1. KeyGood(k) /\ changes[k] \in 0 .. 2
        BY <1>1 DEF IInv, TypeOK
    <2>2. changes[k] <= 1
        BY <2>1 DEF KeyGood
    <2>3. IsFiniteSet({journal[k].intent}) /\ Cardinality({journal[k].intent}) = 1
        BY FS_Singleton
    <2>4. done[k] \subseteq {journal[k].intent}
        BY <2>1 DEF KeyGood
    <2>5. Cardinality(done[k]) <= Cardinality({journal[k].intent})
        BY <2>3, <2>4, FS_Subset
    <2> QED
        BY <2>2, <2>3, <2>5
<1> QED
    BY <1>1, SpecIInv, PTL

\* A success that a client was told or that the journal keeps for replay is of
\* the request it is told to, and committed; a key that was released, or that
\* refuses for good, has changed nothing.
THEOREM AlwaysAnswersAreTrue == Spec => []AnswersAreTrue
<1>1. ASSUME IInv PROVE AnswersAreTrue
    <2>1. ASSUME NEW n \in Requests, req[n].answer = "ok", req[n].at \in {"reply", "ended"}
          PROVE  req[n].intent \in done[req[n].key]
        <3>1. RequestGood(n)
            BY <1>1 DEF IInv
        <3>2. CASE req[n].at = "ended"
            BY <2>1, <3>1, <3>2 DEF RequestGood
        <3>3. CASE req[n].at = "reply"
            <4>1. /\ req[n].key \in Keys /\ journal[req[n].key].answer = "ok"
                  /\ journal[req[n].key].intent = req[n].intent
                BY <2>1, <3>1, <3>3 DEF RequestGood
            <4> QED
                BY <1>1, <4>1 DEF IInv, KeyGood
        <3> QED
            BY <2>1, <3>2, <3>3
    <2>2. ASSUME NEW k \in Keys
          PROVE  /\ journal[k].answer = "ok" => journal[k].intent \in done[k]
                 /\ journal[k].state = "released" \/ journal[k].answer = "refused"
                        => changes[k] = 0
        BY <1>1 DEF IInv, KeyGood, Present
    <2> QED
        BY <2>1, <2>2 DEF AnswersAreTrue
<1> QED
    BY <1>1, SpecIInv, PTL

\* Outside configurationGate the manager's configuration is the database's, and
\* a replay is the completed row of its key.
THEOREM AlwaysMemoryAgrees == Spec => []MemoryAgrees
<1>1. IInv => MemoryAgrees
    BY DEF IInv, MemoryGood, MemoryAgrees
<1> QED
    BY <1>1, SpecIInv, PTL

\* The request that others wait for, and the one that holds the gate, are in a
\* step of their own.
THEOREM AlwaysWaitedForIsServed == Spec => []WaitedForIsServed
<1>1. ASSUME IInv PROVE WaitedForIsServed
    <2>1. ASSUME NEW k \in Keys, pending[k] # None
          PROVE  Open(pending[k]) /\ req[pending[k]].owner /\ req[pending[k]].key = k
        BY <1>1, <2>1 DEF IInv, PendingGood, Open
    <2>2. ASSUME NEW n \in Requests, req[n].at = "wait", pending[req[n].key] = req[n].waits
          PROVE  req[req[n].waits].at \notin {"wait", "ended"}
        BY <1>1, <2>2 DEF IInv, RequestGood, PendingGood
    <2> QED
        BY <1>1, <2>1, <2>2 DEF IInv, MemoryGood, WaitedForIsServed
<1> QED
    BY <1>1, SpecIInv, PTL

\* What may become of the row of a key in a step.
RowKept(k) ==
    /\ journal[k].intent # None => journal'[k].intent = journal[k].intent
    /\ journal[k].state = "completed" => journal'[k] = journal[k]

LEMMA CompletedKept ==
    ASSUME TypeOK, NEW k \in Keys, NEW answer \in Answers, Completed(k, answer),
           journal[k].state = "reserved"
    PROVE  \A j \in Keys : RowKept(j)
BY CompletedRow DEF RowKept

LEMMA ReleasedKept ==
    ASSUME TypeOK, NEW n \in Requests, req[n].key \in Keys, Completes(Key(n), n), Released(n)
    PROVE  \A j \in Keys : RowKept(j)
<1>1. journal[Key(n)] \in Row /\ journal[Key(n)].state = "reserved"
    BY DEF TypeOK, Key, Completes
<1> DEFINE row == [journal[Key(n)] EXCEPT !.state = "released", !.effect = None]
<1>2. row.intent = journal[Key(n)].intent
    BY <1>1 DEF Row
<1>3. journal' = [journal EXCEPT ![Key(n)] = row]
    BY DEF Released
<1> HIDE DEF row
<1> QED
    BY <1>1, <1>2, <1>3 DEF TypeOK, Key, RowKept

LEMMA CommitKept ==
    ASSUME IInv, NEW n \in Requests, At(n, "handle"), Commit(n)
    PROVE  \A j \in Keys : RowKept(j)
<1>1. PICK k \in Keys, i \in Intents : k = req[n].key /\ i = req[n].intent
    BY DEF At, IInv, RequestGood
<1>2. /\ \A j \in Keys \ {k} : journal'[j] = journal[j]
      /\ journal[k].state = "reserved" /\ journal[k].intent = i /\ journal'[k].intent = i
    BY <1>1, CommitEffect DEF At
<1> QED
    BY <1>2 DEF RowKept

LEMMA ServeKept ==
    ASSUME IInv, NEW n \in Requests, Serve(n)
    PROVE  \A k \in Keys : RowKept(k)
<1>0. /\ TypeOK
      /\ req[n].at \notin {"new", "ended"} => req[n].key \in Keys /\ req[n].intent \in Intents
    BY DEF IInv, RequestGood
<1>1. CASE UNCHANGED journal
    BY <1>1 DEF RowKept
<1>2. CASE Lookup(n) \/ Reload(n) \/ Recover(n) \/ Begin(n) \/ Wait(n) \/ Reply(n)
    BY <1>1, <1>2 DEF Lookup, Reload, Recover, Begin, Wait, Reply
<1>3. CASE Settle(n)
    BY <1>0, <1>1, <1>3, CompletedKept DEF Settle, Completes, At, Key, Answers
<1>4. CASE Complete(n)
    <2>1. CASE UNCHANGED journal
        BY <1>1, <2>1
    <2>2. CASE Completes(Key(n), n) /\ Completed(Key(n), Response(req[n].answer))
        <3>1. Held(n) /\ req[n].at = "complete"
            BY <1>4 DEF Complete, At, IInv, RequestGood, Holding
        <3>2. Response(req[n].answer) \in Answers
            BY <3>1, ResponseType DEF Held
        <3> QED
            BY <1>0, <2>2, <3>1, <3>2, CompletedKept DEF Completes, Key
    <2> QED
        BY <1>4, <2>1, <2>2 DEF Complete
<1>5. CASE Reserve(n)
    <2>1. CASE UNCHANGED journal
        BY <1>1, <2>1
    <2>2. CASE /\ ~Present(Latest(n)) /\ Latest(n).intent \in {None, req[n].intent}
               /\ journal' = [journal EXCEPT ![Key(n)] =
                    [NoRow EXCEPT !.state = "reserved", !.intent = req[n].intent, !.attempt = n]]
        <3> DEFINE row ==
                [NoRow EXCEPT !.state = "reserved", !.intent = req[n].intent, !.attempt = n]
        <3>1. row.intent = req[n].intent
            BY DEF NoRow
        <3>2. journal' = [journal EXCEPT ![Key(n)] = row]
            BY <2>2
        <3> HIDE DEF row
        <3> QED
            BY <1>0, <2>2, <3>1, <3>2 DEF TypeOK, Latest, Present, RowKept
    <2> QED
        BY <1>5, <2>1, <2>2 DEF Reserve
<1>6. CASE Handle(n)
    BY <1>1, <1>6, CommitKept DEF Handle
<1>7. CASE Repair(n)
    BY <1>0, <1>1, <1>7, ReleasedKept DEF Repair, At
<1>8. CASE Release(n)
    BY <1>0, <1>1, <1>8, ReleasedKept DEF Release, At
<1>9. CASE Abandoned(n)
    BY <1>1, <1>9, CommitKept DEF Abandoned, Fails, GivesUp, HandleFails
<1> QED
    BY <1>2, <1>3, <1>4, <1>5, <1>6, <1>7, <1>8, <1>9 DEF Serve

\* A completed key keeps its response, and a key its request, whatever late
\* attempt, recovery or fault comes after.
THEOREM RecordsAreFinal == Spec => RecordIsFinal
<1>1. ASSUME IInv, [Next]_vars
      PROVE  \A k \in Keys : RowKept(k)
    <2>1. CASE UNCHANGED journal
        BY <2>1 DEF RowKept
    <2>2. CASE Send \/ Restart \/ Answered \/ UNCHANGED vars
        BY <2>1, <2>2 DEF Send, Restart, Answered, vars
    <2>3. ASSUME NEW n \in Requests, Serve(n)
          PROVE  \A k \in Keys : RowKept(k)
        BY <1>1, <2>3, ServeKept
    <2>4. ASSUME NEW n \in Requests, StoreFails(n) \/ Disconnect(n)
          PROVE  \A k \in Keys : RowKept(k)
        BY <1>1, <2>1, <2>4, CommitKept
           DEF StoreFails, Disconnect, Fails, HandleFails, RepairFails
    <2> QED
        BY <1>1, <2>2, <2>3, <2>4 DEF Next
<1>2. IInv /\ [Next]_vars => [\A k \in Keys :
        /\ journal[k].intent # None => journal'[k].intent = journal[k].intent
        /\ journal[k].state = "completed" => journal'[k] = journal[k]]_vars
    BY <1>1 DEF RowKept
<1> QED
    BY <1>2, SpecIInv, PTL DEF Spec, RecordIsFinal
=============================================================================
