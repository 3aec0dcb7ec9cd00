----------------------------- MODULE TrashProofs -----------------------------
(***************************************************************************)
(* Proofs about Trash for every set of items, callers and janitors, one     *)
(* caller that knows the ID of the entry before it exists (OneTrasher), and  *)
(* any number of faults: what is recorded was done, no payload is left      *)
(* behind, and none is deleted early without an approval.                   *)
(*                                                                         *)
(* Calls overlap: a lease may run out under a purge or a restore that goes  *)
(* on, and a late Trash clears the operation of its entry.  The argument    *)
(* therefore never says that a call is alone.  It is that once no item is   *)
(* selected any more (Recorded) payload only leaves the trash, so that what *)
(* a call has found remains true whatever the others do (Later).            *)
(***************************************************************************)
EXTENDS Trash, TLAPS

-----------------------------------------------------------------------------
(* The inductive invariant *)

\* Every item was recorded as trashed, or has ended; nothing was moved yet;
\* what is in the trash was there for the retention period.
Recorded == Pending = {}
Untouched == Pending = Items /\ Original = Items
Aged == \A i \in Items : file[i] # "trash"

Approved == record["purge"] # None /\ record["purge"].approved

\* A call that moves payload to the trash, and one that is about to.
Mover(c) == c.kind \in {"trash", "retry"} /\ c.at \in {"stop", "move", "finish"}
Ahead(c) == c.kind = "trash" /\ c.at \in {"stop", "move"}

\* A call of Trash that has found no entry, and has not planned one yet.
Planning(c) == c.kind = "trash" /\ c.at = "plan"

\* c has seen the payload in the trash.
SawTrash(c) == c.kind \in EntryCalls /\ c.at = "write" /\ c.verdict = "trash_only"

\* A purge has deleted what it is done with, and every item when it succeeds.
PurgeGood(c) ==
    /\ c.at \in {"verify", "stop", "run", "finish"}
    /\ Recorded /\ c.done \subseteq Gone
    /\ c.at = "run" => Items \ c.todo \subseteq Gone
    /\ c.at = "finish" => /\ c.verdict \in {"held", "succeeded", "reconciling"}
                          /\ c.verdict = "succeeded" => Items \subseteq Gone
    /\ Approved \/ Aged

\* A restore has moved back what it is done with.
RestoreGood(c) ==
    /\ c.at \in {"stop", "run", "mark", "finish"}
    /\ Recorded /\ record["restore"] # None
    /\ c.at \in {"run", "mark"} => InTrash \subseteq c.todo
    /\ c.at = "mark" => (First(c) \in Items => First(c) \in Original)
    /\ c.at = "finish" => /\ c.verdict \in {"held", "succeeded", "reconciling"}
                          /\ c.verdict = "succeeded" => InTrash = {}

CallGood(c) ==
    /\ c.kind = "trash" => c.at \in {"stop", "move", "finish"}
    /\ c.kind = "reconcile" => c.at = "write"
    /\ c.kind = "retry" => c.at \in {"write", "claim", "stop", "move", "finish"}
    /\ c.kind = "purge" => PurgeGood(c)
    /\ c.kind = "restore" => RestoreGood(c)
    /\ Ahead(c) => Untouched

WorkGood(w) == call[w] # None => CallGood(call[w])

\* One call at a time moves payload to the trash, and nobody has seen it there
\* before it was moved.
CallsGood ==
    /\ \A w \in Workers : WorkGood(w)
    /\ \A v, w \in Workers :
          call[v] # None /\ call[w] # None =>
             /\ Mover(call[v]) /\ Mover(call[w]) => v = w
             /\ ~(Ahead(call[v]) /\ SawTrash(call[w]))

EntryGood ==
    /\ record["purge"] # None
    /\ entry.state \notin {"planned", "held"} => Recorded
    /\ entry.trashedAt => Recorded
    /\ entry.state = "trashed" => entry.trashedAt
    /\ entry.trashedAt /\ entry.due => Aged
    /\ entry.state = "purging" => Approved \/ Aged
    /\ entry.state \in Ended => InTrash = {}

Fresh ==
    /\ Untouched /\ client # "removed"
    /\ \A w \in Workers : call[w] # None => w \in Trashers /\ Planning(call[w])
    /\ \A op \in Operation : record[op] = None

Done == \A i \in Items : /\ item[i] = "purged" => file[i] = "gone"
                         /\ item[i] = "restored" => file[i] = "original"

\* What nothing would look for again is gone.
Emptied == Recorded /\ InTrash = {}

StoreGood ==
    /\ IF entry = None THEN Fresh ELSE EntryGood
    /\ \A op \in Operation : record[op] # None /\ record[op].state = "succeeded" => Emptied
    /\ record["restore"] # None => Recorded
    /\ client = "removed" => Emptied
    /\ Done

TInv == TypeOK /\ StoreGood /\ (entry # None => CallsGood)

\* One caller asks for the entry to be trashed: an ID that Trash generates is
\* nobody else's, one that is supplied must not be in two requests at a time.
\* Two calls that have both found no entry both dispatch (Trash discards what
\* ensurePlannedEntry says of the creation), and the later one may move to the
\* trash what was restored in between.
OneTrasher == \A v, w \in Trashers : v = w

-----------------------------------------------------------------------------
(* What stays true *)

ItemState == {"selected", "trashed", "purged", "restored"}

\* Once no item is selected payload only leaves the trash, and always what is
\* deleted stays deleted; an approval and a record stay.
Later ==
    /\ Pending' \subseteq Pending /\ Gone \subseteq Gone'
    /\ Recorded => /\ Original \subseteq Original' /\ InTrash' \subseteq InTrash
                   /\ Aged => Aged'
    /\ Approved => Approved'
    /\ record["restore"] # None => record'["restore"] # None

LEMMA EmptiedStays ==
    ASSUME Emptied, Later
    PROVE  Emptied'
  BY DEF Emptied, Later, Recorded

\* What is true of a call that purges or restores stays true.
LEMMA CallStays ==
    ASSUME NEW c, CallGood(c), Later, Ahead(c) => Untouched'
    PROVE  CallGood(c)'
<1>1. CASE c.kind = "purge"
  <2>1. PurgeGood(c)
    BY <1>1 DEF CallGood
  <2>2. Recorded' /\ Recorded
    BY <2>1 DEF PurgeGood, Later, Recorded
  <2>3. PurgeGood(c)'
    BY <2>1, <2>2 DEF PurgeGood, Later
  <2> QED BY <1>1, <2>3 DEF CallGood
<1>2. CASE c.kind = "restore"
  <2>1. RestoreGood(c)
    BY <1>2 DEF CallGood
  <2>2. Recorded' /\ Recorded
    BY <2>1 DEF RestoreGood, Later, Recorded
  <2>3. First(c)' = First(c)
    BY DEF First
  <2>4. RestoreGood(c)'
    BY <2>1, <2>2, <2>3 DEF RestoreGood, Later
  <2> QED BY <1>2, <2>4 DEF CallGood
<1>3. CASE c.kind \notin {"purge", "restore"}
  BY <1>3 DEF CallGood
<1> QED BY <1>1, <1>2, <1>3

\* d is c, but perhaps for its version.
Alike(c, d) ==
    /\ d.kind = c.kind /\ d.at = c.at /\ d.todo = c.todo
    /\ d.done = c.done /\ d.verdict = c.verdict

LEMMA AlikeGood ==
    ASSUME NEW c, NEW d, Alike(c, d)
    PROVE  /\ CallGood(c) => CallGood(d)
           /\ Mover(c) <=> Mover(d)
           /\ Ahead(c) <=> Ahead(d)
           /\ SawTrash(c) <=> SawTrash(d)
<1>1. First(c) = First(d)
  BY DEF First, Alike
<1>2. PurgeGood(c) => PurgeGood(d)
  BY DEF Alike, PurgeGood
<1>3. RestoreGood(c) => RestoreGood(d)
  BY <1>1 DEF Alike, RestoreGood
<1>4. (Mover(c) <=> Mover(d)) /\ (Ahead(c) <=> Ahead(d)) /\ (SawTrash(c) <=> SawTrash(d))
  BY DEF Alike, Mover, Ahead, SawTrash
<1> QED BY <1>2, <1>3, <1>4 DEF Alike, CallGood

\* The call of v goes on as it is, or has ended.
Kept(v) == call'[v] # None => call[v] # None /\ Alike(call[v], call'[v])

LEMMA GoodAt ==
    ASSUME NEW v, NEW d, call'[v] = d, d # None => CallGood(d)'
    PROVE  WorkGood(v)'
  BY DEF WorkGood, CallGood, PurgeGood, RestoreGood, Ahead, First

LEMMA KeptGood ==
    ASSUME NEW v \in Workers, Kept(v), CallsGood, Later, call'[v] # None,
           Ahead(call[v]) => Untouched'
    PROVE  /\ WorkGood(v)'
           /\ Mover(call'[v]) => Mover(call[v])
           /\ Ahead(call'[v]) => Ahead(call[v])
           /\ SawTrash(call'[v]) => SawTrash(call[v])
           /\ call[v] # None
<1>1. PICK c : c = call[v]
  OBVIOUS
<1>2. PICK d : d = call'[v]
  OBVIOUS
<1>3. Alike(c, d) /\ c # None
  BY <1>1, <1>2 DEF Kept
<1>4. CallGood(c)
  BY <1>1, <1>3 DEF CallsGood, WorkGood
<1>5. CallGood(d)
  BY <1>3, <1>4, AlikeGood
<1>6. Ahead(d) => Ahead(c)
  BY <1>3, AlikeGood
<1>7. CallGood(d)'
  BY <1>1, <1>5, <1>6, CallStays
<1>8. WorkGood(v)'
  BY <1>2, <1>7, GoodAt
<1> QED BY <1>1, <1>2, <1>3, <1>8, AlikeGood

\* A step of the process, of a caller between two calls, or of time.
LEMMA AllKept ==
    ASSUME CallsGood, Later, \A v \in Workers : Kept(v), Untouched => Untouched'
    PROVE  CallsGood'
<1>1. ASSUME NEW v \in Workers, call'[v] # None
      PROVE  /\ WorkGood(v)'
             /\ Mover(call'[v]) => Mover(call[v])
             /\ Ahead(call'[v]) => Ahead(call[v])
             /\ SawTrash(call'[v]) => SawTrash(call[v])
             /\ call[v] # None
  <2>1. call[v] # None
    BY <1>1 DEF Kept
  <2>2. Ahead(call[v]) => Untouched'
    BY <2>1 DEF CallsGood, WorkGood, CallGood
  <2> QED BY <1>1, <2>2, KeptGood
<1>2. ASSUME NEW v \in Workers PROVE WorkGood(v)'
  BY <1>1 DEF WorkGood
<1> QED BY <1>1, <1>2 DEF CallsGood

\* A step of the call of w, to d or to its end.
LEMMA WorkerKept ==
    ASSUME CallsGood, Later, NEW w \in Workers, NEW d, call'[w] = d,
           \A v \in Workers \ {w} : Kept(v),
           d # None => CallGood(d)',
           d # None /\ Mover(d) =>
              \/ call[w] # None /\ Mover(call[w])
              \/ \A v \in Workers \ {w} : call[v] # None => ~Mover(call[v]),
           d # None /\ Ahead(d) =>
              \/ call[w] # None /\ Ahead(call[w])
              \/ \A v \in Workers \ {w} : call[v] = None,
           d # None /\ SawTrash(d) => ~Untouched,
           Untouched => \/ Untouched'
                        \/ call[w] # None /\ (Mover(call[w]) \/ SawTrash(call[w]))
    PROVE  CallsGood'
<1>1. ASSUME NEW v \in Workers \ {w}, call'[v] # None
      PROVE  /\ WorkGood(v)'
             /\ Mover(call'[v]) => Mover(call[v])
             /\ Ahead(call'[v]) => Ahead(call[v])
             /\ SawTrash(call'[v]) => SawTrash(call[v])
             /\ call[v] # None
  <2>1. call[v] # None
    BY <1>1 DEF Kept
  <2>2. Ahead(call[v]) => Untouched /\ Mover(call[v])
    BY <2>1 DEF CallsGood, WorkGood, CallGood, Ahead, Mover
  <2>3. Ahead(call[v]) => Untouched'
    BY <1>1, <2>1, <2>2 DEF CallsGood
  <2> QED BY <1>1, <2>3, KeptGood
<1>2. ASSUME NEW v \in Workers \ {w}, call'[v] # None, Ahead(call'[v])
      PROVE  Untouched /\ call[v] # None /\ Ahead(call[v])
  BY <1>1, <1>2 DEF CallsGood, WorkGood, CallGood
<1>3. ASSUME NEW v \in Workers PROVE WorkGood(v)'
  <2>1. CASE v = w
    BY <2>1, GoodAt
  <2>2. CASE v # w
    BY <1>1, <2>2 DEF WorkGood
  <2> QED BY <2>1, <2>2
<1>4. ASSUME NEW u \in Workers, NEW v \in Workers, call'[u] # None, call'[v] # None,
             Mover(call'[u]), Mover(call'[v])
      PROVE  u = v
  <2>1. CASE u # w /\ v # w
    BY <1>1, <1>4, <2>1 DEF CallsGood
  <2>2. CASE u = w /\ v # w
    BY <1>1, <1>4, <2>2 DEF CallsGood
  <2>3. CASE u # w /\ v = w
    BY <1>1, <1>4, <2>3 DEF CallsGood
  <2> QED BY <2>1, <2>2, <2>3
<1>5. ASSUME NEW u \in Workers, NEW v \in Workers, call'[u] # None, call'[v] # None,
             Ahead(call'[u]), SawTrash(call'[v])
      PROVE  FALSE
  <2>1. CASE u # w /\ v # w
    BY <1>1, <1>5, <2>1 DEF CallsGood
  <2>2. CASE u # w /\ v = w
    BY <1>2, <1>5, <2>2
  <2>3. CASE u = w /\ v # w
    BY <1>1, <1>5, <2>3 DEF CallsGood
  <2>4. CASE u = w /\ v = w
    BY <1>5, <2>4 DEF Ahead, SawTrash, EntryCalls
  <2> QED BY <2>1, <2>2, <2>3, <2>4
<1> QED BY <1>3, <1>4, <1>5 DEF CallsGood

-----------------------------------------------------------------------------
(* Rows and calls *)

LEMMA Typed ==
    ASSUME TypeOK
    PROVE  /\ entry # None => entry \in Entry
           /\ \A op \in Operation : record[op] # None => record[op] \in JanitorRecord
           /\ \A w \in Workers : call[w] # None => call[w] \in Call
           /\ DOMAIN record = Operation /\ DOMAIN call = Workers
  BY DEF TypeOK

LEMMA Rows ==
    /\ \A e \in Entry : e # None
    /\ \A r \in JanitorRecord : r # None
    /\ \A c \in Call : c # None
    /\ "purge" \in Operation /\ "restore" \in Operation
  BY NoneAssumption DEF Operation

LEMMA OutdatedKept ==
    ASSUME TypeOK, NEW kinds
    PROVE  /\ Outdated(kinds) \in [Workers -> Call \cup {None}]
           /\ \A v \in Workers : Outdated(kinds)[v] # None =>
                 call[v] # None /\ Alike(call[v], Outdated(kinds)[v])
<1>1. ASSUME NEW v \in Workers
      PROVE  /\ Outdated(kinds)[v] \in Call \cup {None}
             /\ Outdated(kinds)[v] # None =>
                   call[v] # None /\ Alike(call[v], Outdated(kinds)[v])
  <2>1. CASE v \in Busy(kinds)
    <3>1. call[v] \in Call /\ call[v] # None
      BY <1>1, <2>1, Typed DEF Busy
    <3>2. PICK c : c = [call[v] EXCEPT !.current = FALSE]
      OBVIOUS
    <3>3. c \in Call /\ Alike(call[v], c)
      BY <3>1, <3>2 DEF Call, Alike
    <3>4. Outdated(kinds)[v] = c
      BY <1>1, <2>1, <3>2 DEF Outdated
    <3> QED BY <3>1, <3>3, <3>4
  <2>2. CASE v \notin Busy(kinds)
    <3>1. Outdated(kinds)[v] = call[v]
      BY <1>1, <2>2 DEF Outdated
    <3> QED BY <1>1, <3>1 DEF TypeOK, Alike
  <2> QED BY <2>1, <2>2
<1> QED BY <1>1 DEF Outdated

\* The calls between two steps of the same call.
Bases == {call} \cup {Outdated(kinds) : kinds \in SUBSET (EntryCalls \cup Operation)}

LEMMA CallSet ==
    ASSUME TypeOK, NEW w \in Workers, NEW base \in Bases, NEW d \in Call \cup {None},
           call' = [base EXCEPT ![w] = d]
    PROVE  /\ call' \in [Workers -> Call \cup {None}]
           /\ call'[w] = d
           /\ \A v \in Workers \ {w} : Kept(v)
<1>1. base \in [Workers -> Call \cup {None}]
  BY OutdatedKept DEF Bases, TypeOK
<1>2. \A v \in Workers : base[v] # None => call[v] # None /\ Alike(call[v], base[v])
  BY OutdatedKept DEF Bases, Alike
<1>3. \A v \in Workers : call'[v] = IF v = w THEN d ELSE base[v]
  BY <1>1
<1> QED BY <1>1, <1>2, <1>3 DEF Kept

LEMMA BaseKept ==
    ASSUME TypeOK, call' \in Bases
    PROVE  /\ call' \in [Workers -> Call \cup {None}]
           /\ \A v \in Workers : Kept(v)
  BY OutdatedKept DEF Bases, Kept, Alike, TypeOK

\* A record is not taken back, and does not succeed.
RecordStep(op) ==
    /\ record'[op] # None /\ record'[op].state = "succeeded" =>
          record[op] # None /\ record[op].state = "succeeded"
    /\ record[op] # None =>
          record'[op] # None /\ (record[op].approved => record'[op].approved)

\* A step that moves no payload and records none as moved.
Books ==
    /\ UNCHANGED <<item, file>>
    /\ entry # None /\ entry' \in Entry
    /\ record' \in [Operation -> JanitorRecord \cup {None}]
    /\ \A op \in Operation : RecordStep(op)
    /\ record'["restore"] # None => record["restore"] # None \/ Recorded

LEMMA BooksLater ==
    ASSUME Books
    PROVE  Later /\ (Untouched => Untouched')
  BY Rows DEF Books, Later, RecordStep, Approved, Recorded, Untouched, Aged, Pending, Gone,
     Original, InTrash

LEMMA BooksGood ==
    ASSUME TypeOK, StoreGood, Books, EntryGood', client' = client,
           faults' = faults \/ faults' \in 0..MaxFaults,
           call' \in [Workers -> Call \cup {None}]
    PROVE  TypeOK' /\ StoreGood'
<1>1. TypeOK'
  BY DEF TypeOK, Books
<1>2. entry' # None
  BY Rows DEF Books
<1>3. Emptied' = Emptied /\ Recorded' = Recorded /\ Done' = Done
  BY DEF Books, Emptied, Recorded, Done, Pending, InTrash
<1> QED BY <1>1, <1>2, <1>3 DEF Books, StoreGood, RecordStep

LEMMA RecordSet ==
    ASSUME TypeOK, NEW op \in Operation, NEW r \in JanitorRecord,
           record' = [record EXCEPT ![op] = r],
           r.state = "succeeded" => record[op] # None /\ record[op].state = "succeeded",
           record[op] # None => (record[op].approved => r.approved)
    PROVE  /\ record' \in [Operation -> JanitorRecord \cup {None}]
           /\ \A o \in Operation : RecordStep(o)
           /\ record'[op] = r /\ \A o \in Operation \ {op} : record'[o] = record[o]
<1>1. \A o \in Operation : record'[o] = IF o = op THEN r ELSE record[o]
  BY DEF TypeOK
<1>2. record' \in [Operation -> JanitorRecord \cup {None}]
  BY DEF TypeOK
<1> QED BY <1>1, <1>2, Rows DEF RecordStep

LEMMA RecordsStay ==
    ASSUME TypeOK, record' = record
    PROVE  /\ record' \in [Operation -> JanitorRecord \cup {None}]
           /\ \A o \in Operation : RecordStep(o)
  BY DEF TypeOK, RecordStep

\* The entry is left as it is but for its operation and clock, or held.
LEMMA EntryKept ==
    ASSUME EntryGood, Books, Approved => Approved', record'["purge"] # None,
           entry'.state \in {entry.state, "held"},
           entry'.trashedAt => entry.trashedAt,
           entry'.state = "trashed" => entry'.trashedAt = entry.trashedAt,
           entry'.due => entry.due
    PROVE  EntryGood'
<1>1. Recorded' = Recorded /\ Aged' = Aged /\ InTrash' = InTrash
  BY DEF Books, Recorded, Aged, Pending, InTrash
<1> QED BY <1>1 DEF EntryGood, Ended

-----------------------------------------------------------------------------
(* Steps of the process and of time *)

\* Nothing moves, the client is left alone, and every call goes on or ends.
LEMMA BooksKeep ==
    ASSUME TInv, Books, EntryGood', client' = client,
           faults' = faults \/ faults' \in 0..MaxFaults, call' \in Bases
    PROVE  TInv'
<1>1. call' \in [Workers -> Call \cup {None}] /\ \A v \in Workers : Kept(v)
  BY BaseKept DEF TInv
<1>2. TypeOK' /\ StoreGood'
  BY <1>1, BooksGood DEF TInv
<1>3. CallsGood'
  BY <1>1, BooksLater, AllKept DEF TInv, Books
<1> QED BY <1>2, <1>3 DEF TInv

\* The same when only the entry changes, and stays what it says.
LEMMA EntryOnly ==
    ASSUME TInv, entry # None, NEW e \in Entry, entry' = e,
           UNCHANGED <<item, record, file, client>>, call' \in Bases,
           faults' = faults \/ faults' \in 0..MaxFaults,
           e.state \in {entry.state, "held"}, e.trashedAt => entry.trashedAt,
           e.state = "trashed" => e.trashedAt = entry.trashedAt,
           e.due => entry.due
    PROVE  TInv'
<1>1. Books
  BY RecordsStay DEF TInv, Books
<1>2. EntryGood /\ record["purge"] # None
  BY DEF TInv, StoreGood, EntryGood
<1>3. Approved => Approved'
  BY DEF Approved
<1>4. EntryGood'
  BY <1>1, <1>2, <1>3, EntryKept
<1> QED BY <1>1, <1>4, BooksKeep

\* The same when entry and records change.
LEMMA EntryRecord ==
    ASSUME TInv, entry # None, NEW e \in Entry, entry' = e,
           UNCHANGED <<item, file, client, faults>>, call' \in Bases,
           record' \in [Operation -> JanitorRecord \cup {None}],
           \A op \in Operation : RecordStep(op),
           record'["restore"] # None => record["restore"] # None \/ Recorded,
           e.state \in {entry.state, "held"}, e.trashedAt => entry.trashedAt,
           e.state = "trashed" => e.trashedAt = entry.trashedAt,
           e.due => entry.due
    PROVE  TInv'
<1>1. Books
  BY DEF Books
<1>2. EntryGood /\ record["purge"] # None
  BY DEF TInv, StoreGood, EntryGood
<1>3. (Approved => Approved') /\ record'["purge"] # None
  BY <1>2, Rows DEF Approved, RecordStep
<1>4. EntryGood'
  BY <1>1, <1>2, <1>3, EntryKept
<1> QED BY <1>1, <1>4, BooksKeep

LEMMA OutdatedBase ==
    ASSUME NEW kinds, kinds \subseteq EntryCalls \cup Operation
    PROVE  Outdated(kinds) \in Bases
  BY DEF Bases

LEMMA HeldEntry ==
    ASSUME NEW e \in Entry
    PROVE  Held(e) \in Entry /\ Held(e).state = "held" /\ ~Held(e).trashedAt
           /\ Held(e).due = e.due
  BY DEF Held, Entry, Operation

LEMMA RecoverPlannedKeeps ==
    ASSUME TInv, RecoverPlanned
    PROVE  TInv'
<1>1. PICK e : e = [entry EXCEPT !.op = "none", !.lease = "none"]
  OBVIOUS
<1>2. entry # None /\ entry \in Entry /\ entry' = e /\ call' = Outdated(EntryCalls)
  BY <1>1, Typed DEF RecoverPlanned, TInv
<1>3. /\ e \in Entry /\ e.state = entry.state /\ e.trashedAt = entry.trashedAt
      /\ e.due = entry.due
  BY <1>1, <1>2 DEF Entry
<1>4. call' \in Bases
  BY <1>2, OutdatedBase
<1> QED BY <1>2, <1>3, <1>4, EntryOnly DEF RecoverPlanned

LEMMA ClockKeeps ==
    ASSUME TInv, ClockSet
    PROVE  TInv'
<1>1. PICK e : e = [entry EXCEPT !.ahead = FALSE]
  OBVIOUS
<1>2. entry # None /\ entry \in Entry /\ entry' = e /\ call' \in Bases
  BY <1>1, Typed DEF ClockSet, TInv, Bases
<1>3. /\ e \in Entry /\ e.state = entry.state /\ e.trashedAt = entry.trashedAt
      /\ e.due = entry.due
  BY <1>1, <1>2 DEF Entry
<1> QED BY <1>2, <1>3, EntryOnly DEF ClockSet

\* ensureJanitorRecord of Restore, once the payload was seen in the trash.
LEMMA RequestKeeps ==
    ASSUME TInv, RequestRestore
    PROVE  TInv'
<1>1. entry # None /\ entry \in Entry /\ entry.trashedAt
      /\ UNCHANGED <<entry, item, file, client, faults>> /\ call' \in Bases
  BY Typed DEF RequestRestore, ClockHolds, TInv, Bases
<1>2. Recorded
  BY <1>1 DEF TInv, StoreGood, EntryGood
<1>3. Queued \in JanitorRecord /\ Queued.state = "queued"
  BY DEF Queued, JanitorRecord
<1>4. record' = [record EXCEPT !["restore"] = Queued] /\ record["restore"] = None
  BY DEF RequestRestore
<1>5. record' \in [Operation -> JanitorRecord \cup {None}] /\ \A op \in Operation : RecordStep(op)
  BY <1>3, <1>4, Rows, RecordSet DEF TInv
<1> QED BY <1>1, <1>2, <1>5, EntryRecord

\* Recovery of running records, and their release for reconciliation.
LEMMA ReconcilingKeeps ==
    ASSUME TInv, entry # None, NEW ops \in SUBSET Operation, NEW wait \in BOOLEAN,
           \A op \in ops : record[op] # None, Reconciling(ops, wait)
    PROVE  /\ record' \in [Operation -> JanitorRecord \cup {None}]
           /\ \A op \in Operation : RecordStep(op)
           /\ record'["restore"] # None => record["restore"] # None
           /\ \E e \in Entry : /\ entry' = e /\ e.state = entry.state
                               /\ e.trashedAt = entry.trashedAt /\ e.due = entry.due
<1>1. TypeOK /\ entry \in Entry
  BY Typed DEF TInv
<1>2. ASSUME NEW op \in Operation
      PROVE  /\ record'[op] \in JanitorRecord \cup {None}
             /\ RecordStep(op)
             /\ record'[op] # None => record[op] # None
  <2>1. CASE op \in ops
    <3>1. record[op] \in JanitorRecord /\ record[op] # None
      BY <1>1, <1>2, <2>1, Typed
    <3>2. PICK r : r = [record[op] EXCEPT !.state = "reconciling", !.lease = "none",
                                          !.wait = wait \/ record[op].wait]
      OBVIOUS
    <3>3. record'[op] = r
      BY <1>2, <2>1, <3>2 DEF Reconciling
    <3>4. wait \/ record[op].wait \in BOOLEAN
      BY <3>1 DEF JanitorRecord
    <3>5. r \in JanitorRecord /\ r.state = "reconciling" /\ r.approved = record[op].approved
      BY <3>1, <3>2 DEF JanitorRecord
    <3> QED BY <3>1, <3>3, <3>5, Rows DEF RecordStep
  <2>2. CASE op \notin ops
    <3>1. record'[op] = record[op]
      BY <1>2, <2>2 DEF Reconciling
    <3> QED BY <1>1, <1>2, <3>1 DEF TypeOK, RecordStep
  <2> QED BY <2>1, <2>2
<1>3. record' \in [Operation -> JanitorRecord \cup {None}]
  BY <1>2 DEF Reconciling
<1>4. \E e \in Entry : /\ entry' = e /\ e.state = entry.state
                       /\ e.trashedAt = entry.trashedAt /\ e.due = entry.due
  <2>1. PICK e : e = [entry EXCEPT !.lease = "none"]
    OBVIOUS
  <2>2. e \in Entry /\ e.state = entry.state /\ e.trashedAt = entry.trashedAt /\ e.due = entry.due
    BY <1>1, <2>1 DEF Entry
  <2> QED BY <1>1, <2>1, <2>2 DEF Reconciling
<1> QED BY <1>2, <1>3, <1>4, Rows

LEMMA RecoverKeeps ==
    ASSUME TInv, RecoverExpired \/ RecoverRunning
    PROVE  TInv'
<1>1. PICK ops \in SUBSET Operation :
         /\ ops # {} /\ \A op \in ops : record[op] # None
         /\ Reconciling(ops, FALSE) /\ UNCHANGED <<item, file, client, faults>>
         /\ call' \in Bases
  <2>1. CASE RecoverExpired
    <3>1. Outdated(EntryCalls \cup Overdue) \in Bases
      BY OutdatedBase DEF Overdue
    <3> QED BY <2>1, <3>1 DEF RecoverExpired, Overdue, Running
  <2>2. CASE RecoverRunning
    <3>1. PICK ops : ops = {op \in Operation : Running(op)}
      OBVIOUS
    <3> QED BY <2>2, <3>1 DEF RecoverRunning, Running, Bases
  <2> QED BY <2>1, <2>2
<1>2. entry # None
  BY <1>1 DEF TInv, StoreGood, Fresh
<1>3. PICK e \in Entry : /\ entry' = e /\ e.state = entry.state
                         /\ e.trashedAt = entry.trashedAt /\ e.due = entry.due
  BY <1>1, <1>2, ReconcilingKeeps
<1>4. /\ record' \in [Operation -> JanitorRecord \cup {None}]
      /\ \A op \in Operation : RecordStep(op)
      /\ record'["restore"] # None => record["restore"] # None
  BY <1>1, <1>2, ReconcilingKeeps
<1> QED BY <1>1, <1>2, <1>3, <1>4, EntryRecord

LEMMA Faulty ==
    ASSUME TypeOK, Fault
    PROVE  faults' \in 0..MaxFaults
  BY TrashAssumption DEF TypeOK, Fault

LEMMA LeasesKeep ==
    ASSUME TInv, LeasesPass
    PROVE  TInv'
<1>1. TypeOK /\ entry # None /\ entry \in Entry /\ UNCHANGED <<item, file, client, faults>>
      /\ call' \in Bases
  BY Typed DEF TInv, LeasesPass, Bases
<1>2. PICK l : l = IF entry.lease = "live" THEN "over" ELSE entry.lease
  OBVIOUS
<1>3. PICK e : e = [entry EXCEPT !.lease = l]
  OBVIOUS
<1>4. entry' = e
  BY <1>2, <1>3 DEF LeasesPass
<1>5. l \in {"none", "live", "over"}
  BY <1>1, <1>2 DEF Entry
<1>6. /\ e \in Entry /\ e.state = entry.state /\ e.trashedAt = entry.trashedAt
      /\ e.due = entry.due
  BY <1>1, <1>3, <1>5 DEF Entry
<1>7. ASSUME NEW op \in Operation
      PROVE  /\ record'[op] \in JanitorRecord \cup {None} /\ RecordStep(op)
             /\ record'[op] # None => record[op] # None
  <2>1. CASE Running(op)
    <3>1. record[op] \in JanitorRecord /\ record[op] # None
      BY <1>1, <1>7, <2>1, Typed DEF Running
    <3>2. PICK r : r = [record[op] EXCEPT !.lease = "over"]
      OBVIOUS
    <3>3. record'[op] = r
      BY <1>7, <2>1, <3>2 DEF LeasesPass
    <3>4. r \in JanitorRecord /\ r.state = record[op].state /\ r.approved = record[op].approved
      BY <3>1, <3>2 DEF JanitorRecord
    <3> QED BY <3>1, <3>3, <3>4, Rows DEF RecordStep
  <2>2. CASE ~Running(op)
    <3>1. record'[op] = record[op]
      BY <1>7, <2>2 DEF LeasesPass
    <3> QED BY <1>1, <1>7, <3>1 DEF TypeOK, RecordStep
  <2> QED BY <2>1, <2>2
<1>8. record' \in [Operation -> JanitorRecord \cup {None}]
  BY <1>7 DEF LeasesPass
<1> QED BY <1>1, <1>4, <1>6, <1>7, <1>8, Rows, EntryRecord

LEMMA RetryTimeKeeps ==
    ASSUME TInv, NEW op \in Operation, RetryPasses(op)
    PROVE  TInv'
<1>1. TypeOK /\ UNCHANGED <<item, file, client, faults>> /\ call' \in Bases
      /\ entry' = entry /\ record[op] # None
  BY DEF TInv, RetryPasses, Bases
<1>2. entry # None
  BY <1>1 DEF TInv, StoreGood, Fresh
<1>3. record[op] \in JanitorRecord /\ entry \in Entry
  BY <1>1, <1>2, Typed
<1>4. PICK r : r = [record[op] EXCEPT !.wait = FALSE]
  OBVIOUS
<1>5. r \in JanitorRecord /\ r.state = record[op].state /\ r.approved = record[op].approved
  BY <1>3, <1>4 DEF JanitorRecord
<1>6. record' = [record EXCEPT ![op] = r]
  BY <1>3, <1>4 DEF RetryPasses
<1>7. /\ record' \in [Operation -> JanitorRecord \cup {None}]
      /\ \A o \in Operation : RecordStep(o)
      /\ record'[op] = r /\ \A o \in Operation \ {op} : record'[o] = record[o]
  BY <1>1, <1>5, <1>6, RecordSet
<1>8. record'["restore"] # None => record["restore"] # None
  BY <1>1, <1>7, Rows
<1> QED BY <1>1, <1>2, <1>3, <1>7, <1>8, EntryRecord

LEMMA ClockBackKeeps ==
    ASSUME TInv, ClockBack
    PROVE  TInv'
<1>1. PICK e : e = [entry EXCEPT !.ahead = TRUE, !.due = FALSE]
  OBVIOUS
<1>2. entry # None /\ entry \in Entry /\ entry' = e /\ call' \in Bases
  BY <1>1, Typed DEF ClockBack, TInv, Bases
<1>3. e \in Entry /\ e.state = entry.state /\ e.trashedAt = entry.trashedAt /\ ~e.due
  BY <1>1, <1>2 DEF Entry
<1>4. faults' \in 0..MaxFaults
  BY Faulty DEF ClockBack, TInv
<1> QED BY <1>2, <1>3, <1>4, EntryOnly DEF ClockBack

\* The client is started again, or the process ends.
LEMMA OutsideKeeps ==
    ASSUME TInv, ClientResumes \/ Crash
    PROVE  TInv'
<1>1. UNCHANGED <<entry, item, record, file>> /\ faults' \in 0..MaxFaults
  BY Faulty DEF ClientResumes, Crash, TInv
<1>2. client' \in {client, "active"}
  BY DEF ClientResumes, Crash
<1>3. call' \in [Workers -> Call \cup {None}] /\ \A v \in Workers : Kept(v)
  <2>1. CASE ClientResumes
    BY <2>1, BaseKept DEF ClientResumes, Bases, TInv
  <2>2. CASE Crash
    BY <2>2 DEF Crash, Kept
  <2> QED BY <2>1, <2>2
<1>4. TypeOK'
  BY <1>1, <1>2, <1>3 DEF TInv, TypeOK
<1>5. StoreGood'
  <2>1. StoreGood
    BY DEF TInv
  <2>2. Emptied' = Emptied /\ Recorded' = Recorded /\ Done' = Done /\ EntryGood' = EntryGood
        /\ Untouched' = Untouched
    BY <1>1 DEF Emptied, Recorded, Done, Pending, InTrash, EntryGood, Approved, Aged, Untouched,
       Original
  <2>3. Fresh => Fresh'
    BY <1>1, <1>2, <1>3, <2>2 DEF Fresh, Kept, Planning, Alike
  <2> QED BY <1>1, <1>2, <2>1, <2>2, <2>3 DEF StoreGood
<1>6. Later /\ (Untouched => Untouched')
  BY <1>1 DEF Later, Recorded, Untouched, Pending, Gone, Original, InTrash, Aged, Approved
<1>7. entry # None => CallsGood'
  BY <1>3, <1>6, AllKept DEF TInv
<1> QED BY <1>1, <1>4, <1>5, <1>7 DEF TInv

\* Payload that lay in the trash since trashed_at has aged when the entry
\* becomes due.
LEMMA RetentionKeeps ==
    ASSUME TInv, RetentionPasses
    PROVE  TInv'
<1>1. TypeOK /\ entry # None /\ entry \in Entry /\ EntryGood
      /\ UNCHANGED <<item, record, client, faults, call>>
  BY Typed DEF TInv, RetentionPasses, StoreGood
<1>2. PICK e : e = [entry EXCEPT !.due = TRUE]
  OBVIOUS
<1>3. entry' = e
  BY <1>2 DEF RetentionPasses
<1>4. e \in Entry /\ e.state = entry.state /\ e.trashedAt = entry.trashedAt /\ e # None
  BY <1>1, <1>2, Rows DEF Entry
<1>5. \A i \in Items : file'[i] = IF entry.trashedAt /\ file[i] = "trash" THEN "aged" ELSE file[i]
  BY DEF RetentionPasses
<1>6. TypeOK'
  <2>1. file' \in [Items -> {"original", "trash", "aged", "gone"}]
    BY <1>1, <1>5 DEF RetentionPasses, TypeOK
  <2> QED BY <1>1, <1>3, <1>4, <2>1 DEF TypeOK
<1>7. /\ Original' = Original /\ Gone' = Gone /\ InTrash' = InTrash /\ Pending' = Pending
      /\ (Aged => Aged') /\ (entry.trashedAt => Aged')
  BY <1>1, <1>5 DEF Original, Gone, InTrash, Pending, Aged
<1>8. Later /\ (Untouched => Untouched')
  BY <1>1, <1>7 DEF Later, Untouched, Approved, Recorded
<1>9. EntryGood'
  <2>1. Approved' = Approved /\ Recorded' = Recorded
    BY <1>1, <1>7 DEF Approved, Recorded
  <2> QED BY <1>1, <1>3, <1>4, <1>7, <2>1 DEF EntryGood
<1>10. StoreGood'
  <2>1. Emptied' = Emptied /\ Recorded' = Recorded
    BY <1>7 DEF Emptied, Recorded
  <2>2. Done'
    BY <1>1, <1>5 DEF TInv, StoreGood, Done
  <2> QED BY <1>1, <1>3, <1>4, <1>9, <2>1, <2>2 DEF TInv, StoreGood
<1>11. CallsGood'
  BY <1>1, <1>8, BaseKept, AllKept DEF TInv, Bases
<1> QED BY <1>6, <1>10, <1>11 DEF TInv

\* The entry of an operation that ends.
LEMMA EntryEnds ==
    ASSUME NEW e \in Entry, NEW op \in Operation, NEW verdict, e.op = op
    PROVE  /\ EntryAfter(e, op, verdict) \in Entry
           /\ EntryAfter(e, op, verdict).trashedAt = e.trashedAt
           /\ EntryAfter(e, op, verdict).due = e.due
           /\ EntryAfter(e, op, verdict).state = IF verdict = "held" THEN "held"
                                                 ELSE IF op = "purge" THEN "purged"
                                                 ELSE "restored"
<1>1. PICK s : s = CASE verdict = "held" -> "held"
                     [] verdict # "held" /\ op = "purge" -> "purged"
                     [] OTHER -> "restored"
  OBVIOUS
<1>2. s = IF verdict = "held" THEN "held" ELSE IF op = "purge" THEN "purged" ELSE "restored"
  <2>1. CASE verdict = "held"
    BY <1>1, <2>1
  <2>2. CASE verdict # "held" /\ op = "purge"
    BY <1>1, <2>2
  <2>3. CASE verdict # "held" /\ op # "purge"
    BY <1>1, <2>3
  <2> QED BY <2>1, <2>2, <2>3
<1>3. PICK d : d = [e EXCEPT !.op = "none", !.lease = "none", !.state = s]
  OBVIOUS
<1>4. EntryAfter(e, op, verdict) = d
  BY <1>1, <1>3 DEF EntryAfter
<1>5. /\ d \in Entry /\ d.trashedAt = e.trashedAt /\ d.due = e.due /\ d.state = s
  BY <1>2, <1>3 DEF Entry
<1> QED BY <1>2, <1>4, <1>5

LEMMA HoldKeeps ==
    ASSUME TInv, NEW op \in Operation, HoldByClock(op)
    PROVE  TInv'
<1>1. TypeOK /\ entry # None /\ entry \in Entry /\ UNCHANGED <<item, file, client, faults>>
  BY Typed DEF TInv, HoldByClock
<1>2. CASE record[op] # None /\ record[op].state \in {"running", "reconciling"}
  <2>1. record[op] \in JanitorRecord
    BY <1>1, <1>2, Typed
  <2>2. PICK r : r = [record[op] EXCEPT !.state = "held", !.lease = "none", !.wait = FALSE,
                            !.first = FALSE, !.trash = FALSE, !.scope = FALSE]
    OBVIOUS
  <2>3. r \in JanitorRecord /\ r.state = "held" /\ r.approved = record[op].approved
    BY <2>1, <2>2 DEF JanitorRecord
  <2>4. /\ record' = [record EXCEPT ![op] = r] /\ entry' = EntryAfter(entry, op, "held")
        /\ call' = Outdated(EntryCalls \cup {op})
    BY <1>2, <2>2 DEF HoldByClock
  <2>5. /\ record' \in [Operation -> JanitorRecord \cup {None}]
        /\ \A o \in Operation : RecordStep(o)
        /\ record'[op] = r /\ \A o \in Operation \ {op} : record'[o] = record[o]
    BY <1>1, <2>3, <2>4, RecordSet
  <2>6. record'["restore"] # None => record["restore"] # None
    BY <1>2, <2>5, Rows
  <2>7. PICK e : e = EntryAfter(entry, op, "held")
    OBVIOUS
  <2>8. /\ e \in Entry /\ e.state \in {entry.state, "held"} /\ e.trashedAt = entry.trashedAt
        /\ e.due = entry.due
    <3>1. CASE entry.op # op
      BY <1>1, <2>7, <3>1 DEF EntryAfter
    <3>2. CASE entry.op = op
      BY <1>1, <2>7, <3>2, EntryEnds
    <3> QED BY <3>1, <3>2
  <2>9. call' \in Bases
    BY <2>4, OutdatedBase
  <2> QED BY <1>1, <2>4, <2>5, <2>6, <2>7, <2>8, <2>9, EntryRecord
<1>3. CASE ~(record[op] # None /\ record[op].state \in {"running", "reconciling"})
  <2>1. entry' = Held(entry) /\ call' \in Bases /\ record' = record
    BY <1>3, OutdatedBase DEF HoldByClock
  <2>2. PICK e : e = Held(entry)
    OBVIOUS
  <2>3. e \in Entry /\ e.state = "held" /\ ~e.trashedAt /\ e.due = entry.due
    BY <1>1, <2>2, HeldEntry
  <2> QED BY <1>1, <2>1, <2>2, <2>3, EntryOnly
<1> QED BY <1>2, <1>3

\* requeueHeld: only payload that was seen in the trash is put back for a purge.
LEMMA RetryKeeps ==
    ASSUME TInv, NEW op \in Operation, Retry(op)
    PROVE  TInv'
<1>1. TypeOK /\ entry # None /\ entry \in Entry /\ UNCHANGED <<item, file, client, faults>>
      /\ record[op] # None /\ entry.trashedAt /\ EntryGood
  BY Typed DEF TInv, Retry, Verified, ClockHolds, StoreGood
<1>2. record[op] \in JanitorRecord
  BY <1>1, Typed
<1>3. PICK r : r = [record[op] EXCEPT !.state = "queued", !.lease = "none", !.wait = FALSE,
                                      !.first = FALSE]
  OBVIOUS
<1>4. r \in JanitorRecord /\ r.state = "queued" /\ r.approved = record[op].approved
  BY <1>2, <1>3 DEF JanitorRecord
<1>5. record' = [record EXCEPT ![op] = r] /\ call' = Outdated(EntryCalls \cup {op})
  BY <1>3 DEF Retry
<1>6. /\ record' \in [Operation -> JanitorRecord \cup {None}]
      /\ \A o \in Operation : RecordStep(o)
      /\ record'[op] = r /\ \A o \in Operation \ {op} : record'[o] = record[o]
  BY <1>1, <1>4, <1>5, RecordSet
<1>7. record'["restore"] # None => record["restore"] # None
  BY <1>1, <1>6, Rows
<1>8. PICK s : s = IF op = "purge" THEN "trashed" ELSE "held"
  OBVIOUS
<1>9. PICK e : e = [entry EXCEPT !.state = s, !.retry = FALSE]
  OBVIOUS
<1>10. entry' = e
  BY <1>8, <1>9 DEF Retry
<1>11. e \in Entry /\ e.state \in {"trashed", "held"} /\ e.trashedAt = entry.trashedAt
       /\ e.due = entry.due
  BY <1>1, <1>8, <1>9 DEF Entry
<1>12. Books
  BY <1>1, <1>6, <1>7, <1>10, <1>11 DEF Books
<1>13. EntryGood'
  <2>1. Recorded' = Recorded /\ Aged' = Aged /\ InTrash' = InTrash
    BY <1>1 DEF Recorded, Aged, Pending, InTrash
  <2>2. record'["purge"] # None
    BY <1>1, <1>6, Rows DEF RecordStep, EntryGood
  <2> QED BY <1>1, <1>10, <1>11, <2>1, <2>2 DEF EntryGood, Ended
<1>14. call' \in Bases
  BY <1>5, OutdatedBase
<1> QED BY <1>1, <1>12, <1>13, <1>14, BooksKeep

-----------------------------------------------------------------------------
(* Steps of a call *)

ClientState == {"none", "active", "stopped", "missing", "removed"}

\* The record of the client goes last.
ClientStep == client' \in ClientState /\ (client' = "removed" => client = "removed" \/ Emptied)

LEMMA ClientLeft ==
    ASSUME TypeOK, client' = client
    PROVE  ClientStep
  BY DEF TypeOK, ClientStep, ClientState

LEMMA ClientStopped ==
    ASSUME TypeOK, NEW outcome, client' \in StoppedBy(outcome)
    PROVE  ClientStep
<1>1. CASE outcome = "stopped"
  BY <1>1 DEF StoppedBy, ClientStep, ClientState
<1>2. CASE outcome = "failed" /\ client = "active"
  BY <1>2 DEF StoppedBy, ClientStep, ClientState
<1>3. CASE outcome # "stopped" /\ ~(outcome = "failed" /\ client = "active")
  BY <1>3, ClientLeft DEF StoppedBy
<1> QED BY <1>1, <1>2, <1>3

\* The journal and the files after a step that keeps Later.
LEMMA StoreKept ==
    ASSUME StoreGood, Later, entry # None, entry' # None, EntryGood', Done', ClientStep,
           \A op \in Operation : record'[op] # None /\ record'[op].state = "succeeded" =>
              \/ record[op] # None /\ record[op].state = "succeeded"
              \/ Emptied,
           record'["restore"] # None => record["restore"] # None \/ Recorded
    PROVE  StoreGood'
<1>1. Emptied => Emptied'
  BY EmptiedStays
<1>2. Recorded => Recorded'
  BY DEF Later, Recorded
<1> QED BY <1>1, <1>2 DEF StoreGood, ClientStep

\* What a call may go on to, after a step that need not leave the payload
\* where it is.
Follows(w, d) ==
    d # None =>
       /\ Mover(d) => \/ call[w] # None /\ Mover(call[w])
                      \/ \A v \in Workers \ {w} : call[v] # None => ~Mover(call[v])
       /\ Ahead(d) => \/ call[w] # None /\ Ahead(call[w])
                      \/ \A v \in Workers \ {w} : call[v] = None
       /\ SawTrash(d) => ~Untouched

LEMMA CallStep ==
    ASSUME TInv, NEW w \in Workers, NEW base \in Bases, NEW d \in Call \cup {None},
           call' = [base EXCEPT ![w] = d],
           entry # None, entry' \in Entry, faults' = faults,
           item' \in [Items -> ItemState],
           file' \in [Items -> {"original", "trash", "aged", "gone"}],
           record' \in [Operation -> JanitorRecord \cup {None}],
           Later, EntryGood', Done', ClientStep,
           \A op \in Operation : record'[op] # None /\ record'[op].state = "succeeded" =>
              \/ record[op] # None /\ record[op].state = "succeeded"
              \/ Emptied,
           record'["restore"] # None => record["restore"] # None \/ Recorded,
           d # None => CallGood(d)', Follows(w, d),
           Untouched => \/ Untouched'
                        \/ call[w] # None /\ (Mover(call[w]) \/ SawTrash(call[w]))
    PROVE  TInv'
<1>1. /\ call' \in [Workers -> Call \cup {None}] /\ call'[w] = d
      /\ \A v \in Workers \ {w} : Kept(v)
  BY CallSet DEF TInv
<1>2. TypeOK'
  BY <1>1 DEF TInv, TypeOK, ClientStep, ClientState, ItemState
<1>3. StoreGood'
  BY Rows, StoreKept DEF TInv
<1>4. CallsGood'
  BY <1>1, WorkerKept DEF TInv, Follows
<1> QED BY <1>2, <1>3, <1>4 DEF TInv

\* The same when nothing moves and nothing is recorded as moved.
LEMMA BooksStep ==
    ASSUME TInv, NEW w \in Workers, NEW base \in Bases, NEW d \in Call \cup {None},
           call' = [base EXCEPT ![w] = d], Books, EntryGood', ClientStep, faults' = faults,
           d # None => CallGood(d)', Follows(w, d)
    PROVE  TInv'
<1>1. Later /\ (Untouched => Untouched')
  BY BooksLater
<1>2. Done'
  BY DEF Books, TInv, StoreGood, Done
<1>3. item' \in [Items -> ItemState] /\ file' \in [Items -> {"original", "trash", "aged", "gone"}]
  BY DEF TInv, TypeOK, Books, ItemState
<1> QED BY <1>1, <1>2, <1>3, CallStep DEF Books, RecordStep

\* The same when the journal is left alone, or only the calls change.
LEMMA Quiet ==
    ASSUME TInv, NEW w \in Workers, NEW base \in Bases, NEW d \in Call \cup {None},
           call' = [base EXCEPT ![w] = d], entry # None,
           UNCHANGED <<entry, item, record, file, faults>>, ClientStep,
           d # None => CallGood(d), Follows(w, d)
    PROVE  TInv'
<1>1. Books
  BY Typed, RecordsStay DEF TInv, Books
<1>2. EntryGood'
  BY DEF TInv, StoreGood, EntryGood, Recorded, Pending, Aged, Approved, InTrash
<1>3. d # None => CallGood(d)'
  <2>1. ASSUME d # None, Ahead(d) PROVE Untouched'
    BY <2>1, <1>1, BooksLater DEF CallGood
  <2> QED BY <2>1, <1>1, BooksLater, CallStays
<1> QED BY <1>1, <1>2, <1>3, BooksStep

\* A call that is past planning finds an entry; what it is, but for its version.
LEMMA Underway ==
    ASSUME TInv, NEW w \in Workers, call[w] # None, ~Planning(call[w])
    PROVE  /\ entry # None /\ entry \in Entry /\ EntryGood
           /\ record["purge"] # None /\ record["purge"] \in JanitorRecord
           /\ call[w] \in Call /\ CallGood(call[w]) /\ call \in Bases
           /\ \A base \in Bases : /\ base[w] \in Call /\ Alike(call[w], base[w])
                                  /\ CallGood(base[w])
                                  /\ base \in [Workers -> Call \cup {None}]
<1>1. entry # None
  BY DEF TInv, StoreGood, Fresh
<1>2. EntryGood /\ record["purge"] # None
  BY <1>1 DEF TInv, StoreGood, EntryGood
<1>3. call[w] \in Call /\ CallGood(call[w]) /\ call \in Bases
  BY <1>1, Typed DEF TInv, CallsGood, WorkGood, Bases
<1>4. ASSUME NEW base \in Bases
      PROVE  /\ base[w] \in Call /\ Alike(call[w], base[w])
             /\ base \in [Workers -> Call \cup {None}]
  <2>1. CASE base = call
    BY <1>3, <2>1 DEF Alike, TInv, TypeOK
  <2>2. ASSUME NEW kinds, base = Outdated(kinds)
        PROVE  /\ base[w] \in Call /\ Alike(call[w], base[w])
               /\ base \in [Workers -> Call \cup {None}]
    <3>1. base[w] # None
      BY <1>3, <2>2, Rows DEF Outdated, Busy, Call
    <3> QED BY <2>2, <3>1, OutdatedKept DEF TInv
  <2> QED BY <1>4, <2>1, <2>2 DEF Bases
<1>5. ASSUME NEW base \in Bases PROVE CallGood(base[w])
  BY <1>3, <1>4, <1>5, AlikeGood
<1> QED BY <1>1, <1>2, <1>3, <1>4, <1>5, Rows, Typed DEF TInv

LEMMA Ends ==
    ASSUME TInv, NEW w \in Workers, call[w] # None, ~Planning(call[w]),
           call' = [call EXCEPT ![w] = None],
           UNCHANGED <<entry, item, record, file, client, faults>>
    PROVE  TInv'
  BY Underway, Quiet, ClientLeft DEF TInv, Follows

-----------------------------------------------------------------------------
(* Trash, ReconcileTrash and RetryTrash *)

LEMMA TrashKeeps ==
    ASSUME TInv, NEW w \in Workers, Trash(w)
    PROVE  TInv'
<1>1. /\ TypeOK /\ StoreGood /\ Fresh /\ w \in Trashers /\ entry = None
      /\ UNCHANGED <<entry, item, record, file, client, faults>>
  BY DEF TInv, StoreGood, Trash
<1>2. PICK d : d = Begin(w, "trash", "plan")
  OBVIOUS
<1>3. d \in Call /\ Planning(d) /\ d # None
  BY <1>2, Rows DEF Begin, Call, Verdicts, Planning
<1>4. call' = [call EXCEPT ![w] = d]
  BY <1>2 DEF Trash
<1>5. TypeOK' /\ \A v \in Workers : call'[v] = IF v = w THEN d ELSE call[v]
  BY <1>1, <1>3, <1>4 DEF TypeOK
<1>6. Fresh'
  BY <1>1, <1>3, <1>5 DEF Fresh, Untouched, Pending, Original, Planning
<1>7. StoreGood'
  BY <1>1, <1>6 DEF StoreGood, Emptied, Recorded, Pending, InTrash, Done
<1> QED BY <1>1, <1>5, <1>7 DEF TInv

\* Nobody but w runs a call.
CallsFree(w) == \A v \in Workers \ {w} : call[v] = None

\* The one caller that plans the entry is alone when it does.
LEMMA TrashPlanKeeps ==
    ASSUME OneTrasher, TInv, NEW w \in Workers, TrashPlan(w)
    PROVE  TInv'
<1>1. /\ TypeOK /\ StoreGood /\ Fresh /\ UNCHANGED <<item, file, client, faults>>
      /\ entry = None /\ call[w] # None /\ Planning(call[w]) /\ CallsFree(w)
  <2>1. call[w] # None /\ Planning(call[w]) /\ UNCHANGED <<item, file, client, faults>>
    BY DEF TrashPlan, At, Planning
  <2>2. entry = None
    BY <2>1 DEF TInv, CallsGood, WorkGood, CallGood, Planning
  <2>3. TypeOK /\ StoreGood /\ Fresh
    BY <2>2 DEF TInv, StoreGood
  <2>4. CallsFree(w)
    BY <2>1, <2>3 DEF Fresh, OneTrasher, CallsFree
  <2> QED BY <2>1, <2>2, <2>3, <2>4
<1>2. PICK d : d = [call[w] EXCEPT !.at = "stop"]
  OBVIOUS
<1>3. d \in Call /\ d.kind = "trash" /\ d.at = "stop" /\ d # None
  BY <1>1, <1>2, Rows, Typed DEF Call, Planning
<1>4. call' = [call EXCEPT ![w] = d] /\ call \in Bases
  BY <1>2 DEF TrashPlan, Bases
<1>5. call' \in [Workers -> Call \cup {None}] /\ call'[w] = d /\ \A v \in Workers \ {w} : Kept(v)
  BY <1>1, <1>3, <1>4, CallSet
<1>6. PICK e : e = [state |-> "planned", op |-> "none", lease |-> "none",
                    trashedAt |-> FALSE, ahead |-> FALSE, due |-> FALSE, retry |-> FALSE]
  OBVIOUS
<1>7. entry' = e /\ e \in Entry /\ e.state = "planned" /\ ~e.trashedAt /\ e # None
  BY <1>6, <1>1, Rows DEF TrashPlan, Entry
<1>8. Queued \in JanitorRecord /\ Queued.state = "queued"
  BY DEF Queued, JanitorRecord
<1>9. record' = [record EXCEPT !["purge"] = Queued]
  BY <1>1 DEF TrashPlan
<1>10. /\ record' \in [Operation -> JanitorRecord \cup {None}]
       /\ record'["purge"] = Queued /\ \A o \in Operation \ {"purge"} : record'[o] = record[o]
  BY <1>1, <1>8, <1>9, Rows DEF TypeOK
<1>11. TypeOK'
  BY <1>1, <1>5, <1>7, <1>10 DEF TypeOK
<1>12. Later /\ Untouched' /\ Emptied' = Emptied /\ Done'
  BY <1>1, <1>10, Rows DEF Fresh, Later, Untouched, Emptied, Recorded, Pending, Original, InTrash,
     Gone, Aged, Approved, StoreGood, Done
<1>13. record'["purge"] # None /\ record'["purge"].state = "queued" /\ record'["restore"] = None
  BY <1>1, <1>8, <1>10, Rows DEF Fresh, Operation
<1>14. EntryGood'
  BY <1>7, <1>13 DEF EntryGood, Ended
<1>15. StoreGood'
  BY <1>1, <1>7, <1>12, <1>13, <1>14 DEF StoreGood, Operation
<1>16. CallGood(d)'
  BY <1>3, <1>12 DEF CallGood, Ahead
<1>17. CallsGood'
  <2>1. ASSUME NEW v \in Workers PROVE WorkGood(v)'
    <3>1. CASE v = w
      BY <1>5, <1>16, <3>1, GoodAt
    <3>2. CASE v # w
      BY <1>1, <1>5, <3>2 DEF CallsFree, Kept, WorkGood
    <3> QED BY <3>1, <3>2
  <2>2. \A v \in Workers : call'[v] # None => v = w
    BY <1>1, <1>5 DEF CallsFree, Kept
  <2>3. ~SawTrash(call'[w])
    BY <1>3, <1>5 DEF SawTrash, EntryCalls
  <2> QED BY <2>1, <2>2, <2>3 DEF CallsGood
<1> QED BY <1>11, <1>15, <1>17 DEF TInv

\* The purge record of a failed trash, held or as it was.
LEMMA HeldPurgeIs ==
    ASSUME TInv, NEW w \in Workers, call[w] # None, ~Planning(call[w]), NEW scope \in BOOLEAN,
           record' = HeldPurge(scope)
    PROVE  /\ record' \in [Operation -> JanitorRecord \cup {None}]
           /\ \A op \in Operation : RecordStep(op)
           /\ record'["restore"] = record["restore"]
<1>1. record["purge"] \in JanitorRecord /\ TypeOK
  BY Underway DEF TInv
<1>2. CASE record["purge"].state # "queued"
  BY <1>1, <1>2, RecordsStay DEF HeldPurge
<1>3. CASE record["purge"].state = "queued"
  <2>1. PICK r : r = [record["purge"] EXCEPT !.state = "held", !.first = FALSE,
                                             !.trash = FALSE, !.scope = scope]
    OBVIOUS
  <2>2. r \in JanitorRecord /\ r.state = "held" /\ r.approved = record["purge"].approved
    BY <1>1, <2>1 DEF JanitorRecord
  <2>3. record' = [record EXCEPT !["purge"] = r]
    BY <1>3, <2>1 DEF HeldPurge
  <2> QED BY <1>1, <2>2, <2>3, Rows, RecordSet
<1> QED BY <1>2, <1>3

\* An entry that is held still says of its payload what it said.
LEMMA HeldGood ==
    ASSUME EntryGood, Later, NEW e, entry' = e, record'["purge"] # None,
           e.state = "held", e.trashedAt => entry.trashedAt,
           e.trashedAt => e.due = entry.due
    PROVE  EntryGood'
<1>1. Recorded => Recorded' /\ (Aged => Aged')
  BY DEF Later, Recorded
<1> QED BY <1>1 DEF EntryGood, Ended

LEMMA TrashStopKeeps ==
    ASSUME TInv, NEW w \in Workers, TrashStop(w)
    PROVE  TInv'
<1>1. call[w] # None /\ ~Planning(call[w]) /\ call[w].kind = "trash" /\ call[w].at = "stop"
      /\ UNCHANGED <<item, file, faults>>
  BY DEF TrashStop, At, Planning
<1>2. TypeOK /\ entry # None /\ entry \in Entry /\ EntryGood /\ call \in Bases
  BY <1>1, Underway DEF TInv
<1>3. PICK outcome \in Stops :
         /\ client' \in StoppedBy(outcome)
         /\ IF outcome = "failed"
            THEN /\ entry' = Held(entry)
                 /\ record' = HeldPurge(FALSE)
                 /\ call' = [Outdated(EntryCalls) EXCEPT ![w] = None]
            ELSE /\ call' = [(IF outcome = "skipped" THEN call ELSE Outdated(EntryCalls))
                                EXCEPT ![w].at = "move"]
                 /\ UNCHANGED <<entry, record>>
  BY DEF TrashStop
<1>4. ClientStep
  BY <1>2, <1>3, ClientStopped
<1>5. Outdated(EntryCalls) \in Bases
  BY OutdatedBase
<1>6. CASE outcome = "failed"
  <2>1. PICK e : e = Held(entry)
    OBVIOUS
  <2>2. entry' = e /\ e \in Entry /\ e.state = "held" /\ ~e.trashedAt
    BY <1>2, <1>3, <1>6, <2>1, HeldEntry
  <2>3. /\ record' \in [Operation -> JanitorRecord \cup {None}]
        /\ \A op \in Operation : RecordStep(op)
        /\ record'["restore"] = record["restore"]
    BY <1>1, <1>3, <1>6, HeldPurgeIs
  <2>4. Books
    BY <1>1, <1>2, <2>2, <2>3 DEF Books
  <2>5. EntryGood'
    <3>1. record'["purge"] # None
      BY <1>2, <2>3, Rows DEF RecordStep, EntryGood
    <3> QED BY <1>2, <2>2, <2>4, <3>1, BooksLater, HeldGood
  <2> QED BY <1>1, <1>3, <1>4, <1>5, <1>6, <2>4, <2>5, BooksStep DEF Follows
<1>7. CASE outcome # "failed"
  <2>1. PICK base \in Bases : /\ call' = [base EXCEPT ![w].at = "move"]
                              /\ UNCHANGED <<entry, record>>
    BY <1>2, <1>3, <1>5, <1>7
  <2>2. base[w] \in Call /\ Alike(call[w], base[w]) /\ CallGood(base[w])
    BY <1>1, Underway
  <2>3. PICK d : d = [base[w] EXCEPT !.at = "move"]
    OBVIOUS
  <2>4. d \in Call /\ d.kind = "trash" /\ d.at = "move"
    BY <1>1, <2>2, <2>3 DEF Call, Alike
  <2>5. call' = [base EXCEPT ![w] = d]
    BY <2>1, <2>3
  <2>6. Untouched
    BY <1>1, Underway DEF CallGood, Ahead
  <2>7. CallGood(d)
    BY <2>4, <2>6 DEF CallGood
  <2>8. Follows(w, d)
    BY <1>1, <2>4 DEF Follows, Mover, Ahead, SawTrash, EntryCalls
  <2> QED BY <1>1, <1>2, <1>4, <2>1, <2>4, <2>5, <2>7, <2>8, Quiet
<1> QED BY <1>6, <1>7

\* Payload is moved before any of it is recorded.
LEMMA MovesKeep ==
    ASSUME TInv, NEW w \in Workers, call[w] # None, call[w].kind \in {"trash", "retry"},
           call[w].at = "move", NEW wanted, wanted \cap Original \subseteq Pending,
           Moves(w, wanted), UNCHANGED <<entry, item, record, client, faults>>
    PROVE  TInv'
<1>1. TypeOK /\ StoreGood /\ entry # None /\ entry \in Entry /\ EntryGood /\ call \in Bases
      /\ call[w] \in Call
  BY Underway DEF TInv, Planning
<1>2. PICK moved \in SUBSET (wanted \cap Original), verdict \in {"ok", "error", "foreign"} :
        \E reported \in {moved} \cup (IF verdict = "error" THEN {{}} ELSE {}) :
             /\ file' = [i \in Items |-> IF i \in moved THEN "trash" ELSE file[i]]
             /\ call' = [call EXCEPT
                   ![w].at = "finish", ![w].done = reported, ![w].verdict = verdict,
                   ![w].scope = (verdict = "foreign")]
  BY DEF Moves
<1>3. PICK reported \in {moved} \cup (IF verdict = "error" THEN {{}} ELSE {}) :
             /\ file' = [i \in Items |-> IF i \in moved THEN "trash" ELSE file[i]]
             /\ call' = [call EXCEPT
                   ![w].at = "finish", ![w].done = reported, ![w].verdict = verdict,
                   ![w].scope = (verdict = "foreign")]
  BY <1>2
<1>4. reported \subseteq Items /\ moved \subseteq Items /\ moved \subseteq Pending
      /\ \A i \in moved : file[i] = "original" /\ item[i] = "selected"
  BY DEF Original, Pending
<1>5. PICK d : d = [call[w] EXCEPT !.at = "finish", !.done = reported, !.verdict = verdict,
                                   !.scope = (verdict = "foreign")]
  OBVIOUS
<1>6. d \in Call /\ d.kind = call[w].kind /\ d.at = "finish"
  BY <1>1, <1>4, <1>5 DEF Call, Verdicts
<1>7. call' = [call EXCEPT ![w] = d]
  BY <1>1, <1>3, <1>5
<1>8. file' \in [Items -> {"original", "trash", "aged", "gone"}]
      /\ \A i \in Items : file'[i] = IF i \in moved THEN "trash" ELSE file[i]
  BY <1>1, <1>3 DEF TypeOK
<1>9. Pending' = Pending /\ Recorded' = Recorded /\ Gone \subseteq Gone'
  BY <1>4, <1>8 DEF Pending, Recorded, Gone
<1>10. ASSUME Recorded PROVE file' = file
  <2>1. moved = {}
    BY <1>4, <1>10 DEF Recorded
  <2> QED BY <1>1, <1>3, <2>1 DEF TypeOK
<1>11. Later
  BY <1>9, <1>10 DEF Later, Original, InTrash, Aged, Approved
<1>12. Done'
  BY <1>1, <1>4, <1>8 DEF StoreGood, Done
<1>13. EntryGood'
  <2>1. CASE Recorded
    <3>1. InTrash' = InTrash /\ Aged' = Aged /\ Approved' = Approved
      BY <1>10, <2>1 DEF InTrash, Aged, Approved
    <3> QED BY <1>1, <1>9, <3>1 DEF EntryGood
  <2>2. CASE ~Recorded
    BY <1>1, <2>2 DEF EntryGood, Ended
  <2> QED BY <2>1, <2>2
<1>14. item' \in [Items -> ItemState] /\ record' \in [Operation -> JanitorRecord \cup {None}]
       /\ ClientStep
  BY <1>1, ClientLeft DEF TypeOK, ItemState
<1>15. CallGood(d)'
  BY <1>6 DEF CallGood, Ahead
<1>16. Mover(call[w])
  BY DEF Mover
<1>17. Follows(w, d)
  BY <1>6, <1>16 DEF Follows, Ahead, SawTrash
<1> QED BY <1>1, <1>6, <1>7, <1>8, <1>11, <1>12, <1>13, <1>14, <1>15, <1>16, <1>17, CallStep

LEMMA TrashMoveKeeps ==
    ASSUME TInv, NEW w \in Workers, TrashMove(w)
    PROVE  TInv'
<1>1. call[w] # None /\ ~Planning(call[w])
      /\ call[w].kind = "trash" /\ call[w].at = "move" /\ Moves(w, Items)
      /\ UNCHANGED <<entry, item, record, client, faults>>
  BY DEF TrashMove, At, Planning
<1>2. Untouched
  BY <1>1, Underway DEF CallGood, Ahead
<1> QED BY <1>1, <1>2, MovesKeep DEF Untouched

LEMMA RetryMoveKeeps ==
    ASSUME TInv, NEW w \in Workers, RetryMove(w)
    PROVE  TInv'
<1>1. call[w] # None /\ ~Planning(call[w])
      /\ call[w].kind = "retry" /\ call[w].at = "move" /\ Moves(w, Pending)
      /\ UNCHANGED <<entry, item, record, client, faults>>
  BY DEF RetryMove, At, Planning
<1> QED BY <1>1, MovesKeep

\* Items are marked as trashed, and nothing moves.
LEMMA MarkedTrashed ==
    ASSUME TInv, NEW items \in SUBSET Items, item' = Marked(items, "trashed", {"selected"}),
           file' = file, Approved => Approved',
           record["restore"] # None => record'["restore"] # None
    PROVE  /\ Later /\ Done' /\ item' \in [Items -> ItemState]
           /\ file' \in [Items -> {"original", "trash", "aged", "gone"}]
           /\ Pending \subseteq items => Recorded'
<1>1. TypeOK /\ Done
  BY DEF TInv, StoreGood
<1>2. \A i \in Items : item'[i] = IF i \in items /\ item[i] = "selected" THEN "trashed" ELSE item[i]
  BY DEF Marked
<1>3. item' \in [Items -> ItemState]
  <2>1. \A i \in Items : item'[i] \in ItemState
    BY <1>1, <1>2 DEF TypeOK, ItemState
  <2> QED BY <2>1 DEF Marked
<1>4. Pending' = Pending \ items
  BY <1>2 DEF Pending
<1>5. Later
  BY <1>4 DEF Later, Gone, Original, InTrash, Aged, Recorded
<1>6. Done'
  BY <1>1, <1>2 DEF Done
<1> QED BY <1>1, <1>3, <1>4, <1>5, <1>6 DEF TypeOK, Recorded

LEMMA MaterializedEntry ==
    ASSUME NEW e \in Entry
    PROVE  /\ Materialized(e) \in Entry /\ Materialized(e).state = "trashed"
           /\ Materialized(e).trashedAt /\ ~Materialized(e).due
  BY DEF Materialized, Entry, Operation

LEMMA MaterializedGood ==
    ASSUME Recorded', record'["purge"] # None, NEW e, entry' = e,
           e.state = "trashed", e.trashedAt, ~e.due
    PROVE  EntryGood'
  BY DEF EntryGood, Ended

\* finalizeTrash: the entry is trashed when every live item was reported.
LEMMA TrashFinishKeeps ==
    ASSUME TInv, NEW w \in Workers, TrashFinish(w)
    PROVE  TInv'
<1>1. call[w] # None /\ ~Planning(call[w])
      /\ call[w].kind = "trash" /\ call[w].at = "finish" /\ Mover(call[w])
      /\ UNCHANGED <<file, client, faults>>
  BY DEF TrashFinish, At, Planning, Mover
<1>2. TypeOK /\ entry # None /\ entry \in Entry /\ EntryGood /\ call[w] \in Call
      /\ record["purge"] # None
  BY <1>1, Underway DEF TInv
<1>3. PICK live : live = {i \in Items : item[i] \notin Ended}
  OBVIOUS
<1>4. PICK reported : reported = call[w].done
  OBVIOUS
<1>5. PICK exact \in BOOLEAN : exact <=> (reported = live /\ call[w].verdict # "foreign")
  OBVIOUS
<1>6. /\ item' = Marked(reported \cap live, "trashed", {"selected"})
      /\ \/ /\ reported = live
            /\ entry' = Materialized(entry) /\ UNCHANGED record
         \/ /\ entry' = Held(entry) /\ \E scope \in BOOLEAN : record' = HeldPurge(scope)
      /\ call' = [Outdated(EntryCalls) EXCEPT ![w] = None]
  <2>1. TrashFinish(w)
    OBVIOUS
  <2> QED BY <1>3, <1>4, <1>5, <2>1 DEF TrashFinish
<1>7. /\ record' \in [Operation -> JanitorRecord \cup {None}]
      /\ \A op \in Operation : RecordStep(op)
      /\ record'["restore"] = record["restore"]
  BY <1>1, <1>2, <1>6, HeldPurgeIs, RecordsStay
<1>8. (Approved => Approved') /\ record'["purge"] # None
  BY <1>2, <1>7, Rows DEF Approved, RecordStep
<1>9. /\ Later /\ Done' /\ item' \in [Items -> ItemState]
      /\ file' \in [Items -> {"original", "trash", "aged", "gone"}]
      /\ Pending \subseteq reported \cap live => Recorded'
  <2>1. reported \cap live \in SUBSET Items
    BY <1>3
  <2> QED BY <1>1, <1>6, <1>7, <1>8, <2>1, MarkedTrashed
<1>10. entry' \in Entry /\ EntryGood'
  <2>1. CASE reported = live /\ entry' = Materialized(entry)
    <3>1. Pending \subseteq reported \cap live
      BY <1>3, <2>1 DEF Pending, Ended
    <3>2. PICK e : e = Materialized(entry)
      OBVIOUS
    <3> QED BY <1>2, <1>8, <1>9, <2>1, <3>1, <3>2, MaterializedEntry, MaterializedGood
  <2>2. CASE entry' = Held(entry)
    <3>1. PICK e : e = Held(entry)
      OBVIOUS
    <3> QED BY <1>2, <1>8, <1>9, <2>2, <3>1, HeldEntry, HeldGood
  <2> QED BY <1>6, <2>1, <2>2
<1>11. ClientStep /\ Outdated(EntryCalls) \in Bases
  BY <1>1, <1>2, ClientLeft, OutdatedBase
<1> QED BY <1>1, <1>2, <1>6, <1>7, <1>9, <1>10, <1>11, CallStep DEF Follows, RecordStep

\* Nobody sees in the trash what was not moved yet.
LEMMA UntouchedSeen ==
    ASSUME Untouched
    PROVE  Disposition # "trash_only"
<1>1. Items # {}
  BY TrashAssumption
<1>2. /\ Items \ Pending \subseteq InTrash /\ Pending \cap Gone = {}
      /\ Pending # {} /\ Pending \subseteq Original /\ InTrash # Items
  BY <1>1 DEF Untouched, InTrash, Gone, Original
<1>3. Disposition = "source_only"
  BY <1>2 DEF Disposition
<1> QED BY <1>3

LEMMA ReconcileReadKeeps ==
    ASSUME TInv, NEW w \in Workers, ReconcileRead(w)
    PROVE  TInv'
<1>1. call[w] = None /\ entry # None /\ UNCHANGED <<entry, item, record, file, client, faults>>
      /\ TypeOK /\ call \in Bases
  BY DEF TInv, ReconcileRead, Idle, Bases
<1>2. PICK kind \in EntryCalls, seen \in {Disposition, "neither"} :
        call' = [call EXCEPT ![w] = [Begin(w, kind, "write") EXCEPT !.verdict = seen]]
  BY DEF ReconcileRead
<1>3. PICK d : d = [Begin(w, kind, "write") EXCEPT !.verdict = seen]
  OBVIOUS
<1>4. seen \in Verdicts
  <2>1. Disposition \in Verdicts
    BY DEF Disposition, Verdicts
  <2> QED BY <1>2, <2>1 DEF Verdicts
<1>5. d \in Call /\ d.kind = kind /\ d.at = "write" /\ d.verdict = seen
  BY <1>3, <1>4 DEF Begin, Call, EntryCalls, Operation
<1>6. CallGood(d)
  BY <1>5 DEF CallGood, EntryCalls, Ahead
<1>7. Follows(w, d)
  BY <1>5, <1>2, UntouchedSeen DEF Follows, Mover, Ahead, SawTrash
<1>8. call' = [call EXCEPT ![w] = d]
  BY <1>2, <1>3
<1>9. ClientStep
  BY <1>1, ClientLeft
<1> QED BY <1>1, <1>5, <1>6, <1>7, <1>8, <1>9, Quiet

\* The purge record is rewritten for the trash operation.
LEMMA PurgeRow ==
    ASSUME TInv, record["purge"] # None, NEW r \in JanitorRecord,
           record' = [record EXCEPT !["purge"] = r],
           r.state \in {record["purge"].state, "queued", "held"},
           r.approved = record["purge"].approved
    PROVE  /\ record' \in [Operation -> JanitorRecord \cup {None}]
           /\ \A op \in Operation : RecordStep(op)
           /\ record'["restore"] = record["restore"]
           /\ record'["purge"] # None /\ (Approved => Approved')
<1>1. /\ record' \in [Operation -> JanitorRecord \cup {None}]
      /\ \A op \in Operation : RecordStep(op)
      /\ record'["purge"] = r /\ \A o \in Operation \ {"purge"} : record'[o] = record[o]
  BY Rows, RecordSet DEF TInv
<1>2. record'["restore"] = record["restore"]
  BY <1>1 DEF Operation
<1>3. record'["purge"] # None /\ (Approved => Approved')
  BY <1>1, Rows DEF Approved
<1> QED BY <1>1, <1>2, <1>3

\* persistTrashReconciliation: an observation is recorded as it was made.
LEMMA ReconcileWriteKeeps ==
    ASSUME TInv, NEW w \in Workers, ReconcileWrite(w)
    PROVE  TInv'
<1>1. call[w] # None /\ ~Planning(call[w])
      /\ call[w].kind \in EntryCalls /\ call[w].at = "write"
      /\ UNCHANGED <<file, client, faults>>
  BY DEF ReconcileWrite, At, Planning
<1>2. TypeOK /\ entry # None /\ entry \in Entry /\ EntryGood /\ call[w] \in Call
      /\ record["purge"] # None /\ record["purge"] \in JanitorRecord /\ call \in Bases
  BY <1>1, Underway DEF TInv
<1>3. PICK seen : seen = call[w].verdict
  OBVIOUS
<1>4. PICK found \in BOOLEAN : found <=> (seen = "trash_only" /\ ~record["purge"].scope)
  OBVIOUS
<1>5. PICK left \in BOOLEAN : left <=> seen = "source_only"
  OBVIOUS
<1>6. CASE /\ call' = [call EXCEPT ![w] = None]
           /\ UNCHANGED <<entry, item, record>>
  BY <1>1, <1>6, Ends
<1>7. CASE /\ item' = IF seen = "trash_only" THEN Marked(Items, "trashed", {"selected"})
                      ELSE item
           /\ \/ found /\ entry' = Materialized(entry)
              \/ left /\ entry' = entry
              \/ entry' = [entry EXCEPT !.state = "held"]
           /\ record' = [record EXCEPT !["purge"] =
                 [@ EXCEPT !.state = IF found \/ left THEN record["purge"].state ELSE "held",
                           !.lease = "none", !.wait = FALSE, !.first = FALSE,
                           !.trash = TRUE]]
           /\ call' = [(IF left THEN call ELSE Outdated(EntryCalls)) EXCEPT
                 ![w] = IF call[w].kind = "retry" /\ left /\ Pending # {}
                              /\ (entry.state = "planned" \/ ~record["purge"].scope)
                        THEN Begin(w, "retry", "claim") ELSE None]
  <2>1. PICK s : s = IF found \/ left THEN record["purge"].state ELSE "held"
    OBVIOUS
  <2>2. PICK r : r = [record["purge"] EXCEPT !.state = s, !.lease = "none", !.wait = FALSE,
                                             !.first = FALSE, !.trash = TRUE]
    OBVIOUS
  <2>3. r \in JanitorRecord /\ r.state = s /\ r.approved = record["purge"].approved
    BY <1>2, <2>1, <2>2 DEF JanitorRecord
  <2>4. record' = [record EXCEPT !["purge"] = r]
    BY <1>7, <2>1, <2>2
  <2>5. /\ record' \in [Operation -> JanitorRecord \cup {None}]
        /\ \A op \in Operation : RecordStep(op)
        /\ record'["restore"] = record["restore"]
        /\ record'["purge"] # None /\ (Approved => Approved')
    BY <1>2, <2>1, <2>3, <2>4, PurgeRow
  <2>6. /\ Later /\ Done' /\ item' \in [Items -> ItemState]
        /\ file' \in [Items -> {"original", "trash", "aged", "gone"}]
        /\ seen = "trash_only" => Recorded'
        /\ Untouched => Untouched' \/ seen = "trash_only"
    <3>1. CASE seen = "trash_only"
      <4>1. item' = Marked(Items, "trashed", {"selected"})
        BY <1>7, <3>1
      <4>2. Pending \subseteq Items
        BY DEF Pending
      <4> QED BY <1>1, <2>5, <3>1, <4>1, <4>2, MarkedTrashed
    <3>2. CASE seen # "trash_only"
      <4>1. item' = item /\ file' = file
        BY <1>1, <1>7, <3>2
      <4>2. Done' /\ Untouched' = Untouched
        BY <4>1 DEF TInv, StoreGood, Done, Untouched, Pending, Original
      <4>3. Later
        BY <4>1, <2>5 DEF Later, Pending, Gone, Recorded, Original, InTrash, Aged
      <4> QED BY <1>2, <3>2, <4>1, <4>2, <4>3 DEF TypeOK, ItemState
    <3> QED BY <3>1, <3>2
  <2>7. entry' \in Entry /\ EntryGood'
    <3>1. CASE found /\ entry' = Materialized(entry)
      <4>1. PICK e : e = Materialized(entry)
        OBVIOUS
      <4> QED BY <1>2, <1>4, <2>5, <2>6, <3>1, <4>1, MaterializedEntry, MaterializedGood
    <3>2. CASE left /\ entry' = entry
      <4>1. item' = item /\ file' = file
        BY <1>1, <1>5, <1>7, <3>2
      <4>2. Recorded' = Recorded /\ Aged' = Aged /\ InTrash' = InTrash
        BY <4>1 DEF Recorded, Pending, Aged, InTrash
      <4> QED BY <1>2, <2>5, <3>2, <4>2 DEF EntryGood
    <3>3. CASE entry' = [entry EXCEPT !.state = "held"]
      <4>1. PICK e : e = [entry EXCEPT !.state = "held"]
        OBVIOUS
      <4>2. e \in Entry /\ e.state = "held" /\ e.trashedAt = entry.trashedAt /\ e.due = entry.due
        BY <1>2, <4>1 DEF Entry
      <4> QED BY <1>2, <2>5, <2>6, <3>3, <4>1, <4>2, HeldGood
    <3> QED BY <1>7, <3>1, <3>2, <3>3
  <2>8. PICK d : d = IF call[w].kind = "retry" /\ left /\ Pending # {}
                           /\ (entry.state = "planned" \/ ~record["purge"].scope)
                     THEN Begin(w, "retry", "claim") ELSE None
    OBVIOUS
  <2>9. d \in Call \cup {None} /\ (d # None => d.kind = "retry" /\ d.at = "claim")
    <3>1. Begin(w, "retry", "claim") \in Call /\ Begin(w, "retry", "claim").kind = "retry"
          /\ Begin(w, "retry", "claim").at = "claim"
      BY DEF Begin, Call, Verdicts
    <3> QED BY <2>8, <3>1
  <2>10. PICK base \in Bases : call' = [base EXCEPT ![w] = d]
    <3>1. Outdated(EntryCalls) \in Bases
      BY OutdatedBase
    <3> QED BY <1>2, <1>7, <2>8, <3>1
  <2>11. d # None => CallGood(d)'
    BY <2>9 DEF CallGood, Ahead
  <2>12. Follows(w, d)
    BY <2>9 DEF Follows, Mover, Ahead, SawTrash
  <2>13. Untouched => Untouched' \/ SawTrash(call[w])
    BY <1>1, <1>3, <2>6 DEF SawTrash
  <2>14. ClientStep
    BY <1>1, <1>2, ClientLeft
  <2> QED BY <1>1, <1>2, <2>5, <2>6, <2>7, <2>9, <2>10, <2>11, <2>12, <2>13, <2>14, CallStep
          DEF RecordStep
<1>8. ReconcileWrite(w)
  OBVIOUS
<1>9. CASE ~(call[w].current /\ entry.op = "none" /\ entry.state \in {"planned", "held"})
  BY <1>6, <1>8, <1>9 DEF ReconcileWrite
<1>10. CASE call[w].current /\ entry.op = "none" /\ entry.state \in {"planned", "held"}
  <2>1. CASE found
    BY <1>3, <1>4, <1>5, <1>7, <1>8, <1>10, <2>1 DEF ReconcileWrite
  <2>2. CASE ~found /\ left
    BY <1>3, <1>4, <1>5, <1>7, <1>8, <1>10, <2>2 DEF ReconcileWrite
  <2>3. CASE ~found /\ ~left
    BY <1>3, <1>4, <1>5, <1>7, <1>8, <1>10, <2>3 DEF ReconcileWrite
  <2> QED BY <2>1, <2>2, <2>3
<1> QED BY <1>9, <1>10

\* claimPlannedTrash: one call at a time moves payload to the trash.
LEMMA RetryClaimKeeps ==
    ASSUME TInv, NEW w \in Workers, RetryClaim(w)
    PROVE  TInv'
<1>1. call[w] # None /\ ~Planning(call[w])
      /\ Moving(w) = {} /\ UNCHANGED <<item, file, client, faults>>
  BY DEF RetryClaim, At, Planning
<1>2. TypeOK /\ entry # None /\ entry \in Entry /\ EntryGood
      /\ record["purge"] # None /\ record["purge"] \in JanitorRecord
  BY <1>1, Underway DEF TInv
<1>3. CASE call' = [call EXCEPT ![w] = None] /\ UNCHANGED <<entry, record>>
  BY <1>1, <1>3, Ends
<1>4. CASE /\ entry' = [entry EXCEPT !.op = "purge", !.lease = "live"]
           /\ record' = [record EXCEPT !["purge"] =
                 [@ EXCEPT !.state = "queued", !.wait = FALSE, !.first = FALSE]]
           /\ call' = [Outdated(EntryCalls) EXCEPT ![w] = Begin(w, "retry", "stop")]
  <2>1. PICK e : e = [entry EXCEPT !.op = "purge", !.lease = "live"]
    OBVIOUS
  <2>2. e \in Entry /\ e.state = entry.state /\ e.trashedAt = entry.trashedAt /\ e.due = entry.due
    BY <1>2, <2>1 DEF Entry, Operation
  <2>3. PICK r : r = [record["purge"] EXCEPT !.state = "queued", !.wait = FALSE, !.first = FALSE]
    OBVIOUS
  <2>4. r \in JanitorRecord /\ r.state = "queued" /\ r.approved = record["purge"].approved
    BY <1>2, <2>3 DEF JanitorRecord
  <2>5. record' = [record EXCEPT !["purge"] = r]
    BY <1>4, <2>3
  <2>6. /\ record' \in [Operation -> JanitorRecord \cup {None}]
        /\ \A op \in Operation : RecordStep(op)
        /\ record'["restore"] = record["restore"]
        /\ record'["purge"] # None /\ (Approved => Approved')
    BY <1>2, <2>4, <2>5, PurgeRow
  <2>7. Books
    BY <1>1, <1>2, <1>4, <2>1, <2>2, <2>6 DEF Books
  <2>8. EntryGood'
    BY <1>2, <1>4, <2>1, <2>2, <2>6, <2>7, EntryKept
  <2>9. PICK d : d = Begin(w, "retry", "stop")
    OBVIOUS
  <2>10. d \in Call /\ d.kind = "retry" /\ d.at = "stop"
    BY <2>9 DEF Begin, Call, Verdicts
  <2>11. CallGood(d)'
    BY <2>10 DEF CallGood, Ahead
  <2>12. ASSUME NEW v \in Workers \ {w}, call[v] # None, Mover(call[v]) PROVE FALSE
    BY <1>1, <2>12 DEF Moving, Busy, Mover
  <2>13. Follows(w, d)
    BY <2>10, <2>12 DEF Follows, Ahead, SawTrash
  <2>14. ClientStep /\ Outdated(EntryCalls) \in Bases
    BY <1>1, <1>2, ClientLeft, OutdatedBase
  <2> QED BY <1>1, <1>4, <2>7, <2>8, <2>9, <2>10, <2>11, <2>13, <2>14, BooksStep
<1> QED BY <1>3, <1>4 DEF RetryClaim

LEMMA RetryStopKeeps ==
    ASSUME TInv, NEW w \in Workers, RetryStop(w)
    PROVE  TInv'
<1>1. call[w] # None /\ ~Planning(call[w]) /\ call[w].kind = "retry" /\ call[w].at = "stop"
      /\ UNCHANGED <<entry, item, record, file, faults>>
  BY DEF RetryStop, At, Planning
<1>2. TypeOK /\ entry # None /\ call \in Bases
  BY <1>1, Underway DEF TInv
<1>3. PICK outcome \in Stops \cup {"changed"} :
         /\ client' \in IF Pending \subseteq Original THEN StoppedBy(outcome) ELSE {client}
         /\ IF outcome \in {"failed", "missing", "changed"} \/ ~(Pending \subseteq Original)
            THEN call' = [call EXCEPT ![w].at = "finish", ![w].verdict = "error"]
            ELSE call' = [(IF outcome = "skipped" THEN call ELSE Outdated(EntryCalls))
                             EXCEPT ![w].at = "move"]
  BY DEF RetryStop
<1>4. ClientStep
  BY <1>2, <1>3, ClientStopped, ClientLeft
<1>5. Outdated(EntryCalls) \in Bases
  BY OutdatedBase
<1>6. \E base \in Bases : \/ call' = [base EXCEPT ![w].at = "finish", ![w].verdict = "error"]
                          \/ call' = [base EXCEPT ![w].at = "move"]
  BY <1>2, <1>3, <1>5
<1>7. PICK base \in Bases : \/ call' = [base EXCEPT ![w].at = "finish", ![w].verdict = "error"]
                            \/ call' = [base EXCEPT ![w].at = "move"]
  BY <1>6
<1>8. /\ base[w] \in Call /\ base[w].kind = "retry" /\ base \in [Workers -> Call \cup {None}]
  BY <1>1, Underway DEF Alike
<1>9. \E d \in Call : /\ call' = [base EXCEPT ![w] = d]
                      /\ d.kind = "retry" /\ d.at \in {"move", "finish"}
  <2>1. CASE call' = [base EXCEPT ![w].at = "finish", ![w].verdict = "error"]
    <3>1. PICK d : d = [base[w] EXCEPT !.at = "finish", !.verdict = "error"]
      OBVIOUS
    <3>2. d \in Call /\ d.kind = "retry" /\ d.at = "finish"
      BY <1>8, <3>1 DEF Call, Verdicts
    <3>3. call' = [base EXCEPT ![w] = d]
      BY <1>8, <2>1, <3>1
    <3> QED BY <3>2, <3>3
  <2>2. CASE call' = [base EXCEPT ![w].at = "move"]
    <3>1. PICK d : d = [base[w] EXCEPT !.at = "move"]
      OBVIOUS
    <3>2. d \in Call /\ d.kind = "retry" /\ d.at = "move"
      BY <1>8, <3>1 DEF Call
    <3> QED BY <2>2, <3>1, <3>2
  <2> QED BY <1>7, <2>1, <2>2
<1>10. PICK d \in Call : /\ call' = [base EXCEPT ![w] = d]
                         /\ d.kind = "retry" /\ d.at \in {"move", "finish"}
  BY <1>9
<1>11. CallGood(d)
  BY <1>10 DEF CallGood, Ahead
<1>12. Follows(w, d)
  BY <1>1, <1>10 DEF Follows, Mover, Ahead, SawTrash
<1> QED BY <1>1, <1>2, <1>4, <1>10, <1>11, <1>12, Quiet

\* finishClaimedTrash: the entry is trashed when all that was pending was moved.
LEMMA RetryFinishKeeps ==
    ASSUME TInv, NEW w \in Workers, RetryFinish(w)
    PROVE  TInv'
<1>1. call[w] # None /\ ~Planning(call[w])
      /\ call[w].kind = "retry" /\ call[w].at = "finish" /\ Mover(call[w])
      /\ UNCHANGED <<file, client, faults>>
  BY DEF RetryFinish, At, Planning, Mover
<1>2. TypeOK /\ entry # None /\ entry \in Entry /\ EntryGood /\ call[w] \in Call
      /\ record["purge"] # None /\ record["purge"] \in JanitorRecord
  BY <1>1, Underway DEF TInv
<1>3. PICK reported : reported = call[w].done
  OBVIOUS
<1>4. PICK complete \in BOOLEAN :
         complete <=> (reported = Pending /\ reported # {} /\ call[w].verdict = "ok")
  OBVIOUS
<1>5. CASE call' = [call EXCEPT ![w] = None] /\ UNCHANGED <<entry, item, record>>
  BY <1>1, <1>5, Ends
<1>6. CASE /\ item' = Marked(reported, "trashed", {"selected"})
           /\ entry' = IF complete THEN Materialized(entry)
                       ELSE [entry EXCEPT !.state = "held", !.op = "none",
                                          !.lease = "none", !.retry = TRUE]
           /\ record' = [record EXCEPT !["purge"] =
                 [@ EXCEPT !.state = IF complete THEN "queued" ELSE "held",
                           !.lease = "none", !.wait = FALSE, !.trash = TRUE,
                           !.first = FALSE, !.scope = (call[w].verdict = "foreign")]]
           /\ call' = [Outdated(EntryCalls) EXCEPT ![w] = None]
  <2>1. PICK s : s = IF complete THEN "queued" ELSE "held"
    OBVIOUS
  <2>2. PICK r : r = [record["purge"] EXCEPT !.state = s, !.lease = "none", !.wait = FALSE,
                         !.trash = TRUE, !.first = FALSE, !.scope = (call[w].verdict = "foreign")]
    OBVIOUS
  <2>3. r \in JanitorRecord /\ r.state = s /\ r.approved = record["purge"].approved
    BY <1>2, <2>1, <2>2 DEF JanitorRecord
  <2>4. record' = [record EXCEPT !["purge"] = r]
    BY <1>6, <2>1, <2>2
  <2>5. /\ record' \in [Operation -> JanitorRecord \cup {None}]
        /\ \A op \in Operation : RecordStep(op)
        /\ record'["restore"] = record["restore"]
        /\ record'["purge"] # None /\ (Approved => Approved')
    BY <1>2, <2>1, <2>3, <2>4, PurgeRow
  <2>6. /\ Later /\ Done' /\ item' \in [Items -> ItemState]
        /\ file' \in [Items -> {"original", "trash", "aged", "gone"}]
        /\ Pending \subseteq reported => Recorded'
    <3>1. reported \in SUBSET Items
      BY <1>2, <1>3 DEF Call
    <3> QED BY <1>1, <1>6, <2>5, <3>1, MarkedTrashed
  <2>7. entry' \in Entry /\ EntryGood'
    <3>1. CASE complete
      <4>1. PICK e : e = Materialized(entry)
        OBVIOUS
      <4> QED BY <1>2, <1>4, <1>6, <2>5, <2>6, <3>1, <4>1, MaterializedEntry, MaterializedGood
    <3>2. CASE ~complete
      <4>1. PICK e : e = [entry EXCEPT !.state = "held", !.op = "none", !.lease = "none",
                                       !.retry = TRUE]
        OBVIOUS
      <4>2. e \in Entry /\ e.state = "held" /\ e.trashedAt = entry.trashedAt /\ e.due = entry.due
        BY <1>2, <4>1 DEF Entry
      <4> QED BY <1>2, <1>6, <2>5, <2>6, <3>2, <4>1, <4>2, HeldGood
    <3> QED BY <3>1, <3>2
  <2>8. ClientStep /\ Outdated(EntryCalls) \in Bases
    BY <1>1, <1>2, ClientLeft, OutdatedBase
  <2> QED BY <1>1, <1>2, <1>6, <2>5, <2>6, <2>7, <2>8, CallStep DEF Follows, RecordStep
<1>7. RetryFinish(w)
  OBVIOUS
<1>8. CASE ~(entry.state \in {"planned", "held"} /\ entry.op = "purge")
  BY <1>5, <1>7, <1>8 DEF RetryFinish
<1>9. CASE entry.state \in {"planned", "held"} /\ entry.op = "purge"
  <2>1. CASE complete
    BY <1>3, <1>4, <1>6, <1>7, <1>9, <2>1 DEF RetryFinish
  <2>2. CASE ~complete
    BY <1>3, <1>4, <1>6, <1>7, <1>9, <2>2 DEF RetryFinish
  <2> QED BY <2>1, <2>2
<1> QED BY <1>8, <1>9

-----------------------------------------------------------------------------
(* Claims *)

\* An operation is claimed once all payload is recorded; a purge when it has
\* aged, or with an approval.
LEMMA ClaimedKeeps ==
    ASSUME TInv, NEW w \in Workers, NEW op \in Operation, NEW approved \in BOOLEAN,
           NEW at \in {"verify", "stop"}, op = "restore" => at = "stop",
           Idle(w), entry # None, record[op] # None, record[op].approved => approved,
           Recorded, op = "purge" => approved \/ Aged,
           Claimed(w, op, approved, at), UNCHANGED <<item, file, client, faults>>
    PROVE  TInv'
<1>1. TypeOK /\ entry \in Entry /\ EntryGood /\ record[op] \in JanitorRecord
  BY Typed DEF TInv, StoreGood
<1>2. PICK first : first = (approved /\ record[op].first)
  OBVIOUS
<1>3. PICK r : r = [record[op] EXCEPT !.state = "running", !.lease = "live",
                                      !.approved = approved, !.first = first]
  OBVIOUS
<1>4. first \in BOOLEAN
  BY <1>2
<1>5. r \in JanitorRecord /\ r.state = "running" /\ r.approved = approved
  BY <1>1, <1>3, <1>4 DEF JanitorRecord
<1>6. record' = [record EXCEPT ![op] = r]
  BY <1>2, <1>3 DEF Claimed
<1>7. /\ record' \in [Operation -> JanitorRecord \cup {None}]
      /\ \A o \in Operation : RecordStep(o)
      /\ record'[op] = r /\ \A o \in Operation \ {op} : record'[o] = record[o]
  BY <1>1, <1>5, <1>6, RecordSet
<1>8. r # None
  BY <1>5, Rows
<1>9. PICK e : e = [entry EXCEPT !.state = ActiveState(op), !.op = op, !.lease = "live"]
  OBVIOUS
<1>10. ActiveState(op) = IF op = "purge" THEN "purging" ELSE "restoring"
  BY DEF ActiveState
<1>11. /\ e \in Entry /\ e.state = ActiveState(op) /\ e.trashedAt = entry.trashedAt
       /\ e.due = entry.due
  BY <1>1, <1>9, <1>10 DEF Entry
<1>12. entry' = e
  BY <1>9 DEF Claimed
<1>13. Books
  BY <1>7, <1>11, <1>12 DEF Books
<1>14. Recorded' = Recorded /\ Aged' = Aged /\ InTrash' = InTrash
  BY DEF Recorded, Pending, Aged, InTrash
<1>15. op = "purge" => Approved' \/ Aged
  BY <1>5, <1>7, <1>8 DEF Approved
<1>16. record'["purge"] # None
  BY <1>1, <1>7, Rows DEF EntryGood, RecordStep
<1>17. EntryGood'
  BY <1>1, <1>10, <1>11, <1>12, <1>14, <1>15, <1>16 DEF EntryGood, Ended
<1>18. PICK d : d = Begin(w, op, at)
  OBVIOUS
<1>19. d \in Call /\ d.kind = op /\ d.at = at /\ d.done = {}
  BY <1>18 DEF Begin, Call, Verdicts, Operation
<1>20. CallGood(d)'
  <2>1. CASE op = "purge"
    <3>1. PurgeGood(d)'
      BY <1>14, <1>15, <1>19, <2>1 DEF PurgeGood
    <3> QED BY <1>19, <2>1, <3>1 DEF CallGood, Ahead
  <2>2. CASE op = "restore"
    <3>1. RestoreGood(d)'
      BY <1>7, <1>8, <1>14, <1>19, <2>2 DEF RestoreGood
    <3> QED BY <1>19, <2>2, <3>1 DEF CallGood, Ahead
  <2> QED BY <2>1, <2>2 DEF Operation
<1>21. Follows(w, d)
  BY <1>19 DEF Follows, Mover, Ahead, SawTrash, EntryCalls, Operation
<1>22. Outdated(EntryCalls \cup {op}) \in Bases /\ ClientStep
  BY <1>1, OutdatedBase, ClientLeft
<1>23. call' = [Outdated(EntryCalls \cup {op}) EXCEPT ![w] = d]
  BY <1>18 DEF Claimed
<1> QED BY <1>13, <1>17, <1>19, <1>20, <1>21, <1>22, <1>23, BooksStep

\* A tick, Restore or Purge: janitor_records_claim_trash_entry.
LEMMA ClaimKeeps ==
    ASSUME TInv, NEW w \in Workers, NEW op \in Operation, Claim(w, op)
    PROVE  TInv'
<1>1. /\ Idle(w) /\ entry # None /\ record[op] # None /\ ~record[op].approved /\ Eligible(op)
      /\ Claimed(w, op, FALSE, "stop") /\ UNCHANGED <<item, file, client, faults>>
  BY DEF Claim, Claimable
<1>2. EntryGood /\ StoreGood
  BY <1>1 DEF TInv, StoreGood
<1>3. Recorded /\ (op = "purge" => Aged)
  <2>1. CASE op = "purge"
    BY <1>1, <1>2, <2>1 DEF Eligible, ActiveState, EntryGood, Approved
  <2>2. CASE op = "restore"
    BY <1>1, <1>2, <2>2 DEF StoreGood
  <2> QED BY <2>1, <2>2 DEF Operation
<1> QED BY <1>1, <1>3, ClaimedKeeps

\* claimApprovedEarlyPurge and claimApprovedEarlyPurgeReconciliation.
LEMMA ClaimApprovedKeeps ==
    ASSUME TInv, NEW w \in Workers, ClaimApproved(w) \/ ClaimApprovedAgain(w)
    PROVE  TInv'
<1>1. /\ Idle(w) /\ entry # None /\ entry.state \in {"trashed", "purging"}
      /\ Claimed(w, "purge", TRUE, "verify") /\ UNCHANGED <<item, file, client, faults>>
  BY DEF ClaimApproved, ClaimApprovedAgain
<1>2. record["purge"] # None /\ Recorded
  BY <1>1 DEF TInv, StoreGood, EntryGood
<1> QED BY <1>1, <1>2, ClaimedKeeps DEF Operation

\* reconcileBeforePurgeDispatch
LEMMA VerifyKeeps ==
    ASSUME TInv, NEW w \in Workers, VerifyPurge(w)
    PROVE  TInv'
<1>1. call[w] # None /\ ~Planning(call[w])
      /\ call[w].kind = "purge" /\ call[w].at = "verify"
      /\ UNCHANGED <<item, file, client, faults>>
  BY DEF VerifyPurge, At, Planning
<1>2. TypeOK /\ entry # None /\ entry \in Entry /\ EntryGood /\ call \in Bases
      /\ call[w] \in Call /\ PurgeGood(call[w]) /\ record["purge"] # None
  BY <1>1, Underway DEF TInv, CallGood
<1>3. CASE call' = [call EXCEPT ![w].at = "stop"] /\ UNCHANGED <<entry, record>>
  <2>1. PICK d : d = [call[w] EXCEPT !.at = "stop"]
    OBVIOUS
  <2>2. /\ d \in Call /\ d.kind = "purge" /\ d.at = "stop" /\ d.done = call[w].done
        /\ d.todo = call[w].todo
    BY <1>1, <1>2, <2>1 DEF Call
  <2>3. PurgeGood(d)
    BY <1>2, <2>2 DEF PurgeGood
  <2>4. CallGood(d) /\ Follows(w, d)
    BY <2>2, <2>3 DEF CallGood, Follows, Mover, Ahead, SawTrash, EntryCalls
  <2> QED BY <1>1, <1>2, <1>3, <2>1, <2>2, <2>4, ClientLeft, Quiet
<1>4. CASE /\ Reconciling({"purge"}, TRUE)
           /\ call' = [Outdated(EntryCalls \cup {"purge"}) EXCEPT ![w] = None]
  <2>1. {"purge"} \in SUBSET Operation /\ \A op \in {"purge"} : record[op] # None
    BY <1>2 DEF Operation
  <2>2. /\ record' \in [Operation -> JanitorRecord \cup {None}]
        /\ \A op \in Operation : RecordStep(op)
        /\ record'["restore"] # None => record["restore"] # None
        /\ \E e \in Entry : /\ entry' = e /\ e.state = entry.state
                            /\ e.trashedAt = entry.trashedAt /\ e.due = entry.due
    BY <1>2, <1>4, <2>1, ReconcilingKeeps
  <2>3. Books
    BY <1>1, <1>2, <2>2 DEF Books
  <2>4. (Approved => Approved') /\ record'["purge"] # None
    BY <1>2, <2>2, Rows DEF Approved, RecordStep
  <2>5. EntryGood'
    BY <1>2, <2>2, <2>3, <2>4, EntryKept
  <2>6. Outdated(EntryCalls \cup {"purge"}) \in Bases /\ ClientStep
    BY <1>1, <1>2, OutdatedBase, ClientLeft DEF Operation
  <2> QED BY <1>1, <1>4, <2>3, <2>5, <2>6, BooksStep DEF Follows
<1>5. CASE call' = [call EXCEPT ![w] = None] /\ UNCHANGED <<entry, record>>
  BY <1>1, <1>5, Ends
<1> QED BY <1>3, <1>4, <1>5 DEF VerifyPurge

-----------------------------------------------------------------------------
(* Purge and restore *)

LEMMA OperationFollows ==
    ASSUME NEW w, NEW d, d.kind \in Operation
    PROVE  Follows(w, d)
  BY DEF Follows, Mover, Ahead, SawTrash, EntryCalls, Operation

LEMMA VerdictIs ==
    ASSUME NEW c \in Call, NEW v \in {"held", "succeeded", "reconciling"}, NEW scope \in BOOLEAN
    PROVE  /\ Verdict(c, v, scope) \in Call /\ Verdict(c, v, scope).kind = c.kind
           /\ Verdict(c, v, scope).at = "finish" /\ Verdict(c, v, scope).verdict = v
           /\ Verdict(c, v, scope).done = c.done
  BY DEF Verdict, Call, Verdicts

LEMMA VerdictGood ==
    ASSUME NEW c \in Call, c.kind \in Operation, CallGood(c),
           NEW v \in {"held", "reconciling"}, NEW scope \in BOOLEAN
    PROVE  /\ Verdict(c, v, scope) \in Call /\ Verdict(c, v, scope).kind = c.kind
           /\ CallGood(Verdict(c, v, scope))
<1>1. PICK d : d = Verdict(c, v, scope)
  OBVIOUS
<1>2. d \in Call /\ d.kind = c.kind /\ d.at = "finish" /\ d.verdict = v /\ d.done = c.done
  BY <1>1, VerdictIs
<1>3. CASE c.kind = "purge"
  <2>1. PurgeGood(d)
    BY <1>2, <1>3 DEF CallGood, PurgeGood
  <2> QED BY <1>1, <1>2, <1>3, <2>1 DEF CallGood, Ahead
<1>4. CASE c.kind = "restore"
  <2>1. RestoreGood(d)
    BY <1>2, <1>4 DEF CallGood, RestoreGood
  <2> QED BY <1>1, <1>2, <1>4, <2>1 DEF CallGood, Ahead
<1> QED BY <1>3, <1>4 DEF Operation

\* A purge or a restore that goes on as d, the journal and the files left alone.
LEMMA RunsOn ==
    ASSUME TInv, NEW w \in Workers, call[w] # None, ~Planning(call[w]),
           NEW d \in Call, d.kind \in Operation,
           CallGood(d), call' = [call EXCEPT ![w] = d], ClientStep,
           UNCHANGED <<entry, item, record, file, faults>>
    PROVE  TInv'
  BY Underway, OperationFollows, Quiet

\* What is to be purged is all that was not.
LEMMA PurgeStartKeeps ==
    ASSUME TInv, NEW w \in Workers, PurgeStart(w)
    PROVE  TInv'
<1>1. call[w] # None /\ ~Planning(call[w]) /\ call[w].kind = "purge" /\ call[w].at = "stop"
      /\ UNCHANGED <<entry, item, record, file, faults>>
  BY DEF PurgeStart, At, Planning
<1>2. TypeOK /\ Done /\ call[w] \in Call /\ CallGood(call[w]) /\ PurgeGood(call[w])
  BY <1>1, Underway DEF TInv, StoreGood, CallGood
<1>3. CASE call' = [call EXCEPT ![w] = None] /\ UNCHANGED client
  BY <1>1, <1>3, Ends
<1>4. ASSUME NEW outcome \in Stops, client' \in StoppedBy(outcome),
             call' = [call EXCEPT ![w] =
                    IF outcome = "failed" THEN Verdict(@, "held", FALSE)
                    ELSE [@ EXCEPT !.at = "run", !.todo = PurgeTodo,
                                   !.absent = outcome \in {"skipped", "missing"}]]
      PROVE  TInv'
  <2>1. ClientStep
    BY <1>2, <1>4, ClientStopped
  <2>2. CASE outcome = "failed"
    <3>1. call' = [call EXCEPT ![w] = Verdict(call[w], "held", FALSE)]
      BY <1>4, <2>2
    <3> QED BY <1>1, <1>2, <2>1, <3>1, VerdictGood, RunsOn DEF Operation
  <2>3. CASE outcome # "failed"
    <3>1. PICK absent \in BOOLEAN : absent <=> outcome \in {"skipped", "missing"}
      OBVIOUS
    <3>2. PICK d : d = [call[w] EXCEPT !.at = "run", !.todo = PurgeTodo,
                                       !.absent = outcome \in {"skipped", "missing"}]
      OBVIOUS
    <3>3. PurgeTodo \in SUBSET Items /\ Items \ PurgeTodo \subseteq Gone
      BY <1>2 DEF PurgeTodo, Done, Gone
    <3>4. (outcome \in {"skipped", "missing"}) \in BOOLEAN
      OBVIOUS
    <3>5. /\ d \in Call /\ d.kind = "purge" /\ d.at = "run" /\ d.todo = PurgeTodo
          /\ d.done = call[w].done
      BY <1>1, <1>2, <3>2, <3>3, <3>4 DEF Call
    <3>6. PurgeGood(d)
      BY <1>2, <3>3, <3>5 DEF PurgeGood
    <3>7. CallGood(d)
      BY <3>5, <3>6 DEF CallGood, Ahead
    <3>8. call' = [call EXCEPT ![w] = d]
      BY <1>4, <2>3, <3>2
    <3> QED BY <1>1, <2>1, <3>5, <3>7, <3>8, RunsOn DEF Operation
  <2> QED BY <2>2, <2>3
<1> QED BY <1>3, <1>4 DEF PurgeStart

\* Payload leaves the trash while a purge or a restore runs.
LEMMA PayloadStep ==
    ASSUME TInv, NEW w \in Workers, call[w] # None, ~Planning(call[w]),
           NEW d \in Call, d.kind \in Operation,
           call' = [call EXCEPT ![w] = d], Recorded, ClientStep,
           NEW i \in InTrash, NEW place \in {"gone", "original"},
           file' = [file EXCEPT ![i] = place], CallGood(d)',
           UNCHANGED <<entry, item, record, faults>>
    PROVE  TInv'
<1>1. TypeOK /\ StoreGood /\ entry # None /\ entry \in Entry /\ EntryGood /\ call \in Bases
  BY Underway DEF TInv
<1>2. i \in Items /\ \A j \in Items : file'[j] = IF j = i THEN place ELSE file[j]
  BY <1>1 DEF InTrash, TypeOK
<1>3. file' \in [Items -> {"original", "trash", "aged", "gone"}]
      /\ item' \in [Items -> ItemState] /\ record' \in [Operation -> JanitorRecord \cup {None}]
  BY <1>1 DEF TypeOK, ItemState
<1>4. /\ Pending' = Pending /\ Recorded' /\ Gone \subseteq Gone' /\ Original \subseteq Original'
      /\ InTrash' \subseteq InTrash
  BY <1>2 DEF Pending, Recorded, Gone, Original, InTrash
<1>5. (Aged => Aged') /\ Approved' = Approved
  BY <1>2 DEF Aged, Approved
<1>6. Later
  BY <1>4, <1>5 DEF Later
<1>7. Done'
  BY <1>1, <1>2 DEF StoreGood, Done, InTrash
<1>8. EntryGood'
  BY <1>1, <1>4, <1>5 DEF EntryGood
<1>9. ~Untouched
  BY TrashAssumption DEF Untouched, Recorded
<1>10. Follows(w, d)
  BY OperationFollows
<1> QED BY <1>1, <1>3, <1>6, <1>7, <1>8, <1>9, <1>10, CallStep

\* The next item is deleted, or not, and reported, or not.
LEMMA PurgeItemKeeps ==
    ASSUME TInv, NEW w \in Workers, PurgeItem(w)
    PROVE  TInv'
<1>1. call[w] # None /\ ~Planning(call[w]) /\ call[w].kind = "purge" /\ call[w].at = "run"
      /\ UNCHANGED <<entry, item, record, faults>>
  BY DEF PurgeItem, At, Planning
<1>2. TypeOK /\ Done /\ call[w] \in Call /\ CallGood(call[w]) /\ PurgeGood(call[w])
  BY <1>1, Underway DEF TInv, StoreGood, CallGood
<1>3. PICK i : i = First(call[w])
  OBVIOUS
<1>4. PICK outcome : /\ client' \in StoppedBy(outcome)
                     /\ \/ \E scope \in BOOLEAN :
                              /\ call' = [call EXCEPT ![w] = Verdict(@, "held", scope)]
                              /\ UNCHANGED file
                        \/ /\ i \in InTrash
                           /\ file' = [file EXCEPT ![i] = "gone"]
                           /\ \/ \E absent \in BOOLEAN :
                                    call' = [call EXCEPT ![w] =
                                       [[call[w] EXCEPT !.absent = absent]
                                           EXCEPT !.todo = call[w].todo \ {i},
                                                  !.done = call[w].done \cup {i}]]
                              \/ \E scope \in BOOLEAN :
                                    call' = [call EXCEPT ![w] = Verdict(@, "held", scope)]
  <2>1. PICK outcome \in IF call[w].absent THEN {"skipped"} ELSE Stops :
              LET After(c) == [c EXCEPT !.todo = @ \ {First(call[w])}, !.done = @ \cup {First(call[w])}]
              IN
              /\ client' \in StoppedBy(outcome)
              /\ \/ /\ outcome = "failed" \/ First(call[w]) \notin InTrash
                    /\ call' = [call EXCEPT ![w] = Verdict(@, "held", FALSE)]
                    /\ UNCHANGED file
                 \/ /\ outcome # "failed" /\ First(call[w]) \in InTrash
                    /\ file' = [file EXCEPT ![First(call[w])] = "gone"]
                    /\ \E next \in {After([call[w] EXCEPT !.absent = @ \/ outcome = "missing"]),
                                    Verdict(call[w], "held", FALSE), Verdict(call[w], "held", TRUE)} :
                          call' = [call EXCEPT ![w] = next]
                 \/ /\ outcome # "failed" /\ First(call[w]) \in InTrash
                    /\ call' = [call EXCEPT ![w] = Verdict(@, "held", TRUE)]
                    /\ UNCHANGED file
    BY DEF PurgeItem
  <2>2. PICK absent \in BOOLEAN : absent = (call[w].absent \/ outcome = "missing")
    OBVIOUS
  <2>3. PICK c : c = [call[w] EXCEPT !.absent = absent]
    OBVIOUS
  <2>4. c.todo = call[w].todo /\ c.done = call[w].done
    BY <1>2, <2>3 DEF Call
  <2>5. ASSUME call' = [call EXCEPT ![w] =
                  [[call[w] EXCEPT !.absent = call[w].absent \/ outcome = "missing"]
                     EXCEPT !.todo = @ \ {i}, !.done = @ \cup {i}]]
        PROVE  call' = [call EXCEPT ![w] =
                  [[call[w] EXCEPT !.absent = absent]
                     EXCEPT !.todo = call[w].todo \ {i}, !.done = call[w].done \cup {i}]]
    BY <2>2, <2>3, <2>4, <2>5
  <2> QED BY <1>3, <2>1, <2>5
<1>5. ClientStep
  BY <1>2, <1>4, ClientStopped
<1>6. ASSUME NEW scope \in BOOLEAN
      PROVE  /\ Verdict(call[w], "held", scope) \in Call
             /\ Verdict(call[w], "held", scope).kind = "purge"
             /\ CallGood(Verdict(call[w], "held", scope))
  BY <1>1, <1>2, VerdictGood DEF Operation
<1>7. CASE \E scope \in BOOLEAN :
              /\ call' = [call EXCEPT ![w] = Verdict(@, "held", scope)]
              /\ UNCHANGED file
  BY <1>1, <1>5, <1>6, <1>7, RunsOn DEF Operation
<1>8. CASE /\ i \in InTrash
           /\ file' = [file EXCEPT ![i] = "gone"]
           /\ \/ \E absent \in BOOLEAN :
                    call' = [call EXCEPT ![w] =
                       [[call[w] EXCEPT !.absent = absent]
                           EXCEPT !.todo = call[w].todo \ {i},
                                  !.done = call[w].done \cup {i}]]
              \/ \E scope \in BOOLEAN :
                    call' = [call EXCEPT ![w] = Verdict(@, "held", scope)]
  <2>1. Recorded
    BY <1>2 DEF PurgeGood
  <2>2. i \in Items /\ \A j \in Items : file'[j] = IF j = i THEN "gone" ELSE file[j]
    BY <1>2, <1>8 DEF InTrash, TypeOK
  <2>3. Gone' = Gone \cup {i} /\ Recorded' /\ Approved' = Approved /\ (Aged => Aged')
    BY <1>1, <2>1, <2>2 DEF Gone, Recorded, Pending, Approved, Aged
  <2>4. CASE \E absent \in BOOLEAN :
                    call' = [call EXCEPT ![w] =
                       [[call[w] EXCEPT !.absent = absent]
                           EXCEPT !.todo = call[w].todo \ {i},
                                  !.done = call[w].done \cup {i}]]
    <3>1. PICK absent \in BOOLEAN :
                    call' = [call EXCEPT ![w] =
                       [[call[w] EXCEPT !.absent = absent]
                           EXCEPT !.todo = call[w].todo \ {i},
                                  !.done = call[w].done \cup {i}]]
      BY <2>4
    <3>2. PICK todo : todo = call[w].todo \ {i}
      OBVIOUS
    <3>3. PICK done : done = call[w].done \cup {i}
      OBVIOUS
    <3>4. PICK d : d = [[call[w] EXCEPT !.absent = absent] EXCEPT !.todo = todo, !.done = done]
      OBVIOUS
    <3>5. todo \in SUBSET Items /\ done \in SUBSET Items
      BY <1>2, <2>2, <3>2, <3>3 DEF Call
    <3>6. /\ d \in Call /\ d.kind = "purge" /\ d.at = "run" /\ d.todo = todo /\ d.done = done
      BY <1>1, <1>2, <3>4, <3>5 DEF Call
    <3>7. PurgeGood(d)'
      <4>1. done \subseteq Gone' /\ Items \ todo \subseteq Gone'
        BY <1>1, <1>2, <2>3, <3>2, <3>3 DEF PurgeGood
      <4>2. Approved' \/ Aged'
        BY <1>2, <2>3 DEF PurgeGood
      <4> QED BY <2>3, <3>6, <4>1, <4>2 DEF PurgeGood
    <3>8. CallGood(d)'
      BY <3>6, <3>7 DEF CallGood, Ahead
    <3>9. call' = [call EXCEPT ![w] = d]
      BY <3>1, <3>2, <3>3, <3>4
    <3> QED BY <1>1, <1>5, <1>8, <2>1, <3>6, <3>8, <3>9, PayloadStep DEF Operation
  <2>5. CASE \E scope \in BOOLEAN :
                    call' = [call EXCEPT ![w] = Verdict(@, "held", scope)]
    <3>1. PICK scope \in BOOLEAN : call' = [call EXCEPT ![w] = Verdict(call[w], "held", scope)]
      BY <2>5
    <3>2. PICK d : d = Verdict(call[w], "held", scope)
      OBVIOUS
    <3>3. /\ d \in Call /\ d.kind = "purge" /\ d.at = "finish" /\ d.verdict = "held"
          /\ d.done = call[w].done
      <4>1. d = [call[w] EXCEPT !.at = "finish", !.verdict = "held", !.scope = scope]
        BY <3>2 DEF Verdict
      <4> QED BY <1>1, <1>2, <4>1 DEF Call, Verdicts
    <3>4. PurgeGood(d)'
      <4>1. d.done \subseteq Gone'
        BY <1>2, <2>3, <3>3 DEF PurgeGood
      <4>2. Approved' \/ Aged'
        BY <1>2, <2>3 DEF PurgeGood
      <4> QED BY <2>3, <3>3, <4>1, <4>2 DEF PurgeGood
    <3>5. CallGood(d)'
      BY <3>3, <3>4 DEF CallGood, Ahead
    <3> QED BY <1>1, <1>5, <1>8, <2>1, <3>1, <3>2, <3>3, <3>5, PayloadStep DEF Operation
  <2> QED BY <1>8, <2>4, <2>5
<1> QED BY <1>4, <1>7, <1>8

\* The record of the client goes once every item is gone.
LEMMA PurgeRemoveKeeps ==
    ASSUME TInv, NEW w \in Workers, PurgeRemove(w)
    PROVE  TInv'
<1>1. call[w] # None /\ ~Planning(call[w])
      /\ call[w].kind = "purge" /\ call[w].at = "run" /\ call[w].todo = {}
      /\ UNCHANGED <<entry, item, record, file, faults>>
  BY DEF PurgeRemove, At, Planning
<1>2. TypeOK /\ call[w] \in Call /\ PurgeGood(call[w])
  BY <1>1, Underway DEF TInv, CallGood
<1>3. Recorded /\ Items \subseteq Gone
  BY <1>1, <1>2 DEF PurgeGood
<1>4. Emptied
  BY <1>3 DEF Emptied, InTrash, Gone
<1>5. ClientStep
  BY <1>2, <1>4 DEF PurgeRemove, ClientStep, ClientState, TypeOK
<1>6. PICK v \in {"held", "succeeded"} : call' = [call EXCEPT ![w] = Verdict(call[w], v, FALSE)]
  BY DEF PurgeRemove
<1>7. PICK d : d = Verdict(call[w], v, FALSE)
  OBVIOUS
<1>8. /\ d \in Call /\ d.kind = "purge" /\ d.at = "finish" /\ d.verdict = v
      /\ d.done = call[w].done
  <2>1. d = [call[w] EXCEPT !.at = "finish", !.verdict = v, !.scope = FALSE]
    BY <1>7 DEF Verdict
  <2> QED BY <1>1, <1>2, <2>1 DEF Call, Verdicts
<1>9. PurgeGood(d)
  BY <1>2, <1>3, <1>8 DEF PurgeGood
<1>10. CallGood(d)
  BY <1>8, <1>9 DEF CallGood, Ahead
<1> QED BY <1>1, <1>5, <1>6, <1>7, <1>8, <1>10, RunsOn DEF Operation

\* A restore that goes on over the items of todo.
LEMMA RestIs ==
    ASSUME NEW c \in Call, c.kind = "restore", NEW todo \in SUBSET Items
    PROVE  /\ Rest(c, todo, "run") \in Call /\ Rest(c, todo, "run").kind = "restore"
           /\ Rest(c, todo, "run").todo = todo
           /\ todo = {} => /\ Rest(c, todo, "run").at = "finish"
                           /\ Rest(c, todo, "run").verdict = "succeeded"
           /\ todo # {} => Rest(c, todo, "run").at = "run"
<1>1. PICK at : at = IF todo = {} THEN "finish" ELSE "run"
  OBVIOUS
<1>2. PICK v : v = IF todo = {} THEN "succeeded" ELSE ""
  OBVIOUS
<1>3. PICK d : d = [c EXCEPT !.todo = todo, !.at = at, !.verdict = v]
  OBVIOUS
<1>4. Rest(c, todo, "run") = d
  BY <1>1, <1>2, <1>3 DEF Rest
<1>5. at \in {"finish", "run"} /\ v \in Verdicts
  BY <1>1, <1>2 DEF Verdicts
<1>6. d \in Call /\ d.kind = "restore" /\ d.todo = todo /\ d.at = at /\ d.verdict = v
  BY <1>3, <1>5 DEF Call
<1> QED BY <1>1, <1>2, <1>4, <1>6

LEMMA RestGood ==
    ASSUME Recorded, record["restore"] # None, NEW d, NEW todo, d.kind = "restore",
           d.todo = todo, todo = {} => d.at = "finish" /\ d.verdict = "succeeded",
           todo # {} => d.at = "run", InTrash \subseteq todo
    PROVE  CallGood(d)
<1>1. CASE todo = {}
  <2>1. RestoreGood(d)
    BY <1>1 DEF RestoreGood
  <2> QED BY <2>1 DEF CallGood, Ahead
<1>2. CASE todo # {}
  <2>1. RestoreGood(d)
    BY <1>2 DEF RestoreGood
  <2> QED BY <2>1 DEF CallGood, Ahead
<1> QED BY <1>1, <1>2

\* What was restored or purged lies in the trash no more.
LEMMA RestoreStartKeeps ==
    ASSUME TInv, NEW w \in Workers, RestoreStart(w)
    PROVE  TInv'
<1>1. call[w] # None /\ ~Planning(call[w])
      /\ call[w].kind = "restore" /\ call[w].at = "stop"
      /\ UNCHANGED <<entry, item, record, file, client, faults>>
  BY DEF RestoreStart, At, Planning
<1>2. TypeOK /\ Done /\ call[w] \in Call /\ RestoreGood(call[w])
  BY <1>1, Underway DEF TInv, StoreGood, CallGood
<1>3. CASE call' = [call EXCEPT ![w] = None]
  BY <1>1, <1>3, Ends
<1>4. CASE call' = [call EXCEPT ![w] = Rest(@, {i \in Items : item[i] \notin Ended}, "run")]
  <2>1. PICK todo : todo = {i \in Items : item[i] \notin Ended}
    OBVIOUS
  <2>2. todo \in SUBSET Items /\ InTrash \subseteq todo
    BY <1>2, <2>1 DEF Done, InTrash, Ended
  <2>3. PICK d : d = Rest(call[w], todo, "run")
    OBVIOUS
  <2>4. /\ d \in Call /\ d.kind = "restore" /\ d.todo = todo
        /\ todo = {} => d.at = "finish" /\ d.verdict = "succeeded"
        /\ todo # {} => d.at = "run"
    <3>1. call[w] \in Call /\ call[w].kind = "restore"
      BY <1>1, <1>2
    <3> QED BY <2>2, <2>3, <3>1, RestIs
  <2>5. Recorded /\ record["restore"] # None
    BY <1>2 DEF RestoreGood
  <2>6. CallGood(d)
    BY <2>2, <2>4, <2>5, RestGood
  <2>7. call' = [call EXCEPT ![w] = d]
    BY <1>4, <2>1, <2>3
  <2> QED BY <1>1, <1>2, <2>4, <2>6, <2>7, ClientLeft, RunsOn DEF Operation
<1> QED BY <1>3, <1>4 DEF RestoreStart

LEMMA RestoreItemKeeps ==
    ASSUME TInv, NEW w \in Workers, RestoreItem(w)
    PROVE  TInv'
<1>1. call[w] # None /\ ~Planning(call[w]) /\ call[w].kind = "restore" /\ call[w].at = "run"
      /\ UNCHANGED <<entry, item, record, client, faults>>
  BY DEF RestoreItem, At, Planning
<1>2. TypeOK /\ call[w] \in Call /\ CallGood(call[w]) /\ RestoreGood(call[w])
  BY <1>1, Underway DEF TInv, CallGood
<1>3. PICK i : i = First(call[w])
  OBVIOUS
<1>4. ClientStep
  BY <1>1, <1>2, ClientLeft
<1>5. \/ /\ file' = file
         /\ \E scope \in BOOLEAN : call' = [call EXCEPT ![w] = Verdict(call[w], "held", scope)]
      \/ /\ file' = file /\ file[i] = "original" /\ call' = [call EXCEPT ![w].at = "mark"]
      \/ /\ i \in InTrash /\ file' = [file EXCEPT ![i] = "original"]
         /\ \/ call' = [call EXCEPT ![w] = [call[w] EXCEPT !.at = "mark"]]
            \/ \E scope \in BOOLEAN : call' = [call EXCEPT ![w] = Verdict(call[w], "held", scope)]
  BY <1>3 DEF RestoreItem, Turn
<1>6. CASE /\ file' = file
           /\ \E scope \in BOOLEAN : call' = [call EXCEPT ![w] = Verdict(call[w], "held", scope)]
  BY <1>1, <1>2, <1>4, <1>6, VerdictGood, RunsOn DEF Operation
<1>7. PICK m : m = [call[w] EXCEPT !.at = "mark"]
  OBVIOUS
<1>8. /\ m \in Call /\ m.kind = "restore" /\ m.at = "mark" /\ m.todo = call[w].todo
  BY <1>1, <1>2, <1>7 DEF Call
<1>9. First(m) = i
  BY <1>3, <1>8 DEF First
<1>10. CASE /\ file' = file /\ file[i] = "original" /\ call' = [call EXCEPT ![w].at = "mark"]
  <2>1. First(m) \in Items => First(m) \in Original
    BY <1>9, <1>10 DEF Original
  <2>2. RestoreGood(m)
    BY <1>1, <1>2, <1>8, <2>1 DEF RestoreGood
  <2>3. CallGood(m)
    BY <1>8, <2>2 DEF CallGood, Ahead
  <2>4. call' = [call EXCEPT ![w] = m]
    BY <1>7, <1>10
  <2> QED BY <1>1, <1>4, <1>8, <1>10, <2>3, <2>4, RunsOn DEF Operation
<1>11. CASE /\ i \in InTrash /\ file' = [file EXCEPT ![i] = "original"]
            /\ \/ call' = [call EXCEPT ![w] = [call[w] EXCEPT !.at = "mark"]]
               \/ \E scope \in BOOLEAN : call' = [call EXCEPT ![w] = Verdict(call[w], "held", scope)]
  <2>1. Recorded /\ record["restore"] # None
    BY <1>2 DEF RestoreGood
  <2>2. i \in Items /\ \A j \in Items : file'[j] = IF j = i THEN "original" ELSE file[j]
    BY <1>2, <1>11 DEF InTrash, TypeOK
  <2>3. /\ InTrash' \subseteq InTrash /\ i \in Original' /\ Recorded' /\ record'["restore"] # None
    BY <1>1, <2>1, <2>2 DEF InTrash, Original, Recorded, Pending
  <2>4. CASE call' = [call EXCEPT ![w] = [call[w] EXCEPT !.at = "mark"]]
    <3>1. First(m)' = i
      BY <1>9 DEF First
    <3>2. InTrash' \subseteq m.todo
      BY <1>1, <1>2, <1>8, <2>3 DEF RestoreGood
    <3>3. RestoreGood(m)'
      BY <1>8, <2>3, <3>1, <3>2 DEF RestoreGood
    <3>4. CallGood(m)'
      BY <1>8, <3>3 DEF CallGood, Ahead
    <3>5. call' = [call EXCEPT ![w] = m] /\ m.kind \in Operation
      BY <1>7, <1>8, <2>4 DEF Operation
    <3> QED BY <1>1, <1>4, <1>8, <1>11, <2>1, <3>4, <3>5, PayloadStep
  <2>5. CASE \E scope \in BOOLEAN : call' = [call EXCEPT ![w] = Verdict(call[w], "held", scope)]
    <3>1. PICK scope \in BOOLEAN : call' = [call EXCEPT ![w] = Verdict(call[w], "held", scope)]
      BY <2>5
    <3>2. PICK d : d = Verdict(call[w], "held", scope)
      OBVIOUS
    <3>3. /\ d \in Call /\ d.kind = "restore" /\ d.at = "finish" /\ d.verdict = "held"
      <4>1. d = [call[w] EXCEPT !.at = "finish", !.verdict = "held", !.scope = scope]
        BY <3>2 DEF Verdict
      <4> QED BY <1>1, <1>2, <4>1 DEF Call, Verdicts
    <3>4. RestoreGood(d)'
      BY <2>3, <3>3 DEF RestoreGood
    <3>5. CallGood(d)'
      BY <3>3, <3>4 DEF CallGood, Ahead
    <3> QED BY <1>1, <1>4, <1>11, <2>1, <3>1, <3>2, <3>3, <3>5, PayloadStep DEF Operation
  <2> QED BY <1>11, <2>4, <2>5
<1> QED BY <1>5, <1>6, <1>10, <1>11

\* Items whose payload is where their new state says are marked.
LEMMA MarkedDone ==
    ASSUME TInv, Recorded, NEW items, NEW s \in {"purged", "restored"},
           \A i \in items \cap Items : file[i] = IF s = "purged" THEN "gone" ELSE "original",
           item' = Marked(items, s, {"selected", "trashed"}), file' = file,
           Approved => Approved', record["restore"] # None => record'["restore"] # None
    PROVE  /\ Later /\ Done' /\ Recorded' /\ ~Untouched
           /\ Aged' = Aged /\ InTrash' = InTrash /\ Gone' = Gone
           /\ item' \in [Items -> ItemState]
           /\ file' \in [Items -> {"original", "trash", "aged", "gone"}]
<1>1. TypeOK /\ Done
  BY DEF TInv, StoreGood
<1>2. \A i \in Items : item'[i] = IF i \in items /\ item[i] \in {"selected", "trashed"}
                                  THEN s ELSE item[i]
  BY DEF Marked
<1>3. item' \in [Items -> ItemState]
  <2>1. \A i \in Items : item'[i] \in ItemState
    BY <1>1, <1>2 DEF TypeOK, ItemState
  <2> QED BY <2>1 DEF Marked
<1>4. Pending' = {} /\ Pending = {} /\ Recorded'
  BY <1>2 DEF Pending, Recorded
<1>5. /\ Aged' = Aged /\ InTrash' = InTrash /\ Gone' = Gone /\ Original' = Original
  BY DEF Aged, InTrash, Gone, Original
<1>6. Later
  BY <1>4, <1>5 DEF Later
<1>7. Done'
  BY <1>1, <1>2 DEF Done
<1>8. ~Untouched
  BY TrashAssumption DEF Untouched, Recorded
<1> QED BY <1>1, <1>3, <1>4, <1>5, <1>6, <1>7, <1>8 DEF TypeOK

LEMMA RestoreMarkKeeps ==
    ASSUME TInv, NEW w \in Workers, RestoreMark(w)
    PROVE  TInv'
<1>1. call[w] # None /\ ~Planning(call[w])
      /\ call[w].kind = "restore" /\ call[w].at = "mark"
      /\ UNCHANGED <<entry, record, file, client, faults>>
  BY DEF RestoreMark, At, Planning
<1>2. /\ TypeOK /\ entry # None /\ entry \in Entry /\ EntryGood /\ call \in Bases
      /\ call[w] \in Call /\ RestoreGood(call[w])
  BY <1>1, Underway DEF TInv, CallGood
<1>3. PICK i : i = First(call[w])
  OBVIOUS
<1>4. item' = Marked({i}, "restored", {"selected", "trashed"})
      /\ call' = [call EXCEPT ![w] = Rest(call[w], call[w].todo \ {i}, "run")]
  BY <1>3 DEF RestoreMark
<1>5. /\ Recorded /\ record["restore"] # None /\ InTrash \subseteq call[w].todo
      /\ (i \in Items => i \in Original)
  BY <1>1, <1>2, <1>3 DEF RestoreGood
<1>6. Approved' = Approved
  BY <1>1 DEF Approved
<1>7. /\ Later /\ Done' /\ Recorded' /\ ~Untouched
      /\ Aged' = Aged /\ InTrash' = InTrash /\ Gone' = Gone
      /\ item' \in [Items -> ItemState]
      /\ file' \in [Items -> {"original", "trash", "aged", "gone"}]
  <2>1. \A j \in {i} \cap Items : file[j] = "original"
    BY <1>5 DEF Original
  <2> QED BY <1>1, <1>4, <1>5, <1>6, <2>1, MarkedDone
<1>8. PICK todo : todo = call[w].todo \ {i}
  OBVIOUS
<1>9. todo \in SUBSET Items /\ InTrash \subseteq todo
  <2>1. i \notin InTrash
    BY <1>5 DEF InTrash, Original
  <2> QED BY <1>2, <1>5, <1>8, <2>1 DEF Call
<1>10. PICK d : d = Rest(call[w], todo, "run")
  OBVIOUS
<1>11. /\ d \in Call /\ d.kind = "restore" /\ d.todo = todo
       /\ todo = {} => d.at = "finish" /\ d.verdict = "succeeded"
       /\ todo # {} => d.at = "run"
  <2>1. call[w] \in Call /\ call[w].kind = "restore"
    BY <1>1, <1>2
  <2> QED BY <1>9, <1>10, <2>1, RestIs
<1>12. CallGood(d)
  BY <1>5, <1>9, <1>11, RestGood
<1>13. CallGood(d)'
  <2>1. ~Ahead(d)
    BY <1>11 DEF Ahead
  <2> QED BY <1>7, <1>12, <2>1, CallStays
<1>14. EntryGood'
  BY <1>1, <1>2, <1>6, <1>7 DEF EntryGood
<1>15. ClientStep /\ record' \in [Operation -> JanitorRecord \cup {None}]
  BY <1>1, <1>2, ClientLeft DEF TypeOK
<1>16. call' = [call EXCEPT ![w] = d]
  BY <1>4, <1>8, <1>10
<1>17. Follows(w, d)
  <2>1. d.kind \in Operation
    BY <1>11 DEF Operation
  <2> QED BY <2>1, OperationFollows
<1> QED BY <1>1, <1>2, <1>7, <1>11, <1>13, <1>14, <1>15, <1>16, <1>17, CallStep

LEMMA CancelKeeps ==
    ASSUME TInv, NEW w \in Workers, RunCancelled(w)
    PROVE  TInv'
<1>1. call[w] # None /\ ~Planning(call[w]) /\ call[w].kind \in Operation
      /\ UNCHANGED <<entry, item, record, file, client, faults>>
      /\ call' = [call EXCEPT ![w] = Verdict(call[w], "reconciling", FALSE)]
  BY DEF RunCancelled, At, Planning, Operation
<1>2. TypeOK /\ call[w] \in Call /\ CallGood(call[w])
  BY <1>1, Underway DEF TInv
<1>3. FALSE \in BOOLEAN
  OBVIOUS
<1> QED BY <1>1, <1>2, <1>3, ClientLeft, VerdictGood, RunsOn

LEMMA FinishFailsKeeps ==
    ASSUME TInv, NEW w \in Workers, FinishFails(w)
    PROVE  TInv'
<1>1. call[w] # None /\ ~Planning(call[w])
  BY DEF FinishFails, At, Planning
<1> QED BY <1>1, Ends DEF FinishFails

\* finishClaim: what succeeded left nothing in the trash, and what is marked as
\* purged was deleted.
LEMMA FinishKeeps ==
    ASSUME TInv, NEW w \in Workers, Finish(w)
    PROVE  TInv'
<1>1. PICK op \in Operation :
       /\ At(w, op, "finish")
       /\ item' = IF op = "purge" THEN Marked(call[w].done, "purged", {"selected", "trashed"})
                  ELSE item
       /\ IF call[w].verdict = "reconciling"
          THEN /\ record' = [record EXCEPT ![op] =
                    [@ EXCEPT !.state = "reconciling", !.lease = "none", !.wait = TRUE,
                              !.trash = FALSE, !.scope = FALSE]]
               /\ entry' = IF entry.op = op THEN [entry EXCEPT !.lease = "none"] ELSE entry
          ELSE /\ record' = [record EXCEPT ![op] =
                    [@ EXCEPT !.state = call[w].verdict, !.lease = "none", !.wait = FALSE,
                              !.first = FALSE, !.trash = FALSE, !.scope = call[w].scope]]
               /\ entry' = EntryAfter(entry, op, call[w].verdict)
       /\ call' = [Outdated(EntryCalls \cup {op}) EXCEPT ![w] = None]
       /\ UNCHANGED <<file, client, faults>>
  BY DEF Finish
<1>2. call[w] # None /\ ~Planning(call[w]) /\ call[w].kind = op /\ call[w].at = "finish"
  BY <1>1 DEF At, Planning
<1>3. /\ TypeOK /\ entry # None /\ entry \in Entry /\ EntryGood
      /\ call[w] \in Call /\ CallGood(call[w]) /\ record["purge"] # None
  BY <1>2, Underway DEF TInv
<1>4. PICK verdict : verdict = call[w].verdict
  OBVIOUS
<1>5. /\ Recorded /\ verdict \in {"held", "succeeded", "reconciling"} /\ record[op] # None
      /\ verdict = "succeeded" => InTrash = {}
      /\ op = "purge" => call[w].done \subseteq Gone
  <2>1. CASE op = "purge"
    <3>1. PurgeGood(call[w])
      BY <1>2, <1>3, <2>1 DEF CallGood
    <3> QED BY <1>2, <1>3, <1>4, <2>1, <3>1 DEF PurgeGood, InTrash, Gone
  <2>2. CASE op = "restore"
    <3>1. RestoreGood(call[w])
      BY <1>2, <1>3, <2>2 DEF CallGood
    <3> QED BY <1>2, <1>4, <2>2, <3>1 DEF RestoreGood
  <2> QED BY <2>1, <2>2 DEF Operation
<1>6. record[op] \in JanitorRecord
  BY <1>3, <1>5, Typed
<1>7. \E r \in JanitorRecord : record' = [record EXCEPT ![op] = r] /\ r.state = verdict
                               /\ r.approved = record[op].approved
  <2>1. CASE verdict = "reconciling"
    <3>1. PICK r : r = [record[op] EXCEPT !.state = "reconciling", !.lease = "none",
                              !.wait = TRUE, !.trash = FALSE, !.scope = FALSE]
      OBVIOUS
    <3>2. r \in JanitorRecord /\ r.state = "reconciling" /\ r.approved = record[op].approved
      BY <1>6, <3>1 DEF JanitorRecord
    <3> QED BY <1>1, <1>4, <2>1, <3>1, <3>2
  <2>2. CASE verdict # "reconciling"
    <3>1. PICK scope : scope = call[w].scope
      OBVIOUS
    <3>2. scope \in BOOLEAN
      BY <1>3, <3>1 DEF Call
    <3>3. PICK r : r = [record[op] EXCEPT !.state = verdict, !.lease = "none", !.wait = FALSE,
                              !.first = FALSE, !.trash = FALSE, !.scope = scope]
      OBVIOUS
    <3>4. r \in JanitorRecord /\ r.state = verdict /\ r.approved = record[op].approved
      BY <1>5, <1>6, <3>2, <3>3 DEF JanitorRecord
    <3> QED BY <1>1, <1>4, <2>2, <3>1, <3>3, <3>4
  <2> QED BY <2>1, <2>2
<1>8. PICK r \in JanitorRecord : record' = [record EXCEPT ![op] = r] /\ r.state = verdict
                                 /\ r.approved = record[op].approved
  BY <1>7
<1>9. /\ record' \in [Operation -> JanitorRecord \cup {None}]
      /\ record'[op] = r /\ \A o \in Operation \ {op} : record'[o] = record[o]
  BY <1>3, <1>8 DEF TypeOK
<1>10. /\ Approved => Approved'
       /\ \A o \in Operation : record[o] # None => record'[o] # None
  BY <1>3, <1>8, <1>9, Rows DEF Approved
<1>11. record'["purge"] # None /\ (record["restore"] # None => record'["restore"] # None)
  BY <1>3, <1>10 DEF Operation
<1>12. /\ Later /\ Done' /\ Recorded' /\ ~Untouched
       /\ Aged' = Aged /\ InTrash' = InTrash /\ Gone' = Gone
       /\ item' \in [Items -> ItemState]
       /\ file' \in [Items -> {"original", "trash", "aged", "gone"}]
  <2>1. CASE op = "purge"
    <3>1. item' = Marked(call[w].done, "purged", {"selected", "trashed"})
      BY <1>1, <2>1
    <3>2. \A i \in call[w].done \cap Items : file[i] = "gone"
      BY <1>5, <2>1 DEF Gone
    <3> QED BY <1>1, <1>5, <1>10, <1>11, <3>1, <3>2, MarkedDone
  <2>2. CASE op # "purge"
    <3>1. item' = item /\ file' = file
      BY <1>1, <2>2
    <3>2. /\ Pending' = Pending /\ Gone' = Gone /\ Original' = Original /\ InTrash' = InTrash
          /\ Aged' = Aged /\ Recorded'
      BY <1>5, <3>1 DEF Pending, Gone, Original, InTrash, Aged, Recorded
    <3>3. Later
      BY <1>10, <1>11, <3>2 DEF Later
    <3>4. Done'
      BY <3>1 DEF TInv, StoreGood, Done
    <3>5. ~Untouched
      BY <1>5, TrashAssumption DEF Untouched, Recorded
    <3> QED BY <1>3, <1>5, <3>1, <3>2, <3>3, <3>4, <3>5 DEF TypeOK, ItemState
  <2> QED BY <2>1, <2>2
<1>13. \E e \in Entry : /\ entry' = e /\ e.trashedAt = entry.trashedAt /\ e.due = entry.due
                        /\ e.state \in {entry.state, "held", "purged", "restored"}
                        /\ e.state \in Ended => entry.state \in Ended \/ verdict = "succeeded"
  <2>1. CASE verdict = "reconciling"
    <3>1. PICK e : e = [entry EXCEPT !.lease = "none"]
      OBVIOUS
    <3>2. /\ e \in Entry /\ e.state = entry.state /\ e.trashedAt = entry.trashedAt
          /\ e.due = entry.due
      BY <1>3, <3>1 DEF Entry
    <3> QED BY <1>1, <1>3, <1>4, <2>1, <3>1, <3>2
  <2>2. CASE verdict # "reconciling"
    <3>1. entry' = EntryAfter(entry, op, verdict)
      BY <1>1, <1>4, <2>2
    <3>2. CASE entry.op # op
      BY <1>3, <3>1, <3>2 DEF EntryAfter
    <3>3. CASE entry.op = op
      <4>1. PICK e : e = EntryAfter(entry, op, verdict)
        OBVIOUS
      <4>2. /\ e \in Entry /\ e.trashedAt = entry.trashedAt /\ e.due = entry.due
            /\ e.state = IF verdict = "held" THEN "held"
                         ELSE IF op = "purge" THEN "purged" ELSE "restored"
        BY <1>3, <3>3, <4>1, EntryEnds
      <4> QED BY <1>5, <2>2, <3>1, <4>1, <4>2 DEF Ended
    <3> QED BY <3>2, <3>3
  <2> QED BY <2>1, <2>2
<1>14. entry' \in Entry
  BY <1>13
<1>15. EntryGood'
  <2>1. PICK e \in Entry : /\ entry' = e /\ e.trashedAt = entry.trashedAt /\ e.due = entry.due
                           /\ e.state \in {entry.state, "held", "purged", "restored"}
                           /\ e.state \in Ended => entry.state \in Ended \/ verdict = "succeeded"
    BY <1>13
  <2>2. e.state \in Ended => InTrash = {}
    BY <1>3, <1>5, <2>1 DEF EntryGood
  <2> QED BY <1>3, <1>10, <1>11, <1>12, <2>1, <2>2 DEF EntryGood
<1>16. \A o \in Operation : record'[o] # None /\ record'[o].state = "succeeded" =>
          \/ record[o] # None /\ record[o].state = "succeeded"
          \/ Emptied
  BY <1>5, <1>8, <1>9 DEF Emptied
<1>17. record'["restore"] # None => record["restore"] # None \/ Recorded
  BY <1>5
<1>18. ClientStep /\ Outdated(EntryCalls \cup {op}) \in Bases
  BY <1>1, <1>3, ClientLeft, OutdatedBase
<1> QED BY <1>1, <1>3, <1>9, <1>12, <1>14, <1>15, <1>16, <1>17, <1>18, CallStep DEF Follows

-----------------------------------------------------------------------------
(* The invariant, and what follows from it *)

LEMMA InitTInv ==
    ASSUME Init
    PROVE  TInv
<1>1. TypeOK
  BY TrashAssumption DEF Init, TypeOK
<1>2. Fresh
  BY TrashAssumption DEF Init, Fresh, Untouched, Pending, Original
<1>3. StoreGood
  <2>1. (\A op \in Operation : record[op] = None) /\ client # "removed"
    BY <1>2 DEF Fresh
  <2>2. Done
    BY DEF Init, Done
  <2>3. entry = None
    BY DEF Init
  <2> QED BY <1>2, <2>1, <2>2, <2>3, Rows DEF StoreGood
<1> QED BY <1>1, <1>3 DEF Init, TInv

LEMMA StepKeeps ==
    ASSUME OneTrasher, TInv, NEW w \in Workers, Step(w)
    PROVE  TInv'
<1>0. CASE TrashPlan(w)
  BY <1>0, TrashPlanKeeps
<1>1. CASE TrashStop(w)
  BY <1>1, TrashStopKeeps
<1>2. CASE TrashMove(w)
  BY <1>2, TrashMoveKeeps
<1>3. CASE TrashFinish(w)
  BY <1>3, TrashFinishKeeps
<1>4. CASE ReconcileWrite(w)
  BY <1>4, ReconcileWriteKeeps
<1>5. CASE RetryClaim(w)
  BY <1>5, RetryClaimKeeps
<1>6. CASE RetryStop(w)
  BY <1>6, RetryStopKeeps
<1>7. CASE RetryMove(w)
  BY <1>7, RetryMoveKeeps
<1>8. CASE RetryFinish(w)
  BY <1>8, RetryFinishKeeps
<1>9. CASE VerifyPurge(w)
  BY <1>9, VerifyKeeps
<1>10. CASE PurgeStart(w)
  BY <1>10, PurgeStartKeeps
<1>11. CASE PurgeItem(w)
  BY <1>11, PurgeItemKeeps
<1>12. CASE PurgeRemove(w)
  BY <1>12, PurgeRemoveKeeps
<1>13. CASE RestoreStart(w)
  BY <1>13, RestoreStartKeeps
<1>14. CASE RestoreItem(w)
  BY <1>14, RestoreItemKeeps
<1>15. CASE RestoreMark(w)
  BY <1>15, RestoreMarkKeeps
<1>16. CASE RunCancelled(w)
  BY <1>16, CancelKeeps
<1>17. CASE Finish(w)
  BY <1>17, FinishKeeps
<1>18. CASE FinishFails(w)
  BY <1>18, FinishFailsKeeps
<1> QED BY <1>0, <1>1, <1>2, <1>3, <1>4, <1>5, <1>6, <1>7, <1>8, <1>9, <1>10, <1>11, <1>12,
           <1>13, <1>14, <1>15, <1>16, <1>17, <1>18 DEF Step

LEMMA EnvironmentKeeps ==
    ASSUME TInv, Environment
    PROVE  TInv'
<1>1. CASE LeasesPass
  BY <1>1, LeasesKeep
<1>2. CASE RetentionPasses
  BY <1>2, RetentionKeeps
<1>3. CASE ClientResumes \/ Crash
  BY <1>3, OutsideKeeps
<1>4. CASE ClockBack
  BY <1>4, ClockBackKeeps
<1>5. CASE ClockSet
  BY <1>5, ClockKeeps
<1>6. CASE \E op \in Operation : RetryPasses(op)
  BY <1>6, RetryTimeKeeps
<1> QED BY <1>1, <1>2, <1>3, <1>4, <1>5, <1>6 DEF Environment

LEMMA StutterKeeps ==
    ASSUME TInv, UNCHANGED vars
    PROVE  TInv'
<1>1. CASE entry # None
  <2>1. entry \in Entry /\ call \in Bases /\ faults' \in 0..MaxFaults
    BY <1>1, Typed DEF vars, TInv, TypeOK, Bases
  <2> QED BY <1>1, <2>1, EntryOnly DEF vars
<1>2. CASE entry = None
  <2>1. TypeOK'
    BY DEF TInv, TypeOK, vars
  <2>2. Fresh' /\ Done' /\ (Emptied => Emptied')
    BY <1>2 DEF vars, TInv, StoreGood, Fresh, Done, Emptied, Recorded, Untouched, Pending,
       Original, InTrash
  <2>3. StoreGood'
    <3>1. (\A op \in Operation : record'[op] = None) /\ client' # "removed"
      BY <2>2 DEF Fresh
    <3>2. entry' = None
      BY <1>2 DEF vars
    <3> QED BY <2>2, <3>1, <3>2, Rows DEF StoreGood
  <2> QED BY <1>2, <2>1, <2>3 DEF TInv, vars
<1> QED BY <1>1, <1>2

LEMMA NextTInv ==
    ASSUME OneTrasher, TInv, [Next]_vars
    PROVE  TInv'
<1>1. \A w \in Callers \cup Janitors : w \in Workers
  BY DEF Workers
<1>2. CASE \E w \in Callers : Request(w)
  <2>1. PICK w \in Workers : \/ Trash(w) \/ ReconcileRead(w)
                             \/ Claim(w, "restore") \/ ClaimApproved(w)
    BY <1>1, <1>2 DEF Request
  <2>2. "restore" \in Operation
    BY DEF Operation
  <2> QED BY <2>1, <2>2, TrashKeeps, ReconcileReadKeeps, ClaimKeeps, ClaimApprovedKeeps
<1>3. CASE \E w \in Janitors : Tick(w)
  <2>1. PICK w \in Workers : \/ ReconcileRead(w) \/ ClaimApprovedAgain(w)
                             \/ \E op \in Operation : Claim(w, op)
    BY <1>1, <1>3 DEF Tick
  <2> QED BY <2>1, ReconcileReadKeeps, ClaimKeeps, ClaimApprovedKeeps
<1>4. CASE \E w \in Workers : Step(w)
  BY <1>4, StepKeeps
<1>5. CASE RequestRestore
  BY <1>5, RequestKeeps
<1>6. CASE RecoverPlanned
  BY <1>6, RecoverPlannedKeeps
<1>7. CASE RecoverExpired \/ RecoverRunning
  BY <1>7, RecoverKeeps
<1>8. CASE \E op \in Operation : HoldByClock(op) \/ Retry(op)
  BY <1>8, HoldKeeps, RetryKeeps
<1>9. CASE Environment
  BY <1>9, EnvironmentKeeps
<1>10. CASE UNCHANGED vars
  BY <1>10, StutterKeeps
<1> QED BY <1>2, <1>3, <1>4, <1>5, <1>6, <1>7, <1>8, <1>9, <1>10 DEF Next

LEMMA AlwaysTInv ==
    ASSUME OneTrasher
    PROVE  Spec => []TInv
<1>1. Init => TInv
  BY InitTInv
<1>2. TInv /\ [Next]_vars => TInv'
  BY NextTInv
<1> QED BY <1>1, <1>2, PTL DEF Spec

\* What the items record as purged is gone and what they record as restored is
\* back, however purges and restores overlap, fail without a report and crash,
\* when one caller trashes the entry (RecordedMeansDone).
THEOREM RecordsAreTrue ==
    ASSUME OneTrasher
    PROVE  Spec => []RecordedMeansDone
<1>1. TInv => RecordedMeansDone
  BY DEF TInv, StoreGood, Done, RecordedMeansDone
<1> QED BY <1>1, AlwaysTInv, PTL

\* No entry that ended, no operation that succeeded and no download whose
\* record was removed leaves payload in the trash, when one caller trashes the
\* entry (NothingLeftBehind).
THEOREM TrashIsEmptied ==
    ASSUME OneTrasher
    PROVE  Spec => []NothingLeftBehind
<1>1. TInv => NothingLeftBehind
  BY DEF TInv, StoreGood, EntryGood, Emptied, NothingLeftBehind
<1> QED BY <1>1, AlwaysTInv, PTL

\* Only a purge deletes.
LEMMA OnlyPurges ==
    ASSUME TInv, [Next]_vars, NEW i \in Items, file[i] = "trash", file'[i] = "gone"
    PROVE  \E w \in Workers : PurgeItem(w)
<1>1. TypeOK
  BY DEF TInv
<1>2. file' # file
  OBVIOUS
<1>3. ASSUME NEW w, NEW wanted, Moves(w, wanted) PROVE FALSE
  <2>1. PICK moved : file' = [j \in Items |-> IF j \in moved THEN "trash" ELSE file[j]]
    BY <1>3 DEF Moves
  <2> QED BY <2>1
<1>4. ASSUME NEW w, RestoreItem(w) PROVE FALSE
  <2>1. PICK k : file' = [file EXCEPT ![k] = "original"]
    BY <1>2, <1>4 DEF RestoreItem
  <2> QED BY <1>1, <2>1 DEF TypeOK
<1>5. ~RetentionPasses
  <2>1. ASSUME RetentionPasses PROVE FALSE
    <3>1. file'[i] = IF entry.trashedAt /\ file[i] = "trash" THEN "aged" ELSE file[i]
      BY <2>1 DEF RetentionPasses
    <3> QED BY <3>1
  <2> QED BY <2>1
<1>6. ASSUME NEW w \in Workers, Step(w), ~PurgeItem(w) PROVE FALSE
  BY <1>2, <1>3, <1>4, <1>6 DEF Step, TrashPlan, TrashStop, TrashMove, TrashFinish, ReconcileWrite, RetryClaim,
     RetryStop, RetryMove, RetryFinish, VerifyPurge, PurgeStart, PurgeRemove, RestoreStart,
     RestoreMark, RunCancelled, Finish, FinishFails
<1>7. ~Environment
  BY <1>2, <1>5 DEF Environment, LeasesPass, ClientResumes, ClockBack, ClockSet, Crash, RetryPasses
<1>8. \A w : ~Request(w) /\ ~Tick(w)
  BY <1>2 DEF Request, Tick, Trash, ReconcileRead, Claim, ClaimApproved, ClaimApprovedAgain
<1>9. /\ ~RequestRestore /\ ~RecoverPlanned /\ ~RecoverExpired /\ ~RecoverRunning
      /\ \A op \in Operation : ~HoldByClock(op) /\ ~Retry(op)
  BY <1>2 DEF RequestRestore, RecoverPlanned, RecoverExpired, RecoverRunning, HoldByClock, Retry
<1>10. ~UNCHANGED vars
  BY <1>2 DEF vars
<1> QED BY <1>6, <1>7, <1>8, <1>9, <1>10 DEF Next

\* Payload that was not in the trash for its retention is deleted only by a
\* purge that was approved, whatever was held, retried or recovered before.
THEOREM RetentionIsKept ==
    ASSUME OneTrasher
    PROVE  Spec => NeverEarly
<1>1. ASSUME TInv, [Next]_vars, NEW i \in Items, file[i] = "trash", file'[i] = "gone"
      PROVE  record["purge"].approved
  <2>1. PICK w \in Workers : PurgeItem(w)
    BY <1>1, OnlyPurges
  <2>2. call[w] # None /\ call[w].kind = "purge"
    BY <2>1 DEF PurgeItem, At
  <2>3. PurgeGood(call[w])
    BY <1>1, <2>2, Underway DEF CallGood, Planning
  <2> QED BY <1>1, <2>3 DEF PurgeGood, Aged, Approved
<1>2. TInv /\ [Next]_vars =>
        [(\E i \in Items : file[i] = "trash" /\ file'[i] = "gone")
              => record["purge"].approved]_vars
  BY <1>1
<1> QED BY <1>2, AlwaysTInv, PTL DEF Spec, NeverEarly
=============================================================================
