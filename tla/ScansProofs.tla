---------------------------- MODULE ScansProofs ----------------------------
(***************************************************************************)
(* Proofs about Scans for every set of roots, revisions and reports and     *)
(* every value of the bounds: valid snapshots, evidence of the current      *)
(* revision, one runner per root; a closed scheduler has no scan that is    *)
(* still marked running, and a retained follow-up is not lost.              *)
(*                                                                         *)
(* Every commit is a set of changes, one for each root.  GoodChange says    *)
(* when a change may be applied to a root, UpdatedGood that good changes    *)
(* take a good snapshot to a good snapshot, and one lemma for each          *)
(* operation that its change is good.  Mild says what the change of one     *)
(* root may do to a running scan and to a follow-up; one lemma for each     *)
(* operation shows its change mild, and MildCommit what a commit of mild    *)
(* changes leaves behind.                                                   *)
(***************************************************************************)
EXTENDS Scans, FiniteSetTheorems, TLAPS

-----------------------------------------------------------------------------
(* The inductive invariant *)

\* What holds of one root in a snapshot.
RootGood(snap, r) ==
    LET root == snap.roots[r] IN
    /\ {root.active, root.last, root.complete} \subseteq {0} \cup DOMAIN snap.scans
    /\ Open(snap, r) = IF root.active = 0 THEN {} ELSE {root.active}
    /\ root.retired => ~root.enabled /\ root.next = "none"
    /\ root.enabled => root.rev # None
    /\ \A i \in {root.active, root.last, root.complete} \ {0} :
        snap.scans[i].root = r /\ snap.scans[i].rev = root.rev
    /\ root.last # 0 => snap.scans[root.last].state \in Terminal
    /\ root.complete # 0 => CanAssertAbsence(snap.scans[root.complete])

\* A scan whose cancellation was requested ends as cancelled or not at all.
CancelKept(s) == s.cancel => s.state \notin Terminal \ {"cancelled"}

SnapGood(snap) ==
    /\ snap \in Snapshots
    /\ Len(snap.scans) <= MaxScans
    /\ \A r \in Roots : RootGood(snap, r)
    /\ \A i \in DOMAIN snap.scans : snap.roots[snap.scans[i].root].rev # None
    /\ \A i \in DOMAIN snap.scans : CancelKept(snap.scans[i])

-----------------------------------------------------------------------------
(* Changes *)

\* The change c may be applied to root r of snap: it rewrites no scan but the
\* open one, admits a scan only when none stays open, and moves the references
\* of the root only to scans of its revision.
GoodChange(snap, r, c) ==
    LET root == snap.roots[r]
        stays == root.active # 0 /\ (c.id = 0 \/ c.scan.state \notin Terminal)
    IN
    /\ c.root \in RootState /\ c.fresh \in BOOLEAN
    /\ c.id \in {0, root.active}
    /\ c.id # 0 => c.scan \in ScanRecord /\ c.scan.root = r /\ CancelKept(c.scan)
    /\ root.rev # None \/ c.fresh => c.root.rev # None
    /\ c.root.retired => ~c.root.enabled /\ c.root.next = "none"
    /\ c.root.enabled => c.root.rev # None
    /\ c.fresh => ~stays
    /\ ~c.fresh => c.root.active = IF stays THEN root.active ELSE 0
    /\ stays /\ c.id = 0 => c.root.rev = root.rev
    /\ stays /\ c.id # 0 => c.scan.rev = c.root.rev
    /\ c.root.last \in {0, root.last, c.id}
    /\ c.root.last # 0 /\ c.root.last # c.id => c.root.rev = root.rev
    /\ c.root.last # 0 /\ c.root.last = c.id =>
        c.scan.state \in Terminal /\ c.scan.rev = c.root.rev
    /\ c.root.complete \in {0, root.complete, c.id}
    /\ c.root.complete # 0 /\ c.root.complete # c.id => c.root.rev = root.rev
    /\ c.root.complete # 0 /\ c.root.complete = c.id =>
        CanAssertAbsence(c.scan) /\ c.scan.rev = c.root.rev

\* In a good snapshot the open scan of a root is its ActiveScanID.
LEMMA ActiveIsOpen ==
    ASSUME NEW snap, SnapGood(snap), NEW r \in Roots
    PROVE  activeScan(snap, r) = snap.roots[r].active
<1> RootGood(snap, r)
    BY DEF SnapGood
<1>1. CASE snap.roots[r].active = 0
    BY <1>1 DEF RootGood, activeScan
<1>2. CASE snap.roots[r].active # 0
    <2>1. Open(snap, r) = {snap.roots[r].active}
        BY <1>2 DEF RootGood
    <2>2. snap.roots[r].active \in Nat
        BY DEF SnapGood, Snapshots, RootState
    <2> QED
        BY <2>1, <2>2 DEF activeScan
<1> QED
    BY <1>1, <1>2

\* The open scan of a root is a record of that root.
LEMMA ActiveRecord ==
    ASSUME NEW snap, SnapGood(snap), NEW r \in Roots, snap.roots[r].active # 0
    PROVE  LET i == snap.roots[r].active IN
           /\ i \in DOMAIN snap.scans /\ i \in Nat
           /\ snap.scans[i] \in ScanRecord
           /\ snap.scans[i].root = r
           /\ snap.scans[i].rev = snap.roots[r].rev
           /\ snap.scans[i].state \notin Terminal
<1> DEFINE i == snap.roots[r].active
<1>1. RootGood(snap, r) /\ snap \in Snapshots
    BY DEF SnapGood
<1>2. i \in DOMAIN snap.scans
    BY <1>1 DEF RootGood
<1>3. i \in Nat /\ snap.scans[i] \in ScanRecord
    BY <1>1, <1>2 DEF Snapshots, RootState
<1>4. snap.scans[i].root = r /\ snap.scans[i].rev = snap.roots[r].rev
    BY <1>1 DEF RootGood
<1>5. i \in Open(snap, r)
    BY <1>1 DEF RootGood
<1> QED
    BY <1>2, <1>3, <1>4, <1>5 DEF Open

\* A root that is left as it is.
LEMMA KeptGood ==
    ASSUME NEW snap, SnapGood(snap), NEW r \in Roots
    PROVE  GoodChange(snap, r, Kept(snap.roots[r]))
<1> RootGood(snap, r) /\ snap.roots[r] \in RootState
    BY DEF SnapGood, Snapshots
<1> QED
    BY DEF GoodChange, Kept, Change, RootGood, RootState

-----------------------------------------------------------------------------
(* A commit *)

\* Where a commit puts the scan it admits for r.
Slot(order, r) == CHOOSE k \in DOMAIN order : order[k] = r

\* In an order of creation every root has one slot.
LEMMA SlotUnique ==
    ASSUME NEW R, IsFiniteSet(R), NEW order \in Orders(R), NEW r \in R
    PROVE  /\ Slot(order, r) \in 1..Cardinality(R)
           /\ \A j \in 1..Cardinality(R) : order[j] = r <=> j = Slot(order, r)
<1>1. DOMAIN order = 1..Cardinality(R)
    BY DEF Orders
<1>2. PICK k \in DOMAIN order : \A j \in DOMAIN order : order[j] = r <=> j = k
    BY DEF Orders
<1>3. Slot(order, r) \in DOMAIN order /\ order[Slot(order, r)] = r
    BY <1>2 DEF Slot
<1> QED
    BY <1>1, <1>2, <1>3

\* An index of a list of n + c elements is one of the first n or n + k.
LEMMA SplitIndex ==
    ASSUME NEW n \in Nat, NEW c \in Nat
    PROVE  \A i \in 1..(n + c) : i \in 1..n \/ \E k \in 1..c : i = n + k
<1> SUFFICES ASSUME NEW i \in 1..(n + c), i \notin 1..n
             PROVE  i - n \in 1..c /\ i = n + (i - n)
    OBVIOUS
<1> QED
    OBVIOUS

\* Good changes make a good snapshot, in which every scan keeps its root.
LEMMA UpdatedGood ==
    ASSUME NEW snap, SnapGood(snap), NEW ch,
           \A r \in Roots : GoodChange(snap, r, ch[r]),
           NEW order \in Orders(Admitting(ch)),
           Len(snap.scans) + Cardinality(Admitting(ch)) <= MaxScans
    PROVE  LET new == Updated(snap, ch, order) IN
           /\ SnapGood(new)
           /\ \A i \in DOMAIN snap.scans :
                i \in DOMAIN new.scans /\ new.scans[i].root = snap.scans[i].root
<1> DEFINE n == Len(snap.scans)
           R == Admitting(ch)
           c == Cardinality(R)
           new == Updated(snap, ch, order)
           Old(i) == IF ch[snap.scans[i].root].id = i THEN ch[snap.scans[i].root].scan
                     ELSE snap.scans[i]
<1>1. R \subseteq Roots /\ IsFiniteSet(R) /\ c \in Nat
    <2>1. R \subseteq Roots
        BY DEF Admitting
    <2> QED
        BY <2>1, ScansAssumption, FS_Subset, FS_CardinalityType
<1>2. /\ n \in Nat /\ DOMAIN snap.scans = 1..n
      /\ \A i \in 1..n : snap.scans[i] \in ScanRecord
      /\ \A i \in 1..n : snap.scans[i].root \in Roots
      /\ \A r \in Roots : snap.roots[r] \in RootState /\ RootGood(snap, r)
    <2>1. snap.scans \in Seq(ScanRecord) /\ snap.roots \in [Roots -> RootState]
        BY DEF SnapGood, Snapshots
    <2>2. \A i \in DOMAIN snap.scans : snap.scans[i] \in ScanRecord
        BY <2>1
    <2> QED
        BY <2>1, <2>2 DEF SnapGood, ScanRecord
<1>3. \A k \in 1..c : order[k] \in R
    BY DEF Orders
<1>4. /\ \A r \in R : Slot(order, r) \in 1..c
      /\ \A r \in R : \A j \in 1..c : order[j] = r <=> j = Slot(order, r)
    BY <1>1, SlotUnique
<1>5. /\ DOMAIN new.scans = 1..(n + c)
      /\ \A i \in 1..n : new.scans[i] = Old(i)
      /\ \A k \in 1..c : new.scans[n + k] = newScanRecord(order[k], ch[order[k]].root)
    BY <1>1, <1>2 DEF Updated
<1>6. /\ new.roots = [r \in Roots |->
            IF ~ch[r].fresh THEN ch[r].root
            ELSE [ch[r].root EXCEPT !.active = n + Slot(order, r)]]
    BY DEF Updated, Slot
<1>7. \A r \in Roots : r \in R <=> ch[r].fresh
    BY DEF Admitting
<1>8. \A i \in 1..n : LET r == snap.scans[i].root IN
        ch[r].id = i => i = snap.roots[r].active /\ ch[r].scan \in ScanRecord /\ ch[r].scan.root = r
    BY <1>2 DEF GoodChange
<1>9. \A i \in 1..n : new.scans[i] \in ScanRecord /\ new.scans[i].root = snap.scans[i].root
    BY <1>2, <1>5, <1>8
<1>10. \A k \in 1..c :
        /\ newScanRecord(order[k], ch[order[k]].root) \in ScanRecord
        /\ newScanRecord(order[k], ch[order[k]].root).root = order[k]
        /\ newScanRecord(order[k], ch[order[k]].root).rev = ch[order[k]].root.rev
        /\ newScanRecord(order[k], ch[order[k]].root).state = "queued"
    <2> SUFFICES ASSUME NEW k \in 1..c
                 PROVE  /\ newScanRecord(order[k], ch[order[k]].root) \in ScanRecord
                        /\ newScanRecord(order[k], ch[order[k]].root).root = order[k]
                        /\ newScanRecord(order[k], ch[order[k]].root).rev = ch[order[k]].root.rev
                        /\ newScanRecord(order[k], ch[order[k]].root).state = "queued"
        OBVIOUS
    <2>1. order[k] \in Roots /\ ch[order[k]].fresh
        BY <1>1, <1>3, <1>7
    <2>2. ch[order[k]].root.rev \in Revisions
        BY <2>1, <1>2 DEF GoodChange, RootState
    <2> QED
        BY <2>1, <2>2 DEF newScanRecord, ScanRecord, ScanState, Sources, When
<1>11. new.scans \in Seq(ScanRecord) /\ Len(new.scans) = n + c
    <2>1. \A i \in 1..(n + c) : new.scans[i] \in ScanRecord
        <3> SUFFICES ASSUME NEW i \in 1..(n + c) PROVE new.scans[i] \in ScanRecord
            OBVIOUS
        <3>1. CASE i <= n
            BY <3>1, <1>2, <1>9
        <3>2. CASE i > n
            <4>1. i - n \in 1..c /\ i = n + (i - n)
                BY <3>2, <1>1, <1>2
            <4> QED
                BY <4>1, <1>5, <1>10
        <3> QED
            BY <3>1, <3>2, <1>1, <1>2
    <2>2. n + c \in Nat
        BY <1>1, <1>2
    <2>3. new.scans = [i \in 1..(n + c) |-> new.scans[i]]
        BY DEF Updated
    <2> HIDE DEF new, n, c
    <2> QED
        BY <2>1, <2>2, <2>3
<1>12. new.roots \in [Roots -> RootState]
    <2> SUFFICES ASSUME NEW r \in Roots PROVE new.roots[r] \in RootState
        BY <1>6
    <2>1. ch[r].root \in RootState
        BY DEF GoodChange
    <2>2. CASE ch[r].fresh
        <3>1. n + Slot(order, r) \in Nat
            BY <2>2, <1>2, <1>4, <1>7, <1>1
        <3> QED
            BY <2>1, <2>2, <3>1, <1>6 DEF RootState
    <2> QED
        BY <2>1, <2>2, <1>6
<1>13. new \in Snapshots
    BY <1>11, <1>12 DEF Snapshots, Updated
<1>14. ASSUME NEW r \in Roots PROVE RootGood(new, r)
    <2> DEFINE root == snap.roots[r]
               act == root.active
               next == new.roots[r]
               stays == act # 0 /\ (ch[r].id = 0 \/ ch[r].scan.state \notin Terminal)
    <2>1. GoodChange(snap, r, ch[r]) /\ RootGood(snap, r) /\ root \in RootState
        BY <1>2
    <2>2. /\ next.active = IF ch[r].fresh THEN n + Slot(order, r) ELSE ch[r].root.active
          /\ next.last = ch[r].root.last /\ next.complete = ch[r].root.complete
          /\ next.rev = ch[r].root.rev /\ next.retired = ch[r].root.retired
          /\ next.enabled = ch[r].root.enabled /\ next.next = ch[r].root.next
        <3>1. ch[r].root \in RootState
            BY <2>1 DEF GoodChange
        <3>2. CASE ch[r].fresh
            BY <3>1, <3>2, <1>6 DEF RootState
        <3>3. CASE ~ch[r].fresh
            BY <3>3, <1>6
        <3> QED
            BY <3>2, <3>3
    <2>3. \A i \in 1..n : snap.scans[i].root = r =>
            (snap.scans[i].state \notin Terminal <=> i = act)
        <3>1. \A i \in 1..n : i \in Open(snap, r) <=>
                snap.scans[i].root = r /\ snap.scans[i].state \notin Terminal
            BY <1>2 DEF Open
        <3>2. \A i \in 1..n : i \in Open(snap, r) <=> i = act
            BY <2>1, <1>2 DEF RootGood
        <3> QED
            BY <3>1, <3>2
    <2>4. ch[r].id # 0 => ch[r].id = act /\ act \in 1..n
        BY <2>1, <1>2 DEF GoodChange, RootGood
    <2>5. \A i \in 1..n : snap.scans[i].root = r =>
            (new.scans[i].state \notin Terminal <=> i = act /\ stays)
        BY <1>5, <2>3, <2>4
    <2>6. \A k \in 1..c : new.scans[n + k].root = r <=> ch[r].fresh /\ k = Slot(order, r)
        BY <1>3, <1>4, <1>5, <1>7, <1>10
    <2>7. \A j \in 1..n : snap.scans[j].root = r /\ snap.scans[j].state \in Terminal =>
            new.scans[j] = snap.scans[j]
        BY <1>5, <2>3, <2>4
    <2>8. \A i \in 1..(n + c) : i \in 1..n \/ \E k \in 1..c : i = n + k
        BY <1>1, <1>2, SplitIndex
    <2>9. /\ ch[r].fresh => ~stays
          /\ ~ch[r].fresh => ch[r].root.active = IF stays THEN act ELSE 0
        BY <2>1 DEF GoodChange
    <2>10. act # 0 => act \in 1..n /\ snap.scans[act].root = r /\ snap.scans[act].rev = root.rev
        BY <2>1, <1>2 DEF RootGood
    <2>11. Open(new, r) = IF next.active = 0 THEN {} ELSE {next.active}
        <3>1. CASE ch[r].fresh
            <4>1. Slot(order, r) \in 1..c
                BY <3>1, <1>4, <1>7
            <4>2. next.active = n + Slot(order, r) /\ next.active # 0
                BY <3>1, <2>2, <4>1, <1>1, <1>2
            <4>3. \A i \in 1..n : i \notin Open(new, r)
                BY <3>1, <2>5, <2>9, <1>9 DEF Open
            <4>4. \A k \in 1..c : n + k \in Open(new, r) <=> k = Slot(order, r)
                <5> SUFFICES ASSUME NEW k \in 1..c
                             PROVE  n + k \in Open(new, r) <=> k = Slot(order, r)
                    OBVIOUS
                <5>1. new.scans[n + k].state = "queued"
                    BY <1>5, <1>10
                <5>2. n + k \in DOMAIN new.scans
                    BY <1>1, <1>2, <1>5
                <5> QED
                    BY <3>1, <2>6, <5>1, <5>2 DEF Open, Terminal
            <4>5. Open(new, r) \subseteq 1..(n + c)
                BY <1>5 DEF Open
            <4> HIDE DEF new, n, c
            <4> QED
                BY <4>1, <4>2, <4>3, <4>4, <4>5, <2>8
        <3>2. CASE ~ch[r].fresh
            <4>1. next.active = IF stays THEN act ELSE 0
                BY <3>2, <2>2, <2>9
            <4>2. \A i \in 1..n : i \in Open(new, r) <=> i = act /\ stays
                <5>1. \A i \in 1..n : i \in DOMAIN new.scans
                    BY <1>1, <1>2, <1>5
                <5> QED
                    BY <5>1, <2>5, <1>9, <2>10 DEF Open
            <4>3. \A k \in 1..c : n + k \notin Open(new, r)
                BY <3>2, <2>6 DEF Open
            <4>4. Open(new, r) \subseteq 1..(n + c)
                BY <1>5 DEF Open
            <4> HIDE DEF new, n, c
            <4> QED
                BY <4>1, <4>2, <4>3, <4>4, <2>8, <2>10
        <3> QED
            BY <3>1, <3>2, <2>1 DEF GoodChange
    <2>12. next.active # 0 =>
            /\ next.active \in DOMAIN new.scans
            /\ new.scans[next.active].root = r /\ new.scans[next.active].rev = next.rev
        <3>1. CASE ch[r].fresh
            <4>1. Slot(order, r) \in 1..c /\ order[Slot(order, r)] = r
                BY <3>1, <1>4, <1>7
            <4>2. next.active = n + Slot(order, r)
                BY <3>1, <2>2
            <4>3. n + Slot(order, r) \in 1..(n + c)
                BY <4>1, <1>1, <1>2
            <4> QED
                BY <4>1, <4>2, <4>3, <1>5, <1>10, <2>2
        <3>2. CASE ~ch[r].fresh
            <4>1. ASSUME stays PROVE new.scans[act].rev = ch[r].root.rev
                <5>0. /\ act # 0 /\ act \in 1..n
                      /\ snap.scans[act].root = r /\ snap.scans[act].rev = root.rev
                    BY <4>1, <2>10
                <5>1. CASE ch[r].id = 0
                    <6>1. ch[r].root.rev = root.rev
                        BY <4>1, <5>0, <5>1, <2>1 DEF GoodChange
                    <6>2. new.scans[act] = snap.scans[act]
                        BY <5>0, <5>1, <1>5
                    <6> QED
                        BY <5>0, <6>1, <6>2
                <5>2. CASE ch[r].id # 0
                    <6>1. ch[r].scan.rev = ch[r].root.rev
                        BY <4>1, <5>0, <5>2, <2>1 DEF GoodChange
                    <6>2. new.scans[act] = ch[r].scan
                        BY <5>0, <5>2, <2>4, <1>5
                    <6> QED
                        BY <6>1, <6>2
                <5> QED
                    BY <5>1, <5>2
            <4>2. \A i \in 1..n : i \in DOMAIN new.scans
                BY <1>1, <1>2, <1>5
            <4> QED
                BY <3>2, <4>1, <4>2, <2>2, <2>9, <2>10, <1>9
        <3> QED
            BY <3>1, <3>2, <2>1 DEF GoodChange
    <2>13. \A i \in 1..n : i \in DOMAIN new.scans
        BY <1>1, <1>2, <1>5
    <2>14. next.last # 0 =>
            /\ next.last \in DOMAIN new.scans
            /\ new.scans[next.last].root = r /\ new.scans[next.last].rev = next.rev
            /\ new.scans[next.last].state \in Terminal
        <3> SUFFICES ASSUME ch[r].root.last # 0
                     PROVE  LET j == ch[r].root.last IN
                            /\ j \in 1..n
                            /\ new.scans[j].root = r /\ new.scans[j].rev = ch[r].root.rev
                            /\ new.scans[j].state \in Terminal
            BY <2>2, <2>13
        <3>1. CASE ch[r].root.last = ch[r].id
            BY <3>1, <2>1, <2>4, <2>10, <1>5, <1>9 DEF GoodChange
        <3>2. CASE ch[r].root.last # ch[r].id
            <4>1. ch[r].root.last = root.last /\ ch[r].root.rev = root.rev
                BY <3>2, <2>1 DEF GoodChange
            <4>2. /\ root.last \in 1..n /\ snap.scans[root.last].root = r
                  /\ snap.scans[root.last].rev = root.rev
                  /\ snap.scans[root.last].state \in Terminal
                BY <4>1, <2>1, <1>2 DEF RootGood
            <4> QED
                BY <4>1, <4>2, <2>7
        <3> QED
            BY <3>1, <3>2
    <2>15. next.complete # 0 =>
            /\ next.complete \in DOMAIN new.scans
            /\ new.scans[next.complete].root = r /\ new.scans[next.complete].rev = next.rev
            /\ CanAssertAbsence(new.scans[next.complete])
        <3> SUFFICES ASSUME ch[r].root.complete # 0
                     PROVE  LET j == ch[r].root.complete IN
                            /\ j \in 1..n
                            /\ new.scans[j].root = r /\ new.scans[j].rev = ch[r].root.rev
                            /\ CanAssertAbsence(new.scans[j])
            BY <2>2, <2>13
        <3>1. CASE ch[r].root.complete = ch[r].id
            BY <3>1, <2>1, <2>4, <2>10, <1>5, <1>9 DEF GoodChange
        <3>2. CASE ch[r].root.complete # ch[r].id
            <4>1. ch[r].root.complete = root.complete /\ ch[r].root.rev = root.rev
                BY <3>2, <2>1 DEF GoodChange
            <4>2. /\ root.complete \in 1..n /\ snap.scans[root.complete].root = r
                  /\ snap.scans[root.complete].rev = root.rev
                  /\ CanAssertAbsence(snap.scans[root.complete])
                BY <4>1, <2>1, <1>2 DEF RootGood
            <4>3. snap.scans[root.complete].state \in Terminal
                BY <4>2 DEF CanAssertAbsence, Terminal
            <4> QED
                BY <4>1, <4>2, <4>3, <2>7
        <3> QED
            BY <3>1, <3>2
    <2>16. /\ next.retired => ~next.enabled /\ next.next = "none"
           /\ next.enabled => next.rev # None
        BY <2>1, <2>2 DEF GoodChange
    <2> HIDE DEF new, next
    <2> QED
        BY <2>11, <2>12, <2>14, <2>15, <2>16 DEF RootGood, next
<1>15. \A i \in DOMAIN new.scans : new.roots[new.scans[i].root].rev # None
    <2>1. \A r \in Roots : ch[r].root \in RootState
        BY DEF GoodChange
    <2>2. \A r \in Roots : new.roots[r].rev = ch[r].root.rev
        <3> SUFFICES ASSUME NEW r \in Roots PROVE new.roots[r].rev = ch[r].root.rev
            OBVIOUS
        <3>1. CASE ch[r].fresh
            BY <3>1, <2>1, <1>6 DEF RootState
        <3>2. CASE ~ch[r].fresh
            BY <3>2, <1>6
        <3> QED
            BY <3>1, <3>2
    <2>3. ASSUME NEW i \in 1..n PROVE new.roots[new.scans[i].root].rev # None
        <3>1. snap.scans[i].root \in Roots /\ snap.roots[snap.scans[i].root].rev # None
            BY <1>2 DEF SnapGood
        <3>2. ch[snap.scans[i].root].root.rev # None
            BY <3>1 DEF GoodChange
        <3> QED
            BY <3>1, <3>2, <2>2, <1>9
    <2>4. ASSUME NEW k \in 1..c PROVE new.roots[new.scans[n + k].root].rev # None
        <3>1. order[k] \in Roots /\ ch[order[k]].fresh
            BY <1>1, <1>3, <1>7
        <3>2. ch[order[k]].root.rev # None
            BY <3>1 DEF GoodChange
        <3> QED
            BY <3>1, <3>2, <2>2, <1>5, <1>10
    <2>5. \A i \in 1..(n + c) : i \in 1..n \/ \E k \in 1..c : i = n + k
        BY <1>1, <1>2, SplitIndex
    <2> HIDE DEF new, n, c
    <2> QED
        BY <2>3, <2>4, <2>5, <1>5
<1>16. \A i \in DOMAIN new.scans : CancelKept(new.scans[i])
    <2>1. ASSUME NEW i \in 1..n PROVE CancelKept(new.scans[i])
        <3>1. CancelKept(snap.scans[i])
            BY <1>2 DEF SnapGood
        <3>2. CASE ch[snap.scans[i].root].id = i
            <4>1. i # 0 /\ snap.scans[i].root \in Roots
                BY <1>2
            <4>2. CancelKept(ch[snap.scans[i].root].scan)
                BY <3>2, <4>1 DEF GoodChange
            <4> QED
                BY <3>2, <4>2, <1>5
        <3>3. CASE ch[snap.scans[i].root].id # i
            BY <3>1, <3>3, <1>5
        <3> QED
            BY <3>2, <3>3
    <2>2. ASSUME NEW k \in 1..c PROVE CancelKept(new.scans[n + k])
        <3>1. new.scans[n + k] = newScanRecord(order[k], ch[order[k]].root)
            BY <1>5
        <3>2. ~newScanRecord(order[k], ch[order[k]].root).cancel
            BY DEF newScanRecord
        <3> HIDE DEF new
        <3> QED
            BY <3>1, <3>2 DEF CancelKept
    <2>3. \A i \in 1..(n + c) : i \in 1..n \/ \E k \in 1..c : i = n + k
        BY <1>1, <1>2, SplitIndex
    <2> HIDE DEF new, n, c
    <2> QED
        BY <2>1, <2>2, <2>3, <1>5
<1> QED
    BY <1>2, <1>5, <1>9, <1>11, <1>13, <1>14, <1>15, <1>16, <1>1 DEF SnapGood

-----------------------------------------------------------------------------
(* The changes of the operations *)

\* Two roots that differ only in what no reference depends on.
SameRefs(a, b) ==
    a.rev = b.rev /\ a.active = b.active /\ a.last = b.last /\ a.complete = b.complete

\* The open scan is rewritten and stays open.
LEMMA RewriteGood ==
    ASSUME NEW snap, SnapGood(snap), NEW r \in Roots, snap.roots[r].active # 0,
           NEW root \in RootState, SameRefs(root, snap.roots[r]),
           root.retired => ~root.enabled /\ root.next = "none",
           NEW s \in ScanRecord, s.root = r, s.rev = root.rev, s.state \notin Terminal
    PROVE  GoodChange(snap, r, Change(root, snap.roots[r].active, s, FALSE))
<1> DEFINE i == snap.roots[r].active
           c == Change(root, i, s, FALSE)
<1>1. c.root = root /\ c.id = i /\ c.scan = s /\ c.fresh = FALSE
    BY DEF Change
<1>2. i \in Nat /\ i \in DOMAIN snap.scans /\ snap.scans[i].state \notin Terminal
    BY ActiveRecord
<1>3. RootGood(snap, r)
    BY DEF SnapGood
<1>4. /\ snap.roots[r].last # i /\ snap.roots[r].complete # i
    BY <1>2, <1>3 DEF RootGood, CanAssertAbsence, Terminal
<1>5. \A j \in DOMAIN snap.scans : snap.roots[snap.scans[j].root].rev # None
    BY DEF SnapGood
<1>6. root.rev # None
    BY <1>2, <1>5, ActiveRecord DEF SameRefs
<1>7. CancelKept(s)
    BY DEF CancelKept
<1> SUFFICES GoodChange(snap, r, c)
    OBVIOUS
<1> HIDE DEF c
<1> QED
    BY <1>1, <1>4, <1>6, <1>7 DEF GoodChange, SameRefs

\* The root changes, its scans do not.
LEMMA KeepGood ==
    ASSUME NEW snap, SnapGood(snap), NEW r \in Roots,
           NEW root \in RootState, SameRefs(root, snap.roots[r]),
           root.retired => ~root.enabled /\ root.next = "none",
           root.enabled => root.rev # None
    PROVE  GoodChange(snap, r, Kept(root))
<1>1. /\ Kept(root).root = root /\ Kept(root).id = 0 /\ Kept(root).fresh = FALSE
    BY DEF Kept, Change
<1> QED
    BY <1>1 DEF GoodChange, SameRefs

\* The revision of a root without an open scan changes, its evidence is dropped.
LEMMA ForgetGood ==
    ASSUME NEW snap, SnapGood(snap), NEW r \in Roots, snap.roots[r].active = 0,
           NEW root \in RootState, root.rev # None,
           root.active = 0, root.last = 0, root.complete = 0,
           root.retired => ~root.enabled /\ root.next = "none"
    PROVE  GoodChange(snap, r, Kept(root))
<1>1. /\ Kept(root).root = root /\ Kept(root).id = 0 /\ Kept(root).fresh = FALSE
    BY DEF Kept, Change
<1> QED
    BY <1>1 DEF GoodChange

\* A scan is admitted for a root without an open one.
LEMMA AdmitGood ==
    ASSUME NEW snap, SnapGood(snap), NEW r \in Roots, snap.roots[r].active = 0,
           NEW root \in RootState, SameRefs(root, snap.roots[r]), root.rev # None,
           root.retired => ~root.enabled /\ root.next = "none"
    PROVE  GoodChange(snap, r, Change(root, 0, None, TRUE))
<1> DEFINE c == Change(root, 0, None, TRUE)
<1>1. c.root = root /\ c.id = 0 /\ c.fresh = TRUE
    BY DEF Change
<1> SUFFICES GoodChange(snap, r, c)
    OBVIOUS
<1> HIDE DEF c
<1> QED
    BY <1>1 DEF GoodChange, SameRefs

\* The open scan ends under the revision of its root; a follow-up may be
\* admitted.
LEMMA EndGood ==
    ASSUME NEW snap, SnapGood(snap), NEW r \in Roots, snap.roots[r].active # 0,
           NEW s \in ScanRecord, s.root = r, s.rev = snap.roots[r].rev, s.state \in Terminal,
           CancelKept(s),
           NEW fresh \in BOOLEAN
    PROVE  LET i == snap.roots[r].active IN
           GoodChange(snap, r,
               Change(clearFollowUp(updateRootAfterTerminal(snap.roots[r], s, i)), i, s, fresh))
<1> DEFINE old == snap.roots[r]
           i == old.active
           root == clearFollowUp(updateRootAfterTerminal(old, s, i))
           c == Change(root, i, s, fresh)
<1>1. c.root = root /\ c.id = i /\ c.scan = s /\ c.fresh = fresh
    BY DEF Change
<1>2. old \in RootState /\ RootGood(snap, r)
    BY DEF SnapGood, Snapshots
<1>3. i \in Nat /\ i \in DOMAIN snap.scans
    BY ActiveRecord
<1>4. /\ root \in RootState
      /\ root.rev = old.rev /\ root.active = 0 /\ root.last = i
      /\ root.complete = IF CanAssertAbsence(s) THEN i ELSE old.complete
      /\ root.retired = old.retired /\ root.enabled = old.enabled /\ root.next = old.next
    <2>1. s.rev = old.rev
        OBVIOUS
    <2> HIDE DEF old
    <2> QED
        BY <1>2, <1>3, <2>1 DEF clearFollowUp, updateRootAfterTerminal, RootState
<1>5. old.rev # None
    <2>1. \A j \in DOMAIN snap.scans : snap.roots[snap.scans[j].root].rev # None
        BY DEF SnapGood
    <2> QED
        BY <2>1, <1>3, ActiveRecord
<1>6. old.complete # i
    BY <1>2, ActiveRecord DEF RootGood, CanAssertAbsence, Terminal
<1>7. old.retired => ~old.enabled /\ old.next = "none"
    BY <1>2 DEF RootGood
<1> SUFFICES GoodChange(snap, r, c)
    OBVIOUS
<1> HIDE DEF c, root
<1> QED
    BY <1>1, <1>3, <1>4, <1>5, <1>6, <1>7 DEF GoodChange

\* finalizeCancelled and finalizeDeadline end a record and touch nothing else.
LEMMA FinalizedRecord ==
    ASSUME NEW s \in ScanRecord, NEW final \in Terminal
    PROVE  /\ Finalized(s, final) \in ScanRecord
           /\ Finalized(s, final).root = s.root /\ Finalized(s, final).rev = s.rev
           /\ Finalized(s, final).state = final /\ Finalized(s, final).cancel = s.cancel
BY DEF Finalized, ScanRecord, Terminal, ScanState, When

\* The open scan is cancelled.
LEMMA CancelledGood ==
    ASSUME NEW snap, SnapGood(snap), NEW r \in Roots, snap.roots[r].active # 0,
           NEW s \in ScanRecord, s.root = r, s.rev = snap.roots[r].rev
    PROVE  GoodChange(snap, r, Cancelled(snap.roots[r], s, snap.roots[r].active))
<1>1. "cancelled" \in Terminal
    BY DEF Terminal
<1> QED
    BY <1>1, FinalizedRecord, EndGood DEF Cancelled, CancelKept

\* When a root is next due is free, unless it is retired.
LEMMA NextGood ==
    ASSUME NEW snap, NEW r, NEW a, NEW i, NEW s, NEW f,
           GoodChange(snap, r, Change(a, i, s, f)),
           NEW w \in When, a.retired => w = "none"
    PROVE  GoodChange(snap, r, [Change(a, i, s, f) EXCEPT !.root.next = w])
<1> DEFINE c == Change(a, i, s, f)
           d == [c EXCEPT !.root.next = w]
<1>1. c.root = a /\ c.id = i /\ c.scan = s /\ c.fresh = f
    BY DEF Change
<1>2. a \in RootState
    BY <1>1 DEF GoodChange
<1>3. d = Change([a EXCEPT !.next = w], i, s, f)
    BY DEF Change
<1>4. d.root = [a EXCEPT !.next = w] /\ d.id = i /\ d.scan = s /\ d.fresh = f
    BY <1>3 DEF Change
<1>5. /\ d.root \in RootState /\ SameRefs(d.root, a) /\ d.root.next = w
      /\ d.root.retired = a.retired /\ d.root.enabled = a.enabled
    BY <1>2, <1>4 DEF RootState, SameRefs
<1>6. GoodChange(snap, r, c)
    OBVIOUS
<1> SUFFICES GoodChange(snap, r, d)
    OBVIOUS
<1> HIDE DEF c, d
<1> QED
    BY <1>1, <1>4, <1>5, <1>6 DEF GoodChange, SameRefs

\* A root without a revision has no open scan.
LEMMA OpenIsConfigured ==
    ASSUME NEW snap, SnapGood(snap), NEW r \in Roots, snap.roots[r].active # 0
    PROVE  snap.roots[r].rev # None
<1>1. \A j \in DOMAIN snap.scans : snap.roots[snap.scans[j].root].rev # None
    BY DEF SnapGood
<1> QED
    BY <1>1, ActiveRecord

\* What every root of a good snapshot is.
LEMMA RootFacts ==
    ASSUME NEW snap, SnapGood(snap), NEW r \in Roots
    PROVE  /\ snap.roots[r] \in RootState
           /\ snap.roots[r].retired => ~snap.roots[r].enabled /\ snap.roots[r].next = "none"
           /\ snap.roots[r].enabled => snap.roots[r].rev # None
BY DEF SnapGood, Snapshots, RootGood

\* ConfigureRoots of a root seen for the first time.
LEMMA ConfiguredGood ==
    ASSUME SnapGood(state), NEW r \in Roots, state.roots[r].rev = None,
           NEW rev \in Revisions, NEW enabled \in BOOLEAN
    PROVE  GoodChange(state, r, Configured(rev, enabled))
<1> DEFINE root == [Unconfigured EXCEPT !.rev = rev, !.enabled = enabled,
                                        !.next = IF enabled THEN "due" ELSE "none"]
<1>1. state.roots[r].active = 0
    BY OpenIsConfigured
<1>2. /\ root \in RootState /\ root.rev # None /\ ~root.retired
      /\ root.active = 0 /\ root.last = 0 /\ root.complete = 0
    BY ScansAssumption DEF Unconfigured, RootState, When
<1>3. Configured(rev, enabled) = Kept(root)
    BY DEF Configured
<1> HIDE DEF root
<1> QED
    BY <1>1, <1>2, <1>3, ForgetGood

\* ConfigureRoots of a known root: the open scan of another revision ends.
LEMMA ReconfiguredGood ==
    ASSUME SnapGood(state), NEW r \in Roots, state.roots[r].rev # None,
           NEW rev \in Revisions, NEW enabled \in BOOLEAN
    PROVE  GoodChange(state, r, Reconfigured(r, rev, enabled))
<1> DEFINE root == state.roots[r]
           i == root.active
           base == [root EXCEPT !.rev = rev, !.enabled = enabled, !.retired = FALSE]
           ended == Finalized(state.scans[i], "cancelled")
           inv == invalidateRootEvidence(base)
           left == [clearFollowUp(updateRootAfterTerminal(inv, ended, i)) EXCEPT !.next = "later"]
           ch == CASE rev = root.rev -> Kept(base)
                   [] rev # root.rev /\ (i = 0 \/ state.scans[i].rev = rev) -> Kept(inv)
                   [] OTHER -> Change(left, i, ended, TRUE)
           next == CASE ~enabled -> "none"
                     [] /\ enabled
                        /\ ch.root.active = 0 /\ ~ch.fresh
                        /\ ~(root.enabled /\ ~root.retired) \/ ch.root.next = "none" -> "due"
                     [] OTHER -> ch.root.next
<1>1. Reconfigured(r, rev, enabled) = [ch EXCEPT !.root.next = next]
    BY ActiveIsOpen DEF Reconfigured
<1>2. root \in RootState /\ rev # None
    BY RootFacts, ScansAssumption
<1>3. /\ base \in RootState /\ base.rev = rev /\ base.retired = FALSE
      /\ base.active = i /\ base.last = root.last /\ base.complete = root.complete
    BY <1>2 DEF RootState
<1>4. /\ inv \in RootState /\ inv.rev = rev /\ inv.retired = FALSE
      /\ inv.active = i /\ inv.last = 0 /\ inv.complete = 0
    <2> HIDE DEF base, i
    <2> QED
        BY <1>3 DEF invalidateRootEvidence, RootState
<1>5. \E a \in RootState : \E j, s, f :
        /\ ch = Change(a, j, s, f) /\ a.retired = FALSE
        /\ GoodChange(state, r, ch)
    <2>1. CASE rev = root.rev
        <3>1. SameRefs(base, root) /\ ch = Kept(base)
            BY <2>1, <1>3 DEF SameRefs
        <3>2. GoodChange(state, r, Kept(base))
            BY <3>1, <1>2, <1>3, KeepGood
        <3> QED
            BY <3>1, <3>2, <1>3 DEF Kept
    <2>2. CASE rev # root.rev /\ i = 0
        <3>1. ch = Kept(inv)
            BY <2>2
        <3>2. GoodChange(state, r, Kept(inv))
            BY <2>2, <1>2, <1>4, ForgetGood
        <3> QED
            BY <3>1, <3>2, <1>4 DEF Kept
    <2>3. CASE rev # root.rev /\ i # 0
        <3>1. /\ i \in Nat /\ state.scans[i] \in ScanRecord /\ state.scans[i].root = r
              /\ state.scans[i].rev = root.rev
            BY <2>3, ActiveRecord
        <3>2. /\ ended \in ScanRecord /\ ended.root = r /\ ended.rev # rev
              /\ ended.state \in Terminal /\ CancelKept(ended)
            BY <2>3, <3>1, FinalizedRecord DEF Terminal, CancelKept
        <3>3. ch = Change(left, i, ended, TRUE)
            BY <2>3, <3>1
        <3>4. /\ left \in RootState /\ left.rev = rev /\ left.retired = FALSE
              /\ left.last = 0 /\ left.complete = 0
            <4> HIDE DEF inv, ended, i
            <4> QED
                BY <1>4, <3>1, <3>2 DEF clearFollowUp, updateRootAfterTerminal, RootState, When
        <3> HIDE DEF left, ended, i, ch
        <3>5. /\ ch.root = left /\ ch.id = i /\ ch.scan = ended /\ ch.fresh = TRUE
            BY <3>3 DEF Change
        <3>6. GoodChange(state, r, ch)
            BY <2>3, <1>2, <3>2, <3>4, <3>5 DEF GoodChange, i
        <3> QED
            BY <3>3, <3>4, <3>6
    <2> QED
        BY <2>1, <2>2, <2>3
<1> HIDE DEF ch
<1>6. PICK a \in RootState : \E j, s, f :
        /\ ch = Change(a, j, s, f) /\ a.retired = FALSE /\ GoodChange(state, r, ch)
    BY <1>5
<1>7. PICK j, s, f :
        /\ ch = Change(a, j, s, f) /\ a.retired = FALSE /\ GoodChange(state, r, ch)
    BY <1>6
<1>8. ch.root = a
    BY <1>7 DEF Change
<1>9. next \in When
    BY <1>8 DEF When, RootState
<1> HIDE DEF next
<1> QED
    BY <1>1, <1>7, <1>9, NextGood

\* ConfigureRoots without a root.
LEMMA RetiredGood ==
    ASSUME SnapGood(state), NEW r \in Roots
    PROVE  GoodChange(state, r, Kept([state.roots[r] EXCEPT
                !.retired = TRUE, !.enabled = FALSE, !.next = "none"]))
<1> DEFINE root == [state.roots[r] EXCEPT !.retired = TRUE, !.enabled = FALSE, !.next = "none"]
<1>1. /\ root \in RootState /\ SameRefs(root, state.roots[r])
      /\ ~root.enabled /\ root.next = "none"
    BY RootFacts DEF RootState, When, SameRefs
<1> HIDE DEF root
<1> SUFFICES GoodChange(state, r, Kept(root))
    BY DEF root
<1> QED
    BY <1>1, KeepGood

\* Trigger: a new scan, an earlier attempt of a waiting one, or a follow-up.
LEMMA TriggerGood ==
    ASSUME SnapGood(state), NEW r \in Roots, state.roots[r].rev # None
    PROVE  LET root == state.roots[r]
               i == activeScan(state, r)
           IN  GoodChange(state, r,
                    IF i = 0 THEN Change(root, 0, None, TRUE)
                    ELSE IF state.scans[i].state = "waiting"
                    THEN Change(root, i, [state.scans[i] EXCEPT !.at = "due"], FALSE)
                    ELSE Kept(retainFollowUp(root)))
<1> DEFINE root == state.roots[r]
           i == root.active
           s == [state.scans[i] EXCEPT !.at = "due"]
<1>1. activeScan(state, r) = i
    BY ActiveIsOpen
<1>2. /\ root \in RootState /\ (root.retired => ~root.enabled /\ root.next = "none")
      /\ root.enabled => root.rev # None
    BY RootFacts
<1>3. CASE i = 0
    BY <1>1, <1>2, <1>3, AdmitGood DEF SameRefs
<1>4. CASE i # 0 /\ state.scans[i].state = "waiting"
    <2>1. /\ s \in ScanRecord /\ s.root = r /\ s.rev = root.rev /\ s.state \notin Terminal
        <3>1. /\ state.scans[i] \in ScanRecord /\ state.scans[i].root = r
              /\ state.scans[i].rev = root.rev /\ state.scans[i].state \notin Terminal
            BY <1>4, ActiveRecord
        <3> QED
            BY <3>1 DEF ScanRecord, When
    <2> HIDE DEF s
    <2>2. GoodChange(state, r, Change(root, i, s, FALSE))
        BY <1>2, <1>4, <2>1, RewriteGood DEF SameRefs
    <2> QED
        BY <1>1, <1>4, <2>2 DEF s
<1>5. CASE i # 0 /\ state.scans[i].state # "waiting"
    <2> DEFINE kept == retainFollowUp(root)
    <2>1. /\ kept \in RootState /\ SameRefs(kept, root)
          /\ kept.retired => ~kept.enabled /\ kept.next = "none"
          /\ kept.enabled => kept.rev # None
        BY <1>2 DEF retainFollowUp, RootState, SameRefs
    <2>2. GoodChange(state, r, Kept(kept))
        BY <2>1, KeepGood
    <2> QED
        BY <1>1, <1>5, <2>2
<1> QED
    BY <1>3, <1>4, <1>5

\* An open scan is the ActiveScanID of its root.
LEMMA OpenIsActive ==
    ASSUME NEW snap, SnapGood(snap), NEW i \in DOMAIN snap.scans,
           snap.scans[i].state \notin Terminal
    PROVE  /\ snap.scans[i] \in ScanRecord
           /\ snap.scans[i].root \in Roots
           /\ snap.roots[snap.scans[i].root].active = i /\ i # 0
           /\ snap.scans[i].rev = snap.roots[snap.scans[i].root].rev
<1>1. snap.scans \in Seq(ScanRecord) /\ snap.roots \in [Roots -> RootState]
    BY DEF SnapGood, Snapshots
<1>2. snap.scans[i] \in ScanRecord /\ i # 0
    BY <1>1
<1>3. snap.scans[i].root \in Roots
    BY <1>2 DEF ScanRecord
<1>4. RootGood(snap, snap.scans[i].root)
    BY <1>3 DEF SnapGood
<1>5. i \in Open(snap, snap.scans[i].root)
    BY DEF Open
<1>6. snap.roots[snap.scans[i].root].active = i
    BY <1>4, <1>5 DEF RootGood
<1> QED
    BY <1>2, <1>3, <1>4, <1>6 DEF RootGood

\* Cancel.
LEMMA CancelGood ==
    ASSUME SnapGood(state), NEW i \in DOMAIN state.scans, state.scans[i].state \notin Terminal
    PROVE  LET scan == [state.scans[i] EXCEPT !.cancel = TRUE]
               root == state.roots[scan.root]
           IN  /\ scan.root \in Roots
               /\ GoodChange(state, scan.root,
                    IF scan.state = "running" THEN Change(root, i, scan, FALSE)
                    ELSE Cancelled(root, scan, i))
<1> DEFINE s == [state.scans[i] EXCEPT !.cancel = TRUE]
           r == state.scans[i].root
           root == state.roots[r]
<1>1. /\ state.scans[i] \in ScanRecord /\ r \in Roots /\ root.active = i /\ i # 0
      /\ state.scans[i].rev = root.rev
    BY OpenIsActive
<1>2. /\ s \in ScanRecord /\ s.root = r /\ s.rev = root.rev /\ s.state = state.scans[i].state
    BY <1>1 DEF ScanRecord
<1>3. root \in RootState /\ (root.retired => ~root.enabled /\ root.next = "none")
    BY <1>1, RootFacts
<1> HIDE DEF s, r
<1>4. GoodChange(state, r, Change(root, i, s, FALSE))
    BY <1>1, <1>2, <1>3, RewriteGood DEF SameRefs
<1>5. GoodChange(state, r, Cancelled(root, s, i))
    BY <1>1, <1>2, CancelledGood
<1> QED
    BY <1>1, <1>2, <1>4, <1>5 DEF s

\* Tick, for one root.
LEMMA TickGood ==
    ASSUME SnapGood(state), NEW r \in Roots
    PROVE  GoodChange(state, r, TickRoot(r))
<1> DEFINE root == state.roots[r]
           i == root.active
<1>1. activeScan(state, r) = i
    BY ActiveIsOpen
<1>2. /\ root \in RootState /\ (root.retired => ~root.enabled /\ root.next = "none")
      /\ root.enabled => root.rev # None
    BY RootFacts
<1>3. CASE i # 0
    <2> DEFINE scan == state.scans[i]
               claimed == [root EXCEPT !.active = i]
               again == root.enabled /\ ~root.retired /\ due(root.next)
               new == IF again THEN [retainFollowUp(claimed) EXCEPT !.next = "later"]
                      ELSE claimed
               s == IF scan.state = "waiting" /\ due(scan.at)
                    THEN [scan EXCEPT !.state = "queued", !.at = "none"] ELSE scan
    <2>1. /\ scan \in ScanRecord /\ scan.root = r /\ scan.rev = root.rev
          /\ scan.state \notin Terminal
        BY <1>3, ActiveRecord
    <2>2. TickRoot(r) = Change(new, i, s, FALSE)
        BY <1>1, <1>3, <2>1 DEF TickRoot, TickActive
    <2>3. s \in ScanRecord /\ s.root = r /\ s.rev = root.rev /\ s.state \notin Terminal
        BY <2>1 DEF ScanRecord, ScanState, Terminal, When
    <2>4. /\ new \in RootState /\ SameRefs(new, root)
          /\ new.retired => ~new.enabled /\ new.next = "none"
        BY <1>2 DEF retainFollowUp, RootState, SameRefs, When
    <2> HIDE DEF s, new
    <2> QED
        BY <1>3, <2>2, <2>3, <2>4, RewriteGood DEF SameRefs
<1>4. CASE i = 0
    <2> DEFINE idle == [root EXCEPT !.active = 0]
               later == [root EXCEPT !.active = 0, !.next = "later"]
    <2>1. /\ idle \in RootState /\ SameRefs(idle, root) /\ idle.retired = root.retired
          /\ idle.enabled = root.enabled /\ idle.next = root.next
          /\ later \in RootState /\ SameRefs(later, root) /\ later.retired = root.retired
        BY <1>2, <1>4 DEF RootState, SameRefs, When
    <2>2. GoodChange(state, r, Kept(root)) /\ GoodChange(state, r, Kept(idle))
        BY <1>2, <2>1, KeptGood, KeepGood DEF SameRefs
    <2>3. ASSUME ~root.retired, root.rev # None
          PROVE  GoodChange(state, r, Change(later, 0, None, TRUE))
        BY <1>4, <2>1, <2>3, AdmitGood DEF SameRefs
    <2>4. root.enabled => root.rev # None
        BY <1>2
    <2> QED
        BY <1>1, <1>4, <2>2, <2>3, <2>4 DEF TickRoot
<1> QED
    BY <1>3, <1>4

\* startOne: the scan runs, or ends if its root was retired.
LEMMA DispatchGood ==
    ASSUME SnapGood(state), NEW i \in DOMAIN state.scans, state.scans[i].state = "queued"
    PROVE  LET scan == state.scans[i]
               root == state.roots[scan.root]
               run == scan.rev = root.rev /\ ~root.retired /\ ~scan.cancel
           IN  /\ scan.root \in Roots
               /\ GoodChange(state, scan.root,
                    CASE run -> Change(root, i, [scan EXCEPT !.state = "running", !.at = "none"], FALSE)
                      [] ~run /\ scan.rev # root.rev /\ ~root.retired -> Stale(root, scan, i)
                      [] OTHER -> Cancelled(root, scan, i))
<1> DEFINE scan == state.scans[i]
           r == scan.root
           root == state.roots[r]
           s == [scan EXCEPT !.state = "running", !.at = "none"]
<1>1. /\ scan \in ScanRecord /\ r \in Roots /\ root.active = i /\ i # 0 /\ scan.rev = root.rev
    BY OpenIsActive DEF Terminal
<1>2. /\ s \in ScanRecord /\ s.root = r /\ s.rev = root.rev /\ s.state \notin Terminal
    BY <1>1 DEF ScanRecord, ScanState, Terminal, When
<1>3. root \in RootState /\ (root.retired => ~root.enabled /\ root.next = "none")
    BY <1>1, RootFacts
<1> HIDE DEF s, scan
<1>4. GoodChange(state, r, Change(root, i, s, FALSE))
    BY <1>1, <1>2, <1>3, RewriteGood DEF SameRefs
<1>5. GoodChange(state, r, Cancelled(root, scan, i))
    BY <1>1, CancelledGood
<1> QED
    BY <1>1, <1>4, <1>5 DEF s, scan

\* What a runner reports changes the evidence of its record only.
LEMMA EvidenceRecord ==
    ASSUME NEW s \in ScanRecord, NEW report \in Reports
    PROVE  LET e == normalizeEvidence(s, report) IN
           /\ e \in ScanRecord
           /\ e.root = s.root /\ e.rev = s.rev /\ e.state = s.state
<1> DEFINE src == IF report.src = "same" THEN s.src ELSE report.src
           complete == IF report.complete = "same" THEN s.complete ELSE report.complete = "yes"
           done == complete /\ ~report.cursor /\ src # "partial"
<1>1. report \in Report
    BY ScansAssumption
<1>2. report.cursor \in BOOLEAN /\ src \in Sources /\ done \in BOOLEAN
    BY <1>1 DEF Report, ScanRecord
<1>3. normalizeEvidence(s, report) = [s EXCEPT !.cursor = report.cursor, !.src = src, !.complete = done]
    BY DEF normalizeEvidence
<1> HIDE DEF src, done
<1> QED
    BY <1>2, <1>3 DEF ScanRecord

\* The open scan reports progress.
LEMMA ProgressGood ==
    ASSUME SnapGood(state), NEW i \in DOMAIN state.scans, state.scans[i].state = "running",
           NEW report \in Reports
    PROVE  LET scan == state.scans[i] IN
           /\ scan.root \in Roots
           /\ GoodChange(state, scan.root,
                Change(state.roots[scan.root], i, normalizeEvidence(scan, report), FALSE))
<1> DEFINE scan == state.scans[i]
           r == scan.root
           root == state.roots[r]
           e == normalizeEvidence(scan, report)
<1>1. /\ scan \in ScanRecord /\ r \in Roots /\ root.active = i /\ i # 0 /\ scan.rev = root.rev
    BY OpenIsActive DEF Terminal
<1>2. e \in ScanRecord /\ e.root = r /\ e.rev = root.rev /\ e.state \notin Terminal
    BY <1>1, EvidenceRecord DEF Terminal
<1>3. root \in RootState /\ (root.retired => ~root.enabled /\ root.next = "none")
    BY <1>1, RootFacts
<1> HIDE DEF e, scan
<1>4. GoodChange(state, r, Change(root, i, e, FALSE))
    BY <1>1, <1>2, <1>3, RewriteGood DEF SameRefs
<1> QED
    BY <1>1, <1>4 DEF e, scan

\* Every outcome of a run is a record of the same scan.
LEMMA OutcomeRecord ==
    ASSUME NEW s \in ScanRecord, s.state = "running",
           NEW context, NEW result, NEW o \in Outcomes(s, context, result)
    PROVE  o \in ScanRecord /\ o.root = s.root /\ o.rev = s.rev /\ CancelKept(o)
<1>1. \A final \in {"cancelled", "deadline_exceeded"} :
        LET f == Finalized(s, final) IN f \in ScanRecord /\ f.root = s.root /\ f.rev = s.rev
    BY FinalizedRecord DEF Terminal
<1>2. \A st \in {"failed", "succeeded"} :
        LET f == [s EXCEPT !.state = st] IN f \in ScanRecord /\ f.root = s.root /\ f.rev = s.rev
    BY DEF ScanRecord, ScanState
<1>3. \A w \in {"later", "due"} :
        LET f == [s EXCEPT !.state = "waiting", !.at = w]
        IN  f \in ScanRecord /\ f.root = s.root /\ f.rev = s.rev
    BY DEF ScanRecord, ScanState, When
<1>4. \/ o = Finalized(s, "cancelled") \/ o = Finalized(s, "deadline_exceeded")
      \/ o = [s EXCEPT !.state = "failed"] \/ o = [s EXCEPT !.state = "succeeded"]
      \/ \E w \in {"later", "due"} : o = [s EXCEPT !.state = "waiting", !.at = w]
    BY DEF Outcomes
<1>5. s.cancel => o = Finalized(s, "cancelled")
    BY DEF Outcomes
<1>6. o.cancel = s.cancel /\ CancelKept(o)
    BY <1>4, <1>5 DEF Finalized, ScanRecord, CancelKept
<1> QED
    BY <1>1, <1>2, <1>3, <1>4, <1>6

\* finish.
LEMMA FinishGood ==
    ASSUME SnapGood(state), NEW i \in DOMAIN state.scans, state.scans[i].state = "running",
           NEW s \in ScanRecord, s.root = state.scans[i].root, s.rev = state.scans[i].rev,
           CancelKept(s)
    PROVE  LET scan == state.scans[i]
               root == state.roots[scan.root]
           IN  /\ scan.root \in Roots
               /\ GoodChange(state, scan.root,
                    IF scan.rev # root.rev THEN Stale(root, scan, i) ELSE Finished(root, s, i))
<1> DEFINE scan == state.scans[i]
           r == scan.root
           root == state.roots[r]
           left == updateRootAfterTerminal(root, s, i)
<1>1. /\ scan \in ScanRecord /\ r \in Roots /\ root.active = i /\ i # 0 /\ scan.rev = root.rev
    BY OpenIsActive DEF Terminal
<1>2. root \in RootState /\ (root.retired => ~root.enabled /\ root.next = "none")
    BY <1>1, RootFacts
<1>3. s.root = r /\ s.rev = root.rev
    BY <1>1
<1>4. GoodChange(state, r, Finished(root, s, i))
    <2> HIDE DEF scan, r
    <2>1. CASE s.state \notin Terminal
        <3>1. Finished(root, s, i) = Change(root, i, s, FALSE)
            BY <2>1 DEF Finished
        <3> QED
            BY <1>1, <1>2, <1>3, <2>1, <3>1, RewriteGood DEF SameRefs
    <2>2. CASE s.state \in Terminal
        <3>1. Finished(root, s, i) = Change(clearFollowUp(left), i, s, FollowUp(left, s))
            BY <2>2 DEF Finished
        <3>2. \A f \in BOOLEAN : GoodChange(state, r, Change(clearFollowUp(left), i, s, f))
            BY <1>1, <1>3, <2>2, EndGood
        <3>3. FollowUp(left, s) \in BOOLEAN
            <4>1. left \in RootState
                <5> HIDE DEF root
                <5> QED
                    BY <1>1, <1>2, <1>3 DEF updateRootAfterTerminal, RootState
            <4> QED
                BY <4>1 DEF FollowUp, RootState
        <3> QED
            BY <3>1, <3>2, <3>3
    <2> QED
        BY <2>1, <2>2
<1> QED
    BY <1>1, <1>4

\* recoverSnapshot, for one root: there is no stale evidence to drop, and an
\* abandoned run is queued again or cancelled.
LEMMA RecoverGood ==
    ASSUME NEW snap, SnapGood(snap), NEW r \in Roots
    PROVE  GoodChange(snap, r, RecoverRoot(snap, r))
<1> DEFINE root == snap.roots[r]
           i == root.active
           scan == snap.scans[i]
           again == [scan EXCEPT !.state = "queued"]
           ch == IF i = 0 THEN Kept(root) ELSE RecoveredScan(root, scan, i)
           next == IF ch.root.enabled /\ ~ch.root.retired /\ ch.root.next = "none"
                   THEN "due" ELSE ch.root.next
<1>1. activeScan(snap, r) = i
    BY ActiveIsOpen
<1>2. /\ root \in RootState /\ (root.retired => ~root.enabled /\ root.next = "none")
      /\ root.enabled => root.rev # None
    BY RootFacts
<1>3. RecoveredEvidence(snap, root) = root
    <2>1. RootGood(snap, r)
        BY DEF SnapGood
    <2> QED
        BY <2>1 DEF RecoveredEvidence, RootGood
<1>4. RecoverRoot(snap, r) = [ch EXCEPT !.root.next = next]
    BY <1>1, <1>3 DEF RecoverRoot
<1>5. \E a, j, s, f : ch = Change(a, j, s, f) /\ GoodChange(snap, r, ch)
    <2>1. CASE i = 0
        BY <2>1, KeptGood DEF Kept
    <2>2. CASE i # 0
        <3>1. /\ i \in Nat /\ scan \in ScanRecord /\ scan.root = r /\ scan.rev = root.rev
              /\ scan.state \notin Terminal
            BY <2>2, ActiveRecord
        <3>2. /\ again \in ScanRecord /\ again.root = r /\ again.rev = root.rev
              /\ again.state \notin Terminal
            BY <3>1 DEF ScanRecord, ScanState, Terminal
        <3>3. /\ GoodChange(snap, r, Cancelled(root, scan, i))
              /\ GoodChange(snap, r, Kept(root))
            BY <2>2, <3>1, CancelledGood, KeptGood
        <3>4. GoodChange(snap, r, Change(root, i, again, FALSE))
            <4> HIDE DEF again
            <4> QED
                BY <1>2, <2>2, <3>2, RewriteGood DEF SameRefs
        <3>5. \/ ch = Cancelled(root, scan, i) \/ ch = Kept(root)
              \/ ch = Change(root, i, again, FALSE)
            BY <2>2, <3>1 DEF RecoveredScan
        <3> HIDE DEF ch, again
        <3> QED
            BY <3>3, <3>4, <3>5 DEF Cancelled, Kept
    <2> QED
        BY <2>1, <2>2
<1> HIDE DEF ch
<1>6. PICK a, j, s, f : ch = Change(a, j, s, f) /\ GoodChange(snap, r, ch)
    BY <1>5
<1>7. ch.root = a
    BY <1>6 DEF Change
<1>8. a \in RootState /\ (a.retired => ~a.enabled /\ a.next = "none")
    BY <1>6, <1>7 DEF GoodChange
<1>9. next \in When /\ (a.retired => next = "none")
    BY <1>7, <1>8 DEF RootState, When
<1> HIDE DEF next
<1> QED
    BY <1>4, <1>6, <1>9, NextGood

-----------------------------------------------------------------------------
(* Commits *)

\* What a commit must leave behind.
Committed(old) ==
    /\ SnapGood(state') /\ store' = state'
    /\ \A i \in DOMAIN old.scans :
        i \in DOMAIN state'.scans /\ state'.scans[i].root = old.scans[i].root

\* A commit of good changes over a good snapshot.
LEMMA CommitAllGood ==
    ASSUME NEW snap, SnapGood(snap), NEW ch,
           \A r \in Roots : GoodChange(snap, r, ch[r]), CommitAll(snap, ch)
    PROVE  Committed(snap)
<1>1. PICK order \in Orders(Admitting(ch)) : state' = Updated(snap, ch, order)
    BY DEF CommitAll
<1>2. Len(snap.scans) + Cardinality(Admitting(ch)) <= MaxScans /\ store' = state'
    BY DEF CommitAll
<1> QED
    BY <1>1, <1>2, UpdatedGood DEF Committed

\* A commit of a good change of one root over the state in memory.
LEMMA CommitGood ==
    ASSUME SnapGood(state), NEW r \in Roots, NEW c, GoodChange(state, r, c), Commit(r, c)
    PROVE  Committed(state)
<1> DEFINE ch == [q \in Roots |-> IF q = r THEN c ELSE Kept(state.roots[q])]
<1>1. \A q \in Roots : GoodChange(state, q, ch[q])
    BY KeptGood
<1>2. CommitAll(state, ch)
    BY DEF Commit
<1> HIDE DEF ch
<1> QED
    BY <1>1, <1>2, CommitAllGood

\* The zero snapshot of a new process is good.
LEMMA EmptyGood == SnapGood(EmptySnapshot)
<1>1. /\ EmptySnapshot.roots \in [Roots -> RootState] /\ EmptySnapshot.scans = <<>>
      /\ \A r \in Roots : EmptySnapshot.roots[r] = Unconfigured
    BY DEF EmptySnapshot, Unconfigured, RootState, When
<1>2. EmptySnapshot \in Snapshots
    BY <1>1 DEF Snapshots, EmptySnapshot
<1>3. \A r \in Roots : RootGood(EmptySnapshot, r)
    BY <1>1 DEF RootGood, Open, Unconfigured
<1>4. 0 <= MaxScans
    BY ScansAssumption
<1> QED
    BY <1>1, <1>2, <1>3, <1>4 DEF SnapGood

\* A time is reached: a scheduled root is not retired.
LEMMA RootDueGood ==
    ASSUME SnapGood(state), NEW r \in Roots, RootDue(r)
    PROVE  Committed(state)
<1> DEFINE new == [state EXCEPT !.roots[r].next = "due"]
<1>1. state' = new /\ store' = state' /\ state.roots[r].next = "later"
    BY DEF RootDue
<1>2. state.roots \in [Roots -> RootState] /\ state.scans \in Seq(ScanRecord)
    BY DEF SnapGood, Snapshots
<1>3. new.scans = state.scans
    BY DEF SnapGood, Snapshots
<1>4. new.roots = [state.roots EXCEPT ![r].next = "due"]
    BY DEF SnapGood, Snapshots
<1>5. \A q \in Roots : q # r => new.roots[q] = state.roots[q]
    BY <1>2, <1>4
<1>6. /\ new.roots[r] \in RootState /\ SameRefs(new.roots[r], state.roots[r])
      /\ new.roots[r].retired = state.roots[r].retired
      /\ new.roots[r].enabled = state.roots[r].enabled
    <2>1. new.roots[r] = [state.roots[r] EXCEPT !.next = "due"] /\ state.roots[r] \in RootState
        BY <1>2, <1>4
    <2> HIDE DEF new
    <2> QED
        BY <2>1 DEF RootState, When, SameRefs
<1>7. new \in Snapshots
    <2>1. new.roots \in [Roots -> RootState]
        BY <1>2, <1>4, <1>5, <1>6
    <2>2. new = [roots |-> new.roots, scans |-> new.scans]
        BY DEF SnapGood, Snapshots
    <2> HIDE DEF new
    <2> QED
        BY <1>2, <1>3, <2>1, <2>2 DEF Snapshots
<1> HIDE DEF new
<1>8. ASSUME NEW q \in Roots PROVE RootGood(new, q) /\ new.roots[q].rev = state.roots[q].rev
    <2>1. RootGood(state, q) /\ Open(new, q) = Open(state, q)
        BY <1>3 DEF SnapGood, Open
    <2>2. CASE q # r
        <3>1. new.roots[q] = state.roots[q]
            BY <2>2, <1>5
        <3> QED
            BY <3>1, <2>1, <1>3 DEF RootGood
    <2>3. CASE q = r
        <3>1. ~state.roots[r].retired
            BY <1>1, RootFacts
        <3> QED
            BY <3>1, <2>1, <2>3, <1>3, <1>6 DEF RootGood, SameRefs
    <2> QED
        BY <2>2, <2>3
<1>9. \A i \in DOMAIN state.scans : state.scans[i].root \in Roots
    <2>1. \A i \in DOMAIN state.scans : state.scans[i] \in ScanRecord
        BY <1>2
    <2> QED
        BY <2>1 DEF ScanRecord
<1>10. SnapGood(new)
    BY <1>3, <1>7, <1>8, <1>9 DEF SnapGood
<1> QED
    BY <1>1, <1>3, <1>10 DEF Committed

\* The next attempt of a scan is due.
LEMMA ScanDueGood ==
    ASSUME SnapGood(state), NEW i, ScanDue(i)
    PROVE  Committed(state)
<1> DEFINE new == [state EXCEPT !.scans[i].at = "due"]
           s == [state.scans[i] EXCEPT !.at = "due"]
           n == Len(state.scans)
<1>1. state' = new /\ store' = state' /\ i \in DOMAIN state.scans
    BY DEF ScanDue
<1>2. /\ state.roots \in [Roots -> RootState] /\ state.scans \in Seq(ScanRecord)
      /\ DOMAIN state.scans = 1..n /\ n \in Nat
      /\ \A j \in 1..n : state.scans[j] \in ScanRecord
    BY DEF SnapGood, Snapshots
<1>3. new.roots = state.roots
    BY DEF SnapGood, Snapshots
<1>4. new.scans = [state.scans EXCEPT ![i] = s]
    BY DEF SnapGood, Snapshots
<1>5. /\ s \in ScanRecord /\ s.root = state.scans[i].root /\ s.rev = state.scans[i].rev
      /\ s.state = state.scans[i].state /\ s.cancel = state.scans[i].cancel
      /\ CanAssertAbsence(s) <=> CanAssertAbsence(state.scans[i])
    BY <1>1, <1>2 DEF ScanRecord, When, CanAssertAbsence
<1>6. new.scans \in Seq(ScanRecord) /\ Len(new.scans) = n /\ DOMAIN new.scans = 1..n
    <2> HIDE DEF new, s
    <2> QED
        BY <1>1, <1>2, <1>4, <1>5
<1>7. \A j \in 1..n :
        /\ new.scans[j].root = state.scans[j].root /\ new.scans[j].rev = state.scans[j].rev
        /\ new.scans[j].state = state.scans[j].state /\ new.scans[j].cancel = state.scans[j].cancel
        /\ CanAssertAbsence(new.scans[j]) <=> CanAssertAbsence(state.scans[j])
    <2>1. \A j \in 1..n : new.scans[j] = IF j = i THEN s ELSE state.scans[j]
        BY <1>2, <1>4
    <2> HIDE DEF new, s
    <2> QED
        BY <1>5, <2>1
<1>8. new \in Snapshots
    <2>1. new = [roots |-> new.roots, scans |-> new.scans]
        BY DEF SnapGood, Snapshots
    <2> HIDE DEF new
    <2> QED
        BY <1>2, <1>3, <1>6, <2>1 DEF Snapshots
<1> HIDE DEF new
<1>9. ASSUME NEW q \in Roots PROVE RootGood(new, q)
    <2>1. RootGood(state, q)
        BY DEF SnapGood
    <2>2. Open(new, q) = Open(state, q)
        BY <1>2, <1>6, <1>7 DEF Open
    <2>3. {state.roots[q].active, state.roots[q].last, state.roots[q].complete}
                \subseteq {0} \cup 1..n
        BY <2>1, <1>2 DEF RootGood
    <2> HIDE DEF n
    <2> QED
        BY <2>1, <2>2, <2>3, <1>2, <1>3, <1>6, <1>7 DEF RootGood
<1>10. SnapGood(new)
    BY <1>2, <1>3, <1>6, <1>7, <1>8, <1>9 DEF SnapGood, CancelKept
<1> QED
    BY <1>1, <1>2, <1>6, <1>7, <1>10 DEF Committed

-----------------------------------------------------------------------------
(* Runners *)

Phases == {"new", "started", "stopping", "closed"}
Spent == [configs : 0..MaxConfigs, faults : 0..MaxFaults, restarts : 0..MaxRestarts]

\* The inductive invariant: the snapshots are good, and every runner has a scan
\* in the one in memory.
IInv ==
    /\ SnapGood(state) /\ SnapGood(store)
    /\ phase \in Phases /\ runner \in [ScanIDs -> RunnerState] /\ spent \in Spent
    /\ phase = "new" => Runners = {}
    /\ Runners \subseteq DOMAIN state.scans
    /\ OneRunnerPerRoot

\* The runners are finitely many.
LEMMA RunnersFinite == IsFiniteSet(Runners) /\ Cardinality(Runners) \in Nat
<1>1. IsFiniteSet(ScanIDs)
    BY ScansAssumption, FS_Interval DEF ScanIDs
<1>2. Runners \subseteq ScanIDs
    BY DEF Runners
<1> QED
    BY <1>1, <1>2, FS_Subset, FS_CardinalityType

\* A step that starts no runner and leaves good snapshots in which the scans of
\* the remaining runners keep their roots.
LEMMA NoNewRunner ==
    ASSUME IInv, SnapGood(state'), SnapGood(store'),
           phase' \in Phases, runner' \in [ScanIDs -> RunnerState], spent' \in Spent,
           Runners' \subseteq Runners, phase' = "new" => Runners' = {},
           \A i \in Runners' :
                i \in DOMAIN state'.scans /\ state'.scans[i].root = state.scans[i].root
    PROVE  IInv'
<1>1. Cardinality(Runners') <= MaxConcurrent
    <2>1. IsFiniteSet(Runners) /\ Cardinality(Runners) \in Nat
        BY RunnersFinite
    <2>2. Cardinality(Runners') \in Nat /\ Cardinality(Runners') <= Cardinality(Runners)
        BY <2>1, FS_Subset, FS_CardinalityType
    <2> QED
        BY <2>1, <2>2, ScansAssumption DEF IInv, OneRunnerPerRoot
<1>2. \A i, j \in Runners' : i # j => state'.scans[i].root # state'.scans[j].root
    BY DEF IInv, OneRunnerPerRoot
<1>3. OneRunnerPerRoot'
    BY <1>1, <1>2 DEF OneRunnerPerRoot
<1> QED
    BY <1>3 DEF IInv

\* A commit of a call, of the loop or of time.
LEMMA CallKeeps ==
    ASSUME IInv, Committed(state), phase' = phase, runner' = runner, spent' \in Spent
    PROVE  IInv'
<1>1. Runners' = Runners
    BY DEF Runners
<1> QED
    BY <1>1, NoNewRunner DEF IInv, Committed

\* A runner goes on or leaves.
LEMMA RunnerKeeps ==
    ASSUME IInv, Committed(state) \/ UNCHANGED <<state, store>>, phase' = phase,
           spent' \in Spent, NEW i \in ScanIDs, runner[i] # "none", NEW v \in RunnerState,
           runner' = [runner EXCEPT ![i] = v]
    PROVE  IInv'
<1>1. runner' \in [ScanIDs -> RunnerState]
    BY DEF IInv
<1>2. Runners' \subseteq Runners
    BY DEF IInv, Runners
<1> QED
    BY <1>1, <1>2, NoNewRunner DEF IInv, Committed

\* StartOne: the root of the scan it starts had no runner.
LEMMA StartOneKeeps ==
    ASSUME IInv, StartOne
    PROVE  IInv'
<1>1. PICK i \in Selectable :
        LET scan == state.scans[i]
            root == state.roots[scan.root]
            run == scan.rev = root.rev /\ ~root.retired /\ ~scan.cancel
        IN  /\ Commit(scan.root,
                CASE run -> Change(root, i, [scan EXCEPT !.state = "running", !.at = "none"], FALSE)
                  [] ~run /\ scan.rev # root.rev /\ ~root.retired -> Stale(root, scan, i)
                  [] OTHER -> Cancelled(root, scan, i))
            /\ runner' = [runner EXCEPT ![i] = IF run THEN "live" ELSE @]
    BY DEF StartOne
<1>2. i \in DOMAIN state.scans /\ state.scans[i].state = "queued"
    BY DEF Selectable
<1>3. Committed(state)
    BY <1>1, <1>2, DispatchGood, CommitGood DEF IInv
<1>4. i \in ScanIDs
    <2>1. Len(state.scans) <= MaxScans /\ state.scans \in Seq(ScanRecord)
        BY DEF IInv, SnapGood, Snapshots
    <2> QED
        BY <1>2, <2>1, ScansAssumption DEF ScanIDs
<1>5. phase' = phase /\ spent' = spent /\ phase = "started"
      /\ Cardinality(Runners) < MaxConcurrent
    BY DEF StartOne
<1>6. PICK v \in {"live", runner[i]} : runner' = [runner EXCEPT ![i] = v]
    BY <1>1
<1>7. runner' \in [ScanIDs -> RunnerState] /\ Runners' \subseteq Runners \cup {i}
    BY <1>6, <1>4 DEF IInv, Runners, RunnerState
<1>8. \A j \in Runners : state.scans[j].root # state.scans[i].root
    BY DEF Selectable, runningRoot
<1>9. Cardinality(Runners') <= MaxConcurrent
    <2>1. IsFiniteSet(Runners) /\ Cardinality(Runners) \in Nat
        BY RunnersFinite
    <2>2. /\ IsFiniteSet(Runners \cup {i})
          /\ Cardinality(Runners \cup {i}) <= Cardinality(Runners) + 1
          /\ Cardinality(Runners \cup {i}) \in Nat
        <3>1. /\ IsFiniteSet(Runners \cup {i})
              /\ Cardinality(Runners \cup {i}) =
                    IF i \in Runners THEN Cardinality(Runners) ELSE Cardinality(Runners) + 1
            BY <2>1, FS_AddElement
        <3> QED
            BY <2>1, <3>1
    <2>3. Cardinality(Runners') \in Nat /\ Cardinality(Runners') <= Cardinality(Runners \cup {i})
        BY <1>7, <2>2, FS_Subset, FS_CardinalityType
    <2> QED
        BY <1>5, <2>1, <2>2, <2>3, ScansAssumption
<1>10. \A j \in Runners' :
        j \in DOMAIN state'.scans /\ state'.scans[j].root = state.scans[j].root
    BY <1>2, <1>3, <1>7 DEF IInv, Committed
<1>11. \A j, k \in Runners' : j # k => state'.scans[j].root # state'.scans[k].root
    BY <1>7, <1>8, <1>10 DEF IInv, OneRunnerPerRoot
<1>12. OneRunnerPerRoot'
    BY <1>9, <1>11 DEF OneRunnerPerRoot
<1> QED
    BY <1>3, <1>5, <1>7, <1>10, <1>12 DEF IInv, Committed

-----------------------------------------------------------------------------
(* The invariant *)

\* A new process with an empty StateStore satisfies the invariant.
LEMMA InitIInv == Init => IInv
<1> SUFFICES ASSUME Init PROVE IInv
    OBVIOUS
<1>1. Runners = {}
    BY DEF Init, Runners
<1>2. Cardinality(Runners) <= MaxConcurrent
    BY <1>1, FS_EmptySet, ScansAssumption
<1>3. runner \in [ScanIDs -> RunnerState] /\ spent \in Spent
    BY ScansAssumption DEF Init, RunnerState, Spent
<1> QED
    BY <1>1, <1>2, <1>3, EmptyGood DEF Init, IInv, OneRunnerPerRoot, Phases

\* Every step keeps the invariant.
LEMMA NextIInv == IInv /\ [Next]_vars => IInv'
<1> SUFFICES ASSUME IInv, [Next]_vars PROVE IInv'
    OBVIOUS
<1>1. SnapGood(state) /\ SnapGood(store) /\ spent \in Spent
    BY DEF IInv
<1>2. CASE Start
    <2>1. Runners = {} /\ Runners' = {}
        BY <1>2 DEF Start, IInv, Runners
    <2> DEFINE ch == [r \in Roots |-> RecoverRoot(store, r)]
    <2>2. \A r \in Roots : GoodChange(store, r, ch[r])
        BY <1>1, RecoverGood
    <2>3. CommitAll(store, ch)
        BY <1>2 DEF Start
    <2> HIDE DEF ch
    <2>4. SnapGood(state') /\ SnapGood(store')
        BY <1>1, <2>2, <2>3, CommitAllGood DEF Committed
    <2>5. phase' \in Phases /\ runner' \in [ScanIDs -> RunnerState] /\ spent' \in Spent
        BY <1>2 DEF Start, IInv, Phases
    <2> QED
        BY <2>1, <2>4, <2>5, NoNewRunner
<1>3. CASE Stop \/ StopReturns \/ UNCHANGED vars
    <2>1. Runners' = Runners
        BY <1>3 DEF Stop, StopReturns, vars, Runners
    <2>2. /\ state' = state /\ store' = store /\ runner' = runner /\ spent' = spent
          /\ phase' \in Phases /\ (phase' = "new" => phase = "new")
        BY <1>3 DEF Stop, StopReturns, vars, IInv, Phases
    <2> QED
        BY <2>1, <2>2, NoNewRunner DEF IInv
<1>4. CASE Restart
    <2>1. Runners' = {}
        BY <1>4 DEF Restart, Runners
    <2>2. SnapGood(state') /\ SnapGood(store')
        BY <1>1, <1>4, EmptyGood DEF Restart
    <2>3. runner' \in [ScanIDs -> RunnerState] /\ phase' \in Phases
        BY <1>4 DEF Restart, RunnerState, Phases
    <2>4. spent' \in Spent
        BY <1>1, <1>4, ScansAssumption DEF Restart, Spent
    <2> QED
        BY <2>1, <2>2, <2>3, <2>4, NoNewRunner
<1>5. CASE Tick
    <2> DEFINE ch == [r \in Roots |-> TickRoot(r)]
    <2>1. \A r \in Roots : GoodChange(state, r, ch[r])
        BY <1>1, TickGood
    <2>2. CommitAll(state, ch)
        BY <1>5 DEF Tick
    <2> HIDE DEF ch
    <2>3. Committed(state)
        BY <1>1, <2>1, <2>2, CommitAllGood
    <2> QED
        BY <1>1, <1>5, <2>3, CallKeeps DEF Tick
<1>6. CASE StartOne
    BY <1>6, StartOneKeeps
<1>7. ASSUME NEW i \in ScanIDs, ScanStep(i) PROVE IInv'
    <2>1. CASE Cancel(i)
        <3>1. Committed(state)
            BY <1>1, <2>1, CancelGood, CommitGood DEF Cancel
        <3> QED
            BY <1>1, <2>1, <3>1, CallKeeps DEF Cancel
    <2>2. CASE Interrupt(i)
        BY <1>1, <2>2, RunnerKeeps DEF Interrupt, RunnerState
    <2>3. CASE reportProgress(i)
        <3>1. i \in DOMAIN state.scans
            BY <2>3 DEF reportProgress, IInv, Runners
        <3>2. PICK report \in Reports :
                /\ state.scans[i].state = "running"
                /\ Commit(state.scans[i].root,
                     Change(state.roots[state.scans[i].root], i,
                            normalizeEvidence(state.scans[i], report), FALSE))
            BY <2>3 DEF reportProgress
        <3>3. Committed(state)
            BY <1>1, <3>1, <3>2, ProgressGood, CommitGood
        <3> QED
            BY <1>1, <2>3, <3>3, CallKeeps DEF reportProgress
    <2>4. CASE Timeout(i)
        BY <1>1, <2>4, RunnerKeeps DEF Timeout, RunnerState
    <2>5. CASE Finish(i)
        <3>1. runner[i] # "none" /\ i \in DOMAIN state.scans
            BY <2>5 DEF Finish, InRun, IInv, Runners
        <3>2. Committed(state) \/ UNCHANGED <<state, store>>
            <4> DEFINE scan == state.scans[i]
                       root == state.roots[scan.root]
            <4>1. CASE UNCHANGED <<state, store>>
                BY <4>1
            <4>2. CASE \E report \in Reports, result \in Result :
                       \E s \in Outcomes(normalizeEvidence(scan, report), runner[i], result) :
                          /\ scan.state = "running"
                          /\ Commit(scan.root, IF scan.rev # root.rev THEN Stale(root, scan, i)
                                               ELSE Finished(root, s, i))
                <5>1. PICK report \in Reports, result \in Result :
                       \E s \in Outcomes(normalizeEvidence(scan, report), runner[i], result) :
                          /\ scan.state = "running"
                          /\ Commit(scan.root, IF scan.rev # root.rev THEN Stale(root, scan, i)
                                               ELSE Finished(root, s, i))
                    BY <4>2
                <5>2. PICK s \in Outcomes(normalizeEvidence(scan, report), runner[i], result) :
                          /\ scan.state = "running"
                          /\ Commit(scan.root, IF scan.rev # root.rev THEN Stale(root, scan, i)
                                               ELSE Finished(root, s, i))
                    BY <5>1
                <5>3. scan \in ScanRecord
                    BY <1>1, <3>1, <5>2, OpenIsActive DEF Terminal
                <5>4. s \in ScanRecord /\ s.root = scan.root /\ s.rev = scan.rev /\ CancelKept(s)
                    BY <5>2, <5>3, EvidenceRecord, OutcomeRecord
                <5> QED
                    BY <1>1, <3>1, <5>2, <5>4, FinishGood, CommitGood
            <4> QED
                BY <2>5, <4>1, <4>2 DEF Finish
        <3> QED
            BY <1>1, <2>5, <3>1, <3>2, RunnerKeeps DEF Finish, RunnerState
    <2>6. CASE FinishFails(i)
        <3>1. spent' \in Spent
            BY <1>1, <2>6, ScansAssumption DEF FinishFails, Spent
        <3> QED
            BY <2>6, <3>1, RunnerKeeps DEF FinishFails, InRun, RunnerState
    <2>7. CASE Exit(i)
        BY <1>1, <2>7, RunnerKeeps DEF Exit, RunnerState
    <2>8. CASE ScanDue(i)
        BY <1>1, <2>8, ScanDueGood, CallKeeps DEF ScanDue
    <2> QED
        BY <1>7, <2>1, <2>2, <2>3, <2>4, <2>5, <2>6, <2>7, <2>8 DEF ScanStep
<1>8. ASSUME NEW r \in Roots, RootStep(r) PROVE IInv'
    <2>1. ASSUME NEW rev \in Revisions, NEW enabled \in BOOLEAN, ConfigureRoots(r, rev, enabled)
          PROVE  IInv'
        <3> DEFINE c == IF state.roots[r].rev = None THEN Configured(rev, enabled)
                        ELSE Reconfigured(r, rev, enabled)
        <3>1. GoodChange(state, r, c)
            BY <1>1, ConfiguredGood, ReconfiguredGood
        <3>2. Commit(r, c) /\ phase' = phase /\ runner' = runner
            BY <2>1 DEF ConfigureRoots
        <3> HIDE DEF c
        <3>3. Committed(state)
            BY <1>1, <3>1, <3>2, CommitGood
        <3>4. spent' \in Spent
            BY <1>1, <2>1, ScansAssumption DEF ConfigureRoots, Spent
        <3> QED
            BY <3>2, <3>3, <3>4, CallKeeps
    <2>2. CASE RetireRoot(r)
        <3>1. Committed(state)
            BY <1>1, <2>2, RetiredGood, CommitGood DEF RetireRoot
        <3>2. spent' \in Spent
            BY <1>1, <2>2, ScansAssumption DEF RetireRoot, Spent
        <3> QED
            BY <2>2, <3>1, <3>2, CallKeeps DEF RetireRoot
    <2>3. CASE Trigger(r)
        <3>1. Committed(state)
            BY <1>1, <2>3, TriggerGood, CommitGood DEF Trigger
        <3> QED
            BY <1>1, <2>3, <3>1, CallKeeps DEF Trigger
    <2>4. CASE RootDue(r)
        BY <1>1, <2>4, RootDueGood, CallKeeps DEF RootDue
    <2> QED
        BY <1>8, <2>1, <2>2, <2>3, <2>4 DEF RootStep
<1> QED
    BY <1>2, <1>3, <1>4, <1>5, <1>6, <1>7, <1>8 DEF Next

\* The invariant holds throughout.
LEMMA SpecIInv == Spec => []IInv
<1> QED
    BY InitIInv, NextIInv, PTL DEF Spec

-----------------------------------------------------------------------------
(* The theorems *)

\* Every variable keeps its type, and the references of a root are scans of the
\* list, in memory and in the StateStore.
THEOREM TypeCorrect == Spec => []TypeOK
<1>1. IInv => TypeOK
    BY DEF IInv, SnapGood, RootGood, TypeOK, Phases, Spent
<1> QED
    BY <1>1, SpecIInv, PTL

\* Snapshot.Validate refuses no commit, whatever calls, runners, polls and
\* restarts come in whatever order: every root has at most one open scan, and
\* its ActiveScanID is that scan.
THEOREM SnapshotsAreValid == Spec => []SnapshotValid
<1>1. \A snap : SnapGood(snap) => ValidSnapshot(snap)
    BY DEF SnapGood, RootGood, ValidSnapshot
<1>2. IInv => SnapshotValid
    BY <1>1 DEF IInv, SnapshotValid
<1> QED
    BY <1>2, SpecIInv, PTL

\* Evidence shown for a root is of its current revision, and what is shown as
\* complete was complete in the aggregate and in each source.
THEOREM EvidenceIsCurrent == Spec => []EvidenceCurrent
<1>1. IInv => EvidenceCurrent
    BY DEF IInv, SnapGood, RootGood, EvidenceCurrent, CanAssertAbsence
<1> QED
    BY <1>1, SpecIInv, PTL

\* No root has two runners, and there are never more than MaxConcurrent.
THEOREM RunnersAreExclusive == Spec => []OneRunnerPerRoot
<1>1. IInv => OneRunnerPerRoot
    BY DEF IInv
<1> QED
    BY <1>1, SpecIInv, PTL

\* No result, progress report, recovery or reconfiguration ends a scan whose
\* cancellation was recorded as anything but cancelled.
THEOREM CancellationWins == Spec => []CancelWins
<1>1. IInv => CancelWins
    BY DEF IInv, SnapGood, CancelKept, CancelWins
<1> QED
    BY <1>1, SpecIInv, PTL

-----------------------------------------------------------------------------
(* What a commit does to a scan and to a follow-up *)

\* A commit writes the change of every root: its follow-up, the scan it
\* rewrites, the position of the scan it admits.  Other scans stay, and new
\* ones are queued.
LEMMA CommitAllEffect ==
    ASSUME NEW snap, SnapGood(snap), NEW ch,
           \A r \in Roots : GoodChange(snap, r, ch[r]), CommitAll(snap, ch)
    PROVE  /\ \A r \in Roots :
                /\ state'.roots[r].follow = ch[r].root.follow
                /\ state'.roots[r].rev = ch[r].root.rev
                /\ ch[r].fresh => state'.roots[r].active > Len(snap.scans)
                /\ ch[r].id # 0 => /\ ch[r].id \in DOMAIN state'.scans
                                   /\ state'.scans[ch[r].id] = ch[r].scan
           /\ \A i \in DOMAIN state'.scans :
                \/ i \in DOMAIN snap.scans /\ state'.scans[i] = snap.scans[i]
                \/ \E r \in Roots :
                    ch[r].id = i /\ ch[r].id # 0 /\ state'.scans[i] = ch[r].scan
                \/ state'.scans[i].state = "queued"
<1>1. PICK order \in Orders(Admitting(ch)) : state' = Updated(snap, ch, order)
    BY DEF CommitAll
<1> DEFINE n == Len(snap.scans)
           R == Admitting(ch)
           c == Cardinality(R)
           new == Updated(snap, ch, order)
           Old(i) == IF ch[snap.scans[i].root].id = i THEN ch[snap.scans[i].root].scan
                     ELSE snap.scans[i]
<1>2. R \subseteq Roots /\ IsFiniteSet(R) /\ c \in Nat
    <2>1. R \subseteq Roots
        BY DEF Admitting
    <2> QED
        BY <2>1, ScansAssumption, FS_Subset, FS_CardinalityType
<1>3. /\ n \in Nat /\ DOMAIN snap.scans = 1..n
      /\ \A i \in 1..n : snap.scans[i].root \in Roots
    <2>1. snap.scans \in Seq(ScanRecord)
        BY DEF SnapGood, Snapshots
    <2>2. \A i \in DOMAIN snap.scans : snap.scans[i] \in ScanRecord
        BY <2>1
    <2> QED
        BY <2>1, <2>2 DEF ScanRecord
<1>4. /\ DOMAIN state'.scans = 1..(n + c)
      /\ \A i \in 1..n : state'.scans[i] = IF ch[snap.scans[i].root].id = i
                                          THEN ch[snap.scans[i].root].scan ELSE snap.scans[i]
      /\ \A k \in 1..c : state'.scans[n + k].state = "queued"
    <2>1. /\ DOMAIN new.scans = 1..(n + c)
          /\ \A i \in 1..n : new.scans[i] = Old(i)
          /\ \A k \in 1..c : new.scans[n + k] = newScanRecord(order[k], ch[order[k]].root)
        BY <1>2, <1>3 DEF Updated
    <2>2. state' = new
        BY <1>1
    <2> HIDE DEF new
    <2>3. \A k \in 1..c : newScanRecord(order[k], ch[order[k]].root).state = "queued"
        BY DEF newScanRecord
    <2>4. \A k \in 1..c : state'.scans[n + k].state = "queued"
        BY <2>1, <2>2, <2>3
    <2> QED
        BY <2>1, <2>2, <2>4
<1>5. /\ \A r \in Roots : state'.roots[r] =
            IF ~ch[r].fresh THEN ch[r].root
            ELSE [ch[r].root EXCEPT !.active = n + Slot(order, r)]
      /\ \A r \in Roots : ch[r].fresh <=> r \in R
    BY <1>1 DEF Updated, Slot, Admitting
<1>6. \A r \in R : Slot(order, r) \in 1..c
    BY <1>2, SlotUnique
<1> HIDE DEF n, R, c, new, Old
<1>7. ASSUME NEW r \in Roots
      PROVE  /\ state'.roots[r].follow = ch[r].root.follow
             /\ state'.roots[r].rev = ch[r].root.rev
             /\ ch[r].fresh => state'.roots[r].active > n
    <2>1. ch[r].root \in RootState
        BY DEF GoodChange
    <2>2. CASE ~ch[r].fresh
        BY <1>5, <2>2
    <2>3. CASE ch[r].fresh
        <3>1. /\ state'.roots[r] = [ch[r].root EXCEPT !.active = n + Slot(order, r)]
              /\ Slot(order, r) \in 1..c
            BY <1>5, <1>6, <2>3
        <3> QED
            BY <1>2, <1>3, <2>1, <3>1 DEF RootState
    <2> QED
        BY <2>2, <2>3
<1>8. ASSUME NEW r \in Roots, ch[r].id # 0
      PROVE  ch[r].id \in DOMAIN state'.scans /\ state'.scans[ch[r].id] = ch[r].scan
    <2>1. ch[r].id = snap.roots[r].active
        BY <1>8 DEF GoodChange
    <2>2. ch[r].id \in 1..n /\ snap.scans[ch[r].id].root = r
        BY <1>3, <1>8, <2>1, ActiveRecord
    <2> QED
        BY <1>2, <1>3, <1>4, <2>2
<1>9. ASSUME NEW i \in DOMAIN state'.scans
      PROVE  \/ i \in DOMAIN snap.scans /\ state'.scans[i] = snap.scans[i]
             \/ \E r \in Roots : ch[r].id = i /\ ch[r].id # 0 /\ state'.scans[i] = ch[r].scan
             \/ state'.scans[i].state = "queued"
    <2>1. i \in 1..n \/ \E k \in 1..c : i = n + k
        <3>1. n \in Nat /\ c \in Nat /\ i \in 1..(n + c)
            BY <1>2, <1>3, <1>4
        <3> QED
            BY <3>1, SplitIndex
    <2>2. CASE i \in 1..n
        BY <1>3, <1>4, <2>2
    <2>3. ASSUME NEW k \in 1..c, i = n + k
          PROVE  state'.scans[i].state = "queued"
        BY <1>4, <2>3
    <2> QED
        BY <2>1, <2>2, <2>3
<1> QED
    BY <1>7, <1>8, <1>9 DEF n

\* The same for a commit of one root.
LEMMA CommitOneEffect ==
    ASSUME SnapGood(state), NEW r \in Roots, NEW c, GoodChange(state, r, c), Commit(r, c)
    PROVE  /\ \A q \in Roots \ {r} : /\ state'.roots[q].follow = state.roots[q].follow
                                     /\ state'.roots[q].rev = state.roots[q].rev
           /\ state'.roots[r].follow = c.root.follow /\ state'.roots[r].rev = c.root.rev
           /\ c.fresh => state'.roots[r].active > Len(state.scans)
           /\ c.id # 0 => state'.scans[c.id] = c.scan
           /\ \A i \in DOMAIN state'.scans :
                \/ i \in DOMAIN state.scans /\ state'.scans[i] = state.scans[i]
                \/ c.id = i /\ c.id # 0 /\ state'.scans[i] = c.scan
                \/ state'.scans[i].state = "queued"
<1> DEFINE ch == [q \in Roots |-> IF q = r THEN c ELSE Kept(state.roots[q])]
<1>1. \A q \in Roots : GoodChange(state, q, ch[q])
    BY KeptGood
<1>2. CommitAll(state, ch)
    BY DEF Commit
<1>3. /\ ch[r] = c
      /\ \A q \in Roots \ {r} : ch[q].root = state.roots[q] /\ ch[q].id = 0
    BY DEF Kept, Change
<1> HIDE DEF ch
<1>4. /\ \A q \in Roots :
                /\ state'.roots[q].follow = ch[q].root.follow
                /\ state'.roots[q].rev = ch[q].root.rev
                /\ ch[q].fresh => state'.roots[q].active > Len(state.scans)
                /\ ch[q].id # 0 => /\ ch[q].id \in DOMAIN state'.scans
                                   /\ state'.scans[ch[q].id] = ch[q].scan
      /\ \A i \in DOMAIN state'.scans :
                \/ i \in DOMAIN state.scans /\ state'.scans[i] = state.scans[i]
                \/ \E q \in Roots :
                    ch[q].id = i /\ ch[q].id # 0 /\ state'.scans[i] = ch[q].scan
                \/ state'.scans[i].state = "queued"
    BY <1>1, <1>2, CommitAllEffect
<1> QED
    BY <1>3, <1>4

-----------------------------------------------------------------------------
(* Mild changes *)

\* The change c of root r sets no scan running, retains a follow-up only of a
\* configured root, and drops one only when it admits a scan or cancels the
\* open one.
Mild(r, c) ==
    LET root == state.roots[r] IN
    /\ c.id # 0 /\ c.scan.state = "running" => state.scans[c.id].state = "running"
    /\ c.root.follow => root.follow \/ c.root.rev # None
    /\ root.follow /\ root.rev # None /\ ~root.retired /\ ~c.root.follow
        => c.fresh \/ (c.id # 0 /\ c.id = root.active /\ c.scan.state = "cancelled")

\* Only a root that was configured retains a follow-up.
FollowsConfigured(snap) == \A r \in Roots : snap.roots[r].follow => snap.roots[r].rev # None

\* What FollowUpHonoured asks of one step of a started scheduler.
FollowUpsKept ==
    \A r \in Roots :
        state.roots[r].follow /\ ~state'.roots[r].follow /\ ~state.roots[r].retired
        => \/ state'.roots[r].active > Len(state.scans)
           \/ state'.scans[state.roots[r].active].state = "cancelled"

\* What a commit of mild changes leaves behind.
MildlyCommitted ==
    /\ \A i \in DOMAIN state'.scans : state'.scans[i].state = "running" =>
            i \in DOMAIN state.scans /\ state.scans[i].state = "running"
    /\ FollowsConfigured(state') /\ FollowsConfigured(store')
    /\ FollowUpsKept

LEMMA MildCommitAll ==
    ASSUME SnapGood(state), FollowsConfigured(state), NEW ch,
           \A r \in Roots : GoodChange(state, r, ch[r]), \A r \in Roots : Mild(r, ch[r]),
           CommitAll(state, ch)
    PROVE  MildlyCommitted
<1>1. /\ \A r \in Roots :
                /\ state'.roots[r].follow = ch[r].root.follow
                /\ state'.roots[r].rev = ch[r].root.rev
                /\ ch[r].fresh => state'.roots[r].active > Len(state.scans)
                /\ ch[r].id # 0 => /\ ch[r].id \in DOMAIN state'.scans
                                   /\ state'.scans[ch[r].id] = ch[r].scan
      /\ \A i \in DOMAIN state'.scans :
                \/ i \in DOMAIN state.scans /\ state'.scans[i] = state.scans[i]
                \/ \E r \in Roots :
                    ch[r].id = i /\ ch[r].id # 0 /\ state'.scans[i] = ch[r].scan
                \/ state'.scans[i].state = "queued"
    BY CommitAllEffect
<1>2. \A r \in Roots : ch[r].id # 0 => ch[r].id \in DOMAIN state.scans
    BY ActiveRecord DEF GoodChange
<1>3. \A i \in DOMAIN state'.scans : state'.scans[i].state = "running" =>
            i \in DOMAIN state.scans /\ state.scans[i].state = "running"
    BY <1>1, <1>2 DEF Mild
<1>4. FollowsConfigured(state')
    <2> SUFFICES ASSUME NEW r \in Roots, state'.roots[r].follow
                 PROVE  state'.roots[r].rev # None
        BY DEF FollowsConfigured
    <2>1. ch[r].root.follow /\ (state.roots[r].follow \/ ch[r].root.rev # None)
        BY <1>1 DEF Mild
    <2>2. state.roots[r].rev # None => ch[r].root.rev # None
        BY DEF GoodChange
    <2> QED
        BY <1>1, <2>1, <2>2 DEF FollowsConfigured
<1>5. store' = state'
    BY DEF CommitAll
<1>6. FollowUpsKept
    <2> SUFFICES ASSUME NEW r \in Roots, state.roots[r].follow, ~state'.roots[r].follow,
                        ~state.roots[r].retired
                 PROVE  \/ state'.roots[r].active > Len(state.scans)
                        \/ state'.scans[state.roots[r].active].state = "cancelled"
        BY DEF FollowUpsKept
    <2>1. state.roots[r].rev # None /\ ~ch[r].root.follow
        BY <1>1 DEF FollowsConfigured
    <2>2. \/ ch[r].fresh
          \/ ch[r].id # 0 /\ ch[r].id = state.roots[r].active /\ ch[r].scan.state = "cancelled"
        BY <2>1 DEF Mild
    <2> QED
        BY <1>1, <2>2
<1> QED
    BY <1>3, <1>4, <1>5, <1>6 DEF MildlyCommitted

LEMMA MildCommit ==
    ASSUME SnapGood(state), FollowsConfigured(state), NEW r \in Roots, NEW c,
           GoodChange(state, r, c), Mild(r, c), Commit(r, c)
    PROVE  MildlyCommitted
<1> DEFINE ch == [q \in Roots |-> IF q = r THEN c ELSE Kept(state.roots[q])]
<1>1. \A q \in Roots : GoodChange(state, q, ch[q])
    BY KeptGood
<1>2. \A q \in Roots : Mild(q, Kept(state.roots[q]))
    BY DEF Mild, Kept, Change
<1>3. \A q \in Roots : Mild(q, ch[q])
    BY <1>2
<1>4. CommitAll(state, ch)
    BY DEF Commit
<1> HIDE DEF ch
<1> QED
    BY <1>1, <1>3, <1>4, MildCommitAll

-----------------------------------------------------------------------------
(* The changes of the operations *)

\* A change that keeps the follow-up, and rewrites a scan to one that runs only
\* if it did.
LEMMA KeepMild ==
    ASSUME NEW r \in Roots, NEW root, root.follow = state.roots[r].follow,
           NEW i, NEW s, NEW f, i # 0 /\ s.state = "running" => state.scans[i].state = "running"
    PROVE  Mild(r, Change(root, i, s, f))
BY DEF Mild, Change

\* The end of a scan says nothing of the follow-up.
LEMMA TerminalRoot ==
    ASSUME NEW root \in RootState, NEW s, NEW i \in Nat
    PROVE  LET left == updateRootAfterTerminal(root, s, i) IN
           /\ left \in RootState
           /\ left.follow = root.follow /\ left.rev = root.rev /\ left.retired = root.retired
           /\ clearFollowUp(left).follow = FALSE
BY DEF updateRootAfterTerminal, clearFollowUp, RootState

\* The open scan is cancelled, and the follow-up with it.
LEMMA CancelledMild ==
    ASSUME SnapGood(state), NEW r \in Roots, state.roots[r].active # 0, NEW s \in ScanRecord
    PROVE  Mild(r, Cancelled(state.roots[r], s, state.roots[r].active))
<1> DEFINE i == state.roots[r].active
           ended == Finalized(s, "cancelled")
           root == clearFollowUp(updateRootAfterTerminal(state.roots[r], ended, i))
<1>1. state.roots[r] \in RootState /\ i \in Nat
    BY RootFacts, ActiveRecord
<1>2. root.follow = FALSE
    BY <1>1, TerminalRoot
<1>3. ended.state = "cancelled"
    BY FinalizedRecord DEF Terminal
<1>4. Cancelled(state.roots[r], s, i) = Change(root, i, ended, FALSE)
    BY DEF Cancelled
<1> HIDE DEF root, ended
<1> QED
    BY <1>2, <1>3, <1>4 DEF Mild, Change

\* When a root is next due says nothing of its follow-up.
LEMMA NextMild ==
    ASSUME NEW r \in Roots, NEW a \in RootState, NEW i, NEW s, NEW f, NEW w,
           Mild(r, Change(a, i, s, f))
    PROVE  Mild(r, [Change(a, i, s, f) EXCEPT !.root.next = w])
<1> DEFINE c == Change(a, i, s, f)
           d == [c EXCEPT !.root.next = w]
<1>1. d = Change([a EXCEPT !.next = w], i, s, f)
    BY DEF Change
<1>2. /\ d.root = [a EXCEPT !.next = w] /\ d.id = i /\ d.scan = s /\ d.fresh = f
      /\ c.root = a /\ c.id = i /\ c.scan = s /\ c.fresh = f
    BY <1>1 DEF Change
<1>3. [a EXCEPT !.next = w].follow = a.follow /\ [a EXCEPT !.next = w].rev = a.rev
    BY DEF RootState
<1>4. Mild(r, c)
    OBVIOUS
<1> SUFFICES Mild(r, d)
    OBVIOUS
<1> HIDE DEF c, d
<1> QED
    BY <1>2, <1>3, <1>4 DEF Mild

LEMMA ConfiguredMild ==
    ASSUME NEW r \in Roots, state.roots[r].rev = None,
           NEW rev \in Revisions, NEW enabled \in BOOLEAN
    PROVE  Mild(r, Configured(rev, enabled))
<1> DEFINE root == [Unconfigured EXCEPT !.rev = rev, !.enabled = enabled,
                                        !.next = IF enabled THEN "due" ELSE "none"]
<1>1. root.follow = FALSE
    BY DEF Unconfigured
<1>2. Configured(rev, enabled) = Kept(root)
    BY DEF Configured
<1> HIDE DEF root
<1> QED
    BY <1>1, <1>2 DEF Mild, Kept, Change

LEMMA ReconfiguredMild ==
    ASSUME SnapGood(state), NEW r \in Roots, NEW rev \in Revisions, NEW enabled \in BOOLEAN
    PROVE  Mild(r, Reconfigured(r, rev, enabled))
<1> DEFINE root == state.roots[r]
           i == root.active
           base == [root EXCEPT !.rev = rev, !.enabled = enabled, !.retired = FALSE]
           ended == Finalized(state.scans[i], "cancelled")
           inv == invalidateRootEvidence(base)
           off == updateRootAfterTerminal(inv, ended, i)
           left == [clearFollowUp(off) EXCEPT !.next = "later"]
           ch == CASE rev = root.rev -> Kept(base)
                   [] rev # root.rev /\ (i = 0 \/ state.scans[i].rev = rev) -> Kept(inv)
                   [] OTHER -> Change(left, i, ended, TRUE)
           next == CASE ~enabled -> "none"
                     [] /\ enabled
                        /\ ch.root.active = 0 /\ ~ch.fresh
                        /\ ~(root.enabled /\ ~root.retired) \/ ch.root.next = "none" -> "due"
                     [] OTHER -> ch.root.next
<1>1. Reconfigured(r, rev, enabled) = [ch EXCEPT !.root.next = next]
    BY ActiveIsOpen DEF Reconfigured
<1>2. root \in RootState /\ i \in Nat
    BY RootFacts DEF RootState
<1>3. base \in RootState /\ base.follow = root.follow
    BY <1>2 DEF RootState
<1>4. inv \in RootState /\ inv.follow = root.follow
    <2> HIDE DEF base
    <2> QED
        BY <1>3 DEF invalidateRootEvidence, RootState
<1>5. left \in RootState /\ left.follow = FALSE
    <2>1. off \in RootState
        <3> HIDE DEF inv, ended, i
        <3> QED
            BY <1>2, <1>4, TerminalRoot
    <2> HIDE DEF off
    <2> QED
        BY <2>1 DEF clearFollowUp, RootState, When
<1>6. \E a \in RootState : \E j, s, f : ch = Change(a, j, s, f) /\ Mild(r, ch)
    <2>1. \/ ch = Change(base, 0, None, FALSE) \/ ch = Change(inv, 0, None, FALSE)
          \/ ch = Change(left, i, ended, TRUE) /\ i # 0
        <3> HIDE DEF base, inv, left, ended
        <3> QED
            BY DEF Kept
    <2>2. Mild(r, Change(base, 0, None, FALSE)) /\ Mild(r, Change(inv, 0, None, FALSE))
        <3> HIDE DEF base, inv
        <3> QED
            BY <1>3, <1>4, KeepMild
    <2>3. ASSUME i # 0
          PROVE  Mild(r, Change(left, i, ended, TRUE))
        <3>1. state.scans[i] \in ScanRecord
            BY <2>3, ActiveRecord
        <3>2. ended.state = "cancelled"
            BY <3>1, FinalizedRecord DEF Terminal
        <3> HIDE DEF left, ended
        <3> QED
            BY <1>5, <3>2 DEF Mild, Change
    <2> HIDE DEF ch
    <2> QED
        BY <1>3, <1>4, <1>5, <2>1, <2>2, <2>3
<1> HIDE DEF ch
<1>7. PICK a \in RootState : \E j, s, f : ch = Change(a, j, s, f) /\ Mild(r, ch)
    BY <1>6
<1>8. PICK j, s, f : ch = Change(a, j, s, f) /\ Mild(r, ch)
    BY <1>7
<1> HIDE DEF next
<1>9. Mild(r, [Change(a, j, s, f) EXCEPT !.root.next = next])
    BY <1>8, NextMild
<1> QED
    BY <1>1, <1>8, <1>9

LEMMA RetiredMild ==
    ASSUME SnapGood(state), NEW r \in Roots
    PROVE  Mild(r, Kept([state.roots[r] EXCEPT
                !.retired = TRUE, !.enabled = FALSE, !.next = "none"]))
<1> DEFINE root == [state.roots[r] EXCEPT !.retired = TRUE, !.enabled = FALSE, !.next = "none"]
<1>1. root.follow = state.roots[r].follow
    BY RootFacts DEF RootState
<1> HIDE DEF root
<1>2. Mild(r, Kept(root))
    BY <1>1, KeepMild DEF Kept
<1> QED
    BY <1>2 DEF root

LEMMA TriggerMild ==
    ASSUME SnapGood(state), NEW r \in Roots, state.roots[r].rev # None
    PROVE  LET root == state.roots[r]
               i == activeScan(state, r)
           IN  Mild(r, IF i = 0 THEN Change(root, 0, None, TRUE)
                       ELSE IF state.scans[i].state = "waiting"
                       THEN Change(root, i, [state.scans[i] EXCEPT !.at = "due"], FALSE)
                       ELSE Kept(retainFollowUp(root)))
<1> DEFINE root == state.roots[r]
           i == root.active
           s == [state.scans[i] EXCEPT !.at = "due"]
           kept == retainFollowUp(root)
<1>1. activeScan(state, r) = i
    BY ActiveIsOpen
<1>2. Mild(r, Change(root, 0, None, TRUE))
    BY KeepMild
<1>3. ASSUME i # 0, state.scans[i].state = "waiting"
      PROVE  Mild(r, Change(root, i, s, FALSE))
    <2>1. s.state = "waiting"
        <3>1. state.scans[i] \in ScanRecord
            BY <1>3, ActiveRecord
        <3> QED
            BY <1>3, <3>1 DEF ScanRecord
    <2> HIDE DEF s
    <2> QED
        BY <2>1, KeepMild
<1>4. Mild(r, Kept(kept))
    <2>1. kept.follow = TRUE /\ kept.rev = root.rev
        BY RootFacts DEF retainFollowUp, RootState
    <2> HIDE DEF kept
    <2> QED
        BY <2>1 DEF Mild, Kept, Change
<1> QED
    BY <1>1, <1>2, <1>3, <1>4

LEMMA CancelMild ==
    ASSUME SnapGood(state), NEW i \in DOMAIN state.scans, state.scans[i].state \notin Terminal
    PROVE  LET scan == [state.scans[i] EXCEPT !.cancel = TRUE]
               root == state.roots[scan.root]
           IN  Mild(scan.root, IF scan.state = "running" THEN Change(root, i, scan, FALSE)
                               ELSE Cancelled(root, scan, i))
<1> DEFINE s == [state.scans[i] EXCEPT !.cancel = TRUE]
           r == state.scans[i].root
           root == state.roots[r]
<1>1. state.scans[i] \in ScanRecord /\ r \in Roots /\ root.active = i /\ i # 0
    BY OpenIsActive
<1>2. s \in ScanRecord /\ s.root = r /\ s.state = state.scans[i].state
    BY <1>1 DEF ScanRecord
<1> HIDE DEF s, r
<1>3. Mild(r, Change(root, i, s, FALSE))
    BY <1>1, <1>2, KeepMild
<1>4. Mild(r, Cancelled(root, s, i))
    BY <1>1, <1>2, CancelledMild
<1>5. Mild(s.root, IF s.state = "running" THEN Change(state.roots[s.root], i, s, FALSE)
                   ELSE Cancelled(state.roots[s.root], s, i))
    BY <1>2, <1>3, <1>4
<1> QED
    BY <1>5 DEF s

LEMMA TickMild ==
    ASSUME SnapGood(state), NEW r \in Roots
    PROVE  Mild(r, TickRoot(r))
<1> DEFINE root == state.roots[r]
           i == root.active
<1>1. activeScan(state, r) = i /\ root \in RootState
    BY ActiveIsOpen, RootFacts
<1>2. CASE i # 0
    <2> DEFINE scan == state.scans[i]
               claimed == [root EXCEPT !.active = i]
               again == root.enabled /\ ~root.retired /\ due(root.next)
               new == IF again THEN [retainFollowUp(claimed) EXCEPT !.next = "later"]
                      ELSE claimed
               s == IF scan.state = "waiting" /\ due(scan.at)
                    THEN [scan EXCEPT !.state = "queued", !.at = "none"] ELSE scan
    <2>1. scan \in ScanRecord /\ scan.rev = root.rev /\ root.rev # None
        BY <1>2, ActiveRecord, OpenIsConfigured
    <2>2. TickRoot(r) = Change(new, i, s, FALSE)
        BY <1>1, <1>2, <2>1 DEF TickRoot, TickActive
    <2>3. s.state = "running" => scan.state = "running"
        BY <2>1 DEF ScanRecord
    <2>4. new.rev = root.rev /\ (root.follow => new.follow)
        BY <1>1 DEF retainFollowUp, RootState
    <2> HIDE DEF s, new
    <2> QED
        BY <2>1, <2>2, <2>3, <2>4 DEF Mild, Change
<1>3. CASE i = 0
    <2> DEFINE idle == [root EXCEPT !.active = 0]
               later == [root EXCEPT !.active = 0, !.next = "later"]
    <2>1. idle.follow = root.follow /\ later.follow = root.follow
        BY <1>1 DEF RootState
    <2>2. \/ TickRoot(r) = Kept(root) \/ TickRoot(r) = Kept(idle)
          \/ TickRoot(r) = Change(later, 0, None, TRUE)
        BY <1>1, <1>3 DEF TickRoot
    <2> HIDE DEF idle, later
    <2> QED
        BY <2>1, <2>2, KeepMild DEF Kept
<1> QED
    BY <1>2, <1>3

\* startOne, of a scan that does not run: it is cancelled.
LEMMA DispatchMild ==
    ASSUME SnapGood(state), NEW i \in DOMAIN state.scans, state.scans[i].state = "queued"
    PROVE  Mild(state.scans[i].root,
                Cancelled(state.roots[state.scans[i].root], state.scans[i], i))
<1>1. /\ state.scans[i] \in ScanRecord /\ state.scans[i].root \in Roots
      /\ state.roots[state.scans[i].root].active = i /\ i # 0
    BY OpenIsActive DEF Terminal
<1> QED
    BY <1>1, CancelledMild

LEMMA ProgressMild ==
    ASSUME SnapGood(state), NEW i \in DOMAIN state.scans, state.scans[i].state = "running",
           NEW report \in Reports
    PROVE  LET scan == state.scans[i] IN
           Mild(scan.root, Change(state.roots[scan.root], i, normalizeEvidence(scan, report), FALSE))
<1> DEFINE r == state.scans[i].root
<1>1. r \in Roots
    BY OpenIsActive DEF Terminal
<1> HIDE DEF r
<1>2. Mild(r, Change(state.roots[r], i, normalizeEvidence(state.scans[i], report), FALSE))
    BY <1>1, KeepMild
<1> QED
    BY <1>2 DEF r

\* No outcome of a run leaves the scan running, and one that is not cancelled is
\* followed up.
LEMMA FinishMild ==
    ASSUME SnapGood(state), NEW i \in DOMAIN state.scans, state.scans[i].state = "running",
           NEW s, s.state # "running", s.rev = state.scans[i].rev
    PROVE  LET scan == state.scans[i]
               root == state.roots[scan.root]
               c == IF scan.rev # root.rev THEN Stale(root, scan, i) ELSE Finished(root, s, i)
           IN  Mild(scan.root, c) /\ c.id = i /\ c.id # 0 /\ c.scan = s
<1> DEFINE r == state.scans[i].root
           root == state.roots[r]
           left == updateRootAfterTerminal(root, s, i)
<1>1. /\ r \in Roots /\ root.active = i /\ i # 0 /\ i \in Nat /\ root \in RootState
      /\ state.scans[i].rev = root.rev
    <2>1. r \in Roots /\ root.active = i /\ i # 0 /\ state.scans[i].rev = root.rev
        BY OpenIsActive DEF Terminal
    <2> QED
        BY <2>1, RootFacts DEF RootState
<1> HIDE DEF r
<1>2. CASE s.state \notin Terminal
    <2>1. Finished(root, s, i) = Change(root, i, s, FALSE)
        BY <1>2 DEF Finished
    <2>2. Mild(r, Change(root, i, s, FALSE))
        BY <1>1, KeepMild
    <2>3. LET c == Change(root, i, s, FALSE) IN c.id = i /\ c.scan = s
        BY DEF Change
    <2> QED
        BY <1>1, <2>1, <2>2, <2>3 DEF r
<1>3. CASE s.state \in Terminal
    <2> DEFINE c == Change(clearFollowUp(left), i, s, FollowUp(left, s))
    <2>1. Finished(root, s, i) = c
        BY <1>3 DEF Finished
    <2>2. /\ left.follow = root.follow /\ left.retired = root.retired
          /\ clearFollowUp(left).follow = FALSE
        BY <1>1, TerminalRoot
    <2>3. /\ c.root = clearFollowUp(left) /\ c.id = i /\ c.scan = s
          /\ c.fresh = FollowUp(left, s)
        BY DEF Change
    <2> HIDE DEF c, left
    <2>4. Mild(r, c)
        BY <1>1, <2>2, <2>3 DEF Mild, FollowUp
    <2> QED
        BY <1>1, <2>1, <2>3, <2>4 DEF r
<1> QED
    BY <1>2, <1>3

\* The change ch with another time for the root.
Rescheduling(ch, w) == [ch EXCEPT !.root.next = w]

LEMMA Rescheduled ==
    ASSUME NEW a \in RootState, NEW i, NEW s, NEW f, NEW w
    PROVE  LET c == Rescheduling(Change(a, i, s, f), w) IN
           c.root.follow = a.follow /\ c.id = i /\ c.scan = s
<1> DEFINE d == Rescheduling(Change(a, i, s, f), w)
<1>1. d = Change([a EXCEPT !.next = w], i, s, f)
    BY DEF Change, Rescheduling
<1>2. d.root = [a EXCEPT !.next = w] /\ d.id = i /\ d.scan = s
    BY <1>1 DEF Change
<1>3. [a EXCEPT !.next = w].follow = a.follow
    BY DEF RootState
<1> SUFFICES d.root.follow = a.follow /\ d.id = i /\ d.scan = s
    OBVIOUS
<1> HIDE DEF d
<1> QED
    BY <1>2, <1>3

\* recoverSnapshot leaves no scan running, and retains no follow-up.
LEMMA RecoverMild ==
    ASSUME NEW snap, SnapGood(snap), NEW r \in Roots
    PROVE  LET c == RecoverRoot(snap, r) IN
           /\ c.root.follow => snap.roots[r].follow
           /\ c.id # 0 => c.scan.state # "running"
           /\ snap.roots[r].active # 0 /\ snap.scans[snap.roots[r].active].state = "running"
                => c.id = snap.roots[r].active
<1> DEFINE root == snap.roots[r]
           i == root.active
           scan == snap.scans[i]
           again == [scan EXCEPT !.state = "queued"]
           ended == Finalized(scan, "cancelled")
           off == clearFollowUp(updateRootAfterTerminal(root, ended, i))
           ch == IF i = 0 THEN Kept(root) ELSE RecoveredScan(root, scan, i)
           next == IF ch.root.enabled /\ ~ch.root.retired /\ ch.root.next = "none"
                   THEN "due" ELSE ch.root.next
<1>1. activeScan(snap, r) = i /\ root \in RootState /\ i \in Nat
    BY ActiveIsOpen, RootFacts DEF RootState
<1>2. RecoveredEvidence(snap, root) = root
    <2>1. RootGood(snap, r)
        BY DEF SnapGood
    <2> QED
        BY <2>1 DEF RecoveredEvidence, RootGood
<1>3. RecoverRoot(snap, r) = [ch EXCEPT !.root.next = next]
    BY <1>1, <1>2 DEF RecoverRoot
<1>4. off \in RootState /\ off.follow = FALSE
    <2> DEFINE left == updateRootAfterTerminal(root, ended, i)
    <2>1. left \in RootState
        <3> HIDE DEF root, ended, i
        <3> QED
            BY <1>1, TerminalRoot
    <2>2. off = clearFollowUp(left)
        OBVIOUS
    <2> HIDE DEF left, off
    <2> QED
        BY <2>1, <2>2 DEF clearFollowUp, RootState
<1>5. \/ ch = Change(root, 0, None, FALSE) /\ (i # 0 => scan.state # "running")
      \/ ch = Change(off, i, ended, FALSE) /\ i # 0
      \/ ch = Change(root, i, again, FALSE) /\ i # 0
    <2>1. CASE i = 0
        BY <2>1 DEF Kept
    <2>2. CASE i # 0
        <3>1. scan.rev = root.rev /\ ch = RecoveredScan(root, scan, i)
            BY <2>2, ActiveRecord
        <3>2. Cancelled(root, scan, i) = Change(off, i, ended, FALSE)
            BY DEF Cancelled
        <3> HIDE DEF off, ended, again, ch
        <3>3. \/ ch = Cancelled(root, scan, i)
              \/ ch = Change(root, i, [scan EXCEPT !.state = "queued"], FALSE)
              \/ ch = Kept(root) /\ scan.state # "running"
            BY <3>1 DEF RecoveredScan
        <3> QED
            BY <2>2, <3>2, <3>3 DEF Kept, again
    <2> QED
        BY <2>1, <2>2
<1>6. i # 0 => ended.state = "cancelled" /\ again.state = "queued"
    <2>1. i # 0 => scan \in ScanRecord
        BY ActiveRecord
    <2> QED
        BY <2>1, FinalizedRecord DEF Terminal, ScanRecord
<1> HIDE DEF next, ch
<1> DEFINE c == Rescheduling(ch, next)
<1>7. ASSUME NEW a \in RootState, NEW j, NEW s, NEW f, ch = Change(a, j, s, f)
      PROVE  c.root.follow = a.follow /\ c.id = j /\ c.scan = s
    <2>1. LET d == Rescheduling(Change(a, j, s, f), next) IN
          d.root.follow = a.follow /\ d.id = j /\ d.scan = s
        BY Rescheduled
    <2> QED
        BY <1>7, <2>1
<1>8. RecoverRoot(snap, r) = c
    BY <1>3 DEF Rescheduling
<1> HIDE DEF off, ended, again, c
<1> SUFFICES /\ c.root.follow => root.follow
             /\ c.id # 0 => c.scan.state # "running"
             /\ i # 0 /\ scan.state = "running" => c.id = i
    BY <1>8
<1>9. CASE ch = Change(root, 0, None, FALSE) /\ (i # 0 => scan.state # "running")
    BY <1>1, <1>7, <1>9
<1>10. CASE ch = Change(off, i, ended, FALSE) /\ i # 0
    BY <1>4, <1>6, <1>7, <1>10
<1>11. CASE ch = Change(root, i, again, FALSE) /\ i # 0
    BY <1>1, <1>6, <1>7, <1>11
<1> QED
    BY <1>5, <1>9, <1>10, <1>11

-----------------------------------------------------------------------------
(* The invariant *)

\* As long as each result could be committed, a scan that is marked running has
\* its runner; a closed scheduler has no runner; only a configured root retains
\* a follow-up.
Calm ==
    /\ phase = "closed" => Runners = {}
    /\ spent.faults = 0 =>
        \A i \in DOMAIN state.scans : state.scans[i].state = "running" => InRun(i)
    /\ FollowsConfigured(state) /\ FollowsConfigured(store)

LEMMA ScansAreIDs ==
    ASSUME NEW snap, SnapGood(snap)
    PROVE  DOMAIN snap.scans \subseteq ScanIDs
<1>1. Len(snap.scans) <= MaxScans /\ snap.scans \in Seq(ScanRecord)
    BY DEF SnapGood, Snapshots
<1> QED
    BY <1>1, ScansAssumption DEF ScanIDs

\* What a commit leaves of the scans that run, when no runner left.
LEMMA CalmCommit ==
    ASSUME Calm, MildlyCommitted, phase' = phase, runner' = runner,
           spent'.faults = spent.faults
    PROVE  Calm'
BY DEF Calm, MildlyCommitted, FollowsConfigured, Runners, InRun

LEMMA CalmInit == Init => Calm
BY DEF Init, Calm, FollowsConfigured, EmptySnapshot, Unconfigured

LEMMA CalmStart ==
    ASSUME IInv, Calm, Start
    PROVE  Calm'
<1>1. SnapGood(store) /\ FollowsConfigured(store) /\ phase' = "started"
    BY DEF IInv, Calm, Start
<1> DEFINE ch == [r \in Roots |-> RecoverRoot(store, r)]
<1>2. \A r \in Roots : /\ GoodChange(store, r, ch[r])
                       /\ ch[r].root.follow => store.roots[r].follow
                       /\ ch[r].id # 0 => ch[r].scan.state # "running"
                       /\ store.roots[r].active # 0
                          /\ store.scans[store.roots[r].active].state = "running"
                            => ch[r].id = store.roots[r].active
    BY <1>1, RecoverGood, RecoverMild
<1>3. CommitAll(store, ch) /\ store' = state'
    BY DEF Start, CommitAll
<1> HIDE DEF ch
<1>4. /\ \A r \in Roots :
            /\ state'.roots[r].follow = ch[r].root.follow
            /\ state'.roots[r].rev = ch[r].root.rev
            /\ ch[r].id # 0 => state'.scans[ch[r].id] = ch[r].scan
      /\ \A i \in DOMAIN state'.scans :
            \/ i \in DOMAIN store.scans /\ state'.scans[i] = store.scans[i]
            \/ \E r \in Roots : ch[r].id = i /\ ch[r].id # 0 /\ state'.scans[i] = ch[r].scan
            \/ state'.scans[i].state = "queued"
    BY <1>1, <1>2, <1>3, CommitAllEffect
<1>5. \A r \in Roots : store.roots[r].rev # None => ch[r].root.rev # None
    BY <1>2 DEF GoodChange
<1>6. FollowsConfigured(state')
    BY <1>1, <1>2, <1>4, <1>5 DEF FollowsConfigured
<1>7. ASSUME NEW i \in DOMAIN state'.scans, state'.scans[i].state = "running"
      PROVE  FALSE
    <2>1. CASE \E r \in Roots : ch[r].id = i /\ ch[r].id # 0 /\ state'.scans[i] = ch[r].scan
        BY <1>2, <1>7, <2>1
    <2>2. CASE i \in DOMAIN store.scans /\ state'.scans[i] = store.scans[i]
        <3>1. /\ store.scans[i].root \in Roots
              /\ store.roots[store.scans[i].root].active = i /\ i # 0
            BY <1>1, <1>7, <2>2, OpenIsActive DEF Terminal
        <3>2. PICK r \in Roots : store.roots[r].active = i /\ i # 0
            BY <3>1
        <3>3. ch[r].id = i
            BY <1>2, <1>7, <2>2, <3>2
        <3>4. state'.scans[i] = ch[r].scan
            BY <1>4, <3>2, <3>3
        <3> QED
            BY <1>2, <1>7, <3>2, <3>3, <3>4
    <2> QED
        BY <1>4, <1>7, <2>1, <2>2
<1> QED
    BY <1>1, <1>3, <1>6, <1>7 DEF Calm

\* startOne: the scan it sets running has a runner.
LEMMA CalmStartOne ==
    ASSUME IInv, Calm, StartOne
    PROVE  Calm' /\ FollowUpsKept
<1>1. SnapGood(state) /\ FollowsConfigured(state) /\ phase = "started"
      /\ phase' = phase /\ spent' = spent
    BY DEF IInv, Calm, StartOne
<1>2. PICK i \in Selectable :
        LET scan == state.scans[i]
            root == state.roots[scan.root]
            run == scan.rev = root.rev /\ ~root.retired /\ ~scan.cancel
        IN  /\ Commit(scan.root,
                CASE run -> Change(root, i, [scan EXCEPT !.state = "running", !.at = "none"], FALSE)
                  [] ~run /\ scan.rev # root.rev /\ ~root.retired -> Stale(root, scan, i)
                  [] OTHER -> Cancelled(root, scan, i))
            /\ runner' = [runner EXCEPT ![i] = IF run THEN "live" ELSE @]
    BY DEF StartOne
<1>3. i \in DOMAIN state.scans /\ state.scans[i].state = "queued"
    BY DEF Selectable
<1> DEFINE r == state.scans[i].root
           root == state.roots[r]
           run == state.scans[i].rev = root.rev /\ ~root.retired /\ ~state.scans[i].cancel
           s == [state.scans[i] EXCEPT !.state = "running", !.at = "none"]
           c == CASE run -> Change(root, i, s, FALSE)
                  [] ~run /\ state.scans[i].rev # root.rev /\ ~root.retired ->
                        Stale(root, state.scans[i], i)
                  [] OTHER -> Cancelled(root, state.scans[i], i)
<1>4. /\ r \in Roots /\ GoodChange(state, r, c) /\ Commit(r, c)
      /\ runner' = [runner EXCEPT ![i] = IF run THEN "live" ELSE @]
    BY <1>1, <1>2, <1>3, DispatchGood
<1>5. i # 0 /\ state.scans[i].rev = root.rev /\ i \in ScanIDs
    <2>1. i # 0 /\ state.scans[i].rev = root.rev
        BY <1>1, <1>3, OpenIsActive DEF Terminal
    <2>2. Len(state.scans) <= MaxScans /\ state.scans \in Seq(ScanRecord)
        BY <1>1 DEF SnapGood, Snapshots
    <2> QED
        BY <1>3, <2>1, <2>2, ScansAssumption DEF ScanIDs
<1>6. runner \in [ScanIDs -> RunnerState]
    BY DEF IInv
<1>7. CASE run
    <2>1. c = Change(root, i, s, FALSE)
        BY <1>7
    <2> HIDE DEF c, s
    <2>2. c.root = root /\ c.id = i /\ c.scan = s
        BY <2>1 DEF Change
    <2> HIDE DEF r
    <2>3. /\ \A q \in Roots \ {r} : /\ state'.roots[q].follow = state.roots[q].follow
                                    /\ state'.roots[q].rev = state.roots[q].rev
          /\ state'.roots[r].follow = c.root.follow /\ state'.roots[r].rev = c.root.rev
          /\ \A j \in DOMAIN state'.scans :
                \/ j \in DOMAIN state.scans /\ state'.scans[j] = state.scans[j]
                \/ c.id = j
                \/ state'.scans[j].state = "queued"
        BY <1>1, <1>4, CommitOneEffect
    <2>4. \A q \in Roots : /\ state'.roots[q].follow = state.roots[q].follow
                           /\ state'.roots[q].rev = state.roots[q].rev
        BY <2>2, <2>3
    <2>5. FollowUpsKept
        BY <2>4 DEF FollowUpsKept
    <2>6. FollowsConfigured(state') /\ store' = state'
        BY <1>1, <1>4, <2>4 DEF FollowsConfigured, Commit, CommitAll
    <2>7. ASSUME NEW j \in DOMAIN state'.scans, state'.scans[j].state = "running",
                 spent.faults = 0
          PROVE  InRun(j)'
        <3>1. j = i \/ (j \in DOMAIN state.scans /\ state.scans[j].state = "running")
            BY <2>2, <2>3, <2>7
        <3>3. j # i => InRun(j)
            BY <2>7, <3>1 DEF Calm
        <3>2. runner'[i] = "live" /\ (j # i => runner'[j] = runner[j])
            BY <1>4, <1>5, <1>6, <1>7
        <3> QED
            BY <3>2, <3>3 DEF InRun
    <2> QED
        BY <1>1, <2>5, <2>6, <2>7 DEF Calm
<1>8. CASE ~run
    <2>1. c = Cancelled(root, state.scans[i], i)
        BY <1>5, <1>8
    <2>2. Mild(r, c)
        BY <1>1, <1>3, <2>1, DispatchMild
    <2>3. runner' = runner
        BY <1>4, <1>6, <1>8
    <2> HIDE DEF c, r
    <2>4. MildlyCommitted
        BY <1>1, <1>4, <2>2, MildCommit
    <2>5. FollowUpsKept
        BY <2>4 DEF MildlyCommitted
    <2>6. Calm'
        BY <1>1, <2>3, <2>4, CalmCommit
    <2> QED
        BY <2>5, <2>6
<1> QED
    BY <1>7, <1>8

\* No outcome of a run leaves the scan running.
LEMMA OutcomeEnds ==
    ASSUME NEW s \in ScanRecord, NEW context, NEW result, NEW o \in Outcomes(s, context, result)
    PROVE  o.state # "running"
<1>1. \/ o = Finalized(s, "cancelled") \/ o = Finalized(s, "deadline_exceeded")
      \/ o = [s EXCEPT !.state = "failed"] \/ o = [s EXCEPT !.state = "succeeded"]
      \/ \E w \in {"later", "due"} : o = [s EXCEPT !.state = "waiting", !.at = w]
    BY DEF Outcomes
<1> QED
    BY <1>1 DEF Finalized, ScanRecord

\* finish: the scan whose runner leaves is not left running.
LEMMA CalmFinish ==
    ASSUME IInv, Calm, NEW i \in ScanIDs, Finish(i)
    PROVE  Calm' /\ FollowUpsKept
<1>1. /\ SnapGood(state) /\ FollowsConfigured(state) /\ FollowsConfigured(store)
      /\ runner \in [ScanIDs -> RunnerState] /\ phase' = phase /\ spent' = spent
      /\ runner[i] # "none" /\ i \in DOMAIN state.scans
      /\ runner' = [runner EXCEPT ![i] = "done"]
    BY DEF IInv, Calm, Finish, InRun, Runners
<1>2. phase' # "closed"
    BY <1>1 DEF Calm, Runners
<1>3. ASSUME FollowsConfigured(state'), FollowsConfigured(store'),
             ASSUME NEW j \in DOMAIN state'.scans, state'.scans[j].state = "running"
             PROVE  j \in DOMAIN state.scans /\ state.scans[j].state = "running" /\ j # i
      PROVE  Calm'
    <2>1. ASSUME NEW j \in DOMAIN state'.scans, state'.scans[j].state = "running",
                 spent.faults = 0
          PROVE  InRun(j)'
        <3>1. j \in DOMAIN state.scans /\ state.scans[j].state = "running" /\ j # i
            BY <1>3, <2>1
        <3>2. InRun(j)
            BY <2>1, <3>1 DEF Calm
        <3> QED
            BY <1>1, <3>1, <3>2 DEF InRun
    <2> QED
        BY <1>1, <1>2, <1>3, <2>1 DEF Calm
<1> DEFINE scan == state.scans[i]
           r == scan.root
           root == state.roots[r]
<1>4. CASE scan.state # "running" /\ UNCHANGED <<state, store>>
    <2>1. Calm'
        BY <1>1, <1>3, <1>4
    <2> QED
        BY <1>4, <2>1 DEF FollowUpsKept
<1>5. ASSUME scan.state = "running", NEW report \in Reports, NEW result \in Result,
             NEW s \in Outcomes(normalizeEvidence(scan, report), runner[i], result),
             Commit(r, IF scan.rev # root.rev THEN Stale(root, scan, i) ELSE Finished(root, s, i))
      PROVE  Calm' /\ FollowUpsKept
    <2> DEFINE c == IF scan.rev # root.rev THEN Stale(root, scan, i) ELSE Finished(root, s, i)
    <2>1. scan \in ScanRecord /\ r \in Roots
        BY <1>1, <1>5, OpenIsActive DEF Terminal
    <2>2. /\ s \in ScanRecord /\ s.root = r /\ s.rev = scan.rev /\ CancelKept(s)
          /\ s.state # "running"
        BY <1>5, <2>1, EvidenceRecord, OutcomeRecord, OutcomeEnds
    <2>3. GoodChange(state, r, c)
        BY <1>1, <1>5, <2>2, FinishGood
    <2>4. Mild(r, c) /\ c.id = i /\ c.id # 0 /\ c.scan = s
        BY <1>1, <1>5, <2>2, FinishMild
    <2>5. Commit(r, c)
        BY <1>5
    <2> HIDE DEF c, r
    <2>6. MildlyCommitted
        BY <1>1, <2>1, <2>3, <2>4, <2>5, MildCommit
    <2>7. state'.scans[i] = s
        BY <1>1, <2>1, <2>3, <2>4, <2>5, CommitOneEffect
    <2>8. Calm'
        BY <1>3, <2>2, <2>6, <2>7 DEF MildlyCommitted
    <2> QED
        BY <2>6, <2>8 DEF MildlyCommitted
<1> QED
    BY <1>4, <1>5 DEF Finish

\* A step that moves no scan and no follow-up, and lets no runner leave its run.
LEMMA CalmQuiet ==
    ASSUME Calm, phase' = phase, spent' = spent, runner' = runner, store' = state',
           \A q \in Roots : /\ state'.roots[q].follow = state.roots[q].follow
                            /\ state'.roots[q].rev = state.roots[q].rev,
           DOMAIN state'.scans = DOMAIN state.scans,
           \A i \in DOMAIN state.scans : state'.scans[i].state = state.scans[i].state
    PROVE  Calm' /\ FollowUpsKept
<1>1. FollowsConfigured(state') /\ FollowsConfigured(store')
    BY DEF Calm, FollowsConfigured
<1>2. Runners' = Runners /\ \A i \in ScanIDs : InRun(i)' <=> InRun(i)
    BY DEF Runners, InRun
<1>3. FollowUpsKept
    BY DEF FollowUpsKept
<1>4. ASSUME NEW i \in DOMAIN state'.scans, state'.scans[i].state = "running", spent.faults = 0
      PROVE  InRun(i)'
    <2>1. InRun(i)
        BY <1>4 DEF Calm
    <2> QED
        BY <2>1 DEF InRun
<1> QED
    BY <1>1, <1>2, <1>3, <1>4 DEF Calm

LEMMA CalmDue ==
    ASSUME IInv, Calm
    PROVE  /\ \A r \in Roots : RootDue(r) => Calm' /\ FollowUpsKept
           /\ \A i \in ScanIDs : ScanDue(i) => Calm' /\ FollowUpsKept
<1>1. /\ state \in [roots : [Roots -> RootState], scans : Seq(ScanRecord)]
      /\ \A q \in Roots : state.roots[q] \in RootState
      /\ \A i \in DOMAIN state.scans : state.scans[i] \in ScanRecord
    <2>1. state \in [roots : [Roots -> RootState], scans : Seq(ScanRecord)]
        BY DEF IInv, SnapGood, Snapshots
    <2>2. state.scans \in Seq(ScanRecord) /\ state.roots \in [Roots -> RootState]
        BY <2>1
    <2> QED
        BY <2>1, <2>2
<1>2. ASSUME NEW r \in Roots, RootDue(r) PROVE Calm' /\ FollowUpsKept
    <2> DEFINE new == [state.roots[r] EXCEPT !.next = "due"]
               roots == [state.roots EXCEPT ![r] = new]
    <2>1. new.follow = state.roots[r].follow /\ new.rev = state.roots[r].rev
        BY <1>1 DEF RootState
    <2> HIDE DEF new
    <2>2. \A q \in Roots : roots[q] = IF q = r THEN new ELSE state.roots[q]
        BY <1>1
    <2> HIDE DEF roots
    <2>3. state' = [state EXCEPT !.roots = roots]
        BY <1>2 DEF RootDue, new, roots
    <2>4. state'.roots = roots /\ state'.scans = state.scans
        BY <1>1, <2>3
    <2>5. phase' = phase /\ spent' = spent /\ runner' = runner /\ store' = state'
        BY <1>2 DEF RootDue
    <2> QED
        BY <2>1, <2>2, <2>4, <2>5, CalmQuiet
<1>3. ASSUME NEW i \in ScanIDs, ScanDue(i) PROVE Calm' /\ FollowUpsKept
    <2> DEFINE new == [state.scans[i] EXCEPT !.at = "due"]
               scans == [state.scans EXCEPT ![i] = new]
    <2>1. i \in DOMAIN state.scans
        BY <1>3 DEF ScanDue
    <2>2. new.state = state.scans[i].state
        BY <1>1, <2>1 DEF ScanRecord
    <2> HIDE DEF new
    <2>3. /\ DOMAIN scans = DOMAIN state.scans
          /\ \A j \in DOMAIN state.scans : scans[j] = IF j = i THEN new ELSE state.scans[j]
        OBVIOUS
    <2> HIDE DEF scans
    <2>4. state' = [state EXCEPT !.scans = scans]
        BY <1>3 DEF ScanDue, new, scans
    <2>5. state'.roots = state.roots /\ state'.scans = scans
        BY <1>1, <2>4
    <2>6. phase' = phase /\ spent' = spent /\ runner' = runner /\ store' = state'
        BY <1>3 DEF ScanDue
    <2> QED
        BY <2>2, <2>3, <2>5, <2>6, CalmQuiet
<1> QED
    BY <1>2, <1>3

\* Start, Stop, its return, a restart and a stuttering step.
LEMMA CalmProcess ==
    ASSUME IInv, Calm, Start \/ Stop \/ StopReturns \/ Restart \/ UNCHANGED vars
    PROVE  Calm' /\ (phase = "started" /\ phase' = "started" => FollowUpsKept)
<1>1. CASE Start
    BY <1>1, CalmStart DEF Start
<1>2. CASE Stop
    BY <1>2 DEF Stop, Calm, IInv, FollowsConfigured, Runners, InRun
<1>3. CASE StopReturns
    BY <1>3 DEF StopReturns, Calm, FollowsConfigured, Runners, InRun
<1>4. CASE Restart
    <2>1. /\ state' = EmptySnapshot /\ store' = store /\ phase' = "new"
          /\ EmptySnapshot.scans = <<>>
          /\ \A r \in Roots : EmptySnapshot.roots[r].follow = FALSE
        BY <1>4 DEF Restart, EmptySnapshot, Unconfigured
    <2>2. FollowsConfigured(state') /\ FollowsConfigured(store')
        BY <2>1 DEF FollowsConfigured, Calm
    <2> QED
        BY <2>1, <2>2 DEF Calm
<1>5. CASE UNCHANGED vars
    BY <1>5 DEF vars, Calm, FollowsConfigured, Runners, InRun, FollowUpsKept
<1> QED
    BY <1>1, <1>2, <1>3, <1>4, <1>5

\* A step of one scan.
LEMMA CalmScanStep ==
    ASSUME IInv, Calm, NEW i \in ScanIDs, ScanStep(i)
    PROVE  Calm' /\ FollowUpsKept
<1>1. SnapGood(state) /\ FollowsConfigured(state) /\ runner \in [ScanIDs -> RunnerState]
    BY DEF IInv, Calm
<1>2. CASE Cancel(i)
    <2> DEFINE scan == [state.scans[i] EXCEPT !.cancel = TRUE]
               root == state.roots[scan.root]
               c == IF scan.state = "running" THEN Change(root, i, scan, FALSE)
                    ELSE Cancelled(root, scan, i)
    <2>1. /\ i \in DOMAIN state.scans /\ state.scans[i].state \notin Terminal
          /\ Commit(scan.root, c) /\ phase' = phase /\ runner' = runner /\ spent' = spent
        BY <1>2 DEF Cancel
    <2>2. scan.root \in Roots /\ GoodChange(state, scan.root, c) /\ Mild(scan.root, c)
        BY <1>1, <2>1, CancelGood, CancelMild
    <2> HIDE DEF scan, c
    <2>3. MildlyCommitted
        BY <1>1, <2>1, <2>2, MildCommit
    <2>4. FollowUpsKept
        BY <2>3 DEF MildlyCommitted
    <2> QED
        BY <2>1, <2>3, <2>4, CalmCommit
<1>3. CASE reportProgress(i)
    <2>1. i \in DOMAIN state.scans
        BY <1>3 DEF reportProgress, IInv, Runners
    <2>2. PICK report \in Reports :
            /\ state.scans[i].state = "running"
            /\ Commit(state.scans[i].root,
                 Change(state.roots[state.scans[i].root], i,
                        normalizeEvidence(state.scans[i], report), FALSE))
        BY <1>3 DEF reportProgress
    <2>3. MildlyCommitted
        BY <1>1, <2>1, <2>2, ProgressGood, ProgressMild, MildCommit
    <2>4. FollowUpsKept /\ phase' = phase /\ runner' = runner /\ spent' = spent
        BY <1>3, <2>3 DEF MildlyCommitted, reportProgress
    <2> QED
        BY <2>3, <2>4, CalmCommit
<1>4. CASE Finish(i)
    BY <1>4, CalmFinish
<1>5. CASE ScanDue(i)
    BY <1>5, CalmDue
<1>6. CASE Interrupt(i) \/ Timeout(i)
    <2>1. /\ state' = state /\ store' = store /\ phase' = phase /\ spent' = spent
          /\ InRun(i) /\ InRun(i)'
          /\ \A j \in ScanIDs \ {i} : runner'[j] = runner[j]
        BY <1>1, <1>6 DEF Interrupt, Timeout, InRun
    <2>2. phase' # "closed"
        BY <2>1 DEF Calm, InRun, Runners
    <2>3. ASSUME NEW j \in DOMAIN state.scans, state.scans[j].state = "running",
                 spent.faults = 0
          PROVE  InRun(j)'
        <3>1. InRun(j) /\ j \in ScanIDs
            BY <1>1, <2>3, ScansAreIDs DEF Calm
        <3>2. CASE j = i
            BY <2>1, <3>2
        <3>3. CASE j # i
            BY <2>1, <3>1, <3>3 DEF InRun
        <3> QED
            BY <3>2, <3>3
    <2>4. FollowUpsKept
        BY <2>1 DEF FollowUpsKept
    <2> QED
        BY <2>1, <2>2, <2>3, <2>4 DEF Calm, FollowsConfigured
<1>7. CASE FinishFails(i)
    <2>1. /\ state' = state /\ store' = store /\ phase' = phase
          /\ spent'.faults = spent.faults + 1 /\ spent.faults \in Nat
          /\ runner[i] # "none"
        BY <1>7, ScansAssumption DEF FinishFails, InRun, IInv, Spent
    <2>2. spent'.faults # 0 /\ phase' # "closed"
        BY <2>1 DEF Calm, Runners
    <2> QED
        BY <2>1, <2>2 DEF Calm, FollowsConfigured, FollowUpsKept
<1>8. CASE Exit(i)
    <2>1. /\ state' = state /\ store' = store /\ phase' = phase /\ spent' = spent
          /\ runner[i] = "done" /\ runner' = [runner EXCEPT ![i] = "none"]
        BY <1>8 DEF Exit
    <2>2. phase' # "closed"
        BY <2>1 DEF Calm, Runners
    <2>3. ASSUME NEW j \in DOMAIN state.scans, state.scans[j].state = "running",
                 spent.faults = 0
          PROVE  InRun(j)'
        <3>1. InRun(j)
            BY <2>3 DEF Calm
        <3>2. j # i
            BY <2>1, <3>1 DEF InRun
        <3> QED
            BY <1>1, <2>1, <3>1, <3>2 DEF InRun
    <2>4. FollowUpsKept
        BY <2>1 DEF FollowUpsKept
    <2> QED
        BY <2>1, <2>2, <2>3, <2>4 DEF Calm, FollowsConfigured
<1> QED
    BY <1>2, <1>3, <1>4, <1>5, <1>6, <1>7, <1>8 DEF ScanStep

\* A call about one root, and its time.
LEMMA CalmRootStep ==
    ASSUME IInv, Calm, NEW r \in Roots, RootStep(r)
    PROVE  Calm' /\ FollowUpsKept
<1>1. SnapGood(state) /\ FollowsConfigured(state) /\ spent \in Spent
    BY DEF IInv, Calm
<1>2. ASSUME NEW c, GoodChange(state, r, c), Mild(r, c), Commit(r, c),
             phase' = phase, runner' = runner, spent'.faults = spent.faults
      PROVE  Calm' /\ FollowUpsKept
    <2>1. MildlyCommitted
        BY <1>1, <1>2, MildCommit
    <2>2. FollowUpsKept
        BY <2>1 DEF MildlyCommitted
    <2> QED
        BY <1>2, <2>1, <2>2, CalmCommit
<1>3. [spent EXCEPT !.configs = @ + 1].faults = spent.faults
    BY <1>1 DEF Spent
<1>4. ASSUME NEW rev \in Revisions, NEW enabled \in BOOLEAN, ConfigureRoots(r, rev, enabled)
      PROVE  Calm' /\ FollowUpsKept
    <2> DEFINE c == IF state.roots[r].rev = None THEN Configured(rev, enabled)
                    ELSE Reconfigured(r, rev, enabled)
    <2>1. GoodChange(state, r, c)
        BY <1>1, ConfiguredGood, ReconfiguredGood
    <2>2. Mild(r, c)
        BY <1>1, ConfiguredMild, ReconfiguredMild
    <2>3. Commit(r, c) /\ phase' = phase /\ runner' = runner /\ spent'.faults = spent.faults
        BY <1>3, <1>4 DEF ConfigureRoots
    <2> HIDE DEF c
    <2> QED
        BY <1>2, <2>1, <2>2, <2>3
<1>5. CASE RetireRoot(r)
    <2> DEFINE c == Kept([state.roots[r] EXCEPT !.retired = TRUE, !.enabled = FALSE,
                                                !.next = "none"])
    <2>1. GoodChange(state, r, c) /\ Mild(r, c)
        BY <1>1, <1>5, RetiredGood, RetiredMild DEF RetireRoot
    <2>2. Commit(r, c) /\ phase' = phase /\ runner' = runner /\ spent'.faults = spent.faults
        BY <1>3, <1>5 DEF RetireRoot
    <2> HIDE DEF c
    <2> QED
        BY <1>2, <2>1, <2>2
<1>6. CASE Trigger(r)
    <2> DEFINE root == state.roots[r]
               i == activeScan(state, r)
               c == IF i = 0 THEN Change(root, 0, None, TRUE)
                    ELSE IF state.scans[i].state = "waiting"
                    THEN Change(root, i, [state.scans[i] EXCEPT !.at = "due"], FALSE)
                    ELSE Kept(retainFollowUp(root))
    <2>1. GoodChange(state, r, c) /\ Mild(r, c)
        BY <1>1, <1>6, TriggerGood, TriggerMild DEF Trigger
    <2>2. Commit(r, c) /\ phase' = phase /\ runner' = runner /\ spent' = spent
        BY <1>6 DEF Trigger
    <2> HIDE DEF c
    <2> QED
        BY <1>2, <2>1, <2>2
<1>7. CASE RootDue(r)
    BY <1>7, CalmDue
<1> QED
    BY <1>4, <1>5, <1>6, <1>7 DEF RootStep

\* Every step keeps Calm, and one of a started scheduler its follow-ups.
LEMMA CalmNext ==
    IInv /\ Calm /\ [Next]_vars =>
        Calm' /\ (phase = "started" /\ phase' = "started" => FollowUpsKept)
<1> SUFFICES ASSUME IInv, Calm, [Next]_vars
             PROVE  Calm' /\ (phase = "started" /\ phase' = "started" => FollowUpsKept)
    OBVIOUS
<1>1. CASE Start \/ Stop \/ StopReturns \/ Restart \/ UNCHANGED vars
    BY <1>1, CalmProcess
<1>2. CASE Tick
    <2> DEFINE ch == [r \in Roots |-> TickRoot(r)]
    <2>1. SnapGood(state) /\ FollowsConfigured(state)
        BY DEF IInv, Calm
    <2>2. \A r \in Roots : GoodChange(state, r, ch[r]) /\ Mild(r, ch[r])
        BY <2>1, TickGood, TickMild
    <2>3. CommitAll(state, ch) /\ phase' = phase /\ runner' = runner /\ spent' = spent
        BY <1>2 DEF Tick
    <2> HIDE DEF ch
    <2>4. MildlyCommitted
        BY <2>1, <2>2, <2>3, MildCommitAll
    <2>5. FollowUpsKept
        BY <2>4 DEF MildlyCommitted
    <2> QED
        BY <2>3, <2>4, <2>5, CalmCommit
<1>3. CASE StartOne
    BY <1>3, CalmStartOne
<1>4. CASE \E i \in ScanIDs : ScanStep(i)
    BY <1>4, CalmScanStep
<1>5. CASE \E r \in Roots : RootStep(r)
    BY <1>5, CalmRootStep
<1> QED
    BY <1>1, <1>2, <1>3, <1>4, <1>5 DEF Next

LEMMA SpecCalm == Spec => [](IInv /\ Calm)
<1>1. Init => IInv /\ Calm
    BY InitIInv, CalmInit
<1>2. IInv /\ Calm /\ [Next]_vars => (IInv /\ Calm)'
    BY NextIInv, CalmNext
<1> QED
    BY <1>1, <1>2, PTL DEF Spec

-----------------------------------------------------------------------------
(* The theorems *)

\* Once Stop has returned, no scan is marked running in memory, as long as each
\* result could be committed: every run it waited for has ended its scan.
THEOREM ClosedStaysQuiet == Spec => []ClosedIsQuiet
<1>1. IInv /\ Calm => ClosedIsQuiet
    <2> SUFFICES ASSUME IInv, Calm, phase = "closed", spent.faults = 0,
                        NEW i \in DOMAIN state.scans
                 PROVE  state.scans[i].state # "running"
        BY DEF ClosedIsQuiet
    <2>1. i \in ScanIDs /\ Runners = {}
        BY ScansAreIDs DEF IInv, Calm
    <2>2. ~InRun(i)
        BY <2>1 DEF InRun, Runners
    <2> QED
        BY <2>2 DEF Calm
<1> QED
    BY <1>1, SpecCalm, PTL

\* No call, run, poll or reconfiguration of a started scheduler drops the
\* follow-up of a root without admitting its next scan or cancelling the open
\* one, for any number of roots and scans.
THEOREM FollowUpsAreHonoured == Spec => FollowUpHonoured
<1> DEFINE Honoured ==
        \A r \in Roots :
            /\ phase = "started" /\ phase' = "started"
            /\ state.roots[r].follow /\ ~state'.roots[r].follow
            /\ ~state.roots[r].retired
            => \/ state'.roots[r].active > Len(state.scans)
               \/ state'.scans[state.roots[r].active].state = "cancelled"
<1>1. IInv /\ Calm /\ [Next]_vars => Honoured
    BY CalmNext DEF FollowUpsKept
<1>2. IInv /\ Calm /\ [Next]_vars => [Honoured]_vars
    BY <1>1
<1> QED
    BY <1>2, SpecCalm, PTL DEF Spec, FollowUpHonoured
=============================================================================
