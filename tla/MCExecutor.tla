----------------------------- MODULE MCExecutor -----------------------------
(***************************************************************************)
(* Instances of Executor for TLC.                                          *)
(***************************************************************************)
EXTENDS Executor, TLC

CONSTANTS a1, a2, t1, t2, e1, e2

OneExecutor == [t \in Threads |-> e1]
TwoExecutors == [t \in Threads |-> IF t = t1 THEN e1 ELSE e2]

NoOverlap == {}
FullOverlap == {p \in Actions \X Actions : p[1] # p[2]}

FaultsAfterReserve == JournalPoint \ {"reserve"}

\* The two goroutines are alike, and so are the executors they belong to.
Ids == {t1, t2, e1, e2}
Swap ==
    {[x \in Ids |-> x],
     [x \in Ids |-> CASE x = t1 -> t2 [] x = t2 -> t1 [] x = e1 -> e2 [] OTHER -> e1]}

SwapThreads == Permutations({t1, t2})

\* Control compares a version with a row's only for equality and for being one
\* behind, so states that agree on every lag up to that are the same state.
Lag(t) ==
    IF th[t].act = None THEN 0
    ELSE LET d == run[th[t].act].version - th[t].ver IN IF d > 2 THEN 2 ELSE d

VersionFree ==
    <<[a \in Actions |-> [run[a] EXCEPT !.version = 0]],
      attempts, effect, overdue, world,
      [t \in Threads |-> [th[t] EXCEPT !.ver = Lag(t)]],
      local, fallback, up, spent>>
=============================================================================
