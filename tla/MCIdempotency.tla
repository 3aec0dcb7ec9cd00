--------------------------- MODULE MCIdempotency ---------------------------
(* Instances of Idempotency. *)
EXTENDS Idempotency

\* Values 1 and 2 of one connection.
Create(v) == [op |-> "create", match |-> v, value |-> v]
Patch(m, v) == [op |-> "patch", match |-> m, value |-> v]
Delete(v) == [op |-> "delete", match |-> v, value |-> v]

\* Two requests under one key, and one that takes the change back.
MCBodies == [patch |-> {Patch(1, 2), Patch(1, 1)}, revert |-> {Patch(2, 1)},
             create |-> {Create(1)}, delete |-> {Delete(1)}]
MCStarts == {Absent, Active(1)}
=============================================================================
