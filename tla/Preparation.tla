---------------------------- MODULE Preparation ----------------------------
(***************************************************************************)
(* The preparation of a cycle as its row shows it, where the scheduler and *)
(* the decision cycle meet: a cycle is created once, its report is         *)
(* researched, after waits again, and published once; and what missed its  *)
(* time, or failed before its report, never comes back.                    *)
(***************************************************************************)
CONSTANT Cycles

VARIABLE phase

vars == phase

Init == phase \in [Cycles -> {"absent", "queued"}]

Becomes(c, old, new) == phase[c] \in old /\ phase' = [phase EXCEPT ![c] = new]

Create(c) == Becomes(c, {"absent"}, "queued")

Research(c) == Becomes(c, {"queued", "waiting"}, "researching")

(* The data are not there yet: the research is put off.                    *)
Wait(c) == Becomes(c, {"researching"}, "waiting")

Publish(c) == Becomes(c, {"researching"}, "published")

(* A request that cannot be researched fails before it begins.             *)
Fail(c) == Becomes(c, {"queued", "waiting", "researching"}, "failed")

Miss(c) == Becomes(c, {"queued"}, "missed")

Next ==
  \E c \in Cycles :
    Create(c) \/ Research(c) \/ Wait(c) \/ Publish(c) \/ Fail(c) \/ Miss(c)

Spec == Init /\ [][Next]_vars
=============================================================================
