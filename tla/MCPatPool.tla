------------------------------ MODULE MCPatPool ------------------------------
(* Small instance of PatPool for TLC: two limits, whose windows differ.     *)
EXTENDS PatPool, TLC

CONSTANTS t1, t2

MCTasks == {t1, t2}
MCResources == {"core", "graphql"}
MCQuota == [r \in MCResources |-> 1]
MCWindow == [r \in MCResources |-> IF r = "core" THEN 2 ELSE 1]

MCSymmetry == Permutations(Tasks)
=============================================================================
