--------------------------- MODULE MCMultiSessions ---------------------------
(* Small instances of MultiSessions for TLC: one agent whose repositories   *)
(* span two installations, and one that spans the second only.              *)
EXTENDS MultiSessions, TLC

CONSTANTS both, second, s1, s2, t1, t2

MCOwners == {1, 2}
MCAgents == {both, second}
MCAgentOwners == [a \in MCAgents |-> IF a = both THEN {1, 2} ELSE {2}]
MCSids == {s1, s2}
MCInitializers == {t1}
MCMaxTokens == [o \in MCOwners |-> 3 - o]
MCTasks == {t1, t2}

MCSymmetry == Permutations(Sids)
=============================================================================
