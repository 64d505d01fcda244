---------------------------- MODULE MCMcpSessions ----------------------------
(* Small instances of McpSessions for TLC. *)
EXTENDS McpSessions, TLC

CONSTANTS a1, a2, c1, c2, s1, s2, t1, t2

MCAgents == {a1, a2}
MCCreds == {c1, c2}
MCExpiring == {c1}
MCSids == {s1, s2}
MCTasks == {t1, t2}

MCSymmetry == Permutations(Sids) \cup Permutations(Tasks)
=============================================================================
