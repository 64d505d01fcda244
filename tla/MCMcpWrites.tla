----------------------------- MODULE MCMcpWrites -----------------------------
(* Small instances of McpWrites for TLC: one agent confined to a repository *)
(* and one free to read anywhere, a tool of each kind.                      *)
EXTENDS McpWrites, TLC

CONSTANTS k1, k2, k3, scoped, free, r1, r2, read, write, local

MCCalls2 == {k1, k2}
MCCalls3 == {k1, k2, k3}
MCAgents1 == {scoped}
MCAgents2 == {scoped, free}
MCTools == {read, write, local}
MCReadTools == {read}
MCLocalTools == {local}
MCRepos == {r1, r2}
MCAgentTools == [a \in Agents |-> IF a = scoped THEN Tools ELSE {read}]
MCAgentRepos == [a \in Agents |-> IF a = scoped THEN {r1} ELSE {}]

MCNoFaults == {}
MCCancel == {"cancel"}
MCCancelCrash == {"cancel", "crash"}
MCError == {"error"}
MCTorn == {"error", "torn"}

MCSymmetry == Permutations(Calls)
=============================================================================
