--------------------------- MODULE MCGitCredential ---------------------------
(* Small instances of GitCredential for TLC. *)
EXTENDS GitCredential, TLC

CONSTANTS k1, k2, reader, writer, r1, r2

MCCalls == {k1, k2}
MCAgents == {reader, writer}
MCRepos == {r1, r2}
MCAgentRepos == [a \in MCAgents |-> MCRepos]
MCReadOnly == [a \in MCAgents |-> a = reader]
MCFaults == {"error"}
MCLifetimes == {2}

MCSymmetry == Permutations(Calls)
=============================================================================
