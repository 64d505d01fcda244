-------------------------------- MODULE MCObk --------------------------------
(* Small instance of Obk for TLC: a command and another client; a pull      *)
(* request and its diff, which one of two identities may not read; GraphQL  *)
(* documents that ask for it or change it, one of them a change that does   *)
(* not begin with "mutation"; and a path outside allowed_owners.            *)
EXTENDS Obk

CONSTANTS c1, web, wide, narrow

Get(k, p) == [kind |-> k, path |-> p, begins |-> "other", runs |-> "read"]
Document(b, x) ==
  [kind |-> "graphql", path |-> "pull", begins |-> b, runs |-> x]

MCPull == Get("json", "pull")
MCDiff == Get("raw", "pull")
MCForeign == Get("json", "foreign")

MCQuery == Document("other", "read")
MCMutation == Document("mutation", "change")
MCDisguised == Document("other", "change")

MCTasks == {c1, web}
MCCommands == {c1}
MCClients == {web}
MCIdentities == {wide, narrow}
MCRequests == {MCPull, MCDiff, MCForeign,
               MCQuery, MCMutation, MCDisguised}
MCAccess == [i \in MCIdentities |-> IF i = wide THEN {"pull"} ELSE {}]
MCAllowed == {"pull"}
MCMaxVersion == [p \in Paths |-> IF p = "pull" THEN 1 ELSE 0]

MCLines == {[kind |-> "api", asks |-> <<MCPull>>],
            [kind |-> "parsed", asks |-> <<MCPull, MCPull>>],
            [kind |-> "diff", asks |-> <<MCDiff>>],
            [kind |-> "direct", asks |-> <<>>]}

MCGithub == [name |-> "github.com", upper |-> FALSE, port |-> "none"]
MCInput(h) == [protocol |-> "https", host |-> h, key |-> TRUE, repo |-> TRUE]

MCHosts == [name : {"github.com", "gist.github.com"}, upper : BOOLEAN,
            port : {"none", "443", "8443"}]
MCInputs == {MCInput(h) : h \in MCHosts}
              \cup {[MCInput(MCGithub) EXCEPT !.protocol = "http"],
                   [MCInput(MCGithub) EXCEPT !.key = FALSE],
                   [MCInput(MCGithub) EXCEPT !.repo = FALSE]}
=============================================================================
