---------------------------- MODULE TokenRequests ----------------------------
(***************************************************************************)
(* What AppTokenProvider (src/src/app_token.rs) can be asked for, the      *)
(* cache key of a request, and what the token minted for it may do.        *)
(***************************************************************************)

CONSTANTS Repos,        \* repositories a git credential is asked for
          Envelopes     \* repository envelopes an MCP token is asked for

TokenScoped(envelope) ==
  [purpose |-> "mcp", repos |-> envelope, access |-> "all"]

\* Mutant: one purpose, hence one cache key, for both kinds of git credential.
TokenGitOnePurpose(repo, readOnly) ==
  [purpose |-> "git", repos |-> {repo},
   access |-> IF readOnly THEN "read" ELSE "write"]

TokenGit(repo, readOnly) ==
  IF readOnly
  THEN [purpose |-> "git:contents=read", repos |-> {repo}, access |-> "read"]
  ELSE [purpose |-> "git:contents=write", repos |-> {repo}, access |-> "write"]

Requests == {TokenScoped(e) : e \in Envelopes}
              \cup {TokenGit(r, b) : r \in Repos, b \in BOOLEAN}

\* The key names the purpose and the sorted envelope, not the permissions.
CacheKey(r) == <<r.purpose, r.repos>>

Keys == {CacheKey(r) : r \in Requests}

\* The body of the mint request: repositories and permissions.
ScopeOf(r) == <<r.repos, r.access>>
=============================================================================
