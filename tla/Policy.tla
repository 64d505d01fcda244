-------------------------------- MODULE Policy --------------------------------
(***************************************************************************)
(* The names that repository policy compares (src/src/policy.rs), and the  *)
(* scopes mcp.rs derives from an agent's allowlist.  A name is a spelling  *)
(* of what GitHub knows in lower case and without spaces around it:        *)
(* policy, routing, validation and minting each normalise it their own     *)
(* way, and have to agree all the same.                                    *)
(***************************************************************************)
CONSTANTS Accounts, Repositories,  \* as GitHub knows them
          Nested,                  \* names with a slash in them
          Tools, ReadTools,        \* tool names; get_*, list_*, search_*, *_read
          NoSlash,                 \* an allowlist entry without a slash
          NoTarget                 \* a call that names no repository

ASSUME PolicyAssumption ==
  /\ {"", "*"} \cap (Accounts \cup Repositories \cup Nested) = {}
  /\ Nested \cap Repositories = {}
  /\ ReadTools \subseteq Tools

\* The text of a name, whether it has capitals, and whether it has spaces
\* around it.
Spelt(ids) == [id : ids, upper : BOOLEAN, padded : BOOLEAN]
Owners == Spelt(Accounts \cup {""})
Names == Spelt(Repositories \cup Nested \cup {"", "*"})
Entries == [owner : Owners, name : Names] \cup {NoSlash}
Targets == [owner : Owners, name : Names] \cup {NoTarget}

Plain(id) == [id |-> id, upper |-> FALSE, padded |-> FALSE]
Lower(n) == [id |-> n.id, upper |-> FALSE, padded |-> n.padded]
Trim(n) == [id |-> n.id, upper |-> n.upper, padded |-> FALSE]

IsEmpty(n) == n.id = "" /\ ~n.padded
IsStar(n) == n.id = "*" /\ ~n.padded

\* Names that are never seen before are writes.
IsWrite(tool) == tool \notin ReadTools

\* The entries that split_once('/') splits.
Split(repos) == {e \in repos : e # NoSlash}

\* resolve_repo
ResolveRepo(args) ==
  IF args = NoTarget \/ IsEmpty(Trim(args.owner)) \/ IsEmpty(Trim(args.name))
  THEN NoTarget
  ELSE [owner |-> Trim(args.owner), name |-> Trim(args.name)]

RepoAllowed(repos, owner, repo) ==
  \/ repos = {}
  \/ \E e \in Split(repos) :
       /\ Lower(e.owner) = Lower(owner)
       /\ IsStar(e.name) \/ Lower(e.name) = Lower(repo)

\* The owners an allowlist spans: one route each.
RouteOwners(repos) ==
  {Lower(Trim(e.owner)) : e \in Split(repos)} \ {Plain("")}

\* Names to scope a token to, none for the whole installation.  With one
\* installation: exact entries of a single owner ...
ScopeEnvelope(repos) ==
  IF \A e, f \in repos : /\ e # NoSlash /\ f # NoSlash /\ e.owner = f.owner
                         /\ ~IsStar(e.name) /\ ~IsEmpty(e.name)
  THEN {e.name : e \in repos}
  ELSE {}

\* Mutant: the owner is compared as it is spelt, like with one installation.
ScopeEnvelopeForOwnerExact(repos, owner) ==
  LET own == {e \in Split(repos) : e.owner = owner}
  IN  IF \E e \in own : IsStar(e.name) \/ IsEmpty(e.name)
      THEN {}
      ELSE {e.name : e \in own}

\* ... with several, the entries of the installation's owner.
ScopeEnvelopeForOwner(repos, owner) ==
  LET own == {e \in Split(repos) : Lower(e.owner) = Lower(owner)}
  IN  IF \E e \in own : IsStar(e.name) \/ IsEmpty(e.name)
      THEN {}
      ELSE {e.name : e \in own}

\* validate: owner/name or owner/*, without spaces around either part.
WellFormed(e) ==
  /\ e # NoSlash
  /\ ~IsEmpty(e.owner) /\ ~e.owner.padded
  /\ \/ IsStar(e.name)
     \/ ~IsEmpty(e.name) /\ ~e.name.padded /\ e.name.id \notin Nested
=============================================================================
