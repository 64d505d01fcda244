------------------------------- MODULE Admission -------------------------------
(***************************************************************************)
(* From the configuration to a forwarded call: what octobroker starts with *)
(* (src/src/config.rs, main.rs), what of an agent's calls it lets through, *)
(* and with which credential (src/src/mcp.rs).  Policy, routing, token     *)
(* scopes and startup validation read one allowlist in different ways;     *)
(* here they are put together.                                             *)
(*                                                                         *)
(* A request is one step: how the steps of concurrent requests interleave, *)
(* and what expires between them, is the subject of McpSessions,           *)
(* MultiSessions and McpWrites.                                            *)
(***************************************************************************)
EXTENDS Policy, Sequences, Naturals

CONSTANTS Files,        \* configuration files
          AgentIds, Keys,
          LocalTools,   \* octobroker's own tools
          Calls,        \* [tool, args]: what a tools/call may ask for
          Sids,
          NoApp, NoOwner, NoAccount, NoConfig, NoAgent, NoSid, NoPin, NoCred

VARIABLES config,       \* what octobroker runs with; NoConfig while it is down
          pins,         \* mcp_sessions
          answer        \* the last tools/call, and what came of it

vars == <<config, pins, answer>>

-----------------------------------------------------------------------------
(* Configurations                                                          *)

Agent == [id : AgentIds, keys : SUBSET Keys, tools : SUBSET Tools,
          repos : SUBSET Entries]
App == [owner : Owners \cup {NoOwner}, installation : Accounts \cup {NoAccount}]

ASSUME AdmissionAssumption ==
  /\ \A f \in Files :
       /\ DOMAIN f = {"writes", "git", "audit", "pool", "agents", "app", "apps"}
       /\ {f.writes, f.git, f.audit, f.pool} \subseteq BOOLEAN
       /\ \A a \in f.agents : a \in Agent
       /\ f.app \in App \cup {NoApp}
       /\ f.apps \in Seq(Owners)
  /\ LocalTools \subseteq Tools \ ReadTools
  /\ \A c \in Calls : /\ DOMAIN c = {"tool", "args"}
                      /\ c.tool \in Tools /\ c.args \in Targets
  /\ NoConfig \notin Files
  /\ NoAgent \notin Agent
  /\ NoSid \notin Sids
  /\ NoAccount \notin Accounts /\ NoApp \notin App

\* from_raw: the owners of the installations are normalised.
FromRaw(f) == [f EXCEPT !.apps = [n \in DOMAIN f.apps |-> Lower(Trim(f.apps[n]))]]

Multi(c) == c.apps # <<>>

\* The owners that MultiAppTokenProvider has a provider for.
Providers(c) == {c.apps[n] : n \in DOMAIN c.apps}

Backed(c) == c.app # NoApp \/ Multi(c)

ValidWrites(c) ==
  c.writes => /\ c.agents # {} /\ Backed(c) /\ c.audit
              /\ Multi(c) => \A a \in c.agents :
                               a.repos = {} => a.tools \subseteq ReadTools

ValidGit(c) ==
  c.git => /\ c.agents # {} /\ Backed(c) /\ c.audit
           /\ c.app # NoApp => /\ c.app.owner # NoOwner
                               /\ ~IsEmpty(Trim(c.app.owner))

ValidMulti(c) ==
  Multi(c) => /\ c.app = NoApp
              /\ Plain("") \notin Providers(c)
              /\ \A m, n \in DOMAIN c.apps : c.apps[m] = c.apps[n] => m = n
              /\ c.agents # {}
              /\ \A a \in c.agents : \A e \in a.repos :
                   WellFormed(e) /\ Lower(e.owner) \in Providers(c)

\* Mutant: writes need no audit.
ValidateUnaudited(c) ==
  /\ ValidWrites([c EXCEPT !.audit = TRUE]) /\ ValidGit(c) /\ ValidMulti(c)

\* McpConfig::validate
Validate(c) == ValidWrites(c) /\ ValidGit(c) /\ ValidMulti(c)

\* Every agent has a key, the App an installation, and validate() is content;
\* otherwise the process ends.
Accepts(c) ==
  /\ \A a \in c.agents : a.keys # {}
  /\ c.app # NoApp => c.app.owner # NoOwner \/ c.app.installation # NoAccount
  /\ Validate(c)

-----------------------------------------------------------------------------
(* Credentials                                                             *)

Pat == [kind |-> "pat", owner |-> NoAccount, names |-> {}]
Token(kind, owner, names) == [kind |-> kind, owner |-> owner, names |-> names]

\* The installation of the single App, as configured or, if GitHub finds one,
\* as discovered.
Installations(app) ==
  IF app.installation # NoAccount THEN {app.installation}
  ELSE {o \in Accounts : app.owner.id = o /\ ~app.owner.padded}

\* GitHub mints for repositories that it finds, in its own spelling of case.
Mintable(names) == \A n \in names : n.id \in Repositories /\ ~n.padded

Reaches(cred, repo) == cred.names = {} \/ \E n \in cred.names : n.id = repo

\* Routes have the owner as their key, in lower case, and the App of an owner is
\* installed in that owner's account.
Route(a, owner) ==
  Token("routed", owner.id, ScopeEnvelopeForOwner(a.repos, owner))

\* Mutant: routes are looked up as the call spells their owner.
RouteKeyAsSpelt(target) == target.owner

RouteKey(target) == Lower(target.owner)

Restricted(a) == a # NoAgent /\ a.repos # {}
Routed(a) == Multi(config) /\ a # NoAgent /\ RouteOwners(a.repos) # {}

\* What pick_credential makes of a request without a session: a credential,
\* or a reason for none.  Which owner is the first, for a call without a target,
\* is left open.
Outcome(status, cred) == [status |-> status, cred |-> cred]
Unavailable == Outcome("unavailable", NoCred)

FreshRoute(a, key) ==
  IF Lower(key) \notin Providers(config) THEN {Outcome("outside", NoCred)}
  ELSE {Unavailable}
         \cup {Outcome("ok", c) : c \in {d \in {Route(a, key)} : Mintable(d.names)}}

Fresh(a, target) ==
  IF Routed(a)
  THEN IF target # NoTarget THEN FreshRoute(a, RouteKey(target))
       ELSE UNION {FreshRoute(a, key) : key \in RouteOwners(a.repos)}
  ELSE IF config.app # NoApp
  THEN LET envelope == IF a = NoAgent THEN {} ELSE ScopeEnvelope(a.repos)
       IN  {Unavailable}
             \cup {Outcome("ok", Token("app", o, envelope)) :
                     o \in {p \in Installations(config.app) : Mintable(envelope)}}
  ELSE IF config.pool THEN {Outcome("ok", Pat)} ELSE {Unavailable}

\* A session has its own credentials: one, or a route for each owner.
Resumed(a, s, target) ==
  IF pins[s] = NoPin THEN {Outcome("not_found", NoCred)}
  ELSE IF pins[s].agent # a THEN {Outcome("forbidden", NoCred)}
  ELSE LET routes == {c \in pins[s].creds :
                        c.kind = "routed" /\ target # NoTarget
                          => Plain(c.owner) = RouteKey(target)}
       IN  IF routes = {} THEN {Outcome("outside", NoCred)}
           ELSE {Outcome("ok", c) : c \in routes}

PickCredential(a, s, target) ==
  IF s = NoSid THEN Fresh(a, target) ELSE Resumed(a, s, target)

-----------------------------------------------------------------------------
(* Requests                                                                *)

\* authenticate: without agents everybody is trusted, otherwise the key counts;
\* which of two agents with one key is the first is left open.
Authenticates(key, a) ==
  IF config.agents = {} THEN a = NoAgent
  ELSE a \in config.agents /\ key \in a.keys

Denied(a, tool, target) ==
  /\ a # NoAgent
  /\ \/ tool \notin a.tools
     \/ IsWrite(tool) /\ ~config.writes
     \/ IsWrite(tool) /\ Multi(config) /\ a.repos = {}
     \/ a.repos # {} /\ target = NoTarget
     \/ a.repos # {} /\ target # NoTarget
        /\ ~RepoAllowed(a.repos, target.owner, target.name)

\* octobroker's own tools, whether or not policy has looked at the call.
LocalDenied(a, tool) ==
  tool \in LocalTools /\ (a = NoAgent \/ ~config.writes)

Replied(a, s, call, status, cred, place) ==
  answer' = [agent |-> a, sid |-> s, call |-> call, status |-> status,
             cred |-> cred, place |-> place]

\* tools/call, up to the credential it is forwarded with.
Refuse(a, s, call) ==
  LET target == ResolveRepo(call.args)
  IN  \/ /\ Denied(a, call.tool, target) \/ LocalDenied(a, call.tool)
         /\ Replied(a, s, call, "denied", NoCred, NoTarget)
      \/ /\ ~Denied(a, call.tool, target) /\ ~LocalDenied(a, call.tool)
         /\ \E o \in PickCredential(a, s, target) :
              /\ o.status # "ok"
              /\ Replied(a, s, call, o.status, NoCred, NoTarget)

Forward(a, s, call) ==
  LET target == ResolveRepo(call.args)
  IN  /\ ~Denied(a, call.tool, target) /\ ~LocalDenied(a, call.tool)
      /\ call.tool \notin LocalTools
      /\ \E o \in PickCredential(a, s, target) :
           /\ o.status = "ok"
           /\ Replied(a, s, call, "forwarded", o.cred, target)

\* Where GitHub has the comment, or the commit, that a call is about.
Places == [owner : Accounts, name : Repositories]

\* Mutant: the comment may be anywhere.
SamePlaceAnywhere(args, place) == place \in Places

\* minimize_comment compares the comment's repository with its arguments as
\* they are, commit_status_set puts them into the path: either way spaces do
\* not pass, and case does not matter.
SamePlace(args, place) ==
  /\ args # NoTarget
  /\ Lower(args.owner) = Plain(place.owner)
  /\ Lower(args.name) = Plain(place.name)

\* A tool of octobroker's own: GitHub says where its subject is, and it is
\* changed, or left alone.
RunLocal(a, s, call, place) ==
  LET target == ResolveRepo(call.args)
  IN  /\ ~Denied(a, call.tool, target) /\ ~LocalDenied(a, call.tool)
      /\ call.tool \in LocalTools
      /\ \E o \in PickCredential(a, s, target) :
           /\ o.status = "ok"
           /\ \/ /\ SamePlace(call.args, place)
                 /\ Replied(a, s, call, "changed", o.cred, place)
              \/ Replied(a, s, call, "left", o.cred, NoTarget)

\* A body that parse_frame reads as one tools/call frame; what policy decides of
\* a call is decided of no other body (a JSON-RPC batch), which is not modelled.
ToolsCall(key, a, s, call) ==
  /\ config # NoConfig
  /\ Authenticates(key, a)
  /\ \/ Refuse(a, s, call) \/ Forward(a, s, call)
     \/ \E place \in Places : RunLocal(a, s, call, place)
  /\ UNCHANGED <<config, pins>>

Pin(s, a, creds) ==
  /\ pins' = [pins EXCEPT ![s] = [agent |-> a, creds |-> creds]]
  /\ UNCHANGED <<config, answer>>

\* initialize: a session for each owner of a restricted agent, or one with the
\* credential a request without a session gets.
Initialize(key, a, s) ==
  /\ config # NoConfig
  /\ Authenticates(key, a)
  /\ pins[s] = NoPin
  /\ \/ /\ Multi(config) /\ Restricted(a)
        /\ RouteOwners(a.repos) # {}
        /\ RouteOwners(a.repos) \subseteq Providers(config)
        /\ \A o \in RouteOwners(a.repos) : Mintable(Route(a, o).names)
        /\ Pin(s, a, {Route(a, o) : o \in RouteOwners(a.repos)})
     \/ /\ ~(Multi(config) /\ Restricted(a))
        /\ \E o \in Fresh(a, NoTarget) :
             o.status = "ok" /\ Pin(s, a, {o.cred})

\* A pin expires, is evicted, terminated or deleted.
Forget(s) ==
  /\ pins' = [pins EXCEPT ![s] = NoPin]
  /\ UNCHANGED <<config, answer>>

NoAnswer == [agent |-> NoAgent, sid |-> NoSid, call |-> NoTarget,
             status |-> "none", cred |-> NoCred, place |-> NoTarget]

Start(f) ==
  /\ config = NoConfig
  /\ Accepts(FromRaw(f))
  /\ config' = FromRaw(f)
  /\ UNCHANGED <<pins, answer>>

Stop ==
  /\ config # NoConfig
  /\ config' = NoConfig
  /\ pins' = [s \in Sids |-> NoPin]
  /\ answer' = NoAnswer

Init == /\ config = NoConfig
        /\ pins = [s \in Sids |-> NoPin]
        /\ answer = NoAnswer

Request(key, a) ==
  \/ \E s \in Sids \cup {NoSid}, call \in Calls : ToolsCall(key, a, s, call)
  \/ \E s \in Sids : Initialize(key, a, s)

Agents == {NoAgent} \cup IF config = NoConfig THEN {} ELSE config.agents

Next == \/ \E f \in Files : Start(f)
        \/ \E key \in Keys, a \in Agents : Request(key, a)
        \/ \E s \in Sids : Forget(s)
        \/ Stop

Spec == Init /\ [][Next]_vars

-----------------------------------------------------------------------------
Sent == answer.status \in {"forwarded", "changed", "left"}

\* "Writes never run on pooled PATs", are "never available in network-trust
\* mode" to octobroker's own tools, and are "fail-closed audited": a write of
\* an agent goes out only with an App token, with an audit to record it, and
\* where writes are enabled, whichever session it comes with.
WritesAreGuarded ==
  Sent /\ IsWrite(answer.call.tool) =>
    /\ answer.agent # NoAgent => /\ config.writes /\ config.audit
                                 /\ answer.cred.kind # "pat"
    /\ answer.agent = NoAgent => /\ config.agents = {}
                                 /\ answer.call.tool \notin LocalTools

\* With several installations, each token reaches exactly the repositories of
\* its owner that policy allows the agent: none that is denied, so that GitHub
\* itself enforces the boundary, and all that are allowed.  With one, it
\* reaches at least those.
TokenFits(a, cred) ==
  cred.kind # "pat" /\ Restricted(a) =>
    \A r \in Repositories :
      LET allowed == RepoAllowed(a.repos, Plain(cred.owner), Plain(r))
      IN  /\ allowed => Reaches(cred, r)
          /\ cred.kind = "routed" /\ Reaches(cred, r) => allowed

TokensFitAllowlist ==
  /\ \A s \in Sids : pins[s] # NoPin =>
       \A c \in pins[s].creds : TokenFits(pins[s].agent, c)
  /\ Sent => TokenFits(answer.agent, answer.cred)

\* What a restricted agent does, it does in a repository that its allowlist
\* names: where policy looked is where the call is routed, and where
\* octobroker's own tools change something, whatever id they are given.
CallsStayInAllowlist ==
  Restricted(answer.agent) =>
    /\ answer.status \in {"forwarded", "changed"} =>
         RepoAllowed(answer.agent.repos,
                     ResolveRepo(answer.call.args).owner,
                     ResolveRepo(answer.call.args).name)
    /\ answer.status = "changed" =>
         RepoAllowed(answer.agent.repos, Plain(answer.place.owner),
                     Plain(answer.place.name))
    /\ Sent /\ Multi(config) =>
         answer.cred.owner = ResolveRepo(answer.call.args).owner.id

\* "Agents cannot authorize a repo owner without a matching installation", and
\* "the pin covers every owner the agent's allowlist spans": a call that policy
\* allows always finds its installation.
AllowedCallsAreRouted == answer.status # "outside"
=============================================================================
