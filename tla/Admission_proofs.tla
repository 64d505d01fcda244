--------------------------- MODULE Admission_proofs ---------------------------
(***************************************************************************)
(* The four properties of Admission, for any configuration file, allowlist *)
(* and number of agents, sessions, accounts and repositories.              *)
(*                                                                         *)
(* The inductive invariant says that whatever octobroker runs with passed  *)
(* validation, that a session holds the credentials of its agent's owners  *)
(* or a single one, and that a call that was sent had passed policy and    *)
(* got the credential of its repository's owner.  The properties are then  *)
(* facts about names: what validation, policy, routing and scoping make of *)
(* one spelling is the same.                                               *)
(***************************************************************************)
EXTENDS Admission, TLAPS

\* A credential that is not routed.
Single(a, c) ==
  \/ c = Pat /\ config.app = NoApp
  \/ \E o : c = Token("app", o, IF a = NoAgent THEN {}
                                ELSE ScopeEnvelope(a.repos))

Configured(c) == c.agents \subseteq Agent /\ ValidWrites(c) /\ ValidMulti(c)

Client(a) == (a = NoAgent /\ config.agents = {}) \/ a \in config.agents

Bound(p) ==
  /\ Client(p.agent)
  /\ \/ /\ Routed(p.agent)
        /\ p.creds = {Route(p.agent, o) : o \in RouteOwners(p.agent.repos)}
     \/ ~Routed(p.agent) /\ \E c : p.creds = {c} /\ Single(p.agent, c)

Served(a, target, c) ==
  \/ ~Routed(a) /\ Single(a, c)
  \/ Routed(a) /\ target # NoTarget /\ c = Route(a, RouteKey(target))

Admitted(a, call) ==
  ~Denied(a, call.tool, ResolveRepo(call.args)) /\ ~LocalDenied(a, call.tool)

SentInv ==
  Sent => /\ config # NoConfig
          /\ Client(answer.agent)
          /\ Admitted(answer.agent, answer.call)
          /\ Served(answer.agent, ResolveRepo(answer.call.args), answer.cred)
          /\ answer.status = "changed" =>
               SamePlace(answer.call.args, answer.place)

PinsInv ==
  /\ DOMAIN pins = Sids
  /\ \A s \in Sids : pins[s] # NoPin => config # NoConfig /\ Bound(pins[s])

AInv ==
  /\ config # NoConfig => Configured(config)
  /\ PinsInv
  /\ SentInv
  /\ answer.status # "outside"

-----------------------------------------------------------------------------
(* Names                                                                   *)

\* Trimmed and in lower case, a name is its text.
LEMMA LowerTrim ==
  ASSUME NEW n
  PROVE  Lower(Trim(n)) = Plain(n.id) /\ Lower(Plain(n.id)) = Plain(n.id)
BY DEF Lower, Trim, Plain

LEMMA PlainId == \A i : Plain(i).id = i /\ Lower(Plain(i)) = Plain(i)
BY DEF Plain, Lower

\* A name that is plain in lower case has no spaces to trim.
LEMMA LowerPlain ==
  ASSUME NEW n, NEW i, Lower(n) = Plain(i)
  PROVE  Lower(Trim(n)) = Plain(i)
BY DEF Lower, Trim, Plain

\* What policy, and then routing, looks at.
LEMMA Resolved ==
  ASSUME NEW args, ResolveRepo(args) # NoTarget
  PROVE  /\ args # NoTarget
         /\ ResolveRepo(args).owner = Trim(args.owner)
         /\ ResolveRepo(args).name = Trim(args.name)
         /\ RouteKey(ResolveRepo(args)) = Plain(args.owner.id)
         /\ ResolveRepo(args).owner.id = args.owner.id
<1>1. ResolveRepo(args) = [owner |-> Trim(args.owner), name |-> Trim(args.name)]
  BY DEF ResolveRepo
<1>2. args # NoTarget
  BY DEF ResolveRepo
<1>3. Trim(args.owner).id = args.owner.id
  BY DEF Trim
<1> QED
  BY <1>1, <1>2, <1>3, LowerTrim DEF RouteKey

\* Validation leaves the owners of an allowlist nothing to trim, and each has
\* its installation.
LEMMA ValidEntry ==
  ASSUME Configured(config), Multi(config), NEW a \in config.agents,
         NEW e \in a.repos
  PROVE  /\ e # NoSlash /\ WellFormed(e)
         /\ e \in [owner : Owners, name : Names]
         /\ Lower(e.owner) = Plain(e.owner.id)
         /\ Lower(Trim(e.owner)) = Plain(e.owner.id)
         /\ Plain(e.owner.id) # Plain("")
         /\ Plain(e.owner.id) \in Providers(config)
<1>1. WellFormed(e) /\ Lower(e.owner) \in Providers(config)
  BY DEF Configured, ValidMulti
<1>2. e # NoSlash /\ e.owner.id # "" /\ ~e.owner.padded
  BY <1>1 DEF WellFormed, IsEmpty
<1>3. e \in Entries
  BY DEF Configured, Agent
<1>4. e \in [owner : Owners, name : Names]
  BY <1>2, <1>3 DEF Entries
<1>5. e.owner.padded \in BOOLEAN
  BY <1>4 DEF Owners, Spelt
<1>6. Lower(e.owner) = Plain(e.owner.id)
  BY <1>2, <1>5 DEF Lower, Plain
<1>7. Plain(e.owner.id) # Plain("")
  BY <1>2, PlainId
<1> QED
  BY <1>1, <1>2, <1>4, <1>6, <1>7, LowerTrim

\* A restricted agent of several installations has routes.
LEMMA RestrictedIsRouted ==
  ASSUME Configured(config), Multi(config), NEW a \in config.agents,
         a # NoAgent, a.repos # {}
  PROVE  Routed(a)
<1>1. PICK e : e \in a.repos
  OBVIOUS
<1>2. e \in Split(a.repos)
  BY <1>1, ValidEntry DEF Split
<1>3. Lower(Trim(e.owner)) # Plain("")
  BY <1>1, ValidEntry
<1>4. Lower(Trim(e.owner)) \in RouteOwners(a.repos)
  BY <1>2, <1>3 DEF RouteOwners
<1> QED
  BY <1>4 DEF Routed

LEMMA RoutedHasRepos ==
  ASSUME NEW a, Routed(a)
  PROVE  Multi(config) /\ a # NoAgent /\ a.repos # {}
<1>1. Split({}) = {}
  BY DEF Split
<1> QED
  BY <1>1 DEF Routed, RouteOwners

\* Where policy allows a call, its owner has a route and an installation.
LEMMA AllowedOwner ==
  ASSUME Configured(config), NEW a \in config.agents, Routed(a),
         NEW args, ResolveRepo(args) # NoTarget,
         RepoAllowed(a.repos, ResolveRepo(args).owner, ResolveRepo(args).name)
  PROVE  /\ RouteKey(ResolveRepo(args)) \in RouteOwners(a.repos)
         /\ RouteKey(ResolveRepo(args)) \in Providers(config)
<1>1. Multi(config) /\ a.repos # {}
  BY RoutedHasRepos
<1>2. PICK e \in Split(a.repos) : Lower(e.owner) = Lower(ResolveRepo(args).owner)
  BY <1>1 DEF RepoAllowed
<1>3. e \in a.repos
  BY <1>2 DEF Split
<1>4. RouteKey(ResolveRepo(args)) = Lower(e.owner)
  BY <1>2 DEF RouteKey
<1>5. /\ Lower(e.owner) = Lower(Trim(e.owner))
      /\ Lower(Trim(e.owner)) # Plain("")
      /\ Lower(e.owner) \in Providers(config)
  BY <1>1, <1>3, ValidEntry
<1>6. Lower(Trim(e.owner)) \in RouteOwners(a.repos)
  BY <1>2, <1>5 DEF RouteOwners
<1> QED
  BY <1>4, <1>5, <1>6

\* Routes have plain names of owners as their keys.
LEMMA RouteOwnerPlain ==
  ASSUME NEW repos, NEW o \in RouteOwners(repos)
  PROVE  o = Plain(o.id)
<1>1. PICK e \in Split(repos) : o = Lower(Trim(e.owner))
  BY DEF RouteOwners
<1>2. o = Plain(e.owner.id)
  BY <1>1, LowerTrim
<1> QED
  BY <1>2, PlainId

-----------------------------------------------------------------------------
(* Credentials                                                             *)

\* pick_credential, without a session.
LEMMA FreshServed ==
  ASSUME Configured(config), NEW a, Client(a), NEW tool, NEW args,
         ~Denied(a, tool, ResolveRepo(args)),
         NEW o \in Fresh(a, ResolveRepo(args))
  PROVE  /\ o.status # "outside"
         /\ o.status = "ok" => Served(a, ResolveRepo(args), o.cred)
<1> DEFINE target == ResolveRepo(args)
<1>1. CASE Routed(a)
  <2>1. a # NoAgent /\ a.repos # {} /\ a \in config.agents
    BY <1>1, RoutedHasRepos DEF Client
  <2>2. target # NoTarget /\ RepoAllowed(a.repos, target.owner, target.name)
    BY <2>1 DEF Denied
  <2>3. RouteKey(target) \in RouteOwners(a.repos) /\ RouteKey(target) \in Providers(config)
    BY <1>1, <2>1, <2>2, AllowedOwner
  <2>4. Lower(RouteKey(target)) = RouteKey(target)
    BY <2>2, Resolved, PlainId
  <2>5. o \in FreshRoute(a, RouteKey(target))
    BY <1>1, <2>2 DEF Fresh
  <2>6. o = Unavailable \/ o = Outcome("ok", Route(a, RouteKey(target)))
    BY <2>3, <2>4, <2>5 DEF FreshRoute
  <2> QED
    BY <1>1, <2>2, <2>6 DEF Unavailable, Outcome, Served
<1>2. CASE ~Routed(a) /\ config.app # NoApp
  <2>1. o = Unavailable
        \/ \E i \in Installations(config.app) :
             o = Outcome("ok", Token("app", i, IF a = NoAgent THEN {}
                                               ELSE ScopeEnvelope(a.repos)))
    BY <1>2 DEF Fresh
  <2> QED
    BY <1>2, <2>1 DEF Unavailable, Outcome, Served, Single
<1>3. CASE ~Routed(a) /\ config.app = NoApp
  <2>1. o = Unavailable \/ o = Outcome("ok", Pat)
    BY <1>3 DEF Fresh
  <2> QED
    BY <1>3, <2>1 DEF Unavailable, Outcome, Served, Single
<1> QED
  BY <1>1, <1>2, <1>3

\* Routed credentials are those of routes.
LEMMA Kinds ==
  /\ \A a, o : Route(a, o).kind = "routed" /\ Route(a, o).owner = o.id
  /\ \A a, c : Single(a, c) => c.kind # "routed"
BY DEF Route, Token, Single, Pat

\* pick_credential, with a session: the pin of this very agent.
LEMMA ResumedServed ==
  ASSUME Configured(config), PinsInv, NEW a, Client(a), NEW tool, NEW args,
         ~Denied(a, tool, ResolveRepo(args)),
         NEW s \in Sids, NEW o \in Resumed(a, s, ResolveRepo(args))
  PROVE  /\ o.status # "outside"
         /\ o.status = "ok" => Served(a, ResolveRepo(args), o.cred)
<1> DEFINE target == ResolveRepo(args)
           routes == {c \in pins[s].creds :
                        c.kind = "routed" /\ target # NoTarget
                          => Plain(c.owner) = RouteKey(target)}
<1>1. CASE pins[s] = NoPin \/ pins[s].agent # a
  BY <1>1 DEF Resumed, Outcome
<1>2. CASE pins[s] # NoPin /\ pins[s].agent = a
  <2>1. /\ routes = {} => o = Outcome("outside", NoCred)
        /\ routes # {} => \E c \in routes : o = Outcome("ok", c)
    BY <1>2 DEF Resumed
  <2>2. Bound(pins[s])
    BY <1>2 DEF PinsInv
  <2>3. CASE ~Routed(a)
    <3>1. PICK c : pins[s].creds = {c} /\ Single(a, c)
      BY <1>2, <2>2, <2>3 DEF Bound
    <3>2. routes = {c}
      BY <3>1, Kinds
    <3>3. o = Outcome("ok", c)
      BY <2>1, <3>2
    <3> QED
      BY <2>3, <3>1, <3>3 DEF Outcome, Served
  <2>4. CASE Routed(a)
    <3>1. a # NoAgent /\ a.repos # {} /\ a \in config.agents
      BY <2>4, RoutedHasRepos DEF Client
    <3>2. target # NoTarget /\ RepoAllowed(a.repos, target.owner, target.name)
      BY <3>1 DEF Denied
    <3>3. RouteKey(target) \in RouteOwners(a.repos)
      BY <2>4, <3>1, <3>2, AllowedOwner
    <3>4. pins[s].creds = {Route(a, k) : k \in RouteOwners(a.repos)}
      BY <1>2, <2>2, <2>4 DEF Bound
    <3>5. ASSUME NEW k \in RouteOwners(a.repos)
          PROVE  Route(a, k) \in routes <=> k = RouteKey(target)
      <4>1. Plain(Route(a, k).owner) = k
        BY Kinds, RouteOwnerPlain
      <4> QED
        BY <3>2, <3>4, <4>1, Kinds
    <3>6. routes = {Route(a, RouteKey(target))}
      BY <3>3, <3>4, <3>5
    <3>7. o = Outcome("ok", Route(a, RouteKey(target)))
      BY <2>1, <3>6
    <3> QED
      BY <2>4, <3>2, <3>7 DEF Outcome, Served
  <2> QED
    BY <2>3, <2>4
<1> QED
  BY <1>1, <1>2

LEMMA PickServed ==
  ASSUME Configured(config), PinsInv, NEW a, Client(a), NEW tool, NEW args,
         ~Denied(a, tool, ResolveRepo(args)), NoSid \notin Sids,
         NEW s \in Sids \cup {NoSid},
         NEW o \in PickCredential(a, s, ResolveRepo(args))
  PROVE  /\ o.status # "outside"
         /\ o.status = "ok" => Served(a, ResolveRepo(args), o.cred)
BY FreshServed, ResumedServed DEF PickCredential

\* initialize: what a request without a session, and without routes, gets.
LEMMA FreshSingle ==
  ASSUME NEW a, ~Routed(a), NEW o \in Fresh(a, NoTarget), o.status = "ok"
  PROVE  Single(a, o.cred)
<1>1. CASE config.app # NoApp
  <2>1. o = Unavailable
        \/ \E i \in Installations(config.app) :
             o = Outcome("ok", Token("app", i, IF a = NoAgent THEN {}
                                               ELSE ScopeEnvelope(a.repos)))
    BY <1>1 DEF Fresh
  <2> QED
    BY <1>1, <2>1 DEF Unavailable, Outcome, Single
<1>2. CASE config.app = NoApp
  <2>1. o = Unavailable \/ o = Outcome("ok", Pat)
    BY <1>2 DEF Fresh
  <2> QED
    BY <1>2, <2>1 DEF Unavailable, Outcome, Single
<1> QED
  BY <1>1, <1>2

-----------------------------------------------------------------------------
(* The invariant                                                           *)

\* An answer records what was asked and how it ended.
LEMMA AnswerOf ==
  ASSUME NEW a, NEW s, NEW call, NEW status, NEW cred, NEW place,
         Replied(a, s, call, status, cred, place)
  PROVE  /\ answer'.agent = a /\ answer'.call = call
         /\ answer'.status = status /\ answer'.cred = cred
         /\ answer'.place = place
BY DEF Replied

LEMMA ToolsCallStep ==
  ASSUME AInv, NEW key, NEW a, NEW s \in Sids \cup {NoSid}, NEW call \in Calls,
         ToolsCall(key, a, s, call)
  PROVE  AInv'
<1> DEFINE target == ResolveRepo(call.args)
<1>1. /\ config # NoConfig /\ Configured(config) /\ PinsInv
      /\ UNCHANGED <<config, pins>> /\ Client(a) /\ NoSid \notin Sids
  BY AdmissionAssumption DEF AInv, ToolsCall, Authenticates, Client
<1>2. (config # NoConfig => Configured(config))' /\ PinsInv'
  BY <1>1 DEF PinsInv, Configured, Bound, Client, Routed, Route, Single
<1>3. /\ answer'.status # "outside"
      /\ Sent' => /\ answer'.agent = a /\ answer'.call = call
                  /\ Admitted(a, call) /\ Served(a, target, answer'.cred)
                  /\ answer'.status = "changed" =>
                       SamePlace(call.args, answer'.place)
  <2>1. CASE Refuse(a, s, call)
    <3>1. CASE Replied(a, s, call, "denied", NoCred, NoTarget)
      BY <3>1, AnswerOf DEF Sent
    <3>2. ASSUME ~Denied(a, call.tool, target),
                 NEW o \in PickCredential(a, s, target), o.status # "ok",
                 Replied(a, s, call, o.status, NoCred, NoTarget)
          PROVE  answer'.status # "outside" /\ ~Sent'
      <4>1. answer'.status = o.status
        BY <3>2, AnswerOf
      <4>2. o.status # "outside"
        BY <1>1, <3>2, PickServed
      <4>3. o.status \notin {"forwarded", "changed", "left"}
        BY <3>2 DEF PickCredential, Fresh, FreshRoute, Resumed, Outcome, Unavailable
      <4> QED
        BY <4>1, <4>2, <4>3 DEF Sent
    <3> QED
      BY <2>1, <3>1, <3>2 DEF Refuse
  <2>2. CASE Forward(a, s, call)
    <3>1. Admitted(a, call)
      BY <2>2 DEF Forward, Admitted
    <3>2. PICK o \in PickCredential(a, s, target) :
            o.status = "ok" /\ Replied(a, s, call, "forwarded", o.cred, target)
      BY <2>2 DEF Forward
    <3>3. Served(a, target, o.cred)
      BY <1>1, <3>1, <3>2, PickServed DEF Admitted
    <3> QED
      BY <3>1, <3>2, <3>3, AnswerOf
  <2>3. ASSUME NEW place \in Places, RunLocal(a, s, call, place)
        PROVE  /\ answer'.status # "outside"
               /\ answer'.agent = a /\ answer'.call = call
               /\ Admitted(a, call) /\ Served(a, target, answer'.cred)
               /\ answer'.status = "changed" =>
                    SamePlace(call.args, answer'.place)
    <3>1. Admitted(a, call)
      BY <2>3 DEF RunLocal, Admitted
    <3>2. PICK o \in PickCredential(a, s, target) :
            /\ o.status = "ok"
            /\ \/ SamePlace(call.args, place)
                  /\ Replied(a, s, call, "changed", o.cred, place)
               \/ Replied(a, s, call, "left", o.cred, NoTarget)
      BY <2>3 DEF RunLocal
    <3>3. Served(a, target, o.cred)
      BY <1>1, <3>1, <3>2, PickServed DEF Admitted
    <3> QED
      BY <3>1, <3>2, <3>3, AnswerOf
  <2> QED
    BY <2>1, <2>2, <2>3 DEF ToolsCall
<1>4. /\ Client(a)' /\ (Admitted(a, call) => Admitted(a, call)')
      /\ \A c : Served(a, target, c) => Served(a, target, c)'
  BY <1>1 DEF Client, Admitted, Denied, LocalDenied, Served, Routed, Route, Single
<1> QED
  BY <1>1, <1>2, <1>3, <1>4 DEF AInv, SentInv

\* A session holds the routes of its agent, or its single credential.
LEMMA InitializeStep ==
  ASSUME AInv, NEW key, NEW a, NEW s \in Sids, Initialize(key, a, s)
  PROVE  AInv'
<1>1. /\ config # NoConfig /\ Configured(config) /\ PinsInv
      /\ UNCHANGED <<config, answer>> /\ Client(a)
  BY DEF AInv, Initialize, Authenticates, Client, Pin
<1>2. PICK creds : /\ pins' = [pins EXCEPT ![s] = [agent |-> a, creds |-> creds]]
                   /\ Bound([agent |-> a, creds |-> creds])
  <2>1. CASE /\ Multi(config) /\ Restricted(a) /\ RouteOwners(a.repos) # {}
             /\ Pin(s, a, {Route(a, o) : o \in RouteOwners(a.repos)})
    <3>1. Routed(a)
      BY <2>1 DEF Restricted, Routed
    <3> QED
      BY <1>1, <2>1, <3>1 DEF Pin, Bound
  <2>2. ASSUME ~(Multi(config) /\ Restricted(a)), NEW o \in Fresh(a, NoTarget),
               o.status = "ok", Pin(s, a, {o.cred})
        PROVE  \E creds :
                 /\ pins' = [pins EXCEPT ![s] = [agent |-> a, creds |-> creds]]
                 /\ Bound([agent |-> a, creds |-> creds])
    <3>1. ~Routed(a)
      BY <2>2, RoutedHasRepos DEF Restricted
    <3>2. Single(a, o.cred)
      BY <2>2, <3>1, FreshSingle
    <3> QED
      BY <1>1, <2>2, <3>1, <3>2 DEF Pin, Bound
  <2> QED
    BY <2>1, <2>2 DEF Initialize
<1>3. ASSUME NEW z \in Sids, pins'[z] # NoPin
      PROVE  Bound(pins'[z])
  BY <1>1, <1>2, <1>3 DEF PinsInv
<1>4. \A p : Bound(p) <=> Bound(p)'
  BY <1>1 DEF Bound, Client, Routed, Route, Single
<1>5. PinsInv'
  BY <1>1, <1>2, <1>3 DEF PinsInv, Bound, Client, Routed, Route, Single
<1>6. SentInv' /\ (config # NoConfig => Configured(config))'
  BY <1>1 DEF AInv, SentInv, Sent, Client, Admitted, Denied, LocalDenied,
              Served, Routed, Route, Single, Configured
<1> QED
  BY <1>1, <1>5, <1>6 DEF AInv

LEMMA ForgetStep ==
  ASSUME AInv, NEW s \in Sids, Forget(s)
  PROVE  AInv'
<1>1. /\ UNCHANGED <<config, answer>>
      /\ pins' = [pins EXCEPT ![s] = NoPin] /\ PinsInv
  BY DEF AInv, Forget
<1>2. PinsInv'
  BY <1>1 DEF PinsInv, Bound, Client, Routed, Route, Single
<1>3. SentInv' /\ (config # NoConfig => Configured(config))'
  BY <1>1 DEF AInv, SentInv, Sent, Client, Admitted, Denied, LocalDenied,
              Served, Routed, Route, Single, Configured
<1> QED
  BY <1>1, <1>2, <1>3 DEF AInv

\* What octobroker starts with has passed validation.
LEMMA StartStep ==
  ASSUME AInv, NEW f \in Files, Start(f)
  PROVE  AInv'
<1>1. /\ config = NoConfig /\ config' = FromRaw(f) /\ Accepts(FromRaw(f))
      /\ UNCHANGED <<pins, answer>>
  BY DEF Start
<1>2. FromRaw(f).agents = f.agents
  BY AdmissionAssumption DEF FromRaw
<1>3. f.agents \subseteq Agent
  BY AdmissionAssumption
<1>4. Configured(FromRaw(f))
  BY <1>1, <1>2, <1>3 DEF Accepts, Validate, Configured
<1>5. ~Sent' /\ answer'.status # "outside"
  BY <1>1 DEF AInv, SentInv, Sent
<1>6. PinsInv'
  BY <1>1 DEF AInv, PinsInv
<1>7. Configured(config)'
  BY <1>1, <1>4 DEF Configured
<1> QED
  BY <1>5, <1>6, <1>7 DEF AInv, SentInv

LEMMA AInvInit == Init => AInv
BY DEF Init, AInv, PinsInv, SentInv, Sent, NoAnswer

LEMMA AInvStep == AInv /\ [Next]_vars => AInv'
<1> SUFFICES ASSUME AInv, [Next]_vars
             PROVE  AInv'
  OBVIOUS
<1>1. ASSUME NEW f \in Files, Start(f)
      PROVE  AInv'
  BY <1>1, StartStep
<1>2. ASSUME NEW key \in Keys, NEW a \in Agents, Request(key, a)
      PROVE  AInv'
  BY <1>2, ToolsCallStep, InitializeStep DEF Request
<1>3. ASSUME NEW s \in Sids, Forget(s)
      PROVE  AInv'
  BY <1>3, ForgetStep
<1>4. CASE Stop
  <2>1. config' = NoConfig /\ pins' = [s \in Sids |-> NoPin] /\ answer' = NoAnswer
    BY <1>4 DEF Stop
  <2>2. PinsInv'
    BY <2>1 DEF PinsInv
  <2>3. ~Sent' /\ answer'.status # "outside"
    BY <2>1 DEF NoAnswer, Sent
  <2> QED
    BY <2>1, <2>2, <2>3 DEF AInv, SentInv
<1>5. CASE UNCHANGED vars
  BY <1>5 DEF vars, AInv, PinsInv, Bound, SentInv, Sent, Client, Admitted, Denied,
              LocalDenied, Served, Routed, Route, Single, Configured
<1> QED
  BY <1>1, <1>2, <1>3, <1>4, <1>5 DEF Next

LEMMA AInvAlways == Spec => []AInv
BY AInvInit, AInvStep, PTL DEF Spec

-----------------------------------------------------------------------------
(* The properties                                                          *)

\* A route's token reaches what policy allows under its owner, and nothing
\* else.
LEMMA RouteFits ==
  ASSUME Configured(config), Multi(config), NEW a \in config.agents,
         NEW o \in RouteOwners(a.repos), NEW repo
  PROVE  Reaches(Route(a, o), repo)
           <=> RepoAllowed(a.repos, Plain(o.id), Plain(repo))
<1> DEFINE own == {e \in Split(a.repos) : Lower(e.owner) = Lower(o)}
<1>1. Lower(o) = o /\ Lower(Plain(o.id)) = o
  BY RouteOwnerPlain, PlainId
<1>2. a.repos # {}
  BY DEF RouteOwners, Split
<1>3. PICK e0 : e0 \in own
  <2>1. PICK e \in Split(a.repos) : o = Lower(Trim(e.owner))
    BY DEF RouteOwners
  <2>2. e \in a.repos
    BY DEF Split
  <2>3. Lower(e.owner) = o
    BY <2>1, <2>2, ValidEntry
  <2> QED
    BY <1>1, <2>1, <2>3
<1>4. ASSUME NEW e \in own
      PROVE  /\ ~IsEmpty(e.name)
             /\ ~IsStar(e.name) => (Lower(e.name) = Plain(repo) <=> e.name.id = repo)
  <2>1. WellFormed(e) /\ e \in [owner : Owners, name : Names]
    BY ValidEntry DEF Split
  <2>2. e.name.padded \in BOOLEAN
    BY <2>1 DEF Names, Spelt
  <2>3. ~IsEmpty(e.name) /\ (~IsStar(e.name) => e.name.padded = FALSE)
    BY <2>1, <2>2 DEF WellFormed, IsStar, IsEmpty
  <2> QED
    BY <2>3 DEF Lower, Plain
<1>5. RepoAllowed(a.repos, Plain(o.id), Plain(repo))
        <=> \E e \in own : IsStar(e.name) \/ e.name.id = repo
  <2>1. Lower(Plain(repo)) = Plain(repo)
    BY PlainId
  <2>2. RepoAllowed(a.repos, Plain(o.id), Plain(repo))
          <=> \E e \in own : IsStar(e.name) \/ Lower(e.name) = Plain(repo)
    BY <1>1, <1>2, <2>1 DEF RepoAllowed
  <2> QED
    BY <1>4, <2>2
<1>6. Route(a, o).names = ScopeEnvelopeForOwner(a.repos, o)
  BY DEF Route, Token
<1>7. CASE \E e \in own : IsStar(e.name)
  <2>1. ScopeEnvelopeForOwner(a.repos, o) = {}
    BY <1>7 DEF ScopeEnvelopeForOwner
  <2> QED
    BY <1>5, <1>6, <1>7, <2>1 DEF Reaches
<1>8. CASE \A e \in own : ~IsStar(e.name)
  <2>1. ScopeEnvelopeForOwner(a.repos, o) = {e.name : e \in own}
    BY <1>4, <1>8 DEF ScopeEnvelopeForOwner
  <2>2. {e.name : e \in own} # {}
    BY <1>3
  <2> QED
    BY <1>5, <1>6, <1>8, <2>1, <2>2 DEF Reaches
<1> QED
  BY <1>7, <1>8

\* The envelope of one installation holds back nothing policy allows.
LEMMA SingleFits ==
  ASSUME NEW a, Restricted(a), NEW c, Single(a, c), c.kind # "pat", NEW repo,
         NEW owner, RepoAllowed(a.repos, owner, Plain(repo))
  PROVE  c.kind # "routed" /\ Reaches(c, repo)
<1>1. c.names = ScopeEnvelope(a.repos) /\ c.kind = "app"
  BY DEF Single, Pat, Token, Restricted
<1>2. CASE ScopeEnvelope(a.repos) = {}
  BY <1>1, <1>2 DEF Reaches
<1>3. CASE ScopeEnvelope(a.repos) # {}
  <2>1. /\ \A e \in a.repos : ~IsStar(e.name)
        /\ ScopeEnvelope(a.repos) = {e.name : e \in a.repos}
    BY <1>3 DEF ScopeEnvelope
  <2>2. PICK e \in a.repos : Lower(e.name) = Lower(Plain(repo))
    BY <2>1 DEF RepoAllowed, Restricted, Split
  <2>3. e.name.id = repo
    BY <2>2 DEF Lower, Plain
  <2> QED
    BY <1>1, <2>1, <2>3 DEF Reaches
<1> QED
  BY <1>2, <1>3

\* A credential that a call was sent with, or a session holds, fits.
LEMMA HeldFits ==
  ASSUME Configured(config), NEW a, Client(a), NEW c,
         \/ ~Routed(a) /\ Single(a, c)
         \/ \E o \in RouteOwners(a.repos) : Routed(a) /\ c = Route(a, o)
  PROVE  TokenFits(a, c)
<1> SUFFICES ASSUME c.kind # "pat", Restricted(a), NEW repo \in Repositories
             PROVE  LET allowed == RepoAllowed(a.repos, Plain(c.owner), Plain(repo))
                    IN  /\ allowed => Reaches(c, repo)
                        /\ c.kind = "routed" /\ Reaches(c, repo) => allowed
  BY DEF TokenFits
<1>1. CASE ~Routed(a) /\ Single(a, c)
  <2>1. c.kind # "routed"
    BY <1>1, Kinds
  <2> QED
    BY <1>1, <2>1, SingleFits
<1>2. CASE \E o \in RouteOwners(a.repos) : Routed(a) /\ c = Route(a, o)
  <2>1. PICK o \in RouteOwners(a.repos) : Routed(a) /\ c = Route(a, o)
    BY <1>2
  <2>2. Multi(config) /\ a \in config.agents
    BY <2>1, RoutedHasRepos DEF Client
  <2>3. c.owner = o.id
    BY <2>1, Kinds
  <2> QED
    BY <2>1, <2>2, <2>3, RouteFits
<1> QED
  BY <1>1, <1>2

\* pick_credential with scope_envelope and scope_envelope_for_owner: tokens
\* reach what policy allows, and routed ones nothing else.
THEOREM TokensFitAllowlistHolds == Spec => []TokensFitAllowlist
<1>1. ASSUME AInv, NEW s \in Sids, pins[s] # NoPin, NEW c \in pins[s].creds
      PROVE  TokenFits(pins[s].agent, c)
  <2>1. Configured(config) /\ Bound(pins[s])
    BY <1>1 DEF AInv, PinsInv
  <2> QED
    BY <1>1, <2>1, HeldFits DEF Bound
<1>2. ASSUME AInv, Sent
      PROVE  TokenFits(answer.agent, answer.cred)
  <2> DEFINE a == answer.agent
             target == ResolveRepo(answer.call.args)
  <2>1. Configured(config) /\ Client(a) /\ Served(a, target, answer.cred)
        /\ Admitted(a, answer.call)
    BY <1>2 DEF AInv, SentInv
  <2>2. CASE ~Routed(a) /\ Single(a, answer.cred)
    BY <2>1, <2>2, HeldFits
  <2>3. CASE Routed(a) /\ target # NoTarget /\ answer.cred = Route(a, RouteKey(target))
    <3>1. a # NoAgent /\ a.repos # {} /\ a \in config.agents
      BY <2>1, <2>3, RoutedHasRepos DEF Client
    <3>2. RepoAllowed(a.repos, target.owner, target.name)
      BY <2>1, <2>3, <3>1 DEF Admitted, Denied
    <3>3. RouteKey(target) \in RouteOwners(a.repos)
      BY <2>1, <2>3, <3>1, <3>2, AllowedOwner
    <3> QED
      BY <2>1, <2>3, <3>3, HeldFits
  <2> QED
    BY <2>1, <2>2, <2>3 DEF Served
<1>3. AInv => TokensFitAllowlist
  BY <1>1, <1>2 DEF TokensFitAllowlist
<1> QED
  BY <1>3, AInvAlways, PTL

\* validate, the policy block and pick_credential: no write with a PAT, none
\* without an audit, none where writes are off.
THEOREM WritesAreGuardedHolds == Spec => []WritesAreGuarded
<1>1. ASSUME AInv, Sent, IsWrite(answer.call.tool), answer.agent # NoAgent
      PROVE  config.writes /\ config.audit /\ answer.cred.kind # "pat"
  <2> DEFINE a == answer.agent
             target == ResolveRepo(answer.call.args)
  <2>1. /\ Configured(config) /\ a \in config.agents
        /\ Admitted(a, answer.call) /\ Served(a, target, answer.cred)
    BY <1>1 DEF AInv, SentInv, Client
  <2>2. config.writes
    BY <1>1, <2>1 DEF Admitted, Denied
  <2>3. config.audit /\ Backed(config)
    BY <2>1, <2>2 DEF Configured, ValidWrites
  <2>4. CASE answer.cred = Pat /\ config.app = NoApp /\ ~Routed(a)
    <3>1. Multi(config)
      BY <2>3, <2>4 DEF Backed
    <3>2. a.repos # {}
      BY <1>1, <2>1, <3>1 DEF Admitted, Denied
    <3> QED
      BY <1>1, <2>1, <2>4, <3>1, <3>2, RestrictedIsRouted
  <2>5. ASSUME ~(answer.cred = Pat /\ config.app = NoApp /\ ~Routed(a))
        PROVE  answer.cred.kind # "pat"
    <3>1. \/ \E o, names : answer.cred = Token("app", o, names)
          \/ answer.cred = Route(a, RouteKey(target))
      BY <2>1, <2>5 DEF Served, Single
    <3>2. CASE \E o, names : answer.cred = Token("app", o, names)
      BY <3>2 DEF Token
    <3>3. CASE answer.cred = Route(a, RouteKey(target))
      <4>1. answer.cred.kind = "routed"
        BY <3>3, Kinds
      <4> QED
        BY <4>1
    <3> QED
      BY <3>1, <3>2, <3>3
  <2> QED
    BY <2>2, <2>3, <2>4, <2>5
<1>2. ASSUME AInv, Sent, answer.agent = NoAgent
      PROVE  answer.call.tool \notin LocalTools
  BY <1>2 DEF AInv, SentInv, Admitted, LocalDenied
<1>3. ASSUME AInv, Sent, answer.agent = NoAgent
      PROVE  config.agents = {}
  <2>1. NoAgent \notin config.agents
    BY <1>3, AdmissionAssumption DEF AInv, SentInv, Configured
  <2> QED
    BY <1>3, <2>1 DEF AInv, SentInv, Client
<1>4. AInv => WritesAreGuarded
  BY <1>1, <1>2, <1>3 DEF WritesAreGuarded
<1> QED
  BY <1>4, AInvAlways, PTL

\* The policy block, pick_credential and octobroker's own tools look at one
\* repository.
THEOREM CallsStayInAllowlistHolds == Spec => []CallsStayInAllowlist
<1>1. ASSUME AInv, Restricted(answer.agent), Sent
      PROVE  /\ RepoAllowed(answer.agent.repos,
                            ResolveRepo(answer.call.args).owner,
                            ResolveRepo(answer.call.args).name)
             /\ answer.status = "changed" =>
                  RepoAllowed(answer.agent.repos, Plain(answer.place.owner),
                              Plain(answer.place.name))
             /\ Multi(config) =>
                  answer.cred.owner = ResolveRepo(answer.call.args).owner.id
  <2> DEFINE a == answer.agent
             args == answer.call.args
             target == ResolveRepo(args)
  <2>1. /\ Configured(config) /\ a # NoAgent /\ a.repos # {} /\ a \in config.agents
        /\ Admitted(a, answer.call) /\ Served(a, target, answer.cred)
        /\ answer.status = "changed" => SamePlace(args, answer.place)
    BY <1>1 DEF AInv, SentInv, Client, Restricted
  <2>2. target # NoTarget /\ RepoAllowed(a.repos, target.owner, target.name)
    BY <2>1 DEF Admitted, Denied
  <2>3. target.owner = Trim(args.owner) /\ target.name = Trim(args.name)
    BY <2>2, Resolved
  <2>4. ASSUME SamePlace(args, answer.place)
        PROVE  RepoAllowed(a.repos, Plain(answer.place.owner),
                           Plain(answer.place.name))
    <3>1. /\ Lower(target.owner) = Lower(Plain(answer.place.owner))
          /\ Lower(target.name) = Lower(Plain(answer.place.name))
      BY <2>3, <2>4, LowerPlain, PlainId DEF SamePlace
    <3> QED
      BY <2>2, <3>1 DEF RepoAllowed
  <2>5. ASSUME Multi(config)
        PROVE  answer.cred.owner = target.owner.id
    <3>1. answer.cred = Route(a, RouteKey(target))
      BY <2>1, <2>5, RestrictedIsRouted DEF Served
    <3>2. RouteKey(target).id = target.owner.id
      BY <2>2, Resolved, PlainId
    <3> QED
      BY <3>1, <3>2, Kinds
  <2> QED
    BY <2>1, <2>2, <2>4, <2>5
<1>2. AInv => CallsStayInAllowlist
  BY <1>1 DEF CallsStayInAllowlist, Sent
<1> QED
  BY <1>2, AInvAlways, PTL

\* validate and route_owners: a call that policy allows finds its route.
THEOREM AllowedCallsAreRoutedHolds == Spec => []AllowedCallsAreRouted
<1>1. AInv => AllowedCallsAreRouted
  BY DEF AInv, AllowedCallsAreRouted
<1> QED
  BY <1>1, AInvAlways, PTL

-----------------------------------------------------------------------------
(* What the other modules take for granted of the configuration.           *)

\* McpWrites: the gate on writes (its ConfigAssumption).
WritesGated(c) ==
  c.writes => /\ c.agents # {} /\ c.audit
              /\ Multi(c) => \A a \in c.agents :
                               a.repos = {} => a.tools \subseteq ReadTools

\* MultiSessions: an agent with an allowlist spans installations that are there
\* (its AgentOwners), and no two of them are of one owner.
OwnersServed(c) ==
  Multi(c) =>
    /\ \A a \in c.agents : a.repos # {} =>
         RouteOwners(a.repos) # {} /\ RouteOwners(a.repos) \subseteq Providers(c)
    /\ \A m, n \in DOMAIN c.apps : c.apps[m] = c.apps[n] => m = n

\* Whatever the configuration file says, octobroker runs with a configuration
\* that the modules of the write path and of the sessions are about: an agent
\* whose allowlist is not empty has an installation for each owner it spans.
THEOREM RunningConfigIsServed ==
  Spec => [](config # NoConfig => WritesGated(config) /\ OwnersServed(config))
<1>1. ASSUME AInv, config # NoConfig, Multi(config), NEW a \in config.agents,
             a.repos # {}
      PROVE  RouteOwners(a.repos) # {} /\ RouteOwners(a.repos) \subseteq Providers(config)
  <2>1. Configured(config) /\ a # NoAgent
    BY <1>1, AdmissionAssumption DEF AInv, Configured
  <2>2. RouteOwners(a.repos) # {}
    BY <1>1, <2>1, RestrictedIsRouted DEF Routed
  <2>3. ASSUME NEW o \in RouteOwners(a.repos) PROVE o \in Providers(config)
    <3>1. PICK e \in Split(a.repos) : o = Lower(Trim(e.owner))
      BY <2>3 DEF RouteOwners
    <3>2. e \in a.repos
      BY <3>1 DEF Split
    <3> QED
      BY <1>1, <2>1, <3>1, <3>2, ValidEntry
  <2> QED
    BY <2>2, <2>3
<1>2. ASSUME AInv, config # NoConfig
      PROVE  WritesGated(config) /\ OwnersServed(config)
  <2>1. ValidWrites(config) /\ ValidMulti(config)
    BY <1>2 DEF AInv, Configured
  <2>2. WritesGated(config)
    BY <2>1 DEF ValidWrites, WritesGated
  <2>3. OwnersServed(config)
    BY <1>1, <1>2, <2>1 DEF ValidMulti, OwnersServed
  <2> QED
    BY <2>2, <2>3
<1>3. AInv => (config # NoConfig => WritesGated(config) /\ OwnersServed(config))
  BY <1>2
<1> QED
  BY <1>3, AInvAlways, PTL
=============================================================================
