---------------------------- MODULE MultiSessions ----------------------------
(***************************************************************************)
(* MCP sessions over several GitHub App installations (src/src/mcp.rs):    *)
(* initialize opens one upstream session per owner of the agent's          *)
(* repositories, in order of the owners, and pins all of them as routes    *)
(* under the session id of the first (the primary); calls travel on one    *)
(* route, notifications and DELETE on every route.                         *)
(*                                                                         *)
(* A request is a task that runs from await to await; between two awaits   *)
(* other tasks, expiry, eviction and restarts take their steps.  GitHub    *)
(* opens sessions and may lose its answers.  A token <<o, n>> is the n-th  *)
(* token minted for owner o.                                               *)
(***************************************************************************)
EXTENDS Naturals

CONSTANTS Owners,       \* installations, in the order of their names
          Agents,       \* agents with a repository allowlist
          AgentOwners,  \* agent -> route_owners, the owners it spans
          Sids,         \* session ids GitHub can assign
          Tasks,        \* handlers of requests
          Initializers, \* bound: those of them that may run initialize
          MaxTokens,    \* bound: owner -> how many tokens are minted for it
          NoSid, NoRoute, NoPin, NoOpening, NoAgent, NoRequest

VARIABLES pins,         \* mcp_sessions: downstream session id -> SessionPin
          opened,       \* GitHub: session id -> what it was opened with
          once,         \* history: session ids that were ever pinned
          issued,       \* owner -> the number of its newest token
          expired,      \* owner -> its tokens up to this number have expired
          step,         \* task -> the await it is at
          agent,        \* task -> the authenticated agent
          sid,          \* task -> the downstream session id
          todo,         \* task -> owners its loop has not dealt with
          owed,         \* history: task -> sessions it knows of and did not DELETE
          routes,       \* task -> owner -> route
          cred          \* task -> the route in use

sessions == <<pins, once>>
tokens == <<issued, expired>>
handler == <<agent, sid, todo, owed, routes, cred>>
vars == <<sessions, opened, tokens, step, handler>>

-----------------------------------------------------------------------------
Tokens == Owners \X Nat
Route == [token : Tokens, sid : Sids \cup {NoSid}]
Routes == [Owners -> Route \cup {NoRoute}]
Pin == [agent : Agents, routes : Routes, primary : Owners]
Opening == [token : Tokens, agent : Agents, usable : BOOLEAN]

ASSUME ConstantsAssumption ==
  /\ Owners \subseteq Nat
  /\ AgentOwners \in [Agents -> (SUBSET Owners) \ {{}}]
  /\ Initializers \subseteq Tasks
  /\ MaxTokens \in [Owners -> Nat]
  /\ NoSid \notin Sids
  /\ NoRoute \notin Route
  /\ NoPin \notin Pin
  /\ NoOpening \notin Opening
  /\ NoAgent \notin Agents
  /\ NoRequest \notin Sids \X Agents

IsFirst(o, S) == o \in S /\ \A p \in S : o <= p

IsPrimary(o, a) == IsFirst(o, AgentOwners[a])

NoRoutes == [o \in Owners |-> NoRoute]

\* Mutant: a route without a session id is not skipped.
HasSessionAny(r) == r # NoRoute

HasSession(r) == r # NoRoute /\ r.sid # NoSid

Expired(r) == r # NoRoute /\ r.token[2] <= expired[r.token[1]]

-----------------------------------------------------------------------------
Init == /\ pins = [s \in Sids |-> NoPin]
        /\ opened = [s \in Sids |-> NoOpening]
        /\ once = {}
        /\ issued = [o \in Owners |-> 0]
        /\ expired = [o \in Owners |-> 0]
        /\ step = [t \in Tasks |-> "idle"]
        /\ agent = [t \in Tasks |-> NoAgent]
        /\ sid = [t \in Tasks |-> NoSid]
        /\ todo = [t \in Tasks |-> {}]
        /\ owed = [t \in Tasks |-> {}]
        /\ routes = [t \in Tasks |-> NoRoutes]
        /\ cred = [t \in Tasks |-> NoRoute]

At(t, here, next) == step[t] = here /\ step' = [step EXCEPT ![t] = next]

\* The task is done; its locals are gone.
Forget(t) == /\ agent' = [agent EXCEPT ![t] = NoAgent]
             /\ sid' = [sid EXCEPT ![t] = NoSid]
             /\ todo' = [todo EXCEPT ![t] = {}]
             /\ owed' = [owed EXCEPT ![t] = {}]
             /\ routes' = [routes EXCEPT ![t] = NoRoutes]
             /\ cred' = [cred EXCEPT ![t] = NoRoute]

-----------------------------------------------------------------------------
(* multi_initialize *)

Initialize(t, a) ==
  /\ t \in Initializers
  /\ At(t, "idle", "mint")
  /\ agent' = [agent EXCEPT ![t] = a]
  /\ todo' = [todo EXCEPT ![t] = AgentOwners[a]]
  /\ UNCHANGED <<sessions, opened, tokens, sid, routes, cred, owed>>

\* token_scoped: a token of the owner from the cache (each envelope has its
\* own), or a new one.
IssueToken(o, n) ==
  /\ expired[o] < n /\ n <= issued[o] + 1
  /\ issued' = [issued EXCEPT ![o] = IF n > @ THEN n ELSE @]
  /\ UNCHANGED expired

Mint(t, o, n) ==
  /\ At(t, "mint", "open")
  /\ IsFirst(o, todo[t])
  /\ IssueToken(o, n)
  /\ cred' = [cred EXCEPT ![t] = [token |-> <<o, n>>, sid |-> NoSid]]
  /\ UNCHANGED <<sessions, opened, agent, sid, todo, routes, owed>>

\* The owner whose session the task is opening.
Opener(t) == cred[t].token[1]

\* A 2xx answer that names session s, or none: keep the route; the body of a
\* secondary is read next, the primary's is the client's.
ToBody(t, s) ==
  /\ routes' = [routes EXCEPT ![t][Opener(t)] = [cred[t] EXCEPT !.sid = s]]
  /\ IF IsPrimary(Opener(t), agent[t])
     THEN /\ todo' = [todo EXCEPT ![t] = @ \ {Opener(t)}]
          /\ step' = [step EXCEPT ![t] = IF todo'[t] = {} THEN "pin" ELSE "mint"]
     ELSE /\ step' = [step EXCEPT ![t] = "body"]
          /\ UNCHANGED todo

\* GitHub opens session s for the token and the agent it was sent.
GithubOpens(t, s, usable) ==
  /\ opened[s] = NoOpening
  /\ opened' = [opened EXCEPT ![s] = [token |-> cred[t].token, agent |-> agent[t],
                                      usable |-> usable]]

\* The answer names the session, which is usable or comes with a JSON-RPC
\* error in a 200.
OpenNamed(t, s) ==
  /\ step[t] = "open"
  /\ \E usable \in BOOLEAN : GithubOpens(t, s, usable)
  /\ ToBody(t, s)
  /\ owed' = [owed EXCEPT ![t] = @ \cup {s}]
  /\ UNCHANGED <<sessions, tokens, agent, sid, cred>>

OpenUnnamed(t) ==
  /\ step[t] = "open"
  /\ ToBody(t, NoSid)
  /\ UNCHANGED <<sessions, opened, tokens, agent, sid, cred, owed>>

\* abort_multi_initialize starts on the routes the task has kept.
ToAbort(t) ==
  /\ step' = [step EXCEPT ![t] = "abort"]
  /\ todo' = [todo EXCEPT ![t] = {o \in Owners : HasSession(routes[t][o])}]

\* No provider, a failed mint, a bad header, no answer, or a non-2xx one.
Fail(t) ==
  /\ step[t] \in {"mint", "open"}
  /\ ToAbort(t)
  /\ UNCHANGED <<sessions, opened, tokens, agent, sid, routes, cred, owed>>

\* GitHub opened the session but its answer did not arrive in POST_TIMEOUT.
OpenLost(t, s) ==
  /\ step[t] = "open"
  /\ GithubOpens(t, s, TRUE)
  /\ ToAbort(t)
  /\ UNCHANGED <<sessions, tokens, agent, sid, routes, cred, owed>>

\* Is the secondary's body a JSON-RPC error?  Only GitHub knows of a route
\* without a session.
BodyUsable(t) ==
  LET s == routes[t][Opener(t)].sid
  IN  s # NoSid => opened[s].usable

\* Mutant: HTTP 2xx is taken to be sufficient.
BodyOkUnparsed(t) ==
  /\ step[t] = "body"
  /\ todo' = [todo EXCEPT ![t] = @ \ {Opener(t)}]
  /\ step' = [step EXCEPT ![t] = IF todo'[t] = {} THEN "pin" ELSE "mint"]
  /\ UNCHANGED <<sessions, opened, tokens, agent, sid, routes, cred, owed>>

\* The body of a secondary is complete and no error (parse_tool_outcome).
BodyOk(t) ==
  /\ step[t] = "body"
  /\ BodyUsable(t)
  /\ todo' = [todo EXCEPT ![t] = @ \ {Opener(t)}]
  /\ step' = [step EXCEPT ![t] = IF todo'[t] = {} THEN "pin" ELSE "mint"]
  /\ UNCHANGED <<sessions, opened, tokens, agent, sid, routes, cred, owed>>

\* A JSON-RPC error, a body beyond MAX_BODY_BYTES, or one that breaks off.
BodyBad(t) ==
  /\ step[t] = "body"
  /\ ToAbort(t)
  /\ UNCHANGED <<sessions, opened, tokens, agent, sid, routes, cred, owed>>

\* Every owner has its route: pin them under the primary's session id, and
\* show the client the primary's answer.  Without an id nothing is pinned.
PinRoutes(t, p) ==
  LET s == routes[t][p].sid
  IN  /\ At(t, "pin", "idle")
      /\ IsPrimary(p, agent[t])
      /\ pins' = IF s = NoSid THEN pins
                 ELSE [pins EXCEPT ![s] = [agent |-> agent[t], primary |-> p,
                                           routes |-> routes[t]]]
      /\ once' = once \cup ({s} \ {NoSid})
      /\ Forget(t)
      /\ UNCHANGED <<opened, tokens>>

\* One best-effort DELETE of the clean-up, whatever its outcome.
AbortOne(t, o) ==
  /\ step[t] = "abort" /\ o \in todo[t]
  /\ owed' = [owed EXCEPT ![t] = @ \ {routes[t][o].sid}]
  /\ todo' = [todo EXCEPT ![t] = @ \ {o}]
  /\ UNCHANGED <<sessions, opened, tokens, step, agent, sid, routes, cred>>

\* The error is answered.
AbortDone(t) ==
  /\ At(t, "abort", "failed")
  /\ todo[t] = {}
  /\ UNCHANGED <<sessions, opened, tokens, handler>>

-----------------------------------------------------------------------------
(* Requests on a session, and without one *)

\* Mutant: only the primary route's expiry is looked at.
PickExpiredPrimary(p) == Expired(p.routes[p.primary])

PickExpired(p) == \E o \in Owners : Expired(p.routes[o])

\* pick_credential finds the pin of session s: the call, for repository owner
\* o or for none, takes its route.  A pin of another agent, or an owner that
\* has no route, is 403 and an unknown session 404: nothing changes.
Pick(t, a, s, o) ==
  /\ At(t, "idle", "send")
  /\ pins[s] # NoPin /\ pins[s].agent = a
  /\ ~PickExpired(pins[s])
  /\ pins[s].routes[o] # NoRoute
  /\ agent' = [agent EXCEPT ![t] = a]
  /\ sid' = [sid EXCEPT ![t] = s]
  /\ cred' = [cred EXCEPT ![t] = pins[s].routes[o]]
  /\ UNCHANGED <<sessions, opened, tokens, todo, routes, owed>>

\* One of the tokens has expired: 404, and the whole session ends.  A pin of
\* several routes is never replaced, so looking and dropping are one step.
PickTerminates(a, s) ==
  /\ pins[s] # NoPin /\ pins[s].agent = a
  /\ PickExpired(pins[s])
  /\ pins' = [pins EXCEPT ![s] = NoPin]
  /\ UNCHANGED <<once, opened, tokens, step, handler>>

\* A call without a session id is sent with a token of its owner, or of the
\* agent's first, and on no session: nothing but the token stays behind.
Stateless(o, n) ==
  /\ IssueToken(o, n)
  /\ UNCHANGED <<sessions, opened, step, handler>>

\* Mutant: a secondary route travels under the downstream session id.
SidOutDownstream(t) == sid[t]

\* The session id a call goes out under: its route's own, or none when the
\* route has none.
SidOut(t) == cred[t].sid

\* What GitHub can receive from the task's next step.
Outgoing(t) ==
  CASE step[t] = "send" -> {[cred[t] EXCEPT !.sid = SidOut(t)]}
    [] step[t] \in {"abort", "notify", "delete"} -> {routes[t][o] : o \in todo[t]}
    [] OTHER -> {}

\* Mutant: GitHub's own session id is passed on.
ShownUpstream(t) == cred[t].sid

\* GitHub's answer names the session of its route; the client is shown the one
\* that it presented.
Shown(t) == IF cred[t].sid = NoSid THEN NoSid ELSE sid[t]

\* The request was sent, and is answered with GitHub's answer or with 502.
Answer(t) ==
  /\ At(t, "send", "idle")
  /\ Forget(t)
  /\ UNCHANGED <<sessions, opened, tokens>>

-----------------------------------------------------------------------------
(* multi_fanout *)

\* A notification or a DELETE of session s starts on a copy of its routes.
FanOut(t, a, s, frame) ==
  /\ At(t, "idle", frame)
  /\ pins[s] # NoPin /\ pins[s].agent = a
  /\ agent' = [agent EXCEPT ![t] = a]
  /\ sid' = [sid EXCEPT ![t] = s]
  /\ routes' = [routes EXCEPT ![t] = pins[s].routes]
  /\ todo' = [todo EXCEPT ![t] =
                {o \in Owners : HasSession(pins[s].routes[o])}]
  /\ owed' = [owed EXCEPT ![t] =
                 {pins[s].routes[o].sid : o \in todo'[t]}]
  /\ cred' = [cred EXCEPT ![t] = pins[s].routes[pins[s].primary]]
  /\ UNCHANGED <<sessions, opened, tokens>>

\* One route's request, the primary's first, whatever its outcome.
FanOne(t, o) ==
  /\ step[t] \in {"notify", "delete"}
  /\ o \in todo[t] /\ (Opener(t) \in todo[t] => o = Opener(t))
  /\ owed' = [owed EXCEPT ![t] = @ \ {routes[t][o].sid}]
  /\ todo' = [todo EXCEPT ![t] = @ \ {o}]
  /\ UNCHANGED <<sessions, opened, tokens, step, agent, sid, routes, cred>>

\* Mutant: the DELETE ends with the primary's answer.
FanDonePrimary(t) == Opener(t) \notin todo[t]

FanDone(t) == todo[t] = {}

Notified(t) ==
  /\ At(t, "notify", "idle")
  /\ FanDone(t)
  /\ Forget(t)
  /\ UNCHANGED <<sessions, opened, tokens>>

\* The session is over; its pin goes as a whole.
Deleted(t) ==
  /\ At(t, "delete", "deleted")
  /\ FanDone(t)
  /\ pins' = [pins EXCEPT ![sid[t]] = NoPin]
  /\ UNCHANGED <<once, opened, tokens, handler>>

-----------------------------------------------------------------------------
Leave(t) ==
  /\ step[t] \in {"failed", "deleted"}
  /\ step' = [step EXCEPT ![t] = "idle"]
  /\ Forget(t)
  /\ UNCHANGED <<sessions, opened, tokens>>

\* The client disconnects and the handler is dropped at its await.
Cancel(t) ==
  /\ step[t] \notin {"idle", "failed", "deleted"}
  /\ step' = [step EXCEPT ![t] = "idle"]
  /\ Forget(t)
  /\ UNCHANGED <<sessions, opened, tokens>>

Expire(o) ==
  /\ expired[o] < issued[o]
  /\ expired' = [expired EXCEPT ![o] = @ + 1]
  /\ UNCHANGED <<sessions, opened, issued, step, handler>>

\* The session cache drops a pin for its age or for the room.
Evict(s) ==
  /\ pins[s] # NoPin
  /\ pins' = [pins EXCEPT ![s] = NoPin]
  /\ UNCHANGED <<once, opened, tokens, step, handler>>

\* The process starts again; GitHub keeps the sessions.
Restart ==
  /\ pins' = [s \in Sids |-> NoPin]
  /\ step' = [t \in Tasks |-> "idle"]
  /\ agent' = [t \in Tasks |-> NoAgent]
  /\ sid' = [t \in Tasks |-> NoSid]
  /\ todo' = [t \in Tasks |-> {}]
  /\ owed' = [t \in Tasks |-> {}]
  /\ routes' = [t \in Tasks |-> NoRoutes]
  /\ cred' = [t \in Tasks |-> NoRoute]
  /\ UNCHANGED <<once, opened, tokens>>

-----------------------------------------------------------------------------
TaskStep(t) ==
  \/ \E a \in Agents : Initialize(t, a)
  \/ \E o \in Owners : \E n \in 1..MaxTokens[o] : Mint(t, o, n)
  \/ \E s \in Sids : OpenNamed(t, s) \/ OpenLost(t, s)
  \/ OpenUnnamed(t) \/ Fail(t) \/ BodyOk(t) \/ BodyBad(t)
  \/ \E p \in Owners : PinRoutes(t, p)
  \/ \E o \in Owners : AbortOne(t, o)
  \/ AbortDone(t)
  \/ \E a \in Agents, s \in Sids, o \in Owners : Pick(t, a, s, o)
  \/ Answer(t)
  \/ \E a \in Agents, s \in Sids, frame \in {"notify", "delete"} :
       FanOut(t, a, s, frame)
  \/ \E o \in Owners : FanOne(t, o)
  \/ Notified(t) \/ Deleted(t) \/ Leave(t) \/ Cancel(t)

Next == \/ \E t \in Tasks : TaskStep(t)
        \/ \E a \in Agents, s \in Sids : PickTerminates(a, s)
        \/ \E o \in Owners : Expire(o) \/ \E n \in 1..MaxTokens[o] : Stateless(o, n)
        \/ \E s \in Sids : Evict(s)
        \/ Restart

Spec == Init /\ [][Next]_vars

-----------------------------------------------------------------------------
TypeOK ==
  /\ pins \in [Sids -> Pin \cup {NoPin}]
  /\ opened \in [Sids -> Opening \cup {NoOpening}]
  /\ once \subseteq Sids
  /\ issued \in [Owners -> Nat]
  /\ expired \in [Owners -> Nat]
  /\ step \in [Tasks -> {"idle", "mint", "open", "body", "pin", "abort",
                         "failed", "send", "notify", "delete", "deleted"}]
  /\ agent \in [Tasks -> Agents \cup {NoAgent}]
  /\ sid \in [Tasks -> Sids \cup {NoSid}]
  /\ todo \in [Tasks -> SUBSET Owners]
  /\ owed \in [Tasks -> SUBSET Sids]
  /\ routes \in [Tasks -> Routes]
  /\ cred \in [Tasks -> Route \cup {NoRoute}]

\* A route of owner o for agent a is what GitHub opened: o's own token, and a
\* session opened with that very token for that very agent.
Faithful(r, o, a) ==
  /\ r.token[1] = o
  /\ r.sid # NoSid => /\ opened[r.sid] # NoOpening
                      /\ opened[r.sid].token = r.token
                      /\ opened[r.sid].agent = a

\* All or nothing: whatever fails or is dropped half way through the fan-out,
\* a pinned session has a route to exactly the owners of its agent, each with
\* the session its own installation opened with its own token; every secondary
\* is usable; and the client's id is the primary's.
PinsAreWhole ==
  \A s \in Sids : pins[s] # NoPin =>
    LET p == pins[s]
    IN  /\ \A o \in Owners : p.routes[o] # NoRoute <=> o \in AgentOwners[p.agent]
        /\ \A o \in AgentOwners[p.agent] :
             /\ Faithful(p.routes[o], o, p.agent)
             /\ p.routes[o].sid # NoSid /\ o # p.primary
                  => opened[p.routes[o].sid].usable
        /\ IsPrimary(p.primary, p.agent)
        /\ p.routes[p.primary].sid = s

\* GitHub never receives a request on a session with another token, or for
\* another agent, than the session was opened with: not from calls, not from
\* fan-outs, not from the clean-up of a failed initialize.
NoMixedTokens ==
  \A t \in Tasks : \A r \in Outgoing(t) : r.sid # NoSid =>
    /\ opened[r.sid] # NoOpening
    /\ opened[r.sid].token = r.token
    /\ opened[r.sid].agent = agent[t]

\* An initialize that answers an error, and a DELETE that answers, have sent a
\* DELETE for every upstream session they knew of.  (A handler that is dropped
\* before it answers leaves its sessions to GitHub's own expiry.)
NoSessionLeftBehind ==
  \A t \in Tasks : step[t] \in {"failed", "deleted"} => owed[t] = {}

\* A client is only ever shown ids of primary sessions: those are the ids that
\* it can use, and a secondary's id stays inside.
OnlyDownstreamIdsShown ==
  /\ \A t \in Tasks : step[t] = "send" => Shown(t) \in once \cup {NoSid}
  /\ \A s \in once : IsPrimary(opened[s].token[1], opened[s].agent)

-----------------------------------------------------------------------------
(* The table of sessions as a client sees it: a session is live while it is *)
(* pinned and all of its tokens are.  Notifications and DELETE are not      *)
(* looked at: multi_fanout sends them on expired tokens as well.            *)
Phase(s) == IF pins[s] # NoPin /\ (\A o \in Owners : ~Expired(pins[s].routes[o]))
            THEN "live"
            ELSE IF s \in once THEN "over" ELSE "none"

Table == INSTANCE SessionTable
           WITH owner <- [s \in Sids |-> IF s \in once THEN opened[s].agent
                                         ELSE NoAgent],
                phase <- [s \in Sids |-> Phase(s)],
                accepted <- [t \in Tasks |->
                               IF step[t] = "send" /\ sid[t] # NoSid
                               THEN <<sid[t], agent[t]>> ELSE NoRequest]

\* A session of several installations is opened once, serves only its agent
\* and only while every token of it is valid, and never comes back after a
\* DELETE, an expired route, an eviction or a restart ended it.
ImplementsSessionTable == Table!TSpec
=============================================================================
