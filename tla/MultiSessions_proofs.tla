------------------------- MODULE MultiSessions_proofs -------------------------
(***************************************************************************)
(* Proofs about MultiSessions for any installations, agents, sessions and  *)
(* requests in progress, and any numbers of tokens.                        *)
(***************************************************************************)
EXTENDS MultiSessions, TLAPS

-----------------------------------------------------------------------------
(* Type correctness.                                                       *)

LEMMA NoRoutesTyped == NoRoutes \in Routes
BY DEF NoRoutes, Routes

\* A token that is issued is a token, and keeps the counters natural.
LEMMA IssueTyped ==
  ASSUME TypeOK, NEW o \in Owners, NEW n \in 1..MaxTokens[o], IssueToken(o, n)
  PROVE  /\ <<o, n>> \in Tokens
         /\ issued' \in [Owners -> Nat] /\ expired' = expired
<1>1. n \in Nat
  BY ConstantsAssumption
<1> QED
  BY <1>1 DEF TypeOK, IssueToken, Tokens

LEMMA PinTyped ==
  ASSUME TypeOK, NEW s \in Sids, pins[s] # NoPin
  PROVE  /\ pins[s].agent \in Agents /\ pins[s].primary \in Owners
         /\ pins[s].routes \in Routes
BY DEF TypeOK, Pin

LEMMA ForgetTyped ==
  ASSUME TypeOK, NEW t \in Tasks, Forget(t)
  PROVE  /\ agent' \in [Tasks -> Agents \cup {NoAgent}]
         /\ sid' \in [Tasks -> Sids \cup {NoSid}]
         /\ todo' \in [Tasks -> SUBSET Owners]
         /\ owed' \in [Tasks -> SUBSET Sids]
         /\ routes' \in [Tasks -> Routes]
         /\ cred' \in [Tasks -> Route \cup {NoRoute}]
BY NoRoutesTyped DEF TypeOK, Forget

\* The route that ToBody keeps is a route, of an owner.
LEMMA KeptTyped ==
  ASSUME TypeOK, NEW t \in Tasks, cred[t] # NoRoute,
         NEW s \in Sids \cup {NoSid}
  PROVE  /\ Opener(t) \in Owners
         /\ cred[t].token \in Tokens
         /\ [cred[t] EXCEPT !.sid = s] \in Route
BY DEF TypeOK, Opener, Route, Tokens

LEMMA ToBodyTyped ==
  ASSUME TypeOK, NEW t \in Tasks, cred[t] # NoRoute,
         NEW s \in Sids \cup {NoSid}, ToBody(t, s), step[t] = "open"
  PROVE  /\ routes' \in [Tasks -> Routes]
         /\ todo' \in [Tasks -> SUBSET Owners]
         /\ step' \in [Tasks -> {"idle", "mint", "open", "body", "pin", "abort",
                         "failed", "send", "notify", "delete", "deleted"}]
<1> DEFINE r == [cred[t] EXCEPT !.sid = s]
<1>1. r \in Route /\ Opener(t) \in Owners
  BY KeptTyped
<1>2. routes' = [routes EXCEPT ![t] = [routes[t] EXCEPT ![Opener(t)] = r]]
  BY DEF ToBody
<1>3. [routes[t] EXCEPT ![Opener(t)] = r] \in Routes
  BY <1>1 DEF TypeOK, Routes
<1>4. routes' \in [Tasks -> Routes]
  BY <1>2, <1>3 DEF TypeOK
<1> QED
  BY <1>4 DEF ToBody, TypeOK

Working == {"mint", "open", "body", "pin"}

\* An initialize at work has routes to exactly the owners it is done with,
\* and to the one whose body it reads.
Loop(t) ==
  step[t] \in Working =>
    /\ agent[t] \in Agents
    /\ todo[t] \subseteq AgentOwners[agent[t]]
    /\ step[t] = "pin" => todo[t] = {}
    /\ step[t] \in {"open", "body"} => cred[t] # NoRoute /\ Opener(t) \in todo[t]
    /\ step[t] = "body" => ~IsPrimary(Opener(t), agent[t])
    /\ \A o \in Owners : routes[t][o] # NoRoute <=>
         \/ o \in AgentOwners[agent[t]] \ todo[t]
         \/ step[t] = "body" /\ o = Opener(t)

\* A task without a request has no locals.
Idle(t) == step[t] = "idle" => routes[t] = NoRoutes /\ owed[t] = {}

TypeInv == TypeOK /\ \A t \in Tasks : Loop(t) /\ Idle(t)

LEMMA TypeInit == Init => TypeInv
BY NoRoutesTyped, ConstantsAssumption
DEF Init, TypeInv, TypeOK, Loop, Idle, Working

\* What any other task has is what it had.
Others(t) ==
  \A u \in Tasks \ {t} : /\ step'[u] = step[u] /\ agent'[u] = agent[u]
                         /\ sid'[u] = sid[u] /\ todo'[u] = todo[u]
                         /\ owed'[u] = owed[u] /\ routes'[u] = routes[u]
                         /\ cred'[u] = cred[u]

LEMMA OthersKeep ==
  ASSUME TypeInv, NEW t \in Tasks, Others(t), Loop(t)', Idle(t)'
  PROVE  \A u \in Tasks : Loop(u)' /\ Idle(u)'
BY DEF TypeInv, Others, Loop, Idle, Opener

LEMMA TaskOthers ==
  ASSUME TypeOK, NEW t \in Tasks, TaskStep(t)
  PROVE  Others(t)
<1> USE DEF TypeOK, Others, handler, At, Forget
<1>1. CASE \E a \in Agents : Initialize(t, a)
  BY <1>1 DEF Initialize
<1>2. CASE \E o \in Owners : \E n \in 1..MaxTokens[o] : Mint(t, o, n)
  BY <1>2 DEF Mint
<1>3. CASE \E s \in Sids : OpenNamed(t, s)
  BY <1>3 DEF OpenNamed, ToBody
<1>4. CASE \E s \in Sids : OpenLost(t, s)
  BY <1>4 DEF OpenLost, ToAbort
<1>5. CASE OpenUnnamed(t) \/ Fail(t) \/ BodyOk(t) \/ BodyBad(t)
  BY <1>5 DEF OpenUnnamed, Fail, BodyOk, BodyBad, ToBody, ToAbort
<1>6. CASE \E p \in Owners : PinRoutes(t, p)
  BY <1>6 DEF PinRoutes
<1>7. CASE (\E o \in Owners : AbortOne(t, o) \/ FanOne(t, o)) \/ AbortDone(t)
  BY <1>7 DEF AbortOne, FanOne, AbortDone
<1>8. CASE \E a \in Agents, s \in Sids, o \in Owners : Pick(t, a, s, o)
  BY <1>8 DEF Pick
<1>9. CASE \E a \in Agents, s \in Sids, frame \in {"notify", "delete"} :
             FanOut(t, a, s, frame)
  BY <1>9 DEF FanOut
<1>10. CASE Answer(t) \/ Notified(t) \/ Deleted(t) \/ Leave(t) \/ Cancel(t)
  BY <1>10 DEF Answer, Notified, Deleted, Leave, Cancel
<1> QED
  BY <1>1, <1>2, <1>3, <1>4, <1>5, <1>6, <1>7, <1>8, <1>9, <1>10 DEF TaskStep

\* Every field keeps its type.
LEMMA TypeOkStep ==
  ASSUME TypeInv, NEW t \in Tasks, TaskStep(t)
  PROVE  TypeOK'
<1> USE ConstantsAssumption DEF TypeInv, TypeOK, sessions, tokens, handler, At
<1>1. ASSUME NEW a \in Agents, Initialize(t, a) PROVE TypeOK'
  BY <1>1 DEF Initialize
<1>2. ASSUME NEW o \in Owners, NEW n \in 1..MaxTokens[o], Mint(t, o, n)
      PROVE  TypeOK'
  <2>1. [token |-> <<o, n>>, sid |-> NoSid] \in Route
    BY <1>2, IssueTyped DEF Mint, Route
  <2>2. issued' \in [Owners -> Nat] /\ expired' = expired
    BY <1>2, IssueTyped DEF Mint
  <2> QED
    BY <1>2, <2>1, <2>2 DEF Mint
<1>3. ASSUME NEW s \in Sids, OpenNamed(t, s) PROVE TypeOK'
  <2>1. cred[t] # NoRoute /\ agent[t] \in Agents
    BY <1>3 DEF OpenNamed, Loop, Working
  <2>2. cred[t].token \in Tokens
    BY <2>1, KeptTyped
  <2>3. PICK usable \in BOOLEAN :
          opened' = [opened EXCEPT ![s] = [token |-> cred[t].token,
                                    agent |-> agent[t], usable |-> usable]]
    BY <1>3 DEF OpenNamed, GithubOpens
  <2>4. [token |-> cred[t].token, agent |-> agent[t], usable |-> usable] \in Opening
    BY <2>1, <2>2 DEF Opening
  <2>5. opened' \in [Sids -> Opening \cup {NoOpening}]
    BY <2>3, <2>4
  <2>6. /\ routes' \in [Tasks -> Routes]
        /\ todo' \in [Tasks -> SUBSET Owners]
        /\ step' \in [Tasks -> {"idle", "mint", "open", "body", "pin", "abort",
                         "failed", "send", "notify", "delete", "deleted"}]
    BY <1>3, <2>1, ToBodyTyped DEF OpenNamed
  <2> QED
    BY <1>3, <2>5, <2>6 DEF OpenNamed
<1>4. ASSUME NEW s \in Sids, OpenLost(t, s) PROVE TypeOK'
  <2>1. cred[t] # NoRoute /\ agent[t] \in Agents
    BY <1>4 DEF OpenLost, Loop, Working
  <2>2. cred[t].token \in Tokens
    BY <2>1, KeptTyped
  <2>3. [token |-> cred[t].token, agent |-> agent[t], usable |-> TRUE] \in Opening
    BY <2>1, <2>2 DEF Opening
  <2>4. opened' \in [Sids -> Opening \cup {NoOpening}]
    BY <1>4, <2>3 DEF OpenLost, GithubOpens
  <2> QED
    BY <1>4, <2>4 DEF OpenLost, ToAbort
<1>5. ASSUME OpenUnnamed(t) PROVE TypeOK'
  <2>1. cred[t] # NoRoute
    BY <1>5 DEF OpenUnnamed, Loop, Working
  <2>2. /\ routes' \in [Tasks -> Routes]
        /\ todo' \in [Tasks -> SUBSET Owners]
        /\ step' \in [Tasks -> {"idle", "mint", "open", "body", "pin", "abort",
                         "failed", "send", "notify", "delete", "deleted"}]
    BY <1>5, <2>1, ToBodyTyped DEF OpenUnnamed
  <2> QED
    BY <1>5, <2>2 DEF OpenUnnamed
<1>6. ASSUME Fail(t) \/ BodyBad(t) PROVE TypeOK'
  BY <1>6 DEF Fail, BodyBad, ToAbort
<1>7. ASSUME BodyOk(t) PROVE TypeOK'
  BY <1>7 DEF BodyOk
<1>8. ASSUME NEW p \in Owners, PinRoutes(t, p) PROVE TypeOK'
  <2>1. agent[t] \in Agents /\ routes[t] \in Routes /\ routes[t][p] # NoRoute
    BY <1>8 DEF PinRoutes, Loop, Working, IsPrimary, IsFirst
  <2>2. routes[t][p].sid \in Sids \cup {NoSid}
    BY <2>1 DEF Routes, Route
  <2>3. [agent |-> agent[t], primary |-> p, routes |-> routes[t]] \in Pin
    BY <2>1 DEF Pin
  <2>4. pins' \in [Sids -> Pin \cup {NoPin}] /\ once' \subseteq Sids
    BY <1>8, <2>2, <2>3 DEF PinRoutes
  <2>5. step' \in [Tasks -> {"idle", "mint", "open", "body", "pin", "abort",
                         "failed", "send", "notify", "delete", "deleted"}]
    BY <1>8 DEF PinRoutes
  <2> QED
    BY <1>8, <2>4, <2>5, ForgetTyped DEF PinRoutes
<1>9. ASSUME NEW o \in Owners, AbortOne(t, o) \/ FanOne(t, o) PROVE TypeOK'
  BY <1>9 DEF AbortOne, FanOne
<1>10. ASSUME AbortDone(t) PROVE TypeOK'
  BY <1>10 DEF AbortDone
<1>11. ASSUME NEW a \in Agents, NEW s \in Sids, NEW o \in Owners, Pick(t, a, s, o)
       PROVE  TypeOK'
  <2>1. pins[s].routes[o] \in Route
    BY <1>11, PinTyped DEF Pick, Routes
  <2> QED
    BY <1>11, <2>1 DEF Pick
<1>12. ASSUME Answer(t) \/ Notified(t) \/ Leave(t) \/ Cancel(t) PROVE TypeOK'
  <2>1. step' = [step EXCEPT ![t] = "idle"] /\ Forget(t)
    BY <1>12 DEF Answer, Notified, Leave, Cancel
  <2>2. UNCHANGED <<pins, once, opened, issued, expired>>
    BY <1>12 DEF Answer, Notified, Leave, Cancel
  <2> QED
    BY <2>1, <2>2, ForgetTyped
<1>13. ASSUME NEW a \in Agents, NEW s \in Sids,
              NEW frame \in {"notify", "delete"}, FanOut(t, a, s, frame)
       PROVE  TypeOK'
  <2>1. pins[s].routes \in Routes /\ pins[s].primary \in Owners
    BY <1>13, PinTyped DEF FanOut
  <2>2. todo' \in [Tasks -> SUBSET Owners]
    BY <1>13 DEF FanOut
  <2>3. todo'[t] = {o \in Owners : HasSession(pins[s].routes[o])}
    BY <1>13 DEF FanOut
  <2>4. \A o \in todo'[t] : pins[s].routes[o].sid \in Sids
    BY <2>1, <2>3 DEF Routes, Route, HasSession
  <2> DEFINE named == {pins[s].routes[o].sid : o \in todo'[t]}
  <2>5. owed' = [owed EXCEPT ![t] = named]
    BY <1>13 DEF FanOut
  <2>6. named \in SUBSET Sids
    BY <2>4
  <2> HIDE DEF named
  <2>7. owed' \in [Tasks -> SUBSET Sids]
    BY <2>5, <2>6
  <2>8. pins[s].routes[pins[s].primary] \in Route \cup {NoRoute}
    BY <2>1 DEF Routes
  <2> QED
    BY <1>13, <2>1, <2>2, <2>7, <2>8 DEF FanOut
<1>14. ASSUME Deleted(t) PROVE TypeOK'
  BY <1>14 DEF Deleted
<1> QED
  BY <1>1, <1>2, <1>3, <1>4, <1>5, <1>6, <1>7, <1>8, <1>9, <1>10, <1>11, <1>12,
     <1>13, <1>14 DEF TaskStep

\* The acting task's loop goes on.
LEMMA LoopStep ==
  ASSUME TypeInv, NEW t \in Tasks, TaskStep(t)
  PROVE  Loop(t)' /\ Idle(t)'
<1> USE ConstantsAssumption DEF TypeInv, TypeOK, handler, At, Loop, Idle, Working, Opener
<1>1. ASSUME NEW a \in Agents, Initialize(t, a) PROVE Loop(t)' /\ Idle(t)'
  BY <1>1 DEF Initialize, NoRoutes
<1>2. ASSUME NEW o \in Owners, NEW n \in 1..MaxTokens[o], Mint(t, o, n)
      PROVE  Loop(t)' /\ Idle(t)'
  <2>1. [token |-> <<o, n>>, sid |-> NoSid] \in Route
    BY <1>2, IssueTyped DEF Mint, Route
  <2> QED
    BY <1>2, <2>1 DEF Mint, IsFirst
<1>3. ASSUME NEW s \in Sids \cup {NoSid}, step[t] = "open", ToBody(t, s),
             UNCHANGED <<agent, cred>>
      PROVE  Loop(t)' /\ Idle(t)'
  <2> DEFINE r == [cred[t] EXCEPT !.sid = s]
  <2>1. r \in Route /\ Opener(t) \in Owners
    BY <1>3, KeptTyped
  <2>2. r # NoRoute
    BY <2>1
  <2>3. routes'[t] = [routes[t] EXCEPT ![Opener(t)] = r]
    BY <1>3 DEF ToBody
  <2>4. \A o \in Owners : routes'[t][o] # NoRoute <=>
                           routes[t][o] # NoRoute \/ o = Opener(t)
    BY <2>1, <2>2, <2>3 DEF Routes
  <2> HIDE DEF r
  <2> QED
    BY <1>3, <2>4 DEF ToBody
<1>4. ASSUME BodyOk(t) PROVE Loop(t)' /\ Idle(t)'
  BY <1>4 DEF BodyOk
<1>5. ASSUME step'[t] \notin Working \cup {"idle"} PROVE Loop(t)' /\ Idle(t)'
  BY <1>5
<1>6. ASSUME step'[t] = "idle", Forget(t) PROVE Loop(t)' /\ Idle(t)'
  BY <1>6 DEF Forget
<1>7. CASE (\E s \in Sids : OpenNamed(t, s)) \/ OpenUnnamed(t)
  <2>1. PICK s \in Sids \cup {NoSid} :
          step[t] = "open" /\ ToBody(t, s) /\ UNCHANGED <<agent, cred>>
    BY <1>7 DEF OpenNamed, OpenUnnamed
  <2> QED
    BY <1>3, <2>1
<1>8. CASE (\E s \in Sids : OpenLost(t, s)) \/ Fail(t) \/ BodyBad(t)
  <2>1. step' = [step EXCEPT ![t] = "abort"]
    BY <1>8 DEF OpenLost, Fail, BodyBad, ToAbort
  <2> QED
    BY <1>5, <2>1
<1>9. CASE \E p \in Owners : PinRoutes(t, p)
  BY <1>6, <1>9 DEF PinRoutes
<1>10. CASE (\E o \in Owners : AbortOne(t, o) \/ FanOne(t, o)) \/ AbortDone(t)
  BY <1>5, <1>10 DEF AbortOne, FanOne, AbortDone
<1>11. CASE \E a \in Agents, s \in Sids, o \in Owners : Pick(t, a, s, o)
  BY <1>5, <1>11 DEF Pick
<1>12. CASE \E a \in Agents, s \in Sids, frame \in {"notify", "delete"} :
              FanOut(t, a, s, frame)
  BY <1>5, <1>12 DEF FanOut
<1>13. CASE Answer(t) \/ Notified(t) \/ Leave(t) \/ Cancel(t)
  BY <1>6, <1>13 DEF Answer, Notified, Leave, Cancel
<1>14. CASE Deleted(t)
  BY <1>5, <1>14 DEF Deleted
<1> QED
  BY <1>1, <1>2, <1>4, <1>7, <1>8, <1>9, <1>10, <1>11, <1>12, <1>13, <1>14
  DEF TaskStep

\* Steps that are no task's leave the tasks alone, or end them all.
LEMMA OutsideStep ==
  ASSUME TypeInv, [Next]_vars, ~\E t \in Tasks : TaskStep(t)
  PROVE  TypeInv' /\ (UNCHANGED <<step, handler>> \/ Restart)
<1> USE ConstantsAssumption DEF TypeInv, TypeOK, sessions, tokens, handler,
                                Loop, Idle, Opener
<1>1. ASSUME NEW a \in Agents, NEW s \in Sids, PickTerminates(a, s)
      PROVE  TypeInv' /\ UNCHANGED <<step, handler>>
  BY <1>1 DEF PickTerminates
<1>2. ASSUME NEW o \in Owners, NEW n \in 1..MaxTokens[o], Stateless(o, n)
      PROVE  TypeInv' /\ UNCHANGED <<step, handler>>
  <2>1. issued' \in [Owners -> Nat] /\ expired' = expired
    BY <1>2, IssueTyped DEF Stateless
  <2>2. UNCHANGED <<pins, once, opened, step, handler>>
    BY <1>2 DEF Stateless
  <2> QED
    BY <2>1, <2>2
<1>3. ASSUME NEW o \in Owners, Expire(o)
      PROVE  TypeInv' /\ UNCHANGED <<step, handler>>
  BY <1>3 DEF Expire
<1>4. ASSUME NEW s \in Sids, Evict(s)
      PROVE  TypeInv' /\ UNCHANGED <<step, handler>>
  BY <1>4 DEF Evict
<1>5. ASSUME Restart PROVE TypeInv'
  BY <1>5, NoRoutesTyped DEF Restart, Working
<1>6. CASE UNCHANGED vars
  BY <1>6 DEF vars
<1> QED
  BY <1>1, <1>2, <1>3, <1>4, <1>5, <1>6 DEF Next

LEMMA TypeStep == TypeInv /\ [Next]_vars => TypeInv'
<1> SUFFICES ASSUME TypeInv, [Next]_vars PROVE TypeInv'
  OBVIOUS
<1>1. ASSUME NEW t \in Tasks, TaskStep(t) PROVE TypeInv'
  BY <1>1, TypeOkStep, LoopStep, TaskOthers, OthersKeep DEF TypeInv
<1> QED
  BY <1>1, OutsideStep

\* Every reachable state is well typed, and every initialize at work has routes
\* to exactly the owners it is done with.
THEOREM TypeCorrect == Spec => [](TypeOK /\ \A t \in Tasks : Loop(t))
<1>1. TypeInv => TypeOK /\ \A t \in Tasks : Loop(t)
  BY DEF TypeInv
<1> QED
  BY <1>1, TypeInit, TypeStep, PTL DEF Spec

-----------------------------------------------------------------------------
(* What ties routes, pins and GitHub's sessions together.                  *)

Sweeping == {"abort", "notify", "delete"}

\* A task's routes are what GitHub opened for its agent.
Routed(t) ==
  \A o \in Owners : routes[t][o] # NoRoute => Faithful(routes[t][o], o, agent[t])

\* A call on its way carries a faithful route of a session that was pinned.
Sending(t) ==
  step[t] = "send" => /\ cred[t] # NoRoute
                      /\ Faithful(cred[t], Opener(t), agent[t])
                      /\ sid[t] \in once

\* The secondaries that an initialize is done with are usable.
Healthy(t) ==
  step[t] \in Working =>
    \A o \in AgentOwners[agent[t]] \ todo[t] :
      routes[t][o].sid # NoSid /\ ~IsPrimary(o, agent[t])
        => opened[routes[t][o].sid].usable

\* A task knows the sessions of its routes; those it sweeps it has yet to
\* visit.
Owing(t) ==
  /\ step[t] \in Sweeping => \A o \in todo[t] : routes[t][o] # NoRoute
  /\ \A s \in owed[t] :
       /\ step[t] \in Working \cup Sweeping
       /\ \E o \in Owners : /\ HasSession(routes[t][o]) /\ routes[t][o].sid = s
                            /\ step[t] \in Sweeping => o \in todo[t]

Local(t) == Routed(t) /\ Sending(t) /\ Healthy(t) /\ Owing(t)

\* The session ids that were ever pinned are ids of primaries.
PinnedIds ==
  /\ \A s \in Sids : pins[s] # NoPin => s \in once
  /\ \A s \in once : /\ opened[s] # NoOpening
                     /\ IsPrimary(opened[s].token[1], opened[s].agent)

SessionInv == (\A t \in Tasks : Local(t)) /\ PinsAreWhole /\ PinnedIds

LEMMA SessionInit == Init => SessionInv
BY DEF Init, SessionInv, Local, Routed, Sending, Healthy, Owing, Working, Sweeping,
       PinsAreWhole, PinnedIds, NoRoutes

\* GitHub opens a session once, and pinned ids are not forgotten.
LEMMA OpenedStays ==
  ASSUME TypeInv, [Next]_vars
  PROVE  /\ \A s \in Sids : opened[s] # NoOpening => opened'[s] = opened[s]
         /\ once \subseteq once'
<1> USE DEF TypeInv, TypeOK, sessions, tokens, handler
<1>1. ASSUME NEW t \in Tasks, NEW s \in Sids, OpenNamed(t, s) \/ OpenLost(t, s)
      PROVE  /\ \A x \in Sids : opened[x] # NoOpening => opened'[x] = opened[x]
             /\ once' = once
  BY <1>1 DEF OpenNamed, OpenLost, GithubOpens
<1>2. ASSUME NEW t \in Tasks, NEW p \in Owners, PinRoutes(t, p)
      PROVE  opened' = opened /\ once \subseteq once'
  BY <1>2 DEF PinRoutes
<1>3. CASE UNCHANGED <<opened, once>>
  BY <1>3
<1>4. ASSUME NEW t \in Tasks, TaskStep(t),
             ~\E s \in Sids : OpenNamed(t, s) \/ OpenLost(t, s),
             ~\E p \in Owners : PinRoutes(t, p)
      PROVE  UNCHANGED <<opened, once>>
  <2>1. CASE \/ \E a \in Agents : Initialize(t, a)
             \/ \E o \in Owners : \E n \in 1..MaxTokens[o] : Mint(t, o, n)
             \/ OpenUnnamed(t) \/ Fail(t) \/ BodyOk(t) \/ BodyBad(t)
    BY <2>1 DEF Initialize, Mint, OpenUnnamed, Fail, BodyOk, BodyBad
  <2>2. CASE \/ \E o \in Owners : AbortOne(t, o) \/ FanOne(t, o)
             \/ AbortDone(t)
    BY <2>2 DEF AbortOne, FanOne, AbortDone
  <2>3. CASE \/ \E a \in Agents, s \in Sids, o \in Owners : Pick(t, a, s, o)
             \/ \E a \in Agents, s \in Sids, frame \in {"notify", "delete"} :
                  FanOut(t, a, s, frame)
    BY <2>3 DEF Pick, FanOut
  <2>4. CASE Answer(t) \/ Notified(t) \/ Deleted(t) \/ Leave(t) \/ Cancel(t)
    BY <2>4 DEF Answer, Notified, Deleted, Leave, Cancel
  <2> QED
    BY <1>4, <2>1, <2>2, <2>3, <2>4 DEF TaskStep
<1>5. ASSUME ~\E t \in Tasks : TaskStep(t)
      PROVE  UNCHANGED <<opened, once>>
  BY <1>5 DEF Next, vars, PickTerminates, Stateless, Expire, Evict, Restart
<1> QED
  BY <1>1, <1>2, <1>3, <1>4, <1>5

\* Whatever GitHub and the other tasks do, a task's local facts stay true.
LEMMA LocalKept ==
  ASSUME TypeInv, SessionInv, [Next]_vars, NEW u \in Tasks,
         /\ step'[u] = step[u] /\ agent'[u] = agent[u] /\ sid'[u] = sid[u]
         /\ todo'[u] = todo[u] /\ owed'[u] = owed[u] /\ routes'[u] = routes[u]
         /\ cred'[u] = cred[u]
  PROVE  Local(u)'
<1> USE OpenedStays DEF TypeInv, TypeOK, SessionInv, Local
<1>1. \A o \in Owners : routes[u][o] \in Route \cup {NoRoute}
  BY DEF Routes
<1>2. ASSUME NEW r \in Route, NEW o \in Owners, NEW a, Faithful(r, o, a)
      PROVE  Faithful(r, o, a)'
  BY <1>2 DEF Faithful, Route
<1>3. Routed(u)'
  BY <1>1, <1>2 DEF Routed
<1>4. Sending(u)'
  <2>1. step[u] = "send" => Opener(u) \in Owners
    BY KeptTyped DEF Sending
  <2> QED
    BY <1>2, <2>1 DEF Sending, Opener
<1>5. Healthy(u)'
  <2>1. ASSUME NEW o \in AgentOwners[agent[u]] \ todo[u], step[u] \in Working,
               routes[u][o].sid # NoSid
        PROVE  /\ opened[routes[u][o].sid] # NoOpening
               /\ routes[u][o].sid \in Sids
    <3>1. o \in Owners /\ routes[u][o] # NoRoute
      BY <2>1, ConstantsAssumption DEF Loop
    <3> QED
      BY <1>1, <2>1, <3>1 DEF Routed, Faithful, Route
  <2> QED
    BY <2>1 DEF Healthy
<1>6. Owing(u)'
  BY DEF Owing
<1> QED
  BY <1>3, <1>4, <1>5, <1>6

\* A task whose locals are gone has nothing to be faithful about.
LEMMA ForgottenLocal ==
  ASSUME TypeOK, NEW t \in Tasks, Forget(t), step'[t] = "idle"
  PROVE  Local(t)'
BY DEF TypeOK, Forget, Local, Routed, Sending, Healthy, Owing, Working, Sweeping,
       NoRoutes

\* The route of a 2xx answer is the one the task asked GitHub for.
LEMMA LocalToBody ==
  ASSUME TypeInv, SessionInv, [Next]_vars, NEW t \in Tasks,
         NEW s \in Sids \cup {NoSid}, step[t] = "open", ToBody(t, s),
         UNCHANGED <<agent, sid, cred>>,
         s # NoSid => /\ opened[s] = NoOpening
                      /\ opened'[s] # NoOpening
                      /\ opened'[s].token = cred[t].token
                      /\ opened'[s].agent = agent[t],
         owed' = [owed EXCEPT ![t] = @ \cup ({s} \ {NoSid})]
  PROVE  Local(t)'
<1> DEFINE r == [cred[t] EXCEPT !.sid = s]
<1> DEFINE q == Opener(t)
<1>1. /\ cred[t] # NoRoute /\ q \in todo[t] /\ q \in Owners
      /\ r \in Route /\ r.sid = s /\ r.token = cred[t].token
  BY KeptTyped DEF TypeInv, TypeOK, Loop, Working, Route
<1>2. r # NoRoute
  BY <1>1, ConstantsAssumption
<1>3. /\ routes' = [routes EXCEPT ![t] = [routes[t] EXCEPT ![q] = r]]
      /\ \A o \in Owners : routes'[t][o] = IF o = q THEN r ELSE routes[t][o]
  BY <1>1 DEF ToBody, TypeInv, TypeOK, Routes
<1> DEFINE Kept(x, o, a) == /\ x.token[1] = o
                            /\ x.sid # NoSid => /\ opened'[x.sid] # NoOpening
                                                /\ opened'[x.sid].token = x.token
                                                /\ opened'[x.sid].agent = a
<1>4. Kept(r, q, agent[t])
  BY <1>1 DEF Opener
<1>5. ASSUME NEW x \in Route, NEW o \in Owners, NEW a, Faithful(x, o, a)
      PROVE  Kept(x, o, a)
  BY <1>5, OpenedStays DEF Faithful, TypeInv, TypeOK, Route
<1> HIDE DEF r
<1>6. Routed(t)'
  <2>1. ASSUME NEW o \in Owners \ {q}, routes'[t][o] # NoRoute
        PROVE  Kept(routes'[t][o], o, agent'[t])
    <3>1. routes'[t][o] = routes[t][o] /\ routes[t][o] \in Route
      BY <1>3, <2>1 DEF TypeInv, TypeOK, Routes
    <3>2. Faithful(routes[t][o], o, agent[t])
      BY <2>1, <3>1 DEF SessionInv, Local, Routed
    <3> QED
      BY <1>5, <3>1, <3>2
  <2>2. Kept(routes'[t][q], q, agent'[t])
    BY <1>1, <1>3, <1>4
  <2> QED
    BY <2>1, <2>2 DEF Routed, Faithful
<1>7. step'[t] \in {"mint", "pin", "body"}
  BY DEF ToBody, TypeInv, TypeOK
<1>8. Sending(t)'
  BY <1>7 DEF Sending
<1>9. Healthy(t)'
  <2>1. ASSUME NEW o \in AgentOwners[agent[t]] \ todo'[t],
               routes'[t][o].sid # NoSid, ~IsPrimary(o, agent[t])
        PROVE  opened'[routes'[t][o].sid].usable
    <3>1. o # q
      BY <1>1, <2>1 DEF ToBody, TypeInv, TypeOK
    <3>2. o \in AgentOwners[agent[t]] \ todo[t] /\ o \in Owners
      BY <2>1, <3>1, ConstantsAssumption DEF ToBody, TypeInv, TypeOK, Loop, Working
    <3>3. routes'[t][o] = routes[t][o] /\ routes[t][o] # NoRoute
      BY <1>3, <3>1, <3>2 DEF TypeInv, Loop, Working
    <3>4. opened[routes[t][o].sid].usable
      BY <2>1, <3>2, <3>3 DEF SessionInv, Local, Healthy, Working
    <3>5. routes[t][o].sid \in Sids /\ opened[routes[t][o].sid] # NoOpening
      BY <2>1, <3>2, <3>3
      DEF SessionInv, Local, Routed, Faithful, TypeInv, TypeOK, Routes, Route
    <3> QED
      BY <3>3, <3>4, <3>5, OpenedStays
  <2> QED
    BY <2>1 DEF Healthy
<1>10. Owing(t)'
  <2>1. \A x \in owed[t] : \E o \in Owners : HasSession(routes[t][o])
                                             /\ routes[t][o].sid = x
    BY DEF SessionInv, Local, Owing
  <2>2. \A o \in Owners : HasSession(routes[t][o]) => o # q
    BY <1>1 DEF HasSession, TypeInv, Loop, Working
  <2>3. ASSUME NEW x \in owed'[t]
        PROVE  \E o \in Owners : HasSession(routes'[t][o]) /\ routes'[t][o].sid = x
    <3>1. CASE x \in owed[t]
      BY <1>3, <2>1, <2>2, <3>1
    <3>2. CASE x \notin owed[t]
      <4>1. x = s /\ s # NoSid
        BY <2>3, <3>2 DEF TypeInv, TypeOK
      <4>2. routes'[t][q] = r /\ HasSession(r)
        BY <1>1, <1>2, <1>3, <4>1 DEF HasSession
      <4> QED
        BY <1>1, <4>1, <4>2
    <3> QED
      BY <3>1, <3>2
  <2> QED
    BY <1>7, <2>3 DEF Owing, Working, Sweeping, HasSession
<1> QED
  BY <1>6, <1>8, <1>9, <1>10 DEF Local

\* An initialize that is given up sweeps every session it knows of.
LEMMA LocalToAbort ==
  ASSUME TypeInv, SessionInv, [Next]_vars, NEW t \in Tasks,
         step[t] \in Working, ToAbort(t),
         UNCHANGED <<agent, sid, routes, cred, owed>>
  PROVE  Local(t)'
<1>1. /\ step'[t] = "abort"
      /\ todo'[t] = {o \in Owners : HasSession(routes[t][o])}
  BY DEF ToAbort, TypeInv, TypeOK
<1>2. Routed(t)'
  BY OpenedStays DEF SessionInv, Local, Routed, Faithful, TypeInv, TypeOK, Routes, Route
<1>3. Owing(t)'
  BY <1>1 DEF SessionInv, Local, Owing, HasSession, Working, Sweeping
<1> QED
  BY <1>1, <1>2, <1>3 DEF Local, Sending, Healthy, Working

LEMMA LocalSweep ==
  ASSUME TypeInv, SessionInv, [Next]_vars, NEW t \in Tasks, NEW o \in todo[t],
         step[t] \in Sweeping,
         owed' = [owed EXCEPT ![t] = @ \ {routes[t][o].sid}],
         todo' = [todo EXCEPT ![t] = @ \ {o}],
         UNCHANGED <<step, agent, sid, routes, cred>>
  PROVE  Local(t)'
<1>1. owed'[t] = owed[t] \ {routes[t][o].sid} /\ todo'[t] = todo[t] \ {o}
  BY DEF TypeInv, TypeOK
<1>2. Routed(t)'
  BY OpenedStays DEF SessionInv, Local, Routed, Faithful, TypeInv, TypeOK, Routes, Route
<1>3. Owing(t)'
  <2>1. ASSUME NEW x \in owed'[t]
        PROVE  \E q \in Owners : /\ HasSession(routes[t][q]) /\ routes[t][q].sid = x
                                 /\ q \in todo'[t]
    <3>1. PICK q \in Owners : /\ HasSession(routes[t][q]) /\ routes[t][q].sid = x
                              /\ q \in todo[t]
      BY <1>1 DEF SessionInv, Local, Owing
    <3>2. q # o
      BY <1>1, <3>1
    <3> QED
      BY <1>1, <3>1, <3>2
  <2> QED
    BY <1>1, <2>1 DEF SessionInv, Local, Owing, HasSession
<1> QED
  BY <1>2, <1>3 DEF Local, Sending, Healthy, Working, Sweeping

\* The routes of a pin, for the agent of the pin.
LEMMA PinRoute ==
  ASSUME TypeInv, SessionInv, NEW s \in Sids, pins[s] # NoPin, NEW o \in Owners,
         pins[s].routes[o] # NoRoute
  PROVE  /\ pins[s].routes[o] \in Route
         /\ Faithful(pins[s].routes[o], o, pins[s].agent)
<1>1. pins[s].routes \in Routes /\ pins[s].agent \in Agents
  BY PinTyped DEF TypeInv
<1>2. o \in AgentOwners[pins[s].agent]
  BY DEF SessionInv, PinsAreWhole
<1> QED
  BY <1>1, <1>2 DEF SessionInv, PinsAreWhole, Routes

\* The acting task's local facts stay true.
LEMMA LocalStep ==
  ASSUME TypeInv, SessionInv, [Next]_vars, TypeInv', NEW t \in Tasks, TaskStep(t)
  PROVE  Local(t)'
<1> USE DEF handler, At
<1>0. /\ step[t] = "idle" => routes[t] = NoRoutes /\ owed[t] = {}
      /\ \A o \in Owners : routes[t][o] \in Route \cup {NoRoute}
  BY DEF TypeInv, TypeOK, Idle, Routes
<1>1. ASSUME NEW a \in Agents, Initialize(t, a) PROVE Local(t)'
  <2>1. step'[t] = "mint" /\ routes'[t] = NoRoutes /\ owed'[t] = {}
    BY <1>0, <1>1 DEF Initialize, TypeInv, TypeOK
  <2>2. todo'[t] = AgentOwners[a] /\ agent'[t] = a
    BY <1>1 DEF Initialize, TypeInv, TypeOK
  <2> QED
    BY <2>1, <2>2 DEF Local, Routed, Sending, Healthy, Owing, NoRoutes, Sweeping
<1>2. ASSUME NEW s \in Sids, OpenNamed(t, s) PROVE Local(t)'
  <2>1. PICK usable \in BOOLEAN : GithubOpens(t, s, usable)
    BY <1>2 DEF OpenNamed
  <2>2. /\ opened[s] = NoOpening
        /\ opened'[s] = [token |-> cred[t].token, agent |-> agent[t],
                         usable |-> usable]
    BY <2>1 DEF GithubOpens, TypeInv, TypeOK
  <2>3. opened'[s] # NoOpening
    <3>1. cred[t].token \in Tokens /\ agent[t] \in Agents
      BY <1>2, KeptTyped DEF OpenNamed, TypeInv, Loop, Working
    <3>2. opened'[s] \in Opening
      BY <2>2, <3>1 DEF Opening
    <3> QED
      BY <3>2, ConstantsAssumption
  <2>4. step[t] = "open" /\ ToBody(t, s) /\ UNCHANGED <<agent, sid, cred>>
    BY <1>2 DEF OpenNamed
  <2>5. {s} \ {NoSid} = {s} /\ s \in Sids \cup {NoSid}
    BY ConstantsAssumption
  <2>6. owed' = [owed EXCEPT ![t] = @ \cup ({s} \ {NoSid})]
    BY <1>2, <2>5 DEF OpenNamed
  <2>7. /\ opened[s] = NoOpening /\ opened'[s] # NoOpening
        /\ opened'[s].token = cred[t].token /\ opened'[s].agent = agent[t]
    BY <2>2, <2>3
  <2> QED
    BY <2>4, <2>5, <2>6, <2>7, LocalToBody
<1>3. ASSUME OpenUnnamed(t) PROVE Local(t)'
  <2>1. step[t] = "open" /\ ToBody(t, NoSid) /\ UNCHANGED <<agent, sid, cred>>
    BY <1>3 DEF OpenUnnamed
  <2>2. owed' = [owed EXCEPT ![t] = @ \cup ({NoSid} \ {NoSid})]
    BY <1>3 DEF OpenUnnamed, TypeInv, TypeOK
  <2> QED
    BY <2>1, <2>2, LocalToBody
<1>4. CASE (\E s \in Sids : OpenLost(t, s)) \/ Fail(t) \/ BodyBad(t)
  <2>1. /\ step[t] \in Working /\ ToAbort(t)
        /\ UNCHANGED <<agent, sid, routes, cred, owed>>
    BY <1>4 DEF OpenLost, Fail, BodyBad, Working
  <2> QED
    BY <2>1, LocalToAbort
<1>5. ASSUME NEW o \in Owners, AbortOne(t, o) \/ FanOne(t, o) PROVE Local(t)'
  <2>1. /\ o \in todo[t] /\ step[t] \in Sweeping
        /\ owed' = [owed EXCEPT ![t] = @ \ {routes[t][o].sid}]
        /\ todo' = [todo EXCEPT ![t] = @ \ {o}]
        /\ UNCHANGED <<step, agent, sid, routes, cred>>
    BY <1>5 DEF AbortOne, FanOne, Sweeping
  <2> QED
    BY <2>1, LocalSweep
<1>6. ASSUME step'[t] = "idle", Forget(t) PROVE Local(t)'
  BY <1>6, ForgottenLocal DEF TypeInv
<1>7. CASE (\E p \in Owners : PinRoutes(t, p)) \/ Answer(t) \/ Notified(t)
             \/ Leave(t) \/ Cancel(t)
  <2>1. step' = [step EXCEPT ![t] = "idle"] /\ Forget(t)
    BY <1>7 DEF PinRoutes, Answer, Notified, Leave, Cancel
  <2> QED
    BY <1>6, <2>1 DEF TypeInv, TypeOK
<1>8. ASSUME \E o \in Owners : \E n \in 1..MaxTokens[o] : Mint(t, o, n)
      PROVE  Local(t)'
  <2>1. /\ step[t] = "mint" /\ step'[t] = "open"
        /\ UNCHANGED <<agent, todo, owed, routes, opened, once>>
    BY <1>8 DEF Mint, sessions, TypeInv, TypeOK
  <2> QED
    BY <2>1 DEF SessionInv, Local, Routed, Faithful, Sending, Healthy, Owing,
                Working, Sweeping
<1>9. ASSUME BodyOk(t) PROVE Local(t)'
  <2>1. /\ step[t] = "body" /\ step'[t] \in {"mint", "pin"}
        /\ todo'[t] = todo[t] \ {Opener(t)}
        /\ UNCHANGED <<agent, owed, routes, opened, once>>
    BY <1>9 DEF BodyOk, sessions, TypeInv, TypeOK
  <2>2. routes[t][Opener(t)].sid # NoSid => opened[routes[t][Opener(t)].sid].usable
    BY <1>9 DEF BodyOk, BodyUsable
  <2>3. Healthy(t)'
    BY <2>1, <2>2 DEF SessionInv, Local, Healthy, Working
  <2> QED
    BY <2>1, <2>3 DEF SessionInv, Local, Routed, Faithful, Sending, Owing,
                      Working, Sweeping
<1>10. ASSUME AbortDone(t) PROVE Local(t)'
  <2>1. /\ step[t] = "abort" /\ step'[t] = "failed" /\ todo[t] = {}
        /\ UNCHANGED <<agent, todo, owed, routes, opened, once>>
    BY <1>10 DEF AbortDone, sessions, TypeInv, TypeOK
  <2> QED
    BY <2>1 DEF SessionInv, Local, Routed, Faithful, Sending, Healthy, Owing,
                Working, Sweeping
<1>11. ASSUME Deleted(t) PROVE Local(t)'
  <2>1. /\ step[t] = "delete" /\ step'[t] = "deleted" /\ todo[t] = {}
        /\ UNCHANGED <<agent, todo, owed, routes, opened, once>>
    BY <1>11 DEF Deleted, FanDone, TypeInv, TypeOK
  <2> QED
    BY <2>1 DEF SessionInv, Local, Routed, Faithful, Sending, Healthy, Owing,
                Working, Sweeping
<1>12. ASSUME NEW a \in Agents, NEW s \in Sids, NEW o \in Owners, Pick(t, a, s, o)
       PROVE  Local(t)'
  <2>1. /\ step'[t] = "send" /\ cred'[t] = pins[s].routes[o] /\ agent'[t] = a
        /\ sid'[t] = s /\ routes'[t] = NoRoutes /\ owed'[t] = {}
        /\ UNCHANGED <<opened, once>>
    BY <1>0, <1>12 DEF Pick, sessions, TypeInv, TypeOK
  <2>2. /\ pins[s].routes[o] \in Route
        /\ Faithful(pins[s].routes[o], o, a)
        /\ s \in once
    BY <1>12, PinRoute DEF Pick, SessionInv, PinnedIds
  <2>3. Sending(t)'
    BY <2>1, <2>2, ConstantsAssumption DEF Sending, Faithful, Opener
  <2> QED
    BY <2>1, <2>3 DEF Local, Routed, Healthy, Owing, NoRoutes, Working, Sweeping
<1>13. ASSUME NEW a \in Agents, NEW s \in Sids,
              NEW frame \in {"notify", "delete"}, FanOut(t, a, s, frame)
       PROVE  Local(t)'
  <2>1. /\ step'[t] = frame /\ agent'[t] = a /\ routes'[t] = pins[s].routes
        /\ todo'[t] = {o \in Owners : HasSession(pins[s].routes[o])}
        /\ owed'[t] = {pins[s].routes[o].sid : o \in todo'[t]}
        /\ UNCHANGED <<opened, once>>
    BY <1>13 DEF FanOut, sessions, TypeInv, TypeOK
  <2>2. \A o \in Owners : pins[s].routes[o] # NoRoute =>
          Faithful(pins[s].routes[o], o, a)
    BY <1>13, PinRoute DEF FanOut
  <2>3. Routed(t)'
    BY <2>1, <2>2 DEF Routed, Faithful
  <2>4. Owing(t)'
    BY <2>1 DEF Owing, HasSession, Sweeping
  <2> QED
    BY <2>1, <2>3, <2>4 DEF Local, Sending, Healthy, Working
<1> QED
  BY <1>1, <1>2, <1>3, <1>4, <1>5, <1>7, <1>8, <1>9, <1>10, <1>11, <1>12, <1>13
  DEF TaskStep

\* A pin that is put in the table is whole.
LEMMA PinnedWhole ==
  ASSUME TypeInv, SessionInv, [Next]_vars, NEW t \in Tasks, NEW p \in Owners,
         PinRoutes(t, p)
  PROVE  PinsAreWhole' /\ PinnedIds'
<1> DEFINE s == routes[t][p].sid
<1> DEFINE pin == [agent |-> agent[t], primary |-> p, routes |-> routes[t]]
<1>1. /\ step[t] = "pin" /\ IsPrimary(p, agent[t]) /\ agent[t] \in Agents
      /\ todo[t] = {} /\ UNCHANGED opened
      /\ pins' = IF s = NoSid THEN pins ELSE [pins EXCEPT ![s] = pin]
      /\ once' = once \cup ({s} \ {NoSid})
  BY DEF PinRoutes, At, TypeInv, Loop, Working
<1>2. \A o \in Owners : routes[t][o] # NoRoute <=> o \in AgentOwners[agent[t]]
  BY <1>1 DEF TypeInv, Loop, Working
<1>3. \A o \in AgentOwners[agent[t]] : /\ Faithful(routes[t][o], o, agent[t])
                                       /\ routes[t][o] \in Route
  BY <1>1, <1>2, ConstantsAssumption
  DEF SessionInv, Local, Routed, TypeInv, TypeOK, Routes
<1>4. \A o \in AgentOwners[agent[t]] :
        routes[t][o].sid # NoSid /\ ~IsPrimary(o, agent[t])
          => opened[routes[t][o].sid].usable
  BY <1>1 DEF SessionInv, Local, Healthy, Working
<1>5. \A o \in AgentOwners[agent[t]] : IsPrimary(o, agent[t]) => o = p
  BY <1>1, ConstantsAssumption DEF IsPrimary, IsFirst
<1>6. p \in AgentOwners[agent[t]] /\ s \in Sids \cup {NoSid}
  BY <1>1, <1>3 DEF IsPrimary, IsFirst, Route
<1>7. CASE s = NoSid
  BY <1>1, <1>7 DEF SessionInv, PinsAreWhole, PinnedIds, Faithful
<1>8. CASE s # NoSid
  <2>1. s \in Sids
    BY <1>6, <1>8
  <2>2. \A x \in Sids : pins'[x] = IF x = s THEN pin ELSE pins[x]
    BY <1>1, <1>8, <2>1 DEF TypeInv, TypeOK
  <2>3. /\ pin.agent = agent[t] /\ pin.primary = p /\ pin.routes = routes[t]
    OBVIOUS
  <2>4. opened[s] # NoOpening /\ opened[s].token[1] = p /\ opened[s].agent = agent[t]
    BY <1>3, <1>6, <1>8 DEF Faithful
  <2> HIDE DEF s, pin
  <2>5. PinsAreWhole'
    <3>1. ASSUME NEW x \in Sids \ {s}, pins'[x] # NoPin
          PROVE  /\ pins[x] = pins'[x] /\ pins[x] # NoPin
      BY <2>2, <3>1
    <3>2. \A x \in Sids \ {s} : pins'[x] # NoPin =>
            LET q == pins'[x]
            IN  /\ \A o \in Owners : q.routes[o] # NoRoute <=> o \in AgentOwners[q.agent]
                /\ \A o \in AgentOwners[q.agent] :
                     /\ Faithful(q.routes[o], o, q.agent)
                     /\ q.routes[o].sid # NoSid /\ o # q.primary
                          => opened[q.routes[o].sid].usable
                /\ IsPrimary(q.primary, q.agent)
                /\ q.routes[q.primary].sid = x
      BY <3>1 DEF SessionInv, PinsAreWhole
    <3>3. /\ \A o \in Owners : pin.routes[o] # NoRoute <=> o \in AgentOwners[pin.agent]
          /\ \A o \in AgentOwners[pin.agent] :
               /\ Faithful(pin.routes[o], o, pin.agent)
               /\ pin.routes[o].sid # NoSid /\ o # pin.primary
                    => opened[pin.routes[o].sid].usable
          /\ IsPrimary(pin.primary, pin.agent)
          /\ pin.routes[pin.primary].sid = s
      BY <1>1, <1>2, <1>3, <1>4, <1>5, <2>3 DEF s
    <3> QED
      BY <1>1, <2>1, <2>2, <3>2, <3>3 DEF PinsAreWhole, Faithful
  <2>6. PinnedIds'
    BY <1>1, <2>1, <2>2, <2>4 DEF SessionInv, PinnedIds
  <2> QED
    BY <2>5, <2>6
<1> QED
  BY <1>7, <1>8

\* Pins that are left in the table stay whole.
LEMMA RestWhole ==
  ASSUME TypeInv, SessionInv, [Next]_vars,
         \A s \in Sids : pins'[s] \in {pins[s], NoPin},
         once' = once
  PROVE  PinsAreWhole' /\ PinnedIds'
<1>1. \A s \in Sids : pins'[s] # NoPin => pins'[s] = pins[s]
  OBVIOUS
<1>2. ASSUME NEW s \in Sids, pins[s] # NoPin, NEW o \in AgentOwners[pins[s].agent]
      PROVE  /\ Faithful(pins[s].routes[o], o, pins[s].agent)
             /\ pins[s].routes[o].sid \in Sids \cup {NoSid}
             /\ pins[s].routes[o].sid # NoSid =>
                  /\ opened[pins[s].routes[o].sid] # NoOpening
                  /\ opened'[pins[s].routes[o].sid] = opened[pins[s].routes[o].sid]
  <2>1. o \in Owners /\ pins[s].routes[o] # NoRoute
    BY <1>2, PinTyped, ConstantsAssumption DEF SessionInv, PinsAreWhole, TypeInv
  <2>2. pins[s].routes[o] \in Route /\ Faithful(pins[s].routes[o], o, pins[s].agent)
    BY <1>2, <2>1, PinRoute
  <2> QED
    BY <2>2, OpenedStays DEF Faithful, Route
<1>3. PinsAreWhole'
  <2>1. ASSUME NEW s \in Sids, pins'[s] # NoPin
        PROVE  LET p == pins[s]
               IN  /\ \A o \in Owners : p.routes[o] # NoRoute <=> o \in AgentOwners[p.agent]
                   /\ \A o \in AgentOwners[p.agent] :
                        /\ p.routes[o].token[1] = o
                        /\ p.routes[o].sid # NoSid =>
                             /\ opened'[p.routes[o].sid] # NoOpening
                             /\ opened'[p.routes[o].sid].token = p.routes[o].token
                             /\ opened'[p.routes[o].sid].agent = p.agent
                        /\ p.routes[o].sid # NoSid /\ o # p.primary
                             => opened'[p.routes[o].sid].usable
                   /\ IsPrimary(p.primary, p.agent)
                   /\ p.routes[p.primary].sid = s
    BY <1>1, <1>2, <2>1 DEF SessionInv, PinsAreWhole, Faithful
  <2> QED
    BY <1>1, <2>1 DEF PinsAreWhole, Faithful
<1>4. PinnedIds'
  BY <1>1, OpenedStays DEF SessionInv, PinnedIds, TypeInv, TypeOK
<1> QED
  BY <1>3, <1>4

\* Only a pinning step makes an id a pinned one.
LEMMA OnceStep ==
  ASSUME TypeInv, [Next]_vars, ~\E t \in Tasks, p \in Owners : PinRoutes(t, p)
  PROVE  /\ \A s \in Sids : pins'[s] \in {pins[s], NoPin}
         /\ once' = once
<1> DEFINE Kept == (\A s \in Sids : pins'[s] \in {pins[s], NoPin}) /\ once' = once
<1> USE DEF TypeInv, TypeOK, sessions
<1>1. ASSUME NEW t \in Tasks, TaskStep(t), ~\E p \in Owners : PinRoutes(t, p)
      PROVE  Kept
  <2>1. CASE \/ \E a \in Agents : Initialize(t, a)
             \/ \E o \in Owners : \E n \in 1..MaxTokens[o] : Mint(t, o, n)
             \/ \E s \in Sids : OpenNamed(t, s) \/ OpenLost(t, s)
             \/ OpenUnnamed(t) \/ Fail(t) \/ BodyOk(t) \/ BodyBad(t)
    BY <2>1 DEF Initialize, Mint, OpenNamed, OpenLost, OpenUnnamed, Fail, BodyOk,
                BodyBad
  <2>2. CASE \/ \E o \in Owners : AbortOne(t, o) \/ FanOne(t, o)
             \/ AbortDone(t)
    BY <2>2 DEF AbortOne, FanOne, AbortDone
  <2>3. CASE \/ \E a \in Agents, s \in Sids, o \in Owners : Pick(t, a, s, o)
             \/ \E a \in Agents, s \in Sids, frame \in {"notify", "delete"} :
                  FanOut(t, a, s, frame)
    BY <2>3 DEF Pick, FanOut
  <2>4. CASE Answer(t) \/ Notified(t) \/ Leave(t) \/ Cancel(t)
    BY <2>4 DEF Answer, Notified, Leave, Cancel
  <2>5. CASE Deleted(t)
    BY <2>5 DEF Deleted
  <2> QED
    BY <1>1, <2>1, <2>2, <2>3, <2>4, <2>5 DEF TaskStep
<1>2. ASSUME ~\E t \in Tasks : TaskStep(t) PROVE Kept
  <2>1. ASSUME NEW a \in Agents, NEW s \in Sids, PickTerminates(a, s) PROVE Kept
    BY <2>1 DEF PickTerminates
  <2>2. ASSUME NEW s \in Sids, Evict(s) PROVE Kept
    BY <2>2 DEF Evict
  <2>3. CASE \/ \E o \in Owners : \/ Expire(o)
                                  \/ \E n \in 1..MaxTokens[o] : Stateless(o, n)
             \/ UNCHANGED vars
    BY <2>3 DEF Expire, Stateless, vars
  <2>4. ASSUME Restart PROVE Kept
    BY <2>4 DEF Restart
  <2> QED
    BY <1>2, <2>1, <2>2, <2>3, <2>4 DEF Next
<1> QED
  BY <1>1, <1>2

LEMMA TableStep ==
  ASSUME TypeInv, SessionInv, [Next]_vars
  PROVE  PinsAreWhole' /\ PinnedIds'
BY PinnedWhole, RestWhole, OnceStep

LEMMA SessionStep ==
  ASSUME TypeInv, SessionInv, [Next]_vars
  PROVE  SessionInv'
<1>1. TypeInv'
  BY TypeStep
<1>2. ASSUME NEW t \in Tasks, TaskStep(t), NEW u \in Tasks PROVE Local(u)'
  <2>1. CASE u = t
    BY <1>1, <1>2, <2>1, LocalStep
  <2>2. CASE u # t
    BY <1>2, <2>2, TaskOthers, LocalKept DEF Others, TypeInv
  <2> QED
    BY <2>1, <2>2
<1>3. ASSUME ~\E t \in Tasks : TaskStep(t), NEW u \in Tasks PROVE Local(u)'
  <2>1. CASE UNCHANGED <<step, handler>>
    BY <2>1, LocalKept DEF handler
  <2>2. CASE Restart
    BY <2>2 DEF Restart, Local, Routed, Sending, Healthy, Owing, NoRoutes,
                Working, Sweeping
  <2> QED
    BY <1>3, <2>1, <2>2, OutsideStep
<1> QED
  BY <1>2, <1>3, TableStep DEF SessionInv

LEMMA SessionsCorrect == Spec => [](TypeInv /\ SessionInv)
<1>1. Init => TypeInv /\ SessionInv
  BY TypeInit, SessionInit
<1>2. TypeInv /\ SessionInv /\ [Next]_vars => TypeInv' /\ SessionInv'
  BY TypeStep, SessionStep
<1> QED
  BY <1>1, <1>2, PTL DEF Spec

\* A pinned session always has a faithful, usable route to every owner of its
\* agent and to no other: the all-or-nothing of initialize.
THEOREM PinsAreWholeHolds == Spec => []PinsAreWhole
<1>1. SessionInv => PinsAreWhole
  BY DEF SessionInv
<1> QED
  BY <1>1, SessionsCorrect, PTL

\* Whatever the upstream requests of calls, fan-outs and clean-ups carry, the
\* session and the token belong together, and to the requesting agent.
THEOREM NoMixedTokensHolds == Spec => []NoMixedTokens
<1>1. ASSUME TypeInv, SessionInv PROVE NoMixedTokens
  <2> SUFFICES ASSUME NEW t \in Tasks, NEW r \in Outgoing(t), r.sid # NoSid
               PROVE  /\ opened[r.sid] # NoOpening
                      /\ opened[r.sid].token = r.token
                      /\ opened[r.sid].agent = agent[t]
    BY DEF NoMixedTokens
  <2>1. CASE step[t] = "send"
    <3>1. cred[t] \in Route /\ Faithful(cred[t], Opener(t), agent[t])
      BY <1>1, <2>1 DEF SessionInv, Local, Sending, TypeInv, TypeOK
    <3>2. r = cred[t]
      BY <2>1, <3>1 DEF Outgoing, SidOut, Route
    <3> QED
      BY <3>1, <3>2 DEF Faithful
  <2>2. CASE step[t] \in Sweeping
    <3>1. PICK o \in todo[t] : r = routes[t][o]
      BY <2>2 DEF Outgoing, Sweeping
    <3>2. o \in Owners /\ routes[t][o] # NoRoute
      BY <1>1, <2>2, <3>1 DEF SessionInv, Local, Owing, TypeInv, TypeOK
    <3> QED
      BY <1>1, <3>1, <3>2 DEF SessionInv, Local, Routed, Faithful
  <2> QED
    BY <2>1, <2>2 DEF Outgoing, Sweeping
<1> QED
  BY <1>1, SessionsCorrect, PTL

\* An answered failure of initialize, and an answered DELETE, have visited
\* every upstream session of theirs.
THEOREM NoSessionLeftBehindHolds == Spec => []NoSessionLeftBehind
<1>1. SessionInv => NoSessionLeftBehind
  BY DEF SessionInv, Local, Owing, Working, Sweeping, NoSessionLeftBehind
<1> QED
  BY <1>1, SessionsCorrect, PTL

\* The ids that clients see are ids of primaries, and in answers to their calls
\* the ones that were pinned.
THEOREM OnlyDownstreamIdsShownHolds == Spec => []OnlyDownstreamIdsShown
<1>1. SessionInv => OnlyDownstreamIdsShown
  BY DEF SessionInv, Local, Sending, PinnedIds, OnlyDownstreamIdsShown, Shown
<1> QED
  BY <1>1, SessionsCorrect, PTL

-----------------------------------------------------------------------------
(* The refinement of SessionTable.                                         *)

\* The sessions that initializes hold were opened for them alone: none of them
\* was ever pinned, and no two tasks hold the same.
Fresh ==
  /\ \A t \in Tasks, o \in Owners :
       step[t] \in Working /\ HasSession(routes[t][o])
         => routes[t][o].sid \notin once
  /\ \A t \in Tasks : \A u \in Tasks \ {t}, o \in Owners, p \in Owners :
       /\ step[t] \in Working /\ HasSession(routes[t][o])
       /\ step[u] \in Working /\ HasSession(routes[u][p])
       => routes[t][o].sid # routes[u][p].sid

LEMMA FreshInit == Init => Fresh
BY DEF Init, Fresh, Working

\* A session in the acting task's routes was there before, or is new to GitHub.
LEMMA RouteOrigin ==
  ASSUME TypeInv, SessionInv, NEW t \in Tasks, TaskStep(t),
         step'[t] \in Working, NEW o \in Owners, HasSession(routes'[t][o])
  PROVE  \/ step[t] \in Working /\ routes'[t][o] = routes[t][o]
         \/ opened[routes'[t][o].sid] = NoOpening
<1> USE DEF TypeInv, TypeOK, handler, At
<1>1. ASSUME NEW a \in Agents, Initialize(t, a) PROVE FALSE
  BY <1>1 DEF Initialize, HasSession, NoRoutes, Idle
<1>2. CASE \E q \in Owners : \E n \in 1..MaxTokens[q] : Mint(t, q, n)
  BY <1>2 DEF Mint, Working
<1>3. ASSUME NEW s \in Sids \cup {NoSid}, step[t] = "open", ToBody(t, s),
             s # NoSid => opened[s] = NoOpening
      PROVE  \/ routes'[t][o] = routes[t][o]
             \/ opened[routes'[t][o].sid] = NoOpening
  <2> DEFINE r == [cred[t] EXCEPT !.sid = s]
  <2>1. cred[t] # NoRoute
    BY <1>3 DEF Loop, Working
  <2>2. r.sid = s /\ Opener(t) \in Owners
    BY <2>1, KeptTyped DEF Route
  <2>3. routes'[t][o] = IF o = Opener(t) THEN r ELSE routes[t][o]
    BY <1>3, <2>2 DEF ToBody, Routes
  <2> HIDE DEF r
  <2> QED
    BY <1>3, <2>2, <2>3 DEF HasSession
<1>4. CASE (\E s \in Sids : OpenNamed(t, s)) \/ OpenUnnamed(t)
  <2>1. PICK s \in Sids \cup {NoSid} :
          step[t] = "open" /\ ToBody(t, s) /\ (s # NoSid => opened[s] = NoOpening)
    BY <1>4 DEF OpenNamed, OpenUnnamed, GithubOpens
  <2> QED
    BY <1>3, <2>1 DEF Working
<1>5. CASE BodyOk(t)
  BY <1>5 DEF BodyOk, Working
<1>6. CASE step'[t] \notin Working
  BY <1>6
<1>7. CASE (\E s \in Sids : OpenLost(t, s)) \/ Fail(t) \/ BodyBad(t)
  BY <1>6, <1>7 DEF OpenLost, Fail, BodyBad, ToAbort, Working
<1>8. CASE (\E p \in Owners : PinRoutes(t, p)) \/ Answer(t) \/ Notified(t)
             \/ Deleted(t) \/ Leave(t) \/ Cancel(t)
  BY <1>6, <1>8 DEF PinRoutes, Answer, Notified, Deleted, Leave, Cancel, Working
<1>9. CASE (\E p \in Owners : AbortOne(t, p) \/ FanOne(t, p)) \/ AbortDone(t)
  BY <1>6, <1>9 DEF AbortOne, FanOne, AbortDone, Working
<1>10. CASE \E a \in Agents, s \in Sids, p \in Owners : Pick(t, a, s, p)
  BY <1>6, <1>10 DEF Pick, Working
<1>11. CASE \E a \in Agents, s \in Sids, frame \in {"notify", "delete"} :
              FanOut(t, a, s, frame)
  BY <1>6, <1>11 DEF FanOut, Working
<1> QED
  BY <1>1, <1>2, <1>4, <1>5, <1>7, <1>8, <1>9, <1>10, <1>11 DEF TaskStep


LEMMA FreshStep ==
  ASSUME TypeInv, SessionInv, Fresh, [Next]_vars
  PROVE  Fresh'
<1> DEFINE Holds(t, o) == step[t] \in Working /\ HasSession(routes[t][o])
<1> DEFINE Holds1(t, o) == step'[t] \in Working /\ HasSession(routes'[t][o])
<1> DEFINE Old(t, o) == Holds(t, o) /\ routes'[t][o] = routes[t][o]
<1> DEFINE New(t, o) == opened[routes'[t][o].sid] = NoOpening
<1>1. \A t \in Tasks, o \in Owners : Holds(t, o) =>
        /\ routes[t][o].sid \in Sids /\ opened[routes[t][o].sid] # NoOpening
        /\ routes[t][o].sid \notin once
  BY DEF SessionInv, Local, Routed, Faithful, HasSession, TypeInv, TypeOK, Routes,
         Route, Fresh
<1>2. CASE \E t \in Tasks : TaskStep(t)
  <2>1. PICK t \in Tasks : TaskStep(t)
    BY <1>2
  <2>2. \A o \in Owners : Holds1(t, o) => Old(t, o) \/ New(t, o)
    BY <2>1, RouteOrigin DEF HasSession
  <2>3. \A u \in Tasks \ {t}, o \in Owners : Holds1(u, o) => Old(u, o)
    BY <2>1, TaskOthers DEF Others, TypeInv, HasSession
  <2>4. \A u \in Tasks, o \in Owners : Holds1(u, o) => routes'[u][o].sid \notin once'
    <3>1. CASE \E p \in Owners : PinRoutes(t, p)
      <4>1. PICK p \in Owners : PinRoutes(t, p)
        BY <3>1
      <4>2. step'[t] = "idle" /\ once' = once \cup ({routes[t][p].sid} \ {NoSid})
        BY <4>1 DEF PinRoutes, At, TypeInv, TypeOK
      <4>3. routes[t][p].sid # NoSid => Holds(t, p)
        BY <4>1 DEF PinRoutes, At, IsPrimary, IsFirst, HasSession, Working,
                    TypeInv, Loop
      <4>4. \A u \in Tasks \ {t}, o \in Owners : Holds1(u, o) =>
              routes[u][o].sid # NoSid /\ routes[u][o].sid # routes[t][p].sid
        BY <2>3, <4>3 DEF Fresh, HasSession
      <4> QED
        BY <1>1, <2>3, <4>2, <4>4 DEF Working
    <3>2. CASE ~\E p \in Owners : PinRoutes(t, p)
      <4>1. once' = once
        <5>1. ASSUME NEW u \in Tasks \ {t}, NEW p \in Owners, PinRoutes(u, p)
              PROVE  FALSE
          <6>1. step[u] = "pin" /\ step'[u] = "idle"
            BY <5>1 DEF PinRoutes, At, TypeInv, TypeOK
          <6>2. step'[u] = step[u]
            BY <2>1, TaskOthers DEF Others, TypeInv
          <6> QED
            BY <6>1, <6>2
        <5> QED
          BY <3>2, <5>1, OnceStep
      <4>2. \A s \in Sids : opened[s] = NoOpening => s \notin once
        BY DEF SessionInv, PinnedIds
      <4>3. \A u \in Tasks, o \in Owners : Holds1(u, o) =>
               \/ Holds(u, o) /\ routes'[u][o] = routes[u][o]
               \/ New(u, o)
        BY <2>2, <2>3
      <4>4. once \subseteq Sids
        BY DEF TypeInv, TypeOK
      <4> QED
        BY <1>1, <4>1, <4>2, <4>3, <4>4
    <3> QED
      BY <3>1, <3>2
  <2>5. \A v \in Tasks : \A u \in Tasks \ {v}, o \in Owners, p \in Owners :
          Holds1(v, o) /\ Holds1(u, p) => routes'[v][o].sid # routes'[u][p].sid
    <3>1. \A v \in Tasks : \A u \in Tasks \ {v}, o \in Owners, p \in Owners :
            Old(v, o) /\ Old(u, p) => routes'[v][o].sid # routes'[u][p].sid
      BY DEF Fresh
    <3>2. \A v \in Tasks, u \in Tasks, o \in Owners, p \in Owners :
            New(v, o) /\ Old(u, p) => routes'[v][o].sid # routes'[u][p].sid
      BY <1>1
    <3> HIDE DEF Old, New, Holds1
    <3> QED
      BY <2>2, <2>3, <3>1, <3>2
  <2> QED
    BY <2>4, <2>5 DEF Fresh, HasSession
<1>3. CASE ~\E t \in Tasks : TaskStep(t)
  <2>1. CASE UNCHANGED <<step, handler>>
    <3>1. ~\E t \in Tasks, p \in Owners : PinRoutes(t, p)
      BY <1>3 DEF TaskStep
    <3> QED
      BY <2>1, <3>1, OnceStep DEF Fresh, HasSession, handler
  <2>2. CASE Restart
    BY <2>2 DEF Restart, Fresh, Working
  <2> QED
    BY <1>3, <2>1, <2>2, OutsideStep
<1> QED
  BY <1>2, <1>3

\* Outside a Pick, a request in progress goes on or finishes.
LEMMA AcceptedStep ==
  ASSUME TypeInv, [Next]_vars, NEW t \in Tasks, step'[t] = "send",
         ~\E a \in Agents, s \in Sids, o \in Owners : Pick(t, a, s, o)
  PROVE  step[t] = "send" /\ sid'[t] = sid[t] /\ agent'[t] = agent[t]
<1> USE DEF TypeInv, TypeOK, At, handler
<1>1. ASSUME TaskStep(t) PROVE FALSE
  <2>1. CASE \/ \E a \in Agents : Initialize(t, a)
             \/ \E o \in Owners : \E n \in 1..MaxTokens[o] : Mint(t, o, n)
             \/ \E s \in Sids : OpenNamed(t, s) \/ OpenLost(t, s)
             \/ OpenUnnamed(t) \/ Fail(t)
    BY <2>1 DEF Initialize, Mint, OpenNamed, OpenLost, OpenUnnamed, Fail, ToBody,
                ToAbort
  <2>2. CASE \/ BodyOk(t) \/ BodyBad(t)
             \/ \E o \in Owners : AbortOne(t, o) \/ FanOne(t, o)
             \/ AbortDone(t)
    BY <2>2 DEF BodyOk, BodyBad, ToAbort, AbortOne, FanOne, AbortDone
  <2>3. CASE \E a \in Agents, s \in Sids, frame \in {"notify", "delete"} :
               FanOut(t, a, s, frame)
    BY <2>3 DEF FanOut
  <2>4. CASE \/ \E p \in Owners : PinRoutes(t, p)
             \/ Answer(t) \/ Notified(t) \/ Deleted(t) \/ Leave(t) \/ Cancel(t)
    BY <2>4 DEF PinRoutes, Answer, Notified, Deleted, Leave, Cancel
  <2> QED
    BY <1>1, <2>1, <2>2, <2>3, <2>4 DEF TaskStep
<1>2. CASE \E u \in Tasks \ {t} : TaskStep(u)
  BY <1>2, TaskOthers DEF Others
<1>3. CASE ~\E u \in Tasks : TaskStep(u)
  BY <1>3, OutsideStep DEF Restart
<1> QED
  BY <1>1, <1>2, <1>3

\* Tokens only ever expire.
LEMMA ExpiredStays ==
  ASSUME TypeInv, [Next]_vars, NEW o \in Owners
  PROVE  expired[o] <= expired'[o]
<1> USE DEF TypeInv, TypeOK, tokens
<1>1. ASSUME NEW t \in Tasks, TaskStep(t) PROVE expired' = expired
  <2>1. CASE \/ \E a \in Agents : Initialize(t, a)
             \/ \E p \in Owners : \E n \in 1..MaxTokens[p] : Mint(t, p, n)
             \/ \E s \in Sids : OpenNamed(t, s) \/ OpenLost(t, s)
             \/ OpenUnnamed(t) \/ Fail(t) \/ BodyOk(t) \/ BodyBad(t)
    BY <2>1 DEF Initialize, Mint, IssueToken, OpenNamed, OpenLost, OpenUnnamed,
                Fail, BodyOk, BodyBad
  <2>2. CASE \/ \E p \in Owners : PinRoutes(t, p) \/ AbortOne(t, p) \/ FanOne(t, p)
             \/ AbortDone(t)
    BY <2>2 DEF PinRoutes, AbortOne, FanOne, AbortDone
  <2>3. CASE \/ \E a \in Agents, s \in Sids, p \in Owners : Pick(t, a, s, p)
             \/ \E a \in Agents, s \in Sids, frame \in {"notify", "delete"} :
                  FanOut(t, a, s, frame)
    BY <2>3 DEF Pick, FanOut
  <2>4. CASE Answer(t) \/ Notified(t) \/ Deleted(t) \/ Leave(t) \/ Cancel(t)
    BY <2>4 DEF Answer, Notified, Deleted, Leave, Cancel
  <2> QED
    BY <1>1, <2>1, <2>2, <2>3, <2>4 DEF TaskStep
<1>2. ASSUME NEW p \in Owners, Expire(p) PROVE expired[o] <= expired'[o]
  BY <1>2 DEF Expire
<1>3. CASE UNCHANGED expired
  BY <1>3
<1>4. ASSUME ~\E t \in Tasks : TaskStep(t), ~\E p \in Owners : Expire(p)
      PROVE  expired' = expired
  BY <1>4 DEF Next, PickTerminates, Stateless, IssueToken, Evict, Restart, vars
<1> QED
  BY <1>1, <1>2, <1>3, <1>4

Owner(s) == IF s \in once THEN opened[s].agent ELSE NoAgent

Accepted(t) == IF step[t] = "send" /\ sid[t] # NoSid THEN <<sid[t], agent[t]>>
               ELSE NoRequest

\* The agent of a pin is the one its session was opened for.
LEMMA PinOwner ==
  ASSUME TypeInv, SessionInv, NEW s \in Sids, pins[s] # NoPin
  PROVE  s \in once /\ opened[s].agent = pins[s].agent
<1>1. pins[s].primary \in AgentOwners[pins[s].agent]
  BY DEF SessionInv, PinsAreWhole, IsPrimary, IsFirst
<1>2. pins[s].routes[pins[s].primary].sid = s /\ s # NoSid
  BY ConstantsAssumption DEF SessionInv, PinsAreWhole
<1> QED
  BY <1>1, <1>2 DEF SessionInv, PinsAreWhole, PinnedIds, Faithful

\* Without a pinning step a session stays what it is, or ends.
LEMMA PhaseStep ==
  ASSUME TypeInv, SessionInv, [Next]_vars, NEW s \in Sids,
         ~\E t \in Tasks, p \in Owners : PinRoutes(t, p)
  PROVE  \/ Phase(s)' = Phase(s)
         \/ Phase(s) = "live" /\ Phase(s)' = "over"
<1>1. pins'[s] \in {pins[s], NoPin} /\ once' = once
  BY OnceStep
<1>2. pins[s] # NoPin => s \in once
  BY DEF SessionInv, PinnedIds
<1>3. ASSUME NEW o \in Owners, pins[s] # NoPin, Expired(pins[s].routes[o])
      PROVE  /\ pins[s].routes[o] # NoRoute
             /\ pins[s].routes[o].token[2] <= expired'[pins[s].routes[o].token[1]]
  <2>1. pins[s].routes[o] \in Route /\ pins[s].routes[o] # NoRoute
    BY <1>3, PinTyped DEF TypeInv, Expired, Routes
  <2>2. pins[s].routes[o].token \in Owners \X Nat
    BY <2>1 DEF Route, Tokens
  <2>3. PICK q \in Owners, n \in Nat : pins[s].routes[o].token = <<q, n>>
    BY <2>2
  <2>4. n <= expired[q] /\ expired[q] <= expired'[q]
    BY <1>3, <2>3, ExpiredStays DEF Expired
  <2>5. expired[q] \in Nat /\ expired'[q] \in Nat
    BY TypeStep DEF TypeInv, TypeOK
  <2> QED
    BY <2>1, <2>3, <2>4, <2>5
<1>4. CASE pins'[s] = pins[s] /\ pins[s] # NoPin
  <2>1. (\E o \in Owners : Expired(pins[s].routes[o]))
          => \E o \in Owners : Expired(pins[s].routes[o])'
    BY <1>3, <1>4 DEF Expired
  <2> QED
    BY <1>1, <1>2, <1>4, <2>1 DEF Phase, Expired
<1>5. CASE pins'[s] = NoPin
  BY <1>1, <1>2, <1>5 DEF Phase
<1>6. CASE pins'[s] = pins[s] /\ pins[s] = NoPin
  BY <1>1, <1>6 DEF Phase
<1> QED
  BY <1>1, <1>4, <1>5, <1>6

LEMMA TableInit == Init => Table!TInit
BY DEF Init, Table!TInit, Phase

\* A call that finds its pin is accepted on a live session of its agent.
LEMMA PickAccepts ==
  ASSUME TypeInv, SessionInv, NEW t \in Tasks, NEW a \in Agents, NEW s \in Sids,
         NEW o \in Owners, Pick(t, a, s, o)
  PROVE  Table!Accept(t, s)
<1>1. /\ step[t] = "idle" /\ step' = [step EXCEPT ![t] = "send"]
      /\ agent' = [agent EXCEPT ![t] = a] /\ sid' = [sid EXCEPT ![t] = s]
      /\ pins[s] # NoPin /\ pins[s].agent = a /\ ~PickExpired(pins[s])
      /\ UNCHANGED <<pins, once, opened, issued, expired>>
  BY DEF Pick, At, sessions, tokens
<1>2. Phase(s) = "live"
  BY <1>1 DEF Phase, PickExpired
<1>3. s \in once /\ opened[s].agent = a /\ s # NoSid
  BY <1>1, PinOwner, ConstantsAssumption
<1>4. Accepted(t) = NoRequest /\ Accepted(t)' = <<s, a>>
  BY <1>1, <1>3 DEF Accepted, TypeInv, TypeOK
<1>5. \A u \in Tasks \ {t} : Accepted(u)' = Accepted(u)
  BY <1>1 DEF Accepted, TypeInv, TypeOK
<1>6. [u \in Tasks |-> Accepted(u)]'
        = [[u \in Tasks |-> Accepted(u)] EXCEPT ![t] = <<s, Owner(s)>>]
  BY <1>3, <1>4, <1>5 DEF Owner
<1>7. \A x \in Sids : Owner(x)' = Owner(x) /\ Phase(x)' = Phase(x)
  BY <1>1 DEF Owner, Phase, Expired
<1> QED
  BY <1>2, <1>4, <1>6, <1>7 DEF Table!Accept, Accepted, Owner

\* An initialize that pins opens a session that was never there.
LEMMA PinOpens ==
  ASSUME TypeInv, SessionInv, Fresh, [Next]_vars, NEW t \in Tasks,
         NEW p \in Owners, PinRoutes(t, p), routes[t][p].sid # NoSid
  PROVE  \E s \in Sids, a \in Agents : Table!Open(s, a)
<1>0. PICK s : s = routes[t][p].sid
  OBVIOUS
<1> DEFINE pin == [agent |-> agent[t], primary |-> p, routes |-> routes[t]]
<1>1. /\ step[t] = "pin" /\ step' = [step EXCEPT ![t] = "idle"]
      /\ IsPrimary(p, agent[t]) /\ agent[t] \in Agents
      /\ pins' = [pins EXCEPT ![s] = pin] /\ once' = once \cup {s}
      /\ Forget(t) /\ UNCHANGED <<opened, expired>>
  BY <1>0 DEF PinRoutes, At, tokens, TypeInv, Loop, Working
<1>2. HasSession(routes[t][p])
  BY <1>1 DEF HasSession, IsPrimary, IsFirst, TypeInv, Loop, Working
<1>3. /\ s \in Sids /\ s \notin once
      /\ opened[s] # NoOpening /\ opened[s].agent = agent[t]
  BY <1>0, <1>1, <1>2 DEF HasSession, Fresh, SessionInv, Local, Routed, Faithful, Working,
                    TypeInv, TypeOK, Routes, Route
<1> HIDE DEF pin
<1>4. Phase(s) = "none" /\ Phase(s)' \in {"live", "over"}
  BY <1>1, <1>3 DEF Phase, SessionInv, PinnedIds
<1>5. \A x \in Sids \ {s} : Phase(x)' = Phase(x) /\ Owner(x)' = Owner(x)
  BY <1>1 DEF Phase, Expired, Owner, TypeInv, TypeOK
<1>6. Owner(s)' = agent[t]
  BY <1>1, <1>3 DEF Owner
<1>7. \A u \in Tasks : Accepted(u)' = Accepted(u)
  BY <1>1 DEF Accepted, Forget, TypeInv, TypeOK
<1>8. \E q \in {"live", "over"} :
        [x \in Sids |-> Phase(x)]' = [[x \in Sids |-> Phase(x)] EXCEPT ![s] = q]
  BY <1>3, <1>4, <1>5
<1>9. [x \in Sids |-> Owner(x)]' = [[x \in Sids |-> Owner(x)] EXCEPT ![s] = agent[t]]
  BY <1>3, <1>5, <1>6
<1>10. [u \in Tasks |-> Accepted(u)]' = [u \in Tasks |-> Accepted(u)]
  BY <1>7
<1>11. [x \in Sids |-> Phase(x)][s] = "none"
  BY <1>3, <1>4
<1>12. PICK a \in Agents : a = agent[t]
  BY <1>1
<1>13. Table!Open(s, a)
  BY <1>8, <1>9, <1>10, <1>11, <1>12, Zenon DEF Table!Open, Owner, Accepted
<1> QED
  BY <1>3, <1>13

\* Every other step ends sessions or finishes requests, or neither.
LEMMA RestEnds ==
  ASSUME TypeInv, SessionInv, [Next]_vars, TypeInv',
         ~\E t \in Tasks, p \in Owners : PinRoutes(t, p) /\ routes[t][p].sid # NoSid,
         ~\E t \in Tasks, a \in Agents, s \in Sids, o \in Owners : Pick(t, a, s, o)
  PROVE  Table!EndOrFinish
<1>1. \A s \in Sids : \/ Phase(s)' = Phase(s)
                      \/ Phase(s) = "live" /\ Phase(s)' = "over"
  <2>1. ASSUME NEW t \in Tasks, NEW p \in Owners, PinRoutes(t, p), NEW s \in Sids
        PROVE  Phase(s)' = Phase(s)
    BY <2>1 DEF PinRoutes, Phase, Expired, tokens
  <2> QED
    BY <2>1, PhaseStep
<1>2. once' = once
  <2>1. ASSUME NEW t \in Tasks, NEW p \in Owners, PinRoutes(t, p)
        PROVE  once' = once
    BY <2>1 DEF PinRoutes
  <2> QED
    BY <2>1, OnceStep
<1>3. \A s \in Sids : Owner(s)' = Owner(s)
  BY <1>2, OpenedStays DEF Owner, SessionInv, PinnedIds
<1>4. \A t \in Tasks : Accepted(t)' \in {Accepted(t), NoRequest}
  BY AcceptedStep DEF Accepted
<1>5. \A t \in Tasks : Accepted(t)' \in Table!Requests
  BY DEF Accepted, Table!Requests, TypeInv, TypeOK
<1>6. \A s \in Sids : Phase(s)' \in Table!Phases
  BY DEF Phase, Table!Phases
<1> QED
  BY <1>1, <1>3, <1>4, <1>5, <1>6 DEF Table!EndOrFinish, Owner, Accepted

\* A session of several installations behaves, to its clients, as the abstract
\* table of sessions: opened once, for one agent, live only while all of its
\* tokens are valid, and never again after its end.
THEOREM TableImplemented == Spec => ImplementsSessionTable
<1>1. Init => Fresh /\ Table!TInit
  BY FreshInit, TableInit
<1>2. TypeInv /\ SessionInv /\ Fresh /\ [Next]_vars => Fresh'
  BY FreshStep
<1>3. ASSUME TypeInv, SessionInv, Fresh, [Next]_vars
      PROVE  [Table!TNext]_(Table!tvars)
  <2>1. CASE \E t \in Tasks, p \in Owners :
               PinRoutes(t, p) /\ routes[t][p].sid # NoSid
    BY <1>3, <2>1, PinOpens DEF Table!TNext
  <2>2. CASE \E t \in Tasks, a \in Agents, s \in Sids, o \in Owners : Pick(t, a, s, o)
    BY <1>3, <2>2, PickAccepts DEF Table!TNext
  <2> QED
    BY <1>3, <2>1, <2>2, RestEnds, TypeStep DEF Table!TNext
<1> QED
  BY <1>1, <1>2, <1>3, SessionsCorrect, PTL
  DEF Spec, ImplementsSessionTable, Table!TSpec
=============================================================================
