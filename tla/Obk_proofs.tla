------------------------------ MODULE Obk_proofs ------------------------------
(***************************************************************************)
(* Proofs about the proxies (RestProxy) and about obk as their client.     *)
(* One inductive invariant of the proxies ties each task's answer to what  *)
(* GitHub has at the path, each entry of the caches to an answer, and each *)
(* flight to its task; obk's steps are steps of the proxies, so it keeps   *)
(* that invariant, and its own properties follow from it.                  *)
(***************************************************************************)
EXTENDS Obk, TLAPS

-----------------------------------------------------------------------------
(* The inductive invariant of the proxies.                                 *)

\* Answer a is one an identity of ids can have been given for request r.
Sound(r, a, ids) ==
  /\ a.v <= version[r.path]
  /\ \E i \in ids : r.path \in Access[i]

\* Only GraphQL reports a failure without an error status.
Mild(r, a) == a.status = "errors" => a = Errors /\ r.kind = "graphql"

\* A change that is recognised as one, and is made for nobody else.
KnownChange(r) == IsMutation(r) /\ Changes(r)

\* What a task knows at each of its awaits.
Sane(t) ==
  /\ step[t] = "idle" => answer[t] = NoAnswer /\ applied[t] = 0
  /\ step[t] # "idle" => req[t] \in Requests
  /\ step[t] = "wait" => /\ req[t].kind = "raw" /\ identity[t] \in Identities
                         /\ answer[t] = NoAnswer /\ applied[t] = 0
  /\ step[t] = "resolve" => /\ IsMutation(req[t]) /\ identity[t] = Own
                            /\ answer[t] = NoAnswer /\ applied[t] = 0
  /\ step[t] = "sent" =>
       /\ IF IsMutation(req[t]) THEN identity[t] = Own
                                ELSE identity[t] \in Identities
       /\ answer[t] = NoAnswer => applied[t] = 0
       /\ answer[t] # NoAnswer => Mild(req[t], answer[t])
       /\ answer[t] # NoAnswer /\ answer[t].status = "ok" =>
            /\ KnownChange(req[t]) => applied[t] = 1
            /\ ~IsMutation(req[t]) => Sound(req[t], answer[t], {identity[t]})
            /\ req[t].kind = "raw" =>
                 newest[RawKey(req[t], identity[t])] <= answer[t].v
  /\ step[t] = "answered" =>
       /\ answer[t] \in Answer
       /\ answer[t].status = "ok" =>
            /\ KnownChange(req[t]) => applied[t] = 1
            /\ req[t].kind = "raw" => Sound(req[t], answer[t], {identity[t]})
            /\ ~IsMutation(req[t]) => Sound(req[t], answer[t], Identities)
  /\ applied[t] <= 1
  /\ applied[t] = 1 => /\ Changes(req[t])
                       /\ identity[t] = Own <=> IsMutation(req[t])

\* What the caches hold.
JsonSound(k) ==
  store[k] # NoEntry => /\ Cacheable(k)
                        /\ store[k].answer.status # "error"
                        /\ Mild(k, store[k].answer)
                        /\ store[k].answer.status = "ok" =>
                             Sound(k, store[k].answer, Identities)

RawSound(k) ==
  /\ newest[k] <= version[k[1]]
  /\ raw_store[k] # NoEntry => /\ raw_store[k].answer.status = "ok"
                               /\ raw_store[k].answer.v = newest[k]
                               /\ k[1] \in Access[k[2]]

ProxyInv ==
  /\ TypeOK
  /\ \A t \in Tasks : Sane(t)
  /\ \A k \in Keys : JsonSound(k)
  /\ \A k \in RawKeys : RawSound(k)
  /\ OneFetchPerRawKey

-----------------------------------------------------------------------------
(* Types *)

LEMMA AnswerTypes ==
  /\ Error \in Answer /\ Error.status = "error"
  /\ Errors \in Answer /\ Errors.status = "errors"
  /\ \A n \in Nat : Ok(n) \in Answer /\ Ok(n).status = "ok" /\ Ok(n).v = n
  /\ NoAnswer \notin Answer
BY RestProxyAssumption DEF Error, Errors, Ok, Answer

LEMMA AgeType ==
  \A e \in Entry \cup {NoEntry} :
    /\ Age(e) \in Entry \cup {NoEntry}
    /\ Age(e) # NoEntry => e # NoEntry /\ Age(e).answer = e.answer
BY DEF Age, Entry

LEMMA KeyType ==
  ASSUME NEW r \in Requests
  PROVE  /\ r.path \in Paths /\ r.kind \in Kinds
         /\ r.kind # "raw" <=> r \in Keys
         /\ r.kind # "graphql" => ~IsMutation(r) /\ ~Changes(r)
         /\ \A i \in Identities : r.kind = "raw" => RawKey(r, i) \in RawKeys
BY RestProxyAssumption DEF RawKey, RawKeys, Keys, Paths, IsMutation, Changes

LEMMA RawKeyOf ==
  \A r, i : RawKey(r, i)[1] = r.path /\ RawKey(r, i)[2] = i
BY DEF RawKey

\* A lookup of the raw cache is one of a raw request with an identity.
LEMMA LooksUpType ==
  ASSUME ProxyInv, NEW t \in Tasks, NEW r, NEW i, LooksUp(t, r, i),
         step[t] = "idle" => r \in Requests
  PROVE  /\ r \in Requests /\ r.kind = "raw" /\ i \in Identities
         /\ RawKey(r, i) \in RawKeys
         /\ step[t] \in {"idle", "wait"}
         /\ answer[t] = NoAnswer /\ applied[t] = 0
<1>1. r \in Requests /\ r.kind = "raw" /\ i \in Identities
  BY DEF LooksUp, ProxyInv, Sane
<1>2. step[t] \in {"idle", "wait"} /\ answer[t] = NoAnswer /\ applied[t] = 0
  BY DEF LooksUp, ProxyInv, Sane
<1> QED
  BY <1>1, <1>2, KeyType

LEMMA TypeInit == Init => TypeOK
BY DEF Init, TypeOK

\* The steps that start a handler or end one with an answer from a cache.
LEMMA GoType ==
  ASSUME TypeOK, NEW t \in Tasks, NEW r \in Requests,
         NEW i \in Identities \cup {Own},
         NEW next \in {"resolve", "wait", "sent"},
         Go(t, r, i, next), UNCHANGED <<caches, version>>,
         flight' \in [RawKeys -> Tasks \cup {NoTask}]
  PROVE  TypeOK'
BY DEF TypeOK, Go, caches

LEMMA ReplyType ==
  ASSUME TypeOK, NEW t \in Tasks, NEW r \in Requests,
         NEW i \in Identities \cup {Own}, NEW a \in Answer,
         Reply(t, r, i, a), UNCHANGED <<caches, flight, version>>
  PROVE  TypeOK'
BY DEF TypeOK, Reply, caches

LEMMA FinishType ==
  ASSUME TypeOK, NEW t \in Tasks, NEW a \in Answer, Finish(t, a),
         store' \in [Keys -> Entry \cup {NoEntry}],
         raw_store' \in [RawKeys -> Entry \cup {NoEntry}],
         newest' \in [RawKeys -> Nat]
  PROVE  TypeOK'
BY DEF TypeOK, Finish, Land

-----------------------------------------------------------------------------
(* What a step leaves alone stays sound.                                   *)

Grows == \A p \in Paths : version[p] <= version'[p]

LEMMA SoundKept ==
  ASSUME TypeOK, TypeOK', Grows, NEW r \in Requests, NEW a \in Answer,
         NEW ids, Sound(r, a, ids)
  PROVE  a.v <= version'[r.path] /\ \E i \in ids : r.path \in Access[i]
<1>1. r.path \in Paths
  BY KeyType
<1>2. a.v \in Nat /\ version[r.path] \in Nat /\ version'[r.path] \in Nat
  BY <1>1 DEF TypeOK, Answer
<1> QED
  BY <1>1, <1>2 DEF Sound, Grows

LEMMA SaneKept ==
  ASSUME ProxyInv, TypeOK', Grows, NEW u \in Tasks,
         step'[u] = step[u], req'[u] = req[u], identity'[u] = identity[u],
         answer'[u] = answer[u], applied'[u] = applied[u],
         step[u] = "sent" /\ req[u].kind = "raw" =>
           newest'[RawKey(req[u], identity[u])]
             = newest[RawKey(req[u], identity[u])]
  PROVE  Sane(u)'
<1>1. Sane(u) /\ TypeOK
  BY DEF ProxyInv
<1>2. \A ids : req[u] \in Requests /\ answer[u] \in Answer
                 /\ Sound(req[u], answer[u], ids)
               => Sound(req[u], answer[u], ids)'
  BY <1>1, SoundKept DEF Sound
<1>3. step[u] = "sent" /\ answer[u] # NoAnswer => answer[u] \in Answer
  BY <1>1 DEF TypeOK
<1>4. step[u] # "idle" => req[u] \in Requests
  BY <1>1 DEF Sane
<1> QED
  BY <1>1, <1>2, <1>3, <1>4 DEF Sane

LEMMA CachesKept ==
  ASSUME ProxyInv, TypeOK', Grows, newest' = newest,
         \A k \in Keys : store'[k] # NoEntry =>
           store[k] # NoEntry /\ store'[k].answer = store[k].answer,
         \A k \in RawKeys : raw_store'[k] # NoEntry =>
           raw_store[k] # NoEntry /\ raw_store'[k].answer = raw_store[k].answer
  PROVE  /\ \A k \in Keys : JsonSound(k)'
         /\ \A k \in RawKeys : RawSound(k)'
<1> USE DEF ProxyInv
<1>1. ASSUME NEW k \in Keys PROVE JsonSound(k)'
  <2>1. k \in Requests /\ JsonSound(k)
    BY DEF Keys
  <2>2. store[k] # NoEntry => store[k].answer \in Answer
    BY DEF TypeOK, Entry
  <2>3. CASE store'[k] = NoEntry
    BY <2>3 DEF JsonSound
  <2>4. CASE store'[k] # NoEntry
    <3>1. /\ store[k] # NoEntry /\ store'[k].answer = store[k].answer
          /\ store[k].answer.status # "error" /\ Cacheable(k)
          /\ Mild(k, store[k].answer)
          /\ store[k].answer.status = "ok" => Sound(k, store[k].answer, Identities)
      BY <2>1, <2>4 DEF JsonSound
    <3>2. store[k].answer.status = "ok" => Sound(k, store[k].answer, Identities)'
      BY <2>1, <2>2, <3>1, SoundKept DEF Sound
    <3> QED
      BY <3>1, <3>2 DEF JsonSound, Cacheable, IsMutation, Mild, Sound
  <2> QED
    BY <2>3, <2>4
<1>2. ASSUME NEW k \in RawKeys PROVE RawSound(k)'
  <2>1. k[1] \in Paths /\ RawSound(k)
    BY DEF RawKeys, Paths
  <2>2. newest[k] <= version'[k[1]]
    BY <2>1 DEF RawSound, TypeOK, Grows
  <2> QED
    BY <2>1, <2>2 DEF RawSound
<1> QED
  BY <1>1, <1>2

\* Flights of the tasks that a step does not touch.
LEMMA FlightsKept ==
  ASSUME ProxyInv, flight' = flight,
         \A u \in Tasks, k \in RawKeys : Fetches(u, k)' <=> Fetches(u, k)
  PROVE  OneFetchPerRawKey'
BY DEF ProxyInv, OneFetchPerRawKey

-----------------------------------------------------------------------------
(* Arrivals and lookups.                                                   *)

\* A handler that answers at once, with an error or out of a cache.
LEMMA ReplyStep ==
  ASSUME ProxyInv, NEW t \in Tasks, NEW r \in Requests,
         NEW i \in Identities \cup {Own}, NEW a \in Answer,
         Reply(t, r, i, a), UNCHANGED <<caches, flight, version>>,
         step[t] \in {"idle", "wait"},
         a.status = "ok" => /\ ~IsMutation(r)
                            /\ Sound(r, a, Identities)
                            /\ r.kind = "raw" => Sound(r, a, {i})
  PROVE  ProxyInv'
<1>1. TypeOK'
  BY ReplyType DEF ProxyInv
<1>2. Grows
  BY DEF Grows, ProxyInv, TypeOK
<1>3. ASSUME NEW u \in Tasks, u # t PROVE Sane(u)'
  BY <1>1, <1>2, <1>3, SaneKept DEF Reply, ProxyInv, TypeOK, caches
<1>4. Sane(t)'
  <2>1. Sane(t)
    BY DEF ProxyInv
  <2>2. /\ step'[t] = "answered" /\ req'[t] = r /\ identity'[t] = i
        /\ answer'[t] = a /\ applied'[t] = 0 /\ version' = version
    BY <2>1 DEF Reply, ProxyInv, TypeOK, Sane
  <2> QED
    BY <2>2 DEF Sane, Sound, KnownChange, IsMutation, Changes
<1>5. (\A k \in Keys : JsonSound(k)') /\ (\A k \in RawKeys : RawSound(k)')
  BY <1>1, <1>2, CachesKept DEF caches
<1>6. OneFetchPerRawKey'
  <2>1. \A u \in Tasks, k \in RawKeys : Fetches(u, k)' <=> Fetches(u, k)
    BY DEF Fetches, Reply, ProxyInv, TypeOK
  <2> QED
    BY <2>1, FlightsKept
<1> QED
  BY <1>1, <1>3, <1>4, <1>5, <1>6 DEF ProxyInv

\* A handler that goes on to its first await.
LEMMA GoStep ==
  ASSUME ProxyInv, NEW t \in Tasks, NEW r \in Requests,
         NEW i \in Identities \cup {Own},
         NEW next \in {"resolve", "wait", "sent"},
         Go(t, r, i, next), UNCHANGED <<caches, version>>,
         step[t] \in {"idle", "wait"},
         next = "resolve" => IsMutation(r) /\ i = Own,
         next = "wait" => r.kind = "raw" /\ i \in Identities,
         next = "sent" => ~IsMutation(r) /\ i \in Identities,
         IF next = "sent" /\ r.kind = "raw"
         THEN /\ flight[RawKey(r, i)] = NoTask
              /\ flight' = [flight EXCEPT ![RawKey(r, i)] = t]
         ELSE UNCHANGED flight
  PROVE  ProxyInv'
<1>1. TypeOK'
  <2>1. flight' \in [RawKeys -> Tasks \cup {NoTask}]
    BY DEF ProxyInv, TypeOK
  <2> QED
    BY <2>1, GoType DEF ProxyInv
<1>2. Grows
  BY DEF Grows, ProxyInv, TypeOK
<1>3. ASSUME NEW u \in Tasks, u # t PROVE Sane(u)'
  BY <1>1, <1>2, <1>3, SaneKept DEF Go, ProxyInv, TypeOK, caches
<1>4. Sane(t)'
  <2>1. Sane(t)
    BY DEF ProxyInv
  <2>2. /\ step'[t] = next /\ req'[t] = r /\ identity'[t] = i
        /\ answer'[t] = NoAnswer /\ applied'[t] = 0
    BY <2>1 DEF Go, ProxyInv, TypeOK, Sane
  <2> QED
    BY <2>2 DEF Sane, IsMutation
<1>5. (\A k \in Keys : JsonSound(k)') /\ (\A k \in RawKeys : RawSound(k)')
  BY <1>1, <1>2, CachesKept DEF caches
<1>6. OneFetchPerRawKey'
  <2>1. \A u \in Tasks, k \in RawKeys :
          u # t => (Fetches(u, k)' <=> Fetches(u, k))
    BY DEF Fetches, Go, ProxyInv, TypeOK
  <2>2. \A k \in RawKeys : ~Fetches(t, k)
    BY DEF Fetches
  <2>3. CASE next = "sent" /\ r.kind = "raw"
    <3> DEFINE key == RawKey(r, i)
    <3>1. key \in RawKeys
      BY <2>3, KeyType
    <3>2. \A k \in RawKeys : Fetches(t, k)' <=> k = key
      BY <2>3 DEF Fetches, Go, ProxyInv, TypeOK
    <3>3. \A k \in RawKeys : flight'[k] = IF k = key THEN t ELSE flight[k]
      BY <2>3, <3>1 DEF ProxyInv, TypeOK
    <3>4. \A u \in Tasks : ~Fetches(u, key)
      BY <2>3, <3>1, RestProxyAssumption DEF ProxyInv, OneFetchPerRawKey
    <3> HIDE DEF key
    <3> QED
      BY <2>1, <2>2, <3>1, <3>2, <3>3, <3>4 DEF ProxyInv, OneFetchPerRawKey
  <2>4. CASE ~(next = "sent" /\ r.kind = "raw")
    <3>1. \A k \in RawKeys : ~Fetches(t, k)'
      BY <2>4 DEF Fetches, Go, ProxyInv, TypeOK
    <3> QED
      BY <2>1, <2>2, <2>4, <3>1, FlightsKept
  <2> QED
    BY <2>3, <2>4
<1> QED
  BY <1>1, <1>3, <1>4, <1>5, <1>6 DEF ProxyInv

LEMMA RawHitStep ==
  ASSUME ProxyInv, NEW t \in Tasks, NEW r, NEW i, RawHit(t, r, i),
         step[t] = "idle" => r \in Requests
  PROVE  ProxyInv'
<1> DEFINE a == raw_store[RawKey(r, i)].answer
<1>1. /\ r \in Requests /\ r.kind = "raw" /\ i \in Identities
      /\ RawKey(r, i) \in RawKeys /\ step[t] \in {"idle", "wait"}
  BY LooksUpType DEF RawHit
<1>2. raw_store[RawKey(r, i)] \in Entry
  BY <1>1 DEF RawHit, ProxyInv, TypeOK
<1>3. a \in Answer
  BY <1>2 DEF Entry
<1>4. Sound(r, a, {i})
  <2>1. RawSound(RawKey(r, i)) /\ raw_store[RawKey(r, i)] # NoEntry
    BY <1>1 DEF RawHit, ProxyInv
  <2>2. newest[RawKey(r, i)] <= version[r.path] /\ r.path \in Access[i]
    BY <2>1, RawKeyOf DEF RawSound
  <2>3. a.v = newest[RawKey(r, i)]
    BY <2>1 DEF RawSound
  <2> QED
    BY <2>2, <2>3 DEF Sound
<1>5. Sound(r, a, Identities) /\ ~IsMutation(r)
  BY <1>1, <1>4 DEF Sound, IsMutation
<1>6. Reply(t, r, i, a) /\ UNCHANGED <<caches, flight, version>>
  BY DEF RawHit
<1> HIDE DEF a
<1> QED
  BY <1>1, <1>3, <1>4, <1>5, <1>6, ReplyStep

LEMMA RawLeadStep ==
  ASSUME ProxyInv, NEW t \in Tasks, NEW r, NEW i, RawLead(t, r, i),
         step[t] = "idle" => r \in Requests
  PROVE  ProxyInv'
<1>1. /\ r \in Requests /\ r.kind = "raw" /\ i \in Identities
      /\ step[t] \in {"idle", "wait"} /\ ~IsMutation(r)
  BY LooksUpType DEF RawLead, IsMutation
<1> QED
  BY <1>1, GoStep DEF RawLead

LEMMA ArriveStep ==
  ASSUME ProxyInv, NEW t \in Tasks, NEW r \in Requests, Arrive(t, r)
  PROVE  ProxyInv'
<1>1. CASE Refuse(t, r)
  BY <1>1, AnswerTypes, ReplyStep DEF Refuse
<1>2. CASE Hit(t, r)
  <2> DEFINE a == store[r].answer
  <2>1. r \in Keys /\ ~IsMutation(r) /\ r.kind # "raw"
    BY <1>2 DEF Hit, Cacheable, Keys
  <2>2. store[r] \in Entry /\ JsonSound(r)
    BY <1>2, <2>1 DEF Hit, ProxyInv, TypeOK
  <2>3. a \in Answer /\ (a.status = "ok" => Sound(r, a, Identities))
    BY <1>2, <2>2 DEF Hit, Entry, JsonSound
  <2>4. Reply(t, r, Own, a) /\ UNCHANGED <<caches, flight, version>>
        /\ step[t] = "idle"
    BY <1>2 DEF Hit
  <2> HIDE DEF a
  <2> QED
    BY <2>1, <2>3, <2>4, ReplyStep
<1>3. CASE Mutate(t, r)
  BY <1>3, GoStep DEF Mutate, IsMutation
<1>4. ASSUME NEW i \in Identities, Miss(t, r, i) PROVE ProxyInv'
  BY <1>4, GoStep DEF Miss
<1>5. ASSUME NEW i \in Identities, RawHit(t, r, i) PROVE ProxyInv'
  BY <1>5, RawHitStep
<1>6. ASSUME NEW i \in Identities, RawLead(t, r, i) PROVE ProxyInv'
  BY <1>6, RawLeadStep
<1>7. ASSUME NEW i \in Identities, RawWait(t, r, i) PROVE ProxyInv'
  BY <1>7, GoStep, LooksUpType DEF RawWait
<1> QED
  BY <1>1, <1>2, <1>3, <1>4, <1>5, <1>6, <1>7 DEF Arrive

-----------------------------------------------------------------------------
(* GitHub, and the world outside.                                          *)

\* A step that changes an answer or a version, and no handler's place.
LEMMA GithubStep ==
  ASSUME ProxyInv, NEW t \in Tasks, Github(t)
  PROVE  ProxyInv'
<1> USE DEF ProxyInv
<1>0. /\ Sane(t) /\ Pending(t)
      /\ req[t] \in Requests /\ applied[t] = 0
      /\ req[t].path \in Paths /\ version[req[t].path] \in Nat
  <2>1. Pending(t) /\ Sane(t)
    BY DEF Github, GithubReads, GithubExecutes
  <2>2. req[t] \in Requests /\ applied[t] = 0
    BY <2>1 DEF Sane, Pending
  <2> QED
    BY <2>1, <2>2, KeyType DEF TypeOK
<1>f. ASSUME NEW f \in Failures(req[t])
      PROVE  f \in Answer /\ f.status # "ok" /\ Mild(req[t], f)
  BY AnswerTypes DEF Failures, Mild
<1>1. PICK a \in Answer :
        /\ answer' = [answer EXCEPT ![t] = a]
        /\ Mild(req[t], a)
        /\ a.status = "ok" => /\ a.v = version'[req[t].path]
                              /\ Changes(req[t]) => applied'[t] = 1
                              /\ May(identity[t], req[t].path)
  <2>1. ASSUME NEW f \in Failures(req[t]), Responds(t, f)
        PROVE  \E a \in Answer :
                 /\ answer' = [answer EXCEPT ![t] = a]
                 /\ Mild(req[t], a) /\ a.status # "ok"
    BY <1>f, <2>1 DEF Responds
  <2>2. ASSUME Responds(t, Ok(version'[req[t].path])),
               version'[req[t].path] \in Nat,
               Changes(req[t]) => applied'[t] = 1,
               May(identity[t], req[t].path)
        PROVE  \E a \in Answer :
                 /\ answer' = [answer EXCEPT ![t] = a]
                 /\ Mild(req[t], a)
                 /\ a.status = "ok" => /\ a.v = version'[req[t].path]
                                       /\ Changes(req[t]) => applied'[t] = 1
                                       /\ May(identity[t], req[t].path)
    <3> DEFINE o == Ok(version'[req[t].path])
    <3>1. /\ o \in Answer /\ o.status = "ok" /\ o.v = version'[req[t].path]
          /\ answer' = [answer EXCEPT ![t] = o]
      BY <2>2, AnswerTypes DEF Responds
    <3>2. Mild(req[t], o)
      BY <3>1 DEF Mild
    <3> HIDE DEF o
    <3> QED
      BY <2>2, <3>1, <3>2
  <2>3. CASE GithubReads(t)
    <3>1. ~Changes(req[t]) /\ version' = version
      BY <2>3 DEF GithubReads
    <3> QED
      BY <1>0, <2>1, <2>2, <2>3, <3>1 DEF GithubReads
  <2>4. CASE GithubExecutes(t)
    <3>1. CASE \E f \in Failures(req[t]) : Responds(t, f)
      BY <2>1, <3>1
    <3>2. CASE ~\E f \in Failures(req[t]) : Responds(t, f)
      <4>1. /\ May(identity[t], req[t].path)
            /\ version' = [version EXCEPT ![req[t].path] = @ + 1]
            /\ applied' = [applied EXCEPT ![t] = @ + 1]
            /\ Responds(t, Ok(version'[req[t].path]))
        BY <2>4, <3>2 DEF GithubExecutes
      <4>2. version'[req[t].path] \in Nat /\ applied'[t] = 1
        BY <1>0, <4>1 DEF TypeOK
      <4> QED
        BY <2>2, <4>1, <4>2
    <3> QED
      BY <3>1, <3>2
  <2> QED
    BY <2>3, <2>4 DEF Github
<1>2. /\ UNCHANGED <<caches, flight, step, req, identity>>
      /\ version' \in [Paths -> Nat] /\ Grows
      /\ applied' \in [Tasks -> Nat]
      /\ \A u \in Tasks : u # t => applied'[u] = applied[u]
      /\ applied'[t] \in {0, 1} /\ (applied'[t] = 1 => Changes(req[t]))
  <2>2. CASE GithubReads(t)
    BY <1>0, <2>2 DEF GithubReads, Grows, TypeOK
  <2>3. CASE GithubExecutes(t)
    BY <1>0, <2>3 DEF GithubExecutes, Grows, TypeOK
  <2> QED
    BY <2>2, <2>3 DEF Github
<1>3. TypeOK'
  BY <1>1, <1>2 DEF TypeOK, caches
<1>4. ASSUME NEW u \in Tasks, u # t PROVE Sane(u)'
  BY <1>1, <1>2, <1>3, <1>4, SaneKept DEF TypeOK, caches
<1>5. Sane(t)'
  <2>a. Sane(t) /\ step[t] = "sent"
    BY <1>0 DEF Pending
  <2>b. /\ req[t] \in Requests
        /\ IsMutation(req[t]) => identity[t] = Own
        /\ ~IsMutation(req[t]) => identity[t] \in Identities
    BY <2>a DEF Sane
  <2>c. a # NoAnswer /\ a.v \in Nat
    BY AnswerTypes DEF Answer
  <2>d. answer'[t] = a
    BY <1>1 DEF TypeOK
  <2>1. /\ step'[t] = "sent" /\ req'[t] = req[t] /\ identity'[t] = identity[t]
        /\ newest' = newest
    BY <1>2, <2>a DEF caches
  <2>e. req[t].kind = "raw" => ~IsMutation(req[t])
    BY DEF IsMutation
  <2>2. req[t].kind = "raw" => newest[RawKey(req[t], identity[t])]
                                 <= version[req[t].path]
    BY <2>b, <2>e, KeyType, RawKeyOf DEF RawSound
  <2>3. version[req[t].path] <= version'[req[t].path]
    BY <1>2, <2>b, KeyType DEF Grows
  <2>4. identity[t] \in Identities => identity[t] # Own
    BY RestProxyAssumption
  <2>5. /\ applied'[t] <= 1
        /\ applied'[t] = 1 => /\ Changes(req[t])
                              /\ identity[t] = Own <=> IsMutation(req[t])
    BY <1>2, <2>b, <2>4
  <2>6. a.status = "ok" /\ ~IsMutation(req[t]) =>
          /\ Sound(req[t], a, {identity[t]})'
          /\ req[t].kind = "raw" => newest[RawKey(req[t], identity[t])] <= a.v
    <3> SUFFICES ASSUME a.status = "ok", ~IsMutation(req[t])
                 PROVE  /\ Sound(req[t], a, {identity[t]})'
                        /\ req[t].kind = "raw" =>
                             newest[RawKey(req[t], identity[t])] <= a.v
      OBVIOUS
    <3>1. a.v = version'[req[t].path] /\ req[t].path \in Access[identity[t]]
      BY <1>1, <2>b, <2>4 DEF May
    <3>2. version[req[t].path] \in Nat /\ version'[req[t].path] \in Nat
      BY <1>2, <2>b, KeyType DEF TypeOK
    <3>3. req[t].kind = "raw" => newest[RawKey(req[t], identity[t])] \in Nat
      BY <2>b, KeyType DEF TypeOK
    <3> QED
      BY <2>1, <2>c, <2>2, <2>3, <3>1, <3>2, <3>3 DEF Sound
  <2> QED
    BY <1>1, <1>2, <2>b, <2>c, <2>d, <2>e, <2>1, <2>5, <2>6
      DEF Sane, Sound, KnownChange, Mild, IsMutation, Changes
<1>6. (\A k \in Keys : JsonSound(k)') /\ (\A k \in RawKeys : RawSound(k)')
  BY <1>2, <1>3, CachesKept DEF caches
<1>7. OneFetchPerRawKey'
  BY <1>2, FlightsKept DEF Fetches
<1> QED
  BY <1>3, <1>4, <1>5, <1>6, <1>7

\* What is at a path changes, and no task notices.
LEMMA GithubChangesStep ==
  ASSUME ProxyInv, NEW p \in Paths, GithubChanges(p)
  PROVE  ProxyInv'
<1> USE DEF ProxyInv
<1>1. TypeOK' /\ Grows
  BY DEF GithubChanges, caches, task, TypeOK, Grows
<1>2. ASSUME NEW u \in Tasks PROVE Sane(u)'
  BY <1>1, SaneKept DEF GithubChanges, caches, task
<1>3. (\A k \in Keys : JsonSound(k)') /\ (\A k \in RawKeys : RawSound(k)')
  BY <1>1, CachesKept DEF GithubChanges, caches
<1>4. OneFetchPerRawKey'
  BY FlightsKept DEF GithubChanges, task, Fetches
<1> QED
  BY <1>1, <1>2, <1>3, <1>4

LEMMA ResolvedStep ==
  ASSUME ProxyInv, NEW t \in Tasks, Resolved(t)
  PROVE  ProxyInv'
<1> USE DEF ProxyInv
<1>1. TypeOK' /\ Grows
  BY DEF Resolved, caches, TypeOK, Grows
<1>2. ASSUME NEW u \in Tasks, u # t PROVE Sane(u)'
  BY <1>1, <1>2, SaneKept DEF Resolved, caches, TypeOK
<1>3. Sane(t)'
  <2>1. Sane(t) /\ step[t] = "resolve"
    BY DEF Resolved
  <2>2. /\ step'[t] = "sent" /\ req' = req /\ identity' = identity
        /\ answer' = answer /\ applied' = applied
    BY DEF Resolved, TypeOK
  <2> QED
    BY <2>1, <2>2 DEF Sane, IsMutation
<1>4. (\A k \in Keys : JsonSound(k)') /\ (\A k \in RawKeys : RawSound(k)')
  BY <1>1, CachesKept DEF Resolved, caches
<1>5. OneFetchPerRawKey'
  <2>1. Sane(t) /\ step[t] = "resolve"
    BY DEF Resolved
  <2>2. req[t].kind # "raw"
    BY <2>1 DEF Sane, IsMutation
  <2>3. \A u \in Tasks, k \in RawKeys : Fetches(u, k)' <=> Fetches(u, k)
    BY <2>2 DEF Fetches, Resolved, TypeOK
  <2> QED
    BY <2>3, FlightsKept DEF Resolved
<1> QED
  BY <1>1, <1>2, <1>3, <1>4, <1>5

-----------------------------------------------------------------------------
(* Responses.                                                              *)

\* An outcome reaches the task that fetched and those that wait for it; the
\* caches, which it may have changed, are sound.
LEMMA FinishStep ==
  ASSUME ProxyInv, NEW t \in Tasks, NEW a \in Answer,
         step[t] = "sent", Finish(t, a),
         a.status = "ok" =>
           /\ KnownChange(req[t]) => applied[t] = 1
           /\ ~IsMutation(req[t]) => Sound(req[t], a, {identity[t]}),
         store' \in [Keys -> Entry \cup {NoEntry}],
         raw_store' \in [RawKeys -> Entry \cup {NoEntry}],
         newest' \in [RawKeys -> Nat],
         \A k \in RawKeys : ~Fetches(t, k) => newest'[k] = newest[k],
         \A k \in Keys : JsonSound(k)', \A k \in RawKeys : RawSound(k)'
  PROVE  ProxyInv'
<1> USE DEF ProxyInv
<1>1. TypeOK' /\ Grows
  BY FinishType DEF Finish, Grows, TypeOK
<1>2. t \in Served(t) /\ Served(t) \subseteq Tasks
  BY DEF Served
<1>3. \A u \in Tasks : /\ step'[u] = IF u \in Served(t) THEN "answered" ELSE step[u]
                       /\ answer'[u] = IF u \in Served(t) THEN a ELSE answer[u]
                       /\ req'[u] = req[u] /\ identity'[u] = identity[u]
                       /\ applied'[u] = applied[u]
  BY DEF Finish
<1>4. ASSUME NEW u \in Tasks, u \notin Served(t) PROVE Sane(u)'
  <2>1. step[u] = "sent" /\ req[u].kind = "raw" =>
          newest'[RawKey(req[u], identity[u])] = newest[RawKey(req[u], identity[u])]
    <3> SUFFICES ASSUME step[u] = "sent", req[u].kind = "raw"
                 PROVE  newest'[RawKey(req[u], identity[u])]
                          = newest[RawKey(req[u], identity[u])]
      OBVIOUS
    <3> DEFINE key == RawKey(req[u], identity[u])
    <3>1. key \in RawKeys
      <4>1. Sane(u)
        OBVIOUS
      <4>2. req[u] \in Requests /\ identity[u] \in Identities
        BY <4>1 DEF Sane, IsMutation
      <4> QED
        BY <4>2, KeyType
    <3>2. Fetches(u, key)
      BY DEF Fetches
    <3>3. ~Fetches(t, key)
      BY <1>2, <1>4, <3>1, <3>2 DEF OneFetchPerRawKey
    <3> HIDE DEF key
    <3>4. newest'[key] = newest[key]
      BY <3>1, <3>3
    <3> QED
      BY <3>4 DEF key
  <2>2. /\ step'[u] = step[u] /\ req'[u] = req[u] /\ identity'[u] = identity[u]
        /\ answer'[u] = answer[u] /\ applied'[u] = applied[u]
    BY <1>3, <1>4
  <2> QED
    BY <1>1, <2>1, <2>2, SaneKept
<1>5. ASSUME NEW u \in Served(t) PROVE Sane(u)'
  <2>1. u \in Tasks /\ Sane(u) /\ Sane(t)
    BY <1>2
  <2>2. /\ step'[u] = "answered" /\ answer'[u] = a
        /\ req'[u] = req[u] /\ identity'[u] = identity[u]
        /\ applied'[u] = applied[u] /\ version' = version
    BY <1>3, <2>1 DEF Finish
  <2>3. /\ req[u] \in Requests
        /\ ~IsMutation(req[u]) => identity[u] \in Identities
        /\ req[u].kind = "raw" => ~IsMutation(req[u])
        /\ applied[u] <= 1
        /\ applied[u] = 1 => /\ Changes(req[u])
                             /\ identity[u] = Own <=> IsMutation(req[u])
    BY <2>1, <1>5 DEF Sane, Served, IsMutation
  <2>4. a.status = "ok" =>
          /\ KnownChange(req[u]) => applied[u] = 1
          /\ ~IsMutation(req[u]) => Sound(req[u], a, {identity[u]})
    <3>1. CASE u = t
      BY <3>1
    <3>2. CASE u # t
      <4>1. /\ step[u] = "wait" /\ req[t].kind = "raw"
            /\ RawKey(req[u], identity[u]) = RawKey(req[t], identity[t])
        BY <3>2, <1>5 DEF Served
      <4>2. req[u].kind = "raw"
        BY <2>1, <4>1 DEF Sane
      <4>3. req[u].path = req[t].path /\ identity[u] = identity[t]
        BY <4>1, RawKeyOf
      <4>4. ~IsMutation(req[t]) /\ ~IsMutation(req[u])
        BY <4>1, <4>2 DEF IsMutation
      <4> QED
        BY <4>3, <4>4 DEF Sound, KnownChange
    <3> QED
      BY <3>1, <3>2
  <2> QED
    BY <2>2, <2>3, <2>4 DEF Sane, Sound, KnownChange, IsMutation, Changes
<1>6. OneFetchPerRawKey'
  <2>1. \A u \in Tasks, k \in RawKeys :
          Fetches(u, k)' <=> u \notin Served(t) /\ Fetches(u, k)
    BY <1>3 DEF Fetches
  <2>2. \A u \in Served(t), k \in RawKeys : u # t => ~Fetches(u, k)
    BY DEF Served, Fetches
  <2>3. \A k \in RawKeys : flight'[k] = IF flight[k] = t THEN NoTask ELSE flight[k]
    BY DEF Finish, Land
  <2>4. NoTask \notin Tasks
    BY RestProxyAssumption
  <2> QED
    BY <1>2, <2>1, <2>2, <2>3, <2>4 DEF OneFetchPerRawKey
<1> QED
  BY <1>1, <1>4, <1>5, <1>6

LEMMA FailsStep ==
  ASSUME ProxyInv, NEW t \in Tasks, Fails(t)
  PROVE  ProxyInv'
<1> USE DEF ProxyInv
<1>1. step[t] = "sent" /\ Finish(t, Error) /\ UNCHANGED caches
  BY DEF Fails
<1>2. Error \in Answer /\ Error.status # "ok"
  BY AnswerTypes
<1>3. TypeOK' /\ Grows
  BY <1>1, <1>2, FinishType DEF TypeOK, caches, Finish, Grows
<1>4. (\A k \in Keys : JsonSound(k)') /\ (\A k \in RawKeys : RawSound(k)')
  BY <1>1, <1>3, CachesKept DEF caches
<1> QED
  BY <1>1, <1>2, <1>4, FinishStep DEF TypeOK, caches

\* What has no error status is cached before it is answered.
LEMMA BodyStep ==
  ASSUME ProxyInv, NEW t \in Tasks, Body(t)
  PROVE  ProxyInv'
<1> USE DEF ProxyInv
<1> DEFINE a == answer[t]
           r == req[t]
           i == identity[t]
           key == RawKey(r, i)
<1>1. step[t] = "sent" /\ a \in Answer /\ Finish(t, a) /\ Sane(t)
  BY DEF Body, TypeOK
<1>2. /\ r \in Requests
      /\ r.kind = "raw" => i \in Identities /\ key \in RawKeys
      /\ ~IsMutation(r) => i \in Identities
      /\ r.kind = "raw" => ~IsMutation(r)
  <2>1. /\ r \in Requests /\ (~IsMutation(r) => i \in Identities)
        /\ r.kind = "raw" => ~IsMutation(r)
    BY <1>1 DEF Sane, IsMutation
  <2> QED
    BY <2>1, KeyType
<1>3. /\ Mild(r, a)
      /\ a.status = "ok" => /\ KnownChange(r) => applied[t] = 1
                            /\ ~IsMutation(r) => Sound(r, a, {i})
                            /\ r.kind = "raw" => newest[key] <= a.v
  BY <1>1 DEF Sane, Body
<1>a. r.kind = "raw" /\ a.status # "error" => a.status = "ok"
  BY <1>1, <1>3 DEF Mild, Answer
<1>4. /\ version' = version /\ Grows
      /\ \A k \in RawKeys : ~Fetches(t, k) => k # key \/ r.kind # "raw"
  BY <1>1 DEF Finish, Grows, TypeOK, Fetches
<1>5. /\ store' \in [Keys -> Entry \cup {NoEntry}]
      /\ raw_store' \in [RawKeys -> Entry \cup {NoEntry}]
      /\ newest' \in [RawKeys -> Nat]
      /\ \A k \in RawKeys : ~Fetches(t, k) => newest'[k] = newest[k]
      /\ \A k \in Keys : JsonSound(k)'
      /\ \A k \in RawKeys : RawSound(k)'
  <2> HIDE DEF a, r, i, key
  <2>1. CASE UNCHANGED caches
    <3>1. TypeOK'
      BY <1>1, <2>1, FinishType DEF TypeOK, caches
    <3> QED
      BY <1>4, <2>1, <3>1, CachesKept DEF caches, TypeOK
  <2>2. CASE a.status # "error" /\ r.kind = "raw" /\ ~UNCHANGED caches
    <3> DEFINE e == [answer |-> a, left |-> RawTtl]
    <3>1. /\ raw_store' = [raw_store EXCEPT ![key] = e]
          /\ newest' = [newest EXCEPT ![key] = Max(@, a.v)]
          /\ UNCHANGED store
      BY <2>2 DEF Body, Fill, Cacheable, a, r, i, key
    <3>0. a.status = "ok"
      BY <1>a, <2>2
    <3>2. e \in Entry /\ e.answer = a /\ a.v \in Nat
      BY <1>1, RestProxyAssumption DEF Entry, Answer
    <3> HIDE DEF e
    <3>3. /\ \A k \in RawKeys : newest'[k] = IF k = key THEN a.v ELSE newest[k]
          /\ newest' \in [RawKeys -> Nat]
      BY <1>2, <1>3, <2>2, <3>0, <3>1, <3>2 DEF Max, TypeOK
    <3>4. raw_store' \in [RawKeys -> Entry \cup {NoEntry}]
          /\ raw_store'[key] = e
          /\ \A k \in RawKeys : k # key => raw_store'[k] = raw_store[k]
      BY <1>2, <2>2, <3>1, <3>2 DEF TypeOK
    <3>5. ASSUME NEW k \in RawKeys PROVE RawSound(k)'
      <4>1. CASE k = key
        <5>1. Sound(r, a, {i}) /\ key[1] = r.path /\ key[2] = i
          BY <1>2, <1>3, <2>2, <3>0, RawKeyOf DEF key
        <5> QED
          BY <1>2, <1>4, <2>2, <3>0, <3>2, <3>3, <3>4, <4>1, <5>1
            DEF RawSound, Sound
      <4>2. CASE k # key
        <5>1. RawSound(k)
          OBVIOUS
        <5> QED
          BY <1>4, <3>3, <3>4, <4>2, <5>1 DEF RawSound
      <4> QED
        BY <4>1, <4>2
    <3>6. \A k \in Keys : JsonSound(k)'
      BY <1>4, <3>1 DEF JsonSound, Sound
    <3> QED
      BY <1>4, <2>2, <3>1, <3>3, <3>4, <3>5, <3>6 DEF TypeOK
  <2>3. CASE a.status # "error" /\ r.kind # "raw" /\ ~UNCHANGED caches
    <3> DEFINE e == [answer |-> a, left |-> Ttl]
    <3>1. /\ store' = [store EXCEPT ![r] = e]
          /\ UNCHANGED <<raw_store, newest>>
          /\ Cacheable(r)
      BY <2>3 DEF Body, Fill, a, r, i
    <3>2. e \in Entry /\ e.answer = a
      BY <1>1, RestProxyAssumption DEF Entry
    <3> HIDE DEF e
    <3>3. /\ r \in Keys /\ i \in Identities
          /\ a.status = "ok" => Sound(r, a, {i})
      BY <1>2, <1>3, <2>3, <3>1 DEF Cacheable, Keys
    <3>4. store' \in [Keys -> Entry \cup {NoEntry}]
          /\ \A k \in Keys : store'[k] = IF k = r THEN e ELSE store[k]
      BY <3>1, <3>2 DEF TypeOK
    <3>5. ASSUME NEW k \in Keys PROVE JsonSound(k)'
      <4>1. CASE k = r
        BY <1>3, <1>4, <2>3, <3>1, <3>2, <3>3, <3>4, <4>1
          DEF JsonSound, Sound, Cacheable, IsMutation, Mild
      <4>2. CASE k # r
        <5>1. JsonSound(k)
          OBVIOUS
        <5> QED
          BY <1>4, <3>4, <4>2, <5>1 DEF JsonSound, Sound
      <4> QED
        BY <4>1, <4>2
    <3>6. \A k \in RawKeys : RawSound(k)'
      BY <1>4, <3>1 DEF RawSound
    <3> QED
      BY <3>1, <3>4, <3>5, <3>6 DEF TypeOK
  <2>4. a.status = "error" => UNCHANGED caches
    BY DEF Body, a
  <2> QED
    BY <2>1, <2>2, <2>3, <2>4
<1> QED
  BY <1>1, <1>3, <1>5, FinishStep

-----------------------------------------------------------------------------
(* Tasks that end, time, eviction and restarts.                            *)

\* What holds of a task before it is asked anything.
LEMMA LeaveSane ==
  ASSUME TypeOK, NEW t \in Tasks, Leave(t)
  PROVE  Sane(t)'
BY DEF Leave, TypeOK, Sane

LEMMA DeliverStep ==
  ASSUME ProxyInv, NEW t \in Tasks, Deliver(t)
  PROVE  ProxyInv'
<1> USE DEF ProxyInv
<1>1. TypeOK' /\ Grows
  BY DEF Deliver, Leave, caches, TypeOK, Grows
<1>2. ASSUME NEW u \in Tasks, u # t PROVE Sane(u)'
  BY <1>1, <1>2, SaneKept DEF Deliver, Leave, caches, TypeOK
<1>3. Sane(t)'
  BY LeaveSane DEF Deliver
<1>4. (\A k \in Keys : JsonSound(k)') /\ (\A k \in RawKeys : RawSound(k)')
  BY <1>1, CachesKept DEF Deliver, caches
<1>5. OneFetchPerRawKey'
  <2>1. \A u \in Tasks, k \in RawKeys : Fetches(u, k)' <=> Fetches(u, k)
    BY DEF Fetches, Deliver, Leave, TypeOK
  <2> QED
    BY <2>1, FlightsKept DEF Deliver
<1> QED
  BY <1>1, <1>2, <1>3, <1>4, <1>5

LEMMA CancelStep ==
  ASSUME ProxyInv, NEW t \in Tasks, Cancel(t)
  PROVE  ProxyInv'
<1> USE DEF ProxyInv
<1>1. TypeOK' /\ Grows
  BY DEF Cancel, Leave, Land, caches, TypeOK, Grows
<1>2. ASSUME NEW u \in Tasks, u # t PROVE Sane(u)'
  BY <1>1, <1>2, SaneKept DEF Cancel, Leave, caches, TypeOK
<1>3. Sane(t)'
  BY LeaveSane DEF Cancel
<1>4. (\A k \in Keys : JsonSound(k)') /\ (\A k \in RawKeys : RawSound(k)')
  BY <1>1, CachesKept DEF Cancel, caches
<1>5. OneFetchPerRawKey'
  <2>1. \A u \in Tasks, k \in RawKeys :
          Fetches(u, k)' <=> u # t /\ Fetches(u, k)
    BY DEF Fetches, Cancel, Leave, TypeOK
  <2>2. \A k \in RawKeys : flight'[k] = IF flight[k] = t THEN NoTask ELSE flight[k]
    BY DEF Cancel, Land
  <2>3. NoTask \notin Tasks
    BY RestProxyAssumption
  <2> QED
    BY <2>1, <2>2, <2>3 DEF OneFetchPerRawKey
<1> QED
  BY <1>1, <1>2, <1>3, <1>4, <1>5

LEMMA ForgetStep ==
  ASSUME ProxyInv, Tick \/ Evict
  PROVE  ProxyInv'
<1> USE DEF ProxyInv
<1>1. /\ store' \in [Keys -> Entry \cup {NoEntry}]
      /\ raw_store' \in [RawKeys -> Entry \cup {NoEntry}]
      /\ \A k \in Keys : store'[k] # NoEntry =>
           store[k] # NoEntry /\ store'[k].answer = store[k].answer
      /\ \A k \in RawKeys : raw_store'[k] # NoEntry =>
           raw_store[k] # NoEntry /\ raw_store'[k].answer = raw_store[k].answer
  <2>1. CASE Tick
    BY <2>1, AgeType DEF Tick, TypeOK
  <2>2. CASE Evict
    BY <2>2 DEF Evict, TypeOK
  <2> QED
    BY <2>1, <2>2
<1>2. UNCHANGED <<newest, flight, version, task>>
  BY DEF Tick, Evict
<1>3. TypeOK' /\ Grows
  BY <1>1, <1>2 DEF TypeOK, Grows, task
<1>4. ASSUME NEW u \in Tasks PROVE Sane(u)'
  BY <1>2, <1>3, SaneKept DEF task
<1>5. (\A k \in Keys : JsonSound(k)') /\ (\A k \in RawKeys : RawSound(k)')
  BY <1>1, <1>2, <1>3, CachesKept
<1>6. OneFetchPerRawKey'
  BY <1>2, FlightsKept DEF task, Fetches
<1> QED
  BY <1>3, <1>4, <1>5, <1>6

LEMMA RestartStep ==
  ASSUME ProxyInv, Restart
  PROVE  ProxyInv'
<1> USE DEF ProxyInv
<1>1. TypeOK'
  BY DEF Restart, TypeOK
<1>2. ASSUME NEW u \in Tasks PROVE Sane(u)'
  BY DEF Restart, Sane
<1>3. \A k \in Keys : JsonSound(k)'
  BY DEF Restart, JsonSound
<1>4. ASSUME NEW k \in RawKeys PROVE RawSound(k)'
  <2>1. RawSound(k)
    OBVIOUS
  <2> QED
    BY <2>1 DEF Restart, RawSound
<1>5. OneFetchPerRawKey'
  BY RestProxyAssumption DEF Restart, OneFetchPerRawKey, Fetches
<1> QED
  BY <1>1, <1>2, <1>3, <1>4, <1>5

-----------------------------------------------------------------------------
(* The proxies                                                             *)

LEMMA ProxyInit == Init => ProxyInv
<1> SUFFICES ASSUME Init PROVE ProxyInv
  OBVIOUS
<1>1. ASSUME NEW t \in Tasks PROVE Sane(t)
  <2>1. step[t] = "idle" /\ answer[t] = NoAnswer /\ applied[t] = 0
    BY DEF Init
  <2> QED
    BY <2>1 DEF Sane
<1>2. \A k \in Keys : JsonSound(k)
  BY DEF Init, JsonSound
<1>3. \A k \in RawKeys : RawSound(k)
  BY DEF Init, RawSound, RawKeys, Paths
<1>4. OneFetchPerRawKey
  BY RestProxyAssumption DEF Init, OneFetchPerRawKey, Fetches
<1> QED
  BY <1>1, <1>2, <1>3, <1>4, TypeInit DEF ProxyInv

LEMMA HandleStep ==
  ASSUME ProxyInv, NEW t \in Tasks, Handle(t)
  PROVE  ProxyInv'
<1>1. CASE LookAgain(t)
  BY <1>1, RawHitStep, RawLeadStep DEF LookAgain
<1> QED
  BY <1>1, ResolvedStep, BodyStep, FailsStep DEF Handle

LEMMA WorldStep ==
  ASSUME ProxyInv, World
  PROVE  ProxyInv'
BY GithubChangesStep, ForgetStep, RestartStep DEF World

LEMMA ProxyStutter ==
  ASSUME ProxyInv, UNCHANGED vars
  PROVE  ProxyInv'
<1> USE DEF ProxyInv, vars, caches, task
<1>1. TypeOK' /\ Grows
  BY DEF TypeOK, Grows
<1>2. \A u \in Tasks : Sane(u)'
  BY <1>1, SaneKept
<1>3. (\A k \in Keys : JsonSound(k)') /\ (\A k \in RawKeys : RawSound(k)')
  BY <1>1, CachesKept
<1>4. OneFetchPerRawKey'
  BY FlightsKept DEF Fetches
<1> QED
  BY <1>1, <1>2, <1>3, <1>4

LEMMA ProxyStep == ProxyInv /\ [Next]_vars => ProxyInv'
<1> SUFFICES ASSUME ProxyInv, [Next]_vars PROVE ProxyInv'
  OBVIOUS
<1>1. CASE UNCHANGED vars
  BY <1>1, ProxyStutter
<1>2. CASE World
  BY <1>2, WorldStep
<1>3. ASSUME NEW t \in Tasks, NEW r \in Requests, Arrive(t, r) PROVE ProxyInv'
  BY <1>3, ArriveStep
<1>4. ASSUME NEW t \in Tasks, Handle(t) \/ Github(t) \/ Deliver(t) \/ Cancel(t)
      PROVE  ProxyInv'
  BY <1>4, HandleStep, GithubStep, DeliverStep, CancelStep
<1> QED
  BY <1>1, <1>2, <1>3, <1>4 DEF Next

LEMMA ProxyAlways == Spec => []ProxyInv
BY ProxyInit, ProxyStep, PTL DEF Spec

\* The state of the proxies and their caches keeps its type, through failures,
\* disconnects, expiry and restarts.
THEOREM ProxyTypeCorrect == Spec => []TypeOK
BY ProxyAlways, PTL DEF ProxyInv

\* main.rs and cache.rs: misses of one raw key share one fetch, and nobody
\* waits for a fetch that is gone.
THEOREM OneFetchPerRawKeyHolds == Spec => []OneFetchPerRawKey
BY ProxyAlways, PTL DEF ProxyInv

\* build_raw_key: a raw success is one the request's own identity may read.
THEOREM RawAnswersOwnIdentityHolds == Spec => []RawAnswersOwnIdentity
<1>1. ProxyInv => RawAnswersOwnIdentity
  BY DEF ProxyInv, Sane, Sound, RawAnswersOwnIdentity
<1> QED
  BY <1>1, ProxyAlways, PTL

\* A task that is given its answer in this step has the newest there has been.
ReadsNewest(t) ==
  /\ step[t] # "answered" /\ step'[t] = "answered"
  /\ req'[t].kind = "raw" /\ answer'[t].status = "ok"
  => answer'[t].v = newest'[RawKey(req'[t], identity'[t])]

LEMMA RawHitReads ==
  ASSUME ProxyInv, NEW t \in Tasks, NEW r, NEW i, RawHit(t, r, i),
         step[t] = "idle" => r \in Requests
  PROVE  newest' = newest /\ \A u \in Tasks : ReadsNewest(u)
<1> DEFINE key == RawKey(r, i)
<1>1. key \in RawKeys
  BY LooksUpType DEF RawHit
<1>2. raw_store[key].answer.v = newest[key]
  BY <1>1 DEF RawHit, ProxyInv, RawSound
<1>3. /\ newest' = newest
      /\ \A u \in Tasks : u # t => step'[u] = step[u]
      /\ req'[t] = r /\ identity'[t] = i
      /\ answer'[t] = raw_store[key].answer
  BY DEF RawHit, Reply, caches, ProxyInv, TypeOK
<1> HIDE DEF key
<1>4. ReadsNewest(t)
  BY <1>2, <1>3 DEF ReadsNewest, key
<1> QED
  BY <1>3, <1>4 DEF ReadsNewest

\* A raw success is cached when the task that fetched it, and whoever waits
\* for that task, is given it.
LEMMA BodyReads ==
  ASSUME ProxyInv, NEW t \in Tasks, Body(t)
  PROVE  /\ \A k \in RawKeys : newest[k] <= newest'[k]
         /\ \A u \in Tasks : ReadsNewest(u)
<1> DEFINE a == answer[t]
           key == RawKey(req[t], identity[t])
<1>1. /\ step[t] = "sent" /\ a \in Answer /\ Finish(t, a)
      /\ a.v \in Nat /\ newest \in [RawKeys -> Nat] /\ Sane(t)
  BY DEF Body, ProxyInv, TypeOK, Answer
<1>2. /\ req[t] \in Requests
      /\ req[t].kind = "raw" => key \in RawKeys
      /\ req[t].kind = "raw" /\ a.status = "ok" => newest[key] <= a.v
  <2>1. req[t] \in Requests /\ (req[t].kind = "raw" => identity[t] \in Identities)
    BY <1>1 DEF Sane, IsMutation
  <2>2. req[t].kind = "raw" /\ a.status = "ok" => newest[key] <= a.v
    BY <1>1 DEF Sane, Body
  <2> QED
    BY <2>1, <2>2, KeyType
<1>a. req[t].kind = "raw" /\ a.status # "error" => a.status = "ok"
  BY <1>1 DEF Sane, Mild, Answer, Body
<1>3. \/ newest' = newest /\ ~(req[t].kind = "raw" /\ a.status = "ok")
      \/ /\ req[t].kind = "raw" /\ a.status = "ok"
         /\ newest' = [newest EXCEPT ![key] = Max(@, a.v)]
  BY <1>a DEF Body, Fill, caches, Cacheable
<1> HIDE DEF a, key
<1>4. \A k \in RawKeys : newest[k] <= newest'[k]
  BY <1>1, <1>2, <1>3 DEF Max
<1>5. req[t].kind = "raw" /\ a.status = "ok" => newest'[key] = a.v
  BY <1>1, <1>2, <1>3 DEF Max
<1>6. ASSUME NEW u \in Tasks PROVE ReadsNewest(u)
  <2>1. CASE u \in Served(t)
    <3>1. answer'[u] = a /\ req'[u] = req[u] /\ identity'[u] = identity[u]
      BY <1>1, <2>1 DEF Finish
    <3>2. CASE u = t
      BY <1>5, <3>1, <3>2 DEF ReadsNewest, key
    <3>3. CASE u # t
      <4>1. RawKey(req[u], identity[u]) = key
        BY <2>1, <3>3 DEF Served, key
      <4>2. req[t].kind = "raw"
        BY <2>1, <3>3 DEF Served
      <4> QED
        BY <1>5, <3>1, <4>1, <4>2 DEF ReadsNewest
    <3> QED
      BY <3>2, <3>3
  <2>2. CASE u \notin Served(t)
    BY <1>1, <2>2 DEF Finish, ReadsNewest
  <2> QED
    BY <2>1, <2>2
<1> QED
  BY <1>4, <1>6

LEMMA RawReadsStep ==
  ASSUME ProxyInv, [Next]_vars
  PROVE  /\ \A k \in RawKeys : newest[k] <= newest'[k]
         /\ \A t \in Tasks : ReadsNewest(t)
<1> DEFINE Goal == /\ \A k \in RawKeys : newest[k] <= newest'[k]
                   /\ \A t \in Tasks : ReadsNewest(t)
<1>0. newest' = newest => \A k \in RawKeys : newest[k] <= newest'[k]
  BY DEF ProxyInv, TypeOK
<1>1. ASSUME NEW t \in Tasks, NEW r \in Requests, Arrive(t, r) PROVE Goal
  <2>1. CASE Refuse(t, r)
    <3>1. newest' = newest /\ \A u \in Tasks : u # t => step'[u] = step[u]
      BY <2>1 DEF Refuse, Reply, caches, ProxyInv, TypeOK
    <3>2. answer'[t] = Error
      BY <2>1 DEF Refuse, Reply, ProxyInv, TypeOK
    <3> QED
      BY <1>0, <3>1, <3>2, AnswerTypes DEF ReadsNewest
  <2>2. CASE Hit(t, r)
    <3>1. newest' = newest /\ \A u \in Tasks : u # t => step'[u] = step[u]
      BY <2>2 DEF Hit, Reply, caches, ProxyInv, TypeOK
    <3>2. req'[t] = r /\ r.kind # "raw"
      BY <2>2 DEF Hit, Reply, Cacheable, ProxyInv, TypeOK
    <3> QED
      BY <1>0, <3>1, <3>2 DEF ReadsNewest
  <2>3. ASSUME NEW i \in Identities, RawHit(t, r, i) PROVE Goal
    BY <1>0, <2>3, RawHitReads
  <2>4. ASSUME NEW i, NEW next \in {"resolve", "wait", "sent"},
               Go(t, r, i, next), UNCHANGED caches
        PROVE  Goal
    <3>1. newest' = newest /\ \A u \in Tasks : step'[u] \in {step[u], next}
      BY <2>4 DEF Go, caches, ProxyInv, TypeOK
    <3> QED
      BY <1>0, <3>1 DEF ReadsNewest
  <2>5. CASE Mutate(t, r)
    BY <2>4, <2>5 DEF Mutate
  <2>6. ASSUME NEW i \in Identities,
               Miss(t, r, i) \/ RawLead(t, r, i) \/ RawWait(t, r, i)
        PROVE  Goal
    <3>1. UNCHANGED caches /\ (Go(t, r, i, "sent") \/ Go(t, r, i, "wait"))
      BY <2>6 DEF Miss, RawLead, RawWait
    <3> QED
      BY <2>4, <3>1
  <2> QED
    BY <1>1, <2>1, <2>2, <2>3, <2>5, <2>6 DEF Arrive
<1>2. ASSUME NEW t \in Tasks, Body(t) PROVE Goal
  BY <1>2, BodyReads
<1>3. ASSUME NEW t \in Tasks, Fails(t) PROVE Goal
  <2>1. /\ newest' = newest
        /\ \A u \in Tasks : \/ step'[u] = step[u]
                            \/ answer'[u] = Error
    BY <1>3 DEF Fails, Finish, caches
  <2> QED
    BY <1>0, <2>1, AnswerTypes DEF ReadsNewest
<1>4. ASSUME NEW t \in Tasks, LookAgain(t) PROVE Goal
  <2>1. CASE RawHit(t, req[t], identity[t])
    BY <1>0, <1>4, <2>1, RawHitReads DEF LookAgain
  <2>2. CASE RawLead(t, req[t], identity[t])
    <3>1. newest' = newest /\ \A u \in Tasks : step'[u] \in {step[u], "sent"}
      BY <2>2 DEF RawLead, Go, caches, ProxyInv, TypeOK
    <3> QED
      BY <1>0, <3>1 DEF ReadsNewest
  <2> QED
    BY <1>4, <2>1, <2>2 DEF LookAgain
<1>5. ASSUME NEW t \in Tasks,
             Resolved(t) \/ Github(t) \/ Deliver(t) \/ Cancel(t)
      PROVE  Goal
  <2>1. newest' = newest
        /\ \A u \in Tasks : step'[u] \in {step[u], "sent", "idle"}
    BY <1>5 DEF Resolved, Github, GithubReads, GithubExecutes, Deliver, Cancel,
                Leave, caches, ProxyInv, TypeOK
  <2> QED
    BY <1>0, <2>1 DEF ReadsNewest
<1>6. ASSUME World \/ UNCHANGED vars PROVE Goal
  <2>1. newest' = newest /\ \A u \in Tasks : step'[u] \in {step[u], "idle"}
    BY <1>6 DEF World, GithubChanges, Tick, Evict, Restart, vars, caches, task
  <2> QED
    BY <1>0, <2>1 DEF ReadsNewest
<1> HIDE DEF Goal
<1>7. ASSUME NEW t \in Tasks,
             Handle(t) \/ Github(t) \/ Deliver(t) \/ Cancel(t)
      PROVE  Goal
  BY <1>2, <1>3, <1>4, <1>5, <1>7 DEF Handle
<1>8. Goal
  BY <1>1, <1>6, <1>7 DEF Next
<1> QED
  BY <1>8 DEF Goal

\* get_or_insert_raw: whoever asks with one identity for one path is never
\* given older contents than somebody was given before.
THEOREM RawReadsAreMonotonicHolds == Spec => RawReadsAreMonotonic
<1>1. ASSUME ProxyInv, [Next]_vars
      PROVE  [/\ \A k \in RawKeys : newest[k] <= newest'[k]
              /\ \A t \in Tasks :
                   /\ step[t] # "answered" /\ step'[t] = "answered"
                   /\ req'[t].kind = "raw" /\ answer'[t].status = "ok"
                   => answer'[t].v = newest'[RawKey(req'[t], identity'[t])]]_vars
  BY <1>1, RawReadsStep DEF ReadsNewest
<1> QED
  BY <1>1, ProxyAlways, PTL DEF Spec, RawReadsAreMonotonic

\* proxy, proxy_raw, graphql_proxy: the shared cache holds what the pool was
\* answered, errors only for GraphQL, and nothing a client's credential got.
THEOREM OnlyPooledAnswersCachedHolds == Spec => []OnlyPooledAnswersCached
<1>1. ASSUME ProxyInv PROVE OnlyPooledAnswersCached
  <2>1. ASSUME NEW k \in Keys, store[k] # NoEntry
        PROVE  /\ ~IsMutation(k)
               /\ \/ /\ store[k].answer.status = "ok"
                     /\ store[k].answer.v <= version[k.path]
                     /\ \E i \in Identities : k.path \in Access[i]
                  \/ store[k].answer = Errors /\ k.kind = "graphql"
    <3>1. JsonSound(k) /\ store[k].answer \in Answer
      BY <1>1, <2>1 DEF ProxyInv, TypeOK, Entry
    <3>2. store[k].answer.status \in {"ok", "errors", "error"}
      BY <3>1 DEF Answer
    <3> QED
      BY <2>1, <3>1, <3>2 DEF JsonSound, Cacheable, Mild, Sound
  <2>2. \A k \in RawKeys : raw_store[k] # NoEntry =>
          /\ raw_store[k].answer.status = "ok"
          /\ raw_store[k].answer.v <= version[k[1]]
          /\ \E i \in {k[2]} : k[1] \in Access[i]
    BY <1>1 DEF ProxyInv, RawSound
  <2> QED
    BY <2>1, <2>2 DEF OnlyPooledAnswersCached
<1> QED
  BY <1>1, ProxyAlways, PTL

\* graphql_proxy: a change whose document begins with "mutation" and that is
\* answered with success was made once, with the client's own credential, which
\* goes with such documents only.
THEOREM RecognisedMutationsPassThroughHolds ==
  Spec => []RecognisedMutationsPassThrough
<1>1. ProxyInv => RecognisedMutationsPassThrough
  BY DEF ProxyInv, Sane, KnownChange, RecognisedMutationsPassThrough
<1> QED
  BY <1>1, ProxyAlways, PTL

-----------------------------------------------------------------------------
(* obk: where each command is, what it asks, and what it has printed.      *)

\* A printed answer of octobroker's that is one GitHub gave to request r.
Genuine(o, r) ==
  /\ o.from = r /\ o.answer \in Answer /\ o.answer.status = "ok"
  /\ Sound(r, o.answer, Identities)

Final(l) == l.asks[Len(l.asks)]

\* Line l asks its requests in turn, and has another one to make.
Asking(c) ==
  /\ line[c] \in Lines /\ line[c].kind # "direct"
  /\ asked[c] \in Nat /\ asked[c] < Len(line[c].asks)

Placed(c) ==
  /\ at[c] \in {"new", "ready", "asking", "gh", "exchange", "done"}
  /\ at[c] # "done" => out[c] = <<>>
  /\ at[c] = "new" => asked[c] = 0
  /\ at[c] \in {"ready", "asking"} => Asking(c)
  /\ at[c] = "asking" /\ step[c] # "idle" =>
       req[c] = line[c].asks[asked[c] + 1]
  /\ at[c] = "gh" => line[c] \in Lines
  /\ at[c] = "exchange" => \E g \in Inputs : /\ line[c] = CredentialLine(g)
                                             /\ Recognised(g)
  /\ at[c] = "done" => \/ line[c] \in Lines
                       \/ \E g \in Inputs : line[c] = CredentialLine(g)

Printed(c) ==
  at[c] = "done" =>
    \E o : /\ out[c] = <<o>>
           /\ line[c].kind = "credential" =>
                (o = Output("decline") <=> ~line[c].recognised)
           /\ o.by = "octobroker" /\ line[c].kind \in {"parsed", "diff"} =>
                /\ Final(line[c]) \in Requests
                /\ Genuine(o, Final(line[c]))

OInv ==
  /\ ProxyInv
  /\ line \in [Commands -> Lines \cup {CredentialLine(g) : g \in Inputs}
                             \cup {NoLine}]
  /\ DOMAIN at = Commands /\ DOMAIN asked = Commands /\ DOMAIN out = Commands
  /\ \A c \in Commands : Placed(c) /\ Printed(c)

\* The request a line makes after n others.
LEMMA AsksType ==
  ASSUME NEW l \in Lines, NEW n \in Nat, n < Len(l.asks)
  PROVE  /\ l.asks[n + 1] \in Requests
         /\ l.asks[n + 1].kind \in {"json", "raw"}
         /\ Len(l.asks) \in Nat
<1>1. l.asks \in Seq(Reads)
  BY ObkAssumption
<1>2. Len(l.asks) \in Nat /\ n + 1 \in 1..Len(l.asks)
  BY <1>1
<1>3. l.asks[n + 1] \in Reads
  BY <1>1, <1>2
<1> QED
  BY <1>2, <1>3 DEF Reads

LEMMA LineTypes ==
  /\ \A g : /\ CredentialLine(g).kind = "credential"
            /\ CredentialLine(g).recognised = Recognised(g)
  /\ \A l \in Lines : l.kind # "credential"
BY ObkAssumption DEF CredentialLine

LEMMA OutputTypes ==
  /\ \A w : Output(w).by = w
  /\ Output("gh") # Output("decline") /\ Output("token") # Output("decline")
  /\ Output("quit") # Output("decline")
  /\ \A r, a : /\ Pooled(r, a).by = "octobroker" /\ Pooled(r, a).from = r
               /\ Pooled(r, a).answer = a
BY DEF Output, Pooled

\* credential_plan declines what is not github.com over https, and only that.
LEMMA DeclineOnlyForeign ==
  ASSUME NEW g \in Inputs
  PROVE  /\ CredentialPlan(g) \in {"decline", "quit", "fetch"}
         /\ CredentialPlan(g) = "decline" <=> ~Recognised(g)
<1>1. Lower(g.host) = GithubHost(Lower(g.host).port) <=> g.host.name = "github.com"
  BY DEF Lower, GithubHost
<1> QED
  BY <1>1 DEF CredentialPlan, Recognised

-----------------------------------------------------------------------------
(* obk's steps are steps of the proxies.                                   *)

LEMMA VersionGrows ==
  ASSUME ProxyInv, [Next]_vars
  PROVE  Grows
<1> USE DEF ProxyInv, Grows
<1>1. \A p \in Paths : version[p] \in Nat
  BY DEF TypeOK
<1>2. CASE UNCHANGED version
  BY <1>1, <1>2
<1>3. ASSUME NEW t \in Tasks, GithubExecutes(t) PROVE Grows
  BY <1>1, <1>3 DEF GithubExecutes, TypeOK
<1>4. ASSUME NEW p \in Paths, GithubChanges(p) PROVE Grows
  BY <1>1, <1>4 DEF GithubChanges, TypeOK
<1>5. ASSUME NEW t \in Tasks, Handle(t) \/ GithubReads(t) \/ Deliver(t) \/ Cancel(t)
      PROVE  UNCHANGED version
  BY <1>5 DEF Handle, Resolved, LookAgain, RawHit, RawLead, Body, Fails, Finish,
              GithubReads, Deliver, Cancel
<1>6. ASSUME NEW t \in Tasks, NEW r \in Requests, Arrive(t, r)
      PROVE  UNCHANGED version
  BY <1>6 DEF Arrive, Refuse, Hit, Mutate, Miss, RawHit, RawLead, RawWait
<1>7. Tick \/ Evict \/ Restart \/ UNCHANGED vars => UNCHANGED version
  BY DEF Tick, Evict, Restart, vars
<1> QED
  BY <1>2, <1>3, <1>4, <1>5, <1>6, <1>7 DEF Next, World, Github

LEMMA ObkStep ==
  ASSUME OInv, [ONext]_ovars
  PROVE  [Next]_vars
<1> USE DEF OInv
<1>1. ASSUME NEW c \in Commands, Ask(c) PROVE Next
  <2>1. Placed(c) /\ at[c] = "ready" /\ Arrive(c, line[c].asks[asked[c] + 1])
    BY <1>1 DEF Ask
  <2>2. Asking(c)
    BY <2>1 DEF Placed
  <2>3. line[c].asks[asked[c] + 1] \in Requests
    BY <2>2, AsksType DEF Asking
  <2> QED
    BY <2>1, <2>3, ObkAssumption DEF Next
<1>2. ASSUME NEW c \in Commands, Process(c), ~Ask(c)
      PROVE  Deliver(c) \/ Cancel(c) \/ UNCHANGED vars
  BY <1>2 DEF Process, Continue, PrintAnswer, FallThrough, GiveUp, RunGh, Exchange
<1>3. \A c \in Commands : c \in Tasks
  BY ObkAssumption
<1>4. CASE Broker
  BY <1>4, ObkAssumption DEF Broker, Next
<1>5. \A c \in Commands, l \in Lines : Invoke(c, l) => UNCHANGED vars
  BY DEF Invoke
<1>6. \A c \in Commands, g \in Inputs : Credential(c, g) => UNCHANGED vars
  BY DEF Credential
<1>7. UNCHANGED ovars => UNCHANGED vars
  BY DEF ovars
<1>8. ASSUME NEW c \in Commands, Process(c) PROVE [Next]_vars
  <2>1. CASE Ask(c)
    BY <1>1, <2>1
  <2>2. CASE ~Ask(c)
    BY <1>2, <1>3, <1>8, <2>2 DEF Next
  <2> QED
    BY <2>1, <2>2
<1> QED
  BY <1>4, <1>5, <1>6, <1>7, <1>8 DEF ONext

\* A handler keeps its request until it is idle again.
Keeps(c) == step'[c] # "idle" => step[c] # "idle" /\ req'[c] = req[c]

LEMMA TaskKeeps ==
  ASSUME ProxyInv, NEW t \in Tasks, NEW c \in Tasks,
         Handle(t) \/ Github(t) \/ Deliver(t) \/ Cancel(t)
  PROVE  Keeps(c)
<1> USE DEF ProxyInv, TypeOK, Keeps
<1>1. CASE Deliver(t) \/ Cancel(t)
  BY <1>1 DEF Deliver, Cancel, Leave
<1>2. CASE Github(t)
  BY <1>2 DEF Github, GithubReads, GithubExecutes
<1>3. CASE Resolved(t)
  BY <1>3 DEF Resolved
<1>4. CASE LookAgain(t)
  <2>1. step[t] = "wait"
    BY <1>4 DEF LookAgain
  <2> QED
    BY <1>4, <2>1 DEF LookAgain, RawHit, RawLead, Reply, Go
<1>5. ASSUME NEW a, Finish(t, a), step[t] = "sent" PROVE Keeps(c)
  <2>1. Served(t) \subseteq Tasks /\ \A u \in Served(t) : step[u] # "idle"
    BY <1>5 DEF Served
  <2> QED
    BY <1>5, <2>1 DEF Finish
<1> QED
  BY <1>1, <1>2, <1>3, <1>4, <1>5 DEF Handle, Body, Fails

LEMMA ArriveKeeps ==
  ASSUME ProxyInv, NEW t \in Tasks, NEW r, Arrive(t, r)
  PROVE  /\ req'[t] = r
         /\ \A c \in Tasks : c # t => Keeps(c)
<1> USE DEF ProxyInv, TypeOK, Keeps
<1>1. ASSUME NEW i, NEW a, Reply(t, r, i, a)
      PROVE  req'[t] = r /\ \A c \in Tasks : c # t => Keeps(c)
  BY <1>1 DEF Reply
<1>2. ASSUME NEW i, NEW next, Go(t, r, i, next)
      PROVE  req'[t] = r /\ \A c \in Tasks : c # t => Keeps(c)
  BY <1>2 DEF Go
<1> QED
  BY <1>1, <1>2 DEF Arrive, Refuse, Hit, Mutate, Miss, RawHit, RawLead, RawWait

LEMMA WorldKeeps ==
  ASSUME ProxyInv, World, NEW c \in Tasks
  PROVE  Keeps(c)
BY DEF World, GithubChanges, Tick, Evict, Restart, task, Keeps, ProxyInv, TypeOK

\* A command that a step does not advance.
LEMMA CommandKept ==
  ASSUME OInv, ProxyInv', Grows, NEW c \in Commands,
         line'[c] = line[c], at'[c] = at[c], asked'[c] = asked[c],
         out'[c] = out[c], Keeps(c)
  PROVE  Placed(c)' /\ Printed(c)'
<1>1. Placed(c) /\ Printed(c)
  BY DEF OInv
<1>2. Placed(c)'
  BY <1>1 DEF Placed, Asking, Keeps
<1>3. Printed(c)'
  <2> SUFFICES ASSUME at[c] = "done"
               PROVE  \E o : /\ out[c] = <<o>>
                             /\ line[c].kind = "credential" =>
                                  (o = Output("decline") <=> ~line[c].recognised)
                             /\ o.by = "octobroker"
                                  /\ line[c].kind \in {"parsed", "diff"} =>
                                  /\ Final(line[c]) \in Requests
                                  /\ Genuine(o, Final(line[c]))'
    BY DEF Printed, Final, Output
  <2>1. PICK o : /\ out[c] = <<o>>
                 /\ line[c].kind = "credential" =>
                      (o = Output("decline") <=> ~line[c].recognised)
                 /\ o.by = "octobroker" /\ line[c].kind \in {"parsed", "diff"} =>
                      /\ Final(line[c]) \in Requests
                      /\ Genuine(o, Final(line[c]))
    BY <1>1 DEF Printed
  <2>2. TypeOK /\ TypeOK'
    BY DEF OInv, ProxyInv
  <2>3. PICK f : f = Final(line[c])
    OBVIOUS
  <2>4. f \in Requests /\ Genuine(o, f) => Genuine(o, f)'
    BY <2>2, SoundKept DEF Genuine, Sound
  <2> QED
    BY <2>1, <2>3, <2>4
<1> QED
  BY <1>2, <1>3

\* Where a command goes that prints nothing.
LEMMA MoveStep ==
  ASSUME OInv, NEW c \in Commands, Placed(c),
         \/ Invoke(c, line'[c]) /\ line'[c] \in Lines
         \/ Ask(c) \/ Continue(c) \/ FallThrough(c) \/ GiveUp(c)
  PROVE  /\ Placed(c)' /\ at'[c] # "done"
         /\ line' \in [Commands -> Lines \cup {CredentialLine(g) : g \in Inputs}
                                     \cup {NoLine}]
         /\ DOMAIN at' = Commands /\ DOMAIN asked' = Commands
         /\ DOMAIN out' = Commands
         /\ \A d \in Commands : d # c =>
              /\ line'[d] = line[d] /\ at'[d] = at[d] /\ asked'[d] = asked[d]
              /\ out'[d] = out[d]
<1>1. c \in Tasks /\ ProxyInv
  BY ObkAssumption DEF OInv
<1>2. CASE Invoke(c, line'[c]) /\ line'[c] \in Lines
  <2>1. PICK l \in Lines : l = line'[c]
    BY <1>2
  <2>2. Invoke(c, l)
    BY <1>2, <2>1
  <2>3. l.kind # "direct" => Len(l.asks) \in Nat /\ 0 < Len(l.asks)
    BY ObkAssumption
  <2>4. /\ line' = [line EXCEPT ![c] = l] /\ asked' = asked /\ out' = out
        /\ at[c] = "new" /\ step' = step
        /\ at' = [at EXCEPT ![c] = IF l.kind = "direct" THEN "gh" ELSE "ready"]
    BY <2>2 DEF Invoke, To, vars, task
  <2> QED
    BY <2>1, <2>3, <2>4 DEF Placed, Asking, OInv
<1>3. CASE Ask(c)
  <2>1. req'[c] = line[c].asks[asked[c] + 1]
    BY <1>1, <1>3, ArriveKeeps DEF Ask
  <2>2. /\ at' = [at EXCEPT ![c] = "asking"] /\ at[c] = "ready"
        /\ UNCHANGED <<line, asked, out>>
    BY <1>3 DEF Ask, To
  <2> QED
    BY <2>1, <2>2 DEF Placed, Asking, OInv
<1>4. CASE Continue(c)
  <2>1. /\ at[c] = "asking" /\ asked[c] + 1 # Len(line[c].asks)
        /\ asked' = [asked EXCEPT ![c] = @ + 1]
        /\ at' = [at EXCEPT ![c] = "ready"]
        /\ UNCHANGED <<line, out>>
    BY <1>4 DEF Continue, Answered, Last, To
  <2>2. Asking(c) /\ Len(line[c].asks) \in Nat
    BY <2>1, ObkAssumption DEF Placed, Asking
  <2>3. Asking(c)'
    BY <2>1, <2>2 DEF Asking, OInv
  <2> QED
    BY <2>1, <2>3 DEF Placed, OInv
<1>5. CASE FallThrough(c) \/ GiveUp(c)
  <2>1. /\ at[c] \in {"ready", "asking"} /\ at' = [at EXCEPT ![c] = "gh"]
        /\ UNCHANGED <<line, asked, out>>
    BY <1>5 DEF FallThrough, GiveUp, Answered, To
  <2> QED
    BY <2>1 DEF Placed, Asking, OInv
<1> QED
  BY <1>2, <1>3, <1>4, <1>5

\* A command prints o and ends, or a credential request goes on to octobroker.
LEMMA EndStep ==
  ASSUME OInv, NEW c \in Commands, at[c] # "done", NEW o, NEW l,
         line'[c] = l, \A d \in Commands : d # c => line'[d] = line[d],
         l \in Lines \/ \E g \in Inputs : l = CredentialLine(g),
         UNCHANGED asked, Prints(c, o), To(c, "done"),
         l.kind = "credential" => (o = Output("decline") <=> ~l.recognised),
         o.by = "octobroker" /\ l.kind \in {"parsed", "diff"} =>
           Final(l) \in Requests /\ Genuine(o, Final(l))'
  PROVE  /\ Placed(c)' /\ Printed(c)'
         /\ DOMAIN at' = Commands /\ DOMAIN asked' = Commands
         /\ DOMAIN out' = Commands
         /\ \A d \in Commands : d # c =>
              /\ line'[d] = line[d] /\ at'[d] = at[d] /\ asked'[d] = asked[d]
              /\ out'[d] = out[d]
<1>1. out[c] = <<>>
  BY DEF OInv, Placed
<1>2. /\ at' = [at EXCEPT ![c] = "done"]
      /\ out' = [out EXCEPT ![c] = Append(@, o)]
  BY DEF To, Prints
<1>3. at'[c] = "done" /\ out'[c] = <<o>>
  BY <1>1, <1>2 DEF OInv
<1>4. Printed(c)'
  <2>1. Final(l)' = Final(l) /\ Output("decline")' = Output("decline")
    BY DEF Final, Output
  <2> QED
    BY <1>3, <2>1 DEF Printed, Genuine, Sound
<1>5. Placed(c)'
  BY <1>3 DEF Placed, CredentialLine, Recognised
<1> QED
  BY <1>2, <1>4, <1>5 DEF OInv

LEMMA ProcessStep ==
  ASSUME OInv, ProxyInv', Grows, NEW c \in Commands, Process(c)
  PROVE  /\ Placed(c)' /\ (at'[c] = "done" => Printed(c)')
         /\ line' \in [Commands -> Lines \cup {CredentialLine(g) : g \in Inputs}
                                     \cup {NoLine}]
         /\ DOMAIN at' = Commands /\ DOMAIN asked' = Commands
         /\ DOMAIN out' = Commands
         /\ \A d \in Commands : d # c =>
              /\ line'[d] = line[d] /\ at'[d] = at[d] /\ asked'[d] = asked[d]
              /\ out'[d] = out[d]
<1>1. c \in Tasks /\ ProxyInv /\ Placed(c)
  BY ObkAssumption DEF OInv
<1>2. CASE Ask(c) \/ Continue(c) \/ FallThrough(c) \/ GiveUp(c)
  BY <1>1, <1>2, MoveStep
<1>3. CASE PrintAnswer(c)
  <2>a. PICK l : l = line[c]
    OBVIOUS
  <2>b. PICK o : o = Pooled(req[c], answer[c])
    OBVIOUS
  <2>1. /\ Usable(l, answer[c]) /\ asked[c] + 1 = Len(l.asks)
        /\ at[c] = "asking" /\ step[c] = "answered"
        /\ line' = line /\ UNCHANGED asked /\ Prints(c, o) /\ To(c, "done")
        /\ version' = version
    BY <1>3, <2>a, <2>b DEF PrintAnswer, Answered, Last, Deliver
  <2>2. Asking(c) /\ req[c] = l.asks[asked[c] + 1]
    BY <1>1, <2>1, <2>a DEF Placed
  <2>3. /\ l \in Lines /\ req[c] = Final(l) /\ req[c] \in Requests
        /\ ~IsMutation(req[c])
    BY <2>1, <2>2, <2>a, AsksType DEF Asking, Final, IsMutation
  <2>4. Sane(c)
    BY <1>1 DEF ProxyInv
  <2>5. answer[c].status = "ok" => Genuine(o, Final(l))
    <3>1. o.from = req[c] /\ o.answer = answer[c]
      BY <2>b, OutputTypes
    <3> QED
      BY <2>1, <2>3, <2>4, <3>1 DEF Sane, Genuine
  <2>6. l.kind \in {"parsed", "diff"} => answer[c].status = "ok"
    BY <2>1 DEF Usable
  <2>7. l.kind # "credential"
    BY <2>3, LineTypes
  <2>8. l.kind \in {"parsed", "diff"} =>
          Final(l) \in Requests /\ Genuine(o, Final(l))'
    BY <2>1, <2>3, <2>5, <2>6 DEF Genuine, Sound
  <2>9. line'[c] = l
    BY <2>1, <2>a
  <2>10. line' \in [Commands -> Lines \cup {CredentialLine(g) : g \in Inputs}
                                  \cup {NoLine}]
         /\ \A d \in Commands : d # c => line'[d] = line[d]
    BY <2>1 DEF OInv
  <2> QED
    BY <2>1, <2>3, <2>7, <2>8, <2>9, <2>10, EndStep
<1>4. CASE RunGh(c)
  <2> DEFINE o == Output("gh")
  <2>1. /\ at[c] = "gh" /\ line' = line /\ UNCHANGED asked
        /\ Prints(c, o) /\ To(c, "done")
    BY <1>4 DEF RunGh
  <2>2. PICK l \in Lines : line'[c] = l /\ l.kind # "credential"
    BY <1>1, <2>1, LineTypes DEF Placed
  <2>3. o.by # "octobroker"
    BY OutputTypes
  <2>4. line' \in [Commands -> Lines \cup {CredentialLine(g) : g \in Inputs}
                                 \cup {NoLine}]
        /\ \A d \in Commands : d # c => line'[d] = line[d]
    BY <2>1 DEF OInv
  <2> HIDE DEF o
  <2> QED
    BY <2>1, <2>2, <2>3, <2>4, EndStep
<1>5. CASE Exchange(c)
  <2>1. PICK w \in {"token", "quit"} : Prints(c, Output(w))
    BY <1>5 DEF Exchange
  <2>2. at[c] = "exchange" /\ line' = line /\ UNCHANGED asked /\ To(c, "done")
    BY <1>5 DEF Exchange
  <2>3. PICK g \in Inputs : line[c] = CredentialLine(g) /\ Recognised(g)
    BY <1>1, <2>2 DEF Placed
  <2> DEFINE o == Output(w)
  <2>4. o # Output("decline") /\ o.by # "octobroker"
    BY <2>1, OutputTypes
  <2>5. line'[c] = CredentialLine(g)
    BY <2>2, <2>3
  <2>6. line'[c].recognised
    BY <2>3, <2>5, LineTypes
  <2>7. line' \in [Commands -> Lines \cup {CredentialLine(h) : h \in Inputs}
                                 \cup {NoLine}]
        /\ \A d \in Commands : d # c => line'[d] = line[d]
    BY <2>2 DEF OInv
  <2>8. Prints(c, o)
    BY <2>1
  <2> HIDE DEF o
  <2> QED
    BY <2>2, <2>4, <2>5, <2>6, <2>7, <2>8, EndStep
<1> QED
  BY <1>2, <1>3, <1>4, <1>5 DEF Process

LEMMA CredentialStep ==
  ASSUME OInv, NEW c \in Commands, NEW g \in Inputs, Credential(c, g)
  PROVE  /\ Placed(c)' /\ (at'[c] = "done" => Printed(c)')
         /\ line' \in [Commands -> Lines \cup {CredentialLine(h) : h \in Inputs}
                                     \cup {NoLine}]
         /\ DOMAIN at' = Commands /\ DOMAIN asked' = Commands
         /\ DOMAIN out' = Commands
         /\ \A d \in Commands : d # c =>
              /\ line'[d] = line[d] /\ at'[d] = at[d] /\ asked'[d] = asked[d]
              /\ out'[d] = out[d]
<1> DEFINE l == CredentialLine(g)
<1>1. /\ at[c] = "new" /\ line' = [line EXCEPT ![c] = l] /\ asked' = asked
      /\ Placed(c)
  BY DEF Credential, OInv
<1>2. line'[c] = l /\ (\A d \in Commands : d # c => line'[d] = line[d])
      /\ line' \in [Commands -> Lines \cup {CredentialLine(h) : h \in Inputs}
                                  \cup {NoLine}]
  BY <1>1 DEF OInv
<1>3. CASE CredentialPlan(g) = "fetch" /\ To(c, "exchange") /\ UNCHANGED out
  <2>1. Recognised(g)
    BY <1>3, DeclineOnlyForeign
  <2>2. at' = [at EXCEPT ![c] = "exchange"] /\ at'[c] = "exchange" /\ out' = out
    BY <1>3 DEF To, OInv
  <2>3. Placed(c)'
    BY <1>1, <1>2, <2>1, <2>2 DEF Placed, CredentialLine, Recognised
  <2> QED
    BY <1>1, <1>2, <2>2, <2>3 DEF OInv
<1>4. CASE /\ CredentialPlan(g) # "fetch"
           /\ Prints(c, Output(CredentialPlan(g))) /\ To(c, "done")
  <2> DEFINE o == Output(CredentialPlan(g))
  <2>1. CredentialPlan(g) \in {"decline", "quit"}
        /\ (CredentialPlan(g) = "decline" <=> ~Recognised(g))
    BY <1>4, DeclineOnlyForeign
  <2>2. o = Output("decline") <=> ~Recognised(g)
    BY <2>1, OutputTypes
  <2>3. o.by # "octobroker"
    BY <2>1, OutputTypes
  <2>4. l.recognised = Recognised(g)
    BY LineTypes
  <2>5. Prints(c, o) /\ To(c, "done")
    BY <1>4
  <2> HIDE DEF o
  <2> QED
    BY <1>1, <1>2, <2>2, <2>3, <2>4, <2>5, EndStep
<1> QED
  BY <1>3, <1>4 DEF Credential

-----------------------------------------------------------------------------
(* obk                                                                     *)

LEMMA ObkInit == OInit => OInv
<1> SUFFICES ASSUME OInit PROVE OInv
  OBVIOUS
<1>1. ProxyInv
  BY ProxyInit DEF OInit
<1>2. /\ line = [c \in Commands |-> NoLine] /\ at = [c \in Commands |-> "new"]
      /\ asked = [c \in Commands |-> 0] /\ out = [c \in Commands |-> <<>>]
  BY DEF OInit
<1>3. \A c \in Commands : Placed(c) /\ Printed(c)
  BY <1>2 DEF Placed, Printed
<1> QED
  BY <1>1, <1>2, <1>3 DEF OInv

\* A command is new, or a step of its own has made it what it is.
LEMMA CommandsStep ==
  ASSUME OInv, ProxyInv', Grows, [ONext]_ovars
  PROVE  /\ line' \in [Commands -> Lines \cup {CredentialLine(g) : g \in Inputs}
                                     \cup {NoLine}]
         /\ DOMAIN at' = Commands /\ DOMAIN asked' = Commands
         /\ DOMAIN out' = Commands
         /\ \A c \in Commands : Placed(c)' /\ Printed(c)'
<1>1. \A c \in Commands : c \in Tasks
  BY ObkAssumption
<1>2. ProxyInv /\ \A c \in Commands : Placed(c)
  BY DEF OInv
<1>3. CASE UNCHANGED obk /\ \A c \in Commands : Keeps(c)
  <2>1. \A c \in Commands : /\ line'[c] = line[c] /\ at'[c] = at[c]
                            /\ asked'[c] = asked[c] /\ out'[c] = out[c]
    BY <1>3 DEF obk
  <2> QED
    BY <1>3, <2>1, CommandKept DEF obk, OInv
<1>4. CASE Broker
  <2>1. UNCHANGED obk
    BY <1>4 DEF Broker
  <2>2. ASSUME NEW c \in Commands PROVE Keeps(c)
    <3>1. ASSUME NEW t \in Tasks,
                 Handle(t) \/ Github(t) \/ Deliver(t) \/ Cancel(t)
          PROVE  Keeps(c)
      BY <1>1, <1>2, <3>1, TaskKeeps
    <3>2. ASSUME NEW t \in Clients, NEW r \in Requests, Arrive(t, r)
          PROVE  Keeps(c)
      <4>1. t \in Tasks /\ t # c
        BY ObkAssumption
      <4> QED
        BY <1>1, <1>2, <3>2, <4>1, ArriveKeeps
    <3>3. World => Keeps(c)
      BY <1>1, <1>2, WorldKeeps
    <3>4. Clients \subseteq Tasks
      BY ObkAssumption
    <3> QED
      BY <1>4, <3>1, <3>2, <3>3, <3>4 DEF Broker
  <2> QED
    BY <1>3, <2>1, <2>2
<1>5. UNCHANGED vars => \A c \in Commands : Keeps(c)
  BY DEF vars, task, Keeps
<1>6. CASE UNCHANGED ovars
  BY <1>3, <1>5, <1>6 DEF ovars
<1>7. ASSUME NEW c \in Commands,
             /\ Placed(c)' /\ (at'[c] = "done" => Printed(c)')
             /\ line' \in [Commands -> Lines \cup {CredentialLine(g) : g \in Inputs}
                                         \cup {NoLine}]
             /\ DOMAIN at' = Commands /\ DOMAIN asked' = Commands
             /\ DOMAIN out' = Commands
             /\ \A d \in Commands : d # c =>
                  /\ line'[d] = line[d] /\ at'[d] = at[d]
                  /\ asked'[d] = asked[d] /\ out'[d] = out[d],
             \A d \in Commands : d # c => Keeps(d)
      PROVE  /\ line' \in [Commands -> Lines \cup {CredentialLine(g) : g \in Inputs}
                                         \cup {NoLine}]
             /\ DOMAIN at' = Commands /\ DOMAIN asked' = Commands
             /\ DOMAIN out' = Commands
             /\ \A d \in Commands : Placed(d)' /\ Printed(d)'
  <2>1. \A d \in Commands : d # c => Placed(d)' /\ Printed(d)'
    BY <1>7, CommandKept
  <2>2. at'[c] # "done" => Printed(c)'
    BY DEF Printed
  <2> QED
    BY <1>7, <2>1, <2>2
<1>8. ASSUME NEW c \in Commands, NEW l \in Lines, Invoke(c, l)
      PROVE  /\ Placed(c)' /\ at'[c] # "done"
             /\ line' \in [Commands -> Lines \cup {CredentialLine(g) : g \in Inputs}
                                         \cup {NoLine}]
             /\ DOMAIN at' = Commands /\ DOMAIN asked' = Commands
             /\ DOMAIN out' = Commands
             /\ \A d \in Commands : d # c =>
                  /\ line'[d] = line[d] /\ at'[d] = at[d]
                  /\ asked'[d] = asked[d] /\ out'[d] = out[d]
             /\ UNCHANGED vars
  <2>1. line'[c] = l /\ UNCHANGED vars
    BY <1>8 DEF Invoke, OInv
  <2> QED
    BY <1>2, <1>8, <2>1, MoveStep
<1>9. ASSUME NEW c \in Commands, NEW g \in Inputs, Credential(c, g)
      PROVE  UNCHANGED vars
  BY <1>9 DEF Credential
<1>10. ASSUME NEW c \in Commands, Process(c), NEW d \in Commands, d # c
       PROVE  Keeps(d)
  <2>1. CASE Ask(c)
    BY <1>1, <1>2, <1>10, <2>1, ArriveKeeps DEF Ask
  <2>2. CASE ~Ask(c)
    <3>1. Deliver(c) \/ Cancel(c) \/ UNCHANGED vars
      BY <1>10, <2>2 DEF Process, Continue, PrintAnswer, FallThrough, GiveUp, RunGh,
                         Exchange
    <3> QED
      BY <1>1, <1>2, <1>5, <3>1, TaskKeeps
  <2> QED
    BY <2>1, <2>2
<1>11. ASSUME NEW c \in Commands, Process(c)
       PROVE  \A d \in Commands : Placed(d)' /\ Printed(d)'
  BY <1>7, <1>10, <1>11, ProcessStep
<1>12. ASSUME NEW c \in Commands, NEW g \in Inputs, Credential(c, g)
       PROVE  \A d \in Commands : Placed(d)' /\ Printed(d)'
  BY <1>5, <1>7, <1>9, <1>12, CredentialStep
<1>13. ASSUME NEW c \in Commands, NEW l \in Lines, Invoke(c, l)
       PROVE  \A d \in Commands : Placed(d)' /\ Printed(d)'
  BY <1>5, <1>7, <1>8, <1>13
<1> QED
  BY <1>4, <1>6, <1>8, <1>11, <1>12, <1>13, ProcessStep, CredentialStep DEF ONext

LEMMA ObkInvStep == OInv /\ [ONext]_ovars => OInv' /\ [Next]_vars
<1> SUFFICES ASSUME OInv, [ONext]_ovars PROVE OInv' /\ [Next]_vars
  OBVIOUS
<1>1. [Next]_vars
  BY ObkStep
<1>2. ProxyInv' /\ Grows
  BY <1>1, ProxyStep, VersionGrows DEF OInv
<1> QED
  BY <1>1, <1>2, CommandsStep DEF OInv

LEMMA ObkAlways == OSpec => []OInv
BY ObkInit, ObkInvStep, PTL DEF OSpec

\* obk asks octobroker nothing that another client could not: with obk the
\* proxies take the steps of their own specification, so what holds of them
\* holds with obk too.
THEOREM ObkIsAClient == OSpec => Spec
<1>1. OInit => Init
  BY DEF OInit
<1> QED
  BY <1>1, ObkAlways, ObkInvStep, PTL DEF OSpec, Spec

\* main and try_pooled of obk: a command prints one answer, at its end, and
\* that is gh's or one GitHub gave as a success to the request made last.
THEOREM OneGenuineAnswerHolds == OSpec => []OneGenuineAnswer
<1>1. ASSUME OInv, NEW c \in Commands
      PROVE  Len(out[c]) = IF at[c] = "done" THEN 1 ELSE 0
  <2>1. CASE at[c] = "done"
    <3>1. PICK o : out[c] = <<o>>
      BY <1>1, <2>1 DEF OInv, Printed
    <3> QED
      BY <2>1, <3>1
  <2>2. CASE at[c] # "done"
    <3>1. out[c] = <<>>
      BY <1>1, <2>2 DEF OInv, Placed
    <3> QED
      BY <2>2, <3>1
  <2> QED
    BY <2>1, <2>2
<1>2. ASSUME OInv, NEW c \in Commands, NEW n \in 1..Len(out[c]),
             out[c][n].by = "octobroker", line[c].kind \in {"parsed", "diff"}
      PROVE  /\ out[c][n].from = Final(line[c])
             /\ out[c][n].answer.status = "ok"
             /\ out[c][n].answer.v <= version[out[c][n].from.path]
             /\ \E i \in Identities : out[c][n].from.path \in Access[i]
  <2>1. at[c] = "done"
    BY <1>2 DEF OInv, Placed
  <2>2. PICK o : out[c] = <<o>> /\ (o.by = "octobroker" => Genuine(o, Final(line[c])))
    BY <1>2, <2>1 DEF OInv, Printed
  <2>3. out[c][n] = o
    BY <2>2
  <2> QED
    BY <1>2, <2>2, <2>3 DEF Genuine, Sound
<1>3. OInv => OneGenuineAnswer
  BY <1>1, <1>2 DEF OneGenuineAnswer, Final
<1> QED
  BY <1>3, ObkAlways, PTL

\* credential_plan and fetch_git_credential: a request for a github.com
\* credential over https is never declined, and no other is kept.
THEOREM CredentialFailsClosedHolds == OSpec => []CredentialFailsClosed
<1>1. OInv => CredentialFailsClosed
  BY DEF OInv, Printed, CredentialFailsClosed
<1> QED
  BY <1>1, ObkAlways, PTL
-----------------------------------------------------------------------------
(* The safety half of EveryCommandEnds: a command cannot go on for ever.    *)

\* How many steps a command that has started may still take: two for each
\* request it has yet to make, and one to end with gh or with a token.
StepsLeft(c) ==
  IF at[c] \in {"ready", "asking"}
  THEN 2 * (Len(line[c].asks) - asked[c]) + (IF at[c] = "ready" THEN 2 ELSE 1)
  ELSE IF at[c] \in {"gh", "exchange"} THEN 1 ELSE 0

Started(c) == at[c] # "new"

LEMMA StepsLeftType ==
  ASSUME OInv, NEW c \in Commands
  PROVE  /\ StepsLeft(c) \in Nat
         /\ at[c] \in {"ready", "asking"} => StepsLeft(c) > 2
<1>1. Placed(c)
  BY DEF OInv
<1>2. CASE at[c] \in {"ready", "asking"}
  <2>1. line[c] \in Lines /\ asked[c] \in Nat /\ asked[c] < Len(line[c].asks)
    BY <1>1, <1>2 DEF Placed, Asking
  <2>2. Len(line[c].asks) \in Nat
    BY <2>1, AsksType
  <2>3. StepsLeft(c) = 2 * (Len(line[c].asks) - asked[c])
                         + (IF at[c] = "ready" THEN 2 ELSE 1)
    BY <1>2 DEF StepsLeft
  <2> QED
    BY <2>1, <2>2, <2>3
<1>3. CASE at[c] \notin {"ready", "asking"}
  BY <1>3 DEF StepsLeft
<1> QED
  BY <1>2, <1>3

\* Each step of a command's own leaves it fewer.
LEMMA ProcessSteps ==
  ASSUME OInv, NEW c \in Commands, Process(c)
  PROVE  /\ Started(c) /\ Started(c)'
         /\ StepsLeft(c)' < StepsLeft(c)
<1> USE DEF OInv
<1>1. at[c] \in {"ready", "asking"} => StepsLeft(c) > 2
  BY StepsLeftType
<1>2. CASE Ask(c)
  <2>1. /\ at[c] = "ready" /\ at'[c] = "asking"
        /\ line' = line /\ asked' = asked
    BY <1>2 DEF Ask, To
  <2>2. line[c] \in Lines /\ asked[c] \in Nat /\ asked[c] < Len(line[c].asks)
    BY <2>1 DEF Placed, Asking
  <2>3. Len(line[c].asks) \in Nat
    BY <2>2, AsksType
  <2> QED
    BY <2>1, <2>2, <2>3 DEF StepsLeft, Started
<1>3. CASE Continue(c)
  <2>1. /\ at[c] = "asking" /\ at'[c] = "ready"
        /\ line' = line /\ asked'[c] = asked[c] + 1
    BY <1>3 DEF Continue, Answered, To
  <2>2. line[c] \in Lines /\ asked[c] \in Nat /\ asked[c] < Len(line[c].asks)
    BY <2>1 DEF Placed, Asking
  <2>3. Len(line[c].asks) \in Nat
    BY <2>2, AsksType
  <2> QED
    BY <2>1, <2>2, <2>3 DEF StepsLeft, Started
<1>4. CASE PrintAnswer(c) \/ FallThrough(c) \/ GiveUp(c)
  <2>1. at[c] \in {"ready", "asking"} /\ at'[c] \in {"done", "gh"}
    BY <1>4 DEF PrintAnswer, FallThrough, GiveUp, Answered, To
  <2>2. StepsLeft(c)' \in {0, 1}
    BY <2>1 DEF StepsLeft
  <2> QED
    BY <1>1, <2>1, <2>2, StepsLeftType DEF Started
<1>5. CASE RunGh(c) \/ Exchange(c)
  <2>1. at[c] \in {"gh", "exchange"} /\ at'[c] = "done"
    BY <1>5 DEF RunGh, Exchange, To
  <2> QED
    BY <2>1 DEF StepsLeft, Started
<1> QED
  BY <1>2, <1>3, <1>4, <1>5 DEF Process

\* ... and no other step gives it more.
LEMMA OtherSteps ==
  ASSUME OInv, [ONext]_ovars, NEW c \in Commands, ~Process(c), Started(c)
  PROVE  StepsLeft(c)' = StepsLeft(c) /\ Started(c)'
<1> DEFINE Same == at'[c] = at[c] /\ line'[c] = line[c] /\ asked'[c] = asked[c]
<1>1. ASSUME NEW d \in Commands, NEW l \in Lines, Invoke(d, l) PROVE Same
  BY <1>1 DEF Invoke, To, OInv, Started
<1>2. ASSUME NEW d \in Commands, NEW g \in Inputs, Credential(d, g) PROVE Same
  BY <1>2 DEF Credential, To, OInv, Started
<1>3. ASSUME NEW d \in Commands, Process(d) PROVE Same
  <2>1. d # c
    BY <1>3
  <2>2. ASSUME Ask(d) \/ Continue(d) \/ FallThrough(d) \/ GiveUp(d) PROVE Same
    BY <2>1, <2>2 DEF Ask, Continue, FallThrough, GiveUp, To, OInv
  <2>3. ASSUME PrintAnswer(d) \/ RunGh(d) \/ Exchange(d) PROVE Same
    BY <2>1, <2>3 DEF PrintAnswer, RunGh, Exchange, To, OInv
  <2> QED
    BY <1>3, <2>2, <2>3 DEF Process
<1>4. ASSUME Broker \/ UNCHANGED ovars PROVE Same
  BY <1>4 DEF Broker, ovars, obk
<1>5. Same
  BY <1>1, <1>2, <1>3, <1>4 DEF ONext
<1> QED
  BY <1>5 DEF StepsLeft, Started

\* try_pooled, http_get and the fall-through to gh: nothing is retried, so a
\* command that has started has a number of steps left, each step of its own
\* takes one away, and neither octobroker, GitHub nor another client can add
\* to them, for command lines of any length.
THEOREM CommandsRunOut ==
  OSpec => [][\A c \in Commands :
                Started(c) => /\ StepsLeft(c)' \in Nat /\ Started(c)'
                              /\ StepsLeft(c)' <= StepsLeft(c)
                              /\ Process(c) => StepsLeft(c)' < StepsLeft(c)]_ovars
<1>1. OInv => \A c \in Commands : StepsLeft(c) \in Nat
  BY StepsLeftType
<1>2. ASSUME OInv, (\A c \in Commands : StepsLeft(c) \in Nat)', [ONext]_ovars,
             NEW c \in Commands, Started(c)
      PROVE  /\ StepsLeft(c)' \in Nat /\ Started(c)'
             /\ StepsLeft(c)' <= StepsLeft(c)
             /\ Process(c) => StepsLeft(c)' < StepsLeft(c)
  <2>1. StepsLeft(c) \in Nat /\ StepsLeft(c)' \in Nat
    BY <1>1, <1>2
  <2>2. CASE Process(c)
    <3>1. StepsLeft(c)' < StepsLeft(c) /\ Started(c)'
      BY <1>2, <2>2, ProcessSteps
    <3> QED
      BY <2>1, <3>1
  <2>3. CASE ~Process(c)
    <3>1. StepsLeft(c)' = StepsLeft(c) /\ Started(c)'
      BY <1>2, <2>3, OtherSteps
    <3> QED
      BY <2>1, <2>3, <3>1
  <2> QED
    BY <2>2, <2>3
<1>3. OInv /\ (\A c \in Commands : StepsLeft(c) \in Nat)' /\ [ONext]_ovars
        => [\A c \in Commands :
              Started(c) => /\ StepsLeft(c)' \in Nat /\ Started(c)'
                            /\ StepsLeft(c)' <= StepsLeft(c)
                            /\ Process(c) => StepsLeft(c)' < StepsLeft(c)]_ovars
  BY <1>2
<1> QED
  BY <1>1, <1>3, ObkAlways, PTL DEF OSpec
=============================================================================
