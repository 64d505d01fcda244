------------------------------ MODULE RestProxy ------------------------------
(***************************************************************************)
(* The REST and GraphQL proxies of octobroker (src/src/main.rs) and their  *)
(* two caches (src/src/cache.rs).  JSON answers are cached by path for     *)
(* every identity of the pool alike; raw answers (diffs) are cached by     *)
(* path and identity, and misses of one raw key share one fetch.  A GraphQL *)
(* document that begins with "mutation" travels with the client's own      *)
(* credential and is not cached; every other one is taken for a query,     *)
(* whatever GitHub makes of it, and goes through pool and cache.           *)
(*                                                                         *)
(* Each request is an async task; a client that disconnects drops its task *)
(* at an await, and with it the fetch it leads.  The HTTP client has no    *)
(* timeout of its own.  GitHub is a version number per path.               *)
(***************************************************************************)
EXTENDS Naturals

CONSTANTS Tasks,        \* connections of clients, one request at a time each
          Requests,     \* what may be asked: [kind, path, begins, runs]
          Identities,   \* the PAT pool
          Access,       \* identity -> paths GitHub lets it read
          Allowed,      \* paths of allowed_owners, or of no repository
          Ttl, RawTtl,  \* default_ttl_secs, raw_ttl_secs, in ticks
          MaxVersion,   \* bound: path -> its last version
          Own,          \* the client's own credential
          NoTask, NoRequest, NoAnswer, NoEntry

VARIABLES store,        \* the JSON cache: request -> entry
          raw_store,    \* the raw cache: <<path, identity>> -> entry
          flight,       \* moka's entry API: raw key -> the task that fetches it
          version,      \* GitHub: path -> version of its contents
          newest,       \* history: raw key -> newest version that was cached
          step,         \* task -> the await it is at
          req,          \* task -> its request
          identity,     \* task -> the credential it uses
          answer,       \* task -> GitHub's response, at the end the proxy's
          applied       \* history: task -> changes GitHub made for it

caches == <<store, raw_store, newest>>
task == <<step, req, identity, answer, applied>>
vars == <<caches, flight, version, task>>

-----------------------------------------------------------------------------
\* The routes: /api, /raw and /graphql.
Kinds == {"json", "raw", "graphql"}
Paths == {r.path : r \in Requests}
Keys == {r \in Requests : r.kind # "raw"}
RawKeys == {r.path : r \in Requests \ Keys} \X Identities

\* GraphQL reports most failures with status 200 and a body with errors.
Answer == [status : {"ok", "errors", "error"}, v : Nat]
Error == [status |-> "error", v |-> 0]
Errors == [status |-> "errors", v |-> 0]
Ok(n) == [status |-> "ok", v |-> n]
Entry == [answer : Answer, left : Nat \ {0}]

\* How a document's text begins says little of what GitHub runs of it: a comment
\* or a fragment may come first, and operationName picks one of its operations.
ASSUME RestProxyAssumption ==
  /\ \A r \in Requests :
       /\ DOMAIN r = {"kind", "path", "begins", "runs"}
       /\ r.kind \in Kinds
       /\ r.begins \in {"mutation", "other"} /\ r.runs \in {"read", "change"}
       /\ r.kind # "graphql" => r.begins = "other" /\ r.runs = "read"
  /\ Access \in [Identities -> SUBSET Paths]
  /\ {Ttl, RawTtl} \subseteq Nat \ {0}
  /\ MaxVersion \in [Paths -> Nat]
  /\ Own \notin Identities
  /\ NoTask \notin Tasks
  /\ NoRequest \notin Requests
  /\ NoAnswer \notin Answer
  /\ NoEntry \notin Entry

\* is_mutation: the text, trimmed, starts with "mutation".
IsMutation(r) == r.kind = "graphql" /\ r.begins = "mutation"

\* GitHub, asked to, would change something.
Changes(r) == r.runs = "change"

\* Mutant: the raw key has no identity scope.
PathKey(r, i) == <<r.path, CHOOSE j \in Identities : TRUE>>

\* build_raw_key: path (with its query and accept header) and identity.
RawKey(r, i) == <<r.path, i>>

\* Mutant: documents that begin with "mutation" go through the cache too.
CacheableAny(r) == r.kind # "raw"

\* What the JSON cache is asked for, and keeps.
Cacheable(r) == r.kind # "raw" /\ ~IsMutation(r)

\* is_allowed_path; /graphql has no path to look at.
IsAllowed(r) == r.kind \in {"json", "raw"} => r.path \in Allowed

-----------------------------------------------------------------------------
Init == /\ store = [k \in Keys |-> NoEntry]
        /\ raw_store = [k \in RawKeys |-> NoEntry]
        /\ flight = [k \in RawKeys |-> NoTask]
        /\ version = [p \in Paths |-> 0]
        /\ newest = [k \in RawKeys |-> 0]
        /\ step = [t \in Tasks |-> "idle"]
        /\ req = [t \in Tasks |-> NoRequest]
        /\ identity = [t \in Tasks |-> Own]
        /\ answer = [t \in Tasks |-> NoAnswer]
        /\ applied = [t \in Tasks |-> 0]

\* The handler of request r gets, with credential i, as far as await next.
Go(t, r, i, next) ==
  /\ step' = [step EXCEPT ![t] = next]
  /\ req' = [req EXCEPT ![t] = r]
  /\ identity' = [identity EXCEPT ![t] = i]
  /\ UNCHANGED <<answer, applied>>

\* ... or to its end.
Reply(t, r, i, a) ==
  /\ step' = [step EXCEPT ![t] = "answered"]
  /\ req' = [req EXCEPT ![t] = r]
  /\ identity' = [identity EXCEPT ![t] = i]
  /\ answer' = [answer EXCEPT ![t] = a]
  /\ UNCHANGED applied

-----------------------------------------------------------------------------
(* Arrivals.  Looking a key up ends with the first await on GitHub.        *)

\* 403 for the path, 503 for the pool, 400 for the body, or 401 for a mutation
\* without an Authorization header.
Refuse(t, r) ==
  /\ step[t] = "idle"
  /\ \/ ~IsAllowed(r)
     \/ /\ ~IsMutation(r) /\ Identities = {}
        /\ Cacheable(r) => store[r] = NoEntry
     \/ r.kind = "graphql"
  /\ Reply(t, r, Own, Error)
  /\ UNCHANGED <<caches, flight, version>>

Hit(t, r) ==
  /\ step[t] = "idle"
  /\ IsAllowed(r) /\ Cacheable(r)
  /\ store[r] # NoEntry
  /\ Reply(t, r, Own, store[r].answer)
  /\ UNCHANGED <<caches, flight, version>>

\* pool.select() finds an identity, and the request is sent with its token.
Miss(t, r, i) ==
  /\ step[t] = "idle"
  /\ IsAllowed(r) /\ r.kind # "raw" /\ ~IsMutation(r)
  /\ store[r] = NoEntry
  /\ i \in Identities
  /\ Go(t, r, i, "sent")
  /\ UNCHANGED <<caches, flight, version>>

\* On to resolve_token_user, which only finds a name for the log.
Mutate(t, r) ==
  /\ step[t] = "idle"
  /\ IsMutation(r)
  /\ Cacheable(r) => store[r] = NoEntry
  /\ Go(t, r, Own, "resolve")
  /\ UNCHANGED <<caches, flight, version>>

\* The user's name came from token_users, from GitHub, or is "unknown".
Resolved(t) ==
  /\ step[t] = "resolve"
  /\ step' = [step EXCEPT ![t] = "sent"]
  /\ UNCHANGED <<caches, flight, version, req, identity, answer,
                 applied>>

\* A raw request looks its key up: when it arrives, after it selected an
\* identity, and again when the fetch it waited for was dropped.
LooksUp(t, r, i) ==
  \/ /\ step[t] = "idle"
     /\ r.kind = "raw" /\ IsAllowed(r)
     /\ i \in Identities
  \/ /\ step[t] = "wait"
     /\ r = req[t] /\ i = identity[t]

RawHit(t, r, i) ==
  /\ LooksUp(t, r, i)
  /\ raw_store[RawKey(r, i)] # NoEntry
  /\ Reply(t, r, i, raw_store[RawKey(r, i)].answer)
  /\ UNCHANGED <<caches, flight, version>>

\* Mutant: a miss is fetched whoever else is fetching it.
RawLeadAlways(t, r, i) ==
  /\ LooksUp(t, r, i)
  /\ raw_store[RawKey(r, i)] = NoEntry
  /\ flight' = [flight EXCEPT ![RawKey(r, i)] = t]
  /\ Go(t, r, i, "sent")
  /\ UNCHANGED <<caches, version>>

\* A miss that nobody fetches: fetch it.
RawLead(t, r, i) ==
  /\ LooksUp(t, r, i)
  /\ raw_store[RawKey(r, i)] = NoEntry
  /\ flight[RawKey(r, i)] = NoTask
  /\ flight' = [flight EXCEPT ![RawKey(r, i)] = t]
  /\ Go(t, r, i, "sent")
  /\ UNCHANGED <<caches, version>>

\* A miss that another task fetches: wait for it.
RawWait(t, r, i) ==
  /\ step[t] = "idle" /\ LooksUp(t, r, i)
  /\ raw_store[RawKey(r, i)] = NoEntry
  /\ flight[RawKey(r, i)] # NoTask
  /\ Go(t, r, i, "wait")
  /\ UNCHANGED <<caches, flight, version>>

Arrive(t, r) ==
  \/ Refuse(t, r) \/ Hit(t, r) \/ Mutate(t, r)
  \/ \E i \in Identities : Miss(t, r, i) \/ RawHit(t, r, i)
                           \/ RawLead(t, r, i) \/ RawWait(t, r, i)

\* The waiter is woken up by a fetch that was dropped.
LookAgain(t) ==
  /\ step[t] = "wait"
  /\ RawHit(t, req[t], identity[t]) \/ RawLead(t, req[t], identity[t])

-----------------------------------------------------------------------------
(* GitHub *)

Pending(t) == step[t] = "sent" /\ answer[t] = NoAnswer

Responds(t, a) == answer' = [answer EXCEPT ![t] = a]

\* What a client can do with its own credential is its own affair.
May(i, p) == i # Own => p \in Access[i]

\* Refused, not found, rate limited or broken: an error status, or for GraphQL
\* a body that says so.
Failures(r) == {Error} \cup (IF r.kind = "graphql" THEN {Errors} ELSE {})

\* A credential gets what it may read, or one of the failures.
GithubReads(t) ==
  /\ Pending(t) /\ ~Changes(req[t])
  /\ \/ /\ May(identity[t], req[t].path)
        /\ Responds(t, Ok(version[req[t].path]))
     \/ \E f \in Failures(req[t]) : Responds(t, f)
  /\ UNCHANGED <<caches, flight, version, step, req, identity,
                 applied>>

\* A change takes place or not, whichever credential came with it; and of one
\* that took place the answer may still be a failure.
GithubExecutes(t) ==
  /\ Pending(t) /\ Changes(req[t])
  /\ \/ /\ May(identity[t], req[t].path)
        /\ version[req[t].path] < MaxVersion[req[t].path]
        /\ version' = [version EXCEPT ![req[t].path] = @ + 1]
        /\ applied' = [applied EXCEPT ![t] = @ + 1]
        /\ \E a \in {Ok(version'[req[t].path])} \cup Failures(req[t]) :
             Responds(t, a)
     \/ /\ \E f \in Failures(req[t]) : Responds(t, f)
        /\ UNCHANGED <<version, applied>>
  /\ UNCHANGED <<caches, flight, step, req, identity>>

\* Somebody changes what is at a path.
GithubChanges(p) ==
  /\ version[p] < MaxVersion[p]
  /\ version' = [version EXCEPT ![p] = @ + 1]
  /\ UNCHANGED <<caches, flight, task>>

-----------------------------------------------------------------------------
(* Responses.  pool.update_rate, which a response to a token of the pool    *)
(* starts with, changes what select() prefers: here any identity may be     *)
(* selected, whatever its budget.                                           *)

\* The tasks that a fetch by t answers: t and those that wait for it.
Served(t) ==
  {t} \cup {u \in Tasks : /\ step[u] = "wait" /\ req[t].kind = "raw"
                          /\ RawKey(req[u], identity[u])
                               = RawKey(req[t], identity[t])}

\* Mutant: a dropped fetch keeps its place in the map.
LandNever(t) == UNCHANGED flight

\* t fetches no more.
Land(t) ==
  flight' = [k \in RawKeys |-> IF flight[k] = t THEN NoTask ELSE flight[k]]

\* All of them get the outcome, an error like a success.
Finish(t, a) ==
  /\ step' = [u \in Tasks |-> IF u \in Served(t) THEN "answered" ELSE step[u]]
  /\ answer' = [u \in Tasks |-> IF u \in Served(t) THEN a ELSE answer[u]]
  /\ Land(t)
  /\ UNCHANGED <<version, req, identity, applied>>

Max(m, n) == IF m > n THEN m ELSE n

Fill(r, i, a) ==
  \/ /\ r.kind = "raw"
     /\ raw_store' = [raw_store EXCEPT ![RawKey(r, i)] =
                        [answer |-> a, left |-> RawTtl]]
     /\ newest' = [newest EXCEPT ![RawKey(r, i)] = Max(@, a.v)]
     /\ UNCHANGED store
  \/ /\ Cacheable(r)
     /\ store' = [store EXCEPT ![r] = [answer |-> a, left |-> Ttl]]
     /\ UNCHANGED <<raw_store, newest>>
  \/ r.kind # "raw" /\ ~Cacheable(r) /\ UNCHANGED caches

\* Mutant: the body is cached before the status is looked at.
BodyEarly(t) ==
  /\ step[t] = "sent" /\ answer[t] # NoAnswer
  /\ Fill(req[t], identity[t], answer[t])
  /\ Finish(t, answer[t])

\* The whole body: what came with a 2xx status is cached and answered, a body
\* with errors like any other; an error status is only answered.
Body(t) ==
  /\ step[t] = "sent" /\ answer[t] # NoAnswer
  /\ IF answer[t].status # "error"
     THEN Fill(req[t], identity[t], answer[t])
     ELSE UNCHANGED caches
  /\ Finish(t, answer[t])

\* 502: send() fails, the body breaks off, or it is no JSON.
Fails(t) ==
  /\ step[t] = "sent"
  /\ Finish(t, Error)
  /\ UNCHANGED caches

-----------------------------------------------------------------------------
Leave(t) ==
  /\ step' = [step EXCEPT ![t] = "idle"]
  /\ req' = [req EXCEPT ![t] = NoRequest]
  /\ identity' = [identity EXCEPT ![t] = Own]
  /\ answer' = [answer EXCEPT ![t] = NoAnswer]
  /\ applied' = [applied EXCEPT ![t] = 0]

Deliver(t) ==
  /\ step[t] = "answered"
  /\ Leave(t)
  /\ UNCHANGED <<caches, flight, version>>

\* The client disconnects: its task is dropped, and its fetch too.
Cancel(t) ==
  /\ step[t] # "idle"
  /\ Leave(t)
  /\ Land(t)
  /\ UNCHANGED <<caches, version>>

\* Mutant: an entry is kept for one tick more than its time to live.
AgeLate(entry) ==
  IF entry = NoEntry \/ entry.left = 0 THEN NoEntry
  ELSE [entry EXCEPT !.left = @ - 1]

Age(entry) ==
  IF entry = NoEntry \/ entry.left = 1 THEN NoEntry
  ELSE [entry EXCEPT !.left = @ - 1]

\* Time passes for the entries of both caches.
Tick ==
  /\ store' = [k \in Keys |-> Age(store[k])]
  /\ raw_store' = [k \in RawKeys |-> Age(raw_store[k])]
  /\ UNCHANGED <<newest, flight, version, task>>

\* An entry has to make room.
Evict ==
  /\ \/ /\ \E k \in Keys : /\ store[k] # NoEntry
                            /\ store' = [store EXCEPT ![k] = NoEntry]
        /\ UNCHANGED raw_store
     \/ /\ \E k \in RawKeys : /\ raw_store[k] # NoEntry
                               /\ raw_store' = [raw_store EXCEPT ![k] = NoEntry]
        /\ UNCHANGED store
  /\ UNCHANGED <<newest, flight, version, task>>

\* octobroker is started again.
Restart ==
  /\ store' = [k \in Keys |-> NoEntry]
  /\ raw_store' = [k \in RawKeys |-> NoEntry]
  /\ flight' = [k \in RawKeys |-> NoTask]
  /\ step' = [t \in Tasks |-> "idle"]
  /\ req' = [t \in Tasks |-> NoRequest]
  /\ identity' = [t \in Tasks |-> Own]
  /\ answer' = [t \in Tasks |-> NoAnswer]
  /\ applied' = [t \in Tasks |-> 0]
  /\ UNCHANGED <<newest, version>>

-----------------------------------------------------------------------------
\* What a handler does by itself, and what GitHub does for it.
Handle(t) == Resolved(t) \/ LookAgain(t) \/ Body(t) \/ Fails(t)

Github(t) == GithubReads(t) \/ GithubExecutes(t)

World == \/ \E p \in Paths : GithubChanges(p)
         \/ Tick \/ Evict \/ Restart

Next == \/ \E t \in Tasks : \/ \E r \in Requests : Arrive(t, r)
                            \/ Handle(t) \/ Github(t)
                            \/ Deliver(t) \/ Cancel(t)
        \/ World

Spec == Init /\ [][Next]_vars

-----------------------------------------------------------------------------
TypeOK ==
  /\ store \in [Keys -> Entry \cup {NoEntry}]
  /\ raw_store \in [RawKeys -> Entry \cup {NoEntry}]
  /\ flight \in [RawKeys -> Tasks \cup {NoTask}]
  /\ version \in [Paths -> Nat]
  /\ newest \in [RawKeys -> Nat]
  /\ step \in [Tasks -> {"idle", "resolve", "wait", "sent", "answered"}]
  /\ req \in [Tasks -> Requests \cup {NoRequest}]
  /\ identity \in [Tasks -> Identities \cup {Own}]
  /\ answer \in [Tasks -> Answer \cup {NoAnswer}]
  /\ applied \in [Tasks -> Nat]

\* The raw key a task fetches.
Fetches(t, k) ==
  /\ step[t] = "sent"
  /\ req[t].kind = "raw"
  /\ k = RawKey(req[t], identity[t])

\* Misses of one raw key share one fetch, and whoever waits for a fetch waits
\* for a task that is alive and at it, however fetches fail and are dropped
\* ("N simultaneous cache misses only trigger one upstream request").
OneFetchPerRawKey ==
  \A t \in Tasks, k \in RawKeys : flight[k] = t <=> Fetches(t, k)

\* "A response fetched with a broadly-scoped PAT must never be served to a
\* caller whose own PAT would have been denied access": a raw success is one
\* that the request's own identity can read, also out of the cache, and also
\* when another task fetched it.
RawAnswersOwnIdentity ==
  \A t \in Tasks :
    step[t] = "answered" /\ req[t].kind = "raw" /\ answer[t].status = "ok"
      => req[t].path \in Access[identity[t]]

\* Whoever asks for a diff, with one identity, never gets older contents than
\* anybody got before him: each raw success is, when it is given, the newest
\* that there has been under its key, out of the cache, by a fetch of one's own
\* or of another task, across disconnects, expiry and restarts.  (JSON can go
\* back: two misses are two fetches, and the older may end last.)
RawReadsAreMonotonic ==
  [][/\ \A k \in RawKeys : newest[k] <= newest'[k]
     /\ \A t \in Tasks :
          /\ step[t] # "answered" /\ step'[t] = "answered"
          /\ req'[t].kind = "raw" /\ answer'[t].status = "ok"
          => answer'[t].v = newest'[RawKey(req'[t], identity'[t])]]_vars

\* The JSON cache, which all identities share, holds answers of GitHub to the
\* pool and of nobody else: nothing a client's own credential obtained, nothing
\* under a document that begins with "mutation", no error status, and of what
\* it holds as a success some identity of the pool may read that version.  A raw
\* entry is a success of its key's own identity.  Failures that GraphQL reports
\* with status 200 are cached like successes, and served to requests that would
\* have used another identity; this is why GraphQL keys, and they alone, may
\* hold errors.
OnlyPooledAnswersCached ==
  LET Genuine(a, p, ids) == /\ a.status = "ok"
                            /\ a.v <= version[p]
                            /\ \E i \in ids : p \in Access[i]
  IN  /\ \A k \in Keys : store[k] # NoEntry =>
           /\ ~IsMutation(k)
           /\ \/ Genuine(store[k].answer, k.path, Identities)
              \/ store[k].answer = Errors /\ k.kind = "graphql"
      /\ \A k \in RawKeys : raw_store[k] # NoEntry =>
           Genuine(raw_store[k].answer, k[1], {k[2]})

\* A change whose document begins with "mutation" is answered with success only
\* if GitHub made it for this very request, once, never out of the cache; a pool
\* identity is never used for such a document, nor the client's credential for
\* any other, and what GitHub merely reads is not executed.  A change behind a
\* comment, a fragment or operationName runs on an identity of the pool, and its
\* answer may come from the cache: of those the program promises nothing.
RecognisedMutationsPassThrough ==
  \A t \in Tasks :
    /\ applied[t] <= 1
    /\ applied[t] = 1 => /\ Changes(req[t])
                         /\ identity[t] = Own <=> IsMutation(req[t])
    /\ step[t] = "answered" /\ answer[t].status = "ok"
         /\ IsMutation(req[t]) /\ Changes(req[t]) => applied[t] = 1
=============================================================================
