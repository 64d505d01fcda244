# Octobroker in TLA+

Octobroker is a broker between coding agents and GitHub. It holds the
credentials (a pool of personal access tokens, or GitHub Apps), decides what an
agent may do, forwards REST, GraphQL and MCP traffic, and keeps an audit log of
writes. `obk` is its client on the agents' side. This directory holds TLA+
models of both, the TLC configurations that check them on small instances, and
TLAPS proofs of the safety properties for every value of the constants.

## 1. Inventory of the system

The broker is one process, an axum server on tokio's multi-threaded executor.
Every request is an async task. Two tasks interleave at any point between two
locks, and a task whose client disconnects is dropped at whatever await point it
has reached. All state is in memory and is lost at a restart; only the audit
log survives.

| component (source) | state | operations | what makes it correct |
|---|---|---|---|
| App token provider (`src/app_token.rs`) | token cache, map of per-key mint locks, verified owner | `token_scoped`, `token_git`, `verify_owner`, mint, evict | one mint at a time per lock; waiters are served by their leader; an evicted lock never takes a newer one with it; a token only answers the scope it was minted for; calls end; the lock map is bounded |
| MCP write path (`src/mcp.rs`, `mcp_proxy` for `tools/call`) | in-flight table per agent | policy, credential, slot, request record, forward or local tool, result record | the table counts the handlers exactly; no write without a readable record; recorded outcomes are true; slots come back |
| Audit log (`src/audit.rs`) | an append-only file | append and fsync | what was appended successfully can be read |
| MCP sessions, one upstream (`src/mcp.rs`, `pick_credential`, pins) | session id -> (agent, credential) | look up, pin, terminate, expire, evict | an identity never changes within a session; no session serves another agent; a terminated session stays terminated |
| MCP sessions, several installations (`src/mcp.rs`, `multi_initialize`, `multi_fanout`) | one upstream session per owner under one pin | initialize with abort and clean-up, calls on a route, fan-out of DELETE and notifications | all or nothing; tokens are never mixed; what was opened is deleted; internal session ids stay inside |
| PAT pool (`src/pool.rs`) | remaining budget, reset, use count per identity | `select`, `update_rate` | picks the largest budget; does not believe an identity poorer than the limit it was told of |
| Git credentials (`src/git_credential.rs`) | none of its own; uses the provider, its verified owner, and the audit log | request record, `verify_owner`, `token_git`, result record | no token minted or handed out unaudited; the log says what a token was good for; the owner was verified recently |
| REST and GraphQL proxies, caches (`src/main.rs`, `src/cache.rs`) | JSON cache, raw cache with shared fetches, users of tokens | cache look-up, select, forward, insert; raw singleflight | no raw response crosses identities; concurrent misses share one fetch; what is shared was answered to the pool; recognised mutations run once, with the client's credential, uncached |
| Policy (`src/policy.rs`, parts of `src/mcp.rs`) | none | classify a tool, resolve and compare repositories, owners and scope of an allowlist | policy, routing and token scoping agree however names are spelt |
| Configuration (`src/config.rs`, startup in `src/main.rs`) | none | normalise, validate | writes only behind agents, an App and an audit log; every entry of an allowlist has an installation |
| `obk` (`obk/src/main.rs`) | none | pooled or direct execution of `gh` commands, git credential helper | exactly one answer; a pooled answer is genuine; a credential request never falls through to another helper; every command ends |

`mcp_proxy` consults the policy, asks the session table or the token provider or
the pool for a credential, takes a slot, writes the audit log and forwards; the
response updates the pool and the session table on its way back. The REST
proxies select from the pool and fill the caches. `obk` is a client of those
proxies and of the git credential endpoint. What is hard: the interleaving of
tasks between these steps, responses that arrive late or never, dropped
handlers, expiring tokens, appends that fail, restarts, and the several ways in
which one name can be spelt. `PROJECT.json` lists each such hazard with its line
and the properties that would notice it going wrong.

## 2. Modules

In the order of their importance:

| module | of what | builds on | abstract specification |
|---|---|---|---|
| `TokenRequests`, `TokenSingleflight` | token cache and mint locks | - | implements `TokenService` |
| `AuditLog` | append-only file | - | - |
| `McpWrites` | write path of `mcp_proxy` | `AuditLog` | implements `WriteAhead`, unless an append is torn |
| `McpSessions` | pins of sessions with one upstream | - | implements `SessionTable`, unless a response echoes its session |
| `MultiSessions` | sessions over several installations | - | implements `SessionTable` |
| `PatPool` | budgets of pooled tokens | - | - |
| `GitCredential` | `/git-credential` | `AuditLog`, `TokenRequests`, `TokenService` | its token steps implement `TokenService` |
| `RestProxy` | REST, GraphQL and raw proxies with their caches | - | - |
| `Obk` | `obk`, composed with the proxies | `RestProxy` | implements `RestProxy` (it is one of its clients) |
| `Policy` | names, allowlists, scopes | - | - |
| `Admission` | configuration, policy, routing, scoping, sessions and local tools put together | `Policy` | - |

Each has an `MC...` module with the values of its constants for TLC, and the
theorems are in `..._proofs`. What could come next: `Admission` with requests
that interleave (its requests are single steps); an abstract statement of
`AuditLog` from which the log lemmas of `McpWrites` and `GitCredential` would
both follow; `RestProxy` composed with `PatPool` so that throttling moves
requests between identities.

## 3. How the modules correspond to the code

An action is what a task does between two points where another task, or GitHub,
can come in between: an `.await`, or the release of a mutex. A request's
control state is `pc` or `step`. Actions that stand for the outside are called
`Handle`, `GithubActs`, `GithubAnswers`, `Rebind`, `Cancel`, `Crash`, `Restart`,
`Evict`, `Tick`, `Expire`. Wording, headers, JSON and logging are left out. A
comment beginning with "Mutant" marks a definition that is not part of the
model: it is a plausible bug that some property must notice.

**TokenRequests** holds what can be asked (`token_scoped`, `token_git`), the
cache key, and what a token minted for it is good for. The key names the
purpose and the repositories but not the permissions, as in `token_for`.

**TokenSingleflight** is `token_for`: a look at the cache (`CacheHit`,
`CacheMiss`), the lock map (`TakeLock`), `lock().await` with the second look
(`AcquireHit`, `AcquireMiss`), `mint` (`MintOk`, `MintFailed`), `StoreToken`,
and the eviction with the unlock (`EvictAndUnlock`). Locks are `Arc`s, so the
model has identities (`Gens`) which are free again when nothing refers to them;
`Arc::ptr_eq` is their equality. Time is kept as remaining lifetimes; `Tick`
ages all tokens. `Cancel` drops a handler at one of its two awaits: the mutex
guard unlocks, nothing evicts. `minter` and `abandoned` (the keys whose lock
entry a dropped handler left behind) are history variables.
**TokenService** is the same promise without locks. Its `Restart` (the cache is
gone and every call is over) is there for its user `GitCredential`; the provider
itself never takes that step.

**AuditLog** keeps which records can be parsed and whether the file ends inside
a line. `Persist` is an `append` that returns `Ok`, `PersistFails` one that
returns `Err`: nothing written, everything written but the fsync failed, or
(`"torn"`) part of a line. `AuditFaults` says which of these may happen.

**McpWrites** is the handler of a `tools/call`: `Start`/`Deny` (policy and
configuration), the credential, `AcquireSlot`/`NoSlot` (`InFlightGuard`),
`RecordRequest`, `Send`, `ResponseBegins`, `BodyComplete`/`BodyBroken`
(buffering of the response), the `Local...` actions (tools octobroker implements
itself) and `RecordResult`. Every way out goes through `End`, the guard's
`Drop`. `effect` is what GitHub has done.
**WriteAhead** is what somebody who reads the log may rely on: a request record
first, one sending, at most one result, and a result no more definite than what
is known. `own` are the calls of octobroker's own tools, which report an error
where the forwarding path reports "undeterminable".

**McpSessions** is `pick_credential` and the end of `mcp_proxy` for sessions
with one upstream. The look at the pin and its insertion (`CheckPin`,
`InsertPin`) are two steps because both await a concurrent cache. GitHub opens
sessions and never forgets them. `announced`, `gone`, `deleted` and `ended` are
history variables. Its last section maps its sessions to `SessionTable`: a
session is live while its pin is there and its credential valid, over when it
was pinned once. `Echoes` is a response that names the session of its request
again, on which the code pins it anew; `NoEcho` says that GitHub sends none.

**MultiSessions** is the same for agents whose repositories span several
installations. `Initialize` starts `multi_initialize`; for each owner in order,
`Mint` gets a token, then GitHub opens a session and answers (`OpenNamed`,
`OpenUnnamed`), or opens one and its answer is lost (`OpenLost`), or nothing
comes of it (`Fail`); the body of a secondary is read and parsed (`BodyOk`,
`BodyBad`), the primary's is not. `PinRoutes` pins all routes at once; `AbortOne`
and `AbortDone` are the clean-up. `Pick`, `PickTerminates` and `Stateless` are
the three outcomes of `pick_credential` that matter; `FanOut`, `FanOne`,
`Notified` and `Deleted` are `multi_fanout`. `Leave` hands the answer over. Only
`Initializers` run initialize and only `MaxTokens` tokens are minted per owner:
bounds for TLC. `once` (ids that were ever pinned) and `owed` (sessions a task
knows of and has not tried to delete) are history variables.
**SessionTable** is what a client may rely on: a session is opened once, for one
agent, accepts requests while it is live, and never comes back.

**PatPool** is `select`, `get` and `update_rate` against a GitHub that counts
on its own, with responses that come back in any order. GitHub keeps several
limits per identity (`Resources`: REST, search, GraphQL), each with a quota and
a window, and answers with those of the limit a request counted against; the
code writes all of them into the one record of the identity. `about`, a history
variable, says which limit the record is of, and `shun` for how long a 429 told
us to leave the identity alone. `reset_at > now` is kept as seconds still to go.
A response has both rate headers or neither, because GitHub sends them together.
`MaxCount` bounds how often an identity is selected in a behaviour.

**GitCredential** is the whole handler of `/git-credential` for one owner:
`Start` (authentication, charset, allowlist, route), `RecordRequest`,
`verify_owner` (`VerifyCached`, or `VerifyMiss`, `VerifyAsk`, `GithubAnswers`,
`VerifyOk`/`VerifyFails`), `AskToken` and the steps of the provider, `Issue` or
`RecordFailure`. It does not look into the provider: it uses `TokenService`,
which `TokenSingleflight` is proved to implement. There is no await between the
result record and the answer, so `Issue` is one step. `strayed` is a history
variable: for how long the installation has not been the owner's. The
identities of installations and the steps of their discovery are left out.
`UsesTokenService` says that the handlers call the provider only as
`TokenService` lets its callers do.

**RestProxy** is `proxy`, `proxy_raw` and `graphql_proxy`. A request is given by
its route (`kind`), its path, how its document `begins` (which is all that
octobroker looks at, `IsMutation`) and what GitHub `runs` of it (`Changes`); the
two need not agree, since a comment or a fragment may come first and
`operationName` may pick another operation. Only a document that is recognised
travels with the client's credential and past the cache (`Cacheable`). An answer
is a success, an error status, or for GraphQL a body with errors under status
200, which `Body` caches like a success. A request
arrives (`Refuse`, `Hit`, `Miss`, `Mutate`, `RawHit`, `RawLead`, `RawWait`),
GitHub reads or executes (`GithubReads`, `GithubExecutes`) or somebody else
changes its contents (`GithubChanges`, up to the path's `MaxVersion`), and the response is
read and cached (`Body`) or is a failure (`Fails`). `flight` is moka's entry API:
who fetches a raw key. When the fetching task is dropped (`Cancel`), those that
wait for it look again (`LookAgain`). `Tick` ages the entries of both caches
(`Ttl`, `RawTtl`), `Evict` drops one. Which identity `select()` prefers is
`PatPool`'s subject; here it may be any. `newest` (the newest contents ever
cached under a raw key) and `applied` are history variables.

**Obk** adds `obk` commands as clients of these proxies: `Invoke` parses the
command line (`try_pooled`), `Ask` sends a request, and its answer is printed
(`PrintAnswer`), leads to a further request (`Continue`), or is no use
(`FallThrough`); `GiveUp` is a broken connection or obk's own timeout, `RunGh`
executes the real `gh`. `Credential` and `Exchange` are `obk git-credential`,
`CredentialPlan` its decision. Every step of `Obk` is a step of `RestProxy` or
none of it: `OSpec => Spec` is proved.

**Policy** spells a name as what GitHub knows plus whether it has capitals and
whether it has spaces around it. `Lower` and `Trim` are conversions on that, so
that validation, policy, routing and scoping each normalise as their code does.
A name with a slash in it (`Nested`) and an entry without one (`NoSlash`) are
there because `split_once` treats them in its own way.

**Admission** takes a configuration file through `FromRaw` and `Accepts`
(`McpConfig::validate` and the checks of startup) and then lets clients
initialize sessions (`Initialize`) and call tools (`ToolsCall`: `Refuse`,
`Forward` or `RunLocal`). A request is one step here, because the steps between
its awaits are the subject of the modules above. `answer` is the last call and
what became of it. Left open, so that any choice is covered: which agent is
meant by a key that two of them have, which owner is first for a call without a
target, and which of GitHub's places a comment is in. Taken as given: the
installation configured for an owner is in that owner's account (the code
verifies this for git credentials only, see section 7).

## 4. Runs

| run | properties | instance | distinct states |
|---|---|---|---|
| `token_singleflight` | `TypeOK`, `OneMintPerGeneration`, `NoMintBesideLeadersToken`, `LocksAreInFlight`, `EvictionSparesMints`, `ImplementsTokenService` | 3 callers, 3 locks, 1 key, lifetimes 1 and 3, margin 2, disconnects | 31 000 |
| `token_fair` | `AnswersInScope`, `EveryCallEnds` | 2 callers, 3 locks, read-only and read-write git credentials of one repository, lifetime 1, margin 0, disconnects, fairness | 210 000 |
| `writes_guarded` | `SlotAccounting`, `AuditedBeforeForward`, `OutcomesTrue`, `EverySlotComesBack`, `ImplementsWriteAhead` | 2 calls, 2 agents, cap 1, a read, a write and a local tool, failing appends, disconnects, crashes, fairness | 14 000 |
| `writes_torn_audit` | `AuditedBeforeForward` is violated | with torn appends | |
| `writes_unrecorded` | `AnsweredWritesHaveResults` is violated | no faults of ours at all | |
| `sessions_pinned` | `SessionKeepsBinding`, `SessionIsPinned`, `EndedStaysEnded` | 2 agents, 2 credentials (1 expires), 2 sessions, 2 requests, evictions, restarts | 2 179 000 |
| `sessions_deleted` | `DeletedStaysDeleted` is violated | the same | |
| `multi_sessions` | `TypeOK`, `PinsAreWhole`, `NoMixedTokens`, `NoSessionLeftBehind`, `OnlyDownstreamIdsShown`, `ImplementsSessionTable` | 2 owners, an agent of both and one of the second, 2 upstream sessions, 2 tasks of which 1 initializes, 3 tokens that expire, disconnects, evictions, restarts | 690 000 |
| `pool_budget` | `ReportedLimitNotUndercut`, `SelectsMostBudget` | 2 identities with 2 limits each, 2 requests, quotas of 1, windows of 2 and 1, at most 1 selection of each (pinned requests are not counted) | 2 061 000 |
| `git_credentials` | `NoMintUnaudited`, `IssuedAsRecorded`, `OwnerVerifiedInTime` | 2 calls, 2 agents, 2 repositories, `VerifyTtl` 3, `Timeout` 2, failing records, disconnects, crashes | 180 000 |
| `rest_obk` | `TypeOK`, `OneFetchPerRawKey`, `RawAnswersOwnIdentity`, `RawReadsAreMonotonic`, `OnlyPooledAnswersCached`, `RecognisedMutationsPassThrough`, `OneGenuineAnswer`, `CredentialFailsClosed`, `EveryCommandEnds` | 1 command and 1 other client, 2 identities of which one may not read the pull request, JSON, its diff, a foreign path, a query, a mutation, and a change that does not begin with "mutation"; times to live of 1 tick, versions 0 and 1, fairness of obk | 414 000 |
| `admission` | `WritesAreGuarded`, `TokensFitAllowlist`, `CallsStayInAllowlist`, `AllowedCallsAreRouted` | allowlists of at most 2 of 10 entries, 9 backends, 4 sets of switches, 2 keys, 27 calls, 1 session | 65 000 |

Why the bounds suffice. Three callers of one key are a leader, a waiter and the
newcomer that finds the waiter's evicted lock; with two, the race that
`evict_mint_lock` guards against does not exist. Three locks let every caller
hold a lock of another generation. Different keys share only the cache, so
`token_fair` needs two callers. Two calls at a cap of one compete for the last
slot, refuse each other and wait for each other; agents have counts of their
own. Two requests and two sessions are enough for a response to be read after
its session was deleted, evicted or bound by somebody else. Two owners are a
primary and a secondary, so that an initialize can fail between them, and a
second task can call, notify or delete while the first opens another session; a third token lets one of an owner expire and be replaced while a
session is pinned with the old one. Two identities are enough to choose wrongly,
two requests to overtake each other, two limits to have the record of one
overwritten by the other, and a window of two seconds to have a
response arrive in its own window or the next. Two calls let one verify while
the other waits, or use what the first one stored at the end of its time. Two
clients of the proxies are one that fetches and one that waits or comes later;
two versions are enough for an answer to be out of date. Two entries of an
allowlist are enough to disagree with each other in owner, spelling or wildcard,
and every function of `Policy` looks at entries one or two at a time.

All safety properties of the passing runs are also proved for every value of the
constants, `TypeOK` included (where a run does not check it, the proof covers
it), so that only liveness rests on the bounds.

`CHECK_DEADLOCK` is never turned off. In `McpWrites` a finite number of calls
comes to its end: `Rest` is the stuttering step of a system in which all calls
are over. Symmetry is used in runs without liveness, over callers, locks,
calls, requests, session ids: nothing in the modules distinguishes them.

## 5. Fairness

`TokenSingleflight!Fairness`: weak fairness of each caller's own steps, because
the executor runs every ready task; weak fairness of the end of a mint, because
every request of a mint has `MINT_TIMEOUT`; strong fairness of acquiring a
lock, because tokio's mutex is first in, first out, so that a waiter cannot be
passed over for ever by others. No fairness of calling, cancelling or time.

`McpWrites!FairSpec`: weak fairness of the handler's steps, each of which is
either ready or an await with a timeout (`POST_TIMEOUT_SECS` covers the response
body too, the mint of a credential has its own). `BodyBroken` is what a timeout
looks like. GitHub's actions are not assumed to happen: `EverySlotComesBack`
holds although GitHub may never answer.

`Obk!FairOSpec`: weak fairness of the steps of each obk process only. It is a
program that runs, and its HTTP clients have timeouts (`GiveUp`, `Exchange`).
Neither octobroker nor GitHub is assumed to do anything, because octobroker's
own client of GitHub has no timeout.

## 6. Proofs

The modules `..._proofs` prove, for all values of the constants that satisfy
the modules' named assumptions (which TLC evaluates in the runs):

| theorem | argument |
|---|---|
| `TokenSingleflight`: `TypeCorrect` | with `CallInv`: a caller refers to a lock exactly while it waits or holds one |
| `OneMintPerGenerationHolds` | `LockInv`: who is under a lock is its `holder`; the property itself says nothing of `holder` and is not inductive |
| `NoMintBesideLeadersTokenHolds` | under `LockInv`, a token stored under one's own lock can only have come from a caller holding it at the same time |
| `EvictionSparesMintsHolds` | an action property from `LockInv` and the guard of `EvictMintLock` |
| `LocksAreInFlightHolds` | `RegisterInv`: a key's lock is referred to by callers of that key only, and the last one takes it along, unless it is dropped; the property exempts those `abandoned` keys |
| `AnswersInScopeHolds` | `ScopeInv`: each slot of the cache holds what was minted for a request with its key; `KeyDeterminesScope`: the purpose in the key determines the permissions that the key omits |
| `ImplementsTokenServiceHolds` | each step maps to a step of `TokenService` or a stutter; `StoringInv`: a token waiting to be stored is no longer valid than the mint said |
| `WaitersFollowMints` | the safety half of `EveryCallEnds`, from `HolderInv`: the holder of a lock is under it, and refers to it; so a caller that waits, waits for a mint and never for another that waits |
| `McpWrites`: `SlotAccountingHolds` | inductive with `TypeOK`; one lemma for `End` and one for `AcquireSlot`, with the facts about cardinalities |
| `AuditedBeforeForwardHolds` | assumes that no append is torn; `RequestOnRecord`: the record exists from the moment the handler goes past it |
| `OutcomesTrueHolds` | `OutcomeKnown`: what a handler is about to record is already true, and GitHub does not take it back |
| `WriteAheadImplemented` | assumes that no append is torn; each step of an audited write maps to one of `WriteAhead` or a stutter, with `RequestOnRecord` for the sending, `OutcomeKnown` for the result and `CallInv`: where a handler is tells which records its call has and whether it was sent |
| `ResultsRecordedUnlessSendFails` | assumes a log without faults and `NoSendFails`; `ResultDue`: once sent, a write has its result on record, or its handler still has it to write, or was dropped |
| `HandlersRunOut` | the safety half of `EverySlotComesBack`: `StepsLeft`, a function of where a handler is, decreases with each of its steps and grows with none |
| `McpSessions`: `SessionKeepsBindingHolds`, `SessionIsPinnedHolds`, `EndedStaysEndedHolds` | `SessionInv`, of five parts: pins are bindings of the opener; requests carry the binding of every session they name; what may still pin an ended session is expired; a stale request has seen that; what an answer names is pinned or gone |
| `TableImplementedWithoutEcho` | assumes `NoEcho`; `OnceInv`: the session a response names is new until its pin is inserted, no two responses name one, and what a request names has been pinned |
| `DeletedStaysDeletedWithoutEcho` | from the same invariant: what `sessions_deleted` shows to happen cannot happen in another way |
| `MultiSessions`: `PinsAreWholeHolds`, `NoMixedTokensHolds`, `NoSessionLeftBehindHolds`, `OnlyDownstreamIdsShownHolds` | `TypeInv` (types, and which locals a task has at which await) and `SessionInv`: what each task holds on its own is faithful to what GitHub opened (`Local`), pins are whole, and what was ever pinned is a primary's session. GitHub never assigns an id twice (`Fresh`), so that no task's locals can be spoilt by another |
| `TableImplemented` | each step of `MultiSessions` is a step of `SessionTable` under the mapping of its last section; a pin of several routes is never replaced, so no session comes back |
| `PatPool`: `SelectsMostBudgetHolds` | arithmetic of the score; counts are compared only within the weight of one unit of budget |
| `ReportedLimitNotUndercutHolds` | `BudgetInv`: a recorded budget, or one still on its way, is that of the current window of the limit it was reported for and not below what is left of it, or ends no later than GitHub asked us to pause |
| `GitCredential`: `NoMintUnauditedHolds` | assumes that no append is torn; `RequestOnRecord` |
| `IssuedAsRecordedHolds` | the same assumption; `IssueInv`: every stored token may answer the requests with its key (`GitKeys`: the key tells git requests apart), every answer is good for what its call wants, and a call that was given a token is over |
| `OwnerVerifiedInTimeHolds` | `VerifiedTrue`: a stored verification and an answer on its way are no more out of date than their age |
| `TokenServiceUsed` | each step of a handler, and a crash, maps to a step of `TokenService` or a stutter (`IdleIsOne`: a handler that asks is one the service takes for idle). With `ImplementsTokenServiceHolds` this closes the gap between the two modules |
| `Obk`: `OneFetchPerRawKeyHolds`, `RawAnswersOwnIdentityHolds`, `OnlyPooledAnswersCachedHolds`, `RecognisedMutationsPassThroughHolds` | `ProxyInv`, of the proxies alone: a raw key's fetch is a task at it, an answer on its way is one GitHub gave to that identity, and not older than what is cached if it is a raw one; a task that uses the client's credential carries a document that begins with "mutation" |
| `RawReadsAreMonotonicHolds` | an action property: by `ProxyInv` and `ReadsNewest`, what a task is given is what was cached last, and that is the newest ever |
| `CommandsRunOut` | the safety half of `EveryCommandEnds`: `StepsLeft`, from the length of the rest of the command line and the state of the request, decreases with each step of the command and grows with none |
| `ObkIsAClient` | `OSpec => Spec`: a step of obk is a step of a client of the proxies or none of theirs, so that the theorems about the proxies hold with obk too |
| `OneGenuineAnswerHolds`, `CredentialFailsClosedHolds` | `OInv`: a command prints only as it ends; while it asks, its task serves the request that is next on its line |
| `Admission`: `WritesAreGuardedHolds`, `TokensFitAllowlistHolds`, `CallsStayInAllowlistHolds`, `AllowedCallsAreRoutedHolds` | `AInv`: what octobroker runs with is validated; a session holds a route for each owner of its agent, or a single credential; a call that was sent passed policy and took the credential that serves its target. Then facts about names: for entries that validation accepts, `RouteOwners`, `RepoAllowed` and the scopes agree (`ValidEntry`, `AllowedOwner`, `RouteFits`, `SingleFits`) |
| `RunningConfigIsServed` | from `AInv`: whatever octobroker runs with satisfies what `McpWrites` assumes of switches (`ConfigAssumption`) and `MultiSessions` of owners (`AgentOwners`), so that these assumptions are discharged by validation |

each with its module's `TypeCorrect` where it has a type invariant.

Hypotheses. Seven theorems, those marked "assumes" or "same" above, need
something of the outside that the code cannot promise. Each is needed, because a
run shows what happens without it: appends that are not torn (`writes_torn_audit`), a `send()` that does not fail
(`writes_unrecorded`), responses that do not echo their session
(`sessions_deleted`). Seen together with its theorem, each violation is located:
the hypothesis names the only step that leads to it. The hypotheses exclude
nothing else: requests that fail in other ways, disconnecting clients, crashes
and restarts are all still there.

Only model-checked are the three liveness properties `EveryCallEnds`,
`EverySlotComesBack` and `EveryCommandEnds` (liveness under fairness is out of
the prover's reach) and the three violations, which are counterexamples. What
can be proved of the three is their safety half, in `WaitersFollowMints`,
`HandlersRunOut` and `CommandsRunOut`: that nobody waits for somebody who waits,
and that what is left to do never grows, for any number of callers, calls or
lines. What remains to the runs is that the steps that are left are taken. The
fidelity of the models to the code is a matter of review: `PROJECT.json` maps
every definition to its lines.

## 7. What the checks found

Violated statements of the documentation or of comments:

- `writes_torn_audit`: after an append that stopped inside a line, the next
  append reports success for a record nobody can parse, and its write is
  forwarded, against "a write whose audit record cannot be persisted must not
  happen" (`mcp.rs:349-350`).
- `writes_unrecorded`: a forwarded write whose `send()` fails leaves no result
  record, against "two fsync'd JSONL records per write" (`README.md:375`). With
  a log that works, this is the only way (`ResultsRecordedUnlessSendFails`).
- `sessions_deleted`: a response that names its session and is read after the
  `DELETE` was answered pins the session again, against the pin cache as the
  "sole session authority" (`DESIGN.md:75`). Without such an echo it cannot
  happen (`DeletedStaysDeletedWithoutEcho`), and `MultiSessions` does not have
  it at all: there only initialize pins.

Observations without a run of their own, most of them met while stating a
property precisely enough to hold:

- A handler dropped while it waits or mints leaves its entry in `mint_locks`,
  which "is bounded by in-flight mints" (`app_token.rs:57-61`).
  `LocksAreInFlight` says what is true: in flight, or abandoned.
- Two mints of one key may overlap: a waiter of an evicted lock whose leader
  failed and the holder of the next lock. The comment at `app_token.rs:201-206`
  concedes this, so the property is stated per generation.
- A mutation of a local tool whose response is lost is recorded as an error
  (`mcp.rs:861`) though GitHub may have done it; `DESIGN.md:120-122` has
  ambiguous outcomes recorded as undeterminable. `OutcomesTrue` is about
  recorded failures of forwarded calls for this reason.
- An initialize whose handler is dropped, or whose answer from GitHub is lost,
  leaves upstream sessions open; `NoSessionLeftBehind` is about the sessions a
  task that answers knows of. The primary's JSON-RPC error inside a 200 is
  pinned unread (`mcp.rs:1606`); `PinsAreWhole` requires usable secondaries.
  Notifications and `DELETE` are sent on expired tokens too.
- The key of the JSON cache has no identity: an answer one identity may read is
  served whichever identity the request would have used, and of two misses of
  one key the older answer may be stored last. `RawAnswersOwnIdentity` and
  `RawReadsAreMonotonic` hold of the raw cache only. The time to live of a kind of
  path is computed and not used (`cache.rs:99-102`).
- GraphQL reports denied, missing and rate-limited reads with status 200 and a
  body with `errors`. `graphql_proxy` caches every 2xx body (`main.rs:397-410`)
  under a key without an identity, so such a failure is served again, to others
  too, for a time to live. `OnlyPooledAnswersCached` says what is true: errors
  are cached under GraphQL keys only, never an error status, and what is cached
  was answered to an identity of the pool.
- Whether a document is a mutation is decided by how its text begins
  (`main.rs:345-346`, and the picture at `README.md:245`). One behind a comment
  or a fragment, or picked by `operationName`, is taken for a query: it runs with
  a pooled PAT and its answer is cached, against "Proxies GraphQL mutations with
  passthrough auth (client's own token, no caching)" (`README.md:85`). Hence
  `RecognisedMutationsPassThrough`; the instance has such a document (and
  `OnlyPooledAnswersCached` lets it be cached).
- A `RateState` is one budget per identity, while GitHub counts REST, search and
  GraphQL requests apart and each response reports the limit it counted against
  (`main.rs:221`, `295`, `394`; `pool.rs:71-80`). An identity out of one limit is
  passed over for requests that count against another, though its budget there
  may be full, until the window of the first ends; and one that last reported a
  full limit is preferred for requests against an empty one. `README.md:83`
  promises "the identity with the most remaining rate limit budget".
  `ReportedLimitNotUndercut` is therefore about the reported limit only.
- A plain `obk api` prints the empty body of a proxy error and exits 0.
  `OneGenuineAnswer` is about the other commands.
- `ZeroBudget` in `PatPool`: the response to an older request, read after a 429,
  overwrites the zeroed budget, and the throttled identity is selected again
  within its pause, though `mcp.rs:479-480` says the pool avoids it "until the
  reported (or default) reset".
- The tie-break of `select` is one of a thousand against a unit of budget: an
  identity selected a thousand times more than another loses to it although it
  has more budget left. `SelectsMostBudget` says so explicitly.
- `README.md:474-475` names agents without `repos` a configuration error with
  several installations; `validate` accepts them, on purpose by its comment
  (`config.rs:313-317`): they read with the pooled PATs.
- With a single App, an owner that an allowlist spells in two cases makes its
  token unscoped (`scope_envelope` compares exactly), and no entry is compared
  with the App's owner. `TokensFitAllowlist` is an equality for routed tokens
  only; policy still decides what may be called. That a configured installation
  belongs to the configured owner is verified for git credentials only.

## 8. What is not modelled

Bodies that `parse_frame` cannot read as one frame with a method, JSON-RPC
batches among them (`mcp.rs:106-116`, `2025-2042`): they have no tool and no
target for the code, and are forwarded without the tool policy, the in-flight
slot and the audit records that a `tools/call` has; a `tools/call` that names no
tool passes the policy in the same way (`mcp.rs:118`). `McpWrites` and `Admission`
are about single `tools/call` frames, and so are `AuditedBeforeForward`,
`SlotAccounting`, `OutcomesTrue`, `WritesAreGuarded` and
`CallsStayInAllowlist`: what they promise of a call they do not promise of such
a body.

Configuration: where the file is found, its syntax, environment overrides and
the resolution of secrets are I/O; `Admission` starts where the values are
known. Of MCP: the filtering of `tools/list` and the redaction of logged
arguments, which change no state; statistics and log labels, the users of tokens
included. JWT signing, HTTP and TLS are the outcomes of the requests they are
part of. Differences between lower-casing in ASCII and in Unicode are left out,
and the hash in the key of a GraphQL query is taken to have no collisions. The
throttling of identities does not move requests of `RestProxy`. Scripts, image
and documentation have no state of the running program. Integer widths do not
matter in what is modelled: counters are bounded far below their types by memory
and time.
