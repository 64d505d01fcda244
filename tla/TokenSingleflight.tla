-------------------------- MODULE TokenSingleflight --------------------------
(***************************************************************************)
(* AppTokenProvider (src/src/app_token.rs): a cache of GitHub App tokens   *)
(* in front of a slow, fallible mint, with one lock per cache key so that  *)
(* concurrent misses wait for the mint in flight.                          *)
(*                                                                         *)
(* A lock is an Arc<tokio::sync::Mutex>: Gens are the identities such an   *)
(* allocation can have, and an identity is free again once neither the     *)
(* mint_locks map nor any caller refers to it.  Arc::ptr_eq is equality of *)
(* identities.  A token is kept as what it is good for and how long it     *)
(* still lives, so "expires_at > now + MARGIN" is "life > Margin" and the  *)
(* clock is a step that ages every token.                                  *)
(***************************************************************************)
EXTENDS Naturals, TokenRequests

CONSTANTS Callers,      \* tasks handling a client's request
          Gens,         \* identities of lock allocations
          NoCaller, NoGen, NoRequest, NoScope,
          Lifetimes,    \* lifetimes a mint can answer with
          Margin        \* REFRESH_MARGIN

VARIABLES cached,       \* key -> token
          locks,        \* mint_locks: key -> lock, NoGen when absent
          holder,       \* lock -> the caller that has locked it
          pc,           \* caller -> the step of token_for it is at
          req,          \* caller -> what it asked for
          gen,          \* caller -> the lock its Arc clone points to
          token,        \* caller -> its minted token, then its answer
          minter,       \* history: key -> the lock its usable token was minted under
          abandoned     \* history: keys whose lock a dropped handler has used

vars == <<cached, locks, holder, pc, req, gen, token, minter, abandoned>>

-----------------------------------------------------------------------------
Token == [scope : {NoScope} \cup {ScopeOf(r) : r \in Requests}, life : Nat]
NoToken == [scope |-> NoScope, life |-> 0]

ASSUME ConstantsAssumption ==
  /\ NoCaller \notin Callers
  /\ NoGen \notin Gens
  /\ NoRequest \notin Requests
  /\ \A r \in Requests : ScopeOf(r) # NoScope
  /\ Lifetimes \subseteq Nat
  /\ Margin \in Nat

Key(c) == CacheKey(req[c])

\* Mutant: >= for > in the margin comparison.
UsableAtMargin(t) == t.life >= Margin

Usable(t) == t.life > Margin

\* Mutant: the remaining lifetime is not floored at zero.
OlderUnfloored(t) == [t EXCEPT !.life = @ - 1]

Older(t) == [t EXCEPT !.life = IF @ > 0 THEN @ - 1 ELSE 0]

FreeGens == {g \in Gens : /\ \A k \in Keys : locks[k] # g
                          /\ \A c \in Callers : gen[c] # g}

-----------------------------------------------------------------------------
Init == /\ cached = [k \in Keys |-> NoToken]
        /\ locks = [k \in Keys |-> NoGen]
        /\ holder = [g \in Gens |-> NoCaller]
        /\ pc = [c \in Callers |-> "idle"]
        /\ req = [c \in Callers |-> NoRequest]
        /\ gen = [c \in Callers |-> NoGen]
        /\ token = [c \in Callers |-> NoToken]
        /\ minter = [k \in Keys |-> NoGen]
        /\ abandoned = {}

Call(c, r) ==
  /\ pc[c] = "idle"
  /\ pc' = [pc EXCEPT ![c] = "lookup"]
  /\ req' = [req EXCEPT ![c] = r]
  /\ UNCHANGED <<cached, locks, holder, gen, token, minter, abandoned>>

\* The unlocked look at the cache.
CacheHit(c) ==
  /\ pc[c] = "lookup"
  /\ Usable(cached[Key(c)])
  /\ token' = [token EXCEPT ![c] = cached[Key(c)]]
  /\ pc' = [pc EXCEPT ![c] = "hit"]
  /\ UNCHANGED <<cached, locks, holder, req, gen, minter, abandoned>>

CacheMiss(c) ==
  /\ pc[c] = "lookup"
  /\ ~Usable(cached[Key(c)])
  /\ pc' = [pc EXCEPT ![c] = "locking"]
  /\ UNCHANGED <<cached, locks, holder, req, gen, token, minter, abandoned>>

\* mint_locks.entry(key).or_insert_with(new mutex).clone().
TakeLock(c) ==
  /\ pc[c] = "locking"
  /\ \/ /\ locks[Key(c)] # NoGen
        /\ gen' = [gen EXCEPT ![c] = locks[Key(c)]]
        /\ UNCHANGED locks
     \/ /\ locks[Key(c)] = NoGen
        /\ \E g \in FreeGens : /\ gen' = [gen EXCEPT ![c] = g]
                               /\ locks' = [locks EXCEPT ![Key(c)] = g]
  /\ pc' = [pc EXCEPT ![c] = "waiting"]
  /\ UNCHANGED <<cached, holder, req, token, minter, abandoned>>

\* Mutant: no ptr_eq guard.
EvictAnyMintLock(c) == [locks EXCEPT ![Key(c)] = NoGen]

\* What evict_mint_lock leaves of the map: only the caller's own lock goes.
EvictMintLock(c) ==
  [locks EXCEPT ![Key(c)] = IF @ = gen[c] THEN NoGen ELSE @]

\* An entry that goes is no longer an abandoned one.
StillAbandoned(c) ==
  IF locks[Key(c)] = gen[c] THEN abandoned \ {Key(c)} ELSE abandoned

\* Mutant: the fulfilled waiter returns without evicting its own generation.
AcquireHitNoEvict(c) ==
  /\ pc[c] = "waiting"
  /\ holder[gen[c]] = NoCaller
  /\ Usable(cached[Key(c)])
  /\ token' = [token EXCEPT ![c] = cached[Key(c)]]
  /\ gen' = [gen EXCEPT ![c] = NoGen]
  /\ pc' = [pc EXCEPT ![c] = "hit"]
  /\ UNCHANGED <<cached, locks, holder, req, minter, abandoned>>

\* The lock is ours and the cache, looked at again, has what we need.  The
\* guard on cached lives to the end of the if-let, so the look, the eviction
\* and the answer are one step; returning unlocks.
AcquireHit(c) ==
  /\ pc[c] = "waiting"
  /\ holder[gen[c]] = NoCaller
  /\ Usable(cached[Key(c)])
  /\ token' = [token EXCEPT ![c] = cached[Key(c)]]
  /\ locks' = EvictMintLock(c)
  /\ gen' = [gen EXCEPT ![c] = NoGen]
  /\ pc' = [pc EXCEPT ![c] = "hit"]
  /\ abandoned' = StillAbandoned(c)
  /\ UNCHANGED <<cached, holder, req, minter>>

\* Mutant: the guard is dropped at once (let _ = key_lock.lock().await).
AcquireMissGuardDropped(c) ==
  /\ pc[c] = "waiting"
  /\ holder[gen[c]] = NoCaller
  /\ ~Usable(cached[Key(c)])
  /\ pc' = [pc EXCEPT ![c] = "minting"]
  /\ UNCHANGED <<cached, locks, holder, req, gen, token, minter, abandoned>>

\* Mutant: the cache is not looked at again under the lock.
AcquireMissNoRecheck(c) ==
  /\ pc[c] = "waiting"
  /\ holder[gen[c]] = NoCaller
  /\ holder' = [holder EXCEPT ![gen[c]] = c]
  /\ pc' = [pc EXCEPT ![c] = "minting"]
  /\ UNCHANGED <<cached, locks, req, gen, token, minter, abandoned>>

\* The lock is ours and nobody filled the cache: start the mint.
AcquireMiss(c) ==
  /\ pc[c] = "waiting"
  /\ holder[gen[c]] = NoCaller
  /\ ~Usable(cached[Key(c)])
  /\ holder' = [holder EXCEPT ![gen[c]] = c]
  /\ pc' = [pc EXCEPT ![c] = "minting"]
  /\ UNCHANGED <<cached, locks, req, gen, token, minter, abandoned>>

\* mint() returned a token: GitHub accepted the request.
MintOk(c) ==
  /\ pc[c] = "minting"
  /\ \E n \in Lifetimes :
       token' = [token EXCEPT ![c] = [scope |-> ScopeOf(req[c]), life |-> n]]
  /\ pc' = [pc EXCEPT ![c] = "storing"]
  /\ UNCHANGED <<cached, locks, holder, req, gen, minter, abandoned>>

\* mint() returned an error: signing, discovery, transport, status, parsing,
\* or one of its requests ran into MINT_TIMEOUT.
MintFailed(c) ==
  /\ pc[c] = "minting"
  /\ pc' = [pc EXCEPT ![c] = "evicting"]
  /\ UNCHANGED <<cached, locks, holder, req, gen, token, minter, abandoned>>

StoreToken(c) ==
  /\ pc[c] = "storing"
  /\ cached' = [cached EXCEPT ![Key(c)] = token[c]]
  /\ minter' = [minter EXCEPT ![Key(c)] = IF Usable(token[c]) THEN gen[c] ELSE NoGen]
  /\ pc' = [pc EXCEPT ![c] = "evicting"]
  /\ UNCHANGED <<locks, holder, req, gen, token, abandoned>>

\* Mutant: the lock stays locked after a failed mint.
EvictAndUnlockOnSuccess(c) ==
  /\ pc[c] = "evicting"
  /\ locks' = EvictMintLock(c)
  /\ holder' = IF token[c].scope = NoScope THEN holder
               ELSE [holder EXCEPT ![gen[c]] = NoCaller]
  /\ gen' = [gen EXCEPT ![c] = NoGen]
  /\ pc' = [pc EXCEPT ![c] = "done"]
  /\ abandoned' = StillAbandoned(c)
  /\ UNCHANGED <<cached, req, token, minter>>

\* Evict the lock whether the mint succeeded or not, then return, which
\* unlocks.  The two are one step: only a waiter on this very lock can see
\* it unlocked, and it acts after both.
EvictAndUnlock(c) ==
  /\ pc[c] = "evicting"
  /\ locks' = EvictMintLock(c)
  /\ holder' = [holder EXCEPT ![gen[c]] = NoCaller]
  /\ gen' = [gen EXCEPT ![c] = NoGen]
  /\ pc' = [pc EXCEPT ![c] = "done"]
  /\ abandoned' = StillAbandoned(c)
  /\ UNCHANGED <<cached, req, token, minter>>

\* The answer (token[c], NoToken for an error) is out; the task is done.
Answer(c) ==
  /\ pc[c] \in {"hit", "done"}
  /\ pc' = [pc EXCEPT ![c] = "idle"]
  /\ req' = [req EXCEPT ![c] = NoRequest]
  /\ token' = [token EXCEPT ![c] = NoToken]
  /\ UNCHANGED <<cached, locks, holder, gen, minter, abandoned>>

\* The client disconnects and the server drops the handler's future at one of
\* its two await points.  The mutex guard unlocks on drop; nothing evicts.
Cancel(c) ==
  /\ pc[c] \in {"waiting", "minting"}
  /\ holder' = [g \in Gens |-> IF holder[g] = c THEN NoCaller ELSE holder[g]]
  /\ pc' = [pc EXCEPT ![c] = "idle"]
  /\ req' = [req EXCEPT ![c] = NoRequest]
  /\ gen' = [gen EXCEPT ![c] = NoGen]
  /\ abandoned' = abandoned \cup {k \in {Key(c)} : locks[k] = gen[c]}
  /\ UNCHANGED <<cached, locks, token, minter>>

\* Time passes.
Tick ==
  /\ cached' = [k \in Keys |-> Older(cached[k])]
  /\ token' = [c \in Callers |-> Older(token[c])]
  /\ minter' = [k \in Keys |-> IF Usable(cached'[k]) THEN minter[k] ELSE NoGen]
  /\ UNCHANGED <<locks, holder, pc, req, gen, abandoned>>

-----------------------------------------------------------------------------
Acquire(c) == AcquireHit(c) \/ AcquireMiss(c)
SettleMint(c) == MintOk(c) \/ MintFailed(c)

CallerStep(c) ==
  \/ \E r \in Requests : Call(c, r)
  \/ CacheHit(c) \/ CacheMiss(c) \/ TakeLock(c)
  \/ AcquireHit(c) \/ AcquireMiss(c)
  \/ MintOk(c) \/ MintFailed(c) \/ StoreToken(c) \/ EvictAndUnlock(c)
  \/ Answer(c) \/ Cancel(c)

Next == (\E c \in Callers : CallerStep(c)) \/ Tick

Spec == Init /\ [][Next]_vars

\* The executor runs every ready task; MINT_TIMEOUT ends every mint; tokio's
\* mutex hands itself to its waiters first in, first out, so a waiter that is
\* again and again next in turn gets it.
Fairness ==
  \A c \in Callers :
    /\ WF_vars(CacheHit(c) \/ CacheMiss(c))
    /\ WF_vars(TakeLock(c))
    /\ SF_vars(Acquire(c))
    /\ WF_vars(SettleMint(c))
    /\ WF_vars(StoreToken(c))
    /\ WF_vars(EvictAndUnlock(c))

FairSpec == Spec /\ Fairness

-----------------------------------------------------------------------------
TypeOK ==
  /\ cached \in [Keys -> Token]
  /\ locks \in [Keys -> Gens \cup {NoGen}]
  /\ holder \in [Gens -> Callers \cup {NoCaller}]
  /\ pc \in [Callers -> {"idle", "lookup", "locking", "waiting", "minting",
                         "storing", "evicting", "hit", "done"}]
  /\ req \in [Callers -> Requests \cup {NoRequest}]
  /\ gen \in [Callers -> Gens \cup {NoGen}]
  /\ token \in [Callers -> Token]
  /\ minter \in [Keys -> Gens \cup {NoGen}]
  /\ abandoned \subseteq Keys

UnderLock(c) == pc[c] \in {"minting", "storing", "evicting"}

\* However generations are created, evicted and abandoned, no two callers are
\* between locking and unlocking the same mint lock: there is at most one mint
\* in flight per generation (evict_mint_lock's "bounded to one per evicted
\* generation").
OneMintPerGeneration ==
  \A c, d \in Callers :
    (UnderLock(c) /\ UnderLock(d) /\ gen[c] = gen[d]) => c = d

\* A caller never mints while the cache holds a usable token that was minted
\* under the very lock it waited on: waiters are fulfilled by their leader
\* (the re-check after lock().await).
NoMintBesideLeadersToken ==
  \A c \in Callers :
    pc[c] \in {"minting", "storing"} /\ Usable(cached[Key(c)])
      => minter[Key(c)] # gen[c]

\* Whatever ends up in a shared cache slot, a caller is only ever answered
\* with a token minted for exactly the repositories and permissions it asked
\* for: an MCP token, a read-only and a read-write git credential for the same
\* repository never stand in for one another.
AnswersInScope ==
  \A c \in Callers :
    pc[c] \in {"hit", "evicting", "done"} /\ token[c].scope # NoScope
      => token[c].scope = ScopeOf(req[c])

\* An entry leaves mint_locks only when no mint is in flight under it any
\* more: a stale waiter of an evicted generation never removes a newer one
\* (the ptr_eq guard of evict_mint_lock).
EvictionSparesMints ==
  [][\A k \in Keys : locks[k] # NoGen /\ locks'[k] # locks[k]
       => \A c \in Callers : gen'[c] = locks[k] => pc'[c] = "waiting"]_vars

\* Every entry of mint_locks belongs to a call in flight ("the map is bounded
\* by in-flight mints"), except those whose handler was dropped: failing mints,
\* waiters that find a token and stale generations leave nothing behind, and
\* the next call for its key takes an abandoned entry with it.
LocksAreInFlight ==
  \A k \in Keys : locks[k] # NoGen /\ k \notin abandoned
    => \E c \in Callers : gen[c] = locks[k]

\* Every call is answered or abandoned: no waiter queue stalls for ever behind
\* failing mints, cancelled leaders or evicted generations.
EveryCallEnds ==
  \A c \in Callers : pc[c] = "lookup" ~> pc[c] \in {"hit", "done", "idle"}

-----------------------------------------------------------------------------
(* The call as TokenService sees it: it has its answer from the moment its *)
(* token is stored or its mint has failed.                                 *)
CallOf(c) ==
  CASE pc[c] = "idle" -> [status |-> "idle"]
    [] pc[c] = "hit" -> [status |-> "stored", req |-> req[c], token |-> token[c]]
    [] pc[c] \in {"evicting", "done"} ->
         IF token[c].scope = NoScope
         THEN [status |-> "refused", req |-> req[c]]
         ELSE [status |-> "minted", req |-> req[c], token |-> token[c]]
    [] OTHER -> [status |-> "pending", req |-> req[c]]

Service == INSTANCE TokenService
             WITH KeyOf <- CacheKey, store <- cached,
                  call <- [c \in Callers |-> CallOf(c)]

\* The locks, generations and cancellations implement the lock-free promise of
\* TokenService: an answer comes from the caller's own cache slot while it was
\* usable, or from a mint made for this very call, or it is an error.
ImplementsTokenService == Service!SSpec
=============================================================================
