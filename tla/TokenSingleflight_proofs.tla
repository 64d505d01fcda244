----------------------- MODULE TokenSingleflight_proofs -----------------------
(***************************************************************************)
(* Proofs that the safety properties of TokenSingleflight hold for any     *)
(* sets of callers, lock identities and requests, any lifetimes and any    *)
(* refresh margin.                                                         *)
(***************************************************************************)
EXTENDS TokenSingleflight, TLAPS

-----------------------------------------------------------------------------
(* Facts about the operators.                                              *)

\* Ageing a token keeps what it may do, and only ever makes it unusable.
LEMMA OlderToken ==
  ASSUME NEW t \in Token
  PROVE  /\ Older(t) \in Token
         /\ Older(t).scope = t.scope
         /\ Older(t).life <= t.life
         /\ Usable(Older(t)) => Usable(t)
BY ConstantsAssumption DEF Token, Older, Usable

LEMMA NoTokenType == NoToken \in Token /\ NoToken.scope = NoScope
BY DEF Token, NoToken

\* A token minted for a request is a token.
LEMMA MintedToken ==
  ASSUME NEW r \in Requests, NEW n \in Lifetimes
  PROVE  [scope |-> ScopeOf(r), life |-> n] \in Token
BY ConstantsAssumption DEF Token

\* The key of a request is one of the keys.
LEMMA KeyInKeys == \A r \in Requests : CacheKey(r) \in Keys
BY DEF Keys

-----------------------------------------------------------------------------
(* Every caller past its idle state has a request, and refers to a lock    *)
(* exactly while it waits for one or holds one.                            *)
CallInv ==
  \A c \in Callers :
    /\ pc[c] # "idle" => req[c] \in Requests
    /\ pc[c] \in {"waiting", "minting", "storing", "evicting"} <=> gen[c] \in Gens

\* The state of token_for is well typed and consistent with its program point.
LEMMA TypeStep == TypeOK /\ CallInv /\ [Next]_vars => TypeOK' /\ CallInv'
<1> SUFFICES ASSUME TypeOK, CallInv, [Next]_vars
             PROVE  TypeOK' /\ CallInv'
  OBVIOUS
<1> USE ConstantsAssumption, KeyInKeys DEF TypeOK, CallInv, Key
<1>1. ASSUME NEW c \in Callers, NEW r \in Requests, Call(c, r)
      PROVE  TypeOK' /\ CallInv'
  BY <1>1 DEF Call
<1>2. ASSUME NEW c \in Callers, CacheHit(c)
      PROVE  TypeOK' /\ CallInv'
  BY <1>2 DEF CacheHit
<1>3. ASSUME NEW c \in Callers, CacheMiss(c)
      PROVE  TypeOK' /\ CallInv'
  BY <1>3 DEF CacheMiss
<1>4. ASSUME NEW c \in Callers, TakeLock(c)
      PROVE  TypeOK' /\ CallInv'
  <2>1. CASE locks[Key(c)] # NoGen
    BY <1>4, <2>1 DEF TakeLock
  <2>2. CASE locks[Key(c)] = NoGen
    <3>1. PICK g \in Gens : /\ gen' = [gen EXCEPT ![c] = g]
                            /\ locks' = [locks EXCEPT ![Key(c)] = g]
      BY <1>4, <2>2 DEF TakeLock, FreeGens
    <3>2. QED
      BY <1>4, <3>1 DEF TakeLock
  <2>3. QED
    BY <2>1, <2>2
<1>5. ASSUME NEW c \in Callers, AcquireHit(c)
      PROVE  TypeOK' /\ CallInv'
  BY <1>5 DEF AcquireHit, EvictMintLock, StillAbandoned
<1>6. ASSUME NEW c \in Callers, AcquireMiss(c)
      PROVE  TypeOK' /\ CallInv'
  BY <1>6 DEF AcquireMiss
<1>7. ASSUME NEW c \in Callers, MintOk(c)
      PROVE  TypeOK' /\ CallInv'
  <2>1. PICK n \in Lifetimes :
          token' = [token EXCEPT ![c] = [scope |-> ScopeOf(req[c]), life |-> n]]
    BY <1>7 DEF MintOk
  <2>2. [scope |-> ScopeOf(req[c]), life |-> n] \in Token
    BY <1>7, MintedToken DEF MintOk
  <2>3. QED
    BY <1>7, <2>1, <2>2 DEF MintOk
<1>8. ASSUME NEW c \in Callers, MintFailed(c)
      PROVE  TypeOK' /\ CallInv'
  BY <1>8 DEF MintFailed
<1>9. ASSUME NEW c \in Callers, StoreToken(c)
      PROVE  TypeOK' /\ CallInv'
  BY <1>9 DEF StoreToken
<1>10. ASSUME NEW c \in Callers, EvictAndUnlock(c)
       PROVE  TypeOK' /\ CallInv'
  BY <1>10 DEF EvictAndUnlock, EvictMintLock, StillAbandoned
<1>11. ASSUME NEW c \in Callers, Answer(c)
       PROVE  TypeOK' /\ CallInv'
  BY <1>11, NoTokenType DEF Answer
<1>12. ASSUME NEW c \in Callers, Cancel(c)
       PROVE  TypeOK' /\ CallInv'
  BY <1>12 DEF Cancel
<1>13. ASSUME Tick
       PROVE  TypeOK' /\ CallInv'
  <2>1. cached' \in [Keys -> Token] /\ token' \in [Callers -> Token]
    BY <1>13, OlderToken DEF Tick
  <2>2. QED
    BY <1>13, <2>1 DEF Tick
<1>14. CASE UNCHANGED vars
  BY <1>14 DEF vars
<1>15. QED
  BY <1>1, <1>2, <1>3, <1>4, <1>5, <1>6, <1>7, <1>8, <1>9, <1>10, <1>11,
     <1>12, <1>13, <1>14 DEF Next, CallerStep

\* The type invariant of TokenSingleflight holds for every instance.
THEOREM TypeCorrect == Spec => [](TypeOK /\ CallInv)
<1>1. Init => TypeOK /\ CallInv
  BY ConstantsAssumption, NoTokenType DEF Init, TypeOK, CallInv
<1>2. QED
  BY <1>1, TypeStep, PTL DEF Spec

-----------------------------------------------------------------------------
(* A caller at work under a lock is the one that locked it.                *)
LockInv == \A c \in Callers : UnderLock(c) => holder[gen[c]] = c

\* Nothing but its holder's own steps unlocks a mint lock, and nobody passes
\* lock().await while it is locked.
LEMMA LockStep == TypeOK /\ CallInv /\ LockInv /\ [Next]_vars => LockInv'
<1> SUFFICES ASSUME TypeOK, CallInv, LockInv, [Next]_vars,
                    NEW d \in Callers, UnderLock(d)'
             PROVE  (holder[gen[d]] = d)'
  BY DEF LockInv
<1> USE ConstantsAssumption DEF TypeOK, CallInv, LockInv, UnderLock
<1>1. ASSUME NEW c \in Callers, NEW r \in Requests, Call(c, r)
      PROVE  (holder[gen[d]] = d)'
  BY <1>1 DEF Call
<1>2. ASSUME NEW c \in Callers, CacheHit(c) \/ CacheMiss(c)
      PROVE  (holder[gen[d]] = d)'
  BY <1>2 DEF CacheHit, CacheMiss
<1>3. ASSUME NEW c \in Callers, TakeLock(c)
      PROVE  (holder[gen[d]] = d)'
  BY <1>3 DEF TakeLock
<1>4. ASSUME NEW c \in Callers, AcquireHit(c)
      PROVE  (holder[gen[d]] = d)'
  BY <1>4 DEF AcquireHit
<1>5. ASSUME NEW c \in Callers, AcquireMiss(c)
      PROVE  (holder[gen[d]] = d)'
  BY <1>5 DEF AcquireMiss
<1>6. ASSUME NEW c \in Callers, MintOk(c) \/ MintFailed(c) \/ StoreToken(c)
      PROVE  (holder[gen[d]] = d)'
  BY <1>6 DEF MintOk, MintFailed, StoreToken
<1>7. ASSUME NEW c \in Callers, EvictAndUnlock(c)
      PROVE  (holder[gen[d]] = d)'
  BY <1>7 DEF EvictAndUnlock
<1>8. ASSUME NEW c \in Callers, Answer(c)
      PROVE  (holder[gen[d]] = d)'
  BY <1>8 DEF Answer
<1>9. ASSUME NEW c \in Callers, Cancel(c)
      PROVE  (holder[gen[d]] = d)'
  BY <1>9 DEF Cancel
<1>10. ASSUME Tick
       PROVE  (holder[gen[d]] = d)'
  BY <1>10 DEF Tick
<1>11. CASE UNCHANGED vars
  BY <1>11 DEF vars
<1>12. QED
  BY <1>1, <1>2, <1>3, <1>4, <1>5, <1>6, <1>7, <1>8, <1>9, <1>10, <1>11
  DEF Next, CallerStep

\* The holder of every lock is unique and at work under it.
THEOREM LockCorrect == Spec => []LockInv
<1>1. Init => LockInv
  BY DEF Init, LockInv, UnderLock
<1>2. QED
  BY <1>1, LockStep, TypeCorrect, PTL DEF Spec

\* Mutual exclusion of mints under one lock generation, however generations
\* are created, evicted and abandoned.
THEOREM OneMintPerGenerationHolds == Spec => []OneMintPerGeneration
<1>1. LockInv => OneMintPerGeneration
  BY DEF LockInv, OneMintPerGeneration
<1>2. QED
  BY <1>1, LockCorrect, PTL

\* The converse: no lock is left locked by a caller that is gone, or that has
\* gone on to another call.
HolderInv ==
  \A g \in Gens : holder[g] # NoCaller
    => UnderLock(holder[g]) /\ gen[holder[g]] = g

\* A lock is locked by who goes under it, and unlocked by who leaves it.
LEMMA HolderStep ==
  TypeOK /\ CallInv /\ LockInv /\ HolderInv /\ [Next]_vars => HolderInv'
<1> SUFFICES ASSUME TypeOK, CallInv, LockInv, HolderInv, [Next]_vars,
                    NEW g \in Gens, holder'[g] # NoCaller
             PROVE  (UnderLock(holder[g]) /\ gen[holder[g]] = g)'
  BY DEF HolderInv
<1> USE ConstantsAssumption DEF TypeOK, CallInv, LockInv, HolderInv, UnderLock
<1>1. ASSUME NEW c \in Callers,
             \/ \E r \in Requests : Call(c, r)
             \/ CacheHit(c) \/ CacheMiss(c) \/ TakeLock(c) \/ AcquireHit(c)
             \/ Answer(c)
      PROVE  (UnderLock(holder[g]) /\ gen[holder[g]] = g)'
  <2>1. /\ holder' = holder /\ ~UnderLock(c)
        /\ \A d \in Callers : d # c => pc'[d] = pc[d] /\ gen'[d] = gen[d]
    BY <1>1 DEF Call, CacheHit, CacheMiss, TakeLock, AcquireHit, Answer
  <2> QED
    BY <2>1
<1>2. ASSUME NEW c \in Callers, AcquireMiss(c)
      PROVE  (UnderLock(holder[g]) /\ gen[holder[g]] = g)'
  BY <1>2 DEF AcquireMiss
<1>3. ASSUME NEW c \in Callers, MintOk(c) \/ MintFailed(c) \/ StoreToken(c)
      PROVE  (UnderLock(holder[g]) /\ gen[holder[g]] = g)'
  BY <1>3 DEF MintOk, MintFailed, StoreToken
<1>4. ASSUME NEW c \in Callers, EvictAndUnlock(c)
      PROVE  (UnderLock(holder[g]) /\ gen[holder[g]] = g)'
  BY <1>4 DEF EvictAndUnlock
<1>5. ASSUME NEW c \in Callers, Cancel(c)
      PROVE  (UnderLock(holder[g]) /\ gen[holder[g]] = g)'
  BY <1>5 DEF Cancel
<1>6. CASE Tick \/ UNCHANGED vars
  BY <1>6 DEF Tick, vars
<1> QED
  BY <1>1, <1>2, <1>3, <1>4, <1>5, <1>6 DEF Next, CallerStep

\* The safety half of EveryCallEnds: who waits for a lock waits for nothing
\* that waits.  The lock is free, or a caller at a mint under that very lock
\* has it, although leaders fail, are dropped and locks are evicted: a chain
\* of waiters is one mint long, and MINT_TIMEOUT bounds a mint.
THEOREM WaitersFollowMints ==
  Spec => [](\A c \in Callers : pc[c] = "waiting" =>
               \/ holder[gen[c]] = NoCaller
               \/ \E d \in Callers : /\ holder[gen[c]] = d /\ gen[d] = gen[c]
                                     /\ UnderLock(d))
<1>1. Init => HolderInv
  BY DEF Init, HolderInv
<1>2. TypeOK /\ CallInv /\ HolderInv =>
        \A c \in Callers : pc[c] = "waiting" =>
          \/ holder[gen[c]] = NoCaller
          \/ \E d \in Callers : /\ holder[gen[c]] = d /\ gen[d] = gen[c]
                                /\ UnderLock(d)
  BY DEF TypeOK, CallInv, HolderInv
<1> QED
  BY <1>1, <1>2, HolderStep, TypeCorrect, LockCorrect, PTL DEF Spec

-----------------------------------------------------------------------------
\* While a caller mints, the token its own generation would have left in the
\* cache is not usable: ageing keeps it so, and only this caller could store a
\* new one under its lock.
LEMMA LeaderStep ==
  TypeOK /\ CallInv /\ LockInv /\ NoMintBesideLeadersToken /\ [Next]_vars
    => NoMintBesideLeadersToken'
<1> DEFINE Beside(d) == /\ pc[d] \in {"minting", "storing"}
                        /\ Usable(cached[Key(d)])
                        /\ minter[Key(d)] = gen[d]
<1> SUFFICES ASSUME TypeOK, CallInv, LockInv, NoMintBesideLeadersToken,
                    [Next]_vars, NEW d \in Callers, Beside(d)'
             PROVE  FALSE
  BY DEF NoMintBesideLeadersToken
<1>0. ~Beside(d)
  BY DEF NoMintBesideLeadersToken
<1> USE ConstantsAssumption, KeyInKeys DEF TypeOK, CallInv, Key
<1>1. ASSUME NEW c \in Callers, NEW r \in Requests, Call(c, r)
      PROVE  FALSE
  BY <1>0, <1>1 DEF Call
<1>2. ASSUME NEW c \in Callers, CacheHit(c) \/ CacheMiss(c)
      PROVE  FALSE
  BY <1>0, <1>2 DEF CacheHit, CacheMiss
<1>3. ASSUME NEW c \in Callers, TakeLock(c)
      PROVE  FALSE
  BY <1>0, <1>3 DEF TakeLock
<1>4. ASSUME NEW c \in Callers, AcquireHit(c)
      PROVE  FALSE
  BY <1>0, <1>4 DEF AcquireHit
<1>5. ASSUME NEW c \in Callers, AcquireMiss(c)
      PROVE  FALSE
  BY <1>0, <1>5 DEF AcquireMiss
<1>6. ASSUME NEW c \in Callers, MintOk(c) \/ MintFailed(c)
      PROVE  FALSE
  BY <1>0, <1>6 DEF MintOk, MintFailed
<1>7. ASSUME NEW c \in Callers, StoreToken(c)
      PROVE  FALSE
  <2>1. c # d /\ pc[d] \in {"minting", "storing"}
    BY <1>7 DEF StoreToken
  <2>2. gen[c] # gen[d]
    BY <1>7, <2>1 DEF StoreToken, LockInv, UnderLock
  <2>3. CASE Key(c) = Key(d)
    BY <1>7, <2>1, <2>2, <2>3 DEF StoreToken
  <2>4. CASE Key(c) # Key(d)
    BY <1>0, <1>7, <2>1, <2>4 DEF StoreToken
  <2>5. QED
    BY <2>3, <2>4
<1>8. ASSUME NEW c \in Callers, EvictAndUnlock(c) \/ Answer(c) \/ Cancel(c)
      PROVE  FALSE
  BY <1>0, <1>8 DEF EvictAndUnlock, Answer, Cancel
<1>9. ASSUME Tick
      PROVE  FALSE
  BY <1>0, <1>9, OlderToken DEF Tick
<1>10. CASE UNCHANGED vars
  BY <1>0, <1>10 DEF vars
<1>11. QED
  BY <1>1, <1>2, <1>3, <1>4, <1>5, <1>6, <1>7, <1>8, <1>9, <1>10
  DEF Next, CallerStep

\* Waiters are fulfilled by their leader: no caller mints while a usable token
\* minted under its own lock is in the cache.
THEOREM NoMintBesideLeadersTokenHolds == Spec => []NoMintBesideLeadersToken
<1>1. Init => NoMintBesideLeadersToken
  BY DEF Init, NoMintBesideLeadersToken
<1>2. QED
  BY <1>1, LeaderStep, TypeCorrect, LockCorrect, PTL DEF Spec

-----------------------------------------------------------------------------
\* An entry of mint_locks disappears only by its holder's eviction, when all
\* others that refer to the lock are still waiting for it.
LEMMA EvictionStep ==
  ASSUME TypeOK, CallInv, LockInv, [Next]_vars,
         NEW k \in Keys, locks[k] # NoGen, locks'[k] # locks[k],
         NEW d \in Callers, gen'[d] = locks[k]
  PROVE  pc'[d] = "waiting"
<1> USE ConstantsAssumption, KeyInKeys DEF TypeOK, CallInv, LockInv, UnderLock, Key
<1>1. ASSUME NEW c \in Callers, AcquireHit(c)
      PROVE  pc'[d] = "waiting"
  BY <1>1 DEF AcquireHit, EvictMintLock
<1>2. ASSUME NEW c \in Callers, EvictAndUnlock(c)
      PROVE  pc'[d] = "waiting"
  BY <1>2 DEF EvictAndUnlock, EvictMintLock
<1>3. ASSUME NEW c \in Callers, TakeLock(c)
      PROVE  pc'[d] = "waiting"
  BY <1>3 DEF TakeLock
<1>4. CASE UNCHANGED locks
  BY <1>4
<1>5. QED
  BY <1>1, <1>2, <1>3, <1>4
  DEF Next, CallerStep, vars, Call, CacheHit, CacheMiss, AcquireMiss, MintOk,
      MintFailed, StoreToken, Answer, Cancel, Tick

\* A stale waiter never evicts the lock of a mint in flight.
THEOREM EvictionSparesMintsHolds == Spec => EvictionSparesMints
<1>1. TypeOK /\ CallInv /\ LockInv /\ [Next]_vars
        => [\A k \in Keys : locks[k] # NoGen /\ locks'[k] # locks[k]
              => \A c \in Callers : gen'[c] = locks[k] => pc'[c] = "waiting"]_vars
  BY EvictionStep
<1>2. QED
  BY <1>1, TypeCorrect, LockCorrect, PTL DEF Spec, EvictionSparesMints

-----------------------------------------------------------------------------
(* What an entry of mint_locks and the callers that refer to it agree on.  *)
RegisterInv ==
  /\ LocksAreInFlight
  /\ \A c \in Callers, k \in Keys :
       gen[c] \in Gens /\ locks[k] = gen[c] => k = Key(c)
  /\ \A k1, k2 \in Keys : locks[k1] # NoGen /\ locks[k1] = locks[k2] => k1 = k2

\* The callers that refer to an entry outlive it unless they are dropped: the
\* last one to go takes it along, and a key's lock is nobody else's.
LEMMA RegisterStep ==
  ASSUME TypeOK, CallInv, RegisterInv, [Next]_vars
  PROVE  RegisterInv'
<1> USE ConstantsAssumption, KeyInKeys DEF TypeOK, CallInv, RegisterInv, LocksAreInFlight, Key
<1>1. ASSUME NEW c \in Callers, NEW r \in Requests, Call(c, r)
      PROVE  RegisterInv'
  BY <1>1 DEF Call
<1>2. ASSUME NEW c \in Callers, CacheHit(c) \/ CacheMiss(c)
      PROVE  RegisterInv'
  BY <1>2 DEF CacheHit, CacheMiss
<1>3. ASSUME NEW c \in Callers, TakeLock(c)
      PROVE  RegisterInv'
  <2>1. CASE locks[Key(c)] # NoGen
    <3>1. /\ gen' = [gen EXCEPT ![c] = locks[Key(c)]]
          /\ UNCHANGED <<locks, req, abandoned>>
          /\ gen[c] = NoGen
          /\ Key(c) \in Keys
      BY <1>3, <2>1 DEF TakeLock
    <3>2. LocksAreInFlight'
      <4> SUFFICES ASSUME NEW k \in Keys, locks[k] # NoGen, k \notin abandoned
                   PROVE  \E e \in Callers : gen'[e] = locks[k]
        BY <3>1
      <4>1. PICK e \in Callers : gen[e] = locks[k]
        OBVIOUS
      <4>2. QED
        BY <3>1, <4>1
    <3>3. QED
      BY <3>1, <3>2
  <2>2. CASE locks[Key(c)] = NoGen
    <3>1. PICK g \in FreeGens : /\ gen' = [gen EXCEPT ![c] = g]
                                /\ locks' = [locks EXCEPT ![Key(c)] = g]
      BY <1>3, <2>2 DEF TakeLock
    <3>2. /\ UNCHANGED <<req, abandoned>>
          /\ gen[c] = NoGen
          /\ Key(c) \in Keys
          /\ g \in Gens
          /\ \A k \in Keys : locks[k] # g
          /\ \A e \in Callers : gen[e] # g
      BY <1>3 DEF TakeLock, FreeGens
    <3>3. LocksAreInFlight'
      BY <3>1, <3>2
    <3>4. QED
      BY <3>1, <3>2, <3>3
  <2>3. QED
    BY <2>1, <2>2
<1>4. ASSUME NEW c \in Callers, AcquireHit(c) \/ EvictAndUnlock(c)
      PROVE  RegisterInv'
  <2>1. /\ gen' = [gen EXCEPT ![c] = NoGen]
        /\ locks' = [locks EXCEPT ![Key(c)] = IF @ = gen[c] THEN NoGen ELSE @]
        /\ abandoned' = StillAbandoned(c)
        /\ UNCHANGED req
        /\ Key(c) \in Keys
        /\ gen[c] \in Gens
    BY <1>4 DEF AcquireHit, EvictAndUnlock, EvictMintLock
  <2>2. LocksAreInFlight'
    <3> SUFFICES ASSUME NEW k \in Keys, locks'[k] # NoGen, k \notin abandoned'
                 PROVE  \E e \in Callers : gen'[e] = locks'[k]
      OBVIOUS
    <3>1. locks'[k] = locks[k] /\ locks[k] # gen[c] /\ k \notin abandoned
      BY <2>1 DEF StillAbandoned
    <3>2. PICK e \in Callers : gen[e] = locks[k]
      BY <3>1
    <3>3. QED
      BY <2>1, <3>1, <3>2
  <2>3. QED
    BY <2>1, <2>2
<1>5. ASSUME NEW c \in Callers, AcquireMiss(c) \/ SettleMint(c) \/ StoreToken(c)
      PROVE  RegisterInv'
  BY <1>5 DEF AcquireMiss, SettleMint, MintOk, MintFailed, StoreToken
<1>6. ASSUME NEW c \in Callers, Answer(c)
      PROVE  RegisterInv'
  BY <1>6 DEF Answer
<1>7. ASSUME Tick
      PROVE  RegisterInv'
  BY <1>7 DEF Tick
<1>8. CASE UNCHANGED vars
  BY <1>8 DEF vars
<1>9. ASSUME NEW c \in Callers, Cancel(c)
      PROVE  RegisterInv'
  <2>1. /\ gen' = [gen EXCEPT ![c] = NoGen] /\ UNCHANGED locks
        /\ req' = [req EXCEPT ![c] = NoRequest]
        /\ gen[c] \in Gens
        /\ abandoned' = abandoned \cup {k \in {Key(c)} : locks[k] = gen[c]}
    BY <1>9 DEF Cancel
  <2>2. LocksAreInFlight'
    <3> SUFFICES ASSUME NEW k \in Keys, locks[k] # NoGen, k \notin abandoned'
                 PROVE  \E e \in Callers : gen'[e] = locks[k]
      BY <2>1
    <3>1. PICK e \in Callers : gen[e] = locks[k]
      BY <2>1
    <3>2. e # c
      BY <2>1, <3>1
    <3>3. QED
      BY <2>1, <3>1, <3>2
  <2>3. QED
    BY <2>1, <2>2
<1>10. QED
  BY <1>1, <1>2, <1>3, <1>4, <1>5, <1>6, <1>7, <1>8, <1>9
  DEF Next, CallerStep, SettleMint

\* Every entry of mint_locks belongs to a call in flight, unless a handler that
\* used it was dropped and no call for its key has come since.
THEOREM LocksAreInFlightHolds == Spec => []LocksAreInFlight
<1>1. Init => RegisterInv
  BY ConstantsAssumption DEF Init, RegisterInv, LocksAreInFlight
<1>2. RegisterInv => LocksAreInFlight
  BY DEF RegisterInv
<1>3. QED
  BY <1>1, <1>2, RegisterStep, TypeCorrect, PTL DEF Spec

-----------------------------------------------------------------------------
(* A cache slot only ever holds what was minted for a request with its key *)
(* and a caller only what was minted for its own request.                  *)
ScopeInv ==
  /\ \A r \in Requests : cached[CacheKey(r)].scope \in {NoScope, ScopeOf(r)}
  /\ \A c \in Callers : token[c].scope # NoScope
       => /\ pc[c] \in {"storing", "evicting", "hit", "done"}
          /\ token[c].scope = ScopeOf(req[c])

\* The cache key omits the permissions of a request, but the purpose it
\* contains determines them.
LEMMA KeyDeterminesScope ==
  ASSUME NEW r \in Requests, NEW s \in Requests, CacheKey(r) = CacheKey(s)
  PROVE  ScopeOf(r) = ScopeOf(s)
<1>1. r.purpose = s.purpose /\ r.repos = s.repos
  BY DEF CacheKey
<1>2. ASSUME NEW q \in Requests
      PROVE  q.access = IF q.purpose = "mcp" THEN "all"
                        ELSE IF q.purpose = "git:contents=read" THEN "read"
                        ELSE "write"
  BY DEF Requests, TokenScoped, TokenGit
<1>3. QED
  BY <1>1, <1>2 DEF ScopeOf

\* Every step that fills a slot or answers a caller keeps scopes apart.
LEMMA ScopeStep == TypeOK /\ CallInv /\ ScopeInv /\ [Next]_vars => ScopeInv'
<1> SUFFICES ASSUME TypeOK, CallInv, ScopeInv, [Next]_vars
             PROVE  ScopeInv'
  OBVIOUS
<1> USE ConstantsAssumption, KeyInKeys DEF TypeOK, CallInv, ScopeInv, Key
<1>1. ASSUME NEW c \in Callers, NEW r \in Requests, Call(c, r)
      PROVE  ScopeInv'
  BY <1>1 DEF Call
<1>2. ASSUME NEW c \in Callers, CacheHit(c) \/ AcquireHit(c)
      PROVE  ScopeInv'
  <2>1. /\ UNCHANGED <<cached, req>>
        /\ token' = [token EXCEPT ![c] = cached[CacheKey(req[c])]]
        /\ pc' = [pc EXCEPT ![c] = "hit"]
        /\ req[c] \in Requests
    BY <1>2 DEF CacheHit, AcquireHit
  <2>2. cached[CacheKey(req[c])].scope \in {NoScope, ScopeOf(req[c])}
    BY <2>1
  <2>3. QED
    BY <2>1, <2>2
<1>3. ASSUME NEW c \in Callers, CacheMiss(c) \/ TakeLock(c) \/ AcquireMiss(c)
      PROVE  ScopeInv'
  BY <1>3 DEF CacheMiss, TakeLock, AcquireMiss
<1>4. ASSUME NEW c \in Callers, MintOk(c)
      PROVE  ScopeInv'
  BY <1>4 DEF MintOk
<1>5. ASSUME NEW c \in Callers, StoreToken(c)
      PROVE  ScopeInv'
  <2>1. /\ cached' = [cached EXCEPT ![CacheKey(req[c])] = token[c]]
        /\ UNCHANGED <<token, req>>
        /\ pc[c] = "storing" /\ pc' = [pc EXCEPT ![c] = "evicting"]
        /\ req[c] \in Requests
    BY <1>5 DEF StoreToken
  <2>2. ASSUME NEW r \in Requests
        PROVE  cached'[CacheKey(r)].scope \in {NoScope, ScopeOf(r)}
    <3>1. CASE CacheKey(r) = CacheKey(req[c])
      BY <2>1, <3>1, KeyDeterminesScope
    <3>2. CASE CacheKey(r) # CacheKey(req[c])
      BY <2>1, <3>2
    <3>3. QED
      BY <3>1, <3>2
  <2>3. QED
    BY <2>1, <2>2
<1>6. ASSUME NEW c \in Callers, MintFailed(c) \/ EvictAndUnlock(c)
      PROVE  ScopeInv'
  BY <1>6 DEF MintFailed, EvictAndUnlock
<1>7. ASSUME NEW c \in Callers, Answer(c)
      PROVE  ScopeInv'
  BY <1>7, NoTokenType DEF Answer
<1>8. ASSUME NEW c \in Callers, Cancel(c)
      PROVE  ScopeInv'
  BY <1>8 DEF Cancel
<1>9. ASSUME Tick
      PROVE  ScopeInv'
  <2>1. /\ UNCHANGED <<pc, req>>
        /\ \A k \in Keys : cached'[k].scope = cached[k].scope
        /\ \A c \in Callers : token'[c].scope = token[c].scope
    BY <1>9, OlderToken DEF Tick
  <2>2. QED
    BY <2>1
<1>10. CASE UNCHANGED vars
  BY <1>10 DEF vars
<1>11. QED
  BY <1>1, <1>2, <1>3, <1>4, <1>5, <1>6, <1>7, <1>8, <1>9, <1>10
  DEF Next, CallerStep

\* Scopes are kept apart in every slot and every answer.
THEOREM ScopeCorrect == Spec => []ScopeInv
<1>1. Init => ScopeInv
  BY KeyInKeys, NoTokenType DEF Init, ScopeInv
<1>2. QED
  BY <1>1, ScopeStep, TypeCorrect, PTL DEF Spec

\* No caller is answered with a token minted for other repositories or other
\* permissions than it asked for.
THEOREM AnswersInScopeHolds == Spec => []AnswersInScope
<1>1. ScopeInv => AnswersInScope
  BY DEF ScopeInv, AnswersInScope
<1>2. QED
  BY <1>1, ScopeCorrect, PTL

-----------------------------------------------------------------------------
(* TokenSingleflight implements TokenService.                              *)
Calls == [c \in Callers |-> CallOf(c)]

\* A token waiting to be stored was minted for its caller's request, and is no
\* longer valid than the mint said.
StoringInv ==
  \A c \in Callers : pc[c] = "storing"
    => /\ token[c].scope = ScopeOf(req[c])
       /\ \E n \in Lifetimes : token[c].life <= n

\* Between mint and store a token only ages.
LEMMA StoringStep == TypeOK /\ CallInv /\ StoringInv /\ [Next]_vars => StoringInv'
<1> SUFFICES ASSUME TypeOK, CallInv, StoringInv, [Next]_vars
             PROVE  StoringInv'
  OBVIOUS
<1> USE ConstantsAssumption DEF TypeOK, CallInv, StoringInv
<1>1. ASSUME NEW c \in Callers, MintOk(c)
      PROVE  StoringInv'
  BY <1>1 DEF MintOk
<1>2. ASSUME NEW c \in Callers, NEW r \in Requests, Call(c, r)
      PROVE  StoringInv'
  BY <1>2 DEF Call
<1>3. ASSUME NEW c \in Callers,
             \/ CacheHit(c) \/ CacheMiss(c) \/ TakeLock(c) \/ AcquireHit(c)
             \/ AcquireMiss(c) \/ MintFailed(c) \/ StoreToken(c)
             \/ EvictAndUnlock(c) \/ Answer(c) \/ Cancel(c)
      PROVE  StoringInv'
  BY <1>3 DEF CacheHit, CacheMiss, TakeLock, AcquireHit, AcquireMiss, MintFailed,
              StoreToken, EvictAndUnlock, Answer, Cancel
<1>4. ASSUME Tick
      PROVE  StoringInv'
  <2> SUFFICES ASSUME NEW c \in Callers, pc[c] = "storing"
               PROVE  /\ token'[c].scope = ScopeOf(req[c])
                      /\ \E n \in Lifetimes : token'[c].life <= n
    BY <1>4 DEF Tick
  <2>1. PICK n \in Lifetimes : token[c].life <= n
    OBVIOUS
  <2>2. token'[c] \in Token /\ token'[c].scope = token[c].scope
        /\ token'[c].life <= token[c].life
    BY <1>4, OlderToken DEF Tick
  <2>3. token[c].life \in Nat /\ token'[c].life \in Nat /\ n \in Nat
    BY <2>2 DEF Token
  <2>4. QED
    BY <2>1, <2>2, <2>3
<1>5. CASE UNCHANGED vars
  BY <1>5 DEF vars
<1>6. QED
  BY <1>1, <1>2, <1>3, <1>4, <1>5 DEF Next, CallerStep

\* A step of one caller that leaves the others' program points, requests and
\* tokens alone changes only its own call.
LEMMA OneCall ==
  ASSUME NEW c \in Callers, TypeOK,
         \A d \in Callers : d # c => /\ pc'[d] = pc[d]
                                     /\ req'[d] = req[d]
                                     /\ token'[d] = token[d]
  PROVE  Calls' = [Calls EXCEPT ![c] = CallOf(c)']
<1>1. ASSUME NEW d \in Callers, d # c PROVE CallOf(d)' = CallOf(d)
  BY <1>1 DEF CallOf
<1>2. QED
  BY <1>1 DEF Calls

\* The initial states are initial states of TokenService.
LEMMA ServiceInit == Init => Service!SInit
BY DEF Init, Service!SInit, Service!NoToken, NoToken, Service!Idle, CallOf

\* Every step is a step of TokenService or leaves its variables unchanged.
LEMMA ServiceStep ==
  ASSUME TypeOK, CallInv, ScopeInv, StoringInv, [Next]_vars
  PROVE  [Service!SNext]_(Service!svars)
<1> USE ConstantsAssumption, KeyInKeys DEF TypeOK, CallInv, Key
<1>0. ASSUME NEW c \in Callers
      PROVE  Calls[c] = CallOf(c)
  BY DEF Calls
<1>1. ASSUME NEW c \in Callers, NEW r \in Requests, Call(c, r)
      PROVE  Service!Ask(c, r)
  <2>1. Calls' = [Calls EXCEPT ![c] = CallOf(c)']
    BY <1>1, OneCall DEF Call
  <2>2. CallOf(c) = [status |-> "idle"]
        /\ CallOf(c)' = [status |-> "pending", req |-> r]
    BY <1>1 DEF Call, CallOf
  <2>3. QED
    BY <1>0, <1>1, <2>1, <2>2 DEF Call, Calls, Service!Ask, Service!Pending
<1>2. ASSUME NEW c \in Callers, CacheHit(c) \/ AcquireHit(c)
      PROVE  Service!ServeStored(c)
  <2>1. Calls' = [Calls EXCEPT ![c] = CallOf(c)']
    BY <1>2, OneCall DEF CacheHit, AcquireHit
  <2>2. CallOf(c) = [status |-> "pending", req |-> req[c]]
    BY <1>2 DEF CacheHit, AcquireHit, CallOf
  <2>3. QED
    BY <1>0, <1>2, <2>1, <2>2
    DEF CacheHit, AcquireHit, Calls, CallOf, Service!ServeStored,
        Service!Usable, Usable, Service!Stored
<1>3. ASSUME NEW c \in Callers, StoreToken(c)
      PROVE  Service!ServeMinted(c)
  <2>1. Calls' = [Calls EXCEPT ![c] = CallOf(c)']
    BY <1>3, OneCall DEF StoreToken
  <2>2. /\ CallOf(c) = [status |-> "pending", req |-> req[c]]
        /\ req[c] \in Requests
        /\ cached' = [cached EXCEPT ![CacheKey(req[c])] = token[c]]
    BY <1>3 DEF StoreToken, CallOf
  <2>3. PICK n \in Lifetimes : token[c].life <= n
    BY <1>3 DEF StoreToken, StoringInv
  <2>4. /\ token[c] = [scope |-> ScopeOf(req[c]), life |-> token[c].life]
        /\ token[c].life \in 0..n
    BY <1>3, <2>3 DEF StoreToken, StoringInv, Token
  <2>5. CallOf(c)' = [status |-> "minted", req |-> req[c], token |-> token[c]]
    BY <1>3, <2>2, <2>4 DEF StoreToken, CallOf
  <2>6. /\ Calls[c] = [status |-> "pending", req |-> req[c]]
        /\ Calls' = [Calls EXCEPT ![c] = [status |-> "minted", req |-> req[c],
                                          token |-> token[c]]]
    BY <1>0, <2>1, <2>2, <2>5
  <2>7. /\ Calls[c].status = "pending"
        /\ Calls[c].req = req[c]
        /\ [scope |-> ScopeOf(req[c]), life |-> token[c].life] = token[c]
        /\ Service!Minted(req[c], token[c])
             = [status |-> "minted", req |-> req[c], token |-> token[c]]
    BY <2>4, <2>6 DEF Service!Minted
  <2>8. \E m \in Lifetimes : \E l \in 0..m :
          LET t == [scope |-> ScopeOf(Calls[c].req), life |-> l]
          IN  /\ cached' = [cached EXCEPT ![CacheKey(Calls[c].req)] = t]
              /\ Calls' = [Calls EXCEPT ![c] = Service!Minted(Calls[c].req, t)]
    <3>1. /\ cached' = [cached EXCEPT ![CacheKey(Calls[c].req)]
                          = [scope |-> ScopeOf(Calls[c].req), life |-> token[c].life]]
          /\ Calls' = [Calls EXCEPT ![c] = Service!Minted(Calls[c].req,
                          [scope |-> ScopeOf(Calls[c].req), life |-> token[c].life])]
      BY <2>2, <2>6, <2>7
    <3>2. QED
      BY <2>4, <3>1
  <2>9. QED
    BY <2>7, <2>8, Zenon DEF Calls, Service!ServeMinted
<1>4. ASSUME NEW c \in Callers, MintFailed(c)
      PROVE  Service!Refuse(c)
  <2>1. Calls' = [Calls EXCEPT ![c] = CallOf(c)']
    BY <1>4, OneCall DEF MintFailed
  <2>2. token[c].scope = NoScope
    BY <1>4 DEF MintFailed, ScopeInv
  <2>3. QED
    BY <1>0, <1>4, <2>1, <2>2 DEF MintFailed, Calls, CallOf, Service!Refuse, Service!Refused
<1>5. ASSUME NEW c \in Callers, Answer(c) \/ Cancel(c)
      PROVE  Service!Leave(c)
  <2>1. Calls' = [Calls EXCEPT ![c] = CallOf(c)']
    BY <1>5, OneCall DEF Answer, Cancel
  <2>2. QED
    BY <1>0, <1>5, <2>1 DEF Answer, Cancel, Calls, CallOf, Service!Leave, Service!Idle
<1>6. ASSUME NEW c \in Callers,
             \/ CacheMiss(c) \/ TakeLock(c) \/ AcquireMiss(c) \/ MintOk(c)
             \/ EvictAndUnlock(c)
      PROVE  UNCHANGED <<cached, Calls>>
  BY <1>6 DEF CacheMiss, TakeLock, AcquireMiss, MintOk, EvictAndUnlock, Calls, CallOf
<1>7. ASSUME Tick
      PROVE  Service!Age
  <2>1. cached' = [k \in Keys |-> Service!Older(cached[k])]
    BY <1>7 DEF Tick, Older, Service!Older
  <2>2. ASSUME NEW c \in Callers
        PROVE  CallOf(c)' = Service!OlderCall(CallOf(c))
    <3>1. /\ token'[c] = Service!Older(token[c])
          /\ token'[c].scope = token[c].scope
          /\ UNCHANGED <<pc, req>>
      BY <1>7, OlderToken DEF Tick, Older, Service!Older
    <3>2. QED
      BY <3>1 DEF CallOf, Service!OlderCall, Service!Stored, Service!Minted
  <2>3. QED
    BY <2>1, <2>2 DEF Service!Age, Calls
<1>8. CASE UNCHANGED vars
  BY <1>8 DEF vars, CallOf, Service!svars
<1>9. QED
  BY <1>1, <1>2, <1>3, <1>4, <1>5, <1>6, <1>7, <1>8
  DEF Next, CallerStep, Service!SNext, Service!svars, Calls

\* The lock protocol keeps the promise of TokenService in every instance.
THEOREM ImplementsTokenServiceHolds == Spec => ImplementsTokenService
<1>1. Init => StoringInv
  BY DEF Init, StoringInv
<1>2. Spec => []StoringInv
  BY <1>1, StoringStep, TypeCorrect, PTL DEF Spec
<1>3. TypeOK /\ CallInv /\ ScopeInv /\ StoringInv /\ [Next]_vars
        => [Service!SNext]_(Service!svars)
  BY ServiceStep
<1>4. QED
  BY <1>2, <1>3, ServiceInit, TypeCorrect, ScopeCorrect, PTL
  DEF Spec, ImplementsTokenService, Service!SSpec
=============================================================================
