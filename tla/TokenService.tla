---------------------------- MODULE TokenService ----------------------------
(***************************************************************************)
(* What AppTokenProvider::token_for promises its callers, without locks:   *)
(* a call is answered with the stored token of its own cache key while     *)
(* that token still has more than Margin left, or with a token minted for  *)
(* it during the call, or it is refused.  A call may also be abandoned.    *)
(* TokenSingleflight implements this specification, GitCredential rests on *)
(* it.                                                                     *)
(***************************************************************************)
EXTENDS Naturals

CONSTANTS Callers,      \* tasks that ask for tokens
          Requests,     \* what can be asked
          Keys,         \* cache keys
          KeyOf(_),     \* the cache key of a request
          ScopeOf(_),   \* what a token minted for a request may do
          NoScope,      \* the scope of no token at all
          Lifetimes,    \* remaining lifetimes a mint can answer with
          Margin        \* REFRESH_MARGIN

VARIABLES store,        \* key -> the token last stored under it
          call          \* caller -> where its call stands

svars == <<store, call>>

NoToken == [scope |-> NoScope, life |-> 0]

Idle == [status |-> "idle"]
Pending(r) == [status |-> "pending", req |-> r]
Refused(r) == [status |-> "refused", req |-> r]
Stored(r, t) == [status |-> "stored", req |-> r, token |-> t]
Minted(r, t) == [status |-> "minted", req |-> r, token |-> t]

Usable(t) == t.life > Margin

Older(t) == [t EXCEPT !.life = IF @ > 0 THEN @ - 1 ELSE 0]

OlderCall(s) == CASE s.status = "stored" -> Stored(s.req, Older(s.token))
                  [] s.status = "minted" -> Minted(s.req, Older(s.token))
                  [] OTHER -> s

SInit == /\ store = [k \in Keys |-> NoToken]
         /\ call = [c \in Callers |-> Idle]

Ask(c, r) == /\ call[c].status = "idle"
             /\ call' = [call EXCEPT ![c] = Pending(r)]
             /\ UNCHANGED store

\* The stored token answers, and was usable at that very instant.
ServeStored(c) ==
  /\ call[c].status = "pending"
  /\ Usable(store[KeyOf(call[c].req)])
  /\ call' = [call EXCEPT ![c] = Stored(@.req, store[KeyOf(@.req)])]
  /\ UNCHANGED store

\* A token minted for this call answers, and is stored for the next one.
\* Its lifetime is the issuer's choice less the time its answer took.
ServeMinted(c) ==
  /\ call[c].status = "pending"
  /\ \E n \in Lifetimes : \E l \in 0..n :
       LET t == [scope |-> ScopeOf(call[c].req), life |-> l]
       IN  /\ store' = [store EXCEPT ![KeyOf(call[c].req)] = t]
           /\ call' = [call EXCEPT ![c] = Minted(@.req, t)]

Refuse(c) == /\ call[c].status = "pending"
             /\ call' = [call EXCEPT ![c] = Refused(@.req)]
             /\ UNCHANGED store

\* The caller takes its answer, or goes away without one.
Leave(c) == /\ call[c].status # "idle"
            /\ call' = [call EXCEPT ![c] = Idle]
            /\ UNCHANGED store

Age == /\ store' = [k \in Keys |-> Older(store[k])]
       /\ call' = [c \in Callers |-> OlderCall(call[c])]

\* The process ends and starts again, with nothing stored and nobody waiting.
Restart == /\ store' = [k \in Keys |-> NoToken]
           /\ call' = [c \in Callers |-> Idle]

SNext == \/ \E c \in Callers : \/ \E r \in Requests : Ask(c, r)
                               \/ ServeStored(c)
                               \/ ServeMinted(c)
                               \/ Refuse(c)
                               \/ Leave(c)
         \/ Age \/ Restart

SSpec == SInit /\ [][SNext]_svars
=============================================================================
