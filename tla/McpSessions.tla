----------------------------- MODULE McpSessions -----------------------------
(***************************************************************************)
(* MCP sessions with one upstream (src/src/mcp.rs: pick_credential and the *)
(* end of mcp_proxy): the cache that pins a session to the agent and the   *)
(* credential that opened it.                                              *)
(*                                                                         *)
(* GitHub opens a session when it handles an `initialize`, names it in the *)
(* response, and may name it again in later responses.  It forgets no      *)
(* session: DELETE is a no-op there, so the pins alone decide what a       *)
(* session may still do.                                                   *)
(***************************************************************************)
EXTENDS Naturals

CONSTANTS Agents,       \* agents (or network trust as the only one)
          Creds,        \* tokens: pooled PATs, App installation tokens
          Expiring,     \* the App tokens among them
          Sids,         \* session ids GitHub may issue
          Tasks,        \* requests in progress at a time
          NoSid, NoPin

ASSUME McpSessionsAssumption ==
  /\ Agents # {} /\ Creds # {}
  /\ Expiring \subseteq Creds
  /\ NoSid \notin Sids
  /\ NoPin \notin Agents \X Creds

VARIABLES pins,         \* mcp_sessions: session -> SessionPin
          pc, agent, sid, isDelete, cred,
          got,          \* session id in the response
          opener,       \* GitHub: session -> who opened it, and with what
          expired,      \* App tokens past their expiry
          announced,    \* history: sessions named in an answer
          gone,         \* history: pins removed, for whatever reason
          deleted,      \* history: sessions whose DELETE was answered
          ended         \* history: sessions of an expired token that were
                        \* terminated, or opened before the last restart

task == <<pc, agent, sid, isDelete, cred, got>>
history == <<announced, gone, deleted, ended>>
vars == <<pins, task, opener, expired, history>>

\* A SessionPin is an agent and a credential.
Bindings == Agents \X Creds
Pinned(s) == pins[s] # NoPin
Binding(t) == <<agent[t], cred[t]>>

\* What the fields of a task that does nothing hold.
NoAgent == CHOOSE a \in Agents : TRUE
NoCred == CHOOSE c \in Creds : TRUE

-----------------------------------------------------------------------------
Init == /\ pins = [s \in Sids |-> NoPin]
        /\ pc = [t \in Tasks |-> "idle"]
        /\ agent = [t \in Tasks |-> NoAgent]
        /\ sid = [t \in Tasks |-> NoSid]
        /\ isDelete = [t \in Tasks |-> FALSE]
        /\ cred = [t \in Tasks |-> NoCred]
        /\ got = [t \in Tasks |-> NoSid]
        /\ opener = [s \in Sids |-> NoPin]
        /\ expired = {}
        /\ announced = {} /\ gone = {} /\ deleted = {} /\ ended = {}

\* What a request that goes on after pick_credential carries.
Begin(t, a, s, d, c, step) ==
  /\ pc[t] = "idle"
  /\ pc' = [pc EXCEPT ![t] = step]
  /\ agent' = [agent EXCEPT ![t] = a]
  /\ sid' = [sid EXCEPT ![t] = s]
  /\ isDelete' = [isDelete EXCEPT ![t] = d]
  /\ cred' = [cred EXCEPT ![t] = c]
  /\ UNCHANGED <<pins, got, opener, expired, history>>

Finish(t) == /\ pc' = [pc EXCEPT ![t] = "idle"]
             /\ sid' = [sid EXCEPT ![t] = NoSid]
             /\ got' = [got EXCEPT ![t] = NoSid]
             /\ isDelete' = [isDelete EXCEPT ![t] = FALSE]
             /\ agent' = [agent EXCEPT ![t] = NoAgent]
             /\ cred' = [cred EXCEPT ![t] = NoCred]

\* Mutant: a session belongs to whoever presents it.
OwnsAny(a, s) == Pinned(s)

\* The session is pinned, and agent a opened it.  Otherwise the request is
\* rejected with 404 or 403, and nothing changes.
Owns(a, s) == Pinned(s) /\ pins[s][1] = a

\* Known session: its own credential, as long as it is valid.
Resume(t, a, s, d) ==
  /\ Owns(a, s)
  /\ pins[s][2] \notin expired
  /\ Begin(t, a, s, d, pins[s][2], "send")

\* Known session whose credential has expired: to be terminated.
FindStale(t, a, s, d) ==
  /\ Owns(a, s)
  /\ pins[s][2] \in expired
  /\ Begin(t, a, s, d, pins[s][2], "stale")

DropStale(t) ==
  /\ pc[t] = "stale"
  /\ pins' = [pins EXCEPT ![sid[t]] = NoPin]
  /\ gone' = gone \cup {sid[t]}
  /\ ended' = ended \cup {sid[t]}
  /\ Finish(t)
  /\ UNCHANGED <<opener, expired, announced, deleted>>

\* Mutant: a session that is not known gets a fresh credential.
FreshCredentialUnknown(t, a, s, d) ==
  /\ s \in Sids \/ ~d
  /\ s \in Sids => ~Pinned(s)
  /\ \E c \in Creds \ expired : Begin(t, a, s, d, c, "send")

\* No session: a token from the App backend or an identity from the pool.
FreshCredential(t, a, s, d) ==
  /\ s = NoSid /\ ~d
  /\ \E c \in Creds \ expired : Begin(t, a, s, d, c, "send")

\* GitHub handles the request.  It opens a session, or names the one the
\* request came with, or names none.
Handle(t) ==
  /\ pc[t] = "send"
  /\ \/ \E s \in Sids : /\ ~isDelete[t]
                        /\ opener[s] = NoPin
                        /\ opener' = [opener EXCEPT ![s] = Binding(t)]
                        /\ got' = [got EXCEPT ![t] = s]
     \/ \E s \in {sid[t], NoSid} : /\ got' = [got EXCEPT ![t] = s]
                                   /\ UNCHANGED opener
  /\ pc' = [pc EXCEPT ![t] = "headers"]
  /\ UNCHANGED <<pins, agent, sid, isDelete, cred, expired, history>>

\* Mutant: only a request without a session may pin one.
CheckPinSidless(t) ==
  /\ pc[t] = "headers"
  /\ pc' = [pc EXCEPT ![t] =
       IF sid[t] = NoSid /\ got[t] \in Sids /\ ~Pinned(got[t])
       THEN "pin" ELSE "answer"]
  /\ UNCHANGED <<pins, agent, sid, isDelete, cred, got, opener, expired,
                 history>>

\* Does the response name a session that is not pinned?
CheckPin(t) ==
  /\ pc[t] = "headers"
  /\ pc' = [pc EXCEPT ![t] =
       IF got[t] \in Sids /\ ~Pinned(got[t]) THEN "pin" ELSE "answer"]
  /\ UNCHANGED <<pins, agent, sid, isDelete, cred, got, opener, expired,
                 history>>

InsertPin(t) ==
  /\ pc[t] = "pin"
  /\ pins' = [pins EXCEPT ![got[t]] = Binding(t)]
  /\ pc' = [pc EXCEPT ![t] = "answer"]
  /\ UNCHANGED <<agent, sid, isDelete, cred, got, opener, expired, history>>

\* A DELETE drops the pin; then the client has its answer.
Answer(t) ==
  /\ pc[t] = "answer"
  /\ IF isDelete[t]
     THEN /\ pins' = [pins EXCEPT ![sid[t]] = NoPin]
          /\ gone' = gone \cup {sid[t]}
          /\ deleted' = deleted \cup {sid[t]}
     ELSE UNCHANGED <<pins, gone, deleted>>
  /\ announced' = announced \cup ({got[t]} \ {NoSid})
  /\ Finish(t)
  /\ UNCHANGED <<opener, expired, ended>>

\* send() fails or times out, or the client disconnects at an await.
Drop(t) == /\ pc[t] # "idle"
           /\ Finish(t)
           /\ UNCHANGED <<pins, opener, expired, history>>

-----------------------------------------------------------------------------
\* The cache evicts a pin: idle for session_ttl_secs, or over capacity.
Evict == \E s \in Sids : /\ Pinned(s)
                         /\ pins' = [pins EXCEPT ![s] = NoPin]
                         /\ gone' = gone \cup {s}
                         /\ UNCHANGED <<task, opener, expired, announced,
                                        deleted, ended>>

Expire == \E c \in Expiring \ expired :
            /\ expired' = expired \cup {c}
            /\ UNCHANGED <<pins, task, opener, history>>

\* The process stops and starts again: pins and requests are lost.
Restart ==
  /\ pins' = [s \in Sids |-> NoPin]
  /\ pc' = [t \in Tasks |-> "idle"]
  /\ sid' = [t \in Tasks |-> NoSid]
  /\ got' = [t \in Tasks |-> NoSid]
  /\ isDelete' = [t \in Tasks |-> FALSE]
  /\ agent' = [t \in Tasks |-> NoAgent]
  /\ cred' = [t \in Tasks |-> NoCred]
  /\ ended' = ended \cup {s \in Sids : opener[s] # NoPin}
  /\ gone' = gone \cup {s \in Sids : Pinned(s)}
  /\ UNCHANGED <<opener, expired, announced, deleted>>

Arrive(t) ==
  \/ \E a \in Agents, s \in Sids, d \in BOOLEAN :
       Resume(t, a, s, d) \/ FindStale(t, a, s, d)
  \/ \E a \in Agents, s \in Sids \cup {NoSid}, d \in BOOLEAN :
       FreshCredential(t, a, s, d)

Next == \/ \E t \in Tasks : \/ Arrive(t) \/ DropStale(t) \/ Handle(t)
                            \/ CheckPin(t) \/ InsertPin(t) \/ Answer(t)
                            \/ Drop(t)
        \/ Evict \/ Expire \/ Restart

Spec == Init /\ [][Next]_vars

-----------------------------------------------------------------------------
TypeOK ==
  /\ pins \in [Sids -> Bindings \cup {NoPin}]
  /\ pc \in [Tasks -> {"idle", "send", "stale", "headers", "pin", "answer"}]
  /\ agent \in [Tasks -> Agents]
  /\ sid \in [Tasks -> Sids \cup {NoSid}]
  /\ isDelete \in [Tasks -> BOOLEAN]
  /\ cred \in [Tasks -> Creds]
  /\ got \in [Tasks -> Sids \cup {NoSid}]
  /\ opener \in [Sids -> Bindings \cup {NoPin}]
  /\ expired \subseteq Expiring
  /\ announced \subseteq Sids /\ gone \subseteq Sids
  /\ deleted \subseteq Sids /\ ended \subseteq Sids
  /\ \A t \in Tasks : /\ pc[t] = "pin" => got[t] \in Sids
                      /\ pc[t] = "stale" \/ isDelete[t] => sid[t] \in Sids

\* A request on a session reaches GitHub from the agent, and with the
\* credential, that opened the session: whatever was evicted, expired or
\* pinned again in between, no session is shared and none mixes tokens.
SessionKeepsBinding ==
  \A t \in Tasks : pc[t] = "send" /\ sid[t] \in Sids
                     => opener[sid[t]] = Binding(t)

\* A session that an answer has named is pinned to its opener until the pin is
\* evicted, deleted or terminated: the client is not told of a session that
\* octobroker does not know.
SessionIsPinned == \A s \in announced \ gone : pins[s] = opener[s]

\* Once a session was terminated for its expired credential, or was opened
\* before a restart, no request on it is forwarded again, not even when a
\* response that was still on its way pins it anew.
EndedStaysEnded ==
  [][\A t \in Tasks : pc[t] = "idle" /\ pc'[t] = "send"
                        => sid'[t] \notin ended]_vars

\* Once the DELETE of a session was answered, no request on it is forwarded.
DeletedStaysDeleted ==
  [][\A t \in Tasks : pc[t] = "idle" /\ pc'[t] = "send"
                        => sid'[t] \notin deleted]_vars

-----------------------------------------------------------------------------
(* The table of sessions as a client sees it: a session is live while it is *)
(* pinned and its credential valid.  A request that carries a session was   *)
(* accepted on it, but for those that only terminate it.                    *)
Known == {s \in Sids : Pinned(s)} \cup gone

Phase(s) == IF Pinned(s) /\ pins[s][2] \notin expired THEN "live"
            ELSE IF s \in Known THEN "over" ELSE "none"

Carried(t) == IF sid[t] \in Sids /\ pc[t] # "stale" THEN <<sid[t], agent[t]>>
              ELSE <<NoSid, NoAgent>>

Table == INSTANCE SessionTable
           WITH NoRequest <- <<NoSid, NoAgent>>,
                owner <- [s \in Sids |-> IF s \in Known THEN opener[s][1]
                                         ELSE NoAgent],
                phase <- [s \in Sids |-> Phase(s)],
                accepted <- [t \in Tasks |-> Carried(t)]

\* A session is opened once, serves its agent while its credential is valid,
\* and never comes back.  With echoes (below) it can come back.
ImplementsSessionTable == Table!TSpec

\* GitHub names a session in the response that opens it, and in no other.
Echoes(t) == /\ pc[t] = "send" /\ pc'[t] = "headers"
             /\ got'[t] \in Sids /\ got'[t] = sid[t]

NoEcho == [][\A t \in Tasks : ~Echoes(t)]_vars
=============================================================================
