----------------------------- MODULE SessionTable -----------------------------
(***************************************************************************)
(* What a table of MCP sessions promises, whatever it keeps per session:   *)
(* a session is opened once, for one agent; requests are accepted on it    *)
(* only while it is live and only from that agent; and it never comes back *)
(* after it is over.  MultiSessions implements this specification;         *)
(* McpSessions does as long as GitHub names a session in no response but   *)
(* the one that opens it (its finding DeletedStaysDeleted is the session   *)
(* that comes back otherwise).                                             *)
(***************************************************************************)

CONSTANTS Sids,         \* session ids
          Agents,       \* authenticated clients
          Tasks,        \* requests in progress
          NoAgent, NoRequest

VARIABLES owner,        \* session -> the agent it was opened for
          phase,        \* session -> "none", "live" or "over"
          accepted      \* request -> <<session, agent>> while it is in progress

tvars == <<owner, phase, accepted>>

TInit == /\ owner = [s \in Sids |-> NoAgent]
         /\ phase = [s \in Sids |-> "none"]
         /\ accepted = [t \in Tasks |-> NoRequest]

\* Opened when it could be over already.
Open(s, a) ==
  /\ phase[s] = "none"
  /\ \E p \in {"live", "over"} : phase' = [phase EXCEPT ![s] = p]
  /\ owner' = [owner EXCEPT ![s] = a]
  /\ UNCHANGED accepted

Accept(t, s) ==
  /\ phase[s] = "live"
  /\ accepted[t] = NoRequest
  /\ accepted' = [accepted EXCEPT ![t] = <<s, owner[s]>>]
  /\ UNCHANGED <<owner, phase>>

Phases == {"none", "live", "over"}
Requests == {NoRequest} \cup Sids \X (Agents \cup {NoAgent})

\* Sessions end, requests finish: any of them, at any time.
EndOrFinish ==
  /\ phase' \in [Sids -> Phases]
  /\ \A s \in Sids : \/ phase'[s] = phase[s]
                     \/ phase[s] = "live" /\ phase'[s] = "over"
  /\ accepted' \in [Tasks -> Requests]
  /\ \A t \in Tasks : accepted'[t] \in {accepted[t], NoRequest}
  /\ UNCHANGED owner

TNext == \/ EndOrFinish
         \/ \E s \in Sids, a \in Agents : Open(s, a)
         \/ \E t \in Tasks, s \in Sids : Accept(t, s)

TSpec == TInit /\ [][TNext]_tvars
=============================================================================
