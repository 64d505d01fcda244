------------------------------ MODULE McpWrites ------------------------------
(***************************************************************************)
(* The path of a tools/call through mcp_proxy (src/src/mcp.rs): policy,    *)
(* credential, per-agent in-flight slot, fail-closed audit record, the     *)
(* forward to GitHub's MCP server or the octobroker-owned tool, and the    *)
(* record of the outcome.                                                  *)
(*                                                                         *)
(* Each call is an async task.  Steps between two await points of one task *)
(* interleave with the other tasks of a multi-threaded executor.  A client *)
(* that disconnects drops its task at an await point, wherever it is; a    *)
(* crash drops them all and empties the in-flight table.  What GitHub does *)
(* with a request it was sent happens whether anyone waits for it or not.  *)
(***************************************************************************)
EXTENDS AuditLog, Naturals, FiniteSets

CONSTANTS Calls,            \* calls ever made, in any order
          Agents, NoAgent,  \* [[mcp.agents]]; NoAgent in network-trust mode
          Tools, ReadTools, LocalTools,
          Repos, NoRepo,    \* NoRepo: the arguments name no repository
          AgentTools,       \* agent -> its tool allowlist
          AgentRepos,       \* agent -> its repository allowlist, {} for none
          EnableWrites, MultiApp, HasAudit,
          Cap,              \* max_inflight_writes, 0 for no limit
          Faults            \* of the environment: "cancel", "crash"

VARIABLES pc,               \* call -> where its task is
          req,              \* call -> what it asks for, once admitted
          inflight,         \* write_inflight: agent -> slots taken
          outcome,          \* call -> tool_error about to be recorded
          effect            \* call -> what GitHub did: "none" until sent

vars == <<pc, req, inflight, outcome, effect, readable, torn>>
task == <<pc, req, inflight, outcome, effect>>

\* A body that parse_frame reads as one frame with method tools/call.  One that
\* it cannot read so (a JSON-RPC batch) is forwarded without policy, slot or
\* audit; it is not modelled, and what is said of calls is not said of it.
Requests ==
  [agent : IF Agents = {} THEN {NoAgent} ELSE Agents,
   tool : Tools, repo : Repos \cup {NoRepo}]

NoRequest == [agent |-> NoAgent, tool |-> "none", repo |-> NoRepo]

ASSUME McpWritesAssumption ==
  /\ IsFiniteSet(Calls)
  /\ NoAgent \notin Agents
  /\ NoRepo \notin Repos
  /\ "none" \notin Tools
  /\ ReadTools \subseteq Tools
  /\ LocalTools \subseteq Tools \ ReadTools
  /\ AgentTools \in [Agents -> SUBSET Tools]
  /\ AgentRepos \in [Agents -> SUBSET Repos]
  /\ {EnableWrites, MultiApp, HasAudit} \subseteq BOOLEAN
  /\ Cap \in Nat

\* McpConfig::validate: the gate on writes.
ASSUME ConfigAssumption ==
  EnableWrites =>
    /\ Agents # {}
    /\ HasAudit
    /\ MultiApp => \A a \in Agents :
                     AgentRepos[a] = {} => AgentTools[a] \subseteq ReadTools

-----------------------------------------------------------------------------
(* The policy a request has to pass.                                       *)

IsWrite(r) == r.tool \in Tools \ ReadTools

RepoAllowed(r) ==
  AgentRepos[r.agent] = {} \/ r.repo \in AgentRepos[r.agent]

AgentMay(r) ==
  /\ r.tool \in AgentTools[r.agent]
  /\ IsWrite(r) => EnableWrites
  /\ IsWrite(r) => ~(MultiApp /\ AgentRepos[r.agent] = {})
  /\ RepoAllowed(r)

Admitted(r) ==
  /\ r.agent # NoAgent => AgentMay(r)
  /\ r.tool \in LocalTools => (r.agent # NoAgent /\ EnableWrites)

-----------------------------------------------------------------------------
(* Slots.  The guard lives from try_acquire to the end of the handler.     *)

NeedsSlot(c) == IsWrite(req[c]) /\ req[c].agent # NoAgent

Audited(c) == IsWrite(req[c]) /\ HasAudit

Local(c) == req[c].tool \in LocalTools

Slotted == {"slotted", "audited", "awaiting", "buffering", "mutating",
            "recording"}

Holds(c) == pc[c] \in Slotted /\ NeedsSlot(c)

Less(n) == IF n > 0 THEN n - 1 ELSE 0

\* Mutant: the slot is only given back by a call that was answered.
EndForgetful(c, how) ==
  /\ pc' = [pc EXCEPT ![c] = how]
  /\ inflight' = IF Holds(c) /\ how = "done"
                 THEN [inflight EXCEPT ![req[c].agent] = Less(@)]
                 ELSE inflight
  /\ outcome' = [outcome EXCEPT ![c] = "none"]

\* The handler ends, by returning or by being dropped, and its guard with it.
End(c, how) ==
  /\ pc' = [pc EXCEPT ![c] = how]
  /\ inflight' = IF Holds(c)
                 THEN [inflight EXCEPT ![req[c].agent] = Less(@)]
                 ELSE inflight
  /\ outcome' = [outcome EXCEPT ![c] = "none"]

Goto(c, step) == pc' = [pc EXCEPT ![c] = step]

-----------------------------------------------------------------------------
Init == /\ pc = [c \in Calls |-> "idle"]
        /\ req = [c \in Calls |-> NoRequest]
        /\ inflight = [a \in Agents |-> 0]
        /\ outcome = [c \in Calls |-> "none"]
        /\ effect = [c \in Calls |-> "none"]
        /\ LogInit

\* authenticate() and the policy admit the call; on to its credential.
Start(c) ==
  /\ pc[c] = "idle"
  /\ \E r \in {q \in Requests : Admitted(q)} : req' = [req EXCEPT ![c] = r]
  /\ Goto(c, "credential")
  /\ UNCHANGED <<inflight, outcome, effect, log>>

\* 401, or tool_call_denied().
Deny(c) ==
  /\ pc[c] = "idle"
  /\ Agents # {} \/ \E r \in Requests : ~Admitted(r)
  /\ Goto(c, "done")
  /\ UNCHANGED <<req, inflight, outcome, effect, log>>

\* pick_credential().await.
CredentialOk(c) ==
  /\ pc[c] = "credential"
  /\ Goto(c, "credentialed")
  /\ UNCHANGED <<req, inflight, outcome, effect, log>>

CredentialFailed(c) ==
  /\ pc[c] = "credential"
  /\ End(c, "done")
  /\ UNCHANGED <<req, effect, log>>

AtCap(a) == Cap > 0 /\ inflight[a] >= Cap

\* InFlightGuard::try_acquire; a call that needs no slot just goes on.
AcquireSlot(c) ==
  /\ pc[c] = "credentialed"
  /\ \/ /\ NeedsSlot(c)
        /\ ~AtCap(req[c].agent)
        /\ inflight' = [inflight EXCEPT ![req[c].agent] = @ + 1]
     \/ /\ ~NeedsSlot(c)
        /\ UNCHANGED inflight
  /\ Goto(c, "slotted")
  /\ UNCHANGED <<req, outcome, effect, log>>

\* 429.
NoSlot(c) ==
  /\ pc[c] = "credentialed"
  /\ NeedsSlot(c)
  /\ AtCap(req[c].agent)
  /\ End(c, "done")
  /\ UNCHANGED <<req, effect, log>>

\* record_request() succeeds, or the call is none that is audited.
RecordRequest(c) ==
  /\ pc[c] = "slotted"
  /\ \/ Audited(c) /\ Persist(<<c, "request">>)
     \/ ~Audited(c) /\ UNCHANGED log
  /\ Goto(c, "audited")
  /\ UNCHANGED <<req, inflight, outcome, effect>>

\* Mutant: a record that cannot be persisted is only logged.
RecordRequestFailsOpen(c) ==
  /\ pc[c] = "slotted"
  /\ Audited(c)
  /\ PersistFails(<<c, "request">>)
  /\ Goto(c, "audited")
  /\ UNCHANGED <<req, inflight, outcome, effect>>

\* 503: the write must not happen.
RecordRequestFails(c) ==
  /\ pc[c] = "slotted"
  /\ Audited(c)
  /\ PersistFails(<<c, "request">>)
  /\ End(c, "done")
  /\ UNCHANGED <<req, effect>>

-----------------------------------------------------------------------------
(* Tools of GitHub's MCP server.                                           *)

Send(c) ==
  /\ pc[c] = "audited" /\ ~Local(c)
  /\ effect' = [effect EXCEPT ![c] = "sent"]
  /\ Goto(c, "awaiting")
  /\ UNCHANGED <<req, inflight, outcome, log>>

\* The credential or the session id is no valid header value: 502.
Misconfigured(c) ==
  /\ pc[c] = "audited" /\ ~Local(c)
  /\ End(c, "done")
  /\ UNCHANGED <<req, effect, log>>

\* send() fails: refused, reset, or nothing within POST_TIMEOUT_SECS.
SendFailed(c) ==
  /\ pc[c] = "awaiting"
  /\ End(c, "done")
  /\ UNCHANGED <<req, effect, log>>

\* The response begins.  Only an audited write is buffered; anything else is
\* streamed to the client by the server after the handler has returned.
ResponseBegins(c) ==
  /\ pc[c] = "awaiting"
  /\ IF Audited(c)
     THEN Goto(c, "buffering") /\ UNCHANGED <<inflight, outcome>>
     ELSE End(c, "done")
  /\ UNCHANGED <<req, effect, log>>

\* The whole response is there: parse_tool_outcome finds the outcome, or
\* nothing it understands.
BodyComplete(c) ==
  /\ pc[c] = "buffering"
  /\ effect[c] \in {"ok", "error"}
  /\ \E o \in {effect[c], "unknown"} : outcome' = [outcome EXCEPT ![c] = o]
  /\ Goto(c, "recording")
  /\ UNCHANGED <<req, inflight, effect, log>>

\* Mutant: a response that breaks off is recorded as a failure of the tool.
BodyBrokenIsError(c) ==
  /\ pc[c] = "buffering"
  /\ outcome' = [outcome EXCEPT ![c] = "error"]
  /\ Goto(c, "recording")
  /\ UNCHANGED <<req, inflight, effect, log>>

\* Mutant: no timeout ends a response that never comes to its end.
BodyBrokenNoTimeout(c) ==
  /\ pc[c] = "buffering"
  /\ effect[c] # "sent"
  /\ outcome' = [outcome EXCEPT ![c] = "unknown"]
  /\ Goto(c, "recording")
  /\ UNCHANGED <<req, inflight, effect, log>>

\* The response outgrows max_result_bytes, breaks off or times out.
BodyBroken(c) ==
  /\ pc[c] = "buffering"
  /\ outcome' = [outcome EXCEPT ![c] = "unknown"]
  /\ Goto(c, "recording")
  /\ UNCHANGED <<req, inflight, effect, log>>

-----------------------------------------------------------------------------
(* Tools of octobroker: minimize_comment and commit_status_set.            *)

\* Invalid arguments, or the comment is not ours: nothing was changed.
LocalRefused(c) ==
  /\ pc[c] = "audited" /\ Local(c)
  /\ outcome' = [outcome EXCEPT ![c] = "error"]
  /\ Goto(c, "recording")
  /\ UNCHANGED <<req, inflight, effect, log>>

\* The mutation is posted.
LocalSend(c) ==
  /\ pc[c] = "audited" /\ Local(c)
  /\ effect' = [effect EXCEPT ![c] = "sent"]
  /\ Goto(c, "mutating")
  /\ UNCHANGED <<req, inflight, outcome, log>>

LocalAnswered(c) ==
  /\ pc[c] = "mutating"
  /\ effect[c] \in {"ok", "error"}
  /\ outcome' = [outcome EXCEPT ![c] = effect[c]]
  /\ Goto(c, "recording")
  /\ UNCHANGED <<req, inflight, effect, log>>

\* Mutant: a response that was lost makes the tool try again.
LocalLostRetried(c) ==
  /\ pc[c] = "mutating"
  /\ Goto(c, "audited")
  /\ UNCHANGED <<req, inflight, outcome, effect, log>>

\* send() fails or times out, or the response cannot be read: a tool error.
LocalLost(c) ==
  /\ pc[c] = "mutating"
  /\ outcome' = [outcome EXCEPT ![c] = "error"]
  /\ Goto(c, "recording")
  /\ UNCHANGED <<req, inflight, effect, log>>

-----------------------------------------------------------------------------
\* record_result(), whose failure is only logged; then the answer.
RecordResult(c) ==
  /\ pc[c] = "recording"
  /\ \/ Persist(<<c, "result", outcome[c]>>)
     \/ PersistFails(<<c, "result", outcome[c]>>)
  /\ End(c, "done")
  /\ UNCHANGED <<req, effect>>

\* GitHub gets to a request it was sent.
GithubActs(c) ==
  /\ effect[c] = "sent"
  /\ \E e \in {"ok", "error"} : effect' = [effect EXCEPT ![c] = e]
  /\ UNCHANGED <<pc, req, inflight, outcome, log>>

\* Where a task awaits something: its credential, GitHub's response, or, for
\* a tool of octobroker's, the check that the comment is ours.
AtAwait(c) ==
  \/ pc[c] \in {"credential", "awaiting", "buffering", "mutating"}
  \/ pc[c] = "audited" /\ Local(c)

\* The client disconnects.
Cancel(c) ==
  /\ "cancel" \in Faults
  /\ AtAwait(c)
  /\ End(c, "gone")
  /\ UNCHANGED <<req, effect, log>>

\* The process dies and is started again.
Crash ==
  /\ "crash" \in Faults
  /\ pc' = [c \in Calls |-> IF pc[c] \in {"idle", "done"} THEN pc[c]
                                                          ELSE "gone"]
  /\ inflight' = [a \in Agents |-> 0]
  /\ outcome' = [c \in Calls |-> "none"]
  /\ LogCrash
  /\ UNCHANGED <<req, effect>>

Finished == \A c \in Calls : pc[c] \in {"done", "gone"}

\* No more calls: nothing is left to do.
Rest == Finished /\ UNCHANGED vars

Settle(c) ==
  \/ CredentialOk(c) \/ CredentialFailed(c)
  \/ AcquireSlot(c) \/ NoSlot(c)
  \/ RecordRequest(c) \/ RecordRequestFails(c)
  \/ Send(c) \/ Misconfigured(c) \/ SendFailed(c)
  \/ ResponseBegins(c) \/ BodyComplete(c) \/ BodyBroken(c)
  \/ LocalRefused(c) \/ LocalSend(c) \/ LocalAnswered(c) \/ LocalLost(c)
  \/ RecordResult(c)

Next == \/ \E c \in Calls : \/ Start(c) \/ Deny(c) \/ Settle(c)
                            \/ GithubActs(c) \/ Cancel(c)
        \/ Crash
        \/ Rest

Spec == Init /\ [][Next]_vars

\* Every await ends: each request to GitHub has a timeout, the mint of a
\* credential too.  GitHub itself is not assumed to do anything.
FairSpec == Spec /\ \A c \in Calls : WF_vars(Settle(c))

-----------------------------------------------------------------------------
TypeOK ==
  /\ pc \in [Calls -> {"idle", "credential", "credentialed", "done", "gone"}
                        \cup Slotted]
  /\ req \in [Calls -> Requests \cup {NoRequest}]
  /\ inflight \in [Agents -> Nat]
  /\ outcome \in [Calls -> {"none", "ok", "error", "unknown"}]
  /\ effect \in [Calls -> {"none", "sent", "ok", "error"}]
  /\ torn \in BOOLEAN

Holders(a) == {c \in Calls : Holds(c) /\ req[c].agent = a}

\* Through refusals, failures, disconnects and crashes the in-flight table
\* counts exactly the write calls that are between try_acquire and the end of
\* their handler, and no agent ever has more of them than max_inflight_writes.
SlotAccounting ==
  \A a \in Agents : /\ inflight[a] = Cardinality(Holders(a))
                    /\ Cap > 0 => inflight[a] <= Cap

\* Once writes are enabled, GitHub is never sent a write of which the audit
\* log holds no request record that can be read ("a write whose audit record
\* cannot be persisted must not happen").
AuditedBeforeForward ==
  \A c \in Calls :
    EnableWrites /\ IsWrite(req[c]) /\ effect[c] # "none"
      => <<c, "request">> \in readable

\* A recorded success is one, of forwarded calls and of octobroker's own tools,
\* however the response broke off; and a forwarded call that is recorded as
\* failed did not happen: what is not known is recorded as undeterminable.  (A
\* tool of octobroker's whose response is lost is recorded as failed.)
OutcomesTrue ==
  \A c \in Calls :
    /\ <<c, "result", "ok">> \in readable => effect[c] = "ok"
    /\ <<c, "result", "error">> \in readable /\ ~Local(c)
         => effect[c] \in {"none", "error"}

\* A write that was sent to GitHub and has been answered to the client has a
\* result record ("two fsync'd JSONL records per write").
AnsweredWritesHaveResults ==
  \A c \in Calls :
    pc[c] = "done" /\ Audited(c) /\ effect[c] # "none"
      => \E o \in {"ok", "error", "unknown"} : <<c, "result", o>> \in readable

\* Once an agent's calls stop coming, all its slots are free again: no failure
\* of GitHub, of the disk or of a client takes a slot away for good.
EverySlotComesBack == \A a \in Agents : inflight[a] > 0 ~> inflight[a] = 0

-----------------------------------------------------------------------------
(* The audited writes as a reader of the log sees them.                     *)
WriteLog == INSTANCE WriteAhead
              WITH records <- readable,
                   effect <- [c \in Calls |-> IF Audited(c) THEN effect[c]
                                                            ELSE "none"],
                   own <- {c \in Calls : Local(c)}

\* Every audited write is on record before it leaves, leaves once, and has at
\* most one result on record, as definite as what is known of it and no more.
ImplementsWriteAhead == WriteLog!WSpec
=============================================================================
