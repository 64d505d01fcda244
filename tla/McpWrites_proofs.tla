--------------------------- MODULE McpWrites_proofs ---------------------------
(***************************************************************************)
(* Proofs about McpWrites for any number of calls, any agents with any     *)
(* allowlists, any cap and any faults of the environment.                  *)
(***************************************************************************)
EXTENDS McpWrites, FiniteSetTheorems, TLAPS

-----------------------------------------------------------------------------
(* Type correctness.                                                       *)

LEMMA TypeInit == Init => TypeOK
<1> SUFFICES ASSUME Init PROVE TypeOK
  OBVIOUS
<1>1. torn \in BOOLEAN
  BY DEF Init, LogInit
<1>2. /\ pc \in [Calls -> {"idle", "credential", "credentialed", "done", "gone"}
                          \cup Slotted]
      /\ outcome \in [Calls -> {"none", "ok", "error", "unknown"}]
      /\ effect \in [Calls -> {"none", "sent", "ok", "error"}]
  BY DEF Init
<1>3. req \in [Calls -> Requests \cup {NoRequest}]
  BY DEF Init
<1>4. inflight \in [Agents -> Nat]
  BY DEF Init
<1> QED
  BY <1>1, <1>2, <1>3, <1>4 DEF TypeOK

\* Releasing a slot, if one is held, leaves a table of counts.
LEMMA EndTyped ==
  ASSUME TypeOK, NEW c \in Calls, NEW how \in {"done", "gone"}, End(c, how)
  PROVE  /\ pc' = [pc EXCEPT ![c] = how]
         /\ inflight' \in [Agents -> Nat]
         /\ outcome' \in [Calls -> {"none", "ok", "error", "unknown"}]
<1>1. CASE Holds(c)
  <2> DEFINE a == req[c].agent
  <2>1. inflight' = [inflight EXCEPT ![a] = Less(@)]
    BY <1>1 DEF End
  <2>2. CASE a \in Agents
    BY <2>1, <2>2 DEF TypeOK, End, Less
  <2>3. CASE a \notin Agents
    BY <2>1, <2>3 DEF TypeOK, End
  <2> QED
    BY <2>2, <2>3
<1>2. CASE ~Holds(c)
  BY <1>2 DEF End, TypeOK
<1> QED
  BY <1>1, <1>2

LEMMA TypeStep == TypeOK /\ [Next]_vars => TypeOK'
<1> SUFFICES ASSUME TypeOK, [Next]_vars PROVE TypeOK'
  OBVIOUS
<1> USE McpWritesAssumption DEF TypeOK, Slotted, Goto, log
<1>1. ASSUME NEW c \in Calls, Start(c) PROVE TypeOK'
  BY <1>1 DEF Start
<1>2. ASSUME NEW c \in Calls, Deny(c) PROVE TypeOK'
  BY <1>2 DEF Deny
<1>3. ASSUME NEW c \in Calls, CredentialOk(c) PROVE TypeOK'
  BY <1>3 DEF CredentialOk
<1>4. ASSUME NEW c \in Calls, CredentialFailed(c) PROVE TypeOK'
  BY <1>4, EndTyped DEF CredentialFailed
<1>5. ASSUME NEW c \in Calls, AcquireSlot(c) PROVE TypeOK'
  BY <1>5 DEF AcquireSlot
<1>6. ASSUME NEW c \in Calls, NoSlot(c) PROVE TypeOK'
  BY <1>6, EndTyped DEF NoSlot
<1>7. ASSUME NEW c \in Calls, RecordRequest(c) PROVE TypeOK'
  BY <1>7 DEF RecordRequest, Persist
<1>8. ASSUME NEW c \in Calls, RecordRequestFails(c) PROVE TypeOK'
  BY <1>8, EndTyped DEF RecordRequestFails, PersistFails, Persist
<1>9. ASSUME NEW c \in Calls, Send(c) PROVE TypeOK'
  BY <1>9 DEF Send
<1>10. ASSUME NEW c \in Calls, Misconfigured(c) PROVE TypeOK'
  BY <1>10, EndTyped DEF Misconfigured
<1>11. ASSUME NEW c \in Calls, SendFailed(c) PROVE TypeOK'
  BY <1>11, EndTyped DEF SendFailed
<1>12. ASSUME NEW c \in Calls, ResponseBegins(c) PROVE TypeOK'
  BY <1>12, EndTyped DEF ResponseBegins
<1>13. ASSUME NEW c \in Calls, BodyComplete(c) PROVE TypeOK'
  BY <1>13 DEF BodyComplete
<1>14. ASSUME NEW c \in Calls, BodyBroken(c) PROVE TypeOK'
  BY <1>14 DEF BodyBroken
<1>15. ASSUME NEW c \in Calls, LocalRefused(c) PROVE TypeOK'
  BY <1>15 DEF LocalRefused
<1>16. ASSUME NEW c \in Calls, LocalSend(c) PROVE TypeOK'
  BY <1>16 DEF LocalSend
<1>17. ASSUME NEW c \in Calls, LocalAnswered(c) PROVE TypeOK'
  BY <1>17 DEF LocalAnswered
<1>18. ASSUME NEW c \in Calls, LocalLost(c) PROVE TypeOK'
  BY <1>18 DEF LocalLost
<1>19. ASSUME NEW c \in Calls, RecordResult(c) PROVE TypeOK'
  BY <1>19, EndTyped DEF RecordResult, PersistFails, Persist
<1>20. ASSUME NEW c \in Calls, GithubActs(c) PROVE TypeOK'
  BY <1>20 DEF GithubActs
<1>21. ASSUME NEW c \in Calls, Cancel(c) PROVE TypeOK'
  BY <1>21, EndTyped DEF Cancel
<1>22. CASE Crash
  BY <1>22 DEF Crash, LogCrash
<1>23. CASE UNCHANGED vars
  BY <1>23 DEF vars
<1> QED
  BY <1>1, <1>2, <1>3, <1>4, <1>5, <1>6, <1>7, <1>8, <1>9, <1>10, <1>11,
     <1>12, <1>13, <1>14, <1>15, <1>16, <1>17, <1>18, <1>19, <1>20, <1>21,
     <1>22, <1>23 DEF Next, Settle, Rest

\* Every reachable state is well typed.
THEOREM TypeCorrect == Spec => []TypeOK
  BY TypeInit, TypeStep, PTL DEF Spec

-----------------------------------------------------------------------------
(* The in-flight table counts the handlers that hold a slot.               *)

\* Only an agent's call needs a slot.
LEMMA HolderIsAgent ==
  ASSUME TypeOK, NEW c \in Calls, NeedsSlot(c) PROVE req[c].agent \in Agents
  BY McpWritesAssumption DEF TypeOK, NeedsSlot, IsWrite, Requests, NoRequest

LEMMA HoldersFinite ==
  ASSUME NEW a \in Agents
  PROVE  /\ IsFiniteSet(Holders(a))
         /\ Cardinality(Holders(a)) \in Nat
<1>1. Holders(a) \subseteq Calls
  BY DEF Holders
<1> QED
  BY <1>1, FS_Subset, FS_CardinalityType, McpWritesAssumption

\* A step that neither takes nor gives back a slot keeps the account.
LEMMA SlotsKept ==
  ASSUME SlotAccounting, inflight' = inflight,
         \A d \in Calls : Holds(d)' <=> Holds(d),
         \A d \in Calls : Holds(d) => req'[d] = req[d]
  PROVE  SlotAccounting'
<1>1. \A a \in Agents : Holders(a)' = Holders(a)
  BY DEF Holders
<1> QED
  BY <1>1 DEF SlotAccounting

\* A handler that ends gives back its slot, if it holds one, and no other.
LEMMA EndKeepsSlots ==
  ASSUME TypeOK, SlotAccounting, NEW c \in Calls, NEW how \in {"done", "gone"},
         End(c, how), req' = req
  PROVE  SlotAccounting'
<1>1. \A d \in Calls : Holds(d)' <=> (Holds(d) /\ d # c)
  BY DEF TypeOK, End, Holds, NeedsSlot, Slotted
<1>2. CASE ~Holds(c)
  <2>1. inflight' = inflight
    BY <1>2 DEF End
  <2> QED
    BY <1>1, <1>2, <2>1, SlotsKept
<1>3. CASE Holds(c)
  <2> DEFINE b == req[c].agent
  <2>1. b \in Agents
    BY <1>3, HolderIsAgent DEF Holds
  <2>2. inflight' = [inflight EXCEPT ![b] = Less(@)]
    BY <1>3 DEF End
  <2>3. \A a \in Agents : Holders(a)' = IF a = b THEN Holders(a) \ {c}
                                                ELSE Holders(a)
    BY <1>1 DEF Holders
  <2>4. c \in Holders(b)
    BY <1>3 DEF Holders
  <2>5. Cardinality(Holders(b) \ {c}) = Cardinality(Holders(b)) - 1
    BY <2>1, <2>4, HoldersFinite, FS_RemoveElement
  <2>6. Cardinality(Holders(b)) \in Nat /\ Cardinality(Holders(b)) # 0
    BY <2>1, <2>4, HoldersFinite, FS_EmptySet
  <2>7. inflight[b] = Cardinality(Holders(b)) /\ Less(inflight[b]) = inflight[b] - 1
    BY <2>1, <2>6 DEF SlotAccounting, Less
  <2> SUFFICES ASSUME NEW a \in Agents
               PROVE  /\ inflight'[a] = Cardinality(Holders(a)')
                      /\ Cap > 0 => inflight'[a] <= Cap
    BY DEF SlotAccounting
  <2>8. CASE a = b
    <3>1. inflight'[a] = inflight[b] - 1
      BY <2>1, <2>2, <2>7, <2>8 DEF TypeOK
    <3>2. Cardinality(Holders(a)') = Cardinality(Holders(b)) - 1
      BY <2>3, <2>5, <2>8
    <3>3. Cap > 0 => inflight[b] <= Cap
      BY <2>1 DEF SlotAccounting
    <3> QED
      BY <2>6, <2>7, <3>1, <3>2, <3>3, McpWritesAssumption
  <2>9. CASE a # b
    BY <2>2, <2>3, <2>9 DEF SlotAccounting, TypeOK
  <2> QED
    BY <2>8, <2>9
<1> QED
  BY <1>2, <1>3

LEMMA AcquireKeepsSlots ==
  ASSUME TypeOK, SlotAccounting, NEW c \in Calls, AcquireSlot(c)
  PROVE  SlotAccounting'
<1>1. /\ pc[c] = "credentialed" /\ pc' = [pc EXCEPT ![c] = "slotted"]
      /\ req' = req
  BY DEF AcquireSlot, Goto
<1>2. \A d \in Calls : Holds(d)' <=> (Holds(d) \/ (d = c /\ NeedsSlot(c)))
  BY <1>1 DEF TypeOK, Holds, NeedsSlot, Slotted
<1>3. ~Holds(c)
  BY <1>1 DEF Holds, Slotted
<1>4. CASE ~NeedsSlot(c)
  <2>1. inflight' = inflight
    BY <1>4 DEF AcquireSlot
  <2> QED
    BY <1>1, <1>2, <1>4, <2>1, SlotsKept
<1>5. CASE NeedsSlot(c)
  <2> DEFINE b == req[c].agent
  <2>1. b \in Agents
    BY <1>5, HolderIsAgent
  <2>2. /\ ~AtCap(b)
        /\ inflight' = [inflight EXCEPT ![b] = @ + 1]
    BY <1>5 DEF AcquireSlot
  <2>3. \A a \in Agents : Holders(a)' = IF a = b THEN Holders(a) \cup {c}
                                                ELSE Holders(a)
    BY <1>1, <1>2, <1>5 DEF Holders
  <2>4. c \notin Holders(b)
    BY <1>3 DEF Holders
  <2>5. Cardinality(Holders(b) \cup {c}) = Cardinality(Holders(b)) + 1
    BY <2>1, <2>4, HoldersFinite, FS_AddElement
  <2> SUFFICES ASSUME NEW a \in Agents
               PROVE  /\ inflight'[a] = Cardinality(Holders(a)')
                      /\ Cap > 0 => inflight'[a] <= Cap
    BY DEF SlotAccounting
  <2>6. CASE a = b
    <3>1. inflight'[a] = inflight[b] + 1 /\ inflight[b] \in Nat
      BY <2>1, <2>2, <2>6 DEF TypeOK
    <3>2. Cardinality(Holders(a)') = Cardinality(Holders(b)) + 1
      BY <2>3, <2>5, <2>6
    <3>3. inflight[b] = Cardinality(Holders(b))
      BY <2>1 DEF SlotAccounting
    <3>4. Cap > 0 => inflight[b] < Cap
      BY <2>2, <3>1, McpWritesAssumption DEF AtCap
    <3> QED
      BY <3>1, <3>2, <3>3, <3>4, McpWritesAssumption
  <2>7. CASE a # b
    BY <2>2, <2>3, <2>7 DEF SlotAccounting, TypeOK
  <2> QED
    BY <2>6, <2>7
<1> QED
  BY <1>4, <1>5

LEMMA SlotInit == Init => SlotAccounting
<1> SUFFICES ASSUME Init, NEW a \in Agents
             PROVE  /\ inflight[a] = Cardinality(Holders(a))
                    /\ Cap > 0 => inflight[a] <= Cap
  BY DEF SlotAccounting
<1>1. Holders(a) = {}
  BY DEF Init, Holders, Holds, Slotted
<1> QED
  BY <1>1, FS_EmptySet, McpWritesAssumption DEF Init

LEMMA SlotStep == TypeOK /\ SlotAccounting /\ [Next]_vars => SlotAccounting'
<1> SUFFICES ASSUME TypeOK, SlotAccounting, [Next]_vars PROVE SlotAccounting'
  OBVIOUS
<1>1. ASSUME NEW c \in Calls, Start(c) \/ Deny(c) \/ CredentialOk(c)
      PROVE  SlotAccounting'
  <2>1. /\ inflight' = inflight
        /\ \A d \in Calls : d # c => pc'[d] = pc[d] /\ req'[d] = req[d]
        /\ pc[c] \notin Slotted /\ pc'[c] \notin Slotted
    BY <1>1 DEF TypeOK, Start, Deny, CredentialOk, Goto, Slotted
  <2> QED
    BY <2>1, SlotsKept DEF Holds, NeedsSlot
<1>2. ASSUME NEW c \in Calls,
             \/ RecordRequest(c) \/ Send(c) \/ BodyComplete(c) \/ BodyBroken(c)
             \/ LocalRefused(c) \/ LocalSend(c) \/ LocalAnswered(c)
             \/ LocalLost(c)
      PROVE  SlotAccounting'
  <2>1. /\ inflight' = inflight /\ req' = req
        /\ \A d \in Calls : d # c => pc'[d] = pc[d]
        /\ pc[c] \in Slotted /\ pc'[c] \in Slotted
    BY <1>2 DEF TypeOK, RecordRequest, Send, BodyComplete, BodyBroken,
                LocalRefused, LocalSend, LocalAnswered, LocalLost, Goto, Slotted
  <2> QED
    BY <2>1, SlotsKept DEF Holds, NeedsSlot
<1>3. ASSUME NEW c \in Calls,
             \/ CredentialFailed(c) \/ NoSlot(c) \/ RecordRequestFails(c)
             \/ Misconfigured(c) \/ SendFailed(c) \/ RecordResult(c)
             \/ Cancel(c)
      PROVE  SlotAccounting'
  <2>1. req' = req /\ (End(c, "done") \/ End(c, "gone"))
    BY <1>3 DEF CredentialFailed, NoSlot, RecordRequestFails, Misconfigured,
                SendFailed, RecordResult, Cancel
  <2> QED
    BY <2>1, EndKeepsSlots
<1>4. ASSUME NEW c \in Calls, AcquireSlot(c) PROVE SlotAccounting'
  BY <1>4, AcquireKeepsSlots
<1>5. ASSUME NEW c \in Calls, ResponseBegins(c) PROVE SlotAccounting'
  <2>1. CASE Audited(c)
    <3>1. /\ inflight' = inflight /\ req' = req
          /\ \A d \in Calls : d # c => pc'[d] = pc[d]
          /\ pc[c] \in Slotted /\ pc'[c] \in Slotted
      BY <1>5, <2>1 DEF TypeOK, ResponseBegins, Goto, Slotted
    <3> QED
      BY <3>1, SlotsKept DEF Holds, NeedsSlot
  <2>2. CASE ~Audited(c)
    BY <1>5, <2>2, EndKeepsSlots DEF ResponseBegins
  <2> QED
    BY <2>1, <2>2
<1>6. ASSUME NEW c \in Calls, GithubActs(c) PROVE SlotAccounting'
  BY <1>6, SlotsKept DEF GithubActs, Holds, NeedsSlot
<1>7. CASE Crash
  <2>1. \A a \in Agents : Holders(a)' = {}
    BY <1>7 DEF Crash, Holders, Holds, Slotted
  <2>2. inflight' = [a \in Agents |-> 0]
    BY <1>7 DEF Crash
  <2>3. \A a \in Agents : inflight'[a] = 0 /\ Cardinality(Holders(a)') = 0
    BY <2>1, <2>2, FS_EmptySet
  <2>4. Cap > 0 => 0 <= Cap
    BY McpWritesAssumption
  <2> QED
    BY <2>3, <2>4 DEF SlotAccounting
<1>8. CASE UNCHANGED vars
  BY <1>8, SlotsKept DEF vars, Holds, NeedsSlot
<1> QED
  BY <1>1, <1>2, <1>3, <1>4, <1>5, <1>6, <1>7, <1>8 DEF Next, Settle, Rest

\* The in-flight table is exact and capped in every reachable state.
THEOREM SlotAccountingHolds == Spec => []SlotAccounting
  BY TypeInit, TypeStep, SlotInit, SlotStep, PTL DEF Spec

-----------------------------------------------------------------------------
(* A write is in the log before GitHub is sent it, if no append ever stops *)
(* inside a line.                                                          *)

\* Where a call is before its request record, and between it and the end.
Unsent == {"idle", "credential", "credentialed", "slotted"}
Forwardable == {"audited", "awaiting", "buffering", "mutating", "recording"}

\* The record exists from the moment the handler goes past it, not only when
\* GitHub has been sent the call: this is what makes the property inductive.
RequestOnRecord ==
  /\ torn = FALSE
  /\ \A c \in Calls :
       /\ pc[c] \in Unsent => effect[c] = "none"
       /\ Audited(c) /\ (pc[c] \in Forwardable \/ effect[c] # "none")
            => <<c, "request">> \in readable

LEMMA RequestInit == Init => RequestOnRecord
  BY DEF Init, LogInit, RequestOnRecord, Audited, IsWrite, NoRequest,
         Unsent, Forwardable

\* Records are never lost, and none is torn.
LEMMA LogGrows ==
  ASSUME "torn" \notin AuditFaults, torn = FALSE,
         \/ UNCHANGED log \/ LogCrash
         \/ \E r : Persist(r) \/ PersistFails(r)
  PROVE  torn' = FALSE /\ readable \subseteq readable'
  BY DEF log, LogCrash, Persist, PersistFails, WithLine

LEMMA RequestStep ==
  ASSUME "torn" \notin AuditFaults, TypeOK, RequestOnRecord, [Next]_vars
  PROVE  RequestOnRecord'
<1> USE DEF RequestOnRecord, Unsent, Forwardable, Audited
<1>1. ASSUME NEW c \in Calls, Start(c) PROVE RequestOnRecord'
  BY <1>1 DEF Start, Goto, TypeOK, log
<1>2. ASSUME NEW c \in Calls,
             \/ Deny(c) \/ CredentialOk(c) \/ CredentialFailed(c)
             \/ AcquireSlot(c) \/ NoSlot(c) \/ Misconfigured(c)
             \/ SendFailed(c) \/ ResponseBegins(c) \/ BodyComplete(c)
             \/ BodyBroken(c) \/ LocalRefused(c) \/ LocalAnswered(c)
             \/ LocalLost(c) \/ Cancel(c)
      PROVE  RequestOnRecord'
  <2>1. /\ UNCHANGED <<req, effect, readable, torn>>
        /\ \A d \in Calls : d # c => pc'[d] = pc[d]
        /\ pc[c] \in Unsent \cup Forwardable
        /\ pc'[c] \in Unsent => pc[c] \in Unsent
        /\ pc'[c] \in Forwardable => pc[c] \in Forwardable
    BY <1>2 DEF TypeOK, Deny, CredentialOk, CredentialFailed, AcquireSlot,
                NoSlot, Misconfigured, SendFailed, ResponseBegins,
                BodyComplete, BodyBroken, LocalRefused, LocalAnswered,
                LocalLost, Cancel, AtAwait, Goto, End, log
  <2> QED
    BY <2>1
<1>3. ASSUME NEW c \in Calls, RecordRequest(c) PROVE RequestOnRecord'
  <2>1. torn' = FALSE /\ readable \subseteq readable'
    BY <1>3, LogGrows DEF RecordRequest
  <2>2. Audited(c) => <<c, "request">> \in readable'
    BY <1>3 DEF RecordRequest, Persist, WithLine
  <2> QED
    BY <1>3, <2>1, <2>2 DEF RecordRequest, Goto, TypeOK
<1>4. ASSUME NEW c \in Calls, RecordRequestFails(c) \/ RecordResult(c)
      PROVE  RequestOnRecord'
  <2>1. torn' = FALSE /\ readable \subseteq readable'
    BY <1>4, LogGrows DEF RecordRequestFails, RecordResult
  <2>2. pc' = [pc EXCEPT ![c] = "done"] /\ UNCHANGED <<req, effect>>
    BY <1>4 DEF RecordRequestFails, RecordResult, End
  <2> QED
    BY <2>1, <2>2 DEF TypeOK
<1>5. ASSUME NEW c \in Calls, Send(c) \/ LocalSend(c) PROVE RequestOnRecord'
  BY <1>5 DEF Send, LocalSend, Goto, TypeOK, log
<1>6. ASSUME NEW c \in Calls, GithubActs(c) PROVE RequestOnRecord'
  BY <1>6 DEF GithubActs, TypeOK, log
<1>7. CASE Crash
  <2>1. torn' = FALSE /\ readable \subseteq readable'
    BY <1>7, LogGrows DEF Crash
  <2> QED
    BY <1>7, <2>1 DEF Crash
<1>8. CASE UNCHANGED vars
  BY <1>8 DEF vars
<1> QED
  BY <1>1, <1>2, <1>3, <1>4, <1>5, <1>6, <1>7, <1>8 DEF Next, Settle, Rest

LEMMA RequestOnRecordSuffices == RequestOnRecord => AuditedBeforeForward
  BY ConfigAssumption DEF RequestOnRecord, AuditedBeforeForward, Audited

\* No write reaches GitHub before its request record can be read, whatever
\* fails, as long as a failed append leaves no torn line behind.
THEOREM AuditedBeforeForwardHolds ==
  ("torn" \notin AuditFaults) /\ Spec => []AuditedBeforeForward
<1> SUFFICES ASSUME "torn" \notin AuditFaults
             PROVE  Spec => []AuditedBeforeForward
  OBVIOUS
<1>1. TypeOK /\ RequestOnRecord /\ [Next]_vars => RequestOnRecord'
  BY RequestStep
<1> QED
  BY <1>1, TypeInit, TypeStep, RequestInit, RequestOnRecordSuffices, PTL
  DEF Spec

-----------------------------------------------------------------------------
(* What the log says of a call is what GitHub did.                         *)

\* An outcome o of a call of this tool that does not contradict effect e.
Agrees(tool, o, e) ==
  /\ o = "ok" => e = "ok"
  /\ o = "error" /\ tool \notin LocalTools => e = "error"

\* A handler has no result record before its end, and the outcome it is about
\* to record is already true; GitHub does not change what it has done.
OutcomeKnown ==
  \A c \in Calls :
    /\ pc[c] = "mutating" => Local(c)
    /\ pc[c] \notin {"done", "gone"}
         => \A o : <<c, "result", o>> \notin readable
    /\ pc[c] = "recording" => Agrees(req[c].tool, outcome[c], effect[c])
    /\ \A o : <<c, "result", o>> \in readable => Agrees(req[c].tool, o, effect[c])

LEMMA OutcomeInit == Init => OutcomeKnown
  BY DEF Init, LogInit, OutcomeKnown

\* An append adds at most its own record.
LEMMA AppendAddsOnly ==
  ASSUME NEW r, Persist(r) \/ PersistFails(r)
  PROVE  readable' \subseteq readable \cup {r}
  BY DEF Persist, PersistFails, WithLine, log

LEMMA OutcomeStep ==
  ASSUME TypeOK, OutcomeKnown, [Next]_vars PROVE OutcomeKnown'
<1> USE DEF OutcomeKnown, Local
<1>1. ASSUME NEW c \in Calls, Start(c) PROVE OutcomeKnown'
  BY <1>1 DEF Start, Goto, TypeOK, log
<1>2. ASSUME NEW c \in Calls,
             \/ Deny(c) \/ CredentialOk(c) \/ CredentialFailed(c)
             \/ AcquireSlot(c) \/ NoSlot(c) \/ Misconfigured(c)
             \/ SendFailed(c) \/ ResponseBegins(c) \/ Cancel(c)
      PROVE  OutcomeKnown'
  <2>1. /\ UNCHANGED <<req, effect, readable>>
        /\ \A d \in Calls : d # c => pc'[d] = pc[d] /\ outcome'[d] = outcome[d]
        /\ pc[c] \notin {"done", "gone"}
        /\ pc'[c] \notin {"recording", "mutating"}
    BY <1>2 DEF TypeOK, Deny, CredentialOk, CredentialFailed, AcquireSlot,
                NoSlot, Misconfigured, SendFailed, ResponseBegins, Cancel,
                AtAwait, Goto, End, log
  <2> QED
    BY <2>1
<1>3. ASSUME NEW c \in Calls, RecordRequest(c) \/ RecordRequestFails(c)
      PROVE  OutcomeKnown'
  <2>1. \A d \in Calls : \A o : <<d, "result", o>> \in readable'
                             => <<d, "result", o>> \in readable
    <3>1. readable' \subseteq readable \cup {<<c, "request">>}
      BY <1>3, AppendAddsOnly DEF RecordRequest, RecordRequestFails, log
    <3> QED
      BY <3>1
  <2>2. /\ UNCHANGED <<req, effect>>
        /\ \A d \in Calls : d # c => pc'[d] = pc[d] /\ outcome'[d] = outcome[d]
        /\ pc[c] = "slotted"
        /\ pc'[c] \notin {"recording", "mutating"}
    BY <1>3 DEF TypeOK, RecordRequest, RecordRequestFails, Goto, End
  <2> QED
    BY <2>1, <2>2
<1>4. ASSUME NEW c \in Calls, Send(c) \/ LocalSend(c) PROVE OutcomeKnown'
  BY <1>4 DEF Send, LocalSend, Goto, TypeOK, log
<1>5. ASSUME NEW c \in Calls, BodyComplete(c) PROVE OutcomeKnown'
  <2>1. Agrees(req[c].tool, outcome'[c], effect[c])
    BY <1>5 DEF BodyComplete, TypeOK, Agrees
  <2> QED
    BY <1>5, <2>1 DEF BodyComplete, Goto, TypeOK, log
<1>6. ASSUME NEW c \in Calls, BodyBroken(c) PROVE OutcomeKnown'
  <2>1. Agrees(req[c].tool, outcome'[c], effect[c])
    BY <1>6 DEF BodyBroken, TypeOK, Agrees
  <2> QED
    BY <1>6, <2>1 DEF BodyBroken, Goto, TypeOK, log
<1>7. ASSUME NEW c \in Calls, LocalRefused(c) PROVE OutcomeKnown'
  <2>1. Agrees(req[c].tool, outcome'[c], effect[c])
    BY <1>7 DEF LocalRefused, TypeOK, Agrees
  <2> QED
    BY <1>7, <2>1 DEF LocalRefused, Goto, TypeOK, log
<1>8. ASSUME NEW c \in Calls, LocalAnswered(c) \/ LocalLost(c)
      PROVE  OutcomeKnown'
  <2>1. pc[c] = "mutating" /\ pc' = [pc EXCEPT ![c] = "recording"]
    BY <1>8 DEF LocalAnswered, LocalLost, Goto
  <2>2. Agrees(req[c].tool, outcome'[c], effect[c])
    BY <1>8, <2>1 DEF LocalAnswered, LocalLost, TypeOK, Agrees
  <2> QED
    BY <1>8, <2>1, <2>2 DEF LocalAnswered, LocalLost, TypeOK, log
<1>9. ASSUME NEW c \in Calls, RecordResult(c) PROVE OutcomeKnown'
  <2>1. readable' \subseteq readable \cup {<<c, "result", outcome[c]>>}
    BY <1>9, AppendAddsOnly DEF RecordResult
  <2>2. \A d \in Calls : \A o : d # c /\ <<d, "result", o>> \in readable'
                               => <<d, "result", o>> \in readable
    BY <2>1
  <2>3. \A o : <<c, "result", o>> \in readable'
                => <<c, "result", o>> \in readable \/ o = outcome[c]
    BY <2>1
  <2>4. /\ UNCHANGED <<req, effect>>
        /\ \A d \in Calls : d # c => pc'[d] = pc[d] /\ outcome'[d] = outcome[d]
        /\ pc[c] = "recording" /\ pc'[c] = "done"
    BY <1>9 DEF TypeOK, RecordResult, End
  <2> QED
    BY <2>2, <2>3, <2>4
<1>10. ASSUME NEW c \in Calls, GithubActs(c) PROVE OutcomeKnown'
  <2>1. \A o : Agrees(req[c].tool, o, effect[c]) => Agrees(req[c].tool, o, effect'[c])
    BY <1>10 DEF GithubActs, TypeOK, Agrees
  <2> QED
    BY <1>10, <2>1 DEF GithubActs, TypeOK, log
<1>11. CASE Crash
  BY <1>11 DEF Crash, LogCrash
<1>12. CASE UNCHANGED vars
  BY <1>12 DEF vars
<1> QED
  BY <1>1, <1>2, <1>3, <1>4, <1>5, <1>6, <1>7, <1>8, <1>9, <1>10, <1>11,
     <1>12 DEF Next, Settle, Rest

LEMMA OutcomeKnownSuffices == OutcomeKnown => OutcomesTrue
  BY DEF OutcomeKnown, OutcomesTrue, Agrees, Local

\* The log never misreports a success, nor a forwarded call, even with torn and
\* failing appends, disconnecting clients and crashes.
THEOREM OutcomesTrueHolds == Spec => []OutcomesTrue
<1>1. TypeOK /\ OutcomeKnown /\ [Next]_vars => OutcomeKnown'
  BY OutcomeStep
<1> QED
  BY <1>1, TypeInit, TypeStep, OutcomeInit, OutcomeKnownSuffices, PTL DEF Spec

-----------------------------------------------------------------------------
(* What a handler knows of its call on the way to the result record.       *)

LEMMA LocalIsAudited ==
  ASSUME NEW r, r = NoRequest \/ Admitted(r), r.tool \in LocalTools
  PROVE  IsWrite(r) /\ HasAudit
<1>1. r # NoRequest
  BY McpWritesAssumption DEF NoRequest
<1>2. Admitted(r) /\ EnableWrites
  BY <1>1 DEF Admitted
<1> QED
  BY <1>2, McpWritesAssumption, ConfigAssumption DEF IsWrite

\* A forwarded call that awaits its response was sent; only audited calls are
\* concluded, and an outcome is "unknown" only of a call that was forwarded.
Concluding(c) ==
  /\ pc[c] = "audited" => effect[c] = "none"
  /\ pc[c] \in {"awaiting", "buffering"} => ~Local(c) /\ effect[c] # "none"
  /\ pc[c] \in {"buffering", "recording"} => Audited(c)
  /\ pc[c] = "recording" =>
       /\ outcome[c] \in {"ok", "error", "unknown"}
       /\ outcome[c] = "unknown" => ~Local(c) /\ effect[c] # "none"

\* Nothing is known or recorded of a call before it was admitted.
Admission(c) ==
  /\ req[c] = NoRequest \/ Admitted(req[c])
  /\ pc[c] = "idle" => req[c] = NoRequest
  /\ pc[c] \in Unsent => <<c, "request">> \notin readable

CallInv == \A c \in Calls : Admission(c) /\ Concluding(c)

LEMMA CallInit == Init => CallInv
  BY DEF Init, LogInit, CallInv, Admission, Concluding, Unsent

\* Of a call whose task does not move, nothing changes but what GitHub does.
LEMMA CallKept ==
  ASSUME NEW c \in Calls, Admission(c), Concluding(c),
         UNCHANGED <<pc[c], req[c], outcome[c]>>,
         effect[c] # "none" => effect'[c] # "none",
         effect[c] = "none" => effect'[c] = "none",
         <<c, "request">> \in readable' => <<c, "request">> \in readable
  PROVE  Admission(c)' /\ Concluding(c)'
BY DEF Admission, Concluding, Local, Audited

LEMMA CallStep ==
  ASSUME TypeOK, CallInv, RequestOnRecord, OutcomeKnown, [Next]_vars
  PROVE  CallInv'
<1> USE DEF CallInv
<1>1. ASSUME NEW c \in Calls, Start(c) PROVE CallInv'
  <2>1. /\ pc[c] = "idle" /\ pc' = [pc EXCEPT ![c] = "credential"]
        /\ UNCHANGED <<outcome, effect, readable>>
    BY <1>1 DEF Start, Goto, log
  <2>2. PICK r \in Requests : Admitted(r) /\ req' = [req EXCEPT ![c] = r]
    BY <1>1 DEF Start
  <2>3. Admission(c)' /\ Concluding(c)'
    BY <2>1, <2>2 DEF TypeOK, Admission, Concluding, Unsent
  <2>4. \A d \in Calls \ {c} : UNCHANGED <<pc[d], req[d], outcome[d]>>
    BY <2>1, <2>2 DEF TypeOK
  <2> QED
    BY <2>1, <2>3, <2>4, CallKept
<1>2. ASSUME NEW c \in Calls,
             \/ Deny(c) \/ CredentialFailed(c) \/ NoSlot(c) \/ Misconfigured(c)
             \/ SendFailed(c) \/ Cancel(c) \/ RecordRequestFails(c)
             \/ RecordResult(c) \/ (ResponseBegins(c) /\ ~Audited(c))
      PROVE  CallInv'
  <2>1. /\ UNCHANGED <<req, effect>> /\ pc'[c] \in {"done", "gone"}
        /\ \A d \in Calls \ {c} : UNCHANGED <<pc[d], req[d], outcome[d]>>
    BY <1>2 DEF TypeOK, Deny, CredentialFailed, NoSlot, Misconfigured, SendFailed,
                Cancel, RecordRequestFails, RecordResult, ResponseBegins, Goto, End
  <2>2. \/ UNCHANGED readable
        \/ \E r \in {<<c, "request">>, <<c, "result", outcome[c]>>} :
             Persist(r) \/ PersistFails(r)
    BY <1>2 DEF Deny, CredentialFailed, NoSlot, Misconfigured, SendFailed,
                Cancel, RecordRequestFails, RecordResult, ResponseBegins, log
  <2>3. \A d \in Calls \ {c} : <<d, "request">> \in readable'
                                 => <<d, "request">> \in readable
    BY <2>2, AppendAddsOnly
  <2>4. Admission(c)' /\ Concluding(c)'
    BY <2>1 DEF Admission, Concluding, Unsent
  <2> QED
    BY <2>1, <2>3, <2>4, CallKept
<1>3. ASSUME NEW c \in Calls, CredentialOk(c) \/ AcquireSlot(c) PROVE CallInv'
  <2>1. /\ UNCHANGED <<req, outcome, effect, readable>>
        /\ pc[c] \in Unsent \ {"idle"} /\ pc'[c] \in {"credentialed", "slotted"}
        /\ \A d \in Calls \ {c} : UNCHANGED pc[d]
    BY <1>3 DEF TypeOK, CredentialOk, AcquireSlot, Goto, log, Unsent
  <2>2. Admission(c)' /\ Concluding(c)'
    BY <2>1 DEF Admission, Concluding, Unsent
  <2> QED
    BY <2>1, <2>2, CallKept
<1>4. ASSUME NEW c \in Calls, RecordRequest(c) PROVE CallInv'
  <2>1. /\ UNCHANGED <<req, outcome, effect>> /\ pc[c] = "slotted"
        /\ pc' = [pc EXCEPT ![c] = "audited"]
        /\ readable' \subseteq readable \cup {<<c, "request">>}
    BY <1>4, AppendAddsOnly DEF RecordRequest, Goto, log
  <2>2. Admission(c)' /\ Concluding(c)'
    BY <2>1 DEF TypeOK, Admission, Concluding, RequestOnRecord, Unsent
  <2>3. \A d \in Calls \ {c} :
          /\ UNCHANGED pc[d]
          /\ <<d, "request">> \in readable' => <<d, "request">> \in readable
    BY <2>1 DEF TypeOK
  <2> QED
    BY <2>1, <2>2, <2>3, CallKept
<1>5. ASSUME NEW c \in Calls,
             \/ Send(c) \/ LocalSend(c) \/ (ResponseBegins(c) /\ Audited(c))
             \/ BodyComplete(c) \/ BodyBroken(c) \/ LocalRefused(c)
             \/ LocalAnswered(c) \/ LocalLost(c)
      PROVE  CallInv'
  <2>1. /\ UNCHANGED <<req, readable>>
        /\ pc[c] \in Forwardable /\ pc'[c] \in Forwardable \ {"audited"}
        /\ \A d \in Calls \ {c} : UNCHANGED <<pc[d], outcome[d], effect[d]>>
    BY <1>5 DEF TypeOK, Send, LocalSend, ResponseBegins, BodyComplete, BodyBroken,
                LocalRefused, LocalAnswered, LocalLost, Goto, log, Forwardable
  <2>2. Admission(c)'
    BY <2>1 DEF Admission, Unsent, Forwardable
  <2>3. Local(c)' = Local(c) /\ Audited(c)' = Audited(c) /\ (Local(c) => Audited(c))
    BY <2>1, LocalIsAudited DEF Local, Audited, Admission
  <2>4. Concluding(c)'
    <3>1. CASE Send(c) \/ LocalSend(c)
      BY <2>3, <3>1 DEF Send, LocalSend, Concluding, Goto, TypeOK
    <3>2. CASE ResponseBegins(c) /\ Audited(c)
      BY <2>3, <3>2 DEF ResponseBegins, Concluding, Goto, TypeOK
    <3>3. CASE BodyComplete(c)
      BY <2>3, <3>3 DEF BodyComplete, Concluding, Goto, TypeOK
    <3>4. CASE BodyBroken(c)
      BY <2>3, <3>4 DEF BodyBroken, Concluding, Goto, TypeOK
    <3>5. CASE LocalRefused(c)
      BY <2>3, <3>5 DEF LocalRefused, Concluding, Goto, TypeOK
    <3>6. CASE LocalAnswered(c)
      BY <2>3, <3>6 DEF LocalAnswered, Concluding, OutcomeKnown, Goto, TypeOK
    <3>7. CASE LocalLost(c)
      BY <2>3, <3>7 DEF LocalLost, Concluding, OutcomeKnown, Goto, TypeOK
    <3> QED
      BY <1>5, <3>1, <3>2, <3>3, <3>4, <3>5, <3>6, <3>7
  <2> QED
    BY <2>1, <2>2, <2>4, CallKept
<1>6. ASSUME NEW c \in Calls, GithubActs(c) PROVE CallInv'
  BY <1>6, CallKept DEF GithubActs, TypeOK, log
<1>7. CASE Crash
  <2>1. ASSUME NEW c \in Calls PROVE Admission(c)' /\ Concluding(c)'
    BY <1>7 DEF Crash, LogCrash, Admission, Concluding, Unsent
  <2> QED
    BY <2>1
<1>8. CASE UNCHANGED vars
  BY <1>8, CallKept DEF vars
<1> QED
  BY <1>1, <1>2, <1>3, <1>4, <1>5, <1>6, <1>7, <1>8 DEF Next, Settle, Rest

LEMMA WritesInv ==
  ("torn" \notin AuditFaults) /\ Spec
    => [](TypeOK /\ RequestOnRecord /\ OutcomeKnown /\ CallInv)
<1> SUFFICES ASSUME "torn" \notin AuditFaults
             PROVE  Spec => [](TypeOK /\ RequestOnRecord /\ OutcomeKnown /\ CallInv)
  OBVIOUS
<1>1. TypeOK /\ RequestOnRecord /\ [Next]_vars => RequestOnRecord'
  BY RequestStep
<1>2. TypeOK /\ OutcomeKnown /\ [Next]_vars => OutcomeKnown'
  BY OutcomeStep
<1>3. TypeOK /\ CallInv /\ RequestOnRecord /\ OutcomeKnown /\ [Next]_vars => CallInv'
  BY CallStep
<1> QED
  BY <1>1, <1>2, <1>3, TypeInit, TypeStep, RequestInit, OutcomeInit, CallInit, PTL
  DEF Spec

-----------------------------------------------------------------------------
(* The refinement of WriteAhead.                                           *)

Effect(c) == IF Audited(c) THEN effect[c] ELSE "none"

LEMMA WriteAheadInit == Init => WriteLog!WInit
<1> SUFFICES ASSUME Init PROVE WriteLog!WInit
  OBVIOUS
<1>1. \A c \in Calls : ~Local(c) /\ effect[c] = "none"
  BY McpWritesAssumption DEF Init, Local, NoRequest
<1> QED
  BY <1>1 DEF Init, LogInit, WriteLog!WInit

\* A call that is admitted is not on record yet, and may be one of an own tool.
LEMMA StartTakes ==
  ASSUME TypeOK, RequestOnRecord, CallInv, NEW c \in Calls, Start(c)
  PROVE  UNCHANGED WriteLog!wvars \/ WriteLog!TakeOwn(c)
<1>1. /\ pc[c] = "idle" /\ req[c] = NoRequest /\ UNCHANGED <<effect, readable>>
      /\ \E r \in Requests : req' = [req EXCEPT ![c] = r]
      /\ effect[c] = "none" /\ <<c, "request">> \notin readable
  BY DEF Start, CallInv, Admission, RequestOnRecord, Unsent, log
<1>2. \A d \in Calls : Effect(d)' = Effect(d)
  BY <1>1 DEF Effect, Audited, TypeOK
<1>3. ~Local(c) /\ \A d \in Calls \ {c} : Local(d)' = Local(d)
  BY <1>1, McpWritesAssumption DEF Local, NoRequest, TypeOK
<1>4. CASE Local(c)'
  <2>1. {d \in Calls : Local(d)}' = {d \in Calls : Local(d)} \cup {c}
    BY <1>3, <1>4
  <2>2. [d \in Calls |-> Effect(d)][c] = "none"
    BY <1>1 DEF Effect
  <2> QED
    BY <1>1, <1>2, <2>1, <2>2 DEF WriteLog!TakeOwn, WriteLog!Request, Effect
<1>5. CASE ~Local(c)'
  <2>1. {d \in Calls : Local(d)}' = {d \in Calls : Local(d)}
    BY <1>3, <1>5
  <2> QED
    BY <1>1, <1>2, <2>1 DEF WriteLog!wvars, Effect
<1> QED
  BY <1>4, <1>5

\* What the log and the effects of the audited calls decide: when these and the
\* requests stay, a reader of the log sees nothing.
LEMMA NothingSeen ==
  ASSUME UNCHANGED <<req, readable>>, \A c \in Calls : Effect(c)' = Effect(c)
  PROVE  UNCHANGED WriteLog!wvars
<1>1. {c \in Calls : Local(c)}' = {c \in Calls : Local(c)}
  BY DEF Local
<1> QED
  BY <1>1 DEF WriteLog!wvars, Effect

LEMMA NotConcluded ==
  ASSUME OutcomeKnown, NEW c \in Calls, pc[c] \notin {"done", "gone"}
  PROVE  ~WriteLog!Concluded(c)
BY DEF OutcomeKnown, WriteLog!Concluded, WriteLog!Result

\* The append of a request record, whether append() says so or not.
LEMMA RecordAnnounces ==
  ASSUME TypeOK, RequestOnRecord, OutcomeKnown, NEW c \in Calls,
         "torn" \notin AuditFaults, RecordRequest(c) \/ RecordRequestFails(c)
  PROVE  UNCHANGED WriteLog!wvars \/ WriteLog!Announce(c)
<1>1. /\ pc[c] = "slotted" /\ UNCHANGED <<req, effect>>
      /\ \/ UNCHANGED readable
         \/ readable' = readable \cup {<<c, "request">>}
  BY DEF RecordRequest, RecordRequestFails, Persist, PersistFails, WithLine, log,
         RequestOnRecord
<1>2. \A d \in Calls : Effect(d)' = Effect(d) /\ Local(d)' = Local(d)
  BY <1>1 DEF Effect, Audited, Local
<1>3. CASE UNCHANGED readable
  BY <1>1, <1>2, <1>3, NothingSeen
<1>4. CASE readable' = readable \cup {<<c, "request">>}
  <2>1. [d \in Calls |-> Effect(d)][c] = "none"
    BY <1>1 DEF Effect, RequestOnRecord, Unsent
  <2>2. {d \in Calls : Local(d)}' = {d \in Calls : Local(d)}
    BY <1>2
  <2>3. ~WriteLog!Concluded(c)
    BY <1>1, NotConcluded
  <2> QED
    BY <1>2, <1>4, <2>1, <2>2, <2>3 DEF WriteLog!Announce, WriteLog!Request, Effect
<1> QED
  BY <1>1, <1>3, <1>4

\* A call leaves once, after its request record, and before any result.
LEMMA SendSends ==
  ASSUME TypeOK, RequestOnRecord, OutcomeKnown, CallInv, NEW c \in Calls,
         Send(c) \/ LocalSend(c)
  PROVE  UNCHANGED WriteLog!wvars \/ WriteLog!SendOnce(c)
<1>1. /\ pc[c] = "audited" /\ effect[c] = "none"
      /\ effect' = [effect EXCEPT ![c] = "sent"] /\ UNCHANGED <<req, readable>>
  BY DEF Send, LocalSend, log, CallInv, Concluding
<1>2. \A d \in Calls \ {c} : Effect(d)' = Effect(d)
  BY <1>1 DEF Effect, Audited, TypeOK
<1>3. \A d \in Calls : Local(d)' = Local(d)
  BY <1>1 DEF Local
<1>4. CASE ~Audited(c)
  <2>1. Effect(c)' = Effect(c)
    BY <1>1, <1>4 DEF Effect, Audited
  <2> QED
    BY <1>1, <1>2, <2>1, NothingSeen
<1>5. CASE Audited(c)
  <2>1. <<c, "request">> \in readable
    BY <1>1, <1>5 DEF RequestOnRecord, Forwardable
  <2>2. Effect(c) = "none" /\ Effect(c)' = "sent"
    BY <1>1, <1>5 DEF Effect, Audited, TypeOK
  <2>3. [d \in Calls |-> Effect(d)]'
          = [[d \in Calls |-> Effect(d)] EXCEPT ![c] = "sent"]
    BY <1>2, <2>2
  <2>4. {d \in Calls : Local(d)}' = {d \in Calls : Local(d)}
    BY <1>3
  <2>5. ~WriteLog!Concluded(c)
    BY <1>1, NotConcluded
  <2> QED
    BY <1>1, <2>1, <2>2, <2>3, <2>4, <2>5
    DEF WriteLog!SendOnce, WriteLog!Request, Effect
<1> QED
  BY <1>4, <1>5

LEMMA GithubServes ==
  ASSUME TypeOK, NEW c \in Calls, GithubActs(c)
  PROVE  UNCHANGED WriteLog!wvars \/ WriteLog!ServerActs(c)
<1>1. PICK e \in {"ok", "error"} : effect' = [effect EXCEPT ![c] = e]
  BY DEF GithubActs
<1>2. effect[c] = "sent" /\ UNCHANGED <<req, readable>>
  BY DEF GithubActs, log
<1>3. \A d \in Calls \ {c} : Effect(d)' = Effect(d)
  BY <1>1, <1>2 DEF Effect, Audited, TypeOK
<1>4. CASE ~Audited(c)
  <2>1. Effect(c)' = Effect(c)
    BY <1>2, <1>4 DEF Effect, Audited
  <2> QED
    BY <1>2, <1>3, <2>1, NothingSeen
<1>5. CASE Audited(c)
  <2>1. Effect(c) = "sent" /\ Effect(c)' = e
    BY <1>1, <1>2, <1>5 DEF Effect, Audited, TypeOK
  <2>2. [d \in Calls |-> Effect(d)]'
          = [[d \in Calls |-> Effect(d)] EXCEPT ![c] = e]
    BY <1>3, <2>1
  <2>3. {d \in Calls : Local(d)}' = {d \in Calls : Local(d)}
    BY <1>2 DEF Local
  <2> QED
    BY <1>2, <2>1, <2>2, <2>3 DEF WriteLog!ServerActs, Effect
<1> QED
  BY <1>4, <1>5

\* A call has one result record, and it says what is known of the call.
LEMMA ResultConcludes ==
  ASSUME TypeOK, RequestOnRecord, OutcomeKnown, CallInv, NEW c \in Calls,
         "torn" \notin AuditFaults, RecordResult(c)
  PROVE  \/ UNCHANGED WriteLog!wvars
         \/ \E o \in {"ok", "error", "unknown"} : WriteLog!Conclude(c, o)
<1>1. /\ pc[c] = "recording" /\ UNCHANGED <<req, effect>>
      /\ \/ UNCHANGED readable
         \/ readable' = readable \cup {<<c, "result", outcome[c]>>}
  BY DEF RecordResult, Persist, PersistFails, WithLine, log, RequestOnRecord
<1>2. \A d \in Calls : Effect(d)' = Effect(d) /\ Local(d)' = Local(d)
  BY <1>1 DEF Effect, Audited, Local
<1>3. CASE UNCHANGED readable
  BY <1>1, <1>2, <1>3, NothingSeen
<1>4. CASE readable' = readable \cup {<<c, "result", outcome[c]>>}
  <2>1. PICK o \in {"ok", "error", "unknown"} : o = outcome[c]
    BY <1>1 DEF CallInv, Concluding
  <2>2. Audited(c) /\ <<c, "request">> \in readable
    BY <1>1 DEF CallInv, Concluding, RequestOnRecord, Forwardable
  <2>3. Agrees(req[c].tool, o, effect[c])
    BY <1>1, <2>1 DEF OutcomeKnown
  <2>4. o = "unknown" => ~Local(c) /\ effect[c] # "none"
    BY <1>1, <2>1 DEF CallInv, Concluding
  <2>5. [d \in Calls |-> Effect(d)][c] = effect[c]
    BY <2>2 DEF Effect
  <2>6. WriteLog!Justified(c, o)
    BY <2>3, <2>4, <2>5 DEF WriteLog!Justified, Agrees, Local, Effect
  <2>7. {d \in Calls : Local(d)}' = {d \in Calls : Local(d)}
    BY <1>2
  <2>8. ~WriteLog!Concluded(c)
    BY <1>1, NotConcluded
  <2>9. WriteLog!Conclude(c, o)
    BY <1>2, <1>4, <2>1, <2>2, <2>6, <2>7, <2>8
    DEF WriteLog!Conclude, WriteLog!Request, WriteLog!Result, Effect
  <2> QED
    BY <2>9
<1> QED
  BY <1>1, <1>3, <1>4

LEMMA WriteAheadStep ==
  ASSUME "torn" \notin AuditFaults, TypeOK, RequestOnRecord, OutcomeKnown, CallInv,
         [Next]_vars
  PROVE  [WriteLog!WNext]_(WriteLog!wvars)
<1>1. ASSUME NEW c \in Calls, Start(c) PROVE [WriteLog!WNext]_(WriteLog!wvars)
  BY <1>1, StartTakes DEF WriteLog!WNext
<1>2. ASSUME NEW c \in Calls, RecordRequest(c) \/ RecordRequestFails(c)
      PROVE  [WriteLog!WNext]_(WriteLog!wvars)
  BY <1>2, RecordAnnounces DEF WriteLog!WNext
<1>3. ASSUME NEW c \in Calls, Send(c) \/ LocalSend(c)
      PROVE  [WriteLog!WNext]_(WriteLog!wvars)
  BY <1>3, SendSends DEF WriteLog!WNext
<1>4. ASSUME NEW c \in Calls, GithubActs(c) PROVE [WriteLog!WNext]_(WriteLog!wvars)
  BY <1>4, GithubServes DEF WriteLog!WNext
<1>5. ASSUME NEW c \in Calls, RecordResult(c)
      PROVE  [WriteLog!WNext]_(WriteLog!wvars)
  BY <1>5, ResultConcludes DEF WriteLog!WNext
<1>6. ASSUME NEW c \in Calls,
             \/ Deny(c) \/ CredentialOk(c) \/ CredentialFailed(c)
             \/ AcquireSlot(c) \/ NoSlot(c) \/ Misconfigured(c)
             \/ SendFailed(c) \/ ResponseBegins(c) \/ BodyComplete(c)
             \/ BodyBroken(c) \/ LocalRefused(c) \/ LocalAnswered(c)
             \/ LocalLost(c) \/ Cancel(c)
      PROVE  UNCHANGED <<req, effect, readable>>
  BY <1>6 DEF Deny, CredentialOk, CredentialFailed, AcquireSlot, NoSlot,
              Misconfigured, SendFailed, ResponseBegins, BodyComplete, BodyBroken,
              LocalRefused, LocalAnswered, LocalLost, Cancel, log
<1>7. ASSUME Crash \/ UNCHANGED vars PROVE UNCHANGED <<req, effect, readable>>
  BY <1>7 DEF Crash, LogCrash, vars
<1>8. ASSUME UNCHANGED <<req, effect, readable>>
      PROVE  UNCHANGED WriteLog!wvars
  BY <1>8, NothingSeen DEF Effect, Audited
<1> QED
  BY <1>1, <1>2, <1>3, <1>4, <1>5, <1>6, <1>7, <1>8 DEF Next, Settle, Rest

\* As long as no append stops inside a line, the log is a write-ahead log of
\* GitHub's effects: every audited write is on record before it is sent, is sent
\* once, and has at most one result, as definite as what is known of it.
THEOREM WriteAheadImplemented ==
  ("torn" \notin AuditFaults) /\ Spec => ImplementsWriteAhead
<1> SUFFICES ASSUME "torn" \notin AuditFaults PROVE Spec => ImplementsWriteAhead
  OBVIOUS
<1>1. TypeOK /\ RequestOnRecord /\ OutcomeKnown /\ CallInv /\ [Next]_vars
        => [WriteLog!WNext]_(WriteLog!wvars)
  BY WriteAheadStep
<1>2. Spec => [](TypeOK /\ RequestOnRecord /\ OutcomeKnown /\ CallInv)
  BY WritesInv, PTL
<1> QED
  BY <1>1, <1>2, WriteAheadInit, PTL
  DEF Spec, ImplementsWriteAhead, WriteLog!WSpec

-----------------------------------------------------------------------------
(* Why an answered write may lack its result (finding writes_unrecorded):  *)
(* with a log that takes every record, only a failed send leaves it out.   *)

HasResult(c) == \E o \in {"ok", "error", "unknown"} : <<c, "result", o>> \in readable

\* A write that was sent is on its way to its result record, or cut off.
ResultDue ==
  \A c \in Calls :
    Audited(c) /\ effect[c] # "none"
      => \/ pc[c] \in {"awaiting", "buffering", "mutating", "recording", "gone"}
         \/ HasResult(c)

LEMMA DueInit == Init => ResultDue
  BY DEF Init, ResultDue

\* Nothing is taken out of the log, and nothing is undone by GitHub.
LEMMA DueKept ==
  ASSUME ResultDue, NEW c \in Calls, UNCHANGED <<pc[c], req[c], effect[c]>>,
         readable \subseteq readable'
  PROVE  (Audited(c) /\ effect[c] # "none"
            => \/ pc[c] \in {"awaiting", "buffering", "mutating", "recording", "gone"}
               \/ HasResult(c))'
BY DEF ResultDue, Audited, HasResult

LEMMA DueStep ==
  ASSUME AuditFaults = {}, TypeOK, RequestOnRecord, CallInv, ResultDue,
         [Next]_vars, \A c \in Calls : Audited(c) => ~SendFailed(c)
  PROVE  ResultDue'
<1>1. ASSUME NEW c \in Calls, Start(c) \/ CredentialOk(c) \/ AcquireSlot(c)
      PROVE  ResultDue'
  <2>1. /\ UNCHANGED <<effect, readable>> /\ effect[c] = "none"
        /\ \A d \in Calls \ {c} : UNCHANGED <<pc[d], req[d]>>
    BY <1>1 DEF TypeOK, Start, CredentialOk, AcquireSlot, Goto, log,
                RequestOnRecord, Unsent
  <2> QED
    BY <2>1, DueKept DEF ResultDue
<1>2. ASSUME NEW c \in Calls, RecordRequest(c) \/ RecordRequestFails(c)
      PROVE  ResultDue'
  <2>1. /\ UNCHANGED <<req, effect>> /\ effect[c] = "none"
        /\ \A d \in Calls \ {c} : UNCHANGED pc[d]
    BY <1>2 DEF TypeOK, RecordRequest, RecordRequestFails, Goto, End,
                RequestOnRecord, Unsent
  <2>2. readable \subseteq readable'
    BY <1>2, LogGrows DEF RecordRequest, RecordRequestFails, RequestOnRecord
  <2> QED
    BY <2>1, <2>2, DueKept DEF ResultDue
<1>3. ASSUME NEW c \in Calls,
             Deny(c) \/ CredentialFailed(c) \/ NoSlot(c) \/ Misconfigured(c)
      PROVE  ResultDue'
  <2>1. /\ UNCHANGED <<req, effect, readable>> /\ effect[c] = "none"
        /\ \A d \in Calls \ {c} : UNCHANGED pc[d]
    BY <1>3 DEF TypeOK, Deny, CredentialFailed, NoSlot, Misconfigured, Goto, End,
                log, RequestOnRecord, Unsent, CallInv, Concluding
  <2> QED
    BY <2>1, DueKept DEF ResultDue
<1>4. ASSUME NEW c \in Calls,
             \/ Send(c) \/ LocalSend(c) \/ (ResponseBegins(c) /\ Audited(c))
             \/ BodyComplete(c) \/ BodyBroken(c) \/ LocalRefused(c)
             \/ LocalAnswered(c) \/ LocalLost(c) \/ Cancel(c)
      PROVE  ResultDue'
  <2>1. /\ pc'[c] \in {"awaiting", "buffering", "mutating", "recording", "gone"}
        /\ UNCHANGED <<req, readable>>
        /\ \A d \in Calls \ {c} : UNCHANGED <<pc[d], effect[d]>>
    BY <1>4 DEF TypeOK, Send, LocalSend, ResponseBegins, BodyComplete, BodyBroken,
                LocalRefused, LocalAnswered, LocalLost, Cancel, Goto, End, log
  <2> QED
    BY <2>1, DueKept DEF ResultDue
<1>5. ASSUME NEW c \in Calls,
             SendFailed(c) \/ (ResponseBegins(c) /\ ~Audited(c))
      PROVE  ResultDue'
  <2>1. /\ ~Audited(c) /\ UNCHANGED <<req, effect, readable>>
        /\ \A d \in Calls \ {c} : UNCHANGED pc[d]
    BY <1>5 DEF TypeOK, SendFailed, ResponseBegins, End, log
  <2> QED
    BY <2>1, DueKept DEF ResultDue, Audited
<1>6. ASSUME NEW c \in Calls, RecordResult(c) PROVE ResultDue'
  <2>1. /\ pc[c] = "recording" /\ UNCHANGED <<req, effect>>
        /\ \A d \in Calls \ {c} : UNCHANGED pc[d]
    BY <1>6 DEF TypeOK, RecordResult, End
  <2>2. readable' = readable \cup {<<c, "result", outcome[c]>>}
    BY <1>6 DEF RecordResult, Persist, PersistFails, WithLine, RequestOnRecord
  <2>3. HasResult(c)'
    BY <2>1, <2>2 DEF HasResult, CallInv, Concluding
  <2> QED
    BY <2>1, <2>2, <2>3, DueKept DEF ResultDue
<1>7. ASSUME NEW c \in Calls, GithubActs(c) PROVE ResultDue'
  BY <1>7 DEF GithubActs, ResultDue, Audited, HasResult, TypeOK, log
<1>8. CASE Crash
  BY <1>8 DEF Crash, LogCrash, ResultDue, Audited, HasResult, RequestOnRecord,
              CallInv, Concluding, Unsent
<1>9. CASE UNCHANGED vars
  BY <1>9, DueKept DEF vars, ResultDue
<1> QED
  BY <1>1, <1>2, <1>3, <1>4, <1>5, <1>6, <1>7, <1>8, <1>9 DEF Next, Settle, Rest

\* No request fails between its sending and the headers of its response.
NoSendFails == [][\A c \in Calls : Audited(c) => ~SendFailed(c)]_vars

\* If the log takes every record and no send() of an audited write fails, every
\* write that was sent and answered has its result on record.  The one handler
\* path that leaves the result out is the early return for a failed send.
THEOREM ResultsRecordedUnlessSendFails ==
  (AuditFaults = {}) /\ Spec /\ NoSendFails => []AnsweredWritesHaveResults
<1> SUFFICES ASSUME AuditFaults = {}
             PROVE  Spec /\ NoSendFails => []AnsweredWritesHaveResults
  OBVIOUS
<1> DEFINE Sent == \A c \in Calls : Audited(c) => ~SendFailed(c)
<1>1. TypeOK /\ RequestOnRecord /\ CallInv /\ ResultDue /\ [Next]_vars /\ [Sent]_vars
        => ResultDue'
  <2>1. CASE Sent
    BY <2>1, DueStep
  <2>2. CASE UNCHANGED vars
    BY <2>2, DueKept DEF vars, ResultDue
  <2> QED
    BY <2>1, <2>2
<1>2. "torn" \notin AuditFaults
  OBVIOUS
<1>3. Spec => [](TypeOK /\ RequestOnRecord /\ OutcomeKnown /\ CallInv)
  BY <1>2, WritesInv, PTL
<1>4. ResultDue => AnsweredWritesHaveResults
  BY DEF ResultDue, AnsweredWritesHaveResults, HasResult
<1> QED
  BY <1>1, <1>3, <1>4, DueInit, PTL DEF Spec, NoSendFails
-----------------------------------------------------------------------------
(* The safety half of EverySlotComesBack.                                   *)

\* How many steps a handler may still take, whatever becomes of it.
StepsLeft(c) ==
  IF pc[c] = "idle" THEN 8
  ELSE IF pc[c] = "credential" THEN 7
  ELSE IF pc[c] = "credentialed" THEN 6
  ELSE IF pc[c] = "slotted" THEN 5
  ELSE IF pc[c] = "audited" THEN 4
  ELSE IF pc[c] \in {"awaiting", "mutating"} THEN 3
  ELSE IF pc[c] = "buffering" THEN 2
  ELSE IF pc[c] = "recording" THEN 1
  ELSE 0

\* A handler that ends has none left.
LEMMA EndingSteps ==
  ASSUME TypeOK, NEW c \in Calls, NEW how \in {"done", "gone"}, End(c, how)
  PROVE  /\ StepsLeft(c)' = 0
         /\ \A d \in Calls : d # c => StepsLeft(d)' = StepsLeft(d)
  BY DEF TypeOK, End, StepsLeft

LEMMA SettleSteps ==
  ASSUME TypeOK, NEW c \in Calls, Settle(c)
  PROVE  /\ StepsLeft(c)' < StepsLeft(c)
         /\ \A d \in Calls : d # c => StepsLeft(d)' = StepsLeft(d)
<1>1. CASE \/ CredentialFailed(c) \/ NoSlot(c) \/ RecordRequestFails(c)
           \/ Misconfigured(c) \/ SendFailed(c) \/ RecordResult(c)
           \/ (ResponseBegins(c) /\ ~Audited(c))
  <2>1. End(c, "done")
    BY <1>1 DEF CredentialFailed, NoSlot, RecordRequestFails, Misconfigured,
                SendFailed, RecordResult, ResponseBegins
  <2>2. pc[c] \in {"credential", "credentialed", "slotted", "audited",
                   "awaiting", "recording"}
    BY <1>1 DEF CredentialFailed, NoSlot, RecordRequestFails, Misconfigured,
                SendFailed, RecordResult, ResponseBegins
  <2>3. StepsLeft(c) > 0
    BY <2>2 DEF StepsLeft
  <2> QED
    BY <2>1, <2>3, EndingSteps
<1>2. CASE CredentialOk(c) \/ AcquireSlot(c) \/ RecordRequest(c)
  BY <1>2 DEF CredentialOk, AcquireSlot, RecordRequest, Goto, TypeOK, StepsLeft
<1>3. CASE Send(c) \/ LocalSend(c) \/ LocalRefused(c)
  BY <1>3 DEF Send, LocalSend, LocalRefused, Goto, TypeOK, StepsLeft
<1>4. CASE ResponseBegins(c) /\ Audited(c)
  BY <1>4 DEF ResponseBegins, Goto, TypeOK, StepsLeft
<1>5. CASE BodyComplete(c) \/ BodyBroken(c) \/ LocalAnswered(c) \/ LocalLost(c)
  BY <1>5 DEF BodyComplete, BodyBroken, LocalAnswered, LocalLost, Goto, TypeOK,
              StepsLeft
<1> QED
  BY <1>1, <1>2, <1>3, <1>4, <1>5 DEF Settle

\* Nothing in mcp_proxy is tried again: a handler has at most eight steps of
\* its own, each leads on, and what GitHub, other calls, clients and crashes do
\* gives it no more.  Hence, by SlotAccounting, an agent's slots are held by
\* handlers that run out of steps, of which each has a timeout.
THEOREM HandlersRunOut ==
  Spec => [][\A c \in Calls : /\ StepsLeft(c)' <= StepsLeft(c)
                              /\ Settle(c) => StepsLeft(c)' < StepsLeft(c)]_vars
<1>1. ASSUME TypeOK, [Next]_vars, NEW c \in Calls
      PROVE  /\ StepsLeft(c)' <= StepsLeft(c)
             /\ Settle(c) => StepsLeft(c)' < StepsLeft(c)
  <2>1. StepsLeft(c) \in 0..8
    BY DEF StepsLeft
  <2>2. ASSUME NEW d \in Calls, Settle(d) PROVE StepsLeft(c)' <= StepsLeft(c)
    <3>1. StepsLeft(c)' \in 0..8
      BY DEF StepsLeft
    <3>2. StepsLeft(c)' < StepsLeft(c) \/ StepsLeft(c)' = StepsLeft(c)
      BY <1>1, <2>2, SettleSteps
    <3> QED
      BY <2>1, <3>1, <3>2
  <2>3. ASSUME NEW d \in Calls, Start(d) \/ Deny(d)
        PROVE  StepsLeft(c)' <= StepsLeft(c)
    BY <1>1, <2>3 DEF Start, Deny, Goto, TypeOK, StepsLeft
  <2>4. ASSUME NEW d \in Calls, Cancel(d) PROVE StepsLeft(c)' <= StepsLeft(c)
    <3>1. StepsLeft(c)' = 0 \/ StepsLeft(c)' = StepsLeft(c)
      BY <1>1, <2>4, EndingSteps DEF Cancel
    <3> QED
      BY <2>1, <3>1
  <2>5. ASSUME Crash PROVE StepsLeft(c)' <= StepsLeft(c)
    <3>1. pc'[c] \in {pc[c], "gone"}
      BY <2>5 DEF Crash
    <3>2. StepsLeft(c)' = 0 \/ StepsLeft(c)' = StepsLeft(c)
      BY <3>1 DEF StepsLeft
    <3> QED
      BY <2>1, <3>2
  <2>6. ASSUME (\E d \in Calls : GithubActs(d)) \/ Rest \/ UNCHANGED vars
        PROVE  StepsLeft(c)' <= StepsLeft(c)
    <3>1. pc' = pc
      BY <2>6 DEF GithubActs, Rest, vars
    <3>2. StepsLeft(c)' = StepsLeft(c)
      BY <3>1 DEF StepsLeft
    <3> QED
      BY <2>1, <3>2
  <2>7. Settle(c) => StepsLeft(c)' < StepsLeft(c)
    BY <1>1, SettleSteps
  <2>8. StepsLeft(c)' <= StepsLeft(c)
    BY <1>1, <2>2, <2>3, <2>4, <2>5, <2>6 DEF Next
  <2> QED
    BY <2>7, <2>8
<1>2. TypeOK /\ [Next]_vars
        => [\A c \in Calls :
              /\ StepsLeft(c)' <= StepsLeft(c)
              /\ Settle(c) => StepsLeft(c)' < StepsLeft(c)]_vars
  BY <1>1
<1> QED
  BY <1>2, TypeInit, TypeStep, PTL DEF Spec
=============================================================================
