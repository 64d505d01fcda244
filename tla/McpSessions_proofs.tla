-------------------------- MODULE McpSessions_proofs --------------------------
(***************************************************************************)
(* Proofs about McpSessions for any agents, credentials, sessions and      *)
(* requests in progress.                                                   *)
(***************************************************************************)
EXTENDS McpSessions, TLAPS

-----------------------------------------------------------------------------
(* Type correctness.                                                       *)

LEMMA IdleFields == NoAgent \in Agents /\ NoCred \in Creds
  BY McpSessionsAssumption DEF NoAgent, NoCred

LEMMA TypeInit == Init => TypeOK
  BY IdleFields DEF Init, TypeOK

LEMMA BindingTyped == ASSUME TypeOK, NEW t \in Tasks PROVE Binding(t) \in Bindings
  BY DEF TypeOK, Binding, Bindings

\* The owner and the credential of a session that is pinned.
LEMMA PinTyped ==
  ASSUME TypeOK, NEW s \in Sids, Pinned(s)
  PROVE  /\ pins[s][1] \in Agents /\ pins[s][2] \in Creds
         /\ pins[s] = <<pins[s][1], pins[s][2]>>
<1>1. pins[s] \in Agents \X Creds
  BY DEF TypeOK, Pinned, Bindings
<1> QED
  BY <1>1

\* A request takes credential c, on session s or without one.
Takes(t, a, s, d, c, step) ==
  /\ Begin(t, a, s, d, c, step)
  /\ d => s \in Sids
  /\ step = "stale" => s \in Sids /\ c \in expired
  /\ step = "send" => c \notin expired
  /\ s \in Sids => pins[s] = <<a, c>> /\ Pinned(s)

LEMMA ArriveTakes ==
  ASSUME TypeOK, NEW t \in Tasks, Arrive(t)
  PROVE  \E a \in Agents, s \in Sids \cup {NoSid}, d \in BOOLEAN, c \in Creds,
            step \in {"send", "stale"} : Takes(t, a, s, d, c, step)
<1>1. ASSUME NEW a \in Agents, NEW s \in Sids, NEW d \in BOOLEAN,
             Resume(t, a, s, d)
      PROVE  pins[s][2] \in Creds /\ Takes(t, a, s, d, pins[s][2], "send")
  BY <1>1, PinTyped DEF Resume, Owns, Takes
<1>2. ASSUME NEW a \in Agents, NEW s \in Sids, NEW d \in BOOLEAN,
             FindStale(t, a, s, d)
      PROVE  pins[s][2] \in Creds /\ Takes(t, a, s, d, pins[s][2], "stale")
  BY <1>2, PinTyped DEF FindStale, Owns, Takes
<1>3. ASSUME NEW a \in Agents, NEW s \in Sids \cup {NoSid}, NEW d \in BOOLEAN,
             FreshCredential(t, a, s, d)
      PROVE  \E c \in Creds : Takes(t, a, s, d, c, "send")
  BY <1>3, McpSessionsAssumption DEF FreshCredential, Takes
<1>4. CASE \E a \in Agents, s \in Sids, d \in BOOLEAN :
            Resume(t, a, s, d) \/ FindStale(t, a, s, d)
  <2>1. PICK a \in Agents, s \in Sids, d \in BOOLEAN :
          Resume(t, a, s, d) \/ FindStale(t, a, s, d)
    BY <1>4
  <2>2. PICK step \in {"send", "stale"} :
          pins[s][2] \in Creds /\ Takes(t, a, s, d, pins[s][2], step)
    BY <1>1, <1>2, <2>1
  <2> QED
    BY <2>2
<1>5. CASE \E a \in Agents, s \in Sids \cup {NoSid}, d \in BOOLEAN :
            FreshCredential(t, a, s, d)
  <2>1. PICK a \in Agents, s \in Sids \cup {NoSid}, d \in BOOLEAN :
          FreshCredential(t, a, s, d)
    BY <1>5
  <2>2. PICK c \in Creds : Takes(t, a, s, d, c, "send")
    BY <1>3, <2>1
  <2> QED
    BY <2>2
<1> QED
  BY <1>4, <1>5 DEF Arrive

LEMMA TypeStep == TypeOK /\ [Next]_vars => TypeOK'
<1> SUFFICES ASSUME TypeOK, [Next]_vars PROVE TypeOK'
  OBVIOUS
<1> USE IdleFields DEF TypeOK, history
<1>1. ASSUME NEW t \in Tasks, Arrive(t) PROVE TypeOK'
  <2>1. PICK a \in Agents, s \in Sids \cup {NoSid}, d \in BOOLEAN, c \in Creds,
             step \in {"send", "stale"} : Takes(t, a, s, d, c, step)
    BY <1>1, ArriveTakes, Zenon
  <2> QED
    BY <2>1 DEF Takes, Begin
<1>2. ASSUME NEW t \in Tasks, DropStale(t) PROVE TypeOK'
  BY <1>2 DEF DropStale, Finish
<1>3. ASSUME NEW t \in Tasks, Handle(t) PROVE TypeOK'
  BY <1>3, BindingTyped DEF Handle
<1>4. ASSUME NEW t \in Tasks, CheckPin(t) PROVE TypeOK'
  BY <1>4 DEF CheckPin
<1>5. ASSUME NEW t \in Tasks, InsertPin(t) PROVE TypeOK'
  BY <1>5, BindingTyped DEF InsertPin
<1>6. ASSUME NEW t \in Tasks, Answer(t) PROVE TypeOK'
  BY <1>6 DEF Answer, Finish
<1>7. ASSUME NEW t \in Tasks, Drop(t) PROVE TypeOK'
  BY <1>7 DEF Drop, Finish
<1>8. CASE Evict
  BY <1>8 DEF Evict, task
<1>9. CASE Expire
  BY <1>9 DEF Expire, task
<1>10. CASE Restart
  BY <1>10 DEF Restart
<1>11. CASE UNCHANGED vars
  BY <1>11 DEF vars, task
<1> QED
  BY <1>1, <1>2, <1>3, <1>4, <1>5, <1>6, <1>7, <1>8, <1>9, <1>10, <1>11
  DEF Next

\* Every reachable state is well typed.
THEOREM TypeCorrect == Spec => []TypeOK
  BY TypeInit, TypeStep, PTL DEF Spec

-----------------------------------------------------------------------------
(* What ties pins, requests and sessions together.                         *)

\* A pin is the binding of the session's opener; so is what a request carries
\* that names the session, on its way to GitHub or in its response.
PinsTrue == \A s \in Sids : Pinned(s) => pins[s] = opener[s]

Names(t, s) == pc[t] # "idle" /\ (sid[t] = s \/ got[t] = s)
TasksTrue ==
  \A t \in Tasks, s \in Sids : Names(t, s) => opener[s] = Binding(t)

\* An ended session was opened by somebody.  What may still pin it holds an
\* expired credential, and no request in progress holds another one.
EndedTrue ==
  \A s \in ended :
    /\ opener[s] # NoPin
    /\ Pinned(s) => pins[s][2] \in expired
    /\ \A t \in Tasks : Names(t, s) => cred[t] \in expired

\* A stale request has seen its credential expired, and names no session in a
\* response before GitHub has answered.
StaleTrue ==
  \A t \in Tasks : /\ pc[t] = "stale" => cred[t] \in expired
                   /\ pc[t] \in {"idle", "send", "stale"} => got[t] = NoSid

\* What an answer is about to name is pinned, unless its pin was removed.
NamedTrue ==
  /\ \A s \in announced \ gone : Pinned(s)
  /\ \A t \in Tasks, s \in Sids \ gone :
       pc[t] = "answer" /\ got[t] = s => Pinned(s)

SessionInv == PinsTrue /\ TasksTrue /\ EndedTrue /\ StaleTrue /\ NamedTrue

LEMMA SessionInit == Init => SessionInv
  BY McpSessionsAssumption
  DEF Init, SessionInv, PinsTrue, TasksTrue, EndedTrue, StaleTrue, NamedTrue,
      Names, Pinned

LEMMA SessionStep == TypeOK /\ SessionInv /\ [Next]_vars => SessionInv'
<1> SUFFICES ASSUME TypeOK, SessionInv, [Next]_vars PROVE SessionInv'
  OBVIOUS
<1> USE McpSessionsAssumption DEF SessionInv, Pinned, Names, Binding, history
<1>1. ASSUME NEW t \in Tasks, Arrive(t) PROVE SessionInv'
  <2>1. PICK a \in Agents, s \in Sids \cup {NoSid}, d \in BOOLEAN, c \in Creds,
             step \in {"send", "stale"} : Takes(t, a, s, d, c, step)
    BY <1>1, ArriveTakes, Zenon
  <2>2. /\ UNCHANGED <<pins, got, opener, expired, announced, gone, ended>>
        /\ pc[t] = "idle" /\ got[t] = NoSid
    BY <2>1 DEF Takes, Begin, StaleTrue
  <2>3. /\ pc' = [pc EXCEPT ![t] = step] /\ sid' = [sid EXCEPT ![t] = s]
        /\ agent' = [agent EXCEPT ![t] = a] /\ cred' = [cred EXCEPT ![t] = c]
        /\ s \in Sids => pins[s] = <<a, c>> /\ pins[s] # NoPin
        /\ step = "stale" => c \in expired
    BY <2>1 DEF Takes, Begin
  <2>4. PinsTrue'
    BY <2>2 DEF PinsTrue
  <2>5. TasksTrue'
    BY <2>2, <2>3 DEF TypeOK, TasksTrue, PinsTrue
  <2>6. EndedTrue'
    BY <2>2, <2>3 DEF TypeOK, EndedTrue
  <2>7. StaleTrue'
    BY <2>2, <2>3 DEF TypeOK, StaleTrue
  <2>8. NamedTrue'
    BY <2>2, <2>3 DEF TypeOK, NamedTrue
  <2> QED
    BY <2>4, <2>5, <2>6, <2>7, <2>8
<1>2. ASSUME NEW t \in Tasks, DropStale(t) PROVE SessionInv'
  <2>1. PinsTrue'
    BY <1>2 DEF TypeOK, DropStale, Finish, PinsTrue, TasksTrue
  <2>2. TasksTrue'
    BY <1>2 DEF TypeOK, DropStale, Finish, TasksTrue, PinsTrue
  <2>3. EndedTrue'
    <3>1. /\ pc[t] = "stale" /\ sid[t] \in Sids /\ cred[t] \in expired
          /\ opener[sid[t]] = <<agent[t], cred[t]>>
      BY <1>2 DEF TypeOK, DropStale, StaleTrue, TasksTrue
    <3>2. ASSUME NEW u \in Tasks, Names(u, sid[t])
          PROVE  cred[u] \in expired
      <4>1. opener[sid[t]] = <<agent[u], cred[u]>>
        BY <3>1, <3>2 DEF TasksTrue
      <4> QED
        BY <3>1, <4>1
    <3>3. opener[sid[t]] # NoPin
      BY <3>1 DEF TypeOK
    <3>4. /\ UNCHANGED <<opener, expired>>
          /\ ended' = ended \cup {sid[t]}
          /\ pins' = [pins EXCEPT ![sid[t]] = NoPin]
      BY <1>2 DEF DropStale
    <3>5. \A u \in Tasks, s \in Sids :
            Names(u, s)' => Names(u, s) /\ cred'[u] = cred[u]
      BY <1>2 DEF TypeOK, DropStale, Finish
    <3> HIDE DEF Names
    <3> QED
      BY <3>1, <3>2, <3>3, <3>4, <3>5 DEF TypeOK, EndedTrue
  <2>4. StaleTrue'
    BY <1>2 DEF TypeOK, DropStale, Finish, StaleTrue
  <2>5. NamedTrue'
    BY <1>2 DEF TypeOK, DropStale, Finish, NamedTrue
  <2> QED
    BY <2>1, <2>2, <2>3, <2>4, <2>5
<1>3. ASSUME NEW t \in Tasks, Handle(t) PROVE SessionInv'
  <2>1. PinsTrue'
    BY <1>3 DEF TypeOK, Handle, PinsTrue, TasksTrue
  <2>2. TasksTrue'
    BY <1>3 DEF TypeOK, Handle, TasksTrue, PinsTrue
  <2>3. EndedTrue'
    BY <1>3 DEF TypeOK, Handle, EndedTrue, PinsTrue, TasksTrue, StaleTrue
  <2>4. StaleTrue'
    BY <1>3 DEF TypeOK, Handle, StaleTrue
  <2>5. NamedTrue'
    BY <1>3 DEF TypeOK, Handle, NamedTrue
  <2> QED
    BY <2>1, <2>2, <2>3, <2>4, <2>5
<1>4. ASSUME NEW t \in Tasks, CheckPin(t) PROVE SessionInv'
  <2>1. PinsTrue'
    BY <1>4 DEF TypeOK, CheckPin, PinsTrue, TasksTrue
  <2>2. TasksTrue'
    BY <1>4 DEF TypeOK, CheckPin, TasksTrue, PinsTrue
  <2>3. EndedTrue'
    BY <1>4 DEF TypeOK, CheckPin, EndedTrue, PinsTrue, TasksTrue, StaleTrue
  <2>4. StaleTrue'
    BY <1>4 DEF TypeOK, CheckPin, StaleTrue
  <2>5. NamedTrue'
    BY <1>4 DEF TypeOK, CheckPin, NamedTrue
  <2> QED
    BY <2>1, <2>2, <2>3, <2>4, <2>5
<1>5. ASSUME NEW t \in Tasks, InsertPin(t) PROVE SessionInv'
  <2>1. PinsTrue'
    BY <1>5 DEF TypeOK, InsertPin, PinsTrue, TasksTrue
  <2>2. TasksTrue'
    BY <1>5 DEF TypeOK, InsertPin, TasksTrue, PinsTrue
  <2>3. EndedTrue'
    BY <1>5 DEF TypeOK, InsertPin, EndedTrue, PinsTrue, TasksTrue, StaleTrue
  <2>4. StaleTrue'
    BY <1>5 DEF TypeOK, InsertPin, StaleTrue
  <2>5. NamedTrue'
    BY <1>5 DEF TypeOK, InsertPin, NamedTrue
  <2> QED
    BY <2>1, <2>2, <2>3, <2>4, <2>5
<1>6. ASSUME NEW t \in Tasks, Answer(t) PROVE SessionInv'
  <2>1. PinsTrue'
    BY <1>6 DEF TypeOK, Answer, Finish, PinsTrue, TasksTrue
  <2>2. TasksTrue'
    BY <1>6 DEF TypeOK, Answer, Finish, TasksTrue, PinsTrue
  <2>3. EndedTrue'
    BY <1>6 DEF TypeOK, Answer, Finish, EndedTrue, PinsTrue, TasksTrue, StaleTrue
  <2>4. StaleTrue'
    BY <1>6 DEF TypeOK, Answer, Finish, StaleTrue
  <2>5. NamedTrue'
    BY <1>6 DEF TypeOK, Answer, Finish, NamedTrue
  <2> QED
    BY <2>1, <2>2, <2>3, <2>4, <2>5
<1>7. ASSUME NEW t \in Tasks, Drop(t) PROVE SessionInv'
  <2>1. PinsTrue'
    BY <1>7 DEF TypeOK, Drop, Finish, PinsTrue, TasksTrue
  <2>2. TasksTrue'
    BY <1>7 DEF TypeOK, Drop, Finish, TasksTrue, PinsTrue
  <2>3. EndedTrue'
    BY <1>7 DEF TypeOK, Drop, Finish, EndedTrue, PinsTrue, TasksTrue, StaleTrue
  <2>4. StaleTrue'
    BY <1>7 DEF TypeOK, Drop, Finish, StaleTrue
  <2>5. NamedTrue'
    BY <1>7 DEF TypeOK, Drop, Finish, NamedTrue
  <2> QED
    BY <2>1, <2>2, <2>3, <2>4, <2>5
<1>8. CASE Evict
  <2>1. PinsTrue'
    BY <1>8 DEF TypeOK, Evict, task, PinsTrue, TasksTrue
  <2>2. TasksTrue'
    BY <1>8 DEF TypeOK, Evict, task, TasksTrue, PinsTrue
  <2>3. EndedTrue'
    BY <1>8 DEF TypeOK, Evict, task, EndedTrue, PinsTrue, TasksTrue, StaleTrue
  <2>4. StaleTrue'
    BY <1>8 DEF TypeOK, Evict, task, StaleTrue
  <2>5. NamedTrue'
    BY <1>8 DEF TypeOK, Evict, task, NamedTrue
  <2> QED
    BY <2>1, <2>2, <2>3, <2>4, <2>5
<1>9. CASE Expire
  <2>1. PinsTrue'
    BY <1>9 DEF TypeOK, Expire, task, PinsTrue, TasksTrue
  <2>2. TasksTrue'
    BY <1>9 DEF TypeOK, Expire, task, TasksTrue, PinsTrue
  <2>3. EndedTrue'
    BY <1>9 DEF TypeOK, Expire, task, EndedTrue, PinsTrue, TasksTrue, StaleTrue
  <2>4. StaleTrue'
    BY <1>9 DEF TypeOK, Expire, task, StaleTrue
  <2>5. NamedTrue'
    BY <1>9 DEF TypeOK, Expire, task, NamedTrue
  <2> QED
    BY <2>1, <2>2, <2>3, <2>4, <2>5
<1>10. CASE Restart
  <2>1. PinsTrue'
    BY <1>10 DEF TypeOK, Restart, PinsTrue, TasksTrue
  <2>2. TasksTrue'
    BY <1>10 DEF TypeOK, Restart, TasksTrue, PinsTrue
  <2>3. EndedTrue'
    BY <1>10 DEF TypeOK, Restart, EndedTrue, PinsTrue, TasksTrue, StaleTrue
  <2>4. StaleTrue'
    BY <1>10 DEF TypeOK, Restart, StaleTrue
  <2>5. NamedTrue'
    BY <1>10 DEF TypeOK, Restart, NamedTrue, PinsTrue
  <2> QED
    BY <2>1, <2>2, <2>3, <2>4, <2>5
<1>11. CASE UNCHANGED vars
  <2>1. PinsTrue'
    BY <1>11 DEF TypeOK, vars, task, PinsTrue, TasksTrue
  <2>2. TasksTrue'
    BY <1>11 DEF TypeOK, vars, task, TasksTrue, PinsTrue
  <2>3. EndedTrue'
    BY <1>11 DEF TypeOK, vars, task, EndedTrue, PinsTrue, TasksTrue, StaleTrue
  <2>4. StaleTrue'
    BY <1>11 DEF TypeOK, vars, task, StaleTrue
  <2>5. NamedTrue'
    BY <1>11 DEF TypeOK, vars, task, NamedTrue
  <2> QED
    BY <2>1, <2>2, <2>3, <2>4, <2>5
<1> QED
  BY <1>1, <1>2, <1>3, <1>4, <1>5, <1>6, <1>7, <1>8, <1>9, <1>10, <1>11
  DEF Next

-----------------------------------------------------------------------------
(* The properties.                                                         *)

LEMMA InvHolds == Spec => [](TypeOK /\ SessionInv)
  BY TypeInit, TypeStep, SessionInit, SessionStep, PTL DEF Spec

\* No request reaches GitHub on a session with another agent or credential
\* than those that opened it.
THEOREM SessionKeepsBindingHolds == Spec => []SessionKeepsBinding
<1>1. TypeOK /\ SessionInv => SessionKeepsBinding
  BY DEF SessionInv, TasksTrue, Names, SessionKeepsBinding
<1> QED
  BY <1>1, InvHolds, PTL

\* A session the client was told of is pinned until its pin is removed.
THEOREM SessionIsPinnedHolds == Spec => []SessionIsPinned
<1>1. TypeOK /\ SessionInv => SessionIsPinned
  BY DEF TypeOK, SessionInv, PinsTrue, NamedTrue, SessionIsPinned
<1> QED
  BY <1>1, InvHolds, PTL

\* A request that starts has arrived.
LEMMA StartsByArriving ==
  ASSUME TypeOK, [Next]_vars, NEW t \in Tasks, pc[t] = "idle", pc'[t] = "send"
  PROVE  Arrive(t)
<1>1. PICK u \in Tasks :
        \/ Arrive(u) \/ DropStale(u) \/ Handle(u) \/ CheckPin(u)
        \/ InsertPin(u) \/ Answer(u) \/ Drop(u)
  BY DEF Next, Evict, Expire, Restart, vars, task
<1>2. CASE Arrive(u)
  <2>1. PICK a \in Agents, s \in Sids \cup {NoSid}, d \in BOOLEAN,
             c \in Creds, step \in {"send", "stale"} :
          Takes(u, a, s, d, c, step)
    BY <1>2, ArriveTakes, Zenon
  <2>2. pc' = [pc EXCEPT ![u] = step]
    BY <2>1 DEF Takes, Begin
  <2> QED
    BY <1>2, <2>2 DEF TypeOK
<1> QED
  BY <1>1, <1>2 DEF TypeOK, DropStale, Handle, CheckPin, InsertPin, Answer,
                    Drop, Finish

\* No request is forwarded on a session that was terminated for its expired
\* credential or opened before a restart.
THEOREM EndedStaysEndedHolds == Spec => EndedStaysEnded
<1> DEFINE Keeps == \A t \in Tasks : pc[t] = "idle" /\ pc'[t] = "send"
                                     => sid'[t] \notin ended
<1>1. TypeOK /\ SessionInv /\ [Next]_vars => [Keeps]_vars
  <2> SUFFICES ASSUME TypeOK, SessionInv, [Next]_vars, NEW t \in Tasks,
                      pc[t] = "idle", pc'[t] = "send"
               PROVE  sid'[t] \notin ended
    OBVIOUS
  <2>1. Arrive(t)
    BY StartsByArriving
  <2>2. PICK a \in Agents, s \in Sids \cup {NoSid}, d \in BOOLEAN, c \in Creds,
             step \in {"send", "stale"} : Takes(t, a, s, d, c, step)
    BY <2>1, ArriveTakes, Zenon
  <2>3. step = "send" /\ sid'[t] = s
    BY <2>2 DEF Takes, Begin, TypeOK
  <2>4. CASE s \in ended
    <3>1. s \in Sids /\ Pinned(s) /\ pins[s] = <<a, c>> /\ c \notin expired
      BY <2>2, <2>3, <2>4 DEF Takes, TypeOK
    <3>2. pins[s][2] \in expired
      BY <2>4, <3>1 DEF SessionInv, EndedTrue
    <3> QED
      BY <3>1, <3>2
  <2> QED
    BY <2>3, <2>4
<1> QED
  BY <1>1, InvHolds, PTL DEF Spec, EndedStaysEnded

-----------------------------------------------------------------------------
(* The refinement of SessionTable, while GitHub names no session twice.    *)

\* A removed pin was of a session that was opened, and is not back.
GoneTrue == /\ deleted \subseteq gone
            /\ \A s \in gone : ~Pinned(s) /\ opener[s] # NoPin

\* A request comes with a session that has been pinned.
CarriesKnown == \A t \in Tasks : /\ pc[t] = "idle" => sid[t] = NoSid
                                 /\ sid[t] \in Sids => sid[t] \in Known

\* Until its pin is inserted, the session a response names is new, and no
\* other response names it.
NamesNew == \A t \in Tasks : pc[t] \in {"headers", "pin"} /\ got[t] \in Sids
                               => got[t] \notin Known
NamesApart == \A t, u \in Tasks : t # u /\ got[t] \in Sids => got[t] # got[u]

OnceInv == GoneTrue /\ CarriesKnown /\ NamesNew /\ NamesApart

LEMMA OnceInit == Init => OnceInv
  BY McpSessionsAssumption
  DEF Init, OnceInv, GoneTrue, CarriesKnown, NamesNew, NamesApart, Known, Pinned

\* A request that names a session knows the session has an opener.
LEMMA NamedIsOpen ==
  ASSUME TypeOK, SessionInv, NEW t \in Tasks, NEW s \in Sids, Names(t, s)
  PROVE  opener[s] # NoPin
BY McpSessionsAssumption, BindingTyped DEF SessionInv, TasksTrue, Bindings

\* Only the insertion of a pin makes a session known, and none is forgotten.
LEMMA KnownStep ==
  ASSUME TypeOK, OnceInv, [Next]_vars
  PROVE  \/ Known' = Known
         \/ \E t \in Tasks : InsertPin(t) /\ Known' = Known \cup {got[t]}
<1> USE DEF TypeOK, Known, Pinned, history, task
<1>1. ASSUME NEW t \in Tasks, Arrive(t) PROVE Known' = Known
  <2>1. PICK a \in Agents, s \in Sids \cup {NoSid}, d \in BOOLEAN, c \in Creds,
             step \in {"send", "stale"} : Takes(t, a, s, d, c, step)
    BY <1>1, ArriveTakes, Zenon
  <2> QED
    BY <2>1 DEF Takes, Begin
<1>2. ASSUME NEW t \in Tasks, DropStale(t) PROVE Known' = Known
  BY <1>2 DEF DropStale, OnceInv, CarriesKnown
<1>3. ASSUME NEW t \in Tasks, InsertPin(t) PROVE Known' = Known \cup {got[t]}
  BY <1>3, McpSessionsAssumption, BindingTyped DEF InsertPin, Bindings
<1>4. ASSUME NEW t \in Tasks, Answer(t) PROVE Known' = Known
  BY <1>4 DEF Answer, OnceInv, CarriesKnown
<1>5. ASSUME NEW t \in Tasks, Handle(t) \/ CheckPin(t) \/ Drop(t)
      PROVE  Known' = Known
  BY <1>5 DEF Handle, CheckPin, Drop
<1>6. CASE Evict
  BY <1>6 DEF Evict
<1>7. CASE Expire
  BY <1>7 DEF Expire
<1>8. CASE Restart
  BY <1>8 DEF Restart
<1>9. CASE UNCHANGED vars
  BY <1>9 DEF vars
<1> QED
  BY <1>1, <1>2, <1>3, <1>4, <1>5, <1>6, <1>7, <1>8, <1>9 DEF Next

LEMMA OnceStep ==
  TypeOK /\ SessionInv /\ OnceInv /\ [Next]_vars /\ (\A t \in Tasks : ~Echoes(t))
    => OnceInv'
<1> SUFFICES ASSUME TypeOK, SessionInv, OnceInv, [Next]_vars,
                    \A t \in Tasks : ~Echoes(t)
             PROVE  OnceInv'
  OBVIOUS
<1> USE McpSessionsAssumption DEF OnceInv, history
<1>1. ASSUME NEW t \in Tasks, Arrive(t) PROVE OnceInv'
  <2>1. PICK a \in Agents, s \in Sids \cup {NoSid}, d \in BOOLEAN, c \in Creds,
             step \in {"send", "stale"} : Takes(t, a, s, d, c, step)
    BY <1>1, ArriveTakes, Zenon
  <2>2. /\ UNCHANGED <<pins, got, opener, announced, gone, deleted, ended>>
        /\ pc[t] = "idle" /\ pc' = [pc EXCEPT ![t] = step]
        /\ sid' = [sid EXCEPT ![t] = s]
        /\ s \in Sids => Pinned(s)
    BY <2>1 DEF Takes, Begin
  <2>3. Known' = Known
    BY <2>2 DEF Known, Pinned
  <2>4. GoneTrue'
    BY <2>2 DEF GoneTrue, Pinned
  <2>5. CarriesKnown'
    BY <2>2, <2>3 DEF TypeOK, CarriesKnown, Known
  <2>6. NamesNew' /\ NamesApart'
    BY <2>2, <2>3 DEF TypeOK, NamesNew, NamesApart
  <2> QED
    BY <2>4, <2>5, <2>6
<1>2. ASSUME NEW t \in Tasks, DropStale(t) \/ Answer(t) PROVE OnceInv'
  <2>1. /\ pc[t] \in {"stale", "answer"} /\ UNCHANGED opener
        /\ \/ UNCHANGED <<pins, gone, deleted>>
           \/ /\ sid[t] \in Sids
              /\ pins' = [pins EXCEPT ![sid[t]] = NoPin]
              /\ gone' = gone \cup {sid[t]}
              /\ deleted' \subseteq deleted \cup {sid[t]}
        /\ Finish(t)
    BY <1>2 DEF TypeOK, DropStale, Answer
  <2>2. Known' = Known
    BY <1>2, KnownStep DEF DropStale, Answer, InsertPin, Finish, TypeOK
  <2>3. sid[t] \in Sids => opener[sid[t]] # NoPin
    BY <2>1, NamedIsOpen DEF Names
  <2>4. GoneTrue'
    BY <2>1, <2>3 DEF TypeOK, GoneTrue, Pinned
  <2>5. CarriesKnown' /\ NamesNew' /\ NamesApart'
    BY <2>1, <2>2 DEF TypeOK, Finish, CarriesKnown, NamesNew, NamesApart
  <2> QED
    BY <2>4, <2>5
<1>3. ASSUME NEW t \in Tasks, Handle(t) PROVE OnceInv'
  <2>1. Known' = Known /\ UNCHANGED <<pins, sid, gone, deleted>>
    BY <1>3 DEF Handle, Known, Pinned
  <2>2. /\ pc[t] = "send" /\ pc' = [pc EXCEPT ![t] = "headers"]
        /\ got[t] = NoSid
    BY <1>3 DEF Handle, SessionInv, StaleTrue
  <2>3. \/ /\ got' = [got EXCEPT ![t] = NoSid] /\ UNCHANGED opener
        \/ \E s \in Sids : /\ opener[s] = NoPin /\ got' = [got EXCEPT ![t] = s]
                           /\ opener' = [opener EXCEPT ![s] = Binding(t)]
    BY <1>3, <2>2 DEF Handle, Echoes, TypeOK
  <2>4. CarriesKnown'
    BY <2>1, <2>2 DEF TypeOK, CarriesKnown
  <2>5. CASE got' = [got EXCEPT ![t] = NoSid] /\ UNCHANGED opener
    BY <2>1, <2>2, <2>4, <2>5
    DEF TypeOK, GoneTrue, Pinned, NamesNew, NamesApart
  <2>6. ASSUME NEW s \in Sids, opener[s] = NoPin, got' = [got EXCEPT ![t] = s],
               opener' = [opener EXCEPT ![s] = Binding(t)]
        PROVE  OnceInv'
    <3>1. s \notin Known
      BY <2>6 DEF Known, Pinned, GoneTrue, SessionInv, PinsTrue
    <3>2. \A u \in Tasks : got[u] # s
      BY <2>6, NamedIsOpen DEF Names, SessionInv, StaleTrue
    <3>3. GoneTrue'
      BY <2>1, <2>6, <3>1 DEF TypeOK, GoneTrue, Pinned, Known
    <3>4. NamesNew'
      BY <2>1, <2>2, <2>6, <3>1 DEF TypeOK, NamesNew
    <3>5. NamesApart'
      BY <2>6, <3>2 DEF TypeOK, NamesApart
    <3> QED
      BY <2>4, <3>3, <3>4, <3>5
  <2> QED
    BY <2>3, <2>5, <2>6
<1>4. ASSUME NEW t \in Tasks, CheckPin(t) PROVE OnceInv'
  BY <1>4
  DEF TypeOK, CheckPin, GoneTrue, Pinned, Known, CarriesKnown, NamesNew, NamesApart
<1>5. ASSUME NEW t \in Tasks, InsertPin(t) PROVE OnceInv'
  <2>1. got[t] \in Sids /\ got[t] \notin Known
    BY <1>5 DEF TypeOK, InsertPin, NamesNew
  <2>2. /\ pins' = [pins EXCEPT ![got[t]] = Binding(t)]
        /\ pc' = [pc EXCEPT ![t] = "answer"] /\ pc[t] = "pin"
        /\ UNCHANGED <<sid, got, opener, gone, deleted>>
    BY <1>5 DEF InsertPin
  <2>3. Known' \subseteq Known \cup {got[t]} /\ Known \subseteq Known'
    BY <1>5, <2>2, McpSessionsAssumption, BindingTyped
    DEF TypeOK, Known, Pinned, Bindings
  <2>4. GoneTrue'
    BY <2>1, <2>2 DEF TypeOK, GoneTrue, Pinned, Known
  <2>5. CarriesKnown'
    BY <2>2, <2>3 DEF TypeOK, CarriesKnown
  <2>6. NamesNew' /\ NamesApart'
    BY <2>1, <2>2, <2>3 DEF TypeOK, NamesNew, NamesApart
  <2> QED
    BY <2>4, <2>5, <2>6
<1>6. ASSUME NEW t \in Tasks, Drop(t) PROVE OnceInv'
  BY <1>6
  DEF TypeOK, Drop, Finish, GoneTrue, Pinned, Known, CarriesKnown, NamesNew,
      NamesApart
<1>7. CASE Evict
  <2>1. PICK s \in Sids : /\ Pinned(s) /\ pins' = [pins EXCEPT ![s] = NoPin]
                          /\ gone' = gone \cup {s}
                          /\ UNCHANGED <<pc, sid, got, opener, deleted>>
    BY <1>7 DEF Evict, task
  <2>2. Known' = Known
    BY <2>1 DEF Known, Pinned, TypeOK
  <2>3. GoneTrue'
    BY <2>1 DEF TypeOK, GoneTrue, Pinned, SessionInv, PinsTrue
  <2> QED
    BY <2>1, <2>2, <2>3 DEF CarriesKnown, NamesNew, NamesApart
<1>8. CASE Expire
  BY <1>8 DEF Expire, task, GoneTrue, Pinned, Known, CarriesKnown, NamesNew,
              NamesApart
<1>9. CASE Restart
  <2>1. GoneTrue'
    BY <1>9 DEF TypeOK, Restart, GoneTrue, Pinned, SessionInv, PinsTrue
  <2> QED
    BY <1>9, <2>1 DEF Restart, CarriesKnown, NamesNew, NamesApart
<1>10. CASE UNCHANGED vars
  BY <1>10 DEF vars, task, GoneTrue, Pinned, Known, CarriesKnown, NamesNew,
               NamesApart
<1> QED
  BY <1>1, <1>2, <1>3, <1>4, <1>5, <1>6, <1>7, <1>8, <1>9, <1>10 DEF Next

Owner(s) == IF s \in Known THEN opener[s][1] ELSE NoAgent

\* A session that is pinned keeps its opener; one that is gone kept it.
LEMMA OwnerKept ==
  ASSUME TypeOK, SessionInv, OnceInv, [Next]_vars, NEW s \in Known
  PROVE  opener'[s] = opener[s]
<1>1. s \in Sids /\ opener[s] # NoPin
  BY DEF TypeOK, Known, OnceInv, GoneTrue, SessionInv, PinsTrue, Pinned
<1>2. ASSUME NEW t \in Tasks, Arrive(t) PROVE UNCHANGED opener
  BY <1>2, ArriveTakes DEF Takes, Begin
<1>3. ASSUME NEW t \in Tasks, Handle(t) PROVE opener'[s] = opener[s]
  BY <1>1, <1>3 DEF Handle, TypeOK
<1>4. ASSUME ~\E t \in Tasks : Arrive(t) \/ Handle(t) PROVE UNCHANGED opener
  BY <1>4 DEF Next, DropStale, CheckPin, InsertPin, Answer, Drop, Evict, Expire,
              Restart, vars
<1> QED
  BY <1>2, <1>3, <1>4

LEMMA TableInit == Init => Table!TInit
  BY DEF Init, Table!TInit, Phase, Known, Pinned, Carried

\* A request on a session whose credential is valid is accepted, for the agent
\* the session was opened for.
LEMMA ResumeAccepts ==
  ASSUME TypeOK, SessionInv, OnceInv, NEW t \in Tasks, NEW a \in Agents,
         NEW s \in Sids, NEW d \in BOOLEAN, Resume(t, a, s, d)
  PROVE  Table!Accept(t, s)
<1>1. /\ Pinned(s) /\ pins[s][1] = a /\ pins[s][2] \notin expired
      /\ pc[t] = "idle" /\ pc' = [pc EXCEPT ![t] = "send"]
      /\ agent' = [agent EXCEPT ![t] = a] /\ sid' = [sid EXCEPT ![t] = s]
      /\ UNCHANGED <<pins, opener, expired, gone>>
  BY DEF Resume, Owns, Begin, history
<1>2. s \in Known /\ opener[s][1] = a
  BY <1>1 DEF Known, SessionInv, PinsTrue
<1>3. Carried(t) = <<NoSid, NoAgent>> /\ Carried(t)' = <<s, a>>
  BY <1>1, McpSessionsAssumption DEF Carried, TypeOK, OnceInv, CarriesKnown
<1>4. \A u \in Tasks \ {t} : Carried(u)' = Carried(u)
  BY <1>1 DEF Carried, TypeOK
<1>5. [u \in Tasks |-> Carried(u)]'
        = [[u \in Tasks |-> Carried(u)] EXCEPT ![t] = <<s, Owner(s)>>]
  BY <1>2, <1>3, <1>4 DEF Owner
<1>6. Phase(s) = "live"
  BY <1>1 DEF Phase
<1>7. \A x \in Sids : Owner(x)' = Owner(x) /\ Phase(x)' = Phase(x)
  BY <1>1 DEF Owner, Phase, Known, Pinned
<1> QED
  BY <1>3, <1>5, <1>6, <1>7 DEF Table!Accept, Owner

\* A pin that is inserted opens a session that was never there, for the agent
\* whose response named it.
LEMMA InsertOpens ==
  ASSUME TypeOK, SessionInv, OnceInv, NEW t \in Tasks, InsertPin(t)
  PROVE  \E s \in Sids, a \in Agents : Table!Open(s, a)
<1>1. PICK s \in Sids : s = got[t]
  BY DEF InsertPin, TypeOK
<1>2. PICK a \in Agents : a = agent[t]
  BY DEF TypeOK
<1>3. /\ pc[t] = "pin" /\ pc' = [pc EXCEPT ![t] = "answer"]
      /\ pins' = [pins EXCEPT ![s] = Binding(t)]
      /\ UNCHANGED <<agent, sid, opener, expired, gone>>
  BY <1>1 DEF InsertPin, history
<1>4. s \notin Known /\ opener[s] = Binding(t) /\ Binding(t) # NoPin
  BY <1>1, <1>3, BindingTyped, McpSessionsAssumption
  DEF OnceInv, NamesNew, SessionInv, TasksTrue, Names, Bindings
<1>5. Known' = Known \cup {s}
  BY <1>3, <1>4 DEF TypeOK, Known, Pinned
<1>6. Phase(s) = "none" /\ Phase(s)' \in {"live", "over"}
  BY <1>4, <1>5 DEF Phase, Known
<1>7. \A x \in Sids \ {s} : Phase(x)' = Phase(x) /\ Owner(x)' = Owner(x)
  BY <1>3, <1>5 DEF Phase, Pinned, Owner, TypeOK
<1>8. Owner(s)' = a
  BY <1>2, <1>3, <1>4, <1>5 DEF Owner, Binding
<1>9. \A u \in Tasks : Carried(u)' = Carried(u)
  BY <1>3 DEF Carried, TypeOK
<1>10. \E q \in {"live", "over"} :
        [x \in Sids |-> Phase(x)]' = [[x \in Sids |-> Phase(x)] EXCEPT ![s] = q]
  BY <1>6, <1>7
<1>11. [x \in Sids |-> Owner(x)]' = [[x \in Sids |-> Owner(x)] EXCEPT ![s] = a]
  BY <1>7, <1>8
<1>12. [u \in Tasks |-> Carried(u)]' = [u \in Tasks |-> Carried(u)]
  BY <1>9
<1>13. [x \in Sids |-> Phase(x)][s] = "none"
  BY <1>6
<1>14. Table!Open(s, a)
  BY <1>10, <1>11, <1>12, <1>13, Zenon DEF Table!Open, Owner
<1> QED
  BY <1>14


\* Apart from the insertion of a pin, a step keeps the pins it does not remove.
LEMMA PinsStep ==
  ASSUME TypeOK, [Next]_vars, NEW s \in Sids, ~\E t \in Tasks : InsertPin(t)
  PROVE  pins'[s] \in {pins[s], NoPin} /\ expired \subseteq expired'
<1> USE DEF TypeOK, history, task
<1>1. ASSUME NEW t \in Tasks, Arrive(t) PROVE UNCHANGED <<pins, expired>>
  BY <1>1, ArriveTakes DEF Takes, Begin
<1>2. ASSUME NEW t \in Tasks,
             DropStale(t) \/ Handle(t) \/ CheckPin(t) \/ Answer(t) \/ Drop(t)
      PROVE  pins'[s] \in {pins[s], NoPin} /\ UNCHANGED expired
  BY <1>2 DEF DropStale, Handle, CheckPin, Answer, Drop
<1>3. CASE Evict \/ Expire \/ Restart \/ UNCHANGED vars
  BY <1>3 DEF Evict, Expire, Restart, vars
<1> QED
  BY <1>1, <1>2, <1>3 DEF Next

\* Apart from a Resume, a request goes on or finishes.
LEMMA CarriedStep ==
  ASSUME TypeOK, OnceInv, [Next]_vars, NEW t \in Tasks,
         ~\E a \in Agents, s \in Sids, d \in BOOLEAN : Resume(t, a, s, d)
  PROVE  Carried(t)' \in {Carried(t), <<NoSid, NoAgent>>}
<1> USE McpSessionsAssumption DEF TypeOK, Carried, history, task
<1>1. CASE Arrive(t)
  <2>1. ASSUME NEW a \in Agents, NEW s \in Sids, NEW d \in BOOLEAN,
               FindStale(t, a, s, d)
        PROVE  Carried(t)' = <<NoSid, NoAgent>>
    BY <2>1 DEF FindStale, Begin
  <2>2. ASSUME NEW a \in Agents, NEW s \in Sids \cup {NoSid}, NEW d \in BOOLEAN,
               FreshCredential(t, a, s, d)
        PROVE  Carried(t)' = <<NoSid, NoAgent>>
    BY <2>2 DEF FreshCredential, Begin
  <2> QED
    BY <1>1, <2>1, <2>2 DEF Arrive
<1>2. ASSUME NEW u \in Tasks \ {t}, Arrive(u)
      PROVE  UNCHANGED <<pc[t], sid[t], agent[t]>>
  BY <1>2, ArriveTakes DEF Takes, Begin
<1>3. ASSUME NEW u \in Tasks, DropStale(u) \/ Answer(u) \/ Drop(u)
      PROVE  Carried(t)' \in {Carried(t), <<NoSid, NoAgent>>}
  BY <1>3 DEF DropStale, Answer, Drop, Finish
<1>4. ASSUME NEW u \in Tasks, Handle(u) \/ CheckPin(u) \/ InsertPin(u)
      PROVE  Carried(t)' = Carried(t)
  BY <1>4 DEF Handle, CheckPin, InsertPin
<1>5. CASE Evict \/ Expire \/ UNCHANGED vars
  BY <1>5 DEF Evict, Expire, vars
<1>6. CASE Restart
  BY <1>6 DEF Restart
<1> QED
  BY <1>1, <1>2, <1>3, <1>4, <1>5, <1>6 DEF Next

\* Every other step ends sessions or finishes requests, or neither.
LEMMA RestEnds ==
  ASSUME TypeOK, SessionInv, OnceInv, [Next]_vars, TypeOK',
         ~\E t \in Tasks : InsertPin(t),
         ~\E t \in Tasks, a \in Agents, s \in Sids, d \in BOOLEAN : Resume(t, a, s, d)
  PROVE  Table!EndOrFinish
<1>1. Known' = Known
  BY KnownStep
<1>2. \A s \in Sids : \/ Phase(s)' = Phase(s)
                      \/ Phase(s) = "live" /\ Phase(s)' = "over"
  BY <1>1, PinsStep DEF Phase, Pinned, Known
<1>3. \A s \in Sids : Owner(s)' = Owner(s)
  BY <1>1, OwnerKept DEF Owner
<1>4. \A t \in Tasks : Carried(t)' \in {Carried(t), <<NoSid, NoAgent>>}
  BY CarriedStep
<1>5. \A t \in Tasks : Carried(t)' \in Table!Requests
  BY DEF Carried, Table!Requests, TypeOK
<1>6. \A s \in Sids : Phase(s)' \in Table!Phases
  BY DEF Phase, Table!Phases
<1> QED
  BY <1>2, <1>3, <1>4, <1>5, <1>6 DEF Table!EndOrFinish, Owner

LEMMA TableStep ==
  ASSUME TypeOK, SessionInv, OnceInv, [Next]_vars
  PROVE  [Table!TNext]_(Table!tvars)
<1>1. CASE \E t \in Tasks : InsertPin(t)
  BY <1>1, InsertOpens DEF Table!TNext
<1>2. CASE \E t \in Tasks, a \in Agents, s \in Sids, d \in BOOLEAN :
             Resume(t, a, s, d)
  BY <1>2, ResumeAccepts DEF Table!TNext
<1> QED
  BY <1>1, <1>2, RestEnds, TypeStep DEF Table!TNext

LEMMA OnceHolds == Spec /\ NoEcho => [](TypeOK /\ SessionInv /\ OnceInv)
<1> DEFINE Silent == \A t \in Tasks : ~Echoes(t)
<1>1. TypeOK /\ SessionInv /\ OnceInv /\ [Next]_vars /\ [Silent]_vars => OnceInv'
  <2>1. CASE Silent
    BY <2>1, OnceStep
  <2>2. CASE UNCHANGED vars
    <3>1. Silent
      BY <2>2 DEF vars, task, Echoes
    <3> QED
      BY <3>1, OnceStep
  <2> QED
    BY <2>1, <2>2
<1> QED
  BY <1>1, OnceInit, InvHolds, PTL DEF Spec, NoEcho

\* While GitHub names a session only in the response that opens it, a client of
\* one upstream sees the same table of sessions as a client of several: opened
\* once, for one agent, served while the credential is valid, over for good.
THEOREM TableImplementedWithoutEcho == Spec /\ NoEcho => ImplementsSessionTable
<1>1. TypeOK /\ SessionInv /\ OnceInv /\ [Next]_vars => [Table!TNext]_(Table!tvars)
  BY TableStep
<1> QED
  BY <1>1, TableInit, OnceHolds, PTL
  DEF Spec, ImplementsSessionTable, Table!TSpec

\* And a session whose DELETE was answered is never used again: it takes a
\* response that names the session a second time to bring it back.
THEOREM DeletedStaysDeletedWithoutEcho == Spec /\ NoEcho => DeletedStaysDeleted
<1> DEFINE Keeps == \A t \in Tasks : pc[t] = "idle" /\ pc'[t] = "send"
                                     => sid'[t] \notin deleted
<1>1. TypeOK /\ SessionInv /\ OnceInv /\ [Next]_vars => [Keeps]_vars
  <2> SUFFICES ASSUME TypeOK, SessionInv, OnceInv, [Next]_vars, NEW t \in Tasks,
                      pc[t] = "idle", pc'[t] = "send"
               PROVE  sid'[t] \notin deleted
    OBVIOUS
  <2>1. PICK a \in Agents, s \in Sids \cup {NoSid}, d \in BOOLEAN, c \in Creds,
             step \in {"send", "stale"} : Takes(t, a, s, d, c, step)
    BY StartsByArriving, ArriveTakes, Zenon
  <2>2. sid'[t] = s /\ (s \in Sids => Pinned(s))
    BY <2>1 DEF Takes, Begin, TypeOK
  <2> QED
    BY <2>2, McpSessionsAssumption DEF TypeOK, OnceInv, GoneTrue
<1> QED
  BY <1>1, OnceHolds, PTL DEF Spec, DeletedStaysDeleted
=============================================================================
