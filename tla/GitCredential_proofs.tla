------------------------ MODULE GitCredential_proofs ------------------------
(***************************************************************************)
(* Proofs about GitCredential for any number of calls, agents and          *)
(* repositories, any lifetimes and time limits.  The log's part is assumed *)
(* of it where needed: no append stops inside a line.                      *)
(***************************************************************************)
EXTENDS GitCredential, TLAPS

-----------------------------------------------------------------------------
(* Type correctness.                                                       *)

LEMMA TypeInit == Init => TypeOK
  BY GitCredentialAssumption DEF Init, TypeOK, Steps, Horizon

\* A handler that ends leaves the rest well typed.
LEMMA EndTyped ==
  ASSUME TypeOK, NEW c \in Calls, NEW how \in {"done", "gone"}, End(c, how),
         UNCHANGED owner
  PROVE  TypeOK'
<1> USE GitCredentialAssumption DEF TypeOK, End, Goto, owner
<1>1. pc' \in [Calls -> Steps] /\ agent' = agent /\ repo' = repo
  BY DEF Steps
<1>2. waited' \in [Calls -> 0..Timeout] /\ belongs' \in [Calls -> BOOLEAN]
  OBVIOUS
<1>3. \A d \in Calls : pc'[d] \notin {"idle", "done", "gone"} => pc'[d] = pc[d]
  OBVIOUS
<1> QED
  BY <1>1, <1>2, <1>3 DEF Horizon

LEMMA TypeStep == TypeOK /\ [Next]_vars => TypeOK'
<1> SUFFICES ASSUME TypeOK, [Next]_vars PROVE TypeOK'
  OBVIOUS
<1> USE GitCredentialAssumption
    DEF TypeOK, Steps, Goto, End, task, tokens, owner
<1>1. ASSUME NEW c \in Calls, Start(c) PROVE TypeOK'
  <2>1. PICK a \in Agents : \E r \in AgentRepos[a] :
           /\ agent' = [agent EXCEPT ![c] = a]
           /\ repo' = [repo EXCEPT ![c] = r]
    BY <1>1 DEF Start
  <2>2. PICK r \in Repos : repo' = [repo EXCEPT ![c] = r]
    BY <2>1
  <2> QED
    BY <1>1, <2>1, <2>2 DEF Start
<1>2. ASSUME NEW c \in Calls, RecordRequest(c) PROVE TypeOK'
  BY <1>2 DEF RecordRequest
<1>3. ASSUME NEW c \in Calls,
             VerifyCached(c) \/ VerifyMiss(c) \/ VerifyAsk(c) \/ GithubAnswers(c)
      PROVE  TypeOK'
  BY <1>3 DEF VerifyCached, VerifyMiss, VerifyAsk, GithubAnswers
<1>4. ASSUME NEW c \in Calls, VerifyOk(c) PROVE TypeOK'
  BY <1>4 DEF VerifyOk
<1>5. ASSUME NEW c \in Calls, VerifyFails(c) PROVE TypeOK'
  BY <1>5 DEF VerifyFails
<1>6. ASSUME NEW c \in Calls, AskToken(c) \/ ProviderStep(c) \/ MintFails(c)
      PROVE  TypeOK'
  BY <1>6 DEF AskToken, ProviderStep, MintFails
<1>7. ASSUME NEW c \in Calls, RecordRequestFails(c) \/ RecordFailure(c)
      PROVE  TypeOK'
  BY <1>7, EndTyped DEF RecordRequestFails, RecordFailure
<1>8. ASSUME NEW c \in Calls, Issue(c) \/ IssueFails(c) \/ Cancel(c)
      PROVE  TypeOK'
  BY <1>8, EndTyped DEF Issue, IssueFails, Cancel
<1>9. CASE Crash
  BY <1>9 DEF Crash
<1>10. CASE Rebind
  BY <1>10 DEF Rebind, Horizon
<1>11. CASE Tick
  <2>1. waited' \in [Calls -> 0..Timeout]
    BY <1>11 DEF Tick
  <2>2. verified' \in 0..VerifyTtl
    BY <1>11 DEF Tick, Less
  <2>3. strayed' \in 0..Horizon
    BY <1>11 DEF Tick, Horizon
  <2> QED
    BY <1>11, <2>1, <2>2, <2>3 DEF Tick
<1>12. CASE UNCHANGED vars
  BY <1>12 DEF vars
<1> QED
  BY <1>1, <1>2, <1>3, <1>4, <1>5, <1>6, <1>7, <1>8, <1>9, <1>10, <1>11,
     <1>12 DEF Next, CallStep

\* Every reachable state is well typed.
THEOREM TypeCorrect == Spec => []TypeOK
  BY TypeInit, TypeStep, PTL DEF Spec

-----------------------------------------------------------------------------
(* The verification that a call rests on is recent.                        *)

\* A verification that is used, and an answer that is on its way, are no more
\* out of date than their age.
VerifiedTrue ==
  /\ bound => strayed = 0
  /\ verified > 0 => strayed + verified <= Horizon
  /\ \A c \in Calls : pc[c] = "answered" /\ belongs[c] => strayed <= waited[c]

LEMMA VerifiedInit == Init => VerifiedTrue
  BY DEF Init, VerifiedTrue

LEMMA VerifiedStep == TypeOK /\ VerifiedTrue /\ [Next]_vars => VerifiedTrue'
<1> SUFFICES ASSUME TypeOK, VerifiedTrue, [Next]_vars PROVE VerifiedTrue'
  OBVIOUS
<1> USE GitCredentialAssumption
    DEF TypeOK, VerifiedTrue, Goto, End, task, tokens, owner
<1>1. ASSUME NEW c \in Calls,
             \/ Start(c) \/ RecordRequest(c) \/ RecordRequestFails(c)
             \/ VerifyCached(c) \/ VerifyMiss(c) \/ VerifyAsk(c)
             \/ VerifyFails(c)
             \/ AskToken(c) \/ ProviderStep(c) \/ MintFails(c)
             \/ RecordFailure(c) \/ Issue(c) \/ IssueFails(c) \/ Cancel(c)
      PROVE  VerifiedTrue'
  <2>1. /\ UNCHANGED owner
        /\ \A d \in Calls : pc'[d] = "answered"
                              => /\ pc[d] = "answered"
                                 /\ belongs'[d] = belongs[d]
                                 /\ waited'[d] = waited[d]
    BY <1>1 DEF Start, RecordRequest, RecordRequestFails, VerifyCached,
                VerifyMiss, VerifyAsk, VerifyFails, AskToken, ProviderStep,
                MintFails, RecordFailure, Issue, IssueFails, Cancel
  <2> QED
    BY <2>1
<1>2. ASSUME NEW c \in Calls, GithubAnswers(c) PROVE VerifiedTrue'
  BY <1>2 DEF GithubAnswers
<1>3. ASSUME NEW c \in Calls, VerifyOk(c) PROVE VerifiedTrue'
  <2>1. strayed <= Timeout
    BY <1>3 DEF VerifyOk
  <2>2. strayed' + verified' <= Horizon
    BY <1>3, <2>1 DEF VerifyOk, Horizon
  <2> QED
    BY <1>3, <2>2 DEF VerifyOk
<1>4. CASE Crash
  BY <1>4 DEF Crash
<1>5. CASE Rebind
  <2>1. strayed' \in {0, strayed} /\ (bound' => strayed' = 0)
    BY <1>5 DEF Rebind
  <2> QED
    BY <1>5, <2>1 DEF Rebind, Horizon
<1>6. CASE Tick
  <2>1. strayed' <= strayed + 1 /\ (bound' => strayed' = 0)
    BY <1>6 DEF Tick
  <2>2. verified' > 0 => verified' = verified - 1
    BY <1>6 DEF Tick, Less
  <2>3. verified' > 0 => strayed' + verified' <= Horizon
    BY <1>6, <2>1, <2>2 DEF Tick, Horizon
  <2>4. \A c \in Calls : pc'[c] = "answered" /\ belongs'[c]
                           => strayed' <= waited'[c]
    BY <1>6, <2>1 DEF Tick, Waits
  <2> QED
    BY <2>1, <2>3, <2>4 DEF Horizon
<1>7. CASE UNCHANGED vars
  BY <1>7 DEF vars
<1> QED
  BY <1>1, <1>2, <1>3, <1>4, <1>5, <1>6, <1>7 DEF Next, CallStep

\* Only a cached verification or a fresh answer verifies a call.
LEMMA VerifiedByThese ==
  ASSUME TypeOK, VerifiedTrue, [Next]_vars,
         NEW c \in Calls, pc[c] # "verified", pc'[c] = "verified"
  PROVE  strayed < Horizon
<1> USE GitCredentialAssumption DEF TypeOK, Goto, End, Horizon
<1>1. VerifyCached(c) \/ VerifyOk(c)
  <2>1. ~(Crash \/ Rebind \/ Tick \/ UNCHANGED vars)
    BY DEF Crash, Rebind, Tick, vars, task
  <2>2. PICK d \in Calls : CallStep(d)
    BY <2>1 DEF Next
  <2>3. ~( \/ Start(d) \/ RecordRequest(d) \/ RecordRequestFails(d)
           \/ VerifyMiss(d) \/ VerifyAsk(d) \/ GithubAnswers(d)
           \/ VerifyFails(d) )
    BY DEF Start, RecordRequest, RecordRequestFails, VerifyMiss, VerifyAsk,
           GithubAnswers, VerifyFails
  <2>4. ~( \/ AskToken(d) \/ ProviderStep(d) \/ MintFails(d)
           \/ RecordFailure(d) \/ Issue(d) \/ IssueFails(d) \/ Cancel(d) )
    BY DEF AskToken, ProviderStep, MintFails, RecordFailure, Issue,
           IssueFails, Cancel, task
  <2>5. VerifyCached(d) \/ VerifyOk(d)
    BY <2>2, <2>3, <2>4 DEF CallStep
  <2>6. d = c
    BY <2>5 DEF VerifyCached, VerifyOk
  <2> QED
    BY <2>5, <2>6
<1>2. CASE VerifyCached(c)
  BY <1>2 DEF VerifyCached, VerifiedTrue
<1>3. CASE VerifyOk(c)
  BY <1>3 DEF VerifyOk, VerifiedTrue
<1> QED
  BY <1>1, <1>2, <1>3

\* Every call that passes verification rests on an answer of GitHub that was
\* true within VERIFY_TTL and one time limit.
THEOREM OwnerVerifiedInTimeHolds == Spec => OwnerVerifiedInTime
<1>1. TypeOK /\ VerifiedTrue /\ [Next]_vars
        => [\A c \in Calls : pc[c] # "verified" /\ pc'[c] = "verified"
                               => strayed < Horizon]_vars
  BY VerifiedByThese
<1> QED
  BY <1>1, TypeInit, TypeStep, VerifiedInit, VerifiedStep, PTL
  DEF Spec, OwnerVerifiedInTime

-----------------------------------------------------------------------------
(* What the log says is true, if no append ever stops inside a line.       *)

\* Where the handler is past its request record.
Past == {"recorded", "discovering", "asking", "answered", "verified", "failed",
         "minting"}

\* The record is there from the moment the handler goes past it.  The provider
\* knows of a call until its handler ends.
RequestOnRecord ==
  /\ torn = FALSE
  /\ \A c \in Calls :
       /\ pc[c] \in Past => <<c, "request">> \in readable
       /\ call[c] # Tokens!Idle => pc[c] \in {"minting", "failed"}

\* The log only grows.
LEMMA LogGrows ==
  ASSUME "torn" \notin AuditFaults, torn = FALSE,
         \/ UNCHANGED log \/ LogCrash
         \/ \E r : Persist(r) \/ PersistFails(r)
  PROVE  torn' = FALSE /\ readable \subseteq readable'
  BY DEF log, LogCrash, Persist, PersistFails, WithLine

LEMMA StepGrowsLog ==
  ASSUME "torn" \notin AuditFaults, torn = FALSE, [Next]_vars
  PROVE  torn' = FALSE /\ readable \subseteq readable'
<1>1. \/ UNCHANGED log \/ LogCrash
      \/ \E r : Persist(r) \/ PersistFails(r)
  <2>1. CASE Crash \/ Rebind \/ Tick \/ UNCHANGED vars
    BY <2>1 DEF Crash, Rebind, Tick, vars
  <2>2. ASSUME NEW c \in Calls,
               \/ RecordRequest(c) \/ RecordRequestFails(c)
               \/ RecordFailure(c) \/ Issue(c) \/ IssueFails(c)
        PROVE  \E r : Persist(r) \/ PersistFails(r)
    BY <2>2 DEF RecordRequest, RecordRequestFails, RecordFailure, Issue,
                IssueFails
  <2>3. ASSUME NEW c \in Calls,
               \/ Start(c) \/ VerifyCached(c) \/ VerifyMiss(c) \/ VerifyAsk(c)
               \/ GithubAnswers(c) \/ VerifyOk(c) \/ VerifyFails(c)
               \/ AskToken(c) \/ ProviderStep(c) \/ MintFails(c) \/ Cancel(c)
        PROVE  UNCHANGED log
    BY <2>3 DEF Start, VerifyCached, VerifyMiss, VerifyAsk, GithubAnswers,
                VerifyOk, VerifyFails, AskToken, ProviderStep, MintFails,
                Cancel
  <2> QED
    BY <2>1, <2>2, <2>3 DEF Next, CallStep
<1> QED
  BY <1>1, LogGrows

\* The provider's table has an entry for every call and no other.
CallDomain == call = [c \in Calls |-> call[c]]

LEMMA EntryChanged ==
  ASSUME CallDomain, NEW c \in Calls, NEW x, call' = [call EXCEPT ![c] = x]
  PROVE  \A d \in Calls : call'[d] = IF d = c THEN x ELSE call[d]
  BY DEF CallDomain

LEMMA RequestInit == Init => RequestOnRecord /\ CallDomain
  BY DEF Init, LogInit, RequestOnRecord, CallDomain, Past, Tokens!SInit

LEMMA DomainStep == CallDomain /\ [Next]_vars => CallDomain'
<1> SUFFICES ASSUME CallDomain, [Next]_vars PROVE CallDomain'
  OBVIOUS
<1> USE DEF CallDomain
<1>1. ASSUME NEW c \in Calls,
             \/ RecordRequestFails(c) \/ RecordFailure(c) \/ Issue(c)
             \/ IssueFails(c) \/ Cancel(c)
      PROVE  CallDomain'
  BY <1>1 DEF RecordRequestFails, RecordFailure, Issue, IssueFails, Cancel, End
<1>2. ASSUME NEW c \in Calls, AskToken(c) \/ ProviderStep(c) PROVE CallDomain'
  BY <1>2 DEF AskToken, ProviderStep, Tokens!Ask, Tokens!ServeStored,
              Tokens!ServeMinted, Tokens!Refuse
<1>3. ASSUME NEW c \in Calls,
             \/ Start(c) \/ RecordRequest(c) \/ VerifyCached(c)
             \/ VerifyMiss(c) \/ VerifyAsk(c) \/ GithubAnswers(c)
             \/ VerifyOk(c) \/ VerifyFails(c) \/ MintFails(c)
      PROVE  CallDomain'
  BY <1>3 DEF Start, RecordRequest, VerifyCached, VerifyMiss, VerifyAsk,
              GithubAnswers, VerifyOk, VerifyFails, MintFails, tokens
<1>4. CASE Crash \/ Rebind \/ Tick \/ UNCHANGED vars
  BY <1>4 DEF Crash, Rebind, Tick, Tokens!Age, Tokens!Restart, vars, tokens
<1> QED
  BY <1>1, <1>2, <1>3, <1>4 DEF Next, CallStep

LEMMA RequestStep ==
  ASSUME "torn" \notin AuditFaults, TypeOK, CallDomain, RequestOnRecord,
         [Next]_vars
  PROVE  RequestOnRecord'
<1> USE DEF RequestOnRecord, Past
<1>0. pc \in [Calls -> Steps]
  BY DEF TypeOK
<1>1. torn' = FALSE /\ readable \subseteq readable'
  BY StepGrowsLog
<1>2. ASSUME NEW c \in Calls, RecordRequest(c) PROVE RequestOnRecord'
  <2>1. <<c, "request">> \in readable'
    BY <1>2 DEF RecordRequest, Persist, WithLine
  <2> QED
    BY <1>0, <1>1, <1>2, <2>1 DEF RecordRequest, Goto, tokens
<1>3. ASSUME NEW c \in Calls,
             \/ RecordRequestFails(c) \/ RecordFailure(c) \/ Issue(c)
             \/ IssueFails(c) \/ Cancel(c)
      PROVE  RequestOnRecord'
  <2>1. End(c, "done") \/ End(c, "gone")
    BY <1>3 DEF RecordRequestFails, RecordFailure, Issue, IssueFails, Cancel
  <2>2. \A d \in Calls : call'[d] = IF d = c THEN Tokens!Idle ELSE call[d]
    BY <2>1, EntryChanged DEF End
  <2> QED
    BY <1>0, <1>1, <2>1, <2>2 DEF End, Goto
<1>4. ASSUME NEW c \in Calls,
             \/ Start(c) \/ VerifyCached(c) \/ VerifyMiss(c) \/ VerifyAsk(c)
             \/ GithubAnswers(c) \/ VerifyOk(c) \/ VerifyFails(c)
             \/ MintFails(c)
      PROVE  RequestOnRecord'
  <2>1. /\ call' = call
        /\ \A d \in Calls : d # c => pc'[d] = pc[d]
        /\ pc'[c] \in Past => pc[c] \in Past
        /\ pc[c] \in {"minting", "failed"} => pc'[c] = "failed"
    BY <1>0, <1>4 DEF Start, VerifyCached, VerifyMiss, VerifyAsk,
       GithubAnswers, VerifyOk, VerifyFails, MintFails, Goto, tokens
  <2> QED
    BY <1>1, <2>1
<1>5. ASSUME NEW c \in Calls, AskToken(c) PROVE RequestOnRecord'
  <2>1. \A d \in Calls : d # c => call'[d] = call[d]
    BY <1>5, EntryChanged DEF AskToken, Tokens!Ask
  <2> QED
    BY <1>0, <1>1, <1>5, <2>1 DEF AskToken, Goto
<1>6. ASSUME NEW c \in Calls, ProviderStep(c) PROVE RequestOnRecord'
  <2>1. \A d \in Calls : d # c => call'[d] = call[d]
    BY <1>6, EntryChanged DEF ProviderStep, Tokens!ServeStored,
       Tokens!ServeMinted, Tokens!Refuse
  <2> QED
    BY <1>1, <1>6, <2>1 DEF ProviderStep, task
<1>7. CASE Crash
  BY <1>0, <1>1, <1>7 DEF Crash, Tokens!Restart
<1>8. CASE Rebind \/ UNCHANGED vars
  BY <1>0, <1>1, <1>8 DEF Rebind, vars, task, tokens
<1>9. CASE Tick
  <2>1. pc' = pc /\ call' = [c \in Calls |-> Tokens!OlderCall(call[c])]
    BY <1>9 DEF Tick, Tokens!Age
  <2>2. Tokens!OlderCall(Tokens!Idle) = Tokens!Idle
    BY DEF Tokens!OlderCall, Tokens!Idle
  <2>3. \A c \in Calls : call'[c] # Tokens!Idle => call[c] # Tokens!Idle
    BY <2>1, <2>2
  <2> QED
    BY <1>0, <1>1, <2>1, <2>3
<1> QED
  BY <1>2, <1>3, <1>4, <1>5, <1>6, <1>7, <1>8, <1>9 DEF Next, CallStep

LEMMA RequestOnRecordSuffices == RequestOnRecord => NoMintUnaudited
  BY DEF RequestOnRecord, NoMintUnaudited, Past, Tokens!Idle

\* The token provider is asked nothing for a call whose request record cannot
\* be read, whatever fails, as long as no failed append leaves a torn line.
THEOREM NoMintUnauditedHolds ==
  ("torn" \notin AuditFaults) /\ Spec => []NoMintUnaudited
<1> SUFFICES ASSUME "torn" \notin AuditFaults
             PROVE  Spec => []NoMintUnaudited
  OBVIOUS
<1>1. TypeOK /\ CallDomain /\ RequestOnRecord /\ [Next]_vars
        => RequestOnRecord'
  BY RequestStep
<1> QED
  BY <1>1, TypeInit, TypeStep, RequestInit, DomainStep, RequestOnRecordSuffices,
     PTL DEF Spec

-----------------------------------------------------------------------------
(* A token that is handed out is the one the log has on record.            *)

\* The tokens that may answer request r.
Good(r) == [scope : {ScopeOf(r)}, life : Nat]

\* Whatever is stored under the key of a git request may answer it, or is
\* nothing at all.
StoreTrue ==
  /\ DOMAIN store = Keys
  /\ \A x \in Repos, b \in BOOLEAN :
       store[CacheKey(TokenGit(x, b))] \in Good(TokenGit(x, b))
                                             \cup {Tokens!NoToken}

\* The provider works on what the handler wants and answers nothing else.
AnswersTrue ==
  \A c \in Calls :
    /\ call[c].status = "pending" => call[c].req = Wanted(c)
    /\ call[c].status \in {"stored", "minted"} => call[c].token \in Good(Wanted(c))

\* A token was handed out at the end of its call.
GivenTrue ==
  /\ given = [c \in Calls |-> given[c]]
  /\ \A c \in Calls : given[c] # NoScope => pc[c] = "done"
  /\ IssuedAsRecorded

IssueInv == StoreTrue /\ AnswersTrue /\ GivenTrue

LEMMA GitKeys ==
  ASSUME NEW x \in Repos, NEW b \in BOOLEAN
  PROVE  /\ CacheKey(TokenGit(x, b)) \in Keys
         /\ \A y \in Repos, d \in BOOLEAN :
              CacheKey(TokenGit(y, d)) = CacheKey(TokenGit(x, b))
                => y = x /\ d = b
<1>1. TokenGit(x, b) \in Requests
  BY DEF Requests
<1>2. \A y \in Repos, d \in BOOLEAN :
        /\ TokenGit(y, d).repos = {y}
        /\ TokenGit(y, d).purpose = IF d THEN "git:contents=read"
                                          ELSE "git:contents=write"
  BY DEF TokenGit
<1> QED
  BY <1>1, <1>2 DEF Keys, CacheKey

\* What the handler wants while it is at work.
LEMMA WantedIsGit ==
  ASSUME TypeOK, NEW c \in Calls, pc[c] \notin {"idle", "done", "gone"}
  PROVE  /\ repo[c] \in Repos /\ ReadOnly[agent[c]] \in BOOLEAN
         /\ Wanted(c) = TokenGit(repo[c], ReadOnly[agent[c]])
         /\ ScopeOf(Wanted(c)) = <<{repo[c]}, Mode(c)>>
<1>1. repo[c] \in Repos /\ ReadOnly[agent[c]] \in BOOLEAN
  BY GitCredentialAssumption DEF TypeOK
<1> QED
  BY <1>1 DEF Wanted, ScopeOf, TokenGit, Mode

LEMMA IssueInit == Init => IssueInv
<1> SUFFICES ASSUME Init PROVE IssueInv
  OBVIOUS
<1>1. DOMAIN store = Keys /\ \A k \in Keys : store[k] = Tokens!NoToken
  BY DEF Init, Tokens!SInit
<1>2. StoreTrue
  BY <1>1, GitKeys DEF StoreTrue
<1>3. AnswersTrue
  BY DEF Init, Tokens!SInit, AnswersTrue, Tokens!Idle
<1>4. GivenTrue
  BY DEF Init, GivenTrue, IssuedAsRecorded
<1> QED
  BY <1>2, <1>3, <1>4 DEF IssueInv

\* Time only shortens the life of a token.
LEMMA OlderGood ==
  ASSUME NEW r, NEW t \in Good(r) \cup {Tokens!NoToken}
  PROVE  /\ t \in Good(r) => Tokens!Older(t) \in Good(r)
         /\ t = Tokens!NoToken => Tokens!Older(t) = Tokens!NoToken
  BY DEF Good, Tokens!NoToken, Tokens!Older

\* A step outside the provider and the result record.
LEMMA IssueKept ==
  ASSUME IssueInv, RequestOnRecord, store' = store, given' = given,
         readable \subseteq readable',
         \A c \in Calls : call'[c] \in {call[c], Tokens!Idle},
         \A c \in Calls : pc[c] # "idle" => /\ repo'[c] = repo[c]
                                           /\ agent'[c] = agent[c],
         \A c \in Calls : pc[c] = "done" => pc'[c] = "done"
  PROVE  IssueInv'
<1>1. StoreTrue'
  BY DEF IssueInv, StoreTrue
<1>2. AnswersTrue'
  <2> SUFFICES ASSUME NEW c \in Calls, call'[c] # Tokens!Idle
               PROVE  /\ call'[c] = call[c]
                      /\ Wanted(c)' = Wanted(c)
    BY DEF IssueInv, AnswersTrue, Tokens!Idle
  <2>1. call'[c] = call[c] /\ pc[c] \in {"minting", "failed"}
    BY DEF RequestOnRecord
  <2> QED
    BY <2>1 DEF Wanted
<1>3. GivenTrue'
  BY DEF IssueInv, GivenTrue, IssuedAsRecorded, Mode
<1> QED
  BY <1>1, <1>2, <1>3 DEF IssueInv

LEMMA AskKeeps ==
  ASSUME TypeOK, CallDomain, IssueInv, NEW c \in Calls, AskToken(c)
  PROVE  IssueInv'
<1>1. /\ store' = store /\ given' = given /\ repo' = repo /\ agent' = agent
      /\ readable' = readable /\ pc[c] = "verified"
      /\ \A d \in Calls : pc[d] = "done" => pc'[d] = "done"
  BY DEF AskToken, Tokens!Ask, Goto, log, TypeOK
<1>2. \A d \in Calls :
        call'[d] = IF d = c THEN Tokens!Pending(Wanted(c)) ELSE call[d]
  BY EntryChanged DEF AskToken, Tokens!Ask
<1>3. \A d \in Calls : Wanted(d)' = Wanted(d)
  BY <1>1 DEF Wanted
<1>4. AnswersTrue'
  BY <1>2, <1>3 DEF IssueInv, AnswersTrue, Tokens!Pending
<1>5. StoreTrue' /\ GivenTrue'
  BY <1>1 DEF IssueInv, StoreTrue, GivenTrue, IssuedAsRecorded, Mode
<1> QED
  BY <1>4, <1>5 DEF IssueInv

LEMMA ProviderKeeps ==
  ASSUME TypeOK, CallDomain, IssueInv, NEW c \in Calls, ProviderStep(c)
  PROVE  IssueInv'
<1> DEFINE w == Wanted(c)
           k == CacheKey(w)
<1>1. /\ given' = given /\ repo' = repo /\ agent' = agent /\ pc' = pc
      /\ readable' = readable /\ pc[c] = "minting"
  BY DEF ProviderStep, log, task
<1>2. /\ call[c].status = "pending"
      /\ call[c].req = w
  BY DEF ProviderStep, Tokens!ServeStored, Tokens!ServeMinted, Tokens!Refuse,
         IssueInv, AnswersTrue
<1>3. /\ \A d \in Calls : Wanted(d)' = Wanted(d)
      /\ GivenTrue'
  BY <1>1 DEF Wanted, IssueInv, GivenTrue, IssuedAsRecorded, Mode
<1>4. PICK x \in Repos, b \in BOOLEAN : w = TokenGit(x, b)
  BY <1>1, WantedIsGit
<1>5. /\ k \in Keys
      /\ \A y \in Repos, d \in BOOLEAN :
           CacheKey(TokenGit(y, d)) = k => TokenGit(y, d) = w
  BY <1>4, GitKeys
<1>6. CASE Tokens!ServeStored(c)
  <2>1. store[k] \in Good(w)
    <3>1. store[k] \in Good(w) \cup {Tokens!NoToken}
      BY <1>4 DEF IssueInv, StoreTrue
    <3>2. Tokens!Usable(store[k])
      BY <1>2, <1>6 DEF Tokens!ServeStored
    <3>3. ~Tokens!Usable(Tokens!NoToken)
      BY GitCredentialAssumption DEF Tokens!Usable, Tokens!NoToken
    <3> QED
      BY <3>1, <3>2, <3>3
  <2>2. store' = store
    BY <1>6 DEF Tokens!ServeStored
  <2>3. call' = [call EXCEPT ![c] = Tokens!Stored(w, store[k])]
    BY <1>2, <1>6 DEF Tokens!ServeStored
  <2>4. \A d \in Calls :
          call'[d] = IF d = c THEN Tokens!Stored(w, store[k]) ELSE call[d]
    BY <2>3, EntryChanged
  <2>5. AnswersTrue'
    BY <1>3, <2>1, <2>4 DEF IssueInv, AnswersTrue, Tokens!Stored
  <2> QED
    BY <1>3, <2>2, <2>5 DEF IssueInv, StoreTrue
<1>7. CASE Tokens!ServeMinted(c)
  <2>0. PICK n \in Lifetimes : \E l \in 0..n :
          LET t == [scope |-> ScopeOf(call[c].req), life |-> l]
          IN  /\ store' = [store EXCEPT ![CacheKey(call[c].req)] = t]
              /\ call' = [call EXCEPT ![c] = Tokens!Minted(call[c].req, t)]
    BY <1>7 DEF Tokens!ServeMinted
  <2>01. PICK l \in 0..n :
          LET t == [scope |-> ScopeOf(call[c].req), life |-> l]
          IN  /\ store' = [store EXCEPT ![CacheKey(call[c].req)] = t]
              /\ call' = [call EXCEPT ![c] = Tokens!Minted(call[c].req, t)]
    BY <2>0
  <2> DEFINE t == [scope |-> ScopeOf(w), life |-> l]
  <2>1. /\ store' = [store EXCEPT ![k] = t]
        /\ call' = [call EXCEPT ![c] = Tokens!Minted(w, t)]
    BY <1>2, <2>01
  <2>2. t \in Good(w)
    BY GitCredentialAssumption DEF Good
  <2>3. \A d \in Calls :
          call'[d] = IF d = c THEN Tokens!Minted(w, t) ELSE call[d]
    BY <2>1, EntryChanged
  <2>4. AnswersTrue'
    BY <1>3, <2>2, <2>3 DEF IssueInv, AnswersTrue, Tokens!Minted
  <2>5. DOMAIN store' = Keys
    BY <2>1 DEF IssueInv, StoreTrue
  <2>6. \A y \in Repos, d \in BOOLEAN :
          store'[CacheKey(TokenGit(y, d))]
            = IF CacheKey(TokenGit(y, d)) = k
              THEN t ELSE store[CacheKey(TokenGit(y, d))]
    BY <2>1, GitKeys DEF IssueInv, StoreTrue
  <2>7. StoreTrue'
    BY <1>5, <2>2, <2>5, <2>6 DEF IssueInv, StoreTrue
  <2> QED
    BY <1>3, <2>4, <2>7 DEF IssueInv
<1>8. CASE Tokens!Refuse(c)
  <2>1. store' = store
    BY <1>8 DEF Tokens!Refuse
  <2>2. call' = [call EXCEPT ![c] = Tokens!Refused(w)]
    BY <1>2, <1>8 DEF Tokens!Refuse
  <2>3. \A d \in Calls : call'[d] = IF d = c THEN Tokens!Refused(w) ELSE call[d]
    BY <2>2, EntryChanged
  <2>4. AnswersTrue'
    BY <1>3, <2>3 DEF IssueInv, AnswersTrue, Tokens!Refused
  <2> QED
    BY <1>3, <2>1, <2>4 DEF IssueInv, StoreTrue
<1> QED
  BY <1>6, <1>7, <1>8 DEF ProviderStep

\* The record is written with the answer, and says the mode of its token.
LEMMA IssueKeeps ==
  ASSUME "torn" \notin AuditFaults, TypeOK, CallDomain, RequestOnRecord,
         IssueInv, NEW c \in Calls, Issue(c)
  PROVE  IssueInv'
<1>1. /\ store' = store /\ repo' = repo /\ agent' = agent
      /\ pc' = [pc EXCEPT ![c] = "done"]
      /\ call' = [call EXCEPT ![c] = Tokens!Idle]
      /\ given' = [given EXCEPT ![c] = call[c].token.scope]
      /\ HasToken(c)
  BY DEF Issue, End, Goto
<1>2. call[c].token.scope = <<{repo[c]}, Mode(c)>>
  <2>1. call[c].token \in Good(Wanted(c))
    BY <1>1 DEF HasToken, IssueInv, AnswersTrue
  <2> QED
    BY <1>1, <2>1, WantedIsGit DEF Good, HasToken
<1>3. <<c, "issued", Mode(c)>> \in readable' /\ readable \subseteq readable'
  BY DEF Issue, Persist, WithLine, RequestOnRecord
<1>4. \A d \in Calls : call'[d] = IF d = c THEN Tokens!Idle ELSE call[d]
  BY <1>1, EntryChanged
<1>5. \A d \in Calls : Wanted(d)' = Wanted(d) /\ Mode(d)' = Mode(d)
  BY <1>1 DEF Wanted, Mode
<1>6. AnswersTrue'
  BY <1>4, <1>5 DEF IssueInv, AnswersTrue, Tokens!Idle
<1>7. \A d \in Calls : given'[d] = IF d = c THEN <<{repo[c]}, Mode(c)>>
                                           ELSE given[d]
  BY <1>1, <1>2 DEF IssueInv, GivenTrue
<1>8. IssuedAsRecorded'
  BY <1>1, <1>3, <1>5, <1>7 DEF IssueInv, GivenTrue, IssuedAsRecorded
<1>9. \A d \in Calls : given'[d] # NoScope => pc'[d] = "done"
  BY <1>1, <1>7 DEF IssueInv, GivenTrue, TypeOK
<1>10. given' = [d \in Calls |-> given'[d]]
  BY <1>1 DEF IssueInv, GivenTrue
<1> QED
  BY <1>1, <1>6, <1>8, <1>9, <1>10 DEF IssueInv, StoreTrue, GivenTrue

LEMMA TickKeeps == ASSUME TypeOK, IssueInv, Tick PROVE IssueInv'
<1>1. /\ UNCHANGED <<given, repo, agent, pc, readable>>
      /\ store' = [k \in Keys |-> Tokens!Older(store[k])]
      /\ call' = [c \in Calls |-> Tokens!OlderCall(call[c])]
  BY DEF Tick, Tokens!Age, log
<1>2. StoreTrue'
  BY <1>1, GitKeys, OlderGood DEF IssueInv, StoreTrue
<1>3. GivenTrue'
  BY <1>1 DEF IssueInv, GivenTrue, IssuedAsRecorded, Mode
<1>4. ASSUME NEW c \in Calls
      PROVE  /\ call'[c].status = "pending" => call'[c].req = Wanted(c)'
             /\ call'[c].status \in {"stored", "minted"}
                  => call'[c].token \in Good(Wanted(c)')
  <2>1. Wanted(c)' = Wanted(c) /\ call'[c] = Tokens!OlderCall(call[c])
    BY <1>1 DEF Wanted
  <2>2. CASE call[c].status \in {"stored", "minted"}
    <3>1. /\ call'[c].status = call[c].status
          /\ call'[c].token = Tokens!Older(call[c].token)
      BY <2>1, <2>2 DEF Tokens!OlderCall, Tokens!Stored, Tokens!Minted
    <3>2. call[c].token \in Good(Wanted(c))
      BY <2>2 DEF IssueInv, AnswersTrue
    <3> QED
      BY <2>1, <2>2, <3>1, <3>2, OlderGood
  <2>3. CASE call[c].status \notin {"stored", "minted"}
    <3>1. call'[c] = call[c]
      BY <2>1, <2>3 DEF Tokens!OlderCall
    <3> QED
      BY <2>1, <2>3, <3>1 DEF IssueInv, AnswersTrue
  <2> QED
    BY <2>2, <2>3
<1> QED
  BY <1>2, <1>3, <1>4 DEF IssueInv, AnswersTrue

LEMMA IssueStep ==
  ASSUME "torn" \notin AuditFaults, TypeOK, CallDomain, RequestOnRecord,
         IssueInv, [Next]_vars
  PROVE  IssueInv'
<1>0. readable \subseteq readable' /\ pc \in [Calls -> Steps]
  BY StepGrowsLog DEF RequestOnRecord, TypeOK
<1>1. ASSUME NEW c \in Calls, Start(c) PROVE IssueInv'
  <2>1. PICK a, r : /\ agent' = [agent EXCEPT ![c] = a]
                    /\ repo' = [repo EXCEPT ![c] = r]
    BY <1>1 DEF Start
  <2>2. \A d \in Calls : pc[d] # "idle" => /\ repo'[d] = repo[d]
                                          /\ agent'[d] = agent[d]
    BY <1>1, <2>1 DEF Start, TypeOK
  <2> QED
    BY <1>0, <1>1, <2>2, IssueKept DEF Start, Goto, tokens
<1>2. ASSUME NEW c \in Calls,
             \/ RecordRequest(c) \/ VerifyCached(c) \/ VerifyMiss(c)
             \/ VerifyAsk(c) \/ GithubAnswers(c) \/ VerifyOk(c)
             \/ VerifyFails(c) \/ MintFails(c)
      PROVE  IssueInv'
  <2>1. /\ UNCHANGED <<store, call, given, repo, agent>>
        /\ \A d \in Calls : pc[d] = "done" => pc'[d] = "done"
    BY <1>0, <1>2 DEF RecordRequest, VerifyCached, VerifyMiss, VerifyAsk,
       GithubAnswers, VerifyOk, VerifyFails, MintFails, Goto, tokens
  <2> QED
    BY <1>0, <2>1, IssueKept
<1>3. ASSUME NEW c \in Calls,
             \/ RecordRequestFails(c) \/ RecordFailure(c)
             \/ IssueFails(c) \/ Cancel(c)
      PROVE  IssueInv'
  <2>1. /\ UNCHANGED <<store, given, repo, agent>>
        /\ call' = [call EXCEPT ![c] = Tokens!Idle]
        /\ \A d \in Calls : pc[d] = "done" => pc'[d] = "done"
    BY <1>0, <1>3 DEF RecordRequestFails, RecordFailure, IssueFails, HasToken,
       Cancel, End, Goto
  <2>2. \A d \in Calls : call'[d] \in {call[d], Tokens!Idle}
    BY <2>1, EntryChanged
  <2> QED
    BY <1>0, <2>1, <2>2, IssueKept
<1>4. ASSUME NEW c \in Calls, AskToken(c) PROVE IssueInv'
  BY <1>4, AskKeeps
<1>5. ASSUME NEW c \in Calls, ProviderStep(c) PROVE IssueInv'
  BY <1>5, ProviderKeeps
<1>6. ASSUME NEW c \in Calls, Issue(c) PROVE IssueInv'
  BY <1>6, IssueKeeps
<1>7. CASE Crash
  <2>1. StoreTrue'
    BY <1>7, GitKeys DEF Crash, Tokens!Restart, StoreTrue
  <2>2. AnswersTrue'
    BY <1>7 DEF Crash, Tokens!Restart, AnswersTrue, Tokens!Idle
  <2>3. GivenTrue'
    BY <1>0, <1>7 DEF Crash, IssueInv, GivenTrue, IssuedAsRecorded, Mode
  <2> QED
    BY <2>1, <2>2, <2>3 DEF IssueInv
<1>8. CASE Rebind \/ UNCHANGED vars
  BY <1>0, <1>8, IssueKept DEF Rebind, vars, task, tokens
<1>9. CASE Tick
  BY <1>9, TickKeeps
<1> QED
  BY <1>1, <1>2, <1>3, <1>4, <1>5, <1>6, <1>7, <1>8, <1>9 DEF Next, CallStep

LEMMA IssueInvSuffices == IssueInv => IssuedAsRecorded
  BY DEF IssueInv, GivenTrue

\* Whatever tokens the provider's cache holds and however calls interleave,
\* fail and are cut short, a token that is handed out is good for the one
\* repository asked for, in the mode of its result record.
THEOREM IssuedAsRecordedHolds ==
  ("torn" \notin AuditFaults) /\ Spec => []IssuedAsRecorded
<1> SUFFICES ASSUME "torn" \notin AuditFaults
             PROVE  Spec => []IssuedAsRecorded
  OBVIOUS
<1>1. TypeOK /\ CallDomain /\ RequestOnRecord /\ [Next]_vars
        => RequestOnRecord'
  BY RequestStep
<1>2. TypeOK /\ CallDomain /\ RequestOnRecord /\ IssueInv /\ [Next]_vars
        => IssueInv'
  BY IssueStep
<1> QED
  BY <1>1, <1>2, TypeInit, TypeStep, RequestInit, DomainStep, IssueInit,
     IssueInvSuffices, PTL DEF Spec
-----------------------------------------------------------------------------
(* The provider is used as TokenService promises.                          *)

\* A call that is not at the provider is one like any other.
IdleIsOne ==
  \A c \in Calls : call[c].status = "idle" => call[c] = Tokens!Idle

LEMMA IdleInit == Init => IdleIsOne
  BY DEF Init, Tokens!SInit, IdleIsOne

LEMMA IdleStep == CallDomain /\ IdleIsOne /\ [Next]_vars => IdleIsOne'
<1> SUFFICES ASSUME CallDomain, IdleIsOne, [Next]_vars PROVE IdleIsOne'
  OBVIOUS
<1>1. ASSUME NEW c \in Calls,
             \/ RecordRequestFails(c) \/ RecordFailure(c) \/ Issue(c)
             \/ IssueFails(c) \/ Cancel(c)
      PROVE  IdleIsOne'
  <2>1. call' = [call EXCEPT ![c] = Tokens!Idle]
    BY <1>1 DEF RecordRequestFails, RecordFailure, Issue, IssueFails, Cancel,
                End
  <2>2. \A d \in Calls : call'[d] = IF d = c THEN Tokens!Idle ELSE call[d]
    BY <2>1, EntryChanged
  <2> QED
    BY <2>2 DEF IdleIsOne
<1>2. ASSUME NEW c \in Calls, AskToken(c) PROVE IdleIsOne'
  <2>1. \A d \in Calls :
          call'[d] = IF d = c THEN Tokens!Pending(Wanted(c)) ELSE call[d]
    BY <1>2, EntryChanged DEF AskToken, Tokens!Ask
  <2> QED
    BY <2>1 DEF IdleIsOne, Tokens!Pending
<1>3. ASSUME NEW c \in Calls, ProviderStep(c) PROVE IdleIsOne'
  <2>1. PICK x : /\ call' = [call EXCEPT ![c] = x]
                 /\ x.status # "idle"
    BY <1>3 DEF ProviderStep, Tokens!ServeStored, Tokens!ServeMinted,
                Tokens!Refuse, Tokens!Stored, Tokens!Minted, Tokens!Refused
  <2>2. \A d \in Calls : call'[d] = IF d = c THEN x ELSE call[d]
    BY <2>1, EntryChanged
  <2> QED
    BY <2>1, <2>2 DEF IdleIsOne
<1>4. ASSUME NEW c \in Calls,
             \/ Start(c) \/ RecordRequest(c) \/ VerifyCached(c)
             \/ VerifyMiss(c) \/ VerifyAsk(c) \/ GithubAnswers(c)
             \/ VerifyOk(c) \/ VerifyFails(c) \/ MintFails(c)
      PROVE  IdleIsOne'
  BY <1>4 DEF Start, RecordRequest, VerifyCached, VerifyMiss, VerifyAsk,
              GithubAnswers, VerifyOk, VerifyFails, MintFails, tokens,
              IdleIsOne
<1>5. CASE Crash
  BY <1>5 DEF Crash, Tokens!Restart, IdleIsOne
<1>6. CASE Rebind \/ UNCHANGED vars
  BY <1>6 DEF Rebind, vars, tokens, IdleIsOne
<1>7. CASE Tick
  <2> SUFFICES ASSUME NEW c \in Calls, call'[c].status = "idle"
               PROVE  call'[c] = Tokens!Idle
    BY DEF IdleIsOne
  <2>1. call'[c] = Tokens!OlderCall(call[c])
    BY <1>7 DEF Tick, Tokens!Age
  <2>2. call[c].status \notin {"stored", "minted"}
    BY <2>1 DEF Tokens!OlderCall, Tokens!Stored, Tokens!Minted
  <2>3. call'[c] = call[c]
    BY <2>1, <2>2 DEF Tokens!OlderCall
  <2> QED
    BY <2>3 DEF IdleIsOne
<1> QED
  BY <1>1, <1>2, <1>3, <1>4, <1>5, <1>6, <1>7 DEF Next, CallStep

\* The handler asks for something that can be asked for, and the end of a
\* handler is, to the provider, that its caller leaves.
LEMMA ServiceUsed ==
  ASSUME TypeOK, CallDomain, IdleIsOne, [Next]_vars
  PROVE  [Tokens!SNext]_(Tokens!svars)
<1>1. ASSUME NEW c \in Calls, AskToken(c) PROVE Tokens!SNext
  <2>1. Wanted(c) \in Requests
    BY <1>1, WantedIsGit DEF AskToken, Requests
  <2> QED
    BY <1>1, <2>1 DEF AskToken, Tokens!SNext
<1>2. ASSUME NEW c \in Calls, ProviderStep(c) PROVE Tokens!SNext
  BY <1>2 DEF ProviderStep, Tokens!SNext
<1>3. ASSUME NEW c \in Calls,
             \/ RecordRequestFails(c) \/ RecordFailure(c) \/ Issue(c)
             \/ IssueFails(c) \/ Cancel(c)
      PROVE  [Tokens!SNext]_(Tokens!svars)
  <2>1. store' = store /\ call' = [call EXCEPT ![c] = Tokens!Idle]
    BY <1>3 DEF RecordRequestFails, RecordFailure, Issue, IssueFails, Cancel,
                End
  <2>2. CASE call[c].status = "idle"
    <3>1. call[c] = Tokens!Idle
      BY <2>2 DEF IdleIsOne
    <3> QED
      BY <2>1, <3>1 DEF CallDomain, Tokens!svars
  <2>3. CASE call[c].status # "idle"
    BY <2>1, <2>3 DEF Tokens!Leave, Tokens!SNext
  <2> QED
    BY <2>2, <2>3
<1>4. ASSUME NEW c \in Calls,
             \/ Start(c) \/ RecordRequest(c) \/ VerifyCached(c)
             \/ VerifyMiss(c) \/ VerifyAsk(c) \/ GithubAnswers(c)
             \/ VerifyOk(c) \/ VerifyFails(c) \/ MintFails(c)
      PROVE  UNCHANGED Tokens!svars
  BY <1>4 DEF Start, RecordRequest, VerifyCached, VerifyMiss, VerifyAsk,
              GithubAnswers, VerifyOk, VerifyFails, MintFails, tokens,
              Tokens!svars
<1>5. CASE Crash
  BY <1>5 DEF Crash, Tokens!SNext
<1>6. CASE Rebind \/ UNCHANGED vars
  BY <1>6 DEF Rebind, vars, tokens, Tokens!svars
<1>7. CASE Tick
  BY <1>7 DEF Tick, Tokens!SNext
<1> QED
  BY <1>1, <1>2, <1>3, <1>4, <1>5, <1>6, <1>7 DEF Next, CallStep

\* Whatever the handlers do, the token provider sees callers that keep to
\* TokenService: together with ImplementsTokenServiceHolds of TokenSingleflight,
\* what a credential rests on is what the provider really does.
THEOREM TokenServiceUsed == Spec => UsesTokenService
<1>1. Init => Tokens!SInit
  BY DEF Init
<1>2. TypeOK /\ CallDomain /\ IdleIsOne /\ [Next]_vars
        => [Tokens!SNext]_(Tokens!svars)
  BY ServiceUsed
<1>3. Init => CallDomain
  BY RequestInit
<1> QED
  BY <1>1, <1>2, <1>3, TypeInit, TypeStep, DomainStep, IdleInit, IdleStep, PTL
  DEF Spec, UsesTokenService, Tokens!SSpec
=============================================================================
