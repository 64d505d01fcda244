---------------------------- MODULE GitCredential ----------------------------
(***************************************************************************)
(* /git-credential (src/src/git_credential.rs): an agent exchanges its key *)
(* for a token that is good for one repository.  A request record, the     *)
(* verification that the App's installation is the repository owner's, the *)
(* token and a result record come in this order, and each may fail.        *)
(*                                                                         *)
(* The module composes the audit log with the token provider of one owner, *)
(* of which it knows only what TokenService promises.  Verification asks   *)
(* GitHub at most once per VerifyTtl; the answer is worth what it was when *)
(* GitHub gave it, up to Timeout before it is read.                        *)
(***************************************************************************)
EXTENDS Naturals, AuditLog, TokenRequests

CONSTANTS Calls,        \* requests ever made, in any order
          Agents, NoAgent, NoRepo,
          AgentRepos,   \* agent -> the repositories it may use here
          ReadOnly,     \* agent -> is it given read-only credentials?
          VerifyTtl,    \* VERIFY_TTL
          Timeout,      \* MINT_TIMEOUT, of any one request to GitHub
          NoScope, Lifetimes, Margin

ASSUME GitCredentialAssumption ==
  /\ NoAgent \notin Agents /\ NoRepo \notin Repos
  /\ AgentRepos \in [Agents -> SUBSET Repos]
  /\ ReadOnly \in [Agents -> BOOLEAN]
  /\ VerifyTtl \in Nat \ {0} /\ Timeout \in Nat
  /\ Lifetimes \subseteq Nat /\ Margin \in Nat
  /\ \A r \in Requests : ScopeOf(r) # NoScope

VARIABLES pc,           \* call -> the step it is at
          agent, repo,  \* call -> who asks, for what
          waited,       \* call -> how long its question is out
          belongs,      \* call -> GitHub's answer: the owner is as expected
          given,        \* call -> what the token it was given is good for
          store, call,  \* the token provider, as TokenService sees it
          verified,     \* verified_owner: for how long it is still good
          bound,        \* GitHub: the installation is the owner's
          strayed       \* history: for how long it has not been

task == <<pc, agent, repo, waited, belongs, given>>
tokens == <<store, call>>
owner == <<verified, bound, strayed>>
vars == <<task, tokens, owner, log>>

Tokens == INSTANCE TokenService WITH Callers <- Calls, KeyOf <- CacheKey

\* The effective mode, and the token that is asked for.
Mode(c) == IF ReadOnly[agent[c]] THEN "read" ELSE "write"
Wanted(c) == TokenGit(repo[c], ReadOnly[agent[c]])

\* No verification in this many seconds, and no answer that old, counts.
Horizon == VerifyTtl + Timeout

Goto(c, step) == pc' = [pc EXCEPT ![c] = step]

-----------------------------------------------------------------------------
Init == /\ pc = [c \in Calls |-> "idle"]
        /\ agent = [c \in Calls |-> NoAgent]
        /\ repo = [c \in Calls |-> NoRepo]
        /\ waited = [c \in Calls |-> 0]
        /\ belongs = [c \in Calls |-> FALSE]
        /\ given = [c \in Calls |-> NoScope]
        /\ Tokens!SInit
        /\ verified = 0 /\ bound \in BOOLEAN /\ strayed = 0
        /\ LogInit

\* The agent is authenticated, the repository allowed, its provider found.
\* Otherwise the request is rejected and nothing changes.
Start(c) ==
  /\ pc[c] = "idle"
  /\ \E a \in Agents : \E r \in AgentRepos[a] :
       /\ agent' = [agent EXCEPT ![c] = a]
       /\ repo' = [repo EXCEPT ![c] = r]
  /\ Goto(c, "admitted")
  /\ UNCHANGED <<waited, belongs, given, tokens, owner, log>>

\* The handler ends; the token provider is done with the call.
End(c, how) ==
  /\ Goto(c, how)
  /\ call' = [call EXCEPT ![c] = Tokens!Idle]
  /\ waited' = [waited EXCEPT ![c] = 0]
  /\ belongs' = [belongs EXCEPT ![c] = FALSE]
  /\ UNCHANGED <<agent, repo, store>>

RecordRequest(c) ==
  /\ pc[c] = "admitted"
  /\ Persist(<<c, "request">>)
  /\ Goto(c, "recorded")
  /\ UNCHANGED <<agent, repo, waited, belongs, given, tokens, owner>>

\* Mutant: a record that cannot be persisted is only logged.
RecordRequestFailsOpen(c) ==
  /\ pc[c] = "admitted"
  /\ PersistFails(<<c, "request">>)
  /\ Goto(c, "recorded")
  /\ UNCHANGED <<agent, repo, waited, belongs, given, tokens, owner>>

\* 503.
RecordRequestFails(c) ==
  /\ pc[c] = "admitted"
  /\ PersistFails(<<c, "request">>)
  /\ End(c, "done")
  /\ UNCHANGED <<given, owner>>

-----------------------------------------------------------------------------
(* verify_owner().                                                         *)

VerifyCached(c) ==
  /\ pc[c] = "recorded"
  /\ verified > 0
  /\ Goto(c, "verified")
  /\ UNCHANGED <<agent, repo, waited, belongs, given, tokens, owner, log>>

\* No verification is recent enough, and the request is signed.
VerifyMiss(c) ==
  /\ pc[c] = "recorded"
  /\ verified = 0
  /\ Goto(c, "discovering")
  /\ UNCHANGED <<agent, repo, waited, belongs, given, tokens, owner, log>>

\* The installation is known, at once or after up to two requests, and GitHub
\* is asked whose it is.
VerifyAsk(c) ==
  /\ pc[c] = "discovering"
  /\ Goto(c, "asking")
  /\ UNCHANGED <<agent, repo, waited, belongs, given, tokens, owner, log>>

\* GitHub gets to it.
GithubAnswers(c) ==
  /\ pc[c] = "asking"
  /\ belongs' = [belongs EXCEPT ![c] = bound]
  /\ Goto(c, "answered")
  /\ UNCHANGED <<agent, repo, waited, given, tokens, owner, log>>

VerifyOk(c) ==
  /\ pc[c] = "answered" /\ belongs[c]
  /\ verified' = VerifyTtl
  /\ waited' = [waited EXCEPT ![c] = 0]
  /\ belongs' = [belongs EXCEPT ![c] = FALSE]
  /\ Goto(c, "verified")
  /\ UNCHANGED <<agent, repo, given, tokens, bound, strayed, log>>

\* Signing fails, any of its requests fails or times out, or GitHub names
\* another owner.
VerifyFails(c) ==
  /\ \/ pc[c] = "recorded" /\ verified = 0
     \/ pc[c] \in {"discovering", "asking", "answered"}
  /\ waited' = [waited EXCEPT ![c] = 0]
  /\ belongs' = [belongs EXCEPT ![c] = FALSE]
  /\ Goto(c, "failed")
  /\ UNCHANGED <<agent, repo, given, tokens, owner, log>>

-----------------------------------------------------------------------------
(* token_git() and the result record.                                      *)

AskToken(c) ==
  /\ pc[c] = "verified"
  /\ Tokens!Ask(c, Wanted(c))
  /\ Goto(c, "minting")
  /\ UNCHANGED <<agent, repo, waited, belongs, given, owner, log>>

\* The provider works on it.
ProviderStep(c) ==
  /\ pc[c] = "minting"
  /\ Tokens!ServeStored(c) \/ Tokens!ServeMinted(c) \/ Tokens!Refuse(c)
  /\ UNCHANGED <<task, owner, log>>

MintFails(c) ==
  /\ pc[c] = "minting"
  /\ call[c].status = "refused"
  /\ Goto(c, "failed")
  /\ UNCHANGED <<agent, repo, waited, belongs, given, tokens, owner, log>>

\* The result record of a failure; that it fails, too, is only logged.
RecordFailure(c) ==
  /\ pc[c] = "failed"
  /\ \/ Persist(<<c, "failed", Mode(c)>>)
     \/ PersistFails(<<c, "failed", Mode(c)>>)
  /\ End(c, "done")
  /\ UNCHANGED <<given, owner>>

HasToken(c) == pc[c] = "minting" /\ call[c].status \in {"stored", "minted"}

\* The result record, and with it the answer: there is no await in between.
Issue(c) ==
  /\ HasToken(c)
  /\ Persist(<<c, "issued", Mode(c)>>)
  /\ given' = [given EXCEPT ![c] = call[c].token.scope]
  /\ End(c, "done")
  /\ UNCHANGED owner

\* 503: a token whose record fails is not handed out.
IssueFails(c) ==
  /\ HasToken(c)
  /\ PersistFails(<<c, "issued", Mode(c)>>)
  /\ End(c, "done")
  /\ UNCHANGED <<given, owner>>

-----------------------------------------------------------------------------
\* The client disconnects while the handler waits for GitHub.
Cancel(c) ==
  /\ \/ pc[c] \in {"discovering", "asking", "answered"}
     \/ pc[c] = "minting" /\ call[c].status = "pending"
  /\ End(c, "gone")
  /\ UNCHANGED <<given, owner, log>>

\* The process dies and is started again.
Crash ==
  /\ pc' = [c \in Calls |-> IF pc[c] \in {"idle", "done"} THEN pc[c]
                                                          ELSE "gone"]
  /\ waited' = [c \in Calls |-> 0]
  /\ belongs' = [c \in Calls |-> FALSE]
  /\ Tokens!Restart
  /\ verified' = 0
  /\ LogCrash
  /\ UNCHANGED <<agent, repo, given, bound, strayed>>

\* The installation changes hands, or is the owner's again.
Rebind ==
  /\ bound' = ~bound
  /\ strayed' = IF bound' THEN 0 ELSE strayed
  /\ UNCHANGED <<task, tokens, verified, log>>

\* Mutant: a verification is good for ever (no VERIFY_TTL).
LessNever(n) == n

Less(n) == IF n > 0 THEN n - 1 ELSE 0

Waits(c) == pc[c] \in {"asking", "answered"}

\* A second passes; no question is out for longer than Timeout.
Tick ==
  /\ \A c \in Calls : Waits(c) => waited[c] < Timeout
  /\ waited' = [c \in Calls |-> IF Waits(c) THEN waited[c] + 1 ELSE waited[c]]
  /\ verified' = Less(verified)
  /\ strayed' = IF bound THEN 0
                ELSE IF strayed < Horizon THEN strayed + 1 ELSE strayed
  /\ Tokens!Age
  /\ UNCHANGED <<pc, agent, repo, belongs, given, bound, log>>

CallStep(c) ==
  \/ Start(c) \/ RecordRequest(c) \/ RecordRequestFails(c)
  \/ VerifyCached(c) \/ VerifyMiss(c) \/ VerifyAsk(c) \/ GithubAnswers(c)
  \/ VerifyOk(c) \/ VerifyFails(c)
  \/ AskToken(c) \/ ProviderStep(c) \/ MintFails(c)
  \/ RecordFailure(c) \/ Issue(c) \/ IssueFails(c)
  \/ Cancel(c)

Next == (\E c \in Calls : CallStep(c)) \/ Crash \/ Rebind \/ Tick

Spec == Init /\ [][Next]_vars

-----------------------------------------------------------------------------
Steps == {"idle", "admitted", "recorded", "discovering", "asking", "answered",
          "verified", "failed", "minting", "done", "gone"}

TypeOK ==
  /\ pc \in [Calls -> Steps]
  /\ agent \in [Calls -> Agents \cup {NoAgent}]
  /\ repo \in [Calls -> Repos \cup {NoRepo}]
  /\ \A c \in Calls : pc[c] \notin {"idle", "done", "gone"}
                        => agent[c] \in Agents /\ repo[c] \in Repos
  /\ waited \in [Calls -> 0..Timeout]
  /\ belongs \in [Calls -> BOOLEAN]
  /\ verified \in 0..VerifyTtl
  /\ bound \in BOOLEAN
  /\ strayed \in 0..Horizon

\* Nothing is asked of the token provider, hence nothing minted, before the
\* log has a request record that can be read ("an unaudited token mint is
\* forbidden even when the token is never returned").
NoMintUnaudited ==
  \A c \in Calls : call[c].status # "idle" => <<c, "request">> \in readable

\* A token that was handed out is good for exactly the repository that was
\* asked for, in the mode that the log records, although the cache is shared
\* with calls of the other mode: the log tells who could push.
IssuedAsRecorded ==
  \A c \in Calls :
    given[c] # NoScope => /\ given[c] = <<{repo[c]}, Mode(c)>>
                          /\ <<c, "issued", Mode(c)>> \in readable

\* A call passes verification only if the installation was the owner's within
\* the last VerifyTtl and the time an answer of GitHub takes, whichever of
\* several concurrent verifications it rests on.
OwnerVerifiedInTime ==
  [][\A c \in Calls : pc[c] # "verified" /\ pc'[c] = "verified"
                        => strayed < Horizon]_vars

\* The handlers ask for tokens, take them and go away as TokenService expects of
\* its callers: what TokenSingleflight promises them is what they rely on.
UsesTokenService == Tokens!SSpec
=============================================================================
