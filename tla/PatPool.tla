------------------------------- MODULE PatPool -------------------------------
(***************************************************************************)
(* PatPool (src/src/pool.rs): what octobroker believes is left of each     *)
(* personal access token's rate limit, and the requests that spend it.     *)
(*                                                                         *)
(* GitHub counts on its own, and keeps several limits per identity (REST,   *)
(* search, GraphQL), each with a window of time and a quota.  Each response *)
(* carries the quota and the end of the window of the one limit it counted *)
(* against, as they were when GitHub handled the request; responses come   *)
(* back in any order, and all of them are written to the one record that   *)
(* the pool keeps of an identity.                                          *)
(* Times are kept as the seconds still to go: "reset_at > now" is "to go   *)
(* is positive", a reset that is unknown or past is 0.                     *)
(***************************************************************************)
EXTENDS Integers

CONSTANTS N,            \* identities are 1..N, in the order configured
          Tasks,        \* requests in progress at a time
          Full,         \* budget assumed when nothing is known (5000)
          Resources,    \* what GitHub limits separately
          Quota,        \* resource -> what GitHub grants per window
          Window,       \* resource -> length of a window
          Backoff,      \* how long a 429 without a reset counts (60 s)
          Unknown,      \* no remaining budget reported yet
          MaxCount      \* bound on the requests selected for an identity

Ids == 1..N

ASSUME PatPoolAssumption ==
  /\ N \in Nat \ {0}
  /\ Full \in Nat
  /\ Resources # {}
  /\ Quota \in [Resources -> 0..Full]
  /\ Window \in [Resources -> Nat \ {0}]
  /\ Backoff \in Nat
  /\ Unknown \notin Nat
  /\ MaxCount \in Nat

VARIABLES remaining,    \* RateState::remaining
          reset,        \* RateState::reset_at, to go
          count,        \* RateState::request_count
          pc,           \* task -> its step
          who,          \* task -> the identity it runs on
          answer,       \* task -> what GitHub's response says
          quota,        \* GitHub: what is left of each limit's quota
          window,       \* GitHub: what is left of each limit's window
          about,        \* history: the limit whose report the pool holds
          shun          \* history: how long a 429 told us to avoid it

vars == <<remaining, reset, count, pc, who, answer, quota, window, about,
          shun>>
pool == <<remaining, reset, count>>
github == <<quota, window>>
history == <<about, shun>>

SomeResource == CHOOSE r \in Resources : TRUE

\* A response: rate headers, or none, and whether it is a 429.  The headers do
\* name the limit they are about, but the code does not read that one.
NoAnswer == [known |-> FALSE, left |-> 0, togo |-> 0, of |-> SomeResource,
             throttled |-> FALSE]
Answers == [known : BOOLEAN, left : Nat, togo : Nat, of : Resources,
            throttled : BOOLEAN]

-----------------------------------------------------------------------------
\* Mutant: the reset is not looked at.
EffectiveForever(i) == IF remaining[i] # Unknown THEN remaining[i] ELSE Full

Effective(i) ==
  IF remaining[i] # Unknown /\ reset[i] > 0 THEN remaining[i] ELSE Full

\* Mutant: budget and use count weigh the same.
ScoreUnweighted(i) == Effective(i) - count[i]

Score(i) == Effective(i) * 1000 - count[i]

\* The first identity with the highest score.
IsBest(i) ==
  \A j \in Ids : Score(i) > Score(j) \/ (Score(i) = Score(j) /\ i <= j)

-----------------------------------------------------------------------------
Init == /\ remaining = [i \in Ids |-> Unknown]
        /\ reset = [i \in Ids |-> 0]
        /\ count = [i \in Ids |-> 0]
        /\ pc = [t \in Tasks |-> "idle"]
        /\ who = [t \in Tasks |-> 1]
        /\ answer = [t \in Tasks |-> NoAnswer]
        /\ quota = [i \in Ids |-> Quota]
        /\ window = [i \in Ids |-> Window]
        /\ about = [i \in Ids |-> SomeResource]
        /\ shun = [i \in Ids |-> 0]

\* select(): a REST, GraphQL or raw request, or a new MCP session; it does not
\* know which limit the request will count against.
Select(t) ==
  /\ pc[t] = "idle"
  /\ \E i \in Ids : /\ IsBest(i)
                    /\ count[i] < MaxCount
                    /\ who' = [who EXCEPT ![t] = i]
                    /\ count' = [count EXCEPT ![i] = @ + 1]
  /\ pc' = [pc EXCEPT ![t] = "sent"]
  /\ UNCHANGED <<remaining, reset, answer, github, history>>

\* get(): a request of an MCP session that is pinned to identity i.
UsePinned(t) ==
  /\ pc[t] = "idle"
  /\ \E i \in Ids : who' = [who EXCEPT ![t] = i]
  /\ pc' = [pc EXCEPT ![t] = "sent"]
  /\ UNCHANGED <<pool, answer, github, history>>

\* GitHub handles the request and counts it against one of the identity's
\* limits: within the quota, or beyond it (429); or it throttles for reasons of
\* its own and gives no rate headers.
Handle(t) ==
  /\ pc[t] = "sent"
  /\ LET i == who[t] IN
     \/ \E r \in Resources :
          /\ quota' = [quota EXCEPT ![i][r] = IF @ > 0 THEN @ - 1 ELSE 0]
          /\ answer' = [answer EXCEPT ![t] =
               [known |-> TRUE, left |-> quota'[i][r], togo |-> window[i][r],
                of |-> r, throttled |-> quota[i][r] = 0]]
     \/ /\ answer' = [answer EXCEPT ![t] = [NoAnswer EXCEPT !.throttled = TRUE]]
        /\ UNCHANGED quota
  /\ pc' = [pc EXCEPT ![t] = "answered"]
  /\ UNCHANGED <<pool, who, window, history>>

End(t) == /\ pc' = [pc EXCEPT ![t] = "idle"]
          /\ who' = [who EXCEPT ![t] = 1]
          /\ answer' = [answer EXCEPT ![t] = NoAnswer]

\* send() fails, or the handler is dropped.
Lose(t) ==
  /\ pc[t] \in {"sent", "answered"}
  /\ End(t)
  /\ UNCHANGED <<pool, github, history>>

\* update_rate() with the response's headers.  The MCP proxy goes on to treat
\* a 429; the REST proxies do not.
UpdateRate(t) ==
  /\ pc[t] = "answered"
  /\ LET i == who[t]
         a == answer[t]
     IN  IF a.known
         THEN /\ remaining' = [remaining EXCEPT ![i] = a.left]
              /\ reset' = [reset EXCEPT ![i] = a.togo]
              /\ about' = [about EXCEPT ![i] = a.of]
         ELSE UNCHANGED <<remaining, reset, about>>
  /\ \/ /\ answer[t].throttled
        /\ pc' = [pc EXCEPT ![t] = "throttled"]
        /\ UNCHANGED <<who, answer>>
     \/ End(t)
  /\ UNCHANGED <<count, github, shun>>

\* How long a throttling response counts.
Pause(a) == IF a.known THEN a.togo ELSE Backoff

\* The MCP proxy zeroes the budget of a throttled identity until the reported,
\* or else the default, reset.
ZeroBudget(t) ==
  /\ pc[t] = "throttled"
  /\ LET i == who[t]
         p == Pause(answer[t])
     IN  /\ remaining' = [remaining EXCEPT ![i] = 0]
         /\ reset' = [reset EXCEPT ![i] = p]
         /\ shun' = [shun EXCEPT ![i] = IF p > @ THEN p ELSE @]
  /\ End(t)
  /\ UNCHANGED <<count, github, about>>

Less(n) == IF n > 0 THEN n - 1 ELSE 0

\* A second passes, here and at GitHub, where a window may begin anew.
Tick ==
  /\ reset' = [i \in Ids |-> Less(reset[i])]
  /\ shun' = [i \in Ids |-> Less(shun[i])]
  /\ answer' = [t \in Tasks |-> [answer[t] EXCEPT !.togo = Less(@)]]
  /\ window' = [i \in Ids |-> [r \in Resources |->
       IF window[i][r] > 1 THEN window[i][r] - 1 ELSE Window[r]]]
  /\ quota' = [i \in Ids |-> [r \in Resources |->
       IF window[i][r] > 1 THEN quota[i][r] ELSE Quota[r]]]
  /\ UNCHANGED <<remaining, count, pc, who, about>>

Next == \/ \E t \in Tasks : \/ Select(t) \/ UsePinned(t) \/ Handle(t)
                            \/ Lose(t) \/ UpdateRate(t) \/ ZeroBudget(t)
        \/ Tick

Spec == Init /\ [][Next]_vars

-----------------------------------------------------------------------------
TypeOK ==
  /\ remaining \in [Ids -> Nat \cup {Unknown}]
  /\ reset \in [Ids -> Nat]
  /\ count \in [Ids -> 0..MaxCount]
  /\ pc \in [Tasks -> {"idle", "sent", "answered", "throttled"}]
  /\ who \in [Tasks -> Ids]
  /\ answer \in [Tasks -> Answers]
  /\ quota \in [Ids -> [Resources -> 0..Full]]
  /\ window \in [Ids -> [Resources -> Nat]]
  /\ about \in [Ids -> Resources]
  /\ shun \in [Ids -> Nat]

\* In whatever order responses arrive, an identity that GitHub did not tell us
\* to leave alone is never believed to have less budget than is left of the limit
\* that the pool's record of it was reported for: nothing of a past window, and
\* no older response of this one, makes it look poorer than that limit is.  Of
\* its other limits the record says nothing: an identity out of GraphQL or search
\* budget is passed over for REST requests too, until that window ends.
ReportedLimitNotUndercut ==
  \A i \in Ids : shun[i] = 0 => Effective(i) >= quota[i][about[i]]

\* select() picks the identity believed to have most budget left and, among
\* those, the one selected least often.  It passes over a larger budget only
\* for an identity selected at least a thousand times less (the weight of one
\* unit of budget in its score).
SelectsMostBudget ==
  [][\A i \in Ids : count'[i] > count[i]
       => \A j \in Ids : count[j] < count[i] + 1000
            => \/ Effective(i) > Effective(j)
               \/ Effective(i) = Effective(j) /\ count[i] <= count[j]]_vars
=============================================================================
