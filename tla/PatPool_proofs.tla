---------------------------- MODULE PatPool_proofs ----------------------------
(***************************************************************************)
(* Proofs about PatPool for any number of identities, requests and limits, *)
(* any quotas, windows and back-off.                                       *)
(***************************************************************************)
EXTENDS PatPool, TLAPS

LEMMA LessFacts ==
  ASSUME NEW n \in Nat
  PROVE  Less(n) \in Nat /\ Less(n) <= n /\ (n > 0 => Less(n) = n - 1)
  BY DEF Less

-----------------------------------------------------------------------------
(* Type correctness.                                                       *)

\* Tasks that run on no identity name the first.
LEMMA FirstId == 1 \in Ids
  BY PatPoolAssumption DEF Ids

LEMMA SomeResourceType == SomeResource \in Resources
  BY PatPoolAssumption DEF SomeResource

LEMMA NoAnswerTyped == NoAnswer \in Answers /\ ~NoAnswer.known
  BY SomeResourceType DEF NoAnswer, Answers

LEMMA TypeInit == Init => TypeOK
  BY PatPoolAssumption, SomeResourceType
  DEF Init, TypeOK, Answers, NoAnswer, Ids

\* What a task and the pool's record become in the steps that touch them.
LEMMA HandleChanges ==
  ASSUME TypeOK, NEW t \in Tasks, Handle(t)
  PROVE  /\ \E a \in Answers :
              /\ answer' = [answer EXCEPT ![t] = a]
              /\ a.known => /\ a.left = quota'[who[t]][a.of]
                            /\ a.togo = window[who[t]][a.of]
         /\ quota' \in [Ids -> [Resources -> 0..Full]]
         /\ \A i \in Ids, r \in Resources : quota'[i][r] <= quota[i][r]
<1> DEFINE i == who[t]
<1> USE PatPoolAssumption DEF TypeOK, Answers
<1>0. i \in Ids
  OBVIOUS
<1>1. ASSUME NEW r \in Resources,
             quota' = [quota EXCEPT ![i][r] = IF @ > 0 THEN @ - 1 ELSE 0],
             answer' = [answer EXCEPT ![t] =
               [known |-> TRUE, left |-> quota'[i][r], togo |-> window[i][r],
                of |-> r, throttled |-> quota[i][r] = 0]]
      PROVE  /\ \E a \in Answers :
                  /\ answer' = [answer EXCEPT ![t] = a]
                  /\ a.known => a.left = quota'[i][a.of] /\ a.togo = window[i][a.of]
             /\ quota' \in [Ids -> [Resources -> 0..Full]]
             /\ \A j \in Ids, s \in Resources : quota'[j][s] <= quota[j][s]
  <2> DEFINE n == IF quota[i][r] > 0 THEN quota[i][r] - 1 ELSE 0
  <2>1. /\ n \in 0..Full /\ n <= quota[i][r]
        /\ quota[i][r] \in 0..Full /\ window[i][r] \in Nat
    BY <1>0
  <2>2. quota' = [quota EXCEPT ![i] = [quota[i] EXCEPT ![r] = n]]
    BY <1>1
  <2> HIDE DEF n
  <2>3. /\ quota' \in [Ids -> [Resources -> 0..Full]]
        /\ \A j \in Ids, s \in Resources :
             quota'[j][s] = IF j = i /\ s = r THEN n ELSE quota[j][s]
    BY <1>0, <2>1, <2>2
  <2>4. \A j \in Ids, s \in Resources : quota'[j][s] <= quota[j][s]
    <3>1. \A j \in Ids, s \in Resources : quota[j][s] <= quota[j][s]
      <4>1. \A j \in Ids, s \in Resources : quota[j][s] \in 0..Full
        OBVIOUS
      <4> QED
        BY <4>1
    <3> HIDE DEF i
    <3> QED
      BY <2>1, <2>3, <3>1
  <2>5. quota'[i][r] \in Nat
    BY <1>0, <2>3
  <2> DEFINE a == [known |-> TRUE, left |-> quota'[i][r], togo |-> window[i][r],
                   of |-> r, throttled |-> quota[i][r] = 0]
  <2>6. /\ a \in Answers /\ a.of = r /\ a.left = quota'[i][r]
        /\ a.togo = window[i][r]
    BY <2>1, <2>5
  <2>7. answer' = [answer EXCEPT ![t] = a]
    BY <1>1
  <2> HIDE DEF a
  <2> QED
    BY <2>3, <2>4, <2>6, <2>7
<1>2. CASE /\ answer' = [answer EXCEPT ![t] = [NoAnswer EXCEPT !.throttled = TRUE]]
           /\ UNCHANGED quota
  <2> DEFINE a == [NoAnswer EXCEPT !.throttled = TRUE]
  <2>1. a \in Answers /\ ~a.known
    BY SomeResourceType DEF NoAnswer
  <2>2. /\ answer' = [answer EXCEPT ![t] = a]
        /\ quota' \in [Ids -> [Resources -> 0..Full]]
        /\ \A j \in Ids, r \in Resources : quota'[j][r] <= quota[j][r]
    BY <1>2
  <2> HIDE DEF a
  <2> QED
    BY <2>1, <2>2, Zenon
<1> QED
  BY <1>1, <1>2 DEF Handle

LEMMA UpdateChanges ==
  ASSUME TypeOK, NEW t \in Tasks, UpdateRate(t)
  PROVE  /\ IF answer[t].known
            THEN /\ remaining' = [remaining EXCEPT ![who[t]] = answer[t].left]
                 /\ reset' = [reset EXCEPT ![who[t]] = answer[t].togo]
                 /\ about' = [about EXCEPT ![who[t]] = answer[t].of]
            ELSE UNCHANGED <<remaining, reset, about>>
         /\ \/ pc' = [pc EXCEPT ![t] = "throttled"] /\ UNCHANGED <<who, answer>>
            \/ End(t)
         /\ UNCHANGED <<count, quota, window, shun>>
  BY DEF UpdateRate, github

\* A task's answer is a record of these fields.
LEMMA AnswerTyped ==
  ASSUME TypeOK, NEW t \in Tasks
  PROVE  /\ answer[t].known \in BOOLEAN /\ answer[t].throttled \in BOOLEAN
         /\ answer[t].left \in Nat /\ answer[t].togo \in Nat
         /\ answer[t].of \in Resources
         /\ Pause(answer[t]) \in Nat
  BY PatPoolAssumption DEF TypeOK, Answers, Pause

\* A tick leaves all of an answer but the time to go.
LEMMA TickAnswer ==
  ASSUME TypeOK, NEW t \in Tasks, Tick
  PROVE  /\ answer'[t] \in Answers
         /\ answer'[t].known = answer[t].known
         /\ answer'[t].left = answer[t].left
         /\ answer'[t].of = answer[t].of
         /\ answer'[t].togo = Less(answer[t].togo)
<1>1. answer'[t] = [answer[t] EXCEPT !.togo = Less(@)]
  BY DEF Tick
<1>2. answer[t] \in Answers /\ Less(answer[t].togo) \in Nat
  BY AnswerTyped, LessFacts DEF TypeOK
<1> QED
  BY <1>1, <1>2 DEF Answers

LEMMA TypeStep == TypeOK /\ [Next]_vars => TypeOK'
<1> SUFFICES ASSUME TypeOK, [Next]_vars PROVE TypeOK'
  OBVIOUS
<1> USE PatPoolAssumption, FirstId, NoAnswerTyped DEF TypeOK, pool, github, history
<1>1. ASSUME NEW t \in Tasks, Select(t) PROVE TypeOK'
  BY <1>1 DEF Select
<1>2. ASSUME NEW t \in Tasks, UsePinned(t) PROVE TypeOK'
  BY <1>2 DEF UsePinned
<1>3. ASSUME NEW t \in Tasks, Handle(t) PROVE TypeOK'
  <2>1. PICK a \in Answers :
          answer' = [answer EXCEPT ![t] = a]
    BY <1>3, HandleChanges, Zenon
  <2>2. /\ UNCHANGED <<remaining, reset, count, who, window, about, shun>>
        /\ pc' = [pc EXCEPT ![t] = "answered"]
    BY <1>3 DEF Handle
  <2>3. quota' \in [Ids -> [Resources -> 0..Full]]
    BY <1>3, HandleChanges
  <2> QED
    BY <2>1, <2>2, <2>3
<1>4. ASSUME NEW t \in Tasks, Lose(t) PROVE TypeOK'
  BY <1>4 DEF Lose, End
<1>5. ASSUME NEW t \in Tasks, UpdateRate(t) PROVE TypeOK'
  <2>1. /\ remaining' \in [Ids -> Nat \cup {Unknown}] /\ reset' \in [Ids -> Nat]
        /\ about' \in [Ids -> Resources]
    <3>1. CASE answer[t].known
      <4>1. /\ remaining' = [remaining EXCEPT ![who[t]] = answer[t].left]
            /\ reset' = [reset EXCEPT ![who[t]] = answer[t].togo]
            /\ about' = [about EXCEPT ![who[t]] = answer[t].of]
        BY <1>5, <3>1, UpdateChanges
      <4>2. /\ answer[t].left \in Nat /\ answer[t].togo \in Nat
            /\ answer[t].of \in Resources
        BY AnswerTyped
      <4> QED
        BY <4>1, <4>2
    <3>2. CASE ~answer[t].known
      BY <1>5, <3>2, UpdateChanges
    <3> QED
      BY <3>1, <3>2
  <2>2. /\ pc' \in [Tasks -> {"idle", "sent", "answered", "throttled"}]
        /\ who' \in [Tasks -> Ids] /\ answer' \in [Tasks -> Answers]
    BY <1>5, UpdateChanges DEF End
  <2> QED
    BY <1>5, <2>1, <2>2, UpdateChanges
<1>6. ASSUME NEW t \in Tasks, ZeroBudget(t) PROVE TypeOK'
  BY <1>6, AnswerTyped DEF ZeroBudget, End
<1>7. CASE Tick
  <2>1. answer' \in [Tasks -> Answers]
    <3>1. answer' = [t \in Tasks |-> answer'[t]]
      BY <1>7 DEF Tick
    <3> QED
      BY <1>7, <3>1, TickAnswer
  <2>2. reset' \in [Ids -> Nat] /\ shun' \in [Ids -> Nat]
    BY <1>7, LessFacts DEF Tick
  <2>3. /\ window' \in [Ids -> [Resources -> Nat]]
        /\ quota' \in [Ids -> [Resources -> 0..Full]]
    BY <1>7 DEF Tick
  <2> QED
    BY <1>7, <2>1, <2>2, <2>3 DEF Tick
<1>8. CASE UNCHANGED vars
  BY <1>8 DEF vars
<1> QED
  BY <1>1, <1>2, <1>3, <1>4, <1>5, <1>6, <1>7, <1>8 DEF Next

\* Every reachable state is well typed.
THEOREM TypeCorrect == Spec => []TypeOK
  BY TypeInit, TypeStep, PTL DEF Spec

-----------------------------------------------------------------------------
(* A selection takes the largest budget.                                   *)

\* With use counts less than a thousand apart, budget decides before use.
LEMMA ScoreOrder ==
  ASSUME NEW e \in Nat, NEW f \in Nat, NEW m \in Nat, NEW n \in Nat,
         e * 1000 - m >= f * 1000 - n, n < m + 1000
  PROVE  e > f \/ (e = f /\ m <= n)
  OBVIOUS

LEMMA EffectiveNat == ASSUME TypeOK, NEW i \in Ids PROVE Effective(i) \in Nat
  BY PatPoolAssumption DEF TypeOK, Effective

LEMMA BestHasMostBudget ==
  ASSUME TypeOK, NEW i \in Ids, NEW j \in Ids, IsBest(i),
         count[j] < count[i] + 1000
  PROVE  \/ Effective(i) > Effective(j)
         \/ Effective(i) = Effective(j) /\ count[i] <= count[j]
<1>1. /\ Effective(i) \in Nat /\ Effective(j) \in Nat
      /\ count[i] \in Nat /\ count[j] \in Nat
  BY EffectiveNat, PatPoolAssumption DEF TypeOK
<1>2. Effective(i) * 1000 - count[i] >= Effective(j) * 1000 - count[j]
  BY <1>1 DEF IsBest, Score
<1> QED
  BY <1>1, <1>2, ScoreOrder

\* Every selection picks a largest budget and, among those, a least used
\* identity, while use counts stay within a thousand of one another.
THEOREM SelectsMostBudgetHolds == Spec => SelectsMostBudget
<1> DEFINE Picks ==
      \A i \in Ids : count'[i] > count[i]
        => \A j \in Ids : count[j] < count[i] + 1000
             => \/ Effective(i) > Effective(j)
                \/ Effective(i) = Effective(j) /\ count[i] <= count[j]
<1>1. TypeOK /\ [Next]_vars => [Picks]_vars
  <2> SUFFICES ASSUME TypeOK, [Next]_vars,
                      NEW i \in Ids, count'[i] > count[i],
                      NEW j \in Ids, count[j] < count[i] + 1000
               PROVE  \/ Effective(i) > Effective(j)
                      \/ Effective(i) = Effective(j) /\ count[i] <= count[j]
    OBVIOUS
  <2>1. count[i] \in Nat
    BY PatPoolAssumption DEF TypeOK
  <2>2. ~(count' = count)
    BY <2>1
  <2>3. PICK t \in Tasks : Select(t)
    BY <2>2 DEF Next, UsePinned, Handle, Lose, UpdateRate, ZeroBudget, Tick,
                vars, pool
  <2>4. PICK b \in Ids : IsBest(b) /\ count' = [count EXCEPT ![b] = @ + 1]
    BY <2>3 DEF Select
  <2>5. i = b
    BY <2>1, <2>4 DEF TypeOK
  <2> QED
    BY <2>4, <2>5, BestHasMostBudget
<1> QED
  BY <1>1, TypeCorrect, PTL DEF Spec, SelectsMostBudget

-----------------------------------------------------------------------------
(* No identity is believed poorer than the limit that was reported.         *)

\* What GitHub answered of limit r, while its window lasts, is at least what is
\* left of it.
Dated(left, togo, i, r) ==
  togo > 0 => togo <= window[i][r] /\ quota[i][r] <= left

\* The pool's record of an identity is the answer to some request of the
\* window of the limit it is about, or ends no later than GitHub asked to leave
\* the identity alone; and so is every answer that is still on its way.
BudgetInv ==
  /\ \A i \in Ids : remaining[i] # Unknown /\ reset[i] > 0
       => reset[i] <= shun[i] \/ Dated(remaining[i], reset[i], i, about[i])
  /\ \A t \in Tasks :
       /\ pc[t] \in {"idle", "sent"} => ~answer[t].known
       /\ answer[t].known
            => Dated(answer[t].left, answer[t].togo, who[t], answer[t].of)

LEMMA BudgetInit == Init => BudgetInv
  BY DEF Init, BudgetInv, NoAnswer

LEMMA BudgetStep == TypeOK /\ BudgetInv /\ [Next]_vars => BudgetInv'
<1> SUFFICES ASSUME TypeOK, BudgetInv, [Next]_vars PROVE BudgetInv'
  OBVIOUS
<1> USE PatPoolAssumption, FirstId, NoAnswerTyped
        DEF TypeOK, BudgetInv, Dated, pool, github, history
<1>1. ASSUME NEW t \in Tasks, Select(t) \/ UsePinned(t) PROVE BudgetInv'
  BY <1>1 DEF Select, UsePinned
<1>2. ASSUME NEW t \in Tasks, Handle(t) PROVE BudgetInv'
  <2>1. PICK a \in Answers :
          /\ answer' = [answer EXCEPT ![t] = a]
          /\ a.known => /\ a.left = quota'[who[t]][a.of]
                        /\ a.togo = window[who[t]][a.of]
    BY <1>2, HandleChanges
  <2>2. /\ UNCHANGED <<remaining, reset, who, window, about, shun>>
        /\ pc' = [pc EXCEPT ![t] = "answered"]
    BY <1>2 DEF Handle
  <2>3. \A i \in Ids, r \in Resources :
          /\ quota[i][r] \in Nat /\ quota'[i][r] \in Nat
          /\ quota'[i][r] <= quota[i][r] /\ window[i][r] \in Nat
    <3>1. quota' \in [Ids -> [Resources -> 0..Full]]
      BY <1>2, HandleChanges
    <3> QED
      BY <1>2, <3>1, HandleChanges
  <2>4. \A i \in Ids, r \in Resources, l \in Nat, g \in Nat :
          Dated(l, g, i, r) => Dated(l, g, i, r)'
    BY <2>2, <2>3
  <2>5. \A i \in Ids : remaining[i] # Unknown => remaining[i] \in Nat
    OBVIOUS
  <2>6. \A i \in Ids : remaining'[i] # Unknown /\ reset'[i] > 0
          => reset'[i] <= shun'[i] \/ Dated(remaining[i], reset[i], i, about[i])'
    BY <2>2, <2>4, <2>5
  <2>7. ASSUME NEW d \in Tasks
        PROVE  /\ pc'[d] \in {"idle", "sent"} => ~answer'[d].known
               /\ answer'[d].known
                    => Dated(answer[d].left, answer[d].togo, who[d], answer[d].of)'
    <3>1. CASE d = t
      <4>1. answer'[d] = a /\ who[t] \in Ids /\ pc'[d] = "answered"
        BY <2>1, <2>2, <3>1
      <4>2. a.of \in Resources
        BY DEF Answers
      <4>3. a.known => /\ a.left = quota'[who'[t]][a.of]
                       /\ a.togo = window'[who'[t]][a.of]
        BY <2>1, <2>2
      <4>4. /\ quota'[who'[t]][a.of] \in Nat /\ window'[who'[t]][a.of] \in Nat
        BY <2>2, <2>3, <4>1, <4>2
      <4>5. a.known => Dated(a.left, a.togo, who[t], a.of)'
        BY <4>3, <4>4
      <4> QED
        BY <2>2, <3>1, <4>1, <4>5
    <3>2. CASE d # t
      <4>1. answer'[d] = answer[d] /\ pc'[d] = pc[d] /\ who'[d] = who[d]
        BY <2>1, <2>2, <3>2
      <4>2. /\ answer[d].left \in Nat /\ answer[d].togo \in Nat
            /\ answer[d].of \in Resources
        BY AnswerTyped
      <4> QED
        BY <2>4, <4>1, <4>2
    <3> QED
      BY <3>1, <3>2
  <2> QED
    BY <2>6, <2>7
<1>3. ASSUME NEW t \in Tasks, Lose(t) PROVE BudgetInv'
  BY <1>3 DEF Lose, End
<1>4. ASSUME NEW t \in Tasks, UpdateRate(t) PROVE BudgetInv'
  <2>1. UNCHANGED <<quota, window, shun>>
    BY <1>4, UpdateChanges
  <2>2. /\ answer[t].left \in Nat /\ answer[t].togo \in Nat
        /\ answer[t].of \in Resources
    BY AnswerTyped
  <2>3. \A i \in Ids : remaining'[i] # Unknown /\ reset'[i] > 0
          => reset'[i] <= shun'[i] \/ Dated(remaining[i], reset[i], i, about[i])'
    <3>1. CASE answer[t].known
      <4>1. /\ remaining' = [remaining EXCEPT ![who[t]] = answer[t].left]
            /\ reset' = [reset EXCEPT ![who[t]] = answer[t].togo]
            /\ about' = [about EXCEPT ![who[t]] = answer[t].of]
        BY <1>4, <3>1, UpdateChanges
      <4> QED
        BY <2>1, <2>2, <3>1, <4>1
    <3>2. CASE ~answer[t].known
      <4>1. UNCHANGED <<remaining, reset, about>>
        BY <1>4, <3>2, UpdateChanges
      <4> QED
        BY <2>1, <4>1
    <3> QED
      BY <3>1, <3>2
  <2>4. pc[t] = "answered"
    BY <1>4 DEF UpdateRate
  <2> QED
    BY <1>4, <2>1, <2>3, <2>4, UpdateChanges DEF End
<1>5. ASSUME NEW t \in Tasks, ZeroBudget(t) PROVE BudgetInv'
  <2>1. Pause(answer[t]) \in Nat
    BY AnswerTyped
  <2> QED
    BY <1>5, <2>1 DEF ZeroBudget, End
<1>6. CASE Tick
  <2>1. \A i \in Ids, r \in Resources, l \in Nat, g \in Nat :
          Dated(l, g, i, r) => Dated(l, Less(g), i, r)'
    BY <1>6, LessFacts DEF Tick, Less
  <2>2. ASSUME NEW i \in Ids, remaining'[i] # Unknown, reset'[i] > 0
        PROVE  reset'[i] <= shun'[i] \/ Dated(remaining[i], reset[i], i, about[i])'
    <3>1. /\ remaining'[i] = remaining[i] /\ remaining[i] \in Nat
          /\ reset'[i] = Less(reset[i]) /\ shun'[i] = Less(shun[i])
          /\ reset[i] \in Nat /\ shun[i] \in Nat /\ reset[i] > 0
          /\ about'[i] = about[i] /\ about[i] \in Resources
      BY <1>6, <2>2 DEF Tick, Less
    <3>2. CASE reset[i] <= shun[i]
      BY <3>1, <3>2 DEF Less
    <3>3. CASE Dated(remaining[i], reset[i], i, about[i])
      BY <2>1, <3>1, <3>3
    <3> QED
      BY <2>2, <3>1, <3>2, <3>3
  <2>3. ASSUME NEW t \in Tasks
        PROVE  /\ pc'[t] \in {"idle", "sent"} => ~answer'[t].known
               /\ answer'[t].known
                    => Dated(answer[t].left, answer[t].togo, who[t], answer[t].of)'
    <3>1. UNCHANGED <<pc, who>>
      BY <1>6 DEF Tick
    <3>2. /\ answer[t].left \in Nat /\ answer[t].togo \in Nat
          /\ answer[t].of \in Resources
      BY AnswerTyped
    <3>3. /\ answer'[t].known = answer[t].known
          /\ answer'[t].left = answer[t].left
          /\ answer'[t].of = answer[t].of
          /\ answer'[t].togo = Less(answer[t].togo)
      BY <1>6, TickAnswer
    <3>4. who[t] \in Ids
      OBVIOUS
    <3>5. CASE answer[t].known
      <4>1. Dated(answer[t].left, answer[t].togo, who[t], answer[t].of)
        BY <3>5
      <4> DEFINE l == answer[t].left
                 g == answer[t].togo
                 w == who[t]
                 r == answer[t].of
      <4>2. l' = l /\ g' = Less(g) /\ w' = w /\ l \in Nat /\ g \in Nat
            /\ r' = r /\ r \in Resources /\ w \in Ids /\ Dated(l, g, w, r)
        BY <3>1, <3>2, <3>3, <3>4, <4>1
      <4> HIDE DEF l, g, w, r, Dated
      <4>3. Dated(l, g, w, r)'
        BY <2>1, <4>2
      <4> QED
        BY <3>1, <3>3, <3>5, <4>3 DEF l, g, w, r
    <3> QED
      BY <3>1, <3>3, <3>5
  <2> QED
    BY <2>2, <2>3
<1>7. CASE UNCHANGED vars
  BY <1>7 DEF vars
<1> QED
  BY <1>1, <1>2, <1>3, <1>4, <1>5, <1>6, <1>7 DEF Next

LEMMA BudgetSuffices == TypeOK /\ BudgetInv => ReportedLimitNotUndercut
  BY PatPoolAssumption
  DEF TypeOK, BudgetInv, Dated, ReportedLimitNotUndercut, Effective

\* No order of responses makes the pool believe an identity poorer than the
\* limit its record was reported for.
THEOREM ReportedLimitNotUndercutHolds == Spec => []ReportedLimitNotUndercut
  BY TypeInit, TypeStep, BudgetInit, BudgetStep, BudgetSuffices, PTL DEF Spec
=============================================================================
