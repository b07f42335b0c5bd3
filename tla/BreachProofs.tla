---------------------------- MODULE BreachProofs ----------------------------
(***************************************************************************)
(* Proofs about Breach for any number of sources, any jitter and any       *)
(* number of runs: the limiter keeps its promise inside the module, no     *)
(* failure passes for a clean answer, and HIBP is paced.                   *)
(***************************************************************************)
EXTENDS Breach, TLAPS

\* Inside Wait the module has a host.
HostInv == pc[Run] # "idle" => host[Run] \in 1..NHosts

\* lastReq is never younger than the last request, except after a retry,
\* which it does not see; and the two timers cover what is missing.
PaceInv ==
  /\ lastSent # "second" => stamp <= sentAge
  /\ stage = "pacing" => stamp + timer >= MinDelay
  /\ stage = "backoff" => sentAge + timer >= MinDelay

\* Where Run is fits the source it is at.
StageInv ==
  /\ stage \in {"limiter", "request"} => cursor \in 1..NHosts
  /\ stage \in {"pacing", "first", "backoff", "second"} => cursor = Hibp

\* The part of TypeOK that is not the limiter's.
OwnTypes ==
  /\ hasKey \in BOOLEAN
  /\ stage \in {"between", "next", "limiter", "request", "pacing", "first",
                "backoff", "second"}
  /\ cursor \in 1..(NHosts + 2)
  /\ status \in [Sources -> {"none", "hit", "no results", "unavailable",
                             "skipped"}]
  /\ answered \in [Sources -> {"none"} \cup DOMAIN Verdicts]
  /\ stamp \in 0..MinDelay
  /\ timer \in 0..MinDelay
  /\ sends \in Nat
  /\ sentAge \in 0..MinDelay
  /\ lastSent \in {"none", "first", "second"}

IInv ==
  /\ Limiter!TypeOK
  /\ OwnTypes
  /\ HostInv
  /\ StageInv
  /\ Limiter!Spaced
  /\ CleanMeansAnswered
  /\ PaceInv

-----------------------------------------------------------------------------
\* The steps that leave the limiter alone, but for a new context.
Aside == UNCHANGED <<age, pc, host, delay, left, gap>>
           /\ (UNCHANGED ctx \/ ctx' = [ctx EXCEPT ![Run] = "live"])

LEMMA LimiterStep ==
  ASSUME Limiter!TypeOK, HostInv, Limiter!Spaced, cursor \in 1..(NHosts + 2),
         [Next]_vars
  PROVE  Limiter!TypeOK' /\ HostInv' /\ Limiter!Spaced'
<1> USE BreachAssumption DEF Limiter!TypeOK, HostInv, Limiter!Spaced, Limiter!Delays
<1>1. CASE Aside
  BY <1>1 DEF Aside
<1>2. CASE WaitForHost
  <2>1. cursor \in 1..NHosts
    BY <1>2 DEF WaitForHost
  <2> QED
    BY <1>2, <2>1 DEF WaitForHost, Limiter!Enter
<1>3. ASSUME LimiterPasses \/ LimiterGivesUp
      PROVE  Limiter!TypeOK' /\ HostInv' /\ Limiter!Spaced'
  <2>1. CASE LimiterGivesUp
    BY <2>1 DEF LimiterGivesUp, Limiter!GiveUp, Limiter!Leave
  <2>2. CASE LimiterPasses
    <3>1. PICK k \in 1..NHosts : k = host[Run]
      BY <2>2 DEF LimiterPasses, Limiter!Pass
    <3>2. /\ age' = [age EXCEPT ![k] = 0]
          /\ gap' = [gap EXCEPT ![k] = IF age[k] < gap[k] THEN age[k] ELSE gap[k]]
          /\ UNCHANGED ctx /\ Limiter!Leave(Run) /\ age[k] >= Lo
      BY <2>2, <3>1 DEF LimiterPasses, Limiter!Pass
    <3> QED
      BY <3>2 DEF Limiter!Leave
  <2> QED
    BY <1>3, <2>1, <2>2
<1>4. CASE LimiterWaits
  <2>1. CASE Limiter!Wake(Run)
    BY <2>1 DEF Limiter!Wake
  <2>2. CASE Limiter!Sleep(Run)
    <3>1. PICK k \in 1..NHosts : k = host[Run]
      BY <2>2 DEF Limiter!Sleep
    <3>2. delay[Run] - age[k] \in 0..Hi
      BY <2>2, <3>1 DEF Limiter!Sleep
    <3>3. left' = [left EXCEPT ![Run] = delay[Run] - age[k]]
      BY <2>2, <3>1 DEF Limiter!Sleep
    <3> QED
      BY <2>2, <3>2, <3>3 DEF Limiter!Sleep
  <2> QED
    BY <1>4, <2>1, <2>2 DEF LimiterWaits
<1>5. CASE ContextEnds
  BY <1>5 DEF ContextEnds, Limiter!ContextEnds
<1>6. CASE Tick
  <2>1. /\ age' = [k \in 1..NHosts |-> IF age[k] < Hi THEN age[k] + 1 ELSE Hi]
        /\ left' = [c \in {Run} |-> IF left[c] > 0 THEN left[c] - 1 ELSE 0]
        /\ UNCHANGED <<pc, host, delay, ctx, gap>>
    BY <1>6 DEF Tick, Limiter!Tick
  <2>2. age' \in [1..NHosts -> 0..Hi]
    BY <2>1
  <2>3. left' \in [{Run} -> 0..Hi]
    BY <2>1
  <2> QED
    BY <2>1, <2>2, <2>3
<1>7. \/ Aside \/ WaitForHost \/ LimiterPasses \/ LimiterGivesUp \/ LimiterWaits
      \/ ContextEnds \/ Tick
  BY DEF Next, Proceed, Fail, Aside, limiter, vars, BeginRun, RunPassive, Finish,
         HibpUnconfigured, HibpAtOnce, HibpPaces, HibpPaced, HibpRetries, SourceFails,
         HibpGivesUp, HibpFails, SourceAnswers, HibpThrottled, HibpAnswers
<1> QED
  BY <1>1, <1>2, <1>3, <1>4, <1>5, <1>6, <1>7

-----------------------------------------------------------------------------
LEMMA Answers ==
  /\ \A a \in DOMAIN Verdicts : \A v \in Verdicts[a] :
       /\ v \in {"hit", "no results", "unavailable"}
       /\ v \in {"hit", "no results"} => a \in {"ok", "notfound"}
  /\ DOMAIN Verdicts = {"ok", "notfound", "other"}
<1>1. DOMAIN Verdicts = {"ok", "notfound", "other"}
  BY DEF Verdicts
<1>2. /\ Verdicts["ok"] = {"hit", "no results"} /\ Verdicts["notfound"] = {"no results"}
      /\ Verdicts["other"] = {"unavailable"}
  BY DEF Verdicts
<1>3. ASSUME NEW a \in DOMAIN Verdicts, NEW v \in Verdicts[a]
      PROVE  /\ v \in {"hit", "no results", "unavailable"}
             /\ v \in {"hit", "no results"} => a \in {"ok", "notfound"}
  BY <1>1, <1>2
<1> QED
  BY <1>1, <1>3

\* The module is at a source.
LEMMA AtSource ==
  ASSUME OwnTypes, StageInv,
         \/ stage \in {"limiter", "request", "pacing", "first", "backoff", "second"}
         \/ cursor = Hibp
  PROVE  cursor <= NHosts + 1
<1>1. cursor \in 1..NHosts \/ cursor = Hibp
  BY DEF StageInv
<1> QED
  BY <1>1, BreachAssumption DEF Hibp

\* What a step may do to the verdict of the source at the cursor.
SettlesWell(v, a) ==
  /\ v \in {"hit", "no results", "unavailable"} /\ a \in {"none"} \cup DOMAIN Verdicts
  /\ v \in {"hit", "no results"} => a \in {"ok", "notfound"}
  /\ cursor <= NHosts + 1
  /\ Settle(v, a)

LEMMA VerdictSteps ==
  ASSUME OwnTypes, StageInv, [Next]_vars
  PROVE  \/ UNCHANGED <<cursor, status, answered>>
         \/ BeginRun
         \/ RunPassive
         \/ \E v, a : SettlesWell(v, a)
<1>1. ASSUME cursor <= NHosts + 1, Settle("unavailable", "none")
      PROVE  SettlesWell("unavailable", "none")
  BY <1>1 DEF SettlesWell
<1>2. ASSUME LimiterGivesUp \/ SourceFails \/ HibpUnconfigured \/ HibpGivesUp \/ HibpFails
      PROVE  SettlesWell("unavailable", "none")
  <2>1. Settle("unavailable", "none")
    BY <1>2 DEF LimiterGivesUp, SourceFails, HibpUnconfigured, HibpGivesUp, HibpFails
  <2>2. cursor <= NHosts + 1
    <3>1. \/ stage \in {"limiter", "request", "pacing", "first", "backoff", "second"}
          \/ cursor = Hibp
      BY <1>2 DEF LimiterGivesUp, SourceFails, HibpUnconfigured, HibpGivesUp, HibpFails
    <3> QED
      BY <3>1, AtSource
  <2> QED
    BY <1>1, <2>1, <2>2
<1>3. ASSUME SourceAnswers \/ HibpAnswers
      PROVE  \E v, a : SettlesWell(v, a)
  <2>1. PICK a \in DOMAIN Verdicts : \E v \in Verdicts[a] : Settle(v, a)
    BY <1>3 DEF SourceAnswers, HibpAnswers
  <2>2. PICK v \in Verdicts[a] : Settle(v, a)
    BY <2>1
  <2>3. cursor <= NHosts + 1
    <3>1. stage \in {"limiter", "request", "pacing", "first", "backoff", "second"}
      BY <1>3 DEF SourceAnswers, HibpAnswers
    <3> QED
      BY <3>1, AtSource
  <2>4. SettlesWell(v, a)
    BY <2>1, <2>2, <2>3, Answers DEF SettlesWell
  <2> QED
    BY <2>4
<1>4. ASSUME HibpAtOnce \/ HibpPaced \/ HibpRetries
      PROVE  UNCHANGED <<cursor, status, answered>> \/ SettlesWell("unavailable", "none")
  <2>1. UNCHANGED <<cursor, status, answered>> \/ Settle("unavailable", "none")
    BY <1>4 DEF HibpAtOnce, HibpPaced, HibpRetries, Send
  <2>2. cursor <= NHosts + 1
    <3>1. \/ stage \in {"limiter", "request", "pacing", "first", "backoff", "second"}
          \/ cursor = Hibp
      BY <1>4 DEF HibpAtOnce, HibpPaced, HibpRetries
    <3> QED
      BY <3>1, AtSource
  <2> QED
    BY <1>1, <2>1, <2>2
<1>5. \/ UNCHANGED <<cursor, status, answered>> \/ BeginRun \/ RunPassive
      \/ LimiterGivesUp \/ SourceFails \/ HibpUnconfigured \/ HibpGivesUp \/ HibpFails
      \/ SourceAnswers \/ HibpAnswers \/ HibpAtOnce \/ HibpPaced \/ HibpRetries
  BY DEF Next, Proceed, Fail, vars, Finish, WaitForHost, LimiterWaits, LimiterPasses, HibpPaces,
         HibpThrottled, ContextEnds, Tick
<1> QED
  BY <1>2, <1>3, <1>4, <1>5

LEMMA CleanStep ==
  ASSUME OwnTypes, StageInv, CleanMeansAnswered, [Next]_vars
  PROVE  CleanMeansAnswered'
<1>1. CASE UNCHANGED <<cursor, status, answered>>
  BY <1>1 DEF CleanMeansAnswered
<1>2. CASE BeginRun \/ RunPassive
  BY <1>2 DEF BeginRun, RunPassive, CleanMeansAnswered
<1>3. ASSUME NEW v, NEW a, SettlesWell(v, a)
      PROVE  CleanMeansAnswered'
  <2>1. /\ status' = [status EXCEPT ![cursor] = v] /\ answered' = [answered EXCEPT ![cursor] = a]
        /\ v \in {"hit", "no results"} => a \in {"ok", "notfound"}
    BY <1>3 DEF SettlesWell, Settle
  <2>2. DOMAIN status = Sources /\ DOMAIN answered = Sources
    BY DEF OwnTypes
  <2> QED
    BY <2>1, <2>2 DEF CleanMeansAnswered
<1> QED
  BY <1>1, <1>2, <1>3, VerdictSteps

\* The variables of the verdicts keep their types.
LEMMA VerdictTypes ==
  ASSUME OwnTypes, StageInv, [Next]_vars
  PROVE  /\ cursor' \in 1..(NHosts + 2)
         /\ status' \in [Sources -> {"none", "hit", "no results", "unavailable", "skipped"}]
         /\ answered' \in [Sources -> {"none"} \cup DOMAIN Verdicts]
<1> USE BreachAssumption DEF OwnTypes
<1>1. CASE UNCHANGED <<cursor, status, answered>>
  BY <1>1
<1>2. CASE BeginRun \/ RunPassive
  <2>1. cursor' = 1 \/ cursor' = cursor
    BY <1>2 DEF BeginRun, RunPassive
  <2>2. /\ \/ status' = [s \in Sources |-> "none"]
           \/ status' = [s \in Sources |-> "skipped"]
        /\ answered' = [s \in Sources |-> "none"]
    BY <1>2 DEF BeginRun, RunPassive
  <2>3. cursor' \in 1..(NHosts + 2)
    <3>1. cursor \in 1..(NHosts + 2)
      OBVIOUS
    <3> HIDE DEF OwnTypes
    <3> QED
      BY <2>1, <3>1
  <2>4. status' \in [Sources -> {"none", "hit", "no results", "unavailable", "skipped"}]
    BY <2>2
  <2>5. answered' \in [Sources -> {"none"} \cup DOMAIN Verdicts]
    BY <2>2
  <2> QED
    BY <2>3, <2>4, <2>5
<1>3. ASSUME NEW v, NEW a, SettlesWell(v, a)
      PROVE  /\ cursor' \in 1..(NHosts + 2)
             /\ status' \in [Sources -> {"none", "hit", "no results", "unavailable", "skipped"}]
             /\ answered' \in [Sources -> {"none"} \cup DOMAIN Verdicts]
  <2>1. cursor' \in 1..(NHosts + 2)
    <3>1. cursor' = cursor + 1 /\ cursor <= NHosts + 1 /\ cursor \in 1..(NHosts + 2)
      BY <1>3 DEF SettlesWell, Settle
    <3> HIDE DEF OwnTypes
    <3> QED
      BY <3>1
  <2>2. status' \in [Sources -> {"none", "hit", "no results", "unavailable", "skipped"}]
    BY <1>3 DEF SettlesWell, Settle
  <2>3. answered' \in [Sources -> {"none"} \cup DOMAIN Verdicts]
    BY <1>3 DEF SettlesWell, Settle
  <2> QED
    BY <2>1, <2>2, <2>3
<1> QED
  BY <1>1, <1>2, <1>3, VerdictSteps

\* Where Run is fits the source it is at.
LEMMA StageStep ==
  ASSUME OwnTypes, StageInv, [Next]_vars
  PROVE  /\ stage' \in {"between", "next", "limiter", "request", "pacing", "first",
                        "backoff", "second"}
         /\ StageInv'
<1> USE BreachAssumption DEF OwnTypes, StageInv, Hibp
<1>1. CASE stage' = "next" \/ stage' = "between"
  BY <1>1
<1>2. CASE UNCHANGED <<stage, cursor>>
  BY <1>2
<1>3. CASE WaitForHost \/ LimiterPasses \/ HibpPaces \/ HibpThrottled
  <2>1. \/ stage' = "limiter" /\ cursor' = cursor /\ cursor <= NHosts /\ cursor \in 1..(NHosts + 2)
        \/ stage' = "request" /\ cursor' = cursor /\ stage = "limiter"
        \/ stage' = "pacing" /\ cursor' = Hibp
        \/ stage' = "backoff" /\ cursor' = cursor /\ stage = "first"
    BY <1>3 DEF WaitForHost, LimiterPasses, HibpPaces, HibpThrottled
  <2>2. stage' = "limiter" => cursor' \in 1..NHosts
    <3> HIDE DEF OwnTypes, StageInv
    <3>1. ASSUME NEW c \in 1..(NHosts + 2), c <= NHosts
          PROVE  c \in 1..NHosts
      BY <3>1, BreachAssumption
    <3> QED
      BY <2>1, <3>1
  <2> QED
    BY <2>1, <2>2
<1>4. CASE HibpAtOnce \/ HibpPaced \/ HibpRetries
  BY <1>4 DEF HibpAtOnce, HibpPaced, HibpRetries, Send, Settle
<1>5. \/ stage' = "next" \/ stage' = "between" \/ UNCHANGED <<stage, cursor>>
      \/ WaitForHost \/ LimiterPasses \/ HibpPaces \/ HibpThrottled
      \/ HibpAtOnce \/ HibpPaced \/ HibpRetries
  BY DEF Next, Proceed, Fail, vars, BeginRun, RunPassive, Finish, LimiterWaits, ContextEnds, Tick,
         LimiterGivesUp, SourceFails, HibpUnconfigured, HibpGivesUp, HibpFails, SourceAnswers,
         HibpAnswers, Settle
<1> QED
  BY <1>1, <1>2, <1>3, <1>4, <1>5

\* The clocks of HIBP: their types, and what they say of each other.
Clocks ==
  /\ stamp \in 0..MinDelay /\ timer \in 0..MinDelay /\ sentAge \in 0..MinDelay
  /\ sends \in Nat /\ lastSent \in {"none", "first", "second"}

LEMMA PaceStep ==
  ASSUME OwnTypes, StageInv, PaceInv, [Next]_vars
  PROVE  /\ Clocks' /\ PaceInv'
         /\ sends' > sends => sentAge = MinDelay \/ lastSent = "second"
<1> USE BreachAssumption DEF Clocks, PaceInv
<1>0. Clocks
  BY DEF OwnTypes
<1>1. CASE /\ UNCHANGED <<stamp, timer, sends, sentAge, lastSent>>
           /\ UNCHANGED stage \/ stage' \notin {"pacing", "backoff"}
  BY <1>0, <1>1
<1>2. CASE BeginRun \/ RunPassive
  BY <1>0, <1>2 DEF BeginRun, RunPassive
<1>3. CASE HibpAtOnce
  BY <1>0, <1>3 DEF HibpAtOnce, Send, Settle
<1>4. CASE HibpPaces
  BY <1>0, <1>4 DEF HibpPaces
<1>5. CASE HibpPaced
  BY <1>0, <1>5 DEF HibpPaced, Send, Settle
<1>6. CASE HibpThrottled
  BY <1>0, <1>6 DEF HibpThrottled
<1>7. CASE HibpRetries
  BY <1>0, <1>7 DEF HibpRetries, Send, Settle
<1>8. CASE HibpGivesUp
  BY <1>0, <1>8 DEF HibpGivesUp, Settle
<1>9. CASE Tick
  BY <1>0, <1>9 DEF Tick, Older
<1>10. \/ /\ UNCHANGED <<stamp, timer, sends, sentAge, lastSent>>
          /\ UNCHANGED stage \/ stage' \notin {"pacing", "backoff"}
       \/ BeginRun \/ RunPassive \/ HibpAtOnce \/ HibpPaces \/ HibpPaced \/ HibpThrottled
       \/ HibpRetries \/ HibpGivesUp \/ Tick
  BY DEF Next, Proceed, Fail, vars, hibp, Finish, WaitForHost, LimiterWaits, LimiterPasses,
         ContextEnds, LimiterGivesUp, SourceFails, HibpUnconfigured, HibpFails, SourceAnswers,
         HibpAnswers, Settle
<1> QED
  BY <1>1, <1>2, <1>3, <1>4, <1>5, <1>6, <1>7, <1>8, <1>9, <1>10

LEMMA KeyStep ==
  ASSUME hasKey \in BOOLEAN, [Next]_vars
  PROVE  hasKey' \in BOOLEAN
<1>1. hasKey' = hasKey
  BY Zenon DEF Next, Proceed, Fail, vars, BeginRun, RunPassive, Finish, WaitForHost, LimiterWaits,
         LimiterPasses, ContextEnds, Tick, LimiterGivesUp, SourceFails, HibpUnconfigured, HibpFails,
         SourceAnswers, HibpAnswers, HibpAtOnce, HibpPaces, HibpPaced, HibpThrottled, HibpRetries,
         HibpGivesUp
<1> QED
  BY <1>1, Zenon

-----------------------------------------------------------------------------
LEMMA InitInvariant ==
  ASSUME Init
  PROVE  IInv
<1> USE BreachAssumption
<1>1. Limiter!TypeOK /\ HostInv /\ Limiter!Spaced
  BY DEF Init, Limiter!Init, Limiter!TypeOK, HostInv, Limiter!Spaced, Limiter!Delays
<1>2. hasKey \in BOOLEAN
  BY Zenon DEF Init
<1>3. OwnTypes
  BY <1>2 DEF Init, OwnTypes
<1>4. StageInv /\ CleanMeansAnswered /\ PaceInv
  BY DEF Init, StageInv, CleanMeansAnswered, PaceInv
<1> QED
  BY <1>1, <1>3, <1>4 DEF IInv

LEMMA StepInvariant ==
  ASSUME IInv, [Next]_vars
  PROVE  IInv'
<1>1. Limiter!TypeOK' /\ HostInv' /\ Limiter!Spaced'
  BY LimiterStep DEF IInv, OwnTypes
<1>2. StageInv' /\ CleanMeansAnswered' /\ PaceInv'
  BY StageStep, CleanStep, PaceStep, Zenon DEF IInv
<1>3. OwnTypes'
  <2>1. OwnTypes /\ StageInv /\ PaceInv /\ hasKey \in BOOLEAN
    BY Zenon DEF IInv, OwnTypes
  <2> QED
    BY <2>1, VerdictTypes, StageStep, PaceStep, KeyStep, Zenon DEF OwnTypes, Clocks
<1> QED
  BY <1>1, <1>2, <1>3, Zenon DEF IInv

\* The inductive invariant of the breach module holds over any number of runs.
THEOREM Invariant == Spec => []IInv
<1>1. Init => IInv
  BY InitInvariant
<1>2. IInv /\ [Next]_vars => IInv'
  BY StepInvariant
<1> QED
  BY <1>1, <1>2, PTL DEF Spec

\* Every variable of the module and of its limiter keeps its type.
THEOREM TypeCorrect == Spec => []TypeOK
<1>1. IInv => TypeOK
  BY Zenon DEF IInv, TypeOK, OwnTypes
<1> QED
  BY <1>1, Invariant, PTL

\* What RateLimiter promises holds in the module, whose runs bring new contexts: requests to
\* one host are never closer together than the shortest jittered delay.
THEOREM HostsSpaced == Spec => []Limiter!Spaced
<1>1. IInv => Limiter!Spaced
  BY DEF IInv
<1> QED
  BY <1>1, Invariant, PTL

\* Module.Run: a source is reported clean or hit only in a run in which it answered.
THEOREM CleanIsAnswered == Spec => []CleanMeansAnswered
<1>1. IInv => CleanMeansAnswered
  BY DEF IInv
<1> QED
  BY <1>1, Invariant, PTL

\* hibpSource: requests are hibpMinDelay apart, but for the one after a retry.
THEOREM HibpPacing == Spec => SpacedUnlessRetried
<1>1. IInv /\ [Next]_vars => [sends' > sends => sentAge = MinDelay \/ lastSent = "second"]_vars
  BY PaceStep DEF IInv
<1> QED
  BY <1>1, Invariant, PTL DEF Spec, SpacedUnlessRetried
=============================================================================
