---------------------------- MODULE LimitsProofs ----------------------------
(***************************************************************************)
(* Proofs about what limits the requests of the modules.                   *)
(* RateLimiter, for any callers, hosts and jitter: requests to a host are  *)
(* spaced, and nobody sleeps longer than its own delay needs.              *)
(* LocalState, for any processes, caps and periods: what the daily, the    *)
(* monthly and the hourly cap guarantee, and what the files keep.          *)
(***************************************************************************)
EXTENDS RateLimiter, LocalState, FiniteSetTheorems, FunctionTheorems, TLAPS

-----------------------------------------------------------------------------
(* RateLimiter                                                             *)

\* A caller inside Wait has a key.
HostInv == \A c \in Callers : pc[c] # "idle" => host[c] \in Hosts

LimiterInv ==
  /\ TypeOK
  /\ HostInv
  /\ Spaced
  /\ NoOversleep

CallerStep(c) ==
  \/ \E k \in Hosts : Enter(c, k)
  \/ Pass(c)
  \/ Sleep(c)
  \/ Wake(c)
  \/ GiveUp(c)
  \/ ContextEnds(c)

-----------------------------------------------------------------------------
LEMMA LimiterInit == Init => LimiterInv
  BY LimiterAssumption
  DEF Init, LimiterInv, TypeOK, HostInv, Spaced, NoOversleep, Delays

LEMMA LimiterTypeStep == LimiterInv /\ [Next]_limiterVars => TypeOK' /\ HostInv'
<1> SUFFICES ASSUME LimiterInv, [Next]_limiterVars PROVE TypeOK' /\ HostInv'
  OBVIOUS
<1> USE LimiterAssumption DEF LimiterInv, TypeOK, HostInv, Delays
<1>1. ASSUME NEW c \in Callers, NEW k \in Hosts, Enter(c, k)
      PROVE  TypeOK' /\ HostInv'
  BY <1>1 DEF Enter
<1>2. ASSUME NEW c \in Callers, Pass(c) PROVE TypeOK' /\ HostInv'
  <2>1. PICK k \in Hosts : k = host[c]
    BY <1>2 DEF Pass
  <2>2. age' = [age EXCEPT ![k] = 0]
    BY <1>2, <2>1 DEF Pass
  <2>3. gap' = [gap EXCEPT ![k] = IF age[k] < gap[k] THEN age[k] ELSE gap[k]]
    BY <1>2, <2>1 DEF Pass
  <2> QED
    BY <1>2, <2>2, <2>3 DEF Pass, Leave
<1>3. ASSUME NEW c \in Callers, Sleep(c) PROVE TypeOK' /\ HostInv'
  <2>1. PICK k \in Hosts : k = host[c]
    BY <1>3 DEF Sleep
  <2>2. delay[c] - age[k] \in 0..Hi
    BY <1>3, <2>1 DEF Sleep
  <2>3. left' = [left EXCEPT ![c] = delay[c] - age[k]]
    BY <1>3, <2>1 DEF Sleep
  <2> QED
    BY <1>3, <2>2, <2>3 DEF Sleep
<1>4. ASSUME NEW c \in Callers, Wake(c) \/ GiveUp(c) \/ ContextEnds(c)
      PROVE  TypeOK' /\ HostInv'
  BY <1>4 DEF Wake, GiveUp, ContextEnds, Leave
<1>5. CASE Tick
  BY <1>5 DEF Tick
<1>6. CASE UNCHANGED limiterVars
  BY <1>6 DEF limiterVars
<1> QED
  BY <1>1, <1>2, <1>3, <1>4, <1>5, <1>6 DEF Next

\* Only Pass adds a gap, and it lets a caller through when the host's age has
\* reached a delay, which is Lo at least.
LEMMA SpacedStep == LimiterInv /\ [Next]_limiterVars => Spaced'
<1> SUFFICES ASSUME LimiterInv, [Next]_limiterVars, NEW k \in Hosts
             PROVE  gap'[k] >= Lo
  BY DEF Spaced
<1> USE LimiterAssumption DEF LimiterInv, TypeOK, Delays
<1>1. ASSUME NEW c \in Callers, Pass(c) PROVE gap'[k] >= Lo
  <2>1. CASE k = host[c]
    <3>1. gap'[k] = IF age[k] < gap[k] THEN age[k] ELSE gap[k]
      BY <1>1, <2>1 DEF Pass
    <3>2. age[k] >= Lo
      BY <1>1, <2>1 DEF Pass
    <3> QED
      BY <3>1, <3>2 DEF Spaced
  <2>2. CASE k # host[c]
    BY <1>1, <2>2 DEF Pass, Spaced
  <2> QED
    BY <2>1, <2>2
<1>2. CASE UNCHANGED gap
  BY <1>2 DEF Spaced
<1> QED
  BY <1>1, <1>2
  DEF Next, Enter, Sleep, Wake, GiveUp, ContextEnds, Tick, limiterVars

\* A timer is set to what the delay lacks; after that a tick takes one from
\* the timer for what it adds to the host's age, and a pass of another caller
\* only lowers that age.
LEMMA OversleepStep == LimiterInv /\ [Next]_limiterVars => NoOversleep'
<1> SUFFICES ASSUME LimiterInv, [Next]_limiterVars, NEW d \in Callers,
                    pc'[d] = "sleeping", left'[d] > 0
             PROVE  left'[d] + age'[host'[d]] <= delay'[d]
  BY DEF NoOversleep
<1> USE LimiterAssumption DEF LimiterInv, TypeOK, Delays
<1>1. ASSUME Sleep(d) PROVE left'[d] + age'[host'[d]] <= delay'[d]
  <2>1. PICK k \in Hosts : k = host[d]
    BY <1>1 DEF Sleep, HostInv
  <2>2. left'[d] = delay[d] - age[k] /\ age' = age /\ host'[d] = k
          /\ delay'[d] = delay[d]
    BY <1>1, <2>1 DEF Sleep
  <2> QED
    BY <2>2
<1>2. ASSUME Tick PROVE left'[d] + age'[host'[d]] <= delay'[d]
  <2>1. PICK k \in Hosts : k = host[d] /\ pc[d] = "sleeping"
    BY <1>2 DEF Tick, HostInv
  <2>2. left[d] > 0 /\ left'[d] = left[d] - 1
    BY <1>2 DEF Tick
  <2>3. left[d] + age[k] <= delay[d]
    BY <2>1, <2>2 DEF NoOversleep
  <2>4. age'[k] <= age[k] + 1 /\ age'[k] \in 0..Hi
    BY <1>2 DEF Tick
  <2> QED
    BY <1>2, <2>1, <2>2, <2>3, <2>4 DEF Tick
<1>3. ASSUME /\ pc[d] = "sleeping"
             /\ left'[d] = left[d] /\ host'[d] = host[d] /\ delay'[d] = delay[d]
             /\ \/ age' = age
                \/ \E c \in Callers : Pass(c)
      PROVE  left'[d] + age'[host'[d]] <= delay'[d]
  <2>1. PICK k \in Hosts : k = host[d]
    BY <1>3 DEF HostInv
  <2>2. left[d] + age[k] <= delay[d]
    BY <1>3, <2>1 DEF NoOversleep
  <2>3. age'[k] <= age[k] /\ age'[k] \in Nat
    BY <1>3 DEF Pass
  <2> QED
    BY <1>3, <2>1, <2>2, <2>3
<1>4. \/ Sleep(d)
      \/ Tick
      \/ /\ pc[d] = "sleeping"
         /\ left'[d] = left[d] /\ host'[d] = host[d] /\ delay'[d] = delay[d]
         /\ \/ age' = age
            \/ \E c \in Callers : Pass(c)
  <2> DEFINE Same ==
        /\ pc[d] = "sleeping"
        /\ left'[d] = left[d] /\ host'[d] = host[d] /\ delay'[d] = delay[d]
        /\ \/ age' = age
           \/ \E c \in Callers : Pass(c)
  <2>1. ASSUME NEW c \in Callers \ {d}, CallerStep(c) PROVE Same
    BY <2>1 DEF CallerStep, Enter, Pass, Sleep, Wake, GiveUp, ContextEnds, Leave
  <2>2. ASSUME CallerStep(d), ~ Sleep(d) PROVE Same
    BY <2>2 DEF CallerStep, Enter, Pass, Wake, GiveUp, ContextEnds, Leave
  <2>3. CASE UNCHANGED limiterVars
    BY <2>3 DEF limiterVars
  <2> QED
    BY <2>1, <2>2, <2>3 DEF Next, CallerStep
<1> QED
  BY <1>1, <1>2, <1>3, <1>4

-----------------------------------------------------------------------------
\* The inductive invariant holds in every reachable state.
THEOREM LimiterInvariant == Spec => []LimiterInv
<1>1. LimiterInv /\ [Next]_limiterVars => LimiterInv'
  BY LimiterTypeStep, SpacedStep, OversleepStep DEF LimiterInv
<1> QED
  BY LimiterInit, <1>1, PTL DEF Spec

\* TypeOK for any callers, hosts and jitter.
THEOREM LimiterTypeCorrect == Spec => []TypeOK
<1>1. LimiterInv => TypeOK
  BY DEF LimiterInv
<1> QED
  BY LimiterInvariant, <1>1, PTL

\* Two passes of one host are at least the shortest jittered delay apart,
\* for any number of goroutines sleeping on it.
THEOREM SpacingHolds == Spec => []Spaced
<1>1. LimiterInv => Spaced
  BY DEF LimiterInv
<1> QED
  BY LimiterInvariant, <1>1, PTL

\* No caller's timer outlasts what its own delay still lacks.
THEOREM NobodyOversleeps == Spec => []NoOversleep
<1>1. LimiterInv => NoOversleep
  BY DEF LimiterInv
<1> QED
  BY LimiterInvariant, <1>1, PTL

-----------------------------------------------------------------------------
(* LocalState                                                              *)

\* Only the commands of the kind of file are under way, and the window, which
\* is in memory, has none.
WorkInv ==
  /\ \A p \in Processes : phase[p] # "idle" => cmd[p] \in CommandsOf(kind)
  /\ kind = "usage" => \A p \in Processes : phase[p] # "writing"

LEMMA PeriodOf ==
  ASSUME NEW t \in Nat
  PROVE  Period(t) \in Nat /\ Period(t) <= t /\ Period(t) <= Period(t + 1)
BY LocalStateAssumption DEF LocalStateAssumption, Period

LEMMA Commands ==
  /\ \A k : k \in Counters => CommandsOf(k) = {"lookup"}
  /\ CommandsOf("config") = {"set", "unset"}
  /\ CommandsOf("session") = {"open", "setup"}
  /\ CommandsOf("window") = {}
BY DEF CommandsOf, Counters

LEMMA CountType ==
  ASSUME LocalTypeOK, NEW p \in Processes
  PROVE  CountFor(p) \in Nat
<1>1. /\ rows[period[p]] \in Nat
      /\ value.count \in Nat
  BY DEF LocalTypeOK, Value
<1> QED
  BY <1>1 DEF CountFor

\* What a command may hold for its save, written out.
LEMMA Records ==
  /\ Blank \in Value
  /\ \A v \in SUBSET Keys :
       /\ [Blank EXCEPT !.keys = v] \in Value
       /\ [Blank EXCEPT !.keys = v].keys = v
  /\ \A d \in {"none", "real"} : Sealed(d) \in Value /\ Sealed(d).data = d
<1>1. 0 \in Times
  BY LocalStateAssumption DEF LocalStateAssumption, Times
<1>2. ASSUME NEW v \in SUBSET Keys
      PROVE  /\ [Blank EXCEPT !.keys = v] \in Value
             /\ [Blank EXCEPT !.keys = v].keys = v
  <2>1. [Blank EXCEPT !.keys = v] =
          [period |-> 0, count |-> 0, keys |-> v, form |-> "plain", data |-> "none"]
    BY DEF Blank
  <2> QED
    BY <1>1, <2>1 DEF Value
<1>3. ASSUME NEW d \in {"none", "real"}
      PROVE  Sealed(d) \in Value /\ Sealed(d).data = d
  <2>1. [Blank EXCEPT !.form = "sealed"] =
          [period |-> 0, count |-> 0, keys |-> {}, form |-> "sealed", data |-> "none"]
    BY DEF Blank
  <2>2. Sealed(d) = [[Blank EXCEPT !.form = "sealed"] EXCEPT !.data = d]
    BY DEF Sealed
  <2>3. Sealed(d) =
          [period |-> 0, count |-> 0, keys |-> {}, form |-> "sealed", data |-> d]
    BY <2>1, <2>2
  <2> QED
    BY <1>1, <2>3 DEF Value
<1>4. Blank \in Value
  BY <1>1 DEF Value, Blank
<1> QED
  BY <1>2, <1>3, <1>4

LEMMA OneMoreIs ==
  ASSUME LocalTypeOK, NEW p \in Processes
  PROVE  /\ OneMore(p) \in Value
         /\ OneMore(p).period = period[p]
         /\ OneMore(p).count = CountFor(p) + 1
<1>a. [Blank EXCEPT !.period = period[p]] =
        [period |-> period[p], count |-> 0, keys |-> {}, form |-> "plain", data |-> "none"]
  BY DEF Blank
<1>b. OneMore(p) = [[Blank EXCEPT !.period = period[p]] EXCEPT !.count = CountFor(p) + 1]
  BY DEF OneMore
<1>1. OneMore(p) = [period |-> period[p], count |-> CountFor(p) + 1, keys |-> {},
                    form |-> "plain", data |-> "none"]
  <2> DEFINE n == CountFor(p) + 1
             d == period[p]
  <2>1. /\ [Blank EXCEPT !.period = d] =
             [period |-> d, count |-> 0, keys |-> {}, form |-> "plain", data |-> "none"]
        /\ OneMore(p) = [[Blank EXCEPT !.period = d] EXCEPT !.count = n]
    BY <1>a, <1>b
  <2> HIDE DEF n, d
  <2>2. OneMore(p) =
          [period |-> d, count |-> n, keys |-> {}, form |-> "plain", data |-> "none"]
    BY <2>1
  <2> QED
    BY <2>2 DEF n, d
<1>2. period[p] \in Times /\ CountFor(p) + 1 \in Nat
  BY CountType DEF LocalTypeOK
<1> QED
  BY <1>1, <1>2 DEF Value

LEMMA LocalTypeInit == LocalInit => LocalTypeOK /\ WorkInv
<1> SUFFICES ASSUME LocalInit PROVE LocalTypeOK /\ WorkInv
  OBVIOUS
<1>1. 0 \in Times /\ Blank \in Value
  BY LocalStateAssumption, Records DEF LocalStateAssumption, Times
<1>2. value \in Value
  <2>1. CASE value = Blank
    BY <1>1, <2>1
  <2>2. CASE value = [Blank EXCEPT !.keys = Keys]
    BY <2>2, Records
  <2>3. ASSUME NEW form \in {"plain", "sealed"},
               value = [Blank EXCEPT !.form = form, !.data = "real"]
        PROVE  value \in Value
    BY <1>1, <2>3 DEF Value, Blank
  <2> QED
    BY <2>1, <2>2, <2>3 DEF LocalInit
<1>3. value.keys \subseteq Keys
  BY <1>2 DEF Value
<1>4. key \in [Processes -> Keys]
  BY DEF LocalInit
<1>5. state \in {"absent", "empty", "whole"} /\ kind \in Kinds
  BY DEF LocalInit
<1> QED
  BY <1>1, <1>2, <1>3, <1>4, <1>5 DEF LocalInit, LocalTypeOK, WorkInv

LEMMA HourTaken ==
  ASSUME NEW v \in [open : BOOLEAN, from : Times, count : Nat]
  PROVE  [v EXCEPT !.count = @ + 1] \in [open : BOOLEAN, from : Times, count : Nat]
OBVIOUS

LEMMA LocalTypeStep ==
  ASSUME LocalTypeOK, [LocalNext]_localVars
  PROVE  LocalTypeOK'
<1> USE DEF LocalTypeOK, store, past
<1>0. now \in Nat /\ now <= MaxTime /\ Period(now) \in Times /\ MaxTime \in Nat
  <2>1. now \in Nat /\ now <= MaxTime /\ MaxTime \in Nat
    BY LocalStateAssumption DEF LocalStateAssumption, Times
  <2>2. Period(now) \in Nat /\ Period(now) <= now
    BY <2>1, PeriodOf
  <2> QED
    BY <2>1, <2>2 DEF Times
<1>1. ASSUME NEW p \in Processes, Begin(p) PROVE LocalTypeOK'
  <2>1. PICK c \in CommandsOf(kind) : cmd' = [cmd EXCEPT ![p] = c]
    BY <1>1 DEF Begin
  <2>2. PICK k \in Keys : key' = [key EXCEPT ![p] = k]
    BY <1>1 DEF Begin
  <2>3. c \in {"lookup", "set", "unset", "open", "setup"}
    BY DEF CommandsOf
  <2> QED
    BY <1>0, <1>1, <2>1, <2>2, <2>3 DEF Begin
<1>2. ASSUME NEW p \in Processes, LoadQuota(p) PROVE LocalTypeOK'
  BY <1>2, OneMoreIs DEF LoadQuota, End, Hold
<1>3. ASSUME NEW p \in Processes, ReadUsage(p) PROVE LocalTypeOK'
  BY <1>3, OneMoreIs, CountType DEF ReadUsage, End, Hold
<1>4. ASSUME NEW p \in Processes, LoadConfig(p) PROVE LocalTypeOK'
  <2> DEFINE keep == IF state = "whole" THEN value.keys ELSE {}
             then == IF cmd[p] = "set" THEN keep \cup {key[p]} ELSE keep \ {key[p]}
  <2>1. then \in SUBSET Keys
    BY DEF Value
  <2>2. Hold(p, [Blank EXCEPT !.keys = then])
    BY <1>4 DEF LoadConfig
  <2> HIDE DEF then
  <2>3. [Blank EXCEPT !.keys = then] \in Value
    BY <2>1, Records
  <2>4. held' \in [Processes -> Value]
    BY <2>2, <2>3 DEF Hold
  <2> QED
    BY <1>4, <2>2, <2>4 DEF LoadConfig, Hold
<1>5. ASSUME NEW p \in Processes, OpenSession(p) PROVE LocalTypeOK'
  <2>1. \/ End(p, "failed") /\ UNCHANGED held
        \/ End(p, "done") /\ UNCHANGED held
        \/ \E d \in {"none", "real"} : Hold(p, Sealed(d))
    BY <1>5 DEF OpenSession, Value
  <2>2. held' \in [Processes -> Value]
    BY <2>1, Records DEF Hold
  <2>3. /\ phase' \in [Processes -> {"idle", "started", "saving", "writing", "saved"}]
        /\ outcome' \in [Processes -> {"none", "done", "refused", "failed"}]
    BY <2>1 DEF Hold, End
  <2> QED
    BY <1>5, <2>2, <2>3 DEF OpenSession
<1>6. ASSUME NEW p \in Processes, SetUpSession(p) PROVE LocalTypeOK'
  BY <1>6, Records DEF SetUpSession, Hold
<1>7. ASSUME NEW p \in Processes, Truncate(p) PROVE LocalTypeOK'
  BY <1>7, Records DEF Truncate
<1>8. ASSUME NEW p \in Processes, Write(p) PROVE LocalTypeOK'
  BY <1>8 DEF Write, Whole, Grant
<1>9. ASSUME NEW p \in Processes, CommitUsage(p) PROVE LocalTypeOK'
  <2>1. held[p].count \in Nat
    BY DEF Value
  <2>a. \/ rows' = [rows EXCEPT ![period[p]] = held[p].count] /\ Grant(p)
        \/ UNCHANGED <<rows, granted>>
    BY <1>9 DEF CommitUsage
  <2>b. rows' \in [Times -> Nat]
    BY <2>1, <2>a
  <2>c. granted' \in [Times -> Nat]
    BY <2>a DEF Grant
  <2>d. UNCHANGED <<state, value>>
    BY <1>9 DEF CommitUsage
  <2>3. /\ phase' \in [Processes -> {"idle", "started", "saving", "writing", "saved"}]
        /\ outcome' \in [Processes -> {"none", "done", "refused", "failed"}]
    BY <1>9 DEF CommitUsage, End
  <2> QED
    BY <1>9, <2>b, <2>c, <2>d, <2>3 DEF CommitUsage
<1>10. ASSUME NEW p \in Processes, Finish(p) PROVE LocalTypeOK'
  BY <1>10 DEF Finish, End
<1>11. ASSUME NEW p \in Processes, Reserve(p) PROVE LocalTypeOK'
  <2> DEFINE w == IF ~window[p].open \/ now - window[p].from >= PeriodLength
                  THEN [open |-> TRUE, from |-> now, count |-> 0] ELSE window[p]
  <2>1. w \in [open : BOOLEAN, from : Times, count : Nat]
    OBVIOUS
  <2>3. \/ window' = [window EXCEPT ![p] = w] /\ UNCHANGED tickets
        \/ /\ window' = [window EXCEPT ![p] = [w EXCEPT !.count = @ + 1]]
           /\ tickets' = [tickets EXCEPT ![p] = @ \cup {<<w.from, now, w.count>>}]
    BY <1>11 DEF Reserve
  <2>4. /\ commands' = [commands EXCEPT ![p] = @ + 1]
        /\ outcome' \in [Processes -> {"none", "done", "refused", "failed"}]
        /\ UNCHANGED <<kind, now, store, phase, cmd, key, period, held, seen, granted, uncounted,
                       made, wanted, overlapped, crashed, torn>>
    BY <1>11 DEF Reserve
  <2> HIDE DEF w
  <2>5. w.from \in Times /\ w.count \in Nat
    BY <2>1
  <2>6. [w EXCEPT !.count = @ + 1] \in [open : BOOLEAN, from : Times, count : Nat]
    BY <2>1, HourTaken
  <2> DEFINE T == Times \X Times \X Nat
             new == <<w.from, now, w.count>>
  <2>7. new \in T /\ tickets \in [Processes -> SUBSET T]
    BY <2>5
  <2>a. UNCHANGED tickets \/ tickets' = [tickets EXCEPT ![p] = @ \cup {new}]
    BY <2>3
  <2>8. window' \in [Processes -> [open : BOOLEAN, from : Times, count : Nat]]
    BY <2>1, <2>3, <2>6
  <2> HIDE DEF T, new
  <2>9. tickets' \in [Processes -> SUBSET T]
    BY <2>7, <2>a
  <2> USE DEF T
  <2>10. commands' \in [Processes -> Nat]
    BY <2>4
  <2> QED
    BY <2>4, <2>8, <2>9, <2>10
<1>12. ASSUME NEW p \in Processes, Crash(p) PROVE LocalTypeOK'
  BY <1>12 DEF Crash, End
<1>13. CASE ClockTick
  <2>1. now' \in Times
    BY <1>0, <1>13 DEF ClockTick, Times
  <2> QED
    BY <1>13, <2>1 DEF ClockTick
<1>14. CASE UNCHANGED localVars
  BY <1>14 DEF localVars
<1>15. ASSUME NEW p \in Processes, AskUncounted(p) PROVE LocalTypeOK'
  BY <1>15 DEF AskUncounted
<1>16. ASSUME NEW p \in Processes, Fails(p) PROVE LocalTypeOK'
  BY <1>16 DEF Fails, End
<1> QED
  BY <1>1, <1>2, <1>3, <1>4, <1>5, <1>6, <1>7, <1>8, <1>9, <1>10, <1>11, <1>12, <1>13, <1>14,
     <1>15, <1>16
  DEF LocalNext, Step

LEMMA WorkStep ==
  ASSUME LocalTypeOK, WorkInv, [LocalNext]_localVars
  PROVE  WorkInv'
<1>1. ASSUME NEW p \in Processes, Begin(p) PROVE WorkInv'
  <2>1. PICK c \in CommandsOf(kind) : cmd' = [cmd EXCEPT ![p] = c]
    BY <1>1 DEF Begin
  <2>2. UNCHANGED kind /\ phase' = [phase EXCEPT ![p] = "started"]
    BY <1>1 DEF Begin
  <2> QED
    BY <2>1, <2>2 DEF WorkInv, LocalTypeOK
<1>2. ASSUME UNCHANGED <<kind, cmd>>,
             \A p \in Processes :
               /\ phase'[p] # "idle" => phase[p] # "idle"
               /\ phase'[p] = "writing" => phase[p] = "writing" \/ kind \in Files
      PROVE  WorkInv'
  BY <1>2 DEF WorkInv, Files
<1>3. CASE \E p \in Processes : ~Begin(p) /\ Step(p)
  <2>1. UNCHANGED <<kind, cmd>>
    BY <1>3 DEF Step, LoadQuota, ReadUsage, LoadConfig, OpenSession, SetUpSession, Truncate,
                Write, CommitUsage, Finish, Reserve, AskUncounted, Fails,
                Crash
  <2>2. \A p \in Processes :
               /\ phase'[p] # "idle" => phase[p] # "idle"
               /\ phase'[p] = "writing" => phase[p] = "writing" \/ kind \in Files
    BY <1>3 DEF LocalTypeOK, Step, LoadQuota, ReadUsage, LoadConfig, OpenSession, SetUpSession,
                Truncate, Write, CommitUsage, Finish, Reserve, AskUncounted, Fails,
                Crash, End, Hold
  <2> QED
    BY <1>2, <2>1, <2>2
<1>4. CASE ClockTick \/ UNCHANGED localVars
  BY <1>2, <1>4 DEF ClockTick, localVars
<1> QED
  BY <1>1, <1>3, <1>4 DEF LocalNext

-----------------------------------------------------------------------------
\* Nobody saves more than one count above those granted for its period, and
\* neither does the file hold more (RefusedWhenSpent rests on it).
CountInv ==
  kind \in Counters =>
    /\ \A p \in Processes :
         phase[p] \in {"saving", "writing"} =>
           held[p].period = period[p] /\ held[p].count <= granted[period[p]] + 1
    /\ kind = "quota" /\ state = "whole" => value.count <= granted[value.period]
    /\ kind = "usage" => \A t \in Times : rows[t] <= granted[t]

\* The row of a month is the number of counts granted for it: a transaction
\* that commits has read what it adds one to.
UsageInv ==
  kind = "usage" =>
    /\ \A t \in Times : granted[t] = rows[t] /\ rows[t] <= Cap
    /\ \A p \in Processes :
         phase[p] = "saving" => held[p].count = seen[p] + 1 /\ seen[p] < Cap

\* Commands that never were under way at once come one after the other.
SoleInv ==
  ~overlapped => \A p, q \in Processes : AtWork(p) /\ AtWork(q) => p = q

\* Then days come in order, and the file has the exact count of the last one.
QuotaInv ==
  kind = "quota" /\ ~overlapped =>
    /\ \A t \in Times : granted[t] <= Cap
    /\ \A p \in Processes : AtWork(p) => period[p] <= Period(now)
    /\ state = "absent" => \A t \in Times : granted[t] = 0
    /\ state = "whole" =>
         /\ granted[value.period] = value.count /\ value.period <= Period(now)
         /\ \A t \in Times : t > value.period => granted[t] = 0
         /\ \A p \in Processes : AtWork(p) => value.period <= period[p]
    /\ \A p \in Processes :
         phase[p] \in {"saving", "writing"} =>
           /\ held[p].period = period[p]
           /\ held[p].count = granted[period[p]] + 1 /\ held[p].count <= Cap
           /\ \A t \in Times : t > period[p] => granted[t] = 0

\* What a command that is alone is about to save keeps what the file holds, and
\* only that command finds the file truncated.
KeepInv ==
  ~overlapped /\ ~torn =>
    /\ state = "empty" => \E p \in Processes : phase[p] = "writing"
    /\ kind = "config" =>
         /\ state # "empty" => value.keys = wanted
         /\ state = "absent" => value.keys = {}
         /\ \A p \in Processes :
              phase[p] \in {"saving", "writing"} =>
                held[p].keys = IF cmd[p] = "set" THEN wanted \cup {key[p]}
                                                 ELSE wanted \ {key[p]}
    /\ kind = "session" =>
         /\ state = "whole" => value.data = "real"
         /\ \A p \in Processes :
              phase[p] \in {"saving", "writing"} => held[p].data = "real"

\* A process's hours do not overlap, none has more tickets than the cap, and
\* the first of an hour is drawn when it begins.
TicketInv ==
  \A p \in Processes :
    /\ window[p].open => window[p].count >= 1 /\ window[p].from <= now
    /\ \A k \in tickets[p] :
         /\ window[p].open
         /\ \/ k[1] = window[p].from /\ k[3] < window[p].count
            \/ k[1] + PeriodLength <= window[p].from
         /\ k[1] <= k[2] /\ k[2] < k[1] + PeriodLength
         /\ k[3] < Cap /\ (k[3] = 0 => k[2] = k[1])
    /\ \A j, k \in tickets[p] :
         /\ j[1] = k[1] /\ j[3] = k[3] => j = k
         /\ j[1] < k[1] => j[1] + PeriodLength <= k[1]

LocalInv ==
  /\ LocalTypeOK /\ WorkInv
  /\ CountInv /\ RefusedWhenSpent /\ CountedBeforeMade /\ UsageInv
  /\ SoleInv /\ QuotaInv /\ KeepInv
  /\ TicketInv

LEMMA KindStays == [LocalNext]_localVars => kind' = kind
BY DEF LocalNext, Step, Begin, LoadQuota, ReadUsage, LoadConfig, OpenSession, SetUpSession,
       Truncate, Write, CommitUsage, Finish, Reserve, AskUncounted, Fails,
       Crash, ClockTick, localVars

LEMMA CountForGranted ==
  ASSUME LocalTypeOK, CountInv, kind \in Counters, NEW p \in Processes
  PROVE  CountFor(p) <= granted[period[p]]
<1>1. period[p] \in Times /\ granted[period[p]] \in Nat
  BY DEF LocalTypeOK
<1> QED
  BY <1>1 DEF CountInv, CountFor, Counters

LEMMA LocalCountInit == LocalInit => CountInv /\ RefusedWhenSpent
<1> SUFFICES ASSUME LocalInit PROVE CountInv /\ RefusedWhenSpent
  OBVIOUS
<1>1. kind \in Counters => state = "absent" /\ value = Blank
  BY DEF LocalInit, Counters
<1> QED
  BY <1>1 DEF LocalInit, CountInv, RefusedWhenSpent

LEMMA CountStep ==
  ASSUME LocalTypeOK, WorkInv, CountInv, RefusedWhenSpent, [LocalNext]_localVars
  PROVE  CountInv' /\ RefusedWhenSpent'
<1>k. kind' = kind
  BY KindStays
<1> SUFFICES ASSUME kind \in Counters PROVE CountInv' /\ RefusedWhenSpent'
  BY <1>k DEF CountInv, RefusedWhenSpent
<1>t. LocalTypeOK'
  BY LocalTypeStep
<1>w. kind = "quota" \/ kind = "usage"
  BY DEF Counters
<1>c. \A p \in Processes :
        phase[p] \in {"saving", "writing"} =>
          held[p].period = period[p] /\ held[p].count <= granted[period[p]] + 1
  BY DEF CountInv
<1>d. kind = "quota" /\ state = "whole" => value.count <= granted[value.period]
  BY DEF CountInv
<1>e. kind = "usage" => \A t \in Times : rows[t] <= granted[t]
  BY DEF CountInv
<1>r. \A p \in Processes : outcome[p] = "refused" => granted[period[p]] >= Cap
  BY DEF RefusedWhenSpent
<1>n. Cap \in Nat
  BY LocalStateAssumption DEF LocalStateAssumption
\* A command that loads the count.
<1>1. ASSUME NEW p \in Processes,
             \/ End(p, "failed") /\ UNCHANGED held
             \/ CountFor(p) >= Cap /\ End(p, "refused") /\ UNCHANGED held
             \/ Hold(p, OneMore(p)),
             UNCHANGED <<kind, store, period, granted>>
      PROVE  CountInv' /\ RefusedWhenSpent'
  <2>1. /\ CountFor(p) \in Nat /\ CountFor(p) <= granted[period[p]]
        /\ granted[period[p]] \in Nat
        /\ OneMore(p).period = period[p] /\ OneMore(p).count = CountFor(p) + 1
    BY CountType, CountForGranted, OneMoreIs DEF LocalTypeOK
  <2>2. CountInv'
    <3>1. ASSUME NEW q \in Processes, phase'[q] \in {"saving", "writing"}
          PROVE  held'[q].period = period[q] /\ held'[q].count <= granted[period[q]] + 1
      <4>1. CASE q = p
        BY <1>1, <2>1, <3>1, <4>1 DEF End, Hold, LocalTypeOK
      <4>2. CASE q # p
        <5>1. phase'[q] = phase[q] /\ held'[q] = held[q]
          BY <1>1, <4>2 DEF End, Hold, LocalTypeOK
        <5> QED
          BY <5>1, <3>1, <1>c
      <4> QED
        BY <4>1, <4>2
    <3> QED
      BY <3>1, <1>1, <1>d, <1>e DEF CountInv, store
  <2>3. RefusedWhenSpent'
    <3>1. ASSUME NEW q \in Processes, outcome'[q] = "refused"
          PROVE  granted[period[q]] >= Cap
      <4>1. CASE q = p /\ CountFor(p) >= Cap
        BY <2>1, <4>1, <1>n
      <4>2. CASE outcome'[q] = outcome[q]
        BY <3>1, <4>2, <1>r
      <4> QED
        BY <1>1, <3>1, <4>1, <4>2 DEF End, Hold, LocalTypeOK
    <3> QED
      BY <3>1, <1>1 DEF RefusedWhenSpent
  <2> QED
    BY <2>2, <2>3
<1>2. ASSUME NEW p \in Processes, LoadQuota(p) PROVE CountInv' /\ RefusedWhenSpent'
  BY <1>1, <1>2 DEF LoadQuota, past
<1>3. ASSUME NEW p \in Processes, ReadUsage(p) PROVE CountInv' /\ RefusedWhenSpent'
  BY <1>1, <1>3 DEF ReadUsage, past
\* A count is saved.
<1>4. ASSUME NEW p \in Processes, phase[p] \in {"saving", "writing"}, Grant(p),
             phase' = [phase EXCEPT ![p] = "saved"], UNCHANGED <<kind, period, held, outcome>>,
             \/ kind = "quota" /\ value' = held[p]
             \/ kind = "usage" /\ rows' = [rows EXCEPT ![period[p]] = held[p].count]
      PROVE  CountInv' /\ RefusedWhenSpent'
  <2>1. granted' = [granted EXCEPT ![period[p]] = @ + 1]
    BY <1>4 DEF Grant
  <2>2. \A t \in Times : granted[t] \in Nat /\ granted'[t] \in Nat /\ granted[t] <= granted'[t]
    BY <2>1 DEF LocalTypeOK
  <2>3. /\ period[p] \in Times /\ granted'[period[p]] = granted[period[p]] + 1
        /\ held[p].period = period[p] /\ held[p].count <= granted[period[p]] + 1
    BY <1>4, <1>c, <2>1 DEF LocalTypeOK
  <2>4. ASSUME NEW q \in Processes, phase'[q] \in {"saving", "writing"}
        PROVE  held[q].period = period[q] /\ held[q].count <= granted'[period[q]] + 1
    <3>1. phase[q] \in {"saving", "writing"}
      BY <1>4, <2>4 DEF LocalTypeOK
    <3>2. period[q] \in Times /\ held[q].count \in Nat
      BY DEF LocalTypeOK, Value
    <3> QED
      BY <1>c, <2>2, <3>1, <3>2
  <2>5. kind = "quota" => value'.count <= granted'[value'.period]
    BY <1>4, <2>3
  <2>6. kind = "usage" => \A t \in Times : rows'[t] <= granted'[t]
    <3>1. ASSUME kind = "usage", NEW t \in Times PROVE rows'[t] <= granted'[t]
      <4>1. rows' = [rows EXCEPT ![period[p]] = held[p].count]
        BY <1>4, <3>1
      <4>2. rows \in [Times -> Nat] /\ rows[t] <= granted[t]
        BY <3>1, <1>e DEF LocalTypeOK
      <4>3. CASE t = period[p]
        BY <4>1, <4>2, <4>3, <2>3
      <4>4. CASE t # period[p]
        <5>1. rows'[t] = rows[t] /\ rows[t] \in Nat
          BY <4>1, <4>2, <4>4
        <5> QED
          BY <5>1, <4>2, <2>2
      <4> QED
        BY <4>3, <4>4
    <3> QED
      BY <3>1
  <2>7. \A q \in Processes : outcome[q] = "refused" => granted'[period[q]] >= Cap
    BY <1>r, <2>2, <1>n DEF LocalTypeOK
  <2> QED
    BY <1>4, <2>4, <2>5, <2>6, <2>7 DEF CountInv, RefusedWhenSpent
<1>5. ASSUME NEW p \in Processes, Write(p) PROVE CountInv' /\ RefusedWhenSpent'
  <2>1. kind = "quota"
    BY <1>5, <1>w DEF Write, WorkInv
  <2> QED
    BY <1>4, <1>5, <2>1 DEF Write, Whole
\* Nothing is saved.
<1>6. ASSUME UNCHANGED <<kind, rows, held, granted>>,
             UNCHANGED value \/ state' = "empty",
             UNCHANGED state \/ state' = "empty",
             \A p \in Processes :
               /\ phase'[p] \in {"saving", "writing"} =>
                    phase[p] \in {"saving", "writing"} /\ period'[p] = period[p]
               /\ outcome'[p] = "refused" => outcome[p] = "refused" /\ period'[p] = period[p]
      PROVE  CountInv' /\ RefusedWhenSpent'
  BY <1>6, <1>c, <1>d, <1>e, <1>r DEF CountInv, RefusedWhenSpent
<1>7. ASSUME NEW p \in Processes, CommitUsage(p) PROVE CountInv' /\ RefusedWhenSpent'
  <2>1. CASE CountFor(p) = seen[p]
    BY <1>4, <1>7, <2>1 DEF CommitUsage
  <2>2. CASE CountFor(p) # seen[p]
    <3>1. UNCHANGED <<kind, rows, held, granted, value, state, period>> /\ End(p, "failed")
      BY <1>7, <2>2 DEF CommitUsage, store
    <3> QED
      BY <1>6, <3>1 DEF End, LocalTypeOK
  <2> QED
    BY <2>1, <2>2
<1>8. ASSUME NEW p \in Processes,
             \/ Begin(p) \/ AskUncounted(p) \/ Truncate(p) \/ Finish(p) \/ Fails(p)
             \/ Crash(p)
      PROVE  CountInv' /\ RefusedWhenSpent'
  <2>1. /\ UNCHANGED <<kind, rows, held, granted>>
        /\ UNCHANGED value \/ state' = "empty"
        /\ UNCHANGED state \/ state' = "empty"
    BY <1>8 DEF Begin, AskUncounted, Truncate, Finish, Fails, Crash, store, past
  <2>2. ASSUME NEW q \in Processes
        PROVE  /\ phase'[q] \in {"saving", "writing"} =>
                    phase[q] \in {"saving", "writing"} /\ period'[q] = period[q]
               /\ outcome'[q] = "refused" => outcome[q] = "refused" /\ period'[q] = period[q]
    BY <1>8 DEF Begin, AskUncounted, Truncate, Finish, Fails, Crash, End, LocalTypeOK, past
  <2> QED
    BY <1>6, <2>1, <2>2
<1>9. CASE ClockTick \/ UNCHANGED localVars
  BY <1>6, <1>9 DEF ClockTick, localVars, store, past
<1>10. ASSUME NEW p \in Processes,
              LoadConfig(p) \/ OpenSession(p) \/ SetUpSession(p) \/ Reserve(p)
       PROVE  CountInv' /\ RefusedWhenSpent'
  <2>1. ~OpenSession(p) /\ ~SetUpSession(p)
    BY Commands, <1>w DEF OpenSession, SetUpSession, WorkInv
  <2> QED
    BY <1>10, <1>w, <2>1 DEF LoadConfig, Reserve
<1> QED
  BY <1>2, <1>3, <1>5, <1>7, <1>8, <1>9, <1>10 DEF LocalNext, Step

-----------------------------------------------------------------------------
LEMMA UsageInit == LocalInit => UsageInv
  BY LocalStateAssumption DEF LocalInit, UsageInv, LocalStateAssumption

LEMMA UsageStep ==
  ASSUME LocalTypeOK, WorkInv, UsageInv, [LocalNext]_localVars
  PROVE  UsageInv'
<1>k. kind' = kind
  BY KindStays
<1> SUFFICES ASSUME kind = "usage" PROVE UsageInv'
  BY <1>k DEF UsageInv
<1>g. \A t \in Times : granted[t] = rows[t] /\ rows[t] <= Cap
  BY DEF UsageInv
<1>s. \A p \in Processes : phase[p] = "saving" => held[p].count = seen[p] + 1 /\ seen[p] < Cap
  BY DEF UsageInv
<1>n. Cap \in Nat
  BY LocalStateAssumption DEF LocalStateAssumption
<1>1. ASSUME NEW p \in Processes, ReadUsage(p) PROVE UsageInv'
  <2>1. UNCHANGED <<kind, rows, granted>> /\ seen' = [seen EXCEPT ![p] = CountFor(p)]
    BY <1>1 DEF ReadUsage, store, past
  <2>2. OneMore(p).count = CountFor(p) + 1 /\ CountFor(p) \in Nat
    BY OneMoreIs, CountType
  <2>3. ASSUME NEW q \in Processes, phase'[q] = "saving"
        PROVE  held'[q].count = seen'[q] + 1 /\ seen'[q] < Cap
    <3>1. CASE q = p
      <4>1. Hold(p, OneMore(p)) /\ ~(CountFor(p) >= Cap)
        BY <1>1, <2>3, <3>1 DEF ReadUsage, End, LocalTypeOK
      <4>2. held'[q] = OneMore(p) /\ seen'[q] = CountFor(p)
        BY <3>1, <4>1, <2>1 DEF Hold, LocalTypeOK
      <4> QED
        BY <4>1, <4>2, <2>2, <1>n
    <3>2. CASE q # p
      <4>1. phase'[q] = phase[q] /\ held'[q] = held[q] /\ seen'[q] = seen[q]
        BY <1>1, <3>2, <2>1 DEF ReadUsage, End, Hold, LocalTypeOK
      <4> QED
        BY <4>1, <2>3, <1>s
    <3> QED
      BY <3>1, <3>2
  <2> QED
    BY <2>1, <2>3, <1>g DEF UsageInv
<1>2. ASSUME NEW p \in Processes, CommitUsage(p), CountFor(p) = seen[p] PROVE UsageInv'
  <2>1. /\ rows' = [rows EXCEPT ![period[p]] = held[p].count]
        /\ granted' = [granted EXCEPT ![period[p]] = @ + 1]
        /\ phase' = [phase EXCEPT ![p] = "saved"] /\ UNCHANGED <<kind, held, seen>>
    BY <1>2 DEF CommitUsage, Grant, Counters
  <2>2. /\ period[p] \in Times /\ rows[period[p]] = seen[p]
        /\ held[p].count = seen[p] + 1 /\ seen[p] < Cap /\ seen[p] \in Nat
    BY <1>2, <1>s DEF CommitUsage, CountFor, LocalTypeOK
  <2>3. ASSUME NEW t \in Times PROVE granted'[t] = rows'[t] /\ rows'[t] <= Cap
    <3>1. CASE t = period[p]
      <4>1. granted'[t] = granted[t] + 1 /\ rows'[t] = held[p].count
        BY <2>1, <3>1 DEF LocalTypeOK
      <4> QED
        BY <4>1, <2>2, <3>1, <1>g, <1>n
    <3>2. CASE t # period[p]
      <4>1. granted'[t] = granted[t] /\ rows'[t] = rows[t]
        BY <2>1, <3>2 DEF LocalTypeOK
      <4> QED
        BY <4>1, <1>g
    <3> QED
      BY <3>1, <3>2
  <2>4. \A q \in Processes : phase'[q] = "saving" => phase[q] = "saving"
    BY <2>1 DEF LocalTypeOK
  <2> QED
    BY <2>1, <2>3, <2>4, <1>s DEF UsageInv
<1>3. ASSUME UNCHANGED <<kind, rows, granted, held, seen>>,
             \A p \in Processes : phase'[p] = "saving" => phase[p] = "saving"
      PROVE  UsageInv'
  BY <1>3, <1>g, <1>s DEF UsageInv
<1>4. ASSUME NEW p \in Processes, CommitUsage(p), CountFor(p) # seen[p] PROVE UsageInv'
  <2>1. UNCHANGED <<kind, rows, granted, held, seen>> /\ End(p, "failed")
    BY <1>4 DEF CommitUsage, store
  <2> QED
    BY <1>3, <2>1 DEF End, LocalTypeOK
<1>5. ASSUME NEW p \in Processes,
             \/ Begin(p) \/ AskUncounted(p) \/ Finish(p) \/ Reserve(p) \/ Fails(p) \/ Crash(p)
      PROVE  UsageInv'
  <2>1. UNCHANGED <<kind, rows, granted, held, seen>>
    BY <1>5 DEF Begin, AskUncounted, Finish, Reserve, Fails, Crash, store, past
  <2>2. \A q \in Processes : phase'[q] = "saving" => phase[q] = "saving"
    BY <1>5 DEF Begin, AskUncounted, Finish, Reserve, Fails, Crash, End, LocalTypeOK
  <2> QED
    BY <1>3, <2>1, <2>2
<1>6. CASE ClockTick \/ UNCHANGED localVars
  BY <1>3, <1>6 DEF ClockTick, localVars, store, past
<1>7. ASSUME NEW p \in Processes,
             \/ LoadQuota(p) \/ LoadConfig(p) \/ OpenSession(p) \/ SetUpSession(p)
             \/ Truncate(p) \/ Write(p)
      PROVE  FALSE
  <2>1. ~OpenSession(p) /\ ~SetUpSession(p)
    BY Commands DEF OpenSession, SetUpSession, WorkInv, Counters
  <2> QED
    BY <1>7, <2>1 DEF LoadQuota, LoadConfig, Truncate, Write, Files, WorkInv
<1> QED
  BY <1>1, <1>2, <1>4, <1>5, <1>6, <1>7 DEF LocalNext, Step

-----------------------------------------------------------------------------
\* The processes whose count for a period is saved and whose lookup is not made yet.
Saved(t) == {p \in Processes : phase[p] = "saved" /\ period[p] = t}

LEMMA SavedFinite ==
  \A t : IsFiniteSet(Saved(t)) /\ Cardinality(Saved(t)) \in Nat
BY LocalStateAssumption, FS_Subset, FS_CardinalityType DEF Saved, LocalStateAssumption

LEMMA CountedInit == LocalInit => CountedBeforeMade
<1> SUFFICES ASSUME LocalInit PROVE CountedBeforeMade
  OBVIOUS
<1>1. ASSUME NEW t \in Times
      PROVE  Cardinality({p \in Processes : phase[p] = "saved" /\ period[p] = t}) = 0
  <2>1. {p \in Processes : phase[p] = "saved" /\ period[p] = t} = {}
    BY DEF LocalInit
  <2> QED
    BY <2>1, FS_EmptySet
<1>2. \A t \in Times : granted[t] = 0 /\ uncounted[t] = 0 /\ made[t] = 0
  BY DEF LocalInit
<1> QED
  BY <1>1, <1>2 DEF CountedBeforeMade

LEMMA CountedStep ==
  ASSUME LocalTypeOK, WorkInv, CountedBeforeMade, [LocalNext]_localVars
  PROVE  CountedBeforeMade'
<1>k. kind' = kind
  BY KindStays
<1> SUFFICES ASSUME kind \in Counters PROVE CountedBeforeMade'
  BY <1>k DEF CountedBeforeMade
<1> DEFINE n(t) == Cardinality(Saved(t))
<1>c. \A t \in Times :
        /\ granted[t] + uncounted[t] >= made[t] + n(t)
        /\ ~crashed => granted[t] + uncounted[t] = made[t] + n(t)
  BY DEF CountedBeforeMade, Saved
<1>t. /\ \A t \in Times : granted[t] \in Nat /\ uncounted[t] \in Nat /\ made[t] \in Nat
      /\ \A p \in Processes : period[p] \in Times
  BY DEF LocalTypeOK
<1>f. \A t : n(t) \in Nat /\ IsFiniteSet(Saved(t))
  BY SavedFinite
<1>f1. \A t : n(t)' \in Nat
  BY LocalStateAssumption, FS_Subset, FS_CardinalityType DEF Saved, LocalStateAssumption
<1>q. SUFFICES ASSUME NEW t \in Times
      PROVE  /\ granted'[t] + uncounted'[t] >= made'[t] + n(t)'
             /\ ~crashed' => granted'[t] + uncounted'[t] = made'[t] + n(t)'
  BY DEF CountedBeforeMade, Saved
<1> DEFINE Goal == /\ granted'[t] + uncounted'[t] >= made'[t] + n(t)'
                   /\ ~crashed' => granted'[t] + uncounted'[t] = made'[t] + n(t)'
\* A count is saved.
<1>1. ASSUME NEW p \in Processes, phase[p] # "saved", Grant(p),
             phase' = [phase EXCEPT ![p] = "saved"], UNCHANGED <<period, uncounted, made, crashed>>
      PROVE  Goal
  <2>1. granted' = [granted EXCEPT ![period[p]] = @ + 1]
    BY <1>1 DEF Grant
  <2>2. CASE t = period[p]
    <3>1. Saved(t)' = Saved(t) \cup {p} /\ p \notin Saved(t)
      BY <1>1, <2>2 DEF Saved, LocalTypeOK
    <3>2. n(t)' = n(t) + 1
      BY <3>1, <1>f, FS_AddElement
    <3>3. granted'[t] = granted[t] + 1 /\ uncounted'[t] = uncounted[t] /\ made'[t] = made[t]
      BY <1>1, <2>1, <2>2 DEF LocalTypeOK
    <3>4. /\ granted[t] + uncounted[t] >= made[t] + n(t)
          /\ ~crashed' => granted[t] + uncounted[t] = made[t] + n(t)
          /\ granted[t] \in Nat /\ uncounted[t] \in Nat /\ made[t] \in Nat /\ n(t) \in Nat
      BY <1>1, <1>c, <1>t, <1>f
    <3> HIDE DEF n
    <3> QED
      BY <3>2, <3>3, <3>4
  <2>3. CASE t # period[p]
    <3>1. Saved(t)' = Saved(t)
      BY <1>1, <2>3 DEF Saved, LocalTypeOK
    <3>2. n(t)' = n(t) /\ granted'[t] = granted[t]
      BY <2>1, <2>3, <3>1 DEF LocalTypeOK
    <3> QED
      BY <3>2, <1>1, <1>c
  <2> QED
    BY <2>2, <2>3
\* Nothing changes that is counted.
<1>2. ASSUME UNCHANGED <<granted, uncounted, made, crashed>>,
             \A q \in Processes : phase'[q] = "saved" <=> phase[q] = "saved",
             \A q \in Processes : phase[q] = "saved" => period'[q] = period[q]
      PROVE  Goal
  <2>1. Saved(t)' = Saved(t)
    BY <1>2 DEF Saved
  <2>2. n(t)' = n(t)
    BY <2>1
  <2> QED
    BY <2>2, <1>2, <1>c
<1>3. ASSUME NEW p \in Processes, Write(p) PROVE Goal
  BY <1>1, <1>3 DEF Write
<1>4. ASSUME NEW p \in Processes, CommitUsage(p) PROVE Goal
  <2>1. CASE CountFor(p) = seen[p]
    BY <1>1, <1>4, <2>1 DEF CommitUsage
  <2>2. CASE CountFor(p) # seen[p]
    <3>1. End(p, "failed") /\ UNCHANGED <<granted, uncounted, made, crashed, period>>
      BY <1>4, <2>2 DEF CommitUsage
    <3> QED
      BY <1>2, <1>4, <3>1 DEF End, LocalTypeOK, CommitUsage
  <2> QED
    BY <2>1, <2>2
<1>5. ASSUME NEW p \in Processes, Finish(p) PROVE Goal
  <2>1. /\ made' = [made EXCEPT ![period[p]] = @ + 1] /\ phase' = [phase EXCEPT ![p] = "idle"]
        /\ UNCHANGED <<period, granted, uncounted, crashed>> /\ phase[p] = "saved"
    BY <1>5 DEF Finish, End
  <2>2. CASE t = period[p]
    <3>1. Saved(t)' = Saved(t) \ {p} /\ p \in Saved(t)
      BY <2>1, <2>2 DEF Saved, LocalTypeOK
    <3>2. n(t)' = n(t) - 1
      BY <3>1, <1>f, FS_RemoveElement
    <3>3. made'[t] = made[t] + 1 /\ granted'[t] = granted[t] /\ uncounted'[t] = uncounted[t]
      BY <2>1, <2>2 DEF LocalTypeOK
    <3>4. /\ granted[t] + uncounted[t] >= made[t] + n(t)
          /\ ~crashed' => granted[t] + uncounted[t] = made[t] + n(t)
          /\ granted[t] \in Nat /\ uncounted[t] \in Nat /\ made[t] \in Nat /\ n(t) \in Nat
      BY <2>1, <1>c, <1>t, <1>f
    <3> HIDE DEF n
    <3> QED
      BY <3>2, <3>3, <3>4
  <2>3. CASE t # period[p]
    <3>1. Saved(t)' = Saved(t)
      BY <2>1, <2>3 DEF Saved, LocalTypeOK
    <3>2. n(t)' = n(t) /\ made'[t] = made[t]
      BY <2>1, <2>3, <3>1 DEF LocalTypeOK
    <3> QED
      BY <3>2, <2>1, <1>c
  <2> QED
    BY <2>2, <2>3
<1>6. ASSUME NEW p \in Processes, Crash(p) PROVE Goal
  <2>1. Saved(t)' \subseteq Saved(t)
    BY <1>6 DEF Crash, End, Saved, LocalTypeOK
  <2>2. n(t)' <= n(t)
    BY <2>1, <1>f, FS_Subset
  <2>3. crashed' /\ UNCHANGED <<granted, uncounted, made>>
    BY <1>6 DEF Crash
  <2> HIDE DEF n
  <2> QED
    BY <2>2, <2>3, <1>c, <1>t, <1>f, <1>f1
<1>7. ASSUME NEW p \in Processes,
             \/ Begin(p) \/ LoadQuota(p) \/ ReadUsage(p) \/ LoadConfig(p) \/ OpenSession(p)
             \/ SetUpSession(p) \/ Truncate(p) \/ Reserve(p) \/ Fails(p)
      PROVE  Goal
  <2>1. UNCHANGED <<granted, uncounted, made, crashed>>
    BY <1>7 DEF Begin, LoadQuota, ReadUsage, LoadConfig, OpenSession, SetUpSession, Truncate,
                Reserve, Fails, End, past
  <2>2. \A q \in Processes : phase'[q] = "saved" <=> phase[q] = "saved"
    BY <1>7 DEF Begin, LoadQuota, ReadUsage, LoadConfig, OpenSession, SetUpSession, Truncate,
                Reserve, Fails, AtWork, End, Hold, LocalTypeOK
  <2>3. \A q \in Processes : phase[q] = "saved" => period'[q] = period[q]
    BY <1>7 DEF Begin, LoadQuota, ReadUsage, LoadConfig, OpenSession, SetUpSession, Truncate,
                Reserve, Fails, LocalTypeOK
  <2> QED
    BY <1>2, <2>1, <2>2, <2>3
<1>8. CASE ClockTick \/ UNCHANGED localVars
  BY <1>2, <1>8 DEF ClockTick, localVars, past
\* A lookup is let through without a count.
<1>9. ASSUME NEW p \in Processes, AskUncounted(p) PROVE Goal
  <2>1. /\ uncounted' = [uncounted EXCEPT ![period[p]] = @ + 1]
        /\ phase' = [phase EXCEPT ![p] = "saved"] /\ phase[p] = "started"
        /\ UNCHANGED <<period, granted, made, crashed>>
    BY <1>9 DEF AskUncounted
  <2>2. CASE t = period[p]
    <3>1. Saved(t)' = Saved(t) \cup {p} /\ p \notin Saved(t)
      BY <2>1, <2>2 DEF Saved, LocalTypeOK
    <3>2. n(t)' = n(t) + 1
      BY <3>1, <1>f, FS_AddElement
    <3>3. uncounted'[t] = uncounted[t] + 1 /\ granted'[t] = granted[t] /\ made'[t] = made[t]
      BY <2>1, <2>2 DEF LocalTypeOK
    <3>4. /\ granted[t] + uncounted[t] >= made[t] + n(t)
          /\ ~crashed' => granted[t] + uncounted[t] = made[t] + n(t)
          /\ granted[t] \in Nat /\ uncounted[t] \in Nat /\ made[t] \in Nat /\ n(t) \in Nat
      BY <2>1, <1>c, <1>t, <1>f
    <3> HIDE DEF n
    <3> QED
      BY <3>2, <3>3, <3>4
  <2>3. CASE t # period[p]
    <3>1. Saved(t)' = Saved(t)
      BY <2>1, <2>3 DEF Saved, LocalTypeOK
    <3>2. n(t)' = n(t) /\ uncounted'[t] = uncounted[t]
      BY <2>1, <2>3, <3>1 DEF LocalTypeOK
    <3> QED
      BY <3>2, <2>1, <1>c
  <2> QED
    BY <2>2, <2>3
<1> QED
  BY <1>3, <1>4, <1>5, <1>6, <1>7, <1>8, <1>9 DEF LocalNext, Step

-----------------------------------------------------------------------------
LEMMA SoleInit == LocalInit => SoleInv
  BY DEF LocalInit, SoleInv, AtWork

LEMMA SoleStep ==
  ASSUME LocalTypeOK, SoleInv, [LocalNext]_localVars
  PROVE  SoleInv'
<1>1. ASSUME NEW p \in Processes, Begin(p) PROVE SoleInv'
  <2>1. phase' = [phase EXCEPT ![p] = "started"]
    BY <1>1 DEF Begin
  <2>2. ASSUME ~overlapped' PROVE \A q \in Processes : AtWork(q)' => q = p
    <3>1. \A q \in Processes : ~AtWork(q)
      BY <1>1, <2>2 DEF Begin
    <3> QED
      BY <2>1, <3>1 DEF AtWork, LocalTypeOK
  <2> QED
    BY <2>2 DEF SoleInv
<1>2. ASSUME UNCHANGED overlapped, \A q \in Processes : AtWork(q)' => AtWork(q) PROVE SoleInv'
  BY <1>2 DEF SoleInv
<1>3. ASSUME NEW p \in Processes, Step(p), ~Begin(p) PROVE SoleInv'
  <2>1. UNCHANGED overlapped
    BY <1>3 DEF Step, LoadQuota, ReadUsage, LoadConfig, OpenSession, SetUpSession, Truncate,
                Write, CommitUsage, Finish, Reserve, AskUncounted, Fails,
                Crash, past
  <2>2. \A q \in Processes : AtWork(q)' => AtWork(q)
    BY <1>3 DEF Step, LoadQuota, ReadUsage, LoadConfig, OpenSession, SetUpSession, Truncate,
                Write, CommitUsage, Finish, Reserve, AskUncounted, Fails,
                Crash, End, Hold, AtWork, LocalTypeOK
  <2> QED
    BY <1>2, <2>1, <2>2
<1>4. CASE ClockTick \/ UNCHANGED localVars
  BY <1>2, <1>4 DEF ClockTick, localVars, past, AtWork
<1> QED
  BY <1>1, <1>3, <1>4 DEF LocalNext

-----------------------------------------------------------------------------
LEMMA QuotaInit == LocalInit => QuotaInv
<1> SUFFICES ASSUME LocalInit, kind = "quota" PROVE QuotaInv
  BY DEF QuotaInv
<1>1. state = "absent" /\ Cap \in Nat
  BY LocalStateAssumption DEF LocalInit, LocalStateAssumption
<1> QED
  BY <1>1 DEF LocalInit, QuotaInv, AtWork

LEMMA QuotaStep ==
  ASSUME LocalTypeOK, WorkInv, SoleInv, QuotaInv, [LocalNext]_localVars
  PROVE  QuotaInv'
<1>k. kind' = kind /\ (overlapped => overlapped')
  <2>1. overlapped => overlapped'
    BY DEF LocalNext, Step, Begin, LoadQuota, ReadUsage, LoadConfig, OpenSession, SetUpSession,
       Truncate, Write, CommitUsage, Finish, Reserve, AskUncounted, Fails,
       Crash, ClockTick, localVars, past
  <2> QED
    BY <2>1, KindStays
<1> SUFFICES ASSUME kind = "quota", ~overlapped, ~overlapped' PROVE QuotaInv'
  BY <1>k DEF QuotaInv
<1>s. \A p, q \in Processes : AtWork(p) /\ AtWork(q) => p = q
  BY DEF SoleInv
<1>s1. \A p, q \in Processes : AtWork(p)' /\ AtWork(q)' => p = q
  BY SoleStep DEF SoleInv
<1>a. \A t \in Times : granted[t] <= Cap
  BY DEF QuotaInv
<1>b. \A p \in Processes : AtWork(p) => period[p] <= Period(now)
  BY DEF QuotaInv
<1>c. state = "absent" => \A t \in Times : granted[t] = 0
  BY DEF QuotaInv
<1>d. state = "whole" =>
        /\ granted[value.period] = value.count /\ value.period <= Period(now)
        /\ \A t \in Times : t > value.period => granted[t] = 0
        /\ \A p \in Processes : AtWork(p) => value.period <= period[p]
  BY DEF QuotaInv
<1>e. \A p \in Processes :
        phase[p] \in {"saving", "writing"} =>
          /\ held[p].period = period[p]
          /\ held[p].count = granted[period[p]] + 1 /\ held[p].count <= Cap
          /\ \A t \in Times : t > period[p] => granted[t] = 0
  BY DEF QuotaInv
<1>t. /\ \A t \in Times : granted[t] \in Nat
      /\ \A p \in Processes : period[p] \in Times
      /\ value.period \in Times /\ value.count \in Nat /\ now \in Nat /\ Cap \in Nat \ {0}
      /\ \A t \in Times : t \in Nat
  <2>1. \A t \in Times : t \in Nat
    BY LocalStateAssumption DEF Times, LocalStateAssumption
  <2>2. /\ \A t \in Times : granted[t] \in Nat
        /\ \A p \in Processes : period[p] \in Times
        /\ value.period \in Times /\ value.count \in Nat /\ now \in Times
    BY DEF LocalTypeOK, Value
  <2>3. Cap \in Nat \ {0}
    BY LocalStateAssumption DEF LocalStateAssumption
  <2> QED
    BY <2>1, <2>2, <2>3
\* Only phases change, and nobody comes to work.
<1>1. ASSUME UNCHANGED <<kind, state, value, period, held, granted>>,
             Period(now) <= Period(now)', Period(now) \in Nat, Period(now)' \in Nat,
             \A p \in Processes :
               /\ AtWork(p)' => AtWork(p)
               /\ phase'[p] \in {"saving", "writing"} => phase[p] \in {"saving", "writing"}
      PROVE  QuotaInv'
  <2>1. \A p \in Processes : AtWork(p)' => period[p] <= Period(now)'
    BY <1>1, <1>b, <1>t
  <2>2. state = "whole" => value.period <= Period(now)'
    BY <1>1, <1>d, <1>t
  <2> QED
    BY <1>1, <1>a, <1>c, <1>d, <1>e, <2>1, <2>2 DEF QuotaInv
<1>p. Period(now) \in Nat /\ Period(now) <= Period(now + 1) /\ Period(now + 1) \in Nat
  <2>1. now + 1 \in Nat
    BY <1>t
  <2> QED
    BY <1>t, <2>1, PeriodOf
<1>2. ASSUME NEW p \in Processes, Begin(p) PROVE QuotaInv'
  <2>1. /\ UNCHANGED <<kind, now, state, value, held, granted>>
        /\ period' = [period EXCEPT ![p] = Period(now)]
        /\ phase' = [phase EXCEPT ![p] = "started"]
    BY <1>2 DEF Begin, store
  <2>2. \A q \in Processes : AtWork(q)' => q = p
    BY <2>1, <1>s1 DEF AtWork, LocalTypeOK
  <2>3. /\ \A q \in Processes : AtWork(q)' => period'[q] = Period(now)
        /\ Period(now)' = Period(now)
    BY <2>1, <2>2 DEF LocalTypeOK
  <2>4. \A q \in Processes : phase'[q] \notin {"saving", "writing"}
    BY <2>1, <2>2 DEF AtWork, LocalTypeOK
  <2>5. \A q \in Processes : AtWork(q)' => period'[q] <= Period(now)'
    BY <2>3, <1>p
  <2>6. state = "whole" => \A q \in Processes : AtWork(q)' => value.period <= period'[q]
    BY <2>3, <1>d
  <2> QED
    BY <2>1, <2>3, <2>4, <2>5, <2>6, <1>a, <1>c, <1>d DEF QuotaInv
<1>3. ASSUME NEW p \in Processes, LoadQuota(p) PROVE QuotaInv'
  <2>1. UNCHANGED <<kind, now, state, value, period, granted>> /\ Period(now)' = Period(now)
    BY <1>3 DEF LoadQuota, store, past
  <2>2. CASE (End(p, "failed") \/ End(p, "refused")) /\ UNCHANGED held
    <3>1. \A q \in Processes :
               /\ AtWork(q)' => AtWork(q)
               /\ phase'[q] \in {"saving", "writing"} => phase[q] \in {"saving", "writing"}
      BY <2>2 DEF End, AtWork, LocalTypeOK
    <3> QED
      BY <1>1, <1>p, <2>1, <2>2, <3>1
  <2>3. CASE state # "empty" /\ ~(CountFor(p) >= Cap) /\ Hold(p, OneMore(p))
    <3>1. /\ phase' = [phase EXCEPT ![p] = "saving"]
          /\ held' = [held EXCEPT ![p] = OneMore(p)]
      BY <2>3 DEF Hold
    <3>2. AtWork(p) /\ AtWork(p)'
      BY <1>3, <3>1 DEF LoadQuota, AtWork, LocalTypeOK
    <3>3. \A q \in Processes : AtWork(q)' => q = p
      BY <3>2, <1>s1
    <3>4. state = "absent" \/ state = "whole"
      BY <2>3 DEF LocalTypeOK
    <3>5. CountFor(p) = granted[period[p]]
      BY <3>2, <3>4, <1>c, <1>d, <1>t DEF CountFor
    <3>6. \A t \in Times : t > period[p] => granted[t] = 0
      <4>1. CASE state = "absent"
        BY <4>1, <1>c
      <4>2. CASE state = "whole"
        <5>1. ASSUME NEW t \in Times, t > period[p] PROVE t > value.period
          BY <5>1, <4>2, <3>2, <1>d, <1>t
        <5> QED
          BY <5>1, <4>2, <1>d
      <4> QED
        BY <3>4, <4>1, <4>2
    <3>7. OneMore(p).period = period[p] /\ OneMore(p).count = CountFor(p) + 1
      BY OneMoreIs
    <3>8. held'[p] = OneMore(p)
      BY <3>1 DEF LocalTypeOK
    <3>9. OneMore(p).count <= Cap /\ OneMore(p).count = granted[period[p]] + 1
      BY <3>5, <3>7, <2>3, <1>t
    <3>10. \A q \in Processes : phase'[q] \in {"saving", "writing"} => q = p
      BY <3>3 DEF AtWork
    <3> QED
      BY <2>1, <3>2, <3>3, <3>6, <3>7, <3>8, <3>9, <3>10, <1>a, <1>b, <1>c, <1>d
      DEF QuotaInv
  <2> QED
    BY <1>3, <2>2, <2>3 DEF LoadQuota
<1>4. ASSUME NEW p \in Processes, Truncate(p) PROVE QuotaInv'
  <2>1. /\ UNCHANGED <<kind, now, period, held, granted>> /\ state' = "empty"
        /\ Period(now)' = Period(now)
    BY <1>4 DEF Truncate, past
  <2>2. \A q \in Processes :
               /\ AtWork(q)' => AtWork(q)
               /\ phase'[q] \in {"saving", "writing"} => phase[q] \in {"saving", "writing"}
    BY <1>4 DEF Truncate, AtWork, LocalTypeOK
  <2> QED
    BY <2>1, <2>2, <1>a, <1>b, <1>e DEF QuotaInv
<1>5. ASSUME NEW p \in Processes, Write(p) PROVE QuotaInv'
  <2>1. /\ state' = "whole" /\ value' = held[p] /\ phase' = [phase EXCEPT ![p] = "saved"]
        /\ granted' = [granted EXCEPT ![period[p]] = @ + 1]
        /\ UNCHANGED <<kind, now, period, held>> /\ Period(now)' = Period(now)
    BY <1>5 DEF Write, Whole, Grant, Counters
  <2>2. phase[p] = "writing" /\ AtWork(p)
    BY <1>5 DEF Write, AtWork
  <2>3. \A q \in Processes : ~AtWork(q)' /\ phase'[q] \notin {"saving", "writing"}
    <3>1. ASSUME NEW q \in Processes PROVE ~AtWork(q)'
      <4>1. CASE q = p
        BY <2>1, <4>1 DEF AtWork, LocalTypeOK
      <4>2. CASE q # p
        BY <2>1, <2>2, <4>2, <1>s DEF AtWork, LocalTypeOK
      <4> QED
        BY <4>1, <4>2
    <3> QED
      BY <3>1 DEF AtWork
  <2>4. /\ held[p].period = period[p]
        /\ held[p].count = granted[period[p]] + 1 /\ held[p].count <= Cap
        /\ \A t \in Times : t > period[p] => granted[t] = 0
    BY <2>2, <1>e
  <2>5. /\ granted'[period[p]] = granted[period[p]] + 1
        /\ \A t \in Times : t # period[p] => granted'[t] = granted[t]
    BY <2>1, <1>t DEF LocalTypeOK
  <2>6. \A t \in Times : granted'[t] <= Cap
    BY <2>4, <2>5, <1>a
  <2>7. \A t \in Times : t > period[p] => granted'[t] = 0
    BY <2>4, <2>5, <1>t
  <2>8. period[p] <= Period(now)
    BY <2>2, <1>b
  <2> QED
    BY <2>1, <2>3, <2>4, <2>5, <2>6, <2>7, <2>8 DEF QuotaInv
<1>6. ASSUME NEW p \in Processes, AskUncounted(p) \/ Finish(p) \/ Fails(p) \/ Crash(p)
      PROVE  QuotaInv'
  <2>1. /\ UNCHANGED <<kind, now, state, value, period, held, granted>>
        /\ Period(now)' = Period(now)
    BY <1>6 DEF AskUncounted, Finish, Fails, Crash, store
  <2>2. \A q \in Processes :
               /\ AtWork(q)' => AtWork(q)
               /\ phase'[q] \in {"saving", "writing"} => phase[q] \in {"saving", "writing"}
    BY <1>6 DEF AskUncounted, Finish, Fails, Crash, End, AtWork, LocalTypeOK
  <2> QED
    BY <1>1, <1>p, <2>1, <2>2
<1>7. CASE ClockTick \/ UNCHANGED localVars
  <2>1. /\ UNCHANGED <<kind, state, value, period, held, granted, phase>>
        /\ now' = now + 1 \/ now' = now
    BY <1>7 DEF ClockTick, localVars, store, past
  <2>2. Period(now)' = Period(now + 1) \/ Period(now)' = Period(now)
    BY <2>1 DEF Period
  <2> QED
    BY <1>1, <1>p, <2>1, <2>2 DEF AtWork
<1>8. ASSUME NEW p \in Processes,
             \/ ReadUsage(p) \/ LoadConfig(p) \/ OpenSession(p) \/ SetUpSession(p)
             \/ CommitUsage(p) \/ Reserve(p)
      PROVE  FALSE
  <2>1. ~OpenSession(p) /\ ~SetUpSession(p)
    BY Commands DEF OpenSession, SetUpSession, WorkInv, Counters
  <2> QED
    BY <1>8, <2>1 DEF ReadUsage, LoadConfig, CommitUsage, Reserve
<1> QED
  BY <1>2, <1>3, <1>4, <1>5, <1>6, <1>7, <1>8 DEF LocalNext, Step

-----------------------------------------------------------------------------
LEMMA KeepInit == LocalInit => KeepInv
<1> SUFFICES ASSUME LocalInit PROVE KeepInv
  OBVIOUS
<1>1. state # "empty" /\ \A p \in Processes : phase[p] = "idle"
  BY DEF LocalInit
<1>2. kind = "config" => value.keys = wanted /\ (state = "absent" => value.keys = {})
  BY DEF LocalInit, Blank
<1>3. kind = "session" /\ state = "whole" => value.data = "real"
  <2>1. ASSUME kind = "session", state = "whole",
               NEW form \in {"plain", "sealed"},
               value = [Blank EXCEPT !.form = form, !.data = "real"]
        PROVE  value.data = "real"
    BY <2>1 DEF Blank
  <2> QED
    BY <2>1 DEF LocalInit
<1> QED
  BY <1>1, <1>2, <1>3 DEF KeepInv

LEMMA KeepStep ==
  ASSUME LocalTypeOK, WorkInv, SoleInv, KeepInv, [LocalNext]_localVars
  PROVE  KeepInv'
<1>k. (overlapped => overlapped') /\ (torn => torn')
  <2>1. overlapped => overlapped'
    BY DEF LocalNext, Step, Begin, LoadQuota, ReadUsage, LoadConfig, OpenSession, SetUpSession,
       Truncate, Write, CommitUsage, Finish, Reserve, AskUncounted, Fails,
       Crash, ClockTick, localVars, past
  <2>2. torn => torn'
    BY DEF LocalNext, Step, Begin, LoadQuota, ReadUsage, LoadConfig, OpenSession, SetUpSession,
       Truncate, Write, CommitUsage, Finish, Reserve, AskUncounted, Fails,
       Crash, ClockTick, localVars, past
  <2> QED
    BY <2>1, <2>2
<1>ki. kind' = kind
  BY KindStays
<1> SUFFICES ASSUME ~overlapped, ~torn, ~overlapped', ~torn' PROVE KeepInv'
  BY <1>k DEF KeepInv
<1>s. \A p, q \in Processes : AtWork(p) /\ AtWork(q) => p = q
  BY DEF SoleInv
<1>s1. \A p, q \in Processes : AtWork(p)' /\ AtWork(q)' => p = q
  BY SoleStep DEF SoleInv
<1>a. state = "empty" => \E p \in Processes : phase[p] = "writing"
  BY DEF KeepInv
<1>b. kind = "config" =>
        /\ state # "empty" => value.keys = wanted
        /\ state = "absent" => value.keys = {}
        /\ \A p \in Processes :
             phase[p] \in {"saving", "writing"} =>
               held[p].keys = IF cmd[p] = "set" THEN wanted \cup {key[p]}
                                                ELSE wanted \ {key[p]}
  BY DEF KeepInv
<1>c. kind = "session" =>
        /\ state = "whole" => value.data = "real"
        /\ \A p \in Processes :
             phase[p] \in {"saving", "writing"} => held[p].data = "real"
  BY DEF KeepInv
\* The writer of a truncated file is the only one at work.
<1>e. ASSUME NEW p \in Processes, AtWork(p), phase[p] # "writing" PROVE state # "empty"
  BY <1>e, <1>a, <1>s DEF AtWork
\* A command that ends, or one that has not read the file yet.
<1>1. ASSUME NEW p \in Processes, phase[p] # "writing" \/ state # "empty",
             UNCHANGED <<state, value, wanted>>,
             \A q \in Processes :
               /\ phase'[q] \in {"saving", "writing"} =>
                    /\ phase[q] \in {"saving", "writing"}
                    /\ held'[q] = held[q] /\ cmd'[q] = cmd[q] /\ key'[q] = key[q]
               /\ q # p => phase'[q] = phase[q]
      PROVE  KeepInv'
  <2>1. state' = "empty" => \E q \in Processes : phase'[q] = "writing"
    BY <1>1, <1>a
  <2> QED
    BY <1>1, <1>b, <1>c, <2>1, <1>ki DEF KeepInv
\* A command holds what it is about to save.
<1>2. ASSUME NEW p \in Processes, NEW v, Hold(p, v), phase[p] = "started",
             UNCHANGED <<state, value, wanted, cmd, key>>,
             kind = "config" => v.keys = IF cmd[p] = "set" THEN wanted \cup {key[p]}
                                                           ELSE wanted \ {key[p]},
             kind = "session" => v.data = "real"
      PROVE  KeepInv'
  <2>1. state # "empty"
    BY <1>2, <1>e DEF AtWork
  <2>2. /\ held'[p] = v
        /\ \A q \in Processes : q # p => phase'[q] = phase[q] /\ held'[q] = held[q]
    BY <1>2 DEF Hold, LocalTypeOK
  <2>3. kind = "config" =>
        /\ state # "empty" => value.keys = wanted
        /\ state = "absent" => value.keys = {}
        /\ \A q \in Processes :
             phase'[q] \in {"saving", "writing"} =>
               held'[q].keys = IF cmd[q] = "set" THEN wanted \cup {key[q]}
                                                ELSE wanted \ {key[q]}
    BY <1>2, <2>2, <1>b
  <2>4. kind = "session" =>
        /\ state = "whole" => value.data = "real"
        /\ \A q \in Processes :
             phase'[q] \in {"saving", "writing"} => held'[q].data = "real"
    BY <1>2, <2>2, <1>c
  <2> QED
    BY <1>2, <2>1, <2>3, <2>4, <1>ki DEF KeepInv
<1>3. ASSUME NEW p \in Processes, Begin(p) PROVE KeepInv'
  <2>1. /\ UNCHANGED <<kind, state, value, wanted, held>> /\ phase[p] = "idle"
        /\ phase' = [phase EXCEPT ![p] = "started"]
        /\ \A q \in Processes : q # p => cmd'[q] = cmd[q] /\ key'[q] = key[q]
    BY <1>3 DEF Begin, store, LocalTypeOK
  <2>2. \A q \in Processes :
               /\ phase'[q] \in {"saving", "writing"} =>
                    phase[q] \in {"saving", "writing"} /\ q # p
               /\ q # p => phase'[q] = phase[q]
    BY <2>1 DEF LocalTypeOK
  <2> QED
    BY <1>1, <2>1, <2>2
<1>4. ASSUME NEW p \in Processes, LoadQuota(p) PROVE KeepInv'
  <2>1. /\ UNCHANGED <<state, value, wanted, cmd, key>> /\ phase[p] = "started"
        /\ kind # "config" /\ kind # "session"
    BY <1>4 DEF LoadQuota, store, past
  <2>2. CASE Hold(p, OneMore(p))
    BY <1>2, <2>1, <2>2
  <2>3. CASE (End(p, "failed") \/ End(p, "refused")) /\ UNCHANGED held
    <3>1. phase' = [phase EXCEPT ![p] = "idle"]
      BY <2>3 DEF End
    <3> QED
      BY <1>1, <2>1, <2>3, <3>1 DEF LocalTypeOK
  <2> QED
    BY <1>4, <2>2, <2>3 DEF LoadQuota
<1>5. ASSUME NEW p \in Processes, ReadUsage(p) PROVE KeepInv'
  <2>1. /\ UNCHANGED <<state, value, wanted, cmd, key>> /\ phase[p] = "started"
        /\ kind # "config" /\ kind # "session"
    BY <1>5 DEF ReadUsage, store, past
  <2>2. CASE Hold(p, OneMore(p))
    BY <1>2, <2>1, <2>2
  <2>3. CASE End(p, "refused") /\ UNCHANGED held
    <3>1. phase' = [phase EXCEPT ![p] = "idle"]
      BY <2>3 DEF End
    <3> QED
      BY <1>1, <2>1, <2>3, <3>1 DEF LocalTypeOK
  <2> QED
    BY <1>5, <2>2, <2>3 DEF ReadUsage
<1>6. ASSUME NEW p \in Processes, LoadConfig(p) PROVE KeepInv'
  <2> DEFINE keep == IF state = "whole" THEN value.keys ELSE {}
             then == IF cmd[p] = "set" THEN keep \cup {key[p]} ELSE keep \ {key[p]}
  <2>1. /\ UNCHANGED <<state, value, wanted, cmd, key>> /\ phase[p] = "started"
        /\ kind = "config" /\ Hold(p, [Blank EXCEPT !.keys = then])
    BY <1>6 DEF LoadConfig, store, past
  <2>2. state # "empty"
    BY <1>e, <2>1 DEF AtWork
  <2>3. keep = wanted
    BY <2>1, <2>2, <1>b DEF LocalTypeOK
  <2>4. then \in SUBSET Keys
    BY DEF LocalTypeOK, Value
  <2>5. [Blank EXCEPT !.keys = then].keys = then
    <3> HIDE DEF then
    <3> QED
      BY <2>4, Records
  <2>6. [Blank EXCEPT !.keys = then].keys =
           IF cmd[p] = "set" THEN wanted \cup {key[p]} ELSE wanted \ {key[p]}
    BY <2>3, <2>5
  <2> HIDE DEF then
  <2> QED
    BY <1>2, <2>1, <2>6
<1>7. ASSUME NEW p \in Processes, OpenSession(p) PROVE KeepInv'
  <2>1. UNCHANGED <<state, value, wanted, cmd, key>> /\ phase[p] = "started" /\ cmd[p] = "open"
    BY <1>7 DEF OpenSession, store, past
  <2>2. kind = "session"
    <3>1. "open" \in CommandsOf(kind)
      BY <2>1 DEF WorkInv
    <3>2. kind \notin Counters /\ kind # "config" /\ kind # "window"
      BY <3>1, Commands
    <3> QED
      BY <3>2 DEF LocalTypeOK, Kinds, Files, Counters
  <2>3. state # "empty"
    BY <1>e, <2>1 DEF AtWork
  <2>4. CASE (End(p, "failed") \/ End(p, "done")) /\ UNCHANGED held
    <3>1. phase' = [phase EXCEPT ![p] = "idle"]
      BY <2>4 DEF End
    <3> QED
      BY <1>1, <2>1, <2>4, <3>1 DEF LocalTypeOK
  <2>5. CASE Hold(p, Sealed(IF state = "whole" THEN value.data ELSE "none")) /\ state # "absent"
    <3>1. state = "whole" /\ value.data = "real"
      BY <2>2, <2>3, <2>5, <1>c DEF LocalTypeOK
    <3>2. Hold(p, Sealed("real")) /\ Sealed("real").data = "real"
      BY <2>5, <3>1, Records
    <3> QED
      BY <1>2, <2>1, <2>2, <3>2
  <2> QED
    BY <1>7, <2>4, <2>5 DEF OpenSession
<1>8. ASSUME NEW p \in Processes, SetUpSession(p) PROVE KeepInv'
  <2>1. /\ UNCHANGED <<state, value, wanted, cmd, key>> /\ phase[p] = "started"
        /\ Hold(p, Sealed("real")) /\ cmd[p] = "setup"
    BY <1>8 DEF SetUpSession, store, past
  <2>2. kind # "config"
    <3>1. "setup" \in CommandsOf(kind)
      BY <2>1 DEF WorkInv
    <3> QED
      BY <3>1, Commands
  <2>3. Sealed("real").data = "real"
    BY Records
  <2> QED
    BY <1>2, <2>1, <2>2, <2>3
<1>9. ASSUME NEW p \in Processes, Truncate(p) PROVE KeepInv'
  <2>1. /\ UNCHANGED <<wanted, held, cmd, key>> /\ state' = "empty"
        /\ phase' = [phase EXCEPT ![p] = "writing"] /\ phase[p] = "saving"
    BY <1>9 DEF Truncate, past
  <2>2. /\ phase'[p] = "writing"
        /\ \A q \in Processes :
             phase'[q] \in {"saving", "writing"} => phase[q] \in {"saving", "writing"}
    BY <2>1 DEF LocalTypeOK
  <2> QED
    BY <2>1, <2>2, <1>b, <1>c, <1>ki DEF KeepInv
<1>10. ASSUME NEW p \in Processes, Write(p) PROVE KeepInv'
  <2>1. /\ state' = "whole" /\ value' = held[p] /\ phase' = [phase EXCEPT ![p] = "saved"]
        /\ UNCHANGED <<held, cmd, key>> /\ phase[p] = "writing"
        /\ cmd[p] = "set" => wanted' = wanted \cup {key[p]}
        /\ cmd[p] = "unset" => wanted' = wanted \ {key[p]}
    BY <1>10 DEF Write, Whole
  <2>2. \A q \in Processes : phase'[q] \notin {"saving", "writing"}
    <3>1. ASSUME NEW q \in Processes PROVE phase'[q] \notin {"saving", "writing"}
      <4>1. CASE q = p
        BY <2>1, <4>1 DEF LocalTypeOK
      <4>2. CASE q # p
        BY <2>1, <4>2, <1>s DEF AtWork, LocalTypeOK
      <4> QED
        BY <4>1, <4>2
    <3> QED
      BY <3>1
  <2>3. kind = "config" => value'.keys = wanted'
    <3>1. kind = "config" => cmd[p] \in {"set", "unset"}
      BY <2>1, Commands DEF WorkInv
    <3> QED
      BY <2>1, <3>1, <1>b
  <2>4. kind = "session" => value'.data = "real"
    BY <2>1, <1>c
  <2> QED
    BY <2>1, <2>2, <2>3, <2>4, <1>ki DEF KeepInv
<1>11. ASSUME NEW p \in Processes, AskUncounted(p) \/ CommitUsage(p) \/ Finish(p)
       PROVE  KeepInv'
  <2>1. /\ UNCHANGED <<state, value, wanted, held, cmd, key>> /\ phase[p] # "writing"
        /\ phase' = [phase EXCEPT ![p] = "saved"] \/ phase' = [phase EXCEPT ![p] = "idle"]
    BY <1>11 DEF AskUncounted, CommitUsage, Finish, End, store
  <2> QED
    BY <1>1, <2>1 DEF LocalTypeOK
<1>12. CASE (\E p \in Processes : Reserve(p)) \/ ClockTick \/ UNCHANGED localVars
  <2>1. UNCHANGED <<state, value, wanted, held, cmd, key, phase>>
    BY <1>12 DEF Reserve, ClockTick, localVars, store, past
  <2> QED
    BY <2>1, <1>a, <1>b, <1>c, <1>ki DEF KeepInv
\* A write that stops half-way is what the hypothesis leaves out.
<1>13. ASSUME NEW p \in Processes, Fails(p) \/ Crash(p) PROVE KeepInv'
  <2>1. /\ UNCHANGED <<state, value, wanted, held, cmd, key>> /\ phase[p] # "writing"
        /\ phase' = [phase EXCEPT ![p] = "idle"]
    BY <1>13 DEF Fails, Crash, End, store
  <2> QED
    BY <1>1, <2>1 DEF LocalTypeOK
<1> QED
  BY <1>3, <1>4, <1>5, <1>6, <1>7, <1>8, <1>9, <1>10, <1>11, <1>12, <1>13 DEF LocalNext, Step

-----------------------------------------------------------------------------
LEMMA TicketInit == LocalInit => TicketInv
  BY DEF LocalInit, TicketInv

LEMMA TicketStep ==
  ASSUME LocalTypeOK, TicketInv, [LocalNext]_localVars
  PROVE  TicketInv'
<1>t. /\ now \in Nat /\ Cap \in Nat \ {0} /\ PeriodLength \in Nat \ {0}
      /\ \A p \in Processes : window[p].from \in Nat /\ window[p].count \in Nat
      /\ \A p \in Processes : \A k \in tickets[p] : k[1] \in Nat /\ k[2] \in Nat /\ k[3] \in Nat
  <2>1. Cap \in Nat \ {0} /\ PeriodLength \in Nat \ {0} /\ \A t \in Times : t \in Nat
    BY LocalStateAssumption DEF LocalStateAssumption, Times
  <2>2. now \in Times /\ \A p \in Processes : window[p].from \in Times /\ window[p].count \in Nat
    BY DEF LocalTypeOK
  <2>3. \A p \in Processes : tickets[p] \subseteq Times \X Times \X Nat
    BY DEF LocalTypeOK
  <2>4. \A k \in Times \X Times \X Nat : k[1] \in Times /\ k[2] \in Times /\ k[3] \in Nat
    OBVIOUS
  <2> QED
    BY <2>1, <2>2, <2>3, <2>4
<1>a. \A p \in Processes : window[p].open => window[p].count >= 1 /\ window[p].from <= now
  BY DEF TicketInv
<1>b. \A p \in Processes : \A k \in tickets[p] :
         /\ window[p].open
         /\ \/ k[1] = window[p].from /\ k[3] < window[p].count
            \/ k[1] + PeriodLength <= window[p].from
         /\ k[1] <= k[2] /\ k[2] < k[1] + PeriodLength
         /\ k[3] < Cap /\ (k[3] = 0 => k[2] = k[1])
  BY DEF TicketInv
<1>c. \A p \in Processes : \A j, k \in tickets[p] :
         /\ j[1] = k[1] /\ j[3] = k[3] => j = k
         /\ j[1] < k[1] => j[1] + PeriodLength <= k[1]
  BY DEF TicketInv
<1>1. ASSUME NEW p \in Processes, Reserve(p) PROVE TicketInv'
  <2> DEFINE w == IF ~window[p].open \/ now - window[p].from >= PeriodLength
                  THEN [open |-> TRUE, from |-> now, count |-> 0] ELSE window[p]
  <2>1. UNCHANGED now
    BY <1>1 DEF Reserve
  \* The hour the lookup falls in.
  <2>2. /\ w.from \in Nat /\ w.count \in Nat /\ w.open
        /\ w.from <= now /\ now < w.from + PeriodLength
        /\ w.count = 0 => w.from = now
        /\ \A k \in tickets[p] :
             \/ k[1] = w.from /\ k[3] < w.count
             \/ k[1] + PeriodLength <= w.from
    <3>1. CASE ~window[p].open
      BY <3>1, <1>t, <1>b
    <3>2. CASE window[p].open /\ now - window[p].from >= PeriodLength
      <4>1. w = [open |-> TRUE, from |-> now, count |-> 0]
        BY <3>2
      <4>2. ASSUME NEW k \in tickets[p] PROVE k[1] + PeriodLength <= now
        BY <3>2, <4>2, <1>t, <1>b
      <4> HIDE DEF w
      <4> QED
        BY <4>1, <4>2, <1>t
    <3>3. CASE window[p].open /\ ~(now - window[p].from >= PeriodLength)
      <4>1. w = window[p]
        BY <3>3
      <4> HIDE DEF w
      <4> QED
        BY <3>3, <4>1, <1>a, <1>b, <1>t
    <3> QED
      BY <3>1, <3>2, <3>3
  <2>3. \/ w.count >= Cap /\ window' = [window EXCEPT ![p] = w] /\ UNCHANGED tickets
        \/ /\ ~(w.count >= Cap)
           /\ window' = [window EXCEPT ![p] = [w EXCEPT !.count = @ + 1]]
           /\ tickets' = [tickets EXCEPT ![p] = @ \cup {<<w.from, now, w.count>>}]
    BY <1>1 DEF Reserve
  <2>w. w \in [open : BOOLEAN, from : Times, count : Nat]
    BY DEF LocalTypeOK
  <2> HIDE DEF w
  <2>4. CASE w.count >= Cap
    <3>1. window'[p] = w /\ tickets' = tickets /\ \A q \in Processes : q # p => window'[q] = window[q]
      BY <2>3, <2>4 DEF LocalTypeOK
    <3>2. w.count >= 1
      BY <2>4, <2>2, <1>t
    <3>3. \A q \in Processes : window'[q].open => window'[q].count >= 1 /\ window'[q].from <= now
      BY <3>1, <3>2, <2>2, <1>a
    <3>4. ASSUME NEW q \in Processes, NEW k \in tickets[q]
          PROVE  /\ window'[q].open
                 /\ \/ k[1] = window'[q].from /\ k[3] < window'[q].count
                    \/ k[1] + PeriodLength <= window'[q].from
                 /\ k[1] <= k[2] /\ k[2] < k[1] + PeriodLength
                 /\ k[3] < Cap /\ (k[3] = 0 => k[2] = k[1])
      BY <3>1, <2>2, <1>b
    <3> QED
      BY <3>1, <3>3, <3>4, <2>1, <1>c DEF TicketInv
  <2>5. CASE ~(w.count >= Cap)
    <3> DEFINE n == <<w.from, now, w.count>>
               v == [w EXCEPT !.count = @ + 1]
    <3>1. /\ window' = [window EXCEPT ![p] = v]
          /\ tickets' = [tickets EXCEPT ![p] = @ \cup {n}]
      BY <2>3, <2>5
    <3>2. v.open /\ v.from = w.from /\ v.count = w.count + 1
      BY <2>w, <2>2
    <3>3. n[1] = w.from /\ n[2] = now /\ n[3] = w.count
      OBVIOUS
    <3> HIDE DEF n, v
    <3>4. /\ window'[p] = v /\ tickets'[p] = tickets[p] \cup {n}
          /\ \A q \in Processes : q # p => window'[q] = window[q] /\ tickets'[q] = tickets[q]
      BY <3>1 DEF LocalTypeOK
    <3>5. \A q \in Processes : window'[q].open => window'[q].count >= 1 /\ window'[q].from <= now
      BY <3>2, <3>4, <2>2, <1>a
    <3>6. ASSUME NEW q \in Processes, NEW k \in tickets'[q]
          PROVE  /\ window'[q].open
                 /\ \/ k[1] = window'[q].from /\ k[3] < window'[q].count
                    \/ k[1] + PeriodLength <= window'[q].from
                 /\ k[1] <= k[2] /\ k[2] < k[1] + PeriodLength
                 /\ k[3] < Cap /\ (k[3] = 0 => k[2] = k[1])
      <4>1. CASE q # p
        BY <4>1, <3>4, <3>6, <1>b
      <4>2. CASE q = p /\ k \in tickets[p]
        <5>1. \/ k[1] = w.from /\ k[3] < w.count
              \/ k[1] + PeriodLength <= w.from
          BY <4>2, <2>2
        <5>2. k[3] \in Nat
          BY <4>2, <1>t
        <5>3. \/ k[1] = v.from /\ k[3] < v.count
              \/ k[1] + PeriodLength <= v.from
          BY <5>1, <5>2, <3>2, <2>2
        <5> QED
          BY <4>2, <5>3, <3>2, <3>4, <1>b
      <4>3. CASE q = p /\ k = n
        BY <4>3, <3>2, <3>3, <3>4, <2>2, <2>5, <1>t
      <4> QED
        BY <4>1, <4>2, <4>3, <3>4, <3>6
    <3>7. ASSUME NEW q \in Processes, NEW j \in tickets'[q], NEW k \in tickets'[q]
          PROVE  /\ j[1] = k[1] /\ j[3] = k[3] => j = k
                 /\ j[1] < k[1] => j[1] + PeriodLength <= k[1]
      <4>1. CASE q # p \/ (j \in tickets[p] /\ k \in tickets[p])
        BY <4>1, <3>4, <3>7, <1>c
      <4>2. CASE q = p /\ j \in tickets[p] /\ k = n
        BY <4>2, <3>3, <2>2, <1>t
      <4>3. CASE q = p /\ k \in tickets[p] /\ j = n
        BY <4>3, <3>3, <2>2, <1>t
      <4>4. CASE q = p /\ j = n /\ k = n
        BY <4>4, <3>3, <2>2
      <4> QED
        BY <4>1, <4>2, <4>3, <4>4, <3>4, <3>7
    <3> QED
      BY <3>5, <3>6, <3>7, <2>1 DEF TicketInv
  <2> QED
    BY <2>4, <2>5
<1>2. ASSUME NEW p \in Processes, Step(p), ~Reserve(p) PROVE TicketInv'
  <2>1. UNCHANGED <<now, window, tickets>>
    BY <1>2 DEF Step, Begin, LoadQuota, ReadUsage, LoadConfig, OpenSession, SetUpSession,
                Truncate, Write, CommitUsage, Finish, AskUncounted, Fails,
                Crash, past
  <2> QED
    BY <2>1, <1>a, <1>b, <1>c DEF TicketInv
<1>3. CASE ClockTick
  <2>1. UNCHANGED <<window, tickets>> /\ now' = now + 1
    BY <1>3 DEF ClockTick, past
  <2>2. \A p \in Processes : window[p].open => window[p].count >= 1 /\ window[p].from <= now + 1
    BY <1>a, <1>t
  <2> QED
    BY <2>1, <2>2, <1>b, <1>c DEF TicketInv
<1>4. CASE UNCHANGED localVars
  BY <1>4, <1>a, <1>b, <1>c DEF localVars, past, TicketInv
<1> QED
  BY <1>1, <1>2, <1>3, <1>4 DEF LocalNext

-----------------------------------------------------------------------------
\* The invariant of local state: from the initial states, and through every step.
THEOREM LocalInvariant == LocalSpec => []LocalInv
<1>1. LocalInit => LocalInv
  BY LocalTypeInit, LocalCountInit, UsageInit, CountedInit, SoleInit, QuotaInit, KeepInit,
     TicketInit DEF LocalInv
<1>2. LocalInv /\ [LocalNext]_localVars => LocalInv'
  BY LocalTypeStep, WorkStep, CountStep, UsageStep, CountedStep, SoleStep, QuotaStep, KeepStep,
     TicketStep DEF LocalInv
<1> QED
  BY <1>1, <1>2, PTL DEF LocalSpec

\* LocalState's values have their types, for any processes, keys, caps and bounds.
THEOREM LocalTypeCorrect == LocalSpec => []LocalTypeOK
<1>1. LocalInv => LocalTypeOK
  BY DEF LocalInv
<1> QED
  BY <1>1, LocalInvariant, PTL

\* No day or month sees more lookups than its cap and those that found no store to
\* count in: in the database whatever the processes do, in the quota file as long
\* as no two commands are under way at once (quotaIncrement, ConsumeMonthlyQuota),
\* for any cap, processes and period.
THEOREM CapAlwaysHolds == LocalSpec => []CapHolds
<1>1. ASSUME LocalInv, kind = "usage" \/ (kind = "quota" /\ ~overlapped), NEW t \in Times
      PROVE  made[t] <= Cap + uncounted[t]
  <2>1. granted[t] <= Cap
    BY <1>1 DEF LocalInv, UsageInv, QuotaInv
  <2> DEFINE n == Cardinality(Saved(t))
  <2>2. n \in Nat
    BY SavedFinite
  <2>3. granted[t] + uncounted[t] >= made[t] + n
    BY <1>1 DEF LocalInv, CountedBeforeMade, Counters, Saved
  <2>4. /\ made[t] \in Nat /\ granted[t] \in Nat /\ uncounted[t] \in Nat
        /\ Cap \in Nat
    BY <1>1, LocalStateAssumption DEF LocalInv, LocalTypeOK, LocalStateAssumption
  <2> HIDE DEF n
  <2> QED
    BY <2>1, <2>2, <2>3, <2>4
<1>2. LocalInv => CapHolds
  BY <1>1 DEF CapHolds
<1> QED
  BY <1>2, LocalInvariant, PTL

\* A lookup is refused only when the cap of its period was granted: losing
\* counts to other processes, crashes and midnight never adds one.
THEOREM RefusalsAreEarned == LocalSpec => []RefusedWhenSpent
<1>1. LocalInv => RefusedWhenSpent
  BY DEF LocalInv
<1> QED
  BY <1>1, LocalInvariant, PTL

\* Where there is a store to count in, a lookup is made only after its count was
\* saved: a failed save makes none, a crash between the two wastes the count, and
\* without a crash the two agree exactly (quotaIncrement, ConsumeMonthlyQuota).
THEOREM CountsComeFirst == LocalSpec => []CountedBeforeMade
<1>1. LocalInv => CountedBeforeMade
  BY DEF LocalInv
<1> QED
  BY <1>1, LocalInvariant, PTL

\* Commands that come one at a time lose no API key and no session, whichever of
\* them fail or die, unless one stops between the truncation of its file and the
\* write (SetKey, UnsetKey, DecryptSession and EncryptSession over os.WriteFile).
THEOREM AloneLosesNothing == LocalSpec => []NothingLostAlone
<1>1. ASSUME LocalInv, ~overlapped, ~torn, \A p \in Processes : ~AtWork(p)
      PROVE  /\ kind = "config" => value.keys = wanted
             /\ (kind = "session" /\ state # "absent") => value.data = "real"
  <2>1. state # "empty"
    BY <1>1 DEF LocalInv, KeepInv, AtWork
  <2> QED
    BY <1>1, <2>1 DEF LocalInv, KeepInv, LocalTypeOK
<1>2. LocalInv => NothingLostAlone
  BY <1>1 DEF NothingLostAlone
<1> QED
  BY <1>2, LocalInvariant, PTL

\* Any hour at all sees fewer than twice the cap: the tickets drawn in it belong
\* to at most two counted hours, and the earlier one's first ticket is before it.
LEMMA AnyHour ==
  ASSUME LocalInv, NEW p \in Processes, NEW t \in Times
  PROVE  Cardinality({k \in tickets[p] : t <= k[2] /\ k[2] < t + PeriodLength}) <= 2 * Cap - 1
<1> DEFINE S == {k \in tickets[p] : t <= k[2] /\ k[2] < t + PeriodLength}
           T == 1 .. (2 * Cap - 1)
           f == [k \in S |-> IF k[1] >= t THEN Cap + k[3] ELSE k[3]]
<1>1. /\ Cap \in Nat \ {0} /\ PeriodLength \in Nat \ {0} /\ t \in Nat
      /\ \A k \in tickets[p] : k[1] \in Nat /\ k[2] \in Nat /\ k[3] \in Nat
  <2>1. Cap \in Nat \ {0} /\ PeriodLength \in Nat \ {0} /\ \A u \in Times : u \in Nat
    BY LocalStateAssumption DEF LocalStateAssumption, Times
  <2>2. tickets[p] \subseteq Times \X Times \X Nat
    BY DEF LocalInv, LocalTypeOK
  <2>3. \A k \in Times \X Times \X Nat : k[1] \in Times /\ k[2] \in Times /\ k[3] \in Nat
    OBVIOUS
  <2> QED
    BY <2>1, <2>2, <2>3
<1>2. \A k \in tickets[p] :
        /\ k[1] <= k[2] /\ k[2] < k[1] + PeriodLength
        /\ k[3] < Cap /\ (k[3] = 0 => k[2] = k[1])
  BY DEF LocalInv, TicketInv
<1>3. \A j, k \in tickets[p] :
         /\ j[1] = k[1] /\ j[3] = k[3] => j = k
         /\ j[1] < k[1] => j[1] + PeriodLength <= k[1]
  BY DEF LocalInv, TicketInv
<1>4. ASSUME NEW k \in S PROVE f[k] \in T
  <2>1. k \in tickets[p] /\ t <= k[2] /\ k[1] \in Nat /\ k[2] \in Nat /\ k[3] \in Nat
    BY <1>1
  <2>2. CASE k[1] >= t
    <3>1. f[k] = Cap + k[3]
      BY <2>2
    <3> QED
      BY <3>1, <2>1, <1>1, <1>2
  <2>3. CASE ~(k[1] >= t)
    <3>1. f[k] = k[3]
      BY <2>3
    <3>2. k[3] # 0
      BY <2>1, <2>3, <1>1, <1>2
    <3>3. k[3] \in 1 .. (2 * Cap - 1)
      BY <2>1, <3>2, <1>1, <1>2
    <3> QED
      BY <3>1, <3>3
  <2> QED
    BY <2>2, <2>3
<1>5. ASSUME NEW j \in S, NEW k \in S, f[j] = f[k] PROVE j = k
  <2>1. /\ f[j] = IF j[1] >= t THEN Cap + j[3] ELSE j[3]
        /\ f[k] = IF k[1] >= t THEN Cap + k[3] ELSE k[3]
    OBVIOUS
  <2>2. /\ j \in tickets[p] /\ t <= j[2] /\ j[2] < t + PeriodLength
        /\ k \in tickets[p] /\ t <= k[2] /\ k[2] < t + PeriodLength
    OBVIOUS
  <2> HIDE DEF f, S
  <2>3. j[3] < Cap /\ k[3] < Cap
    BY <2>2, <1>2
  <2>4. j[3] = k[3] /\ (j[1] >= t <=> k[1] >= t)
    BY <2>1, <2>2, <2>3, <1>1, <1>5
  <2>5. ~(j[1] < k[1]) /\ ~(k[1] < j[1])
    BY <2>2, <2>4, <1>1, <1>2, <1>3
  <2>6. j[1] = k[1]
    BY <2>2, <2>5, <1>1
  <2> QED
    BY <2>2, <2>4, <2>6, <1>3
<1>6. f \in Injection(S, T)
  <2>1. f \in [S -> T]
    BY <1>4
  <2> HIDE DEF f, S, T
  <2> QED
    BY <2>1, <1>5, Fun_IsInj
<1>7. IsFiniteSet(T) /\ Cardinality(T) = 2 * Cap - 1
  <2>1. 1 \in Int /\ 2 * Cap - 1 \in Int /\ ~(1 > 2 * Cap - 1)
    BY <1>1
  <2> HIDE DEF T
  <2>2. IsFiniteSet(T) /\ Cardinality(T) = (2 * Cap - 1) - 1 + 1
    BY <2>1, FS_Interval DEF T
  <2> QED
    BY <2>1, <2>2
<1>8. Cardinality(S) <= Cardinality(T)
  <2> HIDE DEF f, S, T
  <2> QED
    BY <1>6, <1>7, FS_Injection
<1> QED
  BY <1>7, <1>8

\* Of any hour at all, also one that straddles two hours of the module
\* (reserveLookup), the lookups of a process stay below twice its cap.
THEOREM HourBoundHolds == LocalSpec => []HourBound
<1>1. LocalInv => HourBound
  BY AnyHour DEF HourBound
<1> QED
  BY <1>1, LocalInvariant, PTL
=============================================================================
