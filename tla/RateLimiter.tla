----------------------------- MODULE RateLimiter ----------------------------
(***************************************************************************)
(* core.RateLimiter (internal/core/rate_limiter.go): a per-key minimum     *)
(* delay with +-30% jitter.  Wait draws the caller's delay once, compares  *)
(* it under the mutex with the time since the key was last let through,    *)
(* sleeps outside the mutex for what is missing, and compares again.       *)
(*                                                                         *)
(* Time is discrete and relative: age[k] is the time since lastSeen[k],    *)
(* which only matters up to Hi, the longest delay a caller can draw.  A    *)
(* key never seen (Go's zero time) is as old as can be.  Wait is a no-op   *)
(* for a nil limiter, a zero delay or an empty key: those callers are not  *)
(* modelled.                                                               *)
(***************************************************************************)
EXTENDS Integers

CONSTANTS
  Callers,
  Hosts,    \* the limiter's keys
  Lo, Hi,   \* 0.7 and 1.3 times the configured delay, in ticks
  NoHost

ASSUME LimiterAssumption ==
  /\ Lo \in Nat \ {0}
  /\ Hi \in Nat
  /\ Lo <= Hi
  /\ NoHost \notin Hosts

Delays == Lo..Hi

VARIABLES
  age,   \* age[k]: ticks since lastSeen[k], at most Hi
  pc,    \* pc[c]: outside Wait, about to take the mutex, or in its select
  host,  \* the key c waits for
  delay, \* effectiveDelay of that call
  left,  \* what is left of c's timer
  ctx,   \* c's context
  gap    \* history: the shortest time between two passes of a key so far

limiterVars == <<age, pc, host, delay, left, ctx, gap>>

Init ==
  /\ age = [k \in Hosts |-> Hi]
  /\ pc = [c \in Callers |-> "idle"]
  /\ host = [c \in Callers |-> NoHost]
  /\ delay = [c \in Callers |-> Hi]
  /\ left = [c \in Callers |-> 0]
  /\ ctx = [c \in Callers |-> "live"]
  /\ gap = [k \in Hosts |-> Hi]

-----------------------------------------------------------------------------
\* Wait(ctx, key): the jittered delay is drawn once per call.
Enter(c, k) ==
  /\ pc[c] = "idle"
  /\ \E d \in Delays : delay' = [delay EXCEPT ![c] = d]
  /\ pc' = [pc EXCEPT ![c] = "checking"]
  /\ host' = [host EXCEPT ![c] = k]
  /\ UNCHANGED <<age, left, ctx, gap>>

Leave(c) == /\ pc' = [pc EXCEPT ![c] = "idle"]
            /\ host' = [host EXCEPT ![c] = NoHost]
            /\ delay' = [delay EXCEPT ![c] = Hi]
            /\ left' = [left EXCEPT ![c] = 0]

\* Under the mutex: enough time has passed, the key is stamped and Wait
\* returns nil, even to a caller whose context is already done.
Pass(c) ==
  /\ pc[c] = "checking"
  /\ delay[c] <= age[host[c]]
  /\ gap' = [gap EXCEPT ![host[c]] = IF age[host[c]] < @ THEN age[host[c]] ELSE @]
  /\ age' = [age EXCEPT ![host[c]] = 0]
  /\ Leave(c)
  /\ UNCHANGED ctx

\* Under the mutex: too early, sleep for what is missing.
Sleep(c) ==
  /\ pc[c] = "checking"
  /\ age[host[c]] < delay[c]
  /\ left' = [left EXCEPT ![c] = delay[c] - age[host[c]]]
  /\ pc' = [pc EXCEPT ![c] = "sleeping"]
  /\ UNCHANGED <<age, host, delay, ctx, gap>>

\* Mutant of Wake: after its sleep the caller stamps the key and returns
\* without looking again, as hibpSource does.
WakePasses(c) ==
  /\ pc[c] = "sleeping"
  /\ left[c] = 0
  /\ gap' = [gap EXCEPT ![host[c]] = IF age[host[c]] < @ THEN age[host[c]] ELSE @]
  /\ age' = [age EXCEPT ![host[c]] = 0]
  /\ Leave(c)
  /\ UNCHANGED ctx

\* The timer fired: back to the mutex, another caller may have been faster.
Wake(c) ==
  /\ pc[c] = "sleeping"
  /\ left[c] = 0
  /\ pc' = [pc EXCEPT ![c] = "checking"]
  /\ UNCHANGED <<age, host, delay, left, ctx, gap>>

\* Mutant of GiveUp: time.Sleep in place of the select on the context.
SleepOn(c) == Wake(c)

\* ctx.Done is ready: the timer is stopped and Wait returns ctx.Err().
GiveUp(c) ==
  /\ pc[c] = "sleeping"
  /\ ctx[c] = "done"
  /\ Leave(c)
  /\ UNCHANGED <<age, ctx, gap>>

ContextEnds(c) ==
  /\ ctx[c] = "live"
  /\ ctx' = [ctx EXCEPT ![c] = "done"]
  /\ UNCHANGED <<age, pc, host, delay, left, gap>>

\* One unit of time; nothing forces a goroutine to act before the next one.
Tick ==
  /\ age' = [k \in Hosts |-> IF age[k] < Hi THEN age[k] + 1 ELSE Hi]
  /\ left' = [c \in Callers |-> IF left[c] > 0 THEN left[c] - 1 ELSE 0]
  /\ UNCHANGED <<pc, host, delay, ctx, gap>>

Next ==
  \/ \E c \in Callers :
       \/ \E k \in Hosts : Enter(c, k)
       \/ Pass(c)
       \/ Sleep(c)
       \/ Wake(c)
       \/ GiveUp(c)
       \/ ContextEnds(c)
  \/ Tick

(***************************************************************************)
(* Fairness: time passes, every module context has a timeout, a goroutine  *)
(* that can take the mutex eventually does, and Go's select, which picks   *)
(* at random among its ready cases, does not neglect ctx.Done for ever.    *)
(***************************************************************************)
Fairness ==
  /\ WF_limiterVars(Tick)
  /\ \A c \in Callers :
       /\ WF_limiterVars(ContextEnds(c))
       /\ WF_limiterVars(Pass(c) \/ Sleep(c))
       /\ WF_limiterVars(Wake(c))
       /\ SF_limiterVars(GiveUp(c))

Spec == Init /\ [][Next]_limiterVars /\ Fairness

-----------------------------------------------------------------------------
(* Properties.                                                             *)

\* Every variable keeps its shape.
TypeOK ==
  /\ age \in [Hosts -> 0..Hi]
  /\ pc \in [Callers -> {"idle", "checking", "sleeping"}]
  /\ host \in [Callers -> Hosts \cup {NoHost}]
  /\ delay \in [Callers -> Delays]
  /\ left \in [Callers -> 0..Hi]
  /\ ctx \in [Callers -> {"live", "done"}]
  /\ gap \in [Hosts -> 0..Hi]

\* Two requests to one host are never let through closer together than the
\* shortest jittered delay, however many goroutines sleep on that host and
\* in whatever order their timers fire.
Spaced == \A k \in Hosts : gap[k] >= Lo

\* A caller never sleeps past the moment its own delay has elapsed on its
\* host: what is left of its timer never exceeds what its delay still lacks.
NoOversleep ==
  \A c \in Callers : pc[c] = "sleeping" /\ left[c] > 0 =>
    left[c] + age[host[c]] <= delay[c]

\* Every call of Wait returns, if only with its context's error, even when
\* others keep overtaking the caller.
WaitReturns == \A c \in Callers : (pc[c] # "idle") ~> (pc[c] = "idle")
=============================================================================
