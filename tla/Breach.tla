------------------------------- MODULE Breach -------------------------------
(***************************************************************************)
(* The breach module (internal/modules/breach): one goroutine asks its     *)
(* sources one after the other.  A plain source waits for its host in the  *)
(* module's RateLimiter and sends one request; HIBP, the last source,      *)
(* paces itself and retries once after a 429.  The module object, with     *)
(* both pacing states, is shared by the successive runs of a batch; each   *)
(* run has a context of its own.                                           *)
(*                                                                         *)
(* Source s <= NHosts asks host s; source NHosts + 1 is HIBP.  Time is     *)
(* that of RateLimiter: relative, in ticks, saturating.                    *)
(***************************************************************************)
EXTENDS Naturals

CONSTANTS NHosts, Lo, Hi, NoHost,
          MinDelay   \* hibpMinDelay, in ticks

ASSUME BreachAssumption ==
  /\ NHosts \in Nat
  /\ Lo \in Nat \ {0} /\ Hi \in Nat /\ Lo <= Hi
  /\ NoHost \notin 1..NHosts
  /\ MinDelay \in Nat \ {0}

Sources == 1..(NHosts + 1)
Hibp == NHosts + 1
Run == "run"

VARIABLES
  age, pc, host, delay, left, ctx, gap, \* the shared RateLimiter, see there
  hasKey,   \* HIBP_API_KEY is configured
  stage,    \* where Run is
  cursor,   \* the source Run is at
  status,   \* SourceStatuses of the run
  stamp,    \* ticks since hibpSource.lastReq, at most MinDelay
  timer,    \* what is left of a time.After of hibpSource
  answered, \* history: how each source answered in this run
  sends,    \* history: HIBP requests sent in this run
  sentAge,  \* history: ticks since the last HIBP request, at most MinDelay
  lastSent  \* history: what the last HIBP request was

limiter == <<age, pc, host, delay, left, ctx, gap>>
hibp == <<stamp, timer, sends, sentAge, lastSent>>
vars == <<limiter, hibp, hasKey, stage, cursor, status, answered>>

Limiter == INSTANCE RateLimiter WITH Callers <- {Run}, Hosts <- 1..NHosts

Init ==
  /\ Limiter!Init
  /\ hasKey \in BOOLEAN
  /\ stage = "between"
  /\ cursor = 1
  /\ status = [s \in Sources |-> "none"]
  /\ answered = [s \in Sources |-> "none"]
  /\ stamp = MinDelay
  /\ timer = 0
  /\ sends = 0
  /\ sentAge = MinDelay
  /\ lastSent = "none"

-----------------------------------------------------------------------------
(* Module.Run.                                                             *)

\* The engine runs the module for a number, under a new context.
BeginRun ==
  /\ stage = "between"
  /\ stage' = "next"
  /\ cursor' = 1
  /\ status' = [s \in Sources |-> "none"]
  /\ answered' = [s \in Sources |-> "none"]
  /\ sends' = 0
  /\ ctx' = [ctx EXCEPT ![Run] = "live"]
  /\ UNCHANGED <<age, pc, host, delay, left, gap, hasKey, stamp, timer,
                 sentAge, lastSent>>

\* RunPassive: every source is reported skipped, nothing is sent.
RunPassive ==
  /\ stage = "between"
  /\ status' = [s \in Sources |-> "skipped"]
  /\ answered' = [s \in Sources |-> "none"]
  /\ sends' = 0
  /\ UNCHANGED <<limiter, hasKey, stage, cursor, stamp, timer, sentAge,
                 lastSent>>

\* querySource has returned: its verdict enters the aggregate.
Settle(verdict, answer) ==
  /\ status' = [status EXCEPT ![cursor] = verdict]
  /\ answered' = [answered EXCEPT ![cursor] = answer]
  /\ cursor' = cursor + 1
  /\ stage' = "next"

Finish ==
  /\ stage = "next"
  /\ cursor = NHosts + 2
  /\ stage' = "between"
  /\ UNCHANGED <<limiter, hibp, hasKey, cursor, status, answered>>

\* What a source's answer amounts to: 404 is a clean result, a 2xx body has
\* hits or not, everything else is an error.
Verdicts == [ok |-> {"hit", "no results"}, notfound |-> {"no results"},
             other |-> {"unavailable"}]

-----------------------------------------------------------------------------
(* A plain source.                                                         *)

WaitForHost ==
  /\ stage = "next"
  /\ cursor <= NHosts
  /\ stage' = "limiter"
  /\ Limiter!Enter(Run, cursor)
  /\ UNCHANGED <<hibp, hasKey, cursor, status, answered>>

LimiterWaits ==
  /\ stage = "limiter"
  /\ Limiter!Sleep(Run) \/ Limiter!Wake(Run)
  /\ UNCHANGED <<hibp, hasKey, stage, cursor, status, answered>>

LimiterPasses ==
  /\ stage = "limiter"
  /\ Limiter!Pass(Run)
  /\ stage' = "request"
  /\ UNCHANGED <<hibp, hasKey, cursor, status, answered>>

LimiterGivesUp ==
  /\ stage = "limiter"
  /\ Limiter!GiveUp(Run)
  /\ Settle("unavailable", "none")
  /\ UNCHANGED <<hibp, hasKey>>

SourceAnswers ==
  /\ stage = "request"
  /\ ctx[Run] = "live"
  /\ \E a \in DOMAIN Verdicts : \E v \in Verdicts[a] : Settle(v, a)
  /\ UNCHANGED <<limiter, hibp, hasKey>>

\* Mutant of SourceFails: a request made without the module's context.
SourceFailsUnaided ==
  /\ stage = "request"
  /\ ctx[Run] = "live"
  /\ Settle("unavailable", "none")
  /\ UNCHANGED <<limiter, hibp, hasKey>>

\* PrepareRequest finds no key, the request cannot be sent, or it is cut off.
SourceFails ==
  /\ stage = "request"
  /\ Settle("unavailable", "none")
  /\ UNCHANGED <<limiter, hibp, hasKey>>

-----------------------------------------------------------------------------
(* HIBP: Query, enforceRateLimit, execute.                                 *)

\* client.Do: with a live context the request goes out, else it fails.
Send(request) ==
  IF ctx[Run] = "live"
    THEN /\ stage' = request
         /\ sends' = sends + 1
         /\ sentAge' = 0
         /\ lastSent' = request
         /\ UNCHANGED <<cursor, status, answered>>
    ELSE /\ Settle("unavailable", "none")
         /\ UNCHANGED <<sends, sentAge, lastSent>>

HibpUnconfigured ==
  /\ stage = "next"
  /\ cursor = Hibp
  /\ ~hasKey
  /\ Settle("unavailable", "none")
  /\ UNCHANGED <<limiter, hibp, hasKey>>

\* enforceRateLimit, fast path: stamped and let through under the mutex.
HibpAtOnce ==
  /\ stage = "next"
  /\ cursor = Hibp
  /\ hasKey
  /\ stamp = MinDelay
  /\ stamp' = 0
  /\ Send("first")
  /\ UNCHANGED <<limiter, hasKey, timer>>

HibpPaces ==
  /\ stage = "next"
  /\ cursor = Hibp
  /\ hasKey
  /\ stamp < MinDelay
  /\ timer' = MinDelay - stamp
  /\ stage' = "pacing"
  /\ UNCHANGED <<limiter, hasKey, cursor, status, answered, stamp, sends,
                 sentAge, lastSent>>

\* Mutant of HibpPaced: lastReq is not stamped after the sleep.
HibpPacedUnstamped ==
  /\ stage = "pacing"
  /\ timer = 0
  /\ Send("first")
  /\ UNCHANGED <<limiter, hasKey, stamp, timer>>

\* enforceRateLimit, slow path: stamped after the sleep, with no second look.
HibpPaced ==
  /\ stage = "pacing"
  /\ timer = 0
  /\ stamp' = 0
  /\ Send("first")
  /\ UNCHANGED <<limiter, hasKey, timer>>

\* Mutant of HibpThrottled: a 429 is taken for a clean result.
HibpThrottledIsClean ==
  /\ stage = "first"
  /\ ctx[Run] = "live"
  /\ Settle("no results", "other")
  /\ UNCHANGED <<limiter, hibp, hasKey>>

\* 429 on the first request: hibpMinDelay is waited before the only retry.
HibpThrottled ==
  /\ stage = "first"
  /\ ctx[Run] = "live"
  /\ stage' = "backoff"
  /\ timer' = MinDelay
  /\ UNCHANGED <<limiter, hasKey, cursor, status, answered, stamp, sends,
                 sentAge, lastSent>>

\* The retry does not go through enforceRateLimit: lastReq is not touched.
HibpRetries ==
  /\ stage = "backoff"
  /\ timer = 0
  /\ Send("second")
  /\ UNCHANGED <<limiter, hasKey, stamp, timer>>

\* Either select takes ctx.Done.
HibpGivesUp ==
  /\ stage \in {"pacing", "backoff"}
  /\ ctx[Run] = "done"
  /\ timer' = 0
  /\ Settle("unavailable", "none")
  /\ UNCHANGED <<limiter, hasKey, stamp, sends, sentAge, lastSent>>

\* A final answer; a second 429 is one of the others.
HibpAnswers ==
  /\ stage \in {"first", "second"}
  /\ ctx[Run] = "live"
  /\ \E a \in DOMAIN Verdicts : \E v \in Verdicts[a] : Settle(v, a)
  /\ UNCHANGED <<limiter, hibp, hasKey>>

HibpFails ==
  /\ stage \in {"first", "second"}
  /\ Settle("unavailable", "none")
  /\ UNCHANGED <<limiter, hibp, hasKey>>

-----------------------------------------------------------------------------
Older(x) == IF x < MinDelay THEN x + 1 ELSE MinDelay

Tick ==
  /\ Limiter!Tick
  /\ stamp' = Older(stamp)
  /\ sentAge' = Older(sentAge)
  /\ timer' = IF timer > 0 THEN timer - 1 ELSE 0
  /\ UNCHANGED <<hasKey, stage, cursor, status, answered, sends, lastSent>>

\* The engine's module timeout.
ContextEnds ==
  /\ stage # "between"
  /\ Limiter!ContextEnds(Run)
  /\ UNCHANGED <<hibp, hasKey, stage, cursor, status, answered>>

Proceed ==
  \/ Finish \/ WaitForHost \/ LimiterWaits \/ LimiterPasses
  \/ HibpUnconfigured \/ HibpAtOnce \/ HibpPaces \/ HibpPaced \/ HibpRetries

Fail == LimiterGivesUp \/ SourceFails \/ HibpGivesUp \/ HibpFails

Next ==
  \/ BeginRun \/ RunPassive \/ Proceed \/ Fail
  \/ SourceAnswers \/ HibpThrottled \/ HibpAnswers
  \/ ContextEnds \/ Tick

\* Time passes, the module timeout elapses, a goroutine that can go on does,
\* and a wait or a request ends once the context is done.
Fairness ==
  /\ WF_vars(Tick)
  /\ WF_vars(ContextEnds)
  /\ WF_vars(Proceed)
  /\ WF_vars(ctx[Run] = "done" /\ Fail)

Spec == Init /\ [][Next]_vars /\ Fairness

-----------------------------------------------------------------------------
(* Properties.                                                             *)

\* Every variable keeps its shape.
TypeOK ==
  /\ Limiter!TypeOK
  /\ hasKey \in BOOLEAN
  /\ stage \in {"between", "next", "limiter", "request", "pacing", "first",
                "backoff", "second"}
  /\ cursor \in 1..(NHosts + 2)
  /\ status \in [Sources -> {"none", "hit", "no results", "unavailable",
                             "skipped"}]
  /\ answered \in [Sources -> {"none"} \cup DOMAIN Verdicts]
  /\ stamp \in 0..MinDelay
  /\ timer \in 0..MinDelay
  /\ sends \in Nat
  /\ sentAge \in 0..MinDelay
  /\ lastSent \in {"none", "first", "second"}

\* A source is only reported clean or hit in a run in which it answered with
\* a body or a 404: a timeout, a cancelled wait, a missing key or a throttled
\* request never passes for "no results".
CleanMeansAnswered ==
  \A s \in Sources : status[s] \in {"hit", "no results"} =>
    answered[s] \in {"ok", "notfound"}

\* Over any number of runs, a HIBP request leaves at least MinDelay after the
\* one before, except when the one before was a retry.
SpacedUnlessRetried ==
  [][sends' > sends => sentAge = MinDelay \/ lastSent = "second"]_vars

\* Run ends whatever its sources do.
RunReturns == (stage # "between") ~> (stage = "between")
=============================================================================
