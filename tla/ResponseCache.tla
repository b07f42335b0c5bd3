---------------------------- MODULE ResponseCache ---------------------------
(***************************************************************************)
(* core.ResponseCache (internal/core/response_cache.go): the per-run cache *)
(* through which the carrier and voip modules and the correlator's sources *)
(* share HTTP answers.  The first caller of a key runs the fetch under its *)
(* own context, outside the mutex; every other caller of that key waits    *)
(* for the entry's ready channel or for its own context.                   *)
(*                                                                         *)
(* A caller is a goroutine with one context; it may call as often as it    *)
(* likes until a panic in a fetch it leads unwinds it.                     *)
(***************************************************************************)
EXTENDS Naturals

CONSTANTS
  Callers,
  Keys,      \* request URLs
  Payloads,  \* response bodies an upstream may answer with
  None       \* no key, no entry, no outcome

\* A fetch ends with a body, an upstream error, or the error of its context.
Errors == {"upstream", "context"}
Outcomes == Payloads \cup Errors

\* A cacheEntry; outcome = None while its ready channel is open.
Entry == [leader : Callers, outcome : Outcomes \cup {None}]

\* What a caller's last call gave it, if it has finished one.
NoCall == [key |-> None, outcome |-> None]
Call == [key : Keys, outcome : Outcomes]

ASSUME CacheAssumption ==
  /\ Payloads \cap Errors = {}
  /\ None \notin Keys \cup Outcomes \cup Callers \cup Entry

VARIABLES
  entry,    \* the map entries: None, or who leads and what it stored
  pc,       \* what each caller is doing
  key,      \* the key of the call in progress
  ctx,      \* each caller's context
  last,     \* history: the key and outcome of the caller's last finished call
  fetches,  \* history: requests sent upstream through the cache, per key
  answers   \* history: bodies handed to callers, per key

vars == <<entry, pc, key, ctx, last, fetches, answers>>

Ready(k) == entry[k] # None /\ entry[k].outcome # None

Init ==
  /\ entry = [k \in Keys |-> None]
  /\ pc = [c \in Callers |-> "idle"]
  /\ key = [c \in Callers |-> None]
  /\ ctx = [c \in Callers |-> "live"]
  /\ last = [c \in Callers |-> NoCall]
  /\ fetches = [k \in Keys |-> 0]
  /\ answers = [k \in Keys |-> {}]

\* A call of key k by caller c ends with outcome o.
Return(c, k, o) ==
  /\ pc' = [pc EXCEPT ![c] = "idle"]
  /\ key' = [key EXCEPT ![c] = None]
  /\ last' = [last EXCEPT ![c] = [key |-> k, outcome |-> o]]
  /\ answers' = IF o \in Payloads
                  THEN [answers EXCEPT ![k] = @ \cup {o}] ELSE answers

-----------------------------------------------------------------------------
\* Mutant of Lead: only a finished entry stops a second fetch.
LeadUnlessReady(c, k) ==
  /\ pc[c] = "idle"
  /\ ~ Ready(k)
  /\ entry' = [entry EXCEPT ![k] = [leader |-> c, outcome |-> None]]
  /\ pc' = [pc EXCEPT ![c] = "fetching"]
  /\ key' = [key EXCEPT ![c] = k]
  /\ fetches' = [fetches EXCEPT ![k] = @ + 1]
  /\ UNCHANGED <<ctx, last, answers>>

\* GetOrFetch on an absent key: the entry is inserted under the mutex and the
\* caller becomes its leader.
Lead(c, k) ==
  /\ pc[c] = "idle"
  /\ entry[k] = None
  /\ entry' = [entry EXCEPT ![k] = [leader |-> c, outcome |-> None]]
  /\ pc' = [pc EXCEPT ![c] = "fetching"]
  /\ key' = [key EXCEPT ![c] = k]
  /\ fetches' = [fetches EXCEPT ![k] = @ + 1]
  /\ UNCHANGED <<ctx, last, answers>>

\* GetOrFetch on a present key.
Follow(c, k) ==
  /\ pc[c] = "idle"
  /\ entry[k] # None
  /\ pc' = [pc EXCEPT ![c] = "waiting"]
  /\ key' = [key EXCEPT ![c] = k]
  /\ UNCHANGED <<entry, ctx, last, fetches, answers>>

\* The leader's fetch returns; a done context can only add its own error.
FetchOutcomes(c) == Payloads \cup {"upstream"}
                      \cup IF ctx[c] = "done" THEN {"context"} ELSE {}

\* The outcome, error or not, is stored for the rest of the run and ready is
\* closed before the leader returns it.
FetchReturns(c) ==
  /\ pc[c] = "fetching"
  /\ \E o \in FetchOutcomes(c) :
       /\ entry' = [entry EXCEPT ![key[c]].outcome = o]
       /\ Return(c, key[c], o)
  /\ UNCHANGED <<ctx, fetches>>

\* The fetch panics: close(entry.ready) is not deferred, so the channel stays
\* open for good; the caller is unwound up to the recover of runModule.
FetchPanics(c) ==
  /\ pc[c] = "fetching"
  /\ pc' = [pc EXCEPT ![c] = "unwound"]
  /\ UNCHANGED <<entry, key, ctx, last, fetches, answers>>

\* The two branches of the follower's select; when both are ready either
\* one may be taken.
FollowerReady(c) ==
  /\ pc[c] = "waiting"
  /\ Ready(key[c])
  /\ Return(c, key[c], entry[key[c]].outcome)
  /\ UNCHANGED <<entry, ctx, fetches>>

\* Mutants of FollowerGivesUp: a timer of the follower's own in place of its
\* context; a receive from ready in place of the select.
FollowerTimesOut(c) ==
  /\ pc[c] = "waiting"
  /\ Return(c, key[c], "context")
  /\ UNCHANGED <<entry, ctx, fetches>>

FollowerOnlyReceives(c) == FollowerReady(c)

FollowerGivesUp(c) ==
  /\ pc[c] = "waiting"
  /\ ctx[c] = "done"
  /\ Return(c, key[c], "context")
  /\ UNCHANGED <<entry, ctx, fetches>>

\* Get: a miss returns at once; a present entry is waited for without a
\* context, and an error entry is reported as a miss.
Peek(c, k) ==
  /\ pc[c] = "idle"
  /\ entry[k] # None
  /\ pc' = [pc EXCEPT ![c] = "peeking"]
  /\ key' = [key EXCEPT ![c] = k]
  /\ UNCHANGED <<entry, ctx, last, fetches, answers>>

PeekReturns(c) ==
  /\ pc[c] = "peeking"
  /\ Ready(key[c])
  /\ IF entry[key[c]].outcome \in Payloads
       THEN Return(c, key[c], entry[key[c]].outcome)
       ELSE /\ pc' = [pc EXCEPT ![c] = "idle"]
            /\ key' = [key EXCEPT ![c] = None]
            /\ UNCHANGED <<last, answers>>
  /\ UNCHANGED <<entry, ctx, fetches>>

\* The module timeout of the caller elapses.
ContextEnds(c) ==
  /\ ctx[c] = "live"
  /\ ctx' = [ctx EXCEPT ![c] = "done"]
  /\ UNCHANGED <<entry, pc, key, last, fetches, answers>>

Next == \E c \in Callers :
  \/ \E k \in Keys : Lead(c, k) \/ Follow(c, k) \/ Peek(c, k)
  \/ FetchReturns(c)
  \/ FetchPanics(c)
  \/ FollowerReady(c)
  \/ FollowerGivesUp(c)
  \/ PeekReturns(c)
  \/ ContextEnds(c)

(***************************************************************************)
(* Fairness: every module context has a timeout, and a goroutine whose     *)
(* select can proceed is run.  No fetch is required to return.             *)
(***************************************************************************)
Fairness == \A c \in Callers :
  /\ WF_vars(ContextEnds(c))
  /\ WF_vars(FollowerReady(c) \/ FollowerGivesUp(c))

Spec == Init /\ [][Next]_vars /\ Fairness

-----------------------------------------------------------------------------
(* Properties.                                                             *)

\* Every variable keeps its shape.
TypeOK ==
  /\ entry \in [Keys -> Entry \cup {None}]
  /\ pc \in [Callers -> {"idle", "fetching", "waiting", "peeking", "unwound"}]
  /\ key \in [Callers -> Keys \cup {None}]
  /\ ctx \in [Callers -> {"live", "done"}]
  /\ last \in [Callers -> Call \cup {NoCall}]
  /\ fetches \in [Keys -> Nat]
  /\ answers \in [Keys -> SUBSET Payloads]

\* However callers race on a key, and whatever becomes of the first fetch,
\* a paid upstream request is sent at most once per key and run.
SingleFlight == \A k \in Keys : fetches[k] <= 1

\* All callers that get a body for a key get the same one.
OneAnswer == \A k \in Keys : \A p, q \in answers[k] : p = q

\* A caller sees an error only if its own context ended or if the leader of
\* that key really failed that way; in particular a context error that
\* reaches a caller whose context is live is the leader's timeout.
ErrorHasCause ==
  \A c \in Callers : last[c].outcome \in Errors =>
    \/ last[c].outcome = "context" /\ ctx[c] = "done"
    \/ /\ entry[last[c].key] # None
       /\ entry[last[c].key].outcome = last[c].outcome
       /\ last[c].outcome = "context" =>
            ctx[entry[last[c].key].leader] = "done"

\* What an entry stores is never replaced, not even an error by a success.
EntryIsFinal == [][\A k \in Keys : Ready(k) => entry'[k] = entry[k]]_vars

\* No follower waits for ever, even on a leader that panicked.
FollowersReturn ==
  \A c \in Callers : (pc[c] = "waiting") ~> (pc[c] # "waiting")
=============================================================================
