---------------------------- MODULE LookupsProofs ---------------------------
(***************************************************************************)
(* Proofs about what the lookups ask and what they report of it.           *)
(* ResponseCache, for any callers, keys and bodies: one fetch per key, one *)
(* answer per key, errors with a cause, and entries that never change.     *)
(* Lookups, for any catalogue of well-formed modules: the report holds     *)
(* what was found, every status and verdict in it is earned, sources that  *)
(* feed others go first, and a returned report is final.                   *)
(***************************************************************************)
EXTENDS ResponseCache, Lookups, TLAPS

-----------------------------------------------------------------------------
(* ResponseCache                                                           *)

\* An entry exists exactly when its one fetch was sent.
FetchInv ==
  \A k \in Keys :
    /\ entry[k] = None => fetches[k] = 0 /\ answers[k] = {}
    /\ entry[k] # None => fetches[k] = 1

\* A leader's entry is still open; followers and peekers have an entry.
CallInv ==
  \A c \in Callers :
    /\ pc[c] \in {"fetching", "waiting", "peeking"} =>
         key[c] \in Keys /\ entry[key[c]] # None
    /\ pc[c] = "fetching" => /\ entry[key[c]].leader = c
                             /\ entry[key[c]].outcome = None

\* Bodies handed out are the stored one; a stored context error is the
\* leader's own.
OutcomeInv ==
  \A k \in Keys : entry[k] # None =>
    /\ \A a \in answers[k] : entry[k].outcome = a
    /\ entry[k].outcome = "context" => ctx[entry[k].leader] = "done"

CacheInv ==
  /\ TypeOK
  /\ FetchInv
  /\ CallInv
  /\ OutcomeInv
  /\ ErrorHasCause

-----------------------------------------------------------------------------
LEMMA CacheInit == Init => CacheInv
  BY CacheAssumption
  DEF Init, CacheInv, TypeOK, FetchInv, CallInv, OutcomeInv, ErrorHasCause,
      NoCall, Outcomes, Errors

LEMMA CacheTypeStep == CacheInv /\ [Next]_vars => TypeOK'
<1> SUFFICES ASSUME CacheInv, [Next]_vars PROVE TypeOK'
  OBVIOUS
<1> USE CacheAssumption DEF CacheInv, TypeOK, Return, Call
<1>1. ASSUME NEW c \in Callers, NEW k \in Keys, Lead(c, k) PROVE TypeOK'
  BY <1>1 DEF Lead, Entry
<1>2. ASSUME NEW c \in Callers, NEW k \in Keys, Follow(c, k) \/ Peek(c, k)
      PROVE  TypeOK'
  BY <1>2 DEF Follow, Peek
<1>3. ASSUME NEW c \in Callers, FetchReturns(c) PROVE TypeOK'
  <2>1. PICK o \in FetchOutcomes(c) :
          /\ entry' = [entry EXCEPT ![key[c]].outcome = o]
          /\ Return(c, key[c], o)
    BY <1>3 DEF FetchReturns
  <2>2. o \in Outcomes /\ key[c] \in Keys /\ entry[key[c]] \in Entry
    BY <1>3 DEF FetchReturns, FetchOutcomes, Outcomes, Errors, CallInv
  <2>3. [entry[key[c]] EXCEPT !.outcome = o] \in Entry
    BY <2>2 DEF Entry
  <2> QED
    BY <1>3, <2>1, <2>2, <2>3 DEF FetchReturns, Outcomes
<1>4. ASSUME NEW c \in Callers, FetchPanics(c) \/ ContextEnds(c) PROVE TypeOK'
  BY <1>4 DEF FetchPanics, ContextEnds
<1>5. ASSUME NEW c \in Callers, FollowerReady(c) PROVE TypeOK'
  BY <1>5 DEF FollowerReady, Ready, CallInv, Entry
<1>6. ASSUME NEW c \in Callers, FollowerGivesUp(c) PROVE TypeOK'
  BY <1>6 DEF FollowerGivesUp, CallInv, Outcomes, Errors
<1>7. ASSUME NEW c \in Callers, PeekReturns(c) PROVE TypeOK'
  <2>1. CASE entry[key[c]].outcome \in Payloads
    <3>1. PICK o \in Payloads : o = entry[key[c]].outcome
      BY <2>1
    <3>2. key[c] \in Keys
      BY <1>7 DEF PeekReturns, CallInv
    <3>3. Return(c, key[c], o) /\ UNCHANGED <<entry, ctx, fetches>>
      BY <1>7, <3>1 DEF PeekReturns
    <3> QED
      BY <3>1, <3>2, <3>3 DEF Outcomes
  <2>2. CASE entry[key[c]].outcome \notin Payloads
    BY <1>7, <2>2 DEF PeekReturns
  <2> QED
    BY <2>1, <2>2
<1>8. CASE UNCHANGED vars
  BY <1>8 DEF vars
<1> QED
  BY <1>1, <1>2, <1>3, <1>4, <1>5, <1>6, <1>7, <1>8 DEF Next

\* How a step may change an entry: it is created open for the caller that
\* fetches, or the outcome of an open entry is stored by its leader.
LEMMA EntryStep ==
  ASSUME CacheInv, [Next]_vars, NEW k \in Keys
  PROVE  \/ entry'[k] = entry[k]
         \/ \E c \in Callers : entry[k] = None /\ Lead(c, k)
         \/ \E c \in Callers : \E o \in FetchOutcomes(c) :
              /\ FetchReturns(c) /\ key[c] = k
              /\ entry[k] # None /\ entry[k].outcome = None
              /\ entry[k].leader = c
              /\ entry'[k] = [entry[k] EXCEPT !.outcome = o]
<1> USE DEF CacheInv, TypeOK
<1>1. ASSUME NEW c \in Callers, NEW j \in Keys, Lead(c, j)
      PROVE  entry'[k] = entry[k] \/ (entry[k] = None /\ Lead(c, k))
  BY <1>1 DEF Lead
<1>2. ASSUME NEW c \in Callers, FetchReturns(c), key[c] # k
      PROVE  entry'[k] = entry[k]
  BY <1>2 DEF FetchReturns
<1>3. ASSUME NEW c \in Callers, FetchReturns(c), key[c] = k
      PROVE  \E o \in FetchOutcomes(c) :
               /\ FetchReturns(c) /\ key[c] = k
               /\ entry[k] # None /\ entry[k].outcome = None
               /\ entry[k].leader = c
               /\ entry'[k] = [entry[k] EXCEPT !.outcome = o]
  <2>1. entry[k] # None /\ entry[k].outcome = None /\ entry[k].leader = c
    BY <1>3 DEF FetchReturns, CallInv
  <2>2. PICK o \in FetchOutcomes(c) :
          entry' = [entry EXCEPT ![k].outcome = o]
    BY <1>3 DEF FetchReturns
  <2>3. entry'[k] = [entry[k] EXCEPT !.outcome = o]
    BY <2>2
  <2> QED
    BY <1>3, <2>1, <2>3
<1>4. CASE UNCHANGED entry
  BY <1>4
<1> QED
  BY <1>1, <1>2, <1>3, <1>4
  DEF Next, Follow, Peek, FetchPanics, FollowerReady, FollowerGivesUp,
      PeekReturns, ContextEnds, vars

\* A stored outcome stays, and so does the leader of an entry.
LEMMA EntryKept ==
  ASSUME CacheInv, [Next]_vars, NEW k \in Keys, entry[k] # None
  PROVE  /\ entry'[k] # None
         /\ entry'[k].leader = entry[k].leader
         /\ entry[k].outcome # None => entry'[k] = entry[k]
<1>1. entry[k] \in Entry
  BY DEF CacheInv, TypeOK
<1>2. CASE entry'[k] = entry[k]
  BY <1>2
<1>3. ASSUME NEW c \in Callers, NEW o \in FetchOutcomes(c),
             entry[k].outcome = None,
             entry'[k] = [entry[k] EXCEPT !.outcome = o]
      PROVE  entry'[k] # None /\ entry'[k].leader = entry[k].leader
  <2>1. entry'[k] \in Entry
    BY <1>1, <1>3 DEF Entry, FetchOutcomes, Outcomes, Errors
  <2> QED
    BY <1>1, <1>3, <2>1, CacheAssumption DEF Entry
<1> QED
  BY <1>2, <1>3, EntryStep

\* A done context stays done.
LEMMA ContextKept ==
  ASSUME CacheInv, [Next]_vars, NEW c \in Callers, ctx[c] = "done"
  PROVE  ctx'[c] = "done"
  BY DEF CacheInv, TypeOK, Next, Lead, Follow, Peek, FetchReturns, FetchPanics,
         FollowerReady, FollowerGivesUp, PeekReturns, ContextEnds, vars

LEMMA FetchStep == CacheInv /\ [Next]_vars => FetchInv'
<1> SUFFICES ASSUME CacheInv, [Next]_vars PROVE FetchInv'
  OBVIOUS
<1> USE CacheAssumption DEF CacheInv, TypeOK, FetchInv, Return
<1>1. ASSUME NEW c \in Callers, NEW k \in Keys, Lead(c, k) PROVE FetchInv'
  <2>1. [leader |-> c, outcome |-> None] \in Entry
    BY DEF Entry
  <2> QED
    BY <1>1, <2>1 DEF Lead
<1>2. ASSUME NEW c \in Callers, NEW k \in Keys, Follow(c, k) \/ Peek(c, k)
      PROVE  FetchInv'
  BY <1>2 DEF Follow, Peek
<1>3. ASSUME NEW c \in Callers,
             FetchReturns(c) \/ FollowerReady(c) \/ FollowerGivesUp(c)
               \/ PeekReturns(c)
      PROVE  FetchInv'
  <2>1. UNCHANGED fetches /\ key[c] \in Keys /\ entry[key[c]] # None
    BY <1>3
    DEF FetchReturns, FollowerReady, FollowerGivesUp, PeekReturns, CallInv
  <2>2. \A k \in Keys : entry[k] # None => entry'[k] # None
    BY EntryKept
  <2>3. \A k \in Keys : entry[k] = None => entry'[k] = None
    BY <1>3, EntryStep
    DEF FetchReturns, FollowerReady, FollowerGivesUp, PeekReturns, CallInv
  <2>4. \A k \in Keys : entry[k] = None => answers'[k] = answers[k]
    BY <1>3, <2>1
    DEF FetchReturns, FollowerReady, FollowerGivesUp, PeekReturns
  <2> QED
    BY <2>1, <2>2, <2>3, <2>4
<1>4. ASSUME NEW c \in Callers, FetchPanics(c) \/ ContextEnds(c)
      PROVE  FetchInv'
  BY <1>4 DEF FetchPanics, ContextEnds
<1>5. CASE UNCHANGED vars
  BY <1>5 DEF vars
<1> QED
  BY <1>1, <1>2, <1>3, <1>4, <1>5 DEF Next

LEMMA CallStep == CacheInv /\ [Next]_vars => CallInv'
<1> SUFFICES ASSUME CacheInv, [Next]_vars, NEW d \in Callers PROVE
               /\ pc'[d] \in {"fetching", "waiting", "peeking"} =>
                    key'[d] \in Keys /\ entry'[key'[d]] # None
               /\ pc'[d] = "fetching" => /\ entry'[key'[d]].leader = d
                                         /\ entry'[key'[d]].outcome = None
  BY DEF CallInv
<1> USE CacheAssumption DEF CacheInv, TypeOK
<1>0. CASE pc'[d] = pc[d] /\ key'[d] = key[d]
  <2>1. ASSUME pc[d] \in {"fetching", "waiting", "peeking"}
        PROVE  key[d] \in Keys /\ entry'[key[d]] # None
    BY <2>1, EntryKept DEF CallInv
  <2>2. ASSUME pc[d] = "fetching"
        PROVE  entry'[key[d]].leader = d /\ entry'[key[d]].outcome = None
    <3>0. PICK k \in Keys : k = key[d]
      BY <2>2 DEF CallInv
    <3>1. entry[k] # None /\ entry[k].leader = d /\ entry[k].outcome = None
      BY <2>2, <3>0 DEF CallInv
    <3>2. ~ FetchReturns(d)
      BY <1>0, <2>2 DEF FetchReturns, Return
    <3>3. ASSUME NEW c \in Callers, FetchReturns(c), entry[k].leader = c
          PROVE  FALSE
      BY <3>1, <3>2, <3>3
    <3>4. entry'[k] = entry[k]
      BY <3>1, <3>3, EntryStep
    <3> QED
      BY <3>0, <3>1, <3>4
  <2> QED
    BY <1>0, <2>1, <2>2
<1>1. ASSUME NEW k \in Keys, Lead(d, k)
      PROVE  pc'[d] = "fetching" /\ key'[d] = k
               /\ entry'[k] = [leader |-> d, outcome |-> None]
  BY <1>1 DEF Lead
<1>2. ASSUME NEW k \in Keys, Follow(d, k) \/ Peek(d, k)
      PROVE  pc'[d] \in {"waiting", "peeking"} /\ key'[d] = k
               /\ entry'[k] # None
  BY <1>2 DEF Follow, Peek
<1>3. ASSUME FetchReturns(d) \/ FollowerReady(d) \/ FollowerGivesUp(d)
               \/ PeekReturns(d) \/ FetchPanics(d)
      PROVE  pc'[d] \in {"idle", "unwound"}
  BY <1>3 DEF FetchReturns, FollowerReady, FollowerGivesUp, PeekReturns,
              FetchPanics, Return
<1>4. [leader |-> d, outcome |-> None] \in Entry
  BY DEF Entry
<1>5. \/ pc'[d] = pc[d] /\ key'[d] = key[d]
      \/ \E k \in Keys : Lead(d, k) \/ Follow(d, k) \/ Peek(d, k)
      \/ FetchReturns(d) \/ FollowerReady(d) \/ FollowerGivesUp(d)
      \/ PeekReturns(d) \/ FetchPanics(d)
  <2> DEFINE Same == pc'[d] = pc[d] /\ key'[d] = key[d]
  <2>1. ASSUME NEW c \in Callers \ {d}, NEW k \in Keys,
               Lead(c, k) \/ Follow(c, k) \/ Peek(c, k)
        PROVE  Same
    BY <2>1 DEF Lead, Follow, Peek
  <2>2. ASSUME NEW c \in Callers \ {d},
               FetchReturns(c) \/ FollowerReady(c) \/ FollowerGivesUp(c)
                 \/ PeekReturns(c) \/ FetchPanics(c)
        PROVE  Same
    BY <2>2 DEF FetchReturns, FollowerReady, FollowerGivesUp, PeekReturns,
                FetchPanics, Return
  <2>3. ASSUME NEW c \in Callers, ContextEnds(c) PROVE Same
    BY <2>3 DEF ContextEnds
  <2>4. CASE UNCHANGED vars
    BY <2>4 DEF vars
  <2> QED
    BY <2>1, <2>2, <2>3, <2>4 DEF Next
<1> QED
  BY <1>0, <1>1, <1>2, <1>3, <1>4, <1>5

\* How a step may change what a caller last got: nothing, the outcome its own
\* fetch stores, the outcome of a ready entry, or its own context's error.
LEMMA LastStep ==
  ASSUME CacheInv, [Next]_vars, NEW c \in Callers
  PROVE  \/ last'[c] = last[c]
         \/ \E k \in Keys : \E o \in Outcomes :
              /\ last'[c].key = k /\ last'[c].outcome = o
              /\ entry[k] # None
              /\ \/ o = "context" /\ ctx[c] = "done"
                 \/ entry'[k].outcome = o
<1> USE CacheAssumption DEF CacheInv, TypeOK
<1> DEFINE Got ==
      \E k \in Keys : \E o \in Outcomes :
              /\ last'[c].key = k /\ last'[c].outcome = o
              /\ entry[k] # None
              /\ \/ o = "context" /\ ctx[c] = "done"
                 \/ entry'[k].outcome = o
<1>1. ASSUME FetchReturns(c) PROVE Got
  <2>1. PICK o \in FetchOutcomes(c) :
          /\ entry' = [entry EXCEPT ![key[c]].outcome = o]
          /\ Return(c, key[c], o)
    BY <1>1 DEF FetchReturns
  <2>2. PICK k \in Keys : k = key[c] /\ entry[k] # None
    BY <1>1 DEF FetchReturns, CallInv
  <2>3. o \in Outcomes /\ entry[k] \in Entry
    BY <2>2 DEF FetchOutcomes, Outcomes, Errors
  <2>4. entry'[k].outcome = o
    BY <2>1, <2>2, <2>3 DEF Entry
  <2>5. last'[c] = [key |-> k, outcome |-> o]
    BY <2>1, <2>2 DEF Return
  <2> QED
    BY <2>2, <2>3, <2>4, <2>5
<1>2. ASSUME FollowerReady(c) PROVE Got
  <2>1. PICK k \in Keys : k = key[c] /\ entry[k] # None
    BY <1>2 DEF FollowerReady, CallInv
  <2>2. PICK o \in Outcomes : o = entry[k].outcome
    BY <1>2, <2>1 DEF FollowerReady, Ready, Entry
  <2>3. last'[c] = [key |-> k, outcome |-> o] /\ entry' = entry
    BY <1>2, <2>1, <2>2 DEF FollowerReady, Return
  <2> QED
    BY <2>1, <2>2, <2>3
<1>3. ASSUME FollowerGivesUp(c) PROVE Got
  <2>1. PICK k \in Keys : k = key[c] /\ entry[k] # None
    BY <1>3 DEF FollowerGivesUp, CallInv
  <2>2. last'[c] = [key |-> k, outcome |-> "context"] /\ ctx[c] = "done"
    BY <1>3, <2>1 DEF FollowerGivesUp, Return
  <2> QED
    BY <2>1, <2>2 DEF Outcomes, Errors
<1>4. ASSUME PeekReturns(c) PROVE Got \/ last'[c] = last[c]
  <2>1. CASE entry[key[c]].outcome \in Payloads
    <3>1. PICK k \in Keys : k = key[c] /\ entry[k] # None
      BY <1>4 DEF PeekReturns, CallInv
    <3>2. PICK o \in Outcomes : o = entry[k].outcome
      BY <2>1, <3>1 DEF Outcomes
    <3>3. last'[c] = [key |-> k, outcome |-> o] /\ entry' = entry
      BY <1>4, <2>1, <3>1, <3>2 DEF PeekReturns, Return
    <3> QED
      BY <3>1, <3>2, <3>3
  <2>2. CASE entry[key[c]].outcome \notin Payloads
    BY <1>4, <2>2 DEF PeekReturns
  <2> QED
    BY <2>1, <2>2
<1>5. ASSUME NEW d \in Callers \ {c},
             FetchReturns(d) \/ FollowerReady(d) \/ FollowerGivesUp(d)
               \/ PeekReturns(d)
      PROVE  last'[c] = last[c]
  BY <1>5 DEF FetchReturns, FollowerReady, FollowerGivesUp, PeekReturns, Return
<1>6. ASSUME \/ \E d \in Callers, k \in Keys :
                  Lead(d, k) \/ Follow(d, k) \/ Peek(d, k)
             \/ \E d \in Callers : FetchPanics(d) \/ ContextEnds(d)
             \/ UNCHANGED vars
      PROVE  last'[c] = last[c]
  BY <1>6 DEF Lead, Follow, Peek, FetchPanics, ContextEnds, vars
<1> QED
  BY <1>1, <1>2, <1>3, <1>4, <1>5, <1>6 DEF Next

\* The same for the bodies handed out under a key.
LEMMA AnswerStep ==
  ASSUME CacheInv, [Next]_vars, NEW k \in Keys, NEW a \in answers'[k]
  PROVE  a \in answers[k] \/ (entry[k] # None /\ entry'[k].outcome = a)
<1> USE CacheAssumption DEF CacheInv, TypeOK
<1>1. ASSUME NEW c \in Callers, FetchReturns(c)
      PROVE  a \in answers[k] \/ (entry[k] # None /\ entry'[k].outcome = a)
  <2>1. PICK o \in FetchOutcomes(c) :
          /\ entry' = [entry EXCEPT ![key[c]].outcome = o]
          /\ Return(c, key[c], o)
    BY <1>1 DEF FetchReturns
  <2>2. PICK j \in Keys : j = key[c] /\ entry[j] # None
    BY <1>1 DEF FetchReturns, CallInv
  <2>3. entry'[j].outcome = o
    BY <2>1, <2>2 DEF Entry
  <2>4. a \in answers[k] \/ (j = k /\ a = o)
    BY <2>1, <2>2 DEF Return
  <2> QED
    BY <2>2, <2>3, <2>4
<1>2. ASSUME NEW c \in Callers, FollowerReady(c)
      PROVE  a \in answers[k] \/ (entry[k] # None /\ entry'[k].outcome = a)
  BY <1>2 DEF FollowerReady, Return, Ready
<1>3. ASSUME NEW c \in Callers, FollowerGivesUp(c)
      PROVE  a \in answers[k]
  BY <1>3 DEF FollowerGivesUp, Return, Errors
<1>4. ASSUME NEW c \in Callers, PeekReturns(c)
      PROVE  a \in answers[k] \/ (entry[k] # None /\ entry'[k].outcome = a)
  BY <1>4 DEF PeekReturns, Return, Ready
<1>5. ASSUME \/ \E d \in Callers, j \in Keys :
                  Lead(d, j) \/ Follow(d, j) \/ Peek(d, j)
             \/ \E d \in Callers : FetchPanics(d) \/ ContextEnds(d)
             \/ UNCHANGED vars
      PROVE  a \in answers[k]
  BY <1>5 DEF Lead, Follow, Peek, FetchPanics, ContextEnds, vars
<1> QED
  BY <1>1, <1>2, <1>3, <1>4, <1>5 DEF Next

LEMMA OutcomeStep == CacheInv /\ [Next]_vars => OutcomeInv'
<1> SUFFICES ASSUME CacheInv, [Next]_vars, NEW k \in Keys, entry'[k] # None
             PROVE  /\ \A a \in answers'[k] : entry'[k].outcome = a
                    /\ entry'[k].outcome = "context" =>
                         ctx'[entry'[k].leader] = "done"
  BY DEF OutcomeInv
<1> USE CacheAssumption DEF CacheInv, TypeOK
<1>1. ASSUME NEW a \in answers'[k] PROVE entry'[k].outcome = a
  <2>1. CASE entry[k] # None /\ entry'[k].outcome = a
    BY <2>1
  <2>2. CASE a \in answers[k]
    <3>1. entry[k] # None /\ entry[k].outcome = a
      BY <2>2 DEF FetchInv, OutcomeInv
    <3>2. a # None
      BY <2>2 DEF Outcomes
    <3> QED
      BY <3>1, <3>2, EntryKept
  <2> QED
    BY <2>1, <2>2, AnswerStep
<1>2. ASSUME entry'[k].outcome = "context"
      PROVE  ctx'[entry'[k].leader] = "done"
  <2>1. CASE entry'[k] = entry[k]
    <3>1. entry[k].leader \in Callers
      BY <2>1 DEF Entry
    <3>2. ctx[entry[k].leader] = "done"
      BY <1>2, <2>1 DEF OutcomeInv
    <3> QED
      BY <2>1, <3>1, <3>2, ContextKept
  <2>2. ASSUME NEW c \in Callers, Lead(c, k) PROVE FALSE
    <3>1. entry'[k].outcome = None
      BY <2>2 DEF Lead
    <3> QED
      BY <1>2, <3>1 DEF Outcomes, Errors
  <2>3. ASSUME NEW c \in Callers, NEW o \in FetchOutcomes(c),
               entry[k] # None, entry[k].leader = c,
               entry'[k] = [entry[k] EXCEPT !.outcome = o]
        PROVE  ctx'[entry'[k].leader] = "done"
    <3>1. entry[k] \in Entry /\ entry'[k].leader = c /\ o = "context"
      BY <1>2, <2>3 DEF Entry
    <3>2. ctx[c] = "done"
      BY <3>1 DEF FetchOutcomes, Errors
    <3> QED
      BY <3>1, <3>2, ContextKept
  <2> QED
    BY <2>1, <2>2, <2>3, EntryStep
<1> QED
  BY <1>1, <1>2

LEMMA CauseStep == CacheInv /\ [Next]_vars => ErrorHasCause'
<1> SUFFICES ASSUME CacheInv, [Next]_vars, OutcomeInv',
                    NEW c \in Callers, last'[c].outcome \in Errors
             PROVE  \/ last'[c].outcome = "context" /\ ctx'[c] = "done"
                    \/ /\ entry'[last'[c].key] # None
                       /\ entry'[last'[c].key].outcome = last'[c].outcome
                       /\ last'[c].outcome = "context" =>
                            ctx'[entry'[last'[c].key].leader] = "done"
  BY OutcomeStep DEF ErrorHasCause
<1> USE CacheAssumption DEF CacheInv
<1>1. CASE last'[c] = last[c]
  <2>1. PICK k \in Keys : k = last[c].key
    BY <1>1 DEF TypeOK, Call, NoCall, Outcomes, Errors
  <2>2. CASE last[c].outcome = "context" /\ ctx[c] = "done"
    BY <1>1, <2>2, ContextKept
  <2>3. CASE entry[k] # None /\ entry[k].outcome = last[c].outcome
    <3>1. entry'[k] = entry[k]
      BY <1>1, <2>3, EntryKept DEF Outcomes
    <3> QED
      BY <1>1, <2>1, <2>3, <3>1 DEF OutcomeInv
  <2> QED
    BY <1>1, <2>1, <2>2, <2>3 DEF ErrorHasCause
<1>2. ASSUME NEW k \in Keys, NEW o \in Outcomes,
             last'[c].key = k, last'[c].outcome = o, entry[k] # None,
             (o = "context" /\ ctx[c] = "done") \/ entry'[k].outcome = o
      PROVE  \/ o = "context" /\ ctx'[c] = "done"
             \/ /\ entry'[k] # None
                /\ entry'[k].outcome = o
                /\ o = "context" => ctx'[entry'[k].leader] = "done"
  BY <1>2, ContextKept, EntryKept DEF OutcomeInv
<1> QED
  BY <1>1, <1>2, LastStep

-----------------------------------------------------------------------------
\* The inductive invariant holds in every reachable state.
THEOREM CacheInvariant == Spec => []CacheInv
<1>1. CacheInv /\ [Next]_vars => CacheInv'
  BY CacheTypeStep, FetchStep, CallStep, OutcomeStep, CauseStep
  DEF CacheInv
<1> QED
  BY CacheInit, <1>1, PTL DEF Spec

\* TypeOK for every set of callers, keys and bodies.
THEOREM CacheTypeCorrect == Spec => []TypeOK
<1>1. CacheInv => TypeOK
  BY DEF CacheInv
<1> QED
  BY CacheInvariant, <1>1, PTL

\* However many goroutines race on a URL, it is fetched at most once a run.
THEOREM FlightIsSingle == Spec => []SingleFlight
<1>1. CacheInv => SingleFlight
  <2> SUFFICES ASSUME CacheInv, NEW k \in Keys PROVE fetches[k] <= 1
    BY DEF SingleFlight
  <2>1. fetches[k] = 0 \/ fetches[k] = 1
    BY DEF CacheInv, FetchInv
  <2> QED
    BY <2>1
<1> QED
  BY CacheInvariant, <1>1, PTL

\* All callers that get a body for a URL get the same body.
THEOREM AnswerIsOne == Spec => []OneAnswer
<1>1. CacheInv => OneAnswer
  BY DEF CacheInv, OneAnswer, FetchInv, OutcomeInv
<1> QED
  BY CacheInvariant, <1>1, PTL

\* An error a caller sees is its own timeout or its leader's failure.
THEOREM ErrorsAreCaused == Spec => []ErrorHasCause
<1>1. CacheInv => ErrorHasCause
  BY DEF CacheInv
<1> QED
  BY CacheInvariant, <1>1, PTL

\* A stored outcome is never replaced.
THEOREM EntriesAreFinal == Spec => EntryIsFinal
<1>1. CacheInv /\ [Next]_vars =>
        [\A k \in Keys : Ready(k) => entry'[k] = entry[k]]_vars
  BY EntryKept DEF Ready
<1> QED
  BY CacheInvariant, <1>1, PTL DEF Spec, EntryIsFinal

-----------------------------------------------------------------------------
(* Lookups                                                                 *)

\* Lanes begin at their first source.
AtInv == \A l \in Lanes : at[l] >= 1

\* Requests are made of the source a lane is at, or were made of one it has left.
TriedInv ==
  /\ \A i \in tried :
       Eligible(Src(i)) /\ (Settled(i) \/ (at[i[1]] = i[2] /\ asked[i[1]] > 0))
  /\ \A l \in Lanes : Unsettled(l) /\ asked[l] > 0 => Here(l) \in tried

\* A source that is left has its find in the report, if no failure took it away.
HitInv ==
  /\ \A i \in hits : Settled(i)
  /\ \A i \in broken : Settled(i) \/ Recovers(Src(i))
  /\ \A i \in found : Settled(i) => (i \in hits <=> (i \in broken => Recovers(Src(i))))

Named(label) == {i \in Ids : Src(i).name = label[1]}

\* What entitles a source to "no results": all of it stays true from then on.
NoResults(i) ==
  \/ i \in tried /\ Recovers(Src(i))
  \/ Settled(i) /\ i \in tried /\ i \notin broken
  \/ Settled(i) /\ i \notin tried /\ Src(i).unmet = "no results"

Earned(label) ==
  /\ status[label] = "hit" => \E i \in Named(label) : i \in found
  /\ status[label] = "error" =>
       \E i \in Named(label) :
         \/ i \in broken
         \/ Src(i).unmet = "error" /\ (Src(i).after = {} => ~Eligible(Src(i)))
  /\ status[label] = "no results" => \E i \in Named(label) : NoResults(i)
  /\ status[label] = "skipped" => \A i \in Named(label) : Settled(i) /\ i \notin tried

SaidInv == \A label \in Labels : Earned(label)

\* A source that was asked and left has told so, unless it is silent about failures.
SpokenInv ==
  \A i \in tried :
    (Settled(i) /\ Src(i).fault \notin {"hush", "each"}) =>
      status[Label(Src(i), 1)] \notin {"", "skipped"}

\* The failure of a module's only source stays in its status.
FailedInv ==
  module.skips = "or fails" =>
    \A i \in broken : Settled(i) /\ status[Label(Src(i), 1)] = "error"

ReportInv == (verdict # "" => passive \/ AllSettled) /\ VerdictEarned

LookupInv ==
  /\ LookupTypeOK /\ AtInv /\ TriedInv /\ HitInv
  /\ FeedersFirst
  /\ SaidInv /\ SpokenInv /\ FailedInv
  /\ ReportInv

-----------------------------------------------------------------------------
LEMMA IdsAre ==
  ASSUME LookupTypeOK
  PROVE  /\ \A i \in Ids : /\ i[1] \in Lanes /\ i[2] \in DOMAIN module.lanes[i[1]]
                           /\ i[2] \in Nat \ {0} /\ i = <<i[1], i[2]>>
         /\ \A l \in Lanes : Unsettled(l) =>
              /\ Here(l) \in Ids /\ Here(l)[1] = l /\ Here(l)[2] = at[l]
              /\ ~Settled(Here(l))
<1>0. module.lanes \in Seq(Seq(SourceType))
  BY CatalogueAssumption DEF LookupTypeOK
<1>1. ASSUME NEW i \in Ids
      PROVE  /\ i[1] \in Lanes /\ i[2] \in DOMAIN module.lanes[i[1]]
             /\ i[2] \in Nat \ {0} /\ i = <<i[1], i[2]>>
  <2>0. PICK l \in Lanes : i \in {<<l, p>> : p \in DOMAIN module.lanes[l]}
    BY <1>1 DEF Ids, IdsOf, Lanes
  <2>1. PICK p \in DOMAIN module.lanes[l] : i = <<l, p>>
    BY <2>0
  <2>2. module.lanes[l] \in Seq(SourceType)
    BY <1>0 DEF Lanes
  <2>3. p \in Nat \ {0}
    BY <2>2
  <2> QED
    BY <2>1, <2>3
<1>2. ASSUME NEW l \in Lanes, Unsettled(l)
      PROVE  /\ Here(l) \in Ids /\ Here(l)[1] = l /\ Here(l)[2] = at[l]
             /\ ~Settled(Here(l))
  <2>1. at[l] \in Nat /\ at[l] \in DOMAIN module.lanes[l]
    BY <1>2 DEF LookupTypeOK, Unsettled
  <2>2. <<l, at[l]>> \in Ids
    BY <2>1 DEF Ids, IdsOf, Lanes
  <2> QED
    BY <2>1, <2>2 DEF Here, Settled
<1> QED
  BY <1>1, <1>2

\* A lane that is through its sources has settled all of them.
LEMMA SettledAll ==
  ASSUME LookupTypeOK, AtInv, AllSettled, NEW i \in Ids
  PROVE  Settled(i)
<1>1. /\ i[1] \in Lanes /\ i[2] \in DOMAIN module.lanes[i[1]]
  BY IdsAre
<1>2. module.lanes \in Seq(Seq(SourceType))
  BY CatalogueAssumption DEF LookupTypeOK
<1> DEFINE lane == module.lanes[i[1]]
<1>3. lane \in Seq(SourceType)
  BY <1>1, <1>2 DEF Lanes
<1>4. at[i[1]] \in Nat /\ at[i[1]] >= 1 /\ at[i[1]] \notin DOMAIN lane
  BY <1>1 DEF LookupTypeOK, AtInv, AllSettled, Unsettled
<1>5. i[2] \in DOMAIN lane
  BY <1>1
<1> HIDE DEF lane
<1> QED
  BY <1>3, <1>4, <1>5 DEF Settled

LEMMA SourceIs ==
  ASSUME LookupTypeOK, NEW i \in Ids
  PROVE  /\ Src(i) \in SourceType
         /\ Src(i).unmet \in Statuses \ {"hit"} /\ Src(i).fault \in Policies
         /\ Src(i).least \in Nat /\ Src(i).most \in Nat /\ 1 <= Src(i).least
         /\ Src(i).least <= Src(i).most
         /\ Src(i).topics \in Seq(STRING)
         /\ Src(i).topics # <<>> => Len(Src(i).topics) = Src(i).most
         /\ Label(Src(i), 1) \in Labels
         /\ \A k : Label(Src(i), k)[1] = Src(i).name
<1>1. module.lanes \in Seq(Seq(SourceType)) /\ \A j \in Ids : RequestsFit(Src(j))
  BY CatalogueAssumption DEF LookupTypeOK, Ids, Src
<1>2. i[1] \in DOMAIN module.lanes /\ i[2] \in DOMAIN module.lanes[i[1]]
  BY IdsAre DEF Lanes
<1>3. Src(i) \in SourceType
  <2>1. module.lanes[i[1]] \in Seq(SourceType)
    BY <1>1, <1>2
  <2> QED
    BY <1>2, <2>1 DEF Src, SrcOf
<1>4. /\ Src(i).unmet \in Statuses \ {"hit"} /\ Src(i).fault \in Policies
      /\ Src(i).least \in Nat /\ Src(i).most \in Nat /\ Src(i).topics \in Seq(STRING)
  BY <1>3 DEF SourceType
<1>5. /\ 1 <= Src(i).least /\ Src(i).least <= Src(i).most
      /\ Src(i).topics # <<>> => Len(Src(i).topics) = Src(i).most
  BY <1>1 DEF RequestsFit
<1>6. Label(Src(i), 1) \in Labels
  <2>1. CASE Src(i).topics = <<>>
    BY <2>1 DEF Label, Labels
  <2>2. CASE Src(i).topics # <<>>
    <3>1. 1 \in DOMAIN Src(i).topics
      BY <1>4, <1>5, <2>2
    <3> DEFINE own(j) == {Label(Src(j), k) : k \in DOMAIN Src(j).topics}
    <3>2. Label(Src(i), 1) \in own(i)
      BY <3>1
    <3>3. Labels = {<<Src(j).name, "">> : j \in Ids} \cup UNION {own(j) : j \in Ids}
      BY DEF Labels
    <3> HIDE DEF own
    <3> QED
      BY <3>2, <3>3
  <2> QED
    BY <2>1, <2>2
<1>7. \A k : Label(Src(i), k)[1] = Src(i).name
  BY DEF Label
<1> QED
  BY <1>3, <1>4, <1>5, <1>6, <1>7

\* Sources that share a name are never passed by.
LEMMA NamesDiffer ==
  ASSUME LookupTypeOK, NEW i \in Ids, NEW j \in Ids, i # j, Src(i).name = Src(j).name
  PROVE  Eligible(Src(i)) /\ Src(i).after = {}
<1>1. ~Conditional(Src(i))
  BY CatalogueAssumption DEF LookupTypeOK, Ids, Src, NamesFit
<1> QED
  BY <1>1 DEF Conditional, Eligible

LEMMA SetupStays ==
  ASSUME [LookupNext]_lookupVars
  PROVE  /\ module' = module /\ region' = region /\ keys' = keys /\ passive' = passive
         /\ Ids' = Ids /\ Lanes' = Lanes /\ Labels' = Labels
         /\ \A i : Src(i)' = Src(i)
         /\ \A i : Eligible(Src(i))' <=> Eligible(Src(i))
         /\ \A s : Feeders(s)' = Feeders(s)
         /\ \A label : Named(label)' = Named(label)
<1>1. module' = module /\ region' = region /\ keys' = keys /\ passive' = passive
  BY DEF LookupNext, Step, PassBy, Answered, FailedForGood, FailedOnce, Flooded, Finish,
         EndContext, RunPassive, Report, setup, lookupVars
<1>2. Ids' = Ids /\ Lanes' = Lanes
  BY <1>1 DEF Ids, Lanes
<1>3. \A i : Src(i)' = Src(i)
  BY <1>1 DEF Src
<1>4. Labels' = Labels
  BY <1>1 DEF Labels, Ids, Src
<1>5. \A i : Eligible(Src(i))' <=> Eligible(Src(i))
  BY <1>1, <1>3 DEF Eligible
<1>6. \A s : Feeders(s)' = Feeders(s)
  BY <1>2, <1>3 DEF Feeders
<1>7. \A label : Named(label)' = Named(label)
  BY <1>2, <1>3 DEF Named
<1> QED
  BY <1>1, <1>2, <1>3, <1>4, <1>5, <1>6, <1>7

\* What a lane's step may touch: the sets by the source it is at, its own counters.
LEMMA WorkIs ==
  ASSUME LookupTypeOK, NEW l \in Lanes, Step(l)
  PROVE  /\ Unsettled(l) /\ ~passive /\ UNCHANGED <<context, verdict>>
         /\ \/ UNCHANGED at
            \/ at' = [at EXCEPT ![l] = @ + 1] /\ asked' = [asked EXCEPT ![l] = 0]
         /\ tried' = tried \/ tried' = tried \cup {Here(l)}
         /\ found' = found \/ (found' = found \cup {Here(l)} /\ tried' = tried \cup {Here(l)})
         /\ broken' = broken \/ (broken' = broken \cup {Here(l)} /\ tried' = tried \cup {Here(l)})
         /\ hits' = hits \/ (hits' = hits \cup {Here(l)} /\ Here(l) \in found)
<1>1. CASE PassBy(l)
  BY <1>1 DEF PassBy, Advance
<1>2. ASSUME NEW hit \in BOOLEAN, Answered(l, hit)
      PROVE  /\ Unsettled(l) /\ ~passive /\ UNCHANGED <<context, verdict, at, broken, hits>>
             /\ tried' = tried \cup {Here(l)} /\ (found' = found \/ found' = found \cup {Here(l)})
  BY <1>2 DEF Answered, Asking
<1>3. CASE FailedForGood(l)
  BY <1>3 DEF FailedForGood, Asking, Advance
<1>4. CASE FailedOnce(l)
  BY <1>4 DEF FailedOnce, Asking
<1>5. CASE Flooded(l)
  BY <1>5 DEF Flooded, Asking
<1>6. CASE Finish(l)
  BY <1>6 DEF Finish, Through, Advance
<1> QED
  BY <1>1, <1>2, <1>3, <1>4, <1>5, <1>6 DEF Step

\* Whatever else steps leaves the sources alone.
LEMMA OtherIs ==
  ASSUME EndContext \/ RunPassive \/ Report \/ UNCHANGED lookupVars
  PROVE  UNCHANGED <<at, asked, tried, found, broken, status, hits>>
BY DEF EndContext, RunPassive, Report, lookupVars

\* Sources that are left stay left, with what they did; nothing is taken back.
LEMMA Grows ==
  ASSUME LookupTypeOK, [LookupNext]_lookupVars
  PROVE  /\ \A i \in Ids : Settled(i) => /\ Settled(i)'
                                         /\ (i \in tried' <=> i \in tried)
                                         /\ (i \in found' <=> i \in found)
                                         /\ (i \in broken' <=> i \in broken)
                                         /\ (i \in hits' <=> i \in hits)
         /\ tried \subseteq tried' /\ found \subseteq found' /\ hits \subseteq hits'
<1>1. ASSUME NEW l \in Lanes, Step(l)
      PROVE  /\ \A i \in Ids : Settled(i) => /\ Settled(i)'
                                         /\ (i \in tried' <=> i \in tried)
                                         /\ (i \in found' <=> i \in found)
                                         /\ (i \in broken' <=> i \in broken)
                                         /\ (i \in hits' <=> i \in hits)
             /\ tried \subseteq tried' /\ found \subseteq found' /\ hits \subseteq hits'
  <2>1. /\ UNCHANGED at \/ at' = [at EXCEPT ![l] = @ + 1]
        /\ tried' = tried \/ tried' = tried \cup {Here(l)}
        /\ found' = found \/ found' = found \cup {Here(l)}
        /\ broken' = broken \/ broken' = broken \cup {Here(l)}
        /\ hits' = hits \/ hits' = hits \cup {Here(l)}
    BY <1>1, WorkIs
  <2>2. ~Settled(Here(l))
    BY <1>1, WorkIs, IdsAre
  <2>3. ASSUME NEW i \in Ids, Settled(i) PROVE Settled(i)' /\ i # Here(l)
    <3>1. i[1] \in Lanes /\ i[2] \in Nat
      BY IdsAre
    <3>2. at[i[1]] \in Nat /\ at'[i[1]] \in Nat /\ at[i[1]] <= at'[i[1]]
      BY <2>1, <3>1 DEF LookupTypeOK
    <3>3. at'[i[1]] > i[2]
      BY <2>3, <3>1, <3>2 DEF Settled
    <3> QED
      BY <2>2, <2>3, <3>3 DEF Settled
  <2> QED
    BY <2>1, <2>3
<1>2. CASE EndContext \/ RunPassive \/ Report \/ UNCHANGED lookupVars
  BY <1>2, OtherIs DEF Settled
<1> QED
  BY <1>1, <1>2 DEF LookupNext

LEMMA LookupTypeInit == LookupInit => LookupTypeOK
<1> SUFFICES ASSUME LookupInit PROVE LookupTypeOK
  OBVIOUS
<1>1. passive \in BOOLEAN
  BY DEF LookupInit
<1>2. at \in [Lanes -> Nat] /\ asked \in [Lanes -> Nat] /\ status \in [Labels -> Statuses]
  BY DEF LookupInit, Statuses
<1>3. /\ module \in Catalogue /\ region \in RegionsOf(module) /\ keys \subseteq KeysOf(module)
      /\ context = "live" /\ verdict = ""
      /\ tried = {} /\ found = {} /\ broken = {} /\ hits = {}
  BY DEF LookupInit
<1> QED
  BY <1>1, <1>2, <1>3 DEF LookupTypeOK, Verdicts

LEMMA LookupTypeStep ==
  ASSUME LookupTypeOK, [LookupNext]_lookupVars
  PROVE  LookupTypeOK'
<1>s. /\ module' = module /\ region' = region /\ keys' = keys /\ passive' = passive
      /\ Ids' = Ids /\ Lanes' = Lanes /\ Labels' = Labels
  BY SetupStays
<1>m. module' \in Catalogue /\ region' \in RegionsOf(module') /\ keys' \subseteq KeysOf(module')
      /\ passive' \in BOOLEAN
  BY <1>s DEF LookupTypeOK
<1>t. /\ at \in [Lanes -> Nat] /\ asked \in [Lanes -> Nat]
      /\ tried \subseteq Ids /\ found \subseteq tried /\ broken \subseteq tried
      /\ hits \subseteq found /\ status \in [Labels -> Statuses]
      /\ context \in {"live", "ended"} /\ verdict \in Verdicts
  BY DEF LookupTypeOK
<1>1. ASSUME NEW l \in Lanes, Step(l), NEW what \in Statuses, NEW label,
             UNCHANGED status \/ Say(label, what),
             asked' \in [Lanes -> Nat]
      PROVE  LookupTypeOK'
  <2>1. Here(l) \in Ids
    BY <1>1, WorkIs, IdsAre
  <2>2. /\ UNCHANGED <<context, verdict>>
        /\ UNCHANGED at \/ at' = [at EXCEPT ![l] = @ + 1]
        /\ tried' = tried \/ tried' = tried \cup {Here(l)}
        /\ found' = found \/ (found' = found \cup {Here(l)} /\ tried' = tried \cup {Here(l)})
        /\ broken' = broken \/ (broken' = broken \cup {Here(l)} /\ tried' = tried \cup {Here(l)})
        /\ hits' = hits \/ (hits' = hits \cup {Here(l)} /\ Here(l) \in found)
    BY <1>1, WorkIs
  <2>3. status' \in [Labels -> Statuses]
    BY <1>1, <1>t DEF Say
  <2>4. at' \in [Lanes -> Nat]
    BY <2>2, <1>t
  <2>5. tried' \subseteq Ids /\ found' \subseteq tried' /\ broken' \subseteq tried'
        /\ hits' \subseteq found'
    BY <2>1, <2>2, <1>t
  <2> QED
    BY <2>2, <2>3, <2>4, <2>5, <1>1, <1>s, <1>m, <1>t DEF LookupTypeOK
<1>h. ASSUME NEW l \in Lanes, Step(l)
      PROVE  /\ Src(Here(l)).unmet \in Statuses /\ Src(Here(l)).most \in Nat
             /\ asked[l] + 1 \in Nat
  BY <1>h, <1>t, WorkIs, IdsAre, SourceIs
<1>2. ASSUME NEW l \in Lanes, PassBy(l) PROVE LookupTypeOK'
  <2>1. Step(l)
    BY <1>2 DEF Step
  <2>2. UNCHANGED status \/ Say(<<Src(Here(l)).name, "">>, Src(Here(l)).unmet)
    BY <1>2 DEF PassBy
  <2>3. asked' \in [Lanes -> Nat]
    BY <1>2, <1>t DEF PassBy, Advance
  <2> QED
    BY <1>1, <1>h, <2>1, <2>2, <2>3
<1>3. ASSUME NEW l \in Lanes, NEW hit \in BOOLEAN, Answered(l, hit) PROVE LookupTypeOK'
  <2>1. Step(l)
    BY <1>3 DEF Step
  <2> DEFINE what == IF hit THEN "hit" ELSE "no results"
             label == Label(Src(Here(l)), asked[l] + 1)
  <2>2. UNCHANGED status \/ Say(label, what)
    BY <1>3 DEF Answered
  <2>3. asked' \in [Lanes -> Nat]
    BY <1>3, <1>t, <1>h, <2>1 DEF Answered
  <2>4. what \in Statuses
    BY DEF Statuses
  <2> HIDE DEF what, label
  <2> QED
    BY <1>1, <2>1, <2>2, <2>3, <2>4
<1>4. ASSUME NEW l \in Lanes, FailedForGood(l) \/ FailedOnce(l) PROVE LookupTypeOK'
  <2>1. Step(l)
    BY <1>4 DEF Step
  <2>2. \E label : UNCHANGED status \/ Say(label, "error")
    BY <1>4 DEF FailedForGood, FailedOnce
  <2>3. asked' \in [Lanes -> Nat]
    BY <1>4, <1>t, <1>h, <2>1 DEF FailedForGood, FailedOnce, Advance
  <2> QED
    BY <1>1, <2>1, <2>2, <2>3 DEF Statuses
<1>5. ASSUME NEW l \in Lanes, Flooded(l) PROVE LookupTypeOK'
  <2>1. Step(l)
    BY <1>5 DEF Step
  <2>2. UNCHANGED status
    BY <1>5 DEF Flooded
  <2>3. asked' \in [Lanes -> Nat]
    BY <1>5, <1>t DEF Flooded
  <2> QED
    BY <1>1, <2>1, <2>2, <2>3 DEF Statuses
<1>6. ASSUME NEW l \in Lanes, Finish(l) PROVE LookupTypeOK'
  <2>1. Step(l)
    BY <1>6 DEF Step
  <2> DEFINE what == IF Here(l) \in found THEN "hit" ELSE "no results"
             label == Label(Src(Here(l)), 1)
  <2>2. UNCHANGED status \/ Say(label, what)
    BY <1>6 DEF Finish, SayWhetherFound
  <2>3. asked' \in [Lanes -> Nat]
    BY <1>6, <1>t DEF Finish, Advance
  <2>4. what \in Statuses
    BY DEF Statuses
  <2> HIDE DEF what, label
  <2> QED
    BY <1>1, <2>1, <2>2, <2>3, <2>4
<1>7. ASSUME UNCHANGED <<at, asked, tried, found, broken, status, hits>>,
             context' \in {"live", "ended"}, verdict' \in Verdicts
      PROVE  LookupTypeOK'
  BY <1>7, <1>s, <1>m, <1>t DEF LookupTypeOK
<1>8. CASE EndContext \/ RunPassive \/ Report \/ UNCHANGED lookupVars
  <2>1. module.passive \in Verdicts
    BY CatalogueAssumption DEF LookupTypeOK
  <2>2. Verdict \in Verdicts
    BY DEF Verdict, Verdicts
  <2>3. context' \in {"live", "ended"}
    BY <1>8, <1>t DEF EndContext, RunPassive, Report, lookupVars
  <2>4. verdict' \in Verdicts
    BY <1>8, <2>1, <2>2, <1>t DEF EndContext, RunPassive, Report, lookupVars, Verdicts
  <2> QED
    BY <1>7, <1>8, <2>3, <2>4, OtherIs
<1> QED
  BY <1>2, <1>3, <1>4, <1>5, <1>6, <1>8 DEF LookupNext, Step

-----------------------------------------------------------------------------
\* A lane's step asks the source it is at, or leaves it.
LEMMA AskOrLeave ==
  ASSUME LookupTypeOK, NEW l \in Lanes, Step(l)
  PROVE  \/ /\ Advance(l)
            /\ tried' = tried \/ (tried' = tried \cup {Here(l)} /\ Asking(l))
         \/ /\ UNCHANGED at /\ tried' = tried \cup {Here(l)} /\ Asking(l)
            /\ \E n \in Nat \ {0} : asked' = [asked EXCEPT ![l] = n]
<1>0. /\ asked \in [Lanes -> Nat] /\ Src(Here(l)).most \in Nat \ {0}
  <2>1. Here(l) \in Ids
    BY WorkIs, IdsAre
  <2> QED
    BY <2>1, SourceIs DEF LookupTypeOK
<1>1. CASE PassBy(l) \/ FailedForGood(l) \/ Finish(l)
  BY <1>1 DEF PassBy, FailedForGood, Finish
<1>2. ASSUME NEW hit \in BOOLEAN, Answered(l, hit)
      PROVE  /\ UNCHANGED at /\ tried' = tried \cup {Here(l)} /\ Asking(l)
             /\ \E n \in Nat \ {0} : asked' = [asked EXCEPT ![l] = n]
  <2> DEFINE n == IF Src(Here(l)).fault = "retry" THEN Src(Here(l)).most ELSE asked[l] + 1
  <2>1. n \in Nat \ {0}
    BY <1>0
  <2>2. asked' = [asked EXCEPT ![l] = n]
    BY <1>2 DEF Answered
  <2> HIDE DEF n
  <2> QED
    BY <1>2, <2>1, <2>2 DEF Answered
<1>3. CASE FailedOnce(l)
  <2>1. asked[l] + 1 \in Nat \ {0} /\ asked' = [asked EXCEPT ![l] = asked[l] + 1]
    BY <1>0, <1>3 DEF FailedOnce
  <2> QED
    BY <1>3, <2>1 DEF FailedOnce
<1>4. CASE Flooded(l)
  <2>1. 1 \in Nat \ {0} /\ asked' = [asked EXCEPT ![l] = 1]
    BY <1>4 DEF Flooded
  <2> QED
    BY <1>4, <2>1 DEF Flooded
<1> QED
  BY <1>1, <1>2, <1>3, <1>4 DEF Step

\* The sources a lane is not at keep their state.
LEMMA OthersKeep ==
  ASSUME LookupTypeOK, NEW l \in Lanes, Step(l), NEW i \in Ids, i # Here(l)
  PROVE  /\ Settled(i)' <=> Settled(i)
         /\ i \in tried' <=> i \in tried
         /\ i \in found' <=> i \in found
         /\ i \in broken' <=> i \in broken
         /\ i \in hits' <=> i \in hits
<1>1. /\ i[1] \in Lanes /\ i[2] \in Nat /\ i = <<i[1], i[2]>>
      /\ at \in [Lanes -> Nat]
  BY IdsAre DEF LookupTypeOK
<1>2. UNCHANGED at \/ at' = [at EXCEPT ![l] = @ + 1]
  BY WorkIs
<1>3. i[1] = l => i[2] # at[l]
  BY <1>1 DEF Here
<1>4. Settled(i)' <=> Settled(i)
  <2>1. CASE i[1] # l
    BY <1>1, <1>2, <2>1 DEF Settled
  <2>2. CASE i[1] = l
    <3>1. at[l] \in Nat /\ (at'[l] = at[l] \/ at'[l] = at[l] + 1)
      BY <1>1, <1>2
    <3>2. at'[l] > i[2] <=> at[l] > i[2]
      BY <1>1, <1>3, <2>2, <3>1
    <3> QED
      BY <2>2, <3>2 DEF Settled
  <2> QED
    BY <2>1, <2>2
<1>5. /\ tried' = tried \/ tried' = tried \cup {Here(l)}
      /\ found' = found \/ found' = found \cup {Here(l)}
      /\ broken' = broken \/ broken' = broken \cup {Here(l)}
      /\ hits' = hits \/ hits' = hits \cup {Here(l)}
  BY WorkIs
<1> QED
  BY <1>4, <1>5

\* A source that is left by a step is settled; one that is asked is not yet.
LEMMA HereAfter ==
  ASSUME LookupTypeOK, NEW l \in Lanes, Unsettled(l), NEW h, h = Here(l)
  PROVE  /\ Advance(l) => Settled(h)'
         /\ UNCHANGED at => ~Settled(h)'
<1>1. h \in Ids /\ h[1] = l /\ h[2] = at[l] /\ at \in [Lanes -> Nat]
  BY IdsAre DEF LookupTypeOK
<1> QED
  BY <1>1 DEF Advance, Settled

LEMMA AtStep ==
  ASSUME LookupTypeOK, AtInv, [LookupNext]_lookupVars
  PROVE  AtInv'
<1>s. Lanes' = Lanes
  BY SetupStays
<1>1. ASSUME NEW l \in Lanes, Step(l) PROVE AtInv'
  <2>1. UNCHANGED at \/ at' = [at EXCEPT ![l] = @ + 1]
    BY <1>1, WorkIs
  <2> QED
    BY <2>1, <1>s DEF AtInv, LookupTypeOK
<1>2. CASE EndContext \/ RunPassive \/ Report \/ UNCHANGED lookupVars
  BY <1>2, <1>s, OtherIs DEF AtInv
<1> QED
  BY <1>1, <1>2 DEF LookupNext

LEMMA TriedStep ==
  ASSUME LookupTypeOK, TriedInv, [LookupNext]_lookupVars
  PROVE  TriedInv'
<1>s. /\ Lanes' = Lanes /\ module' = module /\ \A i : Eligible(Src(i))' <=> Eligible(Src(i))
  BY SetupStays
<1>a. \A i \in tried :
        /\ i \in Ids /\ Eligible(Src(i))
        /\ Settled(i) \/ (at[i[1]] = i[2] /\ asked[i[1]] > 0)
  BY DEF TriedInv, LookupTypeOK
<1>b. \A l \in Lanes : Unsettled(l) /\ asked[l] > 0 => Here(l) \in tried
  BY DEF TriedInv
<1>1. ASSUME NEW l \in Lanes, Step(l) PROVE TriedInv'
  <2>1. Unsettled(l) /\ at \in [Lanes -> Nat] /\ asked \in [Lanes -> Nat]
    BY <1>1, WorkIs DEF LookupTypeOK
  <2>2. PICK h : h = Here(l)
    OBVIOUS
  <2>3. h \in Ids /\ h[1] = l /\ h[2] = at[l]
    BY <2>1, <2>2, IdsAre
  <2>4. Asking(l) => Eligible(Src(h))
    BY <2>2 DEF Asking
  <2>5. CASE Advance(l) /\ (tried' = tried \/ (tried' = tried \cup {h} /\ Asking(l)))
    <3>1. Settled(h)'
      BY <2>1, <2>2, <2>5, HereAfter
    <3>2. /\ \A k \in Lanes : k # l => at'[k] = at[k] /\ asked'[k] = asked[k]
          /\ asked'[l] = 0
      BY <2>1, <2>5 DEF Advance
    <3>3. ASSUME NEW i \in tried'
          PROVE  Eligible(Src(i)) /\ (Settled(i)' \/ (at'[i[1]] = i[2] /\ asked'[i[1]] > 0))
      <4>1. CASE i = h
        BY <2>4, <2>5, <3>1, <4>1, <1>a
      <4>2. CASE i # h
        <5>1. i \in tried
          BY <2>5, <4>2
        <5>2. Settled(i)' <=> Settled(i)
          BY <5>1, <4>2, <2>2, <1>1, <1>a, OthersKeep
        <5>3. CASE ~Settled(i)
          <6>1. i[1] \in Lanes /\ i = <<i[1], i[2]>> /\ h = <<l, at[l]>>
            BY <5>1, <1>a, <2>2, IdsAre DEF Here
          <6>2. i[1] # l
            BY <5>1, <5>3, <6>1, <4>2, <1>a
          <6> QED
            BY <5>1, <5>3, <6>1, <6>2, <3>2, <1>a
        <5> QED
          BY <5>1, <5>2, <5>3, <1>a
      <4> QED
        BY <4>1, <4>2
    <3>4. ASSUME NEW k \in Lanes, Unsettled(k)', asked'[k] > 0 PROVE Here(k)' \in tried'
      <4>1. k # l
        BY <3>2, <3>4
      <4>2. at'[k] = at[k] /\ asked'[k] = asked[k]
        BY <3>2, <4>1
      <4>3. Unsettled(k) /\ asked[k] > 0 /\ Here(k)' = Here(k)
        BY <3>4, <4>2, <1>s DEF Unsettled, Here
      <4> QED
        BY <4>3, <2>5, <1>b
    <3> QED
      BY <3>3, <3>4, <1>s DEF TriedInv
  <2>6. ASSUME UNCHANGED at, tried' = tried \cup {h}, Asking(l),
               NEW n \in Nat \ {0}, asked' = [asked EXCEPT ![l] = n]
        PROVE  TriedInv'
    <3>1. /\ \A k \in Lanes : k # l => asked'[k] = asked[k]
          /\ asked'[l] = n
      BY <2>1, <2>6
    <3>2. ASSUME NEW i \in tried'
          PROVE  Eligible(Src(i)) /\ (Settled(i)' \/ (at'[i[1]] = i[2] /\ asked'[i[1]] > 0))
      <4>1. CASE i = h
        BY <2>3, <2>4, <2>6, <3>1, <4>1
      <4>2. CASE i # h
        <5>1. i \in tried /\ i[1] \in Lanes
          BY <2>6, <4>2, <1>a, IdsAre
        <5>2. Settled(i)' <=> Settled(i)
          BY <2>6 DEF Settled
        <5>3. asked[i[1]] > 0 => asked'[i[1]] > 0
          BY <5>1, <3>1
        <5> QED
          BY <5>1, <5>2, <5>3, <2>6, <1>a
      <4> QED
        BY <4>1, <4>2
    <3>3. ASSUME NEW k \in Lanes, Unsettled(k)', asked'[k] > 0 PROVE Here(k)' \in tried'
      <4>1. Here(k)' = Here(k) /\ Unsettled(k)
        BY <2>6, <3>3, <1>s DEF Here, Unsettled
      <4>2. CASE k = l
        BY <4>1, <4>2, <2>2, <2>6
      <4>3. CASE k # l
        BY <4>1, <4>3, <3>1, <3>3, <2>6, <1>b
      <4> QED
        BY <4>2, <4>3
    <3> QED
      BY <3>2, <3>3, <1>s DEF TriedInv
  <2> QED
    BY <2>2, <2>5, <2>6, <1>1, AskOrLeave
<1>2. CASE EndContext \/ RunPassive \/ Report \/ UNCHANGED lookupVars
  <2>1. UNCHANGED <<at, asked, tried>>
    BY <1>2, OtherIs
  <2> QED
    BY <2>1, <1>s, <1>a, <1>b DEF TriedInv, Settled, Unsettled, Here
<1> QED
  BY <1>1, <1>2 DEF LookupNext

-----------------------------------------------------------------------------
\* The source a lane is at was asked if the lane counted a request, and only then.
LEMMA HereTried ==
  ASSUME LookupTypeOK, TriedInv, NEW l \in Lanes, Unsettled(l)
  PROVE  Here(l) \in tried <=> asked[l] > 0
<1>1. Here(l) \in Ids /\ Here(l)[1] = l /\ ~Settled(Here(l))
  BY IdsAre
<1> QED
  BY <1>1 DEF TriedInv

LEMMA HitStep ==
  ASSUME LookupTypeOK, TriedInv, HitInv, [LookupNext]_lookupVars
  PROVE  HitInv'
<1>s. \A i : Src(i)' = Src(i) /\ (Recovers(Src(i))' <=> Recovers(Src(i)))
  BY SetupStays DEF Recovers
<1>t. LookupTypeOK' /\ Ids' = Ids
  BY LookupTypeStep, SetupStays
\* The invariant, one source at a time.
<1> DEFINE Kept(i) ==
      /\ i \in hits => Settled(i)
      /\ i \in broken => Settled(i) \/ Recovers(Src(i))
      /\ i \in found => (Settled(i) => (i \in hits <=> (i \in broken => Recovers(Src(i)))))
<1>a. \A i \in Ids : Kept(i)
  BY DEF HitInv
<1>b. ASSUME \A i \in Ids : Kept(i)' PROVE HitInv'
  BY <1>b, <1>t DEF HitInv, LookupTypeOK
<1>1. ASSUME NEW l \in Lanes, Step(l) PROVE HitInv'
  <2>1. PICK h : h = Here(l)
    OBVIOUS
  <2>2. Unsettled(l) /\ h \in Ids /\ ~Settled(h)
    BY <1>1, <2>1, WorkIs, IdsAre
  <2>3. ASSUME NEW i \in Ids, i # h PROVE Kept(i)'
    <3>1. /\ Settled(i)' <=> Settled(i)
          /\ i \in found' <=> i \in found
          /\ i \in broken' <=> i \in broken
          /\ i \in hits' <=> i \in hits
      BY <1>1, <2>1, <2>3, OthersKeep
    <3>2. Kept(i)
      BY <1>a
    <3> QED
      BY <3>1, <3>2, <1>s
  <2>4. h \notin hits /\ (h \in broken => Recovers(Src(h))) /\ (h \in tried <=> asked[l] > 0)
    BY <1>a, <2>1, <2>2, HereTried
  <2>5. (Advance(l) => Settled(h)') /\ (UNCHANGED at => ~Settled(h)')
    BY <2>1, <2>2, HereAfter
  <2>6. Kept(h)'
    <3>1. CASE PassBy(l)
      <4>0. asked[l] = 0
        BY <3>1 DEF PassBy
      <4>1. h \notin tried
        BY <2>4, <4>0
      <4>2. h \notin hits' /\ h \notin found' /\ h \notin broken'
        BY <3>1, <4>1 DEF PassBy, LookupTypeOK
      <4> QED
        BY <4>2
    <3>2. ASSUME UNCHANGED <<at, hits>>,
                 UNCHANGED broken \/ Recovers(Src(h))
          PROVE  Kept(h)'
      BY <3>2, <2>4, <2>5, <1>s
    <3>3. ASSUME NEW hit \in BOOLEAN, Answered(l, hit) PROVE Kept(h)'
      BY <3>2, <3>3 DEF Answered
    <3>4. CASE FailedOnce(l)
      BY <3>2, <3>4, <2>1 DEF FailedOnce, Recovers
    <3>5. CASE Flooded(l)
      BY <3>2, <3>5 DEF Flooded
    <3>6. CASE FailedForGood(l)
      <4>1. h \in broken' /\ ~Recovers(Src(h)) /\ h \notin hits' /\ Settled(h)'
        BY <3>6, <2>1, <2>4, <2>5 DEF FailedForGood, Recovers
      <4> QED
        BY <4>1, <1>s
    <3>7. CASE Finish(l)
      <4>1. /\ h \in hits' <=> h \in found
            /\ h \in found' <=> h \in found
            /\ h \in broken' <=> h \in broken
            /\ Settled(h)'
        BY <3>7, <2>1, <2>4, <2>5 DEF Finish
      <4> QED
        BY <4>1, <2>4, <1>s
    <3> QED
      BY <1>1, <3>1, <3>3, <3>4, <3>5, <3>6, <3>7 DEF Step
  <2>7. ASSUME NEW i \in Ids PROVE Kept(i)'
    BY <2>3, <2>6
  <2> HIDE DEF Kept
  <2> QED
    BY <2>7, <1>b
<1>2. CASE EndContext \/ RunPassive \/ Report \/ UNCHANGED lookupVars
  <2>1. UNCHANGED <<at, found, broken, hits>>
    BY <1>2, OtherIs
  <2>2. ASSUME NEW i \in Ids PROVE Kept(i)'
    <3>1. Kept(i) /\ (Settled(i)' <=> Settled(i))
      BY <1>a, <2>1 DEF Settled
    <3> QED
      BY <3>1, <2>1, <1>s
  <2> HIDE DEF Kept
  <2> QED
    BY <2>2, <1>b
<1> QED
  BY <1>1, <1>2 DEF LookupNext

LEMMA FeedersStep ==
  ASSUME LookupTypeOK, FeedersFirst, [LookupNext]_lookupVars
  PROVE  FeedersFirst'
<1>s. /\ \A i : Src(i)' = Src(i)
      /\ \A s : Feeders(s)' = Feeders(s) /\ Feeders(s) \subseteq Ids
  BY SetupStays DEF Feeders
<1>g. /\ \A i \in Ids : Settled(i) => Settled(i)'
      /\ hits \subseteq hits'
  BY Grows
<1>1. ASSUME NEW i \in tried', Src(i).after # {},
             AllIn(Feeders(Src(i))), Feeders(Src(i)) \cap hits # {}
      PROVE  AllIn(Feeders(Src(i)))' /\ (Feeders(Src(i)) \cap hits # {})'
  <2>1. (Feeders(Src(i)))' = Feeders(Src(i))
    BY <1>s DEF Feeders
  <2>2. \A j \in Feeders(Src(i)) : Settled(j)'
    BY <1>1, <1>s, <1>g DEF AllIn
  <2> QED
    BY <1>1, <1>g, <2>1, <2>2 DEF AllIn
<1>2. ASSUME NEW i \in tried', Src(i).after # {}
      PROVE  AllIn(Feeders(Src(i))) /\ Feeders(Src(i)) \cap hits # {}
  <2>1. CASE i \in tried
    BY <1>2, <2>1 DEF FeedersFirst
  <2>2. ASSUME NEW l \in Lanes, Step(l), i \notin tried
        PROVE  AllIn(Feeders(Src(i))) /\ Feeders(Src(i)) \cap hits # {}
    <3>1. i = Here(l) /\ Asking(l)
      BY <1>2, <2>2, AskOrLeave
    <3> QED
      BY <1>2, <3>1 DEF Asking, Fed
  <2> QED
    BY <2>1, <2>2, OtherIs DEF LookupNext
<1> QED
  BY <1>1, <1>2, <1>s DEF FeedersFirst

-----------------------------------------------------------------------------
\* What a report says of a label stays earned while it says it.
LEMMA EarnedKept ==
  ASSUME LookupTypeOK, [LookupNext]_lookupVars, NEW label \in Labels, Earned(label),
         status'[label] = status[label]
  PROVE  Earned(label)'
<1>s. /\ \A i : Src(i)' = Src(i) /\ (Recovers(Src(i))' <=> Recovers(Src(i)))
      /\ \A i : Eligible(Src(i))' <=> Eligible(Src(i))
      /\ Named(label)' = Named(label)
  BY SetupStays DEF Recovers
<1>g. /\ \A i \in Ids : Settled(i) => /\ Settled(i)'
                                      /\ (i \in tried' <=> i \in tried)
                                      /\ (i \in broken' <=> i \in broken)
      /\ tried \subseteq tried' /\ found \subseteq found' /\ Named(label) \subseteq Ids
  BY Grows DEF Named
<1>b. broken \subseteq broken'
  BY WorkIs, OtherIs DEF LookupNext
<1>1. ASSUME NEW i \in Named(label), NoResults(i) PROVE NoResults(i)'
  <2>1. CASE i \in tried /\ Recovers(Src(i))
    BY <2>1, <1>g, <1>s DEF NoResults
  <2>2. CASE Settled(i)
    BY <1>1, <2>2, <1>g, <1>s DEF NoResults
  <2> QED
    BY <1>1, <2>1, <2>2 DEF NoResults
<1>2. status'[label] = "hit" => \E i \in Named(label) : i \in found'
  BY <1>g DEF Earned
<1>3. status'[label] = "error" =>
         \E i \in Named(label) :
           \/ i \in broken'
           \/ Src(i).unmet = "error" /\ (Src(i).after = {} => ~Eligible(Src(i)))
  BY <1>b DEF Earned
<1>4. status'[label] = "no results" => \E i \in Named(label) : NoResults(i)'
  BY <1>1 DEF Earned
<1>5. status'[label] = "skipped" => \A i \in Named(label) : Settled(i)' /\ i \notin tried'
  BY <1>g DEF Earned
<1> QED
  BY <1>2, <1>3, <1>4, <1>5, <1>s DEF Earned

\* A lane's step says at most one thing, of the source it is at.
LEMMA SayIs ==
  ASSUME LookupTypeOK, NEW l \in Lanes, Step(l), NEW h, h = Here(l)
  PROVE  \/ UNCHANGED status
         \/ \E label, what :
              /\ Say(label, what) /\ label[1] = Src(h).name
              /\ \/ what \notin {"", "skipped"}
                 \/ ~Eligible(Src(h))
                 \/ Src(h).after # {}
<1>1. h \in Ids /\ \A k : Label(Src(h), k)[1] = Src(h).name
  BY WorkIs, IdsAre, SourceIs
<1> DEFINE Told == \E label, what :
                     /\ Say(label, what) /\ label[1] = Src(h).name
                     /\ \/ what \notin {"", "skipped"}
                        \/ ~Eligible(Src(h))
                        \/ Src(h).after # {}
<1>2. ASSUME NEW k, NEW what, Say(Label(Src(h), k), what), what \notin {"", "skipped"}
      PROVE  Told
  BY <1>1, <1>2
<1>3. CASE PassBy(l)
  <2>1. ~Eligible(Src(h)) \/ Src(h).after # {}
    BY <1>3 DEF PassBy, Unfed
  <2>2. UNCHANGED status \/ Say(<<Src(h).name, "">>, Src(h).unmet)
    BY <1>3 DEF PassBy
  <2>3. <<Src(h).name, "">>[1] = Src(h).name
    OBVIOUS
  <2> QED
    BY <2>1, <2>2, <2>3
<1> HIDE DEF Told
<1>4. ASSUME NEW hit \in BOOLEAN, Answered(l, hit) PROVE UNCHANGED status \/ Told
  <2> DEFINE what == IF hit THEN "hit" ELSE "no results"
             k == asked[l] + 1
  <2>1. (UNCHANGED status \/ Say(Label(Src(h), k), what)) /\ what \notin {"", "skipped"}
    BY <1>4 DEF Answered
  <2> HIDE DEF what, k
  <2>2. ASSUME Say(Label(Src(h), k), what) PROVE Told
    BY <1>2, <2>1, <2>2
  <2> QED
    BY <2>1, <2>2
<1>5. ASSUME FailedForGood(l) \/ FailedOnce(l) PROVE UNCHANGED status \/ Told
  <2>1. UNCHANGED status \/ \E k : Say(Label(Src(h), k), "error")
    BY <1>5 DEF FailedForGood, FailedOnce
  <2>2. ASSUME NEW k, Say(Label(Src(h), k), "error") PROVE Told
    <3>1. "error" \notin {"", "skipped"}
      OBVIOUS
    <3> QED
      BY <1>2, <2>2, <3>1
  <2> QED
    BY <2>1, <2>2
<1>6. CASE Flooded(l)
  BY <1>6 DEF Flooded
<1>7. CASE Finish(l)
  <2> DEFINE what == IF h \in found THEN "hit" ELSE "no results"
  <2>1. (UNCHANGED status \/ Say(Label(Src(h), 1), what)) /\ what \notin {"", "skipped"}
    BY <1>7 DEF Finish, SayWhetherFound
  <2> HIDE DEF what
  <2>2. UNCHANGED status \/ Told
    BY <1>2, <2>1
  <2> QED
    BY <2>2 DEF Told
<1>8. UNCHANGED status \/ Told
  BY <1>3, <1>4, <1>5, <1>6, <1>7 DEF Step, Told
<1> QED
  BY <1>8 DEF Told

LEMMA SaidStep ==
  ASSUME LookupTypeOK, TriedInv, HitInv, SaidInv, [LookupNext]_lookupVars
  PROVE  SaidInv'
<1>s. /\ \A i : Src(i)' = Src(i) /\ (Recovers(Src(i))' <=> Recovers(Src(i)))
      /\ \A i : Eligible(Src(i))' <=> Eligible(Src(i))
      /\ Labels' = Labels /\ \A label : Named(label)' = Named(label)
  BY SetupStays DEF Recovers
<1>g. /\ status \in [Labels -> Statuses]
      /\ tried \subseteq Ids
  BY DEF LookupTypeOK
<1>q. SUFFICES ASSUME NEW label \in Labels PROVE Earned(label)'
  BY <1>s DEF SaidInv
<1>k. ASSUME status'[label] = status[label] PROVE Earned(label)'
  BY <1>k, EarnedKept DEF SaidInv
<1>1. ASSUME NEW l \in Lanes, Step(l) PROVE Earned(label)'
  <2>1. PICK h : h = Here(l)
    OBVIOUS
  <2>2. Unsettled(l) /\ h \in Ids /\ ~Settled(h) /\ (h \in tried <=> asked[l] > 0)
    BY <1>1, <2>1, WorkIs, IdsAre, HereTried
  <2>3. /\ Advance(l) => Settled(h)'
        /\ Src(h).unmet \in Statuses \ {"hit"}
        /\ Src(h).least \in Nat /\ Src(h).most \in Nat
        /\ 1 <= Src(h).least /\ Src(h).least <= Src(h).most
        /\ \A k : Label(Src(h), k)[1] = Src(h).name
    BY <2>1, <2>2, HereAfter, SourceIs
  <2>4. ASSUME NEW what, NEW said, Say(said, what), said[1] = Src(h).name,
               what = "hit" => h \in found',
               what = "error" =>
                 \/ h \in broken'
                 \/ Src(h).unmet = "error" /\ (Src(h).after = {} => ~Eligible(Src(h))),
               what = "no results" => NoResults(h)',
               what = "skipped" => \A i \in Ids : Src(i).name = Src(h).name =>
                                      Settled(i)' /\ i \notin tried'
        PROVE  Earned(label)'
    <3>1. CASE status'[label] = status[label]
      BY <1>k, <3>1
    <3>2. CASE status'[label] # status[label]
      <4>1. label = said /\ status'[label] = what
        BY <2>4, <3>2, <1>g DEF Say
      <4>2. h \in Named(label) /\ \A i \in Named(label) : i \in Ids /\ Src(i).name = Src(h).name
        BY <2>2, <2>4, <4>1 DEF Named
      <4>3. what = "hit" => \E i \in Named(label) : i \in found'
        BY <2>4, <4>2
      <4>4. what = "error" => \E i \in Named(label) :
                 \/ i \in broken'
                 \/ Src(i).unmet = "error" /\ (Src(i).after = {} => ~Eligible(Src(i)))
        BY <2>4, <4>2
      <4>5. what = "no results" => \E i \in Named(label) : NoResults(i)'
        BY <2>4, <4>2
      <4>6. what = "skipped" => \A i \in Named(label) : Settled(i)' /\ i \notin tried'
        BY <2>4, <4>2
      <4> QED
        BY <4>1, <4>3, <4>4, <4>5, <4>6, <1>s DEF Earned
    <3> QED
      BY <3>1, <3>2
  <2>5. CASE UNCHANGED status
    BY <1>k, <2>5
  <2>6. CASE PassBy(l) /\ ~UNCHANGED status
    <3>1. Say(<<Src(h).name, "">>, Src(h).unmet) /\ <<Src(h).name, "">>[1] = Src(h).name
      BY <2>1, <2>6 DEF PassBy
    <3>2. Src(h).after = {} => ~Eligible(Src(h))
      BY <2>1, <2>6 DEF PassBy, Unfed
    <3>3. Settled(h)' /\ h \notin tried'
      <4>1. asked[l] = 0 /\ Advance(l) /\ tried' = tried
        BY <2>6 DEF PassBy
      <4> QED
        BY <4>1, <2>2, <2>3
    <3>4. Src(h).unmet = "no results" => NoResults(h)'
      BY <3>3, <1>s DEF NoResults
    <3>5. \A i \in Ids : Src(i).name = Src(h).name => i = h
      BY <3>2, <2>2, NamesDiffer
    <3> DEFINE what == Src(h).unmet
               said == <<Src(h).name, "">>
    <3>6. /\ Say(said, what) /\ said[1] = Src(h).name
          /\ what # "hit"
          /\ what = "error" => Src(h).unmet = "error" /\ (Src(h).after = {} => ~Eligible(Src(h)))
          /\ what = "no results" => NoResults(h)'
      BY <3>1, <3>2, <3>4, <2>3
    <3> HIDE DEF what, said
    <3> QED
      BY <3>6, <3>3, <3>5, <2>4
  <2>7. ASSUME NEW hit \in BOOLEAN, Answered(l, hit), ~UNCHANGED status PROVE Earned(label)'
    <3> DEFINE what == IF hit THEN "hit" ELSE "no results"
               said == Label(Src(h), asked[l] + 1)
    <3>1. /\ Say(said, what) /\ said[1] = Src(h).name /\ Src(h).fault = "each"
          /\ tried' = tried \cup {h} /\ (hit => h \in found')
      BY <2>1, <2>3, <2>7 DEF Answered
    <3>2. NoResults(h)'
      BY <3>1, <1>s DEF NoResults, Recovers
    <3>3. (what = "hit" => hit) /\ what # "error" /\ what # "skipped"
      OBVIOUS
    <3> HIDE DEF what, said
    <3> QED
      BY <3>1, <3>2, <3>3, <2>4
  <2>8. ASSUME FailedForGood(l) \/ FailedOnce(l), ~UNCHANGED status PROVE Earned(label)'
    <3>1. PICK k : Say(Label(Src(h), k), "error")
      BY <2>1, <2>8 DEF FailedForGood, FailedOnce
    <3>2. h \in broken'
      BY <2>1, <2>8 DEF FailedForGood, FailedOnce
    <3> QED
      BY <3>1, <3>2, <2>3, <2>4
  <2>9. CASE Flooded(l)
    BY <2>5, <2>9 DEF Flooded
  <2>10. CASE Finish(l) /\ ~UNCHANGED status
    <3> DEFINE what == IF h \in found THEN "hit" ELSE "no results"
               said == Label(Src(h), 1)
    <3>1. /\ Say(said, what) /\ said[1] = Src(h).name /\ Advance(l)
          /\ UNCHANGED <<tried, found, broken>>
      BY <2>1, <2>3, <2>10 DEF Finish, SayWhetherFound
    <3>2. h \in tried
      <4>1. asked[l] >= Src(h).least \/ asked[l] >= Src(h).most
        BY <2>1, <2>10 DEF Finish, Through
      <4>2. asked[l] \in Nat
        BY DEF LookupTypeOK
      <4> QED
        BY <4>1, <4>2, <2>2, <2>3
    <3>3. h \in broken => Recovers(Src(h))
      BY <2>2 DEF HitInv
    <3>4. NoResults(h)'
      BY <3>1, <3>2, <3>3, <2>3, <1>s DEF NoResults
    <3>5. (what = "hit" => h \in found) /\ what # "error" /\ what # "skipped"
      OBVIOUS
    <3> HIDE DEF what, said
    <3> QED
      BY <3>1, <3>4, <3>5, <2>4
  <2> QED
    BY <1>1, <2>5, <2>6, <2>7, <2>8, <2>9, <2>10 DEF Step
<1>2. CASE EndContext \/ RunPassive \/ Report \/ UNCHANGED lookupVars
  BY <1>2, <1>k, OtherIs
<1> QED
  BY <1>1, <1>2 DEF LookupNext

-----------------------------------------------------------------------------
LEMMA SpokenStep ==
  ASSUME LookupTypeOK, TriedInv, SpokenInv, [LookupNext]_lookupVars
  PROVE  SpokenInv'
<1>s. \A i : Src(i)' = Src(i)
  BY SetupStays
<1>g. tried' \subseteq Ids /\ status \in [Labels -> Statuses]
  BY LookupTypeStep, SetupStays DEF LookupTypeOK
<1>q. SUFFICES ASSUME NEW i \in tried', Settled(i)', Src(i).fault \notin {"hush", "each"}
               PROVE  status'[Label(Src(i), 1)] \notin {"", "skipped"}
  BY <1>s DEF SpokenInv
<1>i. i \in Ids /\ Label(Src(i), 1) \in Labels /\ Label(Src(i), 1)[1] = Src(i).name
  BY <1>g, SourceIs
<1>a. i \in tried /\ Settled(i) => status[Label(Src(i), 1)] \notin {"", "skipped"}
  BY <1>q DEF SpokenInv
<1>1. ASSUME NEW l \in Lanes, Step(l)
      PROVE  status'[Label(Src(i), 1)] \notin {"", "skipped"}
  <2>1. PICK h : h = Here(l)
    OBVIOUS
  <2>2. Unsettled(l) /\ h \in Ids /\ (h \in tried <=> asked[l] > 0)
    BY <1>1, <2>1, WorkIs, IdsAre, HereTried
  <2>3. UNCHANGED at => ~Settled(h)'
    BY <2>1, <2>2, HereAfter
  <2>4. CASE i # h
    <3>1. i \in tried /\ Settled(i)
      BY <1>1, <1>i, <1>q, <2>1, <2>4, OthersKeep
    <3>2. CASE UNCHANGED status
      BY <1>a, <3>1, <3>2
    <3>3. ASSUME NEW label, NEW what, Say(label, what), label[1] = Src(h).name,
                 \/ what \notin {"", "skipped"}
                 \/ ~Eligible(Src(h))
                 \/ Src(h).after # {}
          PROVE  status'[Label(Src(i), 1)] \notin {"", "skipped"}
      <4>1. CASE label = Label(Src(i), 1)
        <5>1. Eligible(Src(h)) /\ Src(h).after = {}
          BY <1>i, <2>2, <2>4, <3>3, <4>1, NamesDiffer
        <5>2. status'[Label(Src(i), 1)] = what
          BY <1>g, <1>i, <3>3, <4>1 DEF Say
        <5> QED
          BY <3>3, <5>1, <5>2
      <4>2. CASE label # Label(Src(i), 1)
        <5>1. status'[Label(Src(i), 1)] = status[Label(Src(i), 1)]
          BY <1>g, <1>i, <3>3, <4>2 DEF Say
        <5> QED
          BY <5>1, <1>a, <3>1
      <4> QED
        BY <4>1, <4>2
    <3> QED
      BY <1>1, <2>1, <3>2, <3>3, SayIs
  <2>5. CASE i = h
    <3>1. CASE PassBy(l)
      <4>1. asked[l] = 0 /\ tried' = tried
        BY <3>1 DEF PassBy
      <4>2. ~(asked[l] > 0)
        BY <4>1
      <4> QED
        BY <4>1, <4>2, <1>q, <2>2, <2>5
    <3>2. ASSUME UNCHANGED at PROVE FALSE
      BY <1>q, <2>3, <2>5, <3>2
    <3>3. ASSUME NEW hit \in BOOLEAN, Answered(l, hit) PROVE FALSE
      BY <3>2, <3>3 DEF Answered
    <3>4. CASE FailedOnce(l) \/ Flooded(l)
      BY <3>2, <3>4 DEF FailedOnce, Flooded
    <3>5. CASE FailedForGood(l)
      <4>1. Say(Label(Src(i), 1), "error")
        BY <1>q, <2>1, <2>5, <3>5 DEF FailedForGood
      <4> QED
        BY <4>1, <1>g, <1>i DEF Say
    <3>6. CASE Finish(l)
      <4> DEFINE what == IF h \in found THEN "hit" ELSE "no results"
      <4>1. Say(Label(Src(i), 1), what) /\ what \notin {"", "skipped"}
        BY <1>q, <2>1, <2>5, <3>6 DEF Finish, SayWhetherFound
      <4> HIDE DEF what
      <4> QED
        BY <4>1, <1>g, <1>i DEF Say
    <3> QED
      BY <1>1, <3>1, <3>3, <3>4, <3>5, <3>6 DEF Step
  <2> QED
    BY <2>4, <2>5
<1>2. CASE EndContext \/ RunPassive \/ Report \/ UNCHANGED lookupVars
  <2>1. UNCHANGED <<at, tried, status>>
    BY <1>2, OtherIs
  <2> QED
    BY <2>1, <1>q, <1>a DEF Settled
<1> QED
  BY <1>1, <1>2 DEF LookupNext

LEMMA FailedStep ==
  ASSUME LookupTypeOK, FailedInv, [LookupNext]_lookupVars
  PROVE  FailedInv'
<1>s. module' = module /\ \A i : Src(i)' = Src(i)
  BY SetupStays
<1>q. SUFFICES ASSUME module.skips = "or fails", NEW i \in broken'
               PROVE  Settled(i)' /\ status'[Label(Src(i), 1)] = "error"
  BY <1>s DEF FailedInv
<1>g. broken' \subseteq Ids /\ broken \subseteq Ids /\ status \in [Labels -> Statuses]
  <2>1. LookupTypeOK' /\ Ids' = Ids
    BY LookupTypeStep, SetupStays
  <2> QED
    BY <2>1 DEF LookupTypeOK
<1>c. /\ \A j, k \in Ids : j = k
      /\ \A j \in Ids : Src(j).fault \in {"report", "retry"}
  BY <1>q, CatalogueAssumption DEF LookupTypeOK, SkipRuleFits, Ids, Src
<1>a. \A j \in broken : Settled(j) /\ status[Label(Src(j), 1)] = "error"
  BY <1>q DEF FailedInv
<1>1. ASSUME NEW l \in Lanes, Step(l)
      PROVE  Settled(i)' /\ status'[Label(Src(i), 1)] = "error"
  <2>1. Unsettled(l) /\ Here(l) \in Ids /\ ~Settled(Here(l))
    BY <1>1, WorkIs, IdsAre
  <2>2. i = Here(l) /\ i \notin broken
    BY <1>g, <1>c, <1>a, <2>1
  <2>3. Src(i).fault \in {"report", "retry"} /\ Label(Src(i), 1) \in Labels
    BY <1>g, <1>c, SourceIs
  <2>4. CASE FailedForGood(l)
    <3>1. Advance(l) /\ Say(Label(Src(i), 1), "error")
      BY <2>2, <2>3, <2>4 DEF FailedForGood
    <3>2. Settled(i)'
      BY <2>1, <2>2, <3>1, HereAfter
    <3> QED
      BY <3>1, <3>2, <2>3, <1>g DEF Say
  <2>5. CASE FailedOnce(l)
    BY <2>2, <2>3, <2>5 DEF FailedOnce
  <2>6. CASE ~FailedForGood(l) /\ ~FailedOnce(l)
    <3>1. UNCHANGED broken
      BY <1>1, <2>6 DEF Step, PassBy, Answered, Flooded, Finish
    <3> QED
      BY <1>q, <2>2, <3>1
  <2> QED
    BY <2>4, <2>5, <2>6
<1>2. CASE EndContext \/ RunPassive \/ Report \/ UNCHANGED lookupVars
  <2>1. UNCHANGED <<at, broken, status>>
    BY <1>2, OtherIs
  <2> QED
    BY <2>1, <1>q, <1>a DEF Settled
<1> QED
  BY <1>1, <1>2 DEF LookupNext

\* The verdict a report would give in a state whose lanes are through is earned.
LEMMA VerdictIsEarned ==
  ASSUME LookupTypeOK, AtInv, TriedInv, SaidInv, SpokenInv, FailedInv, AllSettled
  PROVE  /\ Verdict = "skipped" => tried = {}
         /\ Verdict = "error" => broken # {} \/ \E i \in Ids : ~Eligible(Src(i))
         /\ (module.skips = "or fails" /\ broken # {}) => Verdict = "error"
<1>f. SkipRuleFits(module) /\ tried \subseteq Ids /\ broken \subseteq Ids
  BY CatalogueAssumption DEF LookupTypeOK
<1>1. ASSUME module.skips = "all skipped", AllSkipped, NEW i \in tried PROVE FALSE
  <2>1. i \in Ids /\ Settled(i)
    BY <1>f, SettledAll
  <2>2. Src(i).fault \notin {"hush", "each"}
    BY <1>1, <1>f, <2>1 DEF SkipRuleFits, Ids, Src
  <2>3. Label(Src(i), 1) \in Labels /\ status[Label(Src(i), 1)] \notin {"", "skipped"}
    BY <2>1, <2>2, SourceIs DEF SpokenInv
  <2>4. {status[label] : label \in Labels} \ {""} = {"skipped"}
    BY <1>1 DEF AllSkipped
  <2> QED
    BY <2>3, <2>4
<1>2. ASSUME module.skips = "no key", keys \cap SearchKeys = {}, NEW i \in tried PROVE FALSE
  <2>1. Src(i).needs \cap SearchKeys # {}
    BY <1>2, <1>f DEF SkipRuleFits, Ids, Src
  <2>2. Src(i).needs \subseteq keys
    BY DEF TriedInv, Eligible
  <2> QED
    BY <1>2, <2>1, <2>2
<1>3. ASSUME module.skips = "or fails", NEW label \in Labels, status[label] = "error"
      PROVE  broken # {} \/ \E i \in Ids : ~Eligible(Src(i))
  <2>1. PICK i \in Named(label) :
          \/ i \in broken
          \/ Src(i).unmet = "error" /\ (Src(i).after = {} => ~Eligible(Src(i)))
    BY <1>3 DEF SaidInv, Earned
  <2>2. i \in Ids
    BY DEF Named
  <2>3. Src(i).after = {}
    BY <1>3, <1>f, <2>2 DEF SkipRuleFits, Ids, Src
  <2> QED
    BY <2>1, <2>2, <2>3
<1>4. ASSUME module.skips = "or fails", NEW i \in broken
      PROVE  \E label \in Labels : status[label] = "error"
  <2>1. Label(Src(i), 1) \in Labels
    BY <1>f, SourceIs
  <2> QED
    BY <1>4, <2>1 DEF FailedInv
<1>5. /\ Verdict = "skipped" =>
           \/ module.skips = "all skipped" /\ AllSkipped
           \/ module.skips = "no key" /\ keys \cap SearchKeys = {}
      /\ Verdict = "error" =>
           module.skips = "or fails" /\ \E label \in Labels : status[label] = "error"
      /\ (module.skips = "or fails" /\ \E label \in Labels : status[label] = "error") =>
           Verdict = "error"
  BY DEF Verdict
<1> QED
  BY <1>1, <1>2, <1>3, <1>4, <1>5

LEMMA ReportStep ==
  ASSUME LookupTypeOK, AtInv, TriedInv, SaidInv, SpokenInv, FailedInv, ReportInv,
         [LookupNext]_lookupVars
  PROVE  ReportInv'
<1>s. /\ module' = module /\ passive' = passive /\ Ids' = Ids /\ Lanes' = Lanes
      /\ \A i : Eligible(Src(i))' <=> Eligible(Src(i))
  BY SetupStays
<1>1. ASSUME NEW l \in Lanes, Step(l) PROVE ReportInv'
  <2>1. Unsettled(l) /\ ~passive /\ verdict' = verdict
    BY <1>1, WorkIs
  <2>2. verdict = ""
    BY <2>1 DEF ReportInv, AllSettled
  <2> QED
    BY <2>1, <2>2 DEF ReportInv, VerdictEarned, Reported
<1>2. CASE EndContext
  BY <1>2 DEF EndContext, ReportInv, VerdictEarned, Reported
<1>3. CASE RunPassive
  BY <1>3, <1>s DEF RunPassive, ReportInv, VerdictEarned, Reported
<1>4. CASE Report
  <2>1. AllSettled /\ verdict' = Verdict /\ UNCHANGED <<at, tried, broken>>
    BY <1>4 DEF Report
  <2>2. AllSettled'
    BY <2>1, <1>s DEF AllSettled, Unsettled
  <2>3. /\ verdict' = "skipped" => tried' = {}
        /\ verdict' = "error" => broken' # {} \/ \E i \in Ids : ~Eligible(Src(i))
        /\ (module.skips = "or fails" /\ broken' # {}) => verdict' = "error"
    BY <2>1, VerdictIsEarned
  <2> QED
    BY <2>2, <2>3, <1>s DEF ReportInv, VerdictEarned
<1>5. CASE UNCHANGED lookupVars
  <2>1. UNCHANGED <<at, tried, broken, verdict>>
    BY <1>5 DEF lookupVars
  <2>2. AllSettled' <=> AllSettled
    BY <2>1, <1>s DEF AllSettled, Unsettled
  <2> QED
    BY <2>1, <2>2, <1>s DEF ReportInv, VerdictEarned, Reported
<1> QED
  BY <1>1, <1>2, <1>3, <1>4, <1>5 DEF LookupNext

-----------------------------------------------------------------------------
LEMMA LookupInvInit == LookupInit => LookupInv
<1> SUFFICES ASSUME LookupInit PROVE LookupInv
  OBVIOUS
<1>1. LookupTypeOK
  BY LookupTypeInit
<1>2. /\ at = [l \in Lanes |-> 1] /\ asked = [l \in Lanes |-> 0] /\ verdict = ""
      /\ tried = {} /\ found = {} /\ broken = {} /\ hits = {}
      /\ status = [label \in Labels |-> ""]
  BY DEF LookupInit
<1>a. \A l \in Lanes : at[l] = 1 /\ asked[l] = 0
  BY <1>2
<1>3. AtInv
  BY <1>a DEF AtInv
<1>b. \A l \in Lanes : ~(asked[l] > 0)
  <2>1. ASSUME NEW l \in Lanes PROVE ~(asked[l] > 0)
    <3>1. asked[l] = 0
      BY <1>a
    <3> QED
      BY <3>1
  <2> QED
    BY <2>1
<1>c. tried = {}
  BY <1>2
<1>4. TriedInv
  BY <1>b, <1>c DEF TriedInv
<1>5. HitInv /\ FeedersFirst /\ SpokenInv /\ FailedInv
  BY <1>2 DEF HitInv, FeedersFirst, SpokenInv, FailedInv
<1>6. SaidInv
  BY <1>2 DEF SaidInv, Earned
<1>7. ReportInv
  BY <1>2 DEF ReportInv, VerdictEarned, Reported
<1> QED
  BY <1>1, <1>3, <1>4, <1>5, <1>6, <1>7 DEF LookupInv

\* The invariant of a lookup: from the initial states, and through every step.
THEOREM LookupInvariant == LookupSpec => []LookupInv
<1>1. LookupInv /\ [LookupNext]_lookupVars => LookupInv'
  BY LookupTypeStep, AtStep, TriedStep, HitStep, FeedersStep, SaidStep, SpokenStep, FailedStep,
     ReportStep DEF LookupInv
<1> QED
  BY LookupInvInit, <1>1, PTL DEF LookupSpec

\* A lookup's values have their types, whatever the modules of the catalogue.
THEOREM LookupTypeCorrect == LookupSpec => []LookupTypeOK
<1>1. LookupInv => LookupTypeOK
  BY DEF LookupInv
<1> QED
  BY <1>1, LookupInvariant, PTL

\* What a source found is in the report unless a failed request of its own takes
\* it away, in every interleaving of the lanes and wherever the context ends.
THEOREM HitsAlwaysSurvive == LookupSpec => []HitsSurvive
<1>1. ASSUME LookupInv, Reported
      PROVE  hits = {i \in found : i \in broken => Recovers(Src(i))}
  <2>1. AllSettled
    BY <1>1 DEF LookupInv, ReportInv, Reported
  <2>2. \A i \in found : Settled(i)
    BY <1>1, <2>1, SettledAll DEF LookupInv, LookupTypeOK
  <2> QED
    BY <1>1, <2>2 DEF LookupInv, LookupTypeOK, HitInv
<1>2. LookupInv => HitsSurvive
  BY <1>1 DEF HitsSurvive
<1> QED
  BY <1>2, LookupInvariant, PTL

\* What the report says of a source, a topic and the module happened.
THEOREM ReportsAreEarned == LookupSpec => []ReportIsEarned
<1>1. ASSUME LookupInv, NEW label \in Labels
      PROVE  LET named == {i \in Ids : Src(i).name = label[1]}
             IN  /\ status[label] = "hit" => named \cap found # {}
                 /\ status[label] = "error" => \E i \in named : i \in broken \/ Src(i).unmet = "error"
                 /\ status[label] = "no results" =>
                      \E i \in named :
                        \/ i \in tried /\ (i \in broken => Recovers(Src(i)))
                        \/ i \notin tried /\ Src(i).unmet = "no results"
                 /\ status[label] = "skipped" => named \cap tried = {}
  <2>1. Earned(label) /\ Named(label) = {i \in Ids : Src(i).name = label[1]}
    BY <1>1 DEF LookupInv, SaidInv, Named
  <2>2. /\ status[label] = "hit" => Named(label) \cap found # {}
        /\ status[label] = "error" =>
             \E i \in Named(label) : i \in broken \/ Src(i).unmet = "error"
        /\ status[label] = "no results" =>
             \E i \in Named(label) :
               \/ i \in tried /\ (i \in broken => Recovers(Src(i)))
               \/ i \notin tried /\ Src(i).unmet = "no results"
        /\ status[label] = "skipped" => Named(label) \cap tried = {}
    BY <2>1 DEF Earned, NoResults
  <2> QED
    BY <2>1, <2>2
<1>2. LookupInv => ReportIsEarned
  BY <1>1 DEF LookupInv, ReportInv, ReportIsEarned, StatusesEarned
<1> QED
  BY <1>2, LookupInvariant, PTL

\* A source that asks about others' finds is asked after them, and about something.
THEOREM FeedersGoFirst == LookupSpec => []FeedersFirst
<1>1. LookupInv => FeedersFirst
  BY DEF LookupInv
<1> QED
  BY <1>1, LookupInvariant, PTL

\* No goroutine works on a result that was returned.
THEOREM ReportIsFinal == LookupSpec => FrozenOnceReported
<1>1. ASSUME LookupInv, [LookupNext]_lookupVars, verdict # ""
      PROVE  UNCHANGED <<at, asked, tried, status, hits>>
  <2>1. passive \/ AllSettled
    BY <1>1 DEF LookupInv, ReportInv
  <2>2. \A l \in Lanes : ~Step(l)
    BY <1>1, <2>1, WorkIs DEF LookupInv, AllSettled
  <2> QED
    BY <1>1, <2>2, OtherIs DEF LookupNext
<1>2. LookupInv /\ [LookupNext]_lookupVars =>
        [verdict # "" => UNCHANGED <<at, asked, tried, status, hits>>]_lookupVars
  BY <1>1
<1> QED
  BY <1>2, LookupInvariant, PTL DEF LookupSpec, FrozenOnceReported
=============================================================================
