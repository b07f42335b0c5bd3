----------------------------- MODULE Correlator -----------------------------
(***************************************************************************)
(* correlator.Engine.Run (internal/correlator/engine.go) and what the      *)
(* command adds to its record (internal/cli/root.go).  Every source the    *)
(* number may be asked of runs in a goroutine: a dry run, a fetch, and its *)
(* claims and its run appended under a mutex.  All share one timeout.      *)
(* Companies House, deferred, is asked in a second round and only of a GB  *)
(* number that has got candidate names.  The claims, in the order they     *)
(* came, are merged; then messenger names join the list of names, and      *)
(* breach and public-record claims the claims only.                        *)
(***************************************************************************)
EXTENDS Correlation, IdentitySources

CONSTANTS
  Registered,    \* the sources the engine was made with
  Asked,         \* the countries a number may be of
  Values,        \* the values a field may be given: field -> set
  MaxEntries,    \* bound on the people, names or officers a source answers
  Messengers,    \* the messenger accounts that may show a display name
  OtherClaims    \* the claims that breaches and public records may add

ASSUME CorrelatorAssumption ==
  /\ Registered \subseteq SourceNames
  /\ Asked \subseteq Countries
  /\ MaxEntries \in [SourceNames -> Nat \ {0}]
  /\ \A s \in Registered, of \in Asked :
       \A f \in ToSet(Fields(s, of)) : Values[f] \subseteq Int
  /\ IsFiniteSet(Messengers) /\ Messengers \cap SourceNames = {}
  /\ IsFiniteSet(OtherClaims)

VARIABLES
  country, \* of the number
  passive,
  keys,    \* the keyed sources that have their credentials
  pc,      \* where Run is; then the command
  ctx,     \* the context with the engine's timeout
  task,    \* each source's goroutine
  claims,  \* in the order they came; record.Claims leaves out the blank ones
  runs,    \* record.SourceRuns
  queried, \* the candidate names Companies House is asked about
  lists,   \* the record's lists of candidates
  overall  \* record.OverallConfidence

vars ==
  <<country, passive, keys, pc, ctx, task, claims, runs, queried, lists, overall>>
config == <<country, passive, keys>>

NoLists == [f \in ListedFields |-> <<>>]

Init ==
  /\ country \in Asked
  /\ passive \in BOOLEAN
  /\ keys \in SUBSET {s \in Registered : Catalogue[s].keyed}
  /\ pc = "start"
  /\ ctx = "live"
  /\ task = [s \in Registered |-> "idle"]
  /\ claims = <<>>
  /\ runs = {}
  /\ queried = {}
  /\ lists = NoLists
  /\ overall = 0

-----------------------------------------------------------------------------
Initial ==
  Registered \cap SelectSourceNames(country, FALSE)

Deferred ==
  Registered \cap SelectSourceNames(country, TRUE) \cap {DeferredSource}

\* candidateNamesFromClaims
CandidateNames ==
  {claims[i].value : i \in {j \in DOMAIN claims :
                              claims[j].field = "name" /\ Meaningful(claims[j])}}

\* What s may claim of a number of the country.  Trestle alone dates addresses.
Statements(s, of) ==
  UNION {[field : {f}, value : Values[f], source : {s}, weight : {Weight(s, f)},
          age : IF s = "Trestle" /\ f = "address" THEN {0, 1} ELSE {0}] :
           f \in ToSet(Fields(s, of))}

\* An answer is a sequence of entries, each at most one value of each field in
\* the order in which the source appends them.
Answers ==
  [of \in Asked |-> [s \in Registered |->
     LET fields == Fields(s, of)
         entries == IF Catalogue[s].several THEN MaxEntries[s] ELSE 1
         Turns(a) == {i \in 1..(Len(a) - 1) :
                        \E j, k \in DOMAIN fields :
                           /\ a[i].field = fields[j] /\ a[i + 1].field = fields[k]
                           /\ j >= k}
     IN {a \in UNION {[1..n -> Statements(s, of)] :
                        n \in 0..(entries * Len(fields))} :
           Cardinality(Turns(a)) < entries}]]

-----------------------------------------------------------------------------
\* Run: passive mode makes a record that says it was skipped.
Skip ==
  /\ pc = "start"
  /\ passive
  /\ pc' = "merged"
  /\ UNCHANGED <<config, ctx, task, claims, runs, queried, lists, overall>>

\* fetchAll starts a goroutine for each of the sources.
Launch(sources) ==
  task' = [s \in Registered |-> IF s \in sources THEN "started" ELSE task[s]]

Start ==
  /\ pc = "start"
  /\ ~passive
  /\ pc' = "initial"
  /\ Launch(Initial)
  /\ UNCHANGED <<config, ctx, claims, runs, queried, lists, overall>>

Report(s, status, n) ==
  /\ task' = [task EXCEPT ![s] = "done"]
  /\ runs' = runs \cup {[source |-> s, status |-> status, count |-> n]}

Refused(s) ==
  \/ ctx = "over"
  \/ Catalogue[s].keyed /\ s \notin keys

DryRunRefuses(s) ==
  /\ task[s] = "started"
  /\ Refused(s)
  /\ Report(s, "skipped", 0)
  /\ UNCHANGED <<config, pc, ctx, claims, queried, lists, overall>>

DryRunPasses(s) ==
  /\ task[s] = "started"
  /\ ~Refused(s)
  /\ task' = [task EXCEPT ![s] = "fetching"]
  /\ UNCHANGED <<config, pc, ctx, claims, runs, queried, lists, overall>>

Fetched(s) ==
  /\ task[s] = "fetching"
  /\ \E answer \in Answers[country][s] :
       /\ claims' = claims \o answer
       /\ Report(s, IF answer = <<>> THEN "no_claims" ELSE "success",
                 Len(answer))
  /\ UNCHANGED <<config, pc, ctx, queried, lists, overall>>

\* Mutant of FetchFails: a source that fails has no run.
FetchFailsSilently(s) ==
  /\ task[s] = "fetching"
  /\ task' = [task EXCEPT ![s] = "done"]
  /\ UNCHANGED <<config, pc, ctx, claims, runs, queried, lists, overall>>

FetchFails(s) ==
  /\ task[s] = "fetching"
  /\ \E status \in Catalogue[s].fails : Report(s, status, 0)
  /\ UNCHANGED <<config, pc, ctx, claims, queried, lists, overall>>

\* Mutant of TimeOut: the timeout covers the second round only.
TimeOutDeferred ==
  /\ pc = "deferred"
  /\ ctx = "live"
  /\ ctx' = "over"
  /\ UNCHANGED <<config, pc, task, claims, runs, queried, lists, overall>>

\* The timeout, or the end of the investigation's own context.
TimeOut ==
  /\ pc \in {"initial", "deferred"}
  /\ ctx = "live"
  /\ ctx' = "over"
  /\ UNCHANGED <<config, pc, task, claims, runs, queried, lists, overall>>

-----------------------------------------------------------------------------
Finished == \A s \in Registered : task[s] \in {"idle", "done"}

Conclude ==
  /\ pc' = "merged"
  /\ \E O \in SUBSET DOMAIN claims :
       Opens(claims, O) /\ lists' = Merge(claims, O)
  /\ overall' = Overall(lists')

\* group.Wait, and the second round if there is one.
Defer ==
  /\ pc = "initial"
  /\ Finished
  /\ Deferred # {}
  /\ CandidateNames # {}
  /\ pc' = "deferred"
  /\ queried' = CandidateNames
  /\ Launch(Deferred)
  /\ UNCHANGED <<config, ctx, claims, runs, lists, overall>>

MergeClaims ==
  /\ \/ pc = "initial" /\ (Deferred = {} \/ CandidateNames = {})
     \/ pc = "deferred"
  /\ Finished
  /\ Conclude
  /\ UNCHANGED <<config, ctx, task, claims, runs, queried>>

-----------------------------------------------------------------------------
\* addMessengerIdentityClaims: each account's display name is a claim and,
\* appended to the names, a candidate of its own.
MessengerClaim(m, v) ==
  [field |-> "name", value |-> v, source |-> m,
   weight |-> TierWeight.Commercial, age |-> 0]

MessengerCandidate(claim) ==
  [norm |-> claim.value, claims |-> {claim}, confidence |-> 750]

\* Messengers may show names in passive mode too: their modules have no passive
\* half, so the investigation runs them as they are.
Annotate ==
  /\ pc = "merged"
  /\ \E shown \in SUBSET Messengers, others \in SUBSET OtherClaims :
     \E name \in [shown -> Values.name] :
       LET ms == SetToSeq(shown)
           added == [i \in DOMAIN ms |-> MessengerClaim(ms[i], name[ms[i]])]
       IN /\ claims' = claims \o added \o SetToSeq(others)
          /\ lists' = [lists EXCEPT !.name =
                         @ \o [i \in DOMAIN added |->
                                 MessengerCandidate(added[i])]]
          /\ overall' = IF shown = {} THEN overall ELSE Max({overall, 750})
  /\ pc' = "done"
  /\ UNCHANGED <<config, ctx, task, runs, queried>>

Terminating == pc = "done" /\ UNCHANGED vars

Next ==
  \/ Skip
  \/ Start
  \/ \E s \in Registered :
       \/ DryRunRefuses(s)
       \/ DryRunPasses(s)
       \/ Fetched(s)
       \/ FetchFails(s)
  \/ TimeOut
  \/ Defer
  \/ MergeClaims
  \/ Annotate
  \/ Terminating

(***************************************************************************)
(* Fairness: every goroutine and the caller are scheduled, the timer of    *)
(* context.WithTimeout fires, and a request under a context that is over   *)
(* comes back.  That an upstream ever answers by itself is not assumed.    *)
(***************************************************************************)
Returns(s) == ctx = "over" /\ (Fetched(s) \/ FetchFails(s))

Fairness ==
  /\ WF_vars(Skip \/ Start \/ Defer \/ MergeClaims \/ Annotate)
  /\ WF_vars(TimeOut)
  /\ \A s \in Registered :
       /\ WF_vars(DryRunRefuses(s) \/ DryRunPasses(s))
       /\ WF_vars(Returns(s))

Spec == Init /\ [][Next]_vars /\ Fairness

-----------------------------------------------------------------------------
\* Every source that was asked has exactly one run in a merged record, in
\* whatever order and way the goroutines ended, and its count is the number
\* of its claims that arrived: no append under the mutex is lost, and no
\* source stays silent (fetchAll's runs and claims).
RunsAccount ==
  pc = "merged" /\ ~passive =>
    /\ {r.source : r \in runs} =
         Initial \cup IF queried = {} THEN {} ELSE Deferred
    /\ \A r \in runs :
         /\ \A q \in runs : q.source = r.source => q = r
         /\ r.count = Cardinality({i \in DOMAIN claims :
                                     claims[i].source = r.source})
         /\ r.status = "success" <=> r.count > 0

\* Clustering loses nothing that was said and invents nothing: a claim of a
\* listed field is in exactly one candidate of its list, or in none if its
\* value normalizes to nothing, and candidates hold only claims of the record,
\* also after the command has added its own (clusterClaims, merge,
\* addMessengerIdentityClaims, which lists a display name whatever it is).
ClaimsAccount ==
  pc \in {"merged", "done"} =>
    \A f \in ListedFields :
      LET C == {c \in ToSet(claims) : ClusterField(c) = f} IN
      /\ \A i \in DOMAIN lists[f] : lists[f][i].claims \subseteq C
      /\ \A c \in C \ OtherClaims :
           Cardinality({i \in DOMAIN lists[f] : c \in lists[f][i].claims}) =
             IF Meaningful(c) \/ c.source \in Messengers THEN 1 ELSE 0

IsEquivalence(C) ==
  \A c, d, e \in C : Alike(c, d) => Alike(d, c) /\ (Alike(d, e) => Alike(c, e))

\* The candidates of the claims C of field f, where likeness is an equivalence:
\* its classes, each with the noisy-or of its sources less 0.30 for every other
\* class, if the field is one that can conflict.
Expected(C, f) ==
  LET classes == {{d \in C : Alike(c, d)} : c \in C}
      rivals == IF f \in ConflictingFields THEN Cardinality(classes) - 1 ELSE 0
  IN {[claims |-> K, confidence |-> Max({0, Combine(K) - 300 * rivals})] :
        K \in classes}

\* The order in which sources answer does not change the candidates of a field
\* or their confidences, as long as likeness is an equivalence on what was said
\* of it (clusterClaims compares a claim with the first value of a cluster
\* only).
OrderIndependent ==
  pc = "merged" =>
    \A f \in ListedFields :
      LET C == {c \in ToSet(claims) : ClusterField(c) = f /\ Meaningful(c)} IN
      IsEquivalence(C) =>
        {[claims |-> c.claims, confidence |-> c.confidence] :
           c \in ToSet(lists[f])} = Expected(C, f)

\* The overall confidence is that of the best candidate of the record, zero
\* without one, also after messenger names have been appended unsorted
\* (overallConfidence reads the heads of the lists only).
OverallIsBest ==
  overall = Max({0} \cup UNION {{c.confidence : c \in ToSet(lists[f])} :
                                  f \in ListedFields})

\* An investigation gets its identity record although sources hang.
Terminates == <>(pc = "done")
=============================================================================
