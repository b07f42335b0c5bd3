-------------------------- MODULE CorrelatorProofs --------------------------
(***************************************************************************)
(* Proofs about Correlator, for any sources, values and countries, any     *)
(* relation of likeness, and however the goroutines interleave: the runs   *)
(* of a merged record account for every source that was asked, its lists   *)
(* of candidates for every claim, whatever the order in which the claims   *)
(* came, and its overall confidence is that of its best candidate.         *)
(***************************************************************************)
EXTENDS Correlator, FunctionTheorems, FiniteSetTheorems, WellFoundedInduction,
        TLAPS

Claim == UNION {Statements(s, of) : s \in Registered, of \in Asked}

Status == {"success", "no_claims", "error", "skipped"}

\* The places of the claims of s.
From(s, q) == {i \in DOMAIN q : q[i].source = s}

AskedOf == Initial \cup IF queried = {} THEN {} ELSE Deferred

TypeInv ==
  /\ country \in Asked
  /\ pc \in {"start", "initial", "deferred", "merged", "done"}
  /\ task \in [Registered -> {"idle", "started", "fetching", "done"}]
  /\ claims \in Seq(Claim)
  /\ runs \subseteq [source : Registered, status : Status, count : Nat]

\* Which goroutines have been started, by where Run is.
Stages ==
  /\ pc = "start" => queried = {} /\ \A s \in Registered : task[s] = "idle"
  /\ pc = "initial" => queried = {}
  /\ pc = "deferred" => queried # {}
  /\ pc \in {"initial", "deferred"} =>
       ~passive /\ \A s \in Registered : task[s] # "idle" <=> s \in AskedOf
  /\ pc = "merged" =>
       \A s \in Registered : /\ task[s] \in {"idle", "done"}
                             /\ ~passive => (task[s] = "done" <=> s \in AskedOf)

\* A goroutine has a run once it is done, one only, and claims not before.
Reports ==
  /\ \A s \in Registered :
       /\ task[s] = "done" <=> \E r \in runs : r.source = s
       /\ task[s] # "done" => From(s, claims) = {}
  /\ \A q, r \in runs : q.source = r.source => q = r
  /\ \A r \in runs : /\ r.count = Cardinality(From(r.source, claims))
                     /\ r.status = "success" <=> r.count > 0

\* Annotating ends it: the record then holds claims of no source.
IInv == pc # "done" => TypeInv /\ Stages /\ Reports

-----------------------------------------------------------------------------
LEMMA FailureStatus ==
  ASSUME NEW s \in SourceNames
  PROVE  Catalogue[s].fails \subseteq {"no_claims", "error", "skipped"}
BY DEF SourceNames, Catalogue, Described, Swallowed, Returned, ReturnedByGet,
       OpenCNAM, NumLookup, Trestle, LeakSight, IPQualityScore, Veriphone,
       AbstractAPI, Twilio, NeutrinoHLR, CallerKit, CompaniesHouse,
       NigeriaPhoneBook, PagineBianche, TeleListas, PaginasBlancas,
       DasTelefonbuch

LEMMA DeferredIsLate == country \in Countries => Initial \cap Deferred = {}
<1>1. DeferredSource \notin Everywhere
  BY DEF DeferredSource, Everywhere
<1>2. ASSUME NEW c \in Countries
      PROVE  DeferredSource \notin LocalSources[c]
  <2>1. \A b \in Countries :
          \A x \in LocalSources[b] :
            x \in {"NumLookup", "LeakSight", "IPQualityScore", "Trestle",
                  "NigeriaPhoneBook", "Pagine Bianche", "TeleListas",
                  "Paginas Blancas Argentina", "Das Telefonbuch", "CallerKit"}
    <3>1. /\ LocalSources.IN = {"NumLookup", "LeakSight", "IPQualityScore"}
          /\ LocalSources.US =
               {"NumLookup", "Trestle", "LeakSight", "IPQualityScore"}
          /\ LocalSources.GB = {"NumLookup", "LeakSight"}
          /\ LocalSources.NG = {"NigeriaPhoneBook"}
          /\ LocalSources.IT = {"Pagine Bianche"}
          /\ LocalSources.BR = {"TeleListas"}
          /\ LocalSources.AR = {"Paginas Blancas Argentina"}
          /\ LocalSources.DE = {"Das Telefonbuch"}
          /\ LocalSources.MENA = {"CallerKit"}
          /\ LocalSources.other = {"NumLookup", "LeakSight", "IPQualityScore"}
      BY DEF LocalSources
    <3> QED
      BY <3>1 DEF Countries
  <2> QED
    BY <2>1 DEF DeferredSource
<1> QED
  BY <1>1, <1>2 DEF Initial, Deferred, SelectSourceNames

LEMMA AnswerType ==
  ASSUME NEW of \in Asked, NEW s \in Registered, NEW a \in Answers[of][s]
  PROVE  /\ a \in Seq(Claim)
         /\ \A i \in DOMAIN a : a[i].source = s
<1>1. PICK n \in Nat : a \in [1..n -> Statements(s, of)]
  BY DEF Answers
<1>2. Statements(s, of) \subseteq Claim
  BY DEF Claim
<1>3. \A c \in Statements(s, of) : c.source = s
  BY DEF Statements
<1> QED
  BY <1>1, <1>2, <1>3

\* Appending the answer of s adds its length to the claims of s, and nothing
\* to the claims of others.
LEMMA Appended ==
  ASSUME NEW p \in Seq(Claim), NEW a \in Seq(Claim), NEW s,
         \A i \in DOMAIN a : a[i].source = s
  PROVE  /\ \A t : t # s => From(t, p \o a) = From(t, p)
         /\ From(s, p) = {} => Cardinality(From(s, p \o a)) = Len(a)
<1>1. /\ Len(p) \in Nat /\ Len(a) \in Nat
      /\ DOMAIN p = 1..Len(p) /\ DOMAIN a = 1..Len(a)
      /\ DOMAIN (p \o a) = 1..(Len(p) + Len(a))
  OBVIOUS
<1>2. \A i \in 1..Len(p) : (p \o a)[i] = p[i]
  OBVIOUS
<1>3. \A i \in (Len(p) + 1)..(Len(p) + Len(a)) :
        (p \o a)[i] = a[i - Len(p)] /\ i - Len(p) \in DOMAIN a
  BY <1>1
<1>4. \A i \in (Len(p) + 1)..(Len(p) + Len(a)) : (p \o a)[i].source = s
  BY <1>3
<1>5. ASSUME NEW t, t # s
      PROVE  From(t, p \o a) = From(t, p)
  BY <1>1, <1>2, <1>4, <1>5 DEF From
<1>6. ASSUME From(s, p) = {}
      PROVE  Cardinality(From(s, p \o a)) = Len(a)
  <2>1. From(s, p \o a) = (Len(p) + 1)..(Len(p) + Len(a))
    BY <1>1, <1>2, <1>4, <1>6 DEF From
  <2> DEFINE m == Len(p) + 1
             n == Len(p) + Len(a)
  <2>2. m \in Int /\ n \in Int /\ (IF m > n THEN 0 ELSE n - m + 1) = Len(a)
    BY <1>1
  <2> HIDE DEF m, n
  <2>3. Cardinality(m..n) = IF m > n THEN 0 ELSE n - m + 1
    BY <2>2, FS_Interval
  <2> QED
    BY <2>1, <2>2, <2>3 DEF m, n
<1> QED
  BY <1>5, <1>6

-----------------------------------------------------------------------------
LEMMA Initially == Init => IInv
<1> SUFFICES ASSUME Init PROVE IInv
  OBVIOUS
<1> USE DEF Init
<1>1. TypeInv
  BY DEF TypeInv
<1>2. Stages
  BY DEF Stages
<1>3. Reports
  BY DEF Reports, From
<1> QED
  BY <1>1, <1>2, <1>3 DEF IInv

\* A goroutine's own step: it has been started, so Run is waiting.
LEMMA Waiting ==
  ASSUME IInv, pc # "done", NEW s \in Registered,
         task[s] \in {"started", "fetching"}
  PROVE  /\ pc \in {"initial", "deferred"}
         /\ \A r \in runs : r.source # s
         /\ From(s, claims) = {}
BY DEF IInv, TypeInv, Stages, Reports

\* The step that reports the run of s, with the claims it adds.
LEMMA Reporting ==
  ASSUME IInv, pc # "done", NEW s \in Registered,
         task[s] \in {"started", "fetching"},
         NEW a \in Seq(Claim), \A i \in DOMAIN a : a[i].source = s,
         NEW status \in Status, status = "success" <=> Len(a) > 0,
         claims' = claims \o a,
         Report(s, status, Len(a)),
         UNCHANGED <<config, pc, ctx, queried, lists, overall>>
  PROVE  IInv'
<1>1. /\ TypeInv /\ Stages /\ Reports
      /\ pc \in {"initial", "deferred"}
      /\ \A r \in runs : r.source # s
      /\ From(s, claims) = {}
  BY Waiting DEF IInv
<1>2. Len(a) \in Nat
  OBVIOUS
<1>3. /\ \A t : t # s => From(t, claims \o a) = From(t, claims)
      /\ Cardinality(From(s, claims \o a)) = Len(a)
  BY <1>1, Appended DEF TypeInv
<1>4. TypeInv'
  BY <1>1, <1>2 DEF TypeInv, Report, config
<1>5. AskedOf' = AskedOf
  BY DEF AskedOf, Initial, Deferred, config
<1>6. Stages'
  BY <1>1, <1>5 DEF TypeInv, Stages, Report, config
<1>7. Reports'
  <2> DEFINE new == [source |-> s, status |-> status, count |-> Len(a)]
  <2>1. runs' = runs \cup {new} /\ new.source = s
    BY DEF Report
  <2>2. ASSUME NEW t \in Registered
        PROVE  /\ task'[t] = "done" <=> \E r \in runs' : r.source = t
               /\ task'[t] # "done" => From(t, claims') = {}
    <3>1. CASE t = s
      BY <1>1, <2>1, <3>1 DEF Report, TypeInv
    <3>2. CASE t # s
      BY <1>1, <1>3, <2>1, <3>2 DEF Report, TypeInv, Reports
    <3> QED
      BY <3>1, <3>2
  <2>3. \A q, r \in runs' : q.source = r.source => q = r
    BY <1>1, <2>1 DEF Reports
  <2>4. ASSUME NEW r \in runs'
        PROVE  /\ r.count = Cardinality(From(r.source, claims'))
               /\ r.status = "success" <=> r.count > 0
    <3>1. CASE r \in runs
      BY <1>1, <1>3, <3>1 DEF Reports
    <3>2. CASE r = new
      BY <1>3, <2>1, <3>2
    <3> QED
      BY <2>1, <3>1, <3>2
  <2> QED
    BY <2>2, <2>3, <2>4 DEF Reports
<1> QED
  BY <1>4, <1>6, <1>7 DEF IInv

\* A run without claims.
LEMMA ReportingNone ==
  ASSUME IInv, pc # "done", NEW s \in Registered,
         task[s] \in {"started", "fetching"},
         NEW status \in {"no_claims", "error", "skipped"},
         Report(s, status, 0),
         UNCHANGED <<config, pc, ctx, claims, queried, lists, overall>>
  PROVE  IInv'
<1>1. claims \in Seq(Claim)
  BY DEF IInv, TypeInv
<1>2. /\ <<>> \in Seq(Claim) /\ Len(<<>>) = 0 /\ DOMAIN <<>> = {}
      /\ claims' = claims \o <<>>
  BY <1>1
<1>3. /\ Report(s, status, Len(<<>>))
      /\ UNCHANGED <<config, pc, ctx, queried, lists, overall>>
      /\ status \in Status
      /\ status = "success" <=> Len(<<>>) > 0
  BY <1>2 DEF Status
<1> DEFINE a == <<>>
<1>4. /\ a \in Seq(Claim) /\ \A i \in DOMAIN a : a[i].source = s
      /\ claims' = claims \o a
      /\ Report(s, status, Len(a))
      /\ status = "success" <=> Len(a) > 0
  BY <1>2, <1>3
<1> HIDE DEF a
<1> QED
  BY <1>3, <1>4, Reporting

LEMMA Inductive == IInv /\ [Next]_vars => IInv'
<1> SUFFICES ASSUME IInv, [Next]_vars, pc' # "done" PROVE IInv'
  BY DEF IInv
<1>1. CASE UNCHANGED vars
  BY <1>1 DEF vars, config, IInv, TypeInv, Stages, Reports, AskedOf, Initial,
              Deferred
<1>2. CASE Skip
  <2>1. /\ pc = "start" /\ pc' = "merged" /\ passive' /\ TypeInv /\ Stages
        /\ Reports
    BY <1>2 DEF Skip, config, IInv
  <2>2. TypeInv'
    BY <1>2, <2>1 DEF Skip, config, TypeInv
  <2>3. Stages'
    BY <1>2, <2>1 DEF Skip, config, Stages
  <2>4. Reports'
    BY <1>2, <2>1 DEF Skip, Reports
  <2> QED
    BY <2>2, <2>3, <2>4 DEF IInv
<1>3. CASE Start
  <2>1. /\ pc = "start" /\ pc' = "initial" /\ ~passive' /\ TypeInv /\ Stages
        /\ Reports
    BY <1>3 DEF Start, config, IInv
  <2>2. TypeInv'
    BY <1>3, <2>1 DEF Start, Launch, config, TypeInv
  <2>3. AskedOf' = Initial
    BY <1>3, <2>1 DEF Start, config, Stages, AskedOf, Initial
  <2>4. Stages'
    BY <1>3, <2>1, <2>3 DEF Start, Launch, config, Stages
  <2>5. Reports'
    BY <1>3, <2>1 DEF Start, Launch, Reports, Stages
  <2> QED
    BY <2>2, <2>4, <2>5 DEF IInv
<1>4. ASSUME NEW s \in Registered, DryRunRefuses(s)
      PROVE  IInv'
  BY <1>4, ReportingNone DEF DryRunRefuses, config
<1>5. ASSUME NEW s \in Registered, DryRunPasses(s)
      PROVE  IInv'
  <2>1. /\ TypeInv /\ Stages /\ Reports
        /\ task[s] = "started"
        /\ task' = [task EXCEPT ![s] = "fetching"]
        /\ UNCHANGED <<config, pc, ctx, claims, runs, queried, lists, overall>>
    BY <1>5 DEF DryRunPasses, IInv, config
  <2>2. TypeInv'
    BY <2>1 DEF config, TypeInv
  <2>3. AskedOf' = AskedOf
    BY <2>1 DEF config, AskedOf, Initial, Deferred
  <2>4. pc \in {"initial", "deferred"}
    BY <2>1 , <1>5 DEF config, TypeInv, Stages
  <2>5. Stages'
    BY <2>1, <2>3, <2>4 DEF config, TypeInv, Stages
  <2>6. Reports'
    BY <2>1 DEF TypeInv, Reports
  <2> QED
    BY <2>2, <2>5, <2>6 DEF IInv
<1>6. ASSUME NEW s \in Registered, Fetched(s)
      PROVE  IInv'
  <2>1. PICK a \in Answers[country][s] :
          /\ claims' = claims \o a
          /\ Report(s, IF a = <<>> THEN "no_claims" ELSE "success", Len(a))
    BY <1>6 DEF Fetched
  <2>2. country \in Asked /\ pc # "done" /\ task[s] = "fetching"
        /\ UNCHANGED <<config, pc, ctx, queried, lists, overall>>
    BY <1>6 DEF Fetched, IInv, TypeInv, config
  <2>3. a \in Seq(Claim) /\ \A i \in DOMAIN a : a[i].source = s
    BY <2>2, AnswerType
  <2>4. a = <<>> <=> Len(a) = 0
    BY <2>3
  <2> DEFINE status == IF a = <<>> THEN "no_claims" ELSE "success"
  <2>5. status \in Status /\ (status = "success" <=> Len(a) > 0)
    <3>1. Len(a) \in Nat
      BY <2>3
    <3>2. CASE a = <<>>
      BY <2>4, <3>2 DEF Status
    <3>3. CASE a # <<>>
      <4>1. status = "success"
        BY <3>3
      <4> QED
        BY <2>4, <3>1, <3>3, <4>1 DEF Status
    <3> QED
      BY <3>2, <3>3
  <2> HIDE DEF status
  <2>6. Report(s, status, Len(a))
    BY <2>1 DEF status
  <2> QED
    BY <2>1, <2>2, <2>3, <2>5, <2>6, Reporting
<1>7. ASSUME NEW s \in Registered, FetchFails(s)
      PROVE  IInv'
  <2>1. PICK status \in Catalogue[s].fails : Report(s, status, 0)
    BY <1>7 DEF FetchFails
  <2>2. status \in {"no_claims", "error", "skipped"}
    BY FailureStatus, CorrelatorAssumption DEF CorrelatorAssumption
  <2> QED
    BY <1>7, <2>1, <2>2, ReportingNone DEF FetchFails, config
<1>8. CASE TimeOut
  BY <1>8 DEF TimeOut, config, IInv, TypeInv, Stages, Reports, AskedOf,
              Initial, Deferred
<1>9. CASE Defer
  <2>1. /\ pc = "initial" /\ pc' = "deferred" /\ TypeInv /\ Stages /\ Reports
        /\ Finished /\ queried' # {}
        /\ UNCHANGED <<config, claims, runs>>
        /\ task' = [t \in Registered |->
                      IF t \in Deferred THEN "started" ELSE task[t]]
    BY <1>9 DEF Defer, Launch, config, IInv
  <2>2. TypeInv'
    BY <2>1 DEF config, TypeInv
  <2>3. AskedOf = Initial /\ AskedOf' = Initial \cup Deferred
    BY <2>1 DEF config, Stages, AskedOf, Initial, Deferred
  <2>4. Stages'
    BY <2>1, <2>3 DEF config, Stages
  <2>5. \A t \in Deferred : t \in Registered /\ task[t] = "idle"
    <3>1. country \in Countries
      BY <2>1, CorrelatorAssumption DEF TypeInv, CorrelatorAssumption
    <3> QED
      BY <2>1, <2>3, <3>1, DeferredIsLate DEF Stages, Deferred
  <2>6. Reports'
    BY <2>1, <2>5 DEF Reports
  <2> QED
    BY <2>2, <2>4, <2>6 DEF IInv
<1>10. CASE MergeClaims
  <2>1. /\ pc \in {"initial", "deferred"} /\ pc' = "merged"
        /\ TypeInv /\ Stages /\ Reports /\ Finished
        /\ UNCHANGED <<config, task, claims, runs, queried>>
    BY <1>10 DEF MergeClaims, Conclude, config, IInv
  <2>2. TypeInv'
    BY <2>1 DEF config, TypeInv
  <2>3. AskedOf' = AskedOf
    BY <2>1 DEF config, AskedOf, Initial, Deferred
  <2>4. Stages'
    BY <2>1, <2>3 DEF config, Stages, Finished
  <2>5. Reports'
    BY <2>1 DEF Reports
  <2> QED
    BY <2>2, <2>4, <2>5 DEF IInv
<1>11. CASE Annotate
  BY <1>11 DEF Annotate
<1>12. CASE Terminating
  BY <1>1, <1>12 DEF Terminating
<1> QED
  BY <1>1, <1>2, <1>3, <1>4, <1>5, <1>6, <1>7, <1>8, <1>9, <1>10, <1>11, <1>12
  DEF Next

LEMMA AccountsFollow == IInv => RunsAccount
<1> SUFFICES ASSUME IInv, pc = "merged", ~passive
             PROVE  /\ {r.source : r \in runs} = AskedOf
                    /\ \A r \in runs :
                         /\ \A q \in runs : q.source = r.source => q = r
                         /\ r.count = Cardinality(From(r.source, claims))
                         /\ r.status = "success" <=> r.count > 0
  BY DEF RunsAccount, AskedOf, From
<1>1. TypeInv /\ Stages /\ Reports
  BY DEF IInv
<1>2. AskedOf \subseteq Registered
  BY DEF AskedOf, Initial, Deferred
<1> QED
  BY <1>1, <1>2 DEF TypeInv, Stages, Reports

\* Every source asked has exactly one run in a merged record, and its count is
\* that of its claims that arrived (fetchAll), for any set of sources, values
\* and countries and whatever the goroutines' order and the timeout.
THEOREM RunsAccountAlways == Spec => []RunsAccount
<1>1. Spec => []IInv
  BY Initially, Inductive, PTL DEF Spec
<1> QED
  BY <1>1, AccountsFollow, PTL

-----------------------------------------------------------------------------
(* Over data: a product, a maximum, a sort                                 *)

\* A set of numbers that is not empty has a least one.
LEMMA Least ==
  ASSUME NEW A \in SUBSET Nat, A # {}
  PROVE  \E m \in A : \A n \in A : m <= n
<1>1. PICK m \in A : \A n \in A : ~ (<<n, m>> \in OpToRel(<, Nat))
  BY NatLessThanWellFounded, WFMin
<1>2. \A n \in A : ~ (n < m)
  BY <1>1 DEF OpToRel
<1> QED
  BY <1>2

\* Induction, on a set of numbers that holds 0 and with each number the next.
LEMMA Reaches ==
  ASSUME NEW A \in SUBSET Nat, 0 \in A, \A n \in A : n + 1 \in A
  PROVE  A = Nat
<1> SUFFICES ASSUME Nat \ A # {} PROVE FALSE
  OBVIOUS
<1>1. PICK m \in Nat \ A : \A n \in Nat \ A : m <= n
  <2> DEFINE B == Nat \ A
  <2>1. B \in SUBSET Nat /\ B # {}
    OBVIOUS
  <2> HIDE DEF B
  <2>2. \E m \in B : \A n \in B : m <= n
    BY <2>1, Least
  <2> QED
    BY <2>2 DEF B
<1>2. m - 1 \in Nat /\ m - 1 \in A
  BY <1>1
<1> QED
  BY <1>1, <1>2

\* The recursion by which a fold multiplies, on a family of sets of places.
Folds(w, g, S) ==
  \A s \in S :
    g[s] = IF s = {} THEN 1
                     ELSE w[CHOOSE x \in s : TRUE] * g[s \ {CHOOSE x \in s : TRUE}]

Smaller(w, n) == {s \in SUBSET DOMAIN w : Cardinality(s) <= n}

LEMMA OneLess ==
  ASSUME NEW w, IsFiniteSet(DOMAIN w), NEW n \in Nat,
         NEW s \in Smaller(w, n + 1), s # {}
  PROVE  /\ (CHOOSE x \in s : TRUE) \in DOMAIN w
         /\ s \ {CHOOSE x \in s : TRUE} \in Smaller(w, n)
<1> DEFINE x == CHOOSE x \in s : TRUE
<1>1. x \in s /\ x \in DOMAIN w
  BY DEF Smaller
<1> HIDE DEF x
<1>2. IsFiniteSet(s) /\ Cardinality(s) \in Nat /\ Cardinality(s) <= n + 1
  BY FS_Subset, FS_CardinalityType DEF Smaller
<1>3. Cardinality(s \ {x}) = Cardinality(s) - 1
  BY <1>1, <1>2, FS_RemoveElement
<1>4. s \ {x} \in Smaller(w, n)
  BY <1>2, <1>3 DEF Smaller
<1> QED
  BY <1>1, <1>4 DEF x

\* Of the smaller sets there is the empty one only, to begin with.
LEMMA NoneSmaller ==
  ASSUME NEW w, IsFiniteSet(DOMAIN w), NEW s \in Smaller(w, 0)
  PROVE  s = {}
<1>1. IsFiniteSet(s) /\ Cardinality(s) \in Nat /\ Cardinality(s) <= 0
  BY FS_Subset, FS_CardinalityType DEF Smaller
<1> QED
  BY <1>1, FS_EmptySet

\* The recursion has a solution on the sets of any size.
LEMMA FoldExists ==
  ASSUME NEW w, IsFiniteSet(DOMAIN w)
  PROVE  \A n \in Nat : \E g : Folds(w, g, Smaller(w, n))
<1> DEFINE A == {n \in Nat : \E g : Folds(w, g, Smaller(w, n))}
<1>1. 0 \in A
  <2>1. Folds(w, [s \in {{}} |-> 1], Smaller(w, 0))
    BY NoneSmaller DEF Folds
  <2> QED
    BY <2>1
<1>2. ASSUME NEW n \in A
      PROVE  n + 1 \in A
  <2>1. PICK g : Folds(w, g, Smaller(w, n))
    OBVIOUS
  <2> DEFINE next(s) == IF s = {} THEN 1
                        ELSE w[CHOOSE x \in s : TRUE]
                               * g[s \ {CHOOSE x \in s : TRUE}]
             h == [s \in Smaller(w, n + 1) |-> next(s)]
  <2>2. Smaller(w, n) \subseteq Smaller(w, n + 1)
    BY FS_Subset, FS_CardinalityType DEF Smaller
  <2>3. ASSUME NEW s \in Smaller(w, n) PROVE h[s] = g[s]
    BY <2>1, <2>2 DEF Folds
  <2>4. ASSUME NEW s \in Smaller(w, n + 1)
        PROVE  h[s] = IF s = {} THEN 1
                      ELSE w[CHOOSE x \in s : TRUE]
                             * h[s \ {CHOOSE x \in s : TRUE}]
    <3>1. CASE s = {}
      BY <3>1
    <3>2. CASE s # {}
      <4>1. s \ {CHOOSE x \in s : TRUE} \in Smaller(w, n)
        BY <3>2, OneLess
      <4>2. h[s \ {CHOOSE x \in s : TRUE}] = g[s \ {CHOOSE x \in s : TRUE}]
        BY <4>1, <2>3
      <4> QED
        BY <3>2, <4>2
    <3> QED
      BY <3>1, <3>2
  <2>5. Folds(w, h, Smaller(w, n + 1))
    BY <2>4 DEF Folds
  <2> QED
    BY <2>5
<1>3. A \in SUBSET Nat
  OBVIOUS
<1>4. A = Nat
  <2> HIDE DEF A
  <2> QED
    BY <1>1, <1>2, <1>3, Reaches
<1> QED
  BY <1>4

\* A product is a number of any kind that multiplication does not leave.
LEMMA ProductIn ==
  ASSUME NEW V, 1 \in V, \A x, y \in V : x * y \in V,
         NEW w, IsFiniteSet(DOMAIN w), \A s \in DOMAIN w : w[s] \in V
  PROVE  Product(w) \in V
<1> DEFINE Is(g) == g = [s \in SUBSET DOMAIN w |->
                           IF s = {} THEN 1
                           ELSE w[CHOOSE x \in s : TRUE]
                                  * g[s \ {CHOOSE x \in s : TRUE}]]
           iter == CHOOSE g : Is(g)
           A == {n \in Nat : \A s \in Smaller(w, n) : iter[s] \in V}
<1>1. Product(w) = iter[DOMAIN w]
  BY DEF Product, FoldFunction, FoldFunctionOnSet, MapThenFoldSet
<1>2. \E n \in Nat : Smaller(w, n) = SUBSET DOMAIN w
  <2>1. Cardinality(DOMAIN w) \in Nat
    BY FS_CardinalityType
  <2>2. \A s \in SUBSET DOMAIN w : Cardinality(s) <= Cardinality(DOMAIN w)
    BY FS_Subset
  <2>3. Smaller(w, Cardinality(DOMAIN w)) = SUBSET DOMAIN w
    BY <2>2 DEF Smaller
  <2> QED
    BY <2>1, <2>3
<1>3. Is(iter)
  <2>1. PICK g : Folds(w, g, SUBSET DOMAIN w)
    <3> HIDE DEF Is, iter, A
    <3>1. PICK n \in Nat : Smaller(w, n) = SUBSET DOMAIN w
      BY <1>2
    <3>2. \E g : Folds(w, g, Smaller(w, n))
      BY FoldExists
    <3> QED
      BY <3>1, <3>2
  <2> DEFINE h == [s \in SUBSET DOMAIN w |-> g[s]]
  <2>2. Is(h)
    <3>1. ASSUME NEW s \in SUBSET DOMAIN w
          PROVE  h[s] = IF s = {} THEN 1
                        ELSE w[CHOOSE x \in s : TRUE]
                               * h[s \ {CHOOSE x \in s : TRUE}]
      BY <2>1 DEF Folds
    <3> QED
      BY <3>1
  <2> HIDE DEF Is, h
  <2> QED
    BY <2>2
<1>4. 0 \in A
  <2>1. iter[{}] = 1
    BY <1>3
  <2> HIDE DEF iter
  <2> QED
    BY <2>1, NoneSmaller
<1>5. ASSUME NEW n \in A
      PROVE  n + 1 \in A
  <2>1. ASSUME NEW s \in Smaller(w, n + 1) PROVE iter[s] \in V
    <3>1. s \in SUBSET DOMAIN w
      BY DEF Smaller
    <3>2. iter[s] = IF s = {} THEN 1
                    ELSE w[CHOOSE x \in s : TRUE]
                           * iter[s \ {CHOOSE x \in s : TRUE}]
      BY <1>3, <3>1
    <3> HIDE DEF iter
    <3>3. CASE s = {}
      BY <3>2, <3>3
    <3>4. CASE s # {}
      BY <3>2, <3>4, OneLess
    <3> QED
      BY <3>3, <3>4
  <2> HIDE DEF iter
  <2> QED
    BY <2>1
<1>6. A \in SUBSET Nat
  OBVIOUS
<1>7. A = Nat
  <2> HIDE DEF A
  <2> QED
    BY <1>4, <1>5, <1>6, Reaches
<1>8. DOMAIN w \in SUBSET DOMAIN w
  OBVIOUS
<1> HIDE DEF iter
<1> QED
  BY <1>1, <1>2, <1>7, <1>8

\* A finite set of integers that is not empty has a greatest one.
LEMMA Greatest ==
  ASSUME NEW T \in SUBSET Int, IsFiniteSet(T), T # {}
  PROVE  \E m \in T : \A y \in T : m >= y
<1> DEFINE A == {n \in Nat : \A S \in SUBSET Int :
                    IsFiniteSet(S) /\ S # {} /\ Cardinality(S) = n =>
                      \E m \in S : \A y \in S : m >= y}
<1>1. 0 \in A
  BY FS_EmptySet
<1>2. ASSUME NEW n \in A
      PROVE  n + 1 \in A
  <2>1. ASSUME NEW S \in SUBSET Int, IsFiniteSet(S), S # {}, Cardinality(S) = n + 1
        PROVE  \E m \in S : \A y \in S : m >= y
    <3>1. PICK x \in S : TRUE
      BY <2>1
    <3>2. /\ IsFiniteSet(S \ {x}) /\ S \ {x} \in SUBSET Int
          /\ Cardinality(S \ {x}) = n
      <4>1. /\ IsFiniteSet(S \ {x})
            /\ Cardinality(S \ {x}) = Cardinality(S) - 1
        BY <2>1, FS_RemoveElement
      <4>2. n \in Nat
        OBVIOUS
      <4> QED
        BY <2>1, <4>1, <4>2
    <3>3. CASE S \ {x} = {}
      <4>1. \A y \in S : x >= y
        BY <3>3
      <4> QED
        BY <4>1
    <3>4. CASE S \ {x} # {}
      <4>1. PICK m \in S \ {x} : \A y \in S \ {x} : m >= y
        BY <3>2, <3>4
      <4>2. CASE m >= x
        BY <4>1, <4>2
      <4>3. CASE ~ (m >= x)
        <5>1. \A y \in S : x >= y
          BY <4>1, <4>3
        <5> QED
          BY <5>1
      <4> QED
        BY <4>2, <4>3
    <3> QED
      BY <3>3, <3>4
  <2> QED
    BY <2>1
<1>3. A \in SUBSET Nat
  OBVIOUS
<1>4. A = Nat
  <2> HIDE DEF A
  <2> QED
    BY <1>1, <1>2, <1>3, Reaches
<1>5. Cardinality(T) \in Nat
  BY FS_CardinalityType
<1> QED
  BY <1>4, <1>5

\* Max is that one.
LEMMA MaxOf ==
  ASSUME NEW T \in SUBSET Int, IsFiniteSet(T), T # {}
  PROVE  Max(T) \in T /\ \A y \in T : Max(T) >= y
BY Greatest DEF Max

\* What is greatest is Max.
LEMMA MaxIs ==
  ASSUME NEW T \in SUBSET Int, NEW m \in T, \A y \in T : m >= y
  PROVE  Max(T) = m
<1>1. Max(T) \in T /\ \A y \in T : Max(T) >= y
  BY DEF Max
<1>2. Max(T) >= m /\ m >= Max(T) /\ m \in Int /\ Max(T) \in Int
  BY <1>1
<1> QED
  BY <1>2

-----------------------------------------------------------------------------
\* Candidates that sortCandidates can order: no two of one value.
Ranked(S) ==
  /\ IsFiniteSet(S)
  /\ \A c \in S : c.norm \in Int /\ c.confidence \in Int
  /\ \A c, d \in S : c.norm = d.norm => c = d

\* Better is transitive, and compares any two of different values.
LEMMA BetterOrders ==
  ASSUME NEW S, Ranked(S), NEW b \in S, NEW c \in S, NEW d \in S
  PROVE  /\ ~ Better(c, c)
         /\ c # d => Better(c, d) \/ Better(d, c)
         /\ Better(b, c) /\ Better(c, d) => Better(b, d)
BY DEF Ranked, Better

\* They can be put in order: a candidate goes after those that are better.
LEMMA Sortable ==
  ASSUME NEW S, Ranked(S)
  PROVE  \E q \in [1..Cardinality(S) -> S] :
           \A i, j \in DOMAIN q : i < j => Better(q[i], q[j])
<1> DEFINE n == Cardinality(S)
           ahead(c) == {d \in S : Better(d, c)}
           r == [c \in S |-> Cardinality(ahead(c)) + 1]
<1>1. IsFiniteSet(S) /\ n \in Nat
  BY FS_CardinalityType DEF Ranked
<1>2. ASSUME NEW c \in S
      PROVE  /\ IsFiniteSet(ahead(c)) /\ Cardinality(ahead(c)) \in Nat
             /\ Cardinality(ahead(c)) < n
  <2>1. ahead(c) \in SUBSET S /\ c \notin ahead(c)
    BY BetterOrders
  <2>2. ahead(c) # S
    BY <2>1
  <2> HIDE DEF ahead
  <2>3. /\ IsFiniteSet(ahead(c)) /\ Cardinality(ahead(c)) <= n
        /\ Cardinality(ahead(c)) # n
    BY <1>1, <2>1, <2>2, FS_Subset
  <2>4. Cardinality(ahead(c)) \in Nat
    BY <2>3, FS_CardinalityType
  <2> QED
    BY <1>1, <2>3, <2>4
<1>3. r \in [S -> 1..n]
  <2> HIDE DEF ahead, n
  <2> QED
    BY <1>1, <1>2
<1>4. ASSUME NEW c \in S, NEW d \in S, Better(c, d)
      PROVE  r[c] < r[d]
  <2>1. /\ ahead(c) \in SUBSET ahead(d)
        /\ c \in ahead(d) /\ c \notin ahead(c)
    BY <1>4, BetterOrders
  <2> HIDE DEF ahead
  <2>2. /\ Cardinality(ahead(c)) <= Cardinality(ahead(d))
        /\ Cardinality(ahead(c)) # Cardinality(ahead(d))
    BY <1>2, <2>1, FS_Subset
  <2> QED
    BY <1>2, <2>2
<1>5. ASSUME NEW c \in S, NEW d \in S, r[c] = r[d]
      PROVE  c = d
  <2>1. ~ Better(c, d) /\ ~ Better(d, c)
    <3> HIDE DEF r, n
    <3> QED
      BY <1>3, <1>4, <1>5
  <2> QED
    BY <2>1, BetterOrders
<1> HIDE DEF r, ahead
<1>6. r \in Surjection(S, 1..n)
  <2>1. r \in Injection(S, 1..n)
    BY <1>3, <1>5, Fun_IsInj
  <2>2. IsFiniteSet(1..n) /\ Cardinality(1..n) = n
    <3>1. 1 \in Int /\ n \in Int /\ (IF 1 > n THEN 0 ELSE n - 1 + 1) = n
      BY <1>1
    <3> HIDE DEF n
    <3> QED
      BY <3>1, FS_Interval
  <2> HIDE DEF n
  <2> QED
    BY <2>1, <2>2, FS_Injection DEF n
<1> DEFINE q == [i \in 1..n |-> CHOOSE c \in S : r[c] = i]
<1>7. \A i \in 1..n : q[i] \in S /\ r[q[i]] = i
  BY <1>6 DEF Surjection
<1>8. q \in [1..n -> S]
  BY <1>7
<1>9. ASSUME NEW i \in 1..n, NEW j \in 1..n, i < j
      PROVE  Better(q[i], q[j])
  <2>1. q[i] \in S /\ q[j] \in S /\ r[q[i]] = i /\ r[q[j]] = j
    BY <1>7
  <2> HIDE DEF q
  <2>2. q[i] # q[j]
    BY <1>9, <2>1
  <2>3. ~ Better(q[j], q[i])
    BY <1>4, <1>9, <2>1
  <2> QED
    BY <2>1, <2>2, <2>3, BetterOrders
<1> HIDE DEF q
<1> QED
  BY <1>8, <1>9

\* Sorted lists each candidate once, the better of two first.
LEMMA SortedIs ==
  ASSUME NEW S, Ranked(S)
  PROVE  /\ Sorted(S) \in [1..Cardinality(S) -> S]
         /\ \A i, j \in DOMAIN Sorted(S) :
              i < j => Better(Sorted(S)[i], Sorted(S)[j])
         /\ \A i, j \in DOMAIN Sorted(S) : Sorted(S)[i] = Sorted(S)[j] => i = j
         /\ \A c \in S : \E i \in DOMAIN Sorted(S) : Sorted(S)[i] = c
<1> DEFINE q == Sorted(S)
           n == Cardinality(S)
<1>1. /\ q \in [1..n -> S]
      /\ \A i, j \in 1..n : i < j => Better(q[i], q[j])
  BY Sortable DEF Sorted
<1>2. IsFiniteSet(S) /\ n \in Nat
  BY FS_CardinalityType DEF Ranked
<1> HIDE DEF q
<1>3. ASSUME NEW i \in 1..n, NEW j \in 1..n, q[i] = q[j]
      PROVE  i = j
  <2>1. q[i] \in S /\ ~ Better(q[i], q[i])
    BY <1>1, BetterOrders
  <2>2. ~ (i < j) /\ ~ (j < i)
    BY <1>1, <1>3, <2>1
  <2> QED
    BY <1>2, <2>2
<1>4. q \in Surjection(1..n, S)
  <2>1. q \in Injection(1..n, S)
    BY <1>1, <1>3, Fun_IsInj
  <2>2. Cardinality(1..n) = n
    <3>1. 1 \in Int /\ n \in Int /\ (IF 1 > n THEN 0 ELSE n - 1 + 1) = n
      BY <1>2
    <3> HIDE DEF n
    <3> QED
      BY <3>1, FS_Interval
  <2> HIDE DEF n
  <2> QED
    BY <1>2, <2>1, <2>2, FS_Injection DEF n
<1>5. \A c \in S : \E i \in 1..n : q[i] = c
  BY <1>4 DEF Surjection
<1>6. DOMAIN q = 1..n
  BY <1>1
<1> QED
  BY <1>1, <1>3, <1>5, <1>6 DEF q

-----------------------------------------------------------------------------
(* Clusters and candidates                                                 *)

\* A function on a finite domain takes finitely many values.
LEMMA FiniteImage ==
  ASSUME NEW f, IsFiniteSet(DOMAIN f)
  PROVE  IsFiniteSet({f[x] : x \in DOMAIN f})
<1> DEFINE D == DOMAIN f
           T == {f[x] : x \in D}
           g == [x \in D |-> f[x]]
<1>1. g \in Surjection(D, T)
  BY DEF Surjection
<1> HIDE DEF g, T
<1>2. IsFiniteSet(T)
  BY <1>1, FS_Surjection
<1> QED
  BY <1>2 DEF T

\* Claims as a source makes them: numbers for weight and value.
Usable(q) ==
  /\ DOMAIN q \in SUBSET Nat /\ IsFiniteSet(DOMAIN q)
  /\ \A i \in DOMAIN q : q[i].value \in Int /\ q[i].weight \in Int

\* A source weighs a number.
LEMMA SourceWeightType ==
  ASSUME NEW K, IsFiniteSet(K), \A c \in K : c.weight \in Int,
         NEW s \in {c.source : c \in K}
  PROVE  SourceWeight(K, s) \in Int
<1> DEFINE D == {d \in K : d.source = s}
           f == [c \in D |-> IF c.age = 0 THEN c.weight ELSE (c.weight * 9) \div 10]
           W == {f[c] : c \in DOMAIN f}
<1>1. IsFiniteSet(DOMAIN f)
  BY FS_Subset
<1>2. IsFiniteSet(W)
  <2> HIDE DEF f
  <2> QED
    BY <1>1, FiniteImage
<1>3. W \in SUBSET Int
  <2>1. \A c \in D : c.weight \in Int /\ (c.weight * 9) \div 10 \in Int
    OBVIOUS
  <2> QED
    BY <2>1
<1>4. W # {}
  OBVIOUS
<1>5. SourceWeight(K, s) = Max(W)
  <2>1. W = {IF c.age = 0 THEN c.weight ELSE (c.weight * 9) \div 10 : c \in D}
    OBVIOUS
  <2> HIDE DEF W
  <2> QED
    BY <2>1 DEF SourceWeight
<1> HIDE DEF W
<1> QED
  BY <1>2, <1>3, <1>4, <1>5, MaxOf

\* The noisy-or of finitely many claims is a number.
LEMMA CombineType ==
  ASSUME NEW K, IsFiniteSet(K), \A c \in K : c.weight \in Int
  PROVE  Combine(K) \in Int
<1> DEFINE sources == {c.source : c \in K}
           w == [s \in sources |-> 40 - SourceWeight(K, s)]
           u == [s \in sources |-> 40]
           doubt == Product(w)
           whole == Product(u)
           N == Nat \ {0}
<1>1. IsFiniteSet(sources)
  <2> DEFINE g == [c \in K |-> c.source]
  <2>1. sources = {g[c] : c \in DOMAIN g}
    OBVIOUS
  <2>2. IsFiniteSet(DOMAIN g)
    OBVIOUS
  <2> HIDE DEF g, sources
  <2> QED
    BY <2>1, <2>2, FiniteImage
<1>2. doubt \in Int
  <2>1. DOMAIN w = sources /\ \A s \in DOMAIN w : w[s] \in Int
    BY SourceWeightType
  <2>2. 1 \in Int /\ \A x, y \in Int : x * y \in Int
    OBVIOUS
  <2> HIDE DEF w, sources
  <2> QED
    BY <1>1, <2>1, <2>2, ProductIn
<1>3. whole \in N
  <2>1. DOMAIN u = sources /\ \A s \in DOMAIN u : u[s] \in N
    OBVIOUS
  <2>2. 1 \in N /\ \A x, y \in N : x * y \in N
    OBVIOUS
  <2> HIDE DEF u, sources, N
  <2> QED
    BY <1>1, <2>1, <2>2, ProductIn
<1>4. Combine(K) = 1000 - ((2000 * doubt + whole - 1) \div (2 * whole))
  BY DEF Combine
<1> HIDE DEF doubt, whole
<1>5. 2000 * doubt + whole - 1 \in Int /\ 2 * whole \in Nat /\ 2 * whole > 0
  BY <1>2, <1>3
<1> QED
  BY <1>4, <1>5

\* Nothing falls below zero.
LEMMA MaxZero ==
  ASSUME NEW x \in Int
  PROVE  Max({0, x}) \in Nat
<1>1. IsFiniteSet({0, x})
  <2>1. IsFiniteSet({0} \cup {x})
    BY FS_Singleton, FS_AddElement
  <2>2. {0} \cup {x} = {0, x}
    OBVIOUS
  <2> QED
    BY <2>1, <2>2
<1>2. Max({0, x}) \in {0, x} /\ \A y \in {0, x} : Max({0, x}) >= y
  BY <1>1, MaxOf
<1> QED
  BY <1>2

\* A claim is like itself.
LEMMA AlikeItself == \A c : Alike(c, c)
BY DEF Alike, SameCluster

\* Claim k, if there is something in it, belongs to the first opener it is like.
Joins(q, O, o, k) ==
  /\ Meaningful(q[k])
  /\ Alike(q[o], q[k])
  /\ ~ \E j \in O : j < o /\ Alike(q[j], q[k])

\* Every claim that is not skipped joins one cluster and no other.
LEMMA OneHome ==
  ASSUME NEW q, Usable(q), NEW O \in SUBSET DOMAIN q, Opens(q, O),
         NEW k \in DOMAIN q, Meaningful(q[k])
  PROVE  \E o \in O : Joins(q, O, o, k) /\ \A p \in O : Joins(q, O, p, k) => p = o
<1> DEFINE A == {o \in O : Alike(q[o], q[k])}
<1>1. A \in SUBSET Nat
  BY DEF Usable
<1>2. A # {}
  BY AlikeItself DEF Opens
<1>3. PICK o \in A : \A n \in A : o <= n
  <2> HIDE DEF A
  <2> QED
    BY <1>1, <1>2, Least
<1>4. Joins(q, O, o, k)
  BY <1>1, <1>3 DEF Joins
<1>5. ASSUME NEW p \in O, Joins(q, O, p, k) PROVE p = o
  <2>1. p \in A /\ ~ (o < p) /\ o <= p /\ o \in Nat /\ p \in Nat
    BY <1>1, <1>3, <1>5 DEF Joins
  <2> HIDE DEF A
  <2> QED
    BY <1>1, <2>1
<1> QED
  BY <1>4, <1>5

\* A cluster holds the claims that join it.
LEMMA HoldsWhoJoins ==
  ASSUME NEW q, Usable(q), NEW O \in SUBSET DOMAIN q, Opens(q, O),
         NEW k \in DOMAIN q, NEW o \in O
  PROVE  q[k] \in Cluster(q, O, o).claims <=> Joins(q, O, o, k)
<1> DEFINE M == {o} \cup {i \in DOMAIN q \ O :
                            /\ i > o /\ Meaningful(q[i]) /\ Alike(q[o], q[i])
                            /\ ~ \E j \in O : j < o /\ Alike(q[j], q[i])}
<1>1. Cluster(q, O, o).claims = {q[i] : i \in M}
  BY DEF Cluster
<1>2. ASSUME q[k] \in {q[i] : i \in M} PROVE Joins(q, O, o, k)
  <2>1. PICK i \in M : q[i] = q[k]
    BY <1>2
  <2>2. CASE i = o
    BY <2>1, <2>2, AlikeItself DEF Joins, Opens
  <2>3. CASE i # o
    BY <2>1, <2>3 DEF Joins
  <2> QED
    BY <2>2, <2>3
<1>3. ASSUME Joins(q, O, o, k) PROVE k \in M
  <2>1. o \in Nat /\ k \in Nat
    BY DEF Usable
  <2>2. CASE k \in O
    <3>1. ~ (o < k)
      BY <1>3, <2>2 DEF Joins, Opens
    <3>2. ~ (k < o)
      BY <1>3, <2>2, AlikeItself DEF Joins
    <3> QED
      BY <2>1, <3>1, <3>2
  <2>3. CASE k \notin O
    <3>1. PICK j \in O : j < k /\ Alike(q[j], q[k])
      BY <1>3, <2>3 DEF Joins, Opens
    <3>2. j \in Nat /\ ~ (j < o)
      BY <1>3, <3>1 DEF Joins, Usable
    <3> QED
      BY <1>3, <2>1, <2>3, <3>1, <3>2 DEF Joins
  <2> QED
    BY <2>2, <2>3
<1>4. Joins(q, O, o, k) => q[k] \in {q[i] : i \in M}
  BY <1>3
<1> HIDE DEF M
<1> QED
  BY <1>1, <1>2, <1>4

\* The claims of a cluster are claims, of the opener's field.
LEMMA ClusterHolds ==
  ASSUME NEW q, NEW O \in SUBSET DOMAIN q, NEW o \in O,
         NEW c \in Cluster(q, O, o).claims
  PROVE  \E k \in DOMAIN q : c = q[k] /\ ClusterField(c) = ClusterField(q[o])
BY DEF Cluster, Alike

\* A cluster is finite, and its claims weigh numbers.
LEMMA ClusterFinite ==
  ASSUME NEW q, Usable(q), NEW O \in SUBSET DOMAIN q, NEW o \in O
  PROVE  /\ IsFiniteSet(Cluster(q, O, o).claims)
         /\ \A c \in Cluster(q, O, o).claims : c.weight \in Int
<1> DEFINE K == Cluster(q, O, o).claims
           f == [i \in DOMAIN q |-> q[i]]
           I == {f[i] : i \in DOMAIN f}
<1>1. IsFiniteSet(DOMAIN f)
  BY DEF Usable
<1>2. IsFiniteSet(I)
  <2> HIDE DEF f
  <2> QED
    BY <1>1, FiniteImage
<1>3. K \in SUBSET I
  BY ClusterHolds
<1>4. \A c \in I : c.weight \in Int
  BY DEF Usable
<1> HIDE DEF K, I
<1>5. IsFiniteSet(K) /\ \A c \in K : c.weight \in Int
  BY <1>2, <1>3, <1>4, FS_Subset
<1> QED
  BY <1>5 DEF K

Rivals(q, O, o) ==
  {r \in O : \/ r < o /\ Conflicting(q[r], q[o])
             \/ r > o /\ Conflicting(q[o], q[r])}

CandidateOf(q, O, o) == Candidate(q, O, Cluster(q, O, o))

\* What a candidate is made of.
WellMade(q, O, o) ==
  /\ CandidateOf(q, O, o).norm = q[o].value
  /\ CandidateOf(q, O, o).norm \in Int
  /\ CandidateOf(q, O, o).claims = Cluster(q, O, o).claims
  /\ CandidateOf(q, O, o).confidence =
       Max({0, Combine(Cluster(q, O, o).claims)
                 - 300 * Cardinality(Rivals(q, O, o))})
  /\ CandidateOf(q, O, o).confidence \in Nat

\* Every candidate that merge sorts is.
LEMMA CandidateIs ==
  ASSUME NEW q, Usable(q), NEW O \in SUBSET DOMAIN q, NEW o \in O
  PROVE  WellMade(q, O, o)
<1> DEFINE K == Cluster(q, O, o).claims
           x == Combine(K) - 300 * Cardinality(Rivals(q, O, o))
<1>1. Cluster(q, O, o).opener = o
  BY DEF Cluster
<1>2. CandidateOf(q, O, o) =
        [norm |-> q[o].value, claims |-> K, confidence |-> Max({0, x})]
  BY <1>1 DEF CandidateOf, Candidate, Rivals
<1>3. Combine(K) \in Int
  <2> HIDE DEF K
  <2>1. IsFiniteSet(K) /\ \A c \in K : c.weight \in Int
    BY ClusterFinite DEF K
  <2> QED
    BY <2>1, CombineType
<1>4. Cardinality(Rivals(q, O, o)) \in Nat
  <2>1. Rivals(q, O, o) \in SUBSET DOMAIN q
    BY DEF Rivals
  <2> QED
    BY <2>1, FS_Subset, FS_CardinalityType DEF Usable
<1>5. Max({0, x}) \in Nat
  <2>1. x \in Int
    <3> HIDE DEF K
    <3> QED
      BY <1>3, <1>4
  <2> HIDE DEF x
  <2> QED
    BY <2>1, MaxZero
<1>6. q[o].value \in Int
  BY DEF Usable
<1> HIDE DEF x, K
<1>7. CandidateOf(q, O, o).confidence = Max({0, x})
  BY <1>2
<1> QED
  BY <1>2, <1>5, <1>6, <1>7 DEF x, K, WellMade

OpenersOf(q, O, f) == {i \in O : ClusterField(q[i]) = f}

ListOf(q, O, f) == {CandidateOf(q, O, o) : o \in OpenersOf(q, O, f)}

\* merge sorts the candidates of each field.
LEMMA MergeSorts ==
  ASSUME NEW q, NEW O, NEW f \in ListedFields
  PROVE  Merge(q, O)[f] = Sorted(ListOf(q, O, f))
<1>1. {Candidate(q, O, k) : k \in {Cluster(q, O, o) : o \in OpenersOf(q, O, f)}}
        = ListOf(q, O, f)
  BY DEF ListOf, CandidateOf
<1> HIDE DEF ListOf
<1> QED
  BY <1>1 DEF Merge, OpenersOf

\* Two openers of one field have different values.
LEMMA OpenersDiffer ==
  ASSUME NEW q, Usable(q), NEW O \in SUBSET DOMAIN q, Opens(q, O), NEW f,
         NEW o \in OpenersOf(q, O, f), NEW p \in OpenersOf(q, O, f),
         \/ q[o].value = q[p].value
         \/ Alike(q[o], q[p]) /\ Alike(q[p], q[o])
  PROVE  o = p
<1>1. o \in O /\ p \in O /\ o \in Nat /\ p \in Nat
  BY DEF OpenersOf, Usable
<1>2. Alike(q[o], q[p]) /\ Alike(q[p], q[o])
  BY DEF OpenersOf, Alike, SameCluster
<1>3. ~ (o < p) /\ ~ (p < o)
  BY <1>1, <1>2 DEF Opens
<1> QED
  BY <1>1, <1>3

\* The candidates of a field have values of their own.
LEMMA ListRanked ==
  ASSUME NEW q, Usable(q), NEW O \in SUBSET DOMAIN q, Opens(q, O), NEW f
  PROVE  Ranked(ListOf(q, O, f))
<1> DEFINE P == OpenersOf(q, O, f)
           g == [o \in P |-> CandidateOf(q, O, o)]
<1>1. ListOf(q, O, f) = {g[o] : o \in DOMAIN g}
  BY DEF ListOf
<1>2. IsFiniteSet(DOMAIN g)
  <2>1. P \in SUBSET DOMAIN q
    BY DEF OpenersOf
  <2> QED
    BY <2>1, FS_Subset DEF Usable
<1>3. IsFiniteSet(ListOf(q, O, f))
  <2> HIDE DEF g
  <2> QED
    BY <1>1, <1>2, FiniteImage
<1>4. ASSUME NEW o \in P
      PROVE  /\ CandidateOf(q, O, o).norm = q[o].value
             /\ CandidateOf(q, O, o).norm \in Int
             /\ CandidateOf(q, O, o).confidence \in Int
  <2>1. o \in O
    BY DEF OpenersOf
  <2>2. WellMade(q, O, o)
    BY <2>1, CandidateIs
  <2>3. CandidateOf(q, O, o).confidence \in Nat
    BY <2>2 DEF WellMade
  <2> QED
    BY <2>2, <2>3 DEF WellMade
<1>5. \A c \in ListOf(q, O, f) : c.norm \in Int /\ c.confidence \in Int
  BY <1>4 DEF ListOf
<1>6. ASSUME NEW c \in ListOf(q, O, f), NEW d \in ListOf(q, O, f), c.norm = d.norm
      PROVE  c = d
  <2>1. PICK o \in P : c = CandidateOf(q, O, o)
    BY DEF ListOf
  <2>2. PICK p \in P : d = CandidateOf(q, O, p)
    BY DEF ListOf
  <2>3. q[o].value = q[p].value
    BY <1>4, <1>6, <2>1, <2>2
  <2> QED
    BY <2>1, <2>2, <2>3, OpenersDiffer
<1> QED
  BY <1>3, <1>5, <1>6 DEF Ranked

\* A list as the record keeps it: numbered, its best candidate first.
BestFirst(L) ==
  \E n \in Nat :
    /\ L \in [1..n -> ToSet(L)]
    /\ L = <<>> <=> n = 0
    /\ \A i \in 1..n : L[i].confidence \in Nat /\ L[1].confidence >= L[i].confidence

\* A list of field f holds the claims of q that are of f and that are not
\* skipped, each once.
HoldsOnly(q, f, L) ==
  \A i \in DOMAIN L : \A c \in L[i].claims :
    \E k \in DOMAIN q : c = q[k] /\ ClusterField(c) = f

HoldsOnce(q, f, L) ==
  \A k \in DOMAIN q :
    ClusterField(q[k]) = f =>
      Cardinality({i \in DOMAIN L : q[k] \in L[i].claims}) =
        IF Meaningful(q[k]) THEN 1 ELSE 0

\* A list that merge makes: best first, and each claim in it once or skipped.
LEMMA ListAccounts ==
  ASSUME NEW q, Usable(q), NEW O \in SUBSET DOMAIN q, Opens(q, O),
         NEW f \in ListedFields, NEW L, L = Merge(q, O)[f]
  PROVE  /\ BestFirst(L)
         /\ ToSet(L) = ListOf(q, O, f)
         /\ HoldsOnly(q, f, L)
         /\ HoldsOnce(q, f, L)
<1> DEFINE S == ListOf(q, O, f)
           n == Cardinality(S)
<1>1. /\ L \in [1..n -> S] /\ DOMAIN L = 1..n
      /\ \A i, j \in 1..n : i < j => Better(L[i], L[j])
      /\ \A i, j \in 1..n : L[i] = L[j] => i = j
      /\ \A c \in S : \E i \in 1..n : L[i] = c
  <2>1. L = Sorted(S) /\ Ranked(S)
    BY MergeSorts, ListRanked
  <2> HIDE DEF S
  <2>2. L \in [1..n -> S]
    BY <2>1, SortedIs
  <2> QED
    BY <2>1, <2>2, SortedIs
<1>2. n \in Nat
  BY ListRanked, FS_CardinalityType DEF Ranked
<1>3. ASSUME NEW c \in S
      PROVE  \E o \in OpenersOf(q, O, f) :
               /\ o \in O /\ ClusterField(q[o]) = f
               /\ c = CandidateOf(q, O, o)
               /\ c.claims = Cluster(q, O, o).claims
               /\ c.confidence \in Nat
  <2>1. PICK o \in OpenersOf(q, O, f) : c = CandidateOf(q, O, o)
    BY DEF ListOf
  <2>2. o \in O /\ ClusterField(q[o]) = f
    BY DEF OpenersOf
  <2>3. WellMade(q, O, o)
    BY <2>2, CandidateIs
  <2>4. /\ CandidateOf(q, O, o).claims = Cluster(q, O, o).claims
        /\ CandidateOf(q, O, o).confidence \in Nat
    BY <2>3 DEF WellMade
  <2> QED
    BY <2>1, <2>2, <2>4
<1> HIDE DEF S, n
<1>4. BestFirst(L) /\ ToSet(L) = S
  <2>0. ToSet(L) = S /\ L \in [1..n -> ToSet(L)]
    BY <1>1 DEF ToSet
  <2>1. L = <<>> <=> n = 0
    BY <1>1, <1>2
  <2>2. ASSUME NEW i \in 1..n
        PROVE  L[i].confidence \in Nat /\ L[1].confidence >= L[i].confidence
    <3>1. /\ 1 \in 1..n /\ L[i] \in S /\ L[1] \in S
          /\ L[i].confidence \in Nat /\ L[1].confidence \in Nat
      BY <1>1, <1>2, <1>3
    <3>2. CASE i = 1
      BY <3>1, <3>2
    <3>3. CASE i # 1
      <4>1. Better(L[1], L[i])
        BY <1>1, <1>2, <3>1, <3>3
      <4> QED
        BY <3>1, <4>1 DEF Better
    <3> QED
      BY <3>2, <3>3
  <2> QED
    BY <1>2, <2>0, <2>1, <2>2 DEF BestFirst
<1>6. ASSUME NEW i \in DOMAIN L, NEW c \in L[i].claims
      PROVE  \E k \in DOMAIN q : c = q[k] /\ ClusterField(c) = f
  <2>1. L[i] \in S
    BY <1>1
  <2> QED
    BY <1>3, <2>1, ClusterHolds
<1>7. ASSUME NEW k \in DOMAIN q, ClusterField(q[k]) = f, Meaningful(q[k])
      PROVE  Cardinality({i \in DOMAIN L : q[k] \in L[i].claims}) = 1
  <2>1. PICK o \in O : Joins(q, O, o, k) /\ \A p \in O : Joins(q, O, p, k) => p = o
    BY <1>7, OneHome
  <2>2. o \in OpenersOf(q, O, f)
    BY <1>7, <2>1 DEF OpenersOf, Joins, Alike
  <2>3. CandidateOf(q, O, o) \in S
    BY <2>2 DEF S, ListOf
  <2>4. PICK i \in 1..n : L[i] = CandidateOf(q, O, o)
    BY <1>1, <2>3
  <2>5. q[k] \in L[i].claims
    <3>1. WellMade(q, O, o)
      BY CandidateIs
    <3>2. q[k] \in Cluster(q, O, o).claims
      BY <2>1, HoldsWhoJoins
    <3> QED
      BY <2>4, <3>1, <3>2 DEF WellMade
  <2>6. ASSUME NEW j \in 1..n, q[k] \in L[j].claims
        PROVE  j = i
    <3>1. L[j] \in S
      BY <1>1
    <3>2. PICK p \in OpenersOf(q, O, f) :
            /\ p \in O /\ L[j] = CandidateOf(q, O, p)
            /\ L[j].claims = Cluster(q, O, p).claims
      BY <1>3, <3>1
    <3>3. Joins(q, O, p, k)
      BY <2>6, <3>2, HoldsWhoJoins
    <3>4. L[j] = L[i]
      BY <2>1, <2>4, <3>2, <3>3
    <3> QED
      BY <1>1, <3>4
  <2>7. {j \in DOMAIN L : q[k] \in L[j].claims} = {i}
    BY <1>1, <2>4, <2>5, <2>6
  <2> QED
    BY <2>7, FS_Singleton
<1>8. ASSUME NEW k \in DOMAIN q, ~ Meaningful(q[k])
      PROVE  Cardinality({i \in DOMAIN L : q[k] \in L[i].claims}) = 0
  <2>1. ASSUME NEW i \in DOMAIN L PROVE q[k] \notin L[i].claims
    <3>1. L[i] \in S
      BY <1>1
    <3>2. PICK o \in O : L[i].claims = Cluster(q, O, o).claims
      BY <1>3, <3>1
    <3>3. ~ Joins(q, O, o, k)
      BY <1>8 DEF Joins
    <3> QED
      BY <3>2, <3>3, HoldsWhoJoins
  <2>2. {i \in DOMAIN L : q[k] \in L[i].claims} = {}
    BY <2>1
  <2> QED
    BY <2>2, FS_EmptySet
<1>9. HoldsOnly(q, f, L)
  BY <1>6 DEF HoldsOnly
<1>10. HoldsOnce(q, f, L)
  BY <1>7, <1>8 DEF HoldsOnce
<1> QED
  BY <1>4, <1>9, <1>10 DEF S

\* The listed fields are finitely many.
LEMMA ListedFinite == IsFiniteSet(ListedFields)
<1>1. IsFiniteSet({"name"})
  BY FS_Singleton
<1>2. IsFiniteSet({"name"} \cup {"address"})
  BY <1>1, FS_AddElement
<1>3. IsFiniteSet({"name", "address"} \cup {"dob"})
  <2>1. {"name"} \cup {"address"} = {"name", "address"}
    OBVIOUS
  <2> QED
    BY <1>2, <2>1, FS_AddElement
<1>4. IsFiniteSet({"name", "address", "dob"} \cup {"email"})
  <2>1. {"name", "address"} \cup {"dob"} = {"name", "address", "dob"}
    OBVIOUS
  <2> QED
    BY <1>3, <2>1, FS_AddElement
<1>5. ListedFields = {"name", "address", "dob"} \cup {"email"}
  BY DEF ListedFields
<1> QED
  BY <1>4, <1>5

Confidences(l) ==
  UNION {{c.confidence : c \in ToSet(l[f])} : f \in ListedFields}

\* Heads suffice where every list has its best first.
LEMMA HeadsSuffice ==
  ASSUME NEW l, \A f \in ListedFields : BestFirst(l[f])
  PROVE  /\ Overall(l) = Max({0} \cup Confidences(l))
         /\ Overall(l) \in Nat
         /\ \A x \in Confidences(l) : x \in Nat /\ x <= Overall(l)
         /\ Overall(l) \in {0} \cup Confidences(l)
<1> DEFINE F == {f \in ListedFields : l[f] # <<>>}
           h == [f \in F |-> l[f][1].confidence]
           H == {h[f] : f \in DOMAIN h}
           A == {0} \cup H
           B == {0} \cup Confidences(l)
<1>1. ASSUME NEW f \in F
      PROVE  /\ 1 \in DOMAIN l[f]
             /\ \A i \in DOMAIN l[f] : /\ l[f][i].confidence \in Nat
                                       /\ l[f][1].confidence >= l[f][i].confidence
  BY DEF BestFirst
<1>2. IsFiniteSet(DOMAIN h)
  BY ListedFinite, FS_Subset
<1>3. IsFiniteSet(H)
  <2> HIDE DEF h
  <2> QED
    BY <1>2, FiniteImage
<1>4. H \in SUBSET Nat
  BY <1>1
<1>5. IsFiniteSet(A) /\ A \in SUBSET Int /\ A # {}
  <2> HIDE DEF H
  <2>1. IsFiniteSet(H \cup {0})
    BY <1>3, FS_AddElement
  <2>2. H \cup {0} = A
    OBVIOUS
  <2> QED
    BY <1>4, <2>1, <2>2
<1> DEFINE m == Max(A)
<1>6. m \in A /\ \A x \in A : m >= x
  <2> HIDE DEF A
  <2> QED
    BY <1>5, MaxOf
<1>7. Overall(l) = m
  <2>1. H = {l[f][1].confidence : f \in F}
    OBVIOUS
  <2> HIDE DEF H
  <2> QED
    BY <2>1 DEF Overall
<1> HIDE DEF m
<1>8. m \in Nat
  <2> HIDE DEF H
  <2> QED
    BY <1>4, <1>6
<1>9. ASSUME NEW x \in Confidences(l)
      PROVE  x \in Nat /\ x <= m
  <2>1. PICK f \in ListedFields : x \in {c.confidence : c \in ToSet(l[f])}
    BY DEF Confidences
  <2>2. PICK i \in DOMAIN l[f] : x = l[f][i].confidence
    BY <2>1 DEF ToSet
  <2>3. f \in F
    BY <2>2
  <2>4. h[f] \in A /\ h[f] = l[f][1].confidence
    BY <2>3
  <2> HIDE DEF A, h
  <2> QED
    BY <1>1, <1>6, <1>8, <2>2, <2>3, <2>4
<1>10. H \subseteq Confidences(l)
  <2>1. ASSUME NEW f \in F PROVE l[f][1].confidence \in Confidences(l)
    BY <1>1 DEF Confidences, ToSet
  <2> QED
    BY <2>1
<1>11. m \in B
  <2> HIDE DEF H
  <2> QED
    BY <1>6, <1>10
<1>12. Max(B) = m
  <2>1. B \in SUBSET Int /\ \A y \in B : m >= y
    BY <1>8, <1>9
  <2> HIDE DEF B
  <2> QED
    BY <1>11, <2>1, MaxIs
<1> QED
  BY <1>7, <1>8, <1>9, <1>11, <1>12

-----------------------------------------------------------------------------
(* Where likeness is an equivalence                                        *)

ClaimsOf(q, f) == {c \in ToSet(q) : ClusterField(c) = f /\ Meaningful(c)}

ClassOf(C, c) == {d \in C : Alike(c, d)}

\* A claim of the set is one of the sequence.
LEMMA ClaimsAre ==
  ASSUME NEW q, NEW f
  PROVE  /\ \A c \in ClaimsOf(q, f) :
              \E k \in DOMAIN q :
                c = q[k] /\ ClusterField(q[k]) = f /\ Meaningful(q[k])
         /\ \A k \in DOMAIN q :
              ClusterField(q[k]) = f /\ Meaningful(q[k]) => q[k] \in ClaimsOf(q, f)
BY DEF ClaimsOf, ToSet

\* A cluster is the class of its opener: who opened before it is not like it,
\* nor like anything that is.
LEMMA ClusterIsClass ==
  ASSUME NEW q, Usable(q), NEW O \in SUBSET DOMAIN q, Opens(q, O), NEW f,
         IsEquivalence(ClaimsOf(q, f)), NEW o \in OpenersOf(q, O, f)
  PROVE  Cluster(q, O, o).claims = ClassOf(ClaimsOf(q, f), q[o])
<1> DEFINE C == ClaimsOf(q, f)
           K == Cluster(q, O, o).claims
<1>1. o \in O /\ o \in DOMAIN q /\ ClusterField(q[o]) = f /\ q[o] \in C
  <2>1. o \in O /\ ClusterField(q[o]) = f /\ Meaningful(q[o])
    BY DEF OpenersOf, Opens
  <2> QED
    BY <2>1, ClaimsAre
<1>2. ASSUME NEW c \in K PROVE c \in ClassOf(C, q[o])
  <2>1. PICK k \in DOMAIN q : c = q[k] /\ ClusterField(c) = ClusterField(q[o])
    BY <1>1, ClusterHolds
  <2>2. Joins(q, O, o, k)
    BY <1>1, <2>1, HoldsWhoJoins
  <2>3. c \in C
    BY <1>1, <2>1, <2>2, ClaimsAre DEF Joins
  <2> QED
    BY <2>1, <2>2, <2>3 DEF Joins, ClassOf
<1>3. ASSUME NEW c \in ClassOf(C, q[o]) PROVE c \in K
  <2>1. c \in C /\ Alike(q[o], c)
    BY DEF ClassOf
  <2>2. PICK k \in DOMAIN q : c = q[k] /\ ClusterField(q[k]) = f /\ Meaningful(q[k])
    BY <2>1, ClaimsAre
  <2>3. ASSUME NEW j \in O, j < o, Alike(q[j], q[k]) PROVE FALSE
    <3>1. j \in DOMAIN q /\ ClusterField(q[j]) = f /\ Meaningful(q[j])
      BY <2>2, <2>3 DEF Alike, Opens
    <3>2. q[j] \in C /\ q[k] \in C
      BY <2>1, <2>2, <3>1, ClaimsAre
    <3>3. Alike(q[k], q[o])
      BY <1>1, <2>1, <2>2, <3>2 DEF IsEquivalence
    <3>4. Alike(q[j], q[o])
      BY <1>1, <2>3, <3>2, <3>3 DEF IsEquivalence
    <3> QED
      BY <1>1, <2>3, <3>4 DEF Opens
  <2>4. Joins(q, O, o, k)
    BY <2>1, <2>2, <2>3 DEF Joins
  <2> QED
    BY <1>1, <2>2, <2>4, HoldsWhoJoins
<1> QED
  BY <1>2, <1>3 DEF ClassOf, K, C

\* Each class has one opener.
LEMMA ClassesOpened ==
  ASSUME NEW q, Usable(q), NEW O \in SUBSET DOMAIN q, Opens(q, O), NEW f,
         NEW C, C = ClaimsOf(q, f), IsEquivalence(C)
  PROVE  /\ {ClassOf(C, c) : c \in C}
              = {ClassOf(C, q[o]) : o \in OpenersOf(q, O, f)}
         /\ IsFiniteSet(OpenersOf(q, O, f))
         /\ Cardinality({ClassOf(C, c) : c \in C})
              = Cardinality(OpenersOf(q, O, f))
<1> DEFINE P == OpenersOf(q, O, f)
           g == [o \in P |-> ClassOf(C, q[o])]
           T == {ClassOf(C, c) : c \in C}
<1>1. ASSUME NEW o \in P PROVE o \in O /\ o \in DOMAIN q /\ q[o] \in C
  <2>1. o \in O /\ ClusterField(q[o]) = f /\ Meaningful(q[o])
    BY DEF OpenersOf, Opens
  <2> QED
    BY <2>1, ClaimsAre
<1>2. ASSUME NEW c \in C
      PROVE  \E o \in P : ClassOf(C, c) = ClassOf(C, q[o])
  <2>1. PICK k \in DOMAIN q : c = q[k] /\ ClusterField(q[k]) = f /\ Meaningful(q[k])
    BY ClaimsAre
  <2>2. PICK o \in O : Joins(q, O, o, k)
    BY <2>1, OneHome
  <2>3. Alike(q[o], c) /\ o \in P
    BY <2>1, <2>2 DEF Joins, Alike, OpenersOf
  <2>4. Alike(c, q[o])
    BY <1>1, <2>3 DEF IsEquivalence
  <2>5. \A d \in C : Alike(c, d) <=> Alike(q[o], d)
    BY <1>1, <2>3, <2>4 DEF IsEquivalence
  <2>6. ClassOf(C, c) = ClassOf(C, q[o])
    BY <2>5 DEF ClassOf
  <2> QED
    BY <2>3, <2>6
<1>3. T = {ClassOf(C, q[o]) : o \in P}
  BY <1>1, <1>2
<1>4. IsFiniteSet(P)
  <2>1. P \in SUBSET DOMAIN q
    BY DEF OpenersOf
  <2> QED
    BY <2>1, FS_Subset DEF Usable
<1>5. ASSUME NEW o \in P, NEW p \in P, g[o] = g[p] PROVE o = p
  <2>1. q[o] \in ClassOf(C, q[o]) /\ q[p] \in ClassOf(C, q[p])
    BY <1>1, AlikeItself DEF ClassOf
  <2>2. q[o] \in ClassOf(C, q[p]) /\ q[p] \in ClassOf(C, q[o])
    BY <1>5, <2>1
  <2>3. Alike(q[o], q[p]) /\ Alike(q[p], q[o])
    BY <2>2 DEF ClassOf
  <2> QED
    BY <2>3, OpenersDiffer
<1>6. g \in [P -> T] /\ \A t \in T : \E o \in P : g[o] = t
  BY <1>3
<1> HIDE DEF g, T
<1>7. g \in Surjection(P, T) /\ g \in Injection(P, T)
  <2>1. g \in Injection(P, T)
    BY <1>5, <1>6, Fun_IsInj
  <2> QED
    BY <1>6, <2>1 DEF Surjection
<1>8. Cardinality(T) = Cardinality(P)
  <2> HIDE DEF P
  <2> QED
    BY <1>4, <1>7, FS_Surjection
<1> QED
  BY <1>3, <1>4, <1>8 DEF T

\* The rivals of an opener are the others of its field, if that can conflict.
LEMMA RivalsCount ==
  ASSUME NEW q, Usable(q), NEW O \in SUBSET DOMAIN q, Opens(q, O), NEW f,
         NEW o \in OpenersOf(q, O, f), IsFiniteSet(OpenersOf(q, O, f))
  PROVE  Cardinality(Rivals(q, O, o)) =
           IF f \in ConflictingFields
           THEN Cardinality(OpenersOf(q, O, f)) - 1
           ELSE 0
<1> DEFINE P == OpenersOf(q, O, f)
<1>1. o \in O /\ o \in Nat /\ ClusterField(q[o]) = f
  BY DEF OpenersOf, Usable
<1>2. CASE f \in ConflictingFields
  <2>1. ASSUME NEW r \in P, r # o PROVE r \in Rivals(q, O, o)
    <3>1. r \in O /\ r \in Nat /\ ClusterField(q[r]) = f
      BY DEF OpenersOf, Usable
    <3>2. r < o => ~ Alike(q[r], q[o])
      BY <1>1, <3>1 DEF Opens
    <3>3. o < r => ~ Alike(q[o], q[r])
      BY <1>1, <3>1 DEF Opens
    <3>4. r < o \/ r > o
      BY <1>1, <2>1, <3>1
    <3> QED
      BY <1>1, <1>2, <3>1, <3>2, <3>3, <3>4 DEF Rivals, Conflicting
  <2>2. ASSUME NEW r \in Rivals(q, O, o) PROVE r \in P \ {o}
    <3>1. r \in O /\ r # o
      BY <1>1 DEF Rivals
    <3>2. ClusterField(q[r]) = f
      BY <1>1 DEF Rivals, Conflicting
    <3> QED
      BY <3>1, <3>2 DEF OpenersOf
  <2>3. Rivals(q, O, o) = P \ {o}
    BY <2>1, <2>2
  <2> HIDE DEF P
  <2>4. Cardinality(P \ {o}) = Cardinality(P) - 1
    BY FS_RemoveElement DEF P
  <2> QED
    BY <1>2, <2>3, <2>4 DEF P
<1>3. CASE f \notin ConflictingFields
  <2>1. Rivals(q, O, o) = {}
    BY <1>1, <1>3 DEF Rivals, Conflicting
  <2> QED
    BY <1>3, <2>1, FS_EmptySet
<1> QED
  BY <1>2, <1>3

\* merge makes the expected candidates, whatever the order of the claims.
LEMMA ListExpected ==
  ASSUME NEW q, Usable(q), NEW O \in SUBSET DOMAIN q, Opens(q, O), NEW f,
         NEW C, C = ClaimsOf(q, f), IsEquivalence(C)
  PROVE  {[claims |-> c.claims, confidence |-> c.confidence] :
            c \in ListOf(q, O, f)}
           = Expected(C, f)
<1> DEFINE P == OpenersOf(q, O, f)
           T == {ClassOf(C, c) : c \in C}
           m == IF f \in ConflictingFields THEN Cardinality(T) - 1 ELSE 0
           E(K) == [claims |-> K, confidence |-> Max({0, Combine(K) - 300 * m})]
<1>1. /\ T = {ClassOf(C, q[o]) : o \in P}
      /\ IsFiniteSet(P) /\ Cardinality(T) = Cardinality(P)
  BY ClassesOpened
<1>2. Expected(C, f) = {E(K) : K \in T}
  BY DEF Expected, ClassOf
<1>3. ASSUME NEW o \in P
      PROVE  /\ CandidateOf(q, O, o).claims = ClassOf(C, q[o])
             /\ CandidateOf(q, O, o).confidence =
                  Max({0, Combine(ClassOf(C, q[o])) - 300 * m})
  <2>1. o \in O
    BY DEF OpenersOf
  <2>2. Cluster(q, O, o).claims = ClassOf(C, q[o])
    BY ClusterIsClass
  <2>3. WellMade(q, O, o)
    BY <2>1, CandidateIs
  <2>4. CandidateOf(q, O, o).confidence =
          Max({0, Combine(Cluster(q, O, o).claims)
                    - 300 * Cardinality(Rivals(q, O, o))})
    BY <2>3 DEF WellMade
  <2>5. Cardinality(Rivals(q, O, o)) = m
    BY <1>1, RivalsCount
  <2>6. CandidateOf(q, O, o).claims = Cluster(q, O, o).claims
    BY <2>3 DEF WellMade
  <2> HIDE DEF m
  <2> QED
    BY <2>2, <2>4, <2>5, <2>6
<1> HIDE DEF m, T
<1>4. \A o \in P :
        [claims |-> CandidateOf(q, O, o).claims,
         confidence |-> CandidateOf(q, O, o).confidence] = E(ClassOf(C, q[o]))
  BY <1>3
<1> HIDE DEF E
<1>5. {[claims |-> c.claims, confidence |-> c.confidence] : c \in ListOf(q, O, f)}
        = {E(ClassOf(C, q[o])) : o \in P}
  BY <1>4 DEF ListOf
<1> QED
  BY <1>1, <1>2, <1>5

-----------------------------------------------------------------------------
(* What the lists are, by where Run is                                     *)

ListInv ==
  /\ lists = [f \in ListedFields |-> lists[f]]
  /\ pc \notin {"merged", "done"} => lists = NoLists /\ overall = 0
  /\ pc = "start" => claims = <<>>
  /\ pc = "merged" => \A f \in ListedFields : BestFirst(lists[f])
  /\ pc = "done" => \A s \in Registered : task[s] \in {"idle", "done"}
  /\ ClaimsAccount
  /\ OrderIndependent
  /\ OverallIsBest

\* Every source weighs a number.
LEMMA WeightType ==
  ASSUME NEW s \in SourceNames, NEW f
  PROVE  Weight(s, f) \in Int
<1>1. Catalogue[s].tier \in {"Government", "Commercial", "Crowdsource", "Breach"}
  BY DEF SourceNames, Catalogue, Described, Swallowed, Returned, ReturnedByGet,
         OpenCNAM, NumLookup, Trestle, LeakSight, IPQualityScore, Veriphone,
         AbstractAPI, Twilio, NeutrinoHLR, CallerKit, CompaniesHouse,
         NigeriaPhoneBook, PagineBianche, TeleListas, PaginasBlancas,
         DasTelefonbuch
<1>2. TierWeight[Catalogue[s].tier] \in Int
  BY <1>1 DEF TierWeight
<1> DEFINE tier == TierWeight[Catalogue[s].tier]
<1> HIDE DEF tier
<1>3. (tier * 60) \div 100 \in Int /\ (tier * 50) \div 100 \in Int
  BY <1>2 DEF tier
<1> QED
  BY <1>2, <1>3 DEF Weight, tier

\* What a claim of a source is made of.
LEMMA ClaimType ==
  ASSUME NEW c \in Claim
  PROVE  c.source \in SourceNames /\ c.value \in Int /\ c.weight \in Int
<1>1. PICK s \in Registered, of \in Asked : c \in Statements(s, of)
  BY DEF Claim
<1>2. PICK f \in ToSet(Fields(s, of)) :
        c.source = s /\ c.value \in Values[f] /\ c.weight = Weight(s, f)
  BY <1>1 DEF Statements
<1>3. s \in SourceNames /\ Values[f] \subseteq Int
  BY CorrelatorAssumption DEF CorrelatorAssumption
<1> QED
  BY <1>2, <1>3, WeightType

\* Claims in a sequence can be clustered.
LEMMA SequenceUsable ==
  ASSUME NEW q \in Seq(Claim)
  PROVE  Usable(q)
<1>1. Len(q) \in Nat /\ DOMAIN q = 1..Len(q) /\ \A i \in DOMAIN q : q[i] \in Claim
  OBVIOUS
<1>2. IsFiniteSet(1..Len(q))
  BY <1>1, FS_Interval
<1> QED
  BY <1>1, <1>2, ClaimType DEF Usable

\* How many candidates hold a claim.
Homes(c) == IF Meaningful(c) \/ c.source \in Messengers THEN 1 ELSE 0

Unlisted ==
  /\ lists = NoLists /\ overall = 0
  /\ pc # "done"
  /\ pc \in {"start", "merged"} => claims = <<>>

\* A record without claims has empty lists and no confidence.
LEMMA NothingListed ==
  Unlisted => ListInv
<1> SUFFICES ASSUME lists = NoLists, overall = 0, pc # "done",
                    pc \in {"start", "merged"} => claims = <<>>
             PROVE  ListInv
  BY DEF Unlisted
<1>1. \A f \in ListedFields : lists[f] = <<>>
  BY DEF NoLists
<1>2. \A f \in ListedFields : BestFirst(lists[f])
  <2>1. BestFirst(<<>>)
    <3>1. <<>> \in [1..0 -> ToSet(<<>>)]
      BY DEF ToSet
    <3> QED
      BY <3>1 DEF BestFirst
  <2> QED
    BY <1>1, <2>1
<1>3. OverallIsBest
  <2> DEFINE T == {0} \cup UNION {{c.confidence : c \in ToSet(lists[f])} :
                                    f \in ListedFields}
  <2>1. T = {0}
    BY <1>1 DEF ToSet
  <2>2. Max({0}) = 0
    BY MaxIs
  <2> QED
    BY <2>1, <2>2 DEF OverallIsBest
<1>4. ClaimsAccount
  BY <1>1 DEF ClaimsAccount, ToSet
<1>5. OrderIndependent
  <2> SUFFICES ASSUME pc = "merged", NEW f \in ListedFields
               PROVE  {[claims |-> c.claims, confidence |-> c.confidence] :
                         c \in ToSet(lists[f])}
                        = Expected({c \in ToSet(claims) :
                                      ClusterField(c) = f /\ Meaningful(c)}, f)
    BY DEF OrderIndependent
  <2>1. ToSet(claims) = {} /\ ToSet(lists[f]) = {}
    BY <1>1 DEF ToSet
  <2>2. {c \in ToSet(claims) : ClusterField(c) = f /\ Meaningful(c)} = {}
    BY <2>1
  <2>3. Expected({}, f) = {}
    BY DEF Expected
  <2> QED
    BY <2>1, <2>2, <2>3
<1>6. lists = [f \in ListedFields |-> lists[f]]
  BY DEF NoLists
<1> QED
  BY <1>2, <1>3, <1>4, <1>5, <1>6 DEF ListInv

JustMerged ==
  /\ claims \in Seq(Claim)
  /\ pc = "merged"
  /\ \E O \in SUBSET DOMAIN claims : Opens(claims, O) /\ lists = Merge(claims, O)
  /\ overall = Overall(lists)

\* A merged record, from the claims whatever their order.
LEMMA MergedLists ==
  JustMerged => ListInv
<1> SUFFICES ASSUME claims \in Seq(Claim), pc = "merged",
                    NEW O \in SUBSET DOMAIN claims, Opens(claims, O),
                    lists = Merge(claims, O), overall = Overall(lists)
             PROVE  ListInv
  BY DEF JustMerged
<1>1. Usable(claims)
  BY SequenceUsable
<1>2. ASSUME NEW f \in ListedFields
      PROVE  /\ BestFirst(lists[f])
             /\ ToSet(lists[f]) = ListOf(claims, O, f)
             /\ HoldsOnly(claims, f, lists[f])
             /\ HoldsOnce(claims, f, lists[f])
  BY <1>1, ListAccounts
<1>3. lists = [f \in ListedFields |-> lists[f]]
  BY DEF Merge
<1>4. OverallIsBest
  BY <1>2, HeadsSuffice DEF OverallIsBest, Confidences
<1>5. ClaimsAccount
  <2> SUFFICES ASSUME NEW f \in ListedFields
               PROVE  /\ \A i \in DOMAIN lists[f] :
                           lists[f][i].claims \subseteq
                             {c \in ToSet(claims) : ClusterField(c) = f}
                      /\ \A c \in {c \in ToSet(claims) : ClusterField(c) = f} :
                           Cardinality({i \in DOMAIN lists[f] :
                                          c \in lists[f][i].claims}) = Homes(c)
    BY DEF ClaimsAccount, Homes
  <2>1. HoldsOnly(claims, f, lists[f]) /\ HoldsOnce(claims, f, lists[f])
    BY <1>2
  <2>2. ASSUME NEW i \in DOMAIN lists[f], NEW c \in lists[f][i].claims
        PROVE  c \in ToSet(claims) /\ ClusterField(c) = f
    BY <2>1 DEF HoldsOnly, ToSet
  <2>3. ASSUME NEW c \in ToSet(claims), ClusterField(c) = f
        PROVE  Cardinality({i \in DOMAIN lists[f] : c \in lists[f][i].claims})
                 = Homes(c)
    <3>1. Cardinality({i \in DOMAIN lists[f] : c \in lists[f][i].claims})
            = IF Meaningful(c) THEN 1 ELSE 0
      BY <2>1, <2>3 DEF HoldsOnce, ToSet
    <3>2. c \in Claim
      BY <2>3 DEF ToSet
    <3>3. c.source \notin Messengers
      BY <3>2, ClaimType, CorrelatorAssumption DEF CorrelatorAssumption
    <3> QED
      BY <3>1, <3>3 DEF Homes
  <2> QED
    BY <2>2, <2>3
<1>6. OrderIndependent
  <2> SUFFICES ASSUME NEW f \in ListedFields, IsEquivalence(ClaimsOf(claims, f))
               PROVE  {[claims |-> c.claims, confidence |-> c.confidence] :
                         c \in ToSet(lists[f])} = Expected(ClaimsOf(claims, f), f)
    BY DEF OrderIndependent, ClaimsOf
  <2> QED
    BY <1>1, <1>2, ListExpected
<1> QED
  BY <1>2, <1>3, <1>4, <1>5, <1>6 DEF ListInv

\* A finite set in sequence: each of its elements once.
LEMMA ListsEach ==
  ASSUME NEW S, IsFiniteSet(S)
  PROVE  /\ SetToSeq(S) \in [1..Cardinality(S) -> S]
         /\ Cardinality(S) \in Nat
         /\ \A i, j \in 1..Cardinality(S) :
              SetToSeq(S)[i] = SetToSeq(S)[j] => i = j
<1>1. Cardinality(S) \in Nat /\ ExistsBijection(1..Cardinality(S), S)
  BY FS_CardinalityType
<1>2. \E f \in [1..Cardinality(S) -> S] : IsInjective(f)
  BY <1>1 DEF ExistsBijection, Bijection, Injection, IsInjective
<1>3. SetToSeq(S) \in [1..Cardinality(S) -> S] /\ IsInjective(SetToSeq(S))
  BY <1>2 DEF SetToSeq
<1> QED
  BY <1>1, <1>3 DEF IsInjective

\* What two sequences hold together.
Concatenates(p, a) ==
  /\ Len(p) \in Nat /\ DOMAIN p = 1..Len(p)
  /\ Len(a) \in Nat /\ DOMAIN a = 1..Len(a)
  /\ DOMAIN (p \o a) = 1..(Len(p) + Len(a))
  /\ \A i \in DOMAIN p : (p \o a)[i] = p[i]
  /\ \A j \in DOMAIN a : (p \o a)[Len(p) + j] = a[j]
  /\ \A i \in DOMAIN (p \o a) :
       i \in DOMAIN p \/ \E j \in DOMAIN a : i = Len(p) + j
  /\ ToSet(p \o a) = ToSet(p) \cup ToSet(a)

LEMMA Joined ==
  ASSUME NEW X, NEW p \in Seq(X), NEW Y, NEW a \in Seq(Y)
  PROVE  p \o a \in Seq(X \cup Y) /\ Concatenates(p, a)
<1>1. /\ Len(p) \in Nat /\ DOMAIN p = 1..Len(p)
      /\ Len(a) \in Nat /\ DOMAIN a = 1..Len(a)
      /\ DOMAIN (p \o a) = 1..(Len(p) + Len(a))
      /\ \A i \in DOMAIN p : (p \o a)[i] = p[i]
  OBVIOUS
<1>2. \A j \in DOMAIN a : (p \o a)[Len(p) + j] = a[j]
  OBVIOUS
<1>3. ASSUME NEW i \in DOMAIN (p \o a), i \notin DOMAIN p
      PROVE  \E j \in DOMAIN a : i = Len(p) + j
  <2>1. i - Len(p) \in DOMAIN a /\ i = Len(p) + (i - Len(p))
    BY <1>1, <1>3
  <2> QED
    BY <2>1
<1>4. p \o a \in Seq(X \cup Y)
  <2>1. p \in Seq(X \cup Y) /\ a \in Seq(X \cup Y)
    BY <1>1
  <2> QED
    BY <2>1
<1>5. ASSUME NEW x \in ToSet(p \o a) PROVE x \in ToSet(p) \cup ToSet(a)
  <2>1. PICK i \in DOMAIN (p \o a) : x = (p \o a)[i]
    BY DEF ToSet
  <2>2. CASE i \in DOMAIN p
    BY <1>1, <2>1, <2>2 DEF ToSet
  <2>3. CASE i \notin DOMAIN p
    BY <1>2, <1>3, <2>1, <2>3 DEF ToSet
  <2> QED
    BY <2>2, <2>3
<1>6. ASSUME NEW x \in ToSet(p) \cup ToSet(a) PROVE x \in ToSet(p \o a)
  <2>1. CASE x \in ToSet(p)
    <3>1. PICK i \in DOMAIN p : x = p[i]
      BY <2>1 DEF ToSet
    <3>2. i \in DOMAIN (p \o a) /\ (p \o a)[i] = x
      BY <1>1, <3>1
    <3> QED
      BY <3>2 DEF ToSet
  <2>2. CASE x \in ToSet(a)
    <3>1. PICK j \in DOMAIN a : x = a[j]
      BY <2>2 DEF ToSet
    <3>2. Len(p) + j \in DOMAIN (p \o a) /\ (p \o a)[Len(p) + j] = x
      BY <1>1, <1>2, <3>1
    <3> QED
      BY <3>2 DEF ToSet
  <2> QED
    BY <2>1, <2>2
<1>7. ToSet(p \o a) = ToSet(p) \cup ToSet(a)
  BY <1>5, <1>6
<1> QED
  BY <1>1, <1>2, <1>3, <1>4, <1>7 DEF Concatenates

\* The command's own claims come in lists of their own candidates.
LEMMA AnnotatedLists ==
  ASSUME IInv, ListInv, Annotate
  PROVE  ListInv'
<1>0. PICK shown \in SUBSET Messengers, others \in SUBSET OtherClaims :
        \E name \in [shown -> Values.name] :
          LET ms == SetToSeq(shown)
              added == [i \in DOMAIN ms |-> MessengerClaim(ms[i], name[ms[i]])]
          IN /\ claims' = claims \o added \o SetToSeq(others)
             /\ lists' = [lists EXCEPT !.name =
                            @ \o [i \in DOMAIN added |->
                                    MessengerCandidate(added[i])]]
             /\ overall' = IF shown = {} THEN overall ELSE Max({overall, 750})
  BY DEF Annotate
<1>1. PICK name \in [shown -> Values.name] :
        LET ms == SetToSeq(shown)
            added == [i \in DOMAIN ms |-> MessengerClaim(ms[i], name[ms[i]])]
        IN /\ claims' = claims \o added \o SetToSeq(others)
           /\ lists' = [lists EXCEPT !.name =
                          @ \o [i \in DOMAIN added |->
                                  MessengerCandidate(added[i])]]
           /\ overall' = IF shown = {} THEN overall ELSE Max({overall, 750})
  BY <1>0
<1> DEFINE ms == SetToSeq(shown)
           n == Cardinality(shown)
           extra == SetToSeq(others)
           added == [i \in DOMAIN ms |-> MessengerClaim(ms[i], name[ms[i]])]
           cands == [i \in DOMAIN added |-> MessengerCandidate(added[i])]
           M == {MessengerClaim(m, name[m]) : m \in shown}
<1>2. /\ IsFiniteSet(shown) /\ IsFiniteSet(others) /\ Messengers \cap SourceNames = {}
  BY FS_Subset, CorrelatorAssumption DEF CorrelatorAssumption
<1>3. /\ ms \in [1..n -> shown] /\ n \in Nat
      /\ \A i, j \in 1..n : ms[i] = ms[j] => i = j
      /\ extra \in Seq(OtherClaims)
  <2>1. /\ extra \in [1..Cardinality(others) -> others] /\ Cardinality(others) \in Nat
    BY <1>2, ListsEach
  <2>2. extra \in Seq(OtherClaims)
    BY <2>1
  <2> QED
    BY <1>2, <2>2, ListsEach
<1>4. /\ added \in Seq(M) /\ DOMAIN added = 1..n
      /\ \A i \in 1..n : added[i] \in M
      /\ \A i \in 1..n : /\ added[i].source = ms[i] /\ added[i].source \in Messengers
                         /\ ClusterField(added[i]) = "name"
      /\ \A i, j \in 1..n : added[i] = added[j] => i = j
  <2> HIDE DEF ms, n
  <2>1. \A i \in 1..n : ms[i] \in shown /\ added[i] = MessengerClaim(ms[i], name[ms[i]])
    BY <1>3
  <2>2. DOMAIN added = 1..n
    BY <1>3
  <2> HIDE DEF added
  <2>3. \A i \in 1..n : /\ added[i].source = ms[i] /\ added[i].source \in Messengers
                        /\ ClusterField(added[i]) = "name"
    <3> TAKE i \in 1..n
    <3> DEFINE c == MessengerClaim(ms[i], name[ms[i]])
    <3>1. added[i] = c /\ ms[i] \in Messengers
      BY <2>1
    <3>2. c.source = ms[i] /\ c.field = "name"
      BY DEF MessengerClaim
    <3> HIDE DEF c
    <3> QED
      BY <3>1, <3>2 DEF ClusterField
  <2>4. \A i, j \in 1..n : added[i] = added[j] => i = j
    BY <1>3, <2>3
  <2>5. added \in [1..n -> M]
    BY <2>1, <2>2 DEF added
  <2>6. added \in Seq(M)
    BY <1>3, <2>5
  <2> QED
    BY <2>2, <2>3, <2>4, <2>5, <2>6
<1>5. /\ pc = "merged" /\ pc' = "done" /\ claims \in Seq(Claim)
      /\ claims' = (claims \o added) \o extra
      /\ lists' = [lists EXCEPT !.name = @ \o cands]
      /\ overall' = IF shown = {} THEN overall ELSE Max({overall, 750})
  <2>1. pc = "merged" /\ pc' = "done"
    BY DEF Annotate
  <2> QED
    BY <1>1, <2>1 DEF IInv, TypeInv
<1>6. /\ cands \in [1..n -> {MessengerCandidate(c) : c \in M}]
      /\ \A i \in 1..n : cands[i].claims = {added[i]} /\ cands[i].confidence = 750
  <2> HIDE DEF M, added, n
  <2>1. \A i \in 1..n : added[i] \in M
    BY <1>4
  <2>2. cands \in [1..n -> {MessengerCandidate(c) : c \in M}]
    BY <1>4, <2>1
  <2>3. ASSUME NEW i \in 1..n
        PROVE  cands[i].claims = {added[i]} /\ cands[i].confidence = 750
    <3>1. cands[i] = MessengerCandidate(added[i])
      BY <1>4
    <3> HIDE DEF cands
    <3> QED
      BY <3>1 DEF MessengerCandidate
  <2> HIDE DEF cands
  <2> QED
    BY <2>2, <2>3
<1> DEFINE L == lists["name"]
           X == L \o cands
<1> HIDE DEF ms, added, cands, extra, M, n
<1>7. /\ "name" \in ListedFields
      /\ lists' = [f \in ListedFields |-> IF f = "name" THEN X ELSE lists[f]]
  BY <1>5 DEF ListInv, ListedFields
<1>8. /\ L \in Seq(ToSet(L)) /\ cands \in Seq({MessengerCandidate(c) : c \in M})
      /\ DOMAIN cands = 1..n /\ Len(cands) = n
  <2>1. BestFirst(L)
    BY <1>5, <1>7 DEF ListInv
  <2> HIDE DEF L
  <2>2. PICK m \in Nat : L \in [1..m -> ToSet(L)]
    BY <2>1 DEF BestFirst
  <2>3. L \in Seq(ToSet(L))
    BY <2>2
  <2> DEFINE Y == {MessengerCandidate(c) : c \in M}
  <2>4. cands \in [1..n -> Y]
    BY <1>6
  <2> HIDE DEF Y
  <2>5. cands \in Seq(Y) /\ DOMAIN cands = 1..n /\ Len(cands) = n
    BY <1>3, <2>4
  <2> QED
    BY <2>3, <2>5 DEF Y
<1>9. /\ DOMAIN L = 1..Len(L) /\ Len(L) \in Nat
      /\ DOMAIN X = 1..(Len(L) + n)
      /\ \A i \in DOMAIN L : X[i] = L[i]
      /\ \A j \in 1..n : X[Len(L) + j] = cands[j]
      /\ \A i \in DOMAIN X : i \in DOMAIN L \/ \E j \in 1..n : i = Len(L) + j
      /\ ToSet(X) = ToSet(L) \cup ToSet(cands)
  <2> DEFINE A == ToSet(L)
             Y == {MessengerCandidate(c) : c \in M}
  <2>1. L \in Seq(A) /\ cands \in Seq(Y) /\ DOMAIN cands = 1..n /\ Len(cands) = n
    BY <1>8
  <2> HIDE DEF L, A, Y
  <2>2. Concatenates(L, cands)
    BY <2>1, Joined
  <2> QED
    BY <2>1, <2>2 DEF Concatenates
<1>10. ToSet(claims') = ToSet(claims) \cup ToSet(added) \cup ToSet(extra)
  <2> DEFINE A == Claim \cup M
             p == claims \o added
  <2>1. p \in Seq(A)
    BY <1>4, <1>5, Joined
  <2>2. Concatenates(claims, added)
    BY <1>4, <1>5, Joined
  <2> HIDE DEF A
  <2>3. Concatenates(p, extra)
    <3> HIDE DEF p
    <3> QED
      BY <1>3, <2>1, Joined
  <2>4. ToSet(claims \o added) = ToSet(claims) \cup ToSet(added)
    BY <2>2 DEF Concatenates
  <2>5. ToSet(p \o extra) = ToSet(p) \cup ToSet(extra)
    BY <2>3 DEF Concatenates
  <2> QED
    BY <1>5, <2>4, <2>5
<1>11. /\ \A c \in ToSet(claims) : c \in Claim /\ c.source \notin Messengers
       /\ ToSet(extra) \subseteq OtherClaims
       /\ \A c \in ToSet(added) : \E i \in 1..n : c = added[i]
       /\ \A i \in 1..n : added[i] \in ToSet(added)
  <2>1. \A c \in ToSet(claims) : c \in Claim
    BY <1>5 DEF ToSet
  <2>2. \A c \in Claim : c.source \notin Messengers
    BY <1>2, ClaimType
  <2>3. ToSet(extra) \subseteq OtherClaims
    BY <1>3 DEF ToSet
  <2>4. /\ \A c \in ToSet(added) : \E i \in 1..n : c = added[i]
        /\ \A i \in 1..n : added[i] \in ToSet(added)
    BY <1>4 DEF ToSet
  <2> QED
    BY <2>1, <2>2, <2>3, <2>4
<1>12. ASSUME NEW f \in ListedFields
       PROVE  /\ \A i \in DOMAIN lists[f] : \A c \in lists[f][i].claims :
                   c \in ToSet(claims) /\ ClusterField(c) = f
              /\ \A c \in ToSet(claims) \ OtherClaims :
                   ClusterField(c) = f =>
                     Cardinality({i \in DOMAIN lists[f] :
                                    c \in lists[f][i].claims}) = Homes(c)
  BY <1>5 DEF ListInv, ClaimsAccount, Homes
<1>13. ASSUME NEW f \in ListedFields, f # "name"
       PROVE  /\ \A i \in DOMAIN lists'[f] : \A c \in lists'[f][i].claims :
                   c \in ToSet(claims') /\ ClusterField(c) = f
              /\ \A c \in ToSet(claims') \ OtherClaims :
                   ClusterField(c) = f =>
                     Cardinality({i \in DOMAIN lists'[f] :
                                    c \in lists'[f][i].claims}) = Homes(c)
  <2>1. lists'[f] = lists[f]
    BY <1>7, <1>13
  <2>2. ASSUME NEW c \in ToSet(claims') \ OtherClaims, ClusterField(c) = f
        PROVE  c \in ToSet(claims)
    BY <1>4, <1>10, <1>11, <1>13, <2>2
  <2> QED
    BY <1>10, <1>12, <2>1, <2>2
<1>14. /\ \A i \in DOMAIN X : \A c \in X[i].claims :
            c \in ToSet(claims') /\ ClusterField(c) = "name"
       /\ \A c \in ToSet(claims') \ OtherClaims :
            ClusterField(c) = "name" =>
              Cardinality({i \in DOMAIN X : c \in X[i].claims}) = Homes(c)
  <2>1. /\ \A i \in DOMAIN L : \A c \in L[i].claims :
             c \in ToSet(claims) /\ ClusterField(c) = "name"
        /\ \A c \in ToSet(claims) \ OtherClaims :
             ClusterField(c) = "name" =>
               Cardinality({i \in DOMAIN L : c \in L[i].claims}) = Homes(c)
    BY <1>7, <1>12 DEF L
  <2> HIDE DEF L, X
  <2>2. \A j \in 1..n : Len(L) + j \in DOMAIN X /\ X[Len(L) + j].claims = {added[j]}
    BY <1>3, <1>6, <1>9
  <2>3. ASSUME NEW i \in DOMAIN X, NEW c \in X[i].claims
        PROVE  c \in ToSet(claims') /\ ClusterField(c) = "name"
    <3>1. CASE i \in DOMAIN L
      BY <1>9, <1>10, <2>1, <3>1
    <3>2. CASE i \notin DOMAIN L
      <4>1. PICK j \in 1..n : i = Len(L) + j
        BY <1>9, <3>2
      <4>2. c = added[j]
        BY <2>2, <4>1
      <4> QED
        BY <1>4, <1>10, <1>11, <4>2
    <3> QED
      BY <3>1, <3>2
  <2>4. ASSUME NEW c \in ToSet(claims), c \notin OtherClaims, ClusterField(c) = "name"
        PROVE  Cardinality({i \in DOMAIN X : c \in X[i].claims}) = Homes(c)
    <3>1. \A j \in 1..n : c \notin X[Len(L) + j].claims
      BY <1>4, <1>11, <2>2
    <3>2. {i \in DOMAIN X : c \in X[i].claims} = {i \in DOMAIN L : c \in L[i].claims}
      <4>1. ASSUME NEW i \in DOMAIN X, c \in X[i].claims
            PROVE  i \in DOMAIN L /\ c \in L[i].claims
        BY <1>9, <3>1, <4>1
      <4>2. ASSUME NEW i \in DOMAIN L, c \in L[i].claims
            PROVE  i \in DOMAIN X /\ c \in X[i].claims
        BY <1>3, <1>9, <4>2
      <4> QED
        BY <4>1, <4>2
    <3> QED
      BY <2>1, <2>4, <3>2
  <2>5. ASSUME NEW c \in ToSet(added)
        PROVE  Cardinality({i \in DOMAIN X : c \in X[i].claims}) = Homes(c)
    <3>1. PICK j \in 1..n : c = added[j]
      BY <1>11
    <3>2. \A i \in DOMAIN L : c \notin L[i].claims
      BY <1>4, <1>11, <2>1, <3>1
    <3>3. ASSUME NEW i \in DOMAIN X, c \in X[i].claims
          PROVE  i = Len(L) + j
      <4>1. PICK k \in 1..n : i = Len(L) + k
        BY <1>9, <3>2, <3>3
      <4>2. added[k] = added[j]
        BY <2>2, <3>1, <3>3, <4>1
      <4> QED
        BY <1>4, <4>1, <4>2
    <3>4. {i \in DOMAIN X : c \in X[i].claims} = {Len(L) + j}
      BY <2>2, <3>1, <3>3
    <3>5. Homes(c) = 1
      BY <1>4, <3>1 DEF Homes
    <3> QED
      BY <3>4, <3>5, FS_Singleton
  <2>6. ASSUME NEW c \in ToSet(claims') \ OtherClaims, ClusterField(c) = "name"
        PROVE  Cardinality({i \in DOMAIN X : c \in X[i].claims}) = Homes(c)
    <3>1. c \in ToSet(claims) \/ c \in ToSet(added)
      BY <1>10, <1>11, <2>6
    <3> QED
      BY <2>4, <2>5, <2>6, <3>1
  <2> QED
    BY <2>3, <2>6
<1> HIDE DEF X
<1>15. ClaimsAccount'
  <2> SUFFICES ASSUME NEW f \in ListedFields
               PROVE  /\ \A i \in DOMAIN lists'[f] : \A c \in lists'[f][i].claims :
                           c \in ToSet(claims') /\ ClusterField(c) = f
                      /\ \A c \in ToSet(claims') \ OtherClaims :
                           ClusterField(c) = f =>
                             Cardinality({i \in DOMAIN lists'[f] :
                                            c \in lists'[f][i].claims}) = Homes(c)
    BY DEF ClaimsAccount, Homes
  <2>1. CASE f = "name"
    <3>1. lists'[f] = X
      BY <1>7, <2>1
    <3> QED
      BY <1>14, <2>1, <3>1
  <2>2. CASE f # "name"
    BY <1>13, <2>2
  <2> QED
    BY <2>1, <2>2
<1>16. /\ overall \in Nat
       /\ \A x \in Confidences(lists) : x \in Nat /\ x <= overall
       /\ overall \in {0} \cup Confidences(lists)
  <2>1. \A f \in ListedFields : BestFirst(lists[f])
    BY <1>5 DEF ListInv
  <2>2. overall = Max({0} \cup Confidences(lists))
    BY DEF ListInv, OverallIsBest, Confidences
  <2> QED
    BY <2>1, <2>2, HeadsSuffice
<1>17. Confidences(lists') =
         Confidences(lists) \cup (IF shown = {} THEN {} ELSE {750})
  <2>1. n = 0 <=> shown = {}
    BY <1>2, FS_EmptySet DEF n
  <2>2. \A f \in ListedFields : f # "name" => lists'[f] = lists[f]
    BY <1>7
  <2>3. ToSet(lists'["name"]) = ToSet(lists["name"]) \cup ToSet(cands)
    BY <1>7, <1>9 DEF L
  <2>4. {c.confidence : c \in ToSet(cands)} = IF shown = {} THEN {} ELSE {750}
    <3>1. ToSet(cands) = {cands[i] : i \in 1..n}
      BY <1>8 DEF ToSet
    <3>2. CASE n = 0
      BY <2>1, <3>1, <3>2
    <3>3. CASE n # 0
      <4>1. 1 \in 1..n
        BY <1>3, <3>3
      <4> QED
        BY <1>6, <2>1, <3>1, <3>3, <4>1
    <3> QED
      BY <3>2, <3>3
  <2>5. {c.confidence : c \in ToSet(lists'["name"])}
          = {c.confidence : c \in ToSet(lists["name"])}
              \cup {c.confidence : c \in ToSet(cands)}
    BY <2>3
  <2> QED
    BY <1>7, <2>2, <2>4, <2>5 DEF Confidences
<1>18. overall' = Max({0} \cup Confidences(lists'))
  <2> DEFINE B == {0} \cup Confidences(lists')
  <2>1. Max({overall, 750}) = IF overall < 750 THEN 750 ELSE overall
    <3> DEFINE T == {overall, 750}
               m == IF overall < 750 THEN 750 ELSE overall
    <3>1. T \in SUBSET Int /\ m \in T /\ \A x \in T : m >= x
      BY <1>16
    <3> HIDE DEF T, m
    <3>2. Max(T) = m
      BY <3>1, MaxIs
    <3> QED
      BY <3>2 DEF T, m
  <2>2. /\ B \in SUBSET Int
        /\ overall' \in B
        /\ \A x \in B : overall' >= x
    <3>1. CASE shown = {}
      <4>1. overall' = overall /\ B = {0} \cup Confidences(lists)
        BY <1>5, <1>17, <3>1
      <4> HIDE DEF B
      <4> QED
        BY <1>16, <4>1
    <3>2. CASE shown # {}
      <4>1. overall' = IF overall < 750 THEN 750 ELSE overall
        BY <1>5, <2>1, <3>2
      <4>2. B = {0, 750} \cup Confidences(lists)
        BY <1>17, <3>2
      <4> HIDE DEF B
      <4> QED
        BY <1>16, <4>1, <4>2
    <3> QED
      BY <3>1, <3>2
  <2> HIDE DEF B
  <2>3. Max(B) = overall'
    BY <2>2, MaxIs
  <2> QED
    BY <2>3 DEF B
<1>19. OverallIsBest' /\ OrderIndependent'
  BY <1>5, <1>18 DEF OverallIsBest, OrderIndependent, Confidences
<1>20. lists' = [f \in ListedFields |-> lists'[f]]
  BY <1>7
<1>21. \A s \in Registered : task'[s] \in {"idle", "done"}
  BY <1>5 DEF IInv, Stages, Annotate
<1> QED
  BY <1>5, <1>15, <1>19, <1>20, <1>21 DEF ListInv

-----------------------------------------------------------------------------
\* Until the merge there is nothing to keep.
LEMMA NotYetMerged ==
  ASSUME IInv, ListInv, pc \in {"start", "initial", "deferred"},
         UNCHANGED <<lists, overall>>, pc' \in {"initial", "deferred"}
  PROVE  ListInv'
<1>1. lists' = NoLists /\ overall' = 0
  BY DEF ListInv
<1>2. Unlisted'
  BY <1>1 DEF Unlisted, NoLists
<1>3. Unlisted' => ListInv'
  BY NothingListed, PTL
<1> QED
  BY <1>2, <1>3

\* At the start nothing is listed.
LEMMA ListsInitially == Init => ListInv
<1> SUFFICES ASSUME Init PROVE ListInv
  OBVIOUS
<1>1. Unlisted
  BY DEF Init, Unlisted
<1> QED
  BY <1>1, NothingListed

\* Every step keeps the lists as they should be.
LEMMA ListsStep == IInv /\ ListInv /\ [Next]_vars => ListInv'
<1> SUFFICES ASSUME IInv, ListInv, [Next]_vars PROVE ListInv'
  OBVIOUS
<1>1. CASE UNCHANGED vars
  BY <1>1 DEF vars, ListInv, ClaimsAccount, OrderIndependent, OverallIsBest
<1>2. CASE Skip
  <2>1. /\ pc = "start" /\ pc' = "merged"
        /\ UNCHANGED <<claims, lists, overall>>
    BY <1>2 DEF Skip
  <2>2. lists = NoLists /\ overall = 0 /\ claims = <<>>
    BY <2>1 DEF ListInv
  <2>3. Unlisted'
    BY <2>1, <2>2 DEF Unlisted, NoLists
  <2>4. Unlisted' => ListInv'
    BY NothingListed, PTL
  <2> QED
    BY <2>3, <2>4
<1>3. CASE Start
  BY <1>3, NotYetMerged DEF Start
<1>4. ASSUME NEW s \in Registered,
             DryRunRefuses(s) \/ DryRunPasses(s) \/ Fetched(s) \/ FetchFails(s)
      PROVE  ListInv'
  <2>1. /\ task[s] \in {"started", "fetching"}
        /\ UNCHANGED <<pc, lists, overall>>
    BY <1>4 DEF DryRunRefuses, DryRunPasses, Fetched, FetchFails
  <2>2. pc # "done"
    BY <2>1 DEF ListInv
  <2>3. pc \in {"initial", "deferred"}
    BY <2>1, <2>2, Waiting
  <2> QED
    BY <2>1, <2>3, NotYetMerged
<1>5. CASE TimeOut
  BY <1>5, NotYetMerged DEF TimeOut
<1>6. CASE Defer
  BY <1>6, NotYetMerged DEF Defer
<1>7. CASE MergeClaims
  <2>1. /\ claims \in Seq(Claim) /\ claims' = claims /\ pc' = "merged"
        /\ \E O \in SUBSET DOMAIN claims : Opens(claims, O) /\ lists' = Merge(claims, O)
        /\ overall' = Overall(lists')
    BY <1>7 DEF MergeClaims, Conclude, IInv, TypeInv
  <2>2. JustMerged'
    BY <2>1 DEF JustMerged
  <2>3. JustMerged' => ListInv'
    BY MergedLists, PTL
  <2> QED
    BY <2>2, <2>3
<1>8. CASE Annotate
  BY <1>8, AnnotatedLists
<1>9. CASE Terminating
  BY <1>1, <1>9 DEF Terminating
<1> QED
  BY <1>1, <1>2, <1>3, <1>4, <1>5, <1>6, <1>7, <1>8, <1>9 DEF Next

\* The lists of a record and its overall confidence, at every step of Run and
\* of the command: empty until merge, then the candidates of its claims.
THEOREM ListsInvariant == Spec => []ListInv
<1>1. Spec => [](IInv /\ ListInv)
  BY Initially, Inductive, ListsInitially, ListsStep, PTL DEF Spec
<1> QED
  BY <1>1, PTL

\* A claim is in one candidate of its list, or in none if its value normalizes
\* to nothing (clusterClaims, merge), also after the command has added its own
\* (addMessengerIdentityClaims).
THEOREM ClaimsAccounted == Spec => []ClaimsAccount
<1>1. ListInv => ClaimsAccount
  BY DEF ListInv
<1> QED
  BY <1>1, ListsInvariant, PTL

\* Where likeness is an equivalence, the candidates of a field and their
\* confidences are those of its classes, in whatever order the sources answered
\* (clusterClaims, combineClaims, applyConflicts).
THEOREM OrderNeverMatters == Spec => []OrderIndependent
<1>1. ListInv => OrderIndependent
  BY DEF ListInv
<1> QED
  BY <1>1, ListsInvariant, PTL

\* The overall confidence is that of the best candidate of the record, although
\* overallConfidence reads the heads of the lists only and messenger names are
\* appended to a list that was sorted before.
THEOREM OverallIsTheBest == Spec => []OverallIsBest
<1>1. ListInv => OverallIsBest
  BY DEF ListInv
<1> QED
  BY <1>1, ListsInvariant, PTL
=============================================================================
