----------------------------- MODULE Correlation ----------------------------
(***************************************************************************)
(* The arithmetic of the correlator (internal/correlator dedup.go and      *)
(* score.go): claims are clustered in the order they arrived, a cluster    *)
(* gets the noisy-or of its sources, and candidates that contradict each   *)
(* other lose confidence.                                                  *)
(*                                                                         *)
(* A claim is [field, value, source, weight, age]: the value stands for    *)
(* what NormalizeValue makes of it, the weight is in fortieths, the age in *)
(* whole years since an address was verified.  Confidences are in          *)
(* thousandths, as roundConfidence leaves them.  Which values are alike    *)
(* (Jaro-Winkler of names, postcode and tokens of addresses) is a          *)
(* parameter, and need not be transitive: the code's relations are not.     *)
(***************************************************************************)
EXTENDS Integers, Sequences, FiniteSets, FiniteSetsExt, SequencesExt

CONSTANT Similar  \* the alike pairs <<field, u, v>> of different values

\* The value of a claim that normalizes to the empty string: of a blank name,
\* say, or of one that is only an honorific.
Nothing == 0

Meaningful(claim) == claim.value # Nothing

SameCluster(field, u, v) == u = v \/ <<field, u, v>> \in Similar

\* A region is a coarse address.
ClusterField(claim) == IF claim.field = "region" THEN "address" ELSE claim.field

Alike(c, d) ==
  /\ ClusterField(c) = ClusterField(d)
  /\ SameCluster(ClusterField(c), c.value, d.value)

\* Mutant of Opens: a claim opens a cluster unless an equal one is there.
OpensUnlessEqual(claims, O) ==
  \A i \in DOMAIN claims :
    i \in O <=> /\ Meaningful(claims[i])
                /\ ~\E j \in O : /\ j < i
                                 /\ claims[j].value = claims[i].value
                                 /\ ClusterField(claims[j]) = ClusterField(claims[i])

\* clusterClaims, in the claims' order: a claim with nothing in it is skipped;
\* another joins the first cluster whose norm, the value of the claim that
\* opened it, is like its own, or else opens one.  O are the claims that open
\* a cluster: no opener is like an earlier opener, and every other claim that
\* is not skipped is.
Opens(claims, O) ==
  \A i \in DOMAIN claims :
    i \in O <=> /\ Meaningful(claims[i])
                /\ ~\E j \in O : j < i /\ Alike(claims[j], claims[i])

\* Mutant of Cluster: a claim is counted in every cluster it is like.
ClusterOfAll(claims, O, o) ==
  [opener |-> o,
   claims |-> {claims[i] : i \in {k \in DOMAIN claims :
                                    /\ k >= o /\ Meaningful(claims[k])
                                    /\ Alike(claims[o], claims[k])}}]

\* The cluster opened by claim o, the first that its other claims are like.
Cluster(claims, O, o) ==
  [opener |-> o,
   claims |->
     {claims[i] : i \in {o} \cup
        {k \in DOMAIN claims \ O :
           /\ k > o /\ Meaningful(claims[k]) /\ Alike(claims[o], claims[k])
           /\ ~\E j \in O : j < o /\ Alike(claims[j], claims[k])}}]

-----------------------------------------------------------------------------
\* An address loses a tenth in the year since it was verified; what one source
\* says twice counts once, at its highest weight.
SourceWeight(claims, s) ==
  Max({IF c.age = 0 THEN c.weight ELSE (c.weight * 9) \div 10 :
         c \in {d \in claims : d.source = s}})

Product(w) == FoldFunction(LAMBDA x, y : x * y, 1, w)

\* combineClaims and roundConfidence: 1 - (1 - w1) (1 - w2) ..., rounded half
\* up to thousandths.
Combine(claims) ==
  LET sources == {c.source : c \in claims}
      doubt == Product([s \in sources |-> 40 - SourceWeight(claims, s)])
      whole == Product([s \in sources |-> 40])
  IN 1000 - ((2000 * doubt + whole - 1) \div (2 * whole))

\* applyConflicts: two candidates of one of these fields, with unlike values,
\* cannot both be right.  Each conflict costs both 0.30; none falls below zero.
ConflictingFields == {"name", "address", "dob"}

Conflicting(c, d) ==
  /\ ClusterField(c) = ClusterField(d)
  /\ ClusterField(c) \in ConflictingFields
  /\ ~Alike(c, d)

Candidate(claims, O, cluster) ==
  LET o == cluster.opener
      rivals == {r \in O : \/ r < o /\ Conflicting(claims[r], claims[o])
                           \/ r > o /\ Conflicting(claims[o], claims[r])}
  IN [norm |-> claims[o].value,
      claims |-> cluster.claims,
      confidence |-> Max({0, Combine(cluster.claims) - 300 * Cardinality(rivals)})]

ListedFields == {"name", "address", "dob", "email"}

\* Mutant of Better: the lists keep the order of the values.
FirstByValue(c, d) == c.norm < d.norm

\* sortCandidates: by confidence, then by value.
Better(c, d) ==
  \/ c.confidence > d.confidence
  \/ c.confidence = d.confidence /\ c.norm < d.norm

Sorted(candidates) ==
  CHOOSE q \in [1..Cardinality(candidates) -> candidates] :
    \A i, j \in DOMAIN q : i < j => Better(q[i], q[j])

\* merge: the candidates of each field the record lists, best first.
Merge(claims, O) ==
  [f \in ListedFields |->
     LET clusters == {Cluster(claims, O, o) :
                        o \in {i \in O : ClusterField(claims[i]) = f}}
     IN Sorted({Candidate(claims, O, k) : k \in clusters})]

\* overallConfidence: the best of the candidates that head a list.
Overall(lists) ==
  Max({0} \cup {lists[f][1].confidence :
                  f \in {g \in ListedFields : lists[g] # <<>>}})
=============================================================================
