-------------------------- MODULE AutoPivotProofs ---------------------------
(***************************************************************************)
(* Proofs about AutoPivot for any number of pivots and any depth limit:    *)
(* the expansion implements PivotCrawl, duplicates have one original, and  *)
(* the linked investigations are those of the chain.                       *)
(***************************************************************************)
EXTENDS AutoPivot, TLAPS

Stopped == {"idle", "returned", "aborted"}

\* The levels below the current one are empty; the ones above are owned by
\* the usernames being expanded.
LevelInv ==
  /\ depth = 0 <=> pc \in Stopped
  /\ \A d \in Levels : d > depth => todo[d] = {}
  /\ \A d \in Levels : 1 < d /\ d <= depth => owner[d] \in Keys

\* What was offered and is not taken up is still to be looked at.
CoverInv ==
  /\ \A d \in Levels : todo[d] \subseteq offered
  /\ pc # "aborted" =>
       \A k \in offered : k \in visited \/ \E d \in Levels : k \in todo[d]

\* Pending(k): k is taken up and its node is not listed yet.
Pending(k) == pc \in {"waiting", "searching"} /\ At(k)

\* Only what was taken up is searched, the pending pivot for the first time.
SearchInv ==
  /\ \A k \in Keys \ visited : searches[k] = 0
  /\ \A k \in Keys : Pending(k) => k \in visited
  /\ pc = "waiting" => \A k \in Keys : At(k) => searches[k] = 0

Original(n, k) == n.key = k /\ n.label # "duplicate"

\* A pivot has nodes once it is taken up and not pending, one of them the
\* original.
NodeInv ==
  /\ \A n \in nodes : n.key \in visited /\ ~Pending(n.key)
  /\ pc = "aborted" => nodes = {}
  /\ pc # "aborted" =>
       \A k \in visited : Pending(k) \/
         \E o \in nodes : /\ Original(o, k)
                          /\ \A q \in nodes : Original(q, k) => q = o

\* The chain has a found username k under parent p; k was found at all.
FoundUnder(p, k) == \E n \in nodes : /\ n.label \in {"verified", "nothing"}
                                    /\ n.parent = p /\ n.key = k
WasFound(k) == \E p \in Keys \cup {Root} : FoundUnder(p, k)

\* The username k, met under p, is being expanded.
BeingExpanded(p, k) ==
  \E d \in Levels : d < depth /\ owner[d] = p /\ owner[d + 1] = k

\* A username that was found is linked, or its report is being expanded; its
\* parent is the number or was found as well.
LinkInv ==
  /\ pc # "aborted" =>
       \A p \in Keys \cup {Root}, k \in Keys :
         FoundUnder(p, k) <=> \/ [parent |-> p, key |-> k] \in linked
                              \/ BeingExpanded(p, k)
  /\ \A p \in Keys \cup {Root}, k \in Keys :
       FoundUnder(p, k) => p = Root \/ WasFound(p)
  /\ \A d \in Levels : d <= depth => owner[d] = Root \/ WasFound(owner[d])

IInv ==
  /\ TypeOK
  /\ LevelInv
  /\ CoverInv
  /\ SearchInv
  /\ NodeInv
  /\ LinkInv

-----------------------------------------------------------------------------
\* The initial states satisfy every part.
LEMMA InitInv == Init => IInv
<1> SUFFICES ASSUME Init PROVE IInv
  OBVIOUS
<1> USE PivotAssumption DEF Init
<1>1. TypeOK
  BY DEF TypeOK, Levels
<1>2. LevelInv /\ CoverInv
  BY DEF LevelInv, CoverInv, Stopped, Levels
<1>3. SearchInv /\ NodeInv
  BY DEF SearchInv, NodeInv, Pending
<1>4. LinkInv
  BY DEF LinkInv, FoundUnder, BeingExpanded, Levels
<1> QED
  BY <1>1, <1>2, <1>3, <1>4 DEF IInv

\* While a level is expanded, it is one the depth allows.
LEMMA Current ==
  ASSUME TypeOK, LevelInv, pc \notin Stopped
  PROVE  /\ depth \in Levels /\ depth \in Nat /\ depth <= maxDepth
         /\ maxDepth \in Nat /\ maxDepth <= DepthLimit
         /\ owner[depth] \in Keys \cup {Root}
         /\ todo[depth] \in SUBSET Keys
<1>1. depth \in 0..maxDepth /\ maxDepth \in 0..DepthLimit /\ depth # 0
  BY DEF TypeOK, LevelInv
<1>2. depth \in Levels
  BY <1>1, PivotAssumption DEF Levels
<1> QED
  BY <1>1, <1>2, PivotAssumption DEF TypeOK

\* The loop is at one pivot only.
LEMMA AtOne ==
  ASSUME TypeOK, LevelInv, pc \notin Stopped,
         NEW j, NEW k, At(j), At(k)
  PROVE  j = k /\ k \in Keys
<1>1. todo[depth] \in SUBSET Keys
  BY Current
<1>2. j \in Nat /\ k \in Nat
  BY <1>1, PivotAssumption DEF At, Keys
<1> QED
  BY <1>1, <1>2 DEF At

\* The steps that list pivot k at the current level and are done with it.
Lists(k, label) ==
  /\ At(k)
  /\ List(k, label)
  /\ todo' = Done(k)
  /\ UNCHANGED <<maxDepth, searcher, depth, owner, ctx, searches, offered>>

\* The steps that open the next level for the report of k.
Opens(k, label, g) ==
  /\ At(k)
  /\ depth < maxDepth
  /\ List(k, label)
  /\ Open(depth + 1, k, g, Done(k))
  /\ UNCHANGED <<maxDepth, searcher, visited, ctx, searches, linked>>

\* The effect of every step on the chain and the levels.
LEMMA Effects ==
  ASSUME NEW k \in Keys
  PROVE  /\ Duplicate(k) => /\ Lists(k, "duplicate") /\ k \in visited
                            /\ pc = "expanding" /\ UNCHANGED <<pc, visited, linked>>
         /\ NoteEmail(k) \/ NoSearcher(k) =>
              \E l \in {"email", "unavailable"} :
                /\ Lists(k, l) /\ k \notin visited /\ visited' = visited \cup {k}
                /\ pc = "expanding" /\ UNCHANGED <<pc, linked>>
         /\ SearchFails(k) =>
              /\ Lists(k, "failed")
              /\ pc = "searching" /\ pc' = "expanding"
              /\ UNCHANGED <<visited, linked>>
         /\ SearchFinds(k) =>
              \E l \in {"verified", "nothing"} :
                /\ pc = "searching" /\ pc' = "expanding"
                /\ \/ /\ Lists(k, l) /\ Link(owner[depth], k)
                      /\ UNCHANGED visited
                   \/ \E g \in SUBSET Keys : Opens(k, l, g)
<1>1. Duplicate(k) => /\ Lists(k, "duplicate") /\ k \in visited
                      /\ pc = "expanding" /\ UNCHANGED <<pc, visited, linked>>
  BY DEF Duplicate, Lists, config
<1>2. NoteEmail(k) \/ NoSearcher(k) =>
        \E l \in {"email", "unavailable"} :
          /\ Lists(k, l) /\ k \notin visited /\ visited' = visited \cup {k}
          /\ pc = "expanding" /\ UNCHANGED <<pc, linked>>
  BY DEF NoteEmail, NoSearcher, Lists, config
<1>3. SearchFails(k) => /\ Lists(k, "failed")
                        /\ pc = "searching" /\ pc' = "expanding"
                        /\ UNCHANGED <<visited, linked>>
  BY DEF SearchFails, Lists, config
<1>4. ASSUME SearchFinds(k)
      PROVE  \E l \in {"verified", "nothing"} :
               /\ pc = "searching" /\ pc' = "expanding"
               /\ \/ /\ Lists(k, l) /\ Link(owner[depth], k)
                     /\ UNCHANGED visited
                  \/ \E g \in SUBSET Keys : Opens(k, l, g)
  <2>1. PICK l \in {"verified", "nothing"} :
          \E g \in SUBSET (IF l = "verified" THEN Keys ELSE {k}) :
            /\ List(k, l)
            /\ IF depth < maxDepth /\ g # {}
                 THEN /\ Open(depth + 1, k, g, Done(k))
                      /\ UNCHANGED linked
                 ELSE /\ todo' = Done(k)
                      /\ Link(owner[depth], k)
                      /\ UNCHANGED <<depth, owner, offered>>
    BY <1>4 DEF SearchFinds
  <2>2. PICK g \in SUBSET (IF l = "verified" THEN Keys ELSE {k}) :
          /\ List(k, l)
          /\ IF depth < maxDepth /\ g # {}
               THEN /\ Open(depth + 1, k, g, Done(k))
                    /\ UNCHANGED linked
               ELSE /\ todo' = Done(k)
                    /\ Link(owner[depth], k)
                    /\ UNCHANGED <<depth, owner, offered>>
    BY <2>1
  <2>3. g \in SUBSET Keys
    BY <2>2
  <2> QED
    BY <1>4, <2>2, <2>3 DEF SearchFinds, Lists, Opens, config
<1> QED
  BY <1>1, <1>2, <1>3, <1>4
\* Every step, by its effect.
LEMMA Steps ==
  ASSUME [Next]_vars
  PROVE  \/ Start
         \/ WaitAborted
         \/ Close
         \/ \E k \in Keys :
              \/ Duplicate(k) \/ NoteEmail(k) \/ NoSearcher(k) \/ Visit(k)
              \/ WaitOver(k) \/ SearchFails(k) \/ SearchFinds(k)
         \/ ContextEnds
         \/ UNCHANGED vars
  BY DEF Next, Step

\* The variables a listing or an opening step writes keep their types.
LEMMA ListTypes ==
  ASSUME TypeOK, LevelInv, pc \notin Stopped,
         NEW k \in Keys, NEW l \in Labels, List(k, l)
  PROVE  nodes' \subseteq [parent : Keys \cup {Root}, key : Keys,
                          label : Labels, depth : Levels]
  BY Current DEF List, TypeOK

\* Striking a pivot off touches the current level only.
LEMMA DoneTypes ==
  ASSUME TypeOK, LevelInv, pc \notin Stopped, NEW k \in Keys
  PROVE  /\ Done(k) \in [Levels -> SUBSET Keys]
         /\ \A d \in Levels : d # depth => Done(k)[d] = todo[d]
         /\ Done(k)[depth] = todo[depth] \ {k}
  BY Current DEF Done, TypeOK

\* What opening a level does to the stack.
LEMMA OpensLevel ==
  ASSUME TypeOK, LevelInv, pc \notin Stopped,
         NEW k \in Keys, NEW l, NEW g \in SUBSET Keys, Opens(k, l, g)
  PROVE  /\ depth' = depth + 1 /\ depth' \in Levels /\ depth' <= maxDepth
         /\ todo' \in [Levels -> SUBSET Keys]
         /\ todo'[depth'] = g
         /\ todo'[depth] = todo[depth] \ {k}
         /\ \A d \in Levels : d # depth /\ d # depth' => todo'[d] = todo[d]
         /\ owner' \in [Levels -> Keys \cup {Root}]
         /\ owner'[depth'] = k
         /\ \A d \in Levels : d # depth' => owner'[d] = owner[d]
         /\ offered' = offered \cup g
<1>1. depth + 1 \in Levels
  BY Current, PivotAssumption DEF Opens, Levels
<1>2. PICK e \in Levels : e = depth + 1 /\ e # depth
  BY <1>1, Current
<1>3. /\ owner' = [owner EXCEPT ![e] = k]
      /\ todo' = [Done(k) EXCEPT ![e] = g]
      /\ depth' = e /\ offered' = offered \cup g
  BY <1>2 DEF Opens, Open
<1>4. e <= maxDepth
  BY <1>2, Current DEF Opens
<1> QED
  BY <1>2, <1>3, <1>4, DoneTypes, Current DEF TypeOK

\* Types are preserved; depth stays within maxDepth.
LEMMA TypeStep == IInv /\ [Next]_vars => TypeOK'
<1> SUFFICES ASSUME IInv, [Next]_vars PROVE TypeOK'
  OBVIOUS
<1> USE DEF IInv
<1>0. TypeOK /\ LevelInv
  OBVIOUS
<1>1. CASE Start
  <2>1. PICK g \in SUBSET Keys :
          IF maxDepth = 0 \/ g = {}
            THEN /\ pc' = "returned"
                 /\ UNCHANGED <<depth, owner, todo, offered>>
            ELSE /\ pc' = "expanding"
                 /\ Open(1, Root, g, todo)
    BY <1>1 DEF Start
  <2>2. CASE maxDepth = 0 \/ g = {}
    BY <1>0, <1>1, <2>1, <2>2 DEF Start, TypeOK, config
  <2>3. CASE ~(maxDepth = 0 \/ g = {})
    <3>1. 1 \in Levels /\ 1 \in 0..maxDepth
      BY <1>0, <2>3, PivotAssumption DEF TypeOK, Levels
    <3> QED
      BY <1>0, <1>1, <2>1, <2>3, <3>1 DEF Start, Open, TypeOK, config
  <2> QED
    BY <2>2, <2>3
<1>2. CASE WaitAborted
  <2>1. 0 \in 0..maxDepth
    BY <1>0, PivotAssumption DEF TypeOK
  <2> QED
    BY <1>0, <1>2, <2>1 DEF WaitAborted, TypeOK, config
<1>3. CASE Close
  <2>1. pc \notin Stopped
    BY <1>3 DEF Close, Stopped
  <2>2. PICK d \in Levels : d = depth
    BY <1>0, <2>1, Current
  <2>3. owner' = [owner EXCEPT ![d] = Root] /\ depth' = d - 1
    BY <1>3, <2>2 DEF Close
  <2>4. depth' \in 0..maxDepth
    BY <1>0, <2>1, <2>2, <2>3, Current, PivotAssumption DEF Levels
  <2>5. linked' \subseteq [parent : Keys \cup {Root}, key : Keys]
    <3>1. CASE d = 1
      BY <1>0, <1>3, <2>2, <3>1 DEF Close, TypeOK
    <3>2. CASE d # 1
      <4>1. d - 1 \in Levels /\ 1 < d
        BY <2>2, <3>2, PivotAssumption DEF Levels
      <4>2. owner[d - 1] \in Keys \cup {Root} /\ owner[d] \in Keys
        BY <1>0, <2>2, <4>1 DEF TypeOK, LevelInv
      <4>3. linked' = linked \cup {[parent |-> owner[d - 1], key |-> owner[d]]}
        BY <1>3, <2>2, <3>2 DEF Close, Link
      <4> QED
        BY <1>0, <4>2, <4>3 DEF TypeOK
    <3> QED
      BY <3>1, <3>2
  <2> QED
    BY <1>0, <1>3, <2>2, <2>3, <2>4, <2>5 DEF Close, TypeOK, config
<1>4. ASSUME NEW k \in Keys, Duplicate(k) \/ SearchFails(k)
      PROVE  TypeOK'
  <2>1. PICK l \in Labels : /\ Lists(k, l) /\ pc' = "expanding"
                            /\ pc \notin Stopped
                            /\ UNCHANGED <<visited, linked>>
    BY <1>4, Effects DEF Labels, Stopped
  <2> QED
    BY <1>0, <2>1, ListTypes, DoneTypes DEF Lists, TypeOK
<1>5. ASSUME NEW k \in Keys, NoteEmail(k) \/ NoSearcher(k)
      PROVE  TypeOK'
  <2>1. PICK l \in Labels : /\ Lists(k, l) /\ pc' = "expanding"
                            /\ pc \notin Stopped
                            /\ visited' = visited \cup {k}
                            /\ UNCHANGED linked
    BY <1>5, Effects DEF Labels, Stopped
  <2> QED
    BY <1>0, <2>1, ListTypes, DoneTypes DEF Lists, TypeOK
<1>6. ASSUME NEW k \in Keys, Visit(k) PROVE TypeOK'
  BY <1>0, <1>6 DEF Visit, TypeOK, config
<1>7. ASSUME NEW k \in Keys, WaitOver(k) PROVE TypeOK'
  BY <1>0, <1>7 DEF WaitOver, TypeOK, config
<1>8. ASSUME NEW k \in Keys, SearchFinds(k) PROVE TypeOK'
  <2>1. PICK l \in {"verified", "nothing"} :
          /\ pc = "searching" /\ pc' = "expanding"
          /\ \/ /\ Lists(k, l) /\ Link(owner[depth], k)
                /\ UNCHANGED visited
             \/ \E g \in SUBSET Keys : Opens(k, l, g)
    BY <1>8, Effects
  <2>2. pc \notin Stopped /\ l \in Labels
    BY <2>1 DEF Stopped, Labels
  <2>3. CASE Lists(k, l) /\ Link(owner[depth], k) /\ UNCHANGED visited
    BY <1>0, <2>1, <2>2, <2>3, ListTypes, DoneTypes, Current
    DEF Lists, Link, TypeOK
  <2>4. ASSUME NEW g \in SUBSET Keys, Opens(k, l, g) PROVE TypeOK'
    <3>1. /\ depth' \in 0..maxDepth
          /\ todo' \in [Levels -> SUBSET Keys]
          /\ owner' \in [Levels -> Keys \cup {Root}]
          /\ offered' \subseteq Keys
      BY <1>0, <2>2, <2>4, OpensLevel, Current DEF TypeOK, Levels
    <3>2. nodes' \subseteq [parent : Keys \cup {Root}, key : Keys,
                           label : Labels, depth : Levels]
      BY <1>0, <2>2, <2>4, ListTypes DEF Opens
    <3> QED
      BY <1>0, <2>1, <2>4, <3>1, <3>2 DEF Opens, TypeOK
  <2> QED
    BY <2>1, <2>3, <2>4
<1>9. CASE ContextEnds
  BY <1>0, <1>9 DEF ContextEnds, TypeOK, config
<1>10. CASE UNCHANGED vars
  BY <1>0, <1>10 DEF vars, config, TypeOK
<1> QED
  BY <1>1, <1>2, <1>3, <1>4, <1>5, <1>6, <1>7, <1>8, <1>9, <1>10, Steps
-----------------------------------------------------------------------------
(***************************************************************************)
(* The levels and what they cover.                                         *)
(***************************************************************************)
\* The levels keep the shape of a stack.
LEMMA LevelStep == IInv /\ [Next]_vars => LevelInv'
<1> SUFFICES ASSUME IInv, [Next]_vars PROVE LevelInv'
  OBVIOUS
<1> USE DEF IInv
<1>0. TypeOK /\ LevelInv
  OBVIOUS
<1>1. CASE Start
  <2>1. depth = 0 /\ \A d \in Levels : todo[d] = {}
    BY <1>0, <1>1, PivotAssumption DEF Start, LevelInv, Stopped, Levels
  <2>2. PICK g \in SUBSET Keys :
          IF maxDepth = 0 \/ g = {}
            THEN /\ pc' = "returned"
                 /\ UNCHANGED <<depth, owner, todo, offered>>
            ELSE /\ pc' = "expanding"
                 /\ Open(1, Root, g, todo)
    BY <1>1 DEF Start
  <2>3. CASE pc' = "returned"
    BY <1>0, <2>1, <2>2, <2>3 DEF LevelInv, Stopped, Open
  <2>4. CASE pc' = "expanding"
    BY <1>0, <2>1, <2>2, <2>4, PivotAssumption
    DEF LevelInv, Stopped, Open, TypeOK, Levels
  <2> QED
    BY <2>2, <2>3, <2>4
<1>2. CASE WaitAborted
  BY <1>2, PivotAssumption DEF WaitAborted, LevelInv, Stopped, Levels
<1>3. CASE Close
  <2>1. pc \notin Stopped
    BY <1>3 DEF Close, Stopped
  <2>2. PICK d \in Levels : d = depth
    BY <1>0, <2>1, Current
  <2>3. /\ owner' = [owner EXCEPT ![d] = Root] /\ depth' = d - 1
        /\ todo' = todo /\ todo[d] = {}
        /\ pc' = IF d = 1 THEN "returned" ELSE "expanding"
    BY <1>3, <2>2 DEF Close
  <2> QED
    BY <1>0, <2>2, <2>3, PivotAssumption DEF LevelInv, Stopped, Levels, TypeOK
<1>4. ASSUME pc \notin Stopped, pc' \notin Stopped,
             NEW k \in Keys, NEW l, Lists(k, l)
      PROVE  LevelInv'
  BY <1>0, <1>4, DoneTypes, Current DEF Lists, LevelInv, Levels
<1>5. ASSUME NEW k \in Keys, NEW l, NEW g \in SUBSET Keys,
             pc \notin Stopped, pc' \notin Stopped, Opens(k, l, g)
      PROVE  LevelInv'
  <2>1. PICK e \in Levels : e = depth'
    BY <1>0, <1>5, OpensLevel
  <2>2. /\ e = depth + 1 /\ depth \in Nat
        /\ \A d \in Levels : d > e => todo'[d] = {}
        /\ owner'[e] = k
        /\ \A d \in Levels : d # e => owner'[d] = owner[d]
    <3>1. \A d \in Levels : d # depth /\ d # e => todo'[d] = todo[d]
      BY <1>0, <1>5, <2>1, OpensLevel
    <3>2. e = depth + 1 /\ depth \in Nat
      BY <1>0, <1>5, <2>1, OpensLevel, Current
    <3>3. /\ owner'[e] = k
          /\ \A d \in Levels : d # e => owner'[d] = owner[d]
      BY <1>0, <1>5, <2>1, OpensLevel
    <3> QED
      BY <1>0, <3>1, <3>2, <3>3, PivotAssumption DEF LevelInv, Levels
  <2> QED
    BY <1>0, <1>5, <2>1, <2>2, PivotAssumption DEF LevelInv, Levels
<1>6. CASE UNCHANGED <<depth, todo, owner>> /\ (pc' \in Stopped <=> pc \in Stopped)
  BY <1>0, <1>6 DEF LevelInv
<1>7. ASSUME NEW k \in Keys,
             \/ Duplicate(k) \/ NoteEmail(k) \/ NoSearcher(k)
             \/ SearchFails(k) \/ SearchFinds(k)
      PROVE  LevelInv'
  BY <1>4, <1>5, <1>7, Effects DEF Stopped
<1>8. ASSUME NEW k \in Keys, Visit(k) \/ WaitOver(k) PROVE LevelInv'
  BY <1>6, <1>8 DEF Visit, WaitOver, Stopped
<1>9. CASE ContextEnds \/ UNCHANGED vars
  BY <1>6, <1>9 DEF ContextEnds, vars
<1> QED
  BY <1>1, <1>2, <1>3, <1>7, <1>8, <1>9, Steps

\* What every level lists stays offered, and what leaves the lists of the
\* levels is visited.
LEMMA CoverStep == IInv /\ [Next]_vars => CoverInv'
<1> SUFFICES ASSUME IInv, [Next]_vars PROVE CoverInv'
  OBVIOUS
<1> USE DEF IInv
<1>0. TypeOK /\ LevelInv /\ CoverInv /\ SearchInv
  OBVIOUS
<1>1. CASE Start
  <2>1. PICK g \in SUBSET Keys :
          IF maxDepth = 0 \/ g = {}
            THEN /\ pc' = "returned"
                 /\ UNCHANGED <<depth, owner, todo, offered>>
            ELSE /\ pc' = "expanding"
                 /\ Open(1, Root, g, todo)
    BY <1>1 DEF Start
  <2>2. visited' = visited /\ pc = "idle" /\ depth = 0
    BY <1>0, <1>1 DEF Start, LevelInv, Stopped
  <2>3. CASE maxDepth = 0 \/ g = {}
    BY <1>0, <2>1, <2>2, <2>3 DEF CoverInv
  <2>4. CASE ~(maxDepth = 0 \/ g = {})
    <3>1. 1 \in Levels /\ \A d \in Levels : todo[d] = {}
      BY <1>0, <2>2, PivotAssumption DEF LevelInv, Levels
    <3>2. todo' = [todo EXCEPT ![1] = g] /\ offered' = offered \cup g
      BY <2>1, <2>4 DEF Open
    <3> QED
      BY <1>0, <2>2, <3>1, <3>2 DEF CoverInv, TypeOK
  <2> QED
    BY <2>3, <2>4
<1>2. CASE WaitAborted
  BY <1>0, <1>2 DEF WaitAborted, CoverInv
<1>3. CASE Close
  BY <1>0, <1>3 DEF Close, CoverInv
<1>4. ASSUME pc \notin Stopped, NEW k \in Keys, NEW l, Lists(k, l),
             visited \subseteq visited', k \in visited'
      PROVE  CoverInv'
  <2>1. pc # "aborted"
    BY <1>4 DEF Stopped
  <2>2. \A d \in Levels : /\ todo'[d] \subseteq todo[d]
                          /\ todo[d] \subseteq todo'[d] \cup {k}
    BY <1>0, <1>4, DoneTypes DEF Lists
  <2> QED
    BY <1>0, <1>4, <2>1, <2>2 DEF Lists, CoverInv
<1>5. ASSUME NEW k \in Keys, NEW l, NEW g \in SUBSET Keys,
             pc \notin Stopped, Opens(k, l, g), k \in visited
      PROVE  CoverInv'
  <2>1. pc # "aborted" /\ visited' = visited /\ offered' = offered \cup g
    BY <1>0, <1>5, OpensLevel DEF Opens, Stopped
  <2>2. PICK e \in Levels : e = depth' /\ depth' = depth + 1
    BY <1>0, <1>5, OpensLevel
  <2>3. todo[e] = {} /\ todo'[e] = g /\ depth # e
    BY <1>0, <1>5, <2>2, OpensLevel, Current DEF LevelInv
  <2>4. \A d \in Levels \ {e} : /\ todo'[d] \subseteq todo[d]
                                /\ todo[d] \subseteq todo'[d] \cup {k}
    BY <1>0, <1>5, <2>2, OpensLevel
  <2> QED
    BY <1>0, <1>5, <2>1, <2>3, <2>4 DEF CoverInv
<1>6. ASSUME NEW k \in Keys,
             \/ Duplicate(k) \/ NoteEmail(k) \/ NoSearcher(k) \/ SearchFails(k)
      PROVE  CoverInv'
  <2>1. pc = "searching" /\ At(k) => k \in visited
    BY <1>0 DEF SearchInv, Pending
  <2>2. PICK l : Lists(k, l) /\ pc \notin Stopped
                 /\ visited \subseteq visited' /\ k \in visited'
    BY <1>6, <2>1, Effects DEF Stopped, Lists
  <2> QED
    BY <1>4, <2>2
<1>7. ASSUME NEW k \in Keys, SearchFinds(k) PROVE CoverInv'
  <2>1. k \in visited
    BY <1>0, <1>7 DEF SearchInv, Pending, SearchFinds
  <2>2. PICK l : /\ pc \notin Stopped
                 /\ \/ Lists(k, l) /\ UNCHANGED visited
                    \/ \E g \in SUBSET Keys : Opens(k, l, g)
    BY <1>7, Effects DEF Stopped
  <2> QED
    BY <1>4, <1>5, <2>1, <2>2
<1>8. ASSUME NEW k \in Keys, Visit(k) \/ WaitOver(k) PROVE CoverInv'
  BY <1>0, <1>8 DEF Visit, WaitOver, CoverInv
<1>9. CASE ContextEnds \/ UNCHANGED vars
  BY <1>0, <1>9 DEF ContextEnds, vars, CoverInv
<1> QED
  BY <1>1, <1>2, <1>3, <1>6, <1>7, <1>8, <1>9, Steps

\* A pivot is searched right after it was visited, and never before.
LEMMA SearchStep == IInv /\ [Next]_vars => SearchInv'
<1> SUFFICES ASSUME IInv, [Next]_vars PROVE SearchInv'
  OBVIOUS
<1> USE DEF IInv
<1>0. TypeOK /\ LevelInv /\ SearchInv
  OBVIOUS
<1>1. ASSUME visited \subseteq visited', UNCHANGED searches,
             pc' \notin {"waiting", "searching"}
      PROVE  SearchInv'
  BY <1>0, <1>1 DEF SearchInv, Pending
<1>2. CASE Start \/ WaitAborted \/ Close
  BY <1>1, <1>2 DEF Start, WaitAborted, Close
<1>3. ASSUME NEW k \in Keys,
             \/ Duplicate(k) \/ NoteEmail(k) \/ NoSearcher(k)
             \/ SearchFails(k) \/ SearchFinds(k)
      PROVE  SearchInv'
  BY <1>1, <1>3 DEF Duplicate, NoteEmail, NoSearcher, SearchFails, SearchFinds
<1>4. ASSUME NEW k \in Keys, Visit(k) PROVE SearchInv'
  <2>1. /\ At(k) /\ k \notin visited /\ visited' = visited \cup {k}
        /\ UNCHANGED <<todo, depth, searches>>
        /\ pc' = "waiting" /\ pc \notin Stopped
    BY <1>4 DEF Visit, Stopped
  <2>2. \A j : At(j)' => j = k
    <3> SUFFICES ASSUME NEW j, At(j)' PROVE j = k
      OBVIOUS
    <3>1. At(j)
      BY <2>1 DEF At
    <3> QED
      BY <1>0, <2>1, <3>1, AtOne
  <2>3. searches[k] = 0
    BY <1>0, <2>1 DEF SearchInv
  <2> QED
    BY <1>0, <2>1, <2>2, <2>3 DEF SearchInv, Pending
<1>5. ASSUME NEW k \in Keys, WaitOver(k) PROVE SearchInv'
  <2>1. /\ At(k) /\ UNCHANGED <<todo, depth, visited>>
        /\ pc' = "searching" /\ pc = "waiting"
        /\ searches' = [searches EXCEPT ![k] = @ + 1]
    BY <1>5 DEF WaitOver
  <2>2. k \in visited
    BY <1>0, <2>1 DEF SearchInv, Pending
  <2>3. \A j : Pending(j)' => Pending(j)
    BY <2>1 DEF Pending, At
  <2> QED
    BY <1>0, <2>1, <2>2, <2>3 DEF SearchInv, TypeOK
<1>6. CASE ContextEnds \/ UNCHANGED vars
  BY <1>0, <1>6 DEF ContextEnds, vars, SearchInv, Pending, At
<1> QED
  BY <1>2, <1>3, <1>4, <1>5, <1>6, Steps

-----------------------------------------------------------------------------
(***************************************************************************)
(* The nodes of the chain.                                                 *)
(***************************************************************************)
\* Listing a pivot leaves the nodes of the others alone.
LEMMA NodeStep == IInv /\ [Next]_vars => NodeInv'
<1> SUFFICES ASSUME IInv, [Next]_vars PROVE NodeInv'
  OBVIOUS
<1> USE DEF IInv
<1>0. TypeOK /\ LevelInv /\ SearchInv /\ NodeInv
  OBVIOUS
<1>1. CASE WaitAborted
  BY <1>1 DEF WaitAborted, NodeInv
\* A pivot that is not pending is listed again, as a duplicate.
<1>2. ASSUME NEW k \in Keys, Duplicate(k) PROVE NodeInv'
  <2>1. /\ k \in visited /\ visited' = visited
        /\ pc = "expanding" /\ pc' = "expanding"
        /\ nodes' = nodes \cup {[parent |-> owner[depth], key |-> k,
                                label |-> "duplicate", depth |-> depth]}
    BY <1>2 DEF Duplicate, List
  <2>2. \A j, n : n \in nodes' /\ Original(n, j) <=> n \in nodes /\ Original(n, j)
    BY <2>1 DEF Original
  <2>3. \A n \in nodes' : n.key \in visited
    BY <1>0, <2>1 DEF NodeInv
  <2>4. \A j : ~Pending(j) /\ ~Pending(j)'
    BY <2>1 DEF Pending
  <2> QED
    BY <1>0, <2>1, <2>2, <2>3, <2>4 DEF NodeInv
\* A pivot is listed for the first time.
<1>3. ASSUME NEW k \in Keys, NEW l \in Labels \ {"duplicate"}, List(k, l),
             pc # "aborted", pc' = "expanding", visited' = visited \cup {k},
             \A j \in Keys : Pending(j) => j = k,
             \A n \in nodes : n.key # k
      PROVE  NodeInv'
  <2> DEFINE new == [parent |-> owner[depth], key |-> k, label |-> l,
                     depth |-> depth]
  <2>1. nodes' = nodes \cup {new} /\ new.key = k /\ new.label = l
    BY <1>3 DEF List
  <2>2. \A j : ~Pending(j)'
    BY <1>3 DEF Pending
  <2>3. \A n \in nodes' : n.key \in visited'
    BY <1>0, <1>3, <2>1 DEF NodeInv
  <2>4. ASSUME NEW j \in visited'
        PROVE  \E o \in nodes' : /\ Original(o, j)
                                 /\ \A q \in nodes' : Original(q, j) => q = o
    <3> HIDE DEF new
    <3>1. CASE j = k
      <4>1. Original(new, j) /\ \A q \in nodes' : Original(q, j) => q = new
        BY <1>3, <2>1, <3>1 DEF Original
      <4> QED
        BY <2>1, <4>1
    <3>2. CASE j # k
      <4>1. j \in visited /\ j \in Keys /\ ~Pending(j)
        BY <1>0, <1>3, <2>4, <3>2 DEF TypeOK
      <4>2. PICK o \in nodes : /\ Original(o, j)
                               /\ \A q \in nodes : Original(q, j) => q = o
        BY <1>0, <1>3, <4>1 DEF NodeInv
      <4> QED
        BY <2>1, <3>2, <4>2 DEF Original
    <3> QED
      BY <3>1, <3>2
  <2> QED
    BY <1>3, <2>2, <2>3, <2>4 DEF NodeInv
<1>4. ASSUME NEW k \in Keys, NoteEmail(k) \/ NoSearcher(k) PROVE NodeInv'
  <2>1. PICK l \in Labels \ {"duplicate"} :
          /\ List(k, l) /\ pc = "expanding" /\ pc' = "expanding"
          /\ k \notin visited /\ visited' = visited \cup {k}
    BY <1>4, Effects DEF Lists, Labels
  <2> QED
    BY <1>0, <1>3, <2>1 DEF NodeInv, Pending
<1>5. ASSUME NEW k \in Keys, SearchFails(k) \/ SearchFinds(k) PROVE NodeInv'
  <2>1. PICK l \in Labels \ {"duplicate"} :
          /\ List(k, l) /\ pc = "searching" /\ pc' = "expanding"
          /\ At(k) /\ visited' = visited
    BY <1>5 DEF SearchFails, SearchFinds, Labels
  <2>2. Pending(k) /\ k \in visited /\ \A j \in Keys : Pending(j) => j = k
    BY <1>0, <2>1, AtOne DEF Pending, SearchInv, Stopped
  <2> QED
    BY <1>0, <1>3, <2>1, <2>2 DEF NodeInv
<1>6. ASSUME NEW k \in Keys, Visit(k) PROVE NodeInv'
  <2>1. /\ At(k) /\ k \notin visited /\ visited' = visited \cup {k}
        /\ UNCHANGED <<todo, depth, nodes>>
        /\ pc = "expanding" /\ pc' = "waiting"
    BY <1>6 DEF Visit
  <2>2. \A j : ~Pending(j)
    BY <2>1 DEF Pending
  <2>3. Pending(k)' /\ \A j : Pending(j)' => j = k
    <3>1. \A j : At(j) => j = k
      BY <1>0, <2>1, AtOne DEF Stopped
    <3> QED
      BY <2>1, <3>1 DEF Pending, At
  <2>4. \A n \in nodes : n.key # k
    BY <1>0, <2>1 DEF NodeInv
  <2> QED
    BY <1>0, <2>1, <2>2, <2>3, <2>4 DEF NodeInv
<1>7. ASSUME UNCHANGED <<nodes, visited>>,
             \A j : Pending(j)' <=> Pending(j),
             pc' = "aborted" <=> pc = "aborted"
      PROVE  NodeInv'
  BY <1>0, <1>7 DEF NodeInv
<1>8. ASSUME NEW k \in Keys, WaitOver(k) PROVE NodeInv'
  BY <1>7, <1>8 DEF WaitOver, Pending, At
<1>9. CASE Start \/ Close
  BY <1>7, <1>9 DEF Start, Close, Pending
<1>10. CASE ContextEnds \/ UNCHANGED vars
  BY <1>7, <1>10 DEF ContextEnds, vars, Pending, At
<1> QED
  BY <1>1, <1>2, <1>4, <1>5, <1>6, <1>8, <1>9, <1>10, Steps

-----------------------------------------------------------------------------
(***************************************************************************)
(* The linked investigations.                                              *)
(***************************************************************************)
\* Listing pivot k at the current level adds at most one found username.
LEMMA ListFound ==
  ASSUME NEW k, NEW l, List(k, l)
  PROVE  \A p, j : FoundUnder(p, j)' <=>
           \/ FoundUnder(p, j)
           \/ l \in {"verified", "nothing"} /\ p = owner[depth] /\ j = k
<1> DEFINE new == [parent |-> owner[depth], key |-> k, label |-> l,
                   depth |-> depth]
<1>1. nodes' = nodes \cup {new}
  BY DEF List
<1>2. new.parent = owner[depth] /\ new.key = k /\ new.label = l
  OBVIOUS
<1> HIDE DEF new
<1> QED
  BY <1>1, <1>2 DEF FoundUnder

\* What was found stays found, so the parents of a level's nodes do.
LEMMA FoundParents ==
  ASSUME LinkInv, TypeOK, depth \in Levels,
         NEW k, NEW l, List(k, l)
  PROVE  /\ \A j : WasFound(j) => WasFound(j)'
         /\ \A p \in Keys \cup {Root}, j \in Keys :
              FoundUnder(p, j)' => p = Root \/ WasFound(p)'
<1>1. \A j : WasFound(j) => WasFound(j)'
  BY ListFound DEF WasFound
<1>2. depth <= depth
  BY DEF TypeOK
<1> QED
  BY <1>1, <1>2, ListFound DEF LinkInv

\* A username that is found is linked at once, or once its own report was
\* expanded.
LEMMA LinkStep == IInv /\ [Next]_vars => LinkInv'
<1> SUFFICES ASSUME IInv, [Next]_vars PROVE LinkInv'
  OBVIOUS
<1> USE DEF IInv
<1>0. TypeOK /\ LevelInv /\ LinkInv
  OBVIOUS
<1>1. CASE WaitAborted
  BY <1>1, PivotAssumption DEF WaitAborted, LinkInv, FoundUnder, Levels
<1>2. CASE Start
  <2>1. /\ pc = "idle" /\ depth = 0 /\ UNCHANGED <<nodes, linked>>
        /\ pc' # "aborted"
    BY <1>0, <1>2 DEF Start, LevelInv, Stopped
  <2>2. \/ UNCHANGED <<depth, owner>>
        \/ depth' = 1 /\ owner' = [owner EXCEPT ![1] = Root]
    BY <1>2 DEF Start, Open
  <2>3. \A p, k : ~BeingExpanded(p, k) /\ ~BeingExpanded(p, k)'
    BY <2>1, <2>2, PivotAssumption DEF BeingExpanded, Levels
  <2>4. \A d \in Levels : d <= depth' => owner'[d] = Root
    BY <1>0, <2>1, <2>2, PivotAssumption DEF Levels, TypeOK
  <2>5. \A p, k : FoundUnder(p, k)' <=> FoundUnder(p, k)
    BY <2>1 DEF FoundUnder
  <2>6. \A k : WasFound(k)' <=> WasFound(k)
    BY <2>5 DEF WasFound
  <2> QED
    BY <1>0, <2>1, <2>3, <2>4, <2>5, <2>6 DEF LinkInv
<1>3. CASE Close
  <2>1. pc \notin Stopped /\ UNCHANGED nodes /\ pc' # "aborted"
    BY <1>3 DEF Close, Stopped
  <2>2. PICK d \in Levels : d = depth
    BY <1>0, <2>1, Current
  <2>3. depth' = d - 1 /\ owner' = [owner EXCEPT ![d] = Root]
    BY <1>3, <2>2 DEF Close
  <2>4. \A p, k : FoundUnder(p, k)' <=> FoundUnder(p, k)
    BY <2>1 DEF FoundUnder
  <2>5. \A k : WasFound(k)' <=> WasFound(k)
    BY <2>4 DEF WasFound
  <2>6. \A e \in Levels : e < d => owner'[e] = owner[e]
    BY <1>0, <2>3, PivotAssumption DEF TypeOK, Levels
  <2>7. \A e \in Levels : e <= depth' => owner'[e] = Root \/ WasFound(owner[e])'
    BY <1>0, <2>2, <2>3, <2>5, <2>6, PivotAssumption DEF LinkInv, Levels
  <2>8. ASSUME NEW p \in Keys \cup {Root}, NEW k \in Keys
        PROVE  /\ BeingExpanded(p, k)' <=>
                    \E e \in Levels : e + 1 < d /\ owner[e] = p /\ owner[e + 1] = k
               /\ BeingExpanded(p, k) <=>
                    \E e \in Levels : e < d /\ owner[e] = p /\ owner[e + 1] = k
    BY <2>2, <2>3, <2>6, PivotAssumption DEF BeingExpanded, Levels
  <2>9. CASE d = 1
    <3>1. linked' = linked
      BY <1>3, <2>2, <2>9 DEF Close
    <3>2. \A p \in Keys \cup {Root}, k \in Keys :
            ~BeingExpanded(p, k) /\ ~BeingExpanded(p, k)'
      BY <2>8, <2>9, PivotAssumption DEF Levels
    <3> QED
      BY <1>0, <2>1, <2>4, <2>5, <2>7, <3>1, <3>2 DEF LinkInv, Stopped
  <2>10. CASE d # 1
    <3>1. linked' = linked \cup {[parent |-> owner[d - 1], key |-> owner[d]]}
      BY <1>3, <2>2, <2>10 DEF Close, Link
    <3>2. PICK c \in Levels : c = d - 1
      BY <2>10, PivotAssumption DEF Levels
    <3>3. \A p \in Keys \cup {Root}, k \in Keys :
            BeingExpanded(p, k) <=>
              BeingExpanded(p, k)' \/ (p = owner[c] /\ k = owner[d])
      <4>1. \A e \in Levels : e < d <=> e + 1 < d \/ e = c
        BY <3>2, PivotAssumption DEF Levels
      <4>2. c + 1 = d
        BY <3>2, PivotAssumption DEF Levels
      <4> QED
        BY <2>8, <4>1, <4>2
    <3>4. \A p \in Keys \cup {Root}, k \in Keys :
            [parent |-> p, key |-> k] \in linked' <=>
              \/ [parent |-> p, key |-> k] \in linked
              \/ p = owner[c] /\ k = owner[d]
      BY <3>1, <3>2
    <3>5. \A p \in Keys \cup {Root}, k \in Keys :
            FoundUnder(p, k) <=> \/ [parent |-> p, key |-> k] \in linked
                                 \/ BeingExpanded(p, k)
      BY <1>0, <2>1 DEF LinkInv, Stopped
    <3>6. \A p \in Keys \cup {Root}, k \in Keys :
            FoundUnder(p, k)' <=> \/ [parent |-> p, key |-> k] \in linked'
                                  \/ BeingExpanded(p, k)'
      BY <2>4, <3>3, <3>4, <3>5
    <3>7. \A p \in Keys \cup {Root}, k \in Keys :
            FoundUnder(p, k)' => p = Root \/ WasFound(p)'
      BY <1>0, <2>4, <2>5 DEF LinkInv
    <3> QED
      BY <2>7, <3>6, <3>7 DEF LinkInv
  <2> QED
    BY <2>9, <2>10
\* Pivots of the other labels are not linked.
<1>4. ASSUME pc \notin Stopped, NEW k \in Keys,
             NEW l \in Labels \ {"verified", "nothing"}, Lists(k, l),
             UNCHANGED linked
      PROVE  LinkInv'
  <2>1. \A p, j : FoundUnder(p, j)' <=> FoundUnder(p, j)
    BY <1>4, ListFound DEF Lists
  <2>2. \A j : WasFound(j)' <=> WasFound(j)
    BY <2>1 DEF WasFound
  <2>3. \A p, j : BeingExpanded(p, j)' <=> BeingExpanded(p, j)
    BY <1>4 DEF Lists, BeingExpanded
  <2> QED
    BY <1>0, <1>4, <2>1, <2>2, <2>3 DEF LinkInv, Lists, Stopped
<1>5. ASSUME NEW k \in Keys, NEW l \in {"verified", "nothing"},
             pc \notin Stopped, Lists(k, l), Link(owner[depth], k)
      PROVE  LinkInv'
  <2>1. depth \in Levels
    BY <1>0, <1>5, Current
  <2>2. /\ \A j : WasFound(j) => WasFound(j)'
        /\ \A p \in Keys \cup {Root}, j \in Keys :
             FoundUnder(p, j)' => p = Root \/ WasFound(p)'
    BY <1>0, <1>5, <2>1, FoundParents DEF Lists
  <2>3. \A p, j : FoundUnder(p, j)' <=>
          FoundUnder(p, j) \/ (p = owner[depth] /\ j = k)
    BY <1>5, ListFound DEF Lists
  <2>4. \A p, j : BeingExpanded(p, j)' <=> BeingExpanded(p, j)
    BY <1>5 DEF Lists, BeingExpanded
  <2>5. \A p \in Keys \cup {Root}, j \in Keys :
          [parent |-> p, key |-> j] \in linked' <=>
            \/ [parent |-> p, key |-> j] \in linked
            \/ p = owner[depth] /\ j = k
    BY <1>5 DEF Link
  <2>6. UNCHANGED <<depth, owner>> /\ pc # "aborted"
    BY <1>5 DEF Lists, Stopped
  <2>7. \A p \in Keys \cup {Root}, j \in Keys :
          FoundUnder(p, j)' <=> \/ [parent |-> p, key |-> j] \in linked'
                                \/ BeingExpanded(p, j)'
    BY <1>0, <2>3, <2>4, <2>5, <2>6 DEF LinkInv
  <2>8. \A d \in Levels : d <= depth' => owner'[d] = Root \/ WasFound(owner[d])'
    BY <1>0, <2>2, <2>6 DEF LinkInv
  <2> QED
    BY <2>2, <2>7, <2>8 DEF LinkInv
<1>6. ASSUME NEW k \in Keys, NEW l \in {"verified", "nothing"},
             NEW g \in SUBSET Keys, pc \notin Stopped, Opens(k, l, g)
      PROVE  LinkInv'
  <2>1. depth \in Levels /\ depth \in Nat /\ owner[depth] \in Keys \cup {Root}
    BY <1>0, <1>6, Current
  <2>2. /\ \A j : WasFound(j) => WasFound(j)'
        /\ \A p \in Keys \cup {Root}, j \in Keys :
             FoundUnder(p, j)' => p = Root \/ WasFound(p)'
    BY <1>0, <1>6, <2>1, FoundParents DEF Opens
  <2>3. \A p, j : FoundUnder(p, j)' <=>
          FoundUnder(p, j) \/ (p = owner[depth] /\ j = k)
    BY <1>6, ListFound DEF Opens
  <2>4. PICK e \in Levels : /\ e = depth + 1 /\ depth' = e
                            /\ owner'[e] = k
                            /\ \A d \in Levels : d # e => owner'[d] = owner[d]
    BY <1>0, <1>6, OpensLevel
  <2>5. \A p \in Keys \cup {Root}, j \in Keys :
          BeingExpanded(p, j)' <=>
            BeingExpanded(p, j) \/ (p = owner[depth] /\ j = k)
    <3>1. \A d \in Levels : d < e <=> d < depth \/ d = depth
      BY <2>1, <2>4, PivotAssumption DEF Levels
    <3>2. \A d \in Levels : d < depth => /\ d + 1 \in Levels /\ d + 1 # e
                                         /\ d # e
      BY <2>1, <2>4, PivotAssumption DEF Levels
    <3>3. owner'[depth] = owner[depth] /\ owner'[depth + 1] = k
      BY <2>1, <2>4
    <3> QED
      BY <2>1, <2>4, <3>1, <3>2, <3>3 DEF BeingExpanded
  <2>6. linked' = linked /\ pc # "aborted"
    BY <1>6 DEF Opens, Stopped
  <2>7. \A p \in Keys \cup {Root}, j \in Keys :
          FoundUnder(p, j)' <=> \/ [parent |-> p, key |-> j] \in linked'
                                \/ BeingExpanded(p, j)'
    BY <1>0, <2>3, <2>5, <2>6 DEF LinkInv
  <2>8. WasFound(k)'
    BY <2>1, <2>3 DEF WasFound
  <2>9. \A d \in Levels : d <= depth' => owner'[d] = Root \/ WasFound(owner[d])'
    <3>1. \A d \in Levels : d <= e => d <= depth \/ d = e
      BY <2>1, <2>4, PivotAssumption DEF Levels
    <3> QED
      BY <1>0, <2>2, <2>4, <2>8, <3>1 DEF LinkInv
  <2> QED
    BY <2>2, <2>7, <2>9 DEF LinkInv
<1>7. ASSUME NEW k \in Keys,
             \/ Duplicate(k) \/ NoteEmail(k) \/ NoSearcher(k) \/ SearchFails(k)
      PROVE  LinkInv'
  <2>1. PICK l \in Labels \ {"verified", "nothing"} :
          pc \notin Stopped /\ Lists(k, l) /\ UNCHANGED linked
    BY <1>7, Effects DEF Labels, Stopped
  <2> QED
    BY <1>4, <2>1
<1>8. ASSUME NEW k \in Keys, SearchFinds(k) PROVE LinkInv'
  <2>1. PICK l \in {"verified", "nothing"} :
          /\ pc = "searching"
          /\ \/ /\ Lists(k, l) /\ Link(owner[depth], k)
                /\ UNCHANGED visited
             \/ \E g \in SUBSET Keys : Opens(k, l, g)
    BY <1>8, Effects
  <2> QED
    BY <1>5, <1>6, <2>1 DEF Stopped
<1>9. ASSUME UNCHANGED <<depth, owner, nodes, linked>>,
             pc = "aborted" <=> pc' = "aborted"
      PROVE  LinkInv'
  BY <1>0, <1>9 DEF LinkInv, FoundUnder, WasFound, BeingExpanded
<1>10. ASSUME NEW k \in Keys, Visit(k) \/ WaitOver(k) PROVE LinkInv'
  BY <1>9, <1>10 DEF Visit, WaitOver
<1>11. CASE ContextEnds \/ UNCHANGED vars
  BY <1>9, <1>11 DEF ContextEnds, vars
<1> QED
  BY <1>1, <1>2, <1>3, <1>7, <1>8, <1>10, <1>11, Steps

-----------------------------------------------------------------------------
(***************************************************************************)
(* The theorems.                                                           *)
(***************************************************************************)
\* The parts hold in every state.
THEOREM Invariant == Spec => []IInv
<1>1. IInv /\ [Next]_vars => IInv'
  BY TypeStep, LevelStep, CoverStep, SearchStep, NodeStep, LinkStep DEF IInv
<1> QED
  BY <1>1, InitInv, PTL DEF Spec

\* Every variable keeps its shape and no level is deeper than the depth
\* asked for.
THEOREM TypeCorrect == Spec => []TypeOK
<1>1. IInv => TypeOK
  BY DEF IInv
<1> QED
  BY <1>1, Invariant, PTL

\* A node that expandReport marks as a duplicate has one original in the
\* chain, whatever level either was met at.
THEOREM Originals == Spec => []DuplicatesHaveOriginals
<1>1. IInv => DuplicatesHaveOriginals
  <2> SUFFICES ASSUME IInv, NEW n \in nodes
               PROVE  \E o \in nodes :
                        /\ o.key = n.key /\ o.label # "duplicate"
                        /\ \A q \in nodes :
                             q.key = n.key /\ q.label # "duplicate" => q = o
    BY DEF DuplicatesHaveOriginals
  <2>1. n.key \in visited /\ ~Pending(n.key) /\ pc # "aborted"
    BY DEF IInv, NodeInv
  <2>2. PICK o \in nodes : /\ Original(o, n.key)
                           /\ \A q \in nodes : Original(q, n.key) => q = o
    BY <2>1 DEF IInv, NodeInv
  <2> QED
    BY <2>2 DEF Original
<1> QED
  BY <1>1, Invariant, PTL

\* What Run returns links the reports of the usernames that were searched,
\* and of no other.
THEOREM Linked == Spec => []LinksMatchChain
<1>1. IInv => LinksMatchChain
  <2> SUFFICES ASSUME IInv, pc = "returned"
               PROVE  /\ linked = {[parent |-> n.parent, key |-> n.key] :
                             n \in {m \in nodes : m.label \in {"verified", "nothing"}}}
                      /\ \A l \in linked :
                           l.parent = Root \/ \E m \in linked : m.key = l.parent
    BY DEF LinksMatchChain
  <2>1. /\ depth = 0
        /\ nodes \subseteq [parent : Keys \cup {Root}, key : Keys,
                            label : Labels, depth : Levels]
        /\ linked \subseteq [parent : Keys \cup {Root}, key : Keys]
    BY DEF IInv, LevelInv, TypeOK, Stopped
  <2>2. \A p, k : ~BeingExpanded(p, k)
    BY <2>1, PivotAssumption DEF BeingExpanded, Levels
  <2>3. \A p \in Keys \cup {Root}, k \in Keys :
          FoundUnder(p, k) <=> [parent |-> p, key |-> k] \in linked
    BY <2>2 DEF IInv, LinkInv
  <2>4. linked = {[parent |-> n.parent, key |-> n.key] :
                    n \in {m \in nodes : m.label \in {"verified", "nothing"}}}
    <3> DEFINE Pairs == {[parent |-> n.parent, key |-> n.key] :
                    n \in {m \in nodes : m.label \in {"verified", "nothing"}}}
    <3>1. ASSUME NEW n \in nodes, n.label \in {"verified", "nothing"}
          PROVE  [parent |-> n.parent, key |-> n.key] \in linked
      <4>1. n.parent \in Keys \cup {Root} /\ n.key \in Keys
        BY <2>1
      <4> QED
        BY <2>3, <3>1, <4>1 DEF FoundUnder
    <3>2. ASSUME NEW l \in linked PROVE l \in Pairs
      <4>1. /\ l = [parent |-> l.parent, key |-> l.key]
            /\ l.parent \in Keys \cup {Root} /\ l.key \in Keys
        BY <2>1
      <4>2. PICK n \in nodes : /\ n.label \in {"verified", "nothing"}
                               /\ n.parent = l.parent /\ n.key = l.key
        BY <2>3, <4>1 DEF FoundUnder
      <4> QED
        BY <4>1, <4>2
    <3> QED
      BY <3>1, <3>2
  <2>5. ASSUME NEW l \in linked, l.parent # Root
        PROVE  \E m \in linked : m.key = l.parent
    <3>1. /\ l = [parent |-> l.parent, key |-> l.key]
          /\ l.parent \in Keys /\ l.key \in Keys
      BY <2>1, <2>5
    <3>2. WasFound(l.parent)
      BY <2>3, <2>5, <3>1 DEF IInv, LinkInv
    <3>3. PICK p \in Keys \cup {Root} : FoundUnder(p, l.parent)
      BY <3>2 DEF WasFound
    <3>4. [parent |-> p, key |-> l.parent] \in linked
      BY <2>3, <3>1, <3>3
    <3> QED
      BY <3>4
  <2> QED
    BY <2>4, <2>5
<1> QED
  BY <1>1, Invariant, PTL

\* Every step of the expansion is a step of the crawl or leaves it alone.
THEOREM CrawlImplemented == Spec => ImplementsCrawl
<1>1. Init => Crawl!CrawlInit
  BY DEF Init, Crawl!CrawlInit
<1>2. ASSUME IInv, [Next]_vars PROVE [Crawl!CrawlNext]_(Crawl!crawlVars)
  <2> USE DEF Crawl!CrawlNext, Crawl!crawlVars, Crawl!Offer, Crawl!Take,
              Crawl!Search, Crawl!Succeed, Crawl!Abort
  <2>0. TypeOK /\ LevelInv /\ CoverInv /\ SearchInv
    BY <1>2 DEF IInv
  <2>1. CASE Start
    <3>1. PICK g \in SUBSET Keys :
            IF maxDepth = 0 \/ g = {}
              THEN /\ pc' = "returned"
                   /\ UNCHANGED <<depth, owner, todo, offered>>
              ELSE /\ pc' = "expanding"
                   /\ Open(1, Root, g, todo)
      BY <2>1 DEF Start
    <3>2. /\ pc = "idle" /\ UNCHANGED <<visited, searches>>
          /\ \A d \in Levels : todo[d] = {}
      BY <2>0, <2>1, PivotAssumption DEF Start, LevelInv, Stopped, Levels
    <3>3. offered \subseteq visited
      BY <2>0, <3>2 DEF CoverInv, TypeOK
    <3>4. CASE maxDepth = 0 \/ g = {}
      BY <3>1, <3>2, <3>3, <3>4
    <3>5. CASE ~(maxDepth = 0 \/ g = {})
      BY <3>1, <3>2, <3>5 DEF Open
    <3> QED
      BY <3>4, <3>5
  <2>2. CASE WaitAborted
    BY <2>2 DEF WaitAborted
  <2>3. CASE Close
    <3>1. CASE depth = 1
      <4>1. \A d \in Levels : todo[d] = {}
        BY <2>0, <2>3, <3>1, PivotAssumption DEF Close, LevelInv, Levels
      <4>2. offered \subseteq visited
        BY <2>0, <2>3, <4>1 DEF Close, CoverInv, TypeOK
      <4> QED
        BY <2>3, <3>1, <4>2 DEF Close
    <3>2. CASE depth # 1
      BY <2>3, <3>2 DEF Close
    <3> QED
      BY <3>1, <3>2
  <2>4. ASSUME NEW k \in Keys, Duplicate(k) \/ SearchFails(k)
        PROVE  [Crawl!CrawlNext]_(Crawl!crawlVars)
    BY <2>4 DEF Duplicate, SearchFails
  <2>5. ASSUME NEW k \in Keys, NoteEmail(k) \/ NoSearcher(k) \/ Visit(k)
        PROVE  [Crawl!CrawlNext]_(Crawl!crawlVars)
    <3>1. /\ At(k) /\ pc = "expanding" /\ k \notin visited
          /\ visited' = visited \cup {k}
          /\ pc' \notin {"returned", "aborted"}
          /\ UNCHANGED <<offered, searches>>
      BY <2>5 DEF NoteEmail, NoSearcher, Visit
    <3>2. k \in offered
      BY <2>0, <3>1, Current DEF At, CoverInv, Stopped
    <3> QED
      BY <3>1, <3>2
  <2>6. ASSUME NEW k \in Keys, WaitOver(k)
        PROVE  [Crawl!CrawlNext]_(Crawl!crawlVars)
    <3>1. k \in visited /\ searches[k] = 0
      BY <2>0, <2>6 DEF WaitOver, SearchInv, Pending
    <3>2. searches' = [searches EXCEPT ![k] = 1]
      BY <2>6, <3>1 DEF WaitOver
    <3> QED
      BY <2>6, <3>1, <3>2 DEF WaitOver
  <2>7. ASSUME NEW k \in Keys, SearchFinds(k)
        PROVE  [Crawl!CrawlNext]_(Crawl!crawlVars)
    <3>1. /\ pc = "searching" /\ pc' = "expanding"
          /\ UNCHANGED <<visited, searches>>
      BY <2>7 DEF SearchFinds
    <3>2. offered' = offered \/ \E g \in SUBSET Keys : offered' = offered \cup g
      BY <2>7, Effects DEF Lists, Opens, Open
    <3> QED
      BY <3>1, <3>2
  <2>8. CASE ContextEnds \/ UNCHANGED vars
    BY <2>8 DEF ContextEnds, vars
  <2> QED
    BY <1>2, <2>1, <2>2, <2>3, <2>4, <2>5, <2>6, <2>7, <2>8, Steps
<1> QED
  BY <1>1, <1>2, Invariant, PTL DEF Spec, ImplementsCrawl, Crawl!CrawlSpec
=============================================================================
