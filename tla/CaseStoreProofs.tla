--------------------------- MODULE CaseStoreProofs --------------------------
(***************************************************************************)
(* Proofs about CaseStore for any number of processes and cases: pivots    *)
(* belong to a case, a photo hash to its number, matches are not missed    *)
(* and deleted cases do not come back.                                     *)
(***************************************************************************)
EXTENDS CaseStore, SequenceTheorems, TLAPS

\* The photo a process is about to store is of the case it has just saved.
PhotoInv ==
  \A p \in Procs : \A row \in photo[p] :
    Exists(row[1]) => cases[row[1]].phone = row[2]

IInv ==
  /\ TypeOK
  /\ PivotsOwned
  /\ PhotoInv
  /\ HashesKeepTheirPhone
  /\ NoMissedMatch

\* A prefix of a sequence with one more element, as SaveLinked builds it.
LEMMA BranchInSeq ==
  ASSUME NEW S, NEW q \in Seq(S), NEW k \in 1..Len(q), NEW x \in S
  PROVE  Append(SubSeq(q, 1, k), x) \in Seq(S)
<1>1. \A i \in 1..k : q[i] \in S
  OBVIOUS
<1>2. SubSeq(q, 1, k) \in Seq(S)
  BY <1>1, SubSeqProperties
<1> QED
  BY <1>2

\* What one step can do to the tables other than photo_hashes.
InsertStep ==
  \E phone \in Phones : \E found \in SUBSET Artifacts :
    \E parent \in {NoCase} \cup Ids : Insert(NextId, phone, found, parent)

EditStep ==
  /\ DOMAIN cases' = DOMAIN cases
  /\ \A i \in DOMAIN cases : /\ cases'[i] \in Case
                             /\ cases'[i].phone = cases[i].phone
  /\ UNCHANGED <<pivots, sequence, reported>>

DeleteStep ==
  /\ \E i \in Ids : /\ pivots' = {row \in pivots : row[1] # i}
                    /\ cases' = Without(cases, i)
  /\ UNCHANGED <<sequence, reported>>

ProcStep(p) ==
  \/ SaveRoot(p) \/ SavePivot(p) \/ RootNotOpened(p) \/ StorePhoto(p)
  \/ SaveLinked(p)
  \/ ReadTags(p) \/ ReadNotes(p) \/ Write(p) \/ Rename(p) \/ Delete(p)
  \/ End(p)

-----------------------------------------------------------------------------
LEMMA InitInv == Init => IInv
<1> SUFFICES ASSUME Init PROVE IInv
  OBVIOUS
<1> USE StoreAssumption DEF Init
<1>1. DOMAIN cases = {} /\ DOMAIN reported = {} /\ 1..sequence = {}
  OBVIOUS
<1>2. <<>> \in Seq(0..sequence) /\ <<>> \in Seq(Texts)
  OBVIOUS
<1>3. TypeOK
  BY <1>1, <1>2 DEF TypeOK, Nothing, NoCase
<1> QED
  BY <1>1, <1>3
  DEF IInv, PivotsOwned, PhotoInv, HashesKeepTheirPhone, NoMissedMatch

\* A row rewritten with other tags, notes or name is still a case.
LEMMA UpdateKeeps ==
  ASSUME TypeOK, NEW i \in Ids, NEW row, Exists(i) => row \in Case,
         Exists(i) => row.phone = cases[i].phone, Update(i, row),
         UNCHANGED <<pivots, sequence, reported>>
  PROVE  EditStep
  BY DEF TypeOK, Update, Exists, EditStep

LEMMA TablesStep == IInv /\ [Next]_vars => InsertStep \/ EditStep \/ DeleteStep
<1> SUFFICES ASSUME IInv, [Next]_vars PROVE InsertStep \/ EditStep \/ DeleteStep
  OBVIOUS
<1> USE StoreAssumption DEF IInv, TypeOK
<1>1. ASSUME NEW p \in Procs, SaveRoot(p) \/ SavePivot(p) PROVE InsertStep
  BY <1>1 DEF SaveRoot, SavePivot, Save, InsertStep
<1>2. ASSUME NEW p \in Procs, SaveLinked(p) PROVE InsertStep
  <2>1. PICK phone \in Phones, k \in DOMAIN path[p] :
          Insert(NextId, phone, {}, path[p][k])
    BY <1>2 DEF SaveLinked
  <2>2. path[p][k] \in 0..sequence
    OBVIOUS
  <2>3. path[p][k] \in {NoCase} \cup Ids
    BY <2>2 DEF NoCase, Ids
  <2> QED
    BY <2>1, <2>3 DEF InsertStep
<1>3. ASSUME NEW p \in Procs, Write(p) PROVE EditStep
  <2>1. PICK i \in 0..sequence : i = buffer[p].id
    OBVIOUS
  <2>2. CASE ~ Exists(i)
    BY <1>3, <2>1, <2>2 DEF Write, Update, EditStep, Exists
  <2>3. CASE Exists(i)
    <3>1. i \in Ids /\ cases[i] \in Case
      BY <2>1, <2>3 DEF Exists, Ids
    <3>2. [cases[i] EXCEPT !.tags = buffer[p].tags] \in Case
            /\ [cases[i] EXCEPT !.tags = buffer[p].tags].phone = cases[i].phone
      BY <3>1 DEF Case
    <3>3. [cases[i] EXCEPT !.notes = buffer[p].notes] \in Case
            /\ [cases[i] EXCEPT !.notes = buffer[p].notes].phone = cases[i].phone
      BY <3>1 DEF Case
    <3>4. \/ Update(i, [cases[i] EXCEPT !.tags = buffer[p].tags])
          \/ Update(i, [cases[i] EXCEPT !.notes = buffer[p].notes])
      BY <1>3, <2>1 DEF Write
    <3>5. UNCHANGED <<pivots, sequence, reported>>
      BY <1>3 DEF Write
    <3> QED
      BY <3>1, <3>2, <3>3, <3>4, <3>5, UpdateKeeps
  <2> QED
    BY <2>2, <2>3
<1>4. ASSUME NEW p \in Procs, Rename(p) PROVE EditStep
  <2>1. PICK i \in Ids, name \in Names :
          Update(i, [cases[i] EXCEPT !.name = name])
    BY <1>4 DEF Rename
  <2>2. ASSUME Exists(i)
        PROVE  /\ [cases[i] EXCEPT !.name = name] \in Case
               /\ [cases[i] EXCEPT !.name = name].phone = cases[i].phone
    <3>1. cases[i] \in Case
      BY <2>2 DEF Exists
    <3> QED
      BY <3>1 DEF Case
  <2>3. UNCHANGED <<pivots, sequence, reported>>
    BY <1>4 DEF Rename
  <2> QED
    BY <2>1, <2>2, <2>3, UpdateKeeps
<1>5. ASSUME NEW p \in Procs, Delete(p) PROVE DeleteStep
  BY <1>5 DEF Delete, DeleteStep
<1>6. CASE UNCHANGED <<cases, pivots, sequence, reported>>
  BY <1>6 DEF EditStep
<1> QED
  BY <1>1, <1>2, <1>3, <1>4, <1>5, <1>6
  DEF Next, RootNotOpened, StorePhoto, ReadTags, ReadNotes, End, tables, vars

\* The case an insertion adds, and those it leaves alone.
LEMMA InsertAdds ==
  ASSUME TypeOK, NEW phone \in Phones, NEW found \in SUBSET Artifacts,
         NEW parent \in {NoCase} \cup Ids, Insert(NextId, phone, found, parent)
  PROVE  /\ NextId \in Ids /\ sequence' = NextId
         /\ DOMAIN cases' = DOMAIN cases \cup {NextId}
         /\ ~ Exists(NextId)
         /\ cases'[NextId] \in Case /\ cases'[NextId].phone = phone
         /\ \A i \in DOMAIN cases : cases'[i] = cases[i]
         /\ DOMAIN reported' = DOMAIN reported \cup {NextId}
         /\ reported'[NextId] = PriorMatches(NextId, found)
         /\ \A i \in DOMAIN reported : reported'[i] = reported[i]
<1>1. ~ Exists(NextId) /\ NextId \notin DOMAIN reported
  BY DEF TypeOK, Exists, NextId
<1>2. [phone |-> phone, parent |-> parent, name |-> "", tags |-> {},
       notes |-> <<>>] \in Case
  BY DEF Case
<1> QED
  BY <1>1, <1>2 DEF Insert, With, Exists

-----------------------------------------------------------------------------
LEMMA TypeStep == IInv /\ [Next]_vars => TypeOK'
<1> SUFFICES ASSUME IInv, [Next]_vars PROVE TypeOK'
  OBVIOUS
<1> USE StoreAssumption DEF IInv, TypeOK
<1>1. /\ sequence' \in 0..MaxCases /\ sequence <= sequence'
      /\ DOMAIN cases' \subseteq 1..sequence'
      /\ \A i \in DOMAIN cases' : cases'[i] \in Case
      /\ pivots' \subseteq (1..sequence') \X Artifacts
      /\ DOMAIN reported' = 1..sequence'
      /\ \A i \in 1..sequence' : reported'[i] \subseteq 1..(i - 1)
  <2>1. CASE InsertStep
    <3>1. PICK phone \in Phones, found \in SUBSET Artifacts,
               parent \in {NoCase} \cup Ids :
                 Insert(NextId, phone, found, parent)
      BY <2>1 DEF InsertStep
    <3>2. PriorMatches(NextId, found) \subseteq 1..(NextId - 1)
      BY DEF PriorMatches, NextId
    <3>3. pivots' = pivots \cup ({NextId} \X found)
      BY <3>1 DEF Insert
    <3>4. sequence' = sequence + 1
      BY <3>1 DEF Insert, NextId
    <3>5. /\ NextId \in Ids
          /\ DOMAIN cases' = DOMAIN cases \cup {NextId}
          /\ cases'[NextId] \in Case
          /\ \A i \in DOMAIN cases : cases'[i] = cases[i]
          /\ DOMAIN reported' = DOMAIN reported \cup {NextId}
          /\ reported'[NextId] = PriorMatches(NextId, found)
          /\ \A i \in DOMAIN reported : reported'[i] = reported[i]
      BY <3>1, InsertAdds
    <3>6. /\ sequence' \in 0..MaxCases
          /\ DOMAIN cases' \subseteq 1..sequence'
          /\ DOMAIN reported' = 1..sequence'
      BY <3>4, <3>5 DEF NextId, Ids
    <3>7. \A i \in DOMAIN cases' : cases'[i] \in Case
      BY <3>5
    <3>8. pivots' \subseteq (1..sequence') \X Artifacts
      BY <3>3, <3>4 DEF NextId
    <3>9. \A i \in 1..sequence' : reported'[i] \subseteq 1..(i - 1)
      <4>1. ASSUME NEW i \in 1..sequence PROVE reported'[i] \subseteq 1..(i - 1)
        BY <3>5
      <4>2. reported'[NextId] \subseteq 1..(NextId - 1)
        BY <3>2, <3>5
      <4>3. 1..sequence' = (1..sequence) \cup {NextId}
        BY <3>4 DEF NextId
      <4> QED
        BY <4>1, <4>2, <4>3
    <3> QED
      BY <3>4, <3>6, <3>7, <3>8, <3>9
  <2>2. CASE EditStep
    BY <2>2 DEF EditStep
  <2>3. CASE DeleteStep
    BY <2>3 DEF DeleteStep, Without
  <2> QED
    BY <2>1, <2>2, <2>3, TablesStep
<1>2. /\ hashes' \subseteq (1..sequence') \X Phones
      /\ photo' \in [Procs -> SUBSET ((1..sequence') \X Phones)]
  <2>0. (1..sequence) \X Phones \subseteq (1..sequence') \X Phones
    BY <1>1
  <2>1. ASSUME NEW p \in Procs, SaveRoot(p) \/ SavePivot(p)
        PROVE  /\ UNCHANGED hashes
               /\ photo' \in [Procs -> SUBSET ((1..sequence') \X Phones)]
    <3>1. PICK phone \in Phones : /\ photo' = [photo EXCEPT ![p] = {<<NextId, phone>>}]
                                  /\ UNCHANGED hashes
                                  /\ sequence' = NextId
      BY <2>1 DEF SaveRoot, SavePivot, Save, Insert
    <3>2. {<<NextId, phone>>} \subseteq (1..sequence') \X Phones
      BY <3>1 DEF NextId
    <3> QED
      BY <2>0, <3>1, <3>2
  <2>2. ASSUME NEW p \in Procs, StorePhoto(p)
        PROVE  /\ hashes' \subseteq (1..sequence) \X Phones
               /\ photo' \in [Procs -> SUBSET ((1..sequence) \X Phones)]
    BY <2>2 DEF StorePhoto
  <2>3. ASSUME NEW p \in Procs, End(p)
        PROVE  /\ UNCHANGED hashes
               /\ photo' \in [Procs -> SUBSET ((1..sequence) \X Phones)]
    BY <2>3 DEF End, tables
  <2>4. CASE UNCHANGED <<hashes, photo>>
    BY <2>0, <2>4
  <2> QED
    BY <2>0, <2>1, <2>2, <2>3, <2>4
    DEF Next, RootNotOpened, SaveLinked, ReadTags, ReadNotes, Write, Rename,
        Delete, tables, vars
<1>3. pc' \in [Procs -> {"idle", "photo", "chain", "tag", "note"}]
  BY DEF Next, Save, SaveRoot, SavePivot, RootNotOpened, StorePhoto, SaveLinked,
         ReadTags, ReadNotes, Write, Rename, Delete, End, Become, vars
<1>4. path' \in [Procs -> Seq(0..sequence')]
  <2>0. Seq(0..sequence) \subseteq Seq(0..sequence')
    BY <1>1
  <2>1. ASSUME NEW p \in Procs, SaveRoot(p) \/ SavePivot(p)
        PROVE  path' \in [Procs -> Seq(0..sequence')]
    <3>0. sequence' = NextId
      BY <2>1 DEF SaveRoot, SavePivot, Save, Insert
    <3>1. NextId \in 0..sequence'
      BY <3>0 DEF NextId
    <3>2. <<NextId>> \in Seq(0..sequence') /\ <<>> \in Seq(0..sequence')
      BY <3>1
    <3> QED
      BY <2>0, <2>1, <3>2 DEF SaveRoot, SavePivot, Save
  <2>2. ASSUME NEW p \in Procs, SaveLinked(p)
        PROVE  path' \in [Procs -> Seq(0..sequence')]
    <3>1. PICK k \in DOMAIN path[p] :
            /\ path' = [path EXCEPT ![p] = Append(SubSeq(@, 1, k), NextId)]
            /\ sequence' = NextId
      BY <2>2 DEF SaveLinked, Insert
    <3>2. path[p] \in Seq(0..sequence') /\ NextId \in 0..sequence'
            /\ k \in 1..Len(path[p])
      BY <2>0, <3>1 DEF NextId
    <3>4. Append(SubSeq(path[p], 1, k), NextId) \in Seq(0..sequence')
      BY <3>2, BranchInSeq
    <3> QED
      BY <2>0, <3>1, <3>4
  <2>3. ASSUME NEW p \in Procs, RootNotOpened(p)
        PROVE  path' \in [Procs -> Seq(0..sequence')]
    BY <2>0, <2>3 DEF RootNotOpened, NoCase, tables
  <2>4. ASSUME NEW p \in Procs, End(p)
        PROVE  path' \in [Procs -> Seq(0..sequence')]
    BY <2>0, <2>4 DEF End, tables
  <2>5. CASE UNCHANGED path
    BY <2>0, <2>5
  <2> QED
    BY <2>1, <2>2, <2>3, <2>4, <2>5
    DEF Next, StorePhoto, ReadTags, ReadNotes, Write, Rename, Delete, vars
<1>5. buffer' \in [Procs -> [id : 0..sequence', tags : SUBSET Tags,
                              notes : Seq(Texts)]]
  <2> DEFINE Buffer == [id : 0..sequence', tags : SUBSET Tags, notes : Seq(Texts)]
  <2>0. Nothing \in Buffer /\ buffer \in [Procs -> Buffer]
    BY <1>1 DEF Nothing, NoCase
  <2>1. ASSUME NEW p \in Procs, ReadTags(p) PROVE buffer' \in [Procs -> Buffer]
    <3>1. PICK i \in DOMAIN cases, new \in SUBSET Tags :
            buffer' = [buffer EXCEPT ![p] =
              [id |-> i, tags |-> cases[i].tags \cup new, notes |-> <<>>]]
      BY <2>1 DEF ReadTags
    <3>2. cases[i].tags \cup new \in SUBSET Tags
      BY DEF Case
    <3>3. i \in 0..sequence'
      BY <1>1
    <3>4. [id |-> i, tags |-> cases[i].tags \cup new, notes |-> <<>>] \in Buffer
      BY <3>2, <3>3
    <3> QED
      BY <2>0, <3>1, <3>4
  <2>2. ASSUME NEW p \in Procs, ReadNotes(p) PROVE buffer' \in [Procs -> Buffer]
    <3>1. PICK i \in DOMAIN cases, text \in Texts :
            buffer' = [buffer EXCEPT ![p] =
              [id |-> i, tags |-> {}, notes |-> Append(cases[i].notes, text)]]
      BY <2>2 DEF ReadNotes
    <3>2. cases[i].notes \in Seq(Texts)
      BY DEF Case
    <3>5. Append(cases[i].notes, text) \in Seq(Texts)
      BY <3>2
    <3>3. i \in 0..sequence'
      BY <1>1
    <3>4. [id |-> i, tags |-> {}, notes |-> Append(cases[i].notes, text)]
            \in Buffer
      BY <3>3, <3>5
    <3> QED
      BY <2>0, <3>1, <3>4
  <2>3. ASSUME NEW p \in Procs, Write(p) \/ End(p)
        PROVE  buffer' \in [Procs -> Buffer]
    BY <2>0, <2>3 DEF Write, End
  <2>4. CASE UNCHANGED buffer
    BY <2>0, <2>4
  <2> QED
    BY <2>1, <2>2, <2>3, <2>4
    DEF Next, SaveRoot, SavePivot, Save, RootNotOpened, StorePhoto, SaveLinked,
        Rename, Delete, vars
<1> QED
  BY <1>1, <1>2, <1>3, <1>4, <1>5

-----------------------------------------------------------------------------
\* An insertion adds the case with its pivots, a delete takes both.
LEMMA PivotsStep == IInv /\ [Next]_vars => PivotsOwned'
<1> SUFFICES ASSUME IInv, [Next]_vars, NEW row \in pivots'
             PROVE  row[1] \in DOMAIN cases'
  BY DEF PivotsOwned, Exists
<1> USE DEF IInv, PivotsOwned, Exists
<1>1. CASE InsertStep
  <2>1. PICK phone \in Phones, found \in SUBSET Artifacts,
             parent \in {NoCase} \cup Ids : Insert(NextId, phone, found, parent)
    BY <1>1 DEF InsertStep
  <2>2. DOMAIN cases' = DOMAIN cases \cup {NextId}
    BY <2>1, InsertAdds
  <2>3. row \in pivots \/ row[1] = NextId
    BY <2>1 DEF Insert
  <2> QED
    BY <2>2, <2>3
<1>2. CASE EditStep
  BY <1>2 DEF EditStep
<1>3. CASE DeleteStep
  BY <1>3 DEF DeleteStep, Without
<1> QED
  BY <1>1, <1>2, <1>3, TablesStep

\* An id between 1 and the sequence that has no case never gets one, and a
\* case keeps its number.
LEMMA CasesStep ==
  ASSUME IInv, [Next]_vars, NEW i \in 1..sequence
  PROVE  i \in DOMAIN cases' => /\ i \in DOMAIN cases
                                /\ cases'[i].phone = cases[i].phone
<1>1. CASE InsertStep
  <2>1. PICK phone \in Phones, found \in SUBSET Artifacts,
             parent \in {NoCase} \cup Ids : Insert(NextId, phone, found, parent)
    BY <1>1 DEF InsertStep
  <2>2. /\ DOMAIN cases' = DOMAIN cases \cup {NextId}
        /\ \A k \in DOMAIN cases : cases'[k] = cases[k]
    BY <2>1, InsertAdds DEF IInv
  <2>3. i # NextId
    BY DEF NextId, IInv, TypeOK
  <2> QED
    BY <2>2, <2>3
<1>2. CASE EditStep
  BY <1>2 DEF EditStep
<1>3. CASE DeleteStep
  BY <1>3 DEF DeleteStep, Without
<1> QED
  BY <1>1, <1>2, <1>3, TablesStep

\* How photo_hashes and the photo in hand of a process may change.
LEMMA PhotoStep ==
  ASSUME IInv, [Next]_vars
  PROVE  /\ \A row \in hashes' :
              row \in hashes \/ \E p \in Procs : row \in photo[p]
         /\ \A p \in Procs : \A row \in photo'[p] :
              \/ row \in photo[p]
              \/ \E phone \in Phones :
                   /\ row = <<NextId, phone>>
                   /\ \E found \in SUBSET Artifacts :
                        \E parent \in {NoCase} \cup Ids :
                          Insert(NextId, phone, found, parent)
<1> USE DEF IInv, TypeOK
<1> DEFINE HashesFrom == \A row \in hashes' :
             row \in hashes \/ \E p \in Procs : row \in photo[p]
           New(row) == \E phone \in Phones :
                   /\ row = <<NextId, phone>>
                   /\ \E found \in SUBSET Artifacts :
                        \E parent \in {NoCase} \cup Ids :
                          Insert(NextId, phone, found, parent)
           PhotosFrom == \A p \in Procs : \A row \in photo'[p] :
             row \in photo[p] \/ New(row)
<1>1. ASSUME NEW p \in Procs, SaveRoot(p) \/ SavePivot(p)
      PROVE  HashesFrom /\ PhotosFrom
  <2>1. PICK phone \in Phones, found \in SUBSET Artifacts,
             parent \in {NoCase} \cup Ids :
          /\ Insert(NextId, phone, found, parent)
          /\ photo' = [photo EXCEPT ![p] = {<<NextId, phone>>}]
          /\ UNCHANGED hashes
    BY <1>1 DEF SaveRoot, SavePivot, Save
  <2>2. New(<<NextId, phone>>)
    BY <2>1
  <2>3. \A q \in Procs : \A row \in photo'[q] :
          row \in photo[q] \/ row = <<NextId, phone>>
    BY <2>1
  <2> QED
    BY <2>1, <2>2, <2>3
<1>2. ASSUME NEW p \in Procs, StorePhoto(p) PROVE HashesFrom /\ PhotosFrom
  BY <1>2 DEF StorePhoto
<1>3. ASSUME NEW p \in Procs, End(p) PROVE HashesFrom /\ PhotosFrom
  BY <1>3 DEF End, tables
<1>4. CASE UNCHANGED <<hashes, photo>>
  BY <1>4
<1> QED
  BY <1>1, <1>2, <1>3, <1>4
  DEF Next, RootNotOpened, SaveLinked, ReadTags, ReadNotes, Write, Rename,
      Delete, tables, vars

LEMMA HashesStep == IInv /\ [Next]_vars => PhotoInv' /\ HashesKeepTheirPhone'
<1> SUFFICES ASSUME IInv, [Next]_vars PROVE PhotoInv' /\ HashesKeepTheirPhone'
  OBVIOUS
<1>1. ASSUME NEW row, row \in hashes \/ \E p \in Procs : row \in photo[p],
             row[1] \in DOMAIN cases'
      PROVE  cases'[row[1]].phone = row[2]
  <2>1. row[1] \in 1..sequence
    BY <1>1 DEF IInv, TypeOK
  <2>2. row[1] \in DOMAIN cases /\ cases'[row[1]].phone = cases[row[1]].phone
    BY <1>1, <2>1, CasesStep
  <2> QED
    BY <1>1, <2>2 DEF IInv, PhotoInv, HashesKeepTheirPhone, Exists
<1>2. ASSUME NEW phone \in Phones, NEW found \in SUBSET Artifacts,
             NEW parent \in {NoCase} \cup Ids,
             Insert(NextId, phone, found, parent)
      PROVE  cases'[NextId].phone = phone
  BY <1>2, InsertAdds DEF IInv
<1>3. HashesKeepTheirPhone'
  BY <1>1, PhotoStep DEF HashesKeepTheirPhone, Exists
<1>4. ASSUME NEW p \in Procs, NEW row \in photo'[p], row[1] \in DOMAIN cases'
      PROVE  cases'[row[1]].phone = row[2]
  <2>1. CASE row \in photo[p]
    BY <1>1, <1>4, <2>1
  <2>2. ASSUME NEW phone \in Phones, row = <<NextId, phone>>,
               \E found \in SUBSET Artifacts : \E parent \in {NoCase} \cup Ids :
                 Insert(NextId, phone, found, parent)
        PROVE  cases'[row[1]].phone = row[2]
    BY <1>2, <2>2
  <2> QED
    BY <2>1, <2>2, PhotoStep
<1> QED
  BY <1>3, <1>4 DEF PhotoInv, Exists

\* The later of two cases read the matches in the transaction that inserted
\* it, when the earlier one had its pivots: neither ever gains another pivot.
LEMMA MatchStep == IInv /\ [Next]_vars => NoMissedMatch'
<1> SUFFICES ASSUME IInv, [Next]_vars,
                    NEW i \in DOMAIN cases', NEW j \in DOMAIN cases', i < j,
                    NEW a \in Artifacts,
                    <<i, a>> \in pivots', <<j, a>> \in pivots'
             PROVE  i \in reported'[j]
  BY DEF NoMissedMatch
<1> USE DEF IInv
<1>0. ASSUME i \in DOMAIN cases, j \in DOMAIN cases,
             <<i, a>> \in pivots, <<j, a>> \in pivots,
             reported'[j] = reported[j]
      PROVE  i \in reported'[j]
  BY <1>0 DEF NoMissedMatch
<1>1. CASE InsertStep
  <2>1. PICK phone \in Phones, found \in SUBSET Artifacts,
             parent \in {NoCase} \cup Ids : Insert(NextId, phone, found, parent)
    BY <1>1 DEF InsertStep
  <2>2. /\ DOMAIN cases' = DOMAIN cases \cup {NextId}
        /\ reported'[NextId] = PriorMatches(NextId, found)
        /\ \A k \in DOMAIN reported : reported'[k] = reported[k]
    BY <2>1, InsertAdds
  <2>3. pivots' = pivots \cup ({NextId} \X found)
    BY <2>1 DEF Insert
  <2>4. \A k \in DOMAIN cases : k < NextId /\ k \in DOMAIN reported
    BY DEF TypeOK, NextId
  <2>5. i # NextId /\ i \in DOMAIN cases /\ <<i, a>> \in pivots
    <3>1. i # NextId
      <4>1. j \in DOMAIN cases \cup {NextId}
        BY <2>2
      <4>2. NextId \in Int /\ i \in Int /\ j \in Int
        BY <2>2 DEF TypeOK, NextId
      <4> QED
        BY <2>4, <4>1, <4>2
    <3> QED
      BY <2>2, <2>3, <3>1
  <2>6. CASE j = NextId
    <3>1. a \in found
      <4>1. <<NextId, a>> \notin pivots
        BY DEF TypeOK, NextId
      <4> QED
        BY <2>3, <2>6, <4>1
    <3>2. i \in PriorMatches(NextId, found)
      BY <2>5, <3>1 DEF PriorMatches
    <3> QED
      BY <2>2, <2>6, <3>2
  <2>7. CASE j # NextId
    <3>1. j \in DOMAIN cases /\ <<j, a>> \in pivots
      BY <2>2, <2>3, <2>7
    <3> QED
      BY <1>0, <2>2, <2>4, <2>5, <3>1
  <2> QED
    BY <2>6, <2>7
<1>2. CASE EditStep
  BY <1>0, <1>2 DEF EditStep
<1>3. CASE DeleteStep
  BY <1>0, <1>3 DEF DeleteStep, Without
<1> QED
  BY <1>1, <1>2, <1>3, TablesStep

-----------------------------------------------------------------------------
\* The inductive invariant holds in every reachable state.
THEOREM Invariant == Spec => []IInv
<1>1. IInv /\ [Next]_vars => IInv'
  BY TypeStep, PivotsStep, HashesStep, MatchStep DEF IInv
<1> QED
  BY InitInv, <1>1, PTL DEF Spec

\* TypeOK for any number of processes and cases.
THEOREM TypeCorrect == Spec => []TypeOK
<1>1. IInv => TypeOK
  BY DEF IInv
<1> QED
  BY Invariant, <1>1, PTL

\* Every pivot row has its case, whatever was saved, deleted or cut short.
THEOREM PivotsHaveCases == Spec => []PivotsOwned
<1>1. IInv => PivotsOwned
  BY DEF IInv
<1> QED
  BY Invariant, <1>1, PTL

\* A photo hash is never read as that of a case of another number.
THEOREM HashesAreTrue == Spec => []HashesKeepTheirPhone
<1>1. IInv => HashesKeepTheirPhone
  BY DEF IInv
<1> QED
  BY Invariant, <1>1, PTL

\* Of two stored cases that share an artifact the later reported the earlier.
THEOREM MatchesAreReported == Spec => []NoMissedMatch
<1>1. IInv => NoMissedMatch
  BY DEF IInv
<1> QED
  BY Invariant, <1>1, PTL

\* A deleted case never comes back, not by a command that had read it.
THEOREM DeleteIsFinal == Spec => DeletedStaysDeleted
<1>1. IInv /\ [Next]_vars =>
        [\A i \in 1..sequence : ~Exists(i) => i \notin DOMAIN cases']_vars
  BY CasesStep DEF Exists
<1> QED
  BY Invariant, <1>1, PTL DEF Spec, DeletedStaysDeleted
=============================================================================
