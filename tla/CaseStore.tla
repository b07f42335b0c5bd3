------------------------------ MODULE CaseStore -----------------------------
(***************************************************************************)
(* The case database (internal/storage) and the commands that write it:    *)
(* an investigation saves its case, the hash of its profile photo and the  *)
(* cases of its auto-pivot chain; `pivot --case` saves one linked case;    *)
(* `cases tag | note | name | delete` edit one.  Every command is a        *)
(* process of its own on the same SQLite file.                             *)
(*                                                                         *)
(* A transaction, and a single statement, is one step: SQLite serializes   *)
(* writers and rolls back what a failure or a crash interrupts.  Between   *)
(* two steps any other process may run, and a process may die.             *)
(***************************************************************************)
EXTENDS Naturals, Sequences

CONSTANTS
  Procs,
  Phones,
  Artifacts,  \* emails, usernames and names claimed of a number
  Tags, Texts, Names,
  MaxCases,   \* bound: cases ever saved
  MaxNotes    \* bound: notes attached to one case

ASSUME StoreAssumption == MaxCases \in Nat /\ MaxNotes \in Nat

Ids == 1..MaxCases
NoCase == 0

VARIABLES
  cases,    \* table investigations, by id
  pivots,   \* table pivots
  hashes,   \* table photo_hashes; rows are never deleted
  sequence, \* sqlite_sequence of investigations: the last id given out
  pc,       \* what each process does next
  path,     \* ids of the open branch of the chain a process saves
  photo,    \* the id and number whose photo hash a process is to store
  buffer,   \* the tags or notes a process is to write, and the case
  reported  \* history: prior cases reported when a case was saved

vars == <<cases, pivots, hashes, sequence, pc, path, photo, buffer, reported>>
tables == <<cases, pivots, hashes, sequence, reported>>

Nothing == [id |-> NoCase, tags |-> {}, notes |-> <<>>]

Exists(i) == i \in DOMAIN cases

Init ==
  /\ cases = <<>>
  /\ pivots = {}
  /\ hashes = {}
  /\ sequence = 0
  /\ pc = [p \in Procs |-> "idle"]
  /\ path = [p \in Procs |-> <<>>]
  /\ photo = [p \in Procs |-> {}]
  /\ buffer = [p \in Procs |-> Nothing]
  /\ reported = <<>>

Become(p, state) == pc' = [pc EXCEPT ![p] = state]

\* f with x mapped to y, and f without x.
With(f, x, y) == [z \in DOMAIN f \cup {x} |-> IF z = x THEN y ELSE f[z]]
Without(f, x) == [z \in DOMAIN f \ {x} |-> f[z]]

-----------------------------------------------------------------------------
(* SaveInvestigation.                                                      *)

\* Mutant of NextId: INTEGER PRIMARY KEY without AUTOINCREMENT.
NextFreeId == 1 + CHOOSE i \in {0} \cup DOMAIN cases : \A k \in DOMAIN cases : k <= i

\* AUTOINCREMENT: an id is never given out twice, whatever is deleted.
NextId == sequence + 1

\* Mutant of PriorMatches: linked cases are left out of the query.
RootMatches(id, found) ==
  {i \in DOMAIN cases : /\ i # id /\ cases[i].parent = NoCase
                        /\ \E a \in found : <<i, a>> \in pivots}

\* Cases that share an artifact with the one being saved.
PriorMatches(id, found) ==
  {i \in DOMAIN cases : i # id /\ \E a \in found : <<i, a>> \in pivots}

\* One transaction inserts the case and its pivots and reads the matches.
Insert(id, phone, found, parent) ==
  /\ id \in Ids
  /\ sequence' = id
  /\ cases' = With(cases, id, [phone |-> phone, parent |-> parent,
                               name |-> "", tags |-> {}, notes |-> <<>>])
  /\ pivots' = pivots \cup ({id} \X found)
  /\ reported' = With(reported, id, PriorMatches(id, found))

\* saveInvestigationToDB for the report of a number; branch is where the
\* cases of its chain will hang, and the photo's id and number are kept.
Save(p, parent, branch) ==
  /\ pc[p] = "idle"
  /\ \E phone \in Phones, found \in SUBSET Artifacts :
       /\ Insert(NextId, phone, found, parent)
       /\ photo' = [photo EXCEPT ![p] = {<<NextId, phone>>}]
  /\ path' = [path EXCEPT ![p] = branch]
  /\ Become(p, "photo")
  /\ UNCHANGED <<hashes, buffer>>

SaveRoot(p) == Save(p, NoCase, <<NextId>>)

\* pivot ... --case N: N is stored as typed, whether or not it exists.
SavePivot(p) == \E parent \in {NoCase} \cup Ids : Save(p, parent, <<>>)

\* storage.Open fails: the error is swallowed and the case id is 0.
RootNotOpened(p) ==
  /\ pc[p] = "idle"
  /\ path' = [path EXCEPT ![p] = <<NoCase>>]
  /\ Become(p, "chain")
  /\ UNCHANGED <<tables, photo, buffer>>

\* StorePhotoHash if the report has a photo; its error is ignored.
StorePhoto(p) ==
  /\ pc[p] = "photo"
  /\ hashes' \in {hashes, hashes \cup photo[p]}
  /\ Become(p, "chain")
  /\ photo' = [photo EXCEPT ![p] = {}]
  /\ UNCHANGED <<cases, pivots, sequence, reported, path, buffer>>

\* saveLinkedInvestigations: in preorder, each case under the id its parent
\* was given.  A chain report has no identity record, hence no artifacts.
SaveLinked(p) ==
  /\ pc[p] = "chain"
  /\ \E phone \in Phones, k \in DOMAIN path[p] :
       /\ Insert(NextId, phone, {}, path[p][k])
       /\ path' = [path EXCEPT ![p] = Append(SubSeq(@, 1, k), NextId)]
  /\ UNCHANGED <<hashes, pc, photo, buffer>>

-----------------------------------------------------------------------------
(* cases tag, note, name, delete.                                          *)

\* UPDATE ... WHERE id: no row, no effect, no error.
Update(i, row) == cases' = IF Exists(i) THEN [cases EXCEPT ![i] = row] ELSE cases

\* UpdateTag and UpdateNote read the row in one statement and write it in
\* another; a tag argument may hold several tags, separated by commas.
ReadTags(p) ==
  /\ pc[p] = "idle"
  /\ \E i \in DOMAIN cases, new \in SUBSET Tags \ {{}} :
       /\ ~ \E t \in cases[i].tags : new = {t}
       /\ buffer' = [buffer EXCEPT ![p] =
                      [id |-> i, tags |-> cases[i].tags \cup new, notes |-> <<>>]]
  /\ Become(p, "tag")
  /\ UNCHANGED <<tables, path, photo>>

ReadNotes(p) ==
  /\ pc[p] = "idle"
  /\ \E i \in DOMAIN cases, text \in Texts :
       /\ Len(cases[i].notes) < MaxNotes
       /\ buffer' = [buffer EXCEPT ![p] =
                [id |-> i, tags |-> {}, notes |-> Append(cases[i].notes, text)]]
  /\ Become(p, "note")
  /\ UNCHANGED <<tables, path, photo>>

Write(p) ==
  LET i == buffer[p].id
  IN /\ \/ pc[p] = "tag"  /\ Update(i, [cases[i] EXCEPT !.tags = buffer[p].tags])
        \/ pc[p] = "note" /\ Update(i, [cases[i] EXCEPT !.notes = buffer[p].notes])
     /\ Become(p, "idle")
     /\ buffer' = [buffer EXCEPT ![p] = Nothing]
     /\ UNCHANGED <<pivots, hashes, sequence, path, photo, reported>>

Rename(p) ==
  /\ pc[p] = "idle"
  /\ \E i \in Ids, name \in Names : Update(i, [cases[i] EXCEPT !.name = name])
  /\ UNCHANGED <<pivots, hashes, sequence, pc, path, photo, buffer, reported>>

\* Mutant of Delete: the pivots of the case are left behind.
DeleteCaseOnly(p) ==
  /\ pc[p] = "idle"
  /\ \E i \in Ids : cases' = Without(cases, i)
  /\ UNCHANGED <<pivots, hashes, sequence, pc, path, photo, buffer, reported>>

\* One transaction: the pivots of the case and the case itself.
Delete(p) ==
  /\ pc[p] = "idle"
  /\ \E i \in Ids :
       /\ pivots' = {row \in pivots : row[1] # i}
       /\ cases' = Without(cases, i)
  /\ UNCHANGED <<hashes, sequence, pc, path, photo, buffer, reported>>

\* The command is over, or it failed, or its process died: what it has
\* committed stays, what it had in memory is gone.
End(p) ==
  /\ pc[p] # "idle"
  /\ Become(p, "idle")
  /\ path' = [path EXCEPT ![p] = <<>>]
  /\ photo' = [photo EXCEPT ![p] = {}]
  /\ buffer' = [buffer EXCEPT ![p] = Nothing]
  /\ UNCHANGED tables

Next == \E p \in Procs :
  \/ SaveRoot(p) \/ SavePivot(p) \/ RootNotOpened(p) \/ StorePhoto(p)
  \/ SaveLinked(p)
  \/ ReadTags(p) \/ ReadNotes(p) \/ Write(p) \/ Rename(p) \/ Delete(p)
  \/ End(p)

Spec == Init /\ [][Next]_vars

-----------------------------------------------------------------------------
(* Properties.                                                             *)

Case == [phone : Phones, parent : {NoCase} \cup Ids, name : {""} \cup Names,
         tags : SUBSET Tags, notes : Seq(Texts)]

\* Every variable keeps its shape; ids come from the sequence.
TypeOK ==
  /\ DOMAIN cases \subseteq 1..sequence
  /\ \A i \in DOMAIN cases : cases[i] \in Case
  /\ pivots \subseteq (1..sequence) \X Artifacts
  /\ hashes \subseteq (1..sequence) \X Phones
  /\ sequence \in 0..MaxCases
  /\ pc \in [Procs -> {"idle", "photo", "chain", "tag", "note"}]
  /\ path \in [Procs -> Seq(0..sequence)]
  /\ photo \in [Procs -> SUBSET ((1..sequence) \X Phones)]
  /\ buffer \in [Procs -> [id : 0..sequence, tags : SUBSET Tags,
                            notes : Seq(Texts)]]
  /\ DOMAIN reported = 1..sequence
  /\ \A i \in 1..sequence : reported[i] \subseteq 1..(i - 1)

\* However saves, deletes and deaths interleave, no pivot row outlives or
\* precedes its case: a match can always be traced to a case.
PivotsOwned == \A row \in pivots : Exists(row[1])

\* A photo hash, stored in a second step and never deleted, is never read as
\* belonging to a case of another number.
HashesKeepTheirPhone ==
  \A row \in hashes : Exists(row[1]) => cases[row[1]].phone = row[2]

\* A deleted case stays deleted, whatever commands had read it before.
DeletedStaysDeleted ==
  [][\A i \in 1..sequence : ~Exists(i) => i \notin DOMAIN cases']_vars

\* Of two saved cases that share an artifact, the later one reported the
\* earlier one when it was saved.
NoMissedMatch ==
  \A i, j \in DOMAIN cases :
    (i < j /\ \E a \in Artifacts : {<<i, a>>, <<j, a>>} \subseteq pivots)
      => i \in reported[j]

\* RELEASE_NOTES_v2.md: "Delete a case and all its linked pivot
\* investigations".
DeleteTakesLinked ==
  [][\A i \in DOMAIN cases : i \notin DOMAIN cases' =>
       ~ \E j \in DOMAIN cases' : cases'[j].parent = i]_vars
=============================================================================
