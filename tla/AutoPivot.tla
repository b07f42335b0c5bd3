------------------------------ MODULE AutoPivot -----------------------------
(***************************************************************************)
(* core.AutoPivotEngine.Run (internal/core/autopivot.go): the pivots of a  *)
(* report's identity graph are expanded depth first.  An email is only     *)
(* noted; a username is searched, after a pause, and the report made of    *)
(* its hits has a graph of its own, expanded one level deeper.  All levels *)
(* share one set of visited keys.                                          *)
(*                                                                         *)
(* A pivot is its pivotKey.  Keys are numbered as expandReport sorts them, *)
(* by type and then by value: emails come first.  A graph is the set of    *)
(* its keys (BuildIdentityGraph lists a key once) without the pivots the   *)
(* loop skips: other types, and confidences below the threshold.  The      *)
(* recursion is a stack: owner[d] is the username whose report is expanded *)
(* at depth d, todo[d] the pivots that level still has to look at.         *)
(***************************************************************************)
EXTENDS Naturals

CONSTANTS
  NEmails, NKeys, \* keys 1..NEmails are emails, the others usernames
  DepthLimit      \* the largest depth NewAutoPivotEngine accepts

ASSUME PivotAssumption ==
  /\ NEmails \in Nat
  /\ NKeys \in Nat
  /\ DepthLimit \in Nat \ {0}

Keys == 1..NKeys
Emails == {k \in Keys : k <= NEmails}
Root == 0  \* the number under investigation, owner of the first level
Levels == 1..DepthLimit

VARIABLES
  maxDepth, \* the engine's maxDepth
  searcher, \* a username searcher is configured (not so in passive mode)
  pc,       \* where Run is
  depth,    \* the level being expanded, 0 before and after
  owner,
  todo,
  visited,
  ctx,      \* the caller's context
  nodes,    \* the chain: each node under its parent
  linked,   \* the linked investigations built so far, each under its parent
  searches, \* history: calls of the searcher, per key
  offered   \* history: the pivots of all levels opened

vars == <<maxDepth, searcher, pc, depth, owner, todo, visited, ctx, nodes,
          linked, searches, offered>>
config == <<maxDepth, searcher>>

Init ==
  /\ maxDepth \in 0..DepthLimit
  /\ searcher \in BOOLEAN
  /\ pc = "idle"
  /\ depth = 0
  /\ owner = [d \in Levels |-> Root]
  /\ todo = [d \in Levels |-> {}]
  /\ visited = {}
  /\ ctx = "live"
  /\ nodes = {}
  /\ linked = {}
  /\ searches = [k \in Keys |-> 0]
  /\ offered = {}

-----------------------------------------------------------------------------
\* k is the pivot the loop of the current level is at.
At(k) == k \in todo[depth] /\ \A j \in todo[depth] : k <= j

Done(k) == [todo EXCEPT ![depth] = @ \ {k}]

List(k, label) ==
  nodes' = nodes \cup {[parent |-> owner[depth], key |-> k, label |-> label,
                        depth |-> depth]}

\* expandReport for the report of o, with graph g, at level d.
Open(d, o, g, rest) ==
  /\ depth' = d
  /\ owner' = [owner EXCEPT ![d] = o]
  /\ todo' = [rest EXCEPT ![d] = g]
  /\ offered' = offered \cup g

\* Run: without depth or without pivots the chain is the root alone.
Start ==
  /\ pc = "idle"
  /\ \E g \in SUBSET Keys :
       IF maxDepth = 0 \/ g = {}
         THEN /\ pc' = "returned"
              /\ UNCHANGED <<depth, owner, todo, offered>>
         ELSE /\ pc' = "expanding"
              /\ Open(1, Root, g, todo)
  /\ UNCHANGED <<config, visited, ctx, nodes, linked, searches>>

Duplicate(k) ==
  /\ pc = "expanding"
  /\ At(k)
  /\ k \in visited
  /\ List(k, "duplicate")
  /\ todo' = Done(k)
  /\ UNCHANGED <<config, pc, depth, owner, visited, ctx, linked, searches,
                 offered>>

NoteEmail(k) ==
  /\ pc = "expanding"
  /\ At(k)
  /\ k \in Emails \ visited
  /\ visited' = visited \cup {k}
  /\ List(k, "email")
  /\ todo' = Done(k)
  /\ UNCHANGED <<config, pc, depth, owner, ctx, linked, searches, offered>>

NoSearcher(k) ==
  /\ pc = "expanding"
  /\ At(k)
  /\ k \notin Emails \cup visited
  /\ ~searcher
  /\ visited' = visited \cup {k}
  /\ List(k, "unavailable")
  /\ todo' = Done(k)
  /\ UNCHANGED <<config, pc, depth, owner, ctx, linked, searches, offered>>

\* Mutant of Visit: the key is not entered into the visited set.
VisitUnmarked(k) ==
  /\ pc = "expanding"
  /\ At(k)
  /\ k \notin Emails \cup visited
  /\ searcher
  /\ pc' = "waiting"
  /\ UNCHANGED <<config, depth, owner, todo, visited, ctx, nodes, linked,
                 searches, offered>>

Visit(k) ==
  /\ pc = "expanding"
  /\ At(k)
  /\ k \notin Emails \cup visited
  /\ searcher
  /\ visited' = visited \cup {k}
  /\ pc' = "waiting"
  /\ UNCHANGED <<config, depth, owner, todo, ctx, nodes, linked, searches,
                 offered>>

\* Mutant of WaitOver: wait goes round its select again when the timer fires.
WaitAgain(k) ==
  /\ pc = "waiting"
  /\ At(k)
  /\ UNCHANGED vars

\* wait: the timer fires and the searcher is called.
WaitOver(k) ==
  /\ pc = "waiting"
  /\ At(k)
  /\ pc' = "searching"
  /\ searches' = [searches EXCEPT ![k] = @ + 1]
  /\ UNCHANGED <<config, depth, owner, todo, visited, ctx, nodes, linked,
                 offered>>

\* wait: ctx.Done; every level returns the error and what it has built is
\* dropped, as is the chain.
WaitAborted ==
  /\ pc = "waiting"
  /\ ctx = "done"
  /\ pc' = "aborted"
  /\ depth' = 0
  /\ owner' = [d \in Levels |-> Root]
  /\ todo' = [d \in Levels |-> {}]
  /\ nodes' = {}
  /\ linked' = {}
  /\ UNCHANGED <<config, visited, ctx, searches, offered>>

\* Mutant of SearchFails: the node of a failed search is not listed.
SearchFailsUnlisted(k) ==
  /\ pc = "searching"
  /\ At(k)
  /\ ctx = "done"
  /\ pc' = "expanding"
  /\ todo' = Done(k)
  /\ UNCHANGED <<config, depth, owner, visited, ctx, nodes, linked, searches,
                 offered>>

\* SearchUsernameProfiles only fails when the rate limiter reports a done
\* context; requests that fail are passed over.
SearchFails(k) ==
  /\ pc = "searching"
  /\ At(k)
  /\ ctx = "done"
  /\ pc' = "expanding"
  /\ List(k, "failed")
  /\ todo' = Done(k)
  /\ UNCHANGED <<config, depth, owner, visited, ctx, linked, searches, offered>>

Link(parent, k) == linked' = linked \cup {[parent |-> parent, key |-> k]}

\* The searcher answers; the graph of the child report is read from the
\* profile URLs, and without hits it can only name the username itself.  The
\* linked investigation is attached after its own pivots.
SearchFinds(k) ==
  /\ pc = "searching"
  /\ At(k)
  /\ pc' = "expanding"
  /\ \E label \in {"verified", "nothing"} :
     \E g \in SUBSET (IF label = "verified" THEN Keys ELSE {k}) :
       /\ List(k, label)
       /\ IF depth < maxDepth /\ g # {}
            THEN /\ Open(depth + 1, k, g, Done(k))
                 /\ UNCHANGED linked
            ELSE /\ todo' = Done(k)
                 /\ Link(owner[depth], k)
                 /\ UNCHANGED <<depth, owner, offered>>
  /\ UNCHANGED <<config, visited, ctx, searches>>

\* Mutant of Close: an investigation with pivots of its own is not attached.
CloseUnlinked ==
  /\ pc = "expanding"
  /\ todo[depth] = {}
  /\ depth' = depth - 1
  /\ owner' = [owner EXCEPT ![depth] = Root]
  /\ pc' = IF depth = 1 THEN "returned" ELSE pc
  /\ UNCHANGED <<config, todo, visited, ctx, nodes, linked, searches, offered>>

\* expandReport returns to the level above, or to Run.
Close ==
  /\ pc = "expanding"
  /\ todo[depth] = {}
  /\ depth' = depth - 1
  /\ owner' = [owner EXCEPT ![depth] = Root]
  /\ IF depth = 1
       THEN pc' = "returned" /\ UNCHANGED linked
       ELSE Link(owner[depth - 1], owner[depth]) /\ UNCHANGED pc
  /\ UNCHANGED <<config, todo, visited, ctx, nodes, searches, offered>>

ContextEnds ==
  /\ ctx = "live"
  /\ ctx' = "done"
  /\ UNCHANGED <<config, pc, depth, owner, todo, visited, nodes, linked,
                 searches, offered>>

Step ==
  \/ Start \/ WaitAborted \/ Close
  \/ \E k \in Keys :
       \/ Duplicate(k) \/ NoteEmail(k) \/ NoSearcher(k) \/ Visit(k)
       \/ WaitOver(k) \/ SearchFails(k) \/ SearchFinds(k)

Ended == pc \in {"returned", "aborted"}

Next == Step \/ ContextEnds \/ (Ended /\ UNCHANGED vars)

(***************************************************************************)
(* Fairness: the goroutine runs, the timer of wait fires, and a search     *)
(* returns, since its requests have the HTTP client's timeout.             *)
(***************************************************************************)
Spec == Init /\ [][Next]_vars /\ WF_vars(Step)

-----------------------------------------------------------------------------
(* Properties.                                                             *)

Labels == {"duplicate", "email", "unavailable", "failed", "verified",
           "nothing"}

\* Every variable keeps its shape, and the depth asked for is respected.
TypeOK ==
  /\ maxDepth \in 0..DepthLimit
  /\ searcher \in BOOLEAN
  /\ pc \in {"idle", "expanding", "waiting", "searching", "returned",
             "aborted"}
  /\ depth \in 0..maxDepth
  /\ owner \in [Levels -> Keys \cup {Root}]
  /\ todo \in [Levels -> SUBSET Keys]
  /\ visited \subseteq Keys
  /\ ctx \in {"live", "done"}
  /\ nodes \subseteq [parent : Keys \cup {Root}, key : Keys, label : Labels,
                      depth : Levels]
  /\ linked \subseteq [parent : Keys \cup {Root}, key : Keys]
  /\ searches \in [Keys -> Nat]
  /\ offered \subseteq Keys

\* A pivot marked as a duplicate has exactly one original in the chain, at
\* whatever level it was met first.
DuplicatesHaveOriginals ==
  \A n \in nodes : n.label = "duplicate" =>
    \E o \in nodes : /\ o.key = n.key /\ o.label # "duplicate"
                     /\ \A q \in nodes :
                          q.key = n.key /\ q.label # "duplicate" => q = o

\* In a chain that is returned, the usernames that were searched are those
\* whose reports are linked, each under the parent the chain shows, and the
\* parent of a linked report is the number or is linked itself.
LinksMatchChain ==
  pc = "returned" =>
    /\ linked = {[parent |-> n.parent, key |-> n.key] :
                   n \in {m \in nodes : m.label \in {"verified", "nothing"}}}
    /\ \A l \in linked : l.parent = Root \/ \E m \in linked : m.key = l.parent

\* The expansion implements the crawl: no pivot is searched twice, and none
\* that a level lists is left out of a chain that is returned.
Crawl == INSTANCE PivotCrawl WITH
  Pivots <- Keys,
  taken <- visited,
  end <- CASE pc = "returned" -> "success"
           [] pc = "aborted" -> "aborted"
           [] OTHER -> ""

ImplementsCrawl == Crawl!CrawlSpec

\* Run returns, whatever the searches find.
Terminates == <>Ended
=============================================================================
