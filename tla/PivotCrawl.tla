----------------------------- MODULE PivotCrawl -----------------------------
(***************************************************************************)
(* What AutoPivotEngine.Run promises about the pivots of a case, without   *)
(* its recursion: pivots are offered by reports, each is taken up once,    *)
(* only what was taken up is searched and never twice, searches offer      *)
(* more, and a run only succeeds when everything offered was taken up.     *)
(***************************************************************************)
EXTENDS Naturals

CONSTANT Pivots

VARIABLES
  offered,  \* pivots of the reports expanded so far
  taken,    \* pivots taken up
  searches, \* searches made, per pivot
  end       \* "" while running, then "success" or "aborted"

crawlVars == <<offered, taken, searches, end>>

CrawlInit ==
  /\ offered = {}
  /\ taken = {}
  /\ searches = [k \in Pivots |-> 0]
  /\ end = ""

Offer(more) ==
  /\ offered' = offered \cup more
  /\ UNCHANGED <<taken, searches, end>>

Take(k) ==
  /\ k \in offered \ taken
  /\ taken' = taken \cup {k}
  /\ UNCHANGED <<offered, searches, end>>

Search(k) ==
  /\ k \in taken
  /\ searches[k] = 0
  /\ searches' = [searches EXCEPT ![k] = 1]
  /\ UNCHANGED <<offered, taken, end>>

Succeed ==
  /\ offered \subseteq taken
  /\ end' = "success"
  /\ UNCHANGED <<offered, taken, searches>>

Abort ==
  /\ end' = "aborted"
  /\ UNCHANGED <<offered, taken, searches>>

CrawlNext ==
  /\ end = ""
  /\ \/ \E more \in SUBSET Pivots : Offer(more)
     \/ \E k \in Pivots : Take(k) \/ Search(k)
     \/ Succeed
     \/ Abort

CrawlSpec == CrawlInit /\ [][CrawlNext]_crawlVars
=============================================================================
