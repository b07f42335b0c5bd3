-------------------------------- MODULE Lookups --------------------------------
(* One run of a lookup module (Module.Run of the packages under modules/): the  *)
(* goroutines it starts, the sources each of them asks in turn, requests that   *)
(* find something, find nothing or fail, a context that ends at any moment, and *)
(* the report put together once every goroutine has returned.                   *)
(* Which sources a module has is the Catalogue, see LookupSources.              *)
EXTENDS Naturals, Sequences, FiniteSets

CONSTANT Catalogue \* the modules: their lanes of sources, skip rule and passive answer

Policies  == {"report", "hush", "pass", "each", "retry"}
SkipRules == {"never", "all skipped", "no key", "or fails"}
Statuses  == {"", "hit", "no results", "skipped", "error"}
Verdicts  == {"", "success", "skipped", "error"}
SearchKeys == {"GOOGLE_CSE_API_KEY", "BING_SEARCH_API_KEY"}

SourceType ==
    [name : STRING, needs : SUBSET STRING, region : STRING, after : SUBSET STRING,
     doubtful : BOOLEAN, unmet : Statuses \ {"hit"}, least : Nat, most : Nat,
     fault : Policies, topics : Seq(STRING), blind : BOOLEAN]

IdsOf(m)       == UNION {{<<l, p>> : p \in DOMAIN m.lanes[l]} : l \in DOMAIN m.lanes}
SrcOf(m, id)   == m.lanes[id[1]][id[2]]
Conditional(s) == s.needs # {} \/ s.region # "any" \/ s.after # {}

(* A skip rule fits the sources of its module: where a module counts as skipped *)
(* because all its sources were, each source has a status of its own; where it  *)
(* is for want of a search key, no source does without one; and a module that   *)
(* fails with its source has that source only.                                  *)
SkipRuleFits(m) ==
    /\ m.skips = "all skipped" => \A i \in IdsOf(m) : SrcOf(m, i).fault \notin {"hush", "each"}
    /\ m.skips = "no key" => \A i \in IdsOf(m) : SrcOf(m, i).needs \cap SearchKeys # {}
    /\ m.skips = "or fails" =>
          /\ \A i, j \in IdsOf(m) : i = j
          /\ \A i \in IdsOf(m) :
                SrcOf(m, i).after = {} /\ SrcOf(m, i).fault \in {"report", "retry"}

\* Sources that share a name, and with it a status, are asked whatever the number and the keys.
NamesFit(m) ==
    \A i, j \in IdsOf(m) :
        (i # j /\ SrcOf(m, i).name = SrcOf(m, j).name) => ~Conditional(SrcOf(m, i))

RequestsFit(s) ==
    /\ 1 <= s.least /\ s.least <= s.most
    /\ s.topics # <<>> => Len(s.topics) = s.most

ASSUME CatalogueAssumption ==
    \A m \in Catalogue :
        /\ m \in [lanes : Seq(Seq(SourceType)), skips : SkipRules, passive : Verdicts]
        /\ \A i \in IdsOf(m) : RequestsFit(SrcOf(m, i))
        /\ NamesFit(m) /\ SkipRuleFits(m)

VARIABLES
    module,   \* the module that runs
    region,   \* the country of the number
    keys,     \* the credentials configured
    passive,  \* whether the passive variant was asked for
    context,  \* the module's context: "live" or "ended"
    at,       \* lane -> the source it is at
    asked,    \* lane -> the requests it has made of that source
    tried,    \* sources a request was made of
    found,    \* sources that answered with a hit
    broken,   \* sources with a failed request
    status,   \* what the report says of a source, and of its topic
    hits,     \* sources whose finds the report holds
    verdict   \* the module's status, "" while it runs

lookupVars ==
    <<module, region, keys, passive, context, at, asked, tried, found, broken, status, hits,
      verdict>>
setup == <<module, region, keys, passive>>

Lanes   == DOMAIN module.lanes
Ids     == IdsOf(module)
Src(id) == SrcOf(module, id)

Unsettled(l) == at[l] \in DOMAIN module.lanes[l]
Settled(id)  == at[id[1]] > id[2]
Here(l)      == <<l, at[l]>>
AllSettled   == \A l \in Lanes : ~Unsettled(l)

\* The status of a source, or of the topic of its k-th request.
Label(s, k) == <<s.name, IF s.topics = <<>> THEN "" ELSE s.topics[k]>>
Labels ==
    {<<Src(i).name, "">> : i \in Ids}
        \cup UNION {{Label(Src(i), k) : k \in DOMAIN Src(i).topics} : i \in Ids}
Say(label, what) == status' = [status EXCEPT ![label] = what]

Eligible(s) == s.needs \subseteq keys /\ s.region \in {"any", region}
Feeders(s)  == {i \in Ids : Src(i).name \in s.after}
AllIn(srcs) == \A i \in srcs : Settled(i)
\* Mutant of Fed: a find is asked about while its source is still at work.
FedByFirstFind(s) == s.after = {} \/ Feeders(s) \cap found # {}

Fed(s) == s.after = {} \/ (AllIn(Feeders(s)) /\ Feeders(s) \cap hits # {})

\* Nothing was found to ask about, or the wait for it was given up.
Unfed(s) ==
    /\ s.after # {}
    /\ \/ context = "ended"
       \/ AllIn(Feeders(s)) /\ (s.doubtful \/ Feeders(s) \cap hits = {})

Asking(l) ==
    /\ Unsettled(l) /\ ~passive
    /\ Eligible(Src(Here(l))) /\ Fed(Src(Here(l)))
    /\ asked[l] < Src(Here(l)).most

Advance(l) == at' = [at EXCEPT ![l] = @ + 1] /\ asked' = [asked EXCEPT ![l] = 0]

--------------------------------------------------------------------------------
RegionsOf(m) ==
    {"any"} \cup UNION {{m.lanes[l][p].region : p \in DOMAIN m.lanes[l]} :
                        l \in DOMAIN m.lanes}
KeysOf(m) ==
    UNION {UNION {m.lanes[l][p].needs : p \in DOMAIN m.lanes[l]} :
           l \in DOMAIN m.lanes}

LookupInit ==
    /\ module \in Catalogue
    /\ region \in RegionsOf(module)
    /\ keys \in SUBSET KeysOf(module)
    /\ passive \in (IF module.passive = "" THEN {FALSE} ELSE BOOLEAN)
    /\ context = "live"
    /\ at = [l \in Lanes |-> 1]
    /\ asked = [l \in Lanes |-> 0]
    /\ tried = {} /\ found = {} /\ broken = {} /\ hits = {}
    /\ status = [label \in Labels |-> ""]
    /\ verdict = ""

(* A source with a key missing, for another country, or with nothing to ask     *)
(* about is left out, and its status says so or says nothing.                   *)
PassBy(l) ==
    /\ Unsettled(l) /\ ~passive /\ asked[l] = 0
    /\ LET s == Src(Here(l))
       IN  /\ ~Eligible(s) \/ Unfed(s)
           /\ IF s.unmet = "" THEN UNCHANGED status ELSE Say(<<s.name, "">>, s.unmet)
    /\ Advance(l)
    /\ UNCHANGED <<setup, context, tried, found, broken, hits, verdict>>

\* A request is answered, with a hit or with nothing.
Answered(l, hit) ==
    /\ Asking(l) /\ context = "live"
    /\ LET s == Src(Here(l))
       IN  /\ hit => ~s.blind
           /\ found' = IF hit THEN found \cup {Here(l)} ELSE found
           /\ IF s.fault = "each"
              THEN Say(Label(s, asked[l] + 1), IF hit THEN "hit" ELSE "no results")
              ELSE UNCHANGED status
           /\ asked' = [asked EXCEPT ![l] = IF s.fault = "retry" THEN s.most ELSE @ + 1]
    /\ tried' = tried \cup {Here(l)}
    /\ UNCHANGED <<setup, context, at, broken, hits, verdict>>

\* Mutant of FailedForGood: a failed request reads as an answer with nothing in it.
FailedIsClean(l) ==
    /\ Asking(l)
    /\ Src(Here(l)).fault \in {"report", "hush", "retry"}
    /\ Say(Label(Src(Here(l)), 1), "no results")
    /\ Advance(l)
    /\ tried' = tried \cup {Here(l)}
    /\ broken' = broken \cup {Here(l)}
    /\ UNCHANGED <<setup, context, found, hits, verdict>>

\* A request fails, or the context ended before it: the source is left with an error.
FailedForGood(l) ==
    /\ Asking(l)
    /\ LET s == Src(Here(l))
       IN  /\ s.fault \in {"report", "hush", "retry"}
           /\ IF s.fault = "hush" THEN UNCHANGED status ELSE Say(Label(s, 1), "error")
    /\ Advance(l)
    /\ tried' = tried \cup {Here(l)}
    /\ broken' = broken \cup {Here(l)}
    /\ UNCHANGED <<setup, context, found, hits, verdict>>

\* A request fails and the source goes on with its next one.
FailedOnce(l) ==
    /\ Asking(l)
    /\ LET s == Src(Here(l))
       IN  /\ s.fault \in {"pass", "each"}
           /\ IF s.fault = "each" THEN Say(Label(s, asked[l] + 1), "error") ELSE UNCHANGED status
    /\ asked' = [asked EXCEPT ![l] = @ + 1]
    /\ tried' = tried \cup {Here(l)}
    /\ broken' = broken \cup {Here(l)}
    /\ UNCHANGED <<setup, context, at, found, hits, verdict>>

\* The first request is told to wait; it is made once more.
Flooded(l) ==
    /\ Asking(l) /\ context = "live"
    /\ Src(Here(l)).fault = "retry" /\ asked[l] = 0
    /\ asked' = [asked EXCEPT ![l] = 1]
    /\ tried' = tried \cup {Here(l)}
    /\ UNCHANGED <<setup, context, at, found, broken, status, hits, verdict>>

SayWhetherFound(l) ==
    LET s == Src(Here(l))
    IN  IF s.fault = "each" THEN UNCHANGED status
        ELSE Say(Label(s, 1), IF Here(l) \in found THEN "hit" ELSE "no results")

\* Every request the source had to make is made.
Through(l) ==
    /\ Unsettled(l) /\ ~passive
    /\ LET s == Src(Here(l))
       IN  asked[l] >= (IF s.fault = "retry" THEN s.most ELSE s.least)

\* Mutants of Finish: the finds are dropped once the context has ended; the channel
\* has no slot, so the sender meets the receiver or waits.
FinishUnlessEnded(l) ==
    /\ Through(l)
    /\ hits' = IF Here(l) \in found /\ context = "live" THEN hits \cup {Here(l)} ELSE hits
    /\ SayWhetherFound(l)
    /\ Advance(l)
    /\ UNCHANGED <<setup, context, tried, found, broken, verdict>>

FinishUnbuffered(l) ==
    /\ Through(l)
    /\ \A i \in Ids : Src(Here(l)).name \in Src(i).after => ~Settled(i)
    /\ hits' = IF Here(l) \in found THEN hits \cup {Here(l)} ELSE hits
    /\ SayWhetherFound(l)
    /\ Advance(l)
    /\ UNCHANGED <<setup, context, tried, found, broken, verdict>>

(* The source has made its requests: what it found goes into the report, and    *)
(* what a source of another lane waits for into a channel that has room for it. *)
Finish(l) ==
    /\ Through(l)
    /\ hits' = IF Here(l) \in found THEN hits \cup {Here(l)} ELSE hits
    /\ SayWhetherFound(l)
    /\ Advance(l)
    /\ UNCHANGED <<setup, context, tried, found, broken, verdict>>

EndContext ==
    /\ context = "live" /\ verdict = ""
    /\ context' = "ended"
    /\ UNCHANGED <<setup, at, asked, tried, found, broken, status, hits, verdict>>

(* The passive variant makes no request; all but the offline one look at the    *)
(* context first.                                                               *)
RunPassive ==
    /\ passive /\ verdict = ""
    /\ verdict' = IF context = "live" \/ module.passive = "success"
                  THEN module.passive ELSE "error"
    /\ UNCHANGED <<setup, context, at, asked, tried, found, broken, status, hits>>

AllSkipped ==
    LET said == {status[label] : label \in Labels} \ {""}
    IN  said = {"skipped"} /\ hits = {}

Verdict ==
    CASE module.skips = "all skipped" /\ AllSkipped -> "skipped"
      [] module.skips = "no key" /\ hits = {}
            /\ keys \cap SearchKeys = {} -> "skipped"
      [] module.skips = "or fails"
            /\ \E label \in Labels : status[label] = "error" -> "error"
      [] OTHER -> "success"

\* Mutant of Report: it waits for the first goroutine only.
ReportEarly ==
    /\ ~Unsettled(1) /\ ~passive /\ verdict = ""
    /\ verdict' = Verdict
    /\ UNCHANGED <<setup, context, at, asked, tried, found, broken, status, hits>>

\* Every goroutine has returned: the module's result.
Report ==
    /\ AllSettled /\ ~passive /\ verdict = ""
    /\ verdict' = Verdict
    /\ UNCHANGED <<setup, context, at, asked, tried, found, broken, status, hits>>

Step(l) ==
    \/ PassBy(l)
    \/ \E hit \in BOOLEAN : Answered(l, hit)
    \/ FailedForGood(l)
    \/ FailedOnce(l)
    \/ Flooded(l)
    \/ Finish(l)

LookupNext == (\E l \in Lanes : Step(l)) \/ EndContext \/ RunPassive \/ Report

(* Every goroutine is scheduled, and each request ends by its own timeout.      *)
LookupFairness ==
    /\ WF_lookupVars(\E l \in Lanes : Step(l))
    /\ WF_lookupVars(RunPassive \/ Report)

LookupSpec == LookupInit /\ [][LookupNext]_lookupVars /\ LookupFairness

--------------------------------------------------------------------------------
LookupTypeOK ==
    /\ module \in Catalogue
    /\ region \in RegionsOf(module)
    /\ keys \subseteq KeysOf(module)
    /\ passive \in BOOLEAN
    /\ context \in {"live", "ended"}
    /\ at \in [Lanes -> Nat] /\ asked \in [Lanes -> Nat]
    /\ tried \subseteq Ids /\ found \subseteq tried /\ broken \subseteq tried
    /\ hits \subseteq found
    /\ status \in [Labels -> Statuses]
    /\ verdict \in Verdicts

Reported == verdict # "" /\ ~passive
Recovers(s) == s.fault \in {"pass", "each"}

(* What a source found is in the report, whatever became of the others: only a  *)
(* failed request of its own can take it away (a goroutine's results are not    *)
(* lost to another's failure, nor to the end of the context).                   *)
HitsSurvive ==
    Reported => hits = {i \in found : i \in broken => Recovers(Src(i))}

(* What the report says of a source happened to it: a hit was found, an error   *)
(* was met, "no results" comes from a source that was asked without a failure   *)
(* unless failures count as nothing found or it is not asked in that country,   *)
(* and a skipped source received no request (SourceStatuses of the packages).   *)
(* The module as a whole says it was skipped only if it asked nobody, and the   *)
(* ones with one source fail exactly when it failed or has no credentials.      *)
StatusesEarned ==
    \A label \in Labels :
        LET named == {i \in Ids : Src(i).name = label[1]}
        IN  /\ status[label] = "hit" => named \cap found # {}
            /\ status[label] = "error" => \E i \in named : i \in broken \/ Src(i).unmet = "error"
            /\ status[label] = "no results" =>
                  \E i \in named :
                      \/ i \in tried /\ (i \in broken => Recovers(Src(i)))
                      \/ i \notin tried /\ Src(i).unmet = "no results"
            /\ status[label] = "skipped" => named \cap tried = {}

VerdictEarned ==
    Reported =>
        /\ verdict = "skipped" => tried = {}
        /\ verdict = "error" => broken # {} \/ \E i \in Ids : ~Eligible(Src(i))
        /\ (module.skips = "or fails" /\ broken # {}) => verdict = "error"

ReportIsEarned == StatusesEarned /\ VerdictEarned

(* A source that asks about what others found is asked after all of them are    *)
(* done and one has found something (registrants of the certificates' domains,  *)
(* officers of the companies on record).                                        *)
FeedersFirst ==
    \A i \in tried :
        Src(i).after # {} => AllIn(Feeders(Src(i))) /\ Feeders(Src(i)) \cap hits # {}

(* Once the result is returned no goroutine of the run is still at work on it:  *)
(* nothing the report is made of changes, whatever order the lanes ended in.    *)
FrozenOnceReported == [][verdict # "" => UNCHANGED <<at, asked, tried, status, hits>>]_lookupVars

(* A run returns: no goroutine waits for ever on another one, also when the     *)
(* context ends between the send and the receive of the discovered domains.     *)
Returns == <>(verdict # "")
================================================================================
