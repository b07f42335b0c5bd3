---------------------------- MODULE EngineProofs ----------------------------
(***************************************************************************)
(* Proofs about Engine for any number of modules, any tiers and any        *)
(* command line: its type invariant, its safety invariants, the barrier    *)
(* before the second pass, and that it implements ReportContract.          *)
(***************************************************************************)
EXTENDS Engine, TLAPS, WellFoundedInduction

Active == {"dryrun", "run", "passive"}

\* Where a module's goroutine is tells what has been called and recorded.
SlotInv ==
  \A m \in Modules :
    /\ pc[m] = "spawned" => calls[m] = {}
    /\ pc[m] \in {"spawned"} \cup Active =>
         /\ stage = "waiting"
         /\ results[m] = NoResult
    /\ pc[m] \in {"finished", "post"} => results[m].status \in Statuses
    /\ Gated(m) => /\ calls[m] = {}
                   /\ pc[m] \in {"spawned", "finished"}
                   /\ pc[m] = "finished" => results[m].status = "gated"

\* The second pass visits the modules in order, after everything else.
SecondPassInv ==
  /\ stage = "waiting" => /\ groupCtx = "live"
                          /\ cursor = 1
  /\ \A m \in Modules :
       /\ pc[m] = "post" =>
            /\ stage = "second"
            /\ m = cursor
            /\ m \in PostMessenger
            /\ results[m].status # "gated"
            /\ "RunPostMessenger" \in calls[m]
       /\ "RunPostMessenger" \in calls[m] =>
            /\ m \in PostMessenger
            /\ stage # "waiting"
            /\ m < cursor \/ pc[m] = "post"
       /\ m < cursor /\ m \in PostMessenger =>
            results[m].status = "gated" \/ "RunPostMessenger" \in calls[m]
  /\ stage = "published" => cursor = N + 1

\* Only a second-pass result carries an image, and only with a photo to
\* search for.
ImageInv ==
  stage = "waiting" => \A m \in Modules : results[m].image = "none"

IInv ==
  /\ TypeOK
  /\ SlotInv
  /\ SecondPassInv
  /\ ImageInv
  /\ PassiveModeRespected
  /\ TagsMerged
  /\ ReportConsistent

-----------------------------------------------------------------------------
(* What the helpers return.                                                *)

\* Every result a module can return is well formed, and none of the first
\* pass carries an image; a second-pass result needs a photo for that.
LEMMA ModuleResults ==
  ASSUME NEW m \in Modules
  PROVE  /\ RunResults(m) \subseteq Result
         /\ PassiveResults \subseteq Result
         /\ \A r \in RunResults(m) \cup PassiveResults :
              /\ r.image = "none"
              /\ r.status \in Statuses
         /\ GatedResult \in Result /\ SkippedResult \in Result
         /\ ErroredResult \in Result
         /\ PostResults(m) \subseteq Result
         /\ \A r \in PostResults(m) : r.status # "gated"
  BY DEF RunResults, PassiveResults, GatedResult, SkippedResult,
         ErroredResult, PostResults, Bare, Result, Statuses

\* The merge only touches the tags and the caller type of the spam result.
LEMMA MergeKeeps ==
  ASSUME NEW res \in [Modules -> Result]
  PROVE  /\ MergeTruecallerSpam(res) \in [Modules -> Result]
         /\ \A m \in Modules :
              /\ MergeTruecallerSpam(res)[m].status = res[m].status
              /\ MergeTruecallerSpam(res)[m].account = res[m].account
              /\ MergeTruecallerSpam(res)[m].image = res[m].image
              /\ m \notin Spam => MergeTruecallerSpam(res)[m] = res[m]
<1> DEFINE found == {res[t].tags : t \in Truecaller} \ {"none"}
           tag == CHOOSE x \in found : TRUE
<1>1. CASE found = {}
  BY <1>1 DEF MergeTruecallerSpam
<1>2. CASE found # {}
  <2>1. tag \in {"label", "spam"}
    BY <1>2, EngineAssumption DEF Result
  <2>2. MergeTruecallerSpam(res) =
          [m \in Modules |->
             IF m \in Spam
               THEN [res[m] EXCEPT !.tags = tag,
                       !.caller = IF tag = "spam"
                                       /\ res[m].caller \in {"none", "unknown"}
                                    THEN "spam" ELSE @]
               ELSE res[m]]
    BY <1>2 DEF MergeTruecallerSpam
  <2> HIDE DEF tag
  <2>3. ASSUME NEW m \in Modules
        PROVE  /\ MergeTruecallerSpam(res)[m] \in Result
               /\ MergeTruecallerSpam(res)[m].status = res[m].status
               /\ MergeTruecallerSpam(res)[m].account = res[m].account
               /\ MergeTruecallerSpam(res)[m].image = res[m].image
               /\ m \notin Spam => MergeTruecallerSpam(res)[m] = res[m]
    <3>1. CASE m \in Spam
      <4> DEFINE c == IF tag = "spam" /\ res[m].caller \in {"none", "unknown"}
                       THEN "spam" ELSE res[m].caller
      <4>1. MergeTruecallerSpam(res)[m] =
              [res[m] EXCEPT !.tags = tag, !.caller = c]
        BY <2>2, <3>1
      <4>2. res[m] \in Result /\ c \in {"none", "unknown", "reported", "spam"}
        BY DEF Result
      <4> HIDE DEF c
      <4> QED
        BY <2>1, <3>1, <4>1, <4>2 DEF Result
    <3>2. CASE m \notin Spam
      BY <2>2, <3>2
    <3> QED
      BY <3>1, <3>2
  <2> QED
    BY <2>2, <2>3
<1> QED
  BY <1>1, <1>2

\* After the merge the spam result carries the tags of the only Truecaller
\* result, and no empty caller type stands beside a spam tag.
LEMMA MergeTags ==
  ASSUME NEW res \in [Modules -> Result],
         NEW t \in Truecaller, NEW s \in Spam,
         MergeTruecallerSpam(res)[t].tags # "none"
  PROVE  /\ MergeTruecallerSpam(res)[s].tags = MergeTruecallerSpam(res)[t].tags
         /\ MergeTruecallerSpam(res)[t].tags = "spam" =>
              MergeTruecallerSpam(res)[s].caller \notin {"none", "unknown"}
<1> DEFINE found == {res[u].tags : u \in Truecaller} \ {"none"}
           tag == CHOOSE x \in found : TRUE
<1>1. t \in Modules /\ s \in Modules /\ t \notin Spam
  BY EngineAssumption
<1>2. MergeTruecallerSpam(res)[t] = res[t]
  BY <1>1, MergeKeeps
<1>3. found = {res[t].tags}
  BY <1>2, EngineAssumption
<1>4. tag = res[t].tags
  BY <1>3
<1>5. MergeTruecallerSpam(res)[s] =
        [res[s] EXCEPT !.tags = tag,
           !.caller = IF tag = "spam" /\ res[s].caller \in {"none", "unknown"}
                        THEN "spam" ELSE @]
  BY <1>1, <1>3 DEF MergeTruecallerSpam
<1> HIDE DEF tag
<1> QED
  BY <1>1, <1>2, <1>4, <1>5 DEF Result

\* A nonempty set of naturals has a least element.
LEMMA Least ==
  ASSUME NEW S, S \subseteq Nat, S # {}
  PROVE  \E x \in S : \A y \in S : x <= y
<1> DEFINE R == {ss \in Nat \X Nat : ss[1] < ss[2]}
<1>1. IsWellFoundedOn(R, Nat)
  BY NatLessThanWellFounded DEF OpToRel
<1>2. PICK x \in S : \A y \in S : ~ (<<y, x>> \in R)
  <2> HIDE DEF R
  <2> QED
    BY <1>1, WFMin
<1>3. ASSUME NEW y \in S PROVE x <= y
  <2>1. x \in Nat /\ y \in Nat
    OBVIOUS
  <2>2. y < x => <<y, x>> \in R
    BY <2>1
  <2> QED
    BY <1>2, <2>1, <2>2
<1> QED
  BY <1>3

\* extractImageIntelResult returns the image of some result, or none.
LEMMA ImageIntelType ==
  ASSUME NEW res, \A m \in Modules : res[m].image \in {"none", "offline", "searched"}
  PROVE  ImageIntel(res) \in {"none", "offline", "searched"}
<1> DEFINE found == {m \in Modules : res[m].image # "none"}
           first == CHOOSE m \in found : \A k \in found : m <= k
<1>1. CASE found = {}
  BY <1>1 DEF ImageIntel
<1>2. CASE found # {}
  <2>1. found \subseteq Nat
    BY DEF Modules
  <2>2. \E m \in found : \A k \in found : m <= k
    <3> HIDE DEF found
    <3> QED
      BY <1>2, <2>1, Least
  <2>3. first \in Modules
    BY <2>2
  <2> QED
    BY <1>2, <2>3 DEF ImageIntel
<1> QED
  BY <1>1, <1>2

-----------------------------------------------------------------------------
(* The inductive invariant.                                                *)

LEMMA InitInv == Init => IInv
<1> SUFFICES ASSUME Init PROVE IInv
  OBVIOUS
<1>1. TypeOK
  BY EngineAssumption DEF Init, TypeOK, Option, NoResult, Bare, Methods
<1>2. SlotInv
  BY DEF Init, SlotInv, Active, Gated, Explicit
<1>3. SecondPassInv
  BY EngineAssumption DEF Init, SecondPassInv, Modules
<1>4. ImageInv /\ PassiveModeRespected /\ TagsMerged /\ ReportConsistent
  BY EngineAssumption
  DEF Init, ImageInv, PassiveModeRespected, TagsMerged, ReportConsistent,
      NoResult, Bare
<1> QED
  BY <1>1, <1>2, <1>3, <1>4 DEF IInv

\* What a step of module m's own goroutine leaves alone.
LEMMA ModuleFrame ==
  ASSUME NEW m \in Modules, ModuleStep(m), TypeOK
  PROVE  /\ UNCHANGED <<opts, stage, groupCtx, report, cursor>>
         /\ pc[m] \in {"spawned"} \cup Active \cup {"post"}
         /\ \A k \in Modules \ {m} :
              /\ pc'[k] = pc[k]
              /\ results'[k] = results[k]
              /\ calls'[k] = calls[k]
  BY DEF ModuleStep, Gate, StartDryRun, DryRunFails, EnterModule, RunReturns,
         RunPassiveReturns, ModuleFails, Timeout, Record, Finish, Call,
         TypeOK, Active

\* The outcome of a step of module m's own goroutine: its timeout elapses, or
\* it goes on under its tier's gate, or it finishes with a result.
LEMMA ModuleOutcome ==
  ASSUME NEW m \in Modules, ModuleStep(m), TypeOK
  PROVE  \/ Timeout(m)
         \/ /\ results'[m] = results[m]
            /\ \/ /\ pc[m] = "spawned" /\ ~Gated(m)
                  /\ pc'[m] = "dryrun"
                  /\ calls'[m] = calls[m] \cup {"DryRun"}
               \/ /\ pc[m] = "dryrun"
                  /\ pc'[m] \in {"run", "passive"}
                  /\ \/ /\ calls'[m] = calls[m] \cup {"Run"}
                        /\ ~(opts.passive /\ m \in PassiveCapable)
                     \/ calls'[m] = calls[m] \cup {"RunPassive"}
         \/ /\ pc[m] \in {"spawned"} \cup Active
            /\ pc'[m] = "finished"
            /\ calls'[m] = calls[m]
            /\ results'[m] \in Result
            /\ results'[m].image = "none"
            /\ results'[m].status \in Statuses
            /\ pc[m] = "spawned" => Gated(m) /\ results'[m].status = "gated"
<1> USE ModuleResults DEF TypeOK, Active, Finish, Record, Call, Methods
<1>1. CASE Gate(m)
  BY <1>1 DEF Gate, GatedResult, Bare, Statuses
<1>2. CASE StartDryRun(m)
  BY <1>2 DEF StartDryRun
<1>3. CASE DryRunFails(m)
  BY <1>3 DEF DryRunFails, SkippedResult, Bare, Statuses
<1>4. CASE EnterModule(m)
  BY <1>4 DEF EnterModule
<1>5. CASE RunReturns(m)
  BY <1>5 DEF RunReturns
<1>6. CASE RunPassiveReturns(m)
  BY <1>6 DEF RunPassiveReturns
<1>7. CASE ModuleFails(m)
  BY <1>7 DEF ModuleFails, ErroredResult, Bare, Statuses
<1>8. CASE Timeout(m)
  BY <1>8
<1> QED
  BY <1>1, <1>2, <1>3, <1>4, <1>5, <1>6, <1>7, <1>8 DEF ModuleStep

\* At the barrier every slot holds a module's result.
LEMMA AllRecorded ==
  ASSUME TypeOK, SlotInv, Finished
  PROVE  results \in [Modules -> Result]
<1> NoResult.status \notin Statuses
  BY DEF NoResult, Bare, Statuses
<1> QED
  BY DEF TypeOK, SlotInv, Finished

LEMMA TypeStep == TypeOK /\ SlotInv /\ [Next]_vars => TypeOK'
<1> SUFFICES ASSUME TypeOK, SlotInv, [Next]_vars PROVE TypeOK'
  OBVIOUS
<1> USE EngineAssumption
<1>1. ASSUME NEW m \in Modules, ModuleStep(m) PROVE TypeOK'
  <2> USE ModuleResults DEF TypeOK, Finish, Record, Call, Methods
  <2>1. CASE Gate(m)
    BY <2>1 DEF Gate
  <2>2. CASE StartDryRun(m)
    BY <2>2 DEF StartDryRun
  <2>3. CASE DryRunFails(m)
    BY <2>3 DEF DryRunFails
  <2>4. CASE EnterModule(m)
    BY <2>4 DEF EnterModule
  <2>5. CASE RunReturns(m)
    BY <2>5 DEF RunReturns
  <2>6. CASE RunPassiveReturns(m)
    BY <2>6 DEF RunPassiveReturns
  <2>7. CASE ModuleFails(m)
    BY <2>7 DEF ModuleFails
  <2>8. CASE Timeout(m)
    BY <2>8 DEF Timeout
  <2> QED
    BY <1>1, <2>1, <2>2, <2>3, <2>4, <2>5, <2>6, <2>7, <2>8 DEF ModuleStep
<1>2. CASE PassOver
  BY <1>2 DEF PassOver, TypeOK
<1>3. CASE StartPostMessenger
  BY <1>3 DEF StartPostMessenger, TypeOK, Call, Methods, Modules
<1>4. CASE PostMessengerReturns
  <2>1. cursor \in Modules
    BY <1>4 DEF PostMessengerReturns, TypeOK, Modules
  <2>2. PostResults(cursor) \cup {ErroredResult} \subseteq Result
    BY <2>1, ModuleResults
  <2> QED
    BY <1>4, <2>1, <2>2 DEF PostMessengerReturns, TypeOK, Record, Finish
<1>5. CASE Publish
  <2>1. ImageIntel(results) \in {"none", "offline", "searched"}
    BY ImageIntelType DEF TypeOK, Result, NoResult, Bare
  <2> QED
    BY <1>5, <2>1 DEF Publish, TypeOK
<1>6. CASE UNCHANGED vars
  BY <1>6 DEF TypeOK, vars
<1>7. CASE Assemble
  <2>1. results \in [Modules -> Result]
    BY <1>7, AllRecorded DEF Assemble
  <2>2. results' \in [Modules -> Result]
    BY <1>7, <2>1, MergeKeeps DEF Assemble
  <2> QED
    BY <1>7, <2>2 DEF Assemble, TypeOK, MessengerReport
<1> QED
  BY <1>1, <1>2, <1>3, <1>4, <1>5, <1>6, <1>7
  DEF Next, EngineStep, Returned

LEMMA SlotStep == TypeOK /\ SlotInv /\ SecondPassInv /\ [Next]_vars => SlotInv'
<1> SUFFICES ASSUME TypeOK, SlotInv, SecondPassInv, [Next]_vars PROVE SlotInv'
  OBVIOUS
<1> USE EngineAssumption
<1>0. ASSUME UNCHANGED opts PROVE \A m \in Modules : Gated(m)' = Gated(m)
  BY <1>0 DEF Gated, Explicit
<1>1. ASSUME NEW m \in Modules, ModuleStep(m) PROVE SlotInv'
  <2>1. UNCHANGED <<opts, stage>>
    BY <1>1, ModuleFrame
  <2>2. ASSUME NEW k \in Modules \ {m}
        PROVE  pc'[k] = pc[k] /\ results'[k] = results[k] /\ calls'[k] = calls[k]
    BY <1>1, ModuleFrame
  <2>3. CASE Timeout(m)
    BY <1>0, <2>1, <2>3 DEF Timeout, SlotInv
  <2>4. CASE ~Timeout(m)
    BY <1>0, <1>1, <2>1, <2>2, <2>4, ModuleOutcome DEF SlotInv, Active
  <2> QED
    BY <2>3, <2>4
<1>2. CASE Assemble
  <2>1. results \in [Modules -> Result]
    BY <1>2, AllRecorded DEF Assemble
  <2>2. \A m \in Modules : results'[m].status = results[m].status
    BY <1>2, <2>1, MergeKeeps DEF Assemble
  <2>3. \A m \in Modules : pc'[m] = "finished" /\ pc[m] = "finished"
    BY <1>2 DEF Assemble, Finished
  <2> QED
    BY <1>0, <1>2, <2>2, <2>3 DEF Assemble, SlotInv, Active
<1>3. CASE PassOver
  BY <1>0, <1>3 DEF PassOver, SlotInv
<1>4. CASE StartPostMessenger
  BY <1>0, <1>4 DEF StartPostMessenger, SlotInv, TypeOK, Call, Active, Modules
<1>5. CASE PostMessengerReturns
  <2>1. cursor \in Modules /\ ~Gated(cursor)
    BY <1>5 DEF PostMessengerReturns, TypeOK, Modules, SlotInv
  <2>2. results'[cursor].status \in Statuses
    BY <1>5, <2>1, ModuleResults DEF PostMessengerReturns, Record, TypeOK, Result
  <2> QED
    BY <1>0, <1>5, <2>1, <2>2
    DEF PostMessengerReturns, SlotInv, TypeOK, Record, Finish, Active
<1>6. CASE Publish
  BY <1>0, <1>6 DEF Publish, SlotInv, Active
<1>7. CASE UNCHANGED vars
  BY <1>0, <1>7 DEF SlotInv, vars
<1> QED
  BY <1>1, <1>2, <1>3, <1>4, <1>5, <1>6, <1>7 DEF Next, EngineStep, Returned

LEMMA SecondPassStep ==
  TypeOK /\ SlotInv /\ SecondPassInv /\ [Next]_vars => SecondPassInv'
<1> SUFFICES ASSUME TypeOK, SlotInv, SecondPassInv, [Next]_vars
             PROVE  SecondPassInv'
  OBVIOUS
<1> USE EngineAssumption
<1>1. ASSUME NEW m \in Modules, ModuleStep(m) PROVE SecondPassInv'
  <2>1. UNCHANGED <<stage, groupCtx, cursor>>
    BY <1>1, ModuleFrame
  <2>2. ASSUME NEW k \in Modules \ {m}
        PROVE  pc'[k] = pc[k] /\ results'[k] = results[k] /\ calls'[k] = calls[k]
    BY <1>1, ModuleFrame
  <2>3. CASE Timeout(m)
    BY <2>1, <2>3 DEF Timeout, SecondPassInv
  <2>4. CASE ~Timeout(m)
    <3>1. stage = "waiting" /\ cursor = 1
      BY <1>1, <2>4, ModuleOutcome DEF SlotInv, SecondPassInv, Active
    <3>2. pc'[m] # "post" /\ "RunPostMessenger" \notin calls'[m]
      BY <1>1, <2>4, <3>1, ModuleOutcome DEF SecondPassInv
    <3> QED
      BY <2>1, <2>2, <3>1, <3>2 DEF SecondPassInv, Modules
  <2> QED
    BY <2>3, <2>4
<1>2. CASE Assemble
  BY <1>2 DEF Assemble, Finished, SecondPassInv, Modules
<1>3. CASE PassOver
  BY <1>3 DEF PassOver, SecondPassInv, TypeOK, Modules
<1>4. CASE StartPostMessenger
  BY <1>4 DEF StartPostMessenger, SecondPassInv, TypeOK, Call, Modules
<1>5. CASE PostMessengerReturns
  BY <1>5
  DEF PostMessengerReturns, SecondPassInv, TypeOK, Record, Finish, Modules
<1>6. CASE Publish
  BY <1>6 DEF Publish, SecondPassInv, TypeOK, Modules
<1>7. CASE UNCHANGED vars
  BY <1>7 DEF SecondPassInv, vars
<1> QED
  BY <1>1, <1>2, <1>3, <1>4, <1>5, <1>6, <1>7 DEF Next, EngineStep, Returned

LEMMA PassiveStep ==
  TypeOK /\ PassiveModeRespected /\ [Next]_vars => PassiveModeRespected'
<1> SUFFICES ASSUME TypeOK, PassiveModeRespected, [Next]_vars, opts'.passive,
                    NEW k \in PassiveCapable
             PROVE  "Run" \notin calls'[k]
  BY DEF PassiveModeRespected
<1>0. k \in Modules
  BY EngineAssumption
<1>1. ASSUME NEW m \in Modules, ModuleStep(m) PROVE "Run" \notin calls'[k]
  <2>1. UNCHANGED opts
    BY <1>1, ModuleFrame
  <2>2. CASE k # m
    BY <1>0, <1>1, <2>1, <2>2, ModuleFrame DEF PassiveModeRespected
  <2>3. CASE k = m /\ Timeout(m)
    BY <2>1, <2>3 DEF Timeout, PassiveModeRespected
  <2>4. CASE k = m /\ ~Timeout(m)
    BY <1>1, <2>1, <2>4, ModuleOutcome DEF PassiveModeRespected
  <2> QED
    BY <2>2, <2>3, <2>4
<1>2. CASE EngineStep
  BY <1>0, <1>2
  DEF EngineStep, Assemble, PassOver, StartPostMessenger, PostMessengerReturns,
      Publish, Call, TypeOK, PassiveModeRespected
<1>3. CASE UNCHANGED vars
  BY <1>3 DEF PassiveModeRespected, vars
<1> QED
  BY <1>1, <1>2, <1>3 DEF Next, Returned

\* Before the barrier no result carries an image, at it none appears.
LEMMA ImageStep ==
  TypeOK /\ SlotInv /\ SecondPassInv /\ ImageInv /\ [Next]_vars => ImageInv'
<1> SUFFICES ASSUME TypeOK, SlotInv, SecondPassInv, ImageInv, [Next]_vars,
                    stage' = "waiting", NEW k \in Modules
             PROVE  results'[k].image = "none"
  BY DEF ImageInv
<1>1. ASSUME NEW m \in Modules, ModuleStep(m) PROVE results'[k].image = "none"
  <2>1. stage = "waiting" /\ results[k].image = "none"
    BY <1>1, ModuleFrame DEF ImageInv
  <2>2. CASE k # m
    BY <1>1, <2>1, <2>2, ModuleFrame
  <2>3. CASE k = m /\ Timeout(m)
    BY <2>1, <2>3 DEF Timeout
  <2>4. CASE k = m /\ ~Timeout(m)
    BY <1>1, <2>1, <2>4, ModuleOutcome
  <2> QED
    BY <2>2, <2>3, <2>4
<1>2. ~EngineStep
  BY DEF EngineStep, Assemble, PassOver, StartPostMessenger,
         PostMessengerReturns, Publish
<1>3. CASE UNCHANGED vars
  BY <1>3 DEF ImageInv, vars
<1> QED
  BY <1>1, <1>2, <1>3 DEF Next, Returned

\* Once modules are in, only PostMessengerReturns changes a slot, and that is
\* neither the Truecaller, nor the spam, nor a messenger slot.
LEMMA LateSlots ==
  ASSUME TypeOK, SlotInv, SecondPassInv, [Next]_vars, stage # "waiting"
  PROVE  /\ stage' # "waiting"
         /\ UNCHANGED opts
         /\ report'.messenger = report.messenger
         /\ \A k \in Messenger \cup Truecaller \cup Spam :
              results'[k] = results[k]
<1> USE EngineAssumption
<1>1. ASSUME NEW m \in Modules, ModuleStep(m)
      PROVE  /\ UNCHANGED <<opts, stage, report>>
             /\ \A k \in Modules : results'[k] = results[k]
  <2>1. Timeout(m)
    BY <1>1, ModuleOutcome DEF SlotInv, Active
  <2> QED
    BY <2>1 DEF Timeout
<1>2. ~Assemble
  BY DEF Assemble
<1>3. CASE PassOver
  BY <1>3 DEF PassOver
<1>4. CASE StartPostMessenger
  BY <1>4 DEF StartPostMessenger
<1>5. CASE PostMessengerReturns
  <2>1. cursor \in PostMessenger /\ cursor \in Modules
    BY <1>5 DEF PostMessengerReturns, SecondPassInv, TypeOK, Modules
  <2> QED
    BY <1>5, <2>1 DEF PostMessengerReturns, Record, TypeOK
<1>6. CASE Publish
  BY <1>6 DEF Publish, TypeOK
<1>7. CASE UNCHANGED vars
  BY <1>7 DEF vars
<1> QED
  BY <1>1, <1>2, <1>3, <1>4, <1>5, <1>6, <1>7 DEF Next, EngineStep, Returned

\* The only step that ends the first pass is Assemble.
LEMMA EarlyStage ==
  ASSUME TypeOK, [Next]_vars, stage = "waiting", stage' # "waiting"
  PROVE  Assemble
<1>1. ASSUME NEW m \in Modules, ModuleStep(m) PROVE FALSE
  BY <1>1, ModuleFrame
<1> QED
  BY <1>1
  DEF Next, EngineStep, PassOver, StartPostMessenger, PostMessengerReturns,
      Publish, Returned, vars

LEMMA TagsStep ==
  TypeOK /\ SlotInv /\ SecondPassInv /\ TagsMerged /\ [Next]_vars => TagsMerged'
<1> SUFFICES ASSUME TypeOK, SlotInv, SecondPassInv, TagsMerged, [Next]_vars,
                    stage' # "waiting",
                    NEW t \in Truecaller, NEW s \in Spam,
                    results'[t].tags # "none"
             PROVE  /\ results'[s].tags = results'[t].tags
                    /\ results'[t].tags = "spam" =>
                         results'[s].caller \notin {"none", "unknown"}
  BY DEF TagsMerged
<1>1. CASE stage = "waiting"
  <2>1. Assemble
    BY <1>1, EarlyStage
  <2>2. results \in [Modules -> Result]
    BY <2>1, AllRecorded DEF Assemble
  <2> QED
    BY <2>1, <2>2, MergeTags DEF Assemble
<1>2. CASE stage # "waiting"
  BY <1>2, LateSlots DEF TagsMerged
<1> QED
  BY <1>1, <1>2

LEMMA ReportStep ==
  /\ TypeOK /\ SlotInv /\ SecondPassInv /\ ImageInv /\ ReportConsistent
  /\ [Next]_vars
  => ReportConsistent'
<1> SUFFICES ASSUME TypeOK, SlotInv, SecondPassInv, ImageInv,
                    ReportConsistent, [Next]_vars, stage' # "waiting"
             PROVE  /\ report'.messenger = MessengerReport(results')
                    /\ \A m \in PostMessenger : results'[m].image # "none" =>
                         \E k \in report'.messenger :
                           results'[k].account = "photo"
  BY DEF ReportConsistent, MessengerReport
<1> USE EngineAssumption
<1>1. CASE stage = "waiting"
  <2>1. Assemble
    BY <1>1, EarlyStage
  <2>2. results \in [Modules -> Result]
    BY <2>1, AllRecorded DEF Assemble
  <2>3. \A m \in Modules : results'[m].image = "none"
    BY <1>1, <2>1, <2>2, MergeKeeps DEF Assemble, ImageInv
  <2>4. report'.messenger = MessengerReport(results')
    BY <2>1 DEF Assemble, TypeOK
  <2> QED
    BY <2>3, <2>4
<1>2. CASE stage # "waiting"
  <2>1. /\ report'.messenger = report.messenger
        /\ report.messenger \subseteq Messenger
        /\ \A k \in Messenger : results'[k] = results[k]
    BY <1>2, LateSlots DEF TypeOK
  <2>2. report'.messenger = MessengerReport(results')
    BY <1>2, <2>1 DEF ReportConsistent, MessengerReport
  <2>3. ASSUME NEW m \in PostMessenger, results'[m].image # "none"
        PROVE  \E k \in report.messenger : results[k].account = "photo"
    <3>1. CASE results'[m] = results[m]
      BY <1>2, <2>3, <3>1 DEF ReportConsistent
    <3>2. CASE results'[m] # results[m]
      <4>1. m = cursor /\ PostMessengerReturns
        <5>1. ASSUME NEW k \in Modules, ModuleStep(k) PROVE FALSE
          <6>1. Timeout(k)
            BY <1>2, <5>1, ModuleOutcome DEF SlotInv, Active
          <6> QED
            BY <3>2, <6>1 DEF Timeout
        <5> QED
          BY <1>2, <3>2, <5>1
          DEF Next, EngineStep, Assemble, PassOver, StartPostMessenger,
              PostMessengerReturns, Publish, Returned, vars, Record, TypeOK
      <4>2. results'[m] \in PostResults(m)
        BY <2>3, <4>1
        DEF PostMessengerReturns, Record, TypeOK, ErroredResult, Bare
      <4> QED
        BY <2>3, <4>2 DEF PostResults, SkippedResult, Bare
    <3> QED
      BY <3>1, <3>2
  <2> QED
    BY <2>1, <2>2, <2>3
<1> QED
  BY <1>1, <1>2

LEMMA InvStep == IInv /\ [Next]_vars => IInv'
  BY TypeStep, SlotStep, SecondPassStep, ImageStep, PassiveStep, TagsStep,
     ReportStep
  DEF IInv

-----------------------------------------------------------------------------
(* Theorems.                                                               *)

\* The inductive invariant holds throughout every run of the engine.
THEOREM Invariant == Spec => []IInv
  BY InitInv, InvStep, PTL DEF Spec

\* Every variable keeps its shape, for any set of modules.
THEOREM TypeCorrect == Spec => []TypeOK
  BY Invariant, PTL DEF IInv

\* Neither pass ever calls a gated module, and it is reported as gated.
THEOREM GatedSafe == Spec => []GatedUntouched
<1>1. IInv => GatedUntouched
  BY DEF IInv, SlotInv, GatedUntouched
<1> QED
  BY <1>1, Invariant, PTL

\* Passive mode never runs the active method of a module that has another.
THEOREM PassiveSafe == Spec => []PassiveModeRespected
  BY Invariant, PTL DEF IInv

\* Whatever the order of the goroutines, the merge leaves the spam result
\* with the Truecaller tags and a caller type that agrees with them.
THEOREM TagsSafe == Spec => []TagsMerged
  BY Invariant, PTL DEF IInv

\* The messenger report the second pass works from is the one its published
\* results justify, and an image result rests on a photo in it.
THEOREM ReportSafe == Spec => []ReportConsistent
  BY Invariant, PTL DEF IInv

\* Once modules are in, a result only moves in PostMessengerReturns, in the
\* slot of the module the second pass is at.
LEMMA LateResults ==
  ASSUME TypeOK, SlotInv, SecondPassInv, [Next]_vars, stage # "waiting"
  PROVE  /\ \A m \in Modules : results'[m] # results[m] =>
              m = cursor /\ m \in PostMessenger
         /\ \A m \in Modules : pc[m] \notin {"spawned"} \cup Active
<1>1. \A m \in Modules : pc[m] \notin {"spawned"} \cup Active
  BY DEF SlotInv, Active
<1>2. ASSUME NEW m \in Modules, results'[m] # results[m]
      PROVE  m = cursor /\ m \in PostMessenger
  <2>1. ASSUME NEW k \in Modules, ModuleStep(k) PROVE FALSE
    <3>1. Timeout(k)
      BY <1>1, <2>1, ModuleOutcome DEF Active
    <3> QED
      BY <1>2, <3>1 DEF Timeout
  <2>2. PostMessengerReturns
    BY <1>2, <2>1
    DEF Next, EngineStep, Assemble, PassOver, StartPostMessenger, Publish,
        Returned, vars
  <2> QED
    BY <1>2, <2>2
    DEF PostMessengerReturns, Record, TypeOK, SecondPassInv, Modules
<1> QED
  BY <1>1, <1>2

\* No result moves and nothing is published while a module of the first pass
\* is still running; after the barrier only the second pass moves a result.
THEOREM BarrierSafe == Spec => SecondPassAfterBarrier
<1> DEFINE Step ==
      (stage' # "waiting") =>
        \A m \in Modules :
          /\ pc[m] \notin {"spawned", "dryrun", "run", "passive"}
          /\ results'[m] # results[m] =>
               stage = "waiting" \/ (m = cursor /\ m \in PostMessenger)
<1>1. IInv /\ [Next]_vars => [Step]_vars
  <2> SUFFICES ASSUME IInv, [Next]_vars PROVE Step
    OBVIOUS
  <2>1. CASE stage = "waiting" /\ stage' # "waiting"
    <3>1. Finished
      BY <2>1, EarlyStage DEF IInv, Assemble
    <3> QED
      BY <2>1, <3>1 DEF Finished
  <2>2. CASE stage # "waiting"
    BY <2>2, LateResults DEF IInv, Active
  <2> QED
    BY <2>1, <2>2
<1> QED
  BY <1>1, Invariant, PTL DEF Spec, SecondPassAfterBarrier

-----------------------------------------------------------------------------
(* Engine.Run implements ReportContract.                                   *)

Slot == [m \in Modules |-> results[m].status]
Revised == {m \in Modules : /\ "RunPostMessenger" \in calls[m]
                            /\ pc[m] = "finished"}
Phase == CASE stage = "waiting" -> "gather"
           [] stage = "second" -> "revise"
           [] OTHER -> "published"

LEMMA ContractInitially == Init => Contract!ContractInit
  BY DEF Init, Contract!ContractInit, NoResult, Bare

\* A step of module m fills its slot or is invisible.
LEMMA ModuleRefines ==
  ASSUME IInv, NEW m \in Modules, ModuleStep(m)
  PROVE  Contract!Fill(m) \/ UNCHANGED <<Slot, Revised, Phase>>
<1> USE DEF IInv
<1>1. UNCHANGED <<stage, opts>>
  BY ModuleFrame
<1>2. ASSUME NEW k \in Modules \ {m}
      PROVE  pc'[k] = pc[k] /\ results'[k] = results[k] /\ calls'[k] = calls[k]
  BY ModuleFrame
<1>3. CASE Timeout(m)
  BY <1>3 DEF Timeout, Slot, Revised, Phase
<1>4. CASE ~Timeout(m)
  <2>1. stage = "waiting" /\ pc[m] \in {"spawned"} \cup Active
    BY <1>4, ModuleOutcome DEF SlotInv, Active
  <2>2. Revised = {} /\ Revised' = {}
    <3>1. \A k \in Modules : "RunPostMessenger" \notin calls[k]
      BY <2>1 DEF SecondPassInv
    <3>2. "RunPostMessenger" \notin calls'[m]
      BY <1>4, <3>1, ModuleOutcome
    <3> QED
      BY <1>2, <3>1, <3>2 DEF Revised
  <2>3. CASE results'[m] = results[m]
    <3>1. Slot' = Slot
      BY <1>2, <2>3 DEF Slot
    <3> QED
      BY <1>1, <2>2, <3>1 DEF Phase
  <2>4. CASE results'[m] # results[m]
    <3>1. results'[m].status \in Statuses
      BY <1>4, <2>4, ModuleOutcome
    <3>2. Slot[m] = "none"
      BY <2>1 DEF SlotInv, Slot, NoResult, Bare
    <3>3. Slot' = [Slot EXCEPT ![m] = results'[m].status]
      BY <1>2 DEF Slot
    <3> QED
      BY <1>1, <2>1, <2>2, <3>1, <3>2, <3>3
      DEF Contract!Fill, Slot, Revised, Phase
  <2> QED
    BY <2>3, <2>4
<1> QED
  BY <1>3, <1>4

\* The barrier settles the slots; the second pass revises its own slots once
\* each, in order; the end of the second pass returns the report.
LEMMA EngineRefines ==
  ASSUME IInv, EngineStep
  PROVE  \/ Contract!ContractNext
         \/ UNCHANGED <<Slot, Revised, Phase>>
<1> USE EngineAssumption DEF IInv
<1>1. CASE Assemble
  <2>1. results \in [Modules -> Result]
    BY <1>1, AllRecorded DEF Assemble
  <2>2. \A m \in Modules : results'[m].status = results[m].status
    BY <1>1, <2>1, MergeKeeps DEF Assemble
  <2>3. \A m \in Modules : results[m].status # "none"
    BY <2>1 DEF Result, Statuses
  <2> QED
    BY <1>1, <2>2, <2>3
    DEF Assemble, Contract!ContractNext, Contract!Settle
<1>2. CASE PassOver
  BY <1>2 DEF PassOver, Slot, Revised, Phase
<1>3. CASE StartPostMessenger
  <2>1. cursor \in Modules /\ "RunPostMessenger" \notin calls[cursor]
    BY <1>3 DEF StartPostMessenger, TypeOK, Modules, SecondPassInv
  <2> QED
    BY <1>3, <2>1
    DEF StartPostMessenger, Slot, Revised, Phase, TypeOK, Call
<1>4. CASE PostMessengerReturns
  <2>0. PICK m \in Modules : m = cursor
    BY <1>4 DEF PostMessengerReturns, TypeOK, Modules
  <2>1. /\ m \in PostMessenger
        /\ results[m].status # "gated"
        /\ "RunPostMessenger" \in calls[m]
    BY <1>4, <2>0 DEF PostMessengerReturns, SecondPassInv
  <2>2. /\ results'[m].status \in Statuses
        /\ results'[m].status # "gated"
    BY <1>4, <2>0, ModuleResults
    DEF PostMessengerReturns, Record, TypeOK, Result, ErroredResult, Bare
  <2>3. Slot' = [Slot EXCEPT ![m] = results'[m].status]
    BY <1>4, <2>0 DEF PostMessengerReturns, Record, TypeOK, Slot
  <2>4. m \notin Revised /\ Revised' = Revised \cup {m}
    BY <1>4, <2>0, <2>1 DEF PostMessengerReturns, Finish, TypeOK, Revised
  <2>5. Phase = "revise" /\ Phase' = "revise"
    BY <1>4 DEF PostMessengerReturns, Phase
  <2>6. Contract!Revise(m)
    BY <2>1, <2>2, <2>3, <2>4, <2>5
    DEF Contract!Revise, Slot, Revised, Phase
  <2> QED
    BY <2>6 DEF Contract!ContractNext
<1>5. CASE Publish
  <2>1. ASSUME NEW m \in PostMessenger
        PROVE  m \in Revised \/ results[m].status = "gated"
    <3>1. m \in Modules /\ m < cursor /\ pc[m] # "post"
      BY <1>5 DEF Publish, SecondPassInv, Modules
    <3>2. pc[m] = "finished"
      BY <1>5, <3>1 DEF Publish, TypeOK, SlotInv, Active
    <3> QED
      BY <3>1, <3>2 DEF SecondPassInv, Revised
  <2>2. UNCHANGED <<Slot, Revised>>
    BY <1>5 DEF Publish, Slot, Revised
  <2>3. Phase = "revise" /\ Phase' = "published"
    BY <1>5 DEF Publish, Phase
  <2>4. Contract!Return
    BY <2>1, <2>2, <2>3 DEF Contract!Return, Slot, Revised, Phase
  <2> QED
    BY <2>4 DEF Contract!ContractNext
<1> QED
  BY <1>1, <1>2, <1>3, <1>4, <1>5 DEF EngineStep

\* Every run of the engine is a run of the contract: each slot filled once
\* while modules run, at most one revision of a slot of the second pass that
\* is not gated, and a report that is complete and final when returned.
THEOREM EngineImplementsContract == Spec => ImplementsContract
<1>1. IInv /\ [Next]_vars => [Contract!ContractNext]_(Contract!contractVars)
  <2> SUFFICES ASSUME IInv, [Next]_vars
               PROVE  \/ Contract!ContractNext
                      \/ UNCHANGED <<Slot, Revised, Phase>>
    BY DEF Contract!contractVars, Slot, Revised, Phase
  <2>1. ASSUME NEW m \in Modules, ModuleStep(m)
        PROVE  \/ Contract!ContractNext
               \/ UNCHANGED <<Slot, Revised, Phase>>
    BY <2>1, ModuleRefines DEF Contract!ContractNext
  <2>2. CASE UNCHANGED vars
    BY <2>2 DEF vars, Slot, Revised, Phase
  <2> QED
    BY <2>1, <2>2, EngineRefines DEF Next, Returned
<1> QED
  BY <1>1, ContractInitially, Invariant, PTL
  DEF Spec, ImplementsContract, Contract!ContractSpec
=============================================================================
