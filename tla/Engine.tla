------------------------------- MODULE Engine -------------------------------
(***************************************************************************)
(* core.Engine.Run (internal/core/engine.go): one goroutine per module     *)
(* under an errgroup, a barrier, the merge of Truecaller tags and the      *)
(* messenger report, then a sequential second pass over the modules that   *)
(* implement PostMessengerModule, and the assembly of the report.          *)
(*                                                                         *)
(* Module m stands for e.modules[m-1].  A module's own code is represented *)
(* by the set of results its methods can return; every one of its methods  *)
(* may also return an error or panic.                                      *)
(***************************************************************************)
EXTENDS Naturals

CONSTANTS
  N,               \* number of modules handed to NewEngine
  ActiveTier,      \* modules whose Tier() is TierActive
  PassiveCapable,  \* modules that implement PassiveModule
  PostMessenger,   \* modules that implement PostMessengerModule
  Messenger,       \* modules named telegram, whatsapp or signal
  PhotoMessenger,  \* of those, the ones resolvePhoto reads: telegram, whatsapp
  Truecaller,      \* the module named truecaller, if registered
  Spam,            \* the module named spam, if registered
  Options          \* the command lines considered

Modules == 1..N

\* WithPassive, WithActive, WithSelectedModules; whether TINEYE_API_KEY is set.
Option == [passive : BOOLEAN, active : BOOLEAN,
           explicit : SUBSET Modules, tineyeKey : BOOLEAN]

ASSUME EngineAssumption ==
  /\ N \in Nat
  /\ ActiveTier \subseteq Modules
  /\ PassiveCapable \subseteq Modules
  /\ PostMessenger \subseteq Modules
  /\ Messenger \subseteq Modules
  /\ PhotoMessenger \subseteq Messenger
  /\ Truecaller \subseteq Modules
  /\ Spam \subseteq Modules
  /\ Options \subseteq Option
  /\ PostMessenger \cap (Messenger \cup Truecaller \cup Spam) = {}
  /\ Truecaller \cap Spam = {}
  /\ \A t, u \in Truecaller : t = u  \* module names are unique

VARIABLES
  opts,     \* the engine's options and whether a TinEye key is configured
  stage,    \* where the goroutine of Engine.Run is
  groupCtx, \* the errgroup's context
  pc,       \* pc[m]: where the goroutine (or second pass) of module m is
  ctx,      \* ctx[m]: the context handed to module m
  results,  \* the slice results, one slot per module
  report,   \* the parts of the report the engine derives from results
  cursor,   \* index of the second pass
  calls     \* history: the methods of m that were called

vars == <<opts, stage, groupCtx, pc, ctx, results, report, cursor, calls>>

Methods == {"DryRun", "Run", "RunPassive", "RunPostMessenger"}

-----------------------------------------------------------------------------
(***************************************************************************)
(* Results.  account: what messengerAccountFromResult can extract; tags:   *)
(* the Truecaller tags a result lists ("spam" when one of them is spam or  *)
(* telemarketer); caller: findings["caller_type"]; image: an               *)
(* ImageIntelResult, "searched" when TinEye answered.                      *)
(***************************************************************************)
Statuses == {"success", "skipped", "gated", "error"}

Result == [status : Statuses,
           account : {"none", "bare", "photo"},
           tags : {"none", "label", "spam"},
           caller : {"none", "unknown", "reported", "spam"},
           image : {"none", "offline", "searched"}]

Bare(s) == [status |-> s, account |-> "none", tags |-> "none",
            caller |-> "none", image |-> "none"]

NoResult == Bare("none")

\* engine.go: gatedModuleResult, skippedModuleResult, erroredModuleResult
GatedResult   == Bare("gated")
SkippedResult == Bare("skipped")
ErroredResult == Bare("error")

\* What module m's Run can return without an error (nil becomes skipped).
RunResults(m) ==
  {SkippedResult, ErroredResult, Bare("success")}
    \cup {[Bare("success") EXCEPT !.account = a] :
            a \in (IF m \in Messenger THEN {"bare"} ELSE {})
                    \cup (IF m \in PhotoMessenger THEN {"photo"} ELSE {})}
    \cup {[Bare("success") EXCEPT !.tags = t] :
            t \in IF m \in Truecaller THEN {"label", "spam"} ELSE {}}
    \cup {[Bare("success") EXCEPT !.caller = c] :
            c \in IF m \in Spam THEN {"unknown", "reported"} ELSE {}}

\* RunPassive answers from embedded data or reports itself skipped.
PassiveResults == {SkippedResult, Bare("success")}

-----------------------------------------------------------------------------
Explicit(m) == m \in opts.explicit

\* The gate of runModule: an active module needs --active or --modules.
Gated(m) == m \in ActiveTier /\ ~opts.active /\ ~Explicit(m)

Record(m, r) == results' = [results EXCEPT ![m] = r]

\* defer cancel() runs as the module's frame is left.
Finish(m) == /\ pc' = [pc EXCEPT ![m] = "finished"]
             /\ ctx' = [ctx EXCEPT ![m] = "none"]

Call(m, method) == calls' = [calls EXCEPT ![m] = @ \cup {method}]

Init ==
  /\ opts \in Options
  /\ stage = "waiting"
  /\ groupCtx = "live"
  /\ pc = [m \in Modules |-> "spawned"]
  /\ ctx = [m \in Modules |-> "none"]
  /\ results = [m \in Modules |-> NoResult]
  /\ report = [messenger |-> {}, image |-> "none", identity |-> FALSE]
  /\ cursor = 1
  /\ calls = [m \in Modules |-> {}]

-----------------------------------------------------------------------------
(* The goroutine of one module: runModule.                                 *)

\* An active module that was not asked for is gated before any of its code.
Gate(m) ==
  /\ pc[m] = "spawned"
  /\ Gated(m)
  /\ Record(m, GatedResult)
  /\ Finish(m)
  /\ UNCHANGED <<opts, stage, groupCtx, report, cursor, calls>>

\* Mutant of StartDryRun: DryRun is called before the gate is looked at.
DryRunBeforeGate(m) ==
  /\ pc[m] = "spawned"
  /\ ctx' = [ctx EXCEPT ![m] = groupCtx]
  /\ pc' = [pc EXCEPT ![m] = "dryrun"]
  /\ Call(m, "DryRun")
  /\ UNCHANGED <<opts, stage, groupCtx, results, report, cursor>>

\* context.WithTimeout(ctx, e.timeout), then module.DryRun(moduleCtx, number).
StartDryRun(m) ==
  /\ pc[m] = "spawned"
  /\ ~Gated(m)
  /\ ctx' = [ctx EXCEPT ![m] = groupCtx]
  /\ pc' = [pc EXCEPT ![m] = "dryrun"]
  /\ Call(m, "DryRun")
  /\ UNCHANGED <<opts, stage, groupCtx, results, report, cursor>>

DryRunFails(m) ==
  /\ pc[m] = "dryrun"
  /\ Record(m, SkippedResult)
  /\ Finish(m)
  /\ UNCHANGED <<opts, stage, groupCtx, report, cursor, calls>>

\* DryRun returned nil: RunPassive in passive mode if the module has it.
EnterModule(m) ==
  LET method == IF opts.passive /\ m \in PassiveCapable
                  THEN "RunPassive" ELSE "Run"
  IN /\ pc[m] = "dryrun"
     /\ pc' = [pc EXCEPT ![m] = IF method = "Run" THEN "run" ELSE "passive"]
     /\ Call(m, method)
     /\ UNCHANGED <<opts, stage, groupCtx, ctx, results, report, cursor>>

RunReturns(m) ==
  /\ pc[m] = "run"
  /\ \E r \in RunResults(m) : Record(m, r)
  /\ Finish(m)
  /\ UNCHANGED <<opts, stage, groupCtx, report, cursor, calls>>

RunPassiveReturns(m) ==
  /\ pc[m] = "passive"
  /\ \E r \in PassiveResults : Record(m, r)
  /\ Finish(m)
  /\ UNCHANGED <<opts, stage, groupCtx, report, cursor, calls>>

\* An error return, or a panic caught by the deferred recover.
ModuleFails(m) ==
  /\ \/ pc[m] \in {"run", "passive"}  \* error or panic
     \/ pc[m] = "dryrun"              \* panic only: its errors are skips
  /\ Record(m, ErroredResult)
  /\ Finish(m)
  /\ UNCHANGED <<opts, stage, groupCtx, report, cursor, calls>>

\* The module's timeout elapses while one of its methods is running.
Timeout(m) ==
  /\ pc[m] \in {"dryrun", "run", "passive", "post"}
  /\ ctx[m] = "live"
  /\ ctx' = [ctx EXCEPT ![m] = "expired"]
  /\ UNCHANGED <<opts, stage, groupCtx, pc, results, report, cursor, calls>>

-----------------------------------------------------------------------------
(* The goroutine of Engine.Run.                                            *)

Finished == \A m \in Modules : pc[m] = "finished"

\* mergeTruecallerSpamFindings: the tags of the Truecaller result go to the
\* spam result, whatever its status; an empty or unknown caller_type becomes
\* the spam tag.
MergeTruecallerSpam(res) ==
  LET found == {res[t].tags : t \in Truecaller} \ {"none"}
      tag == CHOOSE x \in found : TRUE
      relabel(s) == tag = "spam" /\ res[s].caller \in {"none", "unknown"}
  IN IF found = {} THEN res
     ELSE [m \in Modules |->
             IF m \in Spam
               THEN [res[m] EXCEPT !.tags = tag,
                       !.caller = IF relabel(m) THEN "spam" ELSE @]
               ELSE res[m]]

\* BuildMessengerReport: skipped and gated results are passed over.
MessengerReport(res) ==
  {m \in Messenger : /\ res[m].status \notin {"skipped", "gated"}
                     /\ res[m].account # "none"}

\* group.Wait returns (which also cancels groupCtx); results are merged and
\* the messenger report is built before the second pass begins.
Assemble ==
  /\ stage = "waiting"
  /\ Finished
  /\ stage' = "second"
  /\ groupCtx' = "cancelled"
  /\ results' = MergeTruecallerSpam(results)
  /\ report' = [report EXCEPT !.messenger = MessengerReport(results')]
  /\ UNCHANGED <<opts, pc, ctx, cursor, calls>>

\* Mutant of PassOver: a gated module is waited for.
PassOverOthers ==
  /\ stage = "second"
  /\ cursor <= N
  /\ cursor \notin PostMessenger
  /\ cursor' = cursor + 1
  /\ UNCHANGED <<opts, stage, groupCtx, pc, ctx, results, report, calls>>

\* The second pass only looks at PostMessengerModules, and not at gated ones.
PassOver ==
  /\ stage = "second"
  /\ cursor <= N
  /\ cursor \notin PostMessenger \/ results[cursor].status = "gated"
  /\ cursor' = cursor + 1
  /\ UNCHANGED <<opts, stage, groupCtx, pc, ctx, results, report, calls>>

\* The second pass derives its context from groupCtx as well.
StartPostMessenger ==
  /\ stage = "second"
  /\ cursor <= N
  /\ cursor \in PostMessenger
  /\ results[cursor].status # "gated"
  /\ pc[cursor] = "finished"
  /\ pc' = [pc EXCEPT ![cursor] = "post"]
  /\ ctx' = [ctx EXCEPT ![cursor] = groupCtx]
  /\ Call(cursor, "RunPostMessenger")
  /\ UNCHANGED <<opts, stage, groupCtx, results, report, cursor>>

\* Mutant of PostResults: any messenger account is taken to have a photo.
PostResultsAnyAccount(m) ==
  IF report.messenger \cap PhotoMessenger # {}
    THEN {[Bare("success") EXCEPT !.image = "offline"]}
    ELSE {SkippedResult}

\* images.RunPostMessenger: no photo, no work; TinEye is asked only with a
\* key, and its request runs under the module's context.
PostResults(m) ==
  IF \E k \in report.messenger \cap PhotoMessenger :
       results[k].account = "photo"
    THEN {[Bare("success") EXCEPT !.image = "offline"]}
           \cup {[Bare("success") EXCEPT !.image = i] :
                   i \in IF opts.tineyeKey /\ ctx[m] = "live"
                           THEN {"searched"} ELSE {}}
    ELSE {SkippedResult}

\* The second result replaces whatever the first pass left in the slot.
PostMessengerReturns ==
  /\ stage = "second"
  /\ cursor <= N
  /\ pc[cursor] = "post"
  /\ \E r \in PostResults(cursor) \cup {ErroredResult} : Record(cursor, r)
  /\ Finish(cursor)
  /\ cursor' = cursor + 1
  /\ UNCHANGED <<opts, stage, groupCtx, report, calls>>

\* extractImageIntelResult: the first result that carries image data.
ImageIntel(res) ==
  LET found == {m \in Modules : res[m].image # "none"}
  IN IF found = {} THEN "none"
     ELSE res[CHOOSE m \in found : \A k \in found : m <= k].image

\* Mutant of Publish: the second pass is not waited for.
PublishEarly ==
  /\ stage = "second"
  /\ stage' = "published"
  /\ report' = [report EXCEPT !.image = ImageIntel(results),
                              !.identity = TRUE]
  /\ UNCHANGED <<opts, groupCtx, pc, ctx, results, cursor, calls>>

\* The image result, the identity record (built under the caller's context)
\* and the risk score complete the report, which Run returns.
Publish ==
  /\ stage = "second"
  /\ cursor = N + 1
  /\ stage' = "published"
  /\ report' = [report EXCEPT !.image = ImageIntel(results),
                              !.identity = TRUE]
  /\ UNCHANGED <<opts, groupCtx, pc, ctx, results, cursor, calls>>

-----------------------------------------------------------------------------
ModuleStep(m) ==
  \/ Gate(m)
  \/ StartDryRun(m)
  \/ DryRunFails(m)
  \/ EnterModule(m)
  \/ RunReturns(m)
  \/ RunPassiveReturns(m)
  \/ ModuleFails(m)
  \/ Timeout(m)

EngineStep ==
  \/ Assemble
  \/ PassOver
  \/ StartPostMessenger
  \/ PostMessengerReturns
  \/ Publish

\* Run has returned: nothing more happens.
Returned == stage = "published" /\ UNCHANGED vars

Next == (\E m \in Modules : ModuleStep(m)) \/ EngineStep \/ Returned

(***************************************************************************)
(* Fairness.  The Go scheduler runs every runnable goroutine; a running    *)
(* module is only required to return once its context is done (every       *)
(* request of a module is made with it, or with an HTTP timeout).          *)
(***************************************************************************)
ContextDone(m) == ctx[m] \in {"expired", "cancelled"}

ModuleReturns(m) ==
  /\ ContextDone(m)
  /\ \/ DryRunFails(m) \/ EnterModule(m)
     \/ RunReturns(m) \/ RunPassiveReturns(m) \/ ModuleFails(m)

SecondPassReturns == cursor <= N /\ ContextDone(cursor) /\ PostMessengerReturns

Fairness ==
  /\ \A m \in Modules :
       /\ WF_vars(Gate(m) \/ StartDryRun(m))
       /\ WF_vars(Timeout(m))
       /\ WF_vars(ModuleReturns(m))
  /\ WF_vars(Assemble \/ PassOver \/ StartPostMessenger \/ Publish)
  /\ WF_vars(SecondPassReturns)

Spec == Init /\ [][Next]_vars /\ Fairness

-----------------------------------------------------------------------------
(* Properties.                                                             *)

\* Every variable keeps the shape Engine.Run gives it.
TypeOK ==
  /\ opts \in Option
  /\ stage \in {"waiting", "second", "published"}
  /\ groupCtx \in {"live", "cancelled"}
  /\ pc \in [Modules -> {"spawned", "dryrun", "run", "passive", "post",
                         "finished"}]
  /\ ctx \in [Modules -> {"none", "live", "expired", "cancelled"}]
  /\ results \in [Modules -> Result \cup {NoResult}]
  /\ report \in [messenger : SUBSET Messenger,
                 image : {"none", "offline", "searched"},
                 identity : BOOLEAN]
  /\ cursor \in 1..(N + 1)
  /\ calls \in [Modules -> SUBSET Methods]

\* An active module that was neither enabled nor named is never entered by
\* either pass, not even for its DryRun, and is reported as gated.
GatedUntouched ==
  \A m \in Modules : Gated(m) =>
    /\ calls[m] = {}
    /\ pc[m] = "finished" => results[m].status = "gated"

\* In passive mode a module that has a RunPassive never does its active Run.
PassiveModeRespected ==
  opts.passive => \A m \in PassiveCapable : "Run" \notin calls[m]

\* The order of the goroutines does not matter to the merge: once modules
\* are in, the spam result carries the Truecaller tags, and a spam tag is
\* never left beside an empty or unknown caller type.
TagsMerged ==
  stage # "waiting" =>
    \A t \in Truecaller, s \in Spam : results[t].tags # "none" =>
      /\ results[s].tags = results[t].tags
      /\ results[t].tags = "spam" =>
           results[s].caller \notin {"none", "unknown"}

\* The messenger report handed to the second pass is the one the published
\* results justify, and an image result rests on a photo it contains.
ReportConsistent ==
  stage # "waiting" =>
    /\ report.messenger = MessengerReport(results)
    /\ (\E m \in PostMessenger : results[m].image # "none") =>
         \E k \in report.messenger : results[k].account = "photo"

\* No module of the second pass starts, and no result moves after the
\* barrier, while a module of the first pass is still running.
SecondPassAfterBarrier ==
  [][(stage' # "waiting") =>
       \A m \in Modules :
         /\ pc[m] \notin {"spawned", "dryrun", "run", "passive"}
         /\ results'[m] # results[m] =>
              stage = "waiting" \/ (m = cursor /\ m \in PostMessenger)]_vars

\* Engine.Run implements the contract on the statuses it reports.
Contract == INSTANCE ReportContract WITH
  Slots <- Modules,
  Revisable <- PostMessenger,
  Outcomes <- Statuses,
  Locked <- "gated",
  Empty <- "none",
  slot <- [m \in Modules |-> results[m].status],
  revised <- {m \in Modules : /\ "RunPostMessenger" \in calls[m]
                              /\ pc[m] = "finished"},
  phase <- CASE stage = "waiting" -> "gather"
             [] stage = "second" -> "revise"
             [] OTHER -> "published"

ImplementsContract == Contract!ContractSpec

\* Engine.Run returns its report: the barrier and the second pass cannot
\* block on a module that fails, panics, or lets its context run out.
Completes == <>(stage = "published")

\* RELEASE_NOTES_v2.md says the image module "submits the profile photo to
\* TinEye": the second pass would have to start it under a live context.
PostMessengerContextLive ==
  \A m \in PostMessenger : pc[m] = "post" => ctx[m] # "cancelled"
=============================================================================
