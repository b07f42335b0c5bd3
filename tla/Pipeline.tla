------------------------------- MODULE Pipeline -------------------------------
(* One run of the command line (internal/cli/root.go, pivot.go, opsec.go and   *)
(* exporters/webhook.go), from its checks to its exit:                         *)
(*   investigate      runInvestigation: one number, auto-pivot, saved cases    *)
(*   batch            runBatch: the numbers of a file, two report files        *)
(*   pivot phone      runPivotPhone: a second number                           *)
(*   pivot email, name       runPivotEmail, runPivotName: a stub number        *)
(*   pivot username, domain  runPivotUsername, runPivotDomain: no engine       *)
(* Engine.Run is a step that yields a risk band (module Engine has its inside) *)
(* and AutoPivotEngine.Run one that yields the linked investigations (module   *)
(* AutoPivot).  Neither returns an error here, nor does the search of a pivot  *)
(* to a username: the command's context is never cancelled.  The database, the *)
(* receiver of the webhook and the output may fail at any use, and the process *)
(* may be killed at any point.                                                 *)
EXTENDS Naturals, Sequences

CONSTANTS
    Commands, \* the command lines considered
    Linked,   \* what auto-pivot may find (see Forest)
    Earlier,  \* number of cases in the database before the command
    MaxLines  \* bound on the numbers of a batch

ModulePivots   == {"pivot email", "pivot name"}
ArtifactPivots == {"pivot username", "pivot domain"}
Verbs  == {"investigate", "batch", "pivot phone"} \cup ModulePivots \cup ArtifactPivots
Bands  == {"LOW", "MODERATE", "HIGH", "CRITICAL"}
Number == {"valid", "invalid"}
Lines  == UNION {[1 .. k -> Number] : k \in 1 .. MaxLines}

\* modules: the tiers of the modules that --modules leaves; the diverted ones are
\* of the active tier and have a passive half each, of the active ones some have none.
\* hook: no webhook, one given by --webhook, or one configured with its least
\* band (an unknown or missing band is HIGH); parent: the --case flag of a pivot.
Command == [verb : Verbs, lines : Lines, active : BOOLEAN, passive : BOOLEAN,
            modules : {"all", "passive ones", "active ones", "diverted ones"},
            yes : BOOLEAN, save : BOOLEAN, hop : BOOLEAN, triage : BOOLEAN,
            hook : {"none", "flag"} \cup Bands, parent : 0 .. Earlier]

\* What a pivot sets itself: all modules for a second number, passively unless
\* --active; passive modules only, passively, on a stub; none for an artifact.
PhonePivot(c) == c.modules = "all" /\ c.passive = ~c.active
StubPivot(c)  == c.modules = "passive ones" /\ c.passive /\ ~c.active
BarePivot(c)  == c.modules = "passive ones" /\ ~c.active

\* Linked investigations, numbered in the order in which
\* saveLinkedInvestigations visits them; tree[n] is the one n was found in, 0
\* being the report of the number itself.
Forest(tree) == \A n \in DOMAIN tree : tree[n] \in 0 .. n - 1

ASSUME BoundsAssumption == Earlier \in Nat /\ MaxLines \in Nat

ASSUME CommandsAssumption == \A c \in Commands :
    /\ c \in Command
    /\ c.lines \in Seq(Number)
    /\ c.verb # "batch" => Len(c.lines) = 1
    /\ c.verb \in {"investigate", "batch"} => c.parent = 0
    /\ c.verb = "pivot phone" => PhonePivot(c)
    /\ c.verb \in ModulePivots => StubPivot(c)
    /\ c.verb \in ArtifactPivots => BarePivot(c)

ASSUME LinkedAssumption ==
    /\ <<>> \in Linked
    /\ \A tree \in Linked : tree \in Seq(Nat) /\ Forest(tree)

VARIABLES
    cmd,       \* the command line
    at,        \* where the command is
    outcome,   \* how it ended: "none" while it runs, "ok", "error" or "killed"
    consented, \* the user answered y
    reports,   \* the band of each number investigated so far
    up,        \* the linked investigations
    next,      \* the investigation to save next
    cases,     \* the rows this command has added to the database
    closed,    \* history: investigations whose storage.Open failed
    posts,     \* deliveries attempted: the number, its case, whether it arrived
    files,     \* the two files of a batch: "absent", "begun" or "whole"
    probed,    \* history: an active module has run
    shown      \* history: the report has been written

vars == <<cmd, at, outcome, consented, reports, up, next, cases, closed, posts,
          files, probed, shown>>

Stages == {"start", "prompt", "run", "print", "crawl", "save", "notify", "report",
           "csv", "csv rows", "json", "json rows", "summary"}

TypeOK ==
    /\ cmd \in Commands /\ at \in Stages
    /\ outcome \in {"none", "ok", "error", "killed"}
    /\ consented \in BOOLEAN /\ probed \in BOOLEAN /\ shown \in BOOLEAN
    /\ reports \in Seq(Bands)
    /\ up \in Linked /\ next \in 0 .. Len(up) + 1
    /\ cases \in Seq([of : Nat, parent : Nat])
    /\ closed \subseteq 0 .. Len(up)
    /\ posts \in Seq([of : Nat, case : Nat, ok : BOOLEAN])
    /\ files \in [{"csv", "json"} -> {"absent", "begun", "whole"}]

Init ==
    /\ cmd \in Commands /\ at = "start" /\ outcome = "none"
    /\ consented = FALSE /\ probed = FALSE /\ shown = FALSE
    /\ reports = <<>> /\ up = <<>> /\ next = 0 /\ cases = <<>> /\ closed = {}
    /\ posts = <<>> /\ files = [f \in {"csv", "json"} |-> "absent"]

-------------------------------------------------------------------------------
Running(stage) == at = stage /\ outcome = "none"

\* A step returns an error, which main prints before it exits with status 1.
Fail ==
    /\ outcome' = "error"
    /\ UNCHANGED <<cmd, at, consented, reports, up, next, cases, closed, posts, files,
                   probed, shown>>

GoTo(stage) == at' = stage /\ UNCHANGED <<cmd, outcome>>

Investigates == cmd.verb \in {"investigate", "batch"}
Numbered     == cmd.verb \in {"investigate", "pivot phone"}

\* Mutant of HasActiveModulesSelected: --modules is not looked at.
HasActiveFlag ==
    cmd.active

\* Whether the command is held to be one of active probing: asked of the flags
\* before a module runs, --passive not among them.
HasActiveModulesSelected ==
    cmd.active \/ cmd.modules \in {"active ones", "diverted ones"}

\* Whether the engine calls Run of a module of the active tier: one that
\* --modules leaves, past the gate, and in passive mode one without RunPassive.
Probes ==
    /\ cmd.modules # "passive ones"
    /\ cmd.active \/ cmd.modules # "all"
    /\ cmd.passive => cmd.modules # "diverted ones"

\* Flags, file, module names, proxy and DNS over HTTPS, then the prompt.  One
\* number is normalised here, those of a batch one by one in the loop.
Preflight ==
    /\ Running("start")
    /\ ~(Numbered /\ cmd.lines[1] = "invalid")
    /\ GoTo(IF Investigates /\ HasActiveModulesSelected /\ ~cmd.yes
            THEN "prompt" ELSE "run")
    /\ UNCHANGED <<consented, reports, up, next, cases, closed, posts, files, probed, shown>>

\* A pivot to a second number prints the warning too, and goes on unasked.
PreflightFails ==
    /\ Running("start")
    /\ \/ Investigates
       \/ Numbered /\ cmd.lines[1] = "invalid"
       \/ cmd.verb = "pivot phone" /\ cmd.active /\ ~cmd.yes
    /\ Fail

\* promptOpsecContinue: y goes on; any other answer, and the end of the input,
\* abort the command.
Agree ==
    /\ Running("prompt")
    /\ consented' = TRUE
    /\ GoTo("run")
    /\ UNCHANGED <<reports, up, next, cases, closed, posts, files, probed, shown>>

Decline ==
    /\ Running("prompt")
    /\ Fail

-------------------------------------------------------------------------------
Current == Len(reports) + 1

\* Where the command goes with a report in hand.
AfterRun ==
    IF cmd.verb = "batch" THEN IF cmd.triage THEN "print" ELSE "notify"
    ELSE IF cmd.verb = "investigate" /\ cmd.hop THEN "crawl"
    ELSE IF cmd.save THEN "save"
    ELSE IF cmd.verb = "investigate" THEN "notify" ELSE "report"

\* Engine.Run on the current number (the queries of an artifact pivot, whose
\* result has no band): the risk band of the report is ScoreRisk's.
Investigate ==
    /\ Running("run")
    /\ cmd.verb = "batch" => cmd.lines[Current] = "valid"
    /\ \E band \in Bands : reports' = Append(reports, band)
    /\ probed' = (probed \/ Probes)
    /\ GoTo(AfterRun)
    /\ UNCHANGED <<consented, up, next, cases, closed, posts, files, shown>>

\* A number of a batch is not valid, or its line of progress cannot be written.
BatchFails ==
    /\ Running("run") /\ cmd.verb = "batch"
    /\ cmd.lines[Current] = "invalid" \/ ~cmd.triage
    /\ Fail

\* The compact or field line of a batch.
ShowLine ==
    /\ Running("print")
    /\ GoTo("notify")
    /\ UNCHANGED <<consented, reports, up, next, cases, closed, posts, files, probed, shown>>

\* runAutoPivot: without a searcher (--passive) no pivot becomes an investigation.
Crawl ==
    /\ Running("crawl")
    /\ up' \in IF cmd.passive THEN {<<>>} ELSE Linked
    /\ GoTo(IF cmd.save THEN "save" ELSE "notify")
    /\ UNCHANGED <<consented, reports, next, cases, closed, posts, files, probed, shown>>

-------------------------------------------------------------------------------
\* Ids are handed out in the order of the saves; 0: not saved.
Saved(n)  == \E i \in DOMAIN cases : cases[i].of = n
CaseOf(n) ==
    IF Saved(n)
    THEN Earlier + CHOOSE i \in DOMAIN cases : cases[i].of = n
    ELSE 0

\* The parent a case is linked to: --case for a pivot, the case of the
\* investigation it was found in for a linked one.
ParentOf(n) ==
    IF n > 0 THEN CaseOf(up[n]) ELSE cmd.parent

\* Mutant of Reached: childID > 0 is not asked before the children are saved.
AlwaysReached(n) ==
    TRUE

\* saveLinkedInvestigations goes below a child only when it has an id; the
\* linked investigations of the number itself are saved with or without one.
Reached(n) ==
    n > 0 /\ up[n] > 0 => CaseOf(up[n]) > 0

\* Mutant of AfterSave: the webhook goes out as soon as the number has its case.
NotifyAfterRoot ==
    IF cmd.verb = "investigate" THEN "notify" ELSE "report"

AfterSave ==
    IF next < Len(up) THEN "save"
    ELSE IF cmd.verb = "investigate" THEN "notify" ELSE "report"

Saving == Running("save") /\ next <= Len(up)

\* saveInvestigationToDB: the row, in one transaction.
Save ==
    /\ Saving /\ Reached(next)
    /\ cases' = Append(cases, [of |-> next, parent |-> ParentOf(next)])
    /\ next' = next + 1
    /\ GoTo(AfterSave)
    /\ UNCHANGED <<consented, reports, up, closed, posts, files, probed, shown>>

\* storage.Open fails: no case, and no error either.  An artifact pivot drops
\* the error of the save as well.
SaveNothing ==
    /\ Saving /\ Reached(next)
    /\ closed' = closed \cup {next}
    /\ next' = next + 1
    /\ GoTo(AfterSave)
    /\ UNCHANGED <<consented, reports, up, cases, posts, files, probed, shown>>

\* Mutant of PassOver: the loop does not go on to the next item.
PassOverStuck ==
    /\ Saving /\ ~Reached(next)
    /\ GoTo(AfterSave)
    /\ UNCHANGED <<consented, reports, up, next, cases, closed, posts, files, probed, shown>>

\* Below an investigation without a case.
PassOver ==
    /\ Saving /\ ~Reached(next)
    /\ next' = next + 1
    /\ GoTo(AfterSave)
    /\ UNCHANGED <<consented, reports, up, cases, closed, posts, files, probed, shown>>

\* The transaction fails: the cases saved before it stay.
SaveFails ==
    /\ Saving /\ Reached(next) /\ cmd.verb \notin ArtifactPivots
    /\ Fail

-------------------------------------------------------------------------------
\* riskBandLevel
Level(band) ==
    CASE band = "LOW" -> 0 [] band = "MODERATE" -> 1 [] band = "HIGH" -> 2 [] OTHER -> 3

\* fireWebhook and DeliverWebhook: --webhook delivers whatever the band.
Due(band) ==
    cmd.hook # "none" /\ Level(band) >= Level(IF cmd.hook = "flag" THEN "LOW" ELSE cmd.hook)

Last == Len(reports)

\* Mutant of AfterNotify: the loop of a batch ends one number early.
AfterNotifyShort ==
    IF cmd.verb = "investigate" THEN "report"
    ELSE IF Last + 1 < Len(cmd.lines) THEN "run" ELSE "csv"

AfterNotify ==
    IF cmd.verb = "investigate" THEN "report"
    ELSE IF Last < Len(cmd.lines) THEN "run" ELSE "csv"

\* One attempt of ten seconds; what becomes of it changes nothing for the
\* command.  A batch has no cases.
Notify ==
    /\ Running("notify")
    /\ IF Due(reports[Last])
       THEN \E ok \in BOOLEAN :
              posts' = Append(posts, [of |-> Last, case |-> CaseOf(0), ok |-> ok])
       ELSE UNCHANGED posts
    /\ GoTo(AfterNotify)
    /\ UNCHANGED <<consented, reports, up, next, cases, closed, files, probed, shown>>

\* writeReport, and the output of a pivot.
Report ==
    /\ Running("report")
    /\ shown' = TRUE /\ outcome' = "ok"
    /\ UNCHANGED <<cmd, at, consented, reports, up, next, cases, closed, posts, files, probed>>

\* writeBatchCSV, then writeBatchJSON: os.Create, then the rows.
Begin(file, then) ==
    /\ Running(file)
    /\ files' = [files EXCEPT ![file] = "begun"]
    /\ GoTo(then)
    /\ UNCHANGED <<consented, reports, up, next, cases, closed, posts, probed, shown>>

Fill(file, stage, then) ==
    /\ Running(stage)
    /\ files' = [files EXCEPT ![file] = "whole"]
    /\ GoTo(then)
    /\ UNCHANGED <<consented, reports, up, next, cases, closed, posts, probed, shown>>

WriteBatchCSV  == Begin("csv", "csv rows") \/ Fill("csv", "csv rows", "json")
WriteBatchJSON == Begin("json", "json rows") \/ Fill("json", "json rows", "summary")

\* writeBatchSummary, left out in triage.
Summarise ==
    /\ Running("summary")
    /\ outcome' = "ok"
    /\ UNCHANGED <<cmd, at, consented, reports, up, next, cases, closed, posts, files,
                   probed, shown>>

\* The output or a file cannot be written.
OutputFails ==
    /\ \/ \E stage \in {"print", "report", "csv", "csv rows", "json", "json rows"} : Running(stage)
       \/ Running("summary") /\ ~cmd.triage
    /\ Fail

Step ==
    \/ Preflight \/ PreflightFails
    \/ Investigate \/ BatchFails \/ ShowLine \/ Crawl
    \/ Save \/ SaveNothing \/ PassOver \/ SaveFails
    \/ Notify \/ Report
    \/ WriteBatchCSV \/ WriteBatchJSON \/ Summarise \/ OutputFails

Kill ==
    /\ outcome = "none"
    /\ outcome' = "killed"
    /\ UNCHANGED <<cmd, at, consented, reports, up, next, cases, closed, posts, files,
                   probed, shown>>

Next == Step \/ Agree \/ Decline \/ Kill

\* The process goes on by itself; the user need not answer, nothing has to kill it.
Spec == Init /\ [][Next]_vars /\ WF_vars(Step)

-------------------------------------------------------------------------------
\* No active module of an investigation runs unless the user said y or passed
\* --yes: the question looks at the flags (opsec.go hasActiveModulesSelected), the
\* engine at each module and what it can do in passive mode.  Pivots ask nothing.
ProbesConsented == probed /\ Investigates => consented \/ cmd.yes

\* Whatever the saves that failed, a saved case has as its parent the case of
\* the investigation it was found in, saved before it, or none when the number
\* itself has no case (root.go saveLinkedInvestigations); nothing is saved twice.
CasesHangTogether ==
    \A i \in DOMAIN cases : LET n == cases[i].of IN
        /\ \A j \in DOMAIN cases : cases[j].of = n => j = i
        /\ n > 0 =>
             \/ \E j \in 1 .. i - 1 : cases[j].of = up[n] /\ cases[i].parent = Earlier + j
             \/ up[n] = 0 /\ cases[i].parent = 0 /\ 0 \in closed
        /\ n = 0 => cases[i].parent = IF cmd.verb = "investigate" THEN 0 ELSE cmd.parent

\* When the webhook of an investigation has gone out or its report is written,
\* each of its investigations is saved unless the database did not open for it
\* or it was found below one that is not, and the webhook names the number's own
\* case (root.go runInvestigation): no receiver is told of a case that is still
\* to come or that failed.
SavedBeforeAnnounced ==
    cmd.verb = "investigate" /\ cmd.save /\ (posts # <<>> \/ shown) =>
        /\ \A n \in 0 .. Len(up) :
             Saved(n) \/ n \in closed \/ (n > 0 /\ up[n] > 0 /\ ~Saved(up[n]))
        /\ \A i \in DOMAIN posts : posts[i].case = CaseOf(0)

\* The reports a webhook is owed for, by what README.md says of --webhook and
\* of the least band.
Owed == {n \in DOMAIN reports :
            \/ cmd.hook = "flag"
            \/ cmd.hook = "LOW"
            \/ cmd.hook = "MODERATE" /\ reports[n] # "LOW"
            \/ cmd.hook = "HIGH" /\ reports[n] \in {"HIGH", "CRITICAL"}
            \/ cmd.hook = "CRITICAL" /\ reports[n] = "CRITICAL"}

\* Each report is announced at most once, in order, as its band asks, and all
\* that are owed have been when the command ends well, delivered or not.
NotifiedByBand ==
    /\ \A i \in DOMAIN posts : posts[i].of \in Owed
    /\ \A i, j \in DOMAIN posts : i < j => posts[i].of < posts[j].of
    /\ outcome = "ok" /\ Investigates => \A n \in Owed : \E i \in DOMAIN posts : posts[i].of = n

\* The files of a batch are begun only when every number of it has its report,
\* the JSON after the CSV, and both are whole when the command ends well.
FilesCoverBatch ==
    /\ files["csv"] # "absent" =>
         Len(reports) = Len(cmd.lines) /\ \A n \in DOMAIN cmd.lines : cmd.lines[n] = "valid"
    /\ files["json"] # "absent" => files["csv"] = "whole"
    /\ cmd.verb = "batch" /\ outcome = "ok" => files = [f \in {"csv", "json"} |-> "whole"]

\* The command ends, whatever fails, unless it waits for the user's answer.
Ends == (at # "prompt") ~> (outcome # "none" \/ at = "prompt")
===============================================================================
