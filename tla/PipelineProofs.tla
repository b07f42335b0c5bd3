---------------------------- MODULE PipelineProofs ----------------------------
(* Proofs about Pipeline for any command lines, any linked investigations and  *)
(* batches of any length.                                                      *)
EXTENDS Pipeline, TLAPS

Asking    == {"start", "prompt"}
Filing    == {"csv", "csv rows", "json", "json rows", "summary"}
Announced == {"notify", "report"}

\* Past the prompt an active run has the user's consent; only then has it probed.
ConsentInv ==
    /\ at \notin Asking /\ Investigates /\ HasActiveModulesSelected =>
         consented \/ cmd.yes
    /\ probed => Probes /\ at \notin Asking

\* Where each kind of command can be.
PlaceInv ==
    /\ at \in {"print"} \cup Filing => cmd.verb = "batch"
    /\ at \in {"crawl", "save", "report"} => cmd.verb # "batch"
    /\ at = "notify" => Investigates
    /\ at = "crawl" => cmd.verb = "investigate"
    /\ at = "prompt" => Investigates

\* The reports of a batch are those of its first numbers, all of them valid.
ValidInv == cmd.verb = "batch" => \A n \in DOMAIN reports : cmd.lines[n] = "valid"

ReportInv ==
    /\ at \in Asking => reports = <<>>
    /\ at = "run" /\ cmd.verb # "batch" => Len(reports) = 0
    /\ at \notin Asking /\ at # "run" => Len(reports) > 0
    /\ Len(reports) <= Len(cmd.lines)
    /\ at = "run" => Len(reports) < Len(cmd.lines)
    /\ at \in Filing => Len(reports) = Len(cmd.lines)

FileInv ==
    /\ files["csv"] = CASE at = "csv rows" -> "begun"
                        [] at \in {"json", "json rows", "summary"} -> "whole"
                        [] OTHER -> "absent"
    /\ files["json"] = CASE at = "json rows" -> "begun"
                         [] at = "summary" -> "whole"
                         [] OTHER -> "absent"

\* The reports whose turn to be announced is over.
Told == IF at \in {"print", "notify", "crawl", "save"} THEN Len(reports) - 1 ELSE Len(reports)

PostInv ==
    /\ posts # <<>> => Investigates
    /\ \A i \in DOMAIN posts : posts[i].of \in Owed /\ posts[i].of <= Told
    /\ \A i, j \in DOMAIN posts : i < j => posts[i].of < posts[j].of
    /\ Investigates =>
         \A n \in Owed : n <= Told => \E i \in DOMAIN posts : posts[i].of = n
    /\ \A i \in DOMAIN posts : posts[i].case = CaseOf(0)

\* Each investigation before the next one is saved, or was not to be.
Early == Asking \cup {"run", "print", "crawl"}
Saves == cmd.verb = "investigate" /\ cmd.save

EarlyInv == at \in Early \/ cmd.verb = "batch" =>
              next = 0 /\ cases = <<>> /\ closed = {} /\ up = <<>>

QueueInv ==
    /\ at = "save" /\ outcome = "none" => next <= Len(up)
    /\ cmd.verb # "investigate" => up = <<>>
    /\ at \in Announced /\ Saves => next = Len(up) + 1

DoneInv ==
    /\ \A i \in DOMAIN cases : cases[i].of < next
    /\ \A n \in 0 .. Len(up) : n < next =>
         Saved(n) \/ n \in closed \/ (n > 0 /\ up[n] > 0 /\ ~Saved(up[n]))

SaveInv == EarlyInv /\ QueueInv /\ DoneInv

EndInv ==
    /\ outcome = "ok" => at \in {"report", "summary"}
    /\ shown => at = "report"
    /\ posts # <<>> /\ cmd.verb = "investigate" => at = "report"

IInv == TypeOK /\ ConsentInv /\ PlaceInv /\ ReportInv /\ ValidInv /\ FileInv /\ PostInv
          /\ SaveInv /\ CasesHangTogether /\ EndInv

-------------------------------------------------------------------------------
\* A step that fails, and a kill, change nothing but the outcome.
Stops == outcome' \in {"error", "killed"}
           /\ UNCHANGED <<cmd, at, consented, reports, up, next, cases, closed, posts,
                          files, probed, shown>>

\* The steps of the command, the failing ones folded into one.
LEMMA Steps ==
    ASSUME [Next]_vars
    PROVE  \/ Stops \/ UNCHANGED vars
           \/ Preflight \/ Agree \/ Investigate \/ ShowLine \/ Crawl
           \/ Save \/ SaveNothing \/ PassOver \/ Notify \/ Report
           \/ Begin("csv", "csv rows") \/ Fill("csv", "csv rows", "json")
           \/ Begin("json", "json rows") \/ Fill("json", "json rows", "summary")
           \/ Summarise
BY DEF Next, Step, Stops, Fail, PreflightFails, BatchFails, SaveFails, OutputFails, Decline,
       Kill, WriteBatchCSV, WriteBatchJSON

\* The lines of a command and the linked investigations, as assumed.
LEMMA Constants ==
    /\ Earlier \in Nat
    /\ \A c \in Commands : c.lines \in Seq(Number) /\ Len(c.lines) \in Nat \ {0} /\ c.parent \in Nat
    /\ \A c \in Commands : c.verb # "batch" => Len(c.lines) = 1
    /\ \A c \in Commands : c.verb = "investigate" => c.parent = 0
    /\ \A u \in Linked : u \in Seq(Nat) /\ \A n \in 1 .. Len(u) : u[n] \in 0 .. n - 1
    /\ <<>> \in Linked
<1>0. \A c \in Commands : c \in Command
  BY CommandsAssumption, Zenon
<1>1. \A c \in Commands : c.lines \in Seq(Number)
  BY CommandsAssumption, Zenon
<1>2. \A c \in Commands : Len(c.lines) \in Nat \ {0}
  <2>1. ASSUME NEW l \in Seq(Number), l \in Lines
        PROVE  Len(l) \in Nat \ {0}
    <3>. PICK k \in 1 .. MaxLines : l \in [1 .. k -> Number]
      BY <2>1 DEF Lines
    <3>1. DOMAIN l = 1 .. k /\ DOMAIN l = 1 .. Len(l) /\ Len(l) \in Nat
      OBVIOUS
    <3>2. 1 \in 1 .. k
      BY BoundsAssumption
    <3>. QED
      BY <3>1, <3>2
  <2>2. ASSUME NEW c \in Command
        PROVE  c.lines \in Lines
    BY DEF Command
  <2>3. \A l \in Seq(Number) : l \in Lines => Len(l) \in Nat \ {0}
    BY <2>1
  <2>. QED
    BY <1>0, <1>1, <2>2, <2>3, Zenon
<1>3. \A c \in Commands : c.parent \in Nat
  <2>1. ASSUME NEW c \in Command
        PROVE  c.parent \in 0 .. Earlier
    BY DEF Command
  <2>2. \A c \in Command : c.parent \in Nat
    BY <2>1, BoundsAssumption
  <2>. QED
    BY <1>0, <2>2, Zenon
<1>4. \A u \in Linked : u \in Seq(Nat) /\ \A n \in 1 .. Len(u) : u[n] \in 0 .. n - 1
  BY LinkedAssumption DEF Forest
<1>5. \A c \in Commands : c.verb # "batch" => Len(c.lines) = 1
  BY CommandsAssumption, Zenon
<1>6. \A c \in Commands : c.verb = "investigate" => c.parent = 0
  <2>1. \A c \in Commands : c.verb \in {"investigate", "batch"} => c.parent = 0
    BY CommandsAssumption, Zenon
  <2>2. "investigate" \in {"investigate", "batch"}
    OBVIOUS
  <2>. QED
    BY <2>1, <2>2, Zenon
<1>. QED
  BY <1>1, <1>2, <1>3, <1>4, <1>5, <1>6, BoundsAssumption, LinkedAssumption

\* What CaseOf returns: the id of a row of that investigation, or 0.
LEMMA CaseOfRow ==
    ASSUME TypeOK, NEW n
    PROVE  /\ ~Saved(n) => CaseOf(n) = 0
           /\ Saved(n) => \E j \in DOMAIN cases : cases[j].of = n /\ CaseOf(n) = Earlier + j
           /\ CaseOf(n) \in Nat
           /\ CaseOf(n) > 0 <=> Saved(n)
<1>1. CASE ~Saved(n)
  BY <1>1 DEF CaseOf
<1>2. CASE Saved(n)
  <2>. DEFINE j == CHOOSE i \in DOMAIN cases : cases[i].of = n
  <2>1. j \in DOMAIN cases /\ cases[j].of = n
    BY <1>2 DEF Saved
  <2>2. CaseOf(n) = Earlier + j
    BY <1>2 DEF CaseOf
  <2>3. j \in Nat /\ j > 0
    BY <2>1 DEF TypeOK
  <2>4. CaseOf(n) \in Nat /\ CaseOf(n) > 0
    BY <2>2, <2>3, Constants
  <2>5. \E k \in DOMAIN cases : cases[k].of = n /\ CaseOf(n) = Earlier + k
    BY <2>1, <2>2
  <2>. QED
    BY <1>2, <2>4, <2>5
<1>. QED
  BY <1>1, <1>2

-------------------------------------------------------------------------------
USE DEF Stops, Running, GoTo

\* What the constants say of this command.
LEMMA CommandFacts ==
    ASSUME TypeOK
    PROVE  /\ cmd.lines \in Seq(Number) /\ Len(cmd.lines) \in Nat \ {0}
           /\ cmd.verb = "investigate" => cmd.parent = 0
           /\ cmd.verb # "batch" => Len(cmd.lines) = 1
           /\ cmd.parent \in Nat
           /\ up \in Seq(Nat) /\ Len(up) \in Nat
           /\ \A n \in 1 .. Len(up) : up[n] \in 0 .. n - 1
           /\ Earlier \in Nat
<1>1. cmd \in Commands /\ up \in Linked
  BY DEF TypeOK
<1>2. Len(up) \in Nat
  BY <1>1, Constants
<1>. QED
  BY <1>1, <1>2, Constants, Zenon

LEMMA TypeStep ==
    ASSUME TypeOK, SaveInv, [Next]_vars
    PROVE  TypeOK'
<1>. USE DEF TypeOK
<1>0. Len(up) \in Nat /\ <<>> \in Linked
  BY Constants
<1>1. CASE Stops \/ UNCHANGED vars \/ ShowLine \/ Report \/ Summarise \/ Agree
  BY <1>1 DEF vars, ShowLine, Report, Summarise, Agree, Stages
<1>2. CASE Preflight
  BY <1>2 DEF Preflight, Stages
<1>3. CASE Investigate
  <2>1. AfterRun \in Stages
    BY DEF AfterRun, Stages
  <2>2. reports' \in Seq(Bands)
    BY <1>3 DEF Investigate
  <2>3. probed' \in BOOLEAN
    BY <1>3, Zenon DEF Investigate, Probes
  <2>. QED
    BY <1>3, <2>1, <2>2, <2>3 DEF Investigate
<1>4. CASE Crawl
  <2>1. next = 0 /\ closed = {}
    BY <1>4 DEF Crawl, SaveInv, EarlyInv, Early
  <2>2. up' \in Linked /\ at' \in Stages
    BY <1>4, <1>0 DEF Crawl, Stages
  <2>3. Len(up') \in Nat
    BY <2>2, Constants
  <2>. QED
    BY <1>4, <2>1, <2>2, <2>3 DEF Crawl
<1>5. CASE Save \/ SaveNothing \/ PassOver
  <2>1. AfterSave \in Stages
    BY DEF AfterSave, Stages
  <2>2. next' = next + 1 /\ next \in 0 .. Len(up) /\ UNCHANGED up
    BY <1>5, <1>0 DEF Save, SaveNothing, PassOver, Saving
  <2>3. ParentOf(next) \in Nat
    <3>1. CaseOf(up[next]) \in Nat
      BY CaseOfRow
    <3>. QED
      BY <3>1, CommandFacts DEF ParentOf
  <2>4. cases' \in Seq([of : Nat, parent : Nat])
    <3>1. CASE Save
      <4>1. [of |-> next, parent |-> ParentOf(next)] \in [of : Nat, parent : Nat]
        BY <2>2, <2>3, <1>0
      <4>2. cases' = Append(cases, [of |-> next, parent |-> ParentOf(next)])
        BY <3>1 DEF Save
      <4>3. cases \in Seq([of : Nat, parent : Nat])
        OBVIOUS
      <4>. HIDE DEF TypeOK
      <4>. QED
        BY <4>1, <4>2, <4>3
    <3>2. CASE SaveNothing \/ PassOver
      BY <3>2 DEF SaveNothing, PassOver
    <3>. QED
      BY <1>5, <3>1, <3>2
  <2>5. closed' \subseteq 0 .. Len(up)
    BY <1>5, <2>2 DEF Save, SaveNothing, PassOver
  <2>6. next' \in 0 .. Len(up') + 1
    BY <2>2, <1>0
  <2>. QED
    BY <1>5, <2>1, <2>2, <2>4, <2>5, <2>6 DEF Save, SaveNothing, PassOver
<1>6. CASE Notify
  <2>1. AfterNotify \in Stages
    BY DEF AfterNotify, Stages
  <2>2. CaseOf(0) \in Nat
    BY CaseOfRow
  <2>3. Last \in Nat
    BY DEF Last
  <2>4. ASSUME NEW ok \in BOOLEAN
        PROVE  Append(posts, [of |-> Last, case |-> CaseOf(0), ok |-> ok])
                 \in Seq([of : Nat, case : Nat, ok : BOOLEAN])
    <3>1. [of |-> Last, case |-> CaseOf(0), ok |-> ok] \in [of : Nat, case : Nat, ok : BOOLEAN]
      BY <2>2, <2>3, Zenon
    <3>2. posts \in Seq([of : Nat, case : Nat, ok : BOOLEAN])
      OBVIOUS
    <3>. HIDE DEF TypeOK
    <3>. QED
      BY <3>1, <3>2
  <2>5. posts' \in Seq([of : Nat, case : Nat, ok : BOOLEAN])
    <3>1. CASE Due(reports[Last])
      BY <1>6, <2>4, <3>1, Zenon DEF Notify
    <3>2. CASE ~Due(reports[Last])
      BY <1>6, <3>2 DEF Notify
    <3>. QED
      BY <3>1, <3>2
  <2>. QED
    BY <1>6, <2>1, <2>5 DEF Notify
<1>7. CASE \/ Begin("csv", "csv rows") \/ Fill("csv", "csv rows", "json")
           \/ Begin("json", "json rows") \/ Fill("json", "json rows", "summary")
  BY <1>7 DEF Begin, Fill, Stages
<1>. QED
  BY <1>1, <1>2, <1>3, <1>4, <1>5, <1>6, <1>7, Steps

\* Where a step leads.
LEMMA Routes ==
    /\ AfterRun \in {"print", "notify", "crawl", "save", "report"}
    /\ cmd.verb = "batch" => AfterRun \in {"print", "notify"}
    /\ cmd.verb = "investigate" => AfterRun \in {"crawl", "save", "notify"}
    /\ cmd.verb = "investigate" /\ cmd.save => AfterRun # "notify"
    /\ cmd.verb \notin {"batch", "investigate"} => AfterRun \in {"save", "report"}
    /\ AfterSave \in {"save", "notify", "report"}
    /\ AfterSave = "notify" => cmd.verb = "investigate"
    /\ cmd.verb = "investigate" => AfterSave # "report"
    /\ AfterNotify \in {"report", "run", "csv"}
    /\ AfterNotify = "report" <=> cmd.verb = "investigate"
<1>1. AfterRun \in {"print", "notify", "crawl", "save", "report"}
  BY DEF AfterRun
<1>2. cmd.verb = "batch" => AfterRun \in {"print", "notify"}
  BY DEF AfterRun
<1>3. cmd.verb = "investigate" => AfterRun \in {"crawl", "save", "notify"}
  BY DEF AfterRun
<1>4. cmd.verb \notin {"batch", "investigate"} => AfterRun \in {"save", "report"}
  BY DEF AfterRun
<1>7. ASSUME cmd.verb = "investigate", cmd.save
      PROVE  AfterRun # "notify"
  <2>1. AfterRun = "crawl" \/ AfterRun = "save"
    <3>1. AfterRun = IF cmd.hop THEN "crawl" ELSE IF cmd.save THEN "save" ELSE "notify"
      BY <1>7 DEF AfterRun
    <3>. QED
      BY <1>7, <3>1, Zenon
  <2>. QED
    BY <2>1
<1>5. /\ AfterSave \in {"save", "notify", "report"}
      /\ AfterSave = "notify" => cmd.verb = "investigate"
      /\ cmd.verb = "investigate" => AfterSave # "report"
  BY DEF AfterSave
<1>6. /\ AfterNotify \in {"report", "run", "csv"}
      /\ AfterNotify = "report" <=> cmd.verb = "investigate"
  BY DEF AfterNotify
<1>. QED
  BY <1>1, <1>2, <1>3, <1>4, <1>5, <1>6, <1>7

LEMMA ConsentStep ==
    ASSUME TypeOK, ConsentInv, [Next]_vars
    PROVE  ConsentInv'
<1>1. CASE /\ UNCHANGED <<cmd, consented, probed>>
           /\ at' \in Asking <=> at \in Asking
  BY <1>1, Zenon DEF ConsentInv, Investigates, HasActiveModulesSelected, Probes
<1>2. CASE Stops \/ UNCHANGED vars \/ Report \/ Summarise
  <2>1. UNCHANGED <<cmd, at>>
    BY <1>2 DEF vars, Report, Summarise
  <2>2. UNCHANGED consented /\ UNCHANGED probed
    BY <1>2, Zenon DEF vars, Report, Summarise
  <2>. QED
    BY <1>1, <2>1, <2>2, Zenon
<1>3. CASE ShowLine \/ Crawl \/ Notify
  BY <1>1, <1>3, Routes DEF ShowLine, Crawl, Notify, Asking
<1>4. CASE Save \/ SaveNothing \/ PassOver
  BY <1>1, <1>4, Routes DEF Save, SaveNothing, PassOver, Saving, Asking
<1>5. CASE \/ Begin("csv", "csv rows") \/ Fill("csv", "csv rows", "json")
           \/ Begin("json", "json rows") \/ Fill("json", "json rows", "summary")
  BY <1>1, <1>5 DEF Begin, Fill, Asking
<1>6. CASE Agree
  <2>1. at \in Asking /\ at' \notin Asking /\ consented' = TRUE /\ UNCHANGED probed
    BY <1>6 DEF Agree, Asking
  <2>. QED
    BY <2>1, Zenon DEF ConsentInv
<1>7. CASE Preflight
  <2>1. at \in Asking /\ UNCHANGED <<cmd, consented, probed>>
    BY <1>7 DEF Preflight, Asking
  <2>2. Investigates /\ HasActiveModulesSelected /\ ~cmd.yes => at' \in Asking
    BY <1>7 DEF Preflight, Asking
  <2>. QED
    BY <2>1, <2>2, Zenon DEF ConsentInv, Investigates, HasActiveModulesSelected, Probes
<1>8. CASE Investigate
  <2>1. at \notin Asking /\ at' \notin Asking /\ UNCHANGED <<cmd, consented>>
    BY <1>8, Routes DEF Investigate, Asking
  <2>2. probed' = (probed \/ Probes)
    BY <1>8, Zenon DEF Investigate
  <2>. QED
    BY <2>1, <2>2, Zenon DEF ConsentInv, Investigates, HasActiveModulesSelected, Probes
<1>. QED
  BY <1>2, <1>3, <1>4, <1>5, <1>6, <1>7, <1>8, Steps

LEMMA PlaceStep ==
    ASSUME TypeOK, PlaceInv, [Next]_vars
    PROVE  PlaceInv'
<1>. USE DEF PlaceInv, Filing, Investigates
<1>1. CASE Stops \/ UNCHANGED vars \/ ShowLine \/ Report \/ Summarise \/ Agree
  BY <1>1 DEF vars, ShowLine, Report, Summarise, Agree
<1>2. CASE Preflight
  BY <1>2 DEF Preflight
<1>3. CASE Investigate
  <2>1. at' = AfterRun /\ UNCHANGED cmd
    BY <1>3 DEF Investigate
  <2>2. cmd.verb = "batch" \/ cmd.verb = "investigate"
          \/ cmd.verb \notin {"batch", "investigate"}
    OBVIOUS
  <2>. QED
    BY <2>1, <2>2, Routes
<1>4. CASE Crawl \/ Save \/ SaveNothing \/ PassOver \/ Notify
  BY <1>4, Routes DEF Crawl, Save, SaveNothing, PassOver, Saving, Notify
<1>5. CASE \/ Begin("csv", "csv rows") \/ Fill("csv", "csv rows", "json")
           \/ Begin("json", "json rows") \/ Fill("json", "json rows", "summary")
  BY <1>5 DEF Begin, Fill
<1>. QED
  BY <1>1, <1>2, <1>3, <1>4, <1>5, Steps

LEMMA FileStep ==
    ASSUME TypeOK, FileInv, [Next]_vars
    PROVE  FileInv'
<1>. USE DEF FileInv, TypeOK
<1>1. CASE Stops \/ UNCHANGED vars \/ ShowLine \/ Report \/ Summarise \/ Agree
  BY <1>1 DEF vars, ShowLine, Report, Summarise, Agree
<1>2. CASE Preflight
  BY <1>2 DEF Preflight
<1>3. CASE Investigate
  BY <1>3 DEF Investigate, AfterRun
<1>4. CASE Crawl \/ Save \/ SaveNothing \/ PassOver \/ Notify
  BY <1>4 DEF Crawl, Save, SaveNothing, PassOver, Saving, AfterSave, Notify, AfterNotify
<1>5. CASE Begin("csv", "csv rows")
  BY <1>5 DEF Begin
<1>6. CASE Fill("csv", "csv rows", "json")
  BY <1>6 DEF Fill
<1>7. CASE Begin("json", "json rows")
  BY <1>7 DEF Begin
<1>8. CASE Fill("json", "json rows", "summary")
  BY <1>8 DEF Fill
<1>. QED
  BY <1>1, <1>2, <1>3, <1>4, <1>5, <1>6, <1>7, <1>8, Steps

\* What steps that do not concern the numbers leave alone.
LEMMA Quiet ==
    /\ Stops \/ UNCHANGED vars \/ Summarise =>
         UNCHANGED <<cmd, at, reports, up, next, cases, closed, posts, files>>
    /\ Report => at = "report" /\ UNCHANGED <<cmd, at, reports, up, next, cases, closed, posts, files>>
    /\ Preflight => /\ at = "start" /\ at' \in {"prompt", "run"}
                    /\ UNCHANGED <<cmd, reports, up, next, cases, closed, posts, files>>
    /\ Agree => /\ at = "prompt" /\ at' = "run"
                /\ UNCHANGED <<cmd, reports, up, next, cases, closed, posts, files>>
    /\ ShowLine => /\ at = "print" /\ at' = "notify"
                /\ UNCHANGED <<cmd, reports, up, next, cases, closed, posts, files>>
BY DEF vars, Report, Summarise, Preflight, Agree, ShowLine

LEMMA ReportStep ==
    ASSUME TypeOK, PlaceInv, ReportInv, ValidInv, [Next]_vars
    PROVE  ReportInv' /\ ValidInv'
<1>0. /\ Len(reports) \in Nat /\ Len(cmd.lines) \in Nat \ {0}
      /\ cmd.verb # "batch" => Len(cmd.lines) = 1
      /\ reports \in Seq(Bands)
  BY CommandFacts DEF TypeOK
<1>1. CASE UNCHANGED <<cmd, reports, at>>
  BY <1>1 DEF ReportInv, ValidInv
<1>7. ASSUME UNCHANGED <<cmd, reports>>
      PROVE  ValidInv'
  BY <1>7 DEF ValidInv
<1>2. CASE Preflight \/ Agree
  <2>1. UNCHANGED <<cmd, reports>> /\ at \in Asking /\ at' \in {"prompt", "run"}
    BY <1>2, Quiet DEF Asking
  <2>2. reports = <<>> /\ Len(reports) = 0
    BY <2>1 DEF ReportInv
  <2>3. /\ reports' = <<>> /\ Len(reports') = 0
        /\ Len(reports') < Len(cmd'.lines) /\ Len(reports') <= Len(cmd'.lines)
    BY <1>0, <2>1, <2>2
  <2>4. at' \notin Filing /\ (at' \in Asking \/ at' = "run")
    BY <2>1 DEF Asking, Filing
  <2>5. ReportInv'
    BY <2>3, <2>4, Zenon DEF ReportInv
  <2>. QED
    BY <1>7, <2>1, <2>5
<1>3. CASE Investigate
  <2>. PICK band \in Bands : reports' = Append(reports, band)
    BY <1>3 DEF Investigate
  <2>1. /\ at = "run" /\ at' = AfterRun /\ UNCHANGED cmd
        /\ cmd.verb = "batch" => cmd.lines[Len(reports) + 1] = "valid"
    BY <1>3 DEF Investigate, Current
  <2>2. Len(reports') = Len(reports) + 1 /\ DOMAIN reports' = 1 .. Len(reports) + 1
    BY <1>0
  <2>3. cmd.verb = "batch" => \A n \in DOMAIN reports' : cmd.lines[n] = "valid"
    <3>1. DOMAIN reports = 1 .. Len(reports)
      BY <1>0
    <3>. QED
      BY <1>0, <2>1, <2>2, <3>1 DEF ValidInv
  <2>4. AfterRun \in {"print", "notify", "crawl", "save", "report"}
    BY Routes
  <2>5. Len(reports) < Len(cmd.lines) /\ (cmd.verb # "batch" => Len(reports) = 0)
    BY <2>1 DEF ReportInv, Asking
  <2>6. /\ Len(cmd'.lines) = Len(cmd.lines)
        /\ at' \in {"print", "notify", "crawl", "save", "report"}
        /\ Len(reports') > 0 /\ Len(reports') <= Len(cmd.lines)
    BY <1>0, <2>1, <2>2, <2>4, <2>5
  <2>8. ReportInv'
    BY <2>6 DEF ReportInv, Asking, Filing
  <2>7. ValidInv'
    BY <2>1, <2>3 DEF ValidInv
  <2>. QED
    BY <2>7, <2>8
<1>4. CASE Crawl \/ Save \/ SaveNothing \/ PassOver \/ ShowLine
  <2>1. /\ UNCHANGED <<cmd, reports>>
        /\ at \in {"crawl", "save", "print"} /\ at' \in {"save", "notify", "report"}
    BY <1>4, Routes, Quiet DEF Crawl, Save, SaveNothing, PassOver, Saving
  <2>2. at = "crawl" \/ at = "save" => cmd.verb # "batch"
    BY DEF PlaceInv
  <2>3. ReportInv'
    BY <1>0, <2>1, <2>2 DEF ReportInv, Asking, Filing
  <2>. QED
    BY <1>7, <2>1, <2>3
<1>5. CASE Notify
  <2>1. at = "notify" /\ at' = AfterNotify /\ UNCHANGED <<cmd, reports>>
    BY <1>5 DEF Notify
  <2>2. AfterNotify = IF cmd.verb = "investigate" THEN "report"
                      ELSE IF Len(reports) < Len(cmd.lines) THEN "run" ELSE "csv"
    BY DEF AfterNotify, Last
  <2>3. cmd.verb = "investigate" \/ cmd.verb = "batch"
    BY <2>1 DEF PlaceInv, Investigates
  <2>4. ReportInv'
    BY <1>0, <2>1, <2>2, <2>3 DEF ReportInv, Asking, Filing
  <2>. QED
    BY <1>7, <2>1, <2>4
<1>6. CASE \/ Begin("csv", "csv rows") \/ Fill("csv", "csv rows", "json")
           \/ Begin("json", "json rows") \/ Fill("json", "json rows", "summary")
  <2>1. UNCHANGED <<cmd, reports>> /\ at \in Filing /\ at' \in Filing
    BY <1>6 DEF Begin, Fill, Filing
  <2>2. cmd.verb = "batch"
    BY <2>1 DEF PlaceInv
  <2>3. ReportInv'
    BY <1>0, <2>1, <2>2 DEF ReportInv, Asking, Filing
  <2>. QED
    BY <1>7, <2>1, <2>3
<1>. QED
  BY <1>1, <1>2, <1>3, <1>4, <1>5, <1>6, Steps, Quiet

LEMMA EndStep ==
    ASSUME TypeOK, PlaceInv, EndInv, [Next]_vars
    PROVE  EndInv'
<1>1. CASE UNCHANGED <<cmd, at, posts>> /\ UNCHANGED shown
             /\ (outcome' = "ok" => outcome = "ok" \/ at \in {"report", "summary"})
  BY <1>1, Zenon DEF EndInv
<1>2. CASE Stops \/ UNCHANGED vars \/ Summarise
  <2>1. UNCHANGED <<cmd, at, posts>>
          /\ (outcome' = "ok" => outcome = "ok" \/ at \in {"report", "summary"})
    BY <1>2, Quiet DEF vars, Summarise
  <2>2. UNCHANGED shown
    BY <1>2, Zenon DEF vars, Summarise
  <2>. QED
    BY <1>1, <2>1, <2>2
<1>3. CASE Report
  BY <1>3 DEF Report, EndInv
<1>4. ASSUME at # "report", at # "summary", UNCHANGED <<cmd, outcome>>, UNCHANGED shown,
             posts' # <<>> /\ cmd.verb = "investigate" => posts # <<>> \/ at' = "report"
      PROVE  EndInv'
  <2>1. outcome # "ok" /\ ~shown /\ ~(posts # <<>> /\ cmd.verb = "investigate")
    BY <1>4, Zenon DEF EndInv
  <2>2. ~shown'
    BY <1>4, <2>1, Zenon
  <2>3. outcome' # "ok" /\ (posts' # <<>> /\ cmd'.verb = "investigate" => at' = "report")
    BY <1>4, <2>1
  <2>. QED
    BY <2>2, <2>3, Zenon DEF EndInv
<1>5. CASE Preflight \/ Agree \/ ShowLine \/ Investigate \/ Crawl \/ Save \/ SaveNothing \/ PassOver
             \/ Begin("csv", "csv rows") \/ Fill("csv", "csv rows", "json")
             \/ Begin("json", "json rows") \/ Fill("json", "json rows", "summary")
  <2>1. at # "report" /\ at # "summary" /\ UNCHANGED <<cmd, outcome, posts>>
    BY <1>5 DEF Preflight, Agree, ShowLine, Investigate, Crawl, Save, SaveNothing, PassOver, Saving,
                Begin, Fill
  <2>2. UNCHANGED shown
    BY <1>5, Zenon DEF Preflight, Agree, ShowLine, Investigate, Crawl, Save, SaveNothing, PassOver,
                       Begin, Fill
  <2>. QED
    BY <1>4, <2>1, <2>2
<1>6. CASE Notify
  <2>1. at = "notify" /\ UNCHANGED <<cmd, outcome>> /\ at' = AfterNotify
    BY <1>6 DEF Notify
  <2>2. UNCHANGED shown
    BY <1>6, Zenon DEF Notify
  <2>. QED
    BY <1>4, <2>1, <2>2, Routes
<1>. QED
  BY <1>2, <1>3, <1>5, <1>6, Steps

LEMMA ElementOf ==
    ASSUME NEW S, NEW s \in Seq(S), NEW i \in DOMAIN s
    PROVE  s[i] \in S
OBVIOUS

\* The investigation of a row is a number.
LEMMA RowTyped ==
    ASSUME TypeOK
    PROVE  \A i \in DOMAIN cases : cases[i].of \in Nat
<1>1. cases \in Seq([of : Nat, parent : Nat])
  BY DEF TypeOK
<1>2. ASSUME NEW i \in DOMAIN cases
      PROVE  cases[i].of \in Nat
  <2>1. cases[i] \in [of : Nat, parent : Nat]
    BY <1>1, ElementOf, Zenon
  <2>. QED
    BY <2>1
<1>. QED
  BY <1>2

\* What a step through the queue does to the rows.
LEMMA RowAdded ==
    ASSUME TypeOK, Save
    PROVE  /\ Len(cases) \in Nat /\ DOMAIN cases = 1 .. Len(cases)
           /\ DOMAIN cases' = 1 .. Len(cases) + 1
           /\ \A i \in 1 .. Len(cases) : cases'[i] = cases[i]
           /\ cases'[Len(cases) + 1] = [of |-> next, parent |-> ParentOf(next)]
           /\ \A n : Saved(n)' <=> Saved(n) \/ n = next
<1>. DEFINE row == [of |-> next, parent |-> ParentOf(next)]
<1>1. cases' = Append(cases, row)
  BY DEF Save
<1>2. cases \in Seq([of : Nat, parent : Nat])
  BY DEF TypeOK
<1>. HIDE DEF row
<1>3. /\ Len(cases) \in Nat /\ DOMAIN cases = 1 .. Len(cases)
      /\ DOMAIN cases' = 1 .. Len(cases) + 1
      /\ \A i \in 1 .. Len(cases) : cases'[i] = cases[i]
      /\ cases'[Len(cases) + 1] = row
  BY <1>1, <1>2
<1>4. row.of = next
  BY DEF row
<1>5. ASSUME NEW n
      PROVE  Saved(n)' <=> Saved(n) \/ n = next
  BY <1>3, <1>4 DEF Saved
<1>. QED
  BY <1>3, <1>5 DEF row

LEMMA SavedOnes ==
    ASSUME TypeOK, DoneInv, Save \/ SaveNothing \/ PassOver
    PROVE  DoneInv'
<1>0. /\ Len(up) \in Nat /\ next \in Nat /\ UNCHANGED up /\ next' = next + 1
      /\ \A n \in 1 .. Len(up) : up[n] \in 0 .. n - 1
      /\ next <= Len(up)
  BY CommandFacts DEF TypeOK, Save, SaveNothing, PassOver, Saving
<1>b. \A i \in DOMAIN cases : cases[i].of \in Nat
  BY RowTyped
<1>1. CASE Save
  <2>1. \A i \in DOMAIN cases' : cases'[i].of < next'
    <3>1. \A i \in DOMAIN cases : cases[i].of < next'
      BY <1>0, <1>b DEF DoneInv
    <3>2. /\ DOMAIN cases = 1 .. Len(cases) /\ Len(cases) \in Nat
          /\ DOMAIN cases' = 1 .. Len(cases) + 1
          /\ \A i \in 1 .. Len(cases) : cases'[i] = cases[i]
      BY <1>1, RowAdded
    <3>3. cases'[Len(cases) + 1].of < next'
      BY <1>0, <1>1, RowAdded
    <3>. QED
      BY <3>1, <3>2, <3>3
  <2>2. ASSUME NEW n \in 0 .. Len(up), n < next'
        PROVE  Saved(n)' \/ n \in closed' \/ (n > 0 /\ up[n] > 0 /\ ~Saved(up[n])')
    <3>1. CASE n = next
      BY <1>1, <3>1, RowAdded
    <3>2. CASE n < next
      <4>1. n > 0 => up[n] # next
        BY <1>0, <3>2
      <4>2. Saved(n) \/ n \in closed \/ (n > 0 /\ up[n] > 0 /\ ~Saved(up[n]))
        BY <3>2 DEF DoneInv
      <4>3. UNCHANGED closed
        BY <1>1 DEF Save
      <4>. QED
        BY <1>0, <1>1, <4>1, <4>2, <4>3, RowAdded, Zenon
    <3>. QED
      BY <1>0, <2>2, <3>1, <3>2
  <2>. QED
    BY <1>0, <2>1, <2>2 DEF DoneInv
<1>2. CASE SaveNothing \/ PassOver
  <2>1. UNCHANGED cases /\ closed \subseteq closed'
    BY <1>2 DEF SaveNothing, PassOver
  <2>2. \A n : Saved(n)' <=> Saved(n)
    BY <2>1 DEF Saved
  <2>3. next \in closed' \/ (next > 0 /\ up[next] > 0 /\ ~Saved(up[next]))
    <3>1. CASE SaveNothing
      BY <3>1 DEF SaveNothing
    <3>2. CASE PassOver
      <4>1. next > 0 /\ up[next] > 0 /\ ~(CaseOf(up[next]) > 0)
        BY <3>2 DEF PassOver, Reached
      <4>. QED
        BY <4>1, CaseOfRow
    <3>. QED
      BY <1>2, <3>1, <3>2
  <2>4. \A i \in DOMAIN cases' : cases'[i].of < next'
    BY <1>0, <1>b, <2>1 DEF DoneInv
  <2>5. ASSUME NEW n \in 0 .. Len(up), n < next'
        PROVE  Saved(n)' \/ n \in closed' \/ (n > 0 /\ up[n] > 0 /\ ~Saved(up[n])')
    <3>1. n = next \/ n < next
      BY <1>0, <2>5
    <3>2. n < next => Saved(n) \/ n \in closed \/ (n > 0 /\ up[n] > 0 /\ ~Saved(up[n]))
      BY DEF DoneInv
    <3>. QED
      BY <1>0, <2>1, <2>2, <2>3, <3>1, <3>2, Zenon
  <2>. QED
    BY <1>0, <2>4, <2>5 DEF DoneInv
<1>. QED
  BY <1>1, <1>2

LEMMA SaveStep ==
    ASSUME TypeOK, PlaceInv, SaveInv, [Next]_vars
    PROVE  SaveInv'
<1>0. Len(up) \in Nat /\ next \in Nat /\ cases \in Seq([of : Nat, parent : Nat])
  BY CommandFacts DEF TypeOK
<1>a. ASSUME UNCHANGED cmd
      PROVE  Saves' <=> Saves
  BY <1>a, Zenon DEF Saves
<1>1. ASSUME UNCHANGED <<cmd, up, next, cases, closed>>,
             at' \in Early => at \in Early \/ cmd.verb = "batch",
             at' = "save" /\ outcome' = "none" => (at = "save" /\ outcome = "none") \/ at = "run",
             at' \in Announced /\ Saves => at \in Announced
      PROVE  SaveInv'
  <2>1. EarlyInv'
    BY <1>1 DEF SaveInv, EarlyInv
  <2>2. at = "run" => next = 0
    BY DEF SaveInv, EarlyInv, Early
  <2>3. at' = "save" /\ outcome' = "none" => next' <= Len(up')
    BY <1>0, <1>1, <2>2 DEF SaveInv, QueueInv
  <2>4. at' \in Announced /\ Saves' => next' = Len(up') + 1
    BY <1>1, <1>a, Zenon DEF SaveInv, QueueInv
  <2>5. QueueInv'
    BY <1>1, <2>3, <2>4 DEF SaveInv, QueueInv
  <2>6. DoneInv'
    BY <1>1 DEF SaveInv, DoneInv, Saved
  <2>. QED
    BY <2>1, <2>5, <2>6 DEF SaveInv
<1>2. CASE Stops \/ UNCHANGED vars \/ Report \/ Summarise
  <2>1. UNCHANGED <<cmd, at, up, next, cases, closed>>
    BY <1>2, Quiet
  <2>2. outcome' = "none" => outcome = "none"
    BY <1>2 DEF vars, Report, Summarise
  <2>. QED
    BY <1>1, <2>1, <2>2
<1>3. CASE Preflight \/ Agree \/ ShowLine
  <2>1. /\ UNCHANGED <<cmd, up, next, cases, closed>>
        /\ at \in Early /\ at' # "save" /\ (at' \in Announced => at = "print")
    BY <1>3, Quiet DEF Early, Asking, Announced
  <2>2. at = "print" => cmd.verb # "investigate"
    BY DEF PlaceInv, Filing
  <2>. QED
    BY <1>1, <2>1, <2>2 DEF Saves
<1>4. CASE Investigate
  <2>1. UNCHANGED <<cmd, up, next, cases, closed>> /\ at = "run" /\ at' = AfterRun
    BY <1>4 DEF Investigate
  <2>2. at \in Early
    BY <2>1 DEF Early
  <2>3. Saves => AfterRun # "notify" /\ AfterRun # "report"
    <3>1. Saves => cmd.verb = "investigate" /\ AfterRun # "notify"
      BY Routes, Zenon DEF Saves
    <3>. QED
      BY <3>1, Routes
  <2>. QED
    BY <1>1, <2>1, <2>2, <2>3 DEF Announced
<1>5. CASE Notify
  <2>1. UNCHANGED <<cmd, up, next, cases, closed>> /\ at = "notify" /\ at' = AfterNotify
    BY <1>5 DEF Notify
  <2>2. cmd.verb = "investigate" \/ cmd.verb = "batch"
    BY <2>1 DEF PlaceInv, Investigates
  <2>3. AfterNotify \in {"report", "run", "csv"} /\ (AfterNotify = "run" => cmd.verb = "batch")
    BY <2>2, Routes
  <2>. QED
    BY <1>1, <2>1, <2>3 DEF Announced, Early, Asking
<1>6. CASE \/ Begin("csv", "csv rows") \/ Fill("csv", "csv rows", "json")
           \/ Begin("json", "json rows") \/ Fill("json", "json rows", "summary")
  <2>1. /\ UNCHANGED <<cmd, up, next, cases, closed>>
        /\ at' \notin Early /\ at' \notin Announced /\ at' # "save"
    BY <1>6 DEF Begin, Fill, Early, Announced, Asking
  <2>. QED
    BY <1>1, <2>1
<1>7. CASE Crawl
  <2>1. /\ at = "crawl" /\ UNCHANGED <<cmd, next, cases, closed>> /\ up' \in Linked
        /\ at' \in {"save", "notify"}
    BY <1>7, Constants DEF Crawl
  <2>2. /\ cmd.verb = "investigate" /\ next = 0 /\ cases = <<>>
    BY <2>1 DEF PlaceInv, SaveInv, EarlyInv, Early
  <2>3. Saves => at' = "save"
    BY <1>7, Zenon DEF Crawl, Saves
  <2>4. Len(up') \in Nat
    BY <2>1, Constants
  <2>5. EarlyInv'
    BY <2>1, <2>2 DEF EarlyInv, Early, Asking
  <2>6. at' \in Announced => ~Saves'
    BY <1>a, <2>1, <2>3 DEF Announced
  <2>7. QueueInv'
    <3>1. next' <= Len(up')
      BY <2>1, <2>2, <2>4
    <3>2. cmd'.verb = "investigate"
      BY <2>1, <2>2
    <3>. QED
      BY <2>6, <3>1, <3>2, Zenon DEF QueueInv
  <2>8. DoneInv'
    BY <2>1, <2>2 DEF DoneInv
  <2>. QED
    BY <2>5, <2>7, <2>8 DEF SaveInv
<1>8. CASE Save \/ SaveNothing \/ PassOver
  <2>1. /\ at = "save" /\ outcome = "none" /\ UNCHANGED <<cmd, up>>
        /\ next' = next + 1 /\ next <= Len(up) /\ at' = AfterSave
    BY <1>8 DEF Save, SaveNothing, PassOver, Saving
  <2>2. cmd.verb # "batch"
    BY <2>1 DEF PlaceInv
  <2>3. AfterSave = IF next < Len(up) THEN "save"
                    ELSE IF cmd.verb = "investigate" THEN "notify" ELSE "report"
    BY DEF AfterSave
  <2>4. EarlyInv'
    BY <2>1, <2>2, <2>3 DEF EarlyInv, Early, Asking
  <2>5. at' = "save" => next' <= Len(up')
    BY <1>0, <2>1, <2>3
  <2>6. at' \in Announced => next' = Len(up') + 1
    BY <1>0, <2>1, <2>3 DEF Announced
  <2>7. cmd'.verb # "investigate" => up' = <<>>
    BY <2>1 DEF SaveInv, QueueInv
  <2>8. QueueInv'
    BY <2>5, <2>6, <2>7, Zenon DEF QueueInv
  <2>9. DoneInv'
    BY <1>8, SavedOnes DEF SaveInv
  <2>. QED
    BY <2>4, <2>8, <2>9 DEF SaveInv
<1>. QED
  BY <1>2, <1>3, <1>4, <1>5, <1>6, <1>7, <1>8, Steps

\* What CasesHangTogether says of one row.
RowHangs(i) == LET n == cases[i].of IN
    /\ \A j \in DOMAIN cases : cases[j].of = n => j = i
    /\ n > 0 =>
         \/ \E j \in 1 .. i - 1 : cases[j].of = up[n] /\ cases[i].parent = Earlier + j
         \/ up[n] = 0 /\ cases[i].parent = 0 /\ 0 \in closed
    /\ n = 0 => cases[i].parent = IF cmd.verb = "investigate" THEN 0 ELSE cmd.parent

LEMMA ChainStep ==
    ASSUME TypeOK, PlaceInv, SaveInv, CasesHangTogether, [Next]_vars
    PROVE  CasesHangTogether'
<1>1. CASE UNCHANGED <<cmd, up, cases>> /\ closed \subseteq closed'
  BY <1>1 DEF CasesHangTogether
<1>2. CASE \/ Stops \/ UNCHANGED vars \/ Report \/ Summarise \/ Preflight \/ Agree \/ ShowLine
           \/ Investigate \/ Notify \/ SaveNothing \/ PassOver
           \/ Begin("csv", "csv rows") \/ Fill("csv", "csv rows", "json")
           \/ Begin("json", "json rows") \/ Fill("json", "json rows", "summary")
  <2>1. UNCHANGED <<cmd, up, cases>> /\ closed \subseteq closed'
    BY <1>2, Quiet DEF Investigate, Notify, SaveNothing, PassOver, Begin, Fill
  <2>. QED
    BY <1>1, <2>1
<1>3. CASE Crawl
  <2>1. cases = <<>> /\ UNCHANGED cases
    BY <1>3 DEF Crawl, SaveInv, EarlyInv, Early
  <2>. QED
    BY <2>1 DEF CasesHangTogether
<1>4. CASE Save
  <2>. PICK last : last = Len(cases) + 1
    OBVIOUS
  <2>0. /\ Len(cases) \in Nat /\ DOMAIN cases = 1 .. Len(cases)
        /\ DOMAIN cases' = 1 .. Len(cases) + 1
        /\ \A i \in 1 .. Len(cases) : cases'[i] = cases[i]
        /\ cases'[last].of = next /\ cases'[last].parent = ParentOf(next)
    BY <1>4, RowAdded
  <2>1. /\ UNCHANGED <<cmd, up, closed>> /\ next \in Nat /\ next <= Len(up) /\ Reached(next)
        /\ at = "save" /\ Len(up) \in Nat /\ Earlier \in Nat
        /\ \A n \in 1 .. Len(up) : up[n] \in 0 .. n - 1
    BY <1>4, CommandFacts DEF Save, Saving, TypeOK
  <2>2. \A i \in 1 .. Len(cases) : cases[i].of < next /\ cases[i].of \in Nat
    BY <2>0, RowTyped DEF SaveInv, DoneInv
  <2>3. ASSUME NEW i \in 1 .. Len(cases)
        PROVE  RowHangs(i)'
    <3>1. RowHangs(i)
      BY <2>0 DEF CasesHangTogether, RowHangs
    <3>2. cases'[i] = cases[i] /\ \A j \in 1 .. i - 1 : cases'[j] = cases[j]
      BY <2>0
    <3>3. ASSUME NEW j \in DOMAIN cases', cases'[j].of = cases[i].of
          PROVE  j = i
      BY <2>0, <2>2, <3>1, <3>3 DEF RowHangs
    <3>. QED
      BY <2>1, <3>1, <3>2, <3>3 DEF RowHangs
  <2>4. RowHangs(last)'
    <3>1. \A j \in DOMAIN cases' : cases'[j].of = next => j = last
      BY <2>0, <2>2
    <3>2. ASSUME next > 0
          PROVE  \/ \E j \in 1 .. Len(cases) : cases[j].of = up[next]
                                               /\ ParentOf(next) = Earlier + j
                 \/ up[next] = 0 /\ ParentOf(next) = 0 /\ 0 \in closed
      <4>1. ParentOf(next) = CaseOf(up[next])
        BY <3>2 DEF ParentOf
      <4>2. CASE Saved(up[next])
        BY <2>0, <4>1, <4>2, CaseOfRow
      <4>3. CASE ~Saved(up[next])
        <5>1. CaseOf(up[next]) = 0
          BY <4>3, CaseOfRow
        <5>2. up[next] = 0
          BY <2>1, <3>2, <5>1 DEF Reached
        <5>3. 0 \in closed
          BY <2>1, <3>2, <4>3, <5>2 DEF SaveInv, DoneInv
        <5>. QED
          BY <4>1, <5>1, <5>2, <5>3
      <4>. QED
        BY <4>2, <4>3
    <3>3. next = 0 => ParentOf(next) = IF cmd.verb = "investigate" THEN 0 ELSE cmd.parent
      <4>1. next = 0 => ParentOf(next) = cmd.parent
        BY DEF ParentOf
      <4>2. cmd.verb = "investigate" => cmd.parent = 0
        BY CommandFacts
      <4>. QED
        BY <4>1, <4>2
    <3>4. ASSUME NEW j \in 1 .. Len(cases), cases[j].of = up[next]
          PROVE  j \in 1 .. last - 1 /\ cases'[j].of = up'[next]
      BY <2>0, <2>1, <3>4
    <3>. QED
      BY <2>0, <2>1, <3>1, <3>2, <3>3, <3>4 DEF RowHangs
  <2>5. \A i \in DOMAIN cases' : RowHangs(i)'
    BY <2>0, <2>3, <2>4
  <2>. QED
    BY <2>5 DEF CasesHangTogether, RowHangs
<1>. QED
  BY <1>2, <1>3, <1>4, Steps

\* A webhook is sent for a report exactly when one is owed for it.
LEMMA DueIsOwed ==
    ASSUME TypeOK, Len(reports) > 0
    PROVE  Due(reports[Last]) <=> Last \in Owed
<1>1. Last \in DOMAIN reports /\ reports[Last] \in Bands
  BY DEF TypeOK, Last
<1>2. cmd.hook \in {"none", "flag"} \cup Bands
  <2>1. ASSUME NEW c \in Command
        PROVE  c.hook \in {"none", "flag"} \cup Bands
    BY DEF Command
  <2>2. cmd \in Command
    BY CommandsAssumption, Zenon DEF TypeOK
  <2>. QED
    BY <2>1, <2>2
<1>3. ASSUME NEW band \in Bands
      PROVE  /\ band = "LOW" => Level(band) = 0
             /\ band = "MODERATE" => Level(band) = 1
             /\ band = "HIGH" => Level(band) = 2
             /\ band = "CRITICAL" => Level(band) = 3
  BY DEF Level
<1>4. Level("LOW") = 0 /\ Level("MODERATE") = 1 /\ Level("HIGH") = 2 /\ Level("CRITICAL") = 3
  BY <1>3 DEF Bands
<1>5. cmd.hook = "none" => ~Due(reports[Last]) /\ Last \notin Owed
  BY DEF Due, Owed
<1>6. cmd.hook = "flag" => Due(reports[Last]) /\ Last \in Owed
  BY <1>1, <1>3, <1>4 DEF Due, Owed, Bands
<1>7. cmd.hook \in Bands => (Due(reports[Last]) <=> Level(reports[Last]) >= Level(cmd.hook))
  BY DEF Due, Bands
<1>8. cmd.hook \in Bands => (Last \in Owed <=> Level(reports[Last]) >= Level(cmd.hook))
  BY <1>1, <1>3, <1>4 DEF Owed, Bands
<1>. QED
  BY <1>2, <1>5, <1>6, <1>7, <1>8

LEMMA PostStep ==
    ASSUME TypeOK, PlaceInv, ReportInv, EndInv, PostInv, [Next]_vars
    PROVE  PostInv'
<1>0. Len(reports) \in Nat /\ Len(posts) \in Nat
  BY DEF TypeOK
<1>1. ASSUME UNCHANGED <<cmd, reports, posts, cases>>, Told' = Told
      PROVE  PostInv'
  <2>1. Owed' = Owed /\ CaseOf(0)' = CaseOf(0) /\ (Investigates' <=> Investigates)
    BY <1>1 DEF Owed, CaseOf, Saved, Investigates
  <2>. QED
    BY <1>1, <2>1 DEF PostInv
<1>2. ASSUME ~Investigates', posts' = <<>>
      PROVE  PostInv'
  BY <1>2 DEF PostInv
<1>3. CASE \/ Stops \/ UNCHANGED vars \/ Report \/ Summarise \/ Preflight \/ Agree \/ ShowLine
           \/ Crawl
           \/ Begin("csv", "csv rows") \/ Fill("csv", "csv rows", "json")
           \/ Begin("json", "json rows") \/ Fill("json", "json rows", "summary")
  <2>1. UNCHANGED <<cmd, reports, posts, cases>>
          /\ (at' \in {"print", "notify", "crawl", "save"} <=> at \in {"print", "notify", "crawl", "save"})
    BY <1>3, Quiet DEF Crawl, Begin, Fill
  <2>2. Told' = Told
    BY <2>1 DEF Told
  <2>. QED
    BY <1>1, <2>1, <2>2
<1>4. CASE Save \/ SaveNothing \/ PassOver
  <2>1. /\ at = "save" /\ UNCHANGED <<cmd, reports, posts>> /\ at' = AfterSave
    BY <1>4 DEF Save, SaveNothing, PassOver, Saving
  <2>2. posts = <<>>
    BY <2>1 DEF PostInv, EndInv, PlaceInv, Investigates
  <2>3. CASE ~Investigates
    <3>1. ~Investigates'
      BY <2>1, <2>3 DEF Investigates
    <3>. QED
      BY <1>2, <2>1, <2>2, <3>1
  <2>4. CASE Investigates
    <3>1. AfterSave \in {"save", "notify"}
      BY <2>1, <2>4, Routes DEF Investigates, PlaceInv
    <3>2. Told' = Told /\ Owed' = Owed /\ (Investigates' <=> Investigates)
      BY <2>1, <3>1 DEF Told, Owed, Investigates
    <3>. QED
      BY <2>1, <2>2, <3>2 DEF PostInv
  <2>. QED
    BY <2>3, <2>4
<1>5. CASE Investigate
  <2>. PICK band \in Bands : reports' = Append(reports, band)
    BY <1>5 DEF Investigate
  <2>1. at = "run" /\ at' = AfterRun /\ UNCHANGED <<cmd, posts, cases>>
    BY <1>5 DEF Investigate
  <2>2. CASE ~Investigates
    <3>1. ~Investigates' /\ posts' = <<>>
      BY <2>1, <2>2 DEF Investigates, PostInv
    <3>. QED
      BY <1>2, <3>1
  <2>3. CASE Investigates
    <3>1. AfterRun \in {"print", "notify", "crawl", "save"}
      BY <2>3, Routes DEF Investigates
    <3>2. /\ DOMAIN reports = 1 .. Len(reports) /\ DOMAIN reports' = 1 .. Len(reports) + 1
          /\ \A n \in 1 .. Len(reports) : reports'[n] = reports[n]
          /\ Len(reports') = Len(reports) + 1
      <4>1. reports \in Seq(Bands)
        BY DEF TypeOK
      <4>. QED
        BY <4>1
    <3>3. Told = Len(reports) /\ Told' = Len(reports)
      BY <1>0, <2>1, <3>1, <3>2 DEF Told
    <3>4. \A n \in 1 .. Len(reports) : n \in Owed' <=> n \in Owed
      BY <2>1, <3>2 DEF Owed
    <3>5. Owed \subseteq 1 .. Len(reports) /\ Owed' \subseteq 1 .. Len(reports) + 1
      BY <3>2 DEF Owed
    <3>6. CaseOf(0)' = CaseOf(0) /\ Investigates'
      BY <2>1, <2>3 DEF CaseOf, Saved, Investigates
    <3>7. \A i \in DOMAIN posts : posts[i].of \in Owed' /\ posts[i].of <= Told'
      BY <3>3, <3>4, <3>5 DEF PostInv
    <3>8. \A n \in Owed' : n <= Told' => n \in Owed /\ n <= Told
      BY <1>0, <3>3, <3>4, <3>5
    <3>. QED
      BY <2>1, <2>3, <3>6, <3>7, <3>8 DEF PostInv
  <2>. QED
    BY <2>2, <2>3
<1>6. CASE Notify
  <2>1. at = "notify" /\ at' = AfterNotify /\ UNCHANGED <<cmd, reports, cases>>
    BY <1>6 DEF Notify
  <2>2. Investigates /\ Investigates' /\ Owed' = Owed /\ CaseOf(0)' = CaseOf(0)
    BY <2>1 DEF PlaceInv, Investigates, Owed, CaseOf, Saved
  <2>3. Len(reports) > 0 /\ Last = Len(reports)
    BY <2>1 DEF ReportInv, Asking, Last
  <2>4. Told = Last - 1 /\ Told' = Last
    BY <2>1, <2>3, Routes DEF Told
  <2>5. Owed \subseteq 1 .. Last
    BY <2>3 DEF Owed, TypeOK
  <2>6. CASE Last \notin Owed
    <3>1. UNCHANGED posts
      BY <1>6, <2>3, <2>6, DueIsOwed DEF Notify
    <3>2. \A n \in Owed : n <= Last => n <= Last - 1
      BY <1>0, <2>3, <2>5, <2>6
    <3>3. \A n \in Owed : n <= Last - 1 => n <= Last
      BY <1>0, <2>3, <2>5
    <3>. QED
      BY <2>2, <2>4, <3>1, <3>2, <3>3 DEF PostInv
  <2>7. CASE Last \in Owed
    <3>. PICK ok \in BOOLEAN : posts' = Append(posts, [of |-> Last, case |-> CaseOf(0), ok |-> ok])
      BY <1>6, <2>3, <2>7, DueIsOwed, Zenon DEF Notify
    <3>. PICK new : new = [of |-> Last, case |-> CaseOf(0), ok |-> ok]
      OBVIOUS
    <3>1. new.of = Last /\ new.case = CaseOf(0) /\ posts' = Append(posts, new)
      OBVIOUS
    <3>2. /\ DOMAIN posts = 1 .. Len(posts) /\ DOMAIN posts' = 1 .. Len(posts) + 1
          /\ \A i \in 1 .. Len(posts) : posts'[i] = posts[i]
          /\ posts'[Len(posts) + 1] = new
      <4>1. posts \in Seq([of : Nat, case : Nat, ok : BOOLEAN])
        BY DEF TypeOK
      <4>. QED
        BY <3>1, <4>1
    <3>3. \A i \in 1 .. Len(posts) : posts[i].of \in Owed /\ posts[i].of <= Last - 1
      BY <2>4, <3>2 DEF PostInv
    <3>9. Last \in Nat /\ Owed \subseteq Nat
      BY <1>0, <2>3, <2>5
    <3>10. \A a \in Owed : a <= Last - 1 => a < Last /\ a <= Last
      BY <3>9
    <3>4. ASSUME NEW i \in DOMAIN posts'
          PROVE  posts'[i].of \in Owed /\ posts'[i].of <= Last
      <4>1. CASE i = Len(posts) + 1
        BY <2>7, <3>1, <3>2, <3>9, <4>1
      <4>2. CASE i \in 1 .. Len(posts)
        <5>1. posts'[i].of = posts[i].of /\ posts[i].of \in Owed /\ posts[i].of <= Last - 1
          BY <3>2, <3>3, <4>2
        <5>. QED
          BY <3>10, <5>1, Zenon
      <4>. QED
        BY <1>0, <3>2, <4>1, <4>2
    <3>5. ASSUME NEW i \in DOMAIN posts', NEW j \in DOMAIN posts', i < j
          PROVE  posts'[i].of < posts'[j].of
      <4>1. i \in 1 .. Len(posts) /\ posts'[i].of = posts[i].of
        BY <1>0, <3>2, <3>5
      <4>2. CASE j = Len(posts) + 1
        <5>1. posts[i].of \in Owed /\ posts[i].of <= Last - 1 /\ posts'[j].of = Last
          BY <3>1, <3>2, <3>3, <4>1, <4>2
        <5>. QED
          BY <3>10, <4>1, <5>1, Zenon
      <4>3. CASE j \in 1 .. Len(posts)
        BY <3>2, <3>5, <4>1, <4>3 DEF PostInv
      <4>. QED
        BY <1>0, <3>2, <4>2, <4>3
    <3>6. ASSUME NEW n \in Owed
          PROVE  \E i \in DOMAIN posts' : posts'[i].of = n
      <4>1. CASE n = Last
        BY <1>0, <3>1, <3>2, <4>1
      <4>2. CASE n <= Last - 1
        BY <1>0, <2>2, <2>4, <3>2, <4>2 DEF PostInv
      <4>. QED
        BY <1>0, <2>3, <2>5, <4>1, <4>2
    <3>7. \A i \in DOMAIN posts' : posts'[i].case = CaseOf(0)
      BY <1>0, <3>1, <3>2 DEF PostInv
    <3>8. posts' # <<>> => Investigates'
      BY <2>2
    <3>. QED
      BY <2>2, <2>4, <3>4, <3>5, <3>6, <3>7, <3>8 DEF PostInv
  <2>. QED
    BY <2>6, <2>7
<1>. QED
  BY <1>3, <1>4, <1>5, <1>6, Steps

-------------------------------------------------------------------------------
LEMMA InitInvariant ==
    ASSUME Init
    PROVE  IInv
<1>1. cmd \in Commands /\ up \in Linked /\ Len(up) = 0 /\ reports \in Seq(Bands)
  BY Constants DEF Init
<1>2. TypeOK
  <2>1. consented \in BOOLEAN /\ probed \in BOOLEAN /\ shown \in BOOLEAN
    BY Zenon DEF Init
  <2>2. /\ cases \in Seq([of : Nat, parent : Nat])
        /\ posts \in Seq([of : Nat, case : Nat, ok : BOOLEAN])
        /\ files \in [{"csv", "json"} -> {"absent", "begun", "whole"}]
    BY DEF Init
  <2>3. at \in Stages /\ outcome \in {"none", "ok", "error", "killed"} /\ next = 0 /\ closed = {}
    BY DEF Init, Stages
  <2>. QED
    BY <1>1, <2>1, <2>2, <2>3 DEF TypeOK
<1>3. ConsentInv
  <2>1. at \in Asking /\ probed = FALSE
    BY DEF Init, Asking
  <2>. QED
    BY <2>1, Zenon DEF ConsentInv
<1>4. PlaceInv
  BY DEF Init, PlaceInv, Filing
<1>5. ReportInv /\ ValidInv
  <2>1. Len(cmd.lines) \in Nat /\ Len(reports) = 0
    BY <1>2, CommandFacts DEF Init
  <2>. QED
    BY <2>1 DEF Init, ReportInv, ValidInv, Asking, Filing
<1>6. FileInv
  BY DEF Init, FileInv
<1>7. PostInv
  <2>1. posts = <<>> /\ Told = 0 /\ DOMAIN reports = {}
    BY DEF Init, Told
  <2>. QED
    BY <2>1 DEF PostInv, Owed
<1>8. SaveInv
  BY <1>1 DEF Init, SaveInv, EarlyInv, QueueInv, DoneInv, Announced
<1>9. CasesHangTogether
  BY DEF Init, CasesHangTogether
<1>10. EndInv
  <2>1. outcome = "none" /\ posts = <<>>
    BY DEF Init
  <2>2. shown = FALSE
    BY DEF Init
  <2>3. outcome # "ok"
    BY <2>1
  <2>. QED
    BY <2>1, <2>2, <2>3, Zenon DEF EndInv
<1>. QED
  BY <1>2, <1>3, <1>4, <1>5, <1>6, <1>7, <1>8, <1>9, <1>10 DEF IInv

LEMMA StepInvariant ==
    ASSUME IInv, [Next]_vars
    PROVE  IInv'
<1>1. TypeOK' /\ ConsentInv' /\ PlaceInv'
  BY TypeStep, ConsentStep, PlaceStep, Zenon DEF IInv
<1>2. ReportInv' /\ ValidInv' /\ FileInv'
  BY ReportStep, FileStep, Zenon DEF IInv
<1>3. PostInv' /\ SaveInv' /\ CasesHangTogether' /\ EndInv'
  BY PostStep, SaveStep, ChainStep, EndStep, Zenon DEF IInv
<1>. QED
  BY <1>1, <1>2, <1>3, Zenon DEF IInv

\* The inductive invariant of the command holds in every state.
THEOREM Invariant == Spec => []IInv
<1>1. Init => IInv
  BY InitInvariant
<1>2. IInv /\ [Next]_vars => IInv'
  BY StepInvariant
<1>. QED
  BY <1>1, <1>2, PTL DEF Spec

\* Every variable keeps its type, whatever the command line and what auto-pivot finds.
THEOREM TypeCorrect == Spec => []TypeOK
<1>1. IInv => TypeOK
  BY DEF IInv
<1>. QED
  BY <1>1, Invariant, PTL

\* runInvestigation and runBatch: an active module runs only with --yes or the user's y,
\* in passive mode too, where those without a passive half do run.
THEOREM ConsentSafe == Spec => []ProbesConsented
<1>1. TypeOK /\ Probes => HasActiveModulesSelected
  <2>1. TypeOK => cmd \in Command
    BY CommandsAssumption, Zenon DEF TypeOK
  <2>2. ASSUME cmd \in Command, Probes PROVE HasActiveModulesSelected
    <3>1. cmd.modules \in {"all", "passive ones", "active ones", "diverted ones"}
      BY <2>2 DEF Command
    <3>. QED
      BY <2>2, <3>1, Zenon DEF Probes, HasActiveModulesSelected
  <2>. QED
    BY <2>1, <2>2, Zenon
<1>2. IInv => ProbesConsented
  BY <1>1, Zenon DEF IInv, ConsentInv, ProbesConsented
<1>. QED
  BY <1>2, Invariant, PTL

\* runBatch: its files are begun after the last number of a valid batch, and are whole when
\* it ends well.
THEOREM FilesSafe == Spec => []FilesCoverBatch
<1>1. ASSUME IInv
      PROVE  FilesCoverBatch
  <2>1. files["csv"] # "absent" \/ files["json"] # "absent" => at \in Filing
    BY <1>1 DEF IInv, FileInv, Filing
  <2>2. at \in Filing => cmd.verb = "batch" /\ Len(reports) = Len(cmd.lines)
    BY <1>1 DEF IInv, PlaceInv, ReportInv
  <2>3. DOMAIN reports = 1 .. Len(reports) /\ DOMAIN cmd.lines = 1 .. Len(cmd.lines)
    BY <1>1, CommandFacts DEF IInv, TypeOK
  <2>4. at \in Filing => \A n \in DOMAIN cmd.lines : cmd.lines[n] = "valid"
    BY <1>1, <2>2, <2>3 DEF IInv, ValidInv
  <2>5. files["json"] # "absent" => files["csv"] = "whole"
    BY <1>1 DEF IInv, FileInv
  <2>6. cmd.verb = "batch" /\ outcome = "ok" => at = "summary"
    BY <1>1 DEF IInv, EndInv, PlaceInv
  <2>7. at = "summary" => files = [f \in {"csv", "json"} |-> "whole"]
    <3>1. at = "summary" => files["csv"] = "whole" /\ files["json"] = "whole"
      BY <1>1 DEF IInv, FileInv
    <3>2. files \in [{"csv", "json"} -> {"absent", "begun", "whole"}]
      BY <1>1 DEF IInv, TypeOK
    <3>. QED
      BY <3>1, <3>2
  <2>. QED
    BY <2>1, <2>2, <2>4, <2>5, <2>6, <2>7 DEF FilesCoverBatch
<1>. QED
  BY <1>1, Invariant, PTL

\* saveLinkedInvestigations: the saved cases form the tree the investigations were found in.
THEOREM ChainSafe == Spec => []CasesHangTogether
<1>1. IInv => CasesHangTogether
  BY DEF IInv
<1>. QED
  BY <1>1, Invariant, PTL

\* runInvestigation: nothing is announced before all that can be saved is.
THEOREM SavedSafe == Spec => []SavedBeforeAnnounced
<1>1. ASSUME IInv
      PROVE  SavedBeforeAnnounced
  <2>1. ASSUME Saves, posts # <<>> \/ shown
        PROVE  /\ \A n \in 0 .. Len(up) :
                    Saved(n) \/ n \in closed \/ (n > 0 /\ up[n] > 0 /\ ~Saved(up[n]))
               /\ \A i \in DOMAIN posts : posts[i].case = CaseOf(0)
    <3>1. at = "report"
      BY <1>1, <2>1, Zenon DEF IInv, EndInv, Saves
    <3>2. next = Len(up) + 1
      BY <1>1, <2>1, <3>1 DEF IInv, SaveInv, QueueInv, Announced
    <3>3. Len(up) \in Nat
      BY <1>1, CommandFacts DEF IInv
    <3>. QED
      BY <1>1, <3>2, <3>3 DEF IInv, SaveInv, DoneInv, PostInv
  <2>. QED
    BY <2>1, Zenon DEF SavedBeforeAnnounced, Saves
<1>. QED
  BY <1>1, Invariant, PTL

\* fireWebhook: each report is announced at most once, in order, by its band, and none that
\* is owed is left out when the command ends well.
THEOREM NotifiedSafe == Spec => []NotifiedByBand
<1>1. ASSUME IInv
      PROVE  NotifiedByBand
  <2>1. /\ \A i \in DOMAIN posts : posts[i].of \in Owed
        /\ \A i, j \in DOMAIN posts : i < j => posts[i].of < posts[j].of
    BY <1>1 DEF IInv, PostInv
  <2>2. ASSUME outcome = "ok", Investigates
        PROVE  \A n \in Owed : \E i \in DOMAIN posts : posts[i].of = n
    <3>1. at \in {"report", "summary"}
      BY <1>1, <2>2 DEF IInv, EndInv
    <3>2. Told = Len(reports) /\ Owed \subseteq 1 .. Len(reports)
      <4>1. DOMAIN reports = 1 .. Len(reports)
        BY <1>1 DEF IInv, TypeOK
      <4>. QED
        BY <3>1, <4>1 DEF Told, Owed
    <3>. QED
      BY <1>1, <2>2, <3>2 DEF IInv, PostInv
  <2>. QED
    BY <2>1, <2>2 DEF NotifiedByBand
<1>. QED
  BY <1>1, Invariant, PTL
===============================================================================
