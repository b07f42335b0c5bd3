------------------------------- MODULE LocalState -------------------------------
(* What the command keeps between lookups outside its case database's tables of *)
(* cases, and how several processes of one user change it:                      *)
(*   quota    truecaller_quota.json, lookups per day   (modules/truecaller)     *)
(*   usage    the api_usage row, lookups per month     (storage/sqlite.go)      *)
(*   config   config.yaml, the API keys                (config/config.go)       *)
(*   session  an encrypted session file                (core/session_crypto.go) *)
(*   window   lookups of the running hour, in memory   (social/whatsapp)        *)
(* The five share nothing, so a behaviour is about one of them.  A file is      *)
(* rewritten by os.WriteFile: truncated first, written next, and the write may  *)
(* fail or the process die in between.                                          *)
EXTENDS Integers, FiniteSets

CONSTANTS
    Processes,
    Keys,         \* names of API keys
    Cap,          \* lookups allowed per day, month or hour
    PeriodLength, \* ticks in a day, a month, or the hour of the window
    MaxTime,      \* bound on the clock
    MaxCommands,  \* bound on the commands of a process
    MaxReserved   \* bound on the lookups it asks its hourly window for

ASSUME LocalStateAssumption ==
    /\ Cap \in Nat \ {0} /\ PeriodLength \in Nat \ {0}
    /\ MaxTime \in Nat /\ MaxCommands \in Nat /\ MaxReserved \in Nat
    /\ IsFiniteSet(Processes)

Files    == {"quota", "config", "session"}
Kinds    == Files \cup {"usage", "window"}
Times    == 0 .. MaxTime
Counters == {"quota", "usage"}

\* What a file holds, all kinds in one: a count for a period, keys, a session.
Value == [period : Times, count : Nat, keys : SUBSET Keys,
          form : {"plain", "sealed"}, data : {"none", "real"}]
Blank == [period |-> 0, count |-> 0, keys |-> {}, form |-> "plain", data |-> "none"]

VARIABLES
    kind,       \* what this behaviour is about
    now,        \* the clock
    state,      \* of the file: "absent", "empty" or "whole"
    value,      \* what it holds when whole
    rows,       \* month -> the count in its row of api_usage
    phase,      \* process -> where its command is
    cmd,        \* process -> the command: "lookup", "set", "unset", "open", "setup"
    key,        \* process -> the API key it sets or unsets
    period,     \* process -> the day or month it read from the clock
    held,       \* process -> what it is about to save
    seen,       \* process -> the count its transaction has read
    outcome,    \* process -> how its last command ended
    commands,   \* process -> the commands it has begun
    window,     \* process -> start and count of its hour
    tickets,    \* process -> its reservations: when, and of which hour
    granted,    \* period -> counts saved for it
    uncounted,  \* period -> lookups let through where there was no count to keep
    made,       \* period -> lookups made for it
    wanted,     \* the API keys the finished commands leave
    overlapped, \* two commands were under way at once
    crashed,    \* a process died in the middle of a command
    torn        \* a write stopped after it had truncated its file

store == <<state, value, rows>>
past  == <<tickets, granted, uncounted, made, wanted, overlapped, crashed, torn>>
localVars ==
    <<kind, now, store, phase, cmd, key, period, held, seen, outcome, commands, window, past>>

Period(t)  == t \div PeriodLength
AtWork(p)  == phase[p] \in {"started", "saving", "writing"}

Whole(v) == state' = "whole" /\ value' = v /\ UNCHANGED rows

LocalInit ==
    /\ kind \in Kinds
    /\ now = 0
    /\ \/ state = "absent" /\ value = Blank
       \/ kind = "config" /\ state = "whole" /\ value = [Blank EXCEPT !.keys = Keys]
       \/ /\ kind = "session" /\ state = "whole"
          /\ \E form \in {"plain", "sealed"} : value = [Blank EXCEPT !.form = form, !.data = "real"]
    /\ rows = [t \in Times |-> 0]
    /\ phase = [p \in Processes |-> "idle"]
    /\ cmd = [p \in Processes |-> "none"]
    /\ key \in {[p \in Processes |-> k] : k \in Keys}
    /\ period = [p \in Processes |-> 0]
    /\ held = [p \in Processes |-> Blank]
    /\ seen = [p \in Processes |-> 0]
    /\ outcome = [p \in Processes |-> "none"]
    /\ commands = [p \in Processes |-> 0]
    /\ window = [p \in Processes |-> [open |-> FALSE, from |-> 0, count |-> 0]]
    /\ tickets = [p \in Processes |-> {}]
    /\ granted = [t \in Times |-> 0]
    /\ uncounted = [t \in Times |-> 0]
    /\ made = [t \in Times |-> 0]
    /\ wanted = value.keys
    /\ overlapped = FALSE
    /\ crashed = FALSE
    /\ torn = FALSE

CommandsOf(k) ==
    CASE k \in Counters -> {"lookup"}
      [] k = "config"   -> {"set", "unset"}
      [] k = "session"  -> {"open", "setup"}
      [] OTHER          -> {}

(* A command begins; a lookup reads the clock before it reads the count.        *)
Begin(p) ==
    /\ phase[p] = "idle" /\ commands[p] < MaxCommands
    /\ cmd' \in {[cmd EXCEPT ![p] = c] : c \in CommandsOf(kind)}
    /\ key' \in {[key EXCEPT ![p] = k] : k \in (IF kind = "config" THEN Keys ELSE {key[p]})}
    /\ period' = [period EXCEPT ![p] = Period(now)]
    /\ phase' = [phase EXCEPT ![p] = "started"]
    /\ commands' = [commands EXCEPT ![p] = @ + 1]
    /\ outcome' = [outcome EXCEPT ![p] = "none"]
    /\ overlapped' = (overlapped \/ \E q \in Processes : AtWork(q))
    /\ UNCHANGED <<kind, now, store, held, seen, window, tickets, granted, uncounted, made, wanted,
                   crashed, torn>>

End(p, how) ==
    /\ phase' = [phase EXCEPT ![p] = "idle"]
    /\ outcome' = [outcome EXCEPT ![p] = how]

Hold(p, v) ==
    /\ held' = [held EXCEPT ![p] = v]
    /\ phase' = [phase EXCEPT ![p] = "saving"]
    /\ UNCHANGED outcome

\* Mutant of CountFor: yesterday's count is not reset.
CountKept(p) ==
    CASE kind = "usage" -> rows[period[p]]
      [] kind = "quota" /\ state = "whole" -> value.count
      [] OTHER -> 0

\* The count for the process's period: its row, or what the file says unless it is another day's.
CountFor(p) ==
    CASE kind = "usage" -> rows[period[p]]
      [] kind = "quota" /\ state = "whole" /\ value.period = period[p] -> value.count
      [] OTHER -> 0

OneMore(p) == [Blank EXCEPT !.period = period[p], !.count = CountFor(p) + 1]

(* quotaIncrement: the whole file is loaded; a truncated one does not parse.    *)
LoadQuota(p) ==
    /\ phase[p] = "started" /\ kind = "quota"
    /\ CASE state = "empty"    -> End(p, "failed") /\ UNCHANGED held
         [] state # "empty" /\ CountFor(p) >= Cap -> End(p, "refused") /\ UNCHANGED held
         [] OTHER              -> Hold(p, OneMore(p))
    /\ UNCHANGED <<kind, now, store, cmd, key, period, seen, commands, window, past>>

(* ConsumeMonthlyQuota: the transaction reads the row.                          *)
ReadUsage(p) ==
    /\ phase[p] = "started" /\ kind = "usage"
    /\ IF CountFor(p) >= Cap THEN End(p, "refused") /\ UNCHANGED held ELSE Hold(p, OneMore(p))
    /\ seen' = [seen EXCEPT ![p] = CountFor(p)]
    /\ UNCHANGED <<kind, now, store, cmd, key, period, commands, window, past>>

(* Without its store a process keeps no count that outlives it: publicrecords    *)
(* goes without one if the database could not be opened, truecaller's is in     *)
(* memory if the user has no home directory.                                    *)
AskUncounted(p) ==
    /\ phase[p] = "started" /\ kind \in Counters
    /\ uncounted' = [uncounted EXCEPT ![period[p]] = @ + 1]
    /\ phase' = [phase EXCEPT ![p] = "saved"]
    /\ UNCHANGED <<kind, now, store, cmd, key, period, held, seen, outcome, commands, window,
                   tickets, granted, made, wanted, overlapped, crashed, torn>>

(* SetKey, UnsetKey: a truncated file parses as a configuration without keys.   *)
LoadConfig(p) ==
    /\ phase[p] = "started" /\ kind = "config"
    /\ LET keys == IF state = "whole" THEN value.keys ELSE {}
       IN  Hold(p, [Blank EXCEPT !.keys = IF cmd[p] = "set" THEN keys \cup {key[p]}
                                                            ELSE keys \ {key[p]}])
    /\ UNCHANGED <<kind, now, store, cmd, key, period, seen, commands, window, past>>

Sealed(data) == [Blank EXCEPT !.form = "sealed", !.data = data]

\* Mutant of OpenSession: the clear text is read again after the file was opened for writing.
OpenSessionEmptied(p) ==
    /\ phase[p] = "started" /\ cmd[p] = "open"
    /\ IF state = "absent" THEN End(p, "failed") /\ UNCHANGED held ELSE Hold(p, Sealed("none"))
    /\ UNCHANGED <<kind, now, store, cmd, key, period, seen, commands, window, past>>

(* DecryptSession: what does not start with the magic bytes is taken for clear  *)
(* text and replaced by its encrypted form, a truncated file included.          *)
OpenSession(p) ==
    /\ phase[p] = "started" /\ cmd[p] = "open"
    /\ CASE state = "absent" -> End(p, "failed") /\ UNCHANGED held
         [] state = "whole" /\ value.form = "sealed" -> End(p, "done") /\ UNCHANGED held
         [] OTHER -> Hold(p, Sealed(IF state = "whole" THEN value.data ELSE "none"))
    /\ UNCHANGED <<kind, now, store, cmd, key, period, seen, commands, window, past>>

(* EncryptSession, called by the set-up commands with a new session.            *)
SetUpSession(p) ==
    /\ phase[p] = "started" /\ cmd[p] = "setup"
    /\ Hold(p, Sealed("real"))
    /\ UNCHANGED <<kind, now, store, cmd, key, period, seen, commands, window, past>>

\* os.WriteFile opens the file with O_TRUNC ...
Truncate(p) ==
    /\ phase[p] = "saving" /\ kind \in Files
    /\ state' = "empty" /\ value' = Blank /\ UNCHANGED rows
    /\ phase' = [phase EXCEPT ![p] = "writing"]
    /\ UNCHANGED <<kind, now, cmd, key, period, held, seen, outcome, commands, window, past>>

\* Mutant of Grant: the lookup is made before its count is saved.
GrantLate(p) == UNCHANGED granted

Grant(p) ==
    granted' = IF kind \in Counters THEN [granted EXCEPT ![period[p]] = @ + 1] ELSE granted

\* ... and then writes it.
Write(p) ==
    /\ phase[p] = "writing"
    /\ Whole(held[p])
    /\ phase' = [phase EXCEPT ![p] = "saved"]
    /\ Grant(p)
    /\ wanted' = CASE cmd[p] = "set" -> wanted \cup {key[p]}
                   [] cmd[p] = "unset" -> wanted \ {key[p]}
                   [] OTHER -> wanted
    /\ UNCHANGED <<kind, now, cmd, key, period, held, seen, outcome, commands, window, tickets,
                   uncounted, made, overlapped, crashed, torn>>

\* Mutant of CommitUsage: the last transaction wins.
CommitBlindly(p) ==
    /\ phase[p] = "saving" /\ kind = "usage"
    /\ rows' = [rows EXCEPT ![period[p]] = held[p].count]
    /\ phase' = [phase EXCEPT ![p] = "saved"]
    /\ Grant(p)
    /\ UNCHANGED <<kind, now, state, value, cmd, key, period, held, seen, outcome, commands,
                   window, tickets, uncounted, made, wanted, overlapped, crashed, torn>>

(* The database refuses the write of a transaction whose read another one has   *)
(* overtaken.                                                                   *)
CommitUsage(p) ==
    /\ phase[p] = "saving" /\ kind = "usage"
    /\ IF CountFor(p) = seen[p] THEN
           /\ rows' = [rows EXCEPT ![period[p]] = held[p].count]
           /\ phase' = [phase EXCEPT ![p] = "saved"]
           /\ Grant(p)
           /\ UNCHANGED <<state, value, outcome>>
       ELSE End(p, "failed") /\ UNCHANGED <<store, granted>>
    /\ UNCHANGED <<kind, now, cmd, key, period, held, seen, commands, window, tickets,
                   uncounted, made, wanted, overlapped, crashed, torn>>

(* The count is saved and the lookup is made; other commands are done.          *)
Finish(p) ==
    /\ phase[p] = "saved"
    /\ End(p, "done")
    /\ made' = IF kind \in Counters THEN [made EXCEPT ![period[p]] = @ + 1] ELSE made
    /\ UNCHANGED <<kind, now, store, cmd, key, period, held, seen, commands, window, tickets,
                   granted, uncounted, wanted, overlapped, crashed, torn>>

\* Mutant of Reserve: the hour ends a tick early.
ReserveEarly(p) ==
    /\ kind = "window" /\ commands[p] < MaxReserved
    /\ LET w == IF ~window[p].open \/ now - window[p].from >= PeriodLength - 1
                THEN [open |-> TRUE, from |-> now, count |-> 0] ELSE window[p]
       IN  /\ w.count < Cap
           /\ window' = [window EXCEPT ![p] = [w EXCEPT !.count = @ + 1]]
           /\ tickets' = [tickets EXCEPT ![p] = @ \cup {<<w.from, now, w.count>>}]
           /\ outcome' = [outcome EXCEPT ![p] = "done"]
    /\ commands' = [commands EXCEPT ![p] = @ + 1]
    /\ UNCHANGED <<kind, now, store, phase, cmd, key, period, held, seen, granted, uncounted,
                   made, wanted, overlapped, crashed, torn>>

(* reserveLookup: the hour starts with the first lookup after the last one's    *)
(* end; the cap is of that hour.                                                *)
Reserve(p) ==
    /\ kind = "window" /\ commands[p] < MaxReserved
    /\ LET w == IF ~window[p].open \/ now - window[p].from >= PeriodLength
                THEN [open |-> TRUE, from |-> now, count |-> 0] ELSE window[p]
       IN  IF w.count >= Cap
           THEN /\ window' = [window EXCEPT ![p] = w]
                /\ outcome' = [outcome EXCEPT ![p] = "refused"]
                /\ UNCHANGED tickets
           ELSE /\ window' = [window EXCEPT ![p] = [w EXCEPT !.count = @ + 1]]
                /\ tickets' = [tickets EXCEPT ![p] = @ \cup {<<w.from, now, w.count>>}]
                /\ outcome' = [outcome EXCEPT ![p] = "done"]
    /\ commands' = [commands EXCEPT ![p] = @ + 1]
    /\ UNCHANGED <<kind, now, store, phase, cmd, key, period, held, seen, granted, uncounted,
                   made, wanted, overlapped, crashed, torn>>

(* Reading, opening or writing fails and the command returns the error: a       *)
(* transaction is rolled back, a file stays as it is, empty if it was already   *)
(* truncated.                                                                   *)
Fails(p) ==
    /\ AtWork(p)
    /\ End(p, "failed")
    /\ torn' = (torn \/ phase[p] = "writing")
    /\ UNCHANGED <<kind, now, store, cmd, key, period, held, seen, commands, window, tickets,
                   granted, uncounted, made, wanted, overlapped, crashed>>

(* The process dies, which leaves no less.                                      *)
Crash(p) ==
    /\ phase[p] # "idle"
    /\ End(p, "none")
    /\ crashed' = TRUE
    /\ torn' = (torn \/ phase[p] = "writing")
    /\ UNCHANGED <<kind, now, store, cmd, key, period, held, seen, commands, window, tickets,
                   granted, uncounted, made, wanted, overlapped>>

ClockTick ==
    /\ kind \in Counters \cup {"window"} /\ now < MaxTime
    /\ now' = now + 1
    /\ UNCHANGED <<kind, store, phase, cmd, key, period, held, seen, outcome, commands, window,
                   past>>

Step(p) ==
    \/ Begin(p) \/ LoadQuota(p) \/ ReadUsage(p) \/ AskUncounted(p) \/ LoadConfig(p)
    \/ OpenSession(p) \/ SetUpSession(p) \/ Truncate(p) \/ Write(p) \/ CommitUsage(p)
    \/ Finish(p) \/ Reserve(p) \/ Fails(p) \/ Crash(p)

LocalNext == (\E p \in Processes : Step(p)) \/ ClockTick

LocalSpec == LocalInit /\ [][LocalNext]_localVars

--------------------------------------------------------------------------------
LocalTypeOK ==
    /\ kind \in Kinds /\ now \in Times
    /\ state \in {"absent", "empty", "whole"} /\ value \in Value
    /\ rows \in [Times -> Nat]
    /\ phase \in [Processes -> {"idle", "started", "saving", "writing", "saved"}]
    /\ cmd \in [Processes -> {"none", "lookup", "set", "unset", "open", "setup"}]
    /\ key \in [Processes -> Keys]
    /\ period \in [Processes -> Times] /\ held \in [Processes -> Value]
    /\ seen \in [Processes -> Nat]
    /\ outcome \in [Processes -> {"none", "done", "refused", "failed"}]
    /\ commands \in [Processes -> Nat]
    /\ window \in [Processes -> [open : BOOLEAN, from : Times, count : Nat]]
    /\ tickets \in [Processes -> SUBSET (Times \X Times \X Nat)]
    /\ granted \in [Times -> Nat] /\ uncounted \in [Times -> Nat] /\ made \in [Times -> Nat]
    /\ wanted \subseteq Keys
    /\ overlapped \in BOOLEAN /\ crashed \in BOOLEAN /\ torn \in BOOLEAN

(* Of the lookups that were counted no day or month sees more than its cap:     *)
(* always for the count in the database, whose transactions conflict; for the   *)
(* count in the file as long as no two processes are between its load and its   *)
(* save at once; crashes, failed writes and commands that run over midnight     *)
(* included.  Beyond the cap are only lookups that found no store to count in.  *)
CapHolds ==
    (kind = "usage" \/ (kind = "quota" /\ ~overlapped)) =>
        \A t \in Times : made[t] <= Cap + uncounted[t]

(* A lookup is refused only if the cap of its day or month was really granted:  *)
(* lost updates, crashes and a change of day can only lose counts, never add.   *)
RefusedWhenSpent ==
    \A p \in Processes :
        (kind \in Counters /\ outcome[p] = "refused") => granted[period[p]] >= Cap

(* Where there is a store a lookup is made only after it was counted: a failed  *)
(* save makes none, a process that dies between the two wastes a count rather   *)
(* than making a lookup for free, and otherwise the two agree.                  *)
CountedBeforeMade ==
    \A t \in Times :
        LET due == made[t] + Cardinality({p \in Processes : phase[p] = "saved" /\ period[p] = t})
        IN  kind \in Counters => /\ granted[t] + uncounted[t] >= due
                                /\ (~crashed => granted[t] + uncounted[t] = due)

(* Commands that run one at a time lose nothing unless a write stops, by an     *)
(* error or with its process, when the file is truncated: whatever else fails   *)
(* or dies, the keys on disk are those the finished commands leave, and a       *)
(* session migrated to its encrypted form is the session it was.                *)
NothingLostAlone ==
    (~overlapped /\ ~torn /\ \A p \in Processes : ~AtWork(p)) =>
        /\ kind = "config" => value.keys = wanted
        /\ (kind = "session" /\ state # "absent") => value.data = "real"

(* Twenty lookups an hour is a cap on the hours the module counts; of any hour  *)
(* at all, one that straddles two of them sees one lookup less than twice that. *)
HourBound ==
    \A p \in Processes, t \in Times :
        Cardinality({k \in tickets[p] : t <= k[2] /\ k[2] < t + PeriodLength}) <= 2 * Cap - 1
================================================================================
