# PhoneAccess in TLA+

A verification development for PhoneAccess, a command-line tool in Go that
investigates a phone number: it runs some nineteen lookup modules in parallel,
merges what they find into a report, follows the identities it finds
("auto-pivot"), and keeps cases in a SQLite file.  Paths below are relative to
`src/`.

## 1. The system

| component | code | state it keeps | operations | what is hard about it |
|---|---|---|---|---|
| engine | `internal/core/engine.go`, `messenger.go` | `results`, one slot per module; the errgroup and its context; the report | `Run`, `runModule`, `runPostMessengerModule`, the merges | goroutines, panics, timeouts, a barrier, a second pass that revises the first |
| response cache | `internal/core/response_cache.go` | map of entries with a ready channel | `Get`, `GetOrFetch` | races on one key, contexts of different callers, a fetch that panics |
| rate limiter | `internal/core/rate_limiter.go` | `lastSeen` per key | `Wait` | sleeping outside the mutex, jitter, cancellation |
| breach module | `internal/modules/breach` | the limiter, `hibpSource.lastReq` | `Run`, `RunPassive`, per-source queries | pacing across runs of a batch, retry after 429, telling "clean" from "unavailable" |
| case store | `internal/storage`, `internal/cli/{cases,pivot,root}.go` | tables `investigations`, `pivots`, `photo_hashes` | save, save linked, tag, note, name, delete | several processes, two-statement updates, a process that dies between two statements |
| auto-pivot | `internal/core/autopivot.go` | visited set, chain | `Run`, `expandReport` | recursion, a bound on depth, abort in the middle |
| correlator | `internal/correlator`, `internal/sources`, `defaultIdentityBuilder` in `internal/cli/root.go` | claims, runs of the sources, the merged record | `Run`, `fetchAll`, `merge`, the claims the command adds | claims arrive in any order, sources fail or hang, a second round, lists changed after they were sorted |
| pipeline | `internal/cli/root.go`, `opsec.go`, `pivot.go`, `internal/exporters/webhook.go` | saved cases, webhook deliveries, output files | `runInvestigation`, `runBatch`, five `runPivot...` | consent, order of side effects, partial failure, process exit |
| local state | `session_crypto.go`, `config.go`, quota file of truecaller, table `api_usage`, hourly window of whatsapp | files under the user's home, one table, one counter in memory | load, modify, save | two processes, crashes inside a rewrite, a change of day |
| fan-out and other lookup modules | `internal/modules/*` | results, statuses, verdict | `Run`, `RunPassive` | goroutines that feed each other, a context that ends, failures that must not look like answers |
| HTTP client, DoH | `internal/core/http_client.go`, `doh.go` | transport, resolver connection | `Write`/`Read` of the connection | channel closed once |
| identity sources | `internal/sources/*` | none | one request, one parser each | - |
| scoring, exporters, rendering | `risk_scorer.go`, `timeline.go`, `internal/exporters`, `render*.go` | none | pure | - |

How they interact.  `cli/root.go` builds the engine with the modules of
`modules/registry.go`; `Engine.Run` calls every module in a goroutine, with a
context that has the module timeout.  Modules share one `ResponseCache` per
run (carrier, voip and the correlator's sources go through it) and each owns a
`RateLimiter`.  The report goes to the auto-pivot expander, which runs further
searches, then to the case store, the exporters and a webhook.  `pivot` and
`cases` are commands of their own: other processes on the same database.

For each component the properties that make it correct:

- engine: every module leaves exactly one result, gated modules are not
  touched, passive mode sends nothing active, the merge does not depend on the
  order of the goroutines, the second pass only starts after all of the first,
  a published report is final, `Run` returns.
- response cache: one upstream request per key, the same answer for everyone,
  an error only where someone really failed, nobody waits for ever.
- rate limiter: the spacing holds under concurrency, nobody oversleeps.
- breach: no failure passes for a clean answer, at most one retry, paced
  requests, the module ends when its context does.
- case store: no orphan rows, no wrong attribution, no missed match, deletes
  are final.
- auto-pivot: each identity is searched once, none is left out of a chain that
  is returned, the depth is respected, the linked reports are those of the
  chain.
- correlator: every source asked is accounted for, no claim that says something is
  lost or counted twice, the record does not depend on the order of arrival, the confidence
  reported is that of the best candidate.
- lookup modules: what a source found is in the report whatever became of the
  others, a status is what happened to the source, who consumes starts after
  who produces, the run returns and leaves nothing at work behind.
- local state: caps hold as far as the code can hold them, a lookup is counted
  before it is made where there is a store to count in, and refused only when the cap
  was granted, commands one at a time lose nothing unless a write stops on a truncated
  file.
- pipeline: nothing active runs without consent, the saved cases form the tree
  of the investigations, nothing is announced before it is saved, no file stands
  for part of a batch, the command ends.

## 2. Modules

| module | models | state and actions |
|---|---|---|
| `Engine` | `Engine.Run` and everything it calls | `pc[m]`, `ctx[m]` follow the goroutine of module `m` through `runModule` (`Gate`, `StartDryRun`, `DryRunFails`, `EnterModule`, `RunReturns`, `RunPassiveReturns`, `ModuleFails`, `Timeout`); `stage`, `cursor`, `groupCtx` follow `Run` itself (`Assemble` is everything between `group.Wait` and the second loop, `PassOver`, `StartPostMessenger`, `PostMessengerReturns`, `Publish`) |
| `ReportContract` | what a caller of `Engine.Run` may rely on, with no goroutines | slots filled one at a time in any order, a revision phase for revisable slots that are not locked, publication |
| `ResponseCache` | `Get`, `GetOrFetch` | `entry[k]` is the map; `Lead`, `FetchReturns`, `FetchPanics` are the leader, `Follow`, `FollowerReady`, `FollowerGivesUp` a follower, `Peek`, `PeekReturns` are `Get` |
| `RateLimiter` | `Wait` | `age[k]` stands for `now - lastSeen[k]`; `Pass` and `Sleep` are the two outcomes of the look under the mutex, `Wake` and `GiveUp` the two branches of the select, `Tick` is time |
| `Breach` | the breach module, on an instance of `RateLimiter` | `stage` and `cursor` follow the loop over the sources; the `Hibp...` actions are `Query`, `enforceRateLimit` and `execute` of `hibp.go` |
| `CaseStore` | the database and the commands that write it | the tables; one action per transaction or statement; `End` is the end, the failure or the death of a command |
| `AutoPivot` | `AutoPivotEngine.Run` and the recursion of `expandReport` | the recursion is a stack: `depth`, `owner[d]` (whose report level `d` expands), `todo[d]` (its pivots not looked at yet); `Duplicate`, `NoteEmail`, `NoSearcher`, `Visit` are the branches of the loop, `WaitOver`, `WaitAborted` those of `wait`, `SearchFails`, `SearchFinds` the searcher's answers, `Close` the return to the level above |
| `PivotCrawl` | what a run of the auto-pivot engine promises, with no recursion | pivots are offered, each is taken up once, searched at most once; success needs everything offered to be taken up |
| `IdentitySources` | the sixteen identity sources and `SelectSourceNames` | no state: `Catalogue` says of each source what the correlator can tell of it, `Fields` and `Weight` what it claims, `SelectSourceNames` which countries it is asked about |
| `Correlation` | `dedup.go` and `score.go` | no state: `Opens` and `Cluster` are `clusterClaims` over the claims that are `Meaningful`, `Combine` is `combineClaims`, `Candidate` adds `applyConflicts`, `Merge` and `Overall` end `merge` |
| `Correlator` | `correlator.Engine.Run` and `defaultIdentityBuilder`, on the two above | `task[s]` follows the goroutine of source `s` (`DryRunRefuses`, `DryRunPasses`, `Fetched`, `FetchFails`), `ctx` the timeout, `pc` `Run` itself (`Skip`, `Start`, `Defer`, `MergeClaims`) and the command (`Annotate`); `claims` is in the order of arrival |
| `EnumeratorServices` | the service table of the enumerator | no state: `AllServices`, one row a service with its category, method and whether it can ever be found registered |
| `LookupSources` | the sources of the fifteen lookup modules | no state: `LookupModules` gives each module its lanes (goroutines), and each source the credentials and country it needs, the sources it waits for, how many requests it makes and what a failed one leaves |
| `Lookups` | `Run` and `RunPassive` of any such module | `at[l]`, `asked[l]` follow lane `l`; `PassBy` (not asked: its status at once), `Answered`, `FailedForGood`, `FailedOnce`, `Flooded` (429), `Finish` (the lane returns), `EndContext`, `RunPassive`, `Report` (behind the barrier) |
| `LocalState` | five pieces of state that outlive a lookup, one per behaviour (`kind`) | a file is `absent`, `empty` (truncated) or `whole`; load, truncate, write and the lookup itself are steps of their own, the transaction of `api_usage` a read and a commit that conflict; each may fail (`Fails`), the process may die between any two (`Crash`), and a lookup may find no store to count in (`AskUncounted`) |
| `Pipeline` | one command line from its checks to its exit | `at` follows `runInvestigation`, `runBatch` or a `runPivot...`; one action per side effect (`Investigate`, `Crawl`, `Save`, `SaveNothing`, `Notify`, `Report`, `WriteBatchCSV`, ...) and per way it fails (`PreflightFails`, `BatchFails`, `SaveFails`, `OutputFails`), `Agree` and `Decline` for the user, `Kill` for the end of the process |

How the modules compose.  `Breach` contains an instance of `RateLimiter`;
`Correlator` runs on `Correlation` and `IdentitySources`, `Lookups` on a
catalogue from `LookupSources` and `EnumeratorServices`.  `Pipeline` takes the
engine and the auto-pivot engine as one step each, which `ReportContract` and
`PivotCrawl` allow: they publish one final report, and a finite tree.  Its saves
are single steps, whose statements and whose rivals in other processes are
`CaseStore`'s.

In `Lookups` a module is data: lanes of sources, and a rule for its verdict.  The
code's goroutines differ in nothing else the properties can see: each asks its
sources in turn, writes what comes of it under a mutex or into a slot of its
own, and the module waits for all of them.  The channel of discovered domains in
`infrastructure` is the condition on `after`, since its producer always closes
it.  Of the enumerator's 277 rows the model checker asks four by name, one of each
kind the properties can tell apart, in place of all: the rows differ in data
only.

The numbers of `Correlation` are exact: weights are in fortieths, in which all
weights of the code and their decay over one year are whole, confidences in
thousandths, rounded half up as `roundConfidence` rounds.  Values of a field
are numbers; what `NormalizeValue` would make equal is one number, what it makes
the empty string (a name that is only an honorific, say) is `Nothing`, and which
different values are alike is the parameter `Similar`, since the code's
relations (Jaro-Winkler of names, a shared postcode and token overlap of
addresses) are symmetric and not transitive, which is what matters to it.
A claim of `Nothing` stays among the record's claims and is in no candidate;
only one whose value is blank as it comes leaves the record (`normalizeClaims`),
and is not modelled.  `Opens` states which claims open a cluster by a condition that exactly one set
of claims satisfies, the one the loop finds; `Sorted` states what `sortCandidates`
leaves, a list in which every candidate is better than those behind it.

`MCx` gives the constants of `x` values for TLC, `xProofs` holds the theorems
about `x` and their proofs; `LookupsProofs` also those about `ResponseCache`,
through which lookups ask their upstreams, `LimitsProofs` those about
`RateLimiter` and `LocalState`, which hold lookups back.  Operators introduced by "Mutant of" are the
wrong versions of the definition that follows them: each property is known to
fail when such a version takes its place, so that no property is vacuous.

Abstractions that run through all modules.  A module's own code is the set of
results it may return; a name, number, URL or body is a model value; time is
counted in ticks and only as far as the code compares it; a context is live or
done (which error it carries is kept where the code looks at it).

## 3. Runs

| run | instance | shows |
|---|---|---|
| `engine` | four modules with all traits the engine looks at (active and passive tier, `RunPassive`, messenger with a photo, truecaller, spam, second pass); ten command lines | `GatedUntouched`, `ReportConsistent`, `ImplementsContract`, `Completes` |
| `response_cache` | three callers, one key, two bodies | `SingleFlight`, `OneAnswer`, `ErrorHasCause`, `FollowersReturn` |
| `rate_limiter` | two callers, two hosts, delays of 2 or 3 ticks | `Spaced`, `WaitReturns` |
| `breach` | one limited host and HIBP, delays 2..4, HIBP pause 5, any number of runs | `CleanMeansAnswered`, `SpacedUnlessRetried`, `RunReturns` |
| `case_store` | two processes, two cases, two numbers, one artifact, one tag, one note | `PivotsOwned`, `HashesKeepTheirPhone`, `NoMissedMatch` |
| `auto_pivot` | one email, three usernames, depths 0 to 3, with and without a searcher | `DuplicatesHaveOriginals`, `LinksMatchChain`, `ImplementsCrawl`, `Terminates` |
| `correlator` | four sources, a GB or US number, three names of which the second is like the other two and one with nothing in it, an address, a region that is another, an email; a Telegram account, a breach email | `RunsAccount`, `ClaimsAccount`, `OrderIndependent`, `OverallIsBest`, `Terminates` |
| `lookups` | fifteen modules, every set of credentials, every country that matters, at most two requests of a source that repeats them | `HitsSurvive`, `ReportIsEarned`, `FeedersFirst`, `FrozenOnceReported`, `Returns` |
| `local_state` | two processes, two keys, a cap of two, days of two ticks, four ticks, three commands each, or four reservations of the hourly window | `CapHolds`, `RefusedWhenSpent`, `CountedBeforeMade`, `NothingLostAlone`, `HourBound` |
| `pipeline` | every flag on one number, batches of up to three numbers, the five pivots, seven trees of linked investigations, one earlier case | `ProbesConsented`, `CasesHangTogether`, `SavedBeforeAnnounced`, `FilesCoverBatch`, `Ends` |
| `engine_post_context` | as `engine` | the second pass runs under a cancelled context: the documented TinEye search cannot work |
| `case_delete_linked` | as `case_store` | deleting a case leaves the linked ones the documentation says it deletes |

The type invariants, and a few weaker properties, are not part of the runs: where a
proof exists it is the better argument (section 5).  The inductive invariants of
`Lookups` and `LocalState` also hold on the instances of their runs.

Why the bounds are enough.  `engine`: the engine distinguishes modules only by
the traits listed, and each trait and each pair of interacting traits
(truecaller with spam, messenger with image) is there; with four modules any
one may be the last to finish or the only one to fail.  `response_cache`: a
leader and two followers are all the roles there are, and keys do not interact.
`rate_limiter`: two sleepers on one key give the race the second look guards
against, the second key shows that keys do not disturb each other.  `breach`:
one host after another follows the same path, and the fifth tick makes the HIBP
pause longer than any limiter delay.  `case_store`: a deleted case followed by
a save needs two ids; `MaxCases` bounds the saves, `MaxNotes` the notes of a
case, and both are guards (`id \in Ids`, `Len(...) < MaxNotes`).  `auto_pivot`:
three usernames are what it takes for one to be met first at the last level and
again at both levels above; 3 is the depth the engine itself enforces; emails
only differ in never being searched.  `correlator`: one source of two countries
gives a region, one several entries (`MaxEntries` bounds them), one a dated
address, and one is deferred and needs no key, so all kinds of source meet;
three names are what a likeness that is not transitive takes, and a fourth has
nothing in it.  `lookups`: the
catalogue is the code's own; two requests tell the first from a repeated one,
and a country outside the lists stands for all others.  `local_state`: two
processes give every lost update, two keys one key that survives another's
change; a cap of two is the least at which a count can be partly lost, and three
commands each (`MaxCommands`) go beyond it with both; four ticks (`MaxTime`) hold
two days and both sides of an hour, and four reservations (`MaxReserved`) two full
windows.
`pipeline`: three numbers give a batch a first, a middle and a last one
(`MaxLines`), and the trees a root, a chain, siblings and children below both;
one earlier case sets ids off from positions.  In `case_store`, processes and
numbers are interchangeable, and no liveness is checked, so symmetry is
sound.

Nor is there a check for deadlock in `lookups`, `local_state` and `pipeline`, which stop
when the run, the commands or the process have ended.  `response_cache` does not check for deadlock either: callers whose fetch panicked and
peekers of such an entry stop for good, which is what the code does.

## 4. Fairness

- `Engine`: Go runs every runnable goroutine (weak fairness of `Gate`,
  `StartDryRun` and of the steps of `Run` itself); `context.WithTimeout` fires
  (`Timeout`).  A module is *not* assumed to return by itself: only that it does
  once its context is done (`ModuleReturns`), since every request of a module
  carries it.
- `ResponseCache`: timeouts fire, a follower whose select can proceed does.
  Nothing is assumed of a fetch: `FollowersReturn` holds even if it never ends.
- `RateLimiter`: time passes, timeouts fire, a goroutine that can take the mutex
  does.  `GiveUp` has strong fairness: between two sleeps the select is left and
  entered again, and Go picks at random among ready cases.
- `Breach`: the same, and a request ends once the context is done.
- `AutoPivot`: the goroutine runs, the timer of `wait` fires, and a search
  returns, since its requests have the HTTP client's timeout.  The caller's
  context need not end; the engine handles one that does, although the command
  line passes one that never does (`cmd/phoneaccess/main.go` calls `Execute`).
- `Correlator`: goroutines run and the timeout fires.  A source is not assumed to
  answer by itself, only once the context is over (`Returns`), since every
  request carries it.
- `Lookups`: goroutines run, a request ends, by an answer or by its failure, since
  every HTTP client has a timeout and every request the context, and `Run`
  reports once they are done.  The context need not end.
- `Pipeline`: the process goes on by itself (`WF_vars(Step)`): the engine and the
  auto-pivot engine return (`Completes`, `Terminates`), the webhook has a
  timeout of ten seconds.  The user need not answer the prompt and nothing has
  to kill the process.
- `LocalState`: none; all its properties are about safety.
- `CaseStore`: none; a process may die at any moment, and nothing is promised
  about progress.

## 5. Proofs

All theorems hold for every value of the constants that satisfies the module's
named assumption (`EngineAssumption`, `CacheAssumption`, `LimiterAssumption`,
`StoreAssumption`, `PivotAssumption`, `CorrelatorAssumption`,
`BreachAssumption`, `CatalogueAssumption`, `LocalStateAssumption`, and the three of
`Pipeline`); they follow the same scheme, an inductive invariant (`IInv`, or one named
for its component where a module holds the proofs of two) of named conjuncts,
`Init => IInv`, one step per action, `IInv => Inv`.

- `EngineProofs`: `IInv` adds to the types what each program counter says about
  the slot of its module (a finished module has a result, an unfinished one has
  not; nobody is in the second pass before the barrier; past the barrier only
  the module at the cursor runs), what calls have been made, and why merges and
  image results agree with the slots.  Without these, `GatedUntouched` is not
  inductive: a step of the second pass could enter a gated module.  The
  assumption that second-pass modules are neither messengers nor truecaller nor
  spam is what makes the messenger report stay valid through the second pass;
  the registry satisfies it.  `EngineImplementsContract` is the refinement
  theorem for the safety part of `ReportContract` (which has no other).
- `LookupsProofs`, the cache (`CacheInv`): a present entry has had exactly one fetch and an absent
  one none; who is fetching is the leader of an open entry; bodies handed out
  are the stored one.  The last is what `OneAnswer` needs, the first what makes
  `SingleFlight` inductive.
- `LookupsProofs`, a lookup module (`LookupInv`): what was tried was allowed by its
  credentials and country and was asked by a lane that is at it or has left it
  (`TriedInv`); a source that is left has its find in the report unless a failure took it
  away (`HitInv`), which gives `HitsSurvive` at the barrier.  `FeedersFirst`
  is inductive with them, since a settled source finds nothing more.  The hard
  part is `ReportIsEarned`: a status is written while requests are still out, so
  `SaidInv` says of every label at every moment what must have happened for it to say
  what it says, in terms that stay true from then on; `SpokenInv`, that a source that was
  asked and left has told so unless it is silent about failures; `FailedInv`, that the
  failure of a module's only source is in the status the verdict looks at.  `ReportInv`
  freezes these with the verdict.
- `LimitsProofs`, the rate limiter (`LimiterInv`): who is inside `Wait` has a key
  (`HostInv`), and the two properties are inductive with the types: a pass needs
  `delay <= age`, a delay is at least `Lo`.
- `LimitsProofs`, files and counters (`LocalInv`): nobody is about to save a count more
  than one above those granted for its period (`CountInv`), on which
  `RefusedWhenSpent` rests.  In the transaction a month's row is the number of its grants
  and within the cap, because a commit over a row that changed fails (`UsageInv`).
  Lookups that found no store are counted apart, by the history variable `uncounted`:
  grants and these are together at least the lookups made or due (`CountedBeforeMade`,
  inductive), so that what exceeds the cap is at most `uncounted` (`CapAlwaysHolds`).
  `SoleInv` says that commands which never overlapped are one at a time; `QuotaInv` and
  `KeepInv` what the disk holds then: the exact count of the last day; the keys wanted, and
  what the one at work is about to save keeps them, as long as no write has stopped on
  a truncated file (`torn`, set by a failure as by a death).  `TicketInv`: the lookups a process
  makes in an hour of the module are numbered below `Cap`, number 0 is the one that
  began the hour, and hours do not overlap.  So of any hour at all the lookups that
  belong to a counted hour begun within it, at most `Cap`, and those of the one before,
  without its number 0, map one to one into `1..2 * Cap - 1`: `HourBoundHolds`.
- `CaseStoreProofs`: the id and number a process holds for its photo are those
  of the case while it exists (`PhotoInv`), since ids come from a sequence that
  never goes back.  That gives `HashesKeepTheirPhone` and `DeletedStaysDeleted`;
  `NoMissedMatch` needs that pivots are only inserted with their case.
- `AutoPivotProofs`: `LevelInv` says the levels are a stack; `CoverInv`, that an
  offered pivot is visited or still on some level's list, which is what makes
  success imply completeness in `CrawlImplemented`; `SearchInv`, that the pivot
  being waited for is visited and was not searched, since a second search would
  have to find it unvisited; `NodeInv`, that a visited pivot has its one
  original node unless it is the pending one; `LinkInv`, that a username found
  is linked or owns a level above the first, which at depth 0 leaves `LinksMatchChain`.
- `CorrelatorProofs`: `Stages` says which goroutines have been started, by where
  `Run` is; `Reports`, that a goroutine has its one run exactly when it is done
  and claims not before.  That a source is in one round only (`DeferredIsLate`)
  keeps it inductive through the second round.  `IInv` stops at the command's
  own claims, which may carry a source's name; `ListInv`, inductive beside it,
  says what the record's lists are before, at and after the merge, and has the
  three properties of the lists as conjuncts.  They rest on three layers of lemmas.
  Over data: the product `Combine` folds is an integer, a finite set of integers has its
  maximum, candidates of different values can be sorted in one way (the place of a
  candidate is one more than the number of those better than it).  About clusters:
  a claim that is not `Nothing` joins exactly one opener (`OneHome`), a cluster holds the claims that join it
  (`HoldsWhoJoins`), so a list accounts for the claims of its field
  (`ListAccounts`), with no assumption on likeness.  Where likeness is an
  equivalence: a cluster is the class of its opener (`ClusterIsClass`), each class has
  one opener (`ClassesOpened`), and the rivals of an opener are the other openers of
  its field (`RivalsCount`), so the candidates are those of `Expected`, in
  which no order occurs.  The command's names are appended unsorted: `OverallIsBest`
  survives since `overall` is raised with them, not read off the heads again, and
  `ClaimsAccount` since a messenger is no source, so that its claim is new.
- `BreachProofs`: the limiter's own invariant, proved again inside the module,
  whose runs give the same limiter one new context after another, so that its
  steps are not all the limiter's; `StageInv` ties where `Run` is to the source it
  is at; `PaceInv` relates the three clocks of HIBP: outside a retry `lastReq` is
  no older than the last request, and a running timer covers what is missing.
- `PipelineProofs`: `ConsentInv` says that past the prompt there is consent, and
  a command that probes is one that is asked, `--passive` or not;
  `ReportInv` and `ValidInv`, that the reports are those of the first numbers;
  `PostInv`, that a webhook has gone out for exactly the reports it was owed for
  whose turn is over; `SaveInv`, that each investigation before the next one to
  save is saved, failed to open its database, or hangs below one without a case.
  `CasesHangTogether` is inductive with these.  `NotifiedByBand` is proved only:
  each report is announced at most once, in order, as its band asks.

Proved and not run: the `TypeOK`s of the proof modules, `PassiveModeRespected`,
`TagsMerged`, `SecondPassAfterBarrier` of `Engine`, `EntryIsFinal` of `ResponseCache`,
`NoOversleep` of `RateLimiter`, `DeletedStaysDeleted` of `CaseStore`.

What is assumed of the constants beyond their types.  Of a catalogue
(`CatalogueAssumption`): every source makes at least one request, topics are one a
request, sources that share a name, as three services of the enumerator do, are asked
unconditionally, and the rule by which a module counts as skipped fits its sources
(`SkipRuleFits`).  These hold of the code's catalogue, which the run `lookups` evaluates, and
the proofs show that they are all the reports need: a module added to the
registry keeps the properties if it keeps to them.  Of `LocalState`: the processes are
finitely many, the caps and periods at least one.  Of `Correlator`: the values of a field
are integers, since they stand for normalized strings in their order; the messengers
whose display names are used are finitely many and none of them is a source (they are
Telegram, WhatsApp and Signal); the claims breaches and public records add are
finitely many.

Only model-checked: the liveness properties (`Completes`, `FollowersReturn`,
`WaitReturns`, `RunReturns`, `Returns`, `Ends`, both `Terminates`), which are beyond the
prover, as is `ENABLED`.  Every invariant and action property of the passing runs
is a theorem.  Induction over data is not available as a rule, because the library's
induction theorems take an operator; `CorrelatorProofs` has it as a lemma about
sets, `Reaches` (a set of naturals with 0 and every successor is `Nat`, by the
least element a well-founded relation gives), applied to the set of numbers for
which a claim holds.

## 6. Divergences found

1. `internal/core/engine.go:122` hands the cancelled errgroup context to the
   second pass; `RELEASE_NOTES_v2.md:78` says the photo is submitted to TinEye.
2. `internal/storage/sqlite.go:457` deletes one case;
   `RELEASE_NOTES_v2.md:130` says the linked investigations go with it.

The runs `engine_post_context` and `case_delete_linked` show these two.  Others were met while
modelling; the models do what the code does, and no run states what the text says:

- `internal/modules/breach/hibp.go:96` does not stamp the retry, though `hibp.go:16` calls the
  pause a hard minimum between requests (hence the exception in
  `SpacedUnlessRetried`); `hibp.go:23` says a zero delay means none, `delay()` makes
  it the default.
- `internal/cli/root.go:1188` appends messenger names to the sorted list;
  `internal/cli/render.go:688` calls the first name the best available.
- `pivot phone --active` prints the warning and never asks (`pivot.go:601`), though
  `README.md:69` says active runs ask; without `--passive`, auto-pivot sends
  usernames to the search services with neither flag nor prompt.
  `hasActiveModulesSelected` ignores `--passive`, which diverts only modules that have
  a `RunPassive`: it also asks when `--modules` names none but such active modules, and,
  with `--active`, when it names none of the active tier.  The other way round,
  `--passive` (`root.go:109`: "disable active network probing") does not keep Truecaller,
  Telegram, WhatsApp, infrastructure, intelligence and images from running when
  `--active` or `--modules` lets them (`Probes`); there the prompt is asked.
- A batch ignores `--auto-pivot` and saves nothing; one invalid number ends it after
  the webhooks of the numbers before it, and no file is written.  A comment at
  `root.go:729` calls the webhook not blocking; it is delivered on the loop's goroutine.
- A failed `storage.Open` of the number's own save leaves the linked cases at top level.
- Two processes can lose counts of `truecaller_quota.json` and make more than its cap
  between them, and a death or a failed write inside its rewrite leaves a file that no
  later lookup can read.  `README.md:449` says the 500 requests a month of OpenCorporates
  are enforced locally; when the database does not open they are neither counted nor
  capped (`publicrecords.go:152`, `:392`).  An emptied `config.yaml` reads as one without keys, which the next `SetKey` makes
  final.  The window of WhatsApp counts hours from its first lookup: an hour that
  straddles two windows may see 39.
- `finance` never fills in what Venmo answered, nor reports its failure, and reports
  services beyond its cap, or whose batch failed, as "not found"; `spam` calls a number safe
  when every source failed; the Signal module counts any status but 200 as not found;
  the enumerator has three services twice, of whose statuses the later wins, and
  seven that no answer can find; `search` keeps the status of the last query of a
  category only; a search key without its engine id succeeds without a search;
  the RDAP bootstrap, or its error, outlives the run it is said to be cached for.

## 7. Not modelled

Parsers, exporters, rendering and image hashing: data transformation without
state, where a model would repeat the code.  Risk score, timeline and number
normalization: the same; the pipeline takes any risk band.  The HTTP transport's
set-up, the headers and user agents: configuration; a connection of `doh.go`
serves one exchange of one goroutine.  `Get`, `List` and `Search` of the store only
read.  Of the correlator: display values, raw variants and timestamps, the
precision of birth dates, addresses older than a year, the suppression marks
(a threshold on a confidence that is modelled), `addTruecallerIdentityRecord`,
which copies a result into the record, and the record made when identity is not
among the modules asked for, which is empty.  Of the lookup modules: what a
body parses to, statuses of sources that have none (`infrastructure`), the
removal of equal search results, `geo`, which asks nobody, the live Telegram
and WhatsApp clients, which only return errors in this build, and the Venmo cap.
Of the local state: the cipher, file permissions, a write that stops half-way through
its data (it writes all of it or none), and the count that Truecaller keeps in memory
for a process without a home directory: its lookups are let through like those without
a count at all.

## 8. What could follow

1. Confidences between 0 and 1000, for the weights the sources have: what
   `clamp` secures in the code.
2. `Pipeline` over `CaseStore` in place of single saves: two commands on one
   database, one of which deletes what the other saves below.
3. The rendering rules that decide what a reader is shown (suppression,
   confidence bands), as operators against a reference definition.
