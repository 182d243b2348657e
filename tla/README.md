# sqlguard: models, model checking and proofs

TLA+ modules, TLC configurations and TLAPS proofs for the Go module in `src/`:
a linter and run-time guard for SQL that sits between an application and its
database.  This page lists the parts of the system, says which module models
which part, what each run checks and each theorem proves, and what is still
missing.  Line numbers refer to files under `src/`.

## 1. The system

| Part | Where | State it keeps | Operations |
|---|---|---|---|
| Guard | `middleware/guard.go` | policies resolved at construction; a cache, a deduper, a tracker | `NewGuard`, `Check`, `Observe`, `CheckLatency`, `ResetN1` |
| Analysis cache | `middleware/cache.go` | LRU list and map under a mutex | `get`, `put` |
| Finding deduper | `middleware/dedup.go` | map (fingerprint, rule) to last time, under a mutex | `allow`, which evicts |
| N+1 tracker | `middleware/n_plus_one.go` | map fingerprint to (count, firstSeen, reported), under a mutex | `trackFingerprint`, `Reset` |
| Driver wrapper | `middleware/driver.go` | none of its own; wraps driver, connector, connections, statements, transactions | every `database/sql/driver` entry point |
| Integrations | `integrations/*guard` | a closure or start time carried from hook to hook | start and end hooks over `Guard` |
| Options, dialects | `middleware/options.go`, `dialect.go`, `config/middleware.go` | an options struct while a Guard is built | the `With...` functions, `resolveDialect` |
| Configuration | `config/config.go` | the file, its warnings | `Load`, `Profile`, `DedupWindow` |
| Analyzer and rules | `analyzer/` | registry of rules, profile | `Analyze`, `RuleEnabled`, `RuleSeverity`, `WithParser`, `WithDialect` |
| Lexer, redaction, fallback parser | `analyzer/redact.go`, `fallback.go`, `suppress.go` | none (pure functions) | `redact`, `Fingerprint`, `IsMultiStatement`, `Parse`, directives |
| Dialect parsers | `parsers/` | none | `Parse` over a library's syntax tree |
| Explain | `explain/` | one transaction per call | `Analyze` |
| Static scan | `cmd/sqlguard/scan.go` | the files left, those seen, the results so far | load, walk, resolve, analyze, suppress, report |
| Reporters, other commands | `reporter/`, `cmd/` | none | output |

How they meet.  `database/sql` (or pgx, sqlx, ent, xorm, bun, gorm) calls the
wrapper or an integration on the application's goroutine.  That calls
`Guard.Check(query)`, which looks the query up in the cache, analyzes it on a
miss, filters the findings through the deduper, hands what is left to the
reporter and counts the query in the tracker; after the database has answered,
`CheckLatency` compares the time it took with the threshold.  There are no
background goroutines: all concurrency is that of the application's goroutines
on one shared `Guard`, whose three components each have a mutex of their own
and are never locked together.  A configuration file becomes a profile, the
profile an analyzer, and the analyzer answers for its rules in three programs:
the application, `sqlguard scan` and `sqlguard explain`.  The analyzer reads a
query twice: as characters (lexer: redaction, fingerprints, directives) and as
the facts a parser finds in it, on which the rules decide.

What is hard, and what makes each part correct:

- **Deduper.** Time is read before its lock is taken, and its map is bounded.
  A finding must stay quiet for the window, be withheld only for a reason, and
  never be lost between being admitted and being reported.
- **Tracker.** The decision to report is taken under the lock and acted on
  after it.  Counts must be exact through eviction, expiry and Reset; a
  report must be true when it was decided, and come once per window.
- **Cache.** The lock is released while a query is analyzed.  The list and the map must
  agree, evict in LRU order, and nobody may notice the cache.
- **Guard.** The three components' guarantees must survive their composition, a
  pattern must be counted under one fingerprint, whether Check takes that of a
  finding, which may be a cached one, or leaves it to `Track` to compute, and time spent in `Check` is not latency.
- **Wrapper.** `database/sql` retries on `ErrBadConn`, falls back on `ErrSkip`,
  looks whether a context is done where the driver takes none, and takes other
  paths for a wrapper that implements every optional interface than for the
  bare driver.  A logical query must be analyzed once if it ran, and the
  application must not notice the wrapper.
- **Integrations.** Each library offers other hooks; all surfaces promise the
  behaviour of the wrapper.
- **Options and profile.** Their outcome must depend on precedence, not on the
  order they come in, and one profile must mean the same to every program.
- **Explain.** A statement must not be executed, and no way out may leave a
  transaction open.
- **Lexer.** One scanner reads for databases that disagree on backslashes,
  double quotes, dollars, comment markers and whether comments nest.  No literal may survive
  redaction in any of their readings, no separator be missed, no directive be
  obeyed that one of them takes for data.
- **Parsers.** The fallback looks for words anywhere in the text, the dialect
  parsers overwrite some of its answers by those of a tree.  A subquery's
  WHERE or LIMIT must not pass for the statement's, at any depth.
- **Static scan.** Files come from two sources, with and without types, and
  comments are looked up by line.  Each call must be reported once unless a
  directive says otherwise, and the exit code must tell.

`PROJECT.json` lists these as hazards, each at its line and with the
properties that watch it.

## 2. Modules

`GoMap` (finite maps), `LruList` (the part of `container/list` that is used)
and `Analysis` (an abstract specification) are small and shared.

| Module | Models | Actions and code |
|---|---|---|
| `Deduper` | one call of `allow` | `Allows` is its answer, `SeenAfter` the map it leaves |
| `FindingDedup` | `Guard.report` on several goroutines | `Begin` reads the clock, `Admit`/`Suppress` are one iteration of the loop, `Emit`/`Return` its end |
| `N1Records` | one call of `trackFingerprint` | `QueriesAfter` is the map it leaves, `Reports` its decision |
| `QueryTracker` | the tracker on several goroutines | `TrackDropped`, `TrackQuietly`, `TrackAndReport` (the mutex held), `Emit` (released), `Reset` |
| `AnalysisCache` | `Guard.analyze` over the cache | `Hit`/`Miss` are `get`, `Analyze` runs without a lock, `Refresh`/`Store` are `put` |
| `Analysis` | what `analyze` promises | a call is asked, then answered with the analyzer's findings |
| `Guard` | `Check`, `Observe`, `CheckLatency`, `ResetN1` | composes the three by INSTANCE: each step is a step of one component, or hands over from one to the next |
| `BareDB` | `database/sql` over a plain driver (external: from how `driver.go` uses it and what it says of it) | pool with `ResetSession` and `IsValid`, retry on `ErrBadConn`, fallback on `ErrSkip`, statements, Ping, Begin; `Cancel` and `GiveUp` for contexts |
| `DriverChain` | the wrapper between the two | `QueryContext`, `PrepareContext`, `StmtQueryContext`, `AnalyzeExecuted`, `WrapperPing`, `WrapperBegin`, the two `CheckNamedValue`, `ForwardsPooling` |
| `Interception` | the wrapper and the six integrations as surfaces of one Guard, and two tracers on one pgx connection | `Calls(s)` is the order in which a surface calls Check, the clock and `CheckLatency`; `SkipsAnalysis` and `Err` are its early returns |
| `Policy` | file to profile to analyzer | `Profile`, `CheckSettings`, `Warned`, `DefaultWithProfile`, `RuleEnabled`, `RuleSeverity` |
| `GuardOptions` | `NewGuard` and the option functions | `Wrap` (detection), `Pass`, `PassFile` (`MiddlewareOptions`), `Build` |
| `Explain` | `PlanAnalyzer.Analyze` | `Validate`, `Begin`, `Query`, `ReadPlan`, `EndOfPlan`, `Leave` (the deferred calls), `Return` |
| `SourceScan` | `sqlguard scan` | `Configure`, `LoadPackages`, `SkipFile`, `ScanFile`, `WalkFails`, `Report`; `resolveQuery`, `buildSuppressor` and `scanASTFile` are what one file yields |
| `Configured` | one file and the three programs that read it | composes `GuardOptions`, `Explain` and `SourceScan` |
| `SqlText` | the scanners every reading of a text is built from | `scanQuotedRun`, `scanDollarQuoted`, `stripComments`, `blankQuoted`; `Pieces` is their common loop |
| `Redaction` | `redact.go` | `redactSpans`, `redact`, `Fingerprint`, `IsMultiStatement` |
| `Suppression` | `suppress.go` | `lexSQL`, `commentDirective`; `directiveReadings` are the readings `parseIgnoreDirective` intersects |
| `TextReadings` | the databases that read the text | `Type` adds a character and moves one automaton per database; those of Postgres nest comments, and `nested` records where that happened |
| `SqlStatements` | statements as trees, as tokens and by meaning (the grammars are external) | `Tokens` writes a tree, `RowSources` and `Results` say what it means |
| `FallbackParser` | `FallbackParser.Parse` over tokens | `scopedBounds`, `detectKind`, `topLevelMatches`, joins, lists, predicates |
| `DialectParsers` | `pgparser` and `mysqlparser` over trees | `ParseTree`, `fillSelectBody`, `fillSelect`, `keepFallbackBounds` |
| `StatementRules` | the fourteen rules | `Finds` |
| `QueryShapes` | statements built one edit at a time | an action per edit: `Filter`, `Derive`, `Compare`, `Define`, `Combine`, ... |

`*_proofs` modules hold the theorems about the module of that name, `MC*`
modules the instances TLC checks.

Abstractions.  The mutexes make each `allow`, `trackFingerprint`, `get` and
`put` one atomic step; everything between two such calls can be interleaved
with other goroutines and with the clock.  There query strings, fingerprints
and findings are model values, and what the rules say of a query is a constant
(`Findings`, `Batches`).  In `Guard` that constant is `Rules`; a finding is a
record that carries the fingerprint `Analyze` computed for it with the analyzer's
dialect, and it is cached with it.  `CountedAs` is the choice `Check` makes
between that fingerprint and the one `Track` computes.  In `Guard` and `Interception` the clock stands still while a
goroutine merely hands over from one call to the next: only Check and the
database take time there.  A plan is a sequence of the features its rules
look for.  Severities in a configuration file are already read
(`parseSeverity`), settings are known by whether they read back.  A text has
one character for each class the scanners tell apart, and one for each comment
marker and directive.  Tokens have one value for all names and one for all
literals.  A line of Go has at most one comment, at its end.

Operators called `Bug...` are not part of a model.  Each is a plausible fault
in the operator after it; putting it in its place must violate a property,
which shows that the property depends on the code being right.

## 3. What the runs check

| Run | Question | Bounds, and why they are enough |
|---|---|---|
| `finding_dedup` | `IInv`, `Conservation`, `QuietPeriod`, `SuppressedForCause`, `AdmittedIsReported` | two goroutines (one overtakes the other), three keys for a map of two, window 2 with a clock up to 4: entries expire while others live |
| `query_tracker` | `IInv`, `CountExact`, `NoFalseAlarm`, `OneReportPerWindow`, `BurstDetected`, `InFlightKept` | threshold 3, six executions of three patterns in a map of two, one Reset, a clock of two windows |
| `analysis_cache` | `IInv`, `LeastRecentlyUsedEvicted`, `FewAnalyses`, refinement `AnswersEveryCall` | capacities 0 to 3 for three queries, two of one fingerprint with different findings |
| `guard` | `IInv` of the composition, `PatternCounted`, `FindingsReachReporter`, `LatencyIsTheDatabases` | two queries of one shape, of which one has a finding and one has none, and a third; every component at a capacity of 1; the clock goes only to 1, since expiry is checked in the components' own runs |
| `driver_chain` | `IInv`, `AnalyzedOnce`, `TimedOnSuccess`, refinement `AsBareButForKnown` | five kinds of base driver, three connections of which one may idle, two operations: enough for every retry to meet another goroutine; a plain call may be cancelled at any point |
| `driver_ping_as_bare` (violation) | is Ping that of the bare driver? | the same, Ping only |
| `interception` | `IInv`, `CheckedOnce`, `SlowButForKnown` | all nine surfaces, two statements, threshold 2 with a clock up to 3: less than, at and above the threshold |
| `slow_by_analysis` (violation) | is only the database's time latency on every surface? | the same |
| `configured` | `ScanReports`, `NarrowingHonoured`, `ProfileReachesEverySurface`, `Precedence`, `NothingExecuted`, `PlanReported` | some 1700 files, each with up to three options in any order after detection; plans of up to two nodes, which is enough for a dropped finding to lie before a kept one; scans of every layout of three lines with calls of one to three lines and a comment of any kind on each, of every form of argument with and without types, and of two files over all kinds of path and all lists of packages |
| `sql_text` | `LiteralsRedacted`, `FingerprintIdentifies`, `SeparatorSeen`, `DirectiveOutsideLiterals`, `KeywordsSeen` | every text of up to five to seven characters over eleven alphabets, each of the characters that can confuse one another: enough for a literal, an escape or doubled quote in it, and another literal or comment after it |
| `nested_comments` (violation) | is every separator seen that one of the databases sees? | texts of up to seven characters over comment markers, a quote, a separator and a letter |
| `query_shapes` | `BoundsExact`, `FactsExact`, `ParsersAgree` | every statement of up to three edits over six vocabularies, four for the one about what bounds rows, so that a bound can be three levels deep |

What they show.  The deduper, tracker and cache do what they promise, with two
qualifications: a finding may repeat within the window if its goroutine was
overtaken between reading the clock and locking (what does hold is
`QuietPeriod`: the window less the longest lag), and windows tumble, so that
`threshold` executions may straddle two of them (what does hold is
`BurstDetected`: 2 * threshold - 2 within a window length are always
reported).

The wrapper analyzes each logical query once if it ran.  Over it, for a base with
any of the interfaces in `Capability`, every step of `database/sql` is one it
takes over the bare driver, apart from four named deviations: Ping fails with
`ErrSkip` when the base is no Pinger (a finding: the comment at `driver.go:277`
says the opposite), `BeginTx` drops its options when the base has only `Begin`,
a statement's own argument checker hides that of its connection, and a base that
takes no context is called although that is done, since `database/sql` leaves
looking to a driver with the context interfaces and the wrapper does not look.

The surfaces agree with the wrapper, apart from three named deviations: bun and
gorm stop the clock after Check (a finding), sqlx, bun and gorm are handed an
error when a successful query had no row, so that it is never slow, and of two
tracers composed on one pgx connection the second reports a slow query twice
and the first never, since both keep their closure under one context key.

A scan reports what it should and nothing else, where "should" leaves the
following to the code.  A directive at the end of a call of several lines is
ignored, though `website/docs/suppressions.md:64-65` shows one that applies: the
scan looks up the line on which the call begins (`scan.go:392`).  A
directive behind code overrules one on the line above it instead of joining
it.  `//sqlguard:ignore` without a blank after the slashes is dropped by
`CommentGroup.Text` and suppresses nothing.  A list of rules with another
comment line under it takes the words of that line in and names no rule, and
a bare directive above other comment lines applies from further up.  Files of
`node_modules` are scanned when `go/packages` lists them, though `scan.md:85`
says they are skipped.

In the texts of the run, if they have no comments the databases disagree on,
redaction, fingerprints, statement separators and directives are right for each
of five readings: Postgres with plain and with escape strings, MySQL with and
without backslash escapes, and SQLite.  What the properties exclude is named in
them:

- comments within comments, for Postgres, which nests them (`nested`, in `Fits` and
  in the properties that do not use it).  `skipBlockComment` (`fallback.go:778`)
  ends a comment at the first `*/`, so that the scanners read its rest as the
  statement, and a quote there shifts all that follows.  With `/* /* */ ' */` in
  front, a separator is missed (`; a`, a finding), a literal is kept (`'a'`), a
  word is lost from the fingerprint (`a`), and a directive that begins a line of a
  literal is obeyed; and in `/* /* */ a` the fallback parser reads the `a` of a
  comment;
- a double-quoted string in the shape of a name is kept when no dialect is known
  (`NameShaped`);
- comments only some databases see, MySQL's `--x` and `#` (`SameComments`; of
  these `stripComments` knows neither), since the code then reads a comment where
  another database reads data;
- a `$` where it does not open a string (`Fits`); and a fingerprint is its own
  fingerprint only without `\` and `$`;
- backticks, for a database that has no such names (`KnowsQuotes`), and a name in
  backticks that holds a quote, a `$` or a comment marker (`PlainNames`):
  `stripComments` and `blankLiterals` know no backticks.  `` `-- ` a `` loses its
  `a` to the comment they see, and in `` `a"b`; a `` the separator is taken for
  part of a string, though `redact.go:115` says that one must never be missed;
- backslashes in a text with both kinds of quotes, for Postgres with escape
  strings when no dialect is known (`EscapesApart`).  It escapes in `'` and not in
  `"`; `redactSpans` and `commentDirective` read a backslash in both or in neither.
  In `"\"'\'"x"'` the `x` of the string is kept, as a quoted name, and in
  `"\"'\'\"" -- sqlguard:ignore'` the directive inside the string is obeyed,
  though `suppress.go:15-16` says that text inside a value must never switch a
  rule off;
- numbers, for a database with escapes, in a text with backslashes and quoted
  names (`NamesApart`): `redactSpans` returns the names of the reading without
  escapes only, so MySQL's number in `` '\'`'1 `` stays, as a digit of a name;
- texts with escapes in which `stripComments`, which knows none, finds other
  comments than the database (`CommentsFound`).  In `'\'-- '/*`, a new line and
  `\'*/'x` the `x` is in a string for MySQL; the comment the code sees in the first
  string takes away the quote that closes it, and `x` is returned, though
  `redact.go:20-21` says that the code over-redacts rather than risks a leak.

The last three, and the names in backticks, came up when longer texts over wider
alphabets were tried at random and in the attempt to prove the properties.  MySQL's
`/*! ... */`, of which it reads the inside, is not a character of the model.

The facts of a statement are those of its tree, with these limits, all named in
`QueryShapes`: a row source in parentheses behind another, behind WITH, or
behind a comma of a nested FROM is taken for something else, which only
misses a bound (`Hidden`); `IS DISTINCT FROM` in a select list reads as a FROM
(`differs`); and FOR UPDATE after WITH reads as an UPDATE.  A dialect parser
adds a finding to the fallback's in four cases, although
`website/docs/parsers.md:95` says it is meant never to: a star that is not the
first item (`SELECT id, *`), an ORDER BY in parentheses, rows of an INSERT in
parentheses, and statements whose kind the fallback mistakes.

Two smaller disagreements met on the way, and the directive at the end of a
call, have no run.  `explain.go:23-25` says `only` reaches plan rules "exactly as
they reach a statement rule", while `explain.go:122` and `analyzer.go:186-196`
say, and the code does, that it does not; `PlanReported` and `ProfileReachesEverySurface` state the latter.  And
`config.Middleware` discards the `Config`, so the warnings `config.go:155` asks
callers to surface cannot be surfaced in an application.

Fairness.  Only `FindingDedup`, `AnalysisCache` and `Guard` have liveness
properties, under weak fairness of the steps of a goroutine inside `report`,
`analyze` and `Check`: those never block except on a mutex that is held for a
few map operations, and Go schedules a runnable goroutine eventually.  Nothing
is assumed of callers, the clock or the database.  Deadlock is checked in
every run but three; where a bound ends a behaviour, a `Done` (or `Stopped`) step
that changes nothing says so.  In `sql_text`, `nested_comments` and `query_shapes`
a state is an input, and the longest inputs have no successor.

## 4. What is proved

All theorems hold for every number of goroutines, keys, queries, connections,
and for every window, threshold and capacity the named assumptions allow; no
bound of a run is used.

- **`FindingDedup_proofs`**: `Invariance`, `QuietPeriodHolds`,
  `SuppressedForCauseHolds`, `ConservationHolds`.  `QuietPeriod` is not
  inductive, because an entry may carry an old time or be evicted.  The
  invariant relates the map to what the reporter saw: a batch lags at most
  `MaxLag` (`LagInv`), so the time in an entry is at most that much older than
  its admission (`SeenInv`), and a finding without an entry has had its quiet
  period (`EvictedInv`).  Lemmas about `SeenAfter` and `MakeRoom` say that
  eviction removes expired entries only and keeps the map within its cap.
  `Conservation` sums over the goroutines; the sum is a function on the sets of
  them (`SumsExist`), and a step of one goroutine changes one summand
  (`SumsChange`).
- **`QueryTracker_proofs`**: `Invariance`, `CountExactHolds`,
  `NoFalseAlarmHolds`, `OneReportPerWindowHolds`, `InFlightKeptHolds`,
  `BurstDetectedHolds`.  Exactness of the counts is stated against a log of
  executions.  It is inductive together with `LogInv` (executions are numbered
  in order), `CoverInv` (an execution a record does not count lies before it, or
  before now if there is no record), `BelowInv` (an unreported record is below
  the threshold) and `DecidedInv` (a report of this era belongs to the record
  its fingerprint has now, which is marked, or to a window that is over).  A
  burst is detected because it meets at most one window that began before it,
  which then holds one execution more, and one that began in it (`Windows`): one
  of the two reaches the threshold.
- **`AnalysisCache_proofs`**: `Invariance`, `LeastRecentlyUsedHolds`,
  `Implements`, `FewAnalysesHolds`.  The list is the longest prefix of the
  history of uses that fits; that list and map agree and hold the analyzer's
  answers makes the refinement of `Analysis` a case split over the actions.
  `FewAnalyses` follows from `AnalysesOf`: a query not cached yet was analyzed
  by those who are about to store it, one that is cached will be analyzed only
  by those who missed it before.
- **`Guard_proofs`**: `Composition`, `Invariance`, `PatternCountedHolds`,
  `LatencyHolds`.  Each component, INSTANCEd in `Guard`, takes only steps of its
  own specification or none (`Composition`), so its theorems hold in the Guard
  too; `CacheP`, `DedupP` and `TrackerP` bring them in.  Of the Guard itself the
  invariant says that a goroutine's stage and its place in each component agree
  (`StagesAgree`), that what a goroutine goes on with are the findings of its own
  query (`FoundInv`), and that the Guard's executions and the tracker's log
  correspond one to one (`ExecutionsLogged`).  A finding carries the fingerprint
  `Track` would compute for its query, through the cache (`OneFingerprint`), since
  both leave the normalized query and the dialect to one function; so both
  branches of `Check` count an execution under its shape (`CountedByShape`).
- **`DriverChain_proofs`**: `Invariance`, `AnalyzedOnceHolds`,
  `TimedOnSuccessHolds`, for any base driver, with calls cancelled anywhere and
  sessions that find their connection gone.  `PlaceInv` says which kinds of
  operation can be where, `NotYetInv` that nothing was executed or timed
  before an answer that says so, `AnsweredInv` what the answer decides.
  `Refinement`: every step over the wrapper is a step over the bare driver, a
  stutter, or one of the four named deviations.  The mapping needs `AnswerInv`
  (what was answered where, and what that tells of the base's interfaces),
  since a wrapper that implements everything is further in `database/sql` than
  the base would be (`StandsIn`).
- **`Interception_proofs`**: `Invariance`, `CheckedOnceHolds`,
  `SlowButForKnownHolds`, for every interleaving of statements on all surfaces.
  What remains of a surface's program is a suffix of it, and what has happened
  (`CallsInv`: the calls and the checks; `ClockInv`: the start time, the time
  measured and the time spent) is that of the part before.  The closure of two
  tracers on one connection is the reason that `holder` is in it.
- **`Configured_proofs`**: `NothingExecutedHolds`, `NarrowingHonouredHolds`,
  `PrecedenceHolds`, `ProfileReachesEverySurfaceHolds`, `PlanReportedHolds`, for
  every file, every list of options and every plan.  What `NewGuard` has
  collected is, field by field, what the latest option of each kind says
  (`Collected`, `Latest`).  `Explain` keeps `PlanInv`: after k nodes each rule was
  found once for each of the k that shows it; `Filtered` says that filtering
  keeps, in number, what the profile lets through.  (`applyProfile` writes what it
  keeps over the array it reads; in the model it is a new sequence.)
  `ScanReportsHolds` holds for every tree, list of packages
  and layout of lines.  `ScanInv` says that the results are, without
  repetition, what is found in the files seen (`Accounted`), and that each file
  to be scanned is seen or to come (`Underway`).  Which comment decides for a line
  is worked out from the groups of comments that end there or one line above
  (`OwnLine`, `Untangled`).  It takes two facts of `TreeType` for granted, for which
  `go/packages` is responsible: that a package lists files of the tree, and none
  of a hidden or vendor directory.
- **`TextReadings_proofs`**: `DirectiveOutsideLiteralsHolds`, `KeywordsSeenHolds`,
  `SeparatorSeenHolds`, `LiteralsRedactedHolds`, for every alphabet and texts of
  every length, and every database that found no comment in a comment.  The
  invariant (`TextInv`, `TextRead`) is that there is, for each of these, a run of
  its automaton (`Steps`, without nesting) over the text that ends in the mode it
  is in; the others are Postgres'.  The properties
  follow from what the scanners do along such a run: each starts a piece only
  where the database is outside everything, and the piece ends where the database
  leaves what it was in (`QuotedFollows`, `TakesDollar`, `StripTakes`,
  `BlankTakes`).  The scanners look ahead and the automata do not, so this goes by
  induction from the end of the text (`Backward`).  For directives it is one pass
  over the text in each of the readings (`LexStep`) and a fold over these, which
  turns off nothing that one of them leaves on.  Words and separators are looked
  for after two passes, of which the second sees what the first has left: a
  comment becomes a blank, and a database reads that text as it read the whole,
  comments left out (`ReadsUncommented`).  Every character of either text is then
  followed to the piece it is in and to its place in what is written (`Spread`).
  `LiteralsRedacted` is about databases with escapes too, in texts whose comments
  a scanner without them has removed.  Where the comments it finds are a
  database's own, that database reads what is left as it read the whole
  (`RestExists`); one of the readings that `redactSpans` unites is then its own,
  so a character of a string is in a span (`StringsRedacted`).  A number may be
  covered by spans of another reading, and by numbers that begin elsewhere; none
  of these ends inside it, so the scan comes to its first digit or passes over
  all of it (`NumbersRedacted`).

`ConservationHolds` and `FewAnalysesHolds` are stated for finitely many
goroutines, `ScanReportsHolds` for finitely many rules.  Where a proof goes by
induction over data (lists that are joined, filtered or counted, sums over
sets) it is over the set of numbers for which the claim holds (`Induct`, from
the well-foundedness of `<`), since the induction theorems of the library take
an operator.

Only model-checked: liveness (`AdmittedIsReported`, `AnswersEveryCall`,
`FindingsReachReporter`), which is beyond the prover, as are facts about
ENABLED and modules with RECURSIVE operators (`FallbackParser`,
`DialectParsers` and `SqlStatements`, and so `BoundsExact`, `FactsExact` and
`ParsersAgree`); and `FingerprintIdentifies`, which compares the fingerprints of
two texts, of which one may be the fingerprint of the other.  For that the course
of `redact` and of the folding (`Collapsed`, `FoldLists`, `TrimRight`) would have to
be followed in both at once, and each pass moves all that is behind what it removes.

## 5. What is not modelled

- `Register` and `Open`, which construct wrappers around one Guard; a `Connect`
  that fails, which the wrapper passes on.
- Reporters, flag parsing, discovery and decoding of YAML: output, and
  libraries.
- Registering rules of one's own; the wording of findings; the redacted text
  and line a finding carries (their parts, `redact` and `Fingerprint`, are).
- Parts of the scan: the spelling of its path (`trimPatternSuffix`), what an
  exclude pattern matches, several comments on a
  line, chained calls, partial syntax trees of packages that do not compile,
  and verbs with an index (`%[1]s`, which `neutralizeFormat` leaves alone).
- The deprecated `ColumnConverter` of a base statement, which the wrapper has no
  part for (`Capability` has the interfaces it looks for); and which of gorm's callback chains
  `gormguard` registers with: all of gorm is one surface.
- ResetN1 of one request clearing the counts of another: inherent in one
  tracker per Guard.  `CountExact` and `NoFalseAlarm` say what survives it.

## 6. Plan

Every safety property of the runs is proved but for four: those of statement
shapes, whose modules are recursive, and `FingerprintIdentifies`.  For this one,
first that the words of the text are in what `redact` returns, which goes as
`NumbersRedacted` does; then that folding twice is folding once (`FoldLists`,
`Collapsed`), for the redacted text of any text.
