# Verification of camt053-mcp

`camt053-mcp` serves the `camt053` library (bank statements in ISO 20022 camt.05x
XML) to language-model clients over the Model Context Protocol. Nearly all of its
own logic is around the library: which calls it admits, under which tenant it
records them, how it keeps a tamper-evident audit trail, how it caches the keys of
an identity provider, and a few rules over parsed entries. Beside it the repository
has a load benchmark and a complexity ratchet. This directory holds
TLA+ modules of that logic, TLC configurations that check them on small instances,
and TLAPS proofs, for instances of any size, of every invariant and
action property the runs check and of the three refinements. Paths below are
relative to `src/`; `PROJECT.json` maps every definition to the lines it stands
for.

## 1. Inventory

The import order is `auditing <- observability <- oauth <- transport <- server`.

| Component (code) | State | Operations | Status |
|---|---|---|---|
| Audit trail (`camt053_mcp/auditing.py`) | `_chain_state`: chain, key, lock; the `camt053_mcp.audit` log; one environment variable | `audit_event`, `_active_chain` | `AuditChain` (+ `ChainHistory`, `AuditLog`) |
| JWKS cache (`oauth.py`, `JWKSCache`) | `_keys`, `_fetched_at` | `get_key`, `_refresh`, `_stale` | `JWKSCache` |
| JWT verification (`oauth.py`, `JWTVerifier`) | none of its own; suspends in `get_key` | `verify` | `JwtVerifier`, on top of `JWKSCache`; a verdict in `HttpServer` |
| HTTP middlewares (`observability.py`, `transport.py`, `oauth.py`) | Prometheus counters, the tenant context variable | `MetricsMiddleware`, `BearerTokenMiddleware`, `OAuthResourceMiddleware` | `HttpServer` |
| Instrumented dispatcher (`observability.py`) | counters, audit log | `instrument_tools`, `classify_outcome`, `current_tenant` | `HttpServer`, `Outcome`, `Tools` |
| Server startup (`server.py` `main`, `transport.py` `run_http`, `_transports.py`) | the wrappers around the dispatcher, the listener | `main`, `parse_bind`, `OAuthConfig.from_env`, `build_http_app`, `run` | `Startup` |
| Entry listing (`server.py`) | none | `_paginate`, `list_entries`, `filter_entries` | `Pagination`, `Tools` |
| Anomaly screening (`server.py`) | none, but the hash seed of the process | `detect_anomalies` | `Entries`, `Anomalies`, `Tools` |
| Journal export (`export_journal.py`) | none | Xero and QBO payloads, placeholder count | `Entries`, `ExportJournal`, `Tools` |
| Entry classification (`classify.py`) | none; waits for the client's model | `classify_entry` | `Classify`, `Tools` |
| Rulebook (`rulebook.py`) | the registry, filled at import | `list_clauses`, `cite`; the clauses `bank_session_context` recommends | `Rulebook`, `Tools` |
| Vector search (`vector_search.py`) | memoised corpus | `search` | `Rulebook`, `Tools`: refusals, exceptions, how many clauses are found |
| Other tools, resources (`server.py`) | none | hand one library operation through | `Delegates`, `Tools`: result shapes only |
| Framework adapters (`adapters.py`) | none | call the function of a tool directly | `Tools`: one call |
| Load test (`bench/load_test.py`) | start gate, latencies and errors, the spawned server | `main`, the scenarios, `_StartGate`, `_vu_reuse`, `_vu_fresh` | `LoadTest`, `StartBarrier` |
| Complexity ratchet (`scripts/check_complexity.py`) | the committed baseline | `measure`, `compare`, `main`, `--update` | `Complexity` |
| Tracing (`tracing.py`) | SDK spans | wrapper around the dispatcher | only where it sits (`Startup`) |
| SDK compatibility (`_mcp_compat.py`) | none | the same names over mcp 1.x and 2.x | the difference that matters is a choice in `HttpServer` and `Tools` |
| Prompts | constants | texts | not modelled |
| Release scripts, fuzzing, dispatch benchmark, examples | none | one-shot checks and drivers | not modelled |

How they interact. A request enters `MetricsMiddleware`, which counts it when it
is over; then one of the two auth middlewares, which audits the decision and binds
the tenant header to a context variable; then the SDK's app, which runs a tool in
a task of its own behind `instrument_tools`, which counts and audits the call under
`current_tenant`. `OAuthResourceMiddleware` asks `JWTVerifier`, which asks
`JWKSCache`. Everything that is audited goes through `audit_event`, and so through
the process-wide hash chain. `main` decides which of these layers exist.

What is hard here:

* the hash chain is shared by all threads, and `_active_chain` tests and replaces
  it without the lock; the log line is written after the lock is released;
* the environment key may be rotated or removed at run time, and the process may
  die between an append and its log line;
* JWKS refreshes of several requests overlap and may complete in another order
  than they were served; the provider rotates and withdraws keys meanwhile;
* requests end by exceptions and cancellation at every `await`, tools outlive their
  requests, and tool tasks may have copied the context of another request;
* statement rules have boundaries (medians of an even number of dates, an empty
  set of ordinary amounts, pages at the end of a list) and iterate Python sets;
* failures are ordinary return values in five shapes which the SDK wraps again;
* a token is judged after an `await`, so its validity may end while its key is fetched;
* the virtual users of a load scenario meet at a gate, and any of them may fail before it;
* the ratchet identifies a function by its name and its place among its namesakes.

`PROJECT.json` lists each hazard at its line with the properties that would catch
it.

## 2. Modules

### Audit trail: `AuditChain`, `ChainHistory`, `AuditLog`

A call of `audit_event` is a process. `_active_chain` runs without the lock, so
each of its reads and assignments of `_chain_state` is an action (`ReadKey`,
`ClearChain`, `ClearKey`, `CheckChain`, `CheckKey`, `NewChain`, `SetKey`,
`GetChain`). The append is `Acquire`, `ReadTail`, `Store`, `Release`
(`HashChain.append` belongs to the `camt053` library: it reads the length and the
last hmac and stores an event built from them), and `Emit` writes the log line.
`SetEnv` changes the environment key, `Restart` kills the process and starts a new
one. A chain is named by the call that created it; `prev_hash` is the call whose
event it points to, since distinct events have distinct hmacs. `Threads` bounds
how many calls run at once: 1 is the server's event loop, more are worker threads,
which the comment at the lock and the tests of concurrent appends provide for.

`ChainHistory` is the abstract promise of the chains: created once under one
secret, then extended one linked event at a time, atomically. `AuditLog` is the
abstract promise of the log file on one thread: it falls, in file order, into runs
that `verify_chain` accepts. `AuditDeployments` puts the three deployments the claims of
`auditing.py` are about side by side, each an instance of `AuditChain`: a pool of
threads with rotation and restarts, the event loop (one call at a time), and a steady
process of three threads whose key stays. A property names the deployment it is about.

Left out: redaction and truncation of arguments, which shape a record and change
no state.

### Tokens: `JWKSCache`, `JwtVerifier`

`GetKey` is `get_key` up to its `await` or its end; `Answer` is the provider
serving its current document; `Complete` is `_refresh` resuming, replacing the
keys and `get_key` returning (one step: there is no `await` in between); `Fail` is
a timeout, a transport error or a body that is no key set; `Cancel` the request's
cancellation; `Leave` frees the slot. `Publish` and `Tick` are the provider and the
clock. `documents` and `servedAt` are history, for the properties.

`JwtVerifier` extends it with `verify`. A step of the verifier is a step of the cache
and, when that step returns a key or a refusal, the verdict (`Judge`): the checks of
`jwt.decode` and of `verify` in their order, the first that fails giving the reason,
by the clock after the await and with the leeway of `CLOCK_SKEW_LEEWAY_S`. A token
whose header cannot be read never reaches the cache. `HttpServer` takes only from this
that a verification may suspend and ends in a verdict.

### HTTP: `HttpServer`

One event loop, so a step is the code between two awaits. `Arrive*` is a request
through `MetricsMiddleware` into the auth middleware up to its first await,
`VerifyRefused` and `Verified` the end of `verify`, `Finish` the `finally` clauses,
however the request ends. `Initialize`, `AnswerDirectly` and `StartTool` stand for
the SDK; whether a tool runs in a task of the session (mcp 1.x) or of the sender
(2.x) is chosen at the start. `ReportTenant` is `get_tenant_context`, `EndTool`
the `finally` clause of the instrumented dispatcher. The counters and the audit log
are bags, so that a duplicate is seen.

A `Message` is what an authenticated request asks: a call of `/mcp`, or a probe of any path,
since `BearerTokenMiddleware` authenticates every path and `OAuthResourceMiddleware` every one
but a GET of its two metadata paths. So `/metrics` by another method than GET or HEAD, and the
well-known prefix (in static mode by any method), are refused, admitted and counted like the
rest. `Scrape` and `Metadata` are the two requests served before any header is read.
`AnswerDirectly` is the app answering without a tool; of its statuses 403 (an Origin
the SDK forbids, external) matters for the ledgers, and 404 stands for the others.

### Tools: `Pagination`, `Entries`, `Anomalies`, `ExportJournal`, `Classify`, `Rulebook`, `Outcome`, `Delegates`, composed by `Tools`

`Entries` is the parsed statement and the order of lists made of it: `sorted()` is a list in
which each member has as many before it as its place says. The modules up to `Outcome` are
the pure algorithms as operators; `Delegates` groups the tools
that hand a library operation through by the shape of their results. In `Rulebook` a
clause is its key, and a search finds as many clauses as it may, in whichever order
the distances (floats, left out) put them; the machine it runs on decides whether it
answers, refuses or raises. A resource is read, and an adapted tool is called, past the
dispatcher: these calls have a result and no recorded outcome. `Tools` runs
two calls, with `classify_entry` suspended while the client's model answers, and
restarts that change the hash seed and lose the memoised corpus. The properties relate the results of two calls,
since a client sees nothing else. Entries are records of what the rules read: texts
are members of small sets, an amount is an integer, `NaN` (Python's `Decimal` reads that text)
or missing, a reason code or a fee keyword a Boolean. An amount that does not parse is taken
for a missing one, as the fee rule takes it; the exporters would copy its text.
The two lines of a QuickBooks journal entry are fields of the entry.
`classify_outcome` recurses; `ClassifyOutcome` looks three levels below a value, which is as
deep as a converted result of this server goes (the tuple, the dict of its `result`, a list or
JSON text, and the dict in it), and the proofs show that no error of a tool is deeper
(`FailuresSeen`, `HarmlessSucceeds`). The `camt053` library is assumed to raise only `ValueError`
and `Camt053Error`, the exceptions the tools catch.

### Startup: `Startup`

`main`, `parse_bind`, `from_env` and the choice of the auth mode, `build_http_app`,
the startup record and `uvicorn.run`, or `_transports.run`. `Stop` ends the process
at any step; `Start` is the supervisor's, with any environment and command line. Port 0,
which `parse_bind` admits, lets the operating system choose (`Bindable`): the listener has any
port, and the startup record, written before, says 0.

### Repository tools: `LoadTest`, `StartBarrier`, `Complexity`

`LoadTest` is `main` with the server it spawns, and the scenarios one after the other.
The runner and its virtual users (VUs) share an event loop. `Ready`, `Fire` and `Pass`
are the methods of `_StartGate`; `NotOpened` is the handshake failing with an exception
the VU catches, `DiesEarly` and `DiesLate` are the others. `StartBarrier` is the abstract
promise of the gate: nobody passes before everybody has arrived.

`Complexity` is the ratchet over a tree that changes by one function at a time:
`Check` is `main`, `Update` is `main --update`. `Key` is the name with its primes,
`Measure` the report by key, `Compare` the problems in both directions. A function has
its metrics (radon and complexipy are external); that the code joins them to a function by its
first line, with a default where there is none (`check_complexity.py:101-102`), is left out.

## 3. Runs

| Run | Instance | Shows |
|---|---|---|
| `AuditDeployments` | 3 calls, 2 keys; 2 threads, the event loop, or 3 steady threads | `TypeOK`, `ChainsLinked`, `LogMatchesChains`; `ChainsAreHistories`: the chains implement `ChainHistory` although `_active_chain` is not locked; on the event loop `LoopRecordsUnderReadKey` and `LoopLogIsRunsOfChains`: the log implements `AuditLog` across rotation and restarts; in the steady process `SteadyLogSortedVerifies` and `SteadyCallIsLogged`: no thread waits for the lock for ever |
| `AuditLogOrder` (violation) | 3 calls, 2 threads, 1 key, startup record | `LogVerifiesEndToEnd` fails: finding 1 |
| `JwtVerifier` | 2 lookups of 3 tokens, 2 key ids, TTL 2, delay 1, leeway 1, time to 3, 2 documents | `UnknownMeansUnpublished`, `WithdrawnKeyExpires`, `EveryLookupEnds` of the cache, and `AdmittedIsValid`: a token is admitted by the clock of that moment and by a key published recently |
| `JWKSRefresh` (violation) | the same bounds, the cache alone | `RefreshesAreIdempotent` fails: finding 2 |
| `HttpServer` | 3 requests to all paths, 2 tenants, both auth modes, both SDKs | `HandedOnRequestsCounted`, `RefusalLedgersAgree`, `OnlyAdmittedReachApp`, `ToolCallsAccounted`, `ScopedCallAttributed`, `ReportedScopeIsAudited` |
| `HttpScrape` (violation) | the same | `EveryRequestCounted` fails: finding 5 |
| `Tools` | 2 calls of every tool, resource and adapter, all answers of the model, all hash orders | `PagesJoin`, `SpikesAreMinority`, `SameFindings`, `DuplicatesPersist`, `FeeVerdictsOnlyFall`, `ExportsAgree`, `RulebookAgrees`, `OutcomesTellResults` |
| `ToolsOrder` (violation) | the same | `SameStatementSameResult` fails: finding 3 |
| `Startup` | 2 starts, all environments, 4 transports | `HttpAuthNeverWeaker`, `ListenerIsAudited`, `HttpCallsInstrumented` |
| `LoadTest` | 0 to 3 of 3 VUs, 2 calls each, one or both scenarios | `CallsAddUp`; `GateIsBarrier`: the gate implements `StartBarrier`; `ScenarioEnds` |
| `LoadTestHang` (violation) | 2 VUs, 1 call | `GateOpens` fails: finding 4 |
| `Complexity` | 2 functions, 2 names, 2 metrics, values 0 to 2 | `NoOffenderHidden`, `PassMeansRecorded` |

Every property of a passing run has a mutant in `PROJECT.json`: a plausible
bug in one mapped definition under which the run fails.

Why the bounds are enough. Three calls on two threads are a creator of a chain, one
that meets it half-built or replaced, and one that continues what they left, with a
key change or a restart anywhere; the proofs of section 5 lift the bound for the
chains. Two lookups overlap, and a third in sequence is a slot used again; a TTL of
two ticks separates an age below, at and above it, and two documents are one
rotation in each direction (the key sets are all subsets); the bounds of time,
documents and lookups are lifted by proof. Of the tokens one names no key, so that it
meets none, its own, another's and several of them, and expires on the way; one is not
valid yet at first; one is malformed. Three HTTP requests are a session opener,
a caller in that session and one more actor; two tenants distinguish the
caller's from the opener's. `ProbeScopes` bounds the header of a probe to none: the properties
that tell tenants apart are about calls, and the proofs lift the bound. Statements are
generated per rule (`MCTools`): all
sequences of up to two or three entries that share keys in every way, fees at, under
and over a quarter of two baselines, without one or NaN, and with a reference that another entry
may have, up to nine entries on three dates that pass
both factors of the median, and pages below, at, across and beyond the end. Two starts let one follow a
refused or a killed one. In `MCStartup` spaces-only values are tried for two of the four
OAuth variables, since `from_env` strips all four alike. Three VUs are one that is late at the gate, one that waits and one that gives up
or dies, and two calls let a VU fail between them. Two functions share a name or do not, and
two values over a ceiling let an excess grow, shrink or go; proofs lift both bounds.

`CHECK_DEADLOCK FALSE` stands where a finite supply of calls, requests or starts is
used up, or a program ends; `JwtVerifier`, `JWKSRefresh` and `Complexity` check deadlock
(there the environment always has a step). `LoadTestHang` states its deadlock as a
liveness property, so that the run says what is waited for. Symmetry is used for
invariants only, over sets whose members nothing orders; runs with
temporal properties do without.

## 4. Fairness

* `AuditDeployments`: weak fairness of a call's steps once it runs, in the steady process
  only. A thread that is
  runnable is scheduled by the operating system; nothing makes a call begin.
  Weak fairness is enough although a call may wait for the lock, because there are
  finitely many calls, each appends once, and the holder releases.
* `JwtVerifier`: weak fairness of "the fetch completes or fails" per lookup. Every
  connect, write and read of `httpx.AsyncClient(timeout=10.0)` times out, and a
  response body is finite. The provider owes no answer. `EveryLookupEnds` then says that
  `_refresh` leaves no path on which the lookup stays suspended.
* `LoadTest`: weak fairness of the spawned server's port being answered or the 30 s being
  over, of the runner, and of each VU, whose requests are answered or time out
  (`httpx.Timeout(120.0)`). A VU may die instead of going on: fairness is of the
  disjunction, never of success.
* `classify_entry` waits for the client without a bound of its own, so nothing is
  claimed to end there.

## 5. Proofs

All proofs hold for any values of the constants that satisfy the modules' named
assumptions, which say no more than what the constants stand for:

* placeholders differ from the values they stand in for (`NoCall`, `NoKey`, `NoSession`,
  `NoText`, `NoAmount`, `NaN`, `NoLimit`, `OperatorFill` ...);
* what is counted is finite: the requests of `HttpServer` and the virtual users of
  `LoadTest`, which a process has served or started up to now. The calls of `AuditChain` and
  `Tools`, the lookups, tokens and keys need not be;
* bounds of time and number are natural numbers (at least one thread, one call of a user);
* inputs are of the types the code's parameters have: `InputsAssumption` (command lines and
  environments), `TokensAssumption`, `RequestAssumption` (the parameters of each tool; a
  statement is any finite sequence of entries). An order of hashes gives different texts
  different places (`RankAssumption`), and no clause is registered twice
  (`RegisterAssumption`, which `_register` enforces at import).

**`AuditChainProofs`.** `TypeOK` is not inductive for `events`: an append keeps the numbering only
if the length read before is still the length, which needs the lock. The
strengthening `IInv` adds `LockInv` (who is between `Acquire` and `Release` holds
the lock), `TailInv` (what the holder read is still the length of its chain) and
`ChainInv` (a chain a call can append to was created; a call that may still create
one has not). From `Invariance` follow `TypeCorrect`, `Linkage`
(`[]ChainsLinked`: any number of threads, any key changes, any restarts) and
`Implementation` (`Spec => ChainsAreHistories`: `NewChain` maps to `Create`, `Store`
to `Extend`, every other step to a stutter). For `LogAgrees` (`[]LogMatchesChains`) `RInv` adds
what each end of a call knows of the other: what a call is about to log is the event of
its chain (`OutInv`), an event's call is between append and line, has its line, or was killed
(`EventInv`), and a line is of a call that is over or killed, which has no second (`LineInv`).

**`AuditDeploymentsProofs`.** The three deployments share steps, so one invariant, `DInv`, has
`RInv` always and an invariant of its own for two of them. `DeploymentsAgree` and
`DeploymentsImplement` are the theorems of `AuditChain` for all three.
On the event loop `LoopInv` says that one call runs (`OneRunning`), that `stateKey` is the key
its chain was created with except right after `NewChain` (`KeyRemembered`), that the last line is
the last event of the chain unless a call is between the two (`ChainWritten`), and what the call
knows where it is (`LoopCall`): this is what the missing lock of `_active_chain`
cannot break. `LoopRecords` follows, and `LoopLogRuns`, the refinement of `AuditLog`: `Emit` maps
to its `Write`, every other step to a stutter, a restart included.
With the steady key `SteadyInv` says that, once the startup record is out, there is one
chain with the key, and every call that has got that far continues it; before, one call
runs at a time. With `RInv` every line is then an event of that chain, and once nobody writes
every event has its line, so that the chain is no longer than the log (`EventsFit`, an
injection); `SteadySorted` follows.

**`JwtVerifierProofs`, the cache.** `JInv` adds that times of publications do not lie in the
future (`ProviderInv`), that the cache holds a document which was being served at most
`MaxDelay` before it was stored, whichever of the overlapping refreshes stored it
(`CacheInv`), and what an answer under way is (`AnswerInv`). `UnknownIsFresh` follows from it, and
`WithdrawalBound`, an action property: a key is accepted from the cache or from a
document just received, and in both cases it was still published less than a TTL ago,
give or take `MaxDelay`. The out-of-order refresh of finding 2 does not stretch this
bound: the older document brings its own age only up to the delay.

**`JwtVerifierProofs`.** `VerifierKeepsCache`: the verifier moves the cache only as
`get_key` does, so `VerifierSpec => Spec` and the theorems of the cache hold of it
(`VerifierRefusalsFresh`, `VerifierWithdrawal`). `VInv` keeps that a lookup that
fetches has a token and no result yet, and that none is done without a verdict. `DecodeOrder` shows that an
admission, or a refusal for scopes alone, passed every check before; with the withdrawal
bound of the cache it gives `AdmittedTokens`, an action property about the moment of
admission, for any tokens, keys, TTL, delay and leeway.

**`StartupProofs`.** `ChoicesInvariance` keeps, from the choice of the auth mode to
the end of the process, that the mode is the one the environment calls for and that the
wrappers are in place; `AuthNeverWeaker` and `CallsInstrumented` follow. `StartAudited` adds an
invariant of the log (the record of this start is absent before `AuditStarting` and last afterwards);
it speaks of the port of the listener, and of 0 where the command line left the port open.
`StartupTypes` needs all of these and that a running process has a command line and an
environment (`TypeInv`): the type of a log record comes from the port that was parsed and the
mode that was resolved before it.

**`HttpServerProofs`.** The ledgers are bags and the promise is about their copies, so `HInv` says of
each how many copies there are of what, in terms of the requests: a request is as far
as its records say (`ProgressInv`); every record is there once, is of a request and says
what that request got (`RecordInv`); a request has at most one record of a kind, and has it from
the step on that owes it (`OnceInv`); each counter is the number of requests with such a record
(`CounterInv`); and who was not answered yet has status 500 (`StatusInv`). `HandedOnRequestsCounted`
is a part of `HInv`. The work of a step is that a bag gains one copy exactly when the set of
requests it counts gains one member (`BagPlusOne`, `GainsOne`). `RefusalLedgers` then
follows path by path: a request that is over with 401 was refused, for another reason than a
missing scope, and one with 403 was refused for that or forbidden by the app. From it follow also
`HttpTypes`, `HandedOnCounted`,
`AdmittedReachApp`, `ToolCalls`, `ScopedCalls` and `ReportedScope`, for every finite set of
requests and tenants, both authentication modes and both SDKs.

**`LoadTestProofs`.** `LInv` says that the countdown is the number of VUs that have not
reported and zero when `allReady` is set, that the gate is open only then and while the
runner times, that a VU is past it only when it is open, and that there is a scenario to run and
a call to make wherever one is; it needs that a VU reports once, whatever way its
handshake ends. `GateImplementsBarrier` maps `Ready` to `Arrive`, `Fire` to `Open`, and
the reset between scenarios to `NewRound`. With no VU at all the countdown is zero
and `allReady` is never set, which is why that half of the invariant is an implication.
`TallyAddsUp` (`CallsAddUp`) names each call of a scenario by its user and its number counted
down: `TallyInv` says that the calls that ended, and all of a user who gave up or is done, are as
many as latencies and errors together; a handshake that fails adds all calls of its user at
once, and at `Gather` the set is all pairs of users and numbers.

**`ComplexityProofs`.** `CompareIsEquality`: `compare` finds no problem exactly when the
two reports are equal, for all reports. `KeysDiffer`: namesakes get different keys. With
the invariant `RInv` (the tree is a sequence of functions, the baseline a report) follow
`PassIsEquality`, `EveryOffenderListed` and `RatchetTypes`.

**`ToolsProofs`.** The invariant `TInv` is short, since the tools keep no state: a finished call
has a result that its tool computes from its request under the order of some hash seed
(`Answered`), and the outcome the dispatcher tells of it (`Recorded`). Everything else is
about the pure algorithms, for statements of any length:

* *Lists.* `Places` (a finite set with a total order has one member for each place, by counting
  what is before it) and `SortedLists` (`Sorted` is a list of exactly the members, in
  order, without repetition) replace induction over the list. `PagesContinue`: for every
  list, offset and pair of limits two consecutive pages join to the one that covers both;
  `WholeListIsOnePage` relates a page to the answer without a limit; `PagesOfCallsJoin`
  carries it to two calls of a tool.
* *Outcomes.* `ConvertedForms` says what a converted result can be looked into for;
  `FailuresSeen` and `HarmlessSucceeds` give `OutcomesTell`.
* *The rulebook.* `RulebookIsOne`: a search that found fewer clauses than it asked for found all,
  because a subset of the registry as large as it is the registry (`FewerIsAll`).
* *Exports.* `TargetsAgree`: a placeholder is a pair of an entry and a field; a field of all
  entries is as many pairs as entries lack it (`OneMoreField`, `FourFields`), and the
  fields of the two payloads differ by currency and contact.
* *Screening.* `Screening` gives the set of findings of each rule in terms that do not mention
  the order of the hashes: `MetBefore` is a total order of the groups whatever the ranking,
  so a list sorted by it has all of them (`SeedsAgree`). `BaselineGrows` (the largest ordinary
  amount of a longer statement is no smaller) gives `FeeVerdictsFall`, `LabelsContinue` (the
  labels of a group that grows begin with those it had) gives `DuplicatesStay`.
* *The median.* `FewSpikes` counts: in the list of dates by their number of entries, a spike
  comes after the two middle places, since its count is above three halves of their sum and
  so above both; what comes after them is less than half of the list. Hence
  `SpikesAreFew`, for any statement, where the run tries three dates.

An attempt at `FeeVerdictsFall` changed the property. A finding names an entry by its
label only, so when a longer statement has a second entry with the reference of a fee, a finding about
the second cannot be told from one about the first, and the fee that passed seems
reported. The property now speaks of entries whose label no other entry has; `Fees` in
`MCTools` has statements with and without a shared reference.

Only model-checked: the liveness properties `SteadyCallIsLogged`, `EveryLookupEnds` and
`ScenarioEnds`, since the prover has neither fairness nor ENABLED; and the five
violations, whose counterexamples are runs. Every other property of a passing run is the
statement of a theorem.

## 6. Findings

1. **Log order** (`auditing.py:196`). The docstring says the whole log verifies
   end-to-end. The line is logged outside the lock, so a later record can come first: the run
   has sequence 2 follow 0, with 1 appended and not yet written. Sorted by sequence the lines do verify
   (`SteadyLogSortedVerifies`).
2. **Overlapping refreshes** (`oauth.py:320`). The comment calls them idempotent; the last
   to complete wins although its document may be older, and then
   stays for a TTL. Unknown key ids still force a refresh
   (`UnknownMeansUnpublished`), so what it costs is how long a withdrawn key is accepted.
3. **Order of anomalies** (`server.py:1198`). A Python set of strings is iterated;
   the order of the findings depends on the hash seed of the process, while
   the documentation says that the same statement always yields the same result.
   The set of findings is the same (`SameFindings`).
4. **The load test waits for ever** (`load_test.py:351`). The runner looks at its VUs only
   after the gate, and a VU whose handshake raises anything but `httpx.HTTPError` or
   `RuntimeError` (an `httpx.InvalidURL` for a mistyped `--url`, an `OSError` of the
   client) ends without reporting. Otherwise the scenario ends (`ScenarioEnds`).
5. **A scrape that is not counted** (`observability.py:292`). Lines 20-22 say that every HTTP
   request that reaches the transport is counted. A GET of `/metrics` is counted after its
   response was sent and outside a `finally` clause: when the sending raises or is cancelled it
   is not. Every other request is counted however it ends (`HandedOnRequestsCounted`).

Observations that are not runs:

* A call without a tenant header is attributed, under mcp 1.x, to the tenant of the
  request that opened the session, because its task copied that context;
  `server.py:949-952` says `null`. A call that names its tenant is always attributed
  to it (`ScopedCallAttributed`).
* `classify_outcome` cannot see a failure when the SDK's converted result is content
  blocks only or one result object: it answers success. `OutcomesTellResults` says so
  with its condition `structured`.
* Transports other than `http` are not instrumented, so their tool calls
  are neither counted nor audited.
* On a pool of threads `_active_chain` (`auditing.py:149`) works on shared state without
  the lock: around a rotation a call that read one key may append to the chain of another
  or log a plain record. On the event loop this cannot happen
  (`LoopRecordsUnderReadKey`), and the chains stay well-formed in any case (`Linkage`).
* The ratchet (`check_complexity.py:57-67`) descends into classes and functions only: a
  function defined inside an `if`, `try` or `with` is never measured, although line 4
  says "every function". `--update` writes what it measures, so the baseline that "can
  only shrink" (lines 16-18) can grow; the check ensures only that this shows in the change
  (`PassMeansRecorded`). A new function may take the key of a namesake that is gone.
* An adapted call (`adapters.py`) goes past the dispatcher, so it is neither counted nor
  audited, and `classify_entry`, which asks for a context no adapter gives, raises
  (as does `get_tenant_context`, which is not among the modelled adapter calls).
* A vector search whose extension does not load raises, and its connection is left to the
  garbage collector; a query without a word is the zero vector, for which the index may
  return no distance, and `float(None)` raises.
* `--sessions 0` makes the load test wait for ever: nobody counts down to zero.
* A span is marked OK when the tool returns an error, since `trace_span` sees exceptions
  only (`tracing.py:185`), and has no status when the call is cancelled: traces and the
  recorded outcomes count failures differently.
* `classify_entry` documents two results (`classify.py:120-122`), but raises when the model
  answers with an integer no float holds (`OverflowError` at 197) or one of too many digits (a
  `ValueError` of `json.loads` that is no `JSONDecodeError`, 159-160). Both answers are in
  `Classify`, and the run `Tools` has them end as an exception (`OutcomesTellResults`).
* `--bind HOST:0` listens on a port the operating system chooses, and the startup record says 0
  (`transport.py:333-336`): the log tells that the port was left open, not which it is.
* An amount `NaN` is a `Decimal` that every comparison refuses (`server.py:1253`, `1267`):
  `InvalidOperation` leaves `detect_statement_anomalies`, which catches only what the parsing
  raises. Whether the `camt053` library lets that text through is its own.
* After a failed fetch the old keys of the JWKS cache stay (`Fail` leaves them); no property
  says so, since it restates that assignment.
* The wrapper around the dispatcher is installed at most once even if asked for twice
  (`instrument_tracing`, `instrument_tools`); one start asks once, so no run exercises it.

## 7. Not modelled

* Redaction and truncation of audited arguments, and the session record: they shape a
  record and change no state.
* Tracing spans: they live in the OpenTelemetry SDK; the wrapper opens one around the call
  and lets it go, whatever happens. Its place among the wrappers is in `Startup`.
* The texts of prompts, of clauses and of classification prompts; the numbers inside
  embeddings and distances.
* What the `camt053` library, the MCP SDK, Starlette, uvicorn, httpx, PyJWT and sqlite-vec do
  inside; they appear as the choices their callers have to cope with.
* `scripts/check_suite_consistency.py` and `scripts/verify_versions.py`: each reads
  files once, compares them and exits.
* The memory sampler, the percentiles and the table of the load test; fuzzing, the dispatch
  benchmark and the examples: drivers or reports without a decision of their own.

## 8. Plan

Done, in this order: `AuditChain` with its abstractions and proofs; `JWKSCache` with
its proofs; `HttpServer`; the tools; `Startup` with its proofs; `JwtVerifier` with its
proofs; the rulebook, the search, resources and adapters in `Tools`; `LoadTest` with
`StartBarrier` and proofs; `Complexity` with its proofs; the log and the deployments of the
audit trail proved; `HttpServer` proved; the tally of `LoadTest` and the types of `Startup`
proved; `Tools` proved.

Next:

1. Safety that leads towards the liveness properties: in the steady process, a call that
   waits for the lock waits for a call that is between `Acquire` and `Release` and whose next
   step is enabled; in `LoadTest`, the runner waits only for a user that can still report.
2. An abstract specification of one HTTP request (admitted or refused once, counted once, its
   tool recorded once) that `HttpServer` implements for each of its requests.
3. The session record and the redaction of arguments, if they come to change state.
