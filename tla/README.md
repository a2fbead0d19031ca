# A TLA+ model of MQ-Sentinel

MQ-Sentinel is a read-only diagnostic server for IBM MQ. AI clients call its tools over MCP (HTTP or
stdio) or over a small REST route; the server verifies the caller's token, limits its rate, checks its
role, connects to a queue manager, runs `DISPLAY` commands, turns the replies into findings and records
the call in a hash-chained log.

This directory models the parts of it that keep state, run concurrently or must survive failures. TLC
checks the models on small instances, and TLAPS proves every safety property that a run checks for every instance
(some of those of the audit log for a sole logger only). All
paths below are relative to `src/src/mq_sentinel/` unless they start with `docs/` or `tests/`.

## 1. The system

| Part | Source | State | Operations | What is hard |
|---|---|---|---|---|
| Rate limiter | `security/ratelimit.py` | a token bucket per subject, a lock | `allow` | threads enter the lock in another order than they read the clock |
| Audit log | `audit/logger.py` | `_prev_hash` and a lock per process, one file | `write`, `_load_last_hash`, `verify_chain` | failing and torn writes, crashes, a second process, `doctor` |
| OIDC verifier | `auth/oidc.py` | cached key set, its time, a lock | `verify`, `_get_jwks`, `_select_key` | slow, failing and wrong answers of the identity provider during key rotation |
| Dispatcher | `server.py` | locals of each call | `dispatch`, `health`, eight diagnose methods | every stage may fail, two `finally` clauses may replace the result |
| RBAC, inventory, secrets | `auth/rbac.py`, `inventory/`, `secrets/` | immutable after start | `authorize`, `get`, `resolve` | order of lookup and authorisation |
| Connection lifetime | `tools/base.py`, `connectors/pymqi_connector.py` | one MQ connection per call | `open_qm`, `connect`, `disconnect` | failures half way |
| HTTP transport | `http_app.py`, `build_mcp` of `server.py` | event loop, worker pool | bearer gate, MCP calls, REST route, probes | what blocks the loop, what exhausts the pool |
| Composite health check | `tools/health_check.py`, collectors and matchers | locals of one check | `full_mq_health_check` | errors that are swallowed, a queue manager that changes during the check |
| Topology detection | `topology/detect.py` | locals of one call | `detect` | every probe is best effort, the kinds of queue manager overlap |
| HA and z/OS tools | `tools/{native_ha,rdqm,zos,miqm}.py`, their `rcs/matchers/` | locals of one call | `run_*_checks`, `match_*_findings` | failed commands that look like empty answers, shell commands that tell of the server's own machine, a system that fails over meanwhile |
| Citations | `rcs/kc_registry.py` | a table | `lookup_topic`, `lookup_amq`, `_filter_version` | versions without an entry |
| Allowlist, sanitizer, MQSC parser | `security/`, `connectors/mqsc_parser.py` | none | pure string functions | |
| Configuration and start-up | `config.py`, constructor of `server.py` | settings | `load_settings`, `assert_production_safe`, `_default_verifier` | which combinations yield the verifier that takes any token |
| Command line, telemetry | `cli/`, `telemetry/` | none that lives on | `doctor`, `health`, ... | `health` and `doctor` touch the log of a running server |

A call goes: HTTP transport (bearer gate) -> dispatcher -> verifier -> rate limiter -> inventory and RBAC ->
secrets -> connector -> topology detection -> tool -> disconnect -> audit log -> answer. The limiter, the verifier and
the logger are objects shared by the worker threads; the log file is shared by processes.

## 2. Modules

| Module | Models | Composes or refines |
|---|---|---|
| `RateLimiter` | `RateLimiter.allow` by concurrent threads | |
| `AuditLedger` | abstract: an append-only ledger with acknowledgements | |
| `AuditLog` | `AuditLogger`, `verify_chain`, `doctor`'s path check | refines `AuditLedger` |
| `JwksCache` | `RealOIDCVerifier.verify` and the identity provider | |
| `Dispatch` | `MQSentinelServer.dispatch`, RBAC, `open_qm`, the REST status | abstract views of the three above |
| `Startup` | what a configuration makes of a server: connector, verifier, whether it starts | |
| `HttpTransport` | start of the server, event loop, pool, gate, MCP and REST routes, probes | `Startup`; abstract view of `Dispatch` |
| `HealthCheck` | `full_mq_health_check`, its collectors, matchers and the DLQ browse | the detail of `Dispatch`'s `Run` |
| `HaMatchers` | parsers and matchers of the Native HA, RDQM, multi-instance and z/OS tools, `_classify`, citations | |
| `HaDiagnosis` | a call of one of these four tools, from topology detection to the report | `HaMatchers`; the detail of `Dispatch`'s `Run` |
| `RateLimiterProofs`, `AuditLogProofs`, `JwksCacheProofs`, `DispatchProofs`, `HttpTransportProofs`, `HealthCheckProofs`, `HaDiagnosisProofs` | theorems | extend the module they are about |
| `HaReportProofs` | theorems about what the HA and z/OS tools report | extends `HaDiagnosisProofs` |
| `MCAuditLog`, `MCJwksCache`, `MCDispatch`, `MCHealthCheck`, `MCHaDiagnosis` | concrete tokens, requests, views, systems and symmetry for TLC | |

`PROJECT.json` maps every definition to its source lines. Definitions whose comment begins "A mutation of"
are wrong variants of the definition that follows them. They are not part of any specification; each shows
that some property fails when the code is changed in that way.

### RateLimiter

Actions follow the lines of `allow`: `CallAllow` reads the clock (line 26, outside the lock), `Acquire` takes the
lock and looks the bucket up, `Grant` and `Deny` refill, decide and leave. Tokens are counted in sixtieths, so
refilling is exact integer arithmetic where the code uses floats; the clock moves in whole seconds up to
`MaxClock`. `OpenWindow` is an observer: it starts counting admitted calls afresh, so that `WindowBound` speaks of
every window and not only of the one that begins at start-up.

A window opens no later than the oldest clock reading in use. Without that the bound would be false: a thread
delayed between line 26 and line 27 spends tokens of an earlier time.

### AuditLog and AuditLedger

A SHA-256 hash is modelled by what it commits to, the sequence of all bodies up to the record: two hashes are equal
exactly when the records and all they build on are equal. A line of the file is a record or `Junk`. Each event
is written once, which bounds the runs. `OpenLog`, `AppendLine` and `Commit` are separate actions: a process may be killed, and `doctor` may unlink the
log, between them. A `write` whose log was unlinked after `OpenLog` writes into no file and is acknowledged. Faults are switched by constants: `WriteFails` (nothing written), `WriteTorn` (a fragment, or the
whole line without its newline), `Stop` and `Start` (any time), a second process, `Edit` of a record, and
`DoctorCheck`/`DoctorUnlink`.

`AuditLedger` says what a caller relies on: entries are only appended, no event enters twice, an acknowledged
event is in it. The refinement maps the ledger to the bodies of the file's lines.

### JwksCache

Times are kept as ages that saturate at the TTL, so the model has no clock bound. `StartFetch` holds the lock over the
request, as line 143 does; `Respond` is the moment at which the provider reads its keys; `FetchOk` stores them with the age
counted from before the request. `RespondGarbage` is a 200 answer whose JSON holds no keys, or is no object at all, which the code caches; with the latter
`verify` ends in an `AttributeError` (`SelectRaises`) where it otherwise ends in a `TokenVerificationError`.
For a token without `kid` the whole key set is handed to the library: the model lets it accept or reject.

### Dispatch

Each call is a process that goes through the stages of `dispatch`; `exc` is the exception in flight, and
`Disconnect`, `DisconnectFails`, `Audit` and `AuditFails` are the two `finally` clauses with everything they may replace.
The six tools that take only a `qm_name` are one tool and the two that also take a sample size another, because
`dispatch` treats them alike. `VerifyFails` ends with a token error or, after a malformed key set, with another one. `Authorize` keeps which action a denial
names (`read:prod` or `read:nonprod`), since MCP passes the text on. `RestStatus` is the chain of `except` clauses of `http_app.py` with Python's subclass
relation.

### HttpTransport

An action is a stretch of a handler between two awaits and needs the event loop to be free. `POST /mcp` uses a worker thread twice
(gate, then dispatch); `POST /mcp/tools/call` runs `dispatch` on the loop. `Boot` starts the server with any of the 72
`Configurations` of `Startup` (environment, local-development switch, complete OIDC settings or not, inventory directory or not,
connector); some are refused. What the gate does with a token depends on what `Boot` left: the environment, the
local-development switch and the verifier, which is the stub that takes any token unless the OIDC settings are complete. `ForgedNeverServed` ties a
served request to the configuration the server was started with.

### HealthCheck

The tool is sequential and the queue manager is not: between two commands `ViewChanges`, `Put` and `Get` change it, and `Break`
ends the connection. Each command may be refused on its own. A *view* is what the `DISPLAY` commands would show at one
moment: channel rows, AMQ codes, cluster rows, the `REPOS` attribute. The matchers are operators from rows to sets of
findings; a finding keeps category, severity, kind and subject and drops its prose. `Facts` says, independently of the
matchers, what is true of a view; `ever` and `always` collect what was true at some and at all times of the check.
Beside the queue that `DEADQ` names there is `SYSTEM.DEAD.LETTER.QUEUE` with messages of its own (`fallback`): the tool browses it when `DEADQ` is not answered or empty
(`Contents`). `Upper` is what upper-casing does to cluster names.
`FindingsWitnessed` and `NothingMissed` each name the one case in which the code says something untrue, or nothing, because of these.
The library's list order is a rank with ties in any order. The thresholds 100, 1000 and 10000 of the queue depth
and the sample maximum of 500 are constants, scaled down in the instance.

`ViewsAssumption` is about MQ, not about the tool: a reply has finitely many rows, and a queue manager lists itself among the members of its clusters, as
a full repository if its `REPOS` attribute says so. If it did not, a refused `DISPLAY QMGR REPOS` would lead to a
CRITICAL finding on a queue manager that is its own full repository (`rcs/matchers/cluster.py:76`).

### HaMatchers and HaDiagnosis

The four tools have one shape: `detect()` sends six probes, the tool sends two to five commands, and one matcher turns what came
back into findings. `todo` holds the commands still to be sent, `heard` the replies; each command is a step, between any two
the system may change (a failover, a node lost, a disk filling) or the connection break. A reply is what it says, as records
and sets of rows. A command raises (`Raised`: the helpers of the tools turn that into an empty text), or its error text is taken for a reply (`Complained`): a shell command ends with an
exit code other than 0, or MQSC answers with an `AMQ` message and no rows. A complaint in `Naming` has words `detect()` looks for, as the usage text of a command may. `MaxFaults` bounds how often that happens while an
answer was to be had. Shell commands run on the server's machine and only if the inventory entry says the queue manager is
there (`local`); `OwnHost` is what they would show otherwise.

`Facts` says what is true of a system, in terms of MQ and not of the matchers; `ever` and `always` collect it over the call. Where the tools say
something else the properties name the case: the seven disjuncts of `FalseAlarm`, the eight of `Overlooked`. Each of them is needed: without any one the run `ha` is violated.
A finding made or a trouble passed over outside these cases violates `FindingsWitnessed`, `NothingMissed` or `SeenMeansChecked`.

The crm_mon reply is a list of nodes, each with its state and whether it is in fact there (a node on standby or in maintenance may well be), bullets with the word that made
`_CRM_FAILED_RE` match, and whether there is a section of failed actions. `CHINIT` rows are a sequence, because the first decides.

Two assumptions are about MQ. `SystemsAssumption`: a `DISPLAY` command that is answered shows something, if only no rows, `QMSTATUS` names
`NATIVEHA` wherever there are Native HA instances, and what a system shows is not an error message, but for "object not found" where there is no cluster. `RowsAssumption`: a
reply has finitely many rows, a version is eight digits or four numbers, percentages and backlogs are numbers or no number, crm_mon shows a node once, there if it is online and not
if it is offline, a peer line of `drbdadm` shows a connection, `dspmq -x` lists an instance once and
`dspmq -o standby` a queue manager once. The theorems about these tools rest on both; TLC evaluates them on the instance of the run `ha`.

## 3. Runs

| Run | Checks | Instance and why it is enough |
|---|---|---|
| `limiter` | `TypeOK`, `WindowBound`, `LevelNeverNegative`, `EveryCallReturns` | two threads on one subject, clock 0..4, two thirds of a token per second, burst 1: buckets are created, overdrawn by late readings and refilled to the cap |
| `limiter_burst` | `RefusedOnlyAfterBurst` (violated) | two threads, two subjects, burst 2 |
| `audit_single` | `TypeOK`, `ChainIntact`, `AckedRecorded`, `EveryWriteReturns`, `RefinesLedger` | one process, two threads, three events, two stops: a failed write, a kill between append and commit, and a restart fit between two acknowledged records |
| `audit_faults` | `VerifiedMeansComplete` | two processes, three events, torn writes, edits, `doctor` at any point, also between `open` and `write`, one stop (1,085,932 states) |
| `audit_two_loggers` | `ChainIntact` (violated) | two processes, no other fault |
| `jwks` | `TypeOK`, `FreshKeysRecent`, `NoResurrection`, `EveryVerifyReturns`, `CacheFollowsProvider` | two threads, one key published and withdrawn without limit, TTL of two steps: the shortest that tells "before" from "after" the request inside a TTL |
| `dispatch` | `TypeOK`, `ConnectOnlyAuthorised`, `RefusalTellsOnlyProd`, `NoSessionAfterReply`, `AnswersAreRecorded`, `StatusTellsCause` | two interleaved calls; three principals (no read role, non-production, production), a queue manager of each environment and an unknown one; every malformed kind of request; burst 1, so that the second call of a subject may be limited; key sets that break the verifier (236,303 states) |
| `dispatch_unrecorded` | `EveryCallRecorded` (violated) | one call |
| `http` | `TypeOK`, `GatedBeforeDispatch`, `ForgedNeverServed`, `EveryRequestAnswered`, `ProbeAnswered` | every configuration; three requests of any route and token, one worker thread: the smallest pool is the one that deadlocks first |
| `http_rest` | `EventLoopFree` (violated) | the same |
| `health` | `TypeOK`, `FindingsWitnessed`, `NothingMissed`, `SkippedSayNothing`, `SummaryTellsWorst`, `DeadConnectionShows`, `ReportAlwaysMade` | two views (every matcher fires in one and is silent in the other; two clusters whose names differ only in case), one change of view during the check, two dead letters that come and go without limit on the dead-letter queue and on the default one, a sample of one or an invalid one, depth limits 1, 2, 3 (622,074 states) |
| `ha` | `TypeOK`, `FindingsWitnessed`, `NothingMissed`, `SeenMeansChecked`, `TopologyJustified`, `RemoteUnseen`, `FindingsCited` | four tools, each on a queue manager of each of five kinds (plain, Native HA, RDQM, multi-instance, z/OS), local or not; one to six states of each, in which every matcher fires in one and is silent in another, at its limits and beside them; two changes of the system and one failing command besides those a broken connection or a remote host makes fail, so that a state may come and go again and any source fail alone or with others; the server's own machine runs another queue manager in trouble; an error message that names a topology and one that does not (1,184,399 states) |

`CHECK_DEADLOCK FALSE` stands where the modelled program really ends: all events written, all calls answered, all requests answered, the
report made. The limiter and the key cache never stop.

### Fairness

- Locks (`RateLimiter`, `AuditLog`, `JwksCache`): strong fairness of acquiring. `threading.Lock` promises no order, but a
  waiting thread is woken each time the lock is released; that it never wins is a schedule the operating system does not
  produce. Holders run on by weak fairness: they compute, or do I/O that succeeds or fails.
- The identity provider: weak fairness of "answers or fails", because the HTTP client has a timeout. That the provider is ever
  up is not assumed; `CacheFollowsProvider` has it as its own antecedent.
- `HttpTransport`: weak fairness of what the event loop and the pool do by themselves, both first come, first served.
  Nothing is assumed of MQ or of clients; `EveryRequestAnswered` has that as its antecedent, and `ProbeAnswered` holds without.
- `HealthCheck`: a command is answered or fails. The code has no timeout of its own (`_MQSC_TIMEOUT`,
  `connectors/pymqi_connector.py:34`, is never used), so this is a promise of the MQ client.

### What the violated runs show

- `limiter_burst`: thread A reads the clock and is delayed; B creates the bucket later; A's elapsed time is negative and
  takes tokens away. A subject is refused before its burst is used (`security/ratelimit.py:26`). The bound on what is
  *allowed* is not affected, and the loss is made good by the next reading: `LevelNeverNegative`. How early a refusal can be, and
  that threads in order are never refused early, is proved (section 4).
- `audit_two_loggers`: `mq-sentinel health` beside a running server writes with its own `_prev_hash`; the chain no longer
  verifies although nobody tampered with it. `audit_faults` shows the other direction stays right: a log that verifies is complete.
- `dispatch_unrecorded`: parameters that `orjson` cannot serialise make `_hash_params` raise in the `finally` clause of
  `dispatch`: the caller gets an error and no record is written, whether the token was refused (the shortest trace) or the tool has run. `DispatchEncodableRecorded` says this is the only
  way, but for a log that cannot be written.
- `http_rest`: the REST route runs `dispatch` on the event loop; while MQ does not answer, no probe is answered either.
  `HttpEventLoopFree` says the other routes leave the loop free.

### Observations without a run of their own

High-availability and z/OS tools:

- Seven kinds of findings that may be untrue (`FalseAlarm`). With a recovery group but no answer, or no rows, to `NATIVEHASTATUS` the Native HA matcher counts no active instance and
  reports CRITICAL, although its docstring says it stays silent without instances (`rcs/matchers/native_ha.py:40`). An error text of `rdqmstatus`, or the
  status of a queue manager that is no RDQM one, reads like an RDQM group that runs nowhere. A split brain of one DRBD resource is reported for
  all. Pacemaker nodes on standby count as offline or not at all, UNCLEAN, pending and maintenance ones not at all, so that the rest may seem a minority
  (`tools/rdqm.py:162`). Beside a section of failed actions a resource that is stopped or unmanaged is reported as failed (`tools/rdqm.py:33`).
  When `dspmq -o standby` is not answered, standby instances are reported as not permitted.
  `dspmq -x` lists every queue manager of the host, and all of them count as instances of the one asked about.
- Eight kinds of troubles that a reply shows and no finding tells (`Overlooked`): a lost quorum, or a node that is away, when a node is in a state the parser drops;
  a failed resource without a section of failed actions, or in the line after one that ends in the matching word, whose bullet the regular expression takes for a node name;
  another queue manager on the host is active, or permits standby instances, where this one does not; without a reply of `dspmq -x` the other reply is not looked at; a DRBD
  resource without peers is dropped, its failed disk
  and, while other resources have peers, its split brain: the report tells of the others' split brain and not of the one that has it; a channel initiator of which one row
  says something else than the first, or nothing at all (`tools/zos.py:46-50`).
- Any answer to `DISPLAY CLUSQMGR` makes a queue manager a TRADITIONAL_CLUSTER one, also "AMQ8147E: IBM MQ object not found."
  (`topology/detect.py:59`; that answer is in `tests/integration/test_pymqi_live_path.py:53`). Error texts with `DRBD` or `STANDBY`, such as a usage message, name RDQM and MULTI_INSTANCE.
- A reply that names `NATIVEHA` or `STANDBY` counts as that topology whatever follows: `NATIVEHA(NO)` makes a queue manager NATIVE_HA
  (`topology/detect.py`). A remote RDQM or multi-instance queue manager is never recognised, because shell commands need a local one.
- `CommandNotAllowedError` is documented as "never caught silently" (`security/allowlist.py:63`); the helpers of all tools and of `detect()` catch every
  exception. None of the commands the tools send is refused, so no run shows it.
- Outside production, incomplete OIDC settings yield the verifier that takes any token (`server.py`, `_default_verifier`). `ForgedNeverServed` is
  therefore about servers that run in production.

The rest:

- After a torn write the next record is appended to the fragment and cannot be parsed, although its `write` returned a hash
  (`audit/logger.py:77`). `VerifiedMeansComplete` shows `verify_chain` notices.
- `doctor` touches a missing log and unlinks it (`cli/main.py:99-107`). Records a server writes in between are deleted, and one whose `write` stands
  between `open` and `write` (`audit/logger.py:77-78`) is acknowledged and goes into no file; `verify_chain` accepts the missing log. That is the
  exception `doctor # "destroyed"` in `VerifiedMeansComplete`.
- A key set that is JSON `null` or a list is cached and makes `verify` raise `AttributeError` (`auth/oidc.py:154`, not caught at `:116`) until the TTL runs out: REST answers
  500 without a principal, and the bearer gate fails likewise. `StatusTellsCause` allows 500 for that and for nothing else without a principal.
- The text of an RBAC denial names the action that was missing, `read:prod` for a production queue manager and `read:nonprod` for any other and for unknown names
  (`auth/rbac.py:44-45`), and MCP returns it. `RefusalTellsOnlyProd` says that this is all a refusal tells.
- `REPOS(clus)` makes a queue manager pass for a full repository of `CLUS` (`rcs/matchers/cluster.py:330`), whose missing repositories are then not reported; that it
  is one of `clus` is known from its row in `CLUSQMGR` only. `NothingMissed` names the first (`MistakenForRepository`).
- If `DISPLAY QMGR DEADQ` fails, or there is no dead-letter queue, what is on `SYSTEM.DEAD.LETTER.QUEUE` is reported as dead letters (`tools/dlq.py:94`):
  the exception in `Witnessed`.
- `docs/http-transport.md:98` says the key set is fetched at startup. The constructor fetches nothing; an outage at the time of
  the first request rejects good tokens (`FetchFail`).
- Any `PermissionError` that is no token and no RBAC error is answered 429 (`http_app.py:269`), also one of the file system.
- An RBAC denial is recorded with outcome "error"; "denied" means the rate limit.
- An in-doubt channel with reason 2035, 2009 or 2059 is reported as HIGH, not as CRITICAL (`rcs/matchers/channels.py:64-74`).
- A connection that breaks after the dead-letter browse leaves no trace in the report: the cluster check counts as run, with nothing found.
- `topology/detect.py:7` says detection falls back to UNKNOWN; with no probe answered the code says STANDALONE.

## 4. Proofs

All theorems hold for any number of threads, keys, calls, any rate, burst and TTL, under the named assumptions of the modules
(natural numbers; null values outside the sets they are compared with).

- **Rate limiter.** `LimiterTypeOK`, `LimiterWindowBound`, `LimiterLevelNeverNegative`. `WindowBound` is not inductive: it says nothing
  about the tokens that are left. The invariant `IInv` adds `Balance`: the calls admitted in the window and the stored tokens together cost
  at most the capacity plus what accrued from the window's start to `last_refill`, and nothing was admitted when `last_refill` lies before
  it; `InFlight`: readings in use are no older than the window; and
  `Exclusive`: a thread in the critical section holds the lock and its lookup is still right. The central lemma, `UpdateFacts`, is that
  a refill with any reading of the window, however late it is applied, leaves the bucket in balance with the calls admitted so far and its level
  at the present time not negative.
- **Audit log.** `AuditTypeOK` holds with all faults. For a sole logger (`SoleLogger`: one process, no torn writes, no edits, no `doctor`)
  `SoleLoggerChainIntact`, `SoleLoggerAckedRecorded` and `SoleLoggerRefinesLedger`. The invariant adds `Agrees`: `_prev_hash` is the last hash of the file,
  or the one before while a thread is between append and commit; `Fresh`: an event about to be written is in no
  record and in no other thread's hands; and `Quiet`: no line is unterminated and no `doctor` runs. It holds
  through failing writes, kills at any point and restarts. `AuditVerifiedMeansComplete` holds with every fault the model has, and needs no chain that is
  intact: the invariant `DamageShows` says that as long as no log was removed that had records or that a `write` had opened, either the file holds each promised record (acknowledged, or
  written by a thread that has yet to return) or it has a line that `verify_chain` rejects, and no later step repairs such a line.
- **Key cache.** `JwksTypeOK`, `JwksFreshKeysRecent`, `JwksNoResurrection`. `ProviderInv` ties the age of a withdrawal to publication,
  `CacheInv` says a cached key was withdrawn no longer ago than the cache is old, `ResponseInv` says the same of the response under way and the
  age of the request. The last is where holding the lock over the request, and stamping the time before it, is used.
- **Dispatcher.** `DispatchTypeOK`, `DispatchConnectOnlyAuthorised`, `DispatchNoSessionAfterReply`, `DispatchAnswersAreRecorded`.
  `PrincipalInv` (a principal from the rate stage on, the verified one), `OutcomeInv` (how outcome, exception and stage go together),
  `SessionInv` (an open connection only between connect and disconnect) and `RecordsInv` (records only of replied calls) are inductive together.
  `DispatchStatusTellsCause` and `DispatchRefusalTellsOnlyProd` need `CauseInv` besides: what each exception that reaches the
  outer `finally` says of principal, rights and inventory, and that a health reply names only what its principal may read. It is inductive relative to the
  first invariant. The second theorem also uses that every role that may read production may read the rest (`ProdReadersReadAll`).
- **HTTP transport.** `HttpTypeOK`, `HttpGatedBeforeDispatch`, `HttpForgedNeverServed`, for any number of requests and any pool. The type invariant has the bound of the
  pool, `Cardinality(InWorker) <= Workers`, so the invariant carries that the requests in a worker thread are finitely many (the set of requests
  need not be finite). `StartInv` says that a production server has the real verifier and no local-development switch, and that no request is
  handled before that; `BodyInv` that a REST request got past its first stretch with a token. Where the verifier is chosen by `Boot` and where a forged token is refused are far apart; `StartInv` is what carries the one to the other.
- **Health check.** `HealthTypeOK`, `HealthFindingsWitnessed`, `HealthNothingMissed`, `HealthDeadConnectionShows`, `HealthSkippedSayNothing`,
  `HealthSummaryTellsWorst`, for any views, messages, thresholds and sample sizes. The central notion is `Remembered`: rows the tool holds come from a view all
  of whose facts are in `ever` and that has every fact in `always`. `SeenInv` says so of each reply not yet matched, and that a failed command left no rows; `BrowseInv` says it
  of the messages browsed, and that a queue that was never empty is not found empty; the matcher lemmas (`ChannelsClaim`, `ChannelsCover` and their like) carry it from rows to findings
  and back; `ReportInv` keeps what was reported, `CoverInv` that each check that has run has covered its category as long as no command failed. Of channels and of the cluster
  two commands tell at different times: their cover lemmas work on the facts the two views have in common. `AccountInv` counts each check once, as run or as skipped,
  and ties a break of the connection before the end of the browse to a skipped check. `HealthSummaryTellsWorst` needs that the findings are finitely many (`FiniteInv`): the
  top five are chosen by rank, and a finite set has such a choice.
- **High-availability tools.** `HaFindingsCited`, `HaRemoteUnseen`, `HaTopologyJustified`, for any systems, changes and faults. `FindingsCited` is a fact of the citation
  operators for every topic and version. For `RemoteUnseen` the invariant says that a shell command of a remote queue manager was never heard, and lemmas say each
  matcher is silent on silence. For `TopologyJustified` it says that every reply heard so far is one the system showed at some time, that a probe that was not deaf heard what
  the system then showed, and so that an indicated kind was `ever` a fact and an `always` fact is indicated; `ClassifyFirst` says `_classify` takes the
  first of the order. `HaFindingsWitnessed`, `HaNothingMissed`, `HaSeenMeansChecked` and `HaTypeOK` (`HaReportProofs`) rest on one invariant of the conversation, `HearingInv`: a
  reply the tool holds is one that a system showed whose facts are all in `ever` and include all of `always` (`Shown`), or stands for a failure, and what an error message names is in `ever`; every command that was sent is
  shown or deaf; the report is what the matcher makes of what is held. The rest is about the tools one by one, for any replies: two lemmas say which facts a system has (`NativeHaFactsHave`,
  `NativeHaFactsAre` and their like), one that each finding of the matcher is such a fact or a named false alarm (`NativeHaHeld`, ...), one that each fact a shown reply
  tells of has a finding or is a named oversight (`NativeHaTold`, ...). The quorum rules, `(n // 2) + 1` votes in the code and "at most half are left" in the facts, meet in `QuorumHalf` and, for RDQM, in the
  cardinalities of the nodes that are there and away (`PacedAll`). The first `CHINIT` row exists because
  the numbers are well-founded (`FirstOf`): a status that no row contradicts is the first row's (`ChinSeen`).

**When the violated promises hold.** Each statement that a run violates holds under a condition, and the condition is a theorem:

- `RefusedOnlyAfterBurst` holds if threads take the lock in the order of their clock readings (`InOrder`):
  `InOrderRefusedOnlyAfterBurst`; a limiter with a single thread is always in order: `SoleThreadRefusedOnlyAfterBurst`. `KeptInv` says that
  calls admitted and tokens left make up the burst: in order, only an allowed call takes tokens. Without the condition
  `LimiterRefusedEarlyBound` bounds the damage (`RefusedEarlyBound`, an action property no run lists): a refused subject has used its burst but for less
  than one call plus the rate times the age of the thread's reading. `SpentInv` adds to the balance what the clock has still to put back, which a
  late reading takes away and the next one restores. All three are about a limiter since it was made, before an observer opens a window.
- `ChainIntact` holds for a sole logger: `SoleLoggerChainIntact`.
- `EveryCallRecorded` holds of calls with parameters that serialise, unless the log itself fails: `DispatchEncodableRecorded`. `LogInv` says what
  exception an unrecorded call ends with; it leans on `RecordsInv` for the calls that are recorded.
- `EventLoopFree` holds until a request takes the REST route: `HttpEventLoopFree`. `RestInv` says that only such requests reach the body and the
  dispatch on the loop.

The proofs corrected the model in a few places. The first versions of `FalseAlarm` and `Overlooked` were too narrow: a reply to `NATIVEHASTATUS` without rows beside a recovery group, and
the split brain of a resource without listed peers, are cases the attempt to prove `HaFindingsWitnessed` and `HaNothingMissed` turned up. The instance of `ha` now has
states for both, in which the narrower versions are violated. It also made the assumptions on replies explicit.

Only model-checked: liveness (`EveryCallReturns`, `EveryWriteReturns`, `EveryVerifyReturns`, `CacheFollowsProvider`, `EveryRequestAnswered`,
`ProbeAnswered`, `ReportAlwaysMade`), which the prover does not do under fairness. `ChainIntact`, `AckedRecorded` and `RefinesLedger` are proved for a sole logger; with two of them
`ChainIntact` is false (`audit_two_loggers`).

## 5. Not modelled

- The MQSC text parser, the sanitizer, the byte layout of the dead-letter header: character-level functions without state. In the models a
  reply is its rows and a message has a header or not.
- Layouts of replies the fixtures do not have: the indented node lists of newer Pacemaker releases, which the anchored expressions of `tools/rdqm.py:30-32` do not match, and
  `dspmq -x` with the queue manager's name once and its instances on lines of their own, of which `_INSTANCE_LINE_RE` sees the first.
- The prose and suggested commands of findings; titles and links of citations; the registry's tables of reason and AMQ codes. `HaMatchers` has the versions of the
  topics the high-availability tools cite.
- The command allowlist: a table of regular expressions that accepts every command the tools send.
- `_check_shared_fs` of the multi-instance matcher: no caller gives it anything to check.
- Reading of environment variables and inventory files, and settings that change only limits or texts; the permission tests behind each
  exception of the secrets backend.
- Metrics counters, log set-up, OAuth metadata documents.
- The stdio transport: one caller, the same `call()` as over HTTP.
- The fixture connector: canned files.

## 6. Plan

Done: the shared objects (limiter, log, key cache), the road of a call (dispatch), start-up and transport, the composite health check, the
high-availability and z/OS tools with topology detection; proofs of every safety property the runs check.

Next, in this order:

1. Dispatch with the real bucket and the real log in place of the abstract ones (composition with `RateLimiter` and `AuditLog`).
2. The permission tests of the secrets backend, as the decision they make on a directory whose mode changes between test and read.
