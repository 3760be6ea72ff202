# wapgo: a TLA+ verification project

wapgo is a Go service template: an HTTP API (Fiber, GORM, Redis), the packages
such a service needs (authentication, caching, rate limiting, messaging,
outgoing HTTP, notifications, logging), and a command line tool that generates
new services from templates. This directory holds TLA+ models of the parts in
which order, concurrency and failure matter, TLC configurations that check them
on small instances, and TLAPS proofs for all instances where the argument
reaches that far. `PROJECT.json` lists components, runs, mutants, theorems,
hazards and, per definition, the source lines it stands for.

## 1. Inventory

| Component (source) | State it keeps | Operations | What is hard | Model |
|---|---|---|---|---|
| Job queue, worker (`cli/generator/templates/skeleton/internal/queue/postgres.go.tmpl`, `cmd/worker`) | table `jobs`; per goroutine a copy of its job | Enqueue, claim, Complete, Retry, FailPermanent, RequeueExpired, the Run loop | several processes, lost answers, crashes, a visibility timeout that races handlers | `JobQueue`, its promise `LeaseQueue`, proofs in `JobQueueProofs` |
| RabbitMQ connection (`pkg/messaging/rabbitmq/connection.go`) | `c.conn` | Channel, reconnect, dial | read, unlock, look, re-lock; drops in between | `RabbitConnection`, proofs in `MessagingProofs` |
| RabbitMQ consumer, publisher (`consumer.go`, `publisher.go`) | a channel each; the broker's queues | Subscribe, drain, handle, sleepBackoff; Publish with one retry | lost channels, redelivery, interrupted setup | `RabbitDelivery`, which composes with the connection; proofs in `MessagingProofs` |
| Kafka consumer (`pkg/messaging/kafka/consumer.go`) | position, message in hand, backoff; the group's offset | NewConsumer, Start, HealthCheck | rebalance during a handler, cumulative offsets, failed commits | `KafkaConsumer`, proofs in `MessagingProofs` |
| Accounts (`internal/usecase/*.go`, `internal/repository/db`, `pkg/auth`) | users table; sessions, reset tokens, versions and blacklist in the cache | Login, Refresh, Logout, ForgotPassword, ResetPassword, Create-, Update-, DeleteUser | a request is several statements; keys expire | `Accounts`, proofs in `AccountsProofs` |
| Memory cache (`internal/repository/memory/cache.go`) | map with expiry times | Set, Get, Exists, Del | clock and lock are used separately | `MemoryCache`, proofs in `CacheLimiterProofs` |
| HTTP client (`pkg/httpclient`) | breaker counts, idle connections | Do: redirects, breaker, retry loop, host guard, guarded dialer | shared breaker, timers, bodies that can be read once | `HttpClient`, proofs in `HttpClientProofs` |
| Redis cache, JWT, blacklist, middleware (`internal/repository/redis`, `pkg/auth`) | keys with expiry | Set, Get, Del, Verify, Revoke, IsRevoked | errors become misses | as `Accounts` uses them |
| Rate limiter (`pkg/ratelimit`, its middleware) | one window per client, per process or in Redis | Allow, the sweep, the middleware that fails open | the clock is read before the lock | `RateLimiter`, proofs in `CacheLimiterProofs` |
| API process (`cmd/api`, `config`, `pkg/database`, routes, middleware, health, observability) | pools, listener, requests in flight, spans | boot, serve, probe, shut down | hung dependencies against one shutdown budget; a context shared by the statements of a chain | `ApiServer`, proofs in `ApiServerProofs` |
| Paging (`pkg/pagination`, `pkg/response`) | none | Offset, Scope, NewResult, Paginated | boundaries | `Pagination`, used by `ApiServer` |
| Firebase, email, journal, access log, daily log files (`pkg/notification`, `pkg/journal`, `pkg/logger`) | cached token and its mutex; the request's journal; the open file | Send, Add, the access line, Write, rotate, cleanup | a token that expires on its way, a mutex held over the network, goroutines that outlive the handler | `Notify`, proofs in `NotifyProofs` |
| Command line tool (`cli/commands`, `cli/generator`) | the files of a project | new, add, make:*, make:worker, make:migration | failing at the n-th file, edited files, errors that are ignored | `Generator`, proofs in `MigrateProofs` |
| Migration command (`cmd/migrate`) | schema version, dirty flag, the tables | up, down, force, the hint | several processes, failing or killed between two writes, a hint read outside the lock | `Migrate`, which composes with `Generator`; proofs in `MigrateProofs` |
| Kafka producer, Google sign-in, response, validator, crypto, audit log, generated documents, skeleton copies | none that outlives a call | | | not modelled (section 7) |

How they interact. The API process builds everything in `cmd/api/main.go`. A
request passes the rate limiter and the JWT middleware (which asks the
blacklist), then a handler calls a use case, and the use case calls the
repository and the Cacher, Redis or memory. Use cases of different requests
share only the database and the cache. Consumers run in their own goroutines
and share the AMQP connection. Worker processes share nothing but the `jobs`
table. Outgoing calls of all goroutines share the HTTP client's breaker and its
idle connections. Notifications sent by a request add to its journal, which the
access log copies into the request's line. At SIGTERM the API process stops the
listener, waits for the requests, closes the pools and flushes the spans, all
within one budget. The migrations a generated project gets from make:migration
are what its migrate command runs.

What makes each part correct, in a sentence:

- queue: a job ends done or failed, fails only when its attempts are used up,
  and is in one pair of hands at a time as long as handlers keep the timeout;
- connection: one connection is open at most, and one fault does not reach the
  caller of Channel();
- delivery: what reached the queue is acknowledged after success or
  dead-lettered, and never lost;
- Kafka: the offset stands above a processed message and nothing is skipped
  unseen;
- accounts: used tokens open nothing, a reset ends older sessions, the last
  password set is the one that counts;
- cache: a hit is a value the key held, unexpired, during the call;
- HTTP client: only checked hosts and addresses are contacted, bodies are sent
  whole, the breaker's probe slot is never lost, and every call returns;
- limiter: within a window less the lag of a clock no client gets more than two
  quotas and what Redis faults let through, and none is refused before it has
  used one;
- API process: no request runs on a closed pool, the last spans are exported,
  a 503 of the health endpoint has a cause, requests and shutdown end, and only
  a request whose own calls may take that long uses up the shutdown's 30 s;
- notifications: a token is valid when it is used, credentials and text travel
  encrypted where the server allows it, every delivery has its entry in the
  journal and the request's line has those made before it, the lines of the last
  days are kept, and every push ends;
- command line tool: what the user edited is never overwritten, a target in the
  Makefile has its program, add brings what new would have brought;
- migrations: tables and version agree whenever the version is clean.

## 2. Modules and their correspondence to the code

Data is abstract throughout (a message, a token or a password is a number or a
model value), control is not: every state change, early return and error path
of the modelled functions is an action or a disjunct. Logging, tracing and the
layout of text are left out. Operators whose comment begins with "Mutant of"
are variants of the definition that follows them with a plausible mistake. They
are not part of any specification; putting one in place of its original must
violate the property `PROJECT.json` pairs it with, which shows that the
property depends on that piece of the code.

**JobQueue.** `jobs` is the table, one record per row with the columns the code
reads or writes; `worker` is the program counter of each goroutine of `Run` and
its copy of the claimed job. A claim is two steps: the row lock of
`FOR UPDATE SKIP LOCKED`, then the commit, whose answer may be lost. Every other
statement is atomic, and each can fail. Times are relative: a claim carries its
age, capped one tick past the visibility timeout, and a row the ticks to its
`run_at`, so nothing but the fault count is bounded. A process can be
cancelled, crash and be started again. Rows differ in kind, and a process may
lack the handler of a kind, as during a rolling deployment. `Backoff` holds
`retryDelay`, used by `MCJobQueue` to give the constant `RetryDelay` its value;
the proofs need nothing of it but its type. `LeaseQueue` is what the queue
promises: a job is absent, waiting, taken or settled, its holder alone decides
about it, and what was dropped comes back. `RefinesLeaseQueue` maps a row's
status to the job's state and the workers' copies to the holders.
As in the code, `Complete`, `Retry` and `FailPermanent` write `WHERE id` only,
so a late settlement overwrites whatever the row holds by then. Settlement uses
the process's context: after a SIGTERM it fails and the row stays running until
it expires, although the comment at lines 200-202 of the template announces an
orderly finish; `SettleFails` contains that.

**RabbitConnection.** `user[u].pc` is the position inside Channel(): the first
read of `c.conn`, the look at it after the unlock, reconnect under the write
lock, the second read, the opening, and the same once more. The broker may drop
the connection between any two steps. `hit` counts the faults a call has met.

**RabbitDelivery.** Extends RabbitConnection: every publisher and consumer is
one of its users, and a channel call of theirs is a call of that module. A
message has up to two copies, because Publish tries twice and the first attempt
may have reached the broker. The broker is external: the topic exchange drops
what no queue is bound for, unacknowledged deliveries of a closed channel
return to the queue, and a rejected one goes to the dead-letter queue.

**KafkaConsumer.** One partition and several members of the group. Offsets are
the group's and cumulative; a member that lost the partition in a rebalance
while its handler ran still commits.

**Accounts.** A request is a record with a program counter, one step per access
to database, cache or blacklist; requests overlap in any way and the clock ticks
between any two steps. The users table has soft deletion and a unique index that
covers deleted rows. A cache command may fail (`CacheFails`), with the result the code gives it: a Get is a
miss, the error of a Del or of the Set of a version is dropped, the others are
reported. History variables record what an answered request has promised; a
request whose own cache command failed promises nothing. `clobbered` records the
users for whom a reset wrote a version over one it had not read.

**MemoryCache.** A critical section is a step and so is every reading of the
clock outside one. `seen` is a history variable: what an atomic lookup could
have answered during the call.

**HttpClient.** `call[c]` is one Do with its redirects and attempts, `breaker`
the gobreaker state, `conns` the idle connections. Steps that touch nothing
shared are merged with the one before. Timers count down and may fire late.
Cancelling a caller and running out of the client's Timeout both end the
context and are the same state, `left = 0`. gobreaker's generation number is
replaced by a flag per call that says whether the generation which admitted it
is still the current one.

**RateLimiter.** One store per replica, or Redis for all. Allow of the memory
backend is two steps, the reading of the clock and the critical section, with
up to `MaxLag` ticks between them; the sweep uses the caller's old clock.
`granted` is a history variable: how many requests of a client a store has let
through within the last tick, the last two, and so on.

**ApiServer.** `main` is the place of the main goroutine between config.Load and
the end of the shutdown, `listener` the goroutine in app.Listen, `req[c]` the
request on a connection: the middleware it has passed, the statements or probes
left to run, and the state of the context its gorm chain shares. A call of a
dependency succeeds, fails, or waits until its limit: a statement the query
timeout, a probe of the database or of Redis the probe timeout, a broker's probe
the dial timeout of its library. The limiter, the blacklist and the cache call
Redis with a context that has no deadline (`ratelimit.go:32`, `redis.go:48`,
`auth/middleware.go:35`); what ends those waits is the client's own dial, read
and write timeouts and retries (from the settings, 5 s, 3 s, 3 s and three by
default, `config.go:268-271`, `cmd/api/main.go:294-305`), and `RedisTimeout`
stands for their sum, whatever it is.
`Calls[route]` lists statements and cache commands by route: PUT /users/:id
with a new email runs three statements. `Deployments` are the settings a process
may have: with or without Redis, its limiter, Kafka, RabbitMQ and a probe
timeout that can be parsed. Elsewhere configuration is modelled where steps
depend on it, with viper's order of environment, file and default. `Pagination` states the page arithmetic; that
the pages partition the rows is an ASSUME which TLC evaluates in the runs of
ApiServer.

**Notify.** A sender is a goroutine in Send, called by the handler or in its
background. Push: the mutex, the cached token or a request for one with the
mutex held, the delivery, the journal entry. Email: the dialogue, one step per
command, with what the server offers deciding about TLS. Files are named by
their day; cleanup reads that day as UTC and compares it with the local time,
so its limit is off by a day in either direction. `logged` is a history variable:
the days that have had lines. An entry of the journal is `late` when it comes
after the access line.

**Generator** and **Migrate.** A path stands for files treated alike. A command
has a sequence of paths, of which it writes those that are to be done; it fails
at one of them or at none, and what comes before that one stays. make:worker
also appends to the Makefile; its errors there are ignored, so the targets may be
missing after a success. Migrate
adds the processes that run the migrations found in those files: an engine with
a lock and a dirty flag (external), and the command around it with its limits
and its hint. The hint is a step of its own: withDirtyHint reads the version
after the engine has given up its lock, so it may print the version that another
process has just made dirty, or one that is outdated when it is read. The
operator repairs the tables and forces the version that the last hint names. Of
the operator it is assumed that this is done while no process is running and
`-dir version` shows that version as dirty; section 6 says what happens
otherwise. `MCTools` and `MCApiServer` give the constants a .cfg cannot write.

## 3. Runs

| Run | Module, configuration | Shows |
|---|---|---|
| `queue` | MCJobQueue, `JobQueue.cfg` | ClaimsAreDistinct, FailsOnlyWhenExhausted, ReleasedOnlyByHolderOrExpiry, and EveryJobSettles under fairness, without any timing assumption |
| `queue_punctual` | MCJobQueue, `JobQueue_punctual.cfg` | with every claim settled in time: one holder per job, and the queue implements LeaseQueue, in which settled is final |
| `rabbit` | RabbitDelivery | NoLeakedConnection, OneFaultIsSurvived, AckedWasProcessed, NothingVanishes, EveryCopySettles, and that the composition implements RabbitConnection |
| `kafka` | KafkaConsumer | CommittedHeadSucceeded, NothingIsSkipped, EveryMessageIsAttempted |
| `accounts` | Accounts | SpentTokensAreGone, EndedSessionsAreRefused for users whose version no reset has clobbered, PasswordsLastUnlessOverwritten, with a cache command failing anywhere |
| `cache_concurrent` | MemoryCache | HitsAreJustified, GrowsOnlyWithLiveEntries |
| `http` | HttpClient | OnlyCheckedTargets, BodyIsWhole, ProbeInFlight, EveryCallReturns |
| `limiter` | RateLimiter | QuotaHolds, RefusedOnlyWhenSpent, for both backends |
| `server` | MCApiServer, `ApiServer.cfg` | ShutdownIsOrderly, DegradedHasACause, OnlyLongRequestsForce, EverythingEnds |
| `server_list` (violation) | MCApiServer, `ApiServer_list.cfg` | GET /users fails on a healthy database |
| `notify` | Notify | PushTokenIsValid, SubmissionIsEncrypted, RecordIsComplete, LinesAreKept, PushesEnd |
| `tools` | MCTools, `Tools.cfg` | TargetsAreBacked, AddCompletesTheFeature, EditedFilesSurvive; SchemaMatchesVersion |

Run one with `tlc -workers 2 -config <cfg> <module>`. The `TypeOK` of a module
says what its variables may hold, for readers and for proofs; it holds in these
instances (add it to a configuration to check it) and is not counted among the
properties.

Bounds and why they suffice for what the runs claim:

- Queue: two goroutines of two processes are the least that race for a row.
  MaxAttempts = 2 separates a first from a last attempt, VisibilityTimeout = 1
  lets a lease be fresh, at its limit and expired. Two faults allow a crash and
  a lost answer in the same job. One job (two in the punctual run) is enough
  because a statement touches one row, except RequeueExpired, which the
  punctual run covers with two.
- Rabbit: three users share the connection, so a third can act between the two
  that race; one drop and one further fault of any kind put every handover
  (deliver, handle, settle, declare, reopen) next to a fault. One message has
  two copies. More faults are covered for the connection by the proofs.
- Kafka: three messages give one before, at and after the committed offset;
  three faults allow rebalance, failed commit and restart in one behaviour.
- Accounts: two clients and four requests allow a login, a reset request, a
  reset and a refresh, overlapping. MaxTime = 2 lets access and refresh tokens
  (1), reset tokens and version keys (2) expire. One cache command fails, in any
  place. More of each is covered by the proofs.
- Cache: a threshold of one with two keys makes every second Set sweep; three
  ticks let an entry of lifetime 1 be stored, expire and be replaced.
- HTTP: two callers share the breaker, one failing probe against one stale
  call. Trip = 2, one retry and one redirect put each counter at zero, at its
  limit and in between; Timeout = 2 lets the deadline fall before, during and
  after the backoff. Three hosts are one allowed, one not on the list and one on
  it that is internal.
- Limiter: two requests with a lag of one tick and a window of three let an old
  clock meet a window opened, ended or swept by a newer one. A threshold of two
  with two keys sweeps at every new window; the maximum is two, or the default
  where the setting is not positive. Windows are relative to now, so the clock
  is not bounded.
- Server: two connections, one hanging while the other is served. Each call may
  wait one tick and the shutdown has three, so that some requests fit into it
  and others do not: the three statements of an update use it up, a login
  without Redis does not. The routes are one without a call, one with several
  statements, one with statements and cache commands, and the health endpoint;
  the list of users has a run of its own. The four deployments are none of the
  optional dependencies, both brokers and Redis each with a probe timeout that
  cannot be parsed, and Redis with the limiter's counters beside a broker. Not
  bounded otherwise.
- Notify: two senders compete for the mutex; a token of lifetime 1 is never
  usable twice, one of 3 is until the margin of 2. `2 * Timeout <= Margin` is
  the code's 15 s twice against its 30 s. MaxAge = 2 is the least at which
  something is kept; the proof covers every setting from 1 on.
- Tools: three commands, one failure, two processes. Version 1 and 2 are the
  skeleton's migrations, two more seconds allow two generated ones, of one or of
  different seconds. Once a generated migration exists only make:migration and
  the migrators go on, since nothing else reads what they change. Processes and
  names are interchangeable (SYMMETRY; no liveness is checked in this run).

`CHECK_DEADLOCK FALSE` is said where the model may come to rest: a log, a call
budget or a message supply that is used up.

## 4. Fairness

Safety is checked without any. Liveness uses weak fairness for goroutines that
can step (the Go scheduler) and the assumption that message and job handlers
return: they get a context with a deadline, and a handler that never returns
keeps its worker by design. Beyond that:

- `JobQueue`: time passes; a stopped process is started again (docker-compose
  says `restart: unless-stopped`); strong fairness for leaving the loop, since a
  `select` that finds `ctx.Done()` ready again and again picks it some time.
- `KafkaConsumer`, `RabbitDelivery`: restarts as above, and the broker delivers
  what is ready. Faults are finite in number.
- `HttpClient`: time passes and goroutines run. Nothing is assumed of the
  server, the resolver or the dialer: EveryCallReturns rests on the Timeout.
- `ApiServer`: goroutines run, and time passes however many steps that take no
  time come in between (strong fairness of the tick), so that every wait ends at
  its deadline; nothing is assumed of the dependencies, and no signal need come.
- `Notify`: time passes, as above; a sender that can step does, and one that finds the
  mutex free again and again gets it (strong fairness; Go's mutex hands itself
  to a waiter that starves). The servers need not answer.

## 5. Proofs

Every theorem is about the specification of the run's module, for all values of
its constants that satisfy the module's ASSUMEs: any number of processes,
clients or messages, and any bound on faults and calls. Every invariant and
every action property that a passing run checks is such a theorem. The invariant
that each module proves inductive was checked by TLC on the run's instance before. Most
proofs have the same plan: a frame lemma says what a step of one actor must
keep, a lemma per action shows that it does, and the theorems follow from the
invariant by temporal logic.

**JobQueueProofs**: the types, every safety property of the run `queue`, one
holder per job and settled is final under `Punctual`, and the refinement of
LeaseQueue. The properties are not inductive as they stand; `IndInv` adds

- CopiesInv: who is in a claim or holds a copy names an existing row;
- RowLockInv: the candidate of an open claim is pending and no other claim is
  open on it, which is what SKIP LOCKED gives and what keeps two claims from
  getting the same attempt number;
- NoHandlerInv: who is about to fail a job outright lacks its handler;
- LeaseInv: under `Punctual`, a holder's lease and the row's have the same age
  and have not expired, so RequeueExpired cannot take a held row.

`Punctual` is the timing assumption the package comment ("without running a job
twice") needs and does not state. It constrains when the clock may tick; the
theorems QueueExclusiveWhenPunctual, QueueSettledIsFinalWhenPunctual and
QueueRefinesLeaseQueue carry it as a hypothesis inside the property. In the
refinement, `State` and `Holders` are the mapping; a lemma per abstract action
says which changes of rows and copies amount to it, and a lemma per concrete
action which abstract action it is: a claim is Take whether or not its answer
arrives, RequeueExpired is Recover of the expired rows (LeaseInv: nobody holds
them), a settlement is Settle by the only holder, a failed settlement and a
crash are Drop, everything else stutters.

**MessagingProofs**, RabbitMQ: first the connection alone. Only `c.conn` is ever
open (NoLeak), and Channel() fails only after a refused dial or two faults
(OneFault). `CallOK` states, for every point of Channel(), how many faults the
call must have met for the connection it is about to use to be dead; `Paid`
bounds dials by drops. Then the composition: it implements the connection's
specification (UsesConnectionHolds), hence has its guarantees
(ConnectionGuarantees); a copy is acknowledged only after its handler returned
nil (AckedIsProcessed), and none vanishes (NothingIsLost). `DeliveryInv` adds
that unacknowledged copies lie on open channels that are being drained
(HeldOnOpenChannels), that a consumer's delivery is still its own unless its
channel died (InHand), and that everything is declared before the first delivery
(DrainsAreSetUp), without which a rejected copy could find no dead-letter queue.

**MessagingProofs**, Kafka: CommitFollowsSuccess and NoMessageIsSkipped. The
statement that is inductive is about every reader, not only the partition's
owner (ReaderOK): a member that lost the partition still commits the message it
was working on, so below every reader's position nothing may be missing. The
module extends both specifications, which share no name (hence `KafkaSpec`,
`kafkaVars` and the like, as in RabbitConnection and RateLimiter).

**CacheLimiterProofs**, the limiter: QuotaIsKept and RefusalIsDue. The quota
speaks of any stretch of time, a window only of its own, and sweeps and requests
with old clocks drop and reopen windows. `Accounted` connects the two, for one
window and the history of its client: a window that has run for some time alone
accounts for what is younger; together with the window before it, it accounts
for everything within `Window - MaxLag` ticks; where there is no window, the last
one has been over long enough that its quota alone counts; and conversely all
that a window has counted lies within the history of `Window + MaxLag` ticks,
which is why a refusal is due. A window dropped or reopened by a clock up to
`MaxLag` ticks old still satisfies it, which is why the stretch is shorter than
a window by that much. When a call of Redis fails, the middleware lets the
request through also where the script has counted it beyond the maximum: `faults`
stands on the right of every bound. `RedisForgets` adds that no window of Redis is
there past its time.

**CacheLimiterProofs**, the cache: HitsAreCorrect and GrowthIsLive.
CopyIsJustified speaks of the copy that Get holds between the unlock and its look
at the clock: an atomic lookup had it, unless it has expired since, and then the
check refuses it.

**MigrateProofs**: CleanVersionsAreTrue, TargetsStayBacked, AddIsComplete,
EditsSurvive. For the files the invariant is `FilesInv`: besides
the two properties, nothing is in a directory that new has not completed
(NothingBeforeNew), so new never finds an edited file. That add's list and
skipPath's agree is the lemma FeatureListsAgree, over both lists. For the tables
it is `SchemaInv`. SchemaMatchesVersion says something only while the version is
clean; in between

- RestIsRight: but for the migration begun last, tables and version agree also
  while the version is dirty. When a migration begins, the version moves past
  that one migration and no other (NextUp, NextDown). This holds because
- ProcessOK: the process at work has the lock, began on a clean version of its
  own build, and every migration on disk that it has not embedded is at least as
  new as all those it has;
- DirtyIsFailing: a dirty version is where the migration begun last leads, so
  completing that one by hand and forcing that version gives a clean version
  that is right (SettledIsRight), whoever printed the hint;
- OnlyFromDisk: no version without a migration on disk has touched the tables,
  so one made later starts with none.

A hint printed while another process works changes nothing else (HintOK). Under
the lock the least and the greatest of the versions ahead exist because versions are
bounded numbers (LeastExists, GreatestExists, from the well-foundedness of `<`).
The theorems keep one bound of the model's Next: migrate processes run in
projects in which only make:migration has followed new (`MigrationsOnly`).

**AccountsProofs**: SpentTokensStayGone, EndedSessionsStayRefused, PasswordsLast.
`AccountsInv` says for every request in progress what it has read or removed and
will rely on. The pair a request is about to store is nobody else's (Fresh), so
a spent token cannot be stored again; an UpdateUser in progress writes a
password that may stand (KeepsPassword); no session and no request is ahead of
the last version of its user and ended sessions are behind it (SessionOK,
Carries), in a key that outlives them (EndedOK; this is where
`RefreshTTL < VersionTTL` is used).

**HttpClientProofs**: TargetsAreChecked, BodiesAreWhole, ProbeSlotIsExact. Idle
connections were checked when they were dialled (IdleChecked); a call on the
wire goes to a checked host and address with an unread body (Good); and while
the breaker is half-open its request count is the number of calls its generation
has under way (ProbeOK), which needs that a call admitted by an older generation
is never counted again.

**NotifyProofs**: PushTokensAreValid, SubmissionsAreEncrypted, RecordsAreComplete,
LinesAreKeptForTheirAge. While the cached token counts as usable the server grants it the
margin on top (TokenOK); a push has `Margin - 2 * Timeout + left` of its token's
life before it (Good): two timeouts fit into the margin, and the proof uses no
more than that. A finished delivery has its entry in the journal (HasEntry), an
entry is late only if a background sender made it, and every other one was
copied when the handler returned (Copied); no call of the handler's own is under
way by then (Waited).

**ApiServerProofs**: ShutdownsAreOrderly, DegradedIsExplained, OnlyLongOnesForce.
`Stages` says what main() has opened and closed at each of its steps, `Stopping`
that nobody runs behind a server stopped in order, and `InTime` that what a
request has waited since the signal and what it may still wait, in the call it
is in and in those after it, together stay within the limit of its route: every
tick takes one from both sides, and every step to the next call takes its limit
from what remains. Nothing is assumed of how the timeouts compare with the
budget. `Explained` is the
invariant behind a 503: a probe has waited only if something was late.

What the attempts to prove showed about the properties:

- EndedSessionsAreRefused used to assume that resets run one after the other,
  that no request spans a tick of the clock, and that version keys outlive the
  run. Beyond those bounds it is false: when the version key expires between two
  resets, the version starts over, and a session stored under a higher one passes
  again. The property now names the exact condition, `clobbered`; the assumptions
  are gone from the model, and version keys expire in the run.
- GrowsOnlyWithLiveEntries was false with three keys and a threshold of one: a
  step that removes an entry (Del, or a read that evicts) leaves the expired
  entries of a map beyond the threshold where they are. It now speaks of the
  steps that add a key, the ones before which Set sweeps.
- QuotaHolds counted with a sum over the admissions of each tick, which nothing
  could be proved about; the history now keeps the running totals themselves.
  Generator computed what a failing command leaves with a fold over its paths;
  it now says so with sets, as the code's loop does what it does independently
  of the files before. Both models have the same states as before.

Assumptions used: the named ASSUMEs of the modules (and `Punctual`, where a
theorem states it), nothing else; TLC evaluates them in the runs. They say that
options are positive, that one timeout fits into another where the code's
defaults have it so (`RefreshTTL < VersionTTL`, `2 * Timeout <= Margin`), that
log files are kept for at least a day (`MaxAge >= 1`; 0 turns the clean-up off),
that deployments are settings that config.Load can return, and that model values differ
(`None \notin Emails`, `Nobody \notin Migrators`; no user of the connection is
called like a place of a copy). The generator's clock has at least the two
versions of the skeleton behind it (`MaxClock >= 3`). `PowerAssumption` of HttpClient, that powers of two are
numbers, stands
there because the provers know nothing of exponentiation.

Only model-checked:

- all liveness (EveryJobSettles, EveryCopySettles, EveryMessageIsAttempted,
  EveryCallReturns, EverythingEnds, PushesEnd): fairness is beyond the prover;
- what a recursive definition computes, the doubling in `retryDelay` (induction
  over data);
- the page arithmetic of Pagination, over bounded inputs.

## 6. Findings

`server_list` is a run that TLC refutes: FindAllPaged counts and finds on one
gorm chain. After the Count the timeout plugin cancels its context and leaves it
in the Statement; before the Find it sees a context with a deadline and keeps
it. The Find starts on a cancelled context and GET /users answers 500 although
nothing has failed.

Disagreements between text and code that the models contain and no run of this
project asks about:

- Queue. A handler that outlives the visibility timeout is run again beside
  itself, although the package comment says "without running a job twice"
  (`postgres.go.tmpl:3-4`, `:192`); hence `Punctual`. A job whose last attempt
  took its worker down is started once more after every expiry (`:38-40`,
  `:191`): RequeueExpired does not look at max_attempts.
- Kafka. "message will be re-delivered" (`consumer.go:26`, `:130`): the next
  commit covers the failed message, and it is not.
- Accounts. The version key outlives any session but not the next reset: when it
  has expired in between, the version starts over and a session stored under a
  higher one passes (`auth_usecase.go:71`, `:264-266`). A reset that cannot read
  the version (Redis down) writes 1 and has the same effect, and of overlapping
  resets one may write a version below another's; hence `clobbered`. UpdateUser saves
  every column of the row it read and so brings back a password reset meanwhile,
  or a user deleted meanwhile (`user_repository.go:71`). Two overlapping
  refreshes of one session both succeed.
- Shutdown. A request may use up the 30 s and have the pools closed under it only
  where its own calls may take as long (OnlyLongRequestsForce). With the defaults
  and without Redis and brokers none can: a statement has 5 s and no route runs
  more than three. With Redis one can: a command may wait for a dial of 5 s, a
  write and a read of 3 s each, four times over, and a login runs several. A
  signal that comes before the listener has opened its socket finds nothing to
  stop, and what is accepted afterwards runs while the pools are closed
  (`main.go:243`, `:257`); ShutdownIsOrderly excepts it (`early`).
- Health. Kafka and RabbitMQ answer "down: <error>", which is not "down", so the
  status stays ok (`health_handler.go:79`). With an empty HEALTH_PROBE_TIMEOUT
  the Redis probe gets a timeout of 0 and fails. Metrics do not see every
  request: refusals of the limiter and panics end before or past them.
- Notifications. "Each Send [...] adds a ThirdParty entry to the request journal"
  (`firebase.go:20-21`, also `:110-111`): a Send that gets no token returns before it and adds none
  (`:116-119`), which RecordIsComplete excepts. Entries of goroutines that the
  handler did not wait for may miss the access line (`access_log.go:86`), which
  it allows them. Mail: `email.go:122` says "port 587/25 → STARTTLS if offered"; on 587 the
  code refuses to go on where it is not (`:143`). The
  server's answer to the end of the message is dropped, so a
  message it refuses counts as sent, and nothing but the dial has a deadline
  (`email.go:174`, `:124`). Log files may go a day early or late
  where local time is not UTC, although `sinks.go:113` and `:155` speak of files
  older than maxAge days: west of UTC one goes a day early, and with
  LOG_MAX_AGE_DAYS = 1 the cleanup removes the file of the day (`:165`).
  LinesAreKept is the bound that does hold: the last MaxAge - 1 days, today
  included.
- Command line tool. make:worker looks for its target as a substring of the
  Makefile, so a worker whose name begins another one's gets none
  (`make_worker.go:151`, comment at 128), and it says "updated Makefile" and
  succeeds although the append failed (`:156-161`). After a failed add the file cut short
  counts as present and the next add says there is nothing to do; after a failed
  new the directory exists and new is refused; make:all stops at the first file
  that exists. Generated SQL puts INDEX inside CREATE TABLE, which Postgres does
  not accept although `make_migration.go:15` names it; pointer fields do not
  become nullable columns (`entity_parser.go:82`).
- Migrations. When the down of the first migration fails the version is -1 and
  dirty: no hint is printed and force refuses it (`main.go:182`, `:206-214`). The
  hint is read outside the engine's lock (`:208`) and may name a migration that
  another process is running, or has completed when the operator reads it; who
  follows it at once, instead of looking again with no process running, forces a
  version that the tables do not have. Two migrations made in one second share a version, which
  the engine refuses to load; a migration without its down file reverts nothing.

Also contained in the models and in conflict with no text: Get's eviction in
the memory cache can remove an entry stored after its read (a miss too many,
never a wrong hit); refused hosts and cancelled callers count as failures of the
breaker, which all hosts share; a negative MaxRetries makes no request at all;
the email of a deleted user cannot be registered again; a page number beyond
2^63 / size gives a negative offset.

## 7. Not modelled

- One call of a library and no state: Kafka producer, Google sign-in, audit log.
- Text in, text out: validation, responses, encryption, redaction, message
  payloads, swagger documents, the texts and names the generator derives.
- Copies: the skeleton templates of packages that exist in the repository; the
  examples.
- Within modelled parts: errors of the database in `Accounts` (in `ApiServer`
  every statement may fail), roles, the sweep of the memory blacklist and the
  middleware's fail-open when the blacklist cannot be asked, health probes of
  the consumers, the size cap and journal entries of the HTTP client, log files
  rotated by size (a library), the interactive wizard of the tool, wapgo upgrade
  (a comparison of two versions and one `go install`), the time that clients take
  to send a request and to read its answer (10 s each, `main.go:208-209`).

## 8. Plan

Done, in this order: JobQueue and its proofs; MemoryCache; KafkaConsumer;
RabbitConnection, RabbitDelivery and the proofs about the connection; Accounts;
HttpClient; RateLimiter; ApiServer with Pagination; Notify; Generator with
Migrate; LeaseQueue, the refinement and its proof; cache errors in Accounts; the
proofs about RabbitDelivery, KafkaConsumer, MemoryCache, Accounts, HttpClient,
Notify and ApiServer; those about RateLimiter, Generator and Migrate.

Left: an abstract broker queue for RabbitDelivery to implement; database errors
in Accounts; the memory blacklist's sweep.
