------------------------------ MODULE ApiServer ------------------------------
(***************************************************************************)
(* The API process: cmd/api/main.go from config.Load to the ordered        *)
(* shutdown, the middleware stack, the routes, the health endpoint and the *)
(* query deadline of pkg/database/timeout.go.                              *)
(*                                                                         *)
(* A call to a dependency may succeed, fail, or stay unanswered until the  *)
(* limit it has: a deadline of the code's, or what the client library is   *)
(* configured with where the code passes a context without a deadline.  A  *)
(* tick is a few seconds: whatever does not wait for a dependency takes no *)
(* time, and clients send a request and take its answer at once (their own *)
(* limits, ReadTimeout and WriteTimeout, are left out).  The statements a  *)
(* request runs on one gorm chain share a Statement and so its context.    *)
(***************************************************************************)
EXTENDS Integers, Sequences, FiniteSets, Pagination

CONSTANTS
    Requests,        \* connections, each used again and again
    Routes,          \* the routes in use
    QueryTimeout,    \* DB_QUERY_TIMEOUT, in ticks
    ProbeTimeout,    \* HEALTH_PROBE_TIMEOUT where it can be parsed, and its default
    RedisTimeout,    \* what the client's own timeouts and retries allow one Redis command
    BrokerTimeout,   \* the dial timeout of the Kafka and RabbitMQ libraries
    Budget,          \* the 30 s of shutCtx
    Deployments      \* the settings a process may run with

VARIABLES
    settings,   \* of the *config.Config what several steps read; the rest is chosen where it is read
    main,       \* where the main goroutine is
    listener,   \* the goroutine in app.Listen
    budget,     \* what is left of shutCtx
    db, redis,  \* the pools: "none", "open" or "closed"
    spans,      \* the provider's spans: "off", "none" or "waiting" for their export
    req,        \* the request on each connection
    forced,     \* history: shutCtx ended while requests were running
    early,      \* history: the signal came before the socket was open
    disturbed   \* history: a dependency failed or kept a caller waiting

vars == <<settings, main, listener, budget, db, redis, spans, req, forced, early, disturbed>>
mainVars == <<main, listener, budget, db, redis, forced, early>>
Alive == main \notin {"exited", "fatal"}

-----------------------------------------------------------------------------
(* Configuration.  Unset is a variable or key that is not there; an empty  *)
(* environment variable counts as set.                                     *)
Unset == "unset"

Defaults == [env |-> "development", autoMigrate |-> "false", redisURL |-> "",
             probe |-> "2s", provider |-> "elastic_apm", backend |-> "memory", kafka |-> "", rabbit |-> ""]
Given == [env |-> {"production"}, autoMigrate |-> {"true"}, redisURL |-> {"", "redis://"},
          probe |-> {""}, provider |-> {"none"}, backend |-> {"redis"}, kafka |-> {"host:9092"},
          rabbit |-> {"amqp://"}]

\* viper: the environment before the file before the defaults.
Load(k, env, file) ==
    IF env # Unset THEN env ELSE IF file # Unset THEN file ELSE Defaults[k]
Loaded(k) == {Load(k, env, file) : env, file \in {Unset} \cup Given[k]}
Loadable == [redisURL : Loaded("redisURL"), probe : Loaded("probe"), backend : Loaded("backend"),
             kafka : Loaded("kafka"), rabbit : Loaded("rabbit")]

ASSUME ServerAssumption ==
    /\ {QueryTimeout, ProbeTimeout, RedisTimeout, BrokerTimeout, Budget} \subseteq Nat \ {0}
    /\ Routes \subseteq {"docs", "user", "update", "list", "login", "health"}
    /\ Deployments \subseteq Loadable

Enabled(url) == url # ""
Parses(duration) == duration # ""

\* The probes beside the database.  A broker that is not configured answers
\* "not_configured" without a call.
Brokers == {"kafka", "rabbitmq"}
Extras == (IF Enabled(settings.redisURL) THEN {"redis"} ELSE {}) \cup
          (IF Enabled(settings.kafka) THEN {"kafka"} ELSE {}) \cup
          (IF Enabled(settings.rabbit) THEN {"rabbitmq"} ELSE {})

\* The limiter's counters are in Redis; without REDIS_URL it falls back to memory.
SharedLimiter == settings.backend = "redis" /\ Enabled(settings.redisURL)

\* Mutant: the database probe uses the timeout as parsed, too.
ProbeLimitAsParsed(probe) ==
    IF probe \in Brokers THEN BrokerTimeout ELSE IF Parses(settings.probe) THEN ProbeTimeout ELSE 0

\* What a probe may wait.  NewHealthHandler replaces an unusable timeout; the
\* closure for Redis uses the value as parsed, and the brokers their library's.
ProbeLimit(probe) ==
    CASE probe = "database" -> ProbeTimeout
      [] probe = "redis" -> IF Parses(settings.probe) THEN ProbeTimeout ELSE 0
      [] probe \in Brokers -> BrokerTimeout

-----------------------------------------------------------------------------
(* The query deadline.  A context carries the plugin's deadline, if any,   *)
(* and may have been cancelled.                                            *)
Plain == [set |-> FALSE, left |-> 0, cancelled |-> FALSE]

\* Mutant: no deadline is set.
BeforeOmitted(ctx) == ctx

\* before: a context with a deadline is left alone.
Before(ctx) == IF ctx.set THEN ctx ELSE [set |-> TRUE, left |-> QueryTimeout, cancelled |-> FALSE]

\* after: the cancel function found in the context is called; the context stays.
After(ctx) == [ctx EXCEPT !.cancelled = ctx.set]

\* What a handler calls, in order: a statement on a chain of its own, one that
\* continues the chain before it (FindAllPaged runs Count and Find on one base),
\* or the cache, which takes no time where it is this process's memory.
Calls == [user |-> <<"sql">>, update |-> <<"sql", "sql", "sql">>, list |-> <<"sql", "chained">>,
          login |-> IF Enabled(settings.redisURL) THEN <<"sql", "cache", "cache">> ELSE <<"sql">>]

-----------------------------------------------------------------------------
(* The middleware stack; index Len(Stack) + 1 is the handler.              *)
Stack == <<"recover", "requestid", "headers", "limiter", "logger", "cors", "span", "metrics">>
Handler == Len(Stack) + 1
At(m) == CHOOSE i \in DOMAIN Stack : Stack[i] = m

\* What runs after c.Next() returned: everything around the place that
\* answered; a panic unwinds to Recover past all but the deferred span.End.
Unwound(place) == {Stack[i] : i \in {j \in DOMAIN Stack : j < place}}
Deferred == {"span"}

ClientError == 400   \* any 4xx

Idle == [pc |-> "idle"]
Done(q, status, after) ==
    /\ req' = [req EXCEPT ![q] = [pc |-> "done", status |-> status]]
    /\ spans' = IF /\ spans = "none" /\ "span" \in after
                  /\ main \in {"serve", "shutdown"}   \* later the provider takes none
               THEN "waiting" ELSE spans

Busy(q) == req[q].pc \notin {"idle", "done"}
\* The request waits for a dependency and its deadline is not over.
Waits(r) ==
    \/ r.pc = "query" /\ ~r.ctx.cancelled /\ (r.ctx.set => r.ctx.left > 0)
    \/ r.pc \in {"redis", "probe"} /\ r.left > 0
AllWait == \A q \in Requests : Busy(q) => Waits(req[q])
Pc(q, pc) == Alive /\ req[q].pc = pc

\* A connection delivers a request; Recover, RequestID and SecurityHeaders pass
\* it on.  The others are waiting by then.
Accept(q, route) ==
    /\ Alive /\ ~Busy(q) /\ listener = "listening"
    /\ AllWait
    /\ req' = [req EXCEPT ![q] = [pc |-> "limit", route |-> route]]
    /\ UNCHANGED <<settings, mainVars, spans, disturbed>>

\* The request goes on in this process, or with a command to Redis, whose
\* context has no deadline: the client's own timeouts end it.
Go(q, pc) == req' = [req EXCEPT ![q] = [pc |-> pc, route |-> req[q].route]] /\ UNCHANGED spans
AskRedis(q, who, n) ==
    /\ req' = [req EXCEPT ![q] = [pc |-> "redis", route |-> req[q].route, who |-> who, n |-> n,
                                   left |-> RedisTimeout]]
    /\ UNCHANGED spans

\* The limiter counts in Redis, or answers 429 or lets pass by its own memory.
Limiter(q) ==
    /\ Pc(q, "limit")
    /\ IF SharedLimiter THEN AskRedis(q, "limiter", 0)
       ELSE Done(q, ClientError, Unwound(At("limiter"))) \/ Go(q, "stack")
    /\ UNCHANGED <<settings, mainVars, disturbed>>

\* The routes behind auth.Middleware.
Protected == {"user", "update", "list"}

Preflight(q) == Done(q, 200, Unwound(At("cors")))

\* CORS answers a preflight, or the handler is entered; in front of a protected
\* one the token is refused, or looked up in the blacklist if it has an id.
Middleware(q) ==
    /\ Pc(q, "stack")
    /\ \/ Preflight(q)
       \/ Go(q, "handle")
       \/ req[q].route \in Protected /\ Done(q, ClientError, Unwound(Handler))
       \/ req[q].route \in Protected /\ Enabled(settings.redisURL) /\ AskRedis(q, "auth", 0)
    /\ UNCHANGED <<settings, mainVars, disturbed>>

\* prodGuard: the error it returns becomes a 404 in the ErrorHandler.
Docs(q) ==
    /\ Pc(q, "handle") /\ req[q].route = "docs"
    /\ \E env \in Loaded("env") :
          Done(q, IF env = "production" THEN ClientError ELSE 200, Unwound(Handler))
    /\ UNCHANGED <<settings, mainVars, disturbed>>

\* A handler panics; Recover turns it into an error and that into a 500.
Panic(q) ==
    /\ Pc(q, "handle") /\ req[q].route # "health"
    /\ Done(q, 500, Deferred)
    /\ UNCHANGED <<settings, mainVars, disturbed>>

Querying(q, n, ctx) == [pc |-> "query", route |-> req[q].route, n |-> n, ctx |-> ctx]

\* The n-th call of the handler, a statement behind the plugin's before; ctx is
\* the context of the call it follows.
Call(q, n, ctx) ==
    LET calls == Calls[req[q].route]
    IN  IF n > Len(calls) THEN Done(q, 200, Unwound(Handler))
        ELSE IF calls[n] = "cache" THEN AskRedis(q, "cache", n)
        ELSE /\ req' = [req EXCEPT ![q] =
                    Querying(q, n, Before(IF calls[n] = "chained" THEN After(ctx) ELSE Plain))]
             /\ UNCHANGED spans

Query(q) ==
    /\ Pc(q, "handle") /\ req[q].route \in DOMAIN Calls /\ Call(q, 1, Plain)
    /\ UNCHANGED <<settings, mainVars, disturbed>>

\* The handler refuses the id or the body, or its own limiter the request.
Refuse(q) ==
    /\ Pc(q, "handle") /\ req[q].route \in {"user", "update", "login"}
    /\ Done(q, ClientError, Unwound(Handler))
    /\ UNCHANGED <<settings, mainVars, disturbed>>

\* A statement succeeded: after, and the next call or the answer.  What it found
\* may end the request (no such user, wrong password, email in use), and an
\* update that keeps the email does not ask for it.
QueryOk(q) ==
    /\ Pc(q, "query") /\ db = "open" /\ ~req[q].ctx.cancelled
    /\ \/ Call(q, req[q].n + 1, req[q].ctx)
       \/ req[q].route = "update" /\ req[q].n = 1 /\ Call(q, 3, req[q].ctx)
       \/ req[q].route # "list" /\ Done(q, ClientError, Unwound(Handler))
    /\ UNCHANGED <<settings, mainVars, disturbed>>

\* The database reports an error, or is closed: the use case returns it and
\* the handler answers 500.
QueryFails(q) ==
    /\ Pc(q, "query") /\ ~req[q].ctx.cancelled
    /\ Done(q, 500, Unwound(Handler)) /\ disturbed' = TRUE
    /\ UNCHANGED <<settings, mainVars>>

\* The context is done, by its deadline or because it was cancelled before.
QueryExpires(q) ==
    /\ Pc(q, "query") /\ (req[q].ctx.cancelled \/ (req[q].ctx.set /\ req[q].ctx.left = 0))
    /\ Done(q, 500, Unwound(Handler))
    /\ UNCHANGED <<settings, mainVars, disturbed>>

\* Redis answers: over the quota, revoked, or go on.
RedisOk(q) ==
    /\ Pc(q, "redis") /\ redis = "open"
    /\ \/ req[q].who = "limiter" /\ (Done(q, ClientError, Unwound(At("limiter"))) \/ Go(q, "stack"))
       \/ req[q].who = "auth" /\ (Done(q, ClientError, Unwound(Handler)) \/ Go(q, "handle"))
       \/ req[q].who = "cache" /\ Call(q, req[q].n + 1, Plain)
    /\ UNCHANGED <<settings, mainVars, disturbed>>

\* Without an answer the limiter and the blacklist fail open; issueTokenPair
\* takes version 0 for the one it cannot read, but has to store the session.
FailOpen(q) ==
    \/ req[q].who = "limiter" /\ Go(q, "stack")
    \/ req[q].who = "auth" /\ Go(q, "handle")
    \/ req[q].who = "cache" /\ req[q].n = 2 /\ Call(q, 3, Plain)
    \/ req[q].who = "cache" /\ req[q].n = 3 /\ Done(q, 500, Unwound(Handler))

RedisFails(q) ==
    /\ Pc(q, "redis") /\ FailOpen(q) /\ disturbed' = TRUE
    /\ UNCHANGED <<settings, mainVars>>

RedisExpires(q) ==
    /\ Pc(q, "redis") /\ req[q].left = 0 /\ FailOpen(q)
    /\ UNCHANGED <<settings, mainVars, disturbed>>

-----------------------------------------------------------------------------
(* GET /health: the database, then the other probes in any order.          *)
Probing(q, probe, rest, code) ==
    [pc |-> "probe", route |-> "health", probe |-> probe, rest |-> rest, code |-> code,
     left |-> ProbeLimit(probe)]

Check(q) ==
    /\ Pc(q, "handle") /\ req[q].route = "health"
    /\ req' = [req EXCEPT ![q] = Probing(q, "database", Extras, 200)]
    /\ UNCHANGED <<settings, mainVars, spans, disturbed>>

\* A probe's result: only "down" degrades; a broker answers "down: <error>".
Degrades(probe, ok) == ~ok /\ probe \notin Brokers

NextProbe(q, ok) ==
    LET code == IF Degrades(req[q].probe, ok) THEN 503 ELSE req[q].code
    IN  IF req[q].rest = {} THEN Done(q, code, Unwound(Handler))
        ELSE /\ \E p \in req[q].rest :
                    req' = [req EXCEPT ![q] = Probing(q, p, req[q].rest \ {p}, code)]
             /\ UNCHANGED spans

\* The context given to a probe has a deadline of its own; 0 is already over.
ProbeOk(q) ==
    /\ Pc(q, "probe") /\ ProbeLimit(req[q].probe) > 0
    /\ (req[q].probe = "database" => db = "open") /\ (req[q].probe = "redis" => redis = "open")
    /\ NextProbe(q, TRUE)
    /\ UNCHANGED <<settings, mainVars, disturbed>>

ProbeFails(q) ==
    /\ Pc(q, "probe") /\ ProbeLimit(req[q].probe) > 0
    /\ NextProbe(q, FALSE) /\ disturbed' = TRUE
    /\ UNCHANGED <<settings, mainVars>>

ProbeExpires(q) ==
    /\ Pc(q, "probe") /\ req[q].left = 0 /\ NextProbe(q, FALSE)
    /\ UNCHANGED <<settings, mainVars, disturbed>>

-----------------------------------------------------------------------------
(* The main goroutine.                                                     *)

\* The process ends and its connections with it; log.Fatal calls os.Exit
\* without any of the steps of the shutdown.
End(how) == main' = how /\ req' = [q \in Requests |-> Idle]
Fatal(from) == main \in from /\ End("fatal")
Passed(from, to) == main = from /\ main' = to /\ UNCHANGED req
bootVars == <<settings, listener, budget, forced, early, disturbed>>

\* config.Load; an unreadable file ends the process.
LoadConfig ==
    /\ Fatal({"config"}) \/ Passed("config", "observability")
    /\ UNCHANGED <<bootVars, db, redis, spans>>

\* observability.New: without a backend there are no spans.
NewProvider ==
    /\ \/ Fatal({"observability"}) /\ UNCHANGED spans
       \/ /\ Passed("observability", "database")
          /\ \E provider \in Loaded("provider") : spans' = IF provider = "none" THEN "off" ELSE "none"
    /\ UNCHANGED <<bootVars, db, redis>>

\* database.NewConnection and the query timeout plugin.
NewConnection ==
    /\ \/ Fatal({"database"}) /\ UNCHANGED db
       \/ Passed("database", "migrate") /\ db' = "open"
    /\ UNCHANGED <<bootVars, redis, spans>>

\* AutoMigrate, which production refuses, and then the optional Redis client.
Migrate ==
    /\ \/ Fatal({"migrate"}) /\ UNCHANGED redis
       \/ /\ Passed("migrate", "wire")
          /\ \E env \in Loaded("env"), auto \in Loaded("autoMigrate") :
                ~(auto = "true" /\ env = "production")
          /\ redis' = IF Enabled(settings.redisURL) THEN "open" ELSE "none"
    /\ UNCHANGED <<bootVars, db, spans>>

\* The handlers are wired and the listener goroutine is started.
Serve ==
    /\ main = "wire" /\ main' = "serve" /\ listener' = "starting"
    /\ UNCHANGED <<settings, budget, db, redis, spans, req, forced, early, disturbed>>

Listen ==
    /\ Alive /\ listener = "starting" /\ listener' = "listening"
    /\ UNCHANGED <<settings, main, budget, db, redis, spans, req, forced, early, disturbed>>

ListenFails ==
    /\ listener = "starting"
    /\ Fatal({"serve", "shutdown", "flush", "redis", "sql", "return"})
    /\ UNCHANGED <<settings, listener, budget, db, redis, spans, forced, early, disturbed>>

\* SIGTERM: ShutdownWithContext closes the socket, if there is one by now.
Signal ==
    /\ main = "serve" /\ main' = "shutdown" /\ budget' = Budget
    /\ listener' = IF listener = "listening" THEN "closed" ELSE listener
    /\ early' = (listener = "starting")
    /\ UNCHANGED <<settings, db, redis, spans, req, forced, disturbed>>

\* Mutant: the server is stopped in the background.
HttpStoppedAtOnce ==
    /\ main = "shutdown" /\ main' = "flush"
    /\ UNCHANGED <<settings, listener, budget, db, redis, spans, req, forced, early, disturbed>>

\* It returns when no request is running, when shutCtx ends, or at once when
\* nothing was listening.
HttpStopped ==
    /\ main = "shutdown" /\ main' = "flush"
    /\ \/ (early \/ \A q \in Requests : ~Busy(q)) /\ UNCHANGED forced
       \/ budget = 0 /\ ~early /\ (\E q \in Requests : Busy(q)) /\ forced' = TRUE
    /\ UNCHANGED <<settings, listener, budget, db, redis, spans, req, early, disturbed>>

Flushed == IF spans = "waiting" THEN "none" ELSE spans

\* obsProvider.Shutdown: the exporter takes the spans or fails ...
FlushAnswered ==
    /\ main = "flush" /\ spans = "waiting" /\ main' = "redis"
    /\ \/ spans' = Flushed /\ UNCHANGED disturbed
       \/ disturbed' = TRUE /\ UNCHANGED spans
    /\ UNCHANGED <<settings, listener, budget, db, redis, req, forced, early>>

\* Mutant: the provider waits for the exporter whatever shutCtx says.
FlushUnbounded ==
    /\ main = "flush" /\ spans # "waiting" /\ main' = "redis"
    /\ UNCHANGED <<settings, listener, budget, db, redis, spans, req, forced, early, disturbed>>

\* ... or there is nothing to flush, or shutCtx ends first.
FlushReturns ==
    /\ main = "flush" /\ main' = "redis"
    /\ spans = "waiting" => budget = 0
    /\ UNCHANGED <<settings, listener, budget, db, redis, spans, req, forced, early, disturbed>>

CloseRedis ==
    /\ main = "redis" /\ main' = "sql"
    /\ redis' = IF redis = "open" THEN "closed" ELSE redis
    /\ UNCHANGED <<settings, listener, budget, db, spans, req, forced, early, disturbed>>

CloseDB ==
    /\ main = "sql" /\ main' = "return" /\ db' = "closed"
    /\ UNCHANGED <<settings, listener, budget, redis, spans, req, forced, early, disturbed>>

Exit ==
    /\ main = "return" /\ End("exited")
    /\ UNCHANGED <<settings, listener, budget, db, redis, spans, forced, early, disturbed>>

\* The batcher exports in the background.
Export ==
    /\ Alive /\ spans = "waiting" /\ spans' = Flushed
    /\ UNCHANGED <<settings, mainVars, req, disturbed>>

\* Time passes while every running request waits for a dependency.
Aged(r) ==
    CASE r.pc = "query" -> [r EXCEPT !.ctx = [r.ctx EXCEPT !.left = IF r.ctx.set THEN r.ctx.left - 1 ELSE r.ctx.left]]
      [] r.pc \in {"redis", "probe"} -> [r EXCEPT !.left = r.left - 1]
      [] OTHER -> r

\* ShutdownWithContext and Shutdown return as soon as shutCtx is over.
Timely == main \in {"shutdown", "flush"} => budget > 0

Tick ==
    /\ \/ main \in {"serve", "shutdown"} /\ ~early /\ \E q \in Requests : Busy(q)
       \/ main = "flush" /\ spans = "waiting"
    /\ Timely
    /\ AllWait
    /\ req' = [q \in Requests |-> Aged(req[q])]
    /\ budget' = IF main = "serve" THEN budget ELSE budget - 1
    /\ disturbed' = TRUE
    /\ UNCHANGED <<settings, main, listener, db, redis, spans, forced, early>>

-----------------------------------------------------------------------------
Init ==
    /\ settings \in Deployments
    /\ main = "config" /\ listener = "none" /\ budget = 0
    /\ db = "none" /\ redis = "none" /\ spans = "off"
    /\ req = [q \in Requests |-> Idle]
    /\ forced = FALSE /\ early = FALSE /\ disturbed = FALSE

\* What a request does by itself; the answers of dependencies are not in it.
Step(q) ==
    \/ Limiter(q) \/ Middleware(q) \/ Docs(q) \/ Panic(q) \/ Refuse(q) \/ Query(q) \/ Check(q)
    \/ QueryExpires(q) \/ RedisExpires(q) \/ ProbeExpires(q)

Main ==
    \/ LoadConfig \/ NewProvider \/ NewConnection \/ Migrate \/ Serve \/ HttpStopped \/ FlushReturns \/ CloseRedis \/ CloseDB \/ Exit

Next ==
    \/ Main \/ Listen \/ ListenFails \/ Signal \/ FlushAnswered \/ Export \/ Tick
    \/ \E q \in Requests :
          \/ Step(q) \/ QueryOk(q) \/ QueryFails(q) \/ RedisOk(q) \/ RedisFails(q) \/ ProbeOk(q) \/ ProbeFails(q)
          \/ \E route \in Routes : Accept(q, route)

Spec == Init /\ [][Next]_vars

\* Goroutines that can run do, and time passes; no dependency owes an answer.
FairSpec ==
    /\ Spec /\ WF_vars(Main) /\ SF_vars(Tick)
    /\ \A q \in Requests : WF_vars(Step(q))

-----------------------------------------------------------------------------
(* Properties. *)

\* Types of the process's state.
TypeOK ==
    /\ \A k \in DOMAIN settings : settings[k] \in Loaded(k)
    /\ main \in {"config", "observability", "database", "migrate", "wire", "serve", "shutdown",
                "flush", "redis", "sql", "return", "exited", "fatal"}
    /\ listener \in {"none", "starting", "listening", "closed"}
    /\ budget \in 0 .. Budget
    /\ {db, redis} \subseteq {"none", "open", "closed"}
    /\ spans \in {"off", "none", "waiting"} /\ {forced, early, disturbed} \subseteq BOOLEAN
    /\ \A q \in Requests : req[q].pc \in {"idle", "limit", "stack", "handle", "query", "redis", "probe", "done"}

\* The shutdown stops the HTTP server before it closes the pools: no handler
\* runs on a closed pool, except after the 30 s were used up or when the signal
\* came before the socket was open, so that ShutdownWithContext stopped nothing;
\* and the spans of the last requests are exported before the process ends,
\* unless the exporter failed.
ShutdownIsOrderly ==
    ~forced /\ ~early =>
        /\ Alive /\ (\E q \in Requests : Busy(q))
             => db = "open" /\ (redis = "open" \/ ~Enabled(settings.redisURL))
        /\ main = "exited" /\ ~disturbed => spans # "waiting"

\* The limits of the calls behind the n-th of a handler (none makes more than
\* three), of the probes in a set, of the handler, and of the whole request.
Owed(route, n) ==
    LET limit(i) == IF i <= n \/ i > Len(Calls[route]) THEN 0
                    ELSE IF Calls[route][i] = "cache" THEN RedisTimeout ELSE QueryTimeout
    IN  limit(1) + limit(2) + limit(3)
ProbesOwed(probes) ==
    LET limit(p) == IF p \in probes THEN ProbeLimit(p) ELSE 0
    IN  limit("database") + limit("redis") + limit("kafka") + limit("rabbitmq")
HandlerLimit(route) ==
    IF route = "health" THEN ProbesOwed({"database"} \cup Extras)
    ELSE IF route \in DOMAIN Calls THEN Owed(route, 0) ELSE 0
AuthLimit(route) == IF route \in Protected /\ Enabled(settings.redisURL) THEN RedisTimeout ELSE 0
LimiterLimit == IF SharedLimiter THEN RedisTimeout ELSE 0
RequestLimit(route) == LimiterLimit + AuthLimit(route) + HandlerLimit(route)

\* Every call a request makes is bounded, by the query plugin, the probe timeout
\* or the client library, so a request in flight at the signal uses up the 30 s
\* only if the limits of the calls on its own route add up to them; however the
\* dependencies hang and whoever else runs, the client's time not counted.
OnlyLongRequestsForce ==
    [][forced' /\ ~forced => \E q \in Requests : Busy(q) /\ RequestLimit(req[q].route) >= Budget]_vars

\* /health answers 503 only when a dependency failed or was late, or when the
\* probe timeout cannot be parsed and the Redis probe has no time at all.
DegradedHasACause ==
    \A q \in Requests :
        (req[q].pc = "done" /\ req[q].status = 503)
            => disturbed \/ db = "closed" \/ (~Parses(settings.probe) /\ "redis" \in Extras)

\* Every request is answered, though the database, Redis and the brokers may
\* never answer (each wait has its limit), and after SIGTERM the process ends,
\* though the exporter may never answer.
EverythingEnds ==
    /\ \A q \in Requests : Busy(q) ~> (req[q].pc = "done" \/ ~Alive)
    /\ (main = "shutdown") ~> ~Alive

\* "@Success 200": as long as no dependency has failed or been late, no list
\* of users ends in an internal error.
ListSucceeds ==
    [][\A q \in Requests :
         (req[q].pc = "query" /\ req[q].route = "list" /\ req'[q].pc = "done" /\ ~disturbed')
            => req'[q].status = 200]_vars
=============================================================================
