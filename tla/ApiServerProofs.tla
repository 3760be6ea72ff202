--------------------------- MODULE ApiServerProofs ---------------------------
(***************************************************************************)
(* Proofs about ApiServer, for any number of connections, any timeouts and *)
(* any settings.  ServerInv says what each stage of main() has opened and  *)
(* closed, what a running request may still wait for, and that what it has *)
(* waited since the signal and may still wait is within its route's limit. *)
(***************************************************************************)
EXTENDS ApiServer, TLAPS

-----------------------------------------------------------------------------
(* The inductive invariant. *)

Boot == {"config", "observability", "database", "migrate", "wire"}
Closing == {"flush", "redis", "sql", "return"}
Probes == {"database", "redis", "kafka", "rabbitmq"}
Calling == {"user", "update", "list", "login"}

\* The records of a running request.
Entering == [pc : {"limit", "stack", "handle"}, route : Routes]
Context == [set : {TRUE}, left : 0 .. QueryTimeout, cancelled : BOOLEAN]
Statement == [pc : {"query"}, route : Calling \cap Routes, n : {1, 2, 3}, ctx : Context]
Asking == [pc : {"redis"}, route : Routes, who : {"limiter", "auth", "cache"}, n : {0, 2, 3},
           left : 0 .. RedisTimeout]
Probe == [pc : {"probe"}, route : {"health"}, probe : Probes, rest : SUBSET Probes,
          code : {200, 503}, left : Nat]

\* Every statement has a deadline and is one of its handler's calls; a probe is one
\* of those configured and waits no longer than its limit.
Shape(k) ==
    /\ k.pc \in {"idle", "limit", "stack", "handle", "query", "redis", "probe", "done"}
    /\ k.pc \in {"limit", "stack", "handle"} => k \in Entering
    /\ k.pc = "query" => k \in Statement /\ k.n <= Len(Calls[k.route])
    /\ k.pc = "redis" => k \in Asking /\ (k.who = "cache" => k.route = "login" /\ k.n \in {2, 3})
    /\ k.pc = "probe" => /\ k \in Probe /\ k.left <= ProbeLimit(k.probe)
                         /\ k.probe \in {"database"} \cup Extras /\ k.rest \subseteq Extras

\* Why /health is degraded, d being whether a dependency failed or was late.
Cause(d) == d \/ db = "closed" \/ (~Parses(settings.probe) /\ "redis" \in Extras)

\* A 503 has its cause, and a probe has waited only if some dependency was late.
Explained(k, d) ==
    /\ k.pc = "done" /\ k.status = 503 => Cause(d)
    /\ k.pc = "probe" => (k.code = 503 => Cause(d)) /\ (k.left < ProbeLimit(k.probe) => d)

Running(k) == k.pc \notin {"idle", "done"}

\* What a running request may still wait.
Remaining(k) ==
    CASE k.pc = "limit" -> RequestLimit(k.route)
      [] k.pc = "stack" -> AuthLimit(k.route) + HandlerLimit(k.route)
      [] k.pc = "handle" -> HandlerLimit(k.route)
      [] k.pc = "redis" /\ k.who = "limiter" -> k.left + AuthLimit(k.route) + HandlerLimit(k.route)
      [] k.pc = "redis" /\ k.who = "auth" -> k.left + HandlerLimit(k.route)
      [] k.pc = "redis" /\ k.who = "cache" -> k.left + Owed(k.route, k.n)
      [] k.pc = "query" -> k.ctx.left + Owed(k.route, k.n)
      [] k.pc = "probe" -> k.left + ProbesOwed(k.rest)

\* With b left of the shutdown's budget the request is within its route's limit.
\* With b = Budget nothing has passed.
InTime(k, b) == Running(k) => Budget + Remaining(k) <= b + RequestLimit(k.route)

\* What main() has opened and closed by now.
Stages ==
    /\ main \in Boot => listener = "none" /\ \A q \in Requests : req[q].pc = "idle"
    /\ main = "serve" => listener \in {"starting", "listening"}
    /\ main \in {"shutdown"} \cup Closing /\ ~early => listener = "closed"
    /\ main \in {"migrate", "wire", "serve", "shutdown"} => db = "open"
    /\ main \in {"wire", "serve", "shutdown"} => redis = "open" \/ ~Enabled(settings.redisURL)

\* shutCtx runs only while a dependency is late, and what is left to export after
\* the flush is what the exporter refused.
Flushing ==
    /\ main \in {"shutdown", "flush"} /\ budget = 0 => disturbed
    /\ main \in {"redis", "sql", "return", "exited"} /\ ~disturbed => spans # "waiting"

\* The server stopped in order: nobody runs behind it, and everybody who runs
\* has used no more of the budget than its route allows.
Stopping ==
    /\ main = "shutdown" /\ ~early => \A q \in Requests : InTime(req[q], budget)
    /\ main \in Closing /\ ~forced /\ ~early => \A q \in Requests : ~Running(req[q])

ServerInv ==
    /\ TypeOK
    /\ req = [q \in Requests |-> req[q]]
    /\ \A q \in Requests : Shape(req[q]) /\ Explained(req[q], disturbed) /\ InTime(req[q], Budget)
    /\ Stages
    /\ Flushing
    /\ Stopping
    /\ main \in {"exited", "fatal"} => \A q \in Requests : req[q].pc = "idle"
-----------------------------------------------------------------------------
(* Facts about the constants and the tables. *)

LEMMA Timeouts ==
    /\ QueryTimeout \in Nat \ {0} /\ ProbeTimeout \in Nat \ {0} /\ RedisTimeout \in Nat \ {0}
    /\ BrokerTimeout \in Nat \ {0} /\ Budget \in Nat \ {0}
  BY ServerAssumption

LEMMA LimitFacts ==
    /\ \A p \in Probes : ProbeLimit(p) \in Nat
    /\ ProbeLimit("database") = ProbeTimeout
    /\ Parses(settings.probe) => ProbeLimit("redis") = ProbeTimeout
<1>1. ProbeLimit("database") = ProbeTimeout
  BY DEF ProbeLimit, Brokers
<1>2. ProbeLimit("redis") = IF Parses(settings.probe) THEN ProbeTimeout ELSE 0
  BY DEF ProbeLimit, Brokers
<1>3. ProbeLimit("kafka") = BrokerTimeout /\ ProbeLimit("rabbitmq") = BrokerTimeout
  BY DEF ProbeLimit, Brokers
<1> QED
  BY <1>1, <1>2, <1>3, Timeouts DEF Probes

LEMMA ExtrasFacts == Extras \subseteq {"redis", "kafka", "rabbitmq"}
  BY DEF Extras

LEMMA CallsFacts ==
    /\ DOMAIN Calls = Calling
    /\ \A route \in Calling : Len(Calls[route]) \in {1, 2, 3}
    /\ Calls["login"] = <<"sql", "cache", "cache">> \/ Calls["login"] = <<"sql">>
    /\ Calls["update"] = <<"sql", "sql", "sql">>
    /\ \A route \in {"user", "update", "list"} : \A i \in 1 .. Len(Calls[route]) : Calls[route][i] # "cache"
<1>1. DOMAIN Calls = Calling
  BY DEF Calls, Calling
<1>2. /\ Calls["user"] = <<"sql">> /\ Calls["update"] = <<"sql", "sql", "sql">>
      /\ Calls["list"] = <<"sql", "chained">>
      /\ Calls["login"] = <<"sql", "cache", "cache">> \/ Calls["login"] = <<"sql">>
  BY DEF Calls
<1>3. /\ Len(Calls["user"]) = 1 /\ Len(Calls["update"]) = 3 /\ Len(Calls["list"]) = 2
      /\ Len(Calls["login"]) \in {1, 3}
  BY <1>2
<1>4. ASSUME NEW route \in {"user", "update", "list"}, NEW i \in 1 .. Len(Calls[route])
      PROVE  Calls[route][i] # "cache"
  <2>1. CASE route = "user"
    <3>0. i \in 1 .. 1  BY <1>3, <2>1
    <3>1. i = 1  BY <3>0
    <3> QED  BY <1>2, <2>1, <3>1
  <2>2. CASE route = "update"
    <3>0. i \in 1 .. 3  BY <1>3, <2>2
    <3>1. i \in {1, 2, 3}  BY <3>0
    <3> QED  BY <1>2, <2>2, <3>1
  <2>3. CASE route = "list"
    <3>0. i \in 1 .. 2  BY <1>3, <2>3
    <3>1. i \in {1, 2}  BY <3>0
    <3> QED  BY <1>2, <2>3, <3>1
  <2> QED
    BY <2>1, <2>2, <2>3
<1> QED
  BY <1>1, <1>2, <1>3, <1>4 DEF Calling

\* The limit of the n-th call of a handler.
CallLimit(route, n) == IF Calls[route][n] = "cache" THEN RedisTimeout ELSE QueryTimeout

\* What is owed behind a call is the next call's limit and what is owed behind that.
LEMMA OwedNext ==
    ASSUME NEW route, NEW n \in {0, 1, 2}, Len(Calls[route]) \in {1, 2, 3}, n < Len(Calls[route])
    PROVE  Owed(route, n) = CallLimit(route, n + 1) + Owed(route, n + 1)
<1> DEFINE len == Len(Calls[route])
           limit(i) == IF Calls[route][i] = "cache" THEN RedisTimeout ELSE QueryTimeout
           part(i, m) == IF i <= m \/ i > len THEN 0 ELSE limit(i)
<1>1. \A m : Owed(route, m) = part(1, m) + part(2, m) + part(3, m)
  BY DEF Owed
<1>2. \A i : limit(i) \in Nat
  BY Timeouts
<1>3. CallLimit(route, n + 1) = limit(n + 1)
  BY DEF CallLimit
<1>4. len \in {1, 2, 3} /\ n < len
  OBVIOUS
<1> HIDE DEF limit, len
<1>5. part(1, n) + part(2, n) + part(3, n) = limit(n + 1) + (part(1, n + 1) + part(2, n + 1) + part(3, n + 1))
  <2>1. CASE n = 0  BY <1>2, <1>4, <2>1
  <2>2. CASE n = 1  BY <1>2, <1>4, <2>2
  <2>3. CASE n = 2  BY <1>2, <1>4, <2>3
  <2> QED  BY <2>1, <2>2, <2>3
<1> QED
  BY <1>1, <1>3, <1>5

LEMMA OwedNat ==
    ASSUME NEW route, NEW n
    PROVE  Owed(route, n) \in Nat
<1> DEFINE limit(i) == IF i <= n \/ i > Len(Calls[route]) THEN 0
                       ELSE IF Calls[route][i] = "cache" THEN RedisTimeout ELSE QueryTimeout
<1>1. Owed(route, n) = limit(1) + limit(2) + limit(3)
  BY DEF Owed
<1>2. limit(1) \in Nat /\ limit(2) \in Nat /\ limit(3) \in Nat
  BY Timeouts
<1> HIDE DEF limit
<1> QED
  BY <1>1, <1>2

LEMMA ProbesOwedFacts ==
    ASSUME NEW S \in SUBSET Probes
    PROVE  /\ ProbesOwed(S) \in Nat
           /\ \A p \in S : ProbesOwed(S) = ProbeLimit(p) + ProbesOwed(S \ {p})
<1> DEFINE part(p, T) == IF p \in T THEN ProbeLimit(p) ELSE 0
<1>1. \A T : ProbesOwed(T) = part("database", T) + part("redis", T) + part("kafka", T) + part("rabbitmq", T)
  BY DEF ProbesOwed
<1>2. \A p \in Probes : ProbeLimit(p) \in Nat
  BY LimitFacts
<1>3. \A p \in Probes : ProbeLimit(p) \in Nat /\ \A T : part(p, T) = IF p \in T THEN ProbeLimit(p) ELSE 0
  BY <1>2
<1>4. ASSUME NEW p \in S
      PROVE  ProbesOwed(S) = ProbeLimit(p) + ProbesOwed(S \ {p})
  <2>1. \A u \in Probes : part(u, S \ {p}) = IF u = p THEN 0 ELSE part(u, S)
    OBVIOUS
  <2>2. part(p, S) = ProbeLimit(p) /\ \A u \in Probes : part(u, S) \in Nat
    BY <1>2
  <2> HIDE DEF part
  <2>3. CASE p = "database"  BY <1>1, <1>2, <2>1, <2>2, <2>3 DEF Probes
  <2>4. CASE p = "redis"     BY <1>1, <1>2, <2>1, <2>2, <2>4 DEF Probes
  <2>5. CASE p = "kafka"     BY <1>1, <1>2, <2>1, <2>2, <2>5 DEF Probes
  <2>6. CASE p = "rabbitmq"  BY <1>1, <1>2, <2>1, <2>2, <2>6 DEF Probes
  <2> QED
    BY <2>3, <2>4, <2>5, <2>6 DEF Probes
<1>5. ProbesOwed(S) \in Nat
  <2>1. \A u \in Probes : part(u, S) \in Nat
    BY <1>2
  <2> HIDE DEF part
  <2> QED
    BY <1>1, <2>1 DEF Probes
<1> QED
  BY <1>4, <1>5

LEMMA RouteLimits ==
    ASSUME NEW route
    PROVE  /\ AuthLimit(route) \in Nat /\ HandlerLimit(route) \in Nat /\ LimiterLimit \in Nat
           /\ RequestLimit(route) = LimiterLimit + AuthLimit(route) + HandlerLimit(route)
           /\ RequestLimit(route) \in Nat
<1>1. AuthLimit(route) \in Nat /\ LimiterLimit \in Nat
  BY Timeouts DEF AuthLimit, LimiterLimit
<1>2. HandlerLimit(route) \in Nat
  <2>1. {"database"} \cup Extras \in SUBSET Probes
    BY ExtrasFacts DEF Probes
  <2> QED
    BY <2>1, ProbesOwedFacts, OwedNat DEF HandlerLimit
<1> QED
  BY <1>1, <1>2 DEF RequestLimit

LEMMA RemainingNat ==
    ASSUME NEW k, Shape(k), Running(k)
    PROVE  Remaining(k) \in Nat
<1>1. CASE k.pc \in {"limit", "stack", "handle"}
  BY <1>1, RouteLimits DEF Remaining
<1>2. CASE k.pc = "query"
  <2>1. k.ctx.left \in Nat
    BY <1>2, Timeouts DEF Shape, Statement, Context
  <2>2. Owed(k.route, k.n) \in Nat
    BY OwedNat
  <2> QED
    BY <1>2, <2>1, <2>2 DEF Remaining
<1>3. CASE k.pc = "redis"
  <2>1. k.left \in Nat /\ k.who \in {"limiter", "auth", "cache"}
    BY <1>3, Timeouts DEF Shape, Asking
  <2>2. Owed(k.route, k.n) \in Nat /\ AuthLimit(k.route) \in Nat /\ HandlerLimit(k.route) \in Nat
    BY OwedNat, RouteLimits
  <2> QED
    BY <1>3, <2>1, <2>2 DEF Remaining
<1>4. CASE k.pc = "probe"
  <2>1. k.left \in Nat /\ k.rest \in SUBSET Probes
    BY <1>4 DEF Shape, Probe
  <2>2. ProbesOwed(k.rest) \in Nat
    BY <2>1, ProbesOwedFacts
  <2> QED
    BY <1>4, <2>1, <2>2 DEF Remaining
<1> QED
  BY <1>1, <1>2, <1>3, <1>4 DEF Shape, Running

\* The records that no predicate looks into.
LEMMA IdleFacts == Idle.pc = "idle" /\ Shape(Idle) /\ (\A d : Explained(Idle, d)) /\ (\A b : InTime(Idle, b))
<1>1. Idle.pc = "idle"
  BY DEF Idle
<1> QED
  BY <1>1 DEF Shape, Explained, InTime, Running

LEMMA RunningBusy ==
    ASSUME NEW q \in Requests
    PROVE  Busy(q) <=> Running(req[q])
  BY DEF Busy, Running

\* The predicates about a record read the settings and the pools, not the rest.
LEMMA ShapePrime ==
    ASSUME settings' = settings, NEW q \in Requests, Shape(req'[q])
    PROVE  Shape(req[q])'
  BY DEF Shape, Entering, Context, Statement, Asking, Probe, Probes, ProbeLimit, Extras, Calls

LEMMA ExplainedPrime ==
    ASSUME settings' = settings, db' = db \/ db # "closed", NEW q \in Requests,
           Explained(req'[q], disturbed')
    PROVE  Explained(req[q], disturbed)'
<1>1. ASSUME Cause(disturbed') PROVE Cause(disturbed)'
  BY <1>1 DEF Cause, Parses, Extras, Enabled
<1> QED
  BY <1>1 DEF Explained, ProbeLimit, Parses

LEMMA LimitsPrime ==
    ASSUME settings' = settings
    PROVE  /\ Calls' = Calls /\ LimiterLimit' = LimiterLimit
           /\ \A p : (ProbeLimit(p))' = ProbeLimit(p)
           /\ \A route : (AuthLimit(route))' = AuthLimit(route)
           /\ \A route, n : (Owed(route, n))' = Owed(route, n)
           /\ \A S : (ProbesOwed(S))' = ProbesOwed(S)
           /\ \A route : (HandlerLimit(route))' = HandlerLimit(route)
           /\ \A route : (RequestLimit(route))' = RequestLimit(route)
<1>1. Calls' = Calls /\ LimiterLimit' = LimiterLimit /\ Extras' = Extras
  BY DEF Calls, LimiterLimit, SharedLimiter, Extras
<1>2. \A p : (ProbeLimit(p))' = ProbeLimit(p)
  BY DEF ProbeLimit
<1>3. \A route : (AuthLimit(route))' = AuthLimit(route)
  BY DEF AuthLimit
<1>4. \A route, n : (Owed(route, n))' = Owed(route, n)
  BY <1>1 DEF Owed
<1>5. \A S : (ProbesOwed(S))' = ProbesOwed(S)
  BY <1>2 DEF ProbesOwed
<1>6. \A route : (HandlerLimit(route))' = HandlerLimit(route)
  BY <1>1, <1>4, <1>5 DEF HandlerLimit
<1>7. \A route : (RequestLimit(route))' = RequestLimit(route)
  BY <1>1, <1>3, <1>6 DEF RequestLimit
<1> QED
  BY <1>1, <1>2, <1>3, <1>4, <1>5, <1>6, <1>7

LEMMA RemainingPrime ==
    ASSUME settings' = settings, NEW q \in Requests
    PROVE  (Remaining(req[q]))' = Remaining(req'[q])
  BY LimitsPrime DEF Remaining

LEMMA InTimePrime ==
    ASSUME settings' = settings, NEW q \in Requests, InTime(req'[q], budget')
    PROVE  InTime(req[q], budget)'
  BY LimitsPrime, RemainingPrime DEF InTime, Running

LEMMA BoundedPrime ==
    ASSUME settings' = settings, NEW q \in Requests, InTime(req'[q], Budget)
    PROVE  InTime(req[q], Budget)'
  BY LimitsPrime, RemainingPrime DEF InTime, Running

LEMMA ExplainedLater ==
    ASSUME NEW k, NEW d \in BOOLEAN, NEW e \in BOOLEAN, d => e, Explained(k, d)
    PROVE  Explained(k, e)
  BY DEF Explained, Cause

-----------------------------------------------------------------------------
(* The frame of a step of one request, and of a step of main(). *)

\* The request on connection q goes on with the record r.
LEMMA RequestMoves ==
    ASSUME ServerInv, NEW q \in Requests, NEW r, req' = [req EXCEPT ![q] = r],
           Shape(r), Explained(r, disturbed'), InTime(r, Budget),
           main = "shutdown" /\ ~early => InTime(r, budget),
           Running(req[q]) \/ (Alive /\ listener = "listening"),
           UNCHANGED <<settings, mainVars>>,
           spans' \in {"off", "none", "waiting"}, spans' = spans \/ main \in {"serve", "shutdown"},
           disturbed' \in BOOLEAN, disturbed => disturbed'
    PROVE  ServerInv'
<1>1. /\ req' = [u \in Requests |-> req'[u]] /\ req'[q] = r
      /\ \A u \in Requests \ {q} : req'[u] = req[u]
  BY DEF ServerInv
<1>2. /\ main' = main /\ listener' = listener /\ budget' = budget /\ db' = db /\ redis' = redis
      /\ forced' = forced /\ early' = early /\ settings' = settings
  BY DEF mainVars
<1>3. \A u \in Requests : Shape(req'[u]) /\ Explained(req'[u], disturbed')
  <2>1. disturbed \in BOOLEAN
    BY DEF ServerInv, TypeOK
  <2> QED
    BY <1>1, <2>1, ExplainedLater DEF ServerInv
<1>4. \A u \in Requests : Shape(req[u])' /\ Explained(req[u], disturbed)' /\ InTime(req[u], Budget)'
  <2>1. \A u \in Requests : InTime(req'[u], Budget)
    BY <1>1 DEF ServerInv
  <2> QED
    BY <1>2, <1>3, <2>1, ShapePrime, ExplainedPrime, BoundedPrime
<1>5. TypeOK'
  BY <1>2, <1>3 DEF ServerInv, TypeOK, Shape, Loaded, Load
<1>6. main \notin Boot \cup {"exited", "fatal"}
  <2>1. main \in Boot \cup {"exited", "fatal"} => req[q].pc = "idle" /\ (main \in Boot => listener = "none")
    BY DEF ServerInv, Stages
  <2> QED
    BY <2>1 DEF Running, Alive
<1>7. Stages'
  BY <1>2, <1>6 DEF ServerInv, Stages, Enabled, Boot
<1>8. Flushing'
  BY <1>2 DEF ServerInv, Flushing
<1>9. Stopping'
  <2>1. ASSUME main = "shutdown", ~early, NEW u \in Requests
        PROVE  InTime(req[u], budget)'
    BY <1>1, <1>2, <2>1, InTimePrime DEF ServerInv, Stopping
  <2>2. ~(main \in Closing /\ ~forced /\ ~early)
    BY DEF ServerInv, Stopping, Stages
  <2> QED
    BY <1>2, <2>1, <2>2 DEF Stopping, Closing
<1> QED
  BY <1>1, <1>2, <1>4, <1>5, <1>6, <1>7, <1>8, <1>9 DEF ServerInv
\* A request that ran is answered.
LEMMA DoneMoves ==
    ASSUME ServerInv, NEW q \in Requests, NEW status, NEW after, Done(q, status, after), Running(req[q]),
           status = 503 => Cause(disturbed'),
           UNCHANGED <<settings, mainVars>>, disturbed' \in BOOLEAN, disturbed => disturbed'
    PROVE  ServerInv'
<1> DEFINE r == [pc |-> "done", status |-> status]
<1>1. r.pc = "done" /\ r.status = status
  OBVIOUS
<1>2. req' = [req EXCEPT ![q] = r]
  BY DEF Done
<1> HIDE DEF r
<1>3. Shape(r) /\ Explained(r, disturbed') /\ InTime(r, budget) /\ InTime(r, Budget)
  BY <1>1 DEF Shape, Explained, InTime, Running
<1>4. spans' \in {"off", "none", "waiting"} /\ (spans' = spans \/ main \in {"serve", "shutdown"})
  BY DEF Done, ServerInv, TypeOK
<1> QED
  BY <1>2, <1>3, <1>4, RequestMoves

\* A request that ran goes on, with no more to wait for than it had, and no span
\* is recorded.
LEMMA StepMoves ==
    ASSUME ServerInv, NEW q \in Requests, NEW r, req' = [req EXCEPT ![q] = r],
           Shape(r), Explained(r, disturbed'), Running(r), Running(req[q]),
           r.route = req[q].route, Remaining(r) <= Remaining(req[q]),
           UNCHANGED <<settings, mainVars, spans>>, disturbed' \in BOOLEAN, disturbed => disturbed'
    PROVE  ServerInv'
<1>1. spans' \in {"off", "none", "waiting"}
  BY DEF ServerInv, TypeOK
<1> DEFINE limit == RequestLimit(req[q].route)
           now == Remaining(req[q])
           next == Remaining(r)
<1>2. limit \in Nat /\ now \in Nat /\ next \in Nat /\ Budget \in Nat /\ budget \in Nat
  BY Timeouts, RouteLimits, RemainingNat DEF ServerInv, TypeOK
<1>3. InTime(req[q], Budget) /\ (main = "shutdown" /\ ~early => InTime(req[q], budget))
  BY DEF ServerInv, Stopping
<1>4. ASSUME NEW b \in Nat, InTime(req[q], b)
      PROVE  InTime(r, b)
  <2>1. Budget + now <= b + limit
    BY <1>4 DEF InTime
  <2>2. next <= now
    OBVIOUS
  <2> HIDE DEF now, next, limit
  <2>3. Budget + next <= b + limit
    BY <1>2, <2>1, <2>2
  <2> QED
    BY <2>3 DEF InTime, next, limit
<1>5. InTime(r, Budget) /\ (main = "shutdown" /\ ~early => InTime(r, budget))
  BY <1>2, <1>3, <1>4
<1> QED
  BY <1>1, <1>5, RequestMoves

LEMMA DisturbedType == ServerInv => disturbed \in BOOLEAN
  BY DEF ServerInv, TypeOK

-----------------------------------------------------------------------------
(* Middleware and handlers. *)

LEMMA AcceptStep ==
    ASSUME ServerInv, NEW q \in Requests, NEW route \in Routes, Accept(q, route)
    PROVE  ServerInv'
<1> DEFINE r == [pc |-> "limit", route |-> route]
<1>1. r.pc = "limit" /\ r \in Entering /\ r.route = route
  BY DEF Entering
<1>2. /\ req' = [req EXCEPT ![q] = r] /\ Alive /\ listener = "listening"
      /\ UNCHANGED <<settings, mainVars, spans, disturbed>>
  BY DEF Accept
<1> HIDE DEF r
<1>3. Shape(r) /\ Explained(r, disturbed)
  BY <1>1 DEF Shape, Explained
<1>4. ~(main = "shutdown" /\ ~early)
  BY <1>2 DEF ServerInv, Stages
<1>5. spans' \in {"off", "none", "waiting"} /\ disturbed' \in BOOLEAN
  BY <1>2 DEF ServerInv, TypeOK
<1>6. InTime(r, Budget)
  <2>1. Remaining(r) = RequestLimit(r.route)
    BY <1>1 DEF Remaining
  <2>2. RequestLimit(r.route) \in Nat /\ Budget \in Nat
    BY RouteLimits, Timeouts
  <2> QED
    BY <2>1, <2>2 DEF InTime
<1> QED
  BY <1>2, <1>3, <1>4, <1>5, <1>6, RequestMoves

\* The request goes on at another place in the stack, where no more is owed.
LEMMA GoMoves ==
    ASSUME ServerInv, NEW q \in Requests, NEW pc \in {"stack", "handle"}, Go(q, pc), Running(req[q]),
           req[q].route \in Routes,
           pc = "stack" => AuthLimit(req[q].route) + HandlerLimit(req[q].route) <= Remaining(req[q]),
           pc = "handle" => HandlerLimit(req[q].route) <= Remaining(req[q]),
           UNCHANGED <<settings, mainVars>>, disturbed' \in BOOLEAN, disturbed => disturbed'
    PROVE  ServerInv'
<1> DEFINE r == [pc |-> pc, route |-> req[q].route]
<1>1. r.pc = pc /\ r \in Entering /\ r.route = req[q].route
  BY DEF Entering
<1>2. req' = [req EXCEPT ![q] = r] /\ UNCHANGED spans
  BY DEF Go
<1> HIDE DEF r
<1>3. Shape(r) /\ Explained(r, disturbed') /\ Running(r)
  BY <1>1 DEF Shape, Explained, Running
<1>4. Remaining(r) <= Remaining(req[q])
  BY <1>1 DEF Remaining
<1> QED
  BY <1>1, <1>2, <1>3, <1>4, StepMoves

\* The request waits for Redis, within what it was owed.
LEMMA AskMoves ==
    ASSUME ServerInv, NEW q \in Requests, NEW who \in {"limiter", "auth", "cache"}, NEW n \in {0, 2, 3},
           AskRedis(q, who, n), Running(req[q]), req[q].route \in Routes,
           who = "cache" => req[q].route = "login" /\ n \in {2, 3},
           who = "limiter" =>
              RedisTimeout + AuthLimit(req[q].route) + HandlerLimit(req[q].route) <= Remaining(req[q]),
           who = "auth" => RedisTimeout + HandlerLimit(req[q].route) <= Remaining(req[q]),
           who = "cache" => RedisTimeout + Owed(req[q].route, n) <= Remaining(req[q]),
           UNCHANGED <<settings, mainVars>>, disturbed' \in BOOLEAN, disturbed => disturbed'
    PROVE  ServerInv'
<1> DEFINE r == [pc |-> "redis", route |-> req[q].route, who |-> who, n |-> n, left |-> RedisTimeout]
<1>1. /\ r.pc = "redis" /\ r.route = req[q].route /\ r.who = who /\ r.n = n /\ r.left = RedisTimeout
      /\ r \in Asking
  <2>1. RedisTimeout \in 0 .. RedisTimeout
    BY Timeouts
  <2> QED
    BY <2>1 DEF Asking
<1>2. req' = [req EXCEPT ![q] = r] /\ UNCHANGED spans
  BY DEF AskRedis
<1> HIDE DEF r
<1>3. Shape(r) /\ Explained(r, disturbed') /\ Running(r)
  BY <1>1 DEF Shape, Explained, Running
<1>4. Remaining(r) <= Remaining(req[q])
  BY <1>1 DEF Remaining
<1> QED
  BY <1>1, <1>2, <1>3, <1>4, StepMoves

LEMMA LimiterStep ==
    ASSUME ServerInv, NEW q \in Requests, Limiter(q)
    PROVE  ServerInv'
<1>1. req[q].pc = "limit" /\ Running(req[q])
  BY DEF Limiter, Pc, Running
<1>2. UNCHANGED <<settings, mainVars>> /\ disturbed' \in BOOLEAN /\ (disturbed => disturbed')
  BY DisturbedType DEF Limiter
<1>3. req[q].route \in Routes /\ Remaining(req[q]) = RequestLimit(req[q].route)
  BY <1>1 DEF ServerInv, Shape, Entering, Remaining
<1> DEFINE auth == AuthLimit(req[q].route)
           work == HandlerLimit(req[q].route)
<1>4. /\ auth \in Nat /\ work \in Nat /\ LimiterLimit \in Nat /\ RedisTimeout \in Nat
      /\ Remaining(req[q]) = LimiterLimit + auth + work
  BY <1>3, RouteLimits, Timeouts
<1>5. CASE SharedLimiter
  <2>1. AskRedis(q, "limiter", 0) /\ LimiterLimit = RedisTimeout
    BY <1>5 DEF Limiter, LimiterLimit
  <2>2. RedisTimeout + auth + work <= Remaining(req[q])
    BY <1>4, <2>1
  <2> QED
    BY <1>1, <1>2, <1>3, <2>1, <2>2, AskMoves
<1>6. CASE Done(q, ClientError, Unwound(At("limiter")))
  BY <1>1, <1>2, <1>6, DoneMoves DEF ClientError
<1>7. CASE Go(q, "stack")
  <2>1. auth + work <= Remaining(req[q])
    BY <1>4
  <2> QED
    BY <1>1, <1>2, <1>3, <1>7, <2>1, GoMoves
<1> QED
  BY <1>5, <1>6, <1>7 DEF Limiter

LEMMA MiddlewareStep ==
    ASSUME ServerInv, NEW q \in Requests, Middleware(q)
    PROVE  ServerInv'
<1>1. req[q].pc = "stack" /\ Running(req[q])
  BY DEF Middleware, Preflight, Pc, Running
<1>2. UNCHANGED <<settings, mainVars>> /\ disturbed' \in BOOLEAN /\ (disturbed => disturbed')
  BY DisturbedType DEF Middleware, Preflight
<1> DEFINE auth == AuthLimit(req[q].route)
           work == HandlerLimit(req[q].route)
<1>3. req[q].route \in Routes /\ Remaining(req[q]) = auth + work
  BY <1>1 DEF ServerInv, Shape, Entering, Remaining
<1>4. auth \in Nat /\ work \in Nat /\ RedisTimeout \in Nat
  BY RouteLimits, Timeouts
<1>5. CASE Done(q, 200, Unwound(At("cors"))) \/ Done(q, ClientError, Unwound(Handler))
  <2>1. 200 # 503 /\ ClientError # 503
    BY DEF ClientError
  <2> QED
    BY <1>1, <1>2, <1>5, <2>1, DoneMoves
<1>6. CASE Go(q, "handle")
  <2>1. work <= Remaining(req[q])
    BY <1>3, <1>4
  <2> QED
    BY <1>1, <1>2, <1>3, <1>6, <2>1, GoMoves
<1>7. CASE req[q].route \in Protected /\ Enabled(settings.redisURL) /\ AskRedis(q, "auth", 0)
  <2>1. auth = RedisTimeout
    BY <1>7 DEF AuthLimit
  <2>2. RedisTimeout + work <= Remaining(req[q])
    BY <1>3, <1>4, <2>1
  <2> QED
    BY <1>1, <1>2, <1>3, <1>7, <2>2, AskMoves
<1> QED
  BY <1>5, <1>6, <1>7 DEF Middleware, Preflight

LEMMA AnswerStep ==
    ASSUME ServerInv, NEW q \in Requests, Docs(q) \/ Panic(q) \/ Refuse(q)
    PROVE  ServerInv'
<1>1. Running(req[q])
  BY DEF Docs, Panic, Refuse, Pc, Running
<1>2. UNCHANGED <<settings, mainVars>> /\ disturbed' \in BOOLEAN /\ (disturbed => disturbed')
  BY DisturbedType DEF Docs, Panic, Refuse
<1>3. \E status, after : status \in {200, ClientError, 500} /\ Done(q, status, after)
  BY DEF Docs, Panic, Refuse
<1>4. PICK status, after : status \in {200, ClientError, 500} /\ Done(q, status, after)
  BY <1>3
<1>5. status # 503
  BY <1>4 DEF ClientError
<1> QED
  BY <1>1, <1>2, <1>4, <1>5, DoneMoves

LEMMA ContextFacts == \A c \in Context : c.left \in Nat /\ c.left <= QueryTimeout
  BY Timeouts DEF Context

\* The context of a new statement.
LEMMA Fresh ==
    /\ Before(Plain) \in Context
    /\ Before(Plain).left = QueryTimeout
<1>1. Plain.set = FALSE
  BY DEF Plain
<1>2. Before(Plain) = [set |-> TRUE, left |-> QueryTimeout, cancelled |-> FALSE]
  BY <1>1 DEF Before
<1>3. QueryTimeout \in 0 .. QueryTimeout
  BY Timeouts
<1> QED
  BY <1>2, <1>3 DEF Context

LEMMA QueryingFacts ==
    ASSUME NEW q \in Requests, req[q].route \in Calling, req[q].route \in Routes, NEW n \in {1, 2, 3},
           NEW ctx \in Context, n <= Len(Calls[req[q].route]), NEW d
    PROVE  LET r == Querying(q, n, ctx)
           IN  /\ Shape(r) /\ Explained(r, d) /\ Running(r)
               /\ r.pc = "query" /\ r.route = req[q].route /\ r.n = n /\ r.ctx = ctx
<1> DEFINE r == Querying(q, n, ctx)
<1>1. /\ r \in Statement
      /\ r.pc = "query" /\ r.route = req[q].route /\ r.n = n /\ r.ctx = ctx
  BY DEF Querying, Statement
<1> HIDE DEF r
<1>2. Shape(r) /\ Explained(r, d) /\ Running(r)
  BY <1>1 DEF Shape, Explained, Running
<1> QED
  BY <1>1, <1>2 DEF r

\* The context of a statement that continues a chain.
LEMMA Following ==
    ASSUME NEW c \in Context \cup {Plain}
    PROVE  Before(After(c)) \in Context
<1>1. CASE c \in Context
  <2>1. After(c) \in Context /\ After(c).set = TRUE
    BY <1>1 DEF After, Context
  <2> QED
    BY <2>1 DEF Before
<1>2. CASE c = Plain
  <2>1. After(c).set = FALSE
    BY <1>2 DEF After, Plain
  <2>2. Before(After(c)) = [set |-> TRUE, left |-> QueryTimeout, cancelled |-> FALSE]
    BY <2>1 DEF Before
  <2>3. QueryTimeout \in 0 .. QueryTimeout
    BY Timeouts
  <2> QED
    BY <2>2, <2>3 DEF Context
<1> QED
  BY <1>1, <1>2

\* The n-th call of a handler that is owed it.
LEMMA CallMoves ==
    ASSUME ServerInv, NEW q \in Requests, NEW n \in {1, 2, 3, 4}, NEW ctx \in Context \cup {Plain},
           Call(q, n, ctx), Running(req[q]), req[q].route \in Calling, req[q].route \in Routes,
           n <= Len(Calls[req[q].route]) => Owed(req[q].route, n - 1) <= Remaining(req[q]),
           UNCHANGED <<settings, mainVars>>, disturbed' \in BOOLEAN, disturbed => disturbed'
    PROVE  ServerInv'
<1> DEFINE route == req[q].route
           calls == Calls[route]
           next == Before(IF calls[n] = "chained" THEN After(ctx) ELSE Plain)
           r == Querying(q, n, next)
<1>0. Len(calls) \in {1, 2, 3}
  BY CallsFacts
<1>1. \/ n > Len(calls) /\ Done(q, 200, Unwound(Handler))
      \/ ~(n > Len(calls)) /\ calls[n] = "cache" /\ AskRedis(q, "cache", n)
      \/ ~(n > Len(calls)) /\ calls[n] # "cache" /\ req' = [req EXCEPT ![q] = r] /\ UNCHANGED spans
  BY DEF Call
<1>2. CASE n > Len(calls) /\ Done(q, 200, Unwound(Handler))
  <2>1. 200 # 503
    OBVIOUS
  <2> QED
    BY <1>2, <2>1, DoneMoves
<1>3. ASSUME ~(n > Len(calls))
      PROVE  /\ n \in {1, 2, 3} /\ n <= Len(calls)
             /\ CallLimit(route, n) + Owed(route, n) <= Remaining(req[q])
  <2> DEFINE len == Len(calls)
  <2>1. n \in {1, 2, 3} /\ n <= len /\ n - 1 \in {0, 1, 2} /\ n - 1 < len /\ (n - 1) + 1 = n
    <3>1. len \in {1, 2, 3} /\ ~(n > len)
      BY <1>0, <1>3
    <3> HIDE DEF len
    <3> QED
      BY <3>1
  <2>2. Owed(route, n - 1) = CallLimit(route, n) + Owed(route, n)
    BY <1>0, <2>1, OwedNext
  <2> QED
    BY <2>1, <2>2
<1>4. CASE ~(n > Len(calls)) /\ calls[n] = "cache" /\ AskRedis(q, "cache", n)
  <2>1. n \in {1, 2, 3} /\ CallLimit(route, n) = RedisTimeout /\ n \in 1 .. Len(calls)
    <3>1. n \in {1, 2, 3} /\ n <= Len(calls)
      BY <1>3, <1>4
    <3>2. n \in 1 .. Len(calls)
      BY <1>0, <3>1
    <3> QED
      BY <1>4, <3>1, <3>2 DEF CallLimit
  <2>2. route = "login"
    BY <1>4, <2>1, CallsFacts DEF Calling
  <2>3. n # 1
    <3>1. Calls["login"][1] = "sql"
      BY CallsFacts
    <3> QED
      BY <1>4, <2>2, <3>1
  <2>4. RedisTimeout + Owed(route, n) <= Remaining(req[q])
    BY <1>3, <1>4, <2>1
  <2>5. n \in {2, 3}
    BY <2>1, <2>3
  <2> HIDE DEF calls
  <2> QED
    BY <1>4, <2>2, <2>4, <2>5, AskMoves
<1>5. CASE ~(n > Len(calls)) /\ calls[n] # "cache" /\ req' = [req EXCEPT ![q] = r] /\ UNCHANGED spans
  <2>1. next \in Context
    BY Fresh, Following
  <2> HIDE DEF next
  <2>2. n \in {1, 2, 3} /\ n <= Len(calls) /\ CallLimit(route, n) + Owed(route, n) <= Remaining(req[q])
    BY <1>3, <1>5
  <2>3. /\ Shape(r) /\ Explained(r, disturbed') /\ Running(r)
        /\ r.pc = "query" /\ r.route = route /\ r.n = n /\ r.ctx = next
    <3>1. n \in {1, 2, 3} /\ n <= Len(Calls[req[q].route])
      BY <2>2
    <3> HIDE DEF calls
    <3> QED
      BY <2>1, <3>1, QueryingFacts
  <2> HIDE DEF r
  <2>4. Remaining(r) = next.left + Owed(route, n)
    BY <2>3 DEF Remaining
  <2>5. CallLimit(route, n) = QueryTimeout
    BY <1>5 DEF CallLimit
  <2>6. next.left \in Nat /\ next.left <= QueryTimeout /\ QueryTimeout \in Nat /\ Owed(route, n) \in Nat
    BY <2>1, ContextFacts, OwedNat, Timeouts
  <2>7. Remaining(req[q]) \in Nat
    BY RemainingNat DEF ServerInv
  <2>8. Remaining(r) <= Remaining(req[q])
    <3> DEFINE x == next.left
               y == Owed(route, n)
               z == Remaining(req[q])
    <3>1. x \in Nat /\ y \in Nat /\ z \in Nat /\ QueryTimeout \in Nat /\ x <= QueryTimeout /\ QueryTimeout + y <= z
      BY <2>2, <2>5, <2>6, <2>7
    <3> HIDE DEF x, y, z
    <3>2. x + y <= z
      BY <3>1
    <3> QED
      BY <2>4, <3>2 DEF x, y, z
  <2> QED
    BY <1>5, <2>3, <2>8, StepMoves
<1> QED
  BY <1>1, <1>2, <1>4, <1>5

LEMMA QueryStep ==
    ASSUME ServerInv, NEW q \in Requests, Query(q)
    PROVE  ServerInv'
<1>1. req[q].pc = "handle" /\ Running(req[q]) /\ req[q].route \in Calling /\ Call(q, 1, Plain)
  BY CallsFacts DEF Query, Pc, Running
<1>2. UNCHANGED <<settings, mainVars>> /\ disturbed' \in BOOLEAN /\ (disturbed => disturbed')
  BY DisturbedType DEF Query
<1>3. req[q].route \in Routes
  BY <1>1 DEF ServerInv, Shape, Entering
<1>4. Remaining(req[q]) = Owed(req[q].route, 0) /\ Owed(req[q].route, 0) \in Nat
  BY <1>1, CallsFacts, OwedNat DEF Remaining, HandlerLimit, Calling
<1>5. Owed(req[q].route, 1 - 1) <= Remaining(req[q])
  BY <1>4
<1> QED
  BY <1>1, <1>2, <1>3, <1>5, CallMoves

LEMMA QueryOkStep ==
    ASSUME ServerInv, NEW q \in Requests, QueryOk(q)
    PROVE  ServerInv'
<1> DEFINE k == req[q]
<1>1. k.pc = "query" /\ Running(k) /\ k \in Statement /\ k.n <= Len(Calls[k.route])
  BY DEF QueryOk, Pc, Running, ServerInv, Shape
<1>2. UNCHANGED <<settings, mainVars>> /\ disturbed' \in BOOLEAN /\ (disturbed => disturbed')
  BY DisturbedType DEF QueryOk
<1>3. k.route \in Calling /\ k.n \in {1, 2, 3} /\ k.ctx \in Context /\ k.route \in Routes
  BY <1>1 DEF Statement
<1>4. Remaining(k) = k.ctx.left + Owed(k.route, k.n) /\ k.ctx.left \in Nat
  BY <1>1, <1>3, ContextFacts DEF Remaining
<1>5. \A n : Owed(k.route, n) \in Nat
  BY OwedNat
<1>6. CASE Call(q, k.n + 1, k.ctx)
  <2>1. k.n + 1 \in {1, 2, 3, 4} /\ (k.n + 1) - 1 = k.n
    BY <1>3
  <2>2. Owed(k.route, k.n) <= Remaining(k)
    BY <1>4, <1>5
  <2> QED
    BY <1>1, <1>2, <1>3, <1>6, <2>1, <2>2, CallMoves
<1>7. CASE k.route = "update" /\ k.n = 1 /\ Call(q, 3, k.ctx)
  <2>1. Len(Calls["update"]) = 3
    BY CallsFacts
  <2>2. Owed("update", 1) = CallLimit("update", 2) + Owed("update", 2)
    <3>1. Len(Calls["update"]) \in {1, 2, 3} /\ 1 < Len(Calls["update"])
      BY <2>1
    <3>2. Owed("update", 1) = CallLimit("update", 1 + 1) + Owed("update", 1 + 1)
      BY <3>1, OwedNext
    <3> QED
      BY <3>2
  <2>3. CallLimit("update", 2) \in Nat
    BY Timeouts DEF CallLimit
  <2>4. Owed(k.route, 3 - 1) <= Remaining(k)
    BY <1>4, <1>5, <1>7, <2>2, <2>3
  <2> QED
    BY <1>1, <1>2, <1>3, <1>7, <2>4, CallMoves
<1>8. CASE Done(q, ClientError, Unwound(Handler))
  BY <1>1, <1>2, <1>8, DoneMoves DEF ClientError
<1> QED
  BY <1>6, <1>7, <1>8 DEF QueryOk

\* What a request that waits for Redis is owed behind the command.
LEMMA AskingFacts ==
    ASSUME ServerInv, NEW q \in Requests, req[q].pc = "redis"
    PROVE  /\ Running(req[q]) /\ req[q].route \in Routes
           /\ req[q].who \in {"limiter", "auth", "cache"}
           /\ req[q].who = "limiter" =>
                 AuthLimit(req[q].route) + HandlerLimit(req[q].route) <= Remaining(req[q])
           /\ req[q].who = "auth" => HandlerLimit(req[q].route) <= Remaining(req[q])
           /\ req[q].who = "cache" => /\ req[q].route = "login" /\ req[q].n \in {2, 3}
                                      /\ Owed(req[q].route, req[q].n) <= Remaining(req[q])
<1> DEFINE k == req[q]
<1>1. k \in Asking /\ (k.who = "cache" => k.route = "login" /\ k.n \in {2, 3})
  BY DEF ServerInv, Shape
<1>2. k.route \in Routes /\ k.who \in {"limiter", "auth", "cache"} /\ k.left \in Nat /\ Running(k)
  BY <1>1, Timeouts DEF Asking, Running
<1>3. AuthLimit(k.route) \in Nat /\ HandlerLimit(k.route) \in Nat /\ Owed(k.route, k.n) \in Nat
  BY RouteLimits, OwedNat
<1>4. /\ k.who = "limiter" => Remaining(k) = k.left + AuthLimit(k.route) + HandlerLimit(k.route)
      /\ k.who = "auth" => Remaining(k) = k.left + HandlerLimit(k.route)
      /\ k.who = "cache" => Remaining(k) = k.left + Owed(k.route, k.n)
  BY DEF Remaining
<1> QED
  BY <1>1, <1>2, <1>3, <1>4

LEMMA RedisStep ==
    ASSUME ServerInv, NEW q \in Requests, RedisOk(q) \/ RedisFails(q) \/ RedisExpires(q)
    PROVE  ServerInv'
<1>1. req[q].pc = "redis" /\ UNCHANGED <<settings, mainVars>>
  BY DEF RedisOk, RedisFails, RedisExpires, Pc
<1>2. disturbed' \in BOOLEAN /\ (disturbed => disturbed')
  <2>1. CASE RedisFails(q)
    BY <2>1 DEF RedisFails
  <2>2. CASE RedisOk(q) \/ RedisExpires(q)
    BY <2>2, DisturbedType DEF RedisOk, RedisExpires
  <2> QED
    BY <2>1, <2>2
<1>3. \/ Done(q, ClientError, Unwound(At("limiter"))) \/ Done(q, ClientError, Unwound(Handler))
      \/ Done(q, 500, Unwound(Handler))
      \/ req[q].who = "limiter" /\ Go(q, "stack")
      \/ req[q].who = "auth" /\ Go(q, "handle")
      \/ req[q].who = "cache" /\ Call(q, req[q].n + 1, Plain)
  <2>1. CASE RedisOk(q)
    BY <2>1 DEF RedisOk
  <2>2. CASE FailOpen(q)
    <3>1. 2 + 1 = 3
      OBVIOUS
    <3> QED
      BY <2>2, <3>1 DEF FailOpen
  <2> QED
    BY <2>1, <2>2 DEF RedisFails, RedisExpires
<1>4. CASE \/ Done(q, ClientError, Unwound(At("limiter"))) \/ Done(q, ClientError, Unwound(Handler))
          \/ Done(q, 500, Unwound(Handler))
  <2>1. ClientError # 503 /\ 500 # 503
    BY DEF ClientError
  <2> QED
    BY <1>1, <1>2, <1>4, <2>1, AskingFacts, DoneMoves
<1>5. CASE req[q].who = "limiter" /\ Go(q, "stack")
  BY <1>1, <1>2, <1>5, AskingFacts, GoMoves
<1>6. CASE req[q].who = "auth" /\ Go(q, "handle")
  BY <1>1, <1>2, <1>6, AskingFacts, GoMoves
<1>7. CASE req[q].who = "cache" /\ Call(q, req[q].n + 1, Plain)
  <2>1. /\ req[q].route = "login" /\ req[q].n \in {2, 3} /\ Running(req[q]) /\ req[q].route \in Routes
        /\ Owed(req[q].route, req[q].n) <= Remaining(req[q])
    BY <1>1, <1>7, AskingFacts
  <2>2. req[q].n + 1 \in {1, 2, 3, 4} /\ (req[q].n + 1) - 1 = req[q].n /\ req[q].route \in Calling
    BY <2>1 DEF Calling
  <2> QED
    BY <1>1, <1>2, <1>7, <2>1, <2>2, CallMoves
<1> QED
  BY <1>3, <1>4, <1>5, <1>6, <1>7

LEMMA QueryEndsStep ==
    ASSUME ServerInv, NEW q \in Requests, QueryFails(q) \/ QueryExpires(q)
    PROVE  ServerInv'
<1>1. Running(req[q]) /\ UNCHANGED <<settings, mainVars>>
  BY DEF QueryFails, QueryExpires, Pc, Running
<1>2. disturbed' \in BOOLEAN /\ (disturbed => disturbed')
  <2>1. CASE QueryFails(q)
    BY <2>1 DEF QueryFails
  <2>2. CASE QueryExpires(q)
    BY <2>2, DisturbedType DEF QueryExpires
  <2> QED
    BY <2>1, <2>2
<1>3. Done(q, 500, Unwound(Handler))
  BY DEF QueryFails, QueryExpires
<1>4. 500 # 503
  OBVIOUS
<1> QED
  BY <1>1, <1>2, <1>3, <1>4, DoneMoves
-----------------------------------------------------------------------------
(* Probes. *)

LEMMA ProbingFacts ==
    ASSUME ServerInv, NEW q \in Requests, NEW p \in {"database"} \cup Extras,
           NEW rest \in SUBSET Extras, NEW code \in {200, 503}, NEW d, code = 503 => Cause(d),
           NEW r, r = Probing(q, p, rest, code)
    PROVE  /\ Shape(r) /\ Explained(r, d) /\ Running(r) /\ r.route = "health"
           /\ Remaining(r) = ProbeLimit(p) + ProbesOwed(rest)
<1>1. p \in Probes /\ rest \in SUBSET Probes
  BY ExtrasFacts DEF Probes
<1>2. ProbeLimit(p) \in Nat
  BY <1>1, LimitFacts
<1>3. /\ r \in Probe
      /\ r.pc = "probe" /\ r.probe = p /\ r.rest = rest /\ r.left = ProbeLimit(p) /\ r.code = code
      /\ r.route = "health"
  BY <1>1, <1>2 DEF Probing, Probe
<1>4. ~(ProbeLimit(p) < ProbeLimit(p)) /\ ProbeLimit(p) <= ProbeLimit(p)
  BY <1>2
<1>5. Remaining(r) = ProbeLimit(p) + ProbesOwed(rest)
  BY <1>3 DEF Remaining
<1> QED
  BY <1>3, <1>4, <1>5 DEF Shape, Explained, Running

LEMMA CheckStep ==
    ASSUME ServerInv, NEW q \in Requests, Check(q)
    PROVE  ServerInv'
<1> DEFINE r == Probing(q, "database", Extras, 200)
<1>1. req[q].pc = "handle" /\ Running(req[q]) /\ req[q].route = "health"
  BY DEF Check, Pc, Running
<1>2. /\ req' = [req EXCEPT ![q] = r]
      /\ UNCHANGED <<settings, mainVars, spans>> /\ disturbed' \in BOOLEAN /\ (disturbed => disturbed')
  BY DisturbedType DEF Check
<1>3. 200 # 503 /\ 200 \in {200, 503}
  OBVIOUS
<1>4. /\ Shape(r) /\ Explained(r, disturbed') /\ Running(r) /\ r.route = "health"
      /\ Remaining(r) = ProbeLimit("database") + ProbesOwed(Extras)
  BY <1>3, ProbingFacts
<1> HIDE DEF r
<1>5. Remaining(req[q]) = ProbesOwed({"database"} \cup Extras)
  BY <1>1 DEF Remaining, HandlerLimit
<1>6. ProbesOwed({"database"} \cup Extras) = ProbeLimit("database") + ProbesOwed(Extras)
  <2>1. {"database"} \cup Extras \in SUBSET Probes /\ ({"database"} \cup Extras) \ {"database"} = Extras
    BY ExtrasFacts DEF Probes
  <2> QED
    BY <2>1, ProbesOwedFacts
<1>7. Remaining(req[q]) \in Nat
  BY <1>1, RemainingNat DEF ServerInv
<1>8. Remaining(r) <= Remaining(req[q])
  BY <1>4, <1>5, <1>6, <1>7
<1> QED
  BY <1>1, <1>2, <1>4, <1>8, StepMoves

\* The result of a probe: d is whether a dependency has failed or been late by
\* now, and a result that degrades the answer has its cause.
LEMMA NextProbeMoves ==
    ASSUME ServerInv, NEW q \in Requests, NEW ok \in BOOLEAN, NextProbe(q, ok), req[q].pc = "probe",
           Degrades(req[q].probe, ok) => Cause(disturbed'),
           UNCHANGED <<settings, mainVars>>, disturbed' \in BOOLEAN, disturbed => disturbed'
    PROVE  ServerInv'
<1> DEFINE k == req[q]
           code == IF Degrades(k.probe, ok) THEN 503 ELSE k.code
<1>1. /\ Running(k) /\ k \in Probe /\ k.rest \subseteq Extras /\ Explained(k, disturbed)
  BY DEF Running, ServerInv, Shape
<1>2. k.code \in {200, 503} /\ (k.code = 503 => Cause(disturbed'))
  BY <1>1 DEF Probe, Explained, Cause
<1>3. code \in {200, 503} /\ (code = 503 => Cause(disturbed'))
  BY <1>2
<1>4. IF k.rest = {} THEN Done(q, code, Unwound(Handler))
      ELSE /\ \E p \in k.rest : req' = [req EXCEPT ![q] = Probing(q, p, k.rest \ {p}, code)]
           /\ UNCHANGED spans
  BY DEF NextProbe
<1> HIDE DEF code
<1>5. CASE k.rest = {}
  BY <1>1, <1>3, <1>4, <1>5, DoneMoves
<1>6. CASE k.rest # {}
  <2>1. PICK p \in k.rest : req' = [req EXCEPT ![q] = Probing(q, p, k.rest \ {p}, code)]
    BY <1>4, <1>6
  <2> DEFINE r == Probing(q, p, k.rest \ {p}, code)
  <2>2. p \in Extras /\ k.rest \ {p} \in SUBSET Extras
    BY <1>1
  <2>3. req' = [req EXCEPT ![q] = r] /\ UNCHANGED spans
    BY <1>4, <1>6, <2>1
  <2>4. /\ Shape(r) /\ Explained(r, disturbed') /\ Running(r) /\ r.route = "health"
        /\ Remaining(r) = ProbeLimit(p) + ProbesOwed(k.rest \ {p})
    <3>1. r = Probing(q, p, k.rest \ {p}, code) /\ p \in {"database"} \cup Extras
      BY <2>2
    <3> HIDE DEF r, k
    <3> QED
      BY <1>3, <2>2, <3>1, ProbingFacts
  <2> HIDE DEF r
  <2>5. k.rest \in SUBSET Probes /\ k.left \in Nat /\ k.route = "health"
    BY <1>1 DEF Probe
  <2>6. Remaining(r) = ProbesOwed(k.rest) /\ ProbesOwed(k.rest) \in Nat
    BY <2>4, <2>5, ProbesOwedFacts
  <2>7. Remaining(k) = k.left + ProbesOwed(k.rest)
    BY DEF Remaining
  <2>8. Remaining(r) <= Remaining(k)
    BY <2>5, <2>6, <2>7
  <2> QED
    BY <1>1, <2>3, <2>4, <2>5, <2>8, StepMoves
<1> QED
  BY <1>5, <1>6

LEMMA ProbeAnsweredStep ==
    ASSUME ServerInv, NEW q \in Requests, ProbeOk(q) \/ ProbeFails(q)
    PROVE  ServerInv'
<1>1. CASE ProbeOk(q)
  <2>1. /\ NextProbe(q, TRUE) /\ req[q].pc = "probe" /\ UNCHANGED <<settings, mainVars>>
        /\ disturbed' = disturbed
    BY <1>1 DEF ProbeOk, Pc
  <2>2. ~Degrades(req[q].probe, TRUE)
    BY DEF Degrades
  <2> QED
    BY <2>1, <2>2, DisturbedType, NextProbeMoves
<1>2. CASE ProbeFails(q)
  <2>1. /\ NextProbe(q, FALSE) /\ req[q].pc = "probe" /\ UNCHANGED <<settings, mainVars>>
        /\ disturbed' = TRUE
    BY <1>2 DEF ProbeFails, Pc
  <2>2. Cause(disturbed')
    BY <2>1 DEF Cause
  <2> QED
    BY <2>1, <2>2, NextProbeMoves
<1> QED
  BY <1>1, <1>2

\* A probe that expires without anything having been late had no time to begin
\* with: it is the one of Redis, and the timeout could not be parsed.
LEMMA ProbeExpiresStep ==
    ASSUME ServerInv, NEW q \in Requests, ProbeExpires(q)
    PROVE  ServerInv'
<1> DEFINE k == req[q]
<1>1. /\ NextProbe(q, FALSE) /\ k.pc = "probe" /\ k.left = 0 /\ UNCHANGED <<settings, mainVars>>
      /\ disturbed' = disturbed
  BY DEF ProbeExpires, Pc
<1>2. k.probe \in {"database"} \cup Extras /\ (k.left < ProbeLimit(k.probe) => disturbed)
  BY <1>1 DEF ServerInv, Shape, Explained
<1>3. ASSUME Degrades(k.probe, FALSE)
      PROVE  Cause(disturbed)
  <2>1. k.probe \notin {"kafka", "rabbitmq"}
    BY <1>3 DEF Degrades, Brokers
  <2>2. k.probe = "database" \/ (k.probe = "redis" /\ "redis" \in Extras)
    BY <1>2, <2>1, ExtrasFacts
  <2>3. CASE k.probe = "database"
    BY <1>1, <1>2, <2>3, LimitFacts, Timeouts DEF Cause
  <2>4. CASE k.probe = "redis" /\ "redis" \in Extras
    BY <1>1, <1>2, <2>4, LimitFacts, Timeouts DEF Cause
  <2> QED
    BY <2>2, <2>3, <2>4
<1>4. Degrades(k.probe, FALSE) => Cause(disturbed')
  BY <1>1, <1>3
<1>5. disturbed' \in BOOLEAN /\ (disturbed => disturbed')
  BY <1>1, DisturbedType
<1> QED
  BY <1>1, <1>4, <1>5, NextProbeMoves
-----------------------------------------------------------------------------
(* The main goroutine, and time. *)

LEMMA ServerInit == Init => ServerInv
<1> SUFFICES ASSUME Init PROVE ServerInv
  OBVIOUS
<1>1. \A q \in Requests : req[q] = Idle
  BY DEF Init
<1>2. req = [q \in Requests |-> req[q]]
  BY <1>1 DEF Init
<1>3. \A q \in Requests : /\ req[q].pc = "idle" /\ Shape(req[q]) /\ Explained(req[q], disturbed)
                          /\ InTime(req[q], Budget)
  BY <1>1, IdleFacts
<1>4. /\ DOMAIN settings = {"redisURL", "probe", "backend", "kafka", "rabbit"}
      /\ settings["redisURL"] \in Loaded("redisURL") /\ settings["probe"] \in Loaded("probe")
      /\ settings["backend"] \in Loaded("backend") /\ settings["kafka"] \in Loaded("kafka")
      /\ settings["rabbit"] \in Loaded("rabbit")
  <2>1. settings \in Loadable
    BY ServerAssumption DEF Init
  <2> QED
    BY <2>1 DEF Loadable
<1>5. \A k \in DOMAIN settings : settings[k] \in Loaded(k)
  BY <1>4
<1>6. TypeOK
  <2>1. budget \in 0 .. Budget
    BY Timeouts DEF Init
  <2>2. {forced, early, disturbed} \subseteq BOOLEAN
    BY DEF Init
  <2> QED
    BY <1>3, <1>5, <2>1, <2>2 DEF Init, TypeOK
<1>7. Stages /\ Flushing /\ Stopping
  BY <1>3 DEF Init, Stages, Flushing, Stopping, Boot, Closing
<1> QED
  BY <1>2, <1>3, <1>6, <1>7 DEF Init, ServerInv

\* A step of main() that leaves the requests alone.
LEMMA MainMoves ==
    ASSUME ServerInv, UNCHANGED <<settings, req>>, db' = db \/ db # "closed",
           disturbed' \in BOOLEAN, disturbed => disturbed', TypeOK', Stages', Flushing',
           main' = "shutdown" /\ ~early' => \A q \in Requests : InTime(req[q], budget'),
           main' \in Closing /\ ~forced' /\ ~early' => \A q \in Requests : ~Running(req[q]),
           main' \notin {"exited", "fatal"}
    PROVE  ServerInv'
<1>1. disturbed \in BOOLEAN
  BY DisturbedType
<1>2. \A q \in Requests : Shape(req'[q]) /\ Explained(req'[q], disturbed')
  BY <1>1, ExplainedLater DEF ServerInv
<1>3. \A q \in Requests : Shape(req[q])' /\ Explained(req[q], disturbed)' /\ InTime(req[q], Budget)'
  <2>1. \A q \in Requests : InTime(req'[q], Budget)
    BY DEF ServerInv
  <2> QED
    BY <1>2, <2>1, ShapePrime, ExplainedPrime, BoundedPrime
<1>4. ASSUME main' = "shutdown", ~early', NEW q \in Requests
      PROVE  InTime(req[q], budget)'
  BY <1>4, InTimePrime
<1>5. Stopping'
  BY <1>4 DEF Stopping, Closing, Running
<1> QED
  BY <1>3, <1>5 DEF ServerInv

\* A step that ends the process.
LEMMA EndMoves ==
    ASSUME ServerInv, UNCHANGED <<settings, db>>, req' = [q \in Requests |-> Idle],
           main' \in {"exited", "fatal"}, TypeOK', Flushing'
    PROVE  ServerInv'
<1>1. \A q \in Requests : req'[q] = Idle
  OBVIOUS
<1>2. \A q \in Requests : /\ req'[q].pc = "idle" /\ Shape(req'[q]) /\ Explained(req'[q], disturbed')
                          /\ InTime(req'[q], Budget)
  BY <1>1, IdleFacts
<1>3. \A q \in Requests : Shape(req[q])' /\ Explained(req[q], disturbed)' /\ InTime(req[q], Budget)'
  BY <1>2, ShapePrime, ExplainedPrime, BoundedPrime
<1>4. Stages' /\ Stopping'
  BY DEF Stages, Stopping, Boot, Closing
<1> QED
  BY <1>1, <1>2, <1>3, <1>4 DEF ServerInv

\* log.Fatal, wherever it is called from, changes nothing else.
LEMMA FatalMoves ==
    ASSUME ServerInv, End("fatal"),
           UNCHANGED <<settings, listener, budget, db, redis, spans, forced, early, disturbed>>
    PROVE  ServerInv'
<1>1. main' = "fatal" /\ req' = [q \in Requests |-> Idle]
  BY DEF End
<1>2. \A q \in Requests : req'[q].pc = "idle"
  BY <1>1, IdleFacts
<1>3. TypeOK' /\ Flushing'
  BY <1>1, <1>2 DEF ServerInv, TypeOK, Flushing, Loaded, Load
<1> QED
  BY <1>1, <1>3, EndMoves

\* The steps from config.Load to the wiring.
LEMMA BootStep ==
    ASSUME ServerInv, LoadConfig \/ NewProvider \/ NewConnection \/ Migrate
    PROVE  ServerInv'
<1>1. CASE End("fatal") /\ UNCHANGED <<bootVars, db, redis, spans>>
  BY <1>1, FatalMoves DEF bootVars
<1>2. CASE ~(End("fatal") /\ UNCHANGED <<bootVars, db, redis, spans>>)
  <2>1. /\ main \in Boot /\ main' \in Boot
        /\ main = "migrate" => main' = "wire" /\ UNCHANGED db
        /\ UNCHANGED <<bootVars, req>>
        /\ spans' \in {"off", "none", "waiting"} /\ {db', redis'} \subseteq {"none", "open", "closed"}
        /\ main' = "migrate" => db' = "open"
        /\ main' = "wire" => main = "migrate" /\ (redis' = "open" \/ ~Enabled(settings.redisURL))
        /\ db' = db \/ db' = "open"
    BY <1>2 DEF LoadConfig, NewProvider, NewConnection, Migrate, Fatal, Passed, Boot, bootVars,
                ServerInv, TypeOK
  <2>2. \A q \in Requests : req[q].pc = "idle"
    BY <2>1 DEF ServerInv, Stages
  <2>3. UNCHANGED <<settings, listener, budget, forced, early, disturbed>>
    BY <2>1 DEF bootVars
  <2>4. TypeOK'
    BY <2>1, <2>3 DEF ServerInv, TypeOK, Boot, Loaded, Load
  <2>5. Stages' /\ Flushing' /\ Stopping'
    BY <2>1, <2>2, <2>3 DEF ServerInv, Stages, Flushing, Stopping, Boot, Closing, Enabled
  <2>6. \A q \in Requests : Shape(req'[q]) /\ Explained(req'[q], disturbed')
    BY <2>1, <2>3 DEF ServerInv
  <2>7. \A q \in Requests : Shape(req[q])' /\ InTime(req[q], Budget)'
    BY <2>1, <2>3, <2>6, ShapePrime, BoundedPrime DEF ServerInv
  <2>8. \A q \in Requests : Explained(req[q], disturbed)'
    BY <2>1, <2>2 DEF Explained
  <2> QED
    BY <2>1, <2>4, <2>5, <2>7, <2>8 DEF ServerInv, Boot
<1> QED
  BY <1>1, <1>2

LEMMA ServeStep ==
    ASSUME ServerInv, Serve \/ Listen
    PROVE  ServerInv'
<1>1. /\ UNCHANGED <<settings, budget, db, redis, spans, req, forced, early, disturbed>>
      /\ \/ main = "wire" /\ main' = "serve" /\ listener' = "starting"
         \/ main' = main /\ Alive /\ listener = "starting" /\ listener' = "listening"
  BY DEF Serve, Listen
<1>2. main' \notin {"exited", "fatal"} /\ (main' = "shutdown" => main = "shutdown")
      /\ (main' \in Closing => main \in Closing)
  BY <1>1 DEF Alive, Closing
<1>3. TypeOK'
  BY <1>1 DEF ServerInv, TypeOK, Loaded, Load
<1>4. Stages' /\ Flushing'
  BY <1>1 DEF ServerInv, Stages, Flushing, Boot, Closing, Enabled
<1>5. main' = "shutdown" /\ ~early' => \A q \in Requests : InTime(req[q], budget')
  BY <1>1, <1>2 DEF ServerInv, Stopping
<1>6. main' \in Closing /\ ~forced' /\ ~early' => \A q \in Requests : ~Running(req[q])
  BY <1>1, <1>2 DEF ServerInv, Stopping
<1>7. disturbed' \in BOOLEAN /\ (disturbed => disturbed') /\ db' = db
  BY <1>1, DisturbedType
<1> QED
  BY <1>1, <1>2, <1>3, <1>4, <1>5, <1>6, <1>7, MainMoves

\* Whoever runs when the signal comes may wait no more than its route's limit.
LEMMA SignalStep ==
    ASSUME ServerInv, Signal
    PROVE  ServerInv'
<1>1. /\ UNCHANGED <<settings, db, redis, spans, req, forced, disturbed>>
      /\ main = "serve" /\ main' = "shutdown" /\ budget' = Budget
      /\ listener' = IF listener = "listening" THEN "closed" ELSE listener
      /\ early' = (listener = "starting")
  BY DEF Signal
<1>2. Budget \in Nat \ {0} /\ Budget \in 0 .. Budget
  BY Timeouts
<1>3. listener \in {"starting", "listening"} /\ db = "open"
      /\ (redis = "open" \/ ~Enabled(settings.redisURL))
  BY <1>1 DEF ServerInv, Stages
<1>4. early' \in BOOLEAN /\ (~early' => listener' = "closed")
  BY <1>1, <1>3
<1>5. TypeOK'
  BY <1>1, <1>2, <1>3, <1>4 DEF ServerInv, TypeOK, Loaded, Load
<1>6. Stages' /\ Flushing'
  BY <1>1, <1>2, <1>3, <1>4 DEF Stages, Flushing, Boot, Closing, Enabled
<1>7. \A q \in Requests : InTime(req[q], Budget)
  BY DEF ServerInv
<1>8. disturbed' \in BOOLEAN /\ (disturbed => disturbed') /\ db' = db /\ main' \notin Closing
  BY <1>1, DisturbedType DEF Closing
<1> QED
  BY <1>1, <1>5, <1>6, <1>7, <1>8, MainMoves

LEMMA HttpStoppedStep ==
    ASSUME ServerInv, HttpStopped
    PROVE  ServerInv'
<1>1. /\ UNCHANGED <<settings, listener, budget, db, redis, spans, req, early, disturbed>>
      /\ main = "shutdown" /\ main' = "flush"
      /\ \/ (early \/ \A q \in Requests : ~Busy(q)) /\ UNCHANGED forced
         \/ forced' = TRUE
  BY DEF HttpStopped
<1>2. forced' \in BOOLEAN
  BY <1>1 DEF ServerInv, TypeOK
<1>3. TypeOK'
  BY <1>1, <1>2 DEF ServerInv, TypeOK, Loaded, Load
<1>4. Stages' /\ Flushing'
  BY <1>1 DEF ServerInv, Stages, Flushing, Boot, Closing, Enabled
<1>5. ~forced' /\ ~early' => \A q \in Requests : ~Running(req[q])
  BY <1>1, RunningBusy
<1>6. disturbed' \in BOOLEAN /\ (disturbed => disturbed') /\ db' = db
  BY <1>1, DisturbedType
<1> QED
  BY <1>1, <1>3, <1>4, <1>5, <1>6, MainMoves DEF Closing

LEMMA FlushStep ==
    ASSUME ServerInv, FlushAnswered \/ FlushReturns
    PROVE  ServerInv'
<1>1. /\ UNCHANGED <<settings, listener, budget, db, redis, req, forced, early>>
      /\ main = "flush" /\ main' = "redis"
  BY DEF FlushAnswered, FlushReturns
<1>2. disturbed \in BOOLEAN
  BY DisturbedType
<1>3. /\ spans' \in {"off", "none", "waiting"} /\ disturbed' \in BOOLEAN /\ (disturbed => disturbed')
      /\ ~disturbed' => spans' # "waiting"
  <2>1. CASE FlushAnswered
    BY <1>2, <2>1 DEF FlushAnswered, Flushed, ServerInv, TypeOK
  <2>2. CASE FlushReturns
    <3>1. spans' = spans /\ disturbed' = disturbed /\ (spans = "waiting" => budget = 0)
      BY <2>2 DEF FlushReturns
    <3>2. budget = 0 => disturbed
      BY <1>1 DEF ServerInv, Flushing
    <3> QED
      BY <1>2, <3>1, <3>2 DEF ServerInv, TypeOK
  <2> QED
    BY <2>1, <2>2
<1>4. TypeOK'
  BY <1>1, <1>3 DEF ServerInv, TypeOK, Loaded, Load
<1>5. Stages' /\ Flushing'
  BY <1>1, <1>3 DEF ServerInv, Stages, Flushing, Boot, Closing, Enabled
<1>6. ~forced' /\ ~early' => \A q \in Requests : ~Running(req[q])
  BY <1>1 DEF ServerInv, Stopping, Closing
<1> QED
  BY <1>1, <1>3, <1>4, <1>5, <1>6, MainMoves

LEMMA CloseStep ==
    ASSUME ServerInv, CloseRedis \/ CloseDB
    PROVE  ServerInv'
<1>1. /\ UNCHANGED <<settings, listener, budget, spans, req, forced, early, disturbed>>
      /\ \/ main = "redis" /\ main' = "sql" /\ db' = db
            /\ redis' = IF redis = "open" THEN "closed" ELSE redis
         \/ main = "sql" /\ main' = "return" /\ db' = "closed" /\ redis' = redis
  BY DEF CloseRedis, CloseDB
<1>2. TypeOK'
  BY <1>1 DEF ServerInv, TypeOK, Loaded, Load
<1>3. Stages' /\ Flushing'
  BY <1>1 DEF ServerInv, Stages, Flushing, Boot, Closing, Enabled
<1>4. ~forced' /\ ~early' => \A q \in Requests : ~Running(req[q])
  BY <1>1 DEF ServerInv, Stopping, Closing
<1>5. disturbed' \in BOOLEAN /\ (disturbed => disturbed') 
  BY <1>1, DisturbedType
<1>6. db' = db \/ db # "closed"
  BY <1>1
<1> QED
  BY <1>1, <1>2, <1>3, <1>4, <1>5, <1>6, MainMoves

LEMMA ExitStep ==
    ASSUME ServerInv, Exit
    PROVE  ServerInv'
<1>1. /\ UNCHANGED <<settings, listener, budget, db, redis, spans, forced, early, disturbed>>
      /\ main = "return" /\ main' = "exited" /\ req' = [q \in Requests |-> Idle]
  BY DEF Exit, End
<1>2. \A q \in Requests : req'[q].pc = "idle"
  BY <1>1, IdleFacts
<1>3. TypeOK' /\ Flushing'
  BY <1>1, <1>2 DEF ServerInv, TypeOK, Flushing, Loaded, Load
<1> QED
  BY <1>1, <1>3, EndMoves

LEMMA ListenFailsStep ==
    ASSUME ServerInv, ListenFails
    PROVE  ServerInv'
  BY FatalMoves DEF ListenFails, Fatal

LEMMA ExportStep ==
    ASSUME ServerInv, Export
    PROVE  ServerInv'
<1>1. /\ UNCHANGED <<settings, main, listener, budget, db, redis, forced, early, req, disturbed>>
      /\ spans' = "none" /\ main \notin {"exited", "fatal"}
  BY DEF Export, mainVars, Flushed, Alive
<1>2. TypeOK'
  BY <1>1 DEF ServerInv, TypeOK, Loaded, Load
<1>3. Stages' /\ Flushing'
  BY <1>1 DEF ServerInv, Stages, Flushing, Enabled
<1>4. disturbed' \in BOOLEAN /\ (disturbed => disturbed')
  BY <1>1, DisturbedType
<1>5. /\ main' = "shutdown" /\ ~early' => \A q \in Requests : InTime(req[q], budget')
      /\ main' \in Closing /\ ~forced' /\ ~early' => \A q \in Requests : ~Running(req[q])
  BY <1>1 DEF ServerInv, Stopping
<1> QED
  BY <1>1, <1>2, <1>3, <1>4, <1>5, MainMoves
\* A waiting request after a tick has waited one and may wait one less.
LEMMA AgedFacts ==
    ASSUME ServerInv, NEW q \in Requests, Running(req[q]) => Waits(req[q]), NEW r, r = Aged(req[q])
    PROVE  /\ Shape(r) /\ Explained(r, TRUE) /\ r.pc = req[q].pc
           /\ Running(req[q]) => r.route = req[q].route /\ Remaining(r) = Remaining(req[q]) - 1
<1> DEFINE k == req[q]
<1>1. Shape(k) /\ Explained(k, disturbed)
  BY DEF ServerInv
<1>2. k.pc \in {"idle", "done", "query", "redis", "probe"}
  BY <1>1 DEF Shape, Running, Waits
<1>3. CASE k.pc \in {"idle", "done"}
  <2>1. r = k
    BY <1>3 DEF Aged
  <2>2. Explained(k, TRUE)
    BY <1>1, <1>3 DEF Explained, Cause
  <2>3. ~Running(k)
    BY <1>3 DEF Running
  <2> QED
    BY <1>1, <2>1, <2>2, <2>3
<1>4. CASE k.pc = "query"
  <2>1. k \in Statement /\ k.n <= Len(Calls[k.route]) /\ k.ctx \in Context
    BY <1>1, <1>4 DEF Shape, Statement
  <2>2. k.ctx.left > 0 /\ k.ctx.set = TRUE
    <3>1. k.ctx.set = TRUE
      BY <2>1 DEF Context
    <3> QED
      BY <1>4, <3>1 DEF Waits, Running
  <2> DEFINE c == [k.ctx EXCEPT !.left = k.ctx.left - 1]
             x == k.ctx
  <2>3. x \in Context /\ x.left \in Nat /\ x.left <= QueryTimeout /\ x.left > 0
    BY <2>1, <2>2, ContextFacts
  <2>4. r = [k EXCEPT !.ctx = c]
    BY <1>4, <2>2 DEF Aged
  <2>5. c = [x EXCEPT !.left = x.left - 1]
    OBVIOUS
  <2> HIDE DEF c
  <2>6. c \in Context /\ c.left = x.left - 1
    <3> HIDE DEF x
    <3>1. x.left - 1 \in 0 .. QueryTimeout
      BY <2>3, Timeouts
    <3> QED
      BY <2>3, <2>5, <3>1 DEF Context
  <2> HIDE DEF k
  <2>7. r \in Statement /\ r.ctx = c /\ r.n = k.n /\ r.route = k.route /\ r.pc = k.pc
    BY <2>1, <2>4, <2>6 DEF Statement
  <2>8. Shape(r) /\ Explained(r, TRUE)
    BY <1>4, <2>1, <2>7 DEF Shape, Explained
  <2>9. Remaining(r) = Remaining(k) - 1
    <3>1. Remaining(k) = x.left + Owed(k.route, k.n) /\ Remaining(r) = c.left + Owed(k.route, k.n)
      BY <1>4, <2>7 DEF Remaining
    <3>2. Owed(k.route, k.n) \in Nat
      BY OwedNat
    <3> HIDE DEF x
    <3> QED
      BY <2>3, <2>6, <3>1, <3>2
  <2> QED
    BY <2>7, <2>8, <2>9 DEF k
<1>5. CASE k.pc = "redis"
  <2>1. k \in Asking /\ (k.who = "cache" => k.route = "login" /\ k.n \in {2, 3})
    BY <1>1, <1>5 DEF Shape
  <2>2. k.left \in 0 .. RedisTimeout /\ k.left > 0 /\ k.who \in {"limiter", "auth", "cache"}
    BY <1>5, <2>1 DEF Asking, Waits, Running
  <2>3. r = [k EXCEPT !.left = k.left - 1]
    BY <1>5 DEF Aged
  <2> HIDE DEF k
  <2>4. k.left - 1 \in 0 .. RedisTimeout
    BY <2>2, Timeouts
  <2>5. /\ r \in Asking /\ r.left = k.left - 1 /\ r.pc = k.pc /\ r.who = k.who /\ r.n = k.n
        /\ r.route = k.route
    BY <2>1, <2>3, <2>4 DEF Asking
  <2>6. Shape(r) /\ Explained(r, TRUE)
    BY <1>5, <2>1, <2>5 DEF Shape, Explained
  <2>7. Remaining(r) = Remaining(k) - 1
    <3>1. /\ k.who = "limiter" => /\ Remaining(k) = k.left + AuthLimit(k.route) + HandlerLimit(k.route)
                                  /\ Remaining(r) = r.left + AuthLimit(k.route) + HandlerLimit(k.route)
          /\ k.who = "auth" => /\ Remaining(k) = k.left + HandlerLimit(k.route)
                               /\ Remaining(r) = r.left + HandlerLimit(k.route)
          /\ k.who = "cache" => /\ Remaining(k) = k.left + Owed(k.route, k.n)
                                /\ Remaining(r) = r.left + Owed(k.route, k.n)
      BY <1>5, <2>5 DEF Remaining
    <3>2. AuthLimit(k.route) \in Nat /\ HandlerLimit(k.route) \in Nat /\ Owed(k.route, k.n) \in Nat
      BY RouteLimits, OwedNat
    <3>3. k.left \in Nat
      BY <2>2
    <3> QED
      BY <2>2, <2>5, <3>1, <3>2, <3>3
  <2> QED
    BY <2>5, <2>6, <2>7 DEF k
<1>6. CASE k.pc = "probe"
  <2>1. /\ k \in Probe /\ k.left <= ProbeLimit(k.probe)
        /\ k.probe \in {"database"} \cup Extras /\ k.rest \subseteq Extras
    BY <1>1, <1>6 DEF Shape
  <2>2. k.left \in Nat /\ k.left > 0 /\ ProbeLimit(k.probe) \in Nat
    BY <1>6, <2>1, LimitFacts DEF Probe, Waits, Running
  <2>3. r = [k EXCEPT !.left = k.left - 1]
    BY <1>6 DEF Aged
  <2> HIDE DEF k
  <2>4. /\ r \in Probe /\ r.left = k.left - 1 /\ r.pc = k.pc /\ r.probe = k.probe /\ r.rest = k.rest
        /\ r.route = k.route
    BY <2>1, <2>2, <2>3 DEF Probe
  <2>5. r.left <= ProbeLimit(r.probe)
    BY <2>1, <2>2, <2>4
  <2>6. Shape(r) /\ Explained(r, TRUE)
    BY <1>6, <2>1, <2>4, <2>5 DEF Shape, Explained, Cause
  <2>7. Remaining(r) = Remaining(k) - 1
    <3>1. Remaining(k) = k.left + ProbesOwed(k.rest) /\ Remaining(r) = r.left + ProbesOwed(k.rest)
      BY <1>6, <2>4 DEF Remaining
    <3>2. ProbesOwed(k.rest) \in Nat
      BY <2>1, ProbesOwedFacts DEF Probe
    <3> QED
      BY <2>2, <2>4, <3>1, <3>2
  <2> QED
    BY <2>4, <2>6, <2>7 DEF k
<1> QED
  BY <1>2, <1>3, <1>4, <1>5, <1>6

LEMMA TickStep ==
    ASSUME ServerInv, Tick
    PROVE  ServerInv'
<1>1. /\ UNCHANGED <<settings, main, listener, db, redis, spans, forced, early>>
      /\ disturbed' = TRUE /\ main \in {"serve", "shutdown", "flush"}
      /\ req' = [q \in Requests |-> Aged(req[q])]
      /\ budget' = IF main = "serve" THEN budget ELSE budget - 1
  BY DEF Tick
<1>2. ASSUME NEW q \in Requests
      PROVE  /\ Shape(req'[q]) /\ Explained(req'[q], TRUE) /\ req'[q].pc = req[q].pc
             /\ InTime(req'[q], Budget)
             /\ \A b \in Nat : InTime(req[q], b) => InTime(req'[q], b - 1)
  <2>1. Running(req[q]) => Waits(req[q])
    BY RunningBusy DEF Tick, AllWait
  <2>2. req'[q] = Aged(req[q])
    BY <1>1
  <2> DEFINE r == Aged(req[q])
             now == Remaining(req[q])
             limit == RequestLimit(req[q].route)
  <2>3. /\ Shape(r) /\ Explained(r, TRUE) /\ r.pc = req[q].pc
        /\ Running(req[q]) => r.route = req[q].route /\ Remaining(r) = now - 1
    BY <2>1, AgedFacts
  <2> HIDE DEF r
  <2>4. ASSUME ~Running(req[q])
        PROVE  \A b : InTime(r, b)
    BY <2>3, <2>4 DEF InTime, Running
  <2>5. ASSUME Running(req[q]), NEW b \in Nat, InTime(req[q], b)
        PROVE  InTime(r, b) /\ InTime(r, b - 1)
    <3>1. Budget + now <= b + limit /\ r.route = req[q].route /\ Remaining(r) = now - 1
      BY <2>3, <2>5 DEF InTime
    <3>2. now \in Nat /\ limit \in Nat /\ Budget \in Nat
      BY <2>5, Timeouts, RouteLimits, RemainingNat DEF ServerInv
    <3> HIDE DEF now, limit
    <3>3. Budget + (now - 1) <= b + limit /\ Budget + (now - 1) <= (b - 1) + limit
      BY <3>1, <3>2
    <3> QED
      BY <3>1, <3>3 DEF InTime, limit
  <2>6. InTime(req[q], Budget) /\ Budget \in Nat
    BY Timeouts DEF ServerInv
  <2> QED
    BY <2>2, <2>3, <2>4, <2>5, <2>6 DEF r
<1>3. \A q \in Requests : Shape(req[q])' /\ Explained(req[q], disturbed)' /\ InTime(req[q], Budget)'
  BY <1>1, <1>2, ShapePrime, ExplainedPrime, BoundedPrime
<1>4. budget \in 0 .. Budget /\ budget' \in 0 .. Budget
  <2>1. budget \in 0 .. Budget /\ Budget \in Nat
    BY Timeouts DEF ServerInv, TypeOK
  <2>2. main # "serve" => budget > 0
    BY <1>1 DEF Tick, Timely
  <2> QED
    BY <1>1, <2>1, <2>2
<1>5. TypeOK'
  <2>1. {forced', early', disturbed'} \subseteq BOOLEAN
    BY <1>1 DEF ServerInv, TypeOK
  <2>2. \A q \in Requests :
           req'[q].pc \in {"idle", "limit", "stack", "handle", "query", "redis", "probe", "done"}
    BY <1>2 DEF Shape
  <2> QED
    BY <1>1, <1>4, <2>1, <2>2 DEF ServerInv, TypeOK, Loaded, Load
<1>6. Stages' /\ Flushing'
  BY <1>1 DEF ServerInv, Stages, Flushing, Boot, Enabled
<1>7. Stopping'
  <2>1. ASSUME main = "shutdown", ~early, NEW q \in Requests
        PROVE  InTime(req[q], budget)'
    <3>1. budget \in Nat /\ budget' = budget - 1 /\ InTime(req[q], budget)
      BY <1>1, <1>4, <2>1, Timeouts DEF ServerInv, Stopping
    <3>2. InTime(req'[q], budget')
      BY <1>2, <3>1
    <3> QED
      BY <1>1, <3>2, InTimePrime
  <2> QED
    BY <1>1, <1>2, <2>1 DEF ServerInv, Stopping, Running
<1> QED
  BY <1>1, <1>3, <1>5, <1>6, <1>7 DEF ServerInv

-----------------------------------------------------------------------------
(* The theorems. *)

LEMMA ServerNext ==
    ASSUME ServerInv, [Next]_vars
    PROVE  ServerInv'
<1>1. CASE UNCHANGED vars
  <2>1. UNCHANGED <<settings, main, listener, budget, db, redis, spans, req, forced, early, disturbed>>
    BY <1>1 DEF vars
  <2>2. TypeOK'
    BY <2>1 DEF ServerInv, TypeOK, Loaded, Load
  <2>3. Stages' /\ Flushing'
    BY <2>1 DEF ServerInv, Stages, Flushing, Enabled
  <2>4. \A q \in Requests : Shape(req[q])' /\ Explained(req[q], disturbed)' /\ InTime(req[q], Budget)'
    BY <2>1, ShapePrime, ExplainedPrime, BoundedPrime DEF ServerInv
  <2>5. ASSUME main = "shutdown", ~early, NEW q \in Requests
        PROVE  InTime(req[q], budget)'
    BY <2>1, <2>5, InTimePrime DEF ServerInv, Stopping
  <2>6. Stopping'
    BY <2>1, <2>5 DEF ServerInv, Stopping, Running
  <2> QED
    BY <2>1, <2>2, <2>3, <2>4, <2>6 DEF ServerInv
<1>2. CASE Main
  BY <1>2, BootStep, ServeStep, HttpStoppedStep, FlushStep, CloseStep, ExitStep DEF Main
<1>3. CASE Listen \/ ListenFails \/ Signal \/ FlushAnswered \/ Export \/ Tick
  BY <1>3, ServeStep, ListenFailsStep, SignalStep, FlushStep, ExportStep, TickStep
<1>4. ASSUME NEW q \in Requests, Step(q)
      PROVE  ServerInv'
  BY <1>4, LimiterStep, MiddlewareStep, AnswerStep, QueryStep, CheckStep, QueryEndsStep, RedisStep,
     ProbeExpiresStep DEF Step
<1>5. ASSUME NEW q \in Requests,
             \/ QueryOk(q) \/ QueryFails(q) \/ RedisOk(q) \/ RedisFails(q) \/ ProbeOk(q) \/ ProbeFails(q)
      PROVE  ServerInv'
  BY <1>5, QueryOkStep, QueryEndsStep, RedisStep, ProbeAnsweredStep
<1>6. ASSUME NEW q \in Requests, NEW route \in Routes, Accept(q, route)
      PROVE  ServerInv'
  BY <1>6, AcceptStep
<1> QED
  BY <1>1, <1>2, <1>3, <1>4, <1>5, <1>6 DEF Next

LEMMA ServerInvariant == Spec => []ServerInv
  BY ServerInit, ServerNext, PTL DEF Spec

\* Types of the process's state.
THEOREM ServerTypeCorrect == Spec => []TypeOK
<1>1. ServerInv => TypeOK  BY DEF ServerInv
<1> QED  BY <1>1, ServerInvariant, PTL

\* For any number of requests in flight at the signal: unless the 30 s ran out or
\* the signal came before the socket was open, main() closes the pools behind the
\* last handler, and exports the spans before it returns.
THEOREM ShutdownsAreOrderly == Spec => []ShutdownIsOrderly
<1>1. ASSUME ServerInv PROVE ShutdownIsOrderly
  <2> SUFFICES ASSUME ~forced, ~early
               PROVE  /\ Alive /\ (\E q \in Requests : Busy(q))
                           => db = "open" /\ (redis = "open" \/ ~Enabled(settings.redisURL))
                      /\ main = "exited" /\ ~disturbed => spans # "waiting"
    BY DEF ShutdownIsOrderly
  <2>1. main = "exited" /\ ~disturbed => spans # "waiting"
    BY <1>1 DEF ServerInv, Flushing
  <2>2. ASSUME Alive, NEW q \in Requests, Busy(q)
        PROVE  db = "open" /\ (redis = "open" \/ ~Enabled(settings.redisURL))
    <3>1. Running(req[q]) /\ req[q].pc # "idle"
      BY <2>2, RunningBusy DEF Running
    <3>2. main \notin Boot \cup Closing \cup {"exited", "fatal"}
      BY <1>1, <2>2, <3>1 DEF ServerInv, Stages, Stopping, Alive
    <3>3. main \in {"serve", "shutdown"}
      BY <1>1, <3>2 DEF ServerInv, TypeOK, Boot, Closing
    <3> QED
      BY <1>1, <3>3 DEF ServerInv, Stages
  <2> QED
    BY <2>1, <2>2
<1> QED  BY <1>1, ServerInvariant, PTL

\* A 503 from /health always has a cause: a dependency that failed or was late, a
\* closed pool, or a Redis probe without any time because HEALTH_PROBE_TIMEOUT
\* cannot be parsed.
THEOREM DegradedIsExplained == Spec => []DegradedHasACause
<1>1. ServerInv => DegradedHasACause  BY DEF ServerInv, Explained, Cause, DegradedHasACause
<1> QED  BY <1>1, ServerInvariant, PTL

\* For any timeouts, settings and number of requests: the shutdown's 30 s are used
\* up only while a request runs whose own calls have limits that add up to them.
THEOREM OnlyLongOnesForce == Spec => OnlyLongRequestsForce
<1> DEFINE Blamed ==
        forced' /\ ~forced => \E q \in Requests : Busy(q) /\ RequestLimit(req[q].route) >= Budget
<1>1. ASSUME ServerInv, [Next]_vars
      PROVE  [Blamed]_vars
  <2> SUFFICES ASSUME forced', ~forced
               PROVE  \E q \in Requests : Busy(q) /\ RequestLimit(req[q].route) >= Budget
    OBVIOUS
  <2>1. HttpStopped
    BY <1>1 DEF Next, vars, Main, Step, LoadConfig, NewProvider, NewConnection, Migrate, Serve, FlushReturns,
         CloseRedis, CloseDB, Exit, Listen, ListenFails, Signal, FlushAnswered, Export, Tick, bootVars,
         mainVars, Limiter, Middleware, Docs, Panic, Refuse, Query, Check, QueryExpires, ProbeExpires, QueryOk,
         QueryFails, RedisOk, RedisFails, RedisExpires, ProbeOk, ProbeFails, Accept
  <2>2. PICK q \in Requests : budget = 0 /\ ~early /\ main = "shutdown" /\ Busy(q)
    BY <2>1 DEF HttpStopped
  <2>3. InTime(req[q], 0) /\ Shape(req[q]) /\ Running(req[q])
    BY <1>1, <2>2, RunningBusy DEF ServerInv, Stopping
  <2>4. Budget + Remaining(req[q]) <= 0 + RequestLimit(req[q].route)
    BY <2>3 DEF InTime
  <2>5. Remaining(req[q]) \in Nat /\ RequestLimit(req[q].route) \in Nat /\ Budget \in Nat
    BY <2>3, RemainingNat, RouteLimits, Timeouts
  <2>6. RequestLimit(req[q].route) >= Budget
    BY <2>4, <2>5
  <2> QED
    BY <2>2, <2>6
<1> QED
  BY <1>1, ServerInvariant, PTL DEF Spec, OnlyLongRequestsForce
=============================================================================
