----------------------------- MODULE RateLimiter -----------------------------
(***************************************************************************)
(* The request quota: pkg/ratelimit (memory.go, redis.go), the middleware  *)
(* in front of every handler (middleware/ratelimit.go) and the choice of   *)
(* the backend in cmd/api/main.go.                                         *)
(*                                                                         *)
(* A store holds one fixed window per client key.  The memory backend has  *)
(* a store in every replica, guarded by a mutex; its clock is read before  *)
(* the mutex is taken, so a request that waited brings an old time.  The   *)
(* Redis backend has one store for all replicas and Redis's own clock.     *)
(* Time is relative: a window carries the ticks left until resetAt, a      *)
(* request the ticks since it read the clock.                              *)
(***************************************************************************)
EXTENDS Integers, FiniteSets

CONSTANTS
    Replicas,          \* API processes
    Addresses,         \* client addresses
    Requests,          \* request goroutines, each used again and again
    MaxSettings,       \* values RATE_LIMIT_MAX may have
    DefaultMax,        \* what a non-positive maximum falls back to
    Window,            \* the window, in ticks
    WindowsThreshold,  \* entries at which the memory store is swept
    MaxLag,            \* bound: longest wait for the mutex, in ticks
    MaxFaults          \* bound: failing Redis calls

ASSUME LimiterAssumption ==
    /\ DefaultMax \in Nat \ {0} /\ MaxSettings \subseteq Int
    /\ MaxLag \in Nat /\ Window \in Nat /\ Window > MaxLag
    /\ WindowsThreshold \in Nat /\ MaxFaults \in Nat

VARIABLES
    shared,    \* the Redis backend is in use
    max,       \* the limiter's maximum
    windows,   \* the window of a key in a store, where there is one
    request,   \* what each goroutine is doing
    granted,   \* history: how many requests a store counted and let through
               \* within the last a + 1 ticks, for each age a
    faults

limiterVars == <<shared, max, windows, request, granted, faults>>

Redis == "redis"
Stores == Replicas \cup {Redis}
NoWindow == [count |-> 0, left |-> -MaxLag]
Ages == 0 .. Window + MaxLag - 1
Answered(answer) == [pc |-> answer]

\* NewMemory and NewRedis: a non-positive maximum falls back to the default.
Positive(n) == IF n <= 0 THEN DefaultMax ELSE n

\* RATE_LIMIT_BACKEND=redis without REDIS_URL degrades to memory.
UseRedis(backend, redisEnabled) == backend = Redis /\ redisEnabled

StoreOf(r) == IF shared THEN Redis ELSE request[r].replica

-----------------------------------------------------------------------------
\* The middleware calls Allow; the memory limiter reads its clock first.
Arrive(r, p, k) ==
    /\ request[r].pc # "waiting"
    /\ request' = [request EXCEPT ![r] = [pc |-> "waiting", replica |-> p, key |-> k, lag |-> 0]]
    /\ UNCHANGED <<shared, max, windows, granted, faults>>

\* Mutant: a window is taken as ended one tick early.
WindowOverEarly(w, lag) == w.left + lag <= 1

\* !now.Before(w.resetAt), for a clock read lag ticks ago.
WindowOver(w, lag) == w.left + lag <= 0

\* sweepLocked: the entries are dropped by the caller's clock.
SweptWindows(ws, lag) == [k \in Addresses |-> IF WindowOver(ws[k], lag) THEN NoWindow ELSE ws[k]]

\* w.count++; what exceeds the maximum by more than one is not told apart.
More(n) == IF n > max THEN n ELSE n + 1

\* Mutant: the counter is kept when the window is renewed.
CountedOn(w, lag) ==
    [count |-> More(w.count), left |-> IF WindowOver(w, lag) THEN Window - lag ELSE w.left]

\* The window after this call counted itself.
Counted(w, lag) ==
    IF w = NoWindow \/ WindowOver(w, lag) THEN [count |-> 1, left |-> Window - lag]
    ELSE [w EXCEPT !.count = More(@)]

\* The history: one more request at every age.
Admit(s, k) == granted' = [granted EXCEPT ![s][k] = [a \in Ages |-> @[a] + 1]]

\* The answer of Allow and what the middleware does with it.
Answer(r, s, w) ==
    IF w.count > max
    THEN request' = [request EXCEPT ![r] = Answered("refused")] /\ UNCHANGED granted
    ELSE /\ request' = [request EXCEPT ![r] = Answered("admitted")]
         /\ Admit(s, request[r].key)

\* MemoryLimiter.Allow from the lock to the unlock.
MemoryAllow(r) ==
    /\ request[r].pc = "waiting" /\ ~shared
    /\ LET s == StoreOf(r)
           k == request[r].key
           full == Cardinality({x \in Addresses : windows[s][x] # NoWindow}) >= WindowsThreshold
           ws == IF full THEN SweptWindows(windows[s], request[r].lag) ELSE windows[s]
           w == Counted(ws[k], request[r].lag)
       IN  /\ windows' = [windows EXCEPT ![s] = [ws EXCEPT ![k] = w]]
           /\ Answer(r, s, w)
    /\ UNCHANGED <<shared, max, faults>>

\* The script: INCR, and PEXPIRE for the first hit.
Incr(w) == IF w = NoWindow THEN [count |-> 1, left |-> Window] ELSE [w EXCEPT !.count = More(@)]

RedisAllow(r) ==
    /\ request[r].pc = "waiting" /\ shared
    /\ LET w == Incr(windows[Redis][request[r].key])
       IN  /\ windows' = [windows EXCEPT ![Redis][request[r].key] = w]
           /\ Answer(r, Redis, w)
    /\ UNCHANGED <<shared, max, faults>>

\* Eval fails, before or after the script ran: the middleware fails open.
RedisFails(r) ==
    /\ request[r].pc = "waiting" /\ shared /\ faults < MaxFaults
    /\ faults' = faults + 1
    /\ \/ UNCHANGED <<windows, granted>>
       \/ /\ windows' = [windows EXCEPT ![Redis][request[r].key] = Incr(@)]
          /\ Admit(Redis, request[r].key)
    /\ request' = [request EXCEPT ![r] = Answered("open")]
    /\ UNCHANGED <<shared, max>>

\* Time passes; Redis drops what has expired.
Elapse ==
    /\ \A r \in Requests : request[r].pc = "waiting" => request[r].lag < MaxLag
    /\ windows' = [s \in Stores |-> [k \in Addresses |->
          LET w == windows[s][k]
          IN  IF s = Redis /\ w.left <= 1 THEN NoWindow
              ELSE [w EXCEPT !.left = IF @ > -MaxLag THEN @ - 1 ELSE @]]]
    /\ request' = [r \in Requests |->
          IF request[r].pc = "waiting" THEN [request[r] EXCEPT !.lag = @ + 1] ELSE request[r]]
    /\ granted' = [s \in Stores |-> [k \in Addresses |->
          [a \in Ages |-> IF a = 0 THEN 0 ELSE granted[s][k][a - 1]]]]
    /\ UNCHANGED <<shared, max, faults>>

LimiterInit ==
    /\ \E backend \in {Redis, "memory"}, redisEnabled \in BOOLEAN, setting \in MaxSettings :
          /\ shared = UseRedis(backend, redisEnabled)
          /\ max = Positive(setting)
    /\ windows = [s \in Stores |-> [k \in Addresses |-> NoWindow]]
    /\ request = [r \in Requests |-> Answered("idle")]
    /\ granted = [s \in Stores |-> [k \in Addresses |-> [a \in Ages |-> 0]]]
    /\ faults = 0

LimiterNext ==
    \/ Elapse
    \/ \E r \in Requests :
          \/ MemoryAllow(r) \/ RedisAllow(r) \/ RedisFails(r)
          \/ \E p \in Replicas, k \in Addresses : Arrive(r, p, k)

LimiterSpec == LimiterInit /\ [][LimiterNext]_limiterVars

-----------------------------------------------------------------------------
\* Every variable has its type; a memory window is never longer than Window.
LimiterTypeOK ==
    /\ shared \in BOOLEAN /\ max \in Nat \ {0} /\ faults \in 0 .. MaxFaults
    /\ windows \in [Stores -> [Addresses -> [count : Nat, left : -MaxLag .. Window]]]
    /\ request \in [Requests ->
          [pc : {"idle", "admitted", "refused", "open"}]
             \cup [pc : {"waiting"}, replica : Replicas, key : Addresses, lag : 0 .. MaxLag]]
    /\ granted \in [Stores -> [Addresses -> [Ages -> Nat]]]

\* A fixed window lets at most two quotas through in any stretch shorter than
\* itself (the end of one window and the start of the next), whatever clocks
\* the waiting requests bring to Allow and whoever swept the store in between:
\* a late clock costs the bound MaxLag.  Beyond that pass only requests for
\* which Redis failed.
QuotaHolds ==
    \A s \in Stores, k \in Addresses : granted[s][k][Window - MaxLag - 1] <= 2 * max + faults

\* Allow refuses a client only after it counted a whole quota of requests let
\* through within the window it counts in, which a waiting caller sees MaxLag late.
RefusedOnlyWhenSpent ==
    [][\A r \in Requests :
         (request[r].pc = "waiting" /\ request'[r].pc = "refused")
            => granted[StoreOf(r)][request[r].key][Window + MaxLag - 1] >= max]_limiterVars
=============================================================================
