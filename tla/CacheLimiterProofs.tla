------------------------- MODULE CacheLimiterProofs -------------------------
(***************************************************************************)
(* The two stores whose entries expire while goroutines use them.          *)
(*                                                                         *)
(* The rate limiter, for any maximum, window, number of replicas, clients  *)
(* and waiting requests: what a client is let through is bounded, and a    *)
(* refusal is due.                                                         *)
(*                                                                         *)
(* The in-memory cache, for any number of goroutines, keys and values, and *)
(* any threshold: a hit is justified by a moment of its own call, and the  *)
(* sweep keeps expired entries out of a map that outgrows the threshold.   *)
(* The two specifications share no variable and no constant.               *)
(***************************************************************************)
EXTENDS RateLimiter, MemoryCache, FiniteSetTheorems, TLAPS

\* The stretch of time the quota is about.
Horizon == Window - MaxLag

\* What a window has let through.
Used(w) == IF w.count < max THEN w.count ELSE max

WindowType == [count : Nat, left : -MaxLag .. Window]
History == [Ages -> Nat]

\* A window w and the history g of its key.  Where there is no window, the last
\* one is over for so long that its quota alone counts; a window that has run for
\* an age is alone responsible for what is younger; with the one before it, it is
\* responsible for a horizon; and what it has let through is in the history.
Accounted(w, g, f) ==
    /\ w.count = 0 => w = NoWindow
    /\ \A a \in Ages :
          /\ w.count = 0 /\ a < Horizon => g[a] <= max + f
          /\ w.count > 0 /\ a < Horizon - w.left => g[a] <= Used(w) + f
          /\ w.count > 0 /\ a < Horizon => g[a] <= Used(w) + max + f
          /\ w.count > 0 /\ a >= Window - w.left => g[a] >= Used(w)

LimiterInv ==
    /\ LimiterTypeOK
    /\ \A s \in Stores, k \in Addresses : Accounted(windows[s][k], granted[s][k], faults)

-----------------------------------------------------------------------------
(* One window and its history. *)

\* The bounds: a horizon is at least one tick, and no window is empty.
LEMMA LimiterNumbers ==
  /\ Window \in Nat /\ MaxLag \in Nat /\ Window > MaxLag /\ Horizon \in Nat /\ Horizon > 0
  /\ MaxFaults \in Nat /\ DefaultMax \in Nat \ {0}
  /\ Ages = 0 .. Window + MaxLag - 1 /\ Ages \subseteq Nat
  /\ NoWindow \in WindowType /\ NoWindow.count = 0 /\ NoWindow.left = -MaxLag
  BY LimiterAssumption DEF Horizon, Ages, NoWindow, WindowType

\* A window that is over for some caller can be forgotten.
LEMMA OverCanBeForgotten ==
  ASSUME NEW w \in WindowType, NEW g \in History, NEW f \in Nat, NEW lag \in 0 .. MaxLag,
         max \in Nat \ {0}, Accounted(w, g, f), w = NoWindow \/ WindowOver(w, lag)
  PROVE  Accounted(NoWindow, g, f)
<1>1. ASSUME NEW a \in Ages, a < Horizon PROVE g[a] <= max + f
  <2>1. CASE w.count = 0  BY <1>1, <2>1 DEF Accounted
  <2>2. CASE w.count > 0
    <3>1. w # NoWindow  BY <2>2, LimiterNumbers
    <3>2. w.left \in Int /\ lag \in Nat /\ w.left + lag <= 0
      BY <3>1, LimiterNumbers DEF WindowOver, WindowType
    <3>3. a < Horizon - w.left
      BY <1>1, <3>2, LimiterNumbers
    <3>4. g[a] <= Used(w) + f  BY <2>2, <3>3 DEF Accounted
    <3>5. Used(w) \in Nat /\ Used(w) <= max  BY DEF Used, WindowType
    <3>6. g[a] \in Nat  BY DEF History
    <3> QED  BY <3>4, <3>5, <3>6
  <2> QED  BY <2>1, <2>2 DEF WindowType
<1> QED  BY <1>1, LimiterNumbers DEF Accounted

\* A request opens a window.
LEMMA OpenedIsAccounted ==
  ASSUME NEW g \in History, NEW f \in Nat, NEW left \in Horizon .. Window, max \in Nat \ {0},
         Accounted(NoWindow, g, f)
  PROVE  Accounted([count |-> 1, left |-> left], [a \in Ages |-> g[a] + 1], f)
<1> DEFINE w == [count |-> 1, left |-> left]
           h == [a \in Ages |-> g[a] + 1]
<1>1. w.count = 1 /\ w.left = left /\ Used(w) = 1  BY DEF Used
<1>2. \A a \in Ages : h[a] = g[a] + 1 /\ g[a] \in Nat /\ a \in Nat
  BY LimiterNumbers DEF History
<1>3. \A a \in Ages : a < Horizon => g[a] <= max + f
  BY LimiterNumbers DEF Accounted
<1> HIDE DEF w, h
<1>4. ASSUME NEW a \in Ages
      PROVE  /\ ~(a < Horizon - w.left)
             /\ a < Horizon => h[a] <= Used(w) + max + f
             /\ h[a] >= Used(w)
  <2>1. a \in Nat /\ left \in Int /\ left >= Horizon /\ Horizon \in Nat
    BY LimiterNumbers
  <2>2. a < Horizon => g[a] <= max + f  BY <1>3
  <2>3. h[a] = g[a] + 1 /\ g[a] \in Nat  BY <1>2
  <2> QED  BY <1>1, <2>1, <2>2, <2>3
<1> QED  BY <1>1, <1>4 DEF Accounted, w, h

\* A request counts itself in a running window and is let through, or refused.
LEMMA HitIsAccounted ==
  ASSUME NEW w \in WindowType, NEW g \in History, NEW f \in Nat, max \in Nat \ {0},
         Accounted(w, g, f), w # NoWindow,
         NEW x \in WindowType, x.count = More(w.count), x.left = w.left
  PROVE  /\ x.count <= max => Accounted(x, [a \in Ages |-> g[a] + 1], f)
         /\ x.count > max => Accounted(x, g, f)
<1> DEFINE h == [a \in Ages |-> g[a] + 1]
<1>1. w.count \in Nat /\ w.count > 0 /\ w.left \in Int  BY LimiterNumbers DEF Accounted, WindowType
<1>2. \A a \in Ages : h[a] = g[a] + 1 /\ g[a] \in Nat /\ a \in Nat
  BY LimiterNumbers DEF History
<1>3. x.count \in Nat /\ x.count > 0  BY <1>1 DEF More
<1>4. \A a \in Ages :
        /\ a < Horizon - w.left => g[a] <= Used(w) + f
        /\ a < Horizon => g[a] <= Used(w) + max + f
        /\ a >= Window - w.left => g[a] >= Used(w)
  BY <1>1 DEF Accounted
<1> HIDE DEF h
<1>5. CASE x.count <= max
  <2>1. Used(x) = Used(w) + 1 /\ Used(w) \in Nat  BY <1>1, <1>5 DEF More, Used
  <2>2. ASSUME NEW a \in Ages
        PROVE  /\ a < Horizon - x.left => h[a] <= Used(x) + f
               /\ a < Horizon => h[a] <= Used(x) + max + f
               /\ a >= Window - x.left => h[a] >= Used(x)
    BY <1>2, <1>4, <2>1
  <2> QED  BY <1>3, <1>5, <2>2 DEF Accounted, h
<1>6. CASE x.count > max
  <2>1. Used(x) = Used(w)  BY <1>1, <1>6 DEF More, Used
  <2> QED  BY <1>3, <1>4, <1>6, <2>1 DEF Accounted
<1> QED  BY <1>3, <1>5, <1>6

\* Time passes.
LEMMA AgedIsAccounted ==
  ASSUME NEW w \in WindowType, NEW g \in History, NEW f \in Nat, max \in Nat \ {0},
         Accounted(w, g, f),
         NEW x \in WindowType,
         \/ w.left <= 1 /\ x = NoWindow
         \/ /\ x.count = w.count
            /\ x.left = IF w.left > -MaxLag THEN w.left - 1 ELSE w.left
  PROVE  Accounted(x, [a \in Ages |-> IF a = 0 THEN 0 ELSE g[a - 1]], f)
<1> DEFINE h == [a \in Ages |-> IF a = 0 THEN 0 ELSE g[a - 1]]
<1>1. /\ w.count \in Nat /\ w.left \in Int /\ w.left <= Window /\ w.left >= -MaxLag
      /\ Used(w) \in Nat /\ Used(w) <= max
  BY LimiterNumbers DEF WindowType, Used
<1>2. \A a \in Ages : a # 0 => a - 1 \in Ages /\ h[a] = g[a - 1] /\ g[a - 1] \in Nat
  BY LimiterNumbers DEF History
<1>3. 0 \in Ages /\ h[0] = 0  BY LimiterNumbers
<1>4. \A a \in Ages :
        /\ w.count = 0 /\ a < Horizon => g[a] <= max + f
        /\ w.count > 0 /\ a < Horizon - w.left => g[a] <= Used(w) + f
        /\ w.count > 0 /\ a < Horizon => g[a] <= Used(w) + max + f
        /\ w.count > 0 /\ a >= Window - w.left => g[a] >= Used(w)
  BY DEF Accounted
<1> HIDE DEF h
<1>5. CASE w.left <= 1 /\ x = NoWindow
  <2>1. ASSUME NEW a \in Ages, a < Horizon PROVE h[a] <= max + f
    <3>1. CASE a = 0  BY <1>3, <3>1
    <3>2. CASE a # 0
      <4>1. a - 1 \in Ages /\ a - 1 < Horizon /\ a - 1 < Horizon - w.left
        BY <1>1, <1>2, <1>5, <2>1, <3>2, LimiterNumbers
      <4>2. g[a - 1] <= max + f
        BY <1>1, <1>2, <1>4, <3>2, <4>1
      <4> QED  BY <1>2, <3>2, <4>2
    <3> QED  BY <3>1, <3>2
  <2> QED  BY <1>5, <2>1, LimiterNumbers DEF Accounted, h
<1>6. CASE x.count = w.count /\ x.left = IF w.left > -MaxLag THEN w.left - 1 ELSE w.left
  <2>1. Used(x) = Used(w)  BY <1>6 DEF Used
  <2>2. w.count = 0 => x = NoWindow
    <3>1. w.count = 0 => w.left = -MaxLag  BY LimiterNumbers DEF Accounted
    <3> QED  BY <1>6, <3>1, LimiterNumbers DEF WindowType, NoWindow
  <2>3. ASSUME NEW a \in Ages
        PROVE  /\ w.count = 0 /\ a < Horizon => h[a] <= max + f
               /\ w.count > 0 /\ a < Horizon - x.left => h[a] <= Used(w) + f
               /\ w.count > 0 /\ a < Horizon => h[a] <= Used(w) + max + f
               /\ w.count > 0 /\ a >= Window - x.left => h[a] >= Used(w)
    <3>1. CASE a = 0
      <4>1. ~(a >= Window - x.left)  BY <1>1, <1>6, <3>1, LimiterNumbers
      <4> QED  BY <1>1, <1>3, <3>1, <4>1
    <3>2. CASE a # 0
      <4>1. a - 1 \in Ages /\ h[a] = g[a - 1]  BY <1>2, <3>2
      <4>n. /\ a \in Nat /\ a - 1 \in Nat /\ a <= Window + MaxLag - 1
            /\ Horizon \in Nat /\ Window \in Nat /\ MaxLag \in Nat
        BY <3>2, LimiterNumbers
      <4>x. \/ x.left = w.left - 1
            \/ x.left = w.left /\ w.left = -MaxLag
        BY <1>1, <1>6, <4>n
      <4>2. /\ a < Horizon => a - 1 < Horizon
            /\ a < Horizon - x.left => a - 1 < Horizon - w.left
            /\ a >= Window - x.left => a - 1 >= Window - w.left
        BY <1>1, <4>n, <4>x
      <4> QED  BY <1>4, <4>1, <4>2
    <3> QED  BY <3>1, <3>2
  <2> QED  BY <1>6, <2>1, <2>2, <2>3 DEF Accounted, h
<1> QED  BY <1>5, <1>6 DEF h

\* A failing call of Redis: the request passes whether it was counted or not.
LEMMA FaultIsAccounted ==
  ASSUME NEW w \in WindowType, NEW g \in History, NEW f \in Nat, max \in Nat \ {0},
         Accounted(w, g, f)
  PROVE  /\ Accounted(w, g, f + 1)
         /\ w # NoWindow => Accounted(w, [a \in Ages |-> g[a] + 1], f + 1)
<1> DEFINE h == [a \in Ages |-> g[a] + 1]
<1>1. \A a \in Ages : h[a] = g[a] + 1 /\ g[a] \in Nat  BY DEF History
<1>2. Used(w) \in Nat  BY DEF Used, WindowType
<1> HIDE DEF h
<1>3. Accounted(w, g, f + 1)  BY <1>1, <1>2 DEF Accounted
<1>4. w # NoWindow => Accounted(w, h, f + 1)  BY <1>1, <1>2 DEF Accounted
<1> QED  BY <1>3, <1>4 DEF h

-----------------------------------------------------------------------------
(* The steps. *)

\* What the types say of one request and of its store.
LEMMA LimiterTypes ==
  ASSUME LimiterInv
  PROVE  /\ max \in Nat \ {0} /\ faults \in Nat /\ shared \in BOOLEAN
         /\ windows \in [Stores -> [Addresses -> WindowType]]
         /\ granted \in [Stores -> [Addresses -> History]]
         /\ DOMAIN request = Requests
         /\ \A s \in Stores, k \in Addresses :
               /\ windows[s][k] \in WindowType /\ granted[s][k] \in History
               /\ Accounted(windows[s][k], granted[s][k], faults)
         /\ \A r \in Requests : request[r].pc = "waiting" =>
               /\ request[r].replica \in Replicas /\ request[r].key \in Addresses
               /\ request[r].lag \in 0 .. MaxLag
<1>1. /\ max \in Nat \ {0} /\ faults \in Nat /\ shared \in BOOLEAN
      /\ windows \in [Stores -> [Addresses -> WindowType]]
      /\ granted \in [Stores -> [Addresses -> History]] /\ DOMAIN request = Requests
  BY LimiterNumbers DEF LimiterInv, LimiterTypeOK, WindowType, History
<1>2. ASSUME NEW r \in Requests, request[r].pc = "waiting"
      PROVE  /\ request[r].replica \in Replicas /\ request[r].key \in Addresses
             /\ request[r].lag \in 0 .. MaxLag
  <2>1. \/ request[r] \in [pc : {"idle", "admitted", "refused", "open"}]
        \/ request[r] \in [pc : {"waiting"}, replica : Replicas, key : Addresses, lag : 0 .. MaxLag]
    BY DEF LimiterInv, LimiterTypeOK
  <2> QED  BY <1>2, <2>1
<1> QED  BY <1>1, <1>2 DEF LimiterInv

\* The invariant after a step, from what the step makes of each window.
LEMMA Reaccounted ==
  ASSUME LimiterTypeOK', UNCHANGED max,
         \A s \in Stores, k \in Addresses : Accounted(windows'[s][k], granted'[s][k], faults')
  PROVE  LimiterInv'
<1> SUFFICES ASSUME NEW s \in Stores, NEW k \in Addresses
             PROVE  Accounted(windows[s][k], granted[s][k], faults)'
  BY DEF LimiterInv
<1>1. Accounted(windows'[s][k], granted'[s][k], faults')  OBVIOUS
<1> QED  BY <1>1 DEF Accounted, Used

\* A store is left with the windows ws, but for key k, which gets x; the request
\* is let through or refused.
LEMMA AnswerPreserves ==
  ASSUME LimiterInv, NEW r \in Requests, request[r].pc = "waiting",
         NEW s \in Stores, NEW ws \in [Addresses -> WindowType], NEW x \in WindowType,
         \A k \in Addresses : Accounted(ws[k], granted[s][k], faults),
         x.count <= max => Accounted(x, [a \in Ages |-> granted[s][request[r].key][a] + 1], faults),
         x.count > max => Accounted(x, granted[s][request[r].key], faults),
         windows' = [windows EXCEPT ![s] = [ws EXCEPT ![request[r].key] = x]],
         Answer(r, s, x), UNCHANGED <<shared, max, faults>>
  PROVE  LimiterInv'
<1> DEFINE key == request[r].key
<1>1. key \in Addresses  BY LimiterTypes
<1>2. \A t \in Stores, k \in Addresses :
         windows'[t][k] = IF t = s THEN IF k = key THEN x ELSE ws[k] ELSE windows[t][k]
  BY <1>1, LimiterTypes
<1>w. windows' \in [Stores -> [Addresses -> WindowType]]  BY <1>1, LimiterTypes
<1>3. CASE x.count > max
  <2>1. granted' = granted /\ request' = [request EXCEPT ![r] = Answered("refused")]
    BY <1>3 DEF Answer
  <2>2. LimiterTypeOK'
    BY <1>w, <2>1, LimiterTypes DEF LimiterInv, LimiterTypeOK, WindowType, Answered
  <2>3. \A t \in Stores, k \in Addresses : Accounted(windows'[t][k], granted'[t][k], faults')
    BY <1>2, <1>3, <2>1, LimiterTypes
  <2> QED  BY <2>2, <2>3, Reaccounted
<1>4. CASE ~(x.count > max)
  <2> DEFINE h == [a \in Ages |-> granted[s][key][a] + 1]
  <2>1. /\ granted' = [granted EXCEPT ![s][key] = h]
        /\ request' = [request EXCEPT ![r] = Answered("admitted")]
    BY <1>4 DEF Answer, Admit
  <2>h. h \in History  BY <1>1, LimiterTypes DEF History
  <2>5. x.count <= max  BY <1>4, LimiterTypes DEF WindowType
  <2>6. Accounted(x, h, faults)  BY <2>5
  <2> HIDE DEF h
  <2>g. granted' \in [Stores -> [Addresses -> History]]  BY <1>1, <2>1, <2>h, LimiterTypes
  <2>2. LimiterTypeOK'
    BY <1>w, <2>g, <2>1, LimiterTypes DEF LimiterInv, LimiterTypeOK, WindowType, History, Answered
  <2>3. \A t \in Stores, k \in Addresses :
           granted'[t][k] = IF t = s /\ k = key THEN h ELSE granted[t][k]
    BY <1>1, <2>1, LimiterTypes
  <2> HIDE DEF key
  <2>4. \A t \in Stores, k \in Addresses : Accounted(windows'[t][k], granted'[t][k], faults')
    BY <1>2, <2>3, <2>6, LimiterTypes
  <2> QED  BY <2>2, <2>4, Reaccounted
<1> QED  BY <1>3, <1>4

\* Allow of the memory backend, with the sweep and the lag of the caller's clock.
LEMMA MemoryAllowPreserves ==
  ASSUME LimiterInv, NEW r \in Requests, MemoryAllow(r)
  PROVE  LimiterInv'
<1> DEFINE s == StoreOf(r)
           key == request[r].key
           lag == request[r].lag
           full == Cardinality({x \in Addresses : windows[s][x] # NoWindow}) >= WindowsThreshold
           ws == IF full THEN SweptWindows(windows[s], lag) ELSE windows[s]
           x == Counted(ws[key], lag)
<1>1. /\ request[r].pc = "waiting" /\ ~shared
      /\ windows' = [windows EXCEPT ![s] = [ws EXCEPT ![key] = x]]
      /\ Answer(r, s, x) /\ UNCHANGED <<shared, max, faults>>
  BY DEF MemoryAllow
<1>2. s \in Stores /\ key \in Addresses /\ lag \in 0 .. MaxLag
  BY <1>1, LimiterTypes DEF StoreOf, Stores
<1> HIDE DEF s, full, key, lag
<1>3. ws \in [Addresses -> WindowType]
  BY <1>2, LimiterTypes, LimiterNumbers DEF SweptWindows
<1>4. ASSUME NEW k \in Addresses PROVE Accounted(ws[k], granted[s][k], faults)
  <2>1. ws[k] = windows[s][k] \/ (WindowOver(windows[s][k], lag) /\ ws[k] = NoWindow)
    BY DEF SweptWindows
  <2>2. windows[s][k] \in WindowType /\ granted[s][k] \in History /\ faults \in Nat
        /\ max \in Nat \ {0} /\ Accounted(windows[s][k], granted[s][k], faults)
    BY <1>2, LimiterTypes
  <2> QED  BY <1>2, <2>1, <2>2, OverCanBeForgotten
<1> HIDE DEF ws
<1> DEFINE w == ws[key]
           g == granted[s][key]
<1>5. /\ w \in WindowType /\ g \in History /\ faults \in Nat /\ max \in Nat \ {0}
      /\ Accounted(w, g, faults)
  BY <1>2, <1>3, <1>4, LimiterTypes
<1>6. x = IF w = NoWindow \/ WindowOver(w, lag) THEN [count |-> 1, left |-> Window - lag]
          ELSE [w EXCEPT !.count = More(w.count)]
  BY DEF Counted
<1> HIDE DEF w, g
<1>7. /\ x \in WindowType
      /\ x.count <= max => Accounted(x, [a \in Ages |-> g[a] + 1], faults)
      /\ x.count > max => Accounted(x, g, faults)
  <2>1. CASE w = NoWindow \/ WindowOver(w, lag)
    <3>1. Accounted(NoWindow, g, faults)  BY <1>2, <1>5, <2>1, OverCanBeForgotten
    <3>2. Window - lag \in Horizon .. Window  BY <1>2, LimiterNumbers DEF Horizon
    <3>3. x = [count |-> 1, left |-> Window - lag]  BY <1>6, <2>1
    <3>4. x \in WindowType /\ x.count = 1
      BY <1>2, <3>3, LimiterNumbers DEF WindowType
    <3>5. Accounted(x, [a \in Ages |-> g[a] + 1], faults)
      BY <1>5, <3>1, <3>2, <3>3, OpenedIsAccounted
    <3> QED  BY <1>5, <3>4, <3>5
  <2>2. CASE ~(w = NoWindow \/ WindowOver(w, lag))
    <3>1. x = [w EXCEPT !.count = More(w.count)]  BY <1>6, <2>2
    <3>2. x \in WindowType /\ x.count = More(w.count) /\ x.left = w.left
      BY <1>5, <3>1 DEF WindowType, More
    <3> QED  BY <1>5, <2>2, <3>2, HitIsAccounted
  <2> QED  BY <2>1, <2>2
<1> QED  BY <1>1, <1>2, <1>3, <1>4, <1>7, AnswerPreserves DEF key, g

\* What the script makes of a window.
LEMMA IncrIsAccounted ==
  ASSUME NEW w \in WindowType, NEW g \in History, NEW f \in Nat, max \in Nat \ {0},
         Accounted(w, g, f)
  PROVE  /\ Incr(w) \in WindowType /\ Incr(w) # NoWindow
         /\ Incr(w).count <= max => Accounted(Incr(w), [a \in Ages |-> g[a] + 1], f)
         /\ Incr(w).count > max => Accounted(Incr(w), g, f)
<1>1. CASE w = NoWindow
  <2>1. Incr(w) = [count |-> 1, left |-> Window]  BY <1>1 DEF Incr
  <2>2. Window \in Horizon .. Window  BY LimiterNumbers DEF Horizon
  <2>3. Accounted([count |-> 1, left |-> Window], [a \in Ages |-> g[a] + 1], f)
    BY <1>1, <2>2, OpenedIsAccounted
  <2>4. [count |-> 1, left |-> Window] \in WindowType /\ [count |-> 1, left |-> Window].count = 1
    BY LimiterNumbers DEF WindowType
  <2>5. [count |-> 1, left |-> Window] # NoWindow  BY <2>4, LimiterNumbers
  <2> QED  BY <2>1, <2>3, <2>4, <2>5
<1>2. CASE w # NoWindow
  <2>1. Incr(w) = [w EXCEPT !.count = More(w.count)]  BY <1>2 DEF Incr
  <2>2. /\ Incr(w) \in WindowType /\ Incr(w).count = More(w.count) /\ Incr(w).left = w.left
        /\ Incr(w).count > 0
    BY <2>1 DEF WindowType, More
  <2>3. Incr(w) # NoWindow  BY <2>2, LimiterNumbers
  <2> HIDE DEF Incr
  <2> QED  BY <1>2, <2>2, <2>3, HitIsAccounted
<1> QED  BY <1>1, <1>2

\* Allow of the Redis backend: the script counts, and the window is Redis's.
LEMMA RedisAllowPreserves ==
  ASSUME LimiterInv, NEW r \in Requests, RedisAllow(r)
  PROVE  LimiterInv'
<1> DEFINE key == request[r].key
           w == windows[Redis][key]
           g == granted[Redis][key]
<1>1. /\ request[r].pc = "waiting"
      /\ windows' = [windows EXCEPT ![Redis][key] = Incr(w)]
      /\ Answer(r, Redis, Incr(w)) /\ UNCHANGED <<shared, max, faults>>
  BY DEF RedisAllow
<1>2. Redis \in Stores /\ key \in Addresses  BY <1>1, LimiterTypes DEF Stores
<1>3. /\ w \in WindowType /\ g \in History /\ faults \in Nat /\ max \in Nat \ {0}
      /\ Accounted(w, g, faults) /\ windows[Redis] \in [Addresses -> WindowType]
  BY <1>2, LimiterTypes
<1>4. windows' = [windows EXCEPT ![Redis] = [windows[Redis] EXCEPT ![key] = Incr(w)]]
  BY <1>1
<1>5. \A k \in Addresses : Accounted(windows[Redis][k], granted[Redis][k], faults)
  BY <1>2, LimiterTypes
<1>6. /\ Incr(w) \in WindowType
      /\ Incr(w).count <= max => Accounted(Incr(w), [a \in Ages |-> g[a] + 1], faults)
      /\ Incr(w).count > max => Accounted(Incr(w), g, faults)
  BY <1>3, IncrIsAccounted
<1> HIDE DEF w
<1> QED  BY <1>1, <1>2, <1>3, <1>4, <1>5, <1>6, AnswerPreserves

\* Redis does not answer: the middleware lets the request through.
LEMMA RedisFailsPreserves ==
  ASSUME LimiterInv, NEW r \in Requests, RedisFails(r)
  PROVE  LimiterInv'
<1> DEFINE key == request[r].key
           w == windows[Redis][key]
           g == granted[Redis][key]
           h == [a \in Ages |-> g[a] + 1]
<1>1. /\ request[r].pc = "waiting" /\ faults < MaxFaults /\ faults' = faults + 1
      /\ request' = [request EXCEPT ![r] = Answered("open")] /\ UNCHANGED <<shared, max>>
      /\ \/ windows' = windows /\ granted' = granted
         \/ /\ windows' = [windows EXCEPT ![Redis][key] = Incr(w)]
            /\ granted' = [granted EXCEPT ![Redis][key] = h]
  BY DEF RedisFails, Admit
<1>2. Redis \in Stores /\ key \in Addresses  BY <1>1, LimiterTypes DEF Stores
<1>3. /\ w \in WindowType /\ g \in History /\ faults \in Nat /\ max \in Nat \ {0}
      /\ Accounted(w, g, faults)
  BY <1>2, LimiterTypes
<1>h. h \in History  BY <1>3 DEF History
<1>4. Incr(w) \in WindowType /\ Accounted(Incr(w), h, faults + 1)
  <2>1. /\ Incr(w) \in WindowType /\ Incr(w) # NoWindow
        /\ Incr(w).count <= max => Accounted(Incr(w), h, faults)
        /\ Incr(w).count > max => Accounted(Incr(w), g, faults)
    BY <1>3, IncrIsAccounted
  <2>2. Incr(w).count \in Nat  BY <2>1 DEF WindowType
  <2> HIDE DEF w, g
  <2>3. CASE Incr(w).count <= max
    <3> HIDE DEF h
    <3> QED  BY <1>3, <1>h, <2>1, <2>3, FaultIsAccounted
  <2>4. CASE Incr(w).count > max  BY <1>3, <2>1, <2>4, FaultIsAccounted
  <2> QED  BY <1>3, <2>1, <2>2, <2>3, <2>4
<1>5. \A s \in Stores, k \in Addresses : Accounted(windows[s][k], granted[s][k], faults + 1)
  BY LimiterTypes, FaultIsAccounted
<1> HIDE DEF h, w, key
<1>6. /\ windows' \in [Stores -> [Addresses -> WindowType]] /\ granted' \in [Stores -> [Addresses -> History]]
      /\ \A s \in Stores, k \in Addresses :
            \/ windows'[s][k] = windows[s][k] /\ granted'[s][k] = granted[s][k]
            \/ windows'[s][k] = Incr(w) /\ granted'[s][k] = h
  <2>1. CASE windows' = windows /\ granted' = granted  BY <2>1, LimiterTypes
  <2>2. CASE /\ windows' = [windows EXCEPT ![Redis][key] = Incr(w)]
             /\ granted' = [granted EXCEPT ![Redis][key] = h]
    <3>1. windows' \in [Stores -> [Addresses -> WindowType]]
      BY <1>2, <1>4, <2>2, LimiterTypes
    <3>2. granted' \in [Stores -> [Addresses -> History]]
      BY <1>2, <1>h, <2>2, LimiterTypes
    <3>3. \A s \in Stores, k \in Addresses :
             /\ windows'[s][k] = IF s = Redis /\ k = key THEN Incr(w) ELSE windows[s][k]
             /\ granted'[s][k] = IF s = Redis /\ k = key THEN h ELSE granted[s][k]
      BY <1>2, <2>2, LimiterTypes
    <3> QED  BY <3>1, <3>2, <3>3
  <2> QED  BY <1>1, <2>1, <2>2
<1>7. LimiterTypeOK'
  BY <1>1, <1>6, LimiterNumbers DEF LimiterInv, LimiterTypeOK, WindowType, History, Answered
<1>8. \A s \in Stores, k \in Addresses : Accounted(windows'[s][k], granted'[s][k], faults')
  BY <1>1, <1>4, <1>5, <1>6
<1> QED  BY <1>1, <1>7, <1>8, Reaccounted

\* Time passes: windows run out, waiting requests and the history grow older.
LEMMA TickPreserves ==
  ASSUME LimiterInv, Elapse
  PROVE  LimiterInv'
<1>1. UNCHANGED <<shared, max, faults>>  BY DEF Elapse
<1>2. ASSUME NEW s \in Stores, NEW k \in Addresses
      PROVE  /\ windows'[s][k] \in WindowType /\ granted'[s][k] \in History
             /\ Accounted(windows'[s][k], granted'[s][k], faults)
  <2> DEFINE w == windows[s][k]
             g == granted[s][k]
             x == windows'[s][k]
  <2>1. /\ w \in WindowType /\ g \in History /\ faults \in Nat /\ max \in Nat \ {0}
        /\ Accounted(w, g, faults)
    BY LimiterTypes
  <2>2. x = IF s = Redis /\ w.left <= 1 THEN NoWindow
            ELSE [w EXCEPT !.left = IF w.left > -MaxLag THEN w.left - 1 ELSE w.left]
    BY DEF Elapse
  <2>3. granted'[s][k] = [a \in Ages |-> IF a = 0 THEN 0 ELSE g[a - 1]]  BY DEF Elapse
  <2> HIDE DEF x, w, g
  <2>4. /\ x \in WindowType
        /\ \/ w.left <= 1 /\ x = NoWindow
           \/ /\ x.count = w.count
              /\ x.left = IF w.left > -MaxLag THEN w.left - 1 ELSE w.left
    <3>1. CASE s = Redis /\ w.left <= 1  BY <2>2, <3>1, LimiterNumbers
    <3>2. CASE ~(s = Redis /\ w.left <= 1)
      BY <2>1, <2>2, <3>2, LimiterNumbers DEF WindowType
    <3> QED  BY <3>1, <3>2
  <2>5. granted'[s][k] \in History
    BY <2>1, <2>3, LimiterNumbers DEF History
  <2> QED  BY <2>1, <2>3, <2>4, <2>5, AgedIsAccounted DEF x
<1>3. windows' \in [Stores -> [Addresses -> WindowType]] /\ granted' \in [Stores -> [Addresses -> History]]
  <2>1. /\ windows' = [s \in Stores |-> [k \in Addresses |-> windows'[s][k]]]
        /\ granted' = [s \in Stores |-> [k \in Addresses |-> granted'[s][k]]]
    BY DEF Elapse
  <2> QED  BY <1>2, <2>1
<1>4. request' \in [Requests ->
          [pc : {"idle", "admitted", "refused", "open"}]
             \cup [pc : {"waiting"}, replica : Replicas, key : Addresses, lag : 0 .. MaxLag]]
  <2>1. request' = [r \in Requests |->
          IF request[r].pc = "waiting" THEN [request[r] EXCEPT !.lag = request[r].lag + 1] ELSE request[r]]
    BY DEF Elapse
  <2>2. ASSUME NEW r \in Requests, request[r].pc = "waiting"
        PROVE  [request[r] EXCEPT !.lag = request[r].lag + 1]
                  \in [pc : {"waiting"}, replica : Replicas, key : Addresses, lag : 0 .. MaxLag]
    <3>1. request[r] \in [pc : {"waiting"}, replica : Replicas, key : Addresses, lag : 0 .. MaxLag]
      <4>1. \/ request[r] \in [pc : {"idle", "admitted", "refused", "open"}]
            \/ request[r] \in [pc : {"waiting"}, replica : Replicas, key : Addresses, lag : 0 .. MaxLag]
        BY DEF LimiterInv, LimiterTypeOK
      <4> QED  BY <2>2, <4>1
    <3>2. request[r].lag < MaxLag  BY <2>2 DEF Elapse
    <3> QED  BY <3>1, <3>2, LimiterNumbers
  <2> QED  BY <2>1, <2>2 DEF LimiterInv, LimiterTypeOK
<1>5. LimiterTypeOK'  BY <1>1, <1>3, <1>4 DEF LimiterInv, LimiterTypeOK, WindowType, History
<1> QED  BY <1>1, <1>2, <1>5, Reaccounted

\* A request arrives; no window changes.
LEMMA ArrivePreserves ==
  ASSUME LimiterInv, NEW r \in Requests, NEW p \in Replicas, NEW k \in Addresses, Arrive(r, p, k)
  PROVE  LimiterInv'
<1>1. /\ UNCHANGED <<shared, max, windows, granted, faults>>
      /\ request' = [request EXCEPT ![r] = [pc |-> "waiting", replica |-> p, key |-> k, lag |-> 0]]
  BY DEF Arrive
<1>2. LimiterTypeOK'  BY <1>1, LimiterNumbers DEF LimiterInv, LimiterTypeOK
<1> QED  BY <1>1, <1>2, LimiterTypes, Reaccounted

\* NewMemory and NewRedis start with no window and no history.
LEMMA LimiterInitInv == LimiterInit => LimiterInv
<1> SUFFICES ASSUME LimiterInit PROVE LimiterInv  OBVIOUS
<1>1. shared \in BOOLEAN /\ max \in Nat \ {0}
  BY LimiterAssumption DEF LimiterInit, UseRedis, Positive
<1>2. /\ windows = [s \in Stores |-> [k \in Addresses |-> NoWindow]] /\ faults = 0
      /\ granted = [s \in Stores |-> [k \in Addresses |-> [a \in Ages |-> 0]]]
      /\ request = [r \in Requests |-> Answered("idle")]
  BY DEF LimiterInit
<1>3. LimiterTypeOK
  BY <1>1, <1>2, LimiterNumbers DEF LimiterTypeOK, WindowType, Answered
<1>4. Accounted(NoWindow, [a \in Ages |-> 0], 0)
  BY <1>1, LimiterNumbers DEF Accounted
<1> QED  BY <1>2, <1>3, <1>4 DEF LimiterInv

\* Every step preserves the invariant.
LEMMA LimiterNextInv == LimiterInv /\ [LimiterNext]_limiterVars => LimiterInv'
<1> SUFFICES ASSUME LimiterInv, [LimiterNext]_limiterVars PROVE LimiterInv'  OBVIOUS
<1>1. CASE LimiterNext
  BY <1>1, TickPreserves, MemoryAllowPreserves, RedisAllowPreserves, RedisFailsPreserves,
     ArrivePreserves DEF LimiterNext
<1>2. CASE UNCHANGED limiterVars
  <2>1. UNCHANGED <<shared, max, windows, request, granted, faults>>  BY <1>2 DEF limiterVars
  <2>2. LimiterTypeOK'  BY <2>1 DEF LimiterInv, LimiterTypeOK
  <2> QED  BY <2>1, <2>2, LimiterTypes, Reaccounted
<1> QED  BY <1>1, <1>2

\* The accounts of all windows balance at all times.
LEMMA LimiterSpecInv == LimiterSpec => []LimiterInv
  BY LimiterInitInv, LimiterNextInv, PTL DEF LimiterSpec

\* Redis keeps no window past its end.
RedisForgets == \A k \in Addresses : windows[Redis][k].count > 0 => windows[Redis][k].left > 0

\* PEXPIRE: no window of Redis outlives its time.
LEMMA RedisNextInv == LimiterInv /\ RedisForgets /\ [LimiterNext]_limiterVars => RedisForgets'
<1> SUFFICES ASSUME LimiterInv, RedisForgets, [LimiterNext]_limiterVars, NEW k \in Addresses,
                    windows'[Redis][k].count > 0
             PROVE  windows'[Redis][k].left > 0
  BY DEF RedisForgets
<1> DEFINE w == windows[Redis][k]
           x == windows'[Redis][k]
<1>1. /\ w \in WindowType /\ Redis \in Stores /\ max \in Nat \ {0}
      /\ windows \in [Stores -> [Addresses -> WindowType]] /\ (w.count > 0 => w.left > 0)
  BY LimiterTypes DEF Stores, RedisForgets
<1>2. CASE windows' = windows  BY <1>1, <1>2
<1>3. CASE Elapse
  <2>1. x = IF w.left <= 1 THEN NoWindow
            ELSE [w EXCEPT !.left = IF w.left > -MaxLag THEN w.left - 1 ELSE w.left]
    BY <1>1, <1>3 DEF Elapse
  <2>2. ~(w.left <= 1)  BY <2>1, LimiterNumbers
  <2> QED  BY <1>1, <2>1, <2>2, LimiterNumbers DEF WindowType
<1>4. ASSUME NEW r \in Requests, MemoryAllow(r) PROVE x.left > 0
  <2> DEFINE s == StoreOf(r)
             key == request[r].key
             lag == request[r].lag
             full == Cardinality({y \in Addresses : windows[s][y] # NoWindow}) >= WindowsThreshold
             ws == IF full THEN SweptWindows(windows[s], lag) ELSE windows[s]
  <2>1. windows' = [windows EXCEPT ![s] = [ws EXCEPT ![key] = Counted(ws[key], lag)]]
    BY <1>4 DEF MemoryAllow
  <2>2. s \in Stores /\ key \in Addresses /\ lag \in 0 .. MaxLag
    BY <1>4, LimiterTypes DEF MemoryAllow, StoreOf, Stores
  <2> HIDE DEF s, full, key, lag
  <2>3. ws[k] = windows[s][k] \/ ws[k] = NoWindow  BY DEF SweptWindows
  <2>4. DOMAIN ws = Addresses  BY <1>1, <2>2 DEF SweptWindows
  <2> HIDE DEF ws
  <2>5. CASE s # Redis \/ k # key
    <3>1. x = w \/ x = NoWindow  BY <1>1, <2>1, <2>2, <2>3, <2>4, <2>5
    <3> QED  BY <1>1, <3>1, LimiterNumbers
  <2>6. CASE s = Redis /\ k = key
    <3>1. x = Counted(ws[k], lag)  BY <1>1, <2>1, <2>2, <2>4, <2>6
    <3>2. CASE ws[k] = NoWindow \/ WindowOver(ws[k], lag)
      BY <2>2, <3>1, <3>2, LimiterNumbers DEF Counted
    <3>3. CASE ~(ws[k] = NoWindow \/ WindowOver(ws[k], lag))
      <4>1. ws[k] = w /\ w # NoWindow  BY <2>3, <2>6, <3>3
      <4>2. x = [w EXCEPT !.count = More(w.count)]  BY <3>1, <3>3, <4>1 DEF Counted
      <4>3. x.left = w.left /\ w.count > 0
        BY <1>1, <4>1, <4>2, LimiterTypes DEF WindowType, Accounted
      <4> QED  BY <1>1, <4>3
    <3> QED  BY <3>2, <3>3
  <2> QED  BY <2>5, <2>6
<1>5. ASSUME NEW key \in Addresses, windows' = [windows EXCEPT ![Redis][key] = Incr(windows[Redis][key])]
      PROVE  x.left > 0
  <2>1. x = w \/ x = Incr(w)  BY <1>1, <1>5
  <2>2. CASE w = NoWindow
    <3>1. Incr(w) = [count |-> 1, left |-> Window]  BY <2>2 DEF Incr
    <3> QED  BY <2>1, <2>2, <3>1, LimiterNumbers
  <2>3. CASE w # NoWindow
    <3>1. Incr(w) = [w EXCEPT !.count = More(w.count)]  BY <2>3 DEF Incr
    <3>2. Incr(w).left = w.left /\ w.count > 0
      BY <1>1, <2>3, <3>1, LimiterTypes DEF WindowType, Accounted
    <3> QED  BY <1>1, <2>1, <3>2
  <2> QED  BY <2>2, <2>3
<1>6. ASSUME NEW r \in Requests, RedisAllow(r) \/ RedisFails(r) PROVE x.left > 0
  <2>1. request[r].key \in Addresses  BY <1>6, LimiterTypes DEF RedisAllow, RedisFails
  <2>2. \/ windows' = windows
        \/ windows' = [windows EXCEPT ![Redis][request[r].key] = Incr(windows[Redis][request[r].key])]
    BY <1>6 DEF RedisAllow, RedisFails
  <2> QED  BY <1>2, <1>5, <2>1, <2>2
<1> QED  BY <1>2, <1>3, <1>4, <1>6 DEF LimiterNext, limiterVars, Arrive

\* So no entry of the shared store is read after its window.
LEMMA RedisSpecInv == LimiterSpec => []RedisForgets
<1>1. LimiterInit => RedisForgets
  BY LimiterNumbers DEF LimiterInit, RedisForgets, Stores
<1> QED  BY <1>1, RedisNextInv, LimiterSpecInv, PTL DEF LimiterSpec

-----------------------------------------------------------------------------
\* The windows, the requests and the history keep their types, whatever was set
\* as RATE_LIMIT_MAX: NewMemory and NewRedis leave no maximum below one.
THEOREM LimiterTypeCorrect == LimiterSpec => []LimiterTypeOK
<1>1. LimiterInv => LimiterTypeOK  BY DEF LimiterInv
<1> QED  BY <1>1, LimiterSpecInv, PTL

\* For any maximum, window, number of replicas, clients and waiting requests:
\* Allow lets at most two quotas of a client through in any stretch shorter than
\* a window by the longest wait for the mutex, but for failures of Redis.
THEOREM QuotaIsKept == LimiterSpec => []QuotaHolds
<1>1. LimiterInv => QuotaHolds
  <2> SUFFICES ASSUME LimiterInv, NEW s \in Stores, NEW k \in Addresses
               PROVE  granted[s][k][Window - MaxLag - 1] <= 2 * max + faults
    BY DEF QuotaHolds
  <2> DEFINE w == windows[s][k]
             g == granted[s][k]
             a == Window - MaxLag - 1
  <2>1. /\ w \in WindowType /\ g \in History /\ faults \in Nat /\ max \in Nat
        /\ Accounted(w, g, faults)
    BY LimiterTypes
  <2>2. a \in Ages /\ a < Horizon  BY LimiterNumbers DEF Horizon
  <2>3. Used(w) \in Nat /\ Used(w) <= max /\ g[a] \in Nat /\ w.count \in Nat
    BY <2>1, <2>2 DEF Used, WindowType, History
  <2>4. g[a] <= max + faults \/ g[a] <= Used(w) + max + faults
    BY <2>1, <2>2, <2>3 DEF Accounted
  <2> HIDE DEF a, w, g
  <2>5. g[a] <= 2 * max + faults  BY <2>1, <2>3, <2>4
  <2> QED  BY <2>5 DEF a, g
<1> QED  BY <1>1, LimiterSpecInv, PTL

\* Allow refuses nobody who has not been let through a whole quota of times while
\* the window it counts in was running.
THEOREM RefusalIsDue == LimiterSpec => RefusedOnlyWhenSpent
<1> DEFINE Due == \A r \in Requests : (request[r].pc = "waiting" /\ request'[r].pc = "refused")
                     => granted[StoreOf(r)][request[r].key][Window + MaxLag - 1] >= max
<1>1. ASSUME LimiterInv, RedisForgets, LimiterNext, NEW r \in Requests,
             request[r].pc = "waiting", request'[r].pc = "refused"
      PROVE  granted[StoreOf(r)][request[r].key][Window + MaxLag - 1] >= max
  <2> DEFINE s == StoreOf(r)
             k == request[r].key
             g == granted[s][k]
  <2>t. /\ DOMAIN request = Requests /\ s \in Stores /\ k \in Addresses
        /\ request[r].lag \in 0 .. MaxLag
    BY <1>1, LimiterTypes DEF StoreOf, Stores
  <2>1. MemoryAllow(r) \/ RedisAllow(r)
    <3>1. ASSUME Elapse PROVE FALSE
      <4>1. request'[r] = [request[r] EXCEPT !.lag = request[r].lag + 1]  BY <1>1, <3>1 DEF Elapse
      <4>2. request'[r].pc = request[r].pc  BY <4>1
      <4> QED  BY <1>1, <4>2
    <3>2. PICK q \in Requests : \/ MemoryAllow(q) \/ RedisAllow(q) \/ RedisFails(q)
                                \/ \E p \in Replicas, j \in Addresses : Arrive(q, p, j)
      BY <1>1, <3>1 DEF LimiterNext
    <3>3. \E v : request' = [request EXCEPT ![q] = v]
      BY <3>2 DEF MemoryAllow, RedisAllow, RedisFails, Arrive, Answer
    <3>4. q = r  BY <1>1, <2>t, <3>3
    <3>5. ~RedisFails(r)  BY <1>1, <2>t DEF RedisFails, Answered
    <3>6. ASSUME NEW p \in Replicas, NEW j \in Addresses PROVE ~Arrive(r, p, j)
      BY <1>1 DEF Arrive
    <3> QED  BY <3>2, <3>4, <3>5, <3>6
  <2>2. PICK w \in WindowType :
           /\ Accounted(w, g, faults) /\ w # NoWindow /\ More(w.count) > max
           /\ w.left + request[r].lag > 0
    <3>1. CASE MemoryAllow(r)
      <4> DEFINE lag == request[r].lag
                 full == Cardinality({y \in Addresses : windows[s][y] # NoWindow}) >= WindowsThreshold
                 ws == IF full THEN SweptWindows(windows[s], lag) ELSE windows[s]
                 x == Counted(ws[k], lag)
      <4>1. Answer(r, s, x)  BY <3>1 DEF MemoryAllow
      <4>2. x.count > max  BY <1>1, <2>t, <4>1 DEF Answer, Answered
      <4>3. /\ windows[s][k] \in WindowType /\ max \in Nat \ {0}
            /\ Accounted(windows[s][k], g, faults)
        BY <1>1, <2>t, LimiterTypes
      <4>4. ~(ws[k] = NoWindow \/ WindowOver(ws[k], lag))
        <5>1. [count |-> 1, left |-> Window - lag].count <= max  BY <4>3
        <5> QED  BY <4>2, <4>3, <5>1 DEF Counted
      <4>5. x.count = More(ws[k].count)
        <5>1. x = [ws[k] EXCEPT !.count = More(ws[k].count)]  BY <4>4 DEF Counted
        <5>2. ws[k] = windows[s][k]  BY <2>t, <4>4 DEF SweptWindows
        <5> QED  BY <4>3, <5>1, <5>2 DEF WindowType
      <4>6. ws[k] = windows[s][k]  BY <2>t, <4>4 DEF SweptWindows
      <4>7. windows[s][k].left + lag > 0
        BY <2>t, <4>3, <4>4, <4>6, LimiterNumbers DEF WindowOver, WindowType
      <4> QED  BY <4>2, <4>3, <4>4, <4>5, <4>6, <4>7
    <3>2. CASE RedisAllow(r)
      <4>1. /\ Answer(r, Redis, Incr(windows[Redis][k])) /\ shared /\ s = Redis
        BY <3>2 DEF RedisAllow, StoreOf
      <4>2. Incr(windows[s][k]).count > max  BY <1>1, <2>t, <4>1 DEF Answer, Answered
      <4>3. /\ windows[s][k] \in WindowType /\ max \in Nat \ {0}
            /\ Accounted(windows[s][k], g, faults)
        BY <1>1, <2>t, LimiterTypes
      <4>4. windows[s][k] # NoWindow
        <5>1. [count |-> 1, left |-> Window].count <= max  BY <4>3
        <5> QED  BY <4>2, <4>3, <5>1 DEF Incr
      <4>5. Incr(windows[s][k]).count = More(windows[s][k].count)
        BY <4>3, <4>4 DEF Incr, WindowType
      <4>6. windows[s][k].count > 0  BY <4>3, <4>4 DEF Accounted, WindowType
      <4>7. windows[s][k].left > 0  BY <1>1, <2>t, <4>1, <4>6 DEF RedisForgets
      <4>8. windows[s][k].left + request[r].lag > 0
        BY <2>t, <4>3, <4>7, LimiterNumbers DEF WindowType
      <4> QED  BY <4>2, <4>3, <4>4, <4>5, <4>8
    <3> QED  BY <2>1, <3>1, <3>2
  <2> DEFINE a == Window + MaxLag - 1
  <2>3. a \in Ages /\ a >= Window - w.left
    BY <2>t, <2>2, LimiterNumbers DEF WindowType
  <2>4. w.count > 0 /\ Used(w) = max
    BY <1>1, <2>2, LimiterTypes DEF Accounted, WindowType, More, Used
  <2>5. g[a] >= Used(w)  BY <2>2, <2>3, <2>4 DEF Accounted
  <2> QED  BY <2>4, <2>5
<1>2. ASSUME LimiterInv, RedisForgets, [LimiterNext]_limiterVars PROVE [Due]_limiterVars
  BY <1>1, <1>2
<1>3. LimiterSpec => [][Due]_limiterVars  BY <1>2, LimiterSpecInv, RedisSpecInv, PTL DEF LimiterSpec
<1> QED  BY <1>3 DEF RefusedOnlyWhenSpent

-----------------------------------------------------------------------------
(* The in-memory cache. *)

\* The copy that Get holds between the unlock and its look at the clock is what
\* an atomic lookup gave at some moment of the call, unless it has expired since.
CopyIsJustified ==
    \A c \in Clients : call[c].op = "check"
                         => ExpiredAt(call[c].e, now) \/ call[c].e.data \in seen[c]

\* A call has a key, and an answer only when it is done.
CallsAreFormed ==
    \A c \in Clients :
        /\ call[c].op # "none" => call[c].key \in Keys
        /\ call[c].op # "answer" => call[c].answer = NoValue

CacheInv ==
    /\ TypeOK /\ IsFiniteSet(DOMAIN m) /\ DOMAIN seen = Clients /\ CallsAreFormed
    /\ CopyIsJustified /\ HitsAreJustified

-----------------------------------------------------------------------------
LEMMA CacheInitInv == Init => CacheInv
<1> SUFFICES ASSUME Init PROVE CacheInv  OBVIOUS
<1>1. /\ DOMAIN m = {} /\ now = 1 /\ DOMAIN seen = Clients
      /\ call = [c \in Clients |-> NoCall] /\ \A c \in Clients : call[c] = NoCall
  BY DEF Init
<1>2. NoCall \in Call /\ NoCall.op = "none" /\ NoCall.answer = NoValue
  BY DEF NoCall, Call, Op, NoEntry
<1>3. IsFiniteSet(DOMAIN m)  BY <1>1, FS_EmptySet
<1>4. TypeOK  BY <1>1, <1>2, CacheAssumption DEF TypeOK
<1> QED  BY <1>1, <1>2, <1>3, <1>4 DEF CacheInv, CallsAreFormed, CopyIsJustified, HitsAreJustified

\* What has expired stays expired.
LEMMA ExpiryIsFinal ==
  ASSUME NEW e \in Entry, NEW t \in Nat, NEW u \in Nat, t =< u, ExpiredAt(e, t)
  PROVE  ExpiredAt(e, u)
  BY DEF ExpiredAt, Entry, Never

\* A step that changes the call of c only, with the map and the clock.
LEMMA CallMoves ==
  ASSUME CacheInv, NEW c \in Clients, NEW r \in Call,
         call' = [call EXCEPT ![c] = r], Observe,
         now' \in 1 .. MaxTime, now =< now',
         DOMAIN m' \subseteq Keys, \A k \in DOMAIN m' : m'[k] \in Entry, IsFiniteSet(DOMAIN m'),
         r.op # "none" => r.key \in Keys,
         r.op # "answer" => r.answer = NoValue,
         r.op \in {"set", "check", "evict"} => r.e \in Entry,
         r.op = "check" => ExpiredAt(r.e, now') \/ r.e.data \in seen'[c],
         r.op = "answer" /\ r.answer # NoValue => r.answer \in seen'[c]
  PROVE  CacheInv'
<1>0. call \in [Clients -> Call] /\ now \in Nat /\ now' \in Nat
  BY CacheAssumption DEF CacheInv, TypeOK
<1>1. \A d \in Clients : call'[d] = IF d = c THEN r ELSE call[d]  BY <1>0
<1>2. TypeOK'
  BY <1>0, <1>1 DEF CacheInv, TypeOK
<1>3. /\ DOMAIN seen' = Clients
      /\ \A d \in Clients : call'[d].op # "none" => seen[d] \subseteq seen'[d]
  BY DEF Observe
<1>4. CopyIsJustified'
  <2> SUFFICES ASSUME NEW d \in Clients, call'[d].op = "check"
               PROVE  ExpiredAt(call'[d].e, now') \/ call'[d].e.data \in seen'[d]
    BY DEF CopyIsJustified
  <2>1. CASE d = c  BY <1>1, <2>1
  <2>2. CASE d # c
    <3>1. call'[d] = call[d] /\ call[d].e \in Entry  BY <1>1, <2>2 DEF CacheInv, TypeOK
    <3>2. ExpiredAt(call[d].e, now) \/ call[d].e.data \in seen[d]
      BY <3>1 DEF CacheInv, CopyIsJustified
    <3> QED  BY <1>0, <1>3, <3>1, <3>2, ExpiryIsFinal
  <2> QED  BY <2>1, <2>2
<1>5. HitsAreJustified'
  BY <1>1, <1>3 DEF CacheInv, HitsAreJustified
<1>6. CallsAreFormed'
  BY <1>1 DEF CacheInv, CallsAreFormed
<1> QED  BY <1>2, <1>3, <1>4, <1>5, <1>6 DEF CacheInv

\* Removing keys from the map keeps its types, and it stays finite.
LEMMA WithoutKeys ==
  ASSUME CacheInv, NEW S
  PROVE  /\ DOMAIN Without(m, S) = DOMAIN m \ S
         /\ \A k \in DOMAIN m \ S : Without(m, S)[k] = m[k]
         /\ DOMAIN Without(m, S) \subseteq Keys /\ IsFiniteSet(DOMAIN Without(m, S))
         /\ \A k \in DOMAIN Without(m, S) : Without(m, S)[k] \in Entry
<1>1. Without(m, S) = [k \in DOMAIN m \ S |-> m[k]]  BY DEF Without, Restrict
<1>2. IsFiniteSet(DOMAIN m \ S)  BY FS_Difference DEF CacheInv
<1> QED  BY <1>1, <1>2 DEF CacheInv, TypeOK

\* The map after sweepLocked, if it was time for it.
LEMMA SweptMap ==
  ASSUME CacheInv
  PROVE  /\ DOMAIN Swept \subseteq DOMAIN m /\ IsFiniteSet(DOMAIN Swept)
         /\ \A k \in DOMAIN Swept : Swept[k] = m[k] /\ Swept[k] \in Entry
         /\ Cardinality(DOMAIN m) >= SweepThreshold => \A k \in DOMAIN Swept : ~Expired(m[k])
<1> DEFINE S == {k \in DOMAIN m : Expired(m[k])}
<1>1. CASE Cardinality(DOMAIN m) >= SweepThreshold
  <2>1. Swept = Without(m, S)  BY <1>1 DEF Swept
  <2>2. \A k \in DOMAIN m : k \notin S => ~Expired(m[k])  OBVIOUS
  <2> HIDE DEF S
  <2> QED  BY <2>1, <2>2, WithoutKeys
<1>2. CASE ~(Cardinality(DOMAIN m) >= SweepThreshold)
  <2>1. Swept = m  BY <1>2 DEF Swept
  <2> QED  BY <1>2, <2>1 DEF CacheInv, TypeOK
<1> QED  BY <1>1, <1>2

\* The map after SetLocked.
LEMMA StoredMap ==
  ASSUME CacheInv, NEW c \in Clients, SetLocked(c)
  PROVE  /\ DOMAIN m' = DOMAIN Swept \cup {call[c].key}
         /\ DOMAIN m' \subseteq Keys /\ IsFiniteSet(DOMAIN m')
         /\ \A k \in DOMAIN m' : m'[k] \in Entry
<1> DEFINE key == call[c].key
<1>1. key \in Keys /\ call[c].e \in Entry  BY DEF SetLocked, CacheInv, CallsAreFormed, TypeOK
<1>2. m' = [k \in DOMAIN Swept \cup {key} |-> IF k = key THEN call[c].e ELSE Swept[k]]
  BY DEF SetLocked
<1>3. DOMAIN Swept \subseteq Keys  BY SweptMap DEF CacheInv, TypeOK
<1>4. IsFiniteSet(DOMAIN Swept \cup {key})  BY SweptMap, FS_AddElement
<1> HIDE DEF key
<1> QED  BY <1>1, <1>2, <1>3, <1>4, SweptMap DEF key

-----------------------------------------------------------------------------
(* The operations. *)

\* Set: the expiry is fixed before the lock is taken.
LEMMA SetPreserves ==
  ASSUME CacheInv, NEW c \in Clients,
         \/ SetLocked(c)
         \/ \E k \in Keys, v \in Values, ttl \in TTLs : SetCall(c, k, v, ttl)
  PROVE  CacheInv'
<1>0. now \in 1 .. MaxTime /\ now \in Nat /\ NoCall \in Call /\ NoCall.op = "none" /\ NoCall.answer = NoValue
  BY CacheAssumption DEF CacheInv, TypeOK, NoCall, Call, Op, NoEntry
<1>t. now' = now => now' \in 1 .. MaxTime /\ now =< now'  BY <1>0
<1>1. CASE SetLocked(c)
  <2>1. call' = [call EXCEPT ![c] = NoCall] /\ now' = now /\ Observe
    BY <1>1 DEF SetLocked
  <2>2. DOMAIN m' \subseteq Keys /\ (\A k \in DOMAIN m' : m'[k] \in Entry) /\ IsFiniteSet(DOMAIN m')
    BY <1>1, StoredMap
  <2> QED  BY <1>0, <1>t, <2>1, <2>2, CallMoves
<1>2. ASSUME NEW k \in Keys, NEW v \in Values, NEW ttl \in TTLs, SetCall(c, k, v, ttl)
      PROVE  CacheInv'
  <2> DEFINE e == [data |-> v, expiresAt |-> IF ttl > 0 THEN now + ttl ELSE Never]
             r == [op |-> "set", key |-> k, e |-> e, answer |-> NoValue]
  <2>1. call' = [call EXCEPT ![c] = r] /\ m' = m /\ now' = now /\ Observe
    BY <1>2 DEF SetCall, Begin
  <2>2. e \in Entry  BY <1>0, CacheAssumption DEF Entry, Never
  <2> HIDE DEF e
  <2>3. r \in Call /\ r.op = "set" /\ r.key = k /\ r.e = e /\ r.answer = NoValue  BY <2>2 DEF Call, Op
  <2> HIDE DEF r
  <2>4. DOMAIN m \subseteq Keys /\ (\A x \in DOMAIN m : m[x] \in Entry) /\ IsFiniteSet(DOMAIN m)
    BY DEF CacheInv, TypeOK
  <2> QED  BY <1>0, <1>t, <2>1, <2>2, <2>3, <2>4, CallMoves
<1> QED  BY <1>1, <1>2

\* Get and Exists: the copy is taken under the lock and judged after it.
LEMMA GetPreserves ==
  ASSUME CacheInv, NEW c \in Clients,
         \/ \E k \in Keys : GetCall(c, k)
         \/ GetRead(c) \/ GetCheck(c) \/ GetEvict(c) \/ Return(c)
  PROVE  CacheInv'
<1>0. /\ now \in 1 .. MaxTime /\ now \in Nat
      /\ NoCall \in Call /\ NoCall.op = "none" /\ NoCall.answer = NoValue
      /\ call \in [Clients -> Call] /\ call[c] \in Call
      /\ DOMAIN m \subseteq Keys /\ (\A k \in DOMAIN m : m[k] \in Entry) /\ IsFiniteSet(DOMAIN m)
  BY CacheAssumption DEF CacheInv, TypeOK, NoCall, Call, Op, NoEntry
<1>1. /\ call[c].op # "none" => call[c].key \in Keys
      /\ call[c].op # "answer" => call[c].answer = NoValue
  BY DEF CacheInv, CallsAreFormed
<1>2. Observe /\ now' = now
  BY DEF GetCall, GetRead, GetCheck, GetEvict, Return
<1>t. now' \in 1 .. MaxTime /\ now =< now'  BY <1>0, <1>2
<1>3. call'[c].op # "none"
        => seen[c] \subseteq seen'[c] /\ Lookup(m', now', call'[c].key) \in seen'[c]
  BY <1>2 DEF Observe
<1>4. ASSUME NEW k \in Keys, GetCall(c, k) PROVE CacheInv'
  <2> DEFINE r == [op |-> "read", key |-> k, e |-> NoEntry, answer |-> NoValue]
  <2>1. call' = [call EXCEPT ![c] = r] /\ m' = m
    BY <1>4 DEF GetCall, Begin
  <2>2. r \in Call /\ r.op = "read" /\ r.key = k /\ r.answer = NoValue  BY DEF Call, Op
  <2> HIDE DEF r
  <2> QED  BY <1>0, <1>2, <1>t, <2>1, <2>2, CallMoves
<1>5. ASSUME call' = [call EXCEPT ![c].op = "answer"], call[c].op \in {"read", "evict"},
             DOMAIN m' \subseteq Keys, \A k \in DOMAIN m' : m'[k] \in Entry, IsFiniteSet(DOMAIN m')
      PROVE  CacheInv'
  <2> DEFINE r == [call[c] EXCEPT !.op = "answer"]
  <2>1. call' = [call EXCEPT ![c] = r]  BY <1>5
  <2>2. r \in Call /\ r.op = "answer" /\ r.key = call[c].key /\ r.answer = call[c].answer
    BY <1>0 DEF Call, Op
  <2> HIDE DEF r
  <2> QED  BY <1>0, <1>1, <1>2, <1>t, <1>5, <2>1, <2>2, CallMoves
<1>6. CASE GetRead(c)
  <2>1. m' = m /\ call[c].op = "read"  BY <1>6 DEF GetRead
  <2>2. CASE call[c].key \notin DOMAIN m
    BY <1>0, <1>5, <1>6, <2>1, <2>2 DEF GetRead
  <2>3. CASE call[c].key \in DOMAIN m
    <3> DEFINE e == m[call[c].key]
               r == [call[c] EXCEPT !.op = "check", !.e = e]
    <3>1. call' = [call EXCEPT ![c] = r]  BY <1>6, <2>3 DEF GetRead
    <3>2. e \in Entry  BY <1>0, <2>3
    <3>3. r \in Call /\ r.op = "check" /\ r.key = call[c].key /\ r.answer = call[c].answer /\ r.e = e
      BY <1>0, <3>2 DEF Call, Op
    <3>4. ~ExpiredAt(e, now') => e.data \in seen'[c]
      <4>1. call'[c] = r  BY <1>0, <3>1
      <4>2. ~ExpiredAt(e, now') => Lookup(m', now', call'[c].key) = e.data
        BY <2>1, <2>3, <3>3, <4>1 DEF Lookup
      <4> QED  BY <1>3, <3>3, <4>1, <4>2
    <3> HIDE DEF r, e
    <3> QED  BY <1>0, <1>1, <1>2, <1>t, <2>1, <3>1, <3>2, <3>3, <3>4, CallMoves
  <2> QED  BY <2>2, <2>3
<1>7. CASE GetCheck(c)
  <2> DEFINE e == call[c].e
  <2>1. m' = m /\ call[c].op = "check" /\ e \in Entry
    BY <1>7 DEF GetCheck, CacheInv, TypeOK
  <2>2. CASE Expired(e)
    <3> DEFINE r == [call[c] EXCEPT !.op = "evict"]
    <3>1. call' = [call EXCEPT ![c] = r]  BY <1>7, <2>2 DEF GetCheck
    <3>2. r \in Call /\ r.op = "evict" /\ r.key = call[c].key /\ r.answer = call[c].answer /\ r.e = e
      BY <1>0 DEF Call, Op
    <3> HIDE DEF r, e
    <3> QED  BY <1>0, <1>1, <1>2, <1>t, <2>1, <3>1, <3>2, CallMoves
  <2>3. CASE ~Expired(e)
    <3> DEFINE r == [call[c] EXCEPT !.op = "answer", !.answer = e.data]
    <3>1. call' = [call EXCEPT ![c] = r]  BY <1>7, <2>3 DEF GetCheck
    <3>2. r \in Call /\ r.op = "answer" /\ r.key = call[c].key /\ r.answer = e.data
      BY <1>0, <2>1 DEF Call, Op, Entry
    <3>3. e.data \in seen[c]
      BY <2>1, <2>3 DEF CacheInv, CopyIsJustified, Expired
    <3>4. call'[c] = r  BY <1>0, <3>1
    <3>5. e.data \in seen'[c]  BY <1>3, <3>2, <3>3, <3>4
    <3> HIDE DEF r, e
    <3> QED  BY <1>0, <1>1, <1>2, <1>t, <2>1, <3>1, <3>2, <3>5, CallMoves
  <2> QED  BY <2>2, <2>3
<1>8. CASE GetEvict(c)
  <2>1. m' = Without(m, {call[c].key})  BY <1>8 DEF GetEvict
  <2>2. DOMAIN m' \subseteq Keys /\ (\A k \in DOMAIN m' : m'[k] \in Entry) /\ IsFiniteSet(DOMAIN m')
    BY <2>1, WithoutKeys
  <2> QED  BY <1>5, <1>8, <2>2 DEF GetEvict
<1>9. CASE Return(c)
  <2>1. call' = [call EXCEPT ![c] = NoCall] /\ m' = m  BY <1>9 DEF Return
  <2> QED  BY <1>0, <1>2, <1>t, <2>1, CallMoves
<1> QED  BY <1>4, <1>6, <1>7, <1>8, <1>9

\* Del, and time: the calls in progress stay as they are.
LEMMA RestPreserves ==
  ASSUME CacheInv, Tick \/ \E c \in Clients, S \in SUBSET Keys \ {{}} : Del(c, S)
  PROVE  CacheInv'
<1>0. now \in 1 .. MaxTime /\ now \in Nat /\ MaxTime \in Nat
  BY CacheAssumption DEF CacheInv, TypeOK
<1>1. /\ call' = call /\ Observe /\ now' \in 1 .. MaxTime /\ now =< now' /\ now' \in Nat
      /\ \E S : m' = Without(m, S) \/ m' = m
  BY <1>0 DEF Tick, Del
<1>2. DOMAIN m' \subseteq Keys /\ (\A k \in DOMAIN m' : m'[k] \in Entry) /\ IsFiniteSet(DOMAIN m')
  BY <1>1, WithoutKeys DEF CacheInv, TypeOK
<1>3. TypeOK'  BY <1>1, <1>2 DEF CacheInv, TypeOK
<1>4. /\ DOMAIN seen' = Clients
      /\ \A d \in Clients : call'[d].op # "none" => seen[d] \subseteq seen'[d]
  BY <1>1 DEF Observe
<1>5. CopyIsJustified'
  <2> SUFFICES ASSUME NEW d \in Clients, call[d].op = "check"
               PROVE  ExpiredAt(call[d].e, now') \/ call[d].e.data \in seen'[d]
    BY <1>1 DEF CopyIsJustified
  <2>1. ExpiredAt(call[d].e, now) \/ call[d].e.data \in seen[d]
    BY DEF CacheInv, CopyIsJustified
  <2>2. call[d].e \in Entry  BY DEF CacheInv, TypeOK
  <2> QED  BY <1>0, <1>1, <1>4, <2>1, <2>2, ExpiryIsFinal
<1>6. HitsAreJustified'
  BY <1>1, <1>4 DEF CacheInv, HitsAreJustified
<1> QED  BY <1>1, <1>2, <1>3, <1>4, <1>5, <1>6 DEF CacheInv, CallsAreFormed

-----------------------------------------------------------------------------
\* Every step preserves the invariant.
LEMMA CacheNextInv == CacheInv /\ [Next]_vars => CacheInv'
<1> SUFFICES ASSUME CacheInv, [Next]_vars PROVE CacheInv'  OBVIOUS
<1>1. CASE Next  BY <1>1, SetPreserves, GetPreserves, RestPreserves DEF Next
<1>2. CASE UNCHANGED vars
  BY <1>2 DEF vars, CacheInv, TypeOK, CallsAreFormed, CopyIsJustified, HitsAreJustified
<1> QED  BY <1>1, <1>2

\* The copies and the hits of all calls are justified at all times.
LEMMA CacheSpecInv == Spec => []CacheInv
  BY CacheInitInv, CacheNextInv, PTL DEF Spec

\* Types of the map and of the calls.
THEOREM CacheTypeCorrect == Spec => []TypeOK
<1>1. CacheInv => TypeOK  BY DEF CacheInv
<1> QED  BY <1>1, CacheSpecInv, PTL

\* Get and Exists answer with a value only if it stood in the map, unexpired, at
\* some moment of the call, although they look at the clock after the unlock.
THEOREM HitsAreCorrect == Spec => []HitsAreJustified
<1>1. CacheInv => HitsAreJustified  BY DEF CacheInv
<1> QED  BY <1>1, CacheSpecInv, PTL

\* sweepLocked: when Set adds a key to a map at its threshold, every entry that
\* stays is unexpired.
THEOREM GrowthIsLive == Spec => GrowsOnlyWithLiveEntries
<1> DEFINE Live == Cardinality(DOMAIN m') > SweepThreshold /\ ~(DOMAIN m' \subseteq DOMAIN m)
                     => \A k \in DOMAIN m \cap DOMAIN m' : ~Expired(m[k])
<1>1. ASSUME CacheInv, Next PROVE Live
  <2>1. ASSUME NEW c \in Clients, SetLocked(c) PROVE Live
    <3> SUFFICES ASSUME Cardinality(DOMAIN m') > SweepThreshold, ~(DOMAIN m' \subseteq DOMAIN m)
                 PROVE  \A k \in DOMAIN m \cap DOMAIN m' : ~Expired(m[k])
      OBVIOUS
    <3>1. DOMAIN m' = DOMAIN Swept \cup {call[c].key}  BY <1>1, <2>1, StoredMap
    <3>2. DOMAIN Swept \subseteq DOMAIN m /\ IsFiniteSet(DOMAIN m) /\ IsFiniteSet(DOMAIN Swept)
      BY <1>1, SweptMap DEF CacheInv
    <3>3. call[c].key \notin DOMAIN m  BY <3>1, <3>2
    <3>4. Cardinality(DOMAIN m) >= SweepThreshold
      <4>1. Cardinality(DOMAIN Swept) =< Cardinality(DOMAIN m)  BY <3>2, FS_Subset
      <4>2. Cardinality(DOMAIN m') = Cardinality(DOMAIN Swept) + 1
        BY <3>1, <3>2, <3>3, FS_AddElement
      <4>3. Cardinality(DOMAIN m) \in Nat /\ Cardinality(DOMAIN Swept) \in Nat
        BY <3>2, FS_CardinalityType
      <4> QED  BY <4>1, <4>2, <4>3, CacheAssumption
    <3> QED  BY <1>1, <3>1, <3>3, <3>4, SweptMap
  <2>2. ASSUME ~\E c \in Clients : SetLocked(c) PROVE DOMAIN m' \subseteq DOMAIN m
    <3>1. m' = m \/ \E S : m' = Without(m, S)
      BY <1>1, <2>2 DEF Next, SetCall, GetCall, GetRead, GetCheck, GetEvict, Return, Del, Tick
    <3> QED  BY <1>1, <3>1, WithoutKeys
  <2> QED  BY <2>1, <2>2
<1>2. ASSUME CacheInv, [Next]_vars PROVE [Live]_vars
  BY <1>1, <1>2
<1> QED  BY <1>2, CacheSpecInv, PTL DEF Spec, GrowsOnlyWithLiveEntries
=============================================================================
