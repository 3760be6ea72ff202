-------------------------- MODULE HttpClientProofs --------------------------
(***************************************************************************)
(* Proofs about HttpClient, for any number of goroutines, hosts, addresses *)
(* and retries.  HttpInv says what each call carries at each step, that    *)
(* every idle connection was checked when it was dialled, and that the     *)
(* half-open breaker's request count is the number of calls of its         *)
(* generation.                                                             *)
(***************************************************************************)
EXTENDS HttpClient, FiniteSetTheorems, TLAPS

-----------------------------------------------------------------------------
(* The inductive invariant. *)

\* What the record s of a call may be: on the wire only to a checked host and
\* address and with an unread body, unread before that as well, and counted by
\* the breaker only between Execute and Settle.
Good(s) ==
    /\ s.pc = "sent" => /\ validateHost(s.host) /\ s.addr \in Addrs /\ Permitted(s.addr)
                        /\ s.whole
    /\ s.pc \in {"execute", "transport", "backoff"} => s.fresh
    /\ s.current => s.pc \in {"transport", "sent", "backoff", "settle"}

\* The transport keeps connections to hosts and addresses that were checked.
IdleChecked == \A k \in conns : validateHost(k[1]) /\ Permitted(k[2])

\* The calls of the breaker's generation: none while it is open, and as many as
\* it has admitted while it is half-open.
ProbeOK ==
    /\ breaker.state = "open" => \A c \in Calls : ~call[c].current
    /\ breaker.state = "half" =>
          \/ breaker.requests = 0 /\ \A c \in Calls : ~call[c].current
          \/ breaker.requests = 1 /\ \E c \in Calls : \A d \in Calls : call[d].current <=> d = c

HttpInv ==
    /\ TypeOK
    /\ IdleChecked
    /\ \A c \in Calls : Good(call[c])
    /\ ProbeOK

-----------------------------------------------------------------------------
(* Records of calls. *)

LEMMA IdleFacts ==
    ASSUME NEW h \in Hosts
    PROVE  /\ Idle(h) \in CallState /\ Good(Idle(h))
           /\ Idle(h).host = h /\ Idle(h).pc = "idle" /\ Idle(h).current = FALSE /\ Idle(h).fresh = TRUE
<1>1. MaxRetries \in Nat /\ Timeout \in Nat /\ MaxVia \in Nat \ {0}
  BY HttpAssumption
<1>2. 0 \in 0 .. MaxRetries /\ 1 \in 1 .. MaxVia /\ 0 \in 0 .. Timeout
  BY <1>1
<1> QED
  BY <1>2 DEF Idle, CallState, Good

LEMMA NoCallFacts ==
    NoCall \in CallState /\ Good(NoCall) /\ NoCall.current = FALSE
<1>1. (CHOOSE h \in Hosts : TRUE) \in Hosts
  BY HttpAssumption
<1> QED
  BY <1>1, IdleFacts DEF NoCall

\* A call moves within the breaker's generation, and what it leaves in the
\* pool was checked.
LEMMA CallMoves ==
    ASSUME HttpInv, NEW c \in Calls, NEW s \in CallState,
           Become(c, s), Good(s), s.current = call[c].current,
           breaker' = breaker,
           conns' \subseteq Hosts \X Addrs, IdleChecked'
    PROVE  HttpInv'
<1>1. call \in [Calls -> CallState]
  BY DEF HttpInv, TypeOK
<1>2. call'[c] = s /\ \A d \in Calls : d # c => call'[d] = call[d]
  BY <1>1 DEF Become
<1>3. TypeOK'
  BY <1>1 DEF HttpInv, TypeOK, Become
<1>4. \A d \in Calls : call'[d].current = call[d].current
  BY <1>2
<1>5. ProbeOK'
  BY <1>4 DEF HttpInv, ProbeOK
<1>6. ASSUME NEW d \in Calls PROVE Good(call[d])'
  <2>1. Good(call'[d])
    BY <1>2 DEF HttpInv
  <2> QED
    BY <2>1 DEF Good, validateHost, Permitted
<1> QED
  BY <1>3, <1>5, <1>6 DEF HttpInv

LEMMA PoolKept == HttpInv /\ conns' \subseteq conns => conns' \subseteq Hosts \X Addrs /\ IdleChecked'
BY DEF HttpInv, TypeOK, IdleChecked, validateHost, Permitted

\* RoundTrip returns.
LEMMA RoundTripReturns ==
    ASSUME HttpInv, NEW c \in Calls, NEW out \in {"resp", "redirect", "error"}, Returns(c, out),
           call[c].pc \in {"transport", "sent", "backoff"},
           breaker' = breaker, conns' \subseteq Hosts \X Addrs, IdleChecked'
    PROVE  HttpInv'
<1> DEFINE k == call[c]
           r == [k EXCEPT !.pc = "settle", !.out = out, !.fresh = FALSE, !.whole = TRUE,
                          !.addr = "none", !.attempt = 0, !.delay = 0]
<1>1. k \in CallState /\ 0 \in 0 .. MaxRetries
  BY HttpAssumption DEF HttpInv, TypeOK
<1>2. r \in CallState /\ r.pc = "settle" /\ r.current = k.current
  BY <1>1 DEF CallState
<1>3. Become(c, r)
  BY DEF Returns
<1> HIDE DEF r
<1>4. Good(r)
  BY <1>2 DEF Good
<1> QED
  BY <1>2, <1>3, <1>4, CallMoves

\* The retry loop goes round with a rewound body, or gives up.
LEMMA LoopGoesRound ==
    ASSUME HttpInv, NEW c \in Calls, TriesAgain(c),
           call[c].pc \in {"transport", "sent"},
           breaker' = breaker, conns' \subseteq Hosts \X Addrs, IdleChecked'
    PROVE  HttpInv'
<1> DEFINE k == call[c]
           n == k.attempt + 1
           w == 2 ^ k.attempt
           r == [k EXCEPT !.pc = "backoff", !.attempt = n, !.whole = TRUE,
                          !.addr = "none", !.fresh = TRUE, !.delay = w]
<1>1. CASE Returns(c, "error")
  BY <1>1, RoundTripReturns
<1>2. CASE k.attempt # MaxRetries /\ Become(c, r)
  <2>1. k \in CallState /\ k.attempt \in 0 .. MaxRetries /\ MaxRetries \in Nat
    BY HttpAssumption DEF HttpInv, TypeOK, CallState
  <2>2. n \in 0 .. MaxRetries
    BY <1>2, <2>1
  <2>3. w \in Nat
    BY <2>1, PowerAssumption
  <2> HIDE DEF n, w
  <2>4. r \in CallState /\ r.pc = "backoff" /\ r.current = k.current /\ r.fresh = TRUE
    BY <2>1, <2>2, <2>3 DEF CallState
  <2> HIDE DEF r
  <2>5. Good(r)
    BY <2>4 DEF Good
  <2> QED
    BY <1>2, <2>4, <2>5, CallMoves
<1> QED
  BY <1>1, <1>2 DEF TriesAgain

-----------------------------------------------------------------------------
(* The steps of one call. *)

LEMMA NetworkSteps ==
    ASSUME HttpInv, NEW c \in Calls, Network(c)
    PROVE  HttpInv'
<1> DEFINE k == call[c]
<1>0. k \in CallState /\ Good(k) /\ conns \subseteq Hosts \X Addrs /\ IdleChecked
  BY DEF HttpInv, TypeOK
<1>1. CASE Blocked(c)
  BY <1>1, RoundTripReturns, PoolKept DEF Blocked
<1>2. CASE Connect(c)
  <2>1. k.pc = "transport" /\ validateHost(k.host) /\ breaker' = breaker /\ k.fresh
    BY <1>0, <1>2 DEF Connect, Good
  <2>2. ASSUME NEW a \in Addrs, Permitted(a), Sent(c, a), conns' \subseteq conns PROVE HttpInv'
    <3> DEFINE r == [k EXCEPT !.pc = "sent", !.addr = a, !.whole = k.fresh, !.fresh = FALSE]
    <3>1. /\ r \in CallState /\ r.pc = "sent" /\ r.addr = a /\ r.host = k.host
          /\ r.whole = k.fresh /\ r.current = k.current
      BY <1>0 DEF CallState
    <3>2. Become(c, r)
      BY <2>2 DEF Sent
    <3> HIDE DEF r
    <3>3. Good(r)
      BY <2>1, <2>2, <3>1 DEF Good
    <3> QED
      BY <2>1, <2>2, <3>1, <3>2, <3>3, CallMoves, PoolKept
  <2>3. CASE \E x \in conns : x[1] = k.host /\ Sent(c, x[2]) /\ conns' = conns \ {x}
    <3>1. PICK x \in conns : Sent(c, x[2]) /\ conns' = conns \ {x}
      BY <2>3
    <3>2. x[2] \in Addrs /\ Permitted(x[2])
      BY <1>0 DEF IdleChecked
    <3> QED
      BY <2>2, <3>1, <3>2
  <2>4. CASE \E ips \in SUBSET Addrs : \E a \in guardedDial(ips) : Sent(c, a) /\ UNCHANGED conns
    <3>1. PICK ips \in SUBSET Addrs : \E a \in guardedDial(ips) : Sent(c, a) /\ UNCHANGED conns
      BY <2>4
    <3>2. PICK a \in guardedDial(ips) : Sent(c, a) /\ UNCHANGED conns
      BY <3>1
    <3>3. a \in Addrs /\ Permitted(a)
      BY DEF guardedDial
    <3> QED
      BY <2>2, <3>2, <3>3
  <2> QED
    BY <1>2, <2>3, <2>4 DEF Connect
<1>3. CASE Answer(c)
  <2>1. /\ k.pc = "sent" /\ breaker' = breaker /\ conns' = conns \cup {<<k.host, k.addr>>}
        /\ Returns(c, "resp") \/ Returns(c, "redirect") \/ TriesAgain(c)
    BY <1>3 DEF Answer
  <2>2. k.host \in Hosts /\ k.addr \in Addrs /\ validateHost(k.host) /\ Permitted(k.addr)
    BY <1>0, <2>1 DEF CallState, Good
  <2>3. conns' \subseteq Hosts \X Addrs
    BY <1>0, <2>1, <2>2
  <2>4. \A x \in conns' : validateHost(x[1]) /\ Permitted(x[2])
    BY <1>0, <2>1, <2>2 DEF IdleChecked
  <2>5. IdleChecked'
    BY <2>4 DEF IdleChecked, validateHost, Permitted
  <2> QED
    BY <2>1, <2>3, <2>5, RoundTripReturns, LoopGoesRound
<1>4. CASE NetworkFails(c)
  <2>1. conns' \subseteq Hosts \X Addrs /\ IdleChecked' /\ breaker' = breaker
    BY <1>4, PoolKept DEF NetworkFails
  <2>2. k.pc \in {"transport", "sent"} /\ (TriesAgain(c) \/ Returns(c, "error"))
    BY <1>4 DEF NetworkFails
  <2> QED
    BY <2>1, <2>2, RoundTripReturns, LoopGoesRound
<1> QED
  BY <1>1, <1>2, <1>3, <1>4 DEF Network

LEMMA CallerSteps ==
    ASSUME HttpInv, NEW c \in Calls, Do(c) \/ CtxEnds(c) \/ WakeUp(c) \/ Cancel(c)
    PROVE  HttpInv'
<1> DEFINE k == call[c]
<1>0. /\ k \in CallState /\ Good(k)
      /\ breaker' = breaker /\ conns' \subseteq Hosts \X Addrs /\ IdleChecked'
  BY PoolKept DEF HttpInv, TypeOK, Do, CtxEnds, WakeUp, Cancel
<1>1. CASE Do(c)
  <2>1. PICK h \in Hosts, b \in {"none", "replay", "once"} :
           Become(c, [Idle(h) EXCEPT !.pc = "execute", !.body = b, !.left = Timeout])
    BY <1>1 DEF Do
  <2> DEFINE r == [Idle(h) EXCEPT !.pc = "execute", !.body = b, !.left = Timeout]
  <2>2. Timeout \in 0 .. Timeout /\ ~k.current /\ k.current \in BOOLEAN
    <3>1. Timeout \in Nat
      BY HttpAssumption
    <3>2. k.current \in BOOLEAN
      BY <1>0 DEF CallState
    <3>3. k.pc = "idle"
      BY <1>1 DEF Do
    <3> QED
      BY <1>0, <3>1, <3>2, <3>3 DEF Good
  <2>3. r \in CallState /\ r.pc = "execute" /\ r.fresh = TRUE /\ r.current = FALSE
    <3>1. Idle(h) \in CallState /\ Idle(h).fresh = TRUE /\ Idle(h).current = FALSE
      BY IdleFacts
    <3> QED
      BY <2>2, <3>1 DEF CallState
  <2> HIDE DEF r
  <2>4. Good(r) /\ r.current = k.current
    BY <2>2, <2>3 DEF Good
  <2> QED
    BY <1>0, <2>1, <2>3, <2>4, CallMoves DEF r
<1>2. CASE CtxEnds(c)
  BY <1>0, <1>2, RoundTripReturns DEF CtxEnds
<1>3. CASE WakeUp(c)
  <2> DEFINE r == [k EXCEPT !.pc = "transport"]
  <2>1. r \in CallState /\ r.pc = "transport" /\ r.fresh = k.fresh /\ r.current = k.current
    BY <1>0 DEF CallState
  <2>2. Become(c, r) /\ k.fresh
    BY <1>0, <1>3 DEF WakeUp, Good
  <2> HIDE DEF r
  <2>3. Good(r)
    BY <2>1, <2>2 DEF Good
  <2> QED
    BY <1>0, <2>1, <2>2, <2>3, CallMoves
<1>4. CASE Cancel(c)
  <2> DEFINE r == [k EXCEPT !.left = 0]
  <2>1. /\ r \in CallState /\ r.pc = k.pc /\ r.fresh = k.fresh /\ r.current = k.current
        /\ r.host = k.host /\ r.addr = k.addr /\ r.whole = k.whole
    BY <1>0, HttpAssumption DEF CallState
  <2>2. Become(c, r)
    BY <1>4 DEF Cancel
  <2> HIDE DEF r
  <2>3. Good(r)
    BY <1>0, <2>1 DEF Good
  <2> QED
    BY <1>0, <2>1, <2>2, <2>3, CallMoves
<1> QED
  BY <1>1, <1>2, <1>3, <1>4

-----------------------------------------------------------------------------
(* The breaker. *)

BreakerState ==
    [state : {"closed", "open", "half"}, fails : 0 .. Trip - 1, requests : 0 .. 1,
     wait : 0 .. CBTimeout]

LEMMA BreakerRecords ==
    /\ Closed \in BreakerState /\ Closed.state = "closed"
    /\ Open \in BreakerState /\ Open.state = "open"
    /\ HalfOpen \in BreakerState /\ HalfOpen.state = "half" /\ HalfOpen.requests = 0
<1>1. Trip \in Nat \ {0} /\ CBTimeout \in Nat
  BY HttpAssumption
<1>2. 0 \in 0 .. Trip - 1 /\ 0 \in 0 .. CBTimeout /\ CBTimeout \in 0 .. CBTimeout
  BY <1>1
<1> QED
  BY <1>2 DEF Closed, Open, HalfOpen, BreakerState

LEMMA CurrentStateFacts ==
    ASSUME HttpInv
    PROVE  /\ breaker \in BreakerState /\ CurrentState \in BreakerState
           /\ CurrentState = breaker \/ (breaker.state = "open" /\ CurrentState = HalfOpen)
BY BreakerRecords DEF HttpInv, TypeOK, CurrentState, BreakerState

\* A new generation takes the calls out of the count and leaves them as they are.
LEMMA AgedFacts ==
    ASSUME HttpInv, NEW b, NEW d \in Calls
    PROVE  /\ DOMAIN Aged(call, b) = Calls
           /\ Aged(call, b)[d] \in CallState
           /\ Good(Aged(call, b)[d])
           /\ Aged(call, b)[d].current = (b.state = breaker.state /\ call[d].current)
           /\ Aged(call, b)[d].pc = call[d].pc
           /\ Aged(call, b)[d].fresh = call[d].fresh
<1> DEFINE k == call[d]
           r == [k EXCEPT !.current = FALSE]
<1>1. k \in CallState /\ Good(k) /\ DOMAIN call = Calls /\ k.current \in BOOLEAN
  BY DEF HttpInv, TypeOK, CallState
<1>2. /\ r \in CallState /\ r.current = FALSE /\ r.pc = k.pc /\ r.fresh = k.fresh
      /\ r.host = k.host /\ r.addr = k.addr /\ r.whole = k.whole
  BY <1>1 DEF CallState
<1>3. CASE b.state = breaker.state
  BY <1>1, <1>3 DEF Aged
<1>4. CASE b.state # breaker.state
  <2>1. Aged(call, b)[d] = r /\ DOMAIN Aged(call, b) = Calls
    BY <1>4 DEF Aged
  <2> HIDE DEF r
  <2>2. Good(r)
    BY <1>1, <1>2 DEF Good
  <2> QED
    BY <1>2, <1>4, <2>1, <2>2
<1> QED
  BY <1>3, <1>4

\* The breaker becomes b and the call s, which is not of an open breaker's
\* generation; a half-open breaker has counted the calls that are left.
LEMMA BreakerMoves ==
    ASSUME HttpInv, NEW c \in Calls, NEW s \in CallState, NEW b, NEW n \in BreakerState,
           n.state = b.state, breaker' = n,
           call' = [Aged(call, b) EXCEPT ![c] = s], Good(s), conns' = conns,
           n.state = "open" => \A d \in Calls : ~call'[d].current,
           n.state = "half" =>
              \/ n.requests = 0 /\ \A d \in Calls : ~call'[d].current
              \/ n.requests = 1 /\ \E e \in Calls : \A d \in Calls : call'[d].current <=> d = e
    PROVE  HttpInv'
<1>1. \A d \in Calls : Aged(call, b)[d] \in CallState /\ Good(Aged(call, b)[d])
  BY AgedFacts
<1>2. DOMAIN Aged(call, b) = Calls
  BY AgedFacts
<1>3. call'[c] = s /\ \A d \in Calls : d # c => call'[d] = Aged(call, b)[d]
  BY <1>2
<1>4. call' = [d \in Calls |-> call'[d]]
  BY <1>2 DEF Aged
<1>5. call' \in [Calls -> CallState]
  BY <1>1, <1>3, <1>4
<1>6. TypeOK'
  BY <1>5 DEF HttpInv, TypeOK, BreakerState
<1>7. ASSUME NEW d \in Calls PROVE Good(call[d])'
  <2>1. Good(call'[d])
    BY <1>1, <1>3
  <2> QED
    BY <2>1 DEF Good, validateHost, Permitted
<1>8. IdleChecked'
  BY DEF HttpInv, IdleChecked, validateHost, Permitted
<1>9. ProbeOK'
  BY DEF ProbeOK
<1> QED
  BY <1>6, <1>7, <1>8, <1>9 DEF HttpInv

LEMMA ExecuteStep ==
    ASSUME HttpInv, NEW c \in Calls, Execute(c)
    PROVE  HttpInv'
<1> DEFINE b == CurrentState
           a == Aged(call, b)
<1>1. b \in BreakerState /\ (b = breaker \/ (breaker.state = "open" /\ b = HalfOpen))
  BY CurrentStateFacts
<1>2. call[c].pc = "execute" /\ conns' = conns
  BY DEF Execute
<1>3. ~call[c].current /\ call[c].fresh
  BY <1>2 DEF HttpInv, Good
<1>4. \A d \in Calls : /\ a[d].current = (b.state = breaker.state /\ call[d].current)
                       /\ a[d] \in CallState /\ a[d].fresh = call[d].fresh
  BY AgedFacts
<1>5. DOMAIN a = Calls
  BY AgedFacts
<1>6. CASE Admits(b)
  <2> DEFINE r == [a[c] EXCEPT !.pc = "transport", !.current = TRUE]
             n == Admitted(b)
  <2>1. breaker' = n /\ call' = [a EXCEPT ![c] = r]
    BY <1>6 DEF Execute
  <2>2. r \in CallState /\ r.pc = "transport" /\ r.current = TRUE /\ r.fresh = a[c].fresh
    BY <1>4 DEF CallState
  <2> HIDE DEF r
  <2>3. Good(r)
    BY <1>3, <1>4, <2>2 DEF Good
  <2>4. /\ n \in BreakerState /\ n.state = b.state /\ b.state \in {"closed", "half"}
        /\ b.state = "half" => b.requests = 0 /\ n.requests = 1
    BY <1>1, <1>6 DEF BreakerState, Admits, Admitted
  <2>5. b.state = "half" => \A d \in Calls : ~a[d].current
    <3>1. ProbeOK
      BY DEF HttpInv
    <3> HIDE DEF a, b, n
    <3>2. CASE b = breaker
      <4> SUFFICES ASSUME b.state = "half" PROVE \A d \in Calls : ~a[d].current
        OBVIOUS
      <4>1. breaker.state = "half" /\ breaker.requests = 0
        BY <2>4, <3>2
      <4>2. \A d \in Calls : ~call[d].current
        BY <3>1, <4>1 DEF ProbeOK
      <4> QED
        BY <1>4, <4>2
    <3>3. CASE breaker.state = "open" /\ b = HalfOpen
      BY <1>4, <3>3, BreakerRecords
    <3> QED
      BY <1>1, <3>2, <3>3
  <2> HIDE DEF n, a, b
  <2>6. call'[c] = r /\ \A d \in Calls : d # c => call'[d] = a[d]
    BY <1>5, <2>1
  <2>7. n.state = "half" => n.requests = 1 /\ \A d \in Calls : call'[d].current <=> d = c
    BY <2>2, <2>4, <2>5, <2>6
  <2>8. call' = [Aged(call, b) EXCEPT ![c] = r]
    BY <2>1 DEF a
  <2> QED
    BY <1>2, <2>1, <2>2, <2>3, <2>4, <2>7, <2>8, BreakerMoves
<1>7. CASE ~Admits(b)
  <2>1. breaker' = b /\ call' = [a EXCEPT ![c] = NoCall]
    BY <1>7 DEF Execute
  <2>2. b = breaker
    BY <1>1, <1>7, BreakerRecords DEF Admits
  <2> HIDE DEF a, b
  <2>3. call'[c] = NoCall /\ \A d \in Calls : d # c => call'[d] = a[d]
    BY <1>5, <2>1
  <2>4. \A d \in Calls : call'[d].current <=> call[d].current
    BY <1>3, <1>4, <2>2, <2>3, NoCallFacts
  <2>5. b.state = "open" => \A d \in Calls : ~call'[d].current
    BY <2>2, <2>4 DEF HttpInv, ProbeOK
  <2>6. b.state = "half" =>
           \/ b.requests = 0 /\ \A d \in Calls : ~call'[d].current
           \/ b.requests = 1 /\ \E e \in Calls : \A d \in Calls : call'[d].current <=> d = e
    BY <2>2, <2>4 DEF HttpInv, ProbeOK
  <2>7. call' = [Aged(call, b) EXCEPT ![c] = NoCall]
    BY <2>1 DEF a
  <2> QED
    BY <1>1, <1>2, <2>1, <2>5, <2>6, <2>7, NoCallFacts, BreakerMoves
<1> QED
  BY <1>6, <1>7

LEMMA AfterFacts ==
    ASSUME NEW k \in CallState, NEW s \in AfterRoundTrip(k)
    PROVE  s \in CallState /\ Good(s) /\ s.current = FALSE
<1>1. CASE s = NoCall
  BY <1>1, NoCallFacts
<1>2. ASSUME NEW h \in Hosts, NEW keep \in BOOLEAN, s = Followed(k, h, keep), s # NoCall
      PROVE  s \in CallState /\ Good(s) /\ s.current = FALSE
  <2> DEFINE i == Idle(h)
             v == k.via + 1
             body == IF keep /\ k.body # "none" THEN k.body ELSE "none"
             r == [i EXCEPT !.pc = "execute", !.via = v, !.left = k.left, !.body = body]
  <2>1. ~(k.via >= MaxVia) /\ s = r
    BY <1>2 DEF Followed
  <2>2. k.via \in 1 .. MaxVia /\ MaxVia \in Nat /\ k.left \in 0 .. Timeout
        /\ k.body \in {"none", "replay", "once"}
    BY HttpAssumption DEF CallState
  <2>3. v \in 1 .. MaxVia /\ body \in {"none", "replay", "once"}
    BY <2>1, <2>2
  <2>4. i \in CallState /\ i.fresh = TRUE /\ i.current = FALSE
    BY IdleFacts
  <2> HIDE DEF i, v, body
  <2>5. r \in CallState /\ r.pc = "execute" /\ r.fresh = TRUE /\ r.current = FALSE
    BY <2>2, <2>3, <2>4 DEF CallState
  <2> HIDE DEF r
  <2> QED
    BY <2>1, <2>5 DEF Good
<1>3. s = NoCall \/ \E h \in Hosts, keep \in BOOLEAN : s = Followed(k, h, keep)
  BY DEF AfterRoundTrip
<1> QED
  BY <1>1, <1>2, <1>3

LEMMA SettleStep ==
    ASSUME HttpInv, NEW c \in Calls, Settle(c)
    PROVE  HttpInv'
<1> DEFINE b0 == CurrentState
           b == Reported(c, b0)
           a == Aged(call, b)
<1>1. b0 \in BreakerState /\ (b0 = breaker \/ (breaker.state = "open" /\ b0 = HalfOpen))
      /\ breaker \in BreakerState
  BY CurrentStateFacts
<1>2. breaker' = b /\ conns' = conns
  BY DEF Settle
<1>3. PICK s \in AfterRoundTrip(call[c]) : call' = [a EXCEPT ![c] = s]
  BY DEF Settle
<1>4. s \in CallState /\ Good(s) /\ s.current = FALSE
  BY AfterFacts DEF HttpInv, TypeOK
<1>5. \A d \in Calls : a[d].current = (b.state = breaker.state /\ call[d].current)
  BY AgedFacts
<1>6. DOMAIN a = Calls
  BY AgedFacts
<1>7. /\ b \in BreakerState
      /\ ~call[c].current => b = b0
      /\ call[c].current /\ b0.state = "half" => b.state \in {"open", "closed"}
      /\ b.state = "half" => b0.state = "half" /\ b = b0
  <2>1. Trip \in Nat \ {0}
    BY HttpAssumption
  <2>2. /\ Failed(b0) \in BreakerState /\ Failed(b0).state \in {"open", b0.state}
        /\ b0.state = "half" => Failed(b0).state = "open"
    <3>1. CASE b0.state = "half" \/ b0.fails + 1 >= Trip
      BY <3>1, BreakerRecords DEF Failed
    <3>2. CASE ~(b0.state = "half" \/ b0.fails + 1 >= Trip)
      <4>1. b0.fails \in 0 .. Trip - 1
        BY <1>1 DEF BreakerState
      <4>2. b0.fails + 1 \in 0 .. Trip - 1
        BY <2>1, <3>2, <4>1
      <4> QED
        BY <1>1, <3>2, <4>2 DEF Failed, BreakerState
    <3> QED
      BY <3>1, <3>2
  <2>3. /\ ~call[c].current => b = b0
        /\ call[c].current => b = Failed(b0) \/ b = Closed
    BY DEF Reported
  <2> HIDE DEF b, b0
  <2>4. CASE ~call[c].current
    BY <1>1, <2>3, <2>4
  <2>5. CASE call[c].current
    <3>1. CASE b = Failed(b0)
      BY <2>2, <2>5, <3>1
    <3>2. CASE b = Closed
      BY <2>5, <3>2, BreakerRecords
    <3> QED
      BY <2>3, <2>5, <3>1, <3>2
  <2> QED
    BY <2>4, <2>5
<1> HIDE DEF a, b
<1>8. call'[c] = s /\ \A d \in Calls : d # c => call'[d] = a[d]
  BY <1>3, <1>6
<1>9. \A d \in Calls : call'[d].current => b.state = breaker.state /\ call[d].current /\ d # c
  BY <1>4, <1>5, <1>8
<1>10. b.state = "open" => \A d \in Calls : ~call'[d].current
  BY <1>9 DEF HttpInv, ProbeOK
<1>11. b.state = "half" =>
          \/ b.requests = 0 /\ \A d \in Calls : ~call'[d].current
          \/ b.requests = 1 /\ \E e \in Calls : \A d \in Calls : call'[d].current <=> d = e
  <2> SUFFICES ASSUME b.state = "half"
               PROVE  \/ b.requests = 0 /\ \A d \in Calls : ~call'[d].current
                      \/ b.requests = 1 /\ \E e \in Calls : \A d \in Calls : call'[d].current <=> d = e
    OBVIOUS
  <2>1. b = b0 /\ b0.state = "half" /\ ~call[c].current
    BY <1>7
  <2>2. CASE breaker.state = "open" /\ b0 = HalfOpen
    BY <1>9, <2>1, <2>2, BreakerRecords
  <2>3. CASE b0 = breaker
    <3>1. \A d \in Calls : call'[d].current <=> call[d].current
      BY <1>4, <1>5, <1>8, <2>1, <2>3
    <3> QED
      BY <2>1, <2>3, <3>1 DEF HttpInv, ProbeOK
  <2> QED
    BY <1>1, <2>2, <2>3
<1>12. call' = [Aged(call, b) EXCEPT ![c] = s]
  BY <1>3 DEF a
<1> QED
  BY <1>2, <1>4, <1>7, <1>10, <1>11, <1>12, BreakerMoves

\* Timers run down; nobody moves.
LEMMA TickStep ==
    ASSUME HttpInv, Tick
    PROVE  HttpInv'
<1> DEFINE n == [breaker EXCEPT !.wait = Less(breaker.wait)]
<1>1. breaker' = n /\ conns' = conns
      /\ call' = [c \in Calls |-> [call[c] EXCEPT !.left = Less(call[c].left), !.delay = Less(call[c].delay)]]
  BY DEF Tick
<1>2. Timeout \in Nat /\ CBTimeout \in Nat
  BY HttpAssumption
<1>3. breaker \in BreakerState /\ call \in [Calls -> CallState] /\ conns \subseteq Hosts \X Addrs
  BY DEF HttpInv, TypeOK, BreakerState
<1>4. breaker.wait \in 0 .. CBTimeout
  BY <1>3 DEF BreakerState
<1>5. Less(breaker.wait) \in 0 .. CBTimeout
  BY <1>2, <1>4 DEF Less
<1>6. n \in BreakerState /\ n.state = breaker.state /\ n.requests = breaker.requests
  BY <1>3, <1>5 DEF BreakerState
<1> HIDE DEF n
<1>7. ASSUME NEW c \in Calls
      PROVE  call'[c] \in CallState /\ Good(call'[c]) /\ call'[c].current = call[c].current
  <2> DEFINE k == call[c]
             r == [k EXCEPT !.left = Less(k.left), !.delay = Less(k.delay)]
  <2>1. k \in CallState /\ k.left \in 0 .. Timeout /\ k.delay \in Nat /\ Good(k)
    BY <1>3 DEF CallState, HttpInv
  <2>2. Less(k.left) \in 0 .. Timeout /\ Less(k.delay) \in Nat
    BY <1>2, <2>1 DEF Less
  <2>3. /\ r \in CallState /\ r.pc = k.pc /\ r.fresh = k.fresh /\ r.current = k.current
        /\ r.host = k.host /\ r.addr = k.addr /\ r.whole = k.whole
    BY <2>1, <2>2 DEF CallState
  <2>4. call'[c] = r
    BY <1>1
  <2> HIDE DEF r
  <2> QED
    BY <2>1, <2>3, <2>4 DEF Good
<1>8. call' \in [Calls -> CallState]
  BY <1>1, <1>7
<1>9. TypeOK'
  BY <1>1, <1>3, <1>6, <1>8 DEF TypeOK, BreakerState
<1>10. IdleChecked'
  BY <1>1 DEF HttpInv, IdleChecked, validateHost, Permitted
<1>11. ProbeOK'
  BY <1>1, <1>6, <1>7 DEF HttpInv, ProbeOK
<1>12. ASSUME NEW c \in Calls PROVE Good(call[c])'
  BY <1>7 DEF Good, validateHost, Permitted
<1> QED
  BY <1>9, <1>10, <1>11, <1>12 DEF HttpInv

-----------------------------------------------------------------------------
(* The theorems. *)

LEMMA HttpInit == Init => HttpInv
<1> SUFFICES ASSUME Init PROVE HttpInv
  OBVIOUS
<1>1. breaker = Closed /\ conns = {} /\ call = [c \in Calls |-> NoCall]
  BY DEF Init
<1>2. TypeOK
  BY <1>1, BreakerRecords, NoCallFacts DEF TypeOK, BreakerState
<1> QED
  BY <1>1, <1>2, BreakerRecords, NoCallFacts DEF HttpInv, IdleChecked, ProbeOK

LEMMA HttpStep == HttpInv /\ [Next]_vars => HttpInv'
<1> SUFFICES ASSUME HttpInv, [Next]_vars PROVE HttpInv'
  OBVIOUS
<1>1. ASSUME NEW c \in Calls, Do(c) \/ LocalStep(c) \/ Network(c) \/ Cancel(c) PROVE HttpInv'
  BY <1>1, CallerSteps, NetworkSteps, ExecuteStep, SettleStep DEF LocalStep
<1>2. CASE CloseIdle
  <2>1. conns' \subseteq conns /\ breaker' = breaker /\ call' = call
    BY <1>2 DEF CloseIdle
  <2>2. conns' \subseteq Hosts \X Addrs /\ IdleChecked'
    BY <2>1, PoolKept
  <2> QED
    BY <2>1, <2>2 DEF HttpInv, TypeOK, ProbeOK, Good, validateHost, Permitted
<1>3. CASE Tick
  BY <1>3, TickStep
<1>4. CASE UNCHANGED vars
  BY <1>4 DEF vars, HttpInv, TypeOK, IdleChecked, ProbeOK, Good, validateHost, Permitted
<1> QED
  BY <1>1, <1>2, <1>3, <1>4 DEF Next

LEMMA HttpInvariant == Spec => []HttpInv
BY HttpInit, HttpStep, PTL DEF Spec

\* The record of every call, the breaker and the pool keep their types: no
\* attempt beyond MaxRetries, no redirect beyond MaxVia, no failure count at
\* the limit.
THEOREM HttpTypeCorrect == Spec => []TypeOK
BY HttpInvariant, PTL DEF HttpInv

\* Whatever the resolver answers, whoever dialled the connection and wherever
\* redirects lead, a request is on the wire to a checked host and address only.
THEOREM TargetsAreChecked == Spec => []OnlyCheckedTargets
<1>1. HttpInv => OnlyCheckedTargets
  BY DEF HttpInv, Good, OnlyCheckedTargets
<1> QED
  BY <1>1, HttpInvariant, PTL

\* No attempt and no redirect sends a body that has been read before.
THEOREM BodiesAreWhole == Spec => []BodyIsWhole
<1>1. HttpInv => BodyIsWhole
  BY DEF HttpInv, Good, BodyIsWhole
<1> QED
  BY <1>1, HttpInvariant, PTL

\* The half-open breaker's slot is taken exactly while its probe is in flight.
THEOREM ProbeSlotIsExact == Spec => []ProbeInFlight
<1>1. HttpInv => ProbeInFlight
  <2> DEFINE P == {c \in Calls : call[c].current}
  <2> SUFFICES ASSUME HttpInv, breaker.state = "half"
               PROVE  breaker.requests = Cardinality(P)
    BY DEF ProbeInFlight
  <2>1. CASE breaker.requests = 0 /\ \A c \in Calls : ~call[c].current
    <3>1. P = {}
      BY <2>1
    <3> QED
      BY <2>1, <3>1, FS_EmptySet
  <2>2. CASE breaker.requests = 1 /\ \E c \in Calls : \A d \in Calls : call[d].current <=> d = c
    <3>1. PICK c \in Calls : \A d \in Calls : call[d].current <=> d = c
      BY <2>2
    <3>2. P = {c}
      BY <3>1
    <3> QED
      BY <2>2, <3>2, FS_Singleton
  <2> QED
    BY <2>1, <2>2 DEF HttpInv, ProbeOK
<1> QED
  BY <1>1, HttpInvariant, PTL
=============================================================================
