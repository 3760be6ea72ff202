----------------------------- MODULE HttpClient -----------------------------
(***************************************************************************)
(* The outgoing HTTP client of pkg/httpclient: http.Client (overall        *)
(* timeout, redirects) around the circuit breaker, the retry loop, the     *)
(* host guard and the guarded dialer, used by several goroutines that      *)
(* share the breaker and the idle connections.  Timers count down: left    *)
(* is what remains of the client's Timeout, delay of a backoff, wait of    *)
(* the breaker's CBTimeout.  The net/http transport, gobreaker, the        *)
(* resolver and the server are external.                                   *)
(***************************************************************************)
EXTENDS Integers, FiniteSets

CONSTANTS
    Calls,         \* goroutines that call Do
    Hosts,         \* host names that requests and redirects name
    InternalHosts, \* the hosts isInternalHost recognises
    AllowedHosts,  \* Options.AllowedHosts
    Addrs,         \* IP addresses
    InternalAddrs, \* the addresses isInternalIP recognises
    AllowPrivate,  \* Options.AllowPrivate
    MaxRetries,    \* Options.MaxRetries
    Trip,          \* Options.CBConsecutiveFailures
    Timeout,       \* Options.Timeout, in units of baseDelay
    CBTimeout,     \* Options.CBTimeout, in units of baseDelay
    MaxVia         \* requests per Do, redirects included (10 in the code)

ASSUME HttpAssumption ==
    /\ MaxRetries \in Nat /\ Trip \in Nat \ {0}
    /\ Timeout \in Nat \ {0} /\ CBTimeout \in Nat \ {0} /\ MaxVia \in Nat \ {0}
    /\ AllowPrivate \in BOOLEAN
    /\ Hosts # {}

\* The prover has no theory of exponentiation; the backoff's delays are numbers.
ASSUME PowerAssumption == \A n \in 0 .. MaxRetries : 2 ^ n \in Nat

VARIABLES
    breaker, \* gobreaker's state and counts
    conns,   \* idle connections: <<host, address>>
    call     \* the Do of each goroutine

vars == <<breaker, conns, call>>

-----------------------------------------------------------------------------
(* State. *)

\* body: no body, one that GetBody can replay, or one that can be read once.
\* fresh: req.Body is unread.  whole: history, it was unread when last sent.
\* left: what remains of the Timeout; 0 when the caller has cancelled, too.
\* current: the breaker is still in the generation that admitted the call.
\* out: what the inner RoundTrip returned.
CallState ==
    [pc : {"idle", "execute", "transport", "sent", "backoff", "settle"}, host : Hosts,
     body : {"none", "replay", "once"}, fresh : BOOLEAN, whole : BOOLEAN,
     addr : Addrs \cup {"none"}, attempt : 0 .. MaxRetries, via : 1 .. MaxVia,
     left : 0 .. Timeout, delay : Nat, current : BOOLEAN,
     out : {"none", "resp", "redirect", "error"}]

Idle(h) ==
    [pc |-> "idle", host |-> h, body |-> "none", fresh |-> TRUE, whole |-> TRUE,
     addr |-> "none", attempt |-> 0, via |-> 1, left |-> 0, delay |-> 0,
     current |-> FALSE, out |-> "none"]

NoCall == Idle(CHOOSE h \in Hosts : TRUE)

CtxDone(c) == call[c].left = 0

Become(c, s) == call' = [call EXCEPT ![c] = s]

\* RoundTrip returns to cbTransport: the loop's variables are gone.
Returns(c, out) ==
    Become(c, [call[c] EXCEPT !.pc = "settle", !.out = out, !.fresh = FALSE, !.whole = TRUE,
                              !.addr = "none", !.attempt = 0, !.delay = 0])

-----------------------------------------------------------------------------
(* The guard. *)

validateHost(h) ==
    /\ h # ""
    /\ AllowPrivate \/ h \notin InternalHosts
    /\ AllowedHosts = {} \/ h \in AllowedHosts

Permitted(a) == AllowPrivate \/ a \notin InternalAddrs

\* Mutant of guardedDial: the name is resolved again for the dial.
DialByName(ips) == IF \A a \in ips : Permitted(a) THEN Addrs ELSE {}

\* The addresses that may be dialled when the resolver answers ips: all of
\* them are checked, and one of the checked ones is dialled.
guardedDial(ips) == IF \A a \in ips : Permitted(a) THEN ips ELSE {}

-----------------------------------------------------------------------------
(* gobreaker, with MaxRequests = 1 and no interval. *)

Closed == [state |-> "closed", fails |-> 0, requests |-> 0, wait |-> 0]
Open == [state |-> "open", fails |-> 0, requests |-> 0, wait |-> CBTimeout]
HalfOpen == [state |-> "half", fails |-> 0, requests |-> 0, wait |-> 0]

\* currentState: an open breaker whose timeout is over is half-open.
CurrentState == IF breaker.state = "open" /\ breaker.wait = 0 THEN HalfOpen ELSE breaker

Admits(b) == b.state = "closed" \/ (b.state = "half" /\ b.requests < 1)
Admitted(b) == IF b.state = "half" THEN [b EXCEPT !.requests = @ + 1] ELSE b

\* onFailure with ReadyToTrip.
Failed(b) ==
    IF b.state = "half" \/ b.fails + 1 >= Trip THEN Open ELSE [b EXCEPT !.fails = @ + 1]

\* onSuccess and onFailure; what an earlier generation reports is ignored.
Reported(c, b) ==
    IF ~call[c].current THEN b
    ELSE IF call[c].out = "error" THEN Failed(b)
    ELSE Closed

\* toNewGeneration: the calls admitted before belong to an older one.
Aged(calls, b) ==
    IF b.state = breaker.state THEN calls
    ELSE [c \in Calls |-> [calls[c] EXCEPT !.current = FALSE]]

-----------------------------------------------------------------------------
(* Do. *)

Do(c) ==
    /\ call[c].pc = "idle"
    /\ \E h \in Hosts, body \in {"none", "replay", "once"} :
          Become(c, [Idle(h) EXCEPT !.pc = "execute", !.body = body, !.left = Timeout])
    /\ UNCHANGED <<breaker, conns>>

\* cb.Execute up to the request: ErrOpenState and ErrTooManyRequests go
\* straight back to the caller.
Execute(c) ==
    /\ call[c].pc = "execute"
    /\ LET b == CurrentState IN
          IF Admits(b)
          THEN /\ breaker' = Admitted(b)
               /\ call' = [Aged(call, b) EXCEPT ![c] = [@ EXCEPT !.pc = "transport", !.current = TRUE]]
          ELSE /\ breaker' = b
               /\ call' = [Aged(call, b) EXCEPT ![c] = NoCall]
    /\ UNCHANGED conns

\* ssrfGuardTransport refuses the host, or the dialer an address of it; the
\* error is not one to retry.
Blocked(c) ==
    /\ call[c].pc = "transport"
    /\ ~validateHost(call[c].host) \/ \E ips \in SUBSET Addrs : guardedDial(ips) = {}
    /\ Returns(c, "error")
    /\ UNCHANGED <<breaker, conns>>

\* The request goes out on an idle connection to the host or on a new one.
Sent(c, a) ==
    Become(c, [call[c] EXCEPT !.pc = "sent", !.addr = a, !.whole = call[c].fresh, !.fresh = FALSE])

Connect(c) ==
    /\ call[c].pc = "transport"
    /\ validateHost(call[c].host)
    /\ ~CtxDone(c)
    /\ \/ \E k \in conns :
             k[1] = call[c].host /\ Sent(c, k[2]) /\ conns' = conns \ {k}
       \/ \E ips \in SUBSET Addrs : \E a \in guardedDial(ips) :
             Sent(c, a) /\ UNCHANGED conns
    /\ UNCHANGED breaker

\* Mutant of TriesAgain: the body is not rewound.
TriesAgainUnrewound(c) ==
    IF call[c].attempt = MaxRetries \/ call[c].body = "once" THEN Returns(c, "error")
    ELSE Become(c, [call[c] EXCEPT !.pc = "backoff", !.attempt = call[c].attempt + 1, !.whole = TRUE,
                                   !.addr = "none", !.fresh = FALSE, !.delay = 2 ^ call[c].attempt])

\* A 5xx answer or a timeout: to the head of the loop, which rewinds the body
\* (and returns an error when it cannot) and starts the backoff's timer.
TriesAgain(c) ==
    IF call[c].attempt = MaxRetries \/ call[c].body = "once" THEN Returns(c, "error")
    ELSE \/ Become(c, [call[c] EXCEPT !.pc = "backoff", !.attempt = call[c].attempt + 1, !.whole = TRUE,
                                      !.addr = "none", !.fresh = TRUE, !.delay = 2 ^ call[c].attempt])
         \/ call[c].body = "replay" /\ Returns(c, "error")

\* The server answers; the connection is free once the response is read.
Answer(c) ==
    /\ call[c].pc = "sent"
    /\ ~CtxDone(c)
    /\ Returns(c, "resp") \/ Returns(c, "redirect") \/ TriesAgain(c)
    /\ conns' = conns \cup {<<call[c].host, call[c].addr>>}
    /\ UNCHANGED breaker

\* The lookup, every dial or the connection fails: isRetryableErr tells a
\* timeout from other errors.
NetworkFails(c) ==
    /\ \/ call[c].pc = "transport" /\ validateHost(call[c].host)
       \/ call[c].pc = "sent"
    /\ TriesAgain(c) \/ Returns(c, "error")
    /\ UNCHANGED <<breaker, conns>>

\* The caller's context or the client's Timeout ends a dial, the wait for the
\* server, or the backoff's select.
CtxEnds(c) ==
    /\ call[c].pc \in {"transport", "sent", "backoff"}
    /\ CtxDone(c)
    /\ Returns(c, "error")
    /\ UNCHANGED <<breaker, conns>>

\* timer.C
WakeUp(c) ==
    /\ call[c].pc = "backoff"
    /\ call[c].delay = 0
    /\ Become(c, [call[c] EXCEPT !.pc = "transport"])
    /\ UNCHANGED <<breaker, conns>>

\* http.Client decides on a redirect to h that asks for the body again or not.
\* A body that cannot be replayed ends the chain, and so does ssrfCheckRedirect.
Followed(s, h, keep) ==
    LET resend == keep /\ s.body # "none" IN
       IF (resend /\ s.body = "once") \/ s.via >= MaxVia \/ ~validateHost(h) THEN NoCall
       ELSE [Idle(h) EXCEPT !.pc = "execute", !.via = s.via + 1, !.left = s.left,
                            !.body = IF resend THEN s.body ELSE "none"]

AfterRoundTrip(s) ==
    IF s.out = "redirect" THEN {Followed(s, h, keep) : h \in Hosts, keep \in BOOLEAN} ELSE {NoCall}

\* Mutant of Settle: a call that its caller gave up is not reported.
SettleUnlessDone(c) ==
    /\ call[c].pc = "settle"
    /\ LET b == IF CtxDone(c) THEN CurrentState ELSE Reported(c, CurrentState) IN
          /\ breaker' = b
          /\ \E s \in AfterRoundTrip(call[c]) : call' = [Aged(call, b) EXCEPT ![c] = s]
    /\ UNCHANGED conns

\* cb.Execute after the request.
Settle(c) ==
    /\ call[c].pc = "settle"
    /\ LET b == Reported(c, CurrentState) IN
          /\ breaker' = b
          /\ \E s \in AfterRoundTrip(call[c]) : call' = [Aged(call, b) EXCEPT ![c] = s]
    /\ UNCHANGED conns

\* The caller cancels its context.
Cancel(c) ==
    /\ call[c].left > 0
    /\ Become(c, [call[c] EXCEPT !.left = 0])
    /\ UNCHANGED <<breaker, conns>>

\* IdleConnTimeout, or the server closes an idle connection.
CloseIdle ==
    /\ \E k \in conns : conns' = conns \ {k}
    /\ UNCHANGED <<breaker, call>>

Less(n) == IF n > 0 THEN n - 1 ELSE 0

Running == {c \in Calls : call[c].left > 0 \/ call[c].delay > 0}

\* Mutant of Tick: no overall Timeout.
TickNoTimeout ==
    /\ Running # {} \/ breaker.wait > 0
    /\ breaker' = [breaker EXCEPT !.wait = Less(@)]
    /\ call' = [c \in Calls |-> [call[c] EXCEPT !.delay = Less(@)]]
    /\ UNCHANGED conns

\* Time passes for every timer.
Tick ==
    /\ Running # {} \/ breaker.wait > 0
    /\ breaker' = [breaker EXCEPT !.wait = Less(@)]
    /\ call' = [c \in Calls |-> [call[c] EXCEPT !.left = Less(call[c].left), !.delay = Less(call[c].delay)]]
    /\ UNCHANGED conns

-----------------------------------------------------------------------------
\* New
Init ==
    /\ breaker = Closed
    /\ conns = {}
    /\ call = [c \in Calls |-> NoCall]

\* What a goroutine does without waiting for the network or its caller.
LocalStep(c) ==
    \/ Execute(c) \/ CtxEnds(c) \/ WakeUp(c) \/ Settle(c)

Network(c) == Blocked(c) \/ Connect(c) \/ Answer(c) \/ NetworkFails(c)

Next ==
    \/ \E c \in Calls : Do(c) \/ LocalStep(c) \/ Network(c) \/ Cancel(c)
    \/ CloseIdle
    \/ Tick

Spec == Init /\ [][Next]_vars

\* Goroutines run and time passes.  Nothing is assumed of the network.
FairSpec == Spec /\ WF_vars(Tick) /\ \A c \in Calls : WF_vars(LocalStep(c))

-----------------------------------------------------------------------------
(* Properties. *)

\* Types.  The breaker's failure count stays below the limit, for it trips
\* when the limit is reached.
TypeOK ==
    /\ breaker \in [state : {"closed", "open", "half"}, fails : 0 .. Trip - 1,
                    requests : 0 .. 1, wait : 0 .. CBTimeout]
    /\ conns \subseteq Hosts \X Addrs
    /\ call \in [Calls -> CallState]

\* "resolved IPs are re-checked at dial time and dialled directly": no request
\* is on a connection to a host or an address that the guard forbids, whatever
\* the resolver answers from one attempt to the next, whoever opened the
\* connection and however the redirects led there.
OnlyCheckedTargets ==
    \A c \in Calls : call[c].pc = "sent" => validateHost(call[c].host) /\ Permitted(call[c].addr)

\* A request never goes out with a body that an earlier attempt has consumed:
\* GetBody rewinds it before a retry, and "non-seekable bodies are attempted
\* once only", over redirects as well.
BodyIsWhole ==
    \A c \in Calls : call[c].pc = "sent" /\ call[c].body # "none" => call[c].whole

\* A half-open breaker lets one probe through at a time, and the slot is never
\* lost: it is taken exactly while the probe is on its way.
ProbeInFlight ==
    breaker.state = "half" =>
        breaker.requests = Cardinality({c \in Calls : call[c].current})

\* Do returns, whatever the server, the resolver and the dialer do: the
\* overall Timeout ends retries, backoffs and redirects.
EveryCallReturns == \A c \in Calls : call[c].pc # "idle" ~> call[c].pc = "idle"
=============================================================================
