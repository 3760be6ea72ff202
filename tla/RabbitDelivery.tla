--------------------------- MODULE RabbitDelivery ---------------------------
(***************************************************************************)
(* Messages from Publisher.Publish (pkg/messaging/rabbitmq/publisher.go)   *)
(* to Consumer.Subscribe (consumer.go), composed with the connection they  *)
(* share (RabbitConnection): every consumer and publisher is one of its    *)
(* users.  A message has up to two copies, one per publish attempt;        *)
(* "place" says where the broker keeps each.  The broker is external and   *)
(* modelled by what the code relies on: a topic exchange drops what no     *)
(* queue is bound for (mandatory is false), unacked deliveries of a closed *)
(* channel go back to the queue, a rejected one goes to the dead-letter    *)
(* exchange.                                                               *)
(***************************************************************************)
EXTENDS RabbitConnection

CONSTANTS
    Messages,    \* each published once, by a publisher of its own
    Consumers,   \* Subscribe calls on the same queue
    MaxFaults,   \* bound: lost channels and frames, refused calls, cancellations
    MaxBackoff,  \* the 30 s cap of bo, in units of the first wait
    None

ASSUME DeliveryAssumption ==
    /\ Users = Messages \cup Consumers /\ Messages \cap Consumers = {}
    /\ MaxFaults \in Nat /\ MaxBackoff \in Nat \ {0}
    /\ None \notin Messages \X {1, 2}
    /\ Users \cap {"none", "dropped", "ready", "dlq", "acked"} = {}

Copies == Messages \X {1, 2}

VARIABLES
    place,      \* of each copy
    declared,   \* the broker objects declared so far, all durable
    pub,        \* the Publish call of each message
    consumer,   \* what each Subscribe call is doing
    lost,       \* users whose channel the broker closed by itself
    processed,  \* history: copies a handler returned nil for
    faults

deliveryVars == <<place, declared, pub, consumer, lost, processed, faults>>
vars == <<connVars, deliveryVars>>

-----------------------------------------------------------------------------
\* A queue with its exchange and its binding.
Objects == {"dlq", "queue"}
Place == {"none", "dropped", "ready", "dlq", "acked"} \cup Consumers

\* new: in NewPublisher; first, second: in publish; reopen: in openChannel.
PubPhase == {"new", "first", "reopen", "second", "ok", "error"}

\* setup: opening the channel and declaring; drain: in the select; handle: in
\* the handler with a delivery; settle: about to Ack or Nack; sleep: in
\* sleepBackoff; stopped: Subscribe has returned.
ConsumerState == [pc : {"setup", "drain", "handle", "settle", "sleep", "stopped"},
                  d : Copies \cup {None}, herr : BOOLEAN, bo : 1 .. MaxBackoff]

At(pc, bo) == [pc |-> pc, d |-> None, herr |-> FALSE, bo |-> bo]

Goto(c, pc) == consumer' = [consumer EXCEPT ![c] = At(pc, @.bo)]

Fault == faults < MaxFaults /\ faults' = faults + 1

\* The user has a channel and it is open.
Alive(u) == user[u].pc = "ok" /\ IsOpen(user[u].snap) /\ u \notin lost

\* Mutant of CloseChannel: the shared connection is closed with the channel.
CloseConnection(u) ==
    /\ open' = open \ {user[u].snap}
    /\ user' = [user EXCEPT ![u] = NoCall]
    /\ UNCHANGED <<conn, dialled, drops>>
    /\ lost' = lost \ {u}

\* ch.Close() of a channel, if there is one, whether or not it is still open.
CloseChannel(u) ==
    /\ IF user[u].pc = "idle" THEN UNCHANGED connVars ELSE Return(u)
    /\ lost' = lost \ {u}

\* Where the exchanges route a message: the queue and the dead-letter queue.
Routed == IF "queue" \in declared THEN "ready" ELSE "dropped"
DeadLettered == IF "dlq" \in declared THEN "dlq" ELSE "dropped"

\* Unacked deliveries of channels that close are requeued.
Requeued(S) == [x \in Copies |-> IF place[x] \in S THEN "ready" ELSE place[x]]

-----------------------------------------------------------------------------
(* The connection, driven by its users. *)

\* NewPublisher, Publish's retry and Subscribe call Channel().
CallChannel(u) ==
    /\ \/ u \in Messages /\ pub[u] \in {"new", "reopen"}
       \/ u \in Consumers /\ consumer[u].pc = "setup"
    /\ Channel(u)
    /\ UNCHANGED deliveryVars

InChannel(u) == CallStep(u) /\ UNCHANGED deliveryVars

\* All channels of the connection die with it.
ConnectionLost(n) ==
    /\ Drop(n)
    /\ place' = Requeued({c \in Consumers : user[c].pc = "ok" /\ user[c].snap = n})
    /\ UNCHANGED <<declared, pub, consumer, lost, processed, faults>>

\* The broker closes one channel.
ChannelLost(u) ==
    /\ Alive(u)
    /\ Fault
    /\ lost' = lost \cup {u}
    /\ place' = Requeued({u})
    /\ UNCHANGED <<connVars, declared, pub, consumer, processed>>

-----------------------------------------------------------------------------
(* Publish. *)

\* Publish is called on a publisher that NewPublisher has made.
Publish(m) ==
    /\ pub[m] = "new" /\ user[m].pc = "ok"
    /\ pub' = [pub EXCEPT ![m] = "first"]
    /\ UNCHANGED <<connVars, place, declared, consumer, lost, processed, faults>>

Copy(m) == <<m, IF pub[m] = "first" THEN 1 ELSE 2>>

\* publish returns nil.  Without publisher confirms that says only that the
\* frame was written: it may never arrive.
PublishReturns(m) ==
    /\ pub[m] \in {"first", "second"} /\ Alive(m)
    /\ \/ place' = [place EXCEPT ![Copy(m)] = Routed] /\ UNCHANGED faults
       \/ place' = [place EXCEPT ![Copy(m)] = "dropped"] /\ Fault
    /\ pub' = [pub EXCEPT ![m] = "ok"]
    /\ UNCHANGED <<connVars, declared, consumer, lost, processed>>

\* publish returns an error: at once on a dead channel, or while it sends, and
\* then the copy may have arrived all the same.  The first error leads to a
\* new channel and one more attempt, the second is returned.
PublishErrs(m) ==
    /\ pub[m] \in {"first", "second"}
    /\ \/ ~Alive(m) /\ UNCHANGED <<place, faults>>
       \/ Alive(m) /\ Fault /\ place' \in {place, [place EXCEPT ![Copy(m)] = Routed]}
    /\ pub' = [pub EXCEPT ![m] = IF @ = "first" THEN "reopen" ELSE "error"]
    /\ CloseChannel(m)
    /\ UNCHANGED <<declared, consumer, processed>>

\* openChannel: the exchange is declared on the new channel.
Reopened(m) ==
    /\ pub[m] = "reopen" /\ Alive(m)
    /\ pub' = [pub EXCEPT ![m] = "second"]
    /\ UNCHANGED <<connVars, place, declared, consumer, lost, processed, faults>>

\* Channel() or the declaration fails: the error is returned.
OpenChannelErrs(m) ==
    /\ pub[m] \in {"new", "reopen"}
    /\ \/ user[m].pc = "failed" /\ UNCHANGED faults
       \/ user[m].pc = "ok" /\ (IF Alive(m) THEN Fault ELSE UNCHANGED faults)
    /\ pub' = [pub EXCEPT ![m] = "error"]
    /\ CloseChannel(m)
    /\ UNCHANGED <<place, declared, consumer, processed>>

-----------------------------------------------------------------------------
(* Subscribe. *)

\* declareExchanges and declareQueues, the dead-letter side first; declaring
\* what exists is a no-op, so only the first consumer to get there changes the
\* broker, and a setup that fails half-way leaves what it declared.
Declare(c, o) ==
    /\ consumer[c].pc = "setup" /\ Alive(c)
    /\ o \notin declared
    /\ o = "queue" => "dlq" \in declared
    /\ declared' = declared \cup {o}
    /\ UNCHANGED <<connVars, place, pub, consumer, lost, processed, faults>>

\* Setup is complete, bo is reset; Consume starts the deliveries.
Consume(c) ==
    /\ consumer[c].pc = "setup" /\ Alive(c)
    /\ declared = Objects
    /\ consumer' = [consumer EXCEPT ![c] = At("drain", 1)]
    /\ UNCHANGED <<connVars, place, declared, pub, lost, processed, faults>>

\* Channel() or a declaration fails, or, after the reset of bo, Consume:
\* ch.Close(), sleepBackoff.
SetupFails(c) ==
    /\ consumer[c].pc = "setup"
    /\ \/ user[c].pc = "failed" /\ UNCHANGED faults /\ Goto(c, "sleep")
       \/ /\ user[c].pc = "ok"
          /\ IF Alive(c) THEN Fault ELSE UNCHANGED faults
          /\ \/ Goto(c, "sleep")
             \/ declared = Objects /\ consumer' = [consumer EXCEPT ![c] = At("sleep", 1)]
    /\ CloseChannel(c)
    /\ UNCHANGED <<place, declared, pub, processed>>

\* bo *= 2, capped.
NextBackoff(bo) == IF bo < MaxBackoff /\ bo * 2 =< MaxBackoff THEN bo * 2 ELSE MaxBackoff

\* sleepBackoff returns true.
WakeUp(c) ==
    /\ consumer[c].pc = "sleep"
    /\ consumer' = [consumer EXCEPT ![c] = At("setup", NextBackoff(@.bo))]
    /\ UNCHANGED <<connVars, place, declared, pub, lost, processed, faults>>

\* The broker pushes deliveries ahead of the handler: no prefetch limit is set.
Deliver(c, x) ==
    /\ consumer[c].pc \in {"drain", "handle", "settle"} /\ Alive(c)
    /\ place[x] = "ready"
    /\ place' = [place EXCEPT ![x] = c]
    /\ UNCHANGED <<connVars, declared, pub, consumer, lost, processed, faults>>

\* d := <-deliveries
Handle(c, x) ==
    /\ consumer[c].pc = "drain"
    /\ Alive(c) /\ place[x] = c
    /\ consumer' = [consumer EXCEPT ![c] = [@ EXCEPT !.pc = "handle", !.d = x]]
    /\ UNCHANGED <<connVars, place, declared, pub, lost, processed, faults>>

HandlerReturns(c, herr) ==
    /\ consumer[c].pc = "handle"
    /\ consumer' = [consumer EXCEPT ![c] = [@ EXCEPT !.pc = "settle", !.herr = herr]]
    /\ processed' = IF herr THEN processed ELSE processed \cup {consumer[c].d}
    /\ UNCHANGED <<connVars, place, declared, pub, lost, faults>>

\* Mutant of Settled: a failed message is acknowledged too.
AckAlways(herr) == "acked"

\* Mutant of Settled: the queue has no dead-letter exchange.
RejectForGood(herr) == IF herr THEN "dropped" ELSE "acked"

Settled(herr) == IF herr THEN DeadLettered ELSE "acked"

\* Ack, or Nack without requeue; its error is ignored, so on a dead channel
\* nothing happens to the copy.
Settle(c) ==
    /\ consumer[c].pc = "settle"
    /\ place' = IF Alive(c) THEN [place EXCEPT ![consumer[c].d] = Settled(consumer[c].herr)]
                ELSE place
    /\ Goto(c, "drain")
    /\ UNCHANGED <<connVars, declared, pub, lost, processed, faults>>

\* Mutant of DrainEnds: the closed channel goes unnoticed.
DrainGoesOn(c) == consumer[c].pc = "drain" /\ ~Alive(c) /\ UNCHANGED vars

\* drain notices the dead channel (NotifyClose or closed deliveries).
DrainEnds(c) ==
    /\ consumer[c].pc = "drain"
    /\ ~Alive(c)
    /\ Goto(c, "sleep")
    /\ CloseChannel(c)
    /\ UNCHANGED <<place, declared, pub, processed, faults>>

\* ctx is cancelled: noticed between deliveries, in waits and before Channel();
\* ch.Close().
Stop(c) ==
    /\ consumer[c].pc \in {"setup", "drain", "sleep"} /\ ~InCall(c)
    /\ Fault
    /\ Goto(c, "stopped")
    /\ CloseChannel(c)
    /\ place' = Requeued({c})
    /\ UNCHANGED <<declared, pub, processed>>

\* The process is started again.
Restart(c) ==
    /\ consumer[c].pc = "stopped"
    /\ consumer' = [consumer EXCEPT ![c] = At("setup", 1)]
    /\ UNCHANGED <<connVars, place, declared, pub, lost, processed, faults>>

-----------------------------------------------------------------------------
Init ==
    /\ ConnInit
    /\ place = [x \in Copies |-> "none"]
    /\ declared = {}
    /\ pub = [m \in Messages |-> "new"]
    /\ consumer = [c \in Consumers |-> At("setup", 1)]
    /\ lost = {}
    /\ processed = {}
    /\ faults = 0

ConsumerStep(c) ==
    \/ CallChannel(c) \/ InChannel(c)
    \/ \E o \in Objects : Declare(c, o)
    \/ Consume(c) \/ SetupFails(c) \/ WakeUp(c) \/ Settle(c) \/ DrainEnds(c) \/ Restart(c)
    \/ \E x \in Copies : Handle(c, x)
    \/ \E herr \in BOOLEAN : HandlerReturns(c, herr)

PublisherStep(m) ==
    \/ CallChannel(m) \/ InChannel(m) \/ Publish(m)
    \/ PublishReturns(m) \/ PublishErrs(m) \/ Reopened(m) \/ OpenChannelErrs(m)

Next ==
    \/ \E m \in Messages : PublisherStep(m)
    \/ \E c \in Consumers : \/ ConsumerStep(c) \/ Stop(c)
                            \/ \E x \in Copies : Deliver(c, x)
    \/ \E u \in Users : ChannelLost(u)
    \/ \E n \in open : ConnectionLost(n)

Spec == Init /\ [][Next]_vars

\* Goroutines run, handlers return, the broker delivers what is ready, and a
\* stopped process is started again.
FairSpec ==
    /\ Spec
    /\ \A m \in Messages : WF_vars(PublisherStep(m))
    /\ \A c \in Consumers : WF_vars(ConsumerStep(c)) /\ WF_vars(\E x \in Copies : Deliver(c, x))

-----------------------------------------------------------------------------
(* Properties. *)

\* Types; the copies a consumer has on its channel are those of an open one.
TypeOK ==
    /\ ConnTypeOK
    /\ place \in [Copies -> Place]
    /\ \A x \in Copies : place[x] \in Consumers => Alive(place[x])
    /\ declared \subseteq Objects
    /\ pub \in [Messages -> PubPhase]
    /\ consumer \in [Consumers -> ConsumerState]
    /\ lost \subseteq Users
    /\ processed \subseteq Copies
    /\ faults \in 0 .. MaxFaults

\* Publishers and consumers use the shared connection as RabbitConnection
\* says: the composition implements its specification, so what is proved of
\* the connection holds here.
UsesConnection == ConnInit /\ [][ConnNext]_connVars

\* Ack and Nack: the broker forgets a copy only after a handler succeeded with
\* it, whichever consumer it was delivered to in the end.
AckedWasProcessed == \A x \in Copies : place[x] = "acked" => x \in processed

\* declareQueues and handle: from the queue on nothing is lost; a rejected
\* message finds its dead-letter queue, also after interrupted setups.
NothingVanishes ==
    [][\A x \in Copies : place[x] \in {"ready"} \cup Consumers
                           => place'[x] \in {"ready", "dlq", "acked"} \cup Consumers]_vars

\* Every copy that reached the queue is acknowledged or dead-lettered, across
\* lost channels and connections, failed setups and restarts.
EveryCopySettles == \A x \in Copies : (place[x] = "ready") ~> (place[x] \in {"acked", "dlq"})
=============================================================================
