--------------------------- MODULE MessagingProofs ---------------------------
(***************************************************************************)
(* The two message consumers.                                              *)
(*                                                                         *)
(* RabbitMQ, for any number of messages, consumers and faults: publishers  *)
(* and consumers use the shared connection as RabbitConnection says, a     *)
(* copy is acknowledged only after a handler succeeded with it, and        *)
(* nothing that reached the queue vanishes.                                *)
(*                                                                         *)
(* Kafka, for any group, log and number of faults: a commit follows a      *)
(* success, and no offset below the group's was passed over.  The two      *)
(* specifications share no variable and no constant.                       *)
(***************************************************************************)
EXTENDS RabbitDelivery, KafkaConsumer, TLAPS

-----------------------------------------------------------------------------
(* The connection.  However many goroutines reconnect at once, no second   *)
(* connection is left open, and Channel() survives one fault.  CallOK is   *)
(* what makes the latter inductive: it says, for each point of Channel(),  *)
(* which faults the call must have met for the connection it is about to   *)
(* use to be dead.                                                         *)

\* A dead c.conn has been paid for by a drop; a call has met no more faults
\* than there were.
Paid ==
    /\ conn \notin open => dialled =< drops
    /\ \A u \in Users : user[u].hit =< drops

\* The faults goroutine u has met at each point of Channel().
CallOK(u) ==
    /\ user[u].pc = "reread"  => conn \in open \/ user[u].hit >= 1
    /\ user[u].pc = "open"    => user[u].snap \in open \/ user[u].hit >= 1
    /\ user[u].pc \in {"redial2", "reread2", "open2"} => user[u].hit >= 1
    /\ user[u].pc = "reread2" => conn \in open \/ user[u].hit >= 2
    /\ user[u].pc = "open2"   => user[u].snap \in open \/ user[u].hit >= 2
    /\ user[u].pc = "failed"  => user[u].refused \/ user[u].hit >= 2

ConnInv == ConnTypeOK /\ NoLeakedConnection /\ Paid /\ \A u \in Users : CallOK(u)

-----------------------------------------------------------------------------
\* NewConnection establishes the invariant.
LEMMA ConnInitInv == ConnInit => ConnInv
  BY ConnAssumption
     DEF ConnInit, ConnInv, ConnTypeOK, NoLeakedConnection, Paid, CallOK, NoCall, Call, CallPhase

\* A step that only changes the call of goroutine u and the fault count
\* preserves the invariant when the call stays within CallOK.
LEMMA OneCallMoves ==
  ASSUME ConnInv, NEW u \in Users,
         user' \in [Users -> Call], \A v \in Users \ {u} : user'[v] = user[v],
         conn' = conn, open' = open, dialled' = dialled,
         drops' \in 0 .. MaxDrops, drops' >= drops, user'[u].hit =< drops',
         CallOK(u)'
  PROVE  ConnInv'
<1>0. /\ drops \in Nat /\ drops' \in Nat /\ dialled \in 1 .. drops + 1 /\ conn = dialled
      /\ open \subseteq 1 .. dialled /\ user \in [Users -> Call]
  BY ConnAssumption DEF ConnInv, ConnTypeOK
<1>1. ConnTypeOK'
  <2>0. drops \in Nat /\ drops' \in Nat /\ dialled \in Nat /\ dialled >= 1 /\ dialled =< drops + 1
    BY <1>0
  <2>1. ASSUME NEW a \in Nat, NEW b \in Nat, NEW d \in Nat, d >= 1, d =< a + 1, b >= a
        PROVE  d \in 1 .. b + 1
    BY <2>1
  <2>2. dialled' \in 1 .. drops' + 1  BY <2>0, <2>1
  <2> QED  BY <1>0, <2>2 DEF ConnTypeOK
<1>2. NoLeakedConnection'
  BY DEF ConnInv, NoLeakedConnection
<1>3. Paid'
  <2>1. (conn \notin open => dialled =< drops)'
    BY <1>0 DEF ConnInv, Paid
  <2>2. ASSUME NEW v \in Users PROVE user'[v].hit =< drops'
    BY <1>0, <2>2 DEF ConnInv, ConnTypeOK, Paid, Call
  <2> QED  BY <2>1, <2>2 DEF Paid
<1>4. ASSUME NEW v \in Users PROVE CallOK(v)'
  <2>1. CASE v = u  BY <2>1
  <2>2. CASE v # u
    <3>1. user'[v] = user[v]  BY <2>2
    <3>2. CallOK(v)  BY DEF ConnInv
    <3> QED  BY <3>1, <3>2 DEF CallOK
  <2> QED  BY <2>1, <2>2
<1> QED  BY <1>1, <1>2, <1>3, <1>4 DEF ConnInv

\* Looking at, reading and opening on the connection.
LEMMA ReadsPreserve ==
  ASSUME ConnInv, NEW u \in Users,
         Channel(u) \/ Look(u) \/ Reread(u) \/ OpenChannel(u) \/ Return(u)
  PROVE  ConnInv'
<1>0. user \in [Users -> Call] /\ user[u] \in Call /\ conn \in Nat \ {0}
      /\ CallOK(u) /\ user[u].hit =< drops /\ drops \in 0 .. MaxDrops /\ drops \in Nat
  BY ConnAssumption DEF ConnInv, ConnTypeOK, Paid
<1>1. CASE Channel(u)
  <2> DEFINE c == [user[u] EXCEPT !.pc = "look", !.snap = conn]
  <2>1. user' = [user EXCEPT ![u] = c] /\ UNCHANGED <<conn, open, dialled, drops>>
    BY <1>1 DEF Channel, Snap
  <2>2. c \in Call /\ c.hit =< drops /\ c.pc = "look"
    BY <1>0 DEF Call, CallPhase
  <2>3. CallOK(u)'  BY <1>0, <2>1, <2>2 DEF CallOK
  <2>m. user' \in [Users -> Call] /\ \A v \in Users \ {u} : user'[v] = user[v]
    BY <1>0, <2>1, <2>2, <2>3
  <2>h. user'[u].hit =< drops' /\ drops' \in 0 .. MaxDrops /\ drops' >= drops
    BY <1>0, <2>1, <2>2, <2>3, ConnAssumption
  <2> QED  BY <1>0, <2>1, <2>2, <2>3, <2>m, <2>h, OneCallMoves
<1>2. CASE Look(u)
  <2> DEFINE c == [user[u] EXCEPT !.pc = IF user[u].snap \in open THEN "open" ELSE "redial"]
  <2>1. user' = [user EXCEPT ![u] = c] /\ UNCHANGED <<conn, open, dialled, drops>>
    BY <1>2 DEF Look, CallGoto, IsOpen
  <2>2. c \in Call /\ c.hit =< drops /\ c.snap = user[u].snap
        /\ c.pc = IF user[u].snap \in open THEN "open" ELSE "redial"
    BY <1>0 DEF Call, CallPhase
  <2>3. CallOK(u)'  BY <1>0, <2>1, <2>2 DEF CallOK
  <2>m. user' \in [Users -> Call] /\ \A v \in Users \ {u} : user'[v] = user[v]
    BY <1>0, <2>1, <2>2, <2>3
  <2>h. user'[u].hit =< drops' /\ drops' \in 0 .. MaxDrops /\ drops' >= drops
    BY <1>0, <2>1, <2>2, <2>3, ConnAssumption
  <2> QED  BY <1>0, <2>1, <2>2, <2>3, <2>m, <2>h, OneCallMoves
<1>3. CASE Reread(u)
  <2> DEFINE p == IF user[u].pc = "reread" THEN "open" ELSE "open2"
             c == [user[u] EXCEPT !.pc = p, !.snap = conn]
  <2>1. user' = [user EXCEPT ![u] = c] /\ UNCHANGED <<conn, open, dialled, drops>>
    BY <1>3 DEF Reread, Snap
  <2>2. c \in Call /\ c.hit = user[u].hit /\ c.snap = conn /\ c.pc = p
    BY <1>0 DEF Call, CallPhase
  <2>3. user[u].pc \in {"reread", "reread2"}  BY <1>3 DEF Reread
  <2>4. CallOK(u)'  BY <1>0, <2>1, <2>2, <2>3 DEF CallOK
  <2>m. user' \in [Users -> Call] /\ \A v \in Users \ {u} : user'[v] = user[v]
    BY <1>0, <2>1, <2>2, <2>4
  <2>h. user'[u].hit =< drops' /\ drops' \in 0 .. MaxDrops /\ drops' >= drops
    BY <1>0, <2>1, <2>2, <2>4, ConnAssumption
  <2> QED  BY <1>0, <2>1, <2>2, <2>4, <2>m, <2>h, OneCallMoves
<1>4. CASE OpenChannel(u)
  <2> DEFINE c == [user[u] EXCEPT !.pc = "ok"]
  <2>1. user' = [user EXCEPT ![u] = c] /\ UNCHANGED <<conn, open, dialled, drops>>
    BY <1>4 DEF OpenChannel, CallGoto
  <2>2. c \in Call /\ c.hit =< drops /\ c.pc = "ok"
    BY <1>0 DEF Call, CallPhase
  <2>3. CallOK(u)'  BY <1>0, <2>1, <2>2 DEF CallOK
  <2>m. user' \in [Users -> Call] /\ \A v \in Users \ {u} : user'[v] = user[v]
    BY <1>0, <2>1, <2>2, <2>3
  <2>h. user'[u].hit =< drops' /\ drops' \in 0 .. MaxDrops /\ drops' >= drops
    BY <1>0, <2>1, <2>2, <2>3, ConnAssumption
  <2> QED  BY <1>0, <2>1, <2>2, <2>3, <2>m, <2>h, OneCallMoves
<1>5. CASE Return(u)
  <2>1. user' = [user EXCEPT ![u] = NoCall] /\ UNCHANGED <<conn, open, dialled, drops>>
    BY <1>5 DEF Return
  <2>2. NoCall \in Call /\ NoCall.hit =< drops /\ NoCall.pc = "idle"
    BY <1>0, ConnAssumption DEF Call, CallPhase, NoCall
  <2>3. CallOK(u)'  BY <1>0, <2>1, <2>2 DEF CallOK
  <2>m. user' \in [Users -> Call] /\ \A v \in Users \ {u} : user'[v] = user[v]
    BY <1>0, <2>1, <2>2
  <2>h. user'[u].hit =< drops' /\ drops' \in 0 .. MaxDrops /\ drops' >= drops
    BY <1>0, <2>1, <2>2
  <2> QED  BY <2>1, <2>3, <2>m, <2>h, OneCallMoves
<1> QED  BY <1>1, <1>2, <1>3, <1>4, <1>5

\* A refused dial, and a channel that cannot be opened.
LEMMA FailuresPreserve ==
  ASSUME ConnInv, NEW u \in Users, RedialFails(u) \/ OpenFails(u)
  PROVE  ConnInv'
<1>0. user \in [Users -> Call] /\ user[u] \in Call /\ conn \in Nat \ {0}
      /\ CallOK(u) /\ user[u].hit =< drops /\ drops \in 0 .. MaxDrops /\ drops \in Nat
      /\ user[u].hit \in Nat
  BY ConnAssumption DEF ConnInv, ConnTypeOK, Paid, Call
<1>1. CASE RedialFails(u)
  <2> DEFINE c == [user[u] EXCEPT !.pc = "failed", !.refused = TRUE]
  <2>1. user' = [user EXCEPT ![u] = c] /\ UNCHANGED <<conn, open, dialled>> /\ drops' = drops + 1
        /\ drops < MaxDrops
    BY <1>1 DEF RedialFails
  <2>2. c \in Call /\ c.hit =< drops /\ c.pc = "failed" /\ c.refused
    BY <1>0 DEF Call, CallPhase
  <2>3. CallOK(u)'  BY <1>0, <2>1, <2>2 DEF CallOK
  <2>m. user' \in [Users -> Call] /\ \A v \in Users \ {u} : user'[v] = user[v]
    BY <1>0, <2>1, <2>2, <2>3, ConnAssumption
  <2>h. user'[u].hit =< drops' /\ drops' \in 0 .. MaxDrops /\ drops' >= drops
    BY <1>0, <2>1, <2>2, <2>3, ConnAssumption, ConnAssumption
  <2> QED  BY <1>0, <2>1, <2>2, <2>3, ConnAssumption, <2>m, <2>h, OneCallMoves
<1>2. CASE OpenFails(u)
  <2> DEFINE p == IF user[u].pc = "open" THEN "redial2" ELSE "failed"
  <2>0. user[u].pc \in {"open", "open2"} /\ UNCHANGED <<conn, open, dialled>>
    BY <1>2 DEF OpenFails
  <2>1. CASE user[u].snap \notin open /\ CallGoto(u, p) /\ UNCHANGED drops
    <3> DEFINE c == [user[u] EXCEPT !.pc = p]
    <3>1. user' = [user EXCEPT ![u] = c]  BY <2>1 DEF CallGoto
    <3>2. c \in Call /\ c.hit = user[u].hit /\ c.pc = p
      BY <1>0 DEF Call, CallPhase
    <3>3. CallOK(u)'  BY <1>0, <2>0, <2>1, <3>1, <3>2 DEF CallOK
    <3>m. user' \in [Users -> Call] /\ \A v \in Users \ {u} : user'[v] = user[v]
      BY <1>0, <2>0, <2>1, <3>1, <3>2, <3>3
    <3>h. user'[u].hit =< drops' /\ drops' \in 0 .. MaxDrops /\ drops' >= drops
      BY <1>0, <2>0, <2>1, <3>1, <3>2, <3>3, ConnAssumption
    <3> QED  BY <1>0, <2>0, <2>1, <3>1, <3>2, <3>3, <3>m, <3>h, OneCallMoves
  <2>2. CASE drops < MaxDrops /\ drops' = drops + 1
             /\ user' = [user EXCEPT ![u].pc = p, ![u].hit = user[u].hit + 1]
    <3> DEFINE c == [user[u] EXCEPT !.pc = p, !.hit = user[u].hit + 1]
    <3>1. user[u].hit + 1 \in 0 .. MaxDrops
      BY <1>0, <2>2, ConnAssumption
    <3>2. c \in Call /\ c.hit = user[u].hit + 1 /\ c.pc = p
      BY <3>1, <1>0, <2>2, ConnAssumption DEF Call, CallPhase
    <3>3. CallOK(u)'  BY <1>0, <2>0, <2>2, <3>2 DEF CallOK
    <3>m. user' \in [Users -> Call] /\ \A v \in Users \ {u} : user'[v] = user[v]
      BY <1>0, <2>0, <2>2, <3>2, <3>3, ConnAssumption
    <3>h. user'[u].hit =< drops' /\ drops' \in 0 .. MaxDrops /\ drops' >= drops
      BY <1>0, <2>0, <2>2, <3>2, <3>3, ConnAssumption, ConnAssumption
    <3> QED  BY <1>0, <2>0, <2>2, <3>2, <3>3, ConnAssumption, <3>m, <3>h, OneCallMoves
  <2> QED  BY <1>2, <2>1, <2>2 DEF OpenFails, AfterFailure, IsOpen
<1> QED  BY <1>1, <1>2

\* reconnect(): it dials only when c.conn is closed, and then nothing else
\* is open.
LEMMA RedialPreserves ==
  ASSUME ConnInv, NEW u \in Users, Redial(u)
  PROVE  ConnInv'
<1> DEFINE p == IF user[u].pc = "redial" THEN "reread" ELSE "reread2"
           c == [user[u] EXCEPT !.pc = p]
<1>0. user \in [Users -> Call] /\ user[u] \in Call /\ CallOK(u) /\ user[u].hit =< drops
      /\ drops \in 0 .. MaxDrops /\ drops \in Nat /\ dialled \in Nat
  BY ConnAssumption DEF ConnInv, ConnTypeOK, Paid
<1>1. user' = [user EXCEPT ![u] = c] /\ UNCHANGED drops /\ user[u].pc \in {"redial", "redial2"}
  BY DEF Redial, CallGoto, AfterRedial
<1>2. c \in Call /\ c.hit = user[u].hit /\ c.pc = p
  BY <1>0 DEF Call, CallPhase
<1>3. CASE conn \in open
  <2>1. UNCHANGED <<conn, open, dialled>>  BY <1>3 DEF Redial, IsOpen
  <2>2. CallOK(u)'  BY <1>0, <1>1, <1>2, <1>3, <2>1 DEF CallOK
  <2>m. user' \in [Users -> Call] /\ \A v \in Users \ {u} : user'[v] = user[v]
    BY <1>0, <1>1, <1>2, <2>1, <2>2
  <2>h. user'[u].hit =< drops' /\ drops' \in 0 .. MaxDrops /\ drops' >= drops
    BY <1>0, <1>1, <1>2, <2>1, <2>2, ConnAssumption
  <2> QED  BY <1>0, <1>1, <1>2, <2>1, <2>2, <2>m, <2>h, OneCallMoves
<1>4. CASE conn \notin open
  <2>1. dialled' = dialled + 1 /\ conn' = dialled + 1 /\ open' = open \cup {dialled + 1}
    BY <1>4 DEF Redial, IsOpen, Dial
  <2>2. open = {}  BY <1>4 DEF ConnInv, NoLeakedConnection
  <2>3. ConnTypeOK' /\ NoLeakedConnection'
    BY <1>0, <1>1, <1>2, <1>4, <2>1, <2>2 DEF ConnInv, ConnTypeOK, NoLeakedConnection, Paid
  <2>4. Paid'
    <3>1. ASSUME NEW v \in Users PROVE user'[v].hit =< drops'
      BY <1>0, <1>1, <1>2, <3>1 DEF ConnInv, Paid
    <3> QED  BY <2>1, <3>1 DEF Paid
  <2>5. ASSUME NEW v \in Users PROVE CallOK(v)'
    <3>1. CASE v = u
      BY <1>0, <1>1, <1>2, <2>1, <3>1 DEF CallOK
    <3>2. CASE v # u
      <4>1. user'[v] = user[v]  BY <1>0, <1>1, <3>2
      <4>2. CallOK(v)  BY DEF ConnInv
      <4> QED  BY <2>1, <2>2, <4>1, <4>2 DEF CallOK
    <3> QED  BY <3>1, <3>2
  <2> QED  BY <2>3, <2>4, <2>5 DEF ConnInv
<1> QED  BY <1>3, <1>4

\* A drop is met by every call in progress.
LEMMA DropPreserves ==
  ASSUME ConnInv, NEW n \in open, Drop(n)
  PROVE  ConnInv'
<1> USE DEF ConnInv, ConnTypeOK
<1>0. drops \in Nat /\ dialled \in Nat /\ MaxDrops \in Nat  BY ConnAssumption
<1>1. drops < MaxDrops /\ drops' = drops + 1 /\ open' = open \ {n} /\ UNCHANGED <<conn, dialled>>
  BY DEF Drop
<1>2. ASSUME NEW v \in Users
      PROVE  /\ user'[v] \in Call /\ user'[v].hit =< drops'
             /\ user'[v].pc = user[v].pc /\ user'[v].snap = user[v].snap
             /\ user'[v].refused = user[v].refused
             /\ user'[v].hit = IF InCall(v) THEN user[v].hit + 1 ELSE user[v].hit
  <2>1. user'[v] = IF InCall(v) THEN [user[v] EXCEPT !.hit = user[v].hit + 1] ELSE user[v]
    BY <1>2 DEF Drop
  <2>2. user[v] \in Call /\ user[v].hit =< drops  BY <1>2 DEF Paid
  <2> QED  BY <1>0, <1>1, <2>1, <2>2 DEF Call
<1>3. user' \in [Users -> Call]
  BY <1>2 DEF Drop
<1>4. ConnTypeOK'  BY <1>0, <1>1, <1>3
<1>5. NoLeakedConnection'  BY <1>1 DEF NoLeakedConnection
<1>6. Paid'
  <2>1. dialled' =< drops'  BY <1>0, <1>1
  <2> QED  BY <1>2, <2>1 DEF Paid
<1>7. ASSUME NEW v \in Users PROVE CallOK(v)'
  <2>1. CallOK(v) /\ user[v].hit \in Nat  BY <1>7 DEF Call
  <2> QED  BY <1>1, <1>2, <2>1 DEF CallOK, InCall
<1> QED  BY <1>4, <1>5, <1>6, <1>7

\* Every step preserves the invariant.
LEMMA ConnNextInv == ConnInv /\ [ConnNext]_connVars => ConnInv'
<1> SUFFICES ASSUME ConnInv, [ConnNext]_connVars PROVE ConnInv'  OBVIOUS
<1>1. ASSUME NEW u \in Users, Channel(u) \/ CallStep(u) \/ Return(u) PROVE ConnInv'
  BY <1>1, ReadsPreserve, FailuresPreserve, RedialPreserves DEF CallStep
<1>2. ASSUME NEW n \in open, Drop(n) PROVE ConnInv'
  BY <1>2, DropPreserves
<1>3. CASE UNCHANGED connVars
  <2>1. UNCHANGED <<conn, open, dialled, user, drops>>  BY <1>3 DEF connVars
  <2>2. ConnTypeOK' /\ NoLeakedConnection' /\ Paid'
    BY <2>1 DEF ConnInv, ConnTypeOK, NoLeakedConnection, Paid
  <2>3. ASSUME NEW u \in Users PROVE CallOK(u)'
    BY <2>1, <2>3 DEF ConnInv, CallOK
  <2> QED  BY <2>2, <2>3 DEF ConnInv
<1> QED  BY <1>1, <1>2, <1>3 DEF ConnNext

\* The connection's invariant holds for any number of reconnecting goroutines.
LEMMA ConnSpecInv == ConnSpec => []ConnInv
  BY ConnInitInv, ConnNextInv, PTL DEF ConnSpec

\* Types, and: c.conn is always the connection dialled last, each dial after
\* NewConnection's answering a drop.
THEOREM ConnTypeCorrect == ConnSpec => []ConnTypeOK
<1>1. ConnInv => ConnTypeOK  BY DEF ConnInv
<1> QED  BY <1>1, ConnSpecInv, PTL

\* However many goroutines call reconnect() at once, only c.conn is open: the
\* double check under the write lock leaks no connection.
THEOREM NoLeak == ConnSpec => []NoLeakedConnection
<1>1. ConnInv => NoLeakedConnection  BY DEF ConnInv
<1> QED  BY <1>1, ConnSpecInv, PTL

\* Channel() fails only when a dial was refused or two faults hit the call:
\* "reconnect once and retry" survives any single fault.
THEOREM OneFault == ConnSpec => []OneFaultIsSurvived
<1>1. ConnInv => OneFaultIsSurvived  BY DEF ConnInv, CallOK, OneFaultIsSurvived
<1> QED  BY <1>1, ConnSpecInv, PTL

-----------------------------------------------------------------------------
(* Publishers and consumers.                                               *)

Draining == {"drain", "handle", "settle"}

DeliveryTypes ==
    /\ place \in [Copies -> Place]
    /\ declared \subseteq Objects
    /\ pub \in [Messages -> PubPhase]
    /\ consumer \in [Consumers -> ConsumerState]
    /\ lost \subseteq Users
    /\ processed \subseteq Copies
    /\ faults \in 0 .. MaxFaults

\* No call has seen a connection that is still to be dialled.
SnapsAreDialled == \A u \in Users : user[u].snap =< dialled

\* From Consume to ch.Close() the consumer has its channel and all is declared.
DrainsAreSetUp ==
    \A c \in Consumers : consumer[c].pc \in Draining => user[c].pc = "ok" /\ declared = Objects

\* Unacknowledged copies are on open channels that are being drained.
HeldOnOpenChannels ==
    \A x \in Copies : place[x] \in Consumers
                        => Alive(place[x]) /\ consumer[place[x]].pc \in Draining

\* The delivery in the handler's hands is still the consumer's own, unless its
\* channel is dead; its result is what the handler returned.
InHand ==
    \A c \in Consumers : consumer[c].pc \in {"handle", "settle"} =>
        /\ consumer[c].d \in Copies
        /\ Alive(c) => place[consumer[c].d] = c
        /\ consumer[c].pc = "settle" /\ ~consumer[c].herr => consumer[c].d \in processed

\* A copy that is still to be published is nowhere.
Unpublished ==
    \A m \in Messages :
        /\ pub[m] \in {"new", "first"} => place[<<m, 1>>] = "none"
        /\ pub[m] \in {"new", "first", "reopen", "second"} => place[<<m, 2>>] = "none"

DeliveryInv ==
    /\ ConnInv /\ DeliveryTypes /\ SnapsAreDialled /\ DrainsAreSetUp
    /\ HeldOnOpenChannels /\ InHand /\ Unpublished /\ AckedWasProcessed

-----------------------------------------------------------------------------
(* The composition uses the connection as its specification says. *)

\* Publish and Subscribe touch the connection only through Channel() and
\* ch.Close(), and the broker through a drop.
LEMMA StepsUseConnection == [Next]_vars => [ConnNext]_connVars
<1> SUFFICES ASSUME [Next]_vars PROVE ConnNext \/ UNCHANGED connVars  OBVIOUS
<1>u. Messages \subseteq Users /\ Consumers \subseteq Users  BY DeliveryAssumption
<1>1. ASSUME NEW u \in Users, CallChannel(u) \/ InChannel(u) \/ CloseChannel(u)
      PROVE  ConnNext \/ UNCHANGED connVars
  BY <1>1 DEF CallChannel, InChannel, CloseChannel, ConnNext
<1>2. ASSUME NEW m \in Messages, PublisherStep(m) PROVE ConnNext \/ UNCHANGED connVars
  BY <1>u, <1>1, <1>2
     DEF PublisherStep, Publish, PublishReturns, PublishErrs, Reopened, OpenChannelErrs
<1>3. ASSUME NEW c \in Consumers, ConsumerStep(c) \/ Stop(c) PROVE ConnNext \/ UNCHANGED connVars
  BY <1>u, <1>1, <1>3
     DEF ConsumerStep, Declare, Consume, SetupFails, WakeUp, Settle, DrainEnds, Restart, Handle,
         HandlerReturns, Stop
<1>4. ASSUME NEW c \in Consumers, NEW x \in Copies, Deliver(c, x) PROVE UNCHANGED connVars
  BY <1>4 DEF Deliver
<1>5. ASSUME NEW u \in Users, ChannelLost(u) PROVE UNCHANGED connVars
  BY <1>5 DEF ChannelLost
<1>6. ASSUME NEW n \in open, ConnectionLost(n) PROVE ConnNext
  BY <1>6 DEF ConnectionLost, ConnNext
<1>7. CASE UNCHANGED vars
  BY <1>7 DEF vars
<1> QED  BY <1>2, <1>3, <1>4, <1>5, <1>6, <1>7 DEF Next

\* The composition implements the specification of the shared connection.
THEOREM UsesConnectionHolds == Spec => UsesConnection
<1>1. Init => ConnInit  BY DEF Init
<1> QED  BY <1>1, StepsUseConnection, PTL DEF Spec, UsesConnection

\* A step of u's Channel() call, or its end, leaves the other calls alone, and
\* the connection each of them holds stays as open as it was.
LEMMA OthersKeepTheirChannels ==
  ASSUME ConnInv, SnapsAreDialled, NEW u \in Users, Channel(u) \/ CallStep(u) \/ Return(u)
  PROVE  /\ SnapsAreDialled'
         /\ user' \in [Users -> Call]
         /\ \A v \in Users \ {u} : /\ user'[v] = user[v]
                                   /\ user[v].snap \in open' <=> user[v].snap \in open
<1>0. /\ user \in [Users -> Call] /\ dialled \in Nat /\ conn = dialled /\ dialled >= 1
      /\ ConnInv'
  BY ConnNextInv, ConnAssumption DEF ConnInv, ConnTypeOK, ConnNext
<1>1. user' \in [Users -> Call]  BY <1>0 DEF ConnInv, ConnTypeOK
<1>2. \A v \in Users \ {u} : user'[v] = user[v]
  BY <1>0 DEF Channel, CallStep, Return, Look, Redial, RedialFails, Reread, OpenChannel, OpenFails,
              Snap, CallGoto
<1>3. user'[u].snap \in {user[u].snap, conn, 1}
  <2>1. user[u] \in Call  BY <1>0
  <2>2. CASE Channel(u) \/ Reread(u)
    <3>1. PICK pc : Snap(u, pc)  BY <2>2 DEF Channel, Reread
    <3>2. user' = [user EXCEPT ![u] = [user[u] EXCEPT !.pc = pc, !.snap = conn]]  BY <3>1 DEF Snap
    <3>3. [user[u] EXCEPT !.pc = pc, !.snap = conn].snap = conn  BY <2>1 DEF Call
    <3> QED  BY <1>0, <3>2, <3>3
  <2>3. CASE Look(u) \/ Redial(u) \/ OpenChannel(u)
    BY <1>0, <2>1, <2>3 DEF Look, Redial, OpenChannel, CallGoto, Call
  <2>4. CASE RedialFails(u)
    <3>1. user' = [user EXCEPT ![u] = [user[u] EXCEPT !.pc = "failed", !.refused = TRUE]]
      BY <2>4 DEF RedialFails
    <3>2. [user[u] EXCEPT !.pc = "failed", !.refused = TRUE].snap = user[u].snap  BY <2>1 DEF Call
    <3> QED  BY <1>0, <3>1, <3>2
  <2>6. CASE Return(u)
    BY <1>0, <2>1, <2>6 DEF Return, NoCall
  <2>5. CASE OpenFails(u)
    BY <1>0, <2>1, <2>5 DEF OpenFails, CallGoto, Call
  <2> QED  BY <2>2, <2>3, <2>4, <2>5, <2>6 DEF CallStep
<1>4. \/ dialled' = dialled /\ open' = open
      \/ dialled' = dialled + 1 /\ open' = open \cup {dialled + 1}
  BY DEF Channel, CallStep, Return, Look, Redial, RedialFails, Reread, OpenChannel, OpenFails, Dial
<1>5. \A v \in Users : user[v].snap \in Nat /\ user[v].snap =< dialled
  BY <1>0 DEF SnapsAreDialled, Call
<1>6. SnapsAreDialled'
  <2> SUFFICES ASSUME NEW v \in Users PROVE user'[v].snap =< dialled'  BY DEF SnapsAreDialled
  <2>1. user'[v].snap \in {user[v].snap, conn, 1}  BY <1>2, <1>3
  <2> QED  BY <2>1, <1>0, <1>4, <1>5
<1>7. \A v \in Users : user[v].snap \in open' <=> user[v].snap \in open
  BY <1>0, <1>4, <1>5
<1> QED  BY <1>1, <1>2, <1>6, <1>7

-----------------------------------------------------------------------------
(* What the steps of the composition preserve. *)

\* A Channel() call in progress, of a publisher or of a consumer that sets up.
LEMMA CallsPreserve ==
  ASSUME DeliveryInv, NEW u \in Users, CallChannel(u) \/ InChannel(u)
  PROVE  DeliveryInv'
<1>1. Channel(u) \/ CallStep(u)  BY DEF CallChannel, InChannel
<1>2. UNCHANGED deliveryVars  BY DEF CallChannel, InChannel
<1>3. user[u].pc # "ok"
  BY <1>1 DEF Channel, CallStep, Look, Redial, RedialFails, Reread, OpenChannel, OpenFails
<1>4. ConnInv' /\ SnapsAreDialled'
      /\ \A v \in Users \ {u} : user'[v] = user[v] /\ (user[v].snap \in open' <=> user[v].snap \in open)
  BY <1>1, OthersKeepTheirChannels, ConnNextInv DEF DeliveryInv, ConnNext
<1>5. \A v \in Users \ {u} : Alive(v)' <=> Alive(v)
  BY <1>2, <1>4 DEF Alive, IsOpen, deliveryVars
<1>6. ~Alive(u)  BY <1>3 DEF Alive
<1>7. Consumers \subseteq Users  BY DeliveryAssumption
<1>8. u \in Consumers => consumer[u].pc \notin Draining
  BY <1>3 DEF DeliveryInv, DrainsAreSetUp
<1>9. DeliveryTypes' /\ Unpublished' /\ AckedWasProcessed'
  BY <1>2 DEF DeliveryInv, DeliveryTypes, Unpublished, AckedWasProcessed, deliveryVars
<1>10. DrainsAreSetUp'
  BY <1>2, <1>4, <1>7, <1>8 DEF DeliveryInv, DrainsAreSetUp, deliveryVars
<1>11. HeldOnOpenChannels'
  BY <1>2, <1>5, <1>6, <1>7 DEF DeliveryInv, HeldOnOpenChannels, deliveryVars
<1>12. InHand'
  BY <1>2, <1>5, <1>7, <1>8 DEF DeliveryInv, InHand, Draining, deliveryVars
<1> QED  BY <1>4, <1>9, <1>10, <1>11, <1>12 DEF DeliveryInv

\* A connection is lost: the copies on its channels are ready again.
LEMMA ConnectionLostPreserves ==
  ASSUME DeliveryInv, NEW n \in open, ConnectionLost(n)
  PROVE  DeliveryInv'
<1>1. /\ open' = open \ {n} /\ dialled' = dialled
      /\ place' = Requeued({c \in Consumers : user[c].pc = "ok" /\ user[c].snap = n})
      /\ UNCHANGED <<declared, pub, consumer, lost, processed, faults>>
  BY DEF ConnectionLost, Drop
<1>2. ConnInv' /\ user \in [Users -> Call]
  BY ConnNextInv DEF ConnectionLost, ConnNext, DeliveryInv, ConnInv, ConnTypeOK
<1>3. \A v \in Users : user'[v].pc = user[v].pc /\ user'[v].snap = user[v].snap
  BY <1>2 DEF ConnectionLost, Drop, Call
<1>4. Consumers \subseteq Users  BY DeliveryAssumption
<1>5. \A v \in Users : Alive(v)' <=> Alive(v) /\ user[v].snap # n
  BY <1>1, <1>3 DEF Alive, IsOpen
<1>6. \A x \in Copies : \/ place'[x] = place[x] /\ (place[x] \in Consumers => user[place[x]].snap # n)
                        \/ place'[x] = "ready" /\ place[x] \in Consumers /\ user[place[x]].snap = n
  BY <1>1, <1>4 DEF Requeued, DeliveryInv, HeldOnOpenChannels, Alive
<1>7. \A c \in Consumers : c \notin {"none", "dropped", "ready", "dlq", "acked"}
  BY DeliveryAssumption
<1>8. SnapsAreDialled'  BY <1>1, <1>3 DEF DeliveryInv, SnapsAreDialled
<1>9. DeliveryTypes'
  BY <1>1, <1>6 DEF DeliveryInv, DeliveryTypes, Requeued, Place
<1>10. DrainsAreSetUp'
  BY <1>1, <1>3, <1>4 DEF DeliveryInv, DrainsAreSetUp
<1>11. HeldOnOpenChannels'
  BY <1>1, <1>4, <1>5, <1>6, <1>7 DEF DeliveryInv, HeldOnOpenChannels
<1>12. InHand'
  BY <1>1, <1>4, <1>5, <1>6, <1>7 DEF DeliveryInv, InHand
<1>13. Unpublished'
  <2>1. \A m \in Messages : <<m, 1>> \in Copies /\ <<m, 2>> \in Copies  BY DEF Copies
  <2> QED  BY <1>1, <1>6, <1>7, <2>1 DEF DeliveryInv, Unpublished
<1>14. AckedWasProcessed'
  BY <1>1, <1>6 DEF DeliveryInv, AckedWasProcessed
<1> QED  BY <1>2, <1>8, <1>9, <1>10, <1>11, <1>12, <1>13, <1>14 DEF DeliveryInv

\* The broker closes the channel of u: the copies on it are ready again.
LEMMA ChannelLostPreserves ==
  ASSUME DeliveryInv, NEW u \in Users, ChannelLost(u)
  PROVE  DeliveryInv'
<1>1. /\ lost' = lost \cup {u} /\ place' = Requeued({u}) /\ faults' = faults + 1 /\ faults < MaxFaults
      /\ UNCHANGED <<connVars, declared, pub, consumer, processed>>
  BY DEF ChannelLost, Fault
<1>2. UNCHANGED <<conn, open, dialled, user, drops>>  BY <1>1 DEF connVars
<1>3. ConnInv' /\ SnapsAreDialled'
  BY <1>1, <1>2, ConnNextInv DEF DeliveryInv, SnapsAreDialled
<1>4. \A v \in Users : Alive(v)' <=> Alive(v) /\ v # u
  BY <1>1, <1>2 DEF Alive, IsOpen
<1>5. \A x \in Copies : place'[x] = IF place[x] = u THEN "ready" ELSE place[x]
  BY <1>1 DEF Requeued
<1>6. Consumers \subseteq Users /\ \A v \in Users : v \notin {"none", "dropped", "ready", "dlq", "acked"}
  BY DeliveryAssumption
<1>7. DeliveryTypes'
  <2>1. faults' \in 0 .. MaxFaults
    BY <1>1, DeliveryAssumption DEF DeliveryInv, DeliveryTypes
  <2>2. place' \in [Copies -> Place]
    BY <1>1 DEF DeliveryInv, DeliveryTypes, Requeued, Place
  <2> QED  BY <1>1, <2>1, <2>2 DEF DeliveryInv, DeliveryTypes
<1>8. DrainsAreSetUp'
  BY <1>1, <1>2 DEF DeliveryInv, DrainsAreSetUp
<1>9. HeldOnOpenChannels'
  BY <1>1, <1>4, <1>5, <1>6 DEF DeliveryInv, HeldOnOpenChannels
<1>10. InHand'
  BY <1>1, <1>4, <1>5, <1>6 DEF DeliveryInv, InHand
<1>11. Unpublished'
  <2>1. \A m \in Messages : <<m, 1>> \in Copies /\ <<m, 2>> \in Copies  BY DEF Copies
  <2>2. ASSUME NEW x \in Copies, place[x] = "none" PROVE place'[x] = "none"
    BY <2>2, <1>5, <1>6
  <2> QED  BY <1>1, <2>1, <2>2 DEF DeliveryInv, Unpublished
<1>12. AckedWasProcessed'
  BY <1>1, <1>5 DEF DeliveryInv, AckedWasProcessed
<1> QED  BY <1>3, <1>7, <1>8, <1>9, <1>10, <1>11, <1>12 DEF DeliveryInv

\* A step of consumer c that touches neither its channel nor the copies.
LEMMA ConsumerMoves ==
  ASSUME DeliveryInv, NEW c \in Consumers, NEW r \in ConsumerState,
         consumer' = [consumer EXCEPT ![c] = r],
         UNCHANGED <<connVars, place, pub, lost, faults>>,
         declared \subseteq declared', declared' \subseteq Objects,
         processed \subseteq processed', processed' \subseteq Copies,
         consumer[c].pc \in Draining => r.pc \in Draining,
         r.pc \in Draining => user[c].pc = "ok" /\ declared' = Objects,
         r.pc \in {"handle", "settle"} =>
             /\ r.d \in Copies
             /\ Alive(c) => place[r.d] = c
             /\ r.pc = "settle" /\ ~r.herr => r.d \in processed'
  PROVE  DeliveryInv'
<1>1. UNCHANGED <<conn, open, dialled, user, drops>>  BY DEF connVars
<1>2. ConnInv' /\ SnapsAreDialled'
  BY <1>1, ConnNextInv DEF DeliveryInv, SnapsAreDialled
<1>3. \A v \in Users : Alive(v)' <=> Alive(v)
  BY <1>1 DEF Alive, IsOpen
<1>4. Consumers \subseteq Users  BY DeliveryAssumption
<1>5. \A d \in Consumers : consumer'[d] = IF d = c THEN r ELSE consumer[d]
  BY DEF DeliveryInv, DeliveryTypes
<1>6. DeliveryTypes' /\ Unpublished' /\ AckedWasProcessed'
  BY DEF DeliveryInv, DeliveryTypes, Unpublished, AckedWasProcessed
<1>7. DrainsAreSetUp'
  BY <1>1, <1>5 DEF DeliveryInv, DrainsAreSetUp
<1>8. HeldOnOpenChannels'
  BY <1>3, <1>4, <1>5 DEF DeliveryInv, HeldOnOpenChannels
<1>9. InHand'
  <2> SUFFICES ASSUME NEW d \in Consumers, consumer'[d].pc \in {"handle", "settle"}
               PROVE  /\ consumer'[d].d \in Copies
                      /\ Alive(d)' => place'[consumer'[d].d] = d
                      /\ consumer'[d].pc = "settle" /\ ~consumer'[d].herr => consumer'[d].d \in processed'
    BY DEF InHand
  <2>1. CASE d = c  BY <2>1, <1>3, <1>4, <1>5
  <2>2. CASE d # c  BY <2>2, <1>3, <1>4, <1>5 DEF DeliveryInv, InHand
  <2> QED  BY <2>1, <2>2
<1> QED  BY <1>2, <1>6, <1>7, <1>8, <1>9 DEF DeliveryInv

\* Setup, waits, and the handler's work.
LEMMA ConsumerStepsPreserve ==
  ASSUME DeliveryInv, NEW c \in Consumers,
         \/ \E o \in Objects : Declare(c, o)
         \/ Consume(c) \/ WakeUp(c) \/ Restart(c)
         \/ \E x \in Copies : Handle(c, x)
         \/ \E herr \in BOOLEAN : HandlerReturns(c, herr)
  PROVE  DeliveryInv'
<1>0. /\ consumer \in [Consumers -> ConsumerState] /\ consumer[c] \in ConsumerState
      /\ declared \subseteq Objects /\ processed \subseteq Copies
  BY DEF DeliveryInv, DeliveryTypes
<1>1. ASSUME NEW o \in Objects, Declare(c, o) PROVE DeliveryInv'
  <2>1. consumer' = [consumer EXCEPT ![c] = consumer[c]] /\ consumer[c].pc = "setup"
    BY <1>0, <1>1 DEF Declare
  <2>2. declared' = declared \cup {o} /\ UNCHANGED <<connVars, place, pub, lost, processed, faults>>
    BY <1>1 DEF Declare
  <2> QED  BY <1>0, <2>1, <2>2, ConsumerMoves DEF Draining
<1>2. ASSUME NEW pc \in {"drain", "setup"}, NEW bo \in 1 .. MaxBackoff,
             consumer' = [consumer EXCEPT ![c] = At(pc, bo)],
             UNCHANGED <<connVars, place, declared, pub, lost, processed, faults>>,
             consumer[c].pc \notin Draining, pc = "drain" => Alive(c) /\ declared = Objects
      PROVE  DeliveryInv'
  <2>1. At(pc, bo) \in ConsumerState /\ At(pc, bo).pc = pc  BY <1>2 DEF At, ConsumerState
  <2>2. pc = "drain" => user[c].pc = "ok"  BY <1>2 DEF Alive
  <2> HIDE DEF At
  <2> QED  BY <1>0, <1>2, <2>1, <2>2, ConsumerMoves DEF Draining
<1>3. CASE Consume(c)
  <2>1. 1 \in 1 .. MaxBackoff  BY DeliveryAssumption
  <2> QED  BY <1>2, <1>3, <2>1 DEF Consume, Draining
<1>4. CASE WakeUp(c)
  <2>1. NextBackoff(consumer[c].bo) \in 1 .. MaxBackoff
    BY <1>0, DeliveryAssumption DEF NextBackoff, ConsumerState
  <2>2. consumer' = [consumer EXCEPT ![c] = At("setup", NextBackoff(consumer[c].bo))]
    BY <1>0, <1>4 DEF WakeUp
  <2> HIDE DEF NextBackoff
  <2> QED  BY <1>2, <1>4, <2>1, <2>2 DEF WakeUp, Draining
<1>5. CASE Restart(c)
  <2>1. 1 \in 1 .. MaxBackoff  BY DeliveryAssumption
  <2> QED  BY <1>2, <1>5, <2>1 DEF Restart, Draining
<1>6. ASSUME NEW x \in Copies, Handle(c, x) PROVE DeliveryInv'
  <2> DEFINE r == [consumer[c] EXCEPT !.pc = "handle", !.d = x]
  <2>1. consumer' = [consumer EXCEPT ![c] = r] /\ place[x] = c /\ consumer[c].pc = "drain"
        /\ UNCHANGED <<connVars, place, declared, pub, lost, processed, faults>>
    BY <1>6 DEF Handle
  <2>2. r \in ConsumerState /\ r.pc = "handle" /\ r.d = x
    BY <1>0 DEF ConsumerState
  <2>3. user[c].pc = "ok" /\ declared = Objects
    BY <2>1 DEF DeliveryInv, DrainsAreSetUp, Draining
  <2> HIDE DEF r
  <2> QED  BY <1>0, <2>1, <2>2, <2>3, ConsumerMoves DEF Draining
<1>7. ASSUME NEW herr \in BOOLEAN, HandlerReturns(c, herr) PROVE DeliveryInv'
  <2> DEFINE r == [consumer[c] EXCEPT !.pc = "settle", !.herr = herr]
  <2>1. consumer' = [consumer EXCEPT ![c] = r] /\ consumer[c].pc = "handle"
        /\ processed' = (IF herr THEN processed ELSE processed \cup {consumer[c].d})
        /\ UNCHANGED <<connVars, place, declared, pub, lost, faults>>
    BY <1>7 DEF HandlerReturns
  <2>2. r \in ConsumerState /\ r.pc = "settle" /\ r.d = consumer[c].d /\ r.herr = herr
    BY <1>0 DEF ConsumerState
  <2>3. user[c].pc = "ok" /\ declared = Objects
    BY <2>1 DEF DeliveryInv, DrainsAreSetUp, Draining
  <2>4. consumer[c].d \in Copies /\ (Alive(c) => place[consumer[c].d] = c)
    BY <2>1 DEF DeliveryInv, InHand
  <2> HIDE DEF r
  <2> QED  BY <1>0, <2>1, <2>2, <2>3, <2>4, ConsumerMoves DEF Draining
<1> QED  BY <1>1, <1>3, <1>4, <1>5, <1>6, <1>7

\* ch.Close() of u's channel, seen from the other users.
LEMMA OthersSurviveClose ==
  ASSUME DeliveryInv, NEW u \in Users, CloseChannel(u)
  PROVE  /\ ConnInv' /\ SnapsAreDialled'
         /\ ~Alive(u)'
         /\ \A v \in Users \ {u} : user'[v] = user[v] /\ (Alive(v)' <=> Alive(v))
         /\ lost' \subseteq Users
<1>1. lost' = lost \ {u}  BY DEF CloseChannel
<1>2. lost' \subseteq Users  BY <1>1 DEF DeliveryInv, DeliveryTypes
<1>3. CASE user[u].pc = "idle"
  <2>1. UNCHANGED connVars  BY <1>3 DEF CloseChannel
  <2>2. UNCHANGED <<conn, open, dialled, user, drops>>  BY <2>1 DEF connVars
  <2>3. ConnInv' /\ SnapsAreDialled'  BY <2>1, <2>2, ConnNextInv DEF DeliveryInv, SnapsAreDialled
  <2> QED  BY <1>1, <1>2, <1>3, <2>2, <2>3 DEF Alive, IsOpen
<1>4. CASE user[u].pc # "idle"
  <2>1. Return(u)  BY <1>4 DEF CloseChannel
  <2>2. ConnInv'  BY <2>1, ConnNextInv DEF DeliveryInv, ConnNext
  <2>3. user'[u] = NoCall /\ open' = open
    BY <2>1 DEF Return, DeliveryInv, ConnInv, ConnTypeOK
  <2>4. ~Alive(u)'  BY <2>3 DEF Alive, NoCall
  <2>5. SnapsAreDialled' /\ \A v \in Users \ {u} : user'[v] = user[v]
    BY <2>1, OthersKeepTheirChannels DEF DeliveryInv
  <2> QED  BY <1>1, <1>2, <2>2, <2>3, <2>4, <2>5 DEF Alive, IsOpen
<1> QED  BY <1>3, <1>4

\* Consumer c leaves its channel; the copies that were on it are ready again.
LEMMA ConsumerCloses ==
  ASSUME DeliveryInv, NEW c \in Consumers, NEW r \in ConsumerState, r.pc \notin Draining,
         consumer' = [consumer EXCEPT ![c] = r], CloseChannel(c),
         UNCHANGED <<declared, pub, processed>>, faults' \in 0 .. MaxFaults,
         place' \in [Copies -> Place],
         \A x \in Copies : place'[x] = IF place[x] = c THEN "ready" ELSE place[x]
  PROVE  DeliveryInv'
<1>1. /\ Consumers \subseteq Users
      /\ \A v \in Users : v \notin {"none", "dropped", "ready", "dlq", "acked"}
  BY DeliveryAssumption
<1>2. /\ ConnInv' /\ SnapsAreDialled' /\ lost' \subseteq Users /\ ~Alive(c)'
      /\ \A v \in Users \ {c} : user'[v] = user[v] /\ (Alive(v)' <=> Alive(v))
  BY <1>1, OthersSurviveClose
<1>3. \A d \in Consumers : consumer'[d] = IF d = c THEN r ELSE consumer[d]
  BY DEF DeliveryInv, DeliveryTypes
<1>4. DeliveryTypes'
  BY <1>2 DEF DeliveryInv, DeliveryTypes
<1>5. DrainsAreSetUp'
  BY <1>1, <1>2, <1>3 DEF DeliveryInv, DrainsAreSetUp
<1>6. HeldOnOpenChannels'
  BY <1>1, <1>2, <1>3 DEF DeliveryInv, HeldOnOpenChannels
<1>7. InHand'
  BY <1>1, <1>2, <1>3 DEF DeliveryInv, InHand, Draining
<1>8. Unpublished'
  <2>1. \A m \in Messages : <<m, 1>> \in Copies /\ <<m, 2>> \in Copies  BY DEF Copies
  <2> QED  BY <1>1, <2>1 DEF DeliveryInv, Unpublished
<1>9. AckedWasProcessed'
  BY DEF DeliveryInv, AckedWasProcessed
<1> QED  BY <1>2, <1>4, <1>5, <1>6, <1>7, <1>8, <1>9 DEF DeliveryInv

\* The three ways a consumer leaves its channel.
LEMMA ClosesPreserve ==
  ASSUME DeliveryInv, NEW c \in Consumers, SetupFails(c) \/ DrainEnds(c) \/ Stop(c)
  PROVE  DeliveryInv'
<1>0. /\ consumer \in [Consumers -> ConsumerState] /\ consumer[c] \in ConsumerState
      /\ place \in [Copies -> Place] /\ faults \in 0 .. MaxFaults
  BY DEF DeliveryInv, DeliveryTypes
<1>1. faults' \in 0 .. MaxFaults
  BY <1>0, DeliveryAssumption DEF SetupFails, DrainEnds, Stop, Fault
<1>2. CloseChannel(c) /\ UNCHANGED <<declared, pub, processed>>
  BY DEF SetupFails, DrainEnds, Stop
<1>3. PICK pc \in {"sleep", "stopped"}, bo \in 1 .. MaxBackoff : consumer' = [consumer EXCEPT ![c] = At(pc, bo)]
  <2>1. consumer[c].bo \in 1 .. MaxBackoff /\ 1 \in 1 .. MaxBackoff
    BY <1>0, DeliveryAssumption DEF ConsumerState
  <2>2. ASSUME NEW pc, Goto(c, pc) PROVE consumer' = [consumer EXCEPT ![c] = At(pc, consumer[c].bo)]
    BY <1>0, <2>2 DEF Goto
  <2> QED  BY <2>1, <2>2 DEF SetupFails, DrainEnds, Stop
<1>4. At(pc, bo) \in ConsumerState /\ At(pc, bo).pc \notin Draining
  BY DEF At, ConsumerState, Draining
<1>5. place' \in [Copies -> Place] /\ \A x \in Copies : place'[x] = IF place[x] = c THEN "ready" ELSE place[x]
  <2>1. CASE Stop(c)
    BY <1>0, <2>1 DEF Stop, Requeued, Place
  <2>2. CASE SetupFails(c) \/ DrainEnds(c)
    <3>1. place' = place  BY <2>2 DEF SetupFails, DrainEnds
    <3>2. ~Alive(c) \/ consumer[c].pc \notin Draining
      BY <2>2 DEF SetupFails, DrainEnds, Draining
    <3>3. \A x \in Copies : place[x] # c
      BY <3>2 DEF DeliveryInv, HeldOnOpenChannels
    <3> QED  BY <1>0, <3>1, <3>3
  <2> QED  BY <2>1, <2>2
<1> HIDE DEF At
<1> QED  BY <1>1, <1>2, <1>3, <1>4, <1>5, ConsumerCloses

\* A delivery reaches a consumer's channel, and its settlement the broker.
LEMMA DeliveriesPreserve ==
  ASSUME DeliveryInv, NEW c \in Consumers, Settle(c) \/ \E x \in Copies : Deliver(c, x)
  PROVE  DeliveryInv'
<1>0. /\ consumer \in [Consumers -> ConsumerState] /\ consumer[c] \in ConsumerState
      /\ place \in [Copies -> Place] /\ Consumers \subseteq Users
      /\ \A v \in Users : v \notin {"none", "dropped", "ready", "dlq", "acked"}
      /\ \A m \in Messages : <<m, 1>> \in Copies /\ <<m, 2>> \in Copies
  BY DeliveryAssumption DEF DeliveryInv, DeliveryTypes, Copies
<1>1. UNCHANGED <<connVars, declared, pub, lost, processed, faults>>  BY DEF Settle, Deliver
<1>2. UNCHANGED <<conn, open, dialled, user, drops>>  BY <1>1 DEF connVars
<1>3. ConnInv' /\ SnapsAreDialled'
  BY <1>1, <1>2, ConnNextInv DEF DeliveryInv, SnapsAreDialled
<1>4. \A v \in Users : Alive(v)' <=> Alive(v)
  BY <1>1, <1>2 DEF Alive, IsOpen
<1>5. ASSUME NEW x \in Copies, Deliver(c, x) PROVE DeliveryInv'
  <2>1. /\ place' = [place EXCEPT ![x] = c] /\ place[x] = "ready" /\ Alive(c)
        /\ consumer' = consumer /\ consumer[c].pc \in Draining
    BY <1>5 DEF Deliver, Draining
  <2>2. \A y \in Copies : place'[y] = IF y = x THEN c ELSE place[y]
    BY <1>0, <2>1
  <2>3. DeliveryTypes'
    BY <1>0, <1>1, <2>1 DEF DeliveryInv, DeliveryTypes, Place
  <2>4. DrainsAreSetUp'
    BY <1>1, <1>2, <2>1 DEF DeliveryInv, DrainsAreSetUp
  <2>5. HeldOnOpenChannels'
    BY <1>0, <1>4, <2>1, <2>2 DEF DeliveryInv, HeldOnOpenChannels
  <2>6. InHand'
    BY <1>0, <1>1, <1>4, <2>1, <2>2 DEF DeliveryInv, InHand
  <2>7. Unpublished'
    BY <1>0, <1>1, <2>1, <2>2 DEF DeliveryInv, Unpublished
  <2>8. AckedWasProcessed'
    BY <1>0, <1>1, <2>2 DEF DeliveryInv, AckedWasProcessed
  <2> QED  BY <1>3, <2>3, <2>4, <2>5, <2>6, <2>7, <2>8 DEF DeliveryInv
<1>6. CASE Settle(c)
  <2> DEFINE d == consumer[c].d
  <2>0. consumer[c].pc = "settle" /\ d \in Copies /\ declared = Objects /\ user[c].pc = "ok"
        /\ (Alive(c) => place[d] = c)
        /\ (~consumer[c].herr => d \in processed)
    BY <1>6 DEF Settle, DeliveryInv, InHand, DrainsAreSetUp, Draining
  <2>1. consumer' = [consumer EXCEPT ![c] = At("drain", consumer[c].bo)]
    BY <1>0, <1>6 DEF Settle, Goto
  <2>2. At("drain", consumer[c].bo) \in ConsumerState /\ At("drain", consumer[c].bo).pc = "drain"
    BY <1>0 DEF At, ConsumerState
  <2>3. \A e \in Consumers : consumer'[e] = IF e = c THEN At("drain", consumer[c].bo) ELSE consumer[e]
    BY <1>0, <2>1
  <2>4. Settled(consumer[c].herr) \in {"dlq", "acked"} /\ (Settled(consumer[c].herr) = "acked" => d \in processed)
    BY <2>0 DEF Settled, DeadLettered, Objects
  <2>5. \A x \in Copies : place'[x] = IF Alive(c) /\ x = d THEN Settled(consumer[c].herr) ELSE place[x]
    BY <1>0, <1>6 DEF Settle
  <2>6. place' \in [Copies -> Place]
    BY <1>0, <1>6, <2>0, <2>4 DEF Settle, Place
  <2> HIDE DEF d, At, Settled
  <2>7. DeliveryTypes'
    BY <1>0, <1>1, <2>1, <2>2, <2>6 DEF DeliveryInv, DeliveryTypes
  <2>8. DrainsAreSetUp'
    BY <1>1, <1>2, <2>0, <2>2, <2>3 DEF DeliveryInv, DrainsAreSetUp
  <2>9. HeldOnOpenChannels'
    BY <1>0, <1>4, <2>2, <2>3, <2>4, <2>5 DEF DeliveryInv, HeldOnOpenChannels, Draining
  <2>10. InHand'
    <3> SUFFICES ASSUME NEW e \in Consumers, consumer'[e].pc \in {"handle", "settle"}
                 PROVE  /\ consumer'[e].d \in Copies
                        /\ Alive(e)' => place'[consumer'[e].d] = e
                        /\ consumer'[e].pc = "settle" /\ ~consumer'[e].herr => consumer'[e].d \in processed'
      BY DEF InHand
    <3>1. e # c /\ consumer'[e] = consumer[e]  BY <2>2, <2>3
    <3> QED  BY <1>0, <1>1, <1>4, <2>0, <2>5, <3>1 DEF DeliveryInv, InHand
  <2>11. Unpublished'
    <3>1. \A x \in Copies : place[x] = "none" => place'[x] = "none"
      BY <1>0, <2>0, <2>5
    <3> QED  BY <1>0, <1>1, <3>1 DEF DeliveryInv, Unpublished
  <2>12. AckedWasProcessed'
    BY <1>1, <2>4, <2>5 DEF DeliveryInv, AckedWasProcessed
  <2> QED  BY <1>3, <2>7, <2>8, <2>9, <2>10, <2>11, <2>12 DEF DeliveryInv
<1> QED  BY <1>5, <1>6

\* A publisher goes on; at most the copy it has in hand moves, from nowhere.
LEMMA PublisherMoves ==
  ASSUME DeliveryInv, NEW m \in Messages, NEW q \in PubPhase, NEW i \in {1, 2},
         pub' = [pub EXCEPT ![m] = q],
         UNCHANGED <<declared, consumer, processed>>,
         lost' \subseteq Users, faults' \in 0 .. MaxFaults,
         ConnInv', SnapsAreDialled',
         \A v \in Users \ {m} : user'[v] = user[v] /\ (Alive(v)' <=> Alive(v)),
         place' \in [Copies -> Place],
         \A x \in Copies : \/ place'[x] = place[x]
                           \/ x = <<m, i>> /\ place[x] = "none" /\ place'[x] \in {"ready", "dropped"},
         q \in {"new", "first"} => place'[<<m, 1>>] = "none",
         q \in {"new", "first", "reopen", "second"} => place'[<<m, 2>>] = "none"
  PROVE  DeliveryInv'
<1>0. /\ Consumers \subseteq Users \ {m}
      /\ \A v \in Users : v \notin {"none", "dropped", "ready", "dlq", "acked"}
      /\ \A n \in Messages : <<n, 1>> \in Copies /\ <<n, 2>> \in Copies
      /\ \A n \in Messages \ {m} : <<n, 1>> # <<m, i>> /\ <<n, 2>> # <<m, i>>
  BY DeliveryAssumption DEF Copies
<1>1. DeliveryTypes'
  BY DEF DeliveryInv, DeliveryTypes
<1>2. DrainsAreSetUp'
  BY <1>0 DEF DeliveryInv, DrainsAreSetUp
<1>3. HeldOnOpenChannels'
  BY <1>0 DEF DeliveryInv, HeldOnOpenChannels
<1>4. InHand'
  BY <1>0 DEF DeliveryInv, InHand
<1>5. Unpublished'
  <2> SUFFICES ASSUME NEW n \in Messages
               PROVE  /\ pub'[n] \in {"new", "first"} => place'[<<n, 1>>] = "none"
                      /\ pub'[n] \in {"new", "first", "reopen", "second"} => place'[<<n, 2>>] = "none"
    BY DEF Unpublished
  <2>1. pub'[n] = IF n = m THEN q ELSE pub[n]  BY DEF DeliveryInv, DeliveryTypes
  <2>2. CASE n = m  BY <2>1, <2>2
  <2>3. CASE n # m  BY <1>0, <2>1, <2>3 DEF DeliveryInv, Unpublished
  <2> QED  BY <2>2, <2>3
<1>6. AckedWasProcessed'
  BY DEF DeliveryInv, AckedWasProcessed
<1> QED  BY <1>1, <1>2, <1>3, <1>4, <1>5, <1>6 DEF DeliveryInv

\* NewPublisher, Publish and its one retry.
LEMMA PublisherStepsPreserve ==
  ASSUME DeliveryInv, NEW m \in Messages,
         Publish(m) \/ PublishReturns(m) \/ PublishErrs(m) \/ Reopened(m) \/ OpenChannelErrs(m)
  PROVE  DeliveryInv'
<1> DEFINE i == IF pub[m] = "first" THEN 1 ELSE 2
<1>0. /\ pub \in [Messages -> PubPhase] /\ place \in [Copies -> Place] /\ m \in Users
      /\ <<m, 1>> \in Copies /\ <<m, 2>> \in Copies /\ <<m, 1>> # <<m, 2>>
      /\ lost \subseteq Users /\ faults \in 0 .. MaxFaults /\ i \in {1, 2} /\ Copy(m) = <<m, i>>
  BY DeliveryAssumption DEF DeliveryInv, DeliveryTypes, Copies, Copy
<1>1. /\ pub[m] \in {"new", "first"} => place[<<m, 1>>] = "none"
      /\ pub[m] \in {"new", "first", "reopen", "second"} => place[<<m, 2>>] = "none"
  BY DEF DeliveryInv, Unpublished
<1>2. faults' \in 0 .. MaxFaults
  BY <1>0, DeliveryAssumption DEF Publish, PublishReturns, PublishErrs, Reopened, OpenChannelErrs, Fault
<1>3. Routed \in {"ready", "dropped"}  BY DEF Routed
<1>4. ASSUME UNCHANGED connVars, UNCHANGED lost
      PROVE  /\ ConnInv' /\ SnapsAreDialled' /\ lost' \subseteq Users
             /\ \A v \in Users \ {m} : user'[v] = user[v] /\ (Alive(v)' <=> Alive(v))
  <2>1. UNCHANGED <<conn, open, dialled, user, drops>>  BY <1>4 DEF connVars
  <2> QED  BY <1>0, <1>4, <2>1, ConnNextInv DEF DeliveryInv, SnapsAreDialled, Alive, IsOpen
<1>5. CASE Publish(m) \/ Reopened(m)
  <2>1. PICK q \in {"first", "second"} :
            /\ pub' = [pub EXCEPT ![m] = q]
            /\ q = "first" => pub[m] = "new"
            /\ q = "second" => pub[m] = "reopen"
    BY <1>5 DEF Publish, Reopened
  <2>2. UNCHANGED <<connVars, place, declared, consumer, lost, processed>>
    BY <1>5 DEF Publish, Reopened
  <2>3. q \in PubPhase  BY DEF PubPhase
  <2>4. q \in {"new", "first"} => place'[<<m, 1>>] = "none"  BY <1>1, <2>1, <2>2
  <2>5. place'[<<m, 2>>] = "none"  BY <1>1, <2>1, <2>2
  <2> QED  BY <1>0, <1>2, <1>4, <2>1, <2>2, <2>3, <2>4, <2>5, PublisherMoves
<1>6. CASE PublishReturns(m)
  <2>1. /\ pub' = [pub EXCEPT ![m] = "ok"] /\ pub[m] \in {"first", "second"}
        /\ UNCHANGED <<connVars, declared, consumer, lost, processed>>
    BY <1>6 DEF PublishReturns
  <2>2. PICK to \in {"ready", "dropped"} : place' = [place EXCEPT ![<<m, i>>] = to]
    BY <1>0, <1>3, <1>6 DEF PublishReturns
  <2>3. place[<<m, i>>] = "none"  BY <1>1, <2>1
  <2>4. place' \in [Copies -> Place] /\ <<m, i>> \in Copies
    BY <1>0, <2>2 DEF Place
  <2>5. \A x \in Copies : \/ place'[x] = place[x]
                          \/ x = <<m, i>> /\ place[x] = "none" /\ place'[x] \in {"ready", "dropped"}
    BY <1>0, <2>2, <2>3, <2>4
  <2>6. "ok" \in PubPhase  BY DEF PubPhase
  <2> HIDE DEF i
  <2> QED  BY <1>0, <1>2, <1>4, <2>1, <2>4, <2>5, <2>6, PublisherMoves
<1>7. CASE PublishErrs(m) \/ OpenChannelErrs(m)
  <2>1. CloseChannel(m) /\ UNCHANGED <<declared, consumer, processed>>
    BY <1>7 DEF PublishErrs, OpenChannelErrs
  <2>2. /\ ConnInv' /\ SnapsAreDialled' /\ lost' \subseteq Users
        /\ \A v \in Users \ {m} : user'[v] = user[v] /\ (Alive(v)' <=> Alive(v))
    BY <1>0, <2>1, OthersSurviveClose
  <2>3. CASE OpenChannelErrs(m)
    <3>1. pub' = [pub EXCEPT ![m] = "error"] /\ place' = place
      BY <2>3 DEF OpenChannelErrs
    <3>2. "error" \in PubPhase  BY DEF PubPhase
    <3> QED  BY <1>0, <1>2, <2>1, <2>2, <3>1, <3>2, PublisherMoves
  <2>4. CASE PublishErrs(m)
    <3> DEFINE q == IF pub[m] = "first" THEN "reopen" ELSE "error"
    <3>1. pub' = [pub EXCEPT ![m] = q] /\ q \in PubPhase /\ pub[m] \in {"first", "second"}
      BY <1>0, <2>4 DEF PublishErrs, PubPhase
    <3>2. place[<<m, i>>] = "none"  BY <1>1, <3>1
    <3>3. place' = place \/ place' = [place EXCEPT ![<<m, i>>] = Routed]
      BY <1>0, <2>4 DEF PublishErrs
    <3>4. place' \in [Copies -> Place] /\ <<m, i>> \in Copies
      BY <1>0, <1>3, <3>3 DEF Place
    <3>5. \A x \in Copies : \/ place'[x] = place[x]
                            \/ x = <<m, i>> /\ place[x] = "none" /\ place'[x] \in {"ready", "dropped"}
      BY <1>0, <1>3, <3>2, <3>3, <3>4
    <3>6. q = "reopen" => place'[<<m, 2>>] = "none"
      BY <1>0, <1>1, <3>5
    <3>7. q \in {"reopen", "error"}  OBVIOUS
    <3> HIDE DEF i, q
    <3> QED  BY <1>0, <1>2, <2>1, <2>2, <3>1, <3>4, <3>5, <3>6, <3>7, PublisherMoves
  <2> QED  BY <1>7, <2>3, <2>4
<1> QED  BY <1>5, <1>6, <1>7

-----------------------------------------------------------------------------
LEMMA DeliveryInitInv == Init => DeliveryInv
<1> SUFFICES ASSUME Init PROVE DeliveryInv  OBVIOUS
<1>1. ConnInv  BY ConnInitInv DEF Init
<1>2. /\ \A c \in Consumers : consumer[c] = At("setup", 1)
      /\ \A x \in Copies : place[x] = "none"
      /\ \A m \in Messages : <<m, 1>> \in Copies /\ <<m, 2>> \in Copies
      /\ "none" \notin Consumers
  BY DeliveryAssumption DEF Init, Copies
<1>3. At("setup", 1) \in ConsumerState /\ At("setup", 1).pc = "setup"
  BY DeliveryAssumption DEF At, ConsumerState
<1>4. DeliveryTypes
  BY <1>3, DeliveryAssumption DEF Init, DeliveryTypes, Place, PubPhase
<1>5. SnapsAreDialled
  BY DEF Init, ConnInit, NoCall, SnapsAreDialled
<1>6. DrainsAreSetUp /\ InHand
  BY <1>2, <1>3 DEF DrainsAreSetUp, InHand, Draining
<1>7. HeldOnOpenChannels /\ Unpublished /\ AckedWasProcessed
  BY <1>2 DEF HeldOnOpenChannels, Unpublished, AckedWasProcessed
<1> QED  BY <1>1, <1>4, <1>5, <1>6, <1>7 DEF DeliveryInv

\* Every step preserves the invariant.
LEMMA DeliveryNextInv == DeliveryInv /\ [Next]_vars => DeliveryInv'
<1> SUFFICES ASSUME DeliveryInv, [Next]_vars PROVE DeliveryInv'  OBVIOUS
<1>0. Users = Messages \cup Consumers  BY DeliveryAssumption
<1>1. ASSUME NEW m \in Messages, PublisherStep(m) PROVE DeliveryInv'
  BY <1>0, <1>1, CallsPreserve, PublisherStepsPreserve DEF PublisherStep
<1>2. ASSUME NEW c \in Consumers, ConsumerStep(c) PROVE DeliveryInv'
  BY <1>0, <1>2, CallsPreserve, ConsumerStepsPreserve, ClosesPreserve, DeliveriesPreserve
     DEF ConsumerStep
<1>3. ASSUME NEW c \in Consumers, Stop(c) \/ \E x \in Copies : Deliver(c, x) PROVE DeliveryInv'
  BY <1>3, ClosesPreserve, DeliveriesPreserve
<1>4. ASSUME NEW u \in Users, ChannelLost(u) PROVE DeliveryInv'
  BY <1>4, ChannelLostPreserves
<1>5. ASSUME NEW n \in open, ConnectionLost(n) PROVE DeliveryInv'
  BY <1>5, ConnectionLostPreserves
<1>6. CASE UNCHANGED vars
  <2>1. UNCHANGED connVars /\ UNCHANGED <<place, declared, pub, consumer, lost, processed, faults>>
    BY <1>6 DEF vars, deliveryVars
  <2>2. UNCHANGED <<conn, open, dialled, user, drops>>  BY <2>1 DEF connVars
  <2>3. ConnInv'  BY <2>1, ConnNextInv DEF DeliveryInv
  <2>4. \A u \in Users : Alive(u)' <=> Alive(u)  BY <2>1, <2>2 DEF Alive, IsOpen
  <2>5. DeliveryTypes' /\ SnapsAreDialled' /\ DrainsAreSetUp' /\ Unpublished' /\ AckedWasProcessed'
    BY <2>1, <2>2 DEF DeliveryInv, DeliveryTypes, SnapsAreDialled, DrainsAreSetUp, Unpublished,
                      AckedWasProcessed
  <2>6. HeldOnOpenChannels' /\ InHand'
    BY <1>0, <2>1, <2>4 DEF DeliveryInv, HeldOnOpenChannels, InHand
  <2> QED  BY <2>3, <2>5, <2>6 DEF DeliveryInv
<1> QED  BY <1>1, <1>2, <1>3, <1>4, <1>5, <1>6 DEF Next

\* Messages and consumers agree on where each copy is, at all times.
LEMMA DeliverySpecInv == Spec => []DeliveryInv
  BY DeliveryInitInv, DeliveryNextInv, PTL DEF Spec

\* Types, and: a copy that the broker has given to a consumer is on a channel
\* that is open; when the channel closes the copy is ready again.
THEOREM DeliveryTypeCorrect == Spec => []TypeOK
<1>1. DeliveryInv => TypeOK
  BY DEF DeliveryInv, ConnInv, DeliveryTypes, HeldOnOpenChannels, TypeOK
<1> QED  BY <1>1, DeliverySpecInv, PTL

\* Ack only follows a handler that returned nil for that very copy, whatever
\* channels and connections are lost while it works.
THEOREM AckedIsProcessed == Spec => []AckedWasProcessed
<1>1. DeliveryInv => AckedWasProcessed  BY DEF DeliveryInv
<1> QED  BY <1>1, DeliverySpecInv, PTL

\* From the queue on no step loses a copy: what is ready or with a consumer
\* stays there, is acknowledged or finds the dead-letter queue, which every
\* consumer has declared before it takes its first delivery.
THEOREM NothingIsLost == Spec => NothingVanishes
<1> DEFINE Kept(x) == place[x] \in {"ready"} \cup Consumers
                        => place'[x] \in {"ready", "dlq", "acked"} \cup Consumers
<1>1. ASSUME DeliveryInv, [Next]_vars PROVE \A x \in Copies : Kept(x)
  <2>0. /\ place \in [Copies -> Place] /\ Users = Messages \cup Consumers
        /\ "none" \notin Consumers
    BY <1>1, DeliveryAssumption DEF DeliveryInv, DeliveryTypes
  <2>1. ASSUME UNCHANGED place PROVE \A x \in Copies : Kept(x)
    BY <2>1
  <2>2. ASSUME NEW m \in Messages, PublisherStep(m) PROVE \A x \in Copies : Kept(x)
    <3>1. CASE PublishReturns(m) \/ PublishErrs(m)
      <4>1. pub[m] \in {"first", "second"}  BY <3>1 DEF PublishReturns, PublishErrs
      <4>2. place[Copy(m)] = "none" /\ Copy(m) \in Copies
        BY <1>1, <4>1 DEF DeliveryInv, Unpublished, Copy, Copies
      <4>3. \A x \in Copies : x # Copy(m) => place'[x] = place[x]
        BY <2>0, <3>1, <4>2 DEF PublishReturns, PublishErrs
      <4> QED  BY <2>0, <4>2, <4>3
    <3>2. CASE CallChannel(m) \/ InChannel(m) \/ Publish(m) \/ Reopened(m) \/ OpenChannelErrs(m)
      BY <2>1, <3>2 DEF CallChannel, InChannel, Publish, Reopened, OpenChannelErrs, deliveryVars
    <3> QED  BY <2>2, <3>1, <3>2 DEF PublisherStep
  <2>3. ASSUME NEW c \in Consumers, Settle(c) PROVE \A x \in Copies : Kept(x)
    <3>1. declared = Objects
      BY <1>1, <2>3 DEF Settle, DeliveryInv, DrainsAreSetUp, Draining
    <3>2. Settled(consumer[c].herr) \in {"dlq", "acked"}
      BY <3>1 DEF Settled, DeadLettered, Objects
    <3> QED  BY <2>0, <2>3, <3>2 DEF Settle
  <2>4. ASSUME NEW c \in Consumers, ConsumerStep(c) PROVE \A x \in Copies : Kept(x)
    <3>1. CASE ~Settle(c)
      <4>1. UNCHANGED place
        BY <2>4, <3>1 DEF ConsumerStep, CallChannel, InChannel, Declare, Consume, SetupFails, WakeUp,
                          DrainEnds, Restart, Handle, HandlerReturns, deliveryVars
      <4> QED  BY <2>1, <4>1
    <3> QED  BY <2>3, <3>1
  <2>5. ASSUME NEW S, place' = Requeued(S) PROVE \A x \in Copies : Kept(x)
    BY <2>5 DEF Requeued
  <2>6. ASSUME NEW c \in Consumers, NEW x \in Copies, Deliver(c, x) PROVE \A y \in Copies : Kept(y)
    BY <2>0, <2>6 DEF Deliver
  <2>7. CASE UNCHANGED vars
    BY <2>1, <2>7 DEF vars, deliveryVars
  <2> HIDE DEF Kept
  <2> QED  BY <1>1, <2>2, <2>4, <2>5, <2>6, <2>7 DEF Next, Stop, ChannelLost, ConnectionLost
<1>2. ASSUME DeliveryInv, [Next]_vars PROVE [\A x \in Copies : Kept(x)]_vars
  BY <1>1, <1>2
<1> QED  BY <1>2, DeliverySpecInv, PTL DEF Spec, NothingVanishes

\* What is proved of the connection holds in the composition: reconnect leaks
\* no connection and one fault does not fail a Channel() call, however
\* publishers and consumers share it.
THEOREM ConnectionGuarantees == Spec => [](NoLeakedConnection /\ OneFaultIsSurvived)
<1>1. DeliveryInv => NoLeakedConnection /\ OneFaultIsSurvived
  BY DEF DeliveryInv, ConnInv, CallOK, OneFaultIsSurvived
<1> QED  BY <1>1, DeliverySpecInv, PTL

-----------------------------------------------------------------------------
(* Kafka.  What is inductive is a statement about every reader, not only   *)
(* the owner: a member that lost the partition still commits the message   *)
(* its handler was working on.                                             *)

\* The messages from base up to o were all handed to a handler.
AttemptedTo(o) == base .. o \subseteq attempted

\* A reader's position and the message in hand lie in the log, with nothing
\* passed over below them; what is about to be committed has succeeded.
ReaderOK(p) ==
    /\ member[p].next =< end /\ AttemptedTo(member[p].next - 1)
    /\ member[p].pc \in {"handle", "commit"} =>
          /\ member[p].msg < end /\ member[p].msg \in attempted
          /\ AttemptedTo(member[p].msg)
    /\ member[p].pc = "commit" => member[p].msg \in succeeded

OffsetOK ==
    committed # NoOffset => /\ committed \in 1 .. end /\ committed - 1 \in succeeded
                        /\ AttemptedTo(committed - 1)

KafkaInv == KafkaTypeOK /\ OffsetOK /\ \A p \in Members : ReaderOK(p)

-----------------------------------------------------------------------------
LEMMA KafkaInitInv == KafkaInit => KafkaInv
<1> SUFFICES ASSUME KafkaInit PROVE KafkaInv  OBVIOUS
<1>1. member = [p \in Members |-> [pc |-> "fetch", msg |-> 0, next |-> 0, bo |-> 1]] /\ end = 0
      /\ base = 0 /\ committed = NoOffset /\ attempted = {} /\ succeeded = {} /\ disruptions = 0
      /\ owner \in Members
  BY DEF KafkaInit, Fresh, StartOffset
<1>2. KafkaTypeOK
  BY <1>1, KafkaAssumption DEF KafkaTypeOK, MemberState
<1> QED  BY <1>1, <1>2 DEF KafkaInv, OffsetOK, ReaderOK, AttemptedTo

\* Facts about numbers that every case needs.
LEMMA KafkaTypes ==
  ASSUME KafkaInv
  PROVE  /\ end \in Nat /\ base \in Nat /\ base =< end /\ end =< MaxLog /\ MaxLog \in Nat
         /\ owner \in Members /\ member \in [Members -> MemberState]
         /\ attempted \subseteq 0 .. end - 1 /\ succeeded \subseteq attempted
         /\ disruptions \in 0 .. MaxDisruptions /\ MaxDisruptions \in Nat
         /\ committed \in Nat \cup {NoOffset} /\ NoOffset \notin Nat
         /\ \A p \in Members : member[p] \in MemberState /\ member[p].next \in Nat /\ member[p].msg \in Nat
  BY KafkaAssumption DEF KafkaInv, KafkaTypeOK, MemberState

\* A step of member p that leaves the broker as it is, but for a commit.
LEMMA MemberMoves ==
  ASSUME KafkaInv, NEW p \in Members, NEW r \in MemberState,
         member' = [member EXCEPT ![p] = r],
         UNCHANGED <<end, base, owner>>, disruptions' \in 0 .. MaxDisruptions,
         attempted \subseteq attempted', attempted' \subseteq 0 .. end - 1,
         succeeded \subseteq succeeded', succeeded' \subseteq attempted',
         committed' \in Nat \cup {NoOffset}, OffsetOK',
         r.next =< end, base .. r.next - 1 \subseteq attempted',
         r.pc \in {"handle", "commit"} =>
             r.msg < end /\ r.msg \in attempted' /\ base .. r.msg \subseteq attempted',
         r.pc = "commit" => r.msg \in succeeded'
  PROVE  KafkaInv'
<1>0. member \in [Members -> MemberState]  BY KafkaTypes
<1>1. KafkaTypeOK'  BY <1>0 DEF KafkaInv, KafkaTypeOK
<1>2. ASSUME NEW q \in Members PROVE ReaderOK(q)'
  <2>1. CASE q = p
    <3>1. member'[q] = r  BY <1>0, <2>1
    <3> QED  BY <3>1 DEF ReaderOK, AttemptedTo
  <2>2. CASE q # p
    <3>1. member'[q] = member[q]  BY <1>0, <2>2
    <3> QED  BY <3>1 DEF KafkaInv, ReaderOK, AttemptedTo
  <2> QED  BY <2>1, <2>2
<1> QED  BY <1>1, <1>2 DEF KafkaInv

\* The reader's loop: fetch, handle, commit, with all their failures.
LEMMA LoopPreserves ==
  ASSUME KafkaInv, NEW p \in Members,
         Step(p) \/ FetchFails(p) \/ CommitFails(p) \/ StartReturns(p)
  PROVE  KafkaInv'
<1> DEFINE m == member[p]
<1>0. /\ member[p] \in MemberState /\ m.next \in Nat /\ m.msg \in Nat /\ m.bo \in 1 .. KafkaMaxBackoff
      /\ end \in Nat /\ base \in Nat /\ attempted \subseteq 0 .. end - 1 /\ succeeded \subseteq attempted
      /\ disruptions \in 0 .. MaxDisruptions /\ MaxDisruptions \in Nat /\ committed \in Nat \cup {NoOffset}
      /\ KafkaMaxBackoff \in Nat \ {0} /\ NoOffset \notin Nat
  BY KafkaTypes, KafkaAssumption DEF MemberState
<1>1. ReaderOK(p) /\ OffsetOK  BY DEF KafkaInv
<1>2. /\ m.next =< end /\ base .. m.next - 1 \subseteq attempted
      /\ m.pc \in {"handle", "commit"} =>
            m.msg < end /\ m.msg \in attempted /\ base .. m.msg \subseteq attempted
      /\ m.pc = "commit" => m.msg \in succeeded
  BY <1>1 DEF ReaderOK, AttemptedTo
<1>3. ASSUME UNCHANGED <<end, base, committed>>, attempted \subseteq attempted', succeeded \subseteq succeeded'
      PROVE  OffsetOK'
  BY <1>1, <1>3 DEF OffsetOK, AttemptedTo
<1>4. ASSUME NEW pc \in {"wait", "fetch", "stopped"},
             member' = [member EXCEPT ![p].pc = pc],
             UNCHANGED <<end, base, committed, owner, attempted, succeeded>>, disruptions' \in 0 .. MaxDisruptions
      PROVE  KafkaInv'
  <2> DEFINE r == [m EXCEPT !.pc = pc]
  <2>1. r \in MemberState /\ r.pc = pc /\ r.next = m.next /\ r.msg = m.msg
    BY <1>0 DEF MemberState
  <2>2. member' = [member EXCEPT ![p] = r]  BY <1>4
  <2> HIDE DEF r
  <2> QED  BY <1>0, <1>2, <1>3, <1>4, <2>1, <2>2, MemberMoves
<1>5. CASE FetchFails(p) \/ CommitFails(p) \/ StartReturns(p) \/ HandlerFails(p)
  <2>1. disruptions' \in 0 .. MaxDisruptions
    BY <1>0, <1>5 DEF FetchFails, CommitFails, StartReturns, HandlerFails, Disruption
  <2> QED  BY <1>4, <1>5, <2>1 DEF FetchFails, CommitFails, StartReturns, HandlerFails
<1>6. CASE Fetch(p)
  <2> DEFINE r == [pc |-> "handle", msg |-> m.next, next |-> m.next + 1, bo |-> 1]
  <2>1. /\ member' = [member EXCEPT ![p] = r] /\ m.next < end /\ attempted' = attempted \cup {m.next}
        /\ UNCHANGED <<end, base, committed, owner, succeeded, disruptions>>
    BY <1>6 DEF Fetch
  <2>2. r \in MemberState /\ r.pc = "handle" /\ r.next = m.next + 1 /\ r.msg = m.next
    BY <1>0 DEF MemberState
  <2>3. r.next - 1 = m.next /\ r.next =< end  BY <1>0, <2>1, <2>2
  <2>4. base .. m.next \subseteq attempted'  BY <1>0, <1>2, <2>1
  <2>5. OffsetOK'  BY <1>3, <2>1
  <2>6. attempted' \subseteq 0 .. end - 1  BY <1>0, <2>1
  <2> HIDE DEF r
  <2> QED  BY <1>0, <2>1, <2>2, <2>3, <2>4, <2>5, <2>6, MemberMoves
<1>7. CASE WaitOver(p)
  <2> DEFINE r == [m EXCEPT !.pc = "fetch", !.bo = Doubled(m.bo)]
  <2>1. /\ member' = [member EXCEPT ![p] = r]
        /\ UNCHANGED <<end, base, committed, owner, attempted, succeeded, disruptions>>
    BY <1>7 DEF WaitOver
  <2>2. Doubled(m.bo) \in 1 .. KafkaMaxBackoff  BY <1>0 DEF Doubled
  <2>3. r \in MemberState /\ r.pc = "fetch" /\ r.next = m.next
    BY <1>0, <2>2 DEF MemberState
  <2> HIDE DEF r
  <2> QED  BY <1>0, <1>2, <1>3, <2>1, <2>3, MemberMoves
<1>8. CASE HandlerSucceeds(p)
  <2> DEFINE r == [m EXCEPT !.pc = "commit"]
  <2>1. /\ member' = [member EXCEPT ![p] = r] /\ succeeded' = succeeded \cup {m.msg} /\ m.pc = "handle"
        /\ UNCHANGED <<end, base, committed, owner, attempted, disruptions>>
    BY <1>8 DEF HandlerSucceeds
  <2>2. r \in MemberState /\ r.pc = "commit" /\ r.next = m.next /\ r.msg = m.msg
    BY <1>0 DEF MemberState
  <2> HIDE DEF r
  <2> QED  BY <1>0, <1>2, <1>3, <2>1, <2>2, MemberMoves
<1>9. CASE Commit(p)
  <2> DEFINE r == [m EXCEPT !.pc = "fetch"]
  <2>1. /\ member' = [member EXCEPT ![p] = r] /\ committed' = m.msg + 1 /\ m.pc = "commit"
        /\ UNCHANGED <<end, base, owner, attempted, succeeded, disruptions>>
    BY <1>9 DEF Commit
  <2>2. r \in MemberState /\ r.pc = "fetch" /\ r.next = m.next
    BY <1>0 DEF MemberState
  <2>3. committed' \in Nat /\ committed' - 1 = m.msg /\ committed' \in 1 .. end
    BY <1>0, <1>2, <2>1
  <2>4. OffsetOK'  BY <1>2, <2>1, <2>3 DEF OffsetOK, AttemptedTo
  <2> HIDE DEF r
  <2> QED  BY <1>0, <1>2, <2>1, <2>2, <2>3, <2>4, MemberMoves
<1> QED  BY <1>5, <1>6, <1>7, <1>8, <1>9 DEF Step

\* A message is appended to the log.
LEMMA ProducePreserves == ASSUME KafkaInv, Produce PROVE KafkaInv'
<1>1. end' = end + 1 /\ end < MaxLog
      /\ UNCHANGED <<committed, owner, base, member, attempted, succeeded, disruptions>>
  BY DEF Produce
<1>2. KafkaTypeOK'  BY <1>1, KafkaTypes DEF KafkaInv, KafkaTypeOK
<1>3. OffsetOK'  BY <1>1, KafkaTypes DEF KafkaInv, OffsetOK, AttemptedTo
<1>4. ASSUME NEW p \in Members PROVE ReaderOK(p)'
  BY <1>1, KafkaTypes DEF KafkaInv, ReaderOK, AttemptedTo
<1> QED  BY <1>2, <1>3, <1>4 DEF KafkaInv

\* A member gets the partition, or joins: it starts where the group stands,
\* and where the group has no offset the place it starts from is the new base.
LEMMA AssignmentPreserves ==
  ASSUME KafkaInv, NEW p \in Members, Rebalance(p) \/ Join(p)
  PROVE  KafkaInv'
<1>0. /\ end \in Nat /\ base \in Nat /\ base =< end /\ owner \in Members
      /\ member \in [Members -> MemberState]
      /\ attempted \subseteq 0 .. end - 1 /\ disruptions \in 0 .. MaxDisruptions /\ MaxDisruptions \in Nat
      /\ committed \in Nat \cup {NoOffset} /\ NoOffset \notin Nat
      /\ \A q \in Members : member[q] \in MemberState /\ member[q].next \in Nat /\ member[q].msg \in Nat
  BY KafkaTypes
<1>1. /\ base' = (IF committed = NoOffset THEN end ELSE base)
      /\ UNCHANGED <<end, committed, attempted, succeeded>>
  BY DEF Rebalance, Join, Rebase
<1>2. owner' \in Members /\ disruptions' \in 0 .. MaxDisruptions
  BY <1>0 DEF Rebalance, Join, Disruption
<1>3. StartOffset \in Nat /\ StartOffset =< end /\ base' .. StartOffset - 1 \subseteq attempted
      /\ base' \in 0 .. end
  BY <1>0, <1>1 DEF StartOffset, KafkaInv, OffsetOK, AttemptedTo
<1>4. PICK r \in MemberState :
         /\ member' = [member EXCEPT ![p] = r]
         /\ r.next = StartOffset
         /\ r.pc # "fetch" => r.pc = member[p].pc /\ r.msg = member[p].msg
  <2>1. CASE Rebalance(p)
    <3> DEFINE r == [member[p] EXCEPT !.next = StartOffset]
    <3>1. r \in MemberState /\ r.next = StartOffset /\ r.pc = member[p].pc /\ r.msg = member[p].msg
      BY <1>0, <1>3 DEF MemberState
    <3>2. member' = [member EXCEPT ![p] = r]  BY <2>1 DEF Rebalance
    <3> HIDE DEF r
    <3> QED  BY <3>1, <3>2
  <2>2. CASE Join(p)
    <3>1. Fresh \in MemberState /\ Fresh.next = StartOffset /\ Fresh.pc = "fetch"
      BY <1>3, KafkaAssumption DEF Fresh, MemberState
    <3>2. member' = [member EXCEPT ![p] = Fresh]  BY <2>2 DEF Join
    <3> QED  BY <3>1, <3>2
  <2> QED  BY <2>1, <2>2
<1>5. KafkaTypeOK'
  BY <1>0, <1>1, <1>2, <1>3, <1>4 DEF KafkaInv, KafkaTypeOK
<1>6. OffsetOK'
  BY <1>1 DEF KafkaInv, OffsetOK, AttemptedTo
<1>7. ASSUME NEW o \in Int, o < end, base .. o \subseteq attempted PROVE base' .. o \subseteq attempted'
  BY <1>0, <1>1, <1>7
<1>8. ASSUME NEW q \in Members PROVE ReaderOK(q)'
  <2>0. /\ member[q].next \in Nat /\ member[q].msg \in Nat /\ member[q].next - 1 \in Int
        /\ member[q].next =< end /\ base .. member[q].next - 1 \subseteq attempted
        /\ member[q].pc \in {"handle", "commit"} =>
              /\ member[q].msg < end /\ member[q].msg \in attempted
              /\ base .. member[q].msg \subseteq attempted
        /\ member[q].pc = "commit" => member[q].msg \in succeeded
    BY <1>0 DEF KafkaInv, ReaderOK, AttemptedTo
  <2>1. member[q].pc \in {"handle", "commit"} => base' .. member[q].msg \subseteq attempted'
    BY <1>7, <2>0
  <2>2. CASE q = p
    <3>1. member'[q] = r  BY <1>0, <1>4, <2>2
    <3>2. r.pc \in {"handle", "commit"} => r.pc = member[q].pc /\ r.msg = member[q].msg
      BY <1>4, <2>2
    <3> QED  BY <1>1, <1>3, <1>4, <2>0, <2>1, <3>1, <3>2 DEF ReaderOK, AttemptedTo
  <2>3. CASE q # p
    <3>1. member'[q] = member[q]  BY <1>0, <1>4, <2>3
    <3>2. base' .. member[q].next - 1 \subseteq attempted'  BY <1>0, <1>7, <2>0
    <3> QED  BY <1>1, <2>0, <2>1, <3>1, <3>2 DEF ReaderOK, AttemptedTo
  <2> QED  BY <2>2, <2>3
<1> QED  BY <1>5, <1>6, <1>8 DEF KafkaInv

-----------------------------------------------------------------------------
\* Every step preserves the invariant.
LEMMA KafkaNextInv == KafkaInv /\ [KafkaNext]_kafkaVars => KafkaInv'
<1> SUFFICES ASSUME KafkaInv, [KafkaNext]_kafkaVars PROVE KafkaInv'  OBVIOUS
<1>1. CASE KafkaNext
  BY <1>1, ProducePreserves, LoopPreserves, AssignmentPreserves DEF KafkaNext
<1>2. CASE UNCHANGED kafkaVars
  BY <1>2 DEF kafkaVars, KafkaInv, KafkaTypeOK, OffsetOK, ReaderOK, AttemptedTo
<1> QED  BY <1>1, <1>2

\* Every reader's position is justified at all times.
LEMMA KafkaSpecInv == KafkaSpec => []KafkaInv
  BY KafkaInitInv, KafkaNextInv, PTL DEF KafkaSpec

\* Types; the wait between fetches never exceeds its cap.
THEOREM KafkaTypeCorrect == KafkaSpec => []KafkaTypeOK
<1>1. KafkaInv => KafkaTypeOK  BY DEF KafkaInv
<1> QED  BY <1>1, KafkaSpecInv, PTL

\* CommitMessages stores only offsets whose message a handler has accepted,
\* also when the member lost the partition while it worked.
THEOREM CommitFollowsSuccess == KafkaSpec => []CommittedHeadSucceeded
<1>1. KafkaInv => CommittedHeadSucceeded  BY DEF KafkaInv, OffsetOK, CommittedHeadSucceeded
<1> QED  BY <1>1, KafkaSpecInv, PTL

\* No message between the place where the group started and its offset was
\* passed over, through rebalances, restarts and late commits.
THEOREM NoMessageIsSkipped == KafkaSpec => []NothingIsSkipped
<1>1. KafkaInv => NothingIsSkipped
  BY DEF KafkaInv, OffsetOK, AttemptedTo, NothingIsSkipped
<1> QED  BY <1>1, KafkaSpecInv, PTL
=============================================================================
