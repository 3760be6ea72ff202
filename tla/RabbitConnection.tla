-------------------------- MODULE RabbitConnection --------------------------
(***************************************************************************)
(* The shared AMQP connection of pkg/messaging/rabbitmq/connection.go and  *)
(* the goroutines (consumers and publishers) that open channels on it.     *)
(* Channel() reads c.conn under the read lock, looks at it after the       *)
(* unlock and re-dials under the write lock; those are separate steps, and *)
(* the broker may drop the connection between any two of them.  A caller   *)
(* keeps its channel in phase "ok" until it closes it (Return).            *)
(***************************************************************************)
EXTENDS Integers, FiniteSets

CONSTANTS
    Users,     \* goroutines that call Channel()
    MaxDrops   \* bound: drops, refused dials and refused channels

ASSUME ConnAssumption == MaxDrops \in Nat

VARIABLES
    conn,    \* c.conn: the number of a connection
    open,    \* the connections that are open
    dialled, \* connections dialled so far
    user,    \* the Channel() call of each goroutine
    drops    \* drops and refusals so far

connVars == <<conn, open, dialled, user, drops>>

-----------------------------------------------------------------------------
\* pc: look = after the first read of c.conn; redial, reread, open = the first
\* round; redial2, reread2, open2 = the retry; ok, failed = Channel() has
\* returned.
\* snap: the local variable conn.  hit: history, drops met by this call.
CallPhase == {"idle", "look", "redial", "reread", "open", "redial2", "reread2", "open2",
              "ok", "failed"}
Call == [pc : CallPhase, snap : Nat \ {0}, hit : 0 .. MaxDrops, refused : BOOLEAN]

NoCall == [pc |-> "idle", snap |-> 1, hit |-> 0, refused |-> FALSE]

IsOpen(n) == n \in open
InCall(u) == user[u].pc \notin {"idle", "ok", "failed"}

CallGoto(u, pc) == user' = [user EXCEPT ![u].pc = pc]

\* RLock; conn := c.conn; RUnlock
Snap(u, pc) == user' = [user EXCEPT ![u] = [@ EXCEPT !.pc = pc, !.snap = conn]]

-----------------------------------------------------------------------------
Channel(u) ==
    /\ user[u].pc = "idle"
    /\ Snap(u, "look")
    /\ UNCHANGED <<conn, open, dialled, drops>>

\* conn == nil || conn.IsClosed()
Look(u) ==
    /\ user[u].pc = "look"
    /\ CallGoto(u, IF IsOpen(user[u].snap) THEN "open" ELSE "redial")
    /\ UNCHANGED <<conn, open, dialled, drops>>

AfterRedial(pc) == IF pc = "redial" THEN "reread" ELSE "reread2"

Dial ==
    /\ dialled' = dialled + 1 /\ conn' = dialled + 1
    /\ open' = open \cup {dialled + 1}

\* Mutant of Redial: without the double check every caller dials.
RedialAlways(u) ==
    /\ user[u].pc \in {"redial", "redial2"}
    /\ Dial
    /\ CallGoto(u, AfterRedial(user[u].pc))
    /\ UNCHANGED drops

\* reconnect() under the write lock: a no-op when another goroutine has
\* restored the connection.
Redial(u) ==
    /\ user[u].pc \in {"redial", "redial2"}
    /\ IF IsOpen(conn) THEN UNCHANGED <<conn, open, dialled>> ELSE Dial
    /\ CallGoto(u, AfterRedial(user[u].pc))
    /\ UNCHANGED drops

\* The second and third read of c.conn.
Reread(u) ==
    /\ \/ user[u].pc = "reread" /\ Snap(u, "open")
       \/ user[u].pc = "reread2" /\ Snap(u, "open2")
    /\ UNCHANGED <<conn, open, dialled, drops>>

\* dial fails: Channel() returns the error.
RedialFails(u) ==
    /\ user[u].pc \in {"redial", "redial2"}
    /\ ~IsOpen(conn)
    /\ drops < MaxDrops
    /\ drops' = drops + 1
    /\ user' = [user EXCEPT ![u] = [@ EXCEPT !.pc = "failed", !.refused = TRUE]]
    /\ UNCHANGED <<conn, open, dialled>>

\* conn.Channel()
OpenChannel(u) ==
    /\ user[u].pc \in {"open", "open2"}
    /\ IsOpen(user[u].snap)
    /\ CallGoto(u, "ok")
    /\ UNCHANGED <<conn, open, dialled, drops>>

\* Mutant of AfterFailure: the second chance is not taken.
GiveUp(pc) == "failed"

\* The first failure leads to one reconnect and one retry.
AfterFailure(pc) == IF pc = "open" THEN "redial2" ELSE "failed"

\* conn.Channel() fails: the connection is gone, or the broker refuses.
OpenFails(u) ==
    /\ user[u].pc \in {"open", "open2"}
    /\ \/ /\ ~IsOpen(user[u].snap)
          /\ CallGoto(u, AfterFailure(user[u].pc))
          /\ UNCHANGED drops
       \/ /\ IsOpen(user[u].snap) /\ drops < MaxDrops
          /\ drops' = drops + 1
          /\ user' = [user EXCEPT ![u].pc = AfterFailure(@), ![u].hit = @ + 1]
    /\ UNCHANGED <<conn, open, dialled>>

\* The caller goes on with the channel or with the error.
Return(u) ==
    /\ user[u].pc \in {"ok", "failed"}
    /\ user' = [user EXCEPT ![u] = NoCall]
    /\ UNCHANGED <<conn, open, dialled, drops>>

\* A connection is lost (broker restart, network) or closed by Close().
Drop(n) ==
    /\ n \in open
    /\ drops < MaxDrops
    /\ drops' = drops + 1
    /\ open' = open \ {n}
    /\ user' = [u \in Users |-> IF InCall(u) THEN [user[u] EXCEPT !.hit = @ + 1] ELSE user[u]]
    /\ UNCHANGED <<conn, dialled>>

-----------------------------------------------------------------------------
\* NewConnection has dialled once.
ConnInit ==
    /\ conn = 1 /\ open = {1} /\ dialled = 1
    /\ user = [u \in Users |-> NoCall]
    /\ drops = 0

\* A step of a Channel() call in progress.
CallStep(u) == \/ Look(u) \/ Redial(u) \/ RedialFails(u) \/ Reread(u)
               \/ OpenChannel(u) \/ OpenFails(u)

ConnNext ==
    \/ \E u \in Users : Channel(u) \/ CallStep(u) \/ Return(u)
    \/ \E n \in open : Drop(n)

ConnSpec == ConnInit /\ [][ConnNext]_connVars

-----------------------------------------------------------------------------
(* Properties. *)

\* Types; c.conn is the newest connection, and every dial after the first
\* answers a drop.
ConnTypeOK ==
    /\ drops \in 0 .. MaxDrops
    /\ dialled \in 1 .. drops + 1 /\ conn = dialled
    /\ open \subseteq 1 .. dialled
    /\ user \in [Users -> Call]

\* reconnect's double check: however many goroutines notice a dead connection
\* at once, only c.conn can be open, no second connection is left behind.
NoLeakedConnection == open \subseteq {conn}

\* "reconnect once and retry": Channel() survives one fault of any kind during
\* the call other than a refused dial.
OneFaultIsSurvived ==
    \A u \in Users : user[u].pc = "failed" => user[u].refused \/ user[u].hit >= 2
=============================================================================
