---------------------------- MODULE KafkaConsumer ----------------------------
(***************************************************************************)
(* The consumer of pkg/messaging/kafka/consumer.go: members of one         *)
(* consumer group that read one partition.  The broker (the log, the       *)
(* group's committed offset, which member owns the partition) is external  *)
(* and modelled by what the consumer relies on: a member starts at the     *)
(* committed offset, or at the end of the log while nothing is committed   *)
(* (StartOffset: LastOffset); a commit of offset o stores o + 1, also from *)
(* a member that lost the partition while its handler ran, since it is     *)
(* still a member of the group.                                            *)
(***************************************************************************)
EXTENDS Integers

CONSTANTS
    Members,          \* consumer processes
    MaxLog,           \* bound on the messages produced
    MaxDisruptions,   \* bound on broker errors, crashes and rebalances
    KafkaMaxBackoff,  \* the 30 s cap of bo, in units of the first wait
    NoOffset

ASSUME KafkaAssumption ==
    /\ MaxLog \in Nat /\ MaxDisruptions \in Nat /\ KafkaMaxBackoff \in Nat \ {0}
    /\ NoOffset \notin Members /\ NoOffset \notin Nat

VARIABLES
    end,        \* messages 0 .. end - 1 are in the log
    committed,  \* the group's offset, NoOffset while nothing is committed
    owner,      \* the member the partition is assigned to
    base,       \* history: where the group last started without an offset
    member,     \* what each member is doing
    attempted,  \* history: offsets some handler was called with
    succeeded,  \* history: offsets some handler returned nil for
    disruptions

kafkaVars == <<end, committed, owner, base, member, attempted, succeeded, disruptions>>

-----------------------------------------------------------------------------
\* fetch: in FetchMessage; wait: in time.After(bo); handle: in the handler;
\* commit: in CommitMessages; stopped: Start has returned.
MemberState == [pc : {"fetch", "wait", "handle", "commit", "stopped"},
                msg  : Nat,   \* the message in hand
                next : Nat,   \* the reader's position
                bo   : 1 .. KafkaMaxBackoff]

\* Mutant of StartOffset: the committed offset is ignored.
LastOffset == end

StartOffset == IF committed = NoOffset THEN end ELSE committed

Fresh == [pc |-> "fetch", msg |-> 0, next |-> StartOffset, bo |-> 1]

Rebase == base' = IF committed = NoOffset THEN end ELSE base

Disruption == disruptions < MaxDisruptions /\ disruptions' = disruptions + 1

-----------------------------------------------------------------------------
(* The broker. *)

Produce ==
    /\ end < MaxLog
    /\ end' = end + 1
    /\ UNCHANGED <<committed, owner, base, member, attempted, succeeded, disruptions>>

\* The partition goes to another live member, whose reader starts from the
\* group's offset.  Both keep the message their handler is working on.
Rebalance(p) ==
    /\ p # owner /\ member[p].pc # "stopped"
    /\ IF member[owner].pc = "stopped" THEN UNCHANGED disruptions ELSE Disruption
    /\ owner' = p
    /\ Rebase
    /\ member' = [member EXCEPT ![p] = [@ EXCEPT !.next = StartOffset]]
    /\ UNCHANGED <<end, committed, attempted, succeeded>>

-----------------------------------------------------------------------------
(* Start. *)

Fetch(p) ==
    /\ member[p].pc = "fetch"
    /\ owner = p /\ member[p].next < end
    /\ member' = [member EXCEPT ![p] = [pc |-> "handle", msg |-> @.next, next |-> @.next + 1, bo |-> 1]]
    /\ attempted' = attempted \cup {member[p].next}
    /\ UNCHANGED <<end, base, committed, owner, succeeded, disruptions>>

FetchFails(p) ==
    /\ member[p].pc = "fetch"
    /\ Disruption
    /\ member' = [member EXCEPT ![p].pc = "wait"]
    /\ UNCHANGED <<end, base, committed, owner, attempted, succeeded>>

Doubled(bo) == IF bo < KafkaMaxBackoff /\ bo * 2 =< KafkaMaxBackoff THEN bo * 2 ELSE KafkaMaxBackoff

\* time.After(bo) fires; bo is doubled up to its cap.
WaitOver(p) ==
    /\ member[p].pc = "wait"
    /\ member' = [member EXCEPT ![p] = [@ EXCEPT !.pc = "fetch", !.bo = Doubled(member[p].bo)]]
    /\ UNCHANGED <<end, base, committed, owner, attempted, succeeded, disruptions>>

\* herr == nil: the offset is committed next.
HandlerSucceeds(p) ==
    /\ member[p].pc = "handle"
    /\ member' = [member EXCEPT ![p].pc = "commit"]
    /\ succeeded' = succeeded \cup {member[p].msg}
    /\ UNCHANGED <<end, base, committed, owner, attempted, disruptions>>

\* Mutant of HandlerFails: the commit is not skipped.
HandlerFailsButCommits(p) ==
    /\ member[p].pc = "handle"
    /\ member' = [member EXCEPT ![p].pc = "commit"]
    /\ UNCHANGED <<end, base, committed, owner, attempted, succeeded, disruptions>>

\* herr != nil: the commit is skipped and the next message is fetched.
HandlerFails(p) ==
    /\ member[p].pc = "handle"
    /\ member' = [member EXCEPT ![p].pc = "fetch"]
    /\ UNCHANGED <<end, base, committed, owner, attempted, succeeded, disruptions>>

Commit(p) ==
    /\ member[p].pc = "commit"
    /\ committed' = member[p].msg + 1
    /\ member' = [member EXCEPT ![p].pc = "fetch"]
    /\ UNCHANGED <<end, base, owner, attempted, succeeded, disruptions>>

\* The error is only logged.
CommitFails(p) ==
    /\ member[p].pc = "commit"
    /\ Disruption
    /\ member' = [member EXCEPT ![p].pc = "fetch"]
    /\ UNCHANGED <<end, base, committed, owner, attempted, succeeded>>

\* ctx is cancelled, or the process dies: the loop ends where it stands.
StartReturns(p) ==
    /\ member[p].pc # "stopped"
    /\ Disruption
    /\ member' = [member EXCEPT ![p].pc = "stopped"]
    /\ UNCHANGED <<end, base, committed, owner, attempted, succeeded>>

\* The process is started again and joins; it gets the partition when the
\* owner is gone.
Join(p) ==
    /\ member[p].pc = "stopped"
    /\ owner' = IF member[owner].pc = "stopped" THEN p ELSE owner
    /\ Rebase
    /\ member' = [member EXCEPT ![p] = Fresh]
    /\ UNCHANGED <<end, committed, attempted, succeeded, disruptions>>

-----------------------------------------------------------------------------
KafkaInit ==
    /\ end = 0
    /\ committed = NoOffset
    /\ owner \in Members
    /\ base = 0
    /\ member = [p \in Members |-> Fresh]
    /\ attempted = {} /\ succeeded = {}
    /\ disruptions = 0

Step(p) ==
    \/ Fetch(p) \/ WaitOver(p) \/ HandlerSucceeds(p) \/ HandlerFails(p)
    \/ Commit(p)

KafkaNext ==
    \/ Produce
    \/ \E p \in Members : Step(p) \/ FetchFails(p) \/ CommitFails(p) \/ StartReturns(p)
                          \/ Join(p) \/ Rebalance(p)

KafkaSpec == KafkaInit /\ [][KafkaNext]_kafkaVars

\* The goroutine in Start runs whenever it can, handlers return, and a stopped
\* process is started again.
KafkaFairSpec == KafkaSpec /\ \A p \in Members : WF_kafkaVars(Step(p)) /\ WF_kafkaVars(Join(p))

-----------------------------------------------------------------------------
(* Properties. *)

\* Types; the wait between fetches stays within its cap.
KafkaTypeOK ==
    /\ end \in 0 .. MaxLog
    /\ committed \in Nat \cup {NoOffset}
    /\ owner \in Members /\ base \in 0 .. end
    /\ member \in [Members -> MemberState]
    /\ attempted \subseteq 0 .. end - 1 /\ succeeded \subseteq attempted
    /\ disruptions \in 0 .. MaxDisruptions

\* CommitMessages comes after a nil from the handler: the message right below
\* the group's offset was processed successfully by some member, across
\* rebalances, restarts and lost commits.
CommittedHeadSucceeded == committed # NoOffset => committed - 1 \in succeeded

\* Between the place where the group started and its offset every message was
\* handed to a handler, across restarts, rebalances and late commits.
NothingIsSkipped ==
    committed # NoOffset => base .. committed - 1 \subseteq attempted

\* Once the group has an offset, every message at or above it, and not before
\* the place where the group started, is handed to a handler sooner or later: a
\* failing message does not block the partition, a restart loses none.
EveryMessageIsAttempted ==
    \A o \in 0 .. MaxLog - 1 :
        (committed # NoOffset /\ committed =< o /\ base =< o /\ o < end) ~> (o \in attempted)
=============================================================================
