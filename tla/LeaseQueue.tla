----------------------------- MODULE LeaseQueue -----------------------------
(***************************************************************************)
(* What the job queue promises: a job is in at most one worker's hands, a  *)
(* job that a worker has dropped comes back, and a settled job is final.   *)
(* JobQueue implements it when every claim is settled within the           *)
(* visibility timeout.                                                     *)
(***************************************************************************)
CONSTANTS Jobs, Workers

VARIABLES
    state,    \* absent, waiting, taken, done or failed
    holders   \* who has the job in hand; nobody if it was dropped

Init ==
    /\ state = [j \in Jobs |-> "absent"]
    /\ holders = [j \in Jobs |-> {}]

Submit(j) ==
    /\ state[j] = "absent" /\ state' = [state EXCEPT ![j] = "waiting"]
    /\ UNCHANGED holders

\* A free worker takes the job, or does not hear that it was given it.
Take(j, w) ==
    /\ state[j] = "waiting" /\ \A i \in Jobs : w \notin holders[i]
    /\ state' = [state EXCEPT ![j] = "taken"]
    /\ \/ holders' = [holders EXCEPT ![j] = {w}]
       \/ UNCHANGED holders

\* The holder, and nobody else, decides about the job.
Settle(j, w) ==
    /\ w \in holders[j]
    /\ \E s \in {"waiting", "done", "failed"} : state' = [state EXCEPT ![j] = s]
    /\ holders' = [holders EXCEPT ![j] = {}]

\* Workers lose what they hold: a crash, a shutdown, a failed settlement.
Drop(W) ==
    /\ holders' = [j \in Jobs |-> holders[j] \ W]
    /\ UNCHANGED state

\* Jobs that nobody holds become available again.
Recover(S) ==
    /\ \A j \in S : state[j] = "taken" /\ holders[j] = {}
    /\ state' = [j \in Jobs |-> IF j \in S THEN "waiting" ELSE state[j]]
    /\ UNCHANGED holders

Next ==
    \/ \E j \in Jobs : Submit(j)
    \/ \E j \in Jobs, w \in Workers : Take(j, w) \/ Settle(j, w)
    \/ \E W \in SUBSET Workers : Drop(W)
    \/ \E S \in SUBSET Jobs : Recover(S)

Spec == Init /\ [][Next]_<<state, holders>>
=============================================================================
