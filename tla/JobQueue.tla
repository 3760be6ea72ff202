------------------------------ MODULE JobQueue ------------------------------
(***************************************************************************)
(* The Postgres job queue of internal/queue/postgres.go and the worker     *)
(* processes that drain it (cmd/worker/main.go).                           *)
(*                                                                         *)
(* The database is the shared state: one row per job.  Every goroutine of  *)
(* Run(ctx, workers, handlers) is a member of Workers; the goroutines of   *)
(* one process share its context.  A claim is a transaction of two steps   *)
(* (the row lock taken by FOR UPDATE SKIP LOCKED, then the commit), every  *)
(* other statement is atomic.  Time is relative: a running row and a       *)
(* worker carry the ticks since now() of the claim, saturated one past the *)
(* visibility timeout, and a row carries the ticks until its run_at,       *)
(* negative once overdue and saturated at MaxOverdue.                      *)
(***************************************************************************)
EXTENDS Integers

CONSTANTS
    NoWorker, NoJob, NoKind,  \* nulls
    Jobs,              \* the rows that may be inserted
    Kinds,             \* jobs.kind
    Procs,             \* worker processes
    Workers,           \* goroutines, all processes together
    ProcOf,            \* the process of a goroutine
    Registered,        \* the kinds each process has a handler for
    MaxAttempts,       \* Options.MaxAttempts, copied to max_attempts
    VisibilityTimeout, \* Options.VisibilityTimeout, in ticks
    RetryDelay,        \* retryDelay(attempt), in ticks
    StartDelays,       \* what Enqueue's runAt may be, in ticks from now
    MaxOverdue,        \* bound: rows overdue for longer compare equal
    MaxFaults,         \* bound: database errors, crashes and SIGTERMs
    Punctual           \* assume a job is settled within its visibility timeout

ASSUME ProcsAssumption ==
    /\ ProcOf \in [Workers -> Procs]
    /\ Registered \in [Procs -> SUBSET Kinds]

ASSUME OptionsAssumption ==
    /\ MaxAttempts \in Nat \ {0}
    /\ VisibilityTimeout \in Nat \ {0}
    /\ RetryDelay \in [1 .. MaxAttempts -> Nat]
    /\ StartDelays \subseteq Nat
    /\ MaxOverdue \in Nat
    /\ MaxFaults \in Nat
    /\ Punctual \in BOOLEAN

ASSUME NullAssumption == NoWorker \notin Workers /\ NoJob \notin Jobs /\ NoKind \notin Kinds

VARIABLES
    jobs,       \* the jobs table
    worker,     \* what each goroutine is doing, with its copy of the job
    cancelled,  \* ctx.Err() != nil, per process
    faults      \* faults injected so far

vars == <<jobs, worker, cancelled, faults>>

-----------------------------------------------------------------------------
(* State. *)

Row == [status   : {"absent", "pending", "running", "done", "failed"},
        kind     : Kinds \cup {NoKind},
        attempts : Nat,
        due      : Int,
        lockedBy : Workers \cup {NoWorker},
        age      : Nat]

\* poll: in the select; loop: at "for ctx.Err() == nil"; claim: inside the
\* claim transaction; run: in the handler; complete, retry, fail: about to
\* issue that statement; stopped: work() returned; dead: process crashed.
Phase == {"poll", "loop", "claim", "run", "complete", "retry", "fail",
          "stopped", "dead"}

WorkerState == [pc : Phase, job : Jobs \cup {NoJob}, attempts : Nat, age : Nat]

Idle(pc) == [pc |-> pc, job |-> NoJob, attempts |-> 0, age |-> 0]

\* The worker owns a copy of a claimed job.
Holding(w) == worker[w].pc \in {"run", "complete", "retry", "fail"}
Holds(w, j) == Holding(w) /\ worker[w].job = j

\* Inside the claim transaction the candidate row is locked.
RowLocked(j) == \E w \in Workers : worker[w].pc = "claim" /\ worker[w].job = j

\* Mutant of Claimable: SKIP LOCKED dropped, locked candidates are taken too.
ClaimableThoughLocked(j) == jobs[j].status = "pending" /\ jobs[j].due =< 0

\* WHERE status = 'pending' AND run_at <= now() ... SKIP LOCKED
Claimable(j) == jobs[j].status = "pending" /\ jobs[j].due =< 0 /\ ~RowLocked(j)

Expired(j) == jobs[j].status = "running" /\ jobs[j].age > VisibilityTimeout

\* The locks are released: locked_at = NULL, locked_by = NULL.
Unlocked(row, status) == [row EXCEPT !.status = status, !.lockedBy = NoWorker,
                                     !.age = 0]

\* A database call may fail because the context is cancelled or by a fault.
CallFails(w) ==
    \/ cancelled[ProcOf[w]] /\ faults' = faults
    \/ faults < MaxFaults /\ faults' = faults + 1

CallSucceeds(w) == ~cancelled[ProcOf[w]] /\ faults' = faults

Goto(w, pc) == worker' = [worker EXCEPT ![w] = Idle(pc)]

-----------------------------------------------------------------------------
(* Producer side. *)

Enqueue(j, k, d) ==
    /\ jobs[j].status = "absent"
    /\ jobs' = [jobs EXCEPT ![j] = [status |-> "pending", kind |-> k,
                                    attempts |-> 0, due |-> d,
                                    lockedBy |-> NoWorker, age |-> 0]]
    /\ UNCHANGED <<worker, cancelled, faults>>

-----------------------------------------------------------------------------
(* The worker loop. *)

\* Mutants of RequeueExpired: the locked_at condition dropped; the expired
\* attempt not counted; the call left out.
RequeueRunning(w) ==
    /\ worker[w].pc = "poll"
    /\ CallSucceeds(w)
    /\ jobs' = [j \in Jobs |-> IF jobs[j].status = "running"
                               THEN Unlocked(jobs[j], "pending") ELSE jobs[j]]
    /\ Goto(w, "loop")
    /\ UNCHANGED cancelled

RequeueUncounted(w) ==
    /\ worker[w].pc = "poll"
    /\ CallSucceeds(w)
    /\ jobs' = [j \in Jobs |-> IF Expired(j)
                  THEN [Unlocked(jobs[j], "pending") EXCEPT !.attempts = @ - 1] ELSE jobs[j]]
    /\ Goto(w, "loop")
    /\ UNCHANGED cancelled

RequeueNothing(w) ==
    /\ worker[w].pc = "poll"
    /\ CallSucceeds(w)
    /\ Goto(w, "loop")
    /\ UNCHANGED <<jobs, cancelled>>

\* <-timer.C, then RequeueExpired.
RequeueExpired(w) ==
    /\ worker[w].pc = "poll"
    /\ CallSucceeds(w)
    /\ jobs' = [j \in Jobs |-> IF Expired(j) THEN Unlocked(jobs[j], "pending")
                                             ELSE jobs[j]]
    /\ Goto(w, "loop")
    /\ UNCHANGED cancelled

\* <-timer.C, RequeueExpired fails: logged, the loop goes on.
RequeueFails(w) ==
    /\ worker[w].pc = "poll"
    /\ CallFails(w)
    /\ Goto(w, "loop")
    /\ UNCHANGED <<jobs, cancelled>>

\* <-ctx.Done(): work returns.
Stop(w) ==
    /\ worker[w].pc = "poll"
    /\ cancelled[ProcOf[w]]
    /\ Goto(w, "stopped")
    /\ UNCHANGED <<jobs, cancelled, faults>>

\* "for ctx.Err() == nil" ends, the timer is reset.
LeaveLoop(w) ==
    /\ worker[w].pc = "loop"
    /\ cancelled[ProcOf[w]]
    /\ Goto(w, "poll")
    /\ UNCHANGED <<jobs, cancelled, faults>>

\* Claim finds no row: sql.ErrNoRows, (nil, nil).
ClaimNothing(w) ==
    /\ worker[w].pc = "loop"
    /\ CallSucceeds(w)
    /\ \A j \in Jobs : ~Claimable(j)
    /\ Goto(w, "poll")
    /\ UNCHANGED <<jobs, cancelled>>

\* The claim's transaction starts (now()) and locks the candidate, the
\* claimable row with the least run_at.
ClaimLock(w, j) ==
    /\ worker[w].pc = "loop"
    /\ CallSucceeds(w)
    /\ Claimable(j)
    /\ \A i \in Jobs : Claimable(i) => jobs[j].due =< jobs[i].due
    /\ worker' = [worker EXCEPT ![w] = [pc |-> "claim", job |-> j,
                                        attempts |-> 0, age |-> 0]]
    /\ UNCHANGED <<jobs, cancelled>>

\* The UPDATE of claimSQL.
ClaimedRow(w, row) ==
    [row EXCEPT !.status = "running", !.attempts = row.attempts + 1,
                !.lockedBy = w, !.age = worker[w].age]

ClaimUpdate(w) ==
    jobs' = [jobs EXCEPT ![worker[w].job] = ClaimedRow(w, jobs[worker[w].job])]

\* The claim commits and RETURNING fills the worker's copy; handle() looks up
\* the handler.
ClaimCommit(w) ==
    LET j == worker[w].job IN
    /\ worker[w].pc = "claim"
    /\ ClaimUpdate(w)
    /\ worker' = [worker EXCEPT ![w] = [@ EXCEPT
                  !.pc = IF jobs[j].kind \in Registered[ProcOf[w]] THEN "run" ELSE "fail",
                  !.attempts = jobs[j].attempts + 1]]
    /\ UNCHANGED <<cancelled, faults>>

\* The claim fails and is rolled back; the inner loop breaks.
ClaimRollback(w) ==
    /\ worker[w].pc = "claim"
    /\ CallFails(w)
    /\ Goto(w, "poll")
    /\ UNCHANGED <<jobs, cancelled>>

\* The claim commits but its answer is lost: nobody holds the running row.
ClaimAnswerLost(w) ==
    /\ worker[w].pc = "claim"
    /\ CallFails(w)
    /\ ClaimUpdate(w)
    /\ Goto(w, "poll")
    /\ UNCHANGED cancelled

\* handler(runCtx, job) returns; it decides for itself when and with what.
HandlerReturns(w, ok) ==
    /\ worker[w].pc = "run"
    /\ worker' = [worker EXCEPT ![w].pc = IF ok THEN "complete" ELSE "retry"]
    /\ UNCHANGED <<jobs, cancelled, faults>>

\* An UPDATE ... WHERE id = job.ID that waits for the row lock.
Settle(w, pc, row) ==
    /\ worker[w].pc = pc
    /\ ~RowLocked(worker[w].job)
    /\ CallSucceeds(w)
    /\ jobs' = [jobs EXCEPT ![worker[w].job] = row]
    /\ Goto(w, "loop")
    /\ UNCHANGED cancelled

Complete(w) == Settle(w, "complete", Unlocked(jobs[worker[w].job], "done"))

FailPermanent(w) == Settle(w, "fail", Unlocked(jobs[worker[w].job], "failed"))

\* Mutant of Retry: gives up one attempt early.
RetryOnceLess(w) ==
    IF worker[w].attempts + 1 >= MaxAttempts
    THEN Settle(w, "retry", Unlocked(jobs[worker[w].job], "failed"))
    ELSE Settle(w, "retry", [Unlocked(jobs[worker[w].job], "pending")
                               EXCEPT !.due = RetryDelay[worker[w].attempts]])

\* The worker's own copy decides between another attempt and giving up.
Retry(w) ==
    IF worker[w].attempts >= MaxAttempts
    THEN Settle(w, "retry", Unlocked(jobs[worker[w].job], "failed"))
    ELSE Settle(w, "retry", [Unlocked(jobs[worker[w].job], "pending")
                               EXCEPT !.due = RetryDelay[worker[w].attempts]])

\* The statement fails: logged, the job is left as it is.
SettleFails(w) ==
    /\ worker[w].pc \in {"complete", "retry", "fail"}
    /\ CallFails(w)
    /\ Goto(w, "loop")
    /\ UNCHANGED <<jobs, cancelled>>

-----------------------------------------------------------------------------
(* Processes and time. *)

Up(p) == \A w \in Workers : ProcOf[w] = p => worker[w].pc \notin {"stopped", "dead"}

\* SIGTERM: signal.NotifyContext cancels ctx.
Cancel(p) ==
    /\ Up(p) /\ ~cancelled[p]
    /\ faults < MaxFaults
    /\ faults' = faults + 1
    /\ cancelled' = [cancelled EXCEPT ![p] = TRUE]
    /\ UNCHANGED <<jobs, worker>>

\* The process dies (a panicking handler is not recovered); an open claim
\* transaction is rolled back by the server.
Crash(p) ==
    /\ \E w \in Workers : ProcOf[w] = p /\ worker[w].pc \notin {"stopped", "dead"}
    /\ faults < MaxFaults
    /\ faults' = faults + 1
    /\ worker' = [w \in Workers |-> IF ProcOf[w] = p THEN Idle("dead") ELSE worker[w]]
    /\ cancelled' = [cancelled EXCEPT ![p] = FALSE]
    /\ UNCHANGED jobs

\* The supervisor starts the process again: Run starts its goroutines.
Restart(p) ==
    /\ \A w \in Workers : ProcOf[w] = p => worker[w].pc \in {"stopped", "dead"}
    /\ worker' = [w \in Workers |-> IF ProcOf[w] = p THEN Idle("poll") ELSE worker[w]]
    /\ cancelled' = [cancelled EXCEPT ![p] = FALSE]
    /\ UNCHANGED <<jobs, faults>>

Older(age) == IF age > VisibilityTimeout THEN age ELSE age + 1

AgedRow(row) ==
    [row EXCEPT !.due = IF @ > -MaxOverdue /\ row.status \in {"pending", "running"}
                        THEN @ - 1 ELSE @,
                !.age = IF row.status = "running" THEN Older(@) ELSE @]

AgedWorker(s) == [s EXCEPT !.age = IF s.job # NoJob THEN Older(@) ELSE @]

Tick ==
    /\ Punctual => \A w \in Workers : Holding(w) \/ worker[w].pc = "claim"
                                        => worker[w].age < VisibilityTimeout
    /\ jobs' = [j \in Jobs |-> AgedRow(jobs[j])]
    /\ worker' = [w \in Workers |-> AgedWorker(worker[w])]
    /\ UNCHANGED <<cancelled, faults>>

-----------------------------------------------------------------------------
Init ==
    /\ jobs = [j \in Jobs |-> [status |-> "absent", kind |-> NoKind, attempts |-> 0,
                               due |-> 0, lockedBy |-> NoWorker, age |-> 0]]
    /\ worker = [w \in Workers |-> Idle("poll")]
    /\ cancelled = [p \in Procs |-> FALSE]
    /\ faults = 0

WorkStep(w) ==
    \/ RequeueExpired(w) \/ RequeueFails(w) \/ Stop(w) \/ LeaveLoop(w)
    \/ ClaimNothing(w) \/ \E j \in Jobs : ClaimLock(w, j)
    \/ ClaimCommit(w) \/ ClaimRollback(w) \/ ClaimAnswerLost(w)
    \/ \E ok \in BOOLEAN : HandlerReturns(w, ok)
    \/ Complete(w) \/ Retry(w) \/ FailPermanent(w) \/ SettleFails(w)

Next ==
    \/ \E j \in Jobs, k \in Kinds, d \in StartDelays : Enqueue(j, k, d)
    \/ \E w \in Workers : WorkStep(w)
    \/ \E p \in Procs : Cancel(p) \/ Crash(p) \/ Restart(p)
    \/ Tick

Spec == Init /\ [][Next]_vars

\* A goroutine that can step does (the Go scheduler; handlers get a context
\* with a deadline and are assumed to return), the clock advances and a
\* stopped process is started again by its supervisor.  A select that finds
\* ctx.Done() ready again and again takes it some time.
Fairness ==
    /\ \A w \in Workers : WF_vars(WorkStep(w)) /\ SF_vars(Stop(w))
    /\ \A p \in Procs : WF_vars(Restart(p))
    /\ WF_vars(Tick)

FairSpec == Spec /\ Fairness

-----------------------------------------------------------------------------
(* Properties. *)

\* Types, and the lock columns: exactly the running rows name a worker.
TypeOK ==
    /\ jobs \in [Jobs -> Row]
    /\ \A j \in Jobs : jobs[j].status = "running" <=> jobs[j].lockedBy # NoWorker
    /\ worker \in [Workers -> WorkerState]
    /\ cancelled \in [Procs -> BOOLEAN]
    /\ faults \in 0 .. MaxFaults

\* FOR UPDATE SKIP LOCKED (claimSQL): however claims, expiries and late
\* settlements interleave, two goroutines that hold copies of one job hold
\* different attempts of it, no copy is newer than the row, and the goroutine
\* named in locked_by holds the newest one.
ClaimsAreDistinct ==
    \A w \in Workers, j \in Jobs : Holds(w, j) =>
        /\ worker[w].attempts =< jobs[j].attempts
        /\ jobs[j].lockedBy = w => worker[w].attempts = jobs[j].attempts
        /\ \A v \in Workers \ {w} :
              Holds(v, j) => worker[v].attempts # worker[w].attempts

\* Retry and handle: a job is marked failed only after max_attempts claims, or
\* because some process has no handler for its kind, also when an outdated
\* copy of the job takes the decision.
FailsOnlyWhenExhausted ==
    \A j \in Jobs : jobs[j].status = "failed" =>
        \/ jobs[j].attempts >= MaxAttempts
        \/ \E p \in Procs : jobs[j].kind \notin Registered[p]

\* The promise of the package comment, made true by the assumption it needs:
\* when every claim is settled within the visibility timeout, crashes, lost
\* answers and failing settlements notwithstanding, no two goroutines hold the
\* same job and the row of a held job is locked by its holder.
ExclusiveWhenPunctual ==
    Punctual => \A w \in Workers, j \in Jobs : Holds(w, j) =>
        /\ jobs[j].status = "running" /\ jobs[j].lockedBy = w
        /\ \A v \in Workers \ {w} : ~Holds(v, j)

\* Complete and FailPermanent are final when every claim is settled within the
\* visibility timeout: no later statement of any worker reopens the job.
SettledIsFinalWhenPunctual ==
    [][Punctual => \A j \in Jobs : jobs[j].status \in {"done", "failed"}
                                     => jobs'[j].status = jobs[j].status]_vars

\* RequeueExpired: a running row goes back to pending only when its lease has
\* expired or when a goroutine that holds the job settles it in that step.
ReleasedOnlyByHolderOrExpiry ==
    [][\A j \in Jobs :
         jobs[j].status = "running" /\ jobs'[j].status = "pending" =>
            \/ Expired(j)
            \/ \E w \in Workers : Holds(w, j) /\ ~Holds(w, j)']_vars

\* With finitely many faults every enqueued job reaches done or failed and
\* stays there, even though late settlements may reopen it on the way.
EveryJobSettles ==
    \A j \in Jobs : (jobs[j].status = "pending")
                      ~> [](jobs[j].status \in {"done", "failed"})

-----------------------------------------------------------------------------
(* The promise, and how the table and the workers' copies stand for it. *)

Promised(status) ==
    CASE status = "pending" -> "waiting" [] status = "running" -> "taken" [] OTHER -> status

Lease == INSTANCE LeaseQueue WITH
    state <- [j \in Jobs |-> Promised(jobs[j].status)],
    holders <- [j \in Jobs |-> {w \in Workers : Holds(w, j)}]

\* When every claim is settled within the visibility timeout (Punctual) the
\* table and the workers do what LeaseQueue promises, through crashes, lost
\* answers and failing statements.
RefinesLeaseQueue == Lease!Spec
=============================================================================
