--------------------------- MODULE JobQueueProofs ---------------------------
(***************************************************************************)
(* Proofs, for every number of jobs, processes and goroutines and every    *)
(* value of the options, of the safety properties of JobQueue, and that it *)
(* implements LeaseQueue when every claim is settled in time.              *)
(***************************************************************************)
EXTENDS JobQueue, TLAPS

Claiming(w) == worker[w].pc = "claim"

\* A goroutine in a claim or with a copy of a job names a row that exists; a
\* copy was taken by at least one claim.
CopiesInv ==
    \A w \in Workers : Claiming(w) \/ Holding(w) =>
        /\ worker[w].job \in Jobs
        /\ jobs[worker[w].job].status # "absent"
        /\ Holding(w) => worker[w].attempts >= 1

\* The row lock: the candidate of an open claim is pending, and no other claim
\* is open on it.
RowLockInv ==
    \A w \in Workers : Claiming(w) =>
        /\ jobs[worker[w].job].status = "pending"
        /\ \A v \in Workers \ {w} : Claiming(v) => worker[v].job # worker[w].job

\* A goroutine about to fail a job outright belongs to a process without a
\* handler for it.
NoHandlerInv ==
    \A w \in Workers : worker[w].pc = "fail" =>
        jobs[worker[w].job].kind \notin Registered[ProcOf[w]]

\* Under the timing assumption a holder's lease is the row's, and unexpired.
LeaseInv ==
    Punctual => \A w \in Workers :
        /\ Claiming(w) \/ Holding(w) => worker[w].age =< VisibilityTimeout
        /\ Holding(w) => /\ jobs[worker[w].job].status = "running"
                         /\ jobs[worker[w].job].lockedBy = w
                         /\ jobs[worker[w].job].age = worker[w].age

IndInv ==
    /\ TypeOK
    /\ CopiesInv
    /\ RowLockInv
    /\ ClaimsAreDistinct
    /\ NoHandlerInv
    /\ FailsOnlyWhenExhausted
    /\ LeaseInv

-----------------------------------------------------------------------------
(* Initialisation. *)

LEMMA InitIndInv == Init => IndInv
<1> SUFFICES ASSUME Init PROVE IndInv
  OBVIOUS
<1> USE OptionsAssumption, ProcsAssumption, NullAssumption
<1>1. TypeOK
  BY DEF Init, TypeOK, Row, WorkerState, Phase, Idle
<1>2. \A w \in Workers : ~Claiming(w) /\ ~Holding(w) /\ worker[w].pc # "fail"
  BY DEF Init, Claiming, Holding, Idle
<1>3. CopiesInv /\ RowLockInv /\ ClaimsAreDistinct /\ NoHandlerInv /\ LeaseInv
  BY <1>2 DEF CopiesInv, RowLockInv, ClaimsAreDistinct, NoHandlerInv, LeaseInv, Holds
<1>4. FailsOnlyWhenExhausted
  BY DEF Init, FailsOnlyWhenExhausted
<1> QED
  BY <1>1, <1>3, <1>4 DEF IndInv

-----------------------------------------------------------------------------
(* Facts about one row and one goroutine. *)

LEMMA UnlockedFacts ==
  ASSUME NEW row \in Row, NEW status \in {"pending", "done", "failed"}
  PROVE  LET new == Unlocked(row, status)
         IN  /\ new \in Row
             /\ new.status = status /\ new.lockedBy = NoWorker
             /\ new.kind = row.kind /\ new.attempts = row.attempts
  BY DEF Unlocked, Row

\* A goroutine that lets go of its job holds and claims nothing; the others are
\* as they were.
LEMMA LetGoFacts ==
  ASSUME NEW w \in Workers, NEW pc \in {"poll", "loop", "stopped"},
         worker \in [Workers -> WorkerState], Goto(w, pc)
  PROVE  /\ worker' \in [Workers -> WorkerState]
         /\ ~Claiming(w)' /\ ~Holding(w)' /\ worker'[w].pc # "fail"
         /\ \A j : ~Holds(w, j)'
         /\ \A v \in Workers \ {w} :
              /\ worker'[v] = worker[v]
              /\ Claiming(v)' <=> Claiming(v)
              /\ Holding(v)' <=> Holding(v)
              /\ \A j : Holds(v, j)' <=> Holds(v, j)
<1>1. worker' \in [Workers -> WorkerState]
  BY NullAssumption DEF Goto, Idle, WorkerState, Phase
<1>2. worker'[w] = Idle(pc) /\ worker'[w].pc = pc
  BY DEF Goto, Idle
<1>3. ~Claiming(w)' /\ ~Holding(w)' /\ worker'[w].pc # "fail" /\ \A j : ~Holds(w, j)'
  BY <1>2 DEF Claiming, Holding, Holds
<1>4. ASSUME NEW v \in Workers \ {w} PROVE worker'[v] = worker[v]
  BY DEF Goto
<1> QED
  BY <1>1, <1>3, <1>4 DEF Claiming, Holding, Holds

\* What IndInv says of one goroutine.
LEMMA IndInvFacts ==
  ASSUME IndInv
  PROVE  /\ worker \in [Workers -> WorkerState]
         /\ jobs \in [Jobs -> Row]
         /\ \A w \in Workers : worker[w].attempts \in Nat /\ worker[w].age \in Nat
         /\ \A j \in Jobs : jobs[j] \in Row /\ jobs[j].attempts \in Nat
         /\ \A w \in Workers : worker[w].pc = "fail" => Holding(w)
         /\ \A w \in Workers : Claiming(w) => ~Holding(w) /\ worker[w].job \in Jobs
         /\ \A w \in Workers : Holding(w) => worker[w].job \in Jobs
         /\ \A w \in Workers, j \in Jobs : Holds(w, j) => worker[w].job = j /\ Holding(w)
         /\ \A w \in Workers : Holding(w) => Holds(w, worker[w].job)
  BY DEF IndInv, TypeOK, CopiesInv, WorkerState, Row, Holding, Holds, Claiming

-----------------------------------------------------------------------------
(* Steps that take one goroutine out of its claim or job.                  *)

\* Every error path: the goroutine forgets its job, the table is untouched.
LEMMA ForgetIndInv ==
  ASSUME IndInv, NEW w \in Workers, NEW pc \in {"poll", "loop", "stopped"},
         Goto(w, pc), jobs' = jobs, cancelled' = cancelled, faults' \in 0 .. MaxFaults
  PROVE  IndInv'
<1> USE LetGoFacts, IndInvFacts
<1>1. TypeOK'
  BY DEF IndInv, TypeOK
<1>2. CopiesInv' /\ RowLockInv' /\ NoHandlerInv'
  BY DEF IndInv, CopiesInv, RowLockInv, NoHandlerInv
<1>3. ClaimsAreDistinct' /\ FailsOnlyWhenExhausted' /\ LeaseInv'
  BY DEF IndInv, ClaimsAreDistinct, FailsOnlyWhenExhausted, LeaseInv
<1> QED
  BY <1>1, <1>2, <1>3 DEF IndInv

\* The statements of a holder: Complete, FailPermanent and both arms of Retry
\* write one row without its locks and the goroutine goes back to the loop.
LEMMA SettleIndInv ==
  ASSUME IndInv, NEW w \in Workers, NEW pc \in {"complete", "retry", "fail"},
         NEW row \in Row, Settle(w, pc, row),
         row.lockedBy = NoWorker, row.status \in {"pending", "done", "failed"},
         row.kind = jobs[worker[w].job].kind,
         row.attempts = jobs[worker[w].job].attempts,
         row.status = "failed" => worker[w].attempts >= MaxAttempts \/ pc = "fail"
  PROVE  IndInv'
<1> DEFINE j == worker[w].job
<1>a. /\ worker[w].pc = pc /\ Holding(w) /\ Holds(w, j) /\ j \in Jobs
      /\ \A v \in Workers : Claiming(v) => worker[v].job # j
  BY DEF IndInv, CopiesInv, Holding, Holds, Settle, RowLocked, Claiming
<1>b. Goto(w, "loop") /\ cancelled' = cancelled /\ faults' = faults
  BY DEF Settle, CallSucceeds
<1>c. jobs' \in [Jobs -> Row] /\ jobs'[j] = row /\ \A i \in Jobs \ {j} : jobs'[i] = jobs[i]
  BY <1>a, IndInvFacts DEF Settle
<1>d. row.attempts = jobs[j].attempts /\ row.kind = jobs[j].kind
  OBVIOUS
<1> HIDE DEF j
<1> USE <1>a, <1>b, <1>c, <1>d, LetGoFacts, IndInvFacts
<1>1. TypeOK'
  BY DEF IndInv, TypeOK
<1>2. CopiesInv'
  BY DEF IndInv, CopiesInv
<1>3. RowLockInv'
  BY DEF IndInv, RowLockInv
<1>4. ClaimsAreDistinct'
  BY NullAssumption DEF IndInv, ClaimsAreDistinct
<1>5. NoHandlerInv'
  BY DEF IndInv, NoHandlerInv
<1>6. FailsOnlyWhenExhausted'
  <2> SUFFICES ASSUME NEW i \in Jobs, jobs'[i].status = "failed"
               PROVE  \/ jobs'[i].attempts >= MaxAttempts
                      \/ \E p \in Procs : jobs'[i].kind \notin Registered[p]
    BY DEF FailsOnlyWhenExhausted
  <2>1. CASE i # j
    BY <2>1 DEF IndInv, FailsOnlyWhenExhausted
  <2>2. CASE i = j /\ pc = "fail"
    <3>1. row.kind \notin Registered[ProcOf[w]] /\ ProcOf[w] \in Procs
      BY <2>2, ProcsAssumption DEF IndInv, NoHandlerInv, j
    <3> QED
      BY <3>1, <2>2
  <2>3. CASE i = j /\ pc # "fail"
    <3>1. worker[w].attempts >= MaxAttempts /\ worker[w].attempts =< jobs[j].attempts
      BY <2>3 DEF IndInv, ClaimsAreDistinct
    <3> QED
      BY <3>1, <2>3, OptionsAssumption
  <2> QED
    BY <2>1, <2>2, <2>3
<1>7. LeaseInv'
  <2> SUFFICES ASSUME Punctual, NEW v \in Workers \ {w}
               PROVE  /\ Claiming(v) \/ Holding(v) => worker[v].age =< VisibilityTimeout
                      /\ Holding(v) => /\ jobs'[worker[v].job].status = "running"
                                       /\ jobs'[worker[v].job].lockedBy = v
                                       /\ jobs'[worker[v].job].age = worker[v].age
    BY DEF LeaseInv
  <2>1. jobs[j].lockedBy = w
    BY DEF IndInv, LeaseInv, j
  <2>2. Holding(v) => jobs[worker[v].job].lockedBy = v
    BY DEF IndInv, LeaseInv
  <2>3. Holding(v) => worker[v].job # j
    BY <2>1, <2>2
  <2> QED
    BY <2>3 DEF IndInv, LeaseInv
<1> QED
  BY <1>1, <1>2, <1>3, <1>4, <1>5, <1>6, <1>7 DEF IndInv

\* RequeueExpired unlocks every expired row.
LEMMA RequeueExpiredIndInv ==
  ASSUME IndInv, NEW w \in Workers, RequeueExpired(w)
  PROVE  IndInv'
<1>a. Goto(w, "loop") /\ cancelled' = cancelled /\ faults' = faults
  BY DEF RequeueExpired, CallSucceeds
<1>b. ASSUME NEW j \in Jobs
      PROVE  jobs'[j] = IF Expired(j) THEN Unlocked(jobs[j], "pending") ELSE jobs[j]
  BY DEF RequeueExpired
<1>c. \A j \in Jobs :
         /\ jobs'[j] \in Row
         /\ jobs'[j].kind = jobs[j].kind /\ jobs'[j].attempts = jobs[j].attempts
         /\ jobs'[j] = jobs[j] \/ jobs'[j].lockedBy = NoWorker
  BY <1>b, IndInvFacts, UnlockedFacts
<1>d. \A j \in Jobs :
         /\ jobs[j].status # "running" => jobs'[j] = jobs[j]
         /\ jobs[j].age =< VisibilityTimeout => jobs'[j] = jobs[j]
         /\ jobs'[j] = jobs[j] \/ jobs'[j].status = "pending"
  <2> SUFFICES ASSUME NEW j \in Jobs
               PROVE  /\ jobs[j].status # "running" => ~Expired(j)
                      /\ jobs[j].age =< VisibilityTimeout => ~Expired(j)
                      /\ jobs'[j] = jobs[j] \/ jobs'[j].status = "pending"
    BY <1>b
  <2>1. jobs'[j] = jobs[j] \/ jobs'[j].status = "pending"
    BY <1>b, IndInvFacts, UnlockedFacts
  <2> QED
    BY <2>1, IndInvFacts, OptionsAssumption DEF Expired, Row
<1>e. jobs' \in [Jobs -> Row]
  BY <1>c DEF RequeueExpired
<1> USE <1>a, <1>c, <1>d, <1>e, LetGoFacts, IndInvFacts
<1>1. TypeOK'
  BY DEF IndInv, TypeOK
<1>2. CopiesInv'
  BY DEF IndInv, CopiesInv
<1>3. RowLockInv'
  BY DEF IndInv, RowLockInv
<1>4. ClaimsAreDistinct'
  BY NullAssumption DEF IndInv, ClaimsAreDistinct
<1>5. NoHandlerInv'
  BY DEF IndInv, NoHandlerInv
<1>6. FailsOnlyWhenExhausted'
  BY DEF IndInv, FailsOnlyWhenExhausted
<1>7. LeaseInv'
  BY DEF IndInv, LeaseInv
<1> QED
  BY <1>1, <1>2, <1>3, <1>4, <1>5, <1>6, <1>7 DEF IndInv

-----------------------------------------------------------------------------
(* Claims, handlers, processes and time. *)

LEMMA ClaimLockIndInv ==
  ASSUME IndInv, NEW w \in Workers, NEW j \in Jobs, ClaimLock(w, j)
  PROVE  IndInv'
<1>a. /\ worker[w].pc = "loop"
      /\ jobs' = jobs /\ cancelled' = cancelled /\ faults' = faults
      /\ jobs[j].status = "pending"
      /\ \A v \in Workers : Claiming(v) => worker[v].job # j
  BY DEF ClaimLock, CallSucceeds, Claimable, RowLocked, Claiming
<1>b. /\ worker' \in [Workers -> WorkerState]
      /\ worker'[w].pc = "claim" /\ worker'[w].job = j /\ worker'[w].age = 0
      /\ \A v \in Workers \ {w} : worker'[v] = worker[v]
  BY IndInvFacts DEF ClaimLock, WorkerState, Phase
<1>c. /\ Claiming(w)' /\ ~Holding(w)' /\ \A i : ~Holds(w, i)'
      /\ \A v \in Workers \ {w} : /\ Claiming(v)' <=> Claiming(v)
                                  /\ Holding(v)' <=> Holding(v)
                                  /\ \A i : Holds(v, i)' <=> Holds(v, i)
  BY <1>b DEF Claiming, Holding, Holds
<1> USE <1>a, <1>b, <1>c, IndInvFacts
<1>1. TypeOK'
  BY DEF IndInv, TypeOK
<1>2. CopiesInv' /\ RowLockInv' /\ NoHandlerInv'
  BY DEF IndInv, CopiesInv, RowLockInv, NoHandlerInv
<1>3. ClaimsAreDistinct' /\ FailsOnlyWhenExhausted'
  BY DEF IndInv, ClaimsAreDistinct, FailsOnlyWhenExhausted
<1>4. LeaseInv'
  BY OptionsAssumption DEF IndInv, LeaseInv
<1> QED
  BY <1>1, <1>2, <1>3, <1>4 DEF IndInv

\* The UPDATE of the claim, whether or not its answer arrives.
LEMMA ClaimedRowFacts ==
  ASSUME IndInv, NEW w \in Workers, Claiming(w), NEW j \in Jobs, j = worker[w].job,
         ClaimUpdate(w)
  PROVE  /\ jobs[j].status = "pending"
         /\ jobs' \in [Jobs -> Row] /\ \A i \in Jobs \ {j} : jobs'[i] = jobs[i]
         /\ jobs'[j].status = "running" /\ jobs'[j].lockedBy = w
         /\ jobs'[j].attempts = jobs[j].attempts + 1
         /\ jobs'[j].kind = jobs[j].kind /\ jobs'[j].age = worker[w].age
         /\ \A v \in Workers \ {w} : Claiming(v) => worker[v].job # j
         /\ Punctual => \A v \in Workers : ~Holds(v, j)
<1>1. j \in Jobs /\ jobs[j].status = "pending"
  BY IndInvFacts DEF IndInv, RowLockInv
<1>2. /\ ClaimedRow(w, jobs[j]) \in Row
      /\ ClaimedRow(w, jobs[j]).status = "running"
      /\ ClaimedRow(w, jobs[j]).lockedBy = w
      /\ ClaimedRow(w, jobs[j]).attempts = jobs[j].attempts + 1
      /\ ClaimedRow(w, jobs[j]).kind = jobs[j].kind
      /\ ClaimedRow(w, jobs[j]).age = worker[w].age
  <2>1. jobs[j] \in Row /\ worker[w].age \in Nat /\ jobs[j].attempts + 1 \in Nat
    BY <1>1, IndInvFacts
  <2> QED
    <3> DEFINE row == jobs[j]
               n == row.attempts + 1
               age == worker[w].age
    <3>1. row \in Row /\ n \in Nat /\ age \in Nat
      BY <2>1
    <3>2. ClaimedRow(w, row) = [row EXCEPT !.status = "running", !.attempts = n,
                                           !.lockedBy = w, !.age = age]
      BY DEF ClaimedRow
    <3> HIDE DEF row, n, age
    <3>3. /\ ClaimedRow(w, row) \in Row
          /\ ClaimedRow(w, row).status = "running"
          /\ ClaimedRow(w, row).lockedBy = w
          /\ ClaimedRow(w, row).attempts = n
          /\ ClaimedRow(w, row).kind = row.kind
          /\ ClaimedRow(w, row).age = age
      BY <3>1, <3>2 DEF Row
    <3> QED
      BY <3>3 DEF row, n, age
<1>3. /\ jobs' \in [Jobs -> Row] /\ \A i \in Jobs \ {j} : jobs'[i] = jobs[i]
      /\ jobs'[j] = ClaimedRow(w, jobs[j])
  BY <1>1, <1>2, IndInvFacts DEF ClaimUpdate
<1>4. /\ jobs'[j].status = "running" /\ jobs'[j].lockedBy = w
      /\ jobs'[j].attempts = jobs[j].attempts + 1
      /\ jobs'[j].kind = jobs[j].kind /\ jobs'[j].age = worker[w].age
  BY <1>2, <1>3
<1>5. \A v \in Workers \ {w} : Claiming(v) => worker[v].job # j
  BY DEF IndInv, RowLockInv
<1>6. Punctual => \A v \in Workers : ~Holds(v, j)
  BY <1>1 DEF IndInv, LeaseInv, Holds
<1> QED
  BY <1>1, <1>3, <1>4, <1>5, <1>6

LEMMA ClaimCommitIndInv ==
  ASSUME IndInv, NEW w \in Workers, ClaimCommit(w)
  PROVE  IndInv'
<1>0. PICK j \in Jobs : j = worker[w].job
  BY IndInvFacts DEF ClaimCommit, ClaimAnswerLost, Claiming
<1>a. /\ Claiming(w) /\ ClaimUpdate(w)
      /\ cancelled' = cancelled /\ faults' = faults
  BY <1>0 DEF ClaimCommit, Claiming
<1>b. /\ worker' \in [Workers -> WorkerState]
      /\ worker'[w].job = j /\ worker'[w].age = worker[w].age
      /\ worker'[w].attempts = jobs[j].attempts + 1
      /\ worker'[w].pc \in {"run", "fail"}
      /\ worker'[w].pc = "fail" => jobs[j].kind \notin Registered[ProcOf[w]]
      /\ \A v \in Workers \ {w} : worker'[v] = worker[v]
  <2>1. /\ worker[w] \in WorkerState /\ j \in Jobs /\ jobs[j].attempts \in Nat
        /\ worker \in [Workers -> WorkerState]
    BY <1>0, <1>a, IndInvFacts
  <2> DEFINE next == IF jobs[j].kind \in Registered[ProcOf[w]] THEN "run" ELSE "fail"
             new == [worker[w] EXCEPT !.pc = next, !.attempts = jobs[j].attempts + 1]
  <2>2. /\ new \in WorkerState
        /\ new.job = j /\ new.age = worker[w].age
        /\ new.attempts = jobs[j].attempts + 1 /\ new.pc = next
    <3> DEFINE n == jobs[j].attempts + 1
               s == worker[w]
    <3>1. next \in Phase /\ n \in Nat /\ s \in WorkerState /\ s.job = j
      BY <2>1, <1>0 DEF Phase
    <3> HIDE DEF next, n, s
    <3>2. LET t == [s EXCEPT !.pc = next, !.attempts = n]
          IN  /\ t \in WorkerState /\ t.job = j /\ t.age = s.age
              /\ t.attempts = n /\ t.pc = next
      BY <3>1 DEF WorkerState
    <3> QED
      BY <3>2 DEF s, n
  <2>3. worker' = [worker EXCEPT ![w] = new]
    BY <1>0 DEF ClaimCommit
  <2> HIDE DEF new
  <2>4. worker'[w] = new /\ \A v \in Workers \ {w} : worker'[v] = worker[v]
    BY <2>1, <2>3
  <2>5. worker' \in [Workers -> WorkerState]
    BY <2>1, <2>2, <2>3
  <2> QED
    BY <2>2, <2>4, <2>5
<1>c. /\ ~Claiming(w)' /\ Holding(w)' /\ \A i : Holds(w, i)' <=> i = j
      /\ \A v \in Workers \ {w} : /\ Claiming(v)' <=> Claiming(v)
                                  /\ Holding(v)' <=> Holding(v)
                                  /\ \A i : Holds(v, i)' <=> Holds(v, i)
  BY <1>b DEF Claiming, Holding, Holds
<1>d. /\ j \in Jobs /\ jobs[j].status = "pending"
      /\ jobs' \in [Jobs -> Row] /\ \A i \in Jobs \ {j} : jobs'[i] = jobs[i]
      /\ jobs'[j].status = "running" /\ jobs'[j].lockedBy = w
      /\ jobs'[j].attempts = jobs[j].attempts + 1
      /\ jobs'[j].kind = jobs[j].kind /\ jobs'[j].age = worker[w].age
      /\ \A v \in Workers \ {w} : Claiming(v) => worker[v].job # j
      /\ Punctual => \A v \in Workers : ~Holds(v, j)
  BY <1>a, ClaimedRowFacts, <1>0
<1> USE <1>a, <1>b, <1>c, <1>d, IndInvFacts
<1>1. TypeOK'
  BY NullAssumption DEF IndInv, TypeOK
<1>2. CopiesInv'
  BY DEF IndInv, CopiesInv
<1>3. RowLockInv'
  BY DEF IndInv, RowLockInv
<1>4. ClaimsAreDistinct'
  <2> SUFFICES ASSUME NEW v \in Workers, NEW i \in Jobs, Holds(v, i)'
               PROVE  /\ worker'[v].attempts =< jobs'[i].attempts
                      /\ jobs'[i].lockedBy = v => worker'[v].attempts = jobs'[i].attempts
                      /\ \A u \in Workers \ {v} :
                            Holds(u, i)' => worker'[u].attempts # worker'[v].attempts
    BY DEF ClaimsAreDistinct
  <2>1. CASE i # j
    BY <2>1 DEF IndInv, ClaimsAreDistinct
  <2>2. ASSUME NEW u \in Workers \ {w}, Holds(u, j)'
        PROVE  worker'[u].attempts \in Nat /\ worker'[u].attempts < jobs'[j].attempts
    <3>1. Holds(u, j) /\ worker'[u] = worker[u]
      BY <2>2
    <3>2. worker[u].attempts =< jobs[j].attempts
      BY <3>1 DEF IndInv, ClaimsAreDistinct
    <3> QED
      BY <3>1, <3>2
  <2>3. CASE i = j /\ v = w
    <3>1. ASSUME NEW u \in Workers \ {w}, Holds(u, j)'
          PROVE  worker'[u].attempts # jobs'[j].attempts
      BY <2>2, <3>1
    <3>2. worker'[w].attempts = jobs'[j].attempts /\ jobs'[j].attempts \in Nat
      OBVIOUS
    <3> QED
      BY <2>3, <3>1, <3>2
  <2>4. CASE i = j /\ v # w
    <3>1. ASSUME NEW u \in Workers \ {v}, Holds(u, j)'
          PROVE  worker'[u].attempts # worker'[v].attempts
      <4>1. CASE u = w
        BY <2>2, <2>4, <4>1
      <4>2. CASE u # w
        BY <2>4, <3>1, <4>2 DEF IndInv, ClaimsAreDistinct
      <4> QED
        BY <4>1, <4>2
    <3> QED
      BY <2>2, <2>4, <3>1
  <2> QED
    BY <2>1, <2>3, <2>4
<1>5. NoHandlerInv'
  BY DEF IndInv, NoHandlerInv
<1>6. FailsOnlyWhenExhausted'
  BY DEF IndInv, FailsOnlyWhenExhausted
<1>7. LeaseInv'
  BY DEF IndInv, LeaseInv
<1> QED
  BY <1>1, <1>2, <1>3, <1>4, <1>5, <1>6, <1>7 DEF IndInv

LEMMA ClaimAnswerLostIndInv ==
  ASSUME IndInv, NEW w \in Workers, ClaimAnswerLost(w)
  PROVE  IndInv'
<1>0. PICK j \in Jobs : j = worker[w].job
  BY IndInvFacts DEF ClaimCommit, ClaimAnswerLost, Claiming
<1>a. /\ Claiming(w) /\ Goto(w, "poll")
      /\ ClaimUpdate(w)
      /\ cancelled' = cancelled /\ faults' \in 0 .. MaxFaults
  BY <1>0, OptionsAssumption DEF ClaimAnswerLost, Claiming, CallFails, IndInv, TypeOK
<1>d. /\ j \in Jobs /\ jobs[j].status = "pending"
      /\ jobs' \in [Jobs -> Row] /\ \A i \in Jobs \ {j} : jobs'[i] = jobs[i]
      /\ jobs'[j].status = "running" /\ jobs'[j].lockedBy = w
      /\ jobs'[j].attempts = jobs[j].attempts + 1
      /\ jobs'[j].kind = jobs[j].kind
      /\ \A v \in Workers \ {w} : Claiming(v) => worker[v].job # j
      /\ Punctual => \A v \in Workers : ~Holds(v, j)
  BY <1>a, ClaimedRowFacts, <1>0
<1> USE <1>a, <1>d, LetGoFacts, IndInvFacts
<1>1. TypeOK'
  BY NullAssumption DEF IndInv, TypeOK
<1>2. CopiesInv'
  BY DEF IndInv, CopiesInv
<1>3. RowLockInv'
  BY DEF IndInv, RowLockInv
<1>4. ClaimsAreDistinct'
  BY DEF IndInv, ClaimsAreDistinct
<1>5. NoHandlerInv' /\ FailsOnlyWhenExhausted'
  BY DEF IndInv, NoHandlerInv, FailsOnlyWhenExhausted
<1>7. LeaseInv'
  BY DEF IndInv, LeaseInv
<1> QED
  BY <1>1, <1>2, <1>3, <1>4, <1>5, <1>7 DEF IndInv

LEMMA HandlerReturnsIndInv ==
  ASSUME IndInv, NEW w \in Workers, NEW ok \in BOOLEAN, HandlerReturns(w, ok)
  PROVE  IndInv'
<1>a. worker[w].pc = "run" /\ jobs' = jobs /\ cancelled' = cancelled /\ faults' = faults
  BY DEF HandlerReturns
<1>b. /\ worker' \in [Workers -> WorkerState]
      /\ worker'[w].pc \in {"complete", "retry"}
      /\ \A v \in Workers : /\ worker'[v].job = worker[v].job
                            /\ worker'[v].age = worker[v].age
                            /\ worker'[v].attempts = worker[v].attempts
                            /\ v # w => worker'[v].pc = worker[v].pc
  BY IndInvFacts DEF HandlerReturns, WorkerState, Phase
<1>c. \A v \in Workers : /\ Claiming(v)' <=> Claiming(v)
                         /\ Holding(v)' <=> Holding(v)
                         /\ \A i : Holds(v, i)' <=> Holds(v, i)
                         /\ worker'[v].pc = "fail" => worker[v].pc = "fail"
  BY <1>a, <1>b DEF Claiming, Holding, Holds
<1> USE <1>a, <1>b, <1>c, IndInvFacts
<1>1. TypeOK'
  BY DEF IndInv, TypeOK
<1>2. CopiesInv' /\ RowLockInv' /\ NoHandlerInv'
  BY DEF IndInv, CopiesInv, RowLockInv, NoHandlerInv
<1>3. ClaimsAreDistinct' /\ FailsOnlyWhenExhausted' /\ LeaseInv'
  BY DEF IndInv, ClaimsAreDistinct, FailsOnlyWhenExhausted, LeaseInv
<1> QED
  BY <1>1, <1>2, <1>3 DEF IndInv

\* Crash and Restart: all goroutines of a process hold nothing afterwards.
LEMMA ProcessIndInv ==
  ASSUME IndInv, NEW p \in Procs, NEW pc \in {"dead", "poll"},
         worker' = [w \in Workers |-> IF ProcOf[w] = p THEN Idle(pc) ELSE worker[w]],
         jobs' = jobs, cancelled' \in [Procs -> BOOLEAN], faults' \in 0 .. MaxFaults
  PROVE  IndInv'
<1>a. worker' \in [Workers -> WorkerState]
  BY NullAssumption, IndInvFacts DEF Idle, WorkerState, Phase
<1>b. \A w \in Workers : \/ worker'[w] = worker[w]
                         \/ worker'[w].pc \notin {"claim", "run", "complete", "retry", "fail"}
  BY DEF Idle
<1>c. \A w \in Workers : \/ /\ worker'[w] = worker[w]
                            /\ Claiming(w)' <=> Claiming(w)
                            /\ Holding(w)' <=> Holding(w)
                            /\ \A i : Holds(w, i)' <=> Holds(w, i)
                         \/ ~Claiming(w)' /\ ~Holding(w)' /\ (\A i : ~Holds(w, i)')
                            /\ worker'[w].pc # "fail"
  BY <1>b DEF Claiming, Holding, Holds
<1> USE <1>a, <1>c, IndInvFacts
<1>1. TypeOK'
  BY DEF IndInv, TypeOK
<1>2. CopiesInv' /\ RowLockInv' /\ NoHandlerInv'
  BY DEF IndInv, CopiesInv, RowLockInv, NoHandlerInv
<1>3. ClaimsAreDistinct' /\ FailsOnlyWhenExhausted'
  BY DEF IndInv, ClaimsAreDistinct, FailsOnlyWhenExhausted
<1>4. LeaseInv'
  BY DEF IndInv, LeaseInv
<1> QED
  BY <1>1, <1>2, <1>3, <1>4 DEF IndInv

LEMMA EnqueueIndInv ==
  ASSUME IndInv, NEW j \in Jobs, NEW k \in Kinds, NEW d \in StartDelays, Enqueue(j, k, d)
  PROVE  IndInv'
<1>a. /\ jobs[j].status = "absent"
      /\ worker' = worker /\ cancelled' = cancelled /\ faults' = faults
  BY DEF Enqueue
<1>b. /\ jobs' \in [Jobs -> Row]
      /\ jobs'[j].status = "pending" /\ jobs'[j].lockedBy = NoWorker
      /\ \A i \in Jobs \ {j} : jobs'[i] = jobs[i]
  BY IndInvFacts, OptionsAssumption DEF Enqueue, Row
<1>c. \A w \in Workers : /\ Claiming(w)' <=> Claiming(w)
                         /\ Holding(w)' <=> Holding(w)
                         /\ \A i : Holds(w, i)' <=> Holds(w, i)
                         /\ Claiming(w) \/ Holding(w) => worker[w].job \in Jobs \ {j}
                         /\ ~Holds(w, j)
  BY <1>a DEF IndInv, CopiesInv, Claiming, Holding, Holds
<1> USE <1>a, <1>b, <1>c, IndInvFacts
<1>1. TypeOK'
  BY DEF IndInv, TypeOK
<1>2. CopiesInv' /\ RowLockInv' /\ NoHandlerInv'
  BY DEF IndInv, CopiesInv, RowLockInv, NoHandlerInv
<1>3. ClaimsAreDistinct' /\ FailsOnlyWhenExhausted' /\ LeaseInv'
  BY DEF IndInv, ClaimsAreDistinct, FailsOnlyWhenExhausted, LeaseInv
<1> QED
  BY <1>1, <1>2, <1>3 DEF IndInv

LEMMA TickIndInv ==
  ASSUME IndInv, Tick
  PROVE  IndInv'
<1>a. cancelled' = cancelled /\ faults' = faults
  BY DEF Tick
<1>b. \A n \in Nat : Older(n) \in Nat
  BY DEF Older
<1>c. /\ jobs' \in [Jobs -> Row]
      /\ \A j \in Jobs : /\ jobs'[j].status = jobs[j].status
                         /\ jobs'[j].kind = jobs[j].kind
                         /\ jobs'[j].attempts = jobs[j].attempts
                         /\ jobs'[j].lockedBy = jobs[j].lockedBy
                         /\ jobs[j].status = "running" => jobs'[j].age = Older(jobs[j].age)
  <2>1. ASSUME NEW row \in Row
        PROVE  /\ AgedRow(row) \in Row
               /\ AgedRow(row).status = row.status
               /\ AgedRow(row).kind = row.kind
               /\ AgedRow(row).attempts = row.attempts
               /\ AgedRow(row).lockedBy = row.lockedBy
               /\ row.status = "running" => AgedRow(row).age = Older(row.age)
    <3> DEFINE due == IF row.due > -MaxOverdue /\ row.status \in {"pending", "running"}
                      THEN row.due - 1 ELSE row.due
               age == IF row.status = "running" THEN Older(row.age) ELSE row.age
    <3>1. due \in Int /\ age \in Nat
      BY <1>b, OptionsAssumption DEF Row
    <3>2. AgedRow(row) = [row EXCEPT !.due = due, !.age = age]
      BY DEF AgedRow
    <3>3. row.status = "running" => age = Older(row.age)
      OBVIOUS
    <3> HIDE DEF due, age
    <3> QED
      BY <3>1, <3>2, <3>3 DEF Row
  <2>2. jobs' = [j \in Jobs |-> AgedRow(jobs[j])]
    BY DEF Tick
  <2> QED
    BY <2>1, <2>2, IndInvFacts
<1>d. /\ worker' \in [Workers -> WorkerState]
      /\ \A w \in Workers : /\ worker'[w].pc = worker[w].pc
                            /\ worker'[w].job = worker[w].job
                            /\ worker'[w].attempts = worker[w].attempts
                            /\ worker[w].job # NoJob => worker'[w].age = Older(worker[w].age)
  <2>1. ASSUME NEW s \in WorkerState
        PROVE  /\ AgedWorker(s) \in WorkerState
               /\ AgedWorker(s).pc = s.pc /\ AgedWorker(s).job = s.job
               /\ AgedWorker(s).attempts = s.attempts
               /\ s.job # NoJob => AgedWorker(s).age = Older(s.age)
    BY <1>b DEF AgedWorker, WorkerState
  <2>2. worker' = [w \in Workers |-> AgedWorker(worker[w])]
    BY DEF Tick
  <2> QED
    BY <2>1, <2>2, IndInvFacts
<1>e. \A w \in Workers : /\ Claiming(w)' <=> Claiming(w)
                         /\ Holding(w)' <=> Holding(w)
                         /\ \A i : Holds(w, i)' <=> Holds(w, i)
  BY <1>d DEF Claiming, Holding, Holds
<1>f. Punctual => \A w \in Workers :
         Claiming(w) \/ Holding(w) => Older(worker[w].age) =< VisibilityTimeout
  <2> SUFFICES ASSUME Punctual, NEW w \in Workers, Claiming(w) \/ Holding(w)
               PROVE  Older(worker[w].age) =< VisibilityTimeout
    OBVIOUS
  <2>1. worker[w].age < VisibilityTimeout
    BY DEF Tick, Claiming
  <2> QED
    BY <2>1, IndInvFacts, OptionsAssumption DEF Older
<1> USE <1>a, <1>c, <1>d, <1>e, IndInvFacts
<1>1. TypeOK'
  BY DEF IndInv, TypeOK
<1>2. CopiesInv' /\ RowLockInv' /\ NoHandlerInv'
  BY DEF IndInv, CopiesInv, RowLockInv, NoHandlerInv
<1>3. ClaimsAreDistinct' /\ FailsOnlyWhenExhausted'
  BY DEF IndInv, ClaimsAreDistinct, FailsOnlyWhenExhausted
<1>4. LeaseInv'
  BY <1>f, NullAssumption DEF IndInv, LeaseInv
<1> QED
  BY <1>1, <1>2, <1>3, <1>4 DEF IndInv

-----------------------------------------------------------------------------
(* The theorems. *)

LEMMA WorkStepIndInv ==
  ASSUME IndInv, NEW w \in Workers, WorkStep(w)
  PROVE  IndInv'
<1>f. ASSUME CallSucceeds(w) \/ CallFails(w) PROVE faults' \in 0 .. MaxFaults
  BY <1>f, OptionsAssumption DEF CallSucceeds, CallFails, IndInv, TypeOK
<1>0. faults \in 0 .. MaxFaults
  BY DEF IndInv, TypeOK
<1>j. Holding(w) => worker[w].job \in Jobs /\ jobs[worker[w].job] \in Row
                     /\ worker[w].attempts \in Nat /\ worker[w].attempts >= 1
  BY IndInvFacts DEF IndInv, CopiesInv
<1>1. CASE RequeueExpired(w)
  BY <1>1, RequeueExpiredIndInv
<1>2. CASE RequeueFails(w)
  BY <1>2, <1>f, ForgetIndInv DEF RequeueFails
<1>3. CASE Stop(w)
  BY <1>3, <1>0, ForgetIndInv DEF Stop
<1>4. CASE LeaveLoop(w)
  BY <1>4, <1>0, ForgetIndInv DEF LeaveLoop
<1>5. CASE ClaimNothing(w)
  BY <1>5, <1>f, ForgetIndInv DEF ClaimNothing
<1>6. CASE \E j \in Jobs : ClaimLock(w, j)
  BY <1>6, ClaimLockIndInv
<1>7. CASE ClaimCommit(w)
  BY <1>7, ClaimCommitIndInv
<1>8. CASE ClaimRollback(w)
  BY <1>8, <1>f, ForgetIndInv DEF ClaimRollback
<1>9. CASE ClaimAnswerLost(w)
  BY <1>9, ClaimAnswerLostIndInv
<1>10. CASE \E ok \in BOOLEAN : HandlerReturns(w, ok)
  BY <1>10, HandlerReturnsIndInv
<1>11. CASE Complete(w)
  <2>1. Holding(w)
    BY <1>11 DEF Complete, Settle, Holding
  <2> DEFINE row == Unlocked(jobs[worker[w].job], "done")
  <2>2. row \in Row /\ row.status = "done" /\ row.lockedBy = NoWorker
        /\ row.kind = jobs[worker[w].job].kind /\ row.attempts = jobs[worker[w].job].attempts
    BY <2>1, <1>j, UnlockedFacts
  <2>3. Settle(w, "complete", row)
    BY <1>11 DEF Complete
  <2> HIDE DEF row
  <2> QED
    BY <2>2, <2>3, SettleIndInv
<1>12. CASE FailPermanent(w)
  <2>1. Holding(w)
    BY <1>12 DEF FailPermanent, Settle, Holding
  <2> DEFINE row == Unlocked(jobs[worker[w].job], "failed")
  <2>2. row \in Row /\ row.status = "failed" /\ row.lockedBy = NoWorker
        /\ row.kind = jobs[worker[w].job].kind /\ row.attempts = jobs[worker[w].job].attempts
    BY <2>1, <1>j, UnlockedFacts
  <2>3. Settle(w, "fail", row)
    BY <1>12 DEF FailPermanent
  <2> HIDE DEF row
  <2> QED
    BY <2>2, <2>3, SettleIndInv
<1>13. CASE Retry(w) /\ worker[w].attempts >= MaxAttempts
  <2> DEFINE row == Unlocked(jobs[worker[w].job], "failed")
  <2>1. Settle(w, "retry", row) /\ Holding(w)
    BY <1>13 DEF Retry, Settle, Holding
  <2>2. row \in Row /\ row.status = "failed" /\ row.lockedBy = NoWorker
        /\ row.kind = jobs[worker[w].job].kind /\ row.attempts = jobs[worker[w].job].attempts
    BY <2>1, <1>j, UnlockedFacts
  <2> HIDE DEF row
  <2> QED
    BY <1>13, <2>1, <2>2, SettleIndInv
<1>14. CASE Retry(w) /\ ~(worker[w].attempts >= MaxAttempts)
  <2> DEFINE mid == Unlocked(jobs[worker[w].job], "pending")
             due == RetryDelay[worker[w].attempts]
             row == [mid EXCEPT !.due = due]
  <2>1. Settle(w, "retry", row) /\ Holding(w)
    BY <1>14 DEF Retry, Settle, Holding
  <2>2. mid \in Row /\ mid.status = "pending" /\ mid.lockedBy = NoWorker
        /\ mid.kind = jobs[worker[w].job].kind /\ mid.attempts = jobs[worker[w].job].attempts
    BY <2>1, <1>j, UnlockedFacts
  <2>3. worker[w].attempts \in 1 .. MaxAttempts
    BY <2>1, <1>j, <1>14, OptionsAssumption
  <2>4. due \in Int
    BY <2>3, OptionsAssumption
  <2> HIDE DEF mid, due
  <2>5. row \in Row /\ row.status = mid.status /\ row.lockedBy = mid.lockedBy
        /\ row.kind = mid.kind /\ row.attempts = mid.attempts
    BY <2>2, <2>4 DEF Row
  <2> HIDE DEF row
  <2> QED
    BY <2>1, <2>2, <2>5, SettleIndInv
<1>15. CASE SettleFails(w)
  BY <1>15, <1>f, ForgetIndInv DEF SettleFails
<1> QED
  BY <1>1, <1>2, <1>3, <1>4, <1>5, <1>6, <1>7, <1>8, <1>9, <1>10, <1>11, <1>12,
     <1>13, <1>14, <1>15 DEF WorkStep

LEMMA NextIndInv ==
  ASSUME IndInv, [Next]_vars
  PROVE  IndInv'
<1>0. faults \in 0 .. MaxFaults /\ cancelled \in [Procs -> BOOLEAN]
  BY DEF IndInv, TypeOK
<1>1. CASE \E j \in Jobs, k \in Kinds, d \in StartDelays : Enqueue(j, k, d)
  BY <1>1, EnqueueIndInv
<1>2. CASE \E w \in Workers : WorkStep(w)
  BY <1>2, WorkStepIndInv
<1>3. ASSUME NEW p \in Procs, Cancel(p) PROVE IndInv'
  <2>1. /\ cancelled' \in [Procs -> BOOLEAN] /\ faults' \in 0 .. MaxFaults
        /\ worker' = worker /\ jobs' = jobs
    BY <1>0, <1>3, OptionsAssumption DEF Cancel
  <2>2. TypeOK'
    BY <2>1 DEF IndInv, TypeOK
  <2>3. CopiesInv' /\ RowLockInv' /\ NoHandlerInv' /\ LeaseInv'
    BY <2>1 DEF IndInv, CopiesInv, RowLockInv, NoHandlerInv, LeaseInv, Claiming, Holding
  <2>4. ClaimsAreDistinct' /\ FailsOnlyWhenExhausted'
    BY <2>1 DEF IndInv, ClaimsAreDistinct, FailsOnlyWhenExhausted, Holds, Holding
  <2> QED
    BY <2>2, <2>3, <2>4 DEF IndInv
<1>4. ASSUME NEW p \in Procs, Crash(p) PROVE IndInv'
  <2>1. cancelled' \in [Procs -> BOOLEAN] /\ faults' \in 0 .. MaxFaults
    BY <1>0, <1>4, OptionsAssumption DEF Crash
  <2> QED
    BY <1>4, <2>1, ProcessIndInv DEF Crash
<1>5. ASSUME NEW p \in Procs, Restart(p) PROVE IndInv'
  <2>1. cancelled' \in [Procs -> BOOLEAN] /\ faults' \in 0 .. MaxFaults
    BY <1>0, <1>5 DEF Restart
  <2> QED
    BY <1>5, <2>1, ProcessIndInv DEF Restart
<1>6. CASE Tick
  BY <1>6, TickIndInv
<1>7. CASE UNCHANGED vars
  <2>1. jobs' = jobs /\ worker' = worker /\ cancelled' = cancelled /\ faults' = faults
    BY <1>7 DEF vars
  <2>2. TypeOK'
    BY <2>1 DEF IndInv, TypeOK
  <2>3. CopiesInv' /\ RowLockInv' /\ NoHandlerInv' /\ LeaseInv'
    BY <2>1 DEF IndInv, CopiesInv, RowLockInv, NoHandlerInv, LeaseInv, Claiming, Holding
  <2>4. ClaimsAreDistinct' /\ FailsOnlyWhenExhausted'
    BY <2>1 DEF IndInv, ClaimsAreDistinct, FailsOnlyWhenExhausted, Holds, Holding
  <2> QED
    BY <2>2, <2>3, <2>4 DEF IndInv
<1> QED
  BY <1>1, <1>2, <1>3, <1>4, <1>5, <1>6, <1>7 DEF Next

\* The inductive invariant holds in every reachable state of the queue.
THEOREM SpecIndInv == Spec => []IndInv
<1>1. IndInv /\ [Next]_vars => IndInv'
  BY NextIndInv
<1> QED
  BY InitIndInv, <1>1, PTL DEF Spec

\* Type correctness of the jobs table and of the goroutines' states.
THEOREM QueueTypeOK == Spec => []TypeOK
<1>1. IndInv => TypeOK
  BY DEF IndInv
<1> QED
  BY SpecIndInv, <1>1, PTL

\* claimSQL: two goroutines never hold the same attempt of a job, whatever
\* expires, fails or is settled late, for any number of goroutines.
THEOREM QueueClaimsAreDistinct == Spec => []ClaimsAreDistinct
<1>1. IndInv => ClaimsAreDistinct
  BY DEF IndInv
<1> QED
  BY SpecIndInv, <1>1, PTL

\* Retry and handle: only an exhausted or unhandled job is marked failed.
THEOREM QueueFailsOnlyWhenExhausted == Spec => []FailsOnlyWhenExhausted
<1>1. IndInv => FailsOnlyWhenExhausted
  BY DEF IndInv
<1> QED
  BY SpecIndInv, <1>1, PTL

\* "without running a job twice" holds, for any number of worker processes,
\* when every claim is settled within the visibility timeout.
THEOREM QueueExclusiveWhenPunctual == Spec => []ExclusiveWhenPunctual
<1>1. ASSUME IndInv PROVE ExclusiveWhenPunctual
  BY <1>1 DEF IndInv, LeaseInv, ExclusiveWhenPunctual, Holds
<1> QED
  BY SpecIndInv, <1>1, PTL

-----------------------------------------------------------------------------
(* Action properties. *)

\* The five ways in which a step can change the status of a row.
StatusStep(j) ==
    \/ jobs'[j].status = jobs[j].status
    \/ jobs[j].status = "absent" /\ jobs'[j].status = "pending"
    \/ jobs[j].status = "pending" /\ jobs'[j].status = "running"
    \/ Expired(j) /\ jobs'[j].status = "pending"
    \/ \E w \in Workers : Holds(w, j) /\ ~Holds(w, j)'

LEMMA SettleStatusStep ==
  ASSUME IndInv, NEW w \in Workers, NEW pc \in {"complete", "retry", "fail"}, NEW row,
         Settle(w, pc, row), NEW j \in Jobs
  PROVE  StatusStep(j)
<1>1. CASE j = worker[w].job
  <2>1. Holds(w, j)
    BY <1>1 DEF Settle, Holds, Holding
  <2>2. ~Holds(w, j)'
    BY IndInvFacts, LetGoFacts DEF Settle
  <2> QED
    BY <2>1, <2>2 DEF StatusStep
<1>2. CASE j # worker[w].job
  BY <1>2, IndInvFacts DEF Settle, StatusStep
<1> QED
  BY <1>1, <1>2

LEMMA NextStatusStep ==
  ASSUME IndInv, [Next]_vars, NEW j \in Jobs
  PROVE  StatusStep(j)
<1>1. ASSUME NEW i \in Jobs, NEW k \in Kinds, NEW d \in StartDelays, Enqueue(i, k, d)
      PROVE  StatusStep(j)
  <2>1. CASE i = j
    <3>1. jobs'[j].status = "pending" /\ jobs[j].status = "absent"
      BY <1>1, <2>1, IndInvFacts DEF Enqueue
    <3> QED
      BY <3>1 DEF StatusStep
  <2>2. CASE i # j
    BY <1>1, <2>2, IndInvFacts DEF Enqueue, StatusStep
  <2> QED
    BY <2>1, <2>2
<1>2. ASSUME NEW w \in Workers, RequeueExpired(w) PROVE StatusStep(j)
  <2>1. jobs'[j] = IF Expired(j) THEN Unlocked(jobs[j], "pending") ELSE jobs[j]
    BY <1>2 DEF RequeueExpired
  <2>2. Unlocked(jobs[j], "pending").status = "pending"
    BY IndInvFacts, UnlockedFacts
  <2> QED
    BY <2>1, <2>2 DEF StatusStep
<1>3. ASSUME NEW w \in Workers, ClaimCommit(w) \/ ClaimAnswerLost(w) PROVE StatusStep(j)
  <2>1. Claiming(w) /\ ClaimUpdate(w)
    BY <1>3 DEF ClaimCommit, ClaimAnswerLost, Claiming
  <2>2. PICK i \in Jobs : i = worker[w].job
    BY <2>1, IndInvFacts
  <2>3. /\ jobs[i].status = "pending" /\ jobs'[i].status = "running"
        /\ \A h \in Jobs \ {i} : jobs'[h] = jobs[h]
    BY <2>1, <2>2, ClaimedRowFacts
  <2> QED
    BY <2>3 DEF StatusStep
<1>4. ASSUME NEW w \in Workers, Complete(w) \/ FailPermanent(w) \/ Retry(w)
      PROVE  StatusStep(j)
  <2>1. CASE Complete(w)
    BY <2>1, SettleStatusStep DEF Complete
  <2>2. CASE FailPermanent(w)
    BY <2>2, SettleStatusStep DEF FailPermanent
  <2>3. CASE Retry(w)
    <3>1. \E row : Settle(w, "retry", row)
      BY <2>3 DEF Retry
    <3> QED
      BY <3>1, SettleStatusStep
  <2> QED
    BY <1>4, <2>1, <2>2, <2>3
<1>5. CASE Tick
  <2>1. jobs'[j] = AgedRow(jobs[j])
    BY <1>5 DEF Tick
  <2>2. ASSUME NEW row \in Row PROVE AgedRow(row).status = row.status
    BY DEF AgedRow, Row
  <2> QED
    BY <2>1, <2>2, IndInvFacts DEF StatusStep
<1>6. CASE jobs' = jobs
  BY <1>6 DEF StatusStep
<1> QED
  BY <1>1, <1>2, <1>3, <1>4, <1>5, <1>6 DEF Next, WorkStep, Cancel, Crash, Restart, vars,
     RequeueFails, Stop, LeaveLoop, ClaimNothing, ClaimLock, ClaimRollback,
     HandlerReturns, SettleFails

\* RequeueExpired and the settlements: a running row is released only when its
\* lease has expired or by a goroutine that holds the job.
THEOREM QueueReleasedOnlyByHolderOrExpiry == Spec => ReleasedOnlyByHolderOrExpiry
<1> DEFINE Released == \A j \in Jobs :
              jobs[j].status = "running" /\ jobs'[j].status = "pending" =>
                 \/ Expired(j)
                 \/ \E w \in Workers : Holds(w, j) /\ ~Holds(w, j)'
<1>1. ASSUME IndInv, [Next]_vars PROVE Released
  BY <1>1, NextStatusStep DEF StatusStep
<1>2. IndInv /\ [Next]_vars => [Released]_vars
  BY <1>1
<1>3. Spec => [][Released]_vars
  BY SpecIndInv, <1>2, PTL DEF Spec
<1> QED
  BY <1>3 DEF ReleasedOnlyByHolderOrExpiry

\* Complete and FailPermanent are final when every claim is settled within the
\* visibility timeout.
THEOREM QueueSettledIsFinalWhenPunctual == Spec => SettledIsFinalWhenPunctual
<1> DEFINE Final == Punctual => \A j \in Jobs : jobs[j].status \in {"done", "failed"}
                                  => jobs'[j].status = jobs[j].status
<1>1. ASSUME IndInv, [Next]_vars, Punctual, NEW j \in Jobs,
             jobs[j].status \in {"done", "failed"}
      PROVE  jobs'[j].status = jobs[j].status
  <2>1. ~Expired(j)
    BY <1>1 DEF Expired
  <2>2. \A w \in Workers : ~Holds(w, j)
    BY <1>1 DEF IndInv, LeaseInv, Holds
  <2>3. StatusStep(j)
    BY <1>1, NextStatusStep
  <2> QED
    BY <1>1, <2>1, <2>2, <2>3 DEF StatusStep
<1>2. IndInv /\ [Next]_vars => [Final]_vars
  BY <1>1
<1>3. Spec => [][Final]_vars
  BY SpecIndInv, <1>2, PTL DEF Spec
<1> QED
  BY <1>3 DEF SettledIsFinalWhenPunctual

-----------------------------------------------------------------------------
(* The refinement: when every claim is settled within the visibility       *)
(* timeout, the table and its workers implement LeaseQueue.                *)

\* The refinement mapping, by name.
State == [j \in Jobs |-> Promised(jobs[j].status)]
Holders == [j \in Jobs |-> {w \in Workers : Holds(w, j)}]

SameStatus(S) == \A i \in Jobs \ S : jobs'[i].status = jobs[i].status
SameHolders(S) == \A i \in Jobs \ S, v \in Workers : Holds(v, i)' <=> Holds(v, i)

-----------------------------------------------------------------------------
(* From rows and copies to the abstract state. *)

LEMMA StateSame ==
  ASSUME SameStatus({})
  PROVE  State' = State
  BY DEF State, SameStatus

LEMMA HoldersSame ==
  ASSUME SameHolders({})
  PROVE  Holders' = Holders
<1>1. \A j \in Jobs : {w \in Workers : Holds(w, j)'} = {w \in Workers : Holds(w, j)}
  BY DEF SameHolders
<1> QED
  BY <1>1 DEF Holders

LEMMA StateExcept ==
  ASSUME NEW j \in Jobs, SameStatus({j})
  PROVE  State' = [State EXCEPT ![j] = Promised(jobs'[j].status)]
  BY DEF State, SameStatus

LEMMA HoldersExcept ==
  ASSUME NEW j \in Jobs, SameHolders({j})
  PROVE  Holders' = [Holders EXCEPT ![j] = {v \in Workers : Holds(v, j)'}]
<1>1. \A i \in Jobs \ {j} : {w \in Workers : Holds(w, i)'} = {w \in Workers : Holds(w, i)}
  BY DEF SameHolders
<1> QED
  BY <1>1 DEF Holders

-----------------------------------------------------------------------------
(* The steps of LeaseQueue in terms of rows and copies. *)

LEMMA SubmitStep ==
  ASSUME NEW j \in Jobs, jobs[j].status = "absent", jobs'[j].status = "pending",
         SameStatus({j}), SameHolders({})
  PROVE  Lease!Submit(j)
<1>1. State[j] = "absent"
  BY DEF State, Promised
<1>2. State' = [State EXCEPT ![j] = "waiting"]
  BY StateExcept DEF Promised
<1>3. Holders' = Holders
  BY HoldersSame
<1> QED
  BY <1>1, <1>2, <1>3 DEF Lease!Submit, State, Holders

LEMMA TakeStep ==
  ASSUME NEW j \in Jobs, NEW w \in Workers, ~Holding(w),
         jobs[j].status = "pending", jobs'[j].status = "running", SameStatus({j}),
         \/ SameHolders({})
         \/ SameHolders({j}) /\ \A v \in Workers : Holds(v, j)' <=> v = w
  PROVE  Lease!Take(j, w)
<1>1. State[j] = "waiting"
  BY DEF State, Promised
<1>2. State' = [State EXCEPT ![j] = "taken"]
  BY StateExcept DEF Promised
<1>3. \A i \in Jobs : w \notin Holders[i]
  BY DEF Holders, Holds
<1>4. Holders' = [Holders EXCEPT ![j] = {w}] \/ Holders' = Holders
  <2>1. CASE SameHolders({})
    BY <2>1, HoldersSame
  <2>2. CASE SameHolders({j}) /\ \A v \in Workers : Holds(v, j)' <=> v = w
    <3>1. {v \in Workers : Holds(v, j)'} = {w}
      BY <2>2
    <3> QED
      BY <2>2, <3>1, HoldersExcept
  <2> QED
    BY <2>1, <2>2
<1> QED
  BY <1>1, <1>2, <1>3, <1>4 DEF Lease!Take, State, Holders

LEMMA SettleStep ==
  ASSUME NEW j \in Jobs, NEW w \in Workers, Holds(w, j),
         jobs'[j].status \in {"pending", "done", "failed"}, SameStatus({j}),
         SameHolders({j}), \A v \in Workers : ~Holds(v, j)'
  PROVE  Lease!Settle(j, w)
<1>1. w \in Holders[j]
  BY DEF Holders
<1>2. \E s \in {"waiting", "done", "failed"} : State' = [State EXCEPT ![j] = s]
  BY StateExcept DEF Promised
<1>3. Holders' = [Holders EXCEPT ![j] = {}]
  <2>1. {v \in Workers : Holds(v, j)'} = {}
    OBVIOUS
  <2> QED
    BY <2>1, HoldersExcept
<1> QED
  BY <1>1, <1>2, <1>3 DEF Lease!Settle, State, Holders

LEMMA DropStep ==
  ASSUME NEW W \in SUBSET Workers, SameStatus({}),
         \A v \in Workers, i \in Jobs : Holds(v, i)' <=> Holds(v, i) /\ v \notin W
  PROVE  Lease!Drop(W)
<1>1. State' = State
  BY StateSame
<1>2. \A i \in Jobs : {v \in Workers : Holds(v, i)'} = {v \in Workers : Holds(v, i)} \ W
  OBVIOUS
<1>3. Holders' = [i \in Jobs |-> Holders[i] \ W]
  BY <1>2 DEF Holders
<1> QED
  BY <1>1, <1>3 DEF Lease!Drop, State, Holders

LEMMA RecoverStep ==
  ASSUME NEW S \in SUBSET Jobs, SameStatus(S), SameHolders({}),
         \A j \in S : jobs[j].status = "running" /\ jobs'[j].status = "pending",
         \A j \in S, v \in Workers : ~Holds(v, j)
  PROVE  Lease!Recover(S)
<1>1. \A j \in S : State[j] = "taken" /\ Holders[j] = {}
  BY DEF State, Holders, Promised
<1>2. State' = [j \in Jobs |-> IF j \in S THEN "waiting" ELSE State[j]]
  BY DEF State, SameStatus, Promised
<1>3. Holders' = Holders
  BY HoldersSame
<1> QED
  BY <1>1, <1>2, <1>3 DEF Lease!Recover, State, Holders

-----------------------------------------------------------------------------
(* Which step of LeaseQueue each step of the queue is. *)

Stutters == State' = State /\ Holders' = Holders

LEMMA StutterStep ==
  ASSUME SameStatus({}), SameHolders({})
  PROVE  Stutters
  BY StateSame, HoldersSame DEF Stutters

\* A goroutine without a job that gets none.
LEMMA IdleStep ==
  ASSUME IndInv, NEW w \in Workers, ~Holding(w), NEW pc \in {"poll", "loop", "stopped"},
         Goto(w, pc)
  PROVE  SameHolders({})
  BY LetGoFacts, IndInvFacts DEF SameHolders, Holds

LEMMA RequeueExpiredStep ==
  ASSUME Punctual, IndInv, NEW w \in Workers, RequeueExpired(w)
  PROVE  Lease!Recover({j \in Jobs : Expired(j)})
<1> DEFINE S == {j \in Jobs : Expired(j)}
<1>1. SameHolders({})
  BY IdleStep DEF RequeueExpired, Holding
<1>2. ASSUME NEW j \in Jobs
      PROVE  jobs'[j] = IF j \in S THEN Unlocked(jobs[j], "pending") ELSE jobs[j]
  BY DEF RequeueExpired
<1>3. SameStatus(S)
  BY <1>2 DEF SameStatus
<1>4. \A j \in S : jobs[j].status = "running" /\ jobs'[j].status = "pending"
  BY <1>2, UnlockedFacts, IndInvFacts DEF Expired
<1>5. \A j \in S, v \in Workers : ~Holds(v, j)
  <2> SUFFICES ASSUME NEW j \in Jobs, Expired(j), NEW v \in Workers, Holds(v, j)
               PROVE  FALSE
    OBVIOUS
  <2>1. jobs[j].age = worker[v].age /\ worker[v].age =< VisibilityTimeout
    BY DEF IndInv, LeaseInv, Holds
  <2> QED
    BY <2>1, IndInvFacts, OptionsAssumption DEF Expired
<1> HIDE DEF S
<1>6. S \in SUBSET Jobs
  BY DEF S
<1>7. Lease!Recover(S)
  BY <1>1, <1>3, <1>4, <1>5, <1>6, RecoverStep
<1> QED
  BY <1>7 DEF S

LEMMA ClaimStep ==
  ASSUME Punctual, IndInv, NEW w \in Workers, ClaimCommit(w) \/ ClaimAnswerLost(w)
  PROVE  \E j \in Jobs : Lease!Take(j, w)
<1>1. Claiming(w) /\ ClaimUpdate(w) /\ ~Holding(w)
  BY IndInvFacts DEF ClaimCommit, ClaimAnswerLost, Claiming
<1>2. PICK j \in Jobs : j = worker[w].job
  BY <1>1, IndInvFacts
<1>3. /\ jobs[j].status = "pending" /\ jobs'[j].status = "running"
      /\ \A h \in Jobs \ {j} : jobs'[h] = jobs[h]
  BY <1>1, <1>2, ClaimedRowFacts
<1>4. SameStatus({j})
  BY <1>3 DEF SameStatus
<1>5. CASE ClaimCommit(w)
  <2>1. \A v \in Workers : ~Holds(v, j)
    BY <1>3 DEF IndInv, LeaseInv, Holds
  <2>2. \A v \in Workers \ {w} : worker'[v] = worker[v]
    BY <1>5, IndInvFacts DEF ClaimCommit
  <2>3. worker'[w].pc \in {"run", "fail"} /\ worker'[w].job = j
    BY <1>2, <1>5, IndInvFacts DEF ClaimCommit, WorkerState
  <2>4. \A v \in Workers : Holds(v, j)' <=> v = w
    BY <2>1, <2>2, <2>3 DEF Holds, Holding
  <2>5. SameHolders({j})
    BY <1>1, <2>2, <2>3 DEF SameHolders, Holds, Holding
  <2> QED
    BY <1>1, <1>3, <1>4, <2>4, <2>5, TakeStep
<1>6. CASE ClaimAnswerLost(w)
  <2>1. SameHolders({})
    BY <1>1, <1>6, IdleStep DEF ClaimAnswerLost
  <2> QED
    BY <1>1, <1>3, <1>4, <2>1, TakeStep
<1> QED
  BY <1>5, <1>6

LEMMA SettlementStep ==
  ASSUME Punctual, IndInv, NEW w \in Workers, NEW pc \in {"complete", "retry", "fail"},
         NEW row, row.status \in {"pending", "done", "failed"}, Settle(w, pc, row)
  PROVE  \E j \in Jobs : Lease!Settle(j, w)
<1>1. Holding(w)
  BY DEF Settle, Holding
<1>2. PICK j \in Jobs : j = worker[w].job /\ Holds(w, j)
  BY <1>1, IndInvFacts
<1>3. jobs'[j] = row /\ \A i \in Jobs \ {j} : jobs'[i] = jobs[i]
  BY <1>2, IndInvFacts DEF Settle
<1>4. SameStatus({j}) /\ jobs'[j].status \in {"pending", "done", "failed"}
  BY <1>3 DEF SameStatus
<1>5. Goto(w, "loop")
  BY DEF Settle
<1>6. \A i : ~Holds(w, i)'
  BY <1>5, LetGoFacts, IndInvFacts
<1>7. \A v \in Workers \ {w}, i \in Jobs : Holds(v, i)' <=> Holds(v, i)
  BY <1>5, LetGoFacts, IndInvFacts
<1>8. \A v \in Workers \ {w} : ~Holds(v, j)
  BY <1>2 DEF IndInv, LeaseInv, Holds
<1>9. \A v \in Workers : ~Holds(v, j)'
  BY <1>6, <1>7, <1>8
<1>10. SameHolders({j})
  BY <1>2, <1>6, <1>7 DEF SameHolders, Holds
<1> QED
  BY <1>2, <1>4, <1>9, <1>10, SettleStep

LEMMA SettleFailsStep ==
  ASSUME IndInv, NEW w \in Workers, SettleFails(w)
  PROVE  Lease!Drop({w})
<1>1. Goto(w, "loop") /\ jobs' = jobs
  BY DEF SettleFails
<1>2. \A v \in Workers, i \in Jobs : Holds(v, i)' <=> Holds(v, i) /\ v \notin {w}
  BY <1>1, LetGoFacts, IndInvFacts
<1>3. SameStatus({})
  BY <1>1 DEF SameStatus
<1> QED
  BY <1>2, <1>3, DropStep

\* A crash, and a start after which nobody of the process had a job.
LEMMA ProcessStep ==
  ASSUME IndInv, NEW p \in Procs, NEW pc \in {"dead", "poll"},
         worker' = [w \in Workers |-> IF ProcOf[w] = p THEN Idle(pc) ELSE worker[w]],
         jobs' = jobs
  PROVE  \E W \in SUBSET Workers : Lease!Drop(W)
<1> DEFINE W == {w \in Workers : ProcOf[w] = p}
<1>1. SameStatus({})
  BY DEF SameStatus
<1>2. \A v \in Workers, i \in Jobs : Holds(v, i)' <=> Holds(v, i) /\ v \notin W
  BY DEF Holds, Holding, Idle
<1>3. W \in SUBSET Workers
  OBVIOUS
<1> HIDE DEF W
<1> QED
  BY <1>1, <1>2, <1>3, DropStep

LEMMA TickStep ==
  ASSUME IndInv, Tick
  PROVE  Stutters
<1>1. ASSUME NEW row \in Row PROVE AgedRow(row).status = row.status
  BY DEF AgedRow, Row
<1>2. SameStatus({})
  BY <1>1, IndInvFacts DEF Tick, SameStatus
<1>3. ASSUME NEW s \in WorkerState
      PROVE  AgedWorker(s).pc = s.pc /\ AgedWorker(s).job = s.job
  BY DEF AgedWorker, WorkerState
<1>4. \A v \in Workers : worker'[v].pc = worker[v].pc /\ worker'[v].job = worker[v].job
  BY <1>3, IndInvFacts DEF Tick
<1>5. SameHolders({})
  BY <1>4 DEF SameHolders, Holds, Holding
<1> QED
  BY <1>2, <1>5, StutterStep

LEMMA WorkStepStep ==
  ASSUME Punctual, IndInv, NEW w \in Workers, WorkStep(w)
  PROVE  Lease!Next \/ Stutters
<1>1. CASE RequeueExpired(w)
  <2>1. {j \in Jobs : Expired(j)} \in SUBSET Jobs
    OBVIOUS
  <2> QED
    BY <1>1, <2>1, RequeueExpiredStep DEF Lease!Next
<1>2. CASE RequeueFails(w) \/ Stop(w) \/ LeaveLoop(w) \/ ClaimNothing(w) \/ ClaimRollback(w)
  <2>1. jobs' = jobs /\ ~Holding(w) /\ \E pc \in {"poll", "loop", "stopped"} : Goto(w, pc)
    BY <1>2 DEF RequeueFails, Stop, LeaveLoop, ClaimNothing, ClaimRollback, Holding
  <2>2. SameHolders({}) /\ SameStatus({})
    BY <2>1, IdleStep DEF SameStatus
  <2> QED
    BY <2>2, StutterStep
<1>3. ASSUME NEW j \in Jobs, ClaimLock(w, j) PROVE Stutters
  <2>1. jobs' = jobs /\ worker[w].pc = "loop" /\ worker'[w].pc = "claim"
    BY <1>3, IndInvFacts DEF ClaimLock
  <2>2. \A v \in Workers \ {w} : worker'[v] = worker[v]
    BY <1>3, IndInvFacts DEF ClaimLock
  <2>3. SameHolders({}) /\ SameStatus({})
    BY <2>1, <2>2 DEF SameHolders, SameStatus, Holds, Holding
  <2> QED
    BY <2>3, StutterStep
<1>4. CASE ClaimCommit(w) \/ ClaimAnswerLost(w)
  BY <1>4, ClaimStep DEF Lease!Next
<1>5. ASSUME NEW ok \in BOOLEAN, HandlerReturns(w, ok) PROVE Stutters
  <2>1. /\ jobs' = jobs /\ worker[w].pc = "run"
        /\ worker'[w].pc \in {"complete", "retry"} /\ worker'[w].job = worker[w].job
    BY <1>5, IndInvFacts DEF HandlerReturns, WorkerState
  <2>2. \A v \in Workers \ {w} : worker'[v] = worker[v]
    BY <1>5, IndInvFacts DEF HandlerReturns
  <2>3. SameHolders({}) /\ SameStatus({})
    BY <2>1, <2>2 DEF SameHolders, SameStatus, Holds, Holding
  <2> QED
    BY <2>3, StutterStep
<1>6. CASE Complete(w) \/ FailPermanent(w) \/ Retry(w)
  <2>1. jobs[worker[w].job] \in Row
    <3>1. Holding(w)
      BY <1>6 DEF Complete, FailPermanent, Retry, Settle, Holding
    <3> QED
      BY <3>1, IndInvFacts
  <2> DEFINE new(st) == Unlocked(jobs[worker[w].job], st)
             later == [new("pending") EXCEPT !.due = RetryDelay[worker[w].attempts]]
  <2>2. new("done").status = "done" /\ new("failed").status = "failed"
    BY <2>1, UnlockedFacts
  <2>3. later.status = "pending"
    BY <2>1 DEF Unlocked, Row
  <2>4. \/ Settle(w, "complete", new("done")) \/ Settle(w, "fail", new("failed"))
        \/ Settle(w, "retry", new("failed")) \/ Settle(w, "retry", later)
    BY <1>6 DEF Complete, FailPermanent, Retry
  <2> HIDE DEF new, later
  <2>5. \E j \in Jobs : Lease!Settle(j, w)
    BY <2>2, <2>3, <2>4, SettlementStep
  <2> QED
    BY <2>5 DEF Lease!Next
<1>7. CASE SettleFails(w)
  <2>1. {w} \in SUBSET Workers
    OBVIOUS
  <2> QED
    BY <1>7, <2>1, SettleFailsStep DEF Lease!Next
<1> QED
  BY <1>1, <1>2, <1>3, <1>4, <1>5, <1>6, <1>7 DEF WorkStep

LEMMA NextStep ==
  ASSUME Punctual, IndInv, [Next]_vars
  PROVE  Lease!Next \/ Stutters
<1>1. ASSUME NEW j \in Jobs, NEW k \in Kinds, NEW d \in StartDelays, Enqueue(j, k, d)
      PROVE  Lease!Next
  <2>1. /\ jobs[j].status = "absent" /\ jobs'[j].status = "pending"
        /\ \A i \in Jobs \ {j} : jobs'[i] = jobs[i]
    BY <1>1, IndInvFacts DEF Enqueue
  <2>2. SameStatus({j}) /\ SameHolders({})
    BY <1>1, <2>1 DEF Enqueue, SameStatus, SameHolders, Holds, Holding
  <2> QED
    BY <2>1, <2>2, SubmitStep DEF Lease!Next
<1>2. ASSUME NEW p \in Procs, Crash(p) \/ Restart(p) PROVE Lease!Next
  BY <1>2, ProcessStep DEF Crash, Restart, Lease!Next
<1>3. CASE jobs' = jobs /\ worker' = worker
  <2>1. SameStatus({}) /\ SameHolders({})
    BY <1>3 DEF SameStatus, SameHolders, Holds, Holding
  <2> QED
    BY <2>1, StutterStep
<1> QED
  BY <1>1, <1>2, <1>3, WorkStepStep, TickStep DEF Next, Cancel, vars

\* The refinement: when every claim is settled within the visibility timeout,
\* the jobs table and the workers do what LeaseQueue promises, for any number of
\* jobs, processes, goroutines and faults.
THEOREM QueueRefinesLeaseQueue ==
  ASSUME Punctual
  PROVE  Spec => RefinesLeaseQueue
<1>1. Init => Lease!Init
  <2> SUFFICES ASSUME Init PROVE Lease!Init
    OBVIOUS
  <2>1. State = [j \in Jobs |-> "absent"]
    BY DEF Init, State, Promised
  <2>2. \A w \in Workers, j \in Jobs : ~Holds(w, j)
    BY DEF Init, Holds, Holding, Idle
  <2>3. Holders = [j \in Jobs |-> {}]
    BY <2>2 DEF Holders
  <2> QED
    BY <2>1, <2>3 DEF Lease!Init, State, Holders
<1>2. IndInv /\ [Next]_vars =>
        [Lease!Next]_<<[j \in Jobs |-> Promised(jobs[j].status)],
                       [j \in Jobs |-> {w \in Workers : Holds(w, j)}]>>
  BY NextStep DEF Stutters, State, Holders
<1> QED
  BY <1>1, <1>2, SpecIndInv, PTL DEF Spec, RefinesLeaseQueue, Lease!Spec
=============================================================================
