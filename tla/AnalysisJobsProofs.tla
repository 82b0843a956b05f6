--------------------------- MODULE AnalysisJobsProofs ---------------------------
(***************************************************************************)
(* Proofs about AnalysisJobs for every set of incidents and processes and  *)
(* every value of the limits.  One lemma per conjunct of IInv, with one    *)
(* step per action; the theorems at the end read the properties off IInv.  *)
(***************************************************************************)
EXTENDS AnalysisJobs, TLAPS

USE NoneAssumption, LimitAssumption

(* The rows claim_next, complete and fail write, and the ageing of a row,  *)
(* are rows.                                                               *)
LEMMA RowTypes ==
  ASSUME TypeOK, NEW i \in Incident
  PROVE  /\ \A w \in Worker : Leased(i, w) \in JobRow
         /\ Succeeded(i) \in JobRow
         /\ \A code \in Failure : Failed(i, code) \in JobRow
         /\ Aged(job[i]) \in JobRow
<1>0. job[i] \in JobRow
  BY DEF TypeOK
<1>1. ASSUME NEW w \in Worker PROVE Leased(i, w) \in JobRow
  BY <1>0 DEF JobRow, Leased, Status
<1>2. Succeeded(i) \in JobRow
  BY <1>0 DEF JobRow, Succeeded, Status
<1>3. ASSUME NEW code \in Failure PROVE Failed(i, code) \in JobRow
  <2>1. RetryDelay(job[i].attempt_count) \in Int
    BY <1>0 DEF JobRow, RetryDelay
  <2>2. (IF ShouldRetry(i, code) THEN "PENDING" ELSE "FAILED") \in Status
    BY DEF Status
  <2> QED
    BY <1>0, <2>1, <2>2 DEF JobRow, Failed
<1>4. Aged(job[i]) \in JobRow
  <2>1. \A t \in Int : Earlier(t) \in Int
    BY DEF Earlier
  <2> QED
    BY <1>0, <2>1 DEF JobRow, Aged
<1> QED
  BY <1>1, <1>2, <1>3, <1>4

(* A step keeps every variable in its type.                                *)
LEMMA TypeStep ==
  ASSUME TypeOK, BusyOnClaim, [Next]_vars
  PROVE  TypeOK'
<1>1. ASSUME NEW batch \in SUBSET Incident, Enqueue(batch) PROVE TypeOK'
  <2>1. NewJob \in JobRow
    BY DEF NewJob, NoJob, JobRow, Status
  <2> QED
    BY <1>1, <2>1 DEF Enqueue, TypeOK
<1>2. ASSUME NEW w \in Worker, NEW i \in Incident, Claim(w, i) PROVE TypeOK'
  <2>1. job' \in [Incident -> JobRow]
    BY <1>2, RowTypes DEF Claim, TypeOK
  <2>2. worker' \in [Worker -> Process]
    BY <1>2 DEF Claim, TypeOK, Process, JobRow
  <2>3. takeovers' \in [Incident -> Nat]
    BY <1>2 DEF Claim, TypeOK
  <2> QED
    BY <1>2, <2>1, <2>2, <2>3 DEF Claim, TypeOK, tables
<1>3. ASSUME NEW w \in Worker, Complete(w) PROVE TypeOK'
  <2>1. worker[w].incident \in Incident /\ worker[w].attempt \in Nat
    BY <1>3 DEF Complete, BusyOnClaim, TypeOK, Process
  <2>2. Written(w) \subseteq Row
    BY <2>1 DEF Written, Row
  <2>3. job' \in [Incident -> JobRow]
    BY <1>3, <2>1, RowTypes DEF Complete, TypeOK
  <2>4. worker' \in [Worker -> Process]
    BY <1>3 DEF Complete, TypeOK, Process, Idle
  <2> QED
    BY <1>3, <2>2, <2>3, <2>4 DEF Complete, TypeOK
<1>4. ASSUME NEW w \in Worker, CompleteLost(w) \/ FailLost(w) \/ Crash(w) PROVE TypeOK'
  BY <1>4 DEF CompleteLost, FailLost, Crash, TypeOK, Process, Down, Idle
<1>5. ASSUME NEW w \in Worker, NEW code \in Failure, Fail(w, code) PROVE TypeOK'
  <2>1. worker[w].incident \in Incident
    BY <1>5 DEF Fail, BusyOnClaim
  <2>2. job' \in [Incident -> JobRow]
    BY <1>5, <2>1, RowTypes DEF Fail, TypeOK
  <2>3. worker' \in [Worker -> Process]
    BY <1>5 DEF Fail, TypeOK, Process, Idle
  <2> QED
    BY <1>5, <2>2, <2>3 DEF Fail, TypeOK
<1>6. ASSUME Tick PROVE TypeOK'
  <2>1. job' \in [Incident -> JobRow]
    BY <1>6, RowTypes DEF Tick, TypeOK
  <2>2. worker' \in [Worker -> Process]
    BY <1>6 DEF Tick, TypeOK, Process
  <2> QED
    BY <1>6, <2>1, <2>2 DEF Tick, TypeOK
<1>7. CASE UNCHANGED vars
  BY <1>7 DEF vars, TypeOK
<1> QED
  BY <1>1, <1>2, <1>3, <1>4, <1>5, <1>6, <1>7 DEF Next, ClaimNext

(* A process that starts to work has a job, and the clock waits for it.    *)
LEMMA BusyStep ==
  ASSUME TypeOK, BusyOnClaim, [Next]_vars
  PROVE  BusyOnClaim'
<1>1. ASSUME NEW w \in Worker, NEW i \in Incident, Claim(w, i) PROVE BusyOnClaim'
  BY <1>1 DEF Claim, BusyOnClaim, Busy, TypeOK, Process
<1>2. ASSUME NEW w \in Worker,
             \/ Complete(w) \/ CompleteLost(w) \/ FailLost(w) \/ Crash(w)
             \/ \E code \in Failure : Fail(w, code)
      PROVE  BusyOnClaim'
  BY <1>2 DEF Complete, CompleteLost, FailLost, Crash, Fail, BusyOnClaim, Busy,
              Idle, Down, TypeOK, Process
<1>3. ASSUME Tick PROVE BusyOnClaim'
  BY <1>3 DEF Tick, BusyOnClaim, Busy, TypeOK, Process
<1>4. CASE UNCHANGED vars \/ \E batch \in SUBSET Incident : Enqueue(batch)
  BY <1>4 DEF Enqueue, vars, BusyOnClaim, Busy
<1> QED
  BY <1>1, <1>2, <1>3, <1>4 DEF Next, ClaimNext

(* Time changes nothing in the rows and processes but their times.         *)
LEMMA TickKeeps ==
  ASSUME TypeOK, Tick
  PROVE  /\ \A i \in Incident :
              /\ job'[i].status = job[i].status
              /\ job'[i].attempt_count = job[i].attempt_count
              /\ job'[i].lease_owner = job[i].lease_owner
              /\ job'[i].failure_code = job[i].failure_code
         /\ \A w \in Worker :
              /\ worker'[w].phase = worker[w].phase
              /\ worker'[w].incident = worker[w].incident
              /\ worker'[w].attempt = worker[w].attempt
         /\ UNCHANGED <<bundles, results, outbox, takeovers>>
<1>1. ASSUME NEW i \in Incident
      PROVE  /\ job'[i].status = job[i].status
             /\ job'[i].attempt_count = job[i].attempt_count
             /\ job'[i].lease_owner = job[i].lease_owner
             /\ job'[i].failure_code = job[i].failure_code
  <2>1. job'[i] = Aged(job[i]) /\ job[i] \in JobRow
    BY DEF Tick, TypeOK
  <2> QED
    BY <2>1 DEF Aged, JobRow
<1>2. ASSUME NEW w \in Worker
      PROVE  /\ worker'[w].phase = worker[w].phase
             /\ worker'[w].incident = worker[w].incident
             /\ worker'[w].attempt = worker[w].attempt
  BY DEF Tick, TypeOK, Process
<1> QED
  BY <1>1, <1>2 DEF Tick

(* The job a process settles is the one it holds the lease of: it is under *)
(* analysis, and the process is on its latest claim.                       *)
LEMMA OwnerIsLatest ==
  ASSUME TypeOK, BusyOnClaim, LeaseHolder, NEW w \in Worker, Busy(w), OwnsLease(w)
  PROVE  /\ worker[w].incident \in Incident
         /\ job[worker[w].incident].status = "ANALYZING"
         /\ worker[w].attempt = job[worker[w].incident].attempt_count
  BY DEF TypeOK, BusyOnClaim, LeaseHolder, Busy, OwnsLease, Holder, Live

(* A process that is not at work holds no lease, unless it died with it.   *)
LEMMA IdleHoldsNothing ==
  ASSUME TypeOK, LeaseHolder, NEW w \in Worker, worker[w].phase = "idle",
         NEW i \in Incident
  PROVE  job[i].lease_owner # w
  BY DEF TypeOK, LeaseHolder, Holder, Live, Busy

LEMMA HolderStep ==
  ASSUME TypeOK, BusyOnClaim, LeaseHolder, [Next]_vars
  PROVE  LeaseHolder'
<1>1. ASSUME NEW batch \in SUBSET Incident, Enqueue(batch) PROVE LeaseHolder'
  BY <1>1 DEF Enqueue, NewJob, NoJob, LeaseHolder, Holder, Live, Busy, TypeOK
<1>2. ASSUME NEW w \in Worker, NEW i \in Incident, Claim(w, i) PROVE LeaseHolder'
  <2>1. \A k \in Incident : job[k].lease_owner # w
    BY <1>2, IdleHoldsNothing DEF Claim
  <2> QED
    BY <1>2, <2>1 DEF Claim, Leased, LeaseHolder, Holder, Live, Busy, TypeOK
<1>3. ASSUME NEW w \in Worker, Complete(w) PROVE LeaseHolder'
  BY <1>3, OwnerIsLatest
     DEF Complete, Succeeded, Idle, LeaseHolder, Holder, Live, Busy, TypeOK
<1>4. ASSUME NEW w \in Worker, NEW code \in Failure, Fail(w, code) PROVE LeaseHolder'
  BY <1>4, OwnerIsLatest
     DEF Fail, Failed, Idle, LeaseHolder, Holder, Live, Busy, TypeOK
<1>5. ASSUME NEW w \in Worker, FailLost(w) PROVE LeaseHolder'
  <2>1. \A k \in Incident : job[k].lease_owner # w
    BY <1>5 DEF FailLost, OwnsLease, LeaseHolder, Holder, Live, Busy, TypeOK
  <2> QED
    BY <1>5, <2>1 DEF FailLost, LeaseHolder, Holder, Live, Busy, TypeOK
<1>6. ASSUME NEW w \in Worker, CompleteLost(w) \/ Crash(w) PROVE LeaseHolder'
  <2>1. worker' = [worker EXCEPT ![w] = Down] /\ job' = job
    BY <1>6 DEF CompleteLost, Crash
  <2>2. Down.phase = "down"
    BY DEF Down, Idle
  <2> QED
    BY <2>1, <2>2 DEF LeaseHolder, Holder, Live, Busy, TypeOK, JobRow
<1>7. ASSUME Tick PROVE LeaseHolder'
  <2>1. ASSUME NEW i \in Incident
        PROVE  /\ Holder(i)' = Holder(i)
               /\ job'[i].status = job[i].status
               /\ job'[i].attempt_count = job[i].attempt_count
    BY <1>7, TickKeeps DEF Holder
  <2>2. ASSUME NEW i \in Incident, Holder(i) # None
        PROVE  \/ worker'[Holder(i)].phase = "down"
               \/ /\ Live(Holder(i), i)'
                  /\ worker'[Holder(i)].attempt = job[i].attempt_count
    <3>1. Holder(i) \in Worker
      BY <2>2 DEF Holder, TypeOK, JobRow
    <3>2. \/ worker[Holder(i)].phase = "down"
          \/ Live(Holder(i), i) /\ worker[Holder(i)].attempt = job[i].attempt_count
      BY <2>2 DEF LeaseHolder
    <3> QED
      BY <1>7, <2>1, <3>1, <3>2, TickKeeps DEF Live, Busy
  <2> QED
    BY <2>1, <2>2 DEF LeaseHolder
<1>8. CASE UNCHANGED vars
  BY <1>8 DEF vars, LeaseHolder, Holder, Live, Busy
<1> QED
  BY <1>1, <1>2, <1>3, <1>4, <1>5, <1>6, <1>7, <1>8 DEF Next, ClaimNext

(* Fenced and OutcomeAtomic: only complete writes the tables, and only for *)
(* a job that has no result.                                               *)
LEMMA TablesStep ==
  ASSUME TypeOK, BusyOnClaim, LeaseHolder, Fenced, OutcomeAtomic, [Next]_vars
  PROVE  Fenced' /\ OutcomeAtomic'
<1>1. ASSUME NEW batch \in SUBSET Incident, Enqueue(batch)
      PROVE  Fenced' /\ OutcomeAtomic'
  BY <1>1 DEF Enqueue, NewJob, NoJob, Fenced, OutcomeAtomic, TypeOK, Row
<1>2. ASSUME NEW w \in Worker, NEW i \in Incident, Claim(w, i)
      PROVE  Fenced' /\ OutcomeAtomic'
  BY <1>2 DEF Claim, Claimable, LeaseExpired, Leased, tables, Fenced, OutcomeAtomic,
              TypeOK, Row
<1>3. ASSUME NEW w \in Worker, Complete(w) PROVE Fenced' /\ OutcomeAtomic'
  <2> DEFINE i == worker[w].incident
             new == [incident |-> i, attempt |-> worker[w].attempt]
  <2>1. i \in Incident /\ job[i].status = "ANALYZING" /\ new.attempt = job[i].attempt_count
    BY <1>3, OwnerIsLatest DEF Complete
  <2>2. Written(w) = {new}
    BY <2>1 DEF Written, Fenced
  <2>3. /\ job' = [job EXCEPT ![i] = Succeeded(i)]
        /\ bundles' = bundles \cup {new}
        /\ results' = results \cup {new}
        /\ outbox' = outbox \cup {new}
    BY <1>3, <2>2 DEF Complete
  <2>4. /\ job'[i].status = "SUCCEEDED" /\ job'[i].attempt_count = job[i].attempt_count
        /\ \A k \in Incident \ {i} : job'[k] = job[k]
    BY <2>1, <2>3 DEF Succeeded, TypeOK
  <2>5. Fenced'
    BY <2>1, <2>3, <2>4 DEF Fenced, TypeOK, Row
  <2>6. bundles' = results' /\ outbox' = results'
    BY <2>3 DEF OutcomeAtomic
  <2>7. ASSUME NEW k \in Incident
        PROVE  job'[k].status = "SUCCEEDED" <=> \E r \in results' : r.incident = k
    <3>1. CASE k = i
      <4>1. new \in results' /\ new.incident = k
        BY <2>3, <3>1
      <4> QED
        BY <2>4, <3>1, <4>1
    <3>2. CASE k # i
      <4>1. job'[k] = job[k]
        BY <2>4, <3>2
      <4>2. (\E r \in results' : r.incident = k) <=> \E r \in results : r.incident = k
        BY <2>3, <3>2
      <4> QED
        BY <4>1, <4>2 DEF OutcomeAtomic
    <3> QED
      BY <3>1, <3>2
  <2> QED
    BY <2>5, <2>6, <2>7 DEF OutcomeAtomic
<1>4. ASSUME NEW w \in Worker, NEW code \in Failure, Fail(w, code)
      PROVE  Fenced' /\ OutcomeAtomic'
  BY <1>4, OwnerIsLatest DEF Fail, Failed, Fenced, OutcomeAtomic, TypeOK, Row
<1>5. ASSUME NEW w \in Worker, CompleteLost(w) \/ FailLost(w) \/ Crash(w)
      PROVE  Fenced' /\ OutcomeAtomic'
  BY <1>5 DEF CompleteLost, FailLost, Crash, Fenced, OutcomeAtomic
<1>6. ASSUME Tick PROVE Fenced' /\ OutcomeAtomic'
  BY <1>6, TickKeeps DEF Fenced, OutcomeAtomic, TypeOK, Row
<1>7. CASE UNCHANGED vars
  BY <1>7 DEF vars, Fenced, OutcomeAtomic
<1> QED
  BY <1>1, <1>2, <1>3, <1>4, <1>5, <1>6, <1>7 DEF Next, ClaimNext

(* RetryBudget and FailedForAReason: fail counts, and a takeover is        *)
(* recorded as one.                                                        *)
LEMMA AttemptsStep ==
  ASSUME TypeOK, BusyOnClaim, LeaseHolder, RetryBudget, FailedForAReason,
         ClaimsCounted, [Next]_vars
  PROVE  RetryBudget' /\ FailedForAReason' /\ ClaimsCounted'
<1> DEFINE Goal == RetryBudget /\ FailedForAReason /\ ClaimsCounted
<1>1. ASSUME NEW batch \in SUBSET Incident, Enqueue(batch) PROVE Goal'
  BY <1>1 DEF Enqueue, NewJob, NoJob, RetryBudget, FailedForAReason, ClaimsCounted, TypeOK
<1>2. ASSUME NEW w \in Worker, NEW i \in Incident, Claim(w, i) PROVE Goal'
  BY <1>2 DEF Claim, Claimable, LeaseExpired, Leased, RetryBudget, FailedForAReason,
              ClaimsCounted, TypeOK, JobRow
<1>3. ASSUME NEW w \in Worker, Complete(w) PROVE Goal'
  BY <1>3, OwnerIsLatest DEF Complete, Succeeded, RetryBudget, FailedForAReason,
              ClaimsCounted, TypeOK, JobRow
<1>4. ASSUME NEW w \in Worker, NEW code \in Failure, Fail(w, code) PROVE Goal'
  BY <1>4, OwnerIsLatest DEF Fail, Failed, Failure, ShouldRetry, Retryable, RetryBudget,
              FailedForAReason, ClaimsCounted, TypeOK, JobRow
<1>5. ASSUME NEW w \in Worker, CompleteLost(w) \/ FailLost(w) \/ Crash(w) PROVE Goal'
  BY <1>5 DEF CompleteLost, FailLost, Crash, RetryBudget, FailedForAReason, ClaimsCounted
<1>6. ASSUME Tick PROVE Goal'
  BY <1>6, TickKeeps DEF RetryBudget, FailedForAReason, ClaimsCounted
<1>7. CASE UNCHANGED vars
  BY <1>7 DEF vars, RetryBudget, FailedForAReason, ClaimsCounted
<1> QED
  BY <1>1, <1>2, <1>3, <1>4, <1>5, <1>6, <1>7 DEF Next, ClaimNext

(* A lease runs no faster than the work of its holder.                     *)
LEMMA ClockStep ==
  ASSUME TypeOK, BusyOnClaim, LeaseClock, [Next]_vars
  PROVE  LeaseClock'
<1>1. ASSUME NEW batch \in SUBSET Incident, Enqueue(batch) PROVE LeaseClock'
  BY <1>1 DEF Enqueue, NewJob, NoJob, LeaseClock, BusyOnClaim, OwnsLease, Busy, TypeOK
<1>2. ASSUME NEW w \in Worker, NEW i \in Incident, Claim(w, i) PROVE LeaseClock'
  BY <1>2 DEF Claim, Leased, LeaseClock, BusyOnClaim, OwnsLease, Busy, TypeOK
<1>3. ASSUME NEW w \in Worker, Complete(w) PROVE LeaseClock'
  BY <1>3 DEF Complete, Succeeded, Idle, LeaseClock, BusyOnClaim, OwnsLease, Busy, TypeOK
<1>4. ASSUME NEW w \in Worker, NEW code \in Failure, Fail(w, code) PROVE LeaseClock'
  BY <1>4 DEF Fail, Failed, Idle, LeaseClock, BusyOnClaim, OwnsLease, Busy, TypeOK
<1>5. ASSUME NEW w \in Worker, CompleteLost(w) \/ FailLost(w) \/ Crash(w) PROVE LeaseClock'
  BY <1>5 DEF CompleteLost, FailLost, Crash, Idle, Down, LeaseClock, OwnsLease, Busy, TypeOK
<1>6. ASSUME Tick PROVE LeaseClock'
  <2>1. ASSUME NEW w \in Worker, Busy(w)', OwnsLease(w)'
        PROVE  job'[worker'[w].incident].lease_until >= LeaseSeconds - worker'[w].elapsed
    <3> DEFINE i == worker[w].incident
    <3>1. Busy(w) /\ OwnsLease(w) /\ worker'[w].incident = i /\ i \in Incident
      BY <1>6, <2>1, TickKeeps DEF Busy, OwnsLease, BusyOnClaim
    <3>2. worker'[w].elapsed = worker[w].elapsed + 1 /\ worker[w].elapsed \in Nat
      BY <1>6, <3>1 DEF Tick, TypeOK, Process
    <3>3. job[i].lease_until >= LeaseSeconds - worker[w].elapsed
      BY <3>1 DEF LeaseClock
    <3>4. job'[i] = Aged(job[i]) /\ job[i] \in JobRow /\ job[i].lease_owner # None
      BY <1>6, <3>1 DEF Tick, TypeOK, OwnsLease
    <3>5. job'[i].lease_until >= job[i].lease_until - 1 /\ job[i].lease_until \in Int
      BY <3>4 DEF Aged, Earlier, JobRow
    <3>6. job'[i].lease_until \in Int
      BY <3>4 DEF Aged, Earlier, JobRow
    <3> QED
      BY <3>1, <3>2, <3>3, <3>5, <3>6
  <2> QED
    BY <2>1 DEF LeaseClock
<1>7. CASE UNCHANGED vars
  BY <1>7 DEF vars, LeaseClock, OwnsLease, Busy
<1> QED
  BY <1>1, <1>2, <1>3, <1>4, <1>5, <1>6, <1>7 DEF Next, ClaimNext

(* Where work fits in the lease, a job that can be claimed has no working  *)
(* holder.                                                                 *)
LEMMA ClaimableIsFree ==
  ASSUME TypeOK, BusyOnClaim, LeaseHolder, LeaseClock, WorkBound <= LeaseSeconds,
         NEW w \in Worker, Busy(w), OwnsLease(w)
  PROVE  ~Claimable(worker[w].incident)
<1> DEFINE i == worker[w].incident
<1>1. i \in Incident /\ job[i].status = "ANALYZING"
  BY OwnerIsLatest
<1>2. worker[w].elapsed \in Nat /\ worker[w].elapsed <= WorkBound
  BY DEF BusyOnClaim, TypeOK, Process
<1>3. job[i].lease_until \in Int /\ job[i].lease_until >= LeaseSeconds - worker[w].elapsed
  BY <1>1 DEF LeaseClock, TypeOK, JobRow
<1> QED
  BY <1>1, <1>2, <1>3 DEF Claimable, LeaseExpired

LEMMA OvertakenStep ==
  ASSUME TypeOK, BusyOnClaim, LeaseHolder, LeaseClock, NeverOvertaken, [Next]_vars
  PROVE  NeverOvertaken'
<1> SUFFICES ASSUME WorkBound <= LeaseSeconds
             PROVE  (\A w \in Worker : Busy(w) => OwnsLease(w))'
  BY DEF NeverOvertaken
<1>0. \A w \in Worker : Busy(w) => OwnsLease(w) /\ worker[w].incident \in Incident
  BY DEF NeverOvertaken, BusyOnClaim
<1>1. ASSUME NEW batch \in SUBSET Incident, Enqueue(batch)
      PROVE  (\A w \in Worker : Busy(w) => OwnsLease(w))'
  <2>1. \A w \in Worker : Busy(w) => worker[w].incident \notin batch
    BY <1>0, <1>1, OwnerIsLatest DEF Enqueue
  <2> QED
    BY <1>0, <1>1, <2>1 DEF Enqueue, OwnsLease, Busy, TypeOK
<1>2. ASSUME NEW w \in Worker, NEW i \in Incident, Claim(w, i)
      PROVE  (\A v \in Worker : Busy(v) => OwnsLease(v))'
  <2>1. \A v \in Worker : Busy(v) => worker[v].incident # i
    BY <1>0, <1>2, ClaimableIsFree DEF Claim
  <2> QED
    BY <1>0, <1>2, <2>1 DEF Claim, Leased, OwnsLease, Busy, TypeOK
<1>3. ASSUME NEW w \in Worker, Complete(w)
      PROVE  (\A v \in Worker : Busy(v) => OwnsLease(v))'
  BY <1>0, <1>3 DEF Complete, Idle, OwnsLease, Busy, TypeOK
<1>4. ASSUME NEW w \in Worker, NEW code \in Failure, Fail(w, code)
      PROVE  (\A v \in Worker : Busy(v) => OwnsLease(v))'
  BY <1>0, <1>4 DEF Fail, Idle, OwnsLease, Busy, TypeOK
<1>5. ASSUME NEW w \in Worker, CompleteLost(w) \/ FailLost(w) \/ Crash(w)
      PROVE  (\A v \in Worker : Busy(v) => OwnsLease(v))'
  BY <1>0, <1>5 DEF CompleteLost, FailLost, Crash, Idle, Down, OwnsLease, Busy, TypeOK
<1>6. ASSUME Tick PROVE (\A w \in Worker : Busy(w) => OwnsLease(w))'
  BY <1>0, <1>6, TickKeeps DEF OwnsLease, Busy
<1>7. CASE UNCHANGED vars
  BY <1>0, <1>7 DEF vars, OwnsLease, Busy
<1> QED
  BY <1>1, <1>2, <1>3, <1>4, <1>5, <1>6, <1>7 DEF Next, ClaimNext

--------------------------------------------------------------------------------
LEMMA InitEstablishes == Init => IInv
<1> SUFFICES ASSUME Init PROVE IInv
  OBVIOUS
<1>1. TypeOK
  BY DEF Init, TypeOK, NoJob, JobRow, Status, Idle, Process, Row
<1>2. BusyOnClaim /\ LeaseClock /\ NeverOvertaken
  BY DEF Init, BusyOnClaim, LeaseClock, NeverOvertaken, Busy, Idle
<1>3. LeaseHolder /\ Fenced /\ OutcomeAtomic
  BY DEF Init, NoJob, LeaseHolder, Holder, Fenced, OutcomeAtomic
<1>4. RetryBudget /\ FailedForAReason /\ ClaimsCounted
  BY DEF Init, NoJob, RetryBudget, FailedForAReason, ClaimsCounted
<1> QED
  BY <1>1, <1>2, <1>3, <1>4 DEF IInv

LEMMA StepPreserves == IInv /\ [Next]_vars => IInv'
  BY TypeStep, BusyStep, HolderStep, TablesStep, AttemptsStep, ClockStep, OvertakenStep
     DEF IInv

(* The queue's rows, tables and processes always satisfy IInv.             *)
THEOREM Invariance == Spec => []IInv
<1> QED
  BY InitEstablishes, StepPreserves, PTL DEF Spec

(* Every variable keeps its type.                                          *)
THEOREM TypeCorrect == Spec => []TypeOK
<1>1. IInv => TypeOK
  BY DEF IInv
<1> QED
  BY <1>1, Invariance, PTL

(* A stored analysis is that of the latest claim of a job that succeeded   *)
(* (complete in repositories.py).                                          *)
THEOREM StoredByLatestClaim == Spec => []Fenced
<1>1. IInv => Fenced
  BY DEF IInv
<1> QED
  BY <1>1, Invariance, PTL

(* An analysis, its evidence and its notification are stored together or   *)
(* not at all, though the process may die between any two of its steps     *)
(* (complete in repositories.py).                                          *)
THEOREM StoredTogether == Spec => []OutcomeAtomic
<1>1. IInv => OutcomeAtomic
  BY DEF IInv
<1> QED
  BY <1>1, Invariance, PTL

(* Attempts beyond max_attempts are takeovers, and a job is given up only  *)
(* for an invalid analysis or with its attempts used up.                   *)
THEOREM AttemptsWithinBudget == Spec => [](RetryBudget /\ FailedForAReason)
<1>1. IInv => RetryBudget /\ FailedForAReason
  BY DEF IInv
<1> QED
  BY <1>1, Invariance, PTL

(* If a run_once fits in the lease, a working process owns the lease of    *)
(* its job and is alone on it.                                             *)
THEOREM LeaseExcludes == Spec => []BoundedWorkKeepsLease
<1>1. IInv => BoundedWorkKeepsLease
  <2> SUFFICES ASSUME IInv, WorkBound <= LeaseSeconds
               PROVE  /\ \A w \in Worker : Busy(w) => OwnsLease(w)
                      /\ \A v, w \in Worker :
                           Busy(v) /\ Busy(w) /\ worker[v].incident = worker[w].incident
                             => v = w
    BY DEF BoundedWorkKeepsLease
  <2>1. \A w \in Worker : Busy(w) => OwnsLease(w)
    BY DEF IInv, NeverOvertaken
  <2> QED
    BY <2>1 DEF OwnsLease
<1> QED
  BY <1>1, Invariance, PTL

(* What a step of the queue may do to a job, for the theorems on steps.    *)

Settled(i) ==
  job[i].status = "ANALYZING" /\ job'[i].status # "ANALYZING" =>
    \E w \in Worker : /\ Live(w, i)
                      /\ worker[w].attempt = job[i].attempt_count
                      /\ ~Busy(w)'

LEMMA SettledStep ==
  ASSUME IInv, [Next]_vars, NEW i \in Incident
  PROVE  Settled(i)
<1> USE DEF Settled
<1> TypeOK /\ BusyOnClaim /\ LeaseHolder
  BY DEF IInv
<1>1. ASSUME NEW w \in Worker, Complete(w) \/ \E code \in Failure : Fail(w, code)
      PROVE  Settled(i)
  <2>1. Busy(w) /\ OwnsLease(w) /\ ~Busy(w)'
    BY <1>1 DEF Complete, Fail, Idle, Busy, TypeOK
  <2>2. i # worker[w].incident => job'[i] = job[i]
    BY <1>1 DEF Complete, Fail, TypeOK
  <2> QED
    BY <2>1, <2>2, OwnerIsLatest DEF Live
<1>2. ASSUME NEW batch \in SUBSET Incident, Enqueue(batch) PROVE Settled(i)
  BY <1>2 DEF Enqueue
<1>3. ASSUME NEW w \in Worker, NEW k \in Incident, Claim(w, k) PROVE Settled(i)
  BY <1>3 DEF Claim, Leased, TypeOK
<1>4. ASSUME NEW w \in Worker, CompleteLost(w) \/ FailLost(w) \/ Crash(w)
      PROVE  Settled(i)
  BY <1>4 DEF CompleteLost, FailLost, Crash
<1>5. ASSUME Tick PROVE Settled(i)
  BY <1>5, TickKeeps
<1>6. CASE UNCHANGED vars
  BY <1>6 DEF vars
<1> QED
  BY <1>1, <1>2, <1>3, <1>4, <1>5, <1>6 DEF Next, ClaimNext

Final(i) ==
  job[i].status \in {"SUCCEEDED", "FAILED"} =>
    /\ job'[i].status = job[i].status
    /\ job'[i].attempt_count = job[i].attempt_count
    /\ {r \in results' : r.incident = i} = {r \in results : r.incident = i}

LEMMA FinalStep ==
  ASSUME IInv, [Next]_vars, NEW i \in Incident
  PROVE  Final(i)
<1> USE DEF Final
<1> TypeOK /\ BusyOnClaim /\ LeaseHolder
  BY DEF IInv
<1>1. ASSUME NEW w \in Worker, Complete(w) PROVE Final(i)
  <2>1. worker[w].incident # i \/ job[i].status = "ANALYZING"
    BY <1>1, OwnerIsLatest DEF Complete
  <2>2. \A r \in Written(w) : r.incident = worker[w].incident
    BY DEF Written
  <2> QED
    BY <1>1, <2>1, <2>2 DEF Complete, TypeOK
<1>2. ASSUME NEW w \in Worker, NEW code \in Failure, Fail(w, code) PROVE Final(i)
  BY <1>2, OwnerIsLatest DEF Fail, TypeOK
<1>3. ASSUME NEW batch \in SUBSET Incident, Enqueue(batch) PROVE Final(i)
  BY <1>3 DEF Enqueue
<1>4. ASSUME NEW w \in Worker, NEW k \in Incident, Claim(w, k) PROVE Final(i)
  BY <1>4 DEF Claim, Claimable, LeaseExpired, tables, TypeOK
<1>5. ASSUME NEW w \in Worker, CompleteLost(w) \/ FailLost(w) \/ Crash(w)
      PROVE  Final(i)
  BY <1>5 DEF CompleteLost, FailLost, Crash
<1>6. ASSUME Tick PROVE Final(i)
  BY <1>6, TickKeeps
<1>7. CASE UNCHANGED vars
  BY <1>7 DEF vars
<1> QED
  BY <1>1, <1>2, <1>3, <1>4, <1>5, <1>6, <1>7 DEF Next, ClaimNext

(* Whoever takes a job out of analysis is on its latest claim.             *)
THEOREM OnlyTheHolderSettles == Spec => SettledByHolder
<1>1. IInv /\ [Next]_vars => [\A i \in Incident : Settled(i)]_vars
  BY SettledStep
<1> QED
  BY <1>1, Invariance, PTL DEF Spec, SettledByHolder, Settled

(* A decided job stays as it was decided, with what it stored.             *)
THEOREM DecidedStays == Spec => TerminalIsFinal
<1>1. IInv /\ [Next]_vars => [\A i \in Incident : Final(i)]_vars
  BY FinalStep
<1> QED
  BY <1>1, Invariance, PTL DEF Spec, TerminalIsFinal, Final

--------------------------------------------------------------------------------
(* The refinement of AnalysisOutcome.                                      *)

OutcomeView == [i \in Incident |-> OutcomeOf(job[i].status)]

USE DEF OutcomeView

(* A step that changes no status in a way the promise can tell apart, and  *)
(* no table, is a stutter of it.                                           *)
LEMMA Stutter ==
  ASSUME UNCHANGED tables,
         \A i \in Incident : OutcomeOf(job'[i].status) = OutcomeOf(job[i].status)
  PROVE  UNCHANGED Outcome!vars
  BY DEF tables, Outcome!vars

LEMMA StepRefines ==
  ASSUME IInv, [Next]_vars
  PROVE  [Outcome!Next]_(Outcome!vars)
<1> TypeOK /\ BusyOnClaim /\ LeaseHolder
  BY DEF IInv
<1>1. ASSUME NEW batch \in SUBSET Incident, Enqueue(batch) PROVE Outcome!Open(batch)
  BY <1>1 DEF Enqueue, NewJob, NoJob, OutcomeOf, Outcome!Open
<1>2. ASSUME NEW w \in Worker, NEW i \in Incident, Claim(w, i)
      PROVE  UNCHANGED Outcome!vars
  <2>1. \A k \in Incident : OutcomeOf(job'[k].status) = OutcomeOf(job[k].status)
    BY <1>2 DEF Claim, Claimable, LeaseExpired, Leased, OutcomeOf, TypeOK
  <2> QED
    BY <1>2, <2>1, Stutter DEF Claim
<1>3. ASSUME NEW w \in Worker, Complete(w)
      PROVE  \E i \in Incident, a \in 1..MaxClaims : Outcome!Publish(i, a)
  <2> DEFINE i == worker[w].incident
             a == worker[w].attempt
  <2>1. /\ i \in Incident /\ job[i].status = "ANALYZING"
        /\ a = job[i].attempt_count /\ a \in 1..MaxClaims
    BY <1>3, OwnerIsLatest DEF Complete, IInv, ClaimsCounted, TypeOK, JobRow
  <2>2. Written(w) = {[incident |-> i, attempt |-> a]}
    BY <2>1 DEF Written, IInv, Fenced
  <2>3. job' = [job EXCEPT ![i] = Succeeded(i)] /\ job \in [Incident -> JobRow]
    BY <1>3 DEF Complete, TypeOK
  <2>4. OutcomeView' = [OutcomeView EXCEPT ![i] = "published"]
    BY <2>1, <2>3 DEF Succeeded, OutcomeOf
  <2>5. OutcomeView[i] = "open"
    BY <2>1 DEF OutcomeOf
  <2>6. Outcome!Publish(i, a)
    BY <1>3, <2>2, <2>4, <2>5 DEF Complete, Outcome!Publish
  <2> QED
    BY <2>1, <2>6
<1>4. ASSUME NEW w \in Worker, NEW code \in Failure, Fail(w, code)
      PROVE  (\E i \in Incident : Outcome!Abandon(i)) \/ UNCHANGED Outcome!vars
  <2> DEFINE i == worker[w].incident
  <2>1. i \in Incident /\ job[i].status = "ANALYZING"
    BY <1>4, OwnerIsLatest DEF Fail
  <2>2. job' = [job EXCEPT ![i] = Failed(i, code)] /\ job \in [Incident -> JobRow]
    BY <1>4 DEF Fail, TypeOK
  <2>3. CASE ShouldRetry(i, code)
    <3>1. \A k \in Incident : OutcomeOf(job'[k].status) = OutcomeOf(job[k].status)
      BY <2>1, <2>2, <2>3 DEF Failed, OutcomeOf
    <3> QED
      BY <1>4, <3>1, Stutter DEF Fail, tables
  <2>4. CASE ~ShouldRetry(i, code)
    <3>1. OutcomeView' = [OutcomeView EXCEPT ![i] = "abandoned"]
      BY <2>1, <2>2, <2>4 DEF Failed, OutcomeOf
    <3>2. OutcomeView[i] = "open"
      BY <2>1 DEF OutcomeOf
    <3>3. Outcome!Abandon(i)
      BY <1>4, <3>1, <3>2 DEF Fail, Outcome!Abandon
    <3> QED
      BY <2>1, <3>3
  <2> QED
    BY <2>3, <2>4
<1>5. ASSUME NEW w \in Worker, CompleteLost(w) \/ FailLost(w) \/ Crash(w)
      PROVE  UNCHANGED Outcome!vars
  BY <1>5, Stutter DEF CompleteLost, FailLost, Crash, tables
<1>6. ASSUME Tick PROVE UNCHANGED Outcome!vars
  BY <1>6, TickKeeps, Stutter DEF tables
<1>7. CASE UNCHANGED vars
  BY <1>7, Stutter DEF vars, tables
<1> QED
  BY <1>1, <1>2, <1>3, <1>4, <1>5, <1>6, <1>7 DEF Next, ClaimNext, Outcome!Next, Outcome!Decide

(* The queue with its workers, leases, retries and deaths does what        *)
(* AnalysisOutcome promises.                                               *)
THEOREM Refinement == Spec => KeepsPromise
<1>1. Init => Outcome!Init
  BY DEF Init, NoJob, OutcomeOf, Outcome!Init
<1>2. IInv /\ [Next]_vars => [Outcome!Next]_(Outcome!vars)
  BY StepRefines
<1> QED
  BY <1>1, <1>2, Invariance, PTL DEF Spec, KeepsPromise, Outcome!Spec

================================================================================
