------------------------- MODULE IncidentPipelineProofs -------------------------
(***************************************************************************)
(* Proofs about IncidentPipeline for every set of incidents and processes  *)
(* and every value of the limits.  What holds of each queue alone is taken *)
(* over from AnalysisJobsProofs and SlackDeliveryProofs: a step of the     *)
(* loop is a step of each queue or leaves it alone.                        *)
(***************************************************************************)
EXTENDS IncidentPipeline, FiniteSetTheorems, TLAPS

JobsProofs == INSTANCE AnalysisJobsProofs WITH
  MaxAttempts <- JobMaxAttempts,
  LeaseSeconds <- JobLeaseSeconds,
  RetryUnit <- JobRetryUnit,
  MaxCrashes <- Cardinality(Worker)

DeliveriesProofs == INSTANCE SlackDeliveryProofs WITH
  MaxAttempts <- NotifyMaxAttempts,
  LeaseSeconds <- NotifyLeaseSeconds,
  takeovers <- deliveryTakeovers,
  MaxCrashes <- Cardinality(Worker)

USE QueueAssumption

--------------------------------------------------------------------------------
(* The queue instance of the loop and that of the queue's proofs say the   *)
(* same, definition by definition.                                         *)

LEMMA JobsInvariant == Jobs!IInv <=> JobsProofs!IInv
  BY DEF Jobs!IInv, JobsProofs!IInv, Jobs!TypeOK, JobsProofs!TypeOK,
         Jobs!JobRow, JobsProofs!JobRow, Jobs!Row, JobsProofs!Row,
         Jobs!Process, JobsProofs!Process, Jobs!Status, JobsProofs!Status,
         Jobs!Failure, JobsProofs!Failure, Jobs!BusyOnClaim,
         JobsProofs!BusyOnClaim, Jobs!Busy, JobsProofs!Busy, Jobs!LeaseHolder,
         JobsProofs!LeaseHolder, Jobs!Holder, JobsProofs!Holder, Jobs!Live,
         JobsProofs!Live, Jobs!Fenced, JobsProofs!Fenced, Jobs!OutcomeAtomic,
         JobsProofs!OutcomeAtomic, Jobs!RetryBudget, JobsProofs!RetryBudget,
         Jobs!FailedForAReason, JobsProofs!FailedForAReason, Jobs!LeaseClock,
         JobsProofs!LeaseClock, Jobs!OwnsLease, JobsProofs!OwnsLease,
         Jobs!NeverOvertaken, JobsProofs!NeverOvertaken, Jobs!ClaimsCounted,
         JobsProofs!ClaimsCounted

LEMMA JobsCounting == \A S : Jobs!Cardinality(S) = JobsProofs!Cardinality(S)
  BY Zenon DEF Jobs!Cardinality, JobsProofs!Cardinality

LEMMA JobsSteps == Jobs!Next => JobsProofs!Next
<1> SUFFICES ASSUME Jobs!Next PROVE JobsProofs!Next
  OBVIOUS
<1>1. ASSUME NEW batch \in SUBSET Incident, Jobs!Enqueue(batch) PROVE JobsProofs!Enqueue(batch)
  BY <1>1 DEF Jobs!Enqueue, JobsProofs!Enqueue, Jobs!NewJob,
         JobsProofs!NewJob, Jobs!NoJob, JobsProofs!NoJob
<1>2. ASSUME NEW w \in Worker, Jobs!ClaimNext(w) PROVE JobsProofs!ClaimNext(w)
  BY <1>2 DEF Jobs!ClaimNext, JobsProofs!ClaimNext, Jobs!Claim,
         JobsProofs!Claim, Jobs!Claimable, JobsProofs!Claimable,
         Jobs!LeaseExpired, JobsProofs!LeaseExpired, Jobs!Ahead,
         JobsProofs!Ahead, Jobs!Concurrent, JobsProofs!Concurrent,
         Jobs!Leased, JobsProofs!Leased, Jobs!tables, JobsProofs!tables
<1>3. ASSUME NEW w \in Worker, Jobs!Complete(w) PROVE JobsProofs!Complete(w)
  BY <1>3 DEF Jobs!Complete, JobsProofs!Complete, Jobs!Busy,
         JobsProofs!Busy, Jobs!OwnsLease, JobsProofs!OwnsLease, Jobs!Written,
         JobsProofs!Written, Jobs!Succeeded, JobsProofs!Succeeded, Jobs!Idle,
         JobsProofs!Idle
<1>4. ASSUME NEW w \in Worker, Jobs!CompleteLost(w) PROVE JobsProofs!CompleteLost(w)
  BY <1>4 DEF Jobs!CompleteLost, JobsProofs!CompleteLost, Jobs!Busy,
         JobsProofs!Busy, Jobs!OwnsLease, JobsProofs!OwnsLease, Jobs!Down,
         JobsProofs!Down, Jobs!Idle, JobsProofs!Idle
<1>5. ASSUME NEW w \in Worker, NEW code \in Jobs!Failure, Jobs!Fail(w, code)
      PROVE  JobsProofs!Fail(w, code)
  BY <1>5 DEF Jobs!Fail, JobsProofs!Fail, Jobs!Busy, JobsProofs!Busy,
         Jobs!OwnsLease, JobsProofs!OwnsLease, Jobs!Failed, JobsProofs!Failed,
         Jobs!ShouldRetry, JobsProofs!ShouldRetry, Jobs!Retryable,
         JobsProofs!Retryable, Jobs!RetryDelay, JobsProofs!RetryDelay,
         Jobs!Idle, JobsProofs!Idle
<1>6. ASSUME NEW w \in Worker, Jobs!FailLost(w) PROVE JobsProofs!FailLost(w)
  BY <1>6 DEF Jobs!FailLost, JobsProofs!FailLost, Jobs!Busy,
         JobsProofs!Busy, Jobs!OwnsLease, JobsProofs!OwnsLease, Jobs!Idle,
         JobsProofs!Idle
<1>7. ASSUME NEW w \in Worker, Jobs!Crash(w) PROVE JobsProofs!Crash(w)
  BY <1>7, JobsCounting DEF Jobs!Crash, JobsProofs!Crash, Jobs!Down,
         JobsProofs!Down, Jobs!Idle, JobsProofs!Idle
<1>8. ASSUME Jobs!Tick PROVE JobsProofs!Tick
  BY <1>8 DEF Jobs!Tick, JobsProofs!Tick, Jobs!Busy, JobsProofs!Busy,
         Jobs!Aged, JobsProofs!Aged, Jobs!Earlier, JobsProofs!Earlier
<1> QED
  BY <1>1, <1>2, <1>3, <1>4, <1>5, <1>6, <1>7, <1>8
     DEF Jobs!Next, JobsProofs!Next, Jobs!Failure, JobsProofs!Failure

LEMMA JobsStepPreserves ==
  Jobs!IInv /\ [Jobs!Next]_jobsVars => Jobs!IInv'
<1>1. [Jobs!Next]_jobsVars => [JobsProofs!Next]_(JobsProofs!vars)
  BY JobsSteps DEF jobsVars, JobsProofs!vars
<1>2. JobsProofs!IInv /\ [JobsProofs!Next]_(JobsProofs!vars) => JobsProofs!IInv'
  BY JobsProofs!StepPreserves
     DEF Jobs!NoneAssumption, Jobs!LimitAssumption
<1> QED
  BY <1>1, <1>2, JobsInvariant, PTL

LEMMA DeliveriesInvariant == Deliveries!IInv <=> DeliveriesProofs!IInv
  BY DEF Deliveries!IInv, DeliveriesProofs!IInv, Deliveries!TypeOK,
         DeliveriesProofs!TypeOK, Deliveries!DeliveryRow,
         DeliveriesProofs!DeliveryRow, Deliveries!Process,
         DeliveriesProofs!Process, Deliveries!Status, DeliveriesProofs!Status,
         Deliveries!Code, DeliveriesProofs!Code, Deliveries!BusyOnClaim,
         DeliveriesProofs!BusyOnClaim, Deliveries!Busy, DeliveriesProofs!Busy,
         Deliveries!LeaseHolder, DeliveriesProofs!LeaseHolder,
         Deliveries!LeaseClock, DeliveriesProofs!LeaseClock,
         Deliveries!OwnsLease, DeliveriesProofs!OwnsLease,
         Deliveries!NeverOvertaken, DeliveriesProofs!NeverOvertaken,
         Deliveries!Bounded, DeliveriesProofs!Bounded,
         Deliveries!ClaimsCounted, DeliveriesProofs!ClaimsCounted,
         Deliveries!RetryBudget, DeliveriesProofs!RetryBudget,
         Deliveries!RegisteredFirst, DeliveriesProofs!RegisteredFirst,
         Deliveries!AcceptedIsReceived, DeliveriesProofs!AcceptedIsReceived,
         Deliveries!Accepted, DeliveriesProofs!Accepted, Deliveries!Answered,
         DeliveriesProofs!Answered, Deliveries!SentMeansReceived,
         DeliveriesProofs!SentMeansReceived, Deliveries!ReceiptAccounted,
         DeliveriesProofs!ReceiptAccounted, Deliveries!RetryAfterKept,
         DeliveriesProofs!RetryAfterKept, Deliveries!Asking,
         DeliveriesProofs!Asking, Deliveries!Quiet, DeliveriesProofs!Quiet,
         Deliveries!Least, DeliveriesProofs!Least

LEMMA DeliveriesCounting ==
  \A S : Deliveries!Cardinality(S) = DeliveriesProofs!Cardinality(S)
  BY Zenon DEF Deliveries!Cardinality, DeliveriesProofs!Cardinality

LEMMA DeliveriesSteps == Deliveries!Next => DeliveriesProofs!Next
<1> SUFFICES ASSUME Deliveries!Next PROVE DeliveriesProofs!Next
  OBVIOUS
<1>1. ASSUME NEW i \in Incident, Deliveries!Register(i) PROVE DeliveriesProofs!Register(i)
  BY <1>1 DEF Deliveries!Register, DeliveriesProofs!Register,
         Deliveries!NewDelivery, DeliveriesProofs!NewDelivery,
         Deliveries!NoDelivery, DeliveriesProofs!NoDelivery
<1>2. ASSUME NEW w \in Worker, Deliveries!ClaimNext(w) PROVE DeliveriesProofs!ClaimNext(w)
  BY <1>2 DEF Deliveries!ClaimNext, DeliveriesProofs!ClaimNext,
         Deliveries!Claim, DeliveriesProofs!Claim, Deliveries!Claimable,
         DeliveriesProofs!Claimable, Deliveries!LeaseExpired,
         DeliveriesProofs!LeaseExpired, Deliveries!Ahead,
         DeliveriesProofs!Ahead, Deliveries!Concurrent,
         DeliveriesProofs!Concurrent, Deliveries!Leased,
         DeliveriesProofs!Leased
<1>3. ASSUME NEW w \in Worker, Deliveries!SendAny(w) PROVE DeliveriesProofs!SendAny(w)
  BY <1>3 DEF Deliveries!SendAny, DeliveriesProofs!SendAny,
         Deliveries!Send, DeliveriesProofs!Send, Deliveries!Kind,
         DeliveriesProofs!Kind, Deliveries!ErrorOf, DeliveriesProofs!ErrorOf,
         Deliveries!Least, DeliveriesProofs!Least, Deliveries!Greatest,
         DeliveriesProofs!Greatest, Deliveries!RetryAfter,
         DeliveriesProofs!RetryAfter, Deliveries!Accepts,
         DeliveriesProofs!Accepts
<1>4. ASSUME NEW w \in Worker, Deliveries!Complete(w) PROVE DeliveriesProofs!Complete(w)
  BY <1>4 DEF Deliveries!Complete, DeliveriesProofs!Complete,
         Deliveries!Accepted, DeliveriesProofs!Accepted, Deliveries!Answered,
         DeliveriesProofs!Answered, Deliveries!OwnsLease,
         DeliveriesProofs!OwnsLease, Deliveries!Sent, DeliveriesProofs!Sent,
         Deliveries!Idle, DeliveriesProofs!Idle
<1>5. ASSUME NEW w \in Worker, Deliveries!CompleteLost(w) PROVE DeliveriesProofs!CompleteLost(w)
  BY <1>5 DEF Deliveries!CompleteLost, DeliveriesProofs!CompleteLost,
         Deliveries!Accepted, DeliveriesProofs!Accepted, Deliveries!Answered,
         DeliveriesProofs!Answered, Deliveries!OwnsLease,
         DeliveriesProofs!OwnsLease, Deliveries!Down, DeliveriesProofs!Down,
         Deliveries!Idle, DeliveriesProofs!Idle
<1>6. ASSUME NEW w \in Worker, Deliveries!Fail(w) PROVE DeliveriesProofs!Fail(w)
  BY <1>6 DEF Deliveries!Fail, DeliveriesProofs!Fail,
         Deliveries!Answered, DeliveriesProofs!Answered, Deliveries!OwnsLease,
         DeliveriesProofs!OwnsLease, Deliveries!Failed,
         DeliveriesProofs!Failed, Deliveries!ShouldRetry,
         DeliveriesProofs!ShouldRetry, Deliveries!Retryable,
         DeliveriesProofs!Retryable, Deliveries!Delay, DeliveriesProofs!Delay,
         Deliveries!Backoff, DeliveriesProofs!Backoff, Deliveries!Least,
         DeliveriesProofs!Least, Deliveries!Greatest,
         DeliveriesProofs!Greatest, Deliveries!Idle, DeliveriesProofs!Idle
<1>7. ASSUME NEW w \in Worker, Deliveries!FailLost(w) PROVE DeliveriesProofs!FailLost(w)
  BY <1>7 DEF Deliveries!FailLost, DeliveriesProofs!FailLost,
         Deliveries!Answered, DeliveriesProofs!Answered, Deliveries!OwnsLease,
         DeliveriesProofs!OwnsLease, Deliveries!Idle, DeliveriesProofs!Idle,
         Deliveries!Unasked, DeliveriesProofs!Unasked
<1>8. ASSUME NEW w \in Worker, Deliveries!Crash(w) PROVE DeliveriesProofs!Crash(w)
  BY <1>8, DeliveriesCounting DEF Deliveries!Crash,
         DeliveriesProofs!Crash, Deliveries!Accepted,
         DeliveriesProofs!Accepted, Deliveries!Answered,
         DeliveriesProofs!Answered, Deliveries!Down, DeliveriesProofs!Down,
         Deliveries!Idle, DeliveriesProofs!Idle, Deliveries!Unasked,
         DeliveriesProofs!Unasked
<1>9. ASSUME Deliveries!Tick PROVE DeliveriesProofs!Tick
  BY <1>9 DEF Deliveries!Tick, DeliveriesProofs!Tick, Deliveries!Busy,
         DeliveriesProofs!Busy, Deliveries!Aged, DeliveriesProofs!Aged,
         Deliveries!Earlier, DeliveriesProofs!Earlier, Deliveries!Later,
         DeliveriesProofs!Later, Deliveries!Unasked, DeliveriesProofs!Unasked
<1> QED
  BY <1>1, <1>2, <1>3, <1>4, <1>5, <1>6, <1>7, <1>8, <1>9
     DEF Deliveries!Next, DeliveriesProofs!Next

LEMMA DeliveriesStepPreserves ==
  Deliveries!IInv /\ [Deliveries!Next]_deliveriesVars => Deliveries!IInv'
<1>1. [Deliveries!Next]_deliveriesVars => [DeliveriesProofs!Next]_(DeliveriesProofs!vars)
  BY DeliveriesSteps DEF deliveriesVars, DeliveriesProofs!vars
<1>2. DeliveriesProofs!IInv /\ [DeliveriesProofs!Next]_(DeliveriesProofs!vars)
        => DeliveriesProofs!IInv'
  BY DeliveriesProofs!StepPreserves
     DEF Deliveries!NoneAssumption, Deliveries!LimitAssumption,
         Deliveries!HeaderAssumption, Deliveries!Code, DeliveriesProofs!Code
<1> QED
  BY <1>1, <1>2, DeliveriesInvariant, PTL

--------------------------------------------------------------------------------
(* A step of the loop, seen from each queue.                               *)

LEMMA JobsSide == [Next]_vars => [Jobs!Next]_jobsVars
<1> SUFFICES ASSUME [Next]_vars PROVE [Jobs!Next]_jobsVars
  OBVIOUS
<1>1. ASSUME NEW batch \in SUBSET Incident, Enqueue(batch) PROVE Jobs!Next
  BY <1>1 DEF Enqueue, Jobs!Next
<1>2. ASSUME NEW w \in Worker, Step(w) PROVE [Jobs!Next]_jobsVars
  <2>1. CASE ClaimJob(w) \/ CompleteJob(w) \/ FailJob(w) \/ LoseJob(w) \/ LoseDelivery(w)
    BY <2>1 DEF ClaimJob, CompleteJob, FailJob, LoseJob, LoseDelivery, Jobs!Next
  <2>2. CASE NothingToAnalyse(w) \/ ClaimDelivery(w) \/ NothingToDeliver(w)
               \/ Post(w) \/ SettleDelivery(w)
    BY <2>2 DEF NothingToAnalyse, ClaimDelivery, NothingToDeliver, Post, SettleDelivery
  <2> QED
    BY <1>2, <2>1, <2>2 DEF Step
<1>3. ASSUME NEW w \in Worker, Crash(w) PROVE Jobs!Next
  BY <1>3 DEF Crash, Jobs!Next
<1>4. CASE Tick
  BY <1>4 DEF Tick, Jobs!Next
<1>5. CASE UNCHANGED vars
  BY <1>5 DEF vars
<1> QED
  BY <1>1, <1>2, <1>3, <1>4, <1>5 DEF Next

(* The delivery that CompleteJob registers is one of a known incident.     *)
LEMMA DeliveriesSide ==
  Jobs!IInv /\ [Next]_vars => [Deliveries!Next]_deliveriesVars
<1> SUFFICES ASSUME Jobs!IInv, [Next]_vars PROVE [Deliveries!Next]_deliveriesVars
  OBVIOUS
<1>1. ASSUME NEW batch \in SUBSET Incident, Enqueue(batch) PROVE UNCHANGED deliveriesVars
  BY <1>1 DEF Enqueue
<1>2. ASSUME NEW w \in Worker, Step(w) PROVE [Deliveries!Next]_deliveriesVars
  <2>1. CASE ClaimDelivery(w) \/ Post(w) \/ SettleDelivery(w) \/ LoseJob(w) \/ LoseDelivery(w)
    BY <2>1 DEF ClaimDelivery, Post, SettleDelivery, LoseJob, LoseDelivery, Deliveries!Next
  <2>2. CASE CompleteJob(w)
    <3>1. worker[w].incident \in Incident
      BY <2>2 DEF CompleteJob, Jobs!Complete, Jobs!IInv, Jobs!BusyOnClaim
    <3> QED
      BY <2>2, <3>1 DEF CompleteJob, Deliveries!Next
  <2>3. CASE ClaimJob(w) \/ NothingToAnalyse(w) \/ FailJob(w) \/ NothingToDeliver(w)
    BY <2>3 DEF ClaimJob, NothingToAnalyse, FailJob, NothingToDeliver
  <2> QED
    BY <1>2, <2>1, <2>2, <2>3 DEF Step
<1>3. ASSUME NEW w \in Worker, Crash(w) PROVE Deliveries!Next
  BY <1>3 DEF Crash, Deliveries!Next
<1>4. CASE Tick
  BY <1>4 DEF Tick, Deliveries!Next
<1>5. CASE UNCHANGED vars
  BY <1>5 DEF vars
<1> QED
  BY <1>1, <1>2, <1>3, <1>4, <1>5 DEF Next

LEMMA QueuesStep ==
  ASSUME IInv, [Next]_vars
  PROVE  Jobs!IInv' /\ Deliveries!IInv'
  BY JobsSide, DeliveriesSide, JobsStepPreserves, DeliveriesStepPreserves DEF IInv

--------------------------------------------------------------------------------
(* What a step of a queue does to leases, statuses and phases.             *)

NoLease(w) ==
  \A i \in Incident : job[i].lease_owner # w /\ delivery[i].lease_owner # w

(* A process between its steps holds no lease of either table.             *)
LEMMA IdleHasNoLease ==
  ASSUME IInv, NEW w \in Worker, worker[w].phase = "idle", sender[w].phase = "idle"
  PROVE  NoLease(w)
<1>1. w # None
  BY DEF Jobs!NoneAssumption
<1>2. \A i \in Incident : job[i].lease_owner # w
  BY <1>1 DEF IInv, Jobs!IInv, Jobs!LeaseHolder, Jobs!Holder, Jobs!Live, Jobs!Busy
<1>3. \A i \in Incident : delivery[i].lease_owner # w
  BY <1>1 DEF IInv, Deliveries!IInv, Deliveries!LeaseHolder, Deliveries!Busy
<1> QED
  BY <1>2, <1>3 DEF NoLease

(* A half of the loop starts with the other half at rest.                  *)
LEMMA HalfAtRest ==
  ASSUME TypeOK, NEW w \in Worker
  PROVE  /\ Analysing(w) /\ worker[w].phase = "idle" => sender[w].phase = "idle"
         /\ Delivering(w) /\ sender[w].phase = "idle" => worker[w].phase = "idle"
  BY DEF TypeOK, Analysing, Delivering, Jobs!TypeOK, Jobs!Process, Jobs!Busy,
         Deliveries!TypeOK, Deliveries!Process, Deliveries!Busy

(* Ageing moves the times of a row and nothing else.                       *)
LEMMA JobsTickKeeps ==
  ASSUME Jobs!TypeOK, Jobs!Tick
  PROVE  /\ \A i \in Incident : /\ job'[i].status = job[i].status
                                /\ job'[i].lease_owner = job[i].lease_owner
         /\ \A w \in Worker : worker'[w].phase = worker[w].phase
<1>1. \A i \in Incident : job'[i] = Jobs!Aged(job[i])
  BY DEF Jobs!Tick
<1>2. \A i \in Incident : job[i] \in Jobs!JobRow
  BY DEF Jobs!TypeOK
<1>3. \A i \in Incident : /\ Jobs!Aged(job[i]).status = job[i].status
                          /\ Jobs!Aged(job[i]).lease_owner = job[i].lease_owner
  BY <1>2 DEF Jobs!Aged, Jobs!JobRow
<1>4. \A w \in Worker : worker'[w].phase = worker[w].phase
  BY DEF Jobs!Tick, Jobs!TypeOK, Jobs!Process
<1> QED
  BY <1>1, <1>3, <1>4

LEMMA DeliveriesTickKeeps ==
  ASSUME Deliveries!TypeOK, Deliveries!Tick
  PROVE  /\ \A i \in Incident : /\ delivery'[i].status = delivery[i].status
                                /\ delivery'[i].lease_owner = delivery[i].lease_owner
         /\ \A w \in Worker : sender'[w].phase = sender[w].phase
<1>1. \A i \in Incident : delivery'[i] = Deliveries!Aged(delivery[i])
  BY DEF Deliveries!Tick
<1>2. \A i \in Incident : delivery[i] \in Deliveries!DeliveryRow
  BY DEF Deliveries!TypeOK
<1>3. \A i \in Incident : /\ Deliveries!Aged(delivery[i]).status = delivery[i].status
                          /\ Deliveries!Aged(delivery[i]).lease_owner = delivery[i].lease_owner
  BY <1>2 DEF Deliveries!Aged, Deliveries!DeliveryRow
<1>4. \A w \in Worker : sender'[w].phase = sender[w].phase
  BY DEF Deliveries!Tick, Deliveries!TypeOK, Deliveries!Process
<1> QED
  BY <1>1, <1>3, <1>4

--------------------------------------------------------------------------------
(* The conjuncts of IInv, step by step.                                    *)

LEMMA TypeStep ==
  ASSUME IInv, [Next]_vars
  PROVE  TypeOK'
<1> USE DEF IInv, TypeOK
<1>1. Jobs!TypeOK' /\ Deliveries!TypeOK'
  BY QueuesStep DEF Jobs!IInv, Deliveries!IInv
<1> DEFINE Coupled ==
      /\ turn \in [Worker -> {"analyse", "deliver"}]
      /\ \A w \in Worker :
           /\ worker[w].phase = "down" <=> sender[w].phase = "down"
           /\ Jobs!Busy(w) => turn[w] = "analyse"
           /\ Deliveries!Busy(w) => turn[w] = "deliver"
<1> SUFFICES Coupled'
  BY <1>1
<1> USE DEF Jobs!TypeOK, Jobs!Process, Jobs!Busy, Jobs!Idle, Jobs!Down,
            Deliveries!TypeOK, Deliveries!Process, Deliveries!Busy, Deliveries!Idle,
            Deliveries!Down
<1>2. ASSUME NEW batch \in SUBSET Incident, Enqueue(batch) PROVE Coupled'
  BY <1>2 DEF Enqueue, Jobs!Enqueue, deliveriesVars
<1>3. ASSUME NEW w \in Worker, ClaimJob(w) PROVE Coupled'
  BY <1>3 DEF ClaimJob, Analysing, Jobs!ClaimNext, Jobs!Claim, deliveriesVars
<1>4. ASSUME NEW w \in Worker, NothingToAnalyse(w) PROVE Coupled'
  BY <1>4 DEF NothingToAnalyse, Analysing, ToDeliver, jobsVars, deliveriesVars
<1>5. ASSUME NEW w \in Worker, CompleteJob(w) PROVE Coupled'
  BY <1>5 DEF CompleteJob, ToDeliver, Jobs!Complete, Deliveries!Register, deliveriesVars
<1>6. ASSUME NEW w \in Worker, FailJob(w) PROVE Coupled'
  BY <1>6 DEF FailJob, ToDeliver, Jobs!Fail, Jobs!FailLost, deliveriesVars
<1>7. ASSUME NEW w \in Worker, LoseJob(w) PROVE Coupled'
  BY <1>7 DEF LoseJob, Jobs!CompleteLost, Deliveries!Crash
<1>8. ASSUME NEW w \in Worker, ClaimDelivery(w) PROVE Coupled'
  BY <1>8 DEF ClaimDelivery, Delivering, Deliveries!ClaimNext, Deliveries!Claim, jobsVars
<1>9. ASSUME NEW w \in Worker, NothingToDeliver(w) PROVE Coupled'
  BY <1>9 DEF NothingToDeliver, Delivering, ToAnalyse, jobsVars, deliveriesVars
<1>10. ASSUME NEW w \in Worker, Post(w) PROVE Coupled'
  BY <1>10 DEF Post, Deliveries!SendAny, Deliveries!Send, jobsVars
<1>11. ASSUME NEW w \in Worker, SettleDelivery(w) PROVE Coupled'
  BY <1>11 DEF SettleDelivery, ToAnalyse, Deliveries!Complete, Deliveries!Fail,
               Deliveries!FailLost, Deliveries!Accepted, Deliveries!Answered, jobsVars
<1>12. ASSUME NEW w \in Worker, LoseDelivery(w) PROVE Coupled'
  BY <1>12 DEF LoseDelivery, Deliveries!CompleteLost, Jobs!Crash
<1>13. ASSUME NEW w \in Worker, Crash(w) PROVE Coupled'
  BY <1>13 DEF Crash, Jobs!Crash, Deliveries!Crash
<1>14. CASE Tick
  BY <1>14, JobsTickKeeps, DeliveriesTickKeeps DEF Tick
<1>15. CASE UNCHANGED vars
  BY <1>15 DEF vars, jobsVars, deliveriesVars
<1> QED
  BY <1>2, <1>3, <1>4, <1>5, <1>6, <1>7, <1>8, <1>9, <1>10, <1>11, <1>12, <1>13,
     <1>14, <1>15 DEF Next, Step

(* The process that owns a lease works on a row under way.                 *)
LEMMA OwnerAnalyses ==
  ASSUME IInv, NEW w \in Worker, Jobs!Busy(w), Jobs!OwnsLease(w)
  PROVE  /\ worker[w].incident \in Incident
         /\ job[worker[w].incident].status = "ANALYZING"
         /\ Jobs!Written(w) # {}
<1>1. worker[w].incident \in Incident
  BY DEF IInv, Jobs!IInv, Jobs!BusyOnClaim
<1>2. job[worker[w].incident].status = "ANALYZING"
  BY <1>1 DEF IInv, Jobs!IInv, Jobs!LeaseHolder, Jobs!Holder, Jobs!OwnsLease,
              Jobs!NoneAssumption
<1>3. ~\E r \in results : r.incident = worker[w].incident
  BY <1>1, <1>2 DEF IInv, Jobs!IInv, Jobs!OutcomeAtomic
<1> QED
  BY <1>1, <1>2, <1>3 DEF Jobs!Written

LEMMA OwnerSends ==
  ASSUME IInv, NEW w \in Worker, Deliveries!Answered(w), Deliveries!OwnsLease(w)
  PROVE  /\ sender[w].incident \in Incident
         /\ delivery[sender[w].incident].status = "SENDING"
<1>1. sender[w].incident \in Incident
  BY DEF IInv, Deliveries!IInv, Deliveries!BusyOnClaim, Deliveries!Busy, Deliveries!Answered
<1> QED
  BY <1>1 DEF IInv, Deliveries!IInv, Deliveries!LeaseHolder, Deliveries!OwnsLease,
              Deliveries!NoneAssumption

(* Only CompleteJob makes a job SUCCEEDED, and it finds no result, so that *)
(* it registers the delivery; nothing ever removes a delivery.             *)
LEMMA RegisteredStep ==
  ASSUME IInv, [Next]_vars
  PROVE  RegisteredWhenStored'
<1> USE DEF IInv, OutboxMatches, RegisteredWhenStored
<1>0. Jobs!TypeOK /\ Deliveries!TypeOK
  BY DEF TypeOK
<1> USE DEF Jobs!TypeOK, Deliveries!TypeOK
<1>1. ASSUME NEW batch \in SUBSET Incident, Enqueue(batch) PROVE RegisteredWhenStored'
  BY <1>0, <1>1 DEF Enqueue, Jobs!Enqueue, Jobs!NewJob, Jobs!NoJob, deliveriesVars
<1>2. ASSUME NEW w \in Worker, ClaimJob(w) PROVE RegisteredWhenStored'
  BY <1>0, <1>2 DEF ClaimJob, Jobs!ClaimNext, Jobs!Claim, Jobs!Claimable, Jobs!LeaseExpired,
                    Jobs!Leased, deliveriesVars
<1>3. ASSUME NEW w \in Worker, CompleteJob(w) PROVE RegisteredWhenStored'
  <2>1. Jobs!Complete(w) /\ Deliveries!Register(worker[w].incident)
    BY <1>3, OwnerAnalyses DEF CompleteJob, Jobs!Complete
  <2>2. worker[w].incident \in Incident
    BY <2>1, OwnerAnalyses DEF Jobs!Complete
  <2> QED
    BY <1>0, <2>1, <2>2 DEF Jobs!Complete, Jobs!Succeeded, Deliveries!Register,
                            Deliveries!NewDelivery, Deliveries!NoDelivery
<1>4. ASSUME NEW w \in Worker, FailJob(w) PROVE RegisteredWhenStored'
  <2>1. CASE Jobs!FailLost(w)
    BY <1>4, <2>1 DEF FailJob, Jobs!FailLost, deliveriesVars
  <2>2. ASSUME NEW code \in Jobs!Failure, Jobs!Fail(w, code) PROVE RegisteredWhenStored'
    <3>1. /\ worker[w].incident \in Incident
          /\ job[worker[w].incident].status = "ANALYZING"
      BY <2>2, OwnerAnalyses DEF Jobs!Fail
    <3> QED
      BY <1>0, <1>4, <2>2, <3>1 DEF FailJob, Jobs!Fail, Jobs!Failed, deliveriesVars
  <2> QED
    BY <1>4, <2>1, <2>2 DEF FailJob
<1>5. ASSUME NEW w \in Worker, LoseJob(w) \/ LoseDelivery(w) \/ Crash(w) PROVE RegisteredWhenStored'
  BY <1>5 DEF LoseJob, Jobs!CompleteLost, LoseDelivery, Deliveries!CompleteLost, Crash,
              Jobs!Crash, Deliveries!Crash
<1>6. ASSUME NEW w \in Worker, ClaimDelivery(w) PROVE RegisteredWhenStored'
  BY <1>0, <1>6 DEF ClaimDelivery, Deliveries!ClaimNext, Deliveries!Claim,
                    Deliveries!Claimable, Deliveries!LeaseExpired, Deliveries!Leased, jobsVars
<1>7. ASSUME NEW w \in Worker, Post(w) PROVE RegisteredWhenStored'
  BY <1>7 DEF Post, Deliveries!SendAny, Deliveries!Send, jobsVars
<1>8. ASSUME NEW w \in Worker, SettleDelivery(w) PROVE RegisteredWhenStored'
  BY <1>0, <1>8, OwnerSends
     DEF SettleDelivery, Deliveries!Complete, Deliveries!Accepted, Deliveries!Sent,
         Deliveries!Fail, Deliveries!Failed, Deliveries!FailLost, jobsVars
<1>9. ASSUME NEW w \in Worker, NothingToAnalyse(w) \/ NothingToDeliver(w) PROVE RegisteredWhenStored'
  BY <1>9 DEF NothingToAnalyse, NothingToDeliver, jobsVars, deliveriesVars
<1>10. CASE Tick
  BY <1>0, <1>10, JobsTickKeeps, DeliveriesTickKeeps DEF Tick
<1>11. CASE UNCHANGED vars
  BY <1>11 DEF vars, jobsVars, deliveriesVars
<1> QED
  BY <1>1, <1>2, <1>3, <1>4, <1>5, <1>6, <1>7, <1>8, <1>9, <1>10, <1>11 DEF Next, Step

(* A message is of a registered delivery, and the queue stores what it has *)
(* decided.                                                                *)
LEMMA ToldIsStored ==
  Jobs!IInv /\ Deliveries!IInv /\ RegisteredWhenStored => ToldWhenStored
<1> SUFFICES ASSUME Jobs!IInv, Deliveries!IInv, RegisteredWhenStored,
                    NEW i \in Incident, received[i] > 0
             PROVE  \E r \in results : r.incident = i /\ r.attempt = job[i].attempt_count
  BY DEF ToldWhenStored
<1>1. received[i] # 0
  OBVIOUS
<1>2. delivery[i].status # "ABSENT"
  BY <1>1 DEF Deliveries!IInv, Deliveries!RegisteredFirst
<1>3. job[i].status = "SUCCEEDED"
  BY <1>2 DEF RegisteredWhenStored
<1>4. PICK r \in results : r.incident = i
  BY <1>3 DEF Jobs!IInv, Jobs!OutcomeAtomic
<1>5. r.attempt = job[i].attempt_count
  BY <1>4 DEF Jobs!IInv, Jobs!Fenced
<1> QED
  BY <1>4, <1>5

LEMMA OutboxStep ==
  ASSUME IInv, [Next]_vars
  PROVE  OutboxMatches'
<1>1. Jobs!IInv' /\ Deliveries!IInv' /\ RegisteredWhenStored'
  BY QueuesStep, RegisteredStep
<1>2. (Jobs!IInv /\ Deliveries!IInv /\ RegisteredWhenStored => ToldWhenStored)'
  BY ToldIsStored, PTL
<1> QED
  BY <1>1, <1>2 DEF OutboxMatches

(* A process gains a lease only when it has none; others can only end.     *)
LEMMA LeasesStep ==
  ASSUME IInv, [Next]_vars
  PROVE  LeasesApart'
<1> USE DEF IInv, LeasesApart
<1>0. Jobs!TypeOK /\ Deliveries!TypeOK /\ None \notin Worker
  BY DEF TypeOK, Jobs!NoneAssumption
<1> USE DEF Jobs!TypeOK, Deliveries!TypeOK
<1>1. ASSUME NEW batch \in SUBSET Incident, Enqueue(batch) PROVE LeasesApart'
  BY <1>0, <1>1 DEF Enqueue, Jobs!Enqueue, Jobs!NewJob, Jobs!NoJob, deliveriesVars
<1>2. ASSUME NEW w \in Worker, ClaimJob(w) PROVE LeasesApart'
  <2>1. PICK i \in Incident : Jobs!Claim(w, i)
    BY <1>2 DEF ClaimJob, Jobs!ClaimNext
  <2>2. NoLease(w)
    BY <1>2, <2>1, HalfAtRest, IdleHasNoLease DEF ClaimJob, Jobs!Claim
  <2>3. \A k \in Incident : job'[k].lease_owner = IF k = i THEN w ELSE job[k].lease_owner
    BY <1>0, <2>1 DEF Jobs!Claim, Jobs!Leased
  <2>4. delivery' = delivery
    BY <1>2 DEF ClaimJob, deliveriesVars
  <2> QED
    BY <2>2, <2>3, <2>4 DEF NoLease
<1>3. ASSUME NEW w \in Worker, CompleteJob(w) PROVE LeasesApart'
  BY <1>0, <1>3 DEF CompleteJob, Jobs!Complete, Jobs!Succeeded, Deliveries!Register,
                    Deliveries!NewDelivery, Deliveries!NoDelivery, deliveriesVars
<1>4. ASSUME NEW w \in Worker, FailJob(w) PROVE LeasesApart'
  <2>1. CASE Jobs!FailLost(w)
    BY <1>4, <2>1 DEF FailJob, Jobs!FailLost, deliveriesVars
  <2>2. ASSUME NEW code \in Jobs!Failure, Jobs!Fail(w, code) PROVE LeasesApart'
    BY <1>0, <1>4, <2>2 DEF FailJob, Jobs!Fail, Jobs!Failed, deliveriesVars
  <2> QED
    BY <1>4, <2>1, <2>2 DEF FailJob
<1>5. ASSUME NEW w \in Worker, LoseJob(w) \/ LoseDelivery(w) \/ Crash(w) PROVE LeasesApart'
  BY <1>5 DEF LoseJob, Jobs!CompleteLost, LoseDelivery, Deliveries!CompleteLost, Crash,
              Jobs!Crash, Deliveries!Crash
<1>6. ASSUME NEW w \in Worker, ClaimDelivery(w) PROVE LeasesApart'
  <2>1. PICK i \in Incident : Deliveries!Claim(w, i)
    BY <1>6 DEF ClaimDelivery, Deliveries!ClaimNext
  <2>2. NoLease(w)
    BY <1>6, <2>1, HalfAtRest, IdleHasNoLease DEF ClaimDelivery, Deliveries!Claim
  <2>3. \A k \in Incident :
          delivery'[k].lease_owner = IF k = i THEN w ELSE delivery[k].lease_owner
    BY <1>0, <2>1 DEF Deliveries!Claim, Deliveries!Leased
  <2>4. job' = job
    BY <1>6 DEF ClaimDelivery, jobsVars
  <2> QED
    BY <2>2, <2>3, <2>4 DEF NoLease
<1>7. ASSUME NEW w \in Worker, Post(w) PROVE LeasesApart'
  BY <1>7 DEF Post, Deliveries!SendAny, Deliveries!Send, jobsVars
<1>8. ASSUME NEW w \in Worker, SettleDelivery(w) PROVE LeasesApart'
  <2>1. CASE Deliveries!Complete(w)
    BY <1>0, <1>8, <2>1 DEF SettleDelivery, Deliveries!Complete, Deliveries!Sent, jobsVars
  <2>2. CASE Deliveries!Fail(w)
    BY <1>0, <1>8, <2>2 DEF SettleDelivery, Deliveries!Fail, Deliveries!Failed, jobsVars
  <2>3. CASE Deliveries!FailLost(w)
    BY <1>8, <2>3 DEF SettleDelivery, Deliveries!FailLost, jobsVars
  <2> QED
    BY <1>8, <2>1, <2>2, <2>3 DEF SettleDelivery
<1>9. ASSUME NEW w \in Worker, NothingToAnalyse(w) \/ NothingToDeliver(w) PROVE LeasesApart'
  BY <1>9 DEF NothingToAnalyse, NothingToDeliver, jobsVars, deliveriesVars
<1>10. CASE Tick
  BY <1>0, <1>10, JobsTickKeeps, DeliveriesTickKeeps DEF Tick
<1>11. CASE UNCHANGED vars
  BY <1>11 DEF vars, jobsVars, deliveriesVars
<1> QED
  BY <1>1, <1>2, <1>3, <1>4, <1>5, <1>6, <1>7, <1>8, <1>9, <1>10, <1>11 DEF Next, Step

--------------------------------------------------------------------------------
LEMMA InitEstablishes == Init => IInv
<1> SUFFICES ASSUME Init PROVE IInv
  OBVIOUS
<1>1. Jobs!IInv
  <2>1. JobsProofs!Init => JobsProofs!IInv
    BY JobsProofs!InitEstablishes DEF Jobs!NoneAssumption, Jobs!LimitAssumption
  <2> QED
    BY <2>1, JobsInvariant
       DEF Init, Jobs!Init, JobsProofs!Init, Jobs!NoJob, JobsProofs!NoJob, Jobs!Idle,
           JobsProofs!Idle
<1>2. Deliveries!IInv
  <2>1. DeliveriesProofs!Init => DeliveriesProofs!IInv
    BY DeliveriesProofs!InitEstablishes
       DEF Deliveries!NoneAssumption, Deliveries!LimitAssumption,
           Deliveries!HeaderAssumption, Deliveries!Code, DeliveriesProofs!Code
  <2> QED
    BY <2>1, DeliveriesInvariant
       DEF Init, Deliveries!Init, DeliveriesProofs!Init, Deliveries!NoDelivery,
           DeliveriesProofs!NoDelivery, Deliveries!Idle, DeliveriesProofs!Idle,
           Deliveries!Unasked, DeliveriesProofs!Unasked
<1> USE DEF Init, Jobs!Init, Deliveries!Init, Jobs!NoJob, Jobs!Idle, Deliveries!NoDelivery,
            Deliveries!Idle
<1>3. TypeOK
  BY <1>1, <1>2 DEF TypeOK, Jobs!IInv, Deliveries!IInv, Jobs!Busy, Deliveries!Busy
<1>4. RegisteredWhenStored /\ LeasesApart
  BY DEF RegisteredWhenStored, LeasesApart, Jobs!NoneAssumption
<1> QED
  BY <1>1, <1>2, <1>3, <1>4, ToldIsStored DEF IInv, OutboxMatches

LEMMA StepPreserves == IInv /\ [Next]_vars => IInv'
  BY QueuesStep, TypeStep, OutboxStep, LeasesStep DEF IInv

(* Both queues keep their invariants in the loop, and each other's step.   *)
THEOREM Invariance == Spec => []IInv
  BY InitEstablishes, StepPreserves, PTL DEF Spec

(* CompleteJob registers a delivery for every analysis it stores, and for  *)
(* no other, whatever Slack, retries, takeovers and deaths do.             *)
THEOREM OutboxInStep == Spec => []OutboxMatches
<1>1. IInv => OutboxMatches
  BY DEF IInv
<1> QED
  BY <1>1, Invariance, PTL

(* run_forever never holds two leases: a process that dies leaves at most  *)
(* one incident waiting.                                                   *)
THEOREM OneLeasePerProcess == Spec => []OneLeaseAtATime
<1>1. IInv => OneLeaseAtATime
  <2> SUFFICES ASSUME IInv, NEW w \in Worker PROVE Leased(w) <= 1
    BY DEF OneLeaseAtATime
  <2> DEFINE J == {i \in Incident : job[i].lease_owner = w}
             D == {i \in Incident : delivery[i].lease_owner = w}
  <2>1. \A i, k \in J : i = k
    BY DEF IInv, LeasesApart
  <2>2. \A i, k \in D : i = k
    BY DEF IInv, LeasesApart
  <2>3. J = {} \/ D = {}
    BY DEF IInv, LeasesApart
  <2>4. Cardinality(J) \in {0, 1} /\ (J = {} => Cardinality(J) = 0)
    <3>1. J = {} \/ \E i \in J : J = {i}
      BY <2>1
    <3> HIDE DEF J
    <3> QED
      BY <3>1, FS_EmptySet, FS_Singleton
  <2>5. Cardinality(D) \in {0, 1} /\ (D = {} => Cardinality(D) = 0)
    <3>1. D = {} \/ \E i \in D : D = {i}
      BY <2>2
    <3> HIDE DEF D
    <3> QED
      BY <3>1, FS_EmptySet, FS_Singleton
  <2>6. Leased(w) = Cardinality(J) + Cardinality(D)
    BY DEF Leased
  <2> HIDE DEF J, D
  <2> QED
    BY <2>3, <2>4, <2>5, <2>6
<1> QED
  BY <1>1, Invariance, PTL

(* Every step of the loop is a step of the job queue or leaves it alone,   *)
(* and so for the outbox: what is proved of the queues' steps holds in the *)
(* loop.  Their fairness is checked by TLC.                                *)
THEOREM QueuesImplemented ==
  Spec => /\ Jobs!Init /\ [][Jobs!Next]_jobsVars
          /\ Deliveries!Init /\ [][Deliveries!Next]_deliveriesVars
<1>1. Init => Jobs!Init /\ Deliveries!Init
  BY DEF Init
<1>2. IInv => Jobs!IInv
  BY DEF IInv
<1> QED
  BY <1>1, <1>2, JobsSide, DeliveriesSide, Invariance, PTL DEF Spec

--------------------------------------------------------------------------------
(* What the queues promise of their steps, in the loop.                    *)

LEMMA JobsKept ==
  Jobs!IInv /\ [Jobs!Next]_jobsVars =>
    /\ \A i \in Incident : JobsProofs!Settled(i) /\ JobsProofs!Final(i)
    /\ [JobsProofs!Outcome!Next]_(JobsProofs!Outcome!vars)
<1>1. [Jobs!Next]_jobsVars => [JobsProofs!Next]_(JobsProofs!vars)
  BY JobsSteps DEF jobsVars, JobsProofs!vars
<1>2. JobsProofs!IInv /\ [JobsProofs!Next]_(JobsProofs!vars) =>
        /\ \A i \in Incident : JobsProofs!Settled(i) /\ JobsProofs!Final(i)
        /\ [JobsProofs!Outcome!Next]_(JobsProofs!Outcome!vars)
  BY JobsProofs!SettledStep, JobsProofs!FinalStep, JobsProofs!StepRefines
     DEF Jobs!NoneAssumption, Jobs!LimitAssumption
<1> QED
  BY <1>1, <1>2, JobsInvariant

LEMMA DeliveriesKept ==
  Deliveries!IInv /\ [Deliveries!Next]_deliveriesVars =>
    \A i \in Incident :
      /\ DeliveriesProofs!Settled(i)
      /\ DeliveriesProofs!Bounded /\ DeliveriesProofs!Posts(i) => DeliveriesProofs!Quiet(i) <= 0
<1>1. [Deliveries!Next]_deliveriesVars => [DeliveriesProofs!Next]_(DeliveriesProofs!vars)
  BY DeliveriesSteps DEF deliveriesVars, DeliveriesProofs!vars
<1>2. DeliveriesProofs!IInv /\ [DeliveriesProofs!Next]_(DeliveriesProofs!vars) =>
        \A i \in Incident :
          /\ DeliveriesProofs!Settled(i)
          /\ DeliveriesProofs!Bounded /\ DeliveriesProofs!Posts(i) => DeliveriesProofs!Quiet(i) <= 0
  BY DeliveriesProofs!SettledStep, DeliveriesProofs!QuietStep
     DEF Deliveries!NoneAssumption, Deliveries!LimitAssumption,
         Deliveries!HeaderAssumption, Deliveries!Code, DeliveriesProofs!Code
<1> QED
  BY <1>1, <1>2, DeliveriesInvariant

(* In the loop too only the process on its latest claim decides a job, a   *)
(* decided job stays as it is, and the tables look as AnalysisOutcome says *)
(* (claim_next, complete and fail of AnalysisJobRepository under           *)
(* run_forever).                                                           *)
THEOREM LoopKeepsJobs ==
  Spec => Jobs!SettledByHolder /\ Jobs!TerminalIsFinal /\ Jobs!KeepsPromise
<1>1. Init => Jobs!Outcome!Init
  BY DEF Init, Jobs!Init, Jobs!NoJob, Jobs!OutcomeOf, Jobs!Outcome!Init
<1>2. IInv /\ [Next]_vars =>
        [\A i \in Incident :
           job[i].status = "ANALYZING" /\ job'[i].status # "ANALYZING" =>
             \E w \in Worker : /\ Jobs!Live(w, i)
                               /\ worker[w].attempt = job[i].attempt_count
                               /\ ~Jobs!Busy(w)']_(Jobs!vars)
  BY JobsSide, JobsKept
     DEF IInv, JobsProofs!Settled, Jobs!Live, JobsProofs!Live, Jobs!Busy, JobsProofs!Busy
<1>3. IInv /\ [Next]_vars =>
        [\A i \in Incident :
           job[i].status \in {"SUCCEEDED", "FAILED"} =>
             /\ job'[i].status = job[i].status
             /\ job'[i].attempt_count = job[i].attempt_count
             /\ {r \in results' : r.incident = i} = {r \in results : r.incident = i}
        ]_(Jobs!vars)
  BY JobsSide, JobsKept DEF IInv, JobsProofs!Final
<1>4. IInv /\ [Next]_vars => [Jobs!Outcome!Next]_(Jobs!Outcome!vars)
  BY JobsSide, JobsKept
     DEF IInv, JobsProofs!Outcome!Next, Jobs!Outcome!Next,
         JobsProofs!Outcome!vars, Jobs!Outcome!vars, JobsProofs!OutcomeOf, Jobs!OutcomeOf,
         JobsProofs!Outcome!Open, Jobs!Outcome!Open, JobsProofs!Outcome!Decide,
         Jobs!Outcome!Decide, JobsProofs!Outcome!Abandon, Jobs!Outcome!Abandon,
         JobsProofs!Outcome!Publish, Jobs!Outcome!Publish
<1> QED
  BY <1>1, <1>2, <1>3, <1>4, Invariance, PTL
     DEF Spec, Jobs!SettledByHolder, Jobs!TerminalIsFinal, Jobs!KeepsPromise,
         Jobs!Outcome!Spec

(* In the loop too only the process on its latest claim decides a          *)
(* delivery, and where a send fits in the lease nothing is posted for an   *)
(* incident before the time Slack named, or before RetryAfterCap has passed  *)
(* where it named more (NotificationDeliveryRepository under run_forever). *)
THEOREM LoopKeepsDeliveries ==
  Spec => Deliveries!SettledByHolder /\ Deliveries!HonoursRetryAfter
<1>1. IInv /\ [Next]_vars =>
        [\A i \in Incident :
           delivery[i].status = "SENDING" /\ delivery'[i].status # "SENDING" =>
             \E w \in Worker : /\ Deliveries!Answered(w)
                               /\ sender[w].incident = i
                               /\ sender[w].attempt = delivery[i].attempt_count
        ]_(Deliveries!vars)
  BY DeliveriesSide, DeliveriesKept
     DEF IInv, DeliveriesProofs!Settled, Deliveries!Answered, DeliveriesProofs!Answered
<1>2. IInv /\ [Next]_vars =>
        [Deliveries!Bounded => \A i \in Incident :
           (\E w \in Worker : /\ sender[w].phase = "sending"
                              /\ sender'[w].phase = "answered"
                              /\ sender[w].incident = i)
             => Deliveries!Quiet(i) <= 0]_(Deliveries!vars)
  BY DeliveriesSide, DeliveriesKept
     DEF IInv, DeliveriesProofs!Posts, Deliveries!Bounded, DeliveriesProofs!Bounded,
         DeliveriesProofs!Quiet, Deliveries!Quiet, DeliveriesProofs!Least, Deliveries!Least
<1> QED
  BY <1>1, <1>2, Invariance, PTL
     DEF Spec, Deliveries!SettledByHolder, Deliveries!HonoursRetryAfter


================================================================================
