---------------------------- MODULE IncidentPipeline ----------------------------
(***************************************************************************)
(* The worker processes as they run: each alternates run_once and          *)
(* deliver_notification_once in one loop (run_forever in app/worker.py),   *)
(* so the analysis queue (AnalysisJobs) and the Slack outbox               *)
(* (SlackDelivery) share their processes, their deaths, the clock, and the *)
(* transaction that completes a job and registers its delivery.            *)
(*                                                                         *)
(* Each of the two modules assumes that a process goes on with its queue,  *)
(* whatever the other does; here that is a property.                       *)
(***************************************************************************)
EXTENDS Integers, FiniteSets

CONSTANTS
  Incident, Worker, None,
  JobMaxAttempts, JobLeaseSeconds, JobRetryUnit,       \* of the job queue
  WorkBound,
  NotifyMaxAttempts, NotifyLeaseSeconds, BackoffUnit,  \* of the outbox
  BackoffCap, RetryAfterCap, Header, NotANumber, SendBound,
  Horizon,
  MaxCrashes,     \* bound on the processes that die on their own
  MaxClaims       \* bound on the claims of a row

VARIABLES
  job, bundles, results, outbox, worker, takeovers,                \* AnalysisJobs
  delivery, sender, received, doubtful, asked, deliveryTakeovers,  \* SlackDelivery
  turn        \* which half of its loop each process is in

(* The deaths are bounded here, once for both.                             *)
Jobs == INSTANCE AnalysisJobs WITH
  MaxAttempts <- JobMaxAttempts,
  LeaseSeconds <- JobLeaseSeconds,
  RetryUnit <- JobRetryUnit,
  MaxCrashes <- Cardinality(Worker)

Deliveries == INSTANCE SlackDelivery WITH
  MaxAttempts <- NotifyMaxAttempts,
  LeaseSeconds <- NotifyLeaseSeconds,
  takeovers <- deliveryTakeovers,
  MaxCrashes <- Cardinality(Worker)

(* What the queues assume of their constants, and finitely many processes. *)
ASSUME QueueAssumption ==
  /\ IsFiniteSet(Worker)
  /\ Jobs!NoneAssumption /\ Jobs!LimitAssumption
  /\ Deliveries!NoneAssumption /\ Deliveries!LimitAssumption
  /\ Deliveries!HeaderAssumption

jobsVars == <<job, bundles, results, outbox, worker, takeovers>>
deliveriesVars == <<delivery, sender, received, doubtful, asked, deliveryTakeovers>>
vars == <<jobsVars, deliveriesVars, turn>>

TypeOK ==
  /\ Jobs!TypeOK
  /\ Deliveries!TypeOK
  /\ turn \in [Worker -> {"analyse", "deliver"}]
  /\ \A w \in Worker :
       /\ worker[w].phase = "down" <=> sender[w].phase = "down"
       /\ Jobs!Busy(w) => turn[w] = "analyse"
       /\ Deliveries!Busy(w) => turn[w] = "deliver"

Init ==
  /\ Jobs!Init
  /\ Deliveries!Init
  /\ turn = [w \in Worker |-> "analyse"]

Enqueue(batch) ==
  /\ Jobs!Enqueue(batch)
  /\ UNCHANGED <<deliveriesVars, turn>>

--------------------------------------------------------------------------------
(* The first half of the loop: run_once                                    *)

Analysing(w) == turn[w] = "analyse"
ToDeliver(w) == turn' = [turn EXCEPT ![w] = "deliver"]

ClaimJob(w) ==
  /\ Analysing(w)
  /\ Jobs!ClaimNext(w)
  /\ UNCHANGED <<deliveriesVars, turn>>

(* Mutant: the process waits for a job before it looks at the outbox.      *)
NothingToAnalyseWaits(w) ==
  /\ Analysing(w)
  /\ worker[w].phase = "idle"
  /\ ~\E i \in Incident : Jobs!Claimable(i)
  /\ UNCHANGED vars

(* claim_next returns None.                                                *)
NothingToAnalyse(w) ==
  /\ Analysing(w)
  /\ worker[w].phase = "idle"
  /\ ~\E i \in Incident : Jobs!Claimable(i)
  /\ ToDeliver(w)
  /\ UNCHANGED <<jobsVars, deliveriesVars>>

(* Mutant: the job is completed, the delivery is left out.                 *)
CompleteJobAlone(w) ==
  /\ Jobs!Complete(w)
  /\ ToDeliver(w)
  /\ UNCHANGED deliveriesVars

(* One transaction completes the job and registers the delivery, unless    *)
(* the result was there already.                                           *)
CompleteJob(w) ==
  /\ Jobs!Complete(w)
  /\ IF Jobs!Written(w) # {}
     THEN Deliveries!Register(worker[w].incident)
     ELSE UNCHANGED deliveriesVars
  /\ ToDeliver(w)

FailJob(w) ==
  /\ (\E code \in Jobs!Failure : Jobs!Fail(w, code)) \/ Jobs!FailLost(w)
  /\ ToDeliver(w)
  /\ UNCHANGED deliveriesVars

(* Mutant: the loop catches the error and goes on.                         *)
LoseJobGoesOn(w) ==
  /\ Jobs!CompleteLost(w)
  /\ ToDeliver(w)
  /\ UNCHANGED deliveriesVars

(* The RuntimeError of complete leaves run_forever, and the process ends.  *)
LoseJob(w) ==
  /\ Jobs!CompleteLost(w)
  /\ Deliveries!Crash(w)
  /\ UNCHANGED turn

--------------------------------------------------------------------------------
(* The second half: deliver_notification_once                              *)

Delivering(w) == turn[w] = "deliver"

ToAnalyse(w) == turn' = [turn EXCEPT ![w] = "analyse"]

(* Mutant: the two halves run side by side.                                *)
ClaimDeliveryAtOnce(w) ==
  /\ Deliveries!ClaimNext(w)
  /\ UNCHANGED <<jobsVars, turn>>

ClaimDelivery(w) ==
  /\ Delivering(w)
  /\ Deliveries!ClaimNext(w)
  /\ UNCHANGED <<jobsVars, turn>>

(* Mutant: it waits for a delivery before it looks at the jobs again.      *)
NothingToDeliverWaits(w) ==
  /\ Delivering(w)
  /\ sender[w].phase = "idle"
  /\ ~\E i \in Incident : Deliveries!Claimable(i)
  /\ UNCHANGED vars

NothingToDeliver(w) ==
  /\ Delivering(w)
  /\ sender[w].phase = "idle"
  /\ ~\E i \in Incident : Deliveries!Claimable(i)
  /\ ToAnalyse(w)
  /\ UNCHANGED <<jobsVars, deliveriesVars>>

Post(w) ==
  /\ Deliveries!SendAny(w)
  /\ UNCHANGED <<jobsVars, turn>>

SettleDelivery(w) ==
  /\ Deliveries!Complete(w) \/ Deliveries!Fail(w) \/ Deliveries!FailLost(w)
  /\ ToAnalyse(w)
  /\ UNCHANGED jobsVars

LoseDelivery(w) ==
  /\ Deliveries!CompleteLost(w)
  /\ Jobs!Crash(w)
  /\ UNCHANGED turn

--------------------------------------------------------------------------------
Crash(w) ==
  /\ Cardinality({v \in Worker : worker[v].phase = "down"}) < MaxCrashes
  /\ Jobs!Crash(w)
  /\ Deliveries!Crash(w)
  /\ UNCHANGED turn

Tick ==
  /\ Jobs!Tick
  /\ Deliveries!Tick
  /\ UNCHANGED turn

(* What run_forever does next in process w.                                *)
Step(w) ==
  \/ ClaimJob(w)
  \/ NothingToAnalyse(w)
  \/ CompleteJob(w)
  \/ FailJob(w)
  \/ LoseJob(w)
  \/ ClaimDelivery(w)
  \/ NothingToDeliver(w)
  \/ Post(w)
  \/ SettleDelivery(w)
  \/ LoseDelivery(w)

Next ==
  \/ \E batch \in SUBSET Incident : Enqueue(batch)
  \/ \E w \in Worker : Step(w)
  \/ \E w \in Worker : Crash(w)
  \/ Tick

(* The loop of each process runs on, and so does the clock.                *)
Fairness == WF_vars(Tick) /\ \A w \in Worker : WF_vars(Step(w))

Spec == Init /\ [][Next]_vars /\ Fairness

--------------------------------------------------------------------------------
(* Properties.                                                             *)

(* A notification is registered exactly for a stored analysis, what becomes *)
(* of it at Slack never undoes the analysis (README.md:85-87), and Slack    *)
(* hears of no incident whose analysis is not stored.                       *)
RegisteredWhenStored ==
  \A i \in Incident :
    delivery[i].status # "ABSENT" <=> job[i].status = "SUCCEEDED"

ToldWhenStored ==
  \A i \in Incident : received[i] > 0 =>
    \E r \in results : r.incident = i /\ r.attempt = job[i].attempt_count

OutboxMatches == RegisteredWhenStored /\ ToldWhenStored

Leased(w) ==
  Cardinality({i \in Incident : job[i].lease_owner = w})
    + Cardinality({i \in Incident : delivery[i].lease_owner = w})

(* A process holds one lease of the two tables at most, so its death       *)
(* delays one incident, by one lease.                                      *)
OneLeaseAtATime == \A w \in Worker : Leased(w) <= 1

(* The loop keeps both queues' promises, fairness included: neither half   *)
(* of it starves the other.                                                *)
KeepsJobs == Jobs!Spec
KeepsDeliveries == Deliveries!Spec

(* Every incident reported ends with an attempt to tell of it that was     *)
(* made to its end, or with its analysis given up, as long as one process  *)
(* lives.                                                                  *)
EveryIncidentEnds ==
  \A i \in Incident :
    job[i].status = "PENDING"
      ~> job[i].status = "FAILED" \/ delivery[i].status \in {"SENT", "DEAD"}
--------------------------------------------------------------------------------
(* The inductive invariant behind the safety properties.                   *)

(* No process has two leases, be they of one table or of both.             *)
LeasesApart ==
  \A w \in Worker, i, k \in Incident :
    /\ job[i].lease_owner = w /\ job[k].lease_owner = w => i = k
    /\ delivery[i].lease_owner = w /\ delivery[k].lease_owner = w => i = k
    /\ job[i].lease_owner = w => delivery[k].lease_owner # w

(* Both queues are as they are alone, and in step.                         *)
IInv ==
  /\ Jobs!IInv
  /\ Deliveries!IInv
  /\ TypeOK
  /\ OutboxMatches
  /\ LeasesApart
================================================================================
