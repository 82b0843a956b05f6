------------------------------ MODULE AnalysisJobs ------------------------------
(***************************************************************************)
(* The analysis job queue of the incident analyzer: the rows of            *)
(* analysis_jobs, the rows a finished analysis writes, and the worker      *)
(* processes that claim jobs under a lease                                 *)
(* (app/persistence/repositories.py, app/worker.py run_once).              *)
(*                                                                         *)
(* Every transaction of the code locks the one job row it touches and is   *)
(* one atomic step here.  Between claim_next and complete or fail a worker *)
(* holds no lock, so leases run out and other workers step in meanwhile.   *)
(*                                                                         *)
(* The times of a row, available_at and lease_until, are kept relative to  *)
(* the present: now is 0, Tick lowers them all by one.  The comparisons of *)
(* the code only ever relate a stored time with now or two stored times,   *)
(* so nothing is lost but the order of times further back than Horizon.    *)
(***************************************************************************)
EXTENDS Integers, FiniteSets

CONSTANTS
  Incident,       \* incidents that may be reported; each has one job
  Worker,         \* worker processes over the life of the system
  None,           \* NULL
  MaxAttempts,    \* settings.job_max_attempts
  LeaseSeconds,   \* settings.job_lease_seconds, in ticks
  RetryUnit,      \* the 5 seconds of the retry delay, in ticks
  WorkBound,      \* ticks one run_once may take from claim to settling
  Horizon,        \* how many ticks back a time is remembered
  MaxCrashes,     \* bound on the processes that die on their own
  MaxClaims       \* bound on attempt_count

ASSUME NoneAssumption  == None \notin Worker /\ None \notin Incident
ASSUME LimitAssumption ==
  /\ MaxAttempts \in Nat \ {0}
  /\ LeaseSeconds \in Nat \ {0}
  /\ RetryUnit \in Nat
  /\ WorkBound \in Nat
  /\ Horizon \in Nat \ {0}
  /\ MaxCrashes \in Nat
  /\ MaxClaims \in Nat \ {0}

VARIABLES
  job,        \* analysis_jobs, by incident
  bundles,    \* evidence_bundles
  results,    \* analysis_results
  outbox,     \* notification_deliveries, as registered
  worker,     \* what each process is doing
  takeovers   \* history: claims of each job that took over a lease

tables == <<bundles, results, outbox>>
vars == <<job, bundles, results, outbox, worker, takeovers>>

Status  == {"ABSENT", "PENDING", "ANALYZING", "SUCCEEDED", "FAILED"}
Failure == {"INVALID_ANALYSIS", "DEPENDENCY_UNAVAILABLE"}

(* A row of a table written by a finished analysis.  attempt records which *)
(* claim of the job wrote it.                                              *)
Row == [incident : Incident, attempt : Nat]

JobRow ==
  [ status        : Status,
    available_at  : Int,
    attempt_count : Nat,
    lease_owner   : Worker \cup {None},
    lease_until   : Int,
    failure_code  : Failure \cup {None} ]

Process ==
  [ phase   : {"idle", "busy", "down"},
    incident : Incident \cup {None},
    attempt : Nat,
    elapsed : Nat ]

(* Only the type.  What a run_once may observe is bounded by IInv.         *)
TypeOK ==
  /\ job \in [Incident -> JobRow]
  /\ bundles \subseteq Row
  /\ results \subseteq Row
  /\ outbox \subseteq Row
  /\ worker \in [Worker -> Process]
  /\ takeovers \in [Incident -> Nat]

NoJob == [ status |-> "ABSENT", available_at |-> 0, attempt_count |-> 0,
           lease_owner |-> None, lease_until |-> 0, failure_code |-> None ]

NewJob == [NoJob EXCEPT !.status = "PENDING"]

Idle == [phase |-> "idle", incident |-> None, attempt |-> 0, elapsed |-> 0]
Down == [Idle EXCEPT !.phase = "down"]

Busy(w) == worker[w].phase = "busy"

Init ==
  /\ job = [i \in Incident |-> NoJob]
  /\ bundles = {}
  /\ results = {}
  /\ outbox = {}
  /\ worker = [w \in Worker |-> Idle]
  /\ takeovers = [i \in Incident |-> 0]

--------------------------------------------------------------------------------
(* The ingest transaction commits the jobs of a batch of new incidents,    *)
(* available at once.                                                      *)
Enqueue(batch) ==
  /\ batch # {}
  /\ \A i \in batch : job[i].status = "ABSENT"
  /\ job' = [i \in Incident |-> IF i \in batch THEN NewJob ELSE job[i]]
  /\ UNCHANGED <<bundles, results, outbox, worker, takeovers>>

--------------------------------------------------------------------------------
(* claim_next                                                              *)

(* Mutant: a lease ends one tick early (<= for <).                         *)
LeaseExpiredEarly(i) == job[i].status = "ANALYZING" /\ job[i].lease_until <= 0

LeaseExpired(i) == job[i].status = "ANALYZING" /\ job[i].lease_until < 0

(* Mutant: expired leases are forgotten.                                   *)
ClaimablePendingOnly(i) == job[i].available_at <= 0 /\ job[i].status = "PENDING"

Claimable(i) ==
  /\ job[i].available_at <= 0
  /\ job[i].status = "PENDING" \/ LeaseExpired(i)

(* ORDER BY available_at: the claimable jobs ahead of i.                   *)
Ahead(i) ==
  {k \in Incident : Claimable(k) /\ job[k].available_at < job[i].available_at}

(* SKIP LOCKED: a job another process is just claiming or settling is      *)
(* passed over, so that the order binds only a process that is alone.      *)
Concurrent(w) == \E v \in Worker \ {w} : worker[v].phase # "down"

Leased(i, w) ==
  [ status        |-> "ANALYZING",
    available_at  |-> job[i].available_at,
    attempt_count |-> job[i].attempt_count + 1,
    lease_owner   |-> w,
    lease_until   |-> LeaseSeconds,
    failure_code  |-> None ]

Claim(w, i) ==
  /\ worker[w].phase = "idle"
  /\ Claimable(i)
  /\ Ahead(i) = {} \/ Concurrent(w)
  /\ job[i].attempt_count < MaxClaims
  /\ job' = [job EXCEPT ![i] = Leased(i, w)]
  /\ worker' = [worker EXCEPT ![w] =
                  [ phase |-> "busy", incident |-> i,
                    attempt |-> job[i].attempt_count + 1, elapsed |-> 0 ]]
  /\ takeovers' = [takeovers EXCEPT ![i] = IF LeaseExpired(i) THEN @ + 1 ELSE @]
  /\ UNCHANGED tables

--------------------------------------------------------------------------------
(* complete, called by run_once with the evidence and the analysis         *)

(* Mutant: the ownership check is dropped.                                 *)
OwnsLeaseAlways(w) == TRUE

OwnsLease(w) == job[worker[w].incident].lease_owner = w

(* The row a table gains, unless the incident's result is already stored.  *)
Written(w) ==
  IF \E r \in results : r.incident = worker[w].incident
  THEN {}
  ELSE {[incident |-> worker[w].incident, attempt |-> worker[w].attempt]}

Succeeded(i) ==
  [ status        |-> "SUCCEEDED",
    available_at  |-> job[i].available_at,
    attempt_count |-> job[i].attempt_count,
    lease_owner   |-> None,
    lease_until   |-> 0,
    failure_code  |-> None ]

(* Mutant: the notification is left to a later transaction.                *)
CompleteWithoutOutbox(w) ==
  /\ Busy(w)
  /\ OwnsLease(w)
  /\ bundles' = bundles \cup Written(w)
  /\ results' = results \cup Written(w)
  /\ job' = [job EXCEPT ![worker[w].incident] = Succeeded(worker[w].incident)]
  /\ worker' = [worker EXCEPT ![w] = Idle]
  /\ UNCHANGED <<outbox, takeovers>>

Complete(w) ==
  /\ Busy(w)
  /\ OwnsLease(w)
  /\ bundles' = bundles \cup Written(w)
  /\ results' = results \cup Written(w)
  /\ outbox'  = outbox  \cup Written(w)
  /\ job' = [job EXCEPT ![worker[w].incident] = Succeeded(worker[w].incident)]
  /\ worker' = [worker EXCEPT ![w] = Idle]
  /\ UNCHANGED takeovers

(* "analysis job lease ownership lost": the RuntimeError is not one that   *)
(* run_once handles, so it ends the process.                               *)
CompleteLost(w) ==
  /\ Busy(w)
  /\ ~OwnsLease(w)
  /\ worker' = [worker EXCEPT ![w] = Down]
  /\ UNCHANGED <<job, bundles, results, outbox, takeovers>>

--------------------------------------------------------------------------------
(* fail, called by run_once for the exceptions it handles                  *)

Retryable(code) == code = "DEPENDENCY_UNAVAILABLE"

(* Mutant: one attempt too many.                                           *)
ShouldRetryLate(i, code) == Retryable(code) /\ job[i].attempt_count <= MaxAttempts

ShouldRetry(i, code) == Retryable(code) /\ job[i].attempt_count < MaxAttempts

RetryDelay(n) == RetryUnit * n

(* Mutant: the lease is not given up.                                      *)
FailedKeepsLease(i, code) ==
  [ job[i] EXCEPT !.status = IF ShouldRetry(i, code) THEN "PENDING" ELSE "FAILED",
                  !.available_at = RetryDelay(job[i].attempt_count),
                  !.failure_code = code ]

Failed(i, code) ==
  [ status        |-> IF ShouldRetry(i, code) THEN "PENDING" ELSE "FAILED",
    available_at  |-> RetryDelay(job[i].attempt_count),
    attempt_count |-> job[i].attempt_count,
    lease_owner   |-> None,
    lease_until   |-> 0,
    failure_code  |-> code ]

Fail(w, code) ==
  /\ Busy(w)
  /\ OwnsLease(w)
  /\ job' = [job EXCEPT ![worker[w].incident] = Failed(worker[w].incident, code)]
  /\ worker' = [worker EXCEPT ![w] = Idle]
  /\ UNCHANGED <<bundles, results, outbox, takeovers>>

(* The lease is no longer w's: fail returns without a word.                *)
FailLost(w) ==
  /\ Busy(w)
  /\ ~OwnsLease(w)
  /\ worker' = [worker EXCEPT ![w] = Idle]
  /\ UNCHANGED <<job, bundles, results, outbox, takeovers>>

--------------------------------------------------------------------------------
(* A process dies between two transactions: it is killed, or an exception  *)
(* that run_once does not handle reaches main.  Its lease stays behind.    *)
(* The container's next process is another element of Worker, because      *)
(* build_worker_id never gives the same name twice.                        *)
Crash(w) ==
  /\ worker[w].phase # "down"
  /\ Cardinality({v \in Worker : worker[v].phase = "down"}) < MaxCrashes
  /\ worker' = [worker EXCEPT ![w] = Down]
  /\ UNCHANGED <<job, bundles, results, outbox, takeovers>>

(* Time                                                                    *)
Earlier(t) == IF t > -Horizon THEN t - 1 ELSE t

Aged(row) ==
  [ row EXCEPT !.available_at = IF row.status = "ABSENT" THEN @ ELSE Earlier(@),
               !.lease_until = IF row.lease_owner = None THEN @ ELSE Earlier(@) ]

Tick ==
  /\ \A w \in Worker : Busy(w) => worker[w].elapsed < WorkBound
  /\ job' = [i \in Incident |-> Aged(job[i])]
  /\ worker' = [w \in Worker |->
                  IF Busy(w) THEN [worker[w] EXCEPT !.elapsed = @ + 1]
                             ELSE worker[w]]
  /\ UNCHANGED <<bundles, results, outbox, takeovers>>

--------------------------------------------------------------------------------
Settle(w) ==
  \/ Complete(w)
  \/ CompleteLost(w)
  \/ \E code \in Failure : Fail(w, code)
  \/ FailLost(w)

ClaimNext(w) == \E i \in Incident : Claim(w, i)

Next ==
  \/ \E batch \in SUBSET Incident : Enqueue(batch)
  \/ \E w \in Worker : ClaimNext(w)
  \/ \E w \in Worker : Complete(w)
  \/ \E w \in Worker : CompleteLost(w)
  \/ \E w \in Worker, code \in Failure : Fail(w, code)
  \/ \E w \in Worker : FailLost(w)
  \/ \E w \in Worker : Crash(w)
  \/ Tick

(* run_forever calls run_once over and over, its calls out are bounded by  *)
(* timeouts, and the clock runs on.                                        *)
Fairness ==
  /\ WF_vars(Tick)
  /\ \A w \in Worker : WF_vars(ClaimNext(w)) /\ WF_vars(Settle(w))

Spec == Init /\ [][Next]_vars /\ Fairness

--------------------------------------------------------------------------------
(* Properties.                                                             *)

Live(w, i) == Busy(w) /\ worker[w].incident = i

(* The lease of a job under analysis belongs to the process working on its *)
(* latest claim, or to a dead one; no other job has a lease.               *)
Holder(i) == job[i].lease_owner

LeaseHolder ==
  \A i \in Incident :
    /\ Holder(i) # None <=> job[i].status = "ANALYZING"
    /\ Holder(i) # None =>
         \/ worker[Holder(i)].phase = "down"
         \/ Live(Holder(i), i) /\ worker[Holder(i)].attempt = job[i].attempt_count

(* Every stored analysis comes from the latest claim of its job, and the   *)
(* job has succeeded: a worker whose lease was taken over never stores its *)
(* late result (complete's ownership check).                               *)
Fenced ==
  \A r \in results :
    /\ job[r.incident].status = "SUCCEEDED"
    /\ r.attempt = job[r.incident].attempt_count

(* A job has succeeded exactly when its evidence, its result and its       *)
(* notification are all stored, by one claim (complete's transaction).     *)
OutcomeAtomic ==
  /\ bundles = results
  /\ outbox = results
  /\ \A i \in Incident :
       job[i].status = "SUCCEEDED" <=> \E r \in results : r.incident = i

(* max_attempts limits the claims of a job, but for those that took over   *)
(* an expired lease: claim_next never looks at the limit, only fail does.  *)
RetryBudget ==
  \A i \in Incident :
    /\ job[i].status = "PENDING" => job[i].attempt_count < MaxAttempts
    /\ job[i].attempt_count <= MaxAttempts + takeovers[i]

(* A job is given up only because its analysis was invalid or because its  *)
(* retryable attempts are used up (fail's should_retry).                   *)
FailedForAReason ==
  \A i \in Incident : job[i].status = "FAILED" =>
    \/ job[i].failure_code = "INVALID_ANALYSIS"
    \/ job[i].failure_code = "DEPENDENCY_UNAVAILABLE" /\ job[i].attempt_count >= MaxAttempts

(* When a run_once fits in the lease, a working process keeps its lease    *)
(* until it settles the job, so that it is never turned away by complete   *)
(* or fail and no two processes analyse one incident at a time             *)
(* (tests/unit/test_config.py asks it of the defaults).                    *)
BoundedWorkKeepsLease ==
  WorkBound <= LeaseSeconds =>
    /\ \A w \in Worker : Busy(w) => OwnsLease(w)
    /\ \A v, w \in Worker :
         Busy(v) /\ Busy(w) /\ worker[v].incident = worker[w].incident => v = w

(* Only the process on its latest claim takes a job out of analysis; one   *)
(* that was overtaken neither completes nor fails it.                      *)
SettledByHolder ==
  [][\A i \in Incident :
       job[i].status = "ANALYZING" /\ job'[i].status # "ANALYZING" =>
         \E w \in Worker : /\ Live(w, i)
                           /\ worker[w].attempt = job[i].attempt_count
                           /\ ~Busy(w)']_vars

(* A decided job is never claimed, retried or decided again, and what it   *)
(* stored stays as it is.                                                  *)
TerminalIsFinal ==
  [][\A i \in Incident :
       job[i].status \in {"SUCCEEDED", "FAILED"} =>
         /\ job'[i].status = job[i].status
         /\ job'[i].attempt_count = job[i].attempt_count
         /\ {r \in results' : r.incident = i} = {r \in results : r.incident = i}]_vars

(* Every queued incident is decided, whichever processes die, as long as   *)
(* one lives on.                                                           *)
EveryJobSettles ==
  \A i \in Incident :
    job[i].status = "PENDING" ~> job[i].status \in {"SUCCEEDED", "FAILED"}

(* The queue implements its promise.                                       *)
OutcomeOf(status) ==
  CASE status = "ABSENT"    -> "unknown"
    [] status = "SUCCEEDED" -> "published"
    [] status = "FAILED"    -> "abandoned"
    [] OTHER                -> "open"

Outcome ==
  INSTANCE AnalysisOutcome WITH
    Attempt <- 1..MaxClaims,
    outcome <- [i \in Incident |-> OutcomeOf(job[i].status)]

(* Retries, takeovers, deaths and late workers stay invisible in what the  *)
(* tables promise.                                                         *)
KeepsPromise == Outcome!Spec
--------------------------------------------------------------------------------
(* The inductive invariant behind the properties.                          *)

(* A working process has claimed a job and is within its time.             *)
BusyOnClaim ==
  \A w \in Worker : Busy(w) =>
    /\ worker[w].incident \in Incident
    /\ worker[w].elapsed <= WorkBound

(* The lease of a working holder has lost no more time than its work took. *)
LeaseClock ==
  \A w \in Worker : Busy(w) /\ OwnsLease(w) =>
    job[worker[w].incident].lease_until >= LeaseSeconds - worker[w].elapsed

(* Work that fits in the lease is never overtaken.                         *)
NeverOvertaken ==
  WorkBound <= LeaseSeconds => \A w \in Worker : Busy(w) => OwnsLease(w)

(* A job under analysis has been claimed; claims keep to their bound.      *)
ClaimsCounted ==
  \A i \in Incident :
    /\ job[i].attempt_count <= MaxClaims
    /\ job[i].status = "ANALYZING" => job[i].attempt_count > 0

(* All of it together: what the queue's state always looks like, whichever *)
(* transactions, deaths and takeovers led to it.                           *)
IInv ==
  /\ TypeOK
  /\ BusyOnClaim
  /\ LeaseHolder
  /\ Fenced
  /\ OutcomeAtomic
  /\ RetryBudget
  /\ FailedForAReason
  /\ LeaseClock
  /\ NeverOvertaken
  /\ ClaimsCounted
================================================================================
