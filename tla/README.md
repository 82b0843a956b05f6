# MembershipFlow incident analyzer: TLA+ models

The repository runs a small incident pipeline beside a web service: Grafana
posts firing alerts to an API, a worker collects log evidence from Loki, asks
Gemini for an analysis, stores it and posts it to Slack. State lives in five
MySQL tables. This directory models the parts whose correctness depends on
order, time, failure and concurrency.

Paths below are relative to `src/incident-analyzer/` unless they start with `src/`.

## 1. Inventory

| component | state | operations | what is hard |
|---|---|---|---|
| **Ingest API** `app/api/incidents.py`, `app/security/webhook.py`, `IncidentRepository` | `incidents`, `analysis_jobs` | `create_incidents`: size, signature, parse, then one transaction with a savepoint per alert | duplicates by episode (`dedup_key`, `started_at`), one failing alert among many, lost answers and resends |
| **Analysis job queue** `AnalysisJobRepository`, `run_once` | `analysis_jobs`, `evidence_bundles`, `analysis_results` | `claim_next`, `complete`, `fail` | leases that expire under a working process, deaths, retries, late results |
| **Evidence collector** `app/collectors/` | none kept | two Loki queries, grouping, caps, shrinking to 16 KiB, the alert | failing queries, unreadable lines, what is dropped |
| **Gemini client** `app/llm/`, `app/domain/analysis.py` | none kept | two requests under one timeout, validation of the answer | retry against timeout, citations of evidence that is not there |
| **Slack outbox** `NotificationDeliveryRepository`, `deliver_notification_once`, `app/notifications/slack.py` | `notification_deliveries` | `claim_next`, `send`, `complete`, `fail` | answers lost or ambiguous, Retry-After, duplicates |
| **Worker loop** `app/worker.py` | the process | `run_forever`: analysis step, delivery step, pause | one process serves both queues; an unhandled exception ends it and the container restarts it under a new id |
| **Schema, migrations** `app/persistence/models.py`, `migrations/` | the tables, `alembic_version` | 0001 to 0004; 0004 removes duplicates and adds the unique key | DDL commits step by step while API and worker are live |
| **Health, deployment** `app/main.py`, `app/healthcheck.py`, `scripts/`, `src/.github/` | containers, grants | bootstrap, migration, start, gate by revision | order of the steps, kills between them, old and new code at once |

Interactions: the API only inserts jobs; the worker claims them; `complete`
inserts the delivery row in the transaction that stores the analysis (a
transactional outbox); the delivery step claims that row; a deployment changes
the tables under all of them. Processes share nothing but the tables. Each
repository method is one transaction; no lock is held while Loki, Gemini or
Slack is called, and the lease bridges that time.

What makes each component correct:

* ingest: an acknowledged alert is stored; one incident per episode, with its job;
* queue: one analysis per incident, from the process that has the lease, all its
  rows or none; every incident decided; attempts limited; decided is final;
* run: what is stored is grounded in the evidence stored with it; requests and
  time bounded;
* collector: ids that can be cited, frequent signatures kept, the limit;
* outbox: SENT means received; no duplicate but for a receipt nobody could
  record; Retry-After kept up to an hour; every delivery ended;
* loop: neither queue starves, no process leaves two leases, outbox and jobs in step;
* deployment: what passed the gate runs on its schema; no episode is lost.

## 2. Modules

| module | models | proofs |
|---|---|---|
| `AnalysisOutcome` | abstract: an incident is decided once; a published one has its three rows, by one claim | |
| `AnalysisJobs` | the job queue, worker processes, deaths, time; implements `AnalysisOutcome` | `AnalysisJobsProofs` |
| `SlackDelivery` | the outbox, the answers of Slack, what Slack received | `SlackDeliveryProofs` |
| `IncidentPipeline` | `run_forever`: `AnalysisJobs` and `SlackDelivery` composed in one loop; implements both | `IncidentPipelineProofs` |
| `AnalysisRun` | the interior of one `run_once`: evidence, Gemini, validation, outcome | `AnalysisRunProofs` |
| `EvidenceBundle` | from Loki's answers to the bundle | `EvidenceBundleProofs` |
| `IncidentIngest` | Grafana, the requests, the ingest transaction row by row | `IncidentIngestProofs` |
| `SchemaRollout` | migrations statement by statement, deployments, beside the live system | `SchemaRolloutProofs` |

Each but the abstract one has an `MC` module with the symmetry and the values for TLC.

### AnalysisJobs and SlackDelivery

`job[i]` is the `analysis_jobs` row of incident `i` (there is exactly one, with
revision 1), `bundles`, `results` and `outbox` are the rows `complete` inserts.
A row carries the number of the claim that wrote it, which the code does not
store; it is what *fenced* means. `worker[w]` is a process: idle, busy on a
claim, or down.

| action | code |
|---|---|
| `Enqueue` | commit of `create_many_with_jobs` |
| `Claim` | `claim_next`: PENDING, or ANALYZING with `lease_until < now`, and `available_at <= now`; the earliest, but rows locked by another process are skipped (SKIP LOCKED), so the order binds only a process that is alone |
| `Complete`, `CompleteLost` | `complete`, with the lease or without it; the RuntimeError is handled by nobody and ends the process |
| `Fail`, `FailLost` | the two handlers of `run_once` and `fail`; without the lease `fail` just returns |
| `Crash` | the process is killed, or an exception `run_once` does not handle escapes (also a lost answer to a commit) |
| `Tick` | a unit of time |

*Time.* Stored times are offsets from now, so `Tick` lowers them; a time
further back than `Horizon` stays there. Only comparisons with now and between
two stored times occur in the code, so this is exact but for the order of very
old rows, which then counts as a tie. The state space is finite with an
unbounded clock, so liveness can be checked. A transaction is taken to run at
the time its method read the clock. All processes use one clock (one host).

*Processes.* `Worker` are processes over the system's life, not containers:
`build_worker_id` gives every process a new name, so a restarted container is
another element. All may run at once, more than compose starts.

`SlackDelivery` is built the same way. `Send` is the post and its answer;
`Accepts` says for which answers Slack may have taken the message: an
assumption about Slack, not code (external in `PROJECT.json`). `received`
counts what Slack took; `doubtful` and `asked` are history for the properties.
`asked` holds the number Slack sent with its last 429, uncut, and the time since;
`retry_after` is what the code makes of it. A transaction is one step: a death inside
one stores nothing, which is MySQL's promise and is not modelled.

### IncidentPipeline

Instances of both queues share processes, deaths and clock. `turn[w]` says in
which half of `run_forever` process `w` is; `Step(w)` is whatever that half does
next, and each half ends with `ToDeliver` or `ToAnalyse`. Two things join the
queues: `CompleteJob` completes a job and registers its delivery in one step,
and the RuntimeError of a lost lease ends the process for both (`LoseJob`,
`LoseDelivery`). `NothingToAnalyse` and `NothingToDeliver` are `claim_next`
returning None; a None for rows that another process has just locked is left
out, since such a lock lasts for one short transaction.

### AnalysisRun

One job and its runs, one after the other. `AnalysisJobs` shows that runs do not
overlap where they fit the lease (`BoundedWorkKeepsLease`); where they do not, an
overtaken run may still spend requests, which `RequestBudget` does not count. It opens what is one step there. `Collect` gives a bundle:
how many log items, whether one is useful, whether the alert is in it.
`AnalyzeWithout`, `RefuseUnconfigured` and `Ask` are the branches of
`app/llm/` in order; `ApiError`, `TimedOut`, `AskAgain`, `Accept`, `Reject` are
`_generate_with_retry` and the checks of the answer. An analysis is reduced to
which ids it cites where, whether it confirms a cause, and its status. Gemini
answers anything, an error, or nothing. Time passes in the calls out only.

### EvidenceBundle

Sequential: one collection from the answers of Loki to the finished bundle. A
line is the signature it is grouped under. Byte counts are parameters. `Sorted` puts
a group at the place given by how many come before it, which is what `sorted()`
does with keys that never tie (a signature has one group). Both branches that
stand for no lines, the failed query and the empty one, are an `EmptyItem`. `Dies` are
the shapes of an answer that raise an AttributeError, which nothing handles.

### IncidentIngest

`Fire`, `Resolve`, `Post`, `Hear`, `Lose` are Grafana and the network, known from
the contact point and policy in `src/grafana/`: all firing alerts of the group
are posted until acknowledged, resolved ones never. `RefuseSize`,
`RefuseBroken`, `RefuseLate` and `Begin` are the checks of `create_incidents` in
their order. The transaction is taken apart: `Insert` and `SkipDuplicate` are one
savepoint each, `DbError` undoes all, `Commit` stores and answers 202,
`CommitUnheard` stores and answers 500. `Crash` may come at any point. The
handler makes its database calls without an await in one process, so one
transaction is open at a time; other requests wait.

### SchemaRollout

`Upgrade` lists the statements of 0001 to 0004. A `purge` (a DELETE of 0004) is in
the open transaction (`doomed`); `SchemaStep` commits it first, as MySQL does
before any DDL; `Stamp` writes `alembic_version`; a statement that cannot run
fails the deployment (`SchemaStepFails`, `PurgeStepFails`). `Report` and
`CompleteJob` are the live API and worker meanwhile: the old release stores
duplicates until the unique key is there. `Deploy` to `GateFails` is the
workflow, with `Kill` at any step. `cut` remembers that a migration ended
between two schema statements.

## 3. Runs

| run | shows |
|---|---|
| `jobs_overrun` | analyses up to 4 ticks under a lease of 1: overtaken processes come back late and are turned away; one analysis per incident, `AnalysisOutcome` implemented |
| `jobs_bounded` | analyses exactly as long as the lease (the strict `<` matters): no working process is overtaken; every job is decided with all processes but one dead |
| `slack_overrun` | deliveries that outlast their lease, with every kind of answer: rows say only what happened, only the latest claim decides |
| `slack_bounded` | a second message only after a receipt nobody could record; Retry-After kept up to its cap; every delivery ends |
| `pipeline_overrun` | both queues in one loop, work that outlasts leases: outbox in step with the jobs, Slack told of stored analyses only, one lease per process |
| `pipeline_bounded` | the loop implements both queues *with the fairness each assumes* (`KeepsJobs`, `KeepsDeliveries`), and every incident ends |
| `analysis_run` | every bundle, answer and silence: stored analyses are grounded, requests, time and attempts bounded, the job ends though Gemini never answers |
| `evidence_all` | all pairs of answers up to 4 lines of 3 signatures, limit 3, 2 items per source, sizes so that bundles fit, lose items, or lose the last samples |
| `evidence_pushout` | **violated**: see findings |
| `ingest_batches` | two posts under way, two faults, batches repeated, mixed and refused: what is acknowledged is stored, each episode once, batches whole |
| `ingest_lands` | an alert that keeps firing in an acceptable batch is stored in the end |
| `rollout` | up to three deployments, two killed, beside the old release: what a passed gate promises, which schema a failure leaves, no episode lost |

*Bounds.* Two incidents show every interaction of jobs (they meet only in the
order of claims and in a process being busy); three processes allow a holder,
an overtaken one and a dead one at a time. `MaxAttempts = 2` has one retry and
one last attempt. `MaxClaims` cuts endless takeovers in the overrun runs; in the
bounded runs of the single queues it is more than `MaxAttempts + MaxCrashes` and
is never met, so liveness does not profit from it. `RetryAfterCap` and
`BackoffCap` are scaled so that headers below, within and above the cap occur.
The pipeline has limits of 1: with one attempt and one death a row of
the bounded run is claimed twice at most (`MaxClaims = 2`), and every meeting of the two halves occurs; the
retries are those of the single queues, which it implements. In
`analysis_run` the timeout leaves room for the pause and a second request, and
also cuts either. The ingest runs have two alerts of one episode, one of
another and one that is refused; three ids are as many as can be needed. In
`rollout` three incidents of two episodes give a duplicate and a bystander, and a
third deployment follows a killed second.

*At rest.* `CHECK_DEADLOCK FALSE` where the system may stop: a settled job, a
finished bundle, alerts resolved and answered, the last deployment ended.

*Fairness.* `Tick` (the clock runs; it waits for a live process at `WorkBound` or
`SendBound`, which says that calls out are bounded, as the timeouts of the
clients make them), each process's claim (`run_forever` polls again and again)
and its settling (the calls return). In the pipeline only `Tick` and one `Step`
per process are fair, and the fairness of the single queues follows. In
`AnalysisRun` the code and the clock run on; nothing is assumed of Gemini.
In `IncidentIngest` Grafana posts while a firing alert is unacknowledged, the
API handles and a dead one is restarted (compose); faults are bounded. Deaths
are never fair. At least one process lives in the liveness runs, for compose
restarts the worker. `SchemaRollout` has safety only.

Every property has a mutant, a plausible bug in a definition it depends on, that
violates it; mutants stand before the definition they replace.

## 4. Proofs

For all sets of incidents, processes, alerts and slots, all limits and all answers.
Every safety invariant and every action property of the runs is a theorem. Each
proof module shows `Spec => []IInv` (`Invariance`) by one lemma per group of
conjuncts with one step per action, and reads the properties off `IInv`. TLC
checks each `IInv` as well, which is how the conjuncts were found.

| module | proved besides `Invariance` |
|---|---|
| `AnalysisJobsProofs` | `TypeCorrect`, `StoredByLatestClaim`, `StoredTogether`, `AttemptsWithinBudget`, `LeaseExcludes`, `OnlyTheHolderSettles`, `DecidedStays`, `Refinement` (`Spec => Outcome!Spec`) |
| `SlackDeliveryProofs` | `SentIsReceived`, `AttemptsWithinBudget`, `LeaseExcludes`, `DuplicatesExcused`, `OnlyTheHolderSettles`, `RetryAfterHonoured` |
| `IncidentPipelineProofs` | `OutboxInStep`, `OneLeasePerProcess`, `QueuesImplemented`, `LoopKeepsJobs` (with the refinement of `AnalysisOutcome`), `LoopKeepsDeliveries` |
| `AnalysisRunProofs` | `StoredAnalysisGrounded`, `RequestsBounded`, `RunEndsInTime` |
| `IncidentIngestProofs` | `AcknowledgedStored`, `EpisodesUnique`, `BatchesAtomic`, `OpensNewBatches` (`Spec => Queue!Spec`, an instance of `AnalysisOutcome`) |
| `SchemaRolloutProofs` | `SchemaIsTheRevisions`, `PassedIsSound`, `EpisodesSurvive` |
| `EvidenceBundleProofs` | `IdsCitable`, `MostFrequentKept`, `BundleFits`, `OnlyTheLoopPushesOut` |

*Jobs.* `Fenced` is not inductive alone: that a stale process fails the ownership
check has to be known, which is `LeaseHolder`: an ANALYZING job's owner is dead or
working on its latest claim. With it whoever passes the check is on the latest
claim (`OwnerIsLatest`) and finds no result yet. `LeaseExcludes` needs that a
lease runs no faster than its holder's work (`LeaseClock`), so that work within
the lease leaves `lease_until >= 0` and the job cannot be claimed
(`ClaimableIsFree`). `ClaimsCounted` puts the writing claim in the range the
abstract module ranges over.

*Slack.* The same lease argument, and two of its own. `ReceiptAccounted`: what
Slack received is with the one process that has the answer, in the row as SENT,
or doubtful; so a second message needs a doubtful first. `RetryAfterKept`: the time
Slack named, or `RetryAfterCap` where it named more, is with the process it was told to
or in `available_at`, where it outlasts the backoff and keeps the row from being
claimed (`SendingIsQuiet`). The
backoff is kept abstract but for its being a number: `2 ^ n` has no axioms in the
provers, so that it is a natural number is shown by counting the subsets of `1..n`.

*Pipeline.* A step of the loop is a step of each queue or leaves it alone
(`JobsSide`, `DeliveriesSide`), so the queues' own `StepPreserves` is cited
through an instance of their proof modules; the lemmas at the head of the module
show that the two instances of each queue say the same. `LeasesApart` needs the
coupling in `TypeOK`: a half starts with the other at rest, and a process at rest
has no lease (`IdleHasNoLease`). `OutboxMatches` needs the jobs' invariant: who
owns a lease finds no result, so `CompleteJob` always registers. Its other half, that
Slack hears of no incident without a stored analysis, joins three invariants: what
Slack received is of a registered delivery (`RegisteredFirst`), which has a job that
succeeded, which has its result by its latest claim. `LoopKeepsJobs` and
`LoopKeepsDeliveries` take over what the queues' proofs say of a single step
(`SettledStep`, `FinalStep`, `StepRefines`, `QuietStep`): the theorems of the queues
themselves speak of specifications with fairness, which the loop is only checked to have.

*Run.* `RequestsByPhase` and `RequestsCounted` say what the run has cost where it
stands, `AttemptsCounted` that a further claim is within the attempts or paid by a
death, `ElapsedIsSpent` that time is either the queries' or the one timeout's,
`AnswerFits` that an answer waiting to be stored fits the bundle waiting with it.

*Ingest.* `OneAtATime` and `BatchProgress` (what of the batch is no longer to do is
stored or flushed, nothing else is flushed) make the commit store exactly the
batch; `RowsApart` keeps flushed and stored rows apart by episode and id.
`OpensNewBatches` says what that is to the queue: a commit is an `Open` of the
transaction's incidents, none of which it knew, and everything else a stutter. That is
the `Enqueue` of `AnalysisJobs`, so that the two models meet in `AnalysisOutcome`.

*Rollout.* While nothing was cut the schema is what the migration's first statements
make of the revision before (`SchemaTracks`, over `Done`). After a cut it is not, and
the deployment can never pass: the first schema statement of the migration refuses to
be run again (`Stuck`), and only deletions stand before it. For the rows, the open
transaction of 0004 deletes an incident from all tables or from none
(`DoomedTogether`), although alerts and results come in between its statements:
`LiveAdds` shows that once 0004 turns to the incidents, what comes adds no row to
those being deleted. The first incident of an episode is no duplicate, so each reported episode
keeps one with its job (`RowsAgree`). The four migrations are fixed data, so facts
about their statements are proved by cases, one migration at a time.

*Bundle.* The bundle is the collected list cut at some place, item for item but for the
samples (`CutOfCollected`). What the list is takes the lemmas before: a rank is taken
by one group only (`SortedIs`: how many come before is strictly monotonic along the
order, an injection of `1..c` into itself is onto), a prefix of it is cut at a count
(`GroupedIs`), and each source's items stand together in the bundle in the order of
their query (`SourceIsFirst`), so a cut anywhere keeps the more frequent. That
`LogBytes` is a number for every bundle needs induction on its length; it is
obtained from the least element of the lengths without a sum (`LeastElement`, `UpTo`).
`OnlyTheLoopPushesOut` is the true half of the comment in the finding below: the caps
alone leave both sources in the bundle.

Assumptions: the named `ASSUME`s of the modules only; for the pipeline those of the
two queues and that the processes are finitely many.

Only model-checked: the liveness properties (`EveryJobSettles`, `EveryDeliveryEnds`,
`EveryIncidentEnds`, `EveryAlertLands`, `EveryJobEnds`) and the fairness part of
`KeepsJobs` and `KeepsDeliveries`; both need ENABLED, which the prover does not handle. The
library's induction theorems take an operator and cannot be instantiated either;
where a recursive function had to be reasoned about, a set of counterexamples and
its least element served instead.

## 5. Findings

* `app/collectors/loki.py:255` says half of the bundle is reserved for each source so
  that one cannot push out the other. That holds for the number of items; the loop
  that enforces the byte limit (281-285) pops from the end, where the MySQL items
  are. Ten application items with long, non-ASCII messages exceed 16 KiB by
  themselves, and the bundle then has no MySQL evidence. Run `evidence_pushout`.

Known limits the models show, contradicted by no document:

* a job that kills its process is claimed again without end (`RetryBudget` and
  `RequestBudget` count takeovers and deaths apart);
* a FAILED job has no delivery, so nobody is told of the incident;
* a process that lost its lease dies in `complete` but not in `fail`;
* a Retry-After of more than an hour is cut to an hour (`slack.py:49`), and Slack is
  posted to before the time it named: `HonoursRetryAfter` and `RetryAfterHonoured` are
  stated up to that cap, and the run has a header above it (4, cut to 2);
* a Retry-After is lost with the process that heard it, and holds for one
  delivery, not for the webhook;
* legal settings allow work longer than the lease (`job_lease_seconds` 120 with
  `llm_timeout_seconds` 120);
* one unacceptable alert keeps the whole group from being stored;
* a migration 0004 that is cut between dropping the index and adding the key,
  by a kill or by a duplicate the old API inserts just then, cannot be run again
  (`SchemaKeepsPace` states that the revision at least never claims otherwise);
* a bootstrap killed between REVOKE and GRANT leaves the live services without
  their privileges.

## 6. Not modelled

Slack's message text, the HMAC comparison of the signature, the validators of the
settings, normalising and masking of log lines, `app/evaluation/`,
`app/operations/synthetic_incident.py` (to the API a post like Grafana's),
monitoring and CI configuration: sequential, stateless or third-party. Downgrades
of the migrations: no deployment runs them, and the migration user has no DROP
privilege. Two deployments at once: nothing prevents them, nothing is promised of
them. Grafana's `maxAlerts` truncation happens before the API. Short lock misses
of SKIP LOCKED (see `IncidentPipeline`). Hazards that no property covers are
listed with their reason in `PROJECT.json`.

## 7. Plan

1. `IncidentIngest` in front of `IncidentPipeline`, from alert to Slack, on the strength
   of `OpensNewBatches`.
2. `AnalysisRun` as the interior of a claim of `AnalysisJobs`: that its `RunFits` is the
   `WorkBound` there, as a refinement.
3. A second deployment beside the first in `SchemaRollout`.
