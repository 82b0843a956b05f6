------------------------------ MODULE AnalysisRun ------------------------------
(***************************************************************************)
(* What run_once (app/worker.py) does between the claim of a job and its   *)
(* settling: it collects evidence, asks Gemini for an analysis under one   *)
(* timeout (app/llm/gemini_client.py), checks the answer against the       *)
(* evidence (app/domain/analysis.py) and stores both, or fails the job.    *)
(*                                                                         *)
(* One job and the runs that work on it, one after the other; AnalysisJobs *)
(* shows that runs do not overlap, and has the leases and the backoff.     *)
(* Gemini is external: it answers anything, an error, or nothing.  Time    *)
(* passes only in the two calls out, in ticks.                             *)
(***************************************************************************)
EXTENDS Integers

CONSTANTS
  MaxLogs,        \* the 20 log items a bundle may hold
  CollectBound,   \* ticks the queries of Loki may take
  Timeout,        \* settings.llm_timeout_seconds, in ticks
  Pause,          \* the second between two requests, in ticks
  MaxAttempts,    \* settings.job_max_attempts
  MaxDeaths       \* bound on the runs whose process dies

ASSUME LimitAssumption ==
  /\ MaxLogs \in Nat \ {0}
  /\ CollectBound \in Nat
  /\ Timeout \in Nat \ {0}
  /\ Pause \in Nat
  /\ MaxAttempts \in Nat \ {0}
  /\ MaxDeaths \in Nat

VARIABLES
  configured, \* whether gemini_api_key and llm_model are set
  labelled,   \* whether the incident's masked event has labels
  job,        \* the row in analysis_jobs
  run,        \* where the process that holds the job stands
  bundle,     \* the evidence of this run
  answer,     \* its analysis, once it has a valid one
  stored,     \* the evidence and the analysis complete has stored
  asked,      \* history: requests sent to Gemini for this job
  deaths      \* history: processes that died on this job

given == <<configured, labelled>>
vars == <<configured, labelled, job, run, bundle, answer, stored, asked, deaths>>

(* Evidence ids: 0 stands for A1, n for Ln.  One more is an id no bundle   *)
(* has.                                                                    *)
Cite == 0..(MaxLogs + 1)

(* useful_logs: some item is OK with a count above zero.                   *)
Bundle == [logs : 0..MaxLogs, useful_logs : BOOLEAN, alert : BOOLEAN]

(* What an analysis says, as far as it is checked: facts stands for what   *)
(* the facts and the excluded candidates cite; there is a hypothesis when  *)
(* one cites something, for each has to.                                   *)
Analysis ==
  [ status     : {"ANALYZED", "INSUFFICIENT_EVIDENCE"},
    facts      : SUBSET Cite,
    hypotheses : SUBSET Cite,
    confirmed  : BOOLEAN ]

Outcome == {"none", "OK", "INVALID_ANALYSIS", "DEPENDENCY_UNAVAILABLE"}

(* elapsed counts from the claim, spent from the first request, paused     *)
(* from the error before the second.                                       *)
Run ==
  [ phase    : {"none", "collecting", "collected", "asking", "pausing", "settling"},
    elapsed  : Nat,
    spent    : 0..Timeout,
    paused   : 0..Pause,
    requests : 0..2,
    outcome  : Outcome ]

EmptyBundle == [logs |-> 0, useful_logs |-> FALSE, alert |-> FALSE]

(* insufficient_evidence_analysis, and the place of an answer not there.   *)
Insufficient == [ status |-> "INSUFFICIENT_EVIDENCE", facts |-> {},
                  hypotheses |-> {}, confirmed |-> FALSE ]

NoRun == [ phase |-> "none", elapsed |-> 0, spent |-> 0, paused |-> 0,
           requests |-> 0, outcome |-> "none" ]

NotStored == [there |-> FALSE, by_gemini |-> FALSE, bundle |-> EmptyBundle, analysis |-> Insufficient]

TypeOK ==
  /\ configured \in BOOLEAN
  /\ labelled \in BOOLEAN
  /\ job \in [status : {"PENDING", "ANALYZING", "SUCCEEDED", "FAILED"}, attempt_count : Nat]
  /\ run \in Run
  /\ bundle \in Bundle
  /\ answer \in Analysis
  /\ stored \in [there : BOOLEAN, by_gemini : BOOLEAN, bundle : Bundle, analysis : Analysis]
  /\ asked \in Nat
  /\ deaths \in 0..MaxDeaths

(* An incident of the webhook has labels; create_with_job takes any event. *)
Init ==
  /\ configured \in BOOLEAN
  /\ labelled \in BOOLEAN
  /\ job = [status |-> "PENDING", attempt_count |-> 0]
  /\ run = NoRun
  /\ bundle = EmptyBundle
  /\ answer = Insufficient
  /\ stored = NotStored
  /\ asked = 0
  /\ deaths = 0

--------------------------------------------------------------------------------
(* A pending job, or one whose process died: its lease runs out.           *)
Claim ==
  /\ run.phase = "none"
  /\ job.status \in {"PENDING", "ANALYZING"}
  /\ job' = [status |-> "ANALYZING", attempt_count |-> job.attempt_count + 1]
  /\ run' = [NoRun EXCEPT !.phase = "collecting"]
  /\ bundle' = EmptyBundle
  /\ answer' = Insufficient
  /\ UNCHANGED <<given, stored, asked, deaths>>

(* collect always returns an item, be it a placeholder; the alert, if the  *)
(* event has labels, is put beside it.                                     *)
Collect(logs, useful_logs) ==
  /\ run.phase = "collecting"
  /\ bundle' = [logs |-> logs, useful_logs |-> useful_logs, alert |-> labelled]
  /\ run' = [run EXCEPT !.phase = "collected"]
  /\ UNCHANGED <<given, job, answer, stored, asked, deaths>>

Useful(b) == b.alert \/ b.useful_logs

(* The run goes on to a phase, its time as it was.                         *)
GoneTo(phase, requests, outcome) ==
  [ phase |-> phase, elapsed |-> run.elapsed, spent |-> run.spent,
    paused |-> run.paused, requests |-> requests, outcome |-> outcome ]

Settling(outcome) == GoneTo("settling", run.requests, outcome)

AnalyzeWithout ==
  /\ run.phase = "collected"
  /\ ~Useful(bundle)
  /\ run' = Settling("OK")
  /\ answer' = Insufficient
  /\ UNCHANGED <<given, job, bundle, stored, asked, deaths>>

RefuseUnconfigured ==
  /\ run.phase = "collected"
  /\ Useful(bundle)
  /\ ~configured
  /\ run' = Settling("INVALID_ANALYSIS")
  /\ UNCHANGED <<given, job, bundle, answer, stored, asked, deaths>>

--------------------------------------------------------------------------------
(* GeminiClient._generate_with_retry                                       *)

Ask ==
  /\ run.phase = "collected"
  /\ Useful(bundle)
  /\ configured
  /\ run' = GoneTo("asking", 1, "none")
  /\ asked' = asked + 1
  /\ UNCHANGED <<given, job, bundle, answer, stored, deaths>>

(* Mutant: each request has the timeout for itself.                        *)
AskAgainAfresh ==
  /\ run.phase = "pausing"
  /\ run.paused = Pause
  /\ run' = [run EXCEPT !.phase = "asking", !.requests = @ + 1, !.spent = 0]
  /\ asked' = asked + 1
  /\ UNCHANGED <<given, job, bundle, answer, stored, deaths>>

AskAgain ==
  /\ run.phase = "pausing"
  /\ run.paused = Pause
  /\ run' = GoneTo("asking", run.requests + 1, "none")
  /\ asked' = asked + 1
  /\ UNCHANGED <<given, job, bundle, answer, stored, deaths>>

(* Mutant: every transient error earns another request.                    *)
ApiErrorRetried(transient) ==
  /\ run.phase = "asking"
  /\ run' = IF transient
            THEN GoneTo("pausing", run.requests, "none")
            ELSE Settling("DEPENDENCY_UNAVAILABLE")
  /\ UNCHANGED <<given, job, bundle, answer, stored, asked, deaths>>

(* errors.APIError; transient for the codes 429 and 500 and above.         *)
ApiError(transient) ==
  /\ run.phase = "asking"
  /\ run' = IF run.requests = 1 /\ transient
            THEN GoneTo("pausing", run.requests, "none")
            ELSE Settling("DEPENDENCY_UNAVAILABLE")
  /\ UNCHANGED <<given, job, bundle, answer, stored, asked, deaths>>

(* Mutant: the second request is outside the timeout.                      *)
TimedOutFirst ==
  /\ run.phase = "asking"
  /\ run.requests = 1
  /\ run.spent = Timeout
  /\ run' = Settling("DEPENDENCY_UNAVAILABLE")
  /\ UNCHANGED <<given, job, bundle, answer, stored, asked, deaths>>

(* asyncio.timeout cancels the request, or the pause, it finds.            *)
TimedOut ==
  /\ run.phase \in {"asking", "pausing"}
  /\ run.spent = Timeout
  /\ run' = Settling("DEPENDENCY_UNAVAILABLE")
  /\ UNCHANGED <<given, job, bundle, answer, stored, asked, deaths>>

--------------------------------------------------------------------------------
(* The answer: AnalysisResult and its validate_evidence_references.        *)

IdsOf(b) == (1..b.logs) \cup (IF b.alert THEN {0} ELSE {})

(* Mutant: only the facts are looked at.                                   *)
ReferencedFacts(a) == a.facts

Referenced(a) == a.facts \cup a.hypotheses

Valid(a) ==
  /\ ~a.confirmed
  /\ a.status = "INSUFFICIENT_EVIDENCE" => a.hypotheses = {}
  /\ Referenced(a) \subseteq IdsOf(bundle)

Accept(a) ==
  /\ run.phase = "asking"
  /\ Valid(a)
  /\ run' = Settling("OK")
  /\ answer' = a
  /\ UNCHANGED <<given, job, bundle, stored, asked, deaths>>

(* An answer that is empty, does not parse, or is not valid.               *)
Reject ==
  /\ run.phase = "asking"
  /\ run' = Settling("INVALID_ANALYSIS")
  /\ UNCHANGED <<given, job, bundle, answer, stored, asked, deaths>>

--------------------------------------------------------------------------------
(* complete and fail                                                       *)

Complete ==
  /\ run.phase = "settling"
  /\ run.outcome = "OK"
  /\ job' = [job EXCEPT !.status = "SUCCEEDED"]
  /\ stored' = [ there |-> TRUE, by_gemini |-> run.requests > 0,
                 bundle |-> bundle, analysis |-> answer ]
  /\ run' = NoRun
  /\ UNCHANGED <<given, bundle, answer, asked, deaths>>

(* Mutant: one attempt too many.                                           *)
ShouldRetryLate ==
  run.outcome = "DEPENDENCY_UNAVAILABLE" /\ job.attempt_count <= MaxAttempts

ShouldRetry ==
  run.outcome = "DEPENDENCY_UNAVAILABLE" /\ job.attempt_count < MaxAttempts

Fail ==
  /\ run.phase = "settling"
  /\ run.outcome \in {"INVALID_ANALYSIS", "DEPENDENCY_UNAVAILABLE"}
  /\ job' = [job EXCEPT !.status = IF ShouldRetry THEN "PENDING" ELSE "FAILED"]
  /\ run' = NoRun
  /\ UNCHANGED <<given, bundle, answer, stored, asked, deaths>>

(* The process is killed, or meets an exception that run_once does not     *)
(* handle: one of the transport under the client, or of the database.      *)
Die ==
  /\ run.phase # "none"
  /\ deaths < MaxDeaths
  /\ deaths' = deaths + 1
  /\ run' = NoRun
  /\ UNCHANGED <<given, job, bundle, answer, stored, asked>>

(* Time                                                                    *)
Later(spent, paused) ==
  [ phase |-> run.phase, elapsed |-> run.elapsed + 1, spent |-> spent,
    paused |-> paused, requests |-> run.requests, outcome |-> run.outcome ]

TickCollecting ==
  /\ run.phase = "collecting"
  /\ run.elapsed < CollectBound
  /\ run' = Later(run.spent, run.paused)

TickAsking ==
  /\ run.phase = "asking"
  /\ run.spent < Timeout
  /\ run' = Later(run.spent + 1, run.paused)

TickPausing ==
  /\ run.phase = "pausing"
  /\ run.spent < Timeout
  /\ run.paused < Pause
  /\ run' = Later(run.spent + 1, run.paused + 1)

Tick ==
  /\ TickCollecting \/ TickAsking \/ TickPausing
  /\ UNCHANGED <<given, job, bundle, answer, stored, asked, deaths>>

--------------------------------------------------------------------------------
CollectAny == \E logs \in 1..MaxLogs, useful_logs \in BOOLEAN : Collect(logs, useful_logs)

Next ==
  \/ Claim
  \/ CollectAny
  \/ AnalyzeWithout
  \/ RefuseUnconfigured
  \/ Ask
  \/ AskAgain
  \/ \E transient \in BOOLEAN : ApiError(transient)
  \/ TimedOut
  \/ \E a \in Analysis : Accept(a)
  \/ Reject
  \/ Complete
  \/ Fail
  \/ Die
  \/ Tick

(* The code runs on, and the clock; Gemini need never answer.              *)
Fairness ==
  /\ WF_vars(Claim)
  /\ WF_vars(CollectAny)
  /\ WF_vars(AnalyzeWithout \/ RefuseUnconfigured \/ Ask)
  /\ WF_vars(AskAgain \/ TimedOut)
  /\ WF_vars(Complete \/ Fail)
  /\ WF_vars(Tick)

Spec == Init /\ [][Next]_vars /\ Fairness

--------------------------------------------------------------------------------
(* Properties.                                                             *)

(* A stored analysis cites only items of the evidence stored with it, of   *)
(* the same run, never confirms a cause, and has no hypothesis where it    *)
(* finds the evidence wanting; Gemini's only where there was evidence      *)
(* (README.md:81-83, tests/unit/test_analysis.py:89).                      *)
StoredIsGrounded ==
  stored.there =>
    /\ stored.analysis.facts \subseteq IdsOf(stored.bundle)
    /\ stored.analysis.hypotheses \subseteq IdsOf(stored.bundle)
    /\ stored.analysis.status = "INSUFFICIENT_EVIDENCE" => stored.analysis.hypotheses = {}
    /\ ~stored.analysis.confirmed
    /\ stored.by_gemini <=> Useful(stored.bundle)

(* A job costs two requests to Gemini for each of its attempts, and only   *)
(* the deaths of processes give it more than job_max_attempts of them: the *)
(* two budgets of retries multiply, they do not run away.                  *)
RequestBudget ==
  /\ asked <= 2 * job.attempt_count
  /\ job.attempt_count <= MaxAttempts + deaths

(* However its requests and the pause fall, a run lasts no longer than the *)
(* queries and one timeout (tests/unit/test_analysis.py:158): the bound    *)
(* that AnalysisJobs compares with the lease.                              *)
RunFits ==
  /\ run.elapsed <= CollectBound + Timeout
  /\ run.phase = "collecting" => run.elapsed <= CollectBound

(* A job is settled in the end though Gemini never answers a request.      *)
EveryJobEnds == <>(run.phase = "none" /\ job.status \in {"SUCCEEDED", "FAILED"})
--------------------------------------------------------------------------------
(* The inductive invariant behind the properties.                          *)

(* How many requests a run has made where it stands.                       *)
RequestsByPhase ==
  /\ run.phase \in {"collecting", "collected"} => run.requests = 0 /\ run.spent = 0
  /\ run.phase = "asking" => run.requests \in {1, 2}
  /\ run.phase = "pausing" => run.requests = 1

(* What Gemini has cost is what earlier attempts may have cost and what    *)
(* this run has.                                                           *)
RequestsCounted ==
  /\ run.phase = "none" => asked <= 2 * job.attempt_count
  /\ run.phase # "none" => asked <= 2 * (job.attempt_count - 1) + run.requests

(* A job can be claimed again within its attempts, or for a death.         *)
AttemptsCounted ==
  /\ run.phase # "none" => job.status = "ANALYZING" /\ job.attempt_count > 0
  /\ run.phase = "none" /\ job.status \in {"PENDING", "ANALYZING"} =>
       job.attempt_count < MaxAttempts + deaths

(* The time of a run is that of its queries and that of its requests.      *)
ElapsedIsSpent == run.elapsed <= CollectBound + run.spent

(* A request is made with evidence; an answer to be stored fits it.        *)
AnswerFits ==
  /\ run.phase \in {"asking", "pausing"} => Useful(bundle)
  /\ run.phase = "settling" /\ run.outcome = "OK" =>
       Valid(answer) /\ (run.requests > 0 <=> Useful(bundle))

(* All of it together.                                                     *)
IInv ==
  /\ TypeOK
  /\ RequestsByPhase
  /\ RequestsCounted
  /\ AttemptsCounted
  /\ ElapsedIsSpent
  /\ AnswerFits
  /\ StoredIsGrounded
  /\ RequestBudget
  /\ RunFits
================================================================================
