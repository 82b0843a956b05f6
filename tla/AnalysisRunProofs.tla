--------------------------- MODULE AnalysisRunProofs ---------------------------
(***************************************************************************)
(* Proofs about AnalysisRun for every size of a bundle, timeout, pause and *)
(* number of attempts and deaths.  Two lemmas carry the invariant, one on  *)
(* what a run counts and one on what it has to say; the theorems read the  *)
(* properties off it.                                                      *)
(***************************************************************************)
EXTENDS AnalysisRun, TLAPS

USE LimitAssumption

(* The records the actions write are runs.                                 *)
LEMMA RunTypes ==
  ASSUME run \in Run
  PROVE  /\ NoRun \in Run
         /\ [NoRun EXCEPT !.phase = "collecting"] \in Run
         /\ \A outcome \in Outcome : Settling(outcome) \in Run
  BY DEF Run, NoRun, Outcome, Settling, GoneTo, GoneTo

LEMMA TypeStep ==
  ASSUME TypeOK, RequestsByPhase, [Next]_vars
  PROVE  TypeOK'
<1> USE DEF given
<1>0. run \in Run
  BY DEF TypeOK
<1>1. CASE Claim
  BY <1>0, <1>1, RunTypes DEF Claim, TypeOK, EmptyBundle, Bundle, Insufficient, Analysis
<1>2. CASE CollectAny
  <2>1. PICK logs \in 1..MaxLogs, useful_logs \in BOOLEAN : Collect(logs, useful_logs)
    BY <1>2 DEF CollectAny
  <2>2. bundle' \in Bundle /\ run' \in Run
    BY <1>0, <2>1 DEF Collect, TypeOK, Bundle, Run
  <2> QED
    BY <2>1, <2>2 DEF Collect, TypeOK
<1>3. CASE AnalyzeWithout
  <2>1. run' \in Run
    BY <1>0, <1>3, RunTypes DEF AnalyzeWithout, Outcome
  <2> QED
    BY <1>3, <2>1 DEF AnalyzeWithout, TypeOK, Insufficient, Analysis
<1>4. CASE \/ RefuseUnconfigured \/ TimedOut \/ Reject
           \/ \E transient \in BOOLEAN : ApiError(transient)
  <2>1. run' \in Run
    BY <1>0, <1>4, RunTypes
       DEF RefuseUnconfigured, TimedOut, Reject, ApiError, Outcome, GoneTo, Run
  <2> QED
    BY <1>4, <2>1 DEF RefuseUnconfigured, TimedOut, Reject, ApiError, TypeOK
<1>5. CASE Ask \/ AskAgain
  <2>1. run' \in Run
    BY <1>0, <1>5 DEF Ask, AskAgain, GoneTo, RequestsByPhase, Outcome, Run
  <2> QED
    BY <1>5, <2>1 DEF Ask, AskAgain, GoneTo, TypeOK
<1>6. ASSUME NEW a \in Analysis, Accept(a) PROVE TypeOK'
  <2>1. run' \in Run
    BY <1>0, <1>6, RunTypes DEF Accept, Outcome
  <2> QED
    BY <1>6, <2>1 DEF Accept, TypeOK
<1>7. CASE Complete
  BY <1>0, <1>7, RunTypes DEF Complete, TypeOK, Run
<1>8. CASE Fail
  BY <1>0, <1>8, RunTypes DEF Fail, TypeOK
<1>9. CASE Die
  BY <1>0, <1>9, RunTypes DEF Die, TypeOK
<1>10. CASE Tick
  <2>1. run' \in Run
    BY <1>0, <1>10 DEF Tick, TickCollecting, TickAsking, TickPausing, Later, Run
  <2> QED
    BY <1>10, <2>1 DEF Tick, TypeOK
<1>11. CASE UNCHANGED vars
  BY <1>11 DEF vars, TypeOK
<1> QED
  BY <1>1, <1>2, <1>3, <1>4, <1>5, <1>6, <1>7, <1>8, <1>9, <1>10, <1>11 DEF Next

(* Requests, attempts and time: every one is paid for by an attempt, a     *)
(* death, or the timeout.                                                  *)
LEMMA CountsStep ==
  ASSUME TypeOK, RequestsByPhase, RequestsCounted, AttemptsCounted, ElapsedIsSpent,
         RequestBudget, RunFits, [Next]_vars
  PROVE  /\ RequestsByPhase' /\ RequestsCounted' /\ AttemptsCounted'
         /\ ElapsedIsSpent' /\ RequestBudget' /\ RunFits'
<1> DEFINE Counts == /\ RequestsByPhase /\ RequestsCounted /\ AttemptsCounted
                     /\ ElapsedIsSpent /\ RequestBudget /\ RunFits
<1> USE DEF RequestsByPhase, RequestsCounted, AttemptsCounted, ElapsedIsSpent,
            RequestBudget, RunFits
<1>0. /\ run \in Run /\ asked \in Nat /\ deaths \in Nat
      /\ job \in [status : {"PENDING", "ANALYZING", "SUCCEEDED", "FAILED"},
                  attempt_count : Nat]
  BY DEF TypeOK
<1>1. CASE Claim
  BY <1>0, <1>1 DEF Claim, NoRun, Run
<1>2. CASE CollectAny
  BY <1>0, <1>2 DEF CollectAny, Collect, Run
<1>3. CASE \/ AnalyzeWithout \/ RefuseUnconfigured \/ TimedOut \/ Reject
           \/ \E a \in Analysis : Accept(a)
  BY <1>0, <1>3 DEF AnalyzeWithout, RefuseUnconfigured, TimedOut, Reject, Accept,
                    Settling, GoneTo, Run
<1>4. CASE \E transient \in BOOLEAN : ApiError(transient)
  BY <1>0, <1>4 DEF ApiError, Settling, GoneTo, Run
<1>5. CASE Ask \/ AskAgain
  BY <1>0, <1>5 DEF Ask, AskAgain, GoneTo, Run
<1>6. CASE Complete
  BY <1>0, <1>6 DEF Complete, NoRun, Run
<1>7. CASE Fail
  BY <1>0, <1>7 DEF Fail, ShouldRetry, NoRun, Run
<1>8. CASE Die
  BY <1>0, <1>8 DEF Die, NoRun, Run
<1>9. CASE Tick
  BY <1>0, <1>9 DEF Tick, TickCollecting, TickAsking, TickPausing, Later, Run
<1>10. CASE UNCHANGED vars
  BY <1>10 DEF vars
<1> QED
  BY <1>1, <1>2, <1>3, <1>4, <1>5, <1>6, <1>7, <1>8, <1>9, <1>10 DEF Next

(* The bundle an answer was checked against is the one it is stored with.  *)
LEMMA AnswerStep ==
  ASSUME TypeOK, RequestsByPhase, AnswerFits, StoredIsGrounded, [Next]_vars
  PROVE  AnswerFits' /\ StoredIsGrounded'
<1> DEFINE Says == AnswerFits /\ StoredIsGrounded
<1>0. run \in Run
  BY DEF TypeOK
<1>1. CASE Claim
  BY <1>0, <1>1 DEF Claim, NoRun, AnswerFits, StoredIsGrounded, Run
<1>2. CASE CollectAny
  BY <1>0, <1>2 DEF CollectAny, Collect, AnswerFits, StoredIsGrounded, Run
<1>3. CASE AnalyzeWithout
  <2>1. Valid(answer)'
    BY <1>3 DEF AnalyzeWithout, Valid, Referenced, Insufficient
  <2>2. run'.requests = 0 /\ run'.phase = "settling" /\ ~Useful(bundle)'
    BY <1>0, <1>3 DEF AnalyzeWithout, Settling, GoneTo, Useful, RequestsByPhase, Run
  <2> QED
    BY <1>3, <2>1, <2>2 DEF AnalyzeWithout, AnswerFits, StoredIsGrounded
<1>4. CASE RefuseUnconfigured \/ TimedOut \/ Reject
  BY <1>0, <1>4 DEF RefuseUnconfigured, TimedOut, Reject, Settling, GoneTo, AnswerFits,
                    StoredIsGrounded, Run
<1>5. CASE \E transient \in BOOLEAN : ApiError(transient)
  BY <1>0, <1>5 DEF ApiError, Settling, GoneTo, AnswerFits, StoredIsGrounded, Run, Useful
<1>6. CASE Ask \/ AskAgain
  BY <1>0, <1>6 DEF Ask, AskAgain, GoneTo, AnswerFits, StoredIsGrounded, Run, Useful
<1>7. ASSUME NEW a \in Analysis, Accept(a) PROVE Says'
  <2>1. Valid(answer)'
    BY <1>7 DEF Accept, Valid, Referenced
  <2>2. run'.requests > 0 /\ run'.phase = "settling" /\ Useful(bundle)'
    BY <1>0, <1>7 DEF Accept, Settling, GoneTo, Useful, RequestsByPhase, AnswerFits, Run
  <2> QED
    BY <1>7, <2>1, <2>2 DEF Accept, AnswerFits, StoredIsGrounded
<1>8. CASE Complete
  <2>1. Valid(answer) /\ (run.requests > 0 <=> Useful(bundle))
    BY <1>8 DEF Complete, AnswerFits
  <2>2. /\ stored'.by_gemini = (run.requests > 0)
        /\ stored'.bundle = bundle /\ stored'.analysis = answer
        /\ run'.phase = "none"
    BY <1>8 DEF Complete, NoRun
  <2> QED
    BY <2>1, <2>2 DEF AnswerFits, StoredIsGrounded, Valid, Referenced
<1>9. CASE Fail \/ Die
  BY <1>9 DEF Fail, Die, NoRun, AnswerFits, StoredIsGrounded
<1>10. CASE Tick
  <2>1. run'.phase = run.phase /\ run'.phase # "settling"
    BY <1>0, <1>10 DEF Tick, TickCollecting, TickAsking, TickPausing, Later, Run
  <2> QED
    BY <1>10, <2>1 DEF Tick, AnswerFits, StoredIsGrounded, Useful
<1>11. CASE UNCHANGED vars
  BY <1>11 DEF vars, AnswerFits, StoredIsGrounded, Valid, Useful, Referenced
<1> QED
  BY <1>1, <1>2, <1>3, <1>4, <1>5, <1>6, <1>7, <1>8, <1>9, <1>10, <1>11 DEF Next

--------------------------------------------------------------------------------
(* The invariant and what follows from it.                                 *)

LEMMA InitEstablishes == Init => IInv
<1> SUFFICES ASSUME Init PROVE IInv
  OBVIOUS
<1>1. TypeOK
  BY DEF Init, TypeOK, NoRun, Run, Outcome, EmptyBundle, Bundle, Insufficient, Analysis,
         NotStored
<1>2. RequestsByPhase /\ RequestsCounted /\ AttemptsCounted /\ ElapsedIsSpent
  BY DEF Init, NoRun, RequestsByPhase, RequestsCounted, AttemptsCounted, ElapsedIsSpent
<1>3. AnswerFits /\ StoredIsGrounded /\ RequestBudget /\ RunFits
  BY DEF Init, NoRun, NotStored, AnswerFits, StoredIsGrounded, RequestBudget, RunFits
<1> QED
  BY <1>1, <1>2, <1>3 DEF IInv

LEMMA StepPreserves == IInv /\ [Next]_vars => IInv'
  BY TypeStep, CountsStep, AnswerStep DEF IInv

(* IInv is inductive, whatever Gemini answers and whichever processes die. *)
THEOREM Invariance == Spec => []IInv
  BY InitEstablishes, StepPreserves, PTL DEF Spec

(* What run_once stores cites only the evidence stored with it, and never  *)
(* confirms a cause.                                                       *)
THEOREM StoredAnalysisGrounded == Spec => []StoredIsGrounded
<1>1. IInv => StoredIsGrounded
  BY DEF IInv
<1> QED
  BY <1>1, Invariance, PTL

(* The retries of the client and those of the queue cost two requests an   *)
(* attempt and no more.                                                    *)
THEOREM RequestsBounded == Spec => []RequestBudget
<1>1. IInv => RequestBudget
  BY DEF IInv
<1> QED
  BY <1>1, Invariance, PTL

(* No answer, error, pause or second request makes a run_once outlast its  *)
(* queries and one llm_timeout_seconds.                                    *)
THEOREM RunEndsInTime == Spec => []RunFits
<1>1. IInv => RunFits
  BY DEF IInv
<1> QED
  BY <1>1, Invariance, PTL

================================================================================
