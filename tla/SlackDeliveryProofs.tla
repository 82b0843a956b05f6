-------------------------- MODULE SlackDeliveryProofs --------------------------
(***************************************************************************)
(* Proofs about SlackDelivery for every set of incidents and processes,    *)
(* every header Slack may send and every value of the limits.  One lemma   *)
(* per conjunct of IInv, with one step per action; the theorems at the end *)
(* read the properties off IInv.                                           *)
(***************************************************************************)
EXTENDS SlackDelivery, FiniteSetTheorems, TLAPS

USE NoneAssumption, LimitAssumption, HeaderAssumption

--------------------------------------------------------------------------------
(* Operators.                                                              *)

(* 2 ^ n is how many subsets a set of n elements has, and so a number.     *)
LEMMA PowerOfTwo == \A n \in Nat : 2 ^ n \in Nat
<1> TAKE n \in Nat
<1>1. IsFiniteSet(1..n) /\ Cardinality(1..n) = n
  BY FS_Interval
<1>2. IsFiniteSet(SUBSET (1..n)) /\ Cardinality(SUBSET (1..n)) = 2 ^ n
  BY <1>1, FS_SUBSET
<1> QED
  BY <1>2, FS_CardinalityType

LEMMA BackoffType == \A n \in Nat : Backoff(n) \in Nat
<1> TAKE n \in Nat
<1>1. Greatest(0, n - 1) \in Nat
  BY DEF Greatest
<1>2. 2 ^ Greatest(0, n - 1) \in Nat
  BY <1>1, PowerOfTwo
<1>3. BackoffUnit * 2 ^ Greatest(0, n - 1) \in Nat
  BY <1>2
<1> QED
  BY <1>3 DEF Backoff, Least

(* A Retry-After is at least a second and never sooner than Slack said,    *)
(* or than the cap where Slack said more.                                  *)
LEMMA RetryAfterBounds ==
  \A header \in Header \cup {NotANumber} :
    /\ RetryAfter(header) \in Nat \ {0}
    /\ header # NotANumber =>
         /\ Least(header, RetryAfterCap) \in Int
         /\ RetryAfter(header) >= Least(header, RetryAfterCap)
  BY DEF RetryAfter, Least, Greatest

LEMMA ErrorTypes ==
  \A kind \in Kind :
    /\ ErrorOf(kind) \in Code \cup {None}
    /\ ErrorOf(kind) = None <=> kind = "ok"
  BY DEF Kind, ErrorOf, Code

(* The rows claim_next, complete and fail write are rows.                  *)
LEMMA RowTypes ==
  ASSUME TypeOK, NEW i \in Incident
  PROVE  /\ \A w \in Worker : Leased(i, w) \in DeliveryRow
         /\ Sent(i) \in DeliveryRow
         /\ \A code \in Code, delay \in Int : Failed(i, code, delay) \in DeliveryRow
         /\ NewDelivery \in DeliveryRow
         /\ Aged(delivery[i]) \in DeliveryRow
<1>0. delivery[i] \in DeliveryRow
  BY DEF TypeOK
<1>1. ASSUME NEW w \in Worker PROVE Leased(i, w) \in DeliveryRow
  BY <1>0 DEF DeliveryRow, Leased, Status
<1>2. Sent(i) \in DeliveryRow
  BY <1>0 DEF DeliveryRow, Sent, Status
<1>3. ASSUME NEW code \in Code, NEW delay \in Int PROVE Failed(i, code, delay) \in DeliveryRow
  <2>1. (IF ShouldRetry(i, code) THEN "PENDING" ELSE "DEAD") \in Status
    BY DEF Status
  <2> QED
    BY <1>0, <2>1 DEF DeliveryRow, Failed
<1>4. NewDelivery \in DeliveryRow
  BY DEF NewDelivery, NoDelivery, DeliveryRow, Status
<1>5. Aged(delivery[i]) \in DeliveryRow
  <2>1. \A t \in Int : Earlier(t) \in Int
    BY DEF Earlier
  <2> QED
    BY <1>0, <2>1 DEF DeliveryRow, Aged
<1> QED
  BY <1>1, <1>2, <1>3, <1>4, <1>5

(* Time changes nothing in the rows and processes but their times.         *)
LEMMA TickKeeps ==
  ASSUME TypeOK, Tick
  PROVE  /\ \A i \in Incident :
              /\ delivery'[i] = Aged(delivery[i])
              /\ delivery'[i].status = delivery[i].status
              /\ delivery'[i].attempt_count = delivery[i].attempt_count
              /\ delivery'[i].lease_owner = delivery[i].lease_owner
              /\ delivery'[i].last_error_code = delivery[i].last_error_code
         /\ \A w \in Worker :
              /\ sender'[w].phase = sender[w].phase
              /\ sender'[w].incident = sender[w].incident
              /\ sender'[w].attempt = sender[w].attempt
              /\ sender'[w].error = sender[w].error
              /\ sender'[w].retry_after = sender[w].retry_after
              /\ Busy(w) => sender'[w].elapsed = sender[w].elapsed + 1
         /\ UNCHANGED <<received, doubtful, takeovers>>
<1>1. ASSUME NEW i \in Incident
      PROVE  /\ delivery'[i] = Aged(delivery[i])
             /\ delivery'[i].status = delivery[i].status
             /\ delivery'[i].attempt_count = delivery[i].attempt_count
             /\ delivery'[i].lease_owner = delivery[i].lease_owner
             /\ delivery'[i].last_error_code = delivery[i].last_error_code
  <2>1. delivery'[i] = Aged(delivery[i]) /\ delivery[i] \in DeliveryRow
    BY DEF Tick, TypeOK
  <2> QED
    BY <2>1 DEF Aged, DeliveryRow
<1>2. ASSUME NEW w \in Worker
      PROVE  /\ sender'[w].phase = sender[w].phase
             /\ sender'[w].incident = sender[w].incident
             /\ sender'[w].attempt = sender[w].attempt
             /\ sender'[w].error = sender[w].error
             /\ sender'[w].retry_after = sender[w].retry_after
             /\ Busy(w) => sender'[w].elapsed = sender[w].elapsed + 1
  BY DEF Tick, TypeOK, Process
<1> QED
  BY <1>1, <1>2 DEF Tick

(* A step keeps every variable in its type.                                *)
LEMMA TypeStep ==
  ASSUME TypeOK, BusyOnClaim, [Next]_vars
  PROVE  TypeOK'
<1>1. ASSUME NEW i \in Incident, Register(i) PROVE TypeOK'
  BY <1>1, RowTypes DEF Register, TypeOK
<1>2. ASSUME NEW w \in Worker, NEW i \in Incident, Claim(w, i) PROVE TypeOK'
  <2>1. delivery' \in [Incident -> DeliveryRow]
    BY <1>2, RowTypes DEF Claim, TypeOK
  <2>2. sender' \in [Worker -> Process]
    BY <1>2 DEF Claim, TypeOK, Process, DeliveryRow
  <2>3. takeovers' \in [Incident -> Nat]
    BY <1>2 DEF Claim, TypeOK
  <2> QED
    BY <1>2, <2>1, <2>2, <2>3 DEF Claim, TypeOK
<1>3. ASSUME NEW w \in Worker, NEW kind \in Kind, NEW header \in Header \cup {NotANumber},
             NEW accepted \in BOOLEAN, Send(w, kind, header, accepted)
      PROVE  TypeOK'
  <2>1. sender[w].incident \in Incident /\ sender[w] \in Process
    BY <1>3 DEF Send, BusyOnClaim, Busy, TypeOK
  <2>2. sender' \in [Worker -> Process]
    <3>1. ErrorOf(kind) \in Code \cup {None}
      BY ErrorTypes
    <3>2. (IF kind = "429" THEN RetryAfter(header) ELSE 0) \in Nat
      BY RetryAfterBounds
    <3>3. [ phase |-> "answered", incident |-> sender[w].incident,
            attempt |-> sender[w].attempt, elapsed |-> sender[w].elapsed,
            error |-> ErrorOf(kind),
            retry_after |-> IF kind = "429" THEN RetryAfter(header) ELSE 0 ] \in Process
      BY <2>1, <3>1, <3>2 DEF Process
    <3> QED
      BY <1>3, <3>3 DEF Send, TypeOK
  <2>3. received' \in [Incident -> Nat]
    <3>1. (IF accepted THEN received[sender[w].incident] + 1
                       ELSE received[sender[w].incident]) \in Nat
      BY <2>1 DEF TypeOK
    <3> QED
      BY <1>3, <3>1 DEF Send, TypeOK
  <2>4. asked' \in [Incident -> Asking]
    <3>1. header # NotANumber => [ named |-> header, passed |-> 0 ] \in Asking
      BY HeaderAssumption DEF Asking
    <3> QED
      BY <1>3, <3>1 DEF Send, TypeOK
  <2> QED
    BY <1>3, <2>1, <2>2, <2>3, <2>4 DEF Send, TypeOK
<1>4. ASSUME NEW w \in Worker, Complete(w) PROVE TypeOK'
  <2>1. sender[w].incident \in Incident
    BY <1>4 DEF Complete, Accepted, Answered, Busy, BusyOnClaim
  <2>2. delivery' \in [Incident -> DeliveryRow]
    BY <1>4, <2>1, RowTypes DEF Complete, TypeOK
  <2>3. sender' \in [Worker -> Process]
    BY <1>4 DEF Complete, TypeOK, Process, Idle
  <2> QED
    BY <1>4, <2>2, <2>3 DEF Complete, TypeOK
<1>5. ASSUME NEW w \in Worker, Fail(w) PROVE TypeOK'
  <2> DEFINE i == sender[w].incident
  <2>1. i \in Incident /\ sender[w].error \in Code /\ sender[w].retry_after \in Nat
    BY <1>5 DEF Fail, Answered, Busy, BusyOnClaim, TypeOK, Process
  <2>2. Delay(w) \in Int
    BY <2>1, BackoffType DEF Delay, TypeOK, DeliveryRow
  <2>3. delivery' \in [Incident -> DeliveryRow]
    BY <1>5, <2>1, <2>2, RowTypes DEF Fail, TypeOK
  <2>4. sender' \in [Worker -> Process]
    BY <1>5 DEF Fail, TypeOK, Process, Idle
  <2> QED
    BY <1>5, <2>3, <2>4 DEF Fail, TypeOK
<1>6. ASSUME NEW w \in Worker, CompleteLost(w) \/ FailLost(w) \/ Crash(w) PROVE TypeOK'
  <2>1. Accepted(w) => sender[w].incident \in Incident
    BY DEF Accepted, Answered, Busy, BusyOnClaim
  <2>2. sender' \in [Worker -> Process]
    BY <1>6 DEF CompleteLost, FailLost, Crash, TypeOK, Process, Down, Idle
  <2>3. asked' \in [Incident -> Asking] /\ doubtful' \subseteq Incident
    BY <1>6, <2>1 DEF CompleteLost, FailLost, Crash, TypeOK, Unasked, Asking
  <2> QED
    BY <1>6, <2>2, <2>3 DEF CompleteLost, FailLost, Crash, TypeOK
<1>7. ASSUME Tick PROVE TypeOK'
  <2>1. delivery' \in [Incident -> DeliveryRow]
    BY <1>7, RowTypes DEF Tick, TypeOK
  <2>2. sender' \in [Worker -> Process]
    BY <1>7 DEF Tick, TypeOK, Process
  <2>3. asked' \in [Incident -> Asking]
    BY <1>7 DEF Tick, TypeOK, Later, Unasked, Asking
  <2> QED
    BY <1>7, <2>1, <2>2, <2>3 DEF Tick, TypeOK
<1>8. CASE UNCHANGED vars
  BY <1>8 DEF vars, TypeOK
<1> QED
  BY <1>1, <1>2, <1>3, <1>4, <1>5, <1>6, <1>7, <1>8 DEF Next, ClaimNext, SendAny

(* A process that starts to send has a delivery, and the clock waits for   *)
(* it.                                                                     *)
LEMMA BusyStep ==
  ASSUME TypeOK, BusyOnClaim, [Next]_vars
  PROVE  BusyOnClaim'
<1>1. ASSUME NEW w \in Worker, NEW i \in Incident, Claim(w, i) PROVE BusyOnClaim'
  BY <1>1 DEF Claim, BusyOnClaim, Busy, TypeOK, Process
<1>2. ASSUME NEW w \in Worker, SendAny(w) PROVE BusyOnClaim'
  BY <1>2 DEF SendAny, Send, BusyOnClaim, Busy, TypeOK, Process
<1>3. ASSUME NEW w \in Worker,
             Complete(w) \/ CompleteLost(w) \/ Fail(w) \/ FailLost(w) \/ Crash(w)
      PROVE  BusyOnClaim'
  BY <1>3 DEF Complete, CompleteLost, FailLost, Crash, Fail, BusyOnClaim, Busy,
              Idle, Down, TypeOK, Process
<1>4. ASSUME Tick PROVE BusyOnClaim'
  BY <1>4 DEF Tick, BusyOnClaim, Busy, TypeOK, Process
<1>5. CASE UNCHANGED vars \/ \E i \in Incident : Register(i)
  BY <1>5 DEF Register, vars, BusyOnClaim, Busy
<1> QED
  BY <1>1, <1>2, <1>3, <1>4, <1>5 DEF Next, ClaimNext

(* The delivery a process settles is the one it holds the lease of: it is  *)
(* being sent, and the process is on its latest claim.                     *)
LEMMA OwnerIsLatest ==
  ASSUME TypeOK, BusyOnClaim, LeaseHolder, NEW w \in Worker, Busy(w), OwnsLease(w)
  PROVE  /\ sender[w].incident \in Incident
         /\ delivery[sender[w].incident].status = "SENDING"
         /\ sender[w].attempt = delivery[sender[w].incident].attempt_count
  BY DEF TypeOK, BusyOnClaim, LeaseHolder, Busy, OwnsLease

(* A process that is not at work holds no lease, unless it died with it.   *)
LEMMA IdleHoldsNothing ==
  ASSUME TypeOK, LeaseHolder, NEW w \in Worker, sender[w].phase = "idle",
         NEW i \in Incident
  PROVE  delivery[i].lease_owner # w
  BY DEF TypeOK, LeaseHolder, Busy

(* What a post changes, for its process and its delivery, and for none     *)
(* else.                                                                   *)
LEMMA SendEffect ==
  ASSUME TypeOK, BusyOnClaim, NEW w \in Worker, NEW kind \in Kind,
         NEW header \in Header \cup {NotANumber}, NEW accepted \in BOOLEAN,
         Send(w, kind, header, accepted)
  PROVE  /\ sender[w].phase = "sending" /\ sender[w].incident \in Incident
         /\ sender'[w].phase = "answered"
         /\ sender'[w].incident = sender[w].incident
         /\ sender'[w].attempt = sender[w].attempt
         /\ sender'[w].elapsed = sender[w].elapsed
         /\ sender'[w].error = ErrorOf(kind)
         /\ kind = "429" => sender'[w].retry_after = RetryAfter(header)
         /\ \A v \in Worker \ {w} : sender'[v] = sender[v]
         /\ \A k \in Incident \ {sender[w].incident} :
              received'[k] = received[k] /\ asked'[k] = asked[k]
         /\ \/ accepted /\ received'[sender[w].incident] = received[sender[w].incident] + 1
            \/ /\ kind # "ok"
               /\ ~accepted /\ received'[sender[w].incident] = received[sender[w].incident]
         /\ accepted /\ kind # "ok" => sender[w].incident \in doubtful'
         /\ doubtful \subseteq doubtful'
         /\ UNCHANGED <<delivery, takeovers>>
<1> DEFINE i == sender[w].incident
<1>1. sender[w].phase = "sending" /\ i \in Incident
  BY DEF Send, BusyOnClaim, Busy
<1>2. /\ sender'[w] = [ phase |-> "answered", incident |-> i,
                        attempt |-> sender[w].attempt, elapsed |-> sender[w].elapsed,
                        error |-> ErrorOf(kind),
                        retry_after |-> IF kind = "429" THEN RetryAfter(header) ELSE 0 ]
      /\ \A v \in Worker \ {w} : sender'[v] = sender[v]
  BY DEF Send, TypeOK
<1>3. CASE accepted
  BY <1>1, <1>2, <1>3 DEF Send, TypeOK
<1>4. CASE ~accepted
  <2>1. kind # "ok"
    BY <1>4 DEF Send, Accepts
  <2> QED
    BY <1>1, <1>2, <1>4, <2>1 DEF Send, TypeOK
<1> QED
  BY <1>3, <1>4

(* What Slack asks for with its answer.                                    *)
LEMMA SendAsks ==
  ASSUME TypeOK, NEW w \in Worker, NEW kind \in Kind,
         NEW header \in Header \cup {NotANumber}, NEW accepted \in BOOLEAN,
         Send(w, kind, header, accepted), sender[w].incident \in Incident
  PROVE  \/ asked'[sender[w].incident] = asked[sender[w].incident]
         \/ /\ kind = "429" /\ header # NotANumber
            /\ \A k \in {sender[w].incident} : Quiet(k)' = Least(header, RetryAfterCap)
<1> DEFINE i == sender[w].incident
<1>1. CASE kind = "429" /\ header # NotANumber
  <2>1. asked'[i] = [ named |-> header, passed |-> 0 ]
    BY <1>1 DEF Send, TypeOK
  <2>2. asked'[i].named = header /\ asked'[i].passed = 0
    BY <2>1
  <2>3. \A k \in {i} : Quiet(k)' = Least(header, RetryAfterCap)
    BY <1>1, <2>2, HeaderAssumption, LimitAssumption DEF Quiet, Least
  <2> QED
    BY <1>1, <2>3
<1>2. CASE ~(kind = "429" /\ header # NotANumber)
  BY <1>2 DEF Send, TypeOK
<1> QED
  BY <1>1, <1>2

(* A post leaves the rows, and its process on its claim.                   *)
LEMMA SendKeeps ==
  ASSUME TypeOK, BusyOnClaim, NEW w \in Worker, SendAny(w)
  PROVE  /\ delivery' = delivery
         /\ Busy(w) /\ Busy(w)'
         /\ sender'[w].incident = sender[w].incident
         /\ sender'[w].attempt = sender[w].attempt
         /\ sender'[w].elapsed = sender[w].elapsed
         /\ \A v \in Worker \ {w} : sender'[v] = sender[v]
<1>1. PICK kind \in Kind, header \in Header \cup {NotANumber}, accepted \in BOOLEAN :
        Send(w, kind, header, accepted)
  BY DEF SendAny
<1> QED
  BY <1>1, SendEffect DEF Busy

LEMMA HolderStep ==
  ASSUME TypeOK, BusyOnClaim, LeaseHolder, [Next]_vars
  PROVE  LeaseHolder'
<1>1. ASSUME NEW i \in Incident, Register(i) PROVE LeaseHolder'
  BY <1>1 DEF Register, NewDelivery, NoDelivery, LeaseHolder, Busy, TypeOK
<1>2. ASSUME NEW w \in Worker, NEW i \in Incident, Claim(w, i) PROVE LeaseHolder'
  <2>1. \A k \in Incident : delivery[k].lease_owner # w
    BY <1>2, IdleHoldsNothing DEF Claim
  <2> QED
    BY <1>2, <2>1 DEF Claim, Leased, LeaseHolder, Busy, TypeOK
<1>3. ASSUME NEW w \in Worker, SendAny(w) PROVE LeaseHolder'
  BY <1>3, SendKeeps DEF LeaseHolder, Busy, TypeOK, DeliveryRow
<1>4. ASSUME NEW w \in Worker, Complete(w) PROVE LeaseHolder'
  BY <1>4, OwnerIsLatest
     DEF Complete, Accepted, Answered, Sent, Idle, LeaseHolder, Busy, TypeOK
<1>5. ASSUME NEW w \in Worker, Fail(w) PROVE LeaseHolder'
  BY <1>5, OwnerIsLatest
     DEF Fail, Answered, Failed, Idle, LeaseHolder, Busy, TypeOK
<1>6. ASSUME NEW w \in Worker, FailLost(w) PROVE LeaseHolder'
  <2>1. \A k \in Incident : delivery[k].lease_owner # w
    BY <1>6 DEF FailLost, Answered, OwnsLease, LeaseHolder, Busy, TypeOK
  <2> QED
    BY <1>6, <2>1 DEF FailLost, LeaseHolder, Busy, TypeOK
<1>7. ASSUME NEW w \in Worker, CompleteLost(w) \/ Crash(w) PROVE LeaseHolder'
  <2>1. sender' = [sender EXCEPT ![w] = Down] /\ delivery' = delivery
    BY <1>7 DEF CompleteLost, Crash
  <2>2. Down.phase = "down"
    BY DEF Down, Idle
  <2> QED
    BY <2>1, <2>2 DEF LeaseHolder, Busy, TypeOK, DeliveryRow
<1>8. ASSUME Tick PROVE LeaseHolder'
  <2> SUFFICES ASSUME NEW i \in Incident, NEW w, w = delivery[i].lease_owner
               PROVE  /\ w # None <=> delivery'[i].status = "SENDING"
                      /\ w # None =>
                           \/ sender'[w].phase = "down"
                           \/ /\ Busy(w)'
                              /\ sender'[w].incident = i
                              /\ sender'[w].attempt = delivery'[i].attempt_count
    BY <1>8, TickKeeps DEF LeaseHolder
  <2>1. w # None <=> delivery[i].status = "SENDING"
    BY DEF LeaseHolder
  <2>2. CASE w # None
    <3>1. w \in Worker
      BY <2>2 DEF TypeOK, DeliveryRow
    <3>2. \/ sender[w].phase = "down"
          \/ Busy(w) /\ sender[w].incident = i /\ sender[w].attempt = delivery[i].attempt_count
      BY <2>2 DEF LeaseHolder
    <3> QED
      BY <1>8, <2>1, <3>1, <3>2, TickKeeps DEF Busy
  <2> QED
    BY <1>8, <2>1, <2>2, TickKeeps
<1>9. CASE UNCHANGED vars
  BY <1>9 DEF vars, LeaseHolder, Busy
<1> QED
  BY <1>1, <1>2, <1>3, <1>4, <1>5, <1>6, <1>7, <1>8, <1>9 DEF Next, ClaimNext

(* RetryBudget: fail counts, and a takeover is recorded as one.            *)
LEMMA AttemptsStep ==
  ASSUME TypeOK, BusyOnClaim, LeaseHolder, RetryBudget, ClaimsCounted, [Next]_vars
  PROVE  RetryBudget' /\ ClaimsCounted'
<1> DEFINE Goal == RetryBudget /\ ClaimsCounted
<1>1. ASSUME NEW i \in Incident, Register(i) PROVE Goal'
  BY <1>1 DEF Register, NewDelivery, NoDelivery, RetryBudget, ClaimsCounted, TypeOK
<1>2. ASSUME NEW w \in Worker, NEW i \in Incident, Claim(w, i) PROVE Goal'
  BY <1>2 DEF Claim, Claimable, LeaseExpired, Leased, RetryBudget, ClaimsCounted,
              TypeOK, DeliveryRow
<1>3. ASSUME NEW w \in Worker, Complete(w) PROVE Goal'
  BY <1>3, OwnerIsLatest DEF Complete, Accepted, Answered, Busy, Sent, RetryBudget,
              ClaimsCounted, TypeOK, DeliveryRow
<1>4. ASSUME NEW w \in Worker, Fail(w) PROVE Goal'
  <2> DEFINE i == sender[w].incident
             row == Failed(i, sender[w].error, Delay(w))
  <2>1. i \in Incident /\ delivery[i].status = "SENDING" /\ sender[w].error \in Code
    BY <1>4, OwnerIsLatest DEF Fail, Answered, Busy, TypeOK, Process
  <2>2. delivery' = [delivery EXCEPT ![i] = row] /\ takeovers' = takeovers
    BY <1>4 DEF Fail
  <2>3. /\ row.status = "PENDING" => row.attempt_count < MaxAttempts
        /\ row.attempt_count = delivery[i].attempt_count
        /\ row.status # "SENDING"
        /\ row.status = "DEAD" =>
             \/ row.last_error_code \in
                  {"SLACK_REJECTED", "SLACK_INVALID_RESPONSE", "SLACK_NOT_CONFIGURED"}
             \/ row.attempt_count >= MaxAttempts
    BY <2>1 DEF Failed, ShouldRetry, Retryable, Code, TypeOK, DeliveryRow
  <2> HIDE DEF row
  <2> QED
    BY <2>1, <2>2, <2>3 DEF RetryBudget, ClaimsCounted, TypeOK
<1>5. ASSUME NEW w \in Worker, CompleteLost(w) \/ FailLost(w) \/ Crash(w) \/ SendAny(w)
      PROVE  Goal'
  BY <1>5 DEF CompleteLost, FailLost, Crash, SendAny, Send, RetryBudget, ClaimsCounted
<1>6. ASSUME Tick PROVE Goal'
  BY <1>6, TickKeeps DEF RetryBudget, ClaimsCounted
<1>7. CASE UNCHANGED vars
  BY <1>7 DEF vars, RetryBudget, ClaimsCounted
<1> QED
  BY <1>1, <1>2, <1>3, <1>4, <1>5, <1>6, <1>7 DEF Next, ClaimNext

(* A lease runs no faster than the send of its holder.                     *)
LEMMA ClockStep ==
  ASSUME TypeOK, BusyOnClaim, LeaseClock, [Next]_vars
  PROVE  LeaseClock'
<1>1. ASSUME NEW i \in Incident, Register(i) PROVE LeaseClock'
  BY <1>1 DEF Register, NewDelivery, NoDelivery, LeaseClock, BusyOnClaim, OwnsLease,
              Busy, TypeOK
<1>2. ASSUME NEW w \in Worker, NEW i \in Incident, Claim(w, i) PROVE LeaseClock'
  BY <1>2 DEF Claim, Leased, LeaseClock, BusyOnClaim, OwnsLease, Busy, TypeOK
<1>3. ASSUME NEW w \in Worker, SendAny(w) PROVE LeaseClock'
  BY <1>3, SendKeeps DEF LeaseClock, OwnsLease, Busy
<1>4. ASSUME NEW w \in Worker, Complete(w) PROVE LeaseClock'
  BY <1>4 DEF Complete, Sent, Idle, LeaseClock, BusyOnClaim, OwnsLease, Busy, TypeOK
<1>5. ASSUME NEW w \in Worker, Fail(w) PROVE LeaseClock'
  BY <1>5 DEF Fail, Failed, Idle, LeaseClock, BusyOnClaim, OwnsLease, Busy, TypeOK
<1>6. ASSUME NEW w \in Worker, CompleteLost(w) \/ FailLost(w) \/ Crash(w) PROVE LeaseClock'
  BY <1>6 DEF CompleteLost, FailLost, Crash, Idle, Down, LeaseClock, OwnsLease, Busy, TypeOK
<1>7. ASSUME Tick PROVE LeaseClock'
  <2>1. ASSUME NEW w \in Worker, Busy(w)', OwnsLease(w)'
        PROVE  delivery'[sender'[w].incident].lease_until
                 >= LeaseSeconds - sender'[w].elapsed
    <3> DEFINE i == sender[w].incident
    <3>1. Busy(w) /\ OwnsLease(w) /\ sender'[w].incident = i /\ i \in Incident
      BY <1>7, <2>1, TickKeeps DEF Busy, OwnsLease, BusyOnClaim
    <3>2. sender'[w].elapsed = sender[w].elapsed + 1 /\ sender[w].elapsed \in Nat
      BY <1>7, <3>1, TickKeeps DEF TypeOK, Process
    <3>3. delivery[i].lease_until >= LeaseSeconds - sender[w].elapsed
      BY <3>1 DEF LeaseClock
    <3>4. /\ delivery'[i] = Aged(delivery[i]) /\ delivery[i] \in DeliveryRow
          /\ delivery[i].lease_owner # None
      BY <1>7, <3>1, TickKeeps DEF TypeOK, OwnsLease
    <3>5. /\ delivery'[i].lease_until >= delivery[i].lease_until - 1
          /\ delivery[i].lease_until \in Int
          /\ delivery'[i].lease_until \in Int
      BY <3>4 DEF Aged, Earlier, DeliveryRow
    <3> QED
      BY <3>1, <3>2, <3>3, <3>5
  <2> QED
    BY <2>1 DEF LeaseClock
<1>8. CASE UNCHANGED vars
  BY <1>8 DEF vars, LeaseClock, OwnsLease, Busy
<1> QED
  BY <1>1, <1>2, <1>3, <1>4, <1>5, <1>6, <1>7, <1>8 DEF Next, ClaimNext

(* Where sends fit in the lease, a delivery that can be claimed has no     *)
(* busy holder.                                                            *)
LEMMA ClaimableIsFree ==
  ASSUME TypeOK, BusyOnClaim, LeaseHolder, LeaseClock, Bounded,
         NEW w \in Worker, Busy(w), OwnsLease(w)
  PROVE  ~Claimable(sender[w].incident)
<1> DEFINE i == sender[w].incident
<1>1. i \in Incident /\ delivery[i].status = "SENDING"
  BY OwnerIsLatest
<1>2. sender[w].elapsed \in Nat /\ sender[w].elapsed <= SendBound
  BY DEF BusyOnClaim, TypeOK, Process
<1>3. /\ delivery[i].lease_until \in Int
      /\ delivery[i].lease_until >= LeaseSeconds - sender[w].elapsed
  BY <1>1 DEF LeaseClock, TypeOK, DeliveryRow
<1> QED
  BY <1>1, <1>2, <1>3 DEF Claimable, LeaseExpired, Bounded

LEMMA OvertakenStep ==
  ASSUME TypeOK, BusyOnClaim, LeaseHolder, LeaseClock, NeverOvertaken, [Next]_vars
  PROVE  NeverOvertaken'
<1> SUFFICES ASSUME Bounded
             PROVE  (\A w \in Worker : Busy(w) => OwnsLease(w))'
  BY DEF NeverOvertaken, Bounded
<1>0. \A w \in Worker : Busy(w) => OwnsLease(w) /\ sender[w].incident \in Incident
  BY DEF NeverOvertaken, BusyOnClaim
<1>1. ASSUME NEW i \in Incident, Register(i)
      PROVE  (\A w \in Worker : Busy(w) => OwnsLease(w))'
  <2>1. \A w \in Worker : Busy(w) => sender[w].incident # i
    BY <1>0, <1>1, OwnerIsLatest DEF Register
  <2> QED
    BY <1>0, <1>1, <2>1 DEF Register, OwnsLease, Busy, TypeOK
<1>2. ASSUME NEW w \in Worker, NEW i \in Incident, Claim(w, i)
      PROVE  (\A v \in Worker : Busy(v) => OwnsLease(v))'
  <2>1. \A v \in Worker : Busy(v) => sender[v].incident # i
    BY <1>0, <1>2, ClaimableIsFree DEF Claim
  <2> QED
    BY <1>0, <1>2, <2>1 DEF Claim, Leased, OwnsLease, Busy, TypeOK
<1>3. ASSUME NEW w \in Worker, SendAny(w)
      PROVE  (\A v \in Worker : Busy(v) => OwnsLease(v))'
  BY <1>0, <1>3, SendKeeps DEF OwnsLease, Busy
<1>4. ASSUME NEW w \in Worker, Complete(w)
      PROVE  (\A v \in Worker : Busy(v) => OwnsLease(v))'
  BY <1>0, <1>4 DEF Complete, Accepted, Answered, Idle, OwnsLease, Busy, TypeOK
<1>5. ASSUME NEW w \in Worker, Fail(w)
      PROVE  (\A v \in Worker : Busy(v) => OwnsLease(v))'
  BY <1>0, <1>5 DEF Fail, Answered, Idle, OwnsLease, Busy, TypeOK
<1>6. ASSUME NEW w \in Worker, CompleteLost(w) \/ FailLost(w) \/ Crash(w)
      PROVE  (\A v \in Worker : Busy(v) => OwnsLease(v))'
  BY <1>0, <1>6 DEF CompleteLost, FailLost, Crash, Idle, Down, OwnsLease, Busy, TypeOK
<1>7. ASSUME Tick PROVE (\A w \in Worker : Busy(w) => OwnsLease(w))'
  BY <1>0, <1>7, TickKeeps DEF OwnsLease, Busy
<1>8. CASE UNCHANGED vars
  BY <1>0, <1>8 DEF vars, OwnsLease, Busy
<1> QED
  BY <1>1, <1>2, <1>3, <1>4, <1>5, <1>6, <1>7, <1>8 DEF Next, ClaimNext

(* Only an ok body leaves a process without an error, and only such a      *)
(* process marks its delivery SENT.                                        *)
LEMMA ReceivedStep ==
  ASSUME TypeOK, BusyOnClaim, AcceptedIsReceived, SentMeansReceived, [Next]_vars
  PROVE  AcceptedIsReceived' /\ SentMeansReceived'
<1> DEFINE Goal == AcceptedIsReceived /\ SentMeansReceived
<1>0. \A w \in Worker : Accepted(w) => sender[w].incident \in Incident
  BY DEF Accepted, Answered, BusyOnClaim, Busy
<1>1. ASSUME NEW i \in Incident, Register(i) PROVE Goal'
  BY <1>1 DEF Register, NewDelivery, NoDelivery, AcceptedIsReceived, SentMeansReceived,
              Accepted, Answered, TypeOK
<1>2. ASSUME NEW w \in Worker, NEW i \in Incident, Claim(w, i) PROVE Goal'
  BY <1>2 DEF Claim, Leased, AcceptedIsReceived, SentMeansReceived, Accepted, Answered, TypeOK
<1>3. ASSUME NEW w \in Worker, NEW kind \in Kind, NEW header \in Header \cup {NotANumber},
             NEW accepted \in BOOLEAN, Send(w, kind, header, accepted)
      PROVE  Goal'
  <2>1. \A k \in Incident : received[k] \in Nat /\ received'[k] >= received[k]
    BY <1>3, SendEffect DEF TypeOK
  <2>2. sender'[w].error = None => received'[sender[w].incident] > 0
    BY <1>3, SendEffect, ErrorTypes DEF TypeOK
  <2>3. SentMeansReceived'
    BY <1>3, <2>1 DEF Send, SentMeansReceived
  <2>4. \A v \in Worker \ {w} : Accepted(v)' => received'[sender'[v].incident] > 0
    BY <1>0, <1>3, <2>1, SendEffect DEF AcceptedIsReceived, Accepted, Answered
  <2>5. Accepted(w)' => received'[sender'[w].incident] > 0
    BY <1>3, <2>2, SendEffect DEF Accepted
  <2> QED
    BY <2>3, <2>4, <2>5 DEF AcceptedIsReceived
<1>4. ASSUME NEW w \in Worker, Complete(w) PROVE Goal'
  BY <1>0, <1>4 DEF Complete, Sent, Idle, AcceptedIsReceived, SentMeansReceived, Accepted,
                    Answered, TypeOK
<1>5. ASSUME NEW w \in Worker, Fail(w) PROVE Goal'
  <2>1. /\ sender' = [sender EXCEPT ![w] = Idle] /\ received' = received
        /\ delivery' = [delivery EXCEPT ![sender[w].incident] =
                          Failed(sender[w].incident, sender[w].error, Delay(w))]
    BY <1>5 DEF Fail
  <2>2. Failed(sender[w].incident, sender[w].error, Delay(w)).status # "SENT"
    BY DEF Failed
  <2>3. Idle.phase = "idle"
    BY DEF Idle
  <2>4. SentMeansReceived'
    BY <2>1, <2>2 DEF SentMeansReceived, TypeOK
  <2>5. AcceptedIsReceived'
    BY <2>1, <2>3 DEF AcceptedIsReceived, Accepted, Answered, TypeOK
  <2> QED
    BY <2>4, <2>5
<1>6. ASSUME NEW w \in Worker, CompleteLost(w) \/ FailLost(w) \/ Crash(w) PROVE Goal'
  BY <1>6 DEF CompleteLost, FailLost, Crash, Idle, Down, AcceptedIsReceived,
              SentMeansReceived, Accepted, Answered, TypeOK
<1>7. ASSUME Tick PROVE Goal'
  BY <1>7, TickKeeps DEF AcceptedIsReceived, SentMeansReceived, Accepted, Answered
<1>8. CASE UNCHANGED vars
  BY <1>8 DEF vars, AcceptedIsReceived, SentMeansReceived, Accepted, Answered
<1> QED
  BY <1>1, <1>2, <1>3, <1>4, <1>5, <1>6, <1>7, <1>8 DEF Next, ClaimNext, SendAny

(* No row becomes ABSENT again, and only a claim starts a send.            *)
LEMMA RegisteredStep ==
  ASSUME TypeOK, BusyOnClaim, LeaseHolder, RegisteredFirst, [Next]_vars
  PROVE  RegisteredFirst'
<1>1. ASSUME NEW i \in Incident, Register(i) PROVE RegisteredFirst'
  BY <1>1 DEF Register, NewDelivery, NoDelivery, RegisteredFirst, Busy, TypeOK
<1>2. ASSUME NEW w \in Worker, NEW i \in Incident, Claim(w, i) PROVE RegisteredFirst'
  BY <1>2 DEF Claim, Claimable, LeaseExpired, Leased, RegisteredFirst, Busy, TypeOK
<1>3. ASSUME NEW w \in Worker, NEW kind \in Kind, NEW header \in Header \cup {NotANumber},
             NEW accepted \in BOOLEAN, Send(w, kind, header, accepted)
      PROVE  RegisteredFirst'
  <2>1. /\ delivery' = delivery /\ Busy(w) /\ sender'[w].incident = sender[w].incident
        /\ \A v \in Worker \ {w} : sender'[v] = sender[v]
        /\ \A k \in Incident : k # sender[w].incident => received'[k] = received[k]
    BY <1>3, SendEffect DEF Send, Busy, TypeOK
  <2> QED
    BY <2>1 DEF RegisteredFirst, Busy
<1>4. ASSUME NEW w \in Worker, Complete(w) PROVE RegisteredFirst'
  BY <1>4 DEF Complete, Accepted, Answered, Sent, Idle, RegisteredFirst, Busy, TypeOK
<1>5. ASSUME NEW w \in Worker, Fail(w) PROVE RegisteredFirst'
  <2>1. /\ sender' = [sender EXCEPT ![w] = Idle] /\ received' = received
        /\ delivery' = [delivery EXCEPT ![sender[w].incident] =
                          Failed(sender[w].incident, sender[w].error, Delay(w))]
    BY <1>5 DEF Fail
  <2>2. Failed(sender[w].incident, sender[w].error, Delay(w)).status # "ABSENT"
    BY DEF Failed
  <2>3. Idle.phase = "idle"
    BY DEF Idle
  <2> QED
    BY <2>1, <2>2, <2>3 DEF RegisteredFirst, Busy, TypeOK
<1>6. ASSUME NEW w \in Worker, CompleteLost(w) \/ FailLost(w) \/ Crash(w)
      PROVE  RegisteredFirst'
  BY <1>6 DEF CompleteLost, FailLost, Crash, Idle, Down, RegisteredFirst, Busy, TypeOK
<1>7. ASSUME Tick PROVE RegisteredFirst'
  BY <1>7, TickKeeps DEF RegisteredFirst, Busy, Tick
<1>8. CASE UNCHANGED vars
  BY <1>8 DEF vars, RegisteredFirst, Busy
<1> QED
  BY <1>1, <1>2, <1>3, <1>4, <1>5, <1>6, <1>7, <1>8 DEF Next, ClaimNext, SendAny

(* Where sends fit in the lease, a busy process is alone on its delivery,  *)
(* which is being sent.                                                    *)
LEMMA AloneOnDelivery ==
  ASSUME TypeOK, BusyOnClaim, LeaseHolder, NeverOvertaken, Bounded,
         NEW w \in Worker, Busy(w)
  PROVE  /\ OwnsLease(w)
         /\ sender[w].incident \in Incident
         /\ delivery[sender[w].incident].status = "SENDING"
         /\ \A v \in Worker : Busy(v) /\ sender[v].incident = sender[w].incident => v = w
<1>1. \A v \in Worker : Busy(v) => OwnsLease(v)
  BY DEF NeverOvertaken
<1> QED
  BY <1>1, OwnerIsLatest DEF OwnsLease

(* Every receipt is accounted for: a second post needs a receipt that no   *)
(* process could record.                                                   *)
LEMMA ReceiptStep ==
  ASSUME TypeOK, BusyOnClaim, LeaseHolder, NeverOvertaken, AcceptedIsReceived,
         ReceiptAccounted, [Next]_vars
  PROVE  ReceiptAccounted'
<1> DEFINE Fine(k) ==
      received[k] > 0 =>
        \/ k \in doubtful
        \/ /\ received[k] = 1
           /\ \/ delivery[k].status = "SENT"
              \/ \E w \in Worker : Accepted(w) /\ sender[w].incident = k
<1> SUFFICES ASSUME Bounded, NEW k \in Incident PROVE Fine(k)'
  BY DEF ReceiptAccounted, Bounded
<1>0. Fine(k)
  BY DEF ReceiptAccounted
<1>1. ASSUME NEW i \in Incident, Register(i) PROVE Fine(k)'
  BY <1>0, <1>1 DEF Register, Accepted, Answered, TypeOK
<1>2. ASSUME NEW w \in Worker, NEW i \in Incident, Claim(w, i) PROVE Fine(k)'
  <2>1. \A v \in Worker : Accepted(v) => v # w /\ sender'[v] = sender[v]
    BY <1>2 DEF Claim, Accepted, Answered, TypeOK
  <2>2. delivery[k].status = "SENT" => delivery'[k].status = "SENT"
    BY <1>2 DEF Claim, Claimable, LeaseExpired, TypeOK
  <2> QED
    BY <1>0, <1>2, <2>1, <2>2 DEF Claim, Accepted, Answered
<1>3. ASSUME NEW w \in Worker, NEW kind \in Kind, NEW header \in Header \cup {NotANumber},
             NEW accepted \in BOOLEAN, Send(w, kind, header, accepted)
      PROVE  Fine(k)'
  <2>0. sender[w].phase = "sending" /\ Busy(w)
    BY <1>3, SendEffect DEF Busy
  <2>5. /\ sender'[w].phase = "answered"
        /\ sender'[w].incident = sender[w].incident
        /\ sender'[w].error = ErrorOf(kind)
        /\ doubtful \subseteq doubtful'
        /\ delivery' = delivery
        /\ \A v \in Worker \ {w} : sender'[v] = sender[v]
    BY <1>3, SendEffect
  <2>1. CASE k = sender[w].incident
    <3>1. delivery[k].status # "SENT" /\ ~\E v \in Worker : Accepted(v) /\ sender[v].incident = k
      BY <2>0, <2>1, AloneOnDelivery DEF Accepted, Answered, Busy
    <3>2. received[k] = 0 \/ k \in doubtful
      BY <1>0, <3>1 DEF TypeOK
    <3>3. CASE accepted /\ kind = "ok"
      <4>1. Accepted(w)' /\ sender'[w].incident = k
        BY <2>1, <2>5, <3>3, ErrorTypes DEF Accepted, Answered
      <4>2. received'[k] = received[k] + 1
        BY <1>3, <2>1, <3>3, SendEffect
      <4> QED
        BY <2>5, <3>2, <4>1, <4>2
    <3>4. CASE accepted /\ kind # "ok"
      <4>1. doubtful' = doubtful \cup {k}
        BY <1>3, <2>1, <3>4 DEF Send
      <4> QED
        BY <4>1
    <3>5. CASE ~accepted
      <4>1. received'[k] = received[k]
        BY <1>3, <2>1, <3>5, SendEffect
      <4> QED
        BY <2>5, <3>2, <4>1
    <3> QED
      BY <3>3, <3>4, <3>5
  <2>2. CASE k # sender[w].incident
    <3>1. received'[k] = received[k]
      BY <1>3, <2>2, SendEffect
    <3> QED
      BY <1>0, <2>2, <2>5, <3>1 DEF Accepted, Answered
  <2> QED
    BY <2>1, <2>2
<1>4. ASSUME NEW w \in Worker, Complete(w) PROVE Fine(k)'
  <2>1. Accepted(w) /\ sender[w].incident \in Incident
    BY <1>4, AloneOnDelivery DEF Complete, Accepted, Answered, Busy
  <2>2. /\ delivery' = [delivery EXCEPT ![sender[w].incident] = Sent(sender[w].incident)]
        /\ received' = received /\ doubtful' = doubtful
        /\ \A v \in Worker \ {w} : sender'[v] = sender[v]
    BY <1>4 DEF Complete, TypeOK
  <2>3. CASE k = sender[w].incident
    <3>1. delivery'[k].status = "SENT"
      BY <2>1, <2>2, <2>3 DEF Sent, TypeOK
    <3>2. received[k] > 0 => k \in doubtful \/ received[k] = 1
      BY <1>0
    <3> QED
      BY <2>2, <3>1, <3>2
  <2>4. CASE k # sender[w].incident
    <3>1. delivery'[k] = delivery[k]
      BY <2>2, <2>4 DEF TypeOK
    <3> QED
      BY <1>0, <2>2, <2>4, <3>1 DEF Accepted, Answered
  <2> QED
    BY <2>3, <2>4
<1>5. ASSUME NEW w \in Worker, Fail(w) PROVE Fine(k)'
  <2>1. Busy(w) /\ ~Accepted(w) /\ OwnsLease(w)
    BY <1>5 DEF Fail, Accepted, Answered, Busy
  <2>2. delivery[k].status = "SENT" => delivery'[k] = delivery[k]
    BY <1>5, <2>1, OwnerIsLatest DEF Fail, TypeOK
  <2>3. \A v \in Worker : Accepted(v) => sender'[v] = sender[v]
    BY <1>5, <2>1 DEF Fail, TypeOK
  <2>4. received' = received /\ doubtful' = doubtful
    BY <1>5 DEF Fail
  <2> QED
    BY <1>0, <2>2, <2>3, <2>4 DEF Accepted, Answered
<1>6. ASSUME NEW w \in Worker, CompleteLost(w) \/ FailLost(w) \/ Crash(w) PROVE Fine(k)'
  <2>1. /\ delivery' = delivery /\ received' = received
        /\ \A v \in Worker \ {w} : sender'[v] = sender[v]
        /\ doubtful \subseteq doubtful'
        /\ Accepted(w) => sender[w].incident \in doubtful'
    BY <1>6 DEF CompleteLost, FailLost, Crash, Accepted, TypeOK
  <2> QED
    BY <1>0, <2>1 DEF Accepted, Answered
<1>7. ASSUME Tick PROVE Fine(k)'
  <2>1. \A v \in Worker : Accepted(v)' = Accepted(v) /\ sender'[v].incident = sender[v].incident
    BY <1>7, TickKeeps DEF Accepted, Answered
  <2> QED
    BY <1>0, <1>7, <2>1, TickKeeps
<1>8. CASE UNCHANGED vars
  BY <1>0, <1>8 DEF vars, Accepted, Answered
<1> QED
  BY <1>1, <1>2, <1>3, <1>4, <1>5, <1>6, <1>7, <1>8 DEF Next, ClaimNext, SendAny

(* What is left of a Retry-After is a number.                              *)
LEMMA QuietIs ==
  ASSUME TypeOK, NEW i \in Incident
  PROVE  Quiet(i) \in Int
  BY HeaderAssumption, LimitAssumption DEF TypeOK, Asking, Quiet, Least

(* With the passing of time less is left of it, a tick for each tick.      *)
LEMMA QuietTick ==
  ASSUME TypeOK, Tick, NEW i \in Incident, Quiet(i)' > 0
  PROVE  Quiet(i) > 0 /\ Quiet(i)' = Quiet(i) - 1
<1>1. asked'[i] = Later(asked[i]) /\ asked[i] \in Asking
  BY DEF Tick, TypeOK
<1>2. CASE asked[i].passed + 1 < asked[i].named
  <2>1. asked'[i].named = asked[i].named /\ asked'[i].passed = asked[i].passed + 1
    BY <1>1, <1>2 DEF Later, Asking
  <2> QED
    BY <1>1, <2>1, LimitAssumption DEF Quiet, Least, Asking
<1>3. CASE ~(asked[i].passed + 1 < asked[i].named)
  <2>1. asked'[i] = Unasked
    BY <1>1, <1>3 DEF Later
  <2> QED
    BY <2>1, LimitAssumption DEF Quiet, Least, Unasked
<1> QED
  BY <1>2, <1>3

(* Nothing is being posted for an incident before its Retry-After is over. *)
LEMMA SendingIsQuiet ==
  ASSUME TypeOK, BusyOnClaim, LeaseHolder, NeverOvertaken, RetryAfterKept, Bounded,
         NEW w \in Worker, sender[w].phase = "sending" \/ Accepted(w)
  PROVE  Quiet(sender[w].incident) <= 0
<1> DEFINE i == sender[w].incident
<1>1. /\ Busy(w) /\ i \in Incident /\ delivery[i].status = "SENDING"
      /\ \A v \in Worker : Busy(v) /\ sender[v].incident = i => v = w
  BY AloneOnDelivery DEF Busy, Accepted, Answered
<1>2. ~\E v \in Worker : Answered(v) /\ sender[v].error # None /\ sender[v].incident = i
  BY <1>1 DEF Answered, Accepted, Busy
<1>3. Quiet(i) \in Int
  BY <1>1, QuietIs
<1> QED
  BY <1>1, <1>2, <1>3 DEF RetryAfterKept

(* A time that Slack named travels, cut to the cap, from the answer into   *)
(* the row.                                                                *)
LEMMA RetryAfterStep ==
  ASSUME TypeOK, BusyOnClaim, LeaseHolder, NeverOvertaken, RetryAfterKept, [Next]_vars
  PROVE  RetryAfterKept'
<1> DEFINE With(v, k) == /\ Answered(v)
                         /\ sender[v].error # None
                         /\ sender[v].incident = k
                         /\ sender[v].retry_after >= Quiet(k)
           Kept(k) == Quiet(k) > 0 =>
                        \/ delivery[k].status = "DEAD"
                        \/ delivery[k].status = "PENDING" /\ delivery[k].available_at >= Quiet(k)
                        \/ \E v \in Worker : With(v, k)
<1> SUFFICES ASSUME Bounded, NEW k \in Incident PROVE Kept(k)'
  BY DEF RetryAfterKept, Bounded
<1>0. Kept(k) /\ Quiet(k) \in Int /\ delivery[k] \in DeliveryRow
  BY QuietIs DEF RetryAfterKept, TypeOK
<1>q. asked'[k] = asked[k] => Quiet(k)' = Quiet(k)
  BY DEF Quiet, Least
<1>u. asked'[k] = Unasked => Quiet(k)' = 0
  BY LimitAssumption DEF Quiet, Least, Unasked
<1>s. ASSUME delivery'[k] = delivery[k], asked'[k] = asked[k],
             \A v \in Worker : With(v, k) => sender'[v] = sender[v]
      PROVE  Kept(k)'
  BY <1>0, <1>s, <1>q DEF Answered
<1>1. ASSUME NEW i \in Incident, Register(i) PROVE Kept(k)'
  <2>1. CASE k # i
    BY <1>1, <1>s, <2>1 DEF Register, TypeOK
  <2>2. CASE k = i
    <3>1. delivery[k].status = "ABSENT" /\ sender' = sender /\ asked' = asked
      BY <1>1, <2>2 DEF Register
    <3> QED
      BY <1>0, <1>q, <3>1 DEF Answered
  <2> QED
    BY <2>1, <2>2
<1>2. ASSUME NEW w \in Worker, NEW i \in Incident, Claim(w, i) PROVE Kept(k)'
  <2>1. asked' = asked /\ \A v \in Worker : Answered(v) => sender'[v] = sender[v]
    BY <1>2 DEF Claim, Answered, TypeOK
  <2>2. CASE k # i
    <3>1. delivery'[k] = delivery[k]
      BY <1>2, <2>2 DEF Claim, TypeOK
    <3> QED
      BY <1>s, <2>1, <3>1
  <2>3. CASE k = i
    <3>1. delivery[k].status # "DEAD" /\ delivery[k].available_at <= 0
      BY <1>2, <2>3 DEF Claim, Claimable, LeaseExpired
    <3>2. delivery[k].available_at \in Int
      BY <1>0 DEF DeliveryRow
    <3> QED
      BY <1>0, <1>q, <2>1, <3>1, <3>2 DEF Answered
  <2> QED
    BY <2>2, <2>3
<1>3. ASSUME NEW w \in Worker, NEW kind \in Kind, NEW header \in Header \cup {NotANumber},
             NEW accepted \in BOOLEAN, Send(w, kind, header, accepted)
      PROVE  Kept(k)'
  <2>0. /\ sender[w].phase = "sending" /\ sender'[w].phase = "answered"
        /\ sender'[w].incident = sender[w].incident
        /\ sender'[w].error = ErrorOf(kind)
        /\ kind = "429" => sender'[w].retry_after = RetryAfter(header)
        /\ \A v \in Worker \ {w} : sender'[v] = sender[v]
        /\ delivery' = delivery
    BY <1>3, SendEffect
  <2>1. CASE k # sender[w].incident
    <3>1. asked'[k] = asked[k]
      BY <1>3, <2>1, SendEffect
    <3> QED
      BY <1>s, <2>0, <2>1, <3>1 DEF Answered
  <2>2. CASE k = sender[w].incident
    <3>1. Quiet(k) <= 0
      BY <2>0, <2>2, SendingIsQuiet
    <3>2. \/ asked'[k] = asked[k]
          \/ kind = "429" /\ header # NotANumber /\ Quiet(k)' = Least(header, RetryAfterCap)
      BY <1>3, <2>2, SendAsks
    <3>3. CASE asked'[k] = asked[k]
      BY <1>0, <1>q, <3>1, <3>3
    <3>4. CASE kind = "429" /\ header # NotANumber /\ Quiet(k)' = Least(header, RetryAfterCap)
      <4>1. sender'[w].retry_after >= Quiet(k)'
        BY <2>0, <3>4, RetryAfterBounds
      <4>2. sender'[w].error # None
        BY <2>0, <3>4, ErrorTypes
      <4>3. With(w, k)'
        BY <2>0, <2>2, <4>1, <4>2 DEF Answered
      <4> QED
        BY <4>3
    <3> QED
      BY <3>2, <3>3, <3>4
  <2> QED
    BY <2>1, <2>2
<1>4. ASSUME NEW w \in Worker, Complete(w) PROVE Kept(k)'
  <2>0. /\ Accepted(w)
        /\ delivery' = [delivery EXCEPT ![sender[w].incident] = Sent(sender[w].incident)]
        /\ asked' = asked
        /\ \A v \in Worker \ {w} : sender'[v] = sender[v]
    BY <1>4 DEF Complete, TypeOK
  <2>1. CASE k # sender[w].incident
    <3>1. delivery'[k] = delivery[k]
      BY <2>0, <2>1 DEF TypeOK
    <3> QED
      BY <1>s, <2>0, <2>1, <3>1
  <2>2. CASE k = sender[w].incident
    <3>1. Quiet(k) <= 0
      BY <2>0, <2>2, SendingIsQuiet
    <3> QED
      BY <1>0, <1>q, <2>0, <3>1
  <2> QED
    BY <2>1, <2>2
<1>5. ASSUME NEW w \in Worker, Fail(w) PROVE Kept(k)'
  <2> DEFINE i == sender[w].incident
             row == Failed(i, sender[w].error, Delay(w))
  <2>0. /\ Busy(w)
        /\ delivery' = [delivery EXCEPT ![i] = row]
        /\ asked' = asked
        /\ \A v \in Worker \ {w} : sender'[v] = sender[v]
    BY <1>5 DEF Fail, Answered, Busy, TypeOK
  <2>1. CASE k # i
    <3>1. delivery'[k] = delivery[k]
      BY <2>0, <2>1 DEF TypeOK
    <3> QED
      BY <1>s, <2>0, <2>1, <3>1
  <2>2. CASE k = i
    <3>1. /\ delivery[k].status = "SENDING"
          /\ \A v \in Worker : Busy(v) /\ sender[v].incident = k => v = w
      BY <2>0, <2>2, AloneOnDelivery
    <3>2. Quiet(k) > 0 => With(w, k)
      BY <1>0, <3>1 DEF Answered, Busy
    <3>3. Quiet(k) > 0 => Delay(w) = sender[w].retry_after
      BY <1>0, <3>2 DEF Delay
    <3>4. delivery'[k] = row /\ row.status \in {"PENDING", "DEAD"} /\ row.available_at = Delay(w)
      BY <2>0, <2>2 DEF Failed, TypeOK
    <3> HIDE DEF row
    <3> QED
      BY <1>q, <2>0, <3>2, <3>3, <3>4
  <2> QED
    BY <2>1, <2>2
<1>6. ASSUME NEW w \in Worker, CompleteLost(w) \/ FailLost(w) PROVE Kept(k)'
  BY <1>6, AloneOnDelivery DEF CompleteLost, FailLost, Accepted, Answered, Busy
<1>7. ASSUME NEW w \in Worker, Crash(w) PROVE Kept(k)'
  <2>0. /\ delivery' = delivery
        /\ asked' = IF Answered(w) THEN [asked EXCEPT ![sender[w].incident] = Unasked] ELSE asked
        /\ \A v \in Worker \ {w} : sender'[v] = sender[v]
    BY <1>7 DEF Crash, TypeOK
  <2>1. CASE Answered(w) /\ k = sender[w].incident
    <3>1. Quiet(k)' = 0
      BY <1>u, <2>0, <2>1 DEF TypeOK
    <3> QED
      BY <3>1
  <2>2. CASE ~(Answered(w) /\ k = sender[w].incident)
    <3>1. asked'[k] = asked[k]
      BY <2>0, <2>2 DEF TypeOK
    <3>2. \A v \in Worker : With(v, k) => sender'[v] = sender[v]
      BY <2>0, <2>2
    <3> QED
      BY <1>s, <2>0, <3>1, <3>2
  <2> QED
    BY <2>1, <2>2
<1>8. ASSUME Tick PROVE Kept(k)'
  <2>2. Quiet(k)' > 0 => Quiet(k) > 0 /\ Quiet(k)' = Quiet(k) - 1
    BY <1>8, QuietTick
  <2>3. /\ delivery'[k].status = delivery[k].status
        /\ delivery[k].status = "PENDING" /\ delivery[k].available_at > 0
             => delivery'[k].available_at = delivery[k].available_at - 1
        /\ delivery[k].available_at \in Int
    <3>1. /\ delivery'[k] = Aged(delivery[k])
          /\ delivery'[k].status = delivery[k].status
          /\ delivery[k].available_at \in Int
      BY <1>0, <1>8, TickKeeps DEF DeliveryRow
    <3>2. delivery[k].status = "PENDING" =>
            Aged(delivery[k]).available_at = Earlier(delivery[k].available_at)
      BY <1>0 DEF Aged, DeliveryRow
    <3> QED
      BY <3>1, <3>2 DEF Earlier
  <2>4. \A v \in Worker : /\ sender'[v].phase = sender[v].phase
                          /\ sender'[v].error = sender[v].error
                          /\ sender'[v].incident = sender[v].incident
                          /\ sender'[v].retry_after = sender[v].retry_after
                          /\ sender[v].retry_after \in Nat
    BY <1>8, TickKeeps DEF TypeOK, Process
  <2>5. ASSUME Quiet(k)' > 0, NEW v \in Worker, With(v, k) PROVE With(v, k)'
    BY <1>0, <2>2, <2>4, <2>5 DEF Answered
  <2>6. ASSUME Quiet(k)' > 0, delivery[k].status = "PENDING",
               delivery[k].available_at >= Quiet(k)
        PROVE  delivery'[k].status = "PENDING" /\ delivery'[k].available_at >= Quiet(k)'
    BY <1>0, <2>2, <2>3, <2>6
  <2> QED
    BY <1>0, <2>2, <2>3, <2>5, <2>6
<1>9. CASE UNCHANGED vars
  BY <1>s, <1>9 DEF vars
<1> QED
  BY <1>1, <1>2, <1>3, <1>4, <1>5, <1>6, <1>7, <1>8, <1>9 DEF Next, ClaimNext, SendAny

--------------------------------------------------------------------------------
(* The invariant and what follows from it.                                 *)

LEMMA InitEstablishes == Init => IInv
<1> SUFFICES ASSUME Init PROVE IInv
  OBVIOUS
<1>1. TypeOK
  <2>1. NoDelivery \in DeliveryRow
    BY DEF NoDelivery, DeliveryRow, Status
  <2>2. Idle \in Process
    BY DEF Idle, Process
  <2> QED
    BY <2>1, <2>2 DEF Init, TypeOK, Unasked, Asking
<1>2. /\ \A w \in Worker : sender[w].phase = "idle"
      /\ \A i \in Incident : delivery[i] = NoDelivery /\ received[i] = 0 /\ Quiet(i) = 0
                             /\ takeovers[i] = 0
  BY LimitAssumption DEF Init, Idle, Quiet, Least, Unasked
<1>3. /\ NoDelivery.status = "ABSENT" /\ NoDelivery.attempt_count = 0
      /\ NoDelivery.lease_owner = None
  BY DEF NoDelivery
<1>4. /\ BusyOnClaim /\ LeaseClock /\ NeverOvertaken /\ AcceptedIsReceived
      /\ RegisteredFirst
  BY <1>2 DEF BusyOnClaim, LeaseClock, NeverOvertaken, AcceptedIsReceived, Accepted,
              Answered, Busy, RegisteredFirst
<1>5. LeaseHolder /\ ClaimsCounted /\ RetryBudget
  BY <1>2, <1>3 DEF LeaseHolder, ClaimsCounted, RetryBudget
<1>6. SentMeansReceived /\ ReceiptAccounted /\ RetryAfterKept
  BY <1>2, <1>3 DEF SentMeansReceived, ReceiptAccounted, RetryAfterKept
<1> QED
  BY <1>1, <1>4, <1>5, <1>6 DEF IInv

LEMMA StepPreserves == IInv /\ [Next]_vars => IInv'
<1> SUFFICES ASSUME IInv, [Next]_vars PROVE IInv'
  OBVIOUS
<1> USE DEF IInv
<1>1. TypeOK' /\ BusyOnClaim'
  BY TypeStep, BusyStep
<1>2. LeaseHolder' /\ LeaseClock' /\ NeverOvertaken'
  BY HolderStep, ClockStep, OvertakenStep
<1>3. RetryBudget' /\ ClaimsCounted'
  BY AttemptsStep
<1>4. /\ RegisteredFirst' /\ AcceptedIsReceived' /\ SentMeansReceived'
      /\ ReceiptAccounted'
  BY RegisteredStep, ReceivedStep, ReceiptStep
<1>5. RetryAfterKept'
  BY RetryAfterStep
<1> QED
  BY <1>1, <1>2, <1>3, <1>4, <1>5

(* IInv is inductive: it holds initially and no step of a process, of      *)
(* Slack or of the clock leaves it.                                        *)
THEOREM Invariance == Spec => []IInv
  BY InitEstablishes, StepPreserves, PTL DEF Spec

(* complete marks a delivery SENT only for a message Slack really has.     *)
THEOREM SentIsReceived == Spec => []SentMeansReceived
<1>1. IInv => SentMeansReceived
  BY DEF IInv
<1> QED
  BY <1>1, Invariance, PTL

(* fail keeps deliveries within notification_max_attempts, expired leases  *)
(* aside, and gives one up only for an error that is not retried or after  *)
(* its last attempt.                                                       *)
THEOREM AttemptsWithinBudget == Spec => []RetryBudget
<1>1. IInv => RetryBudget
  BY DEF IInv
<1> QED
  BY <1>1, Invariance, PTL

(* Where a send fits in the lease, claim_next gives no delivery to a       *)
(* second process while the first is at work on it.                        *)
THEOREM LeaseExcludes == Spec => []BoundedSendKeepsLease
<1>1. IInv => BoundedSendKeepsLease
  <2> SUFFICES ASSUME IInv, Bounded
               PROVE  /\ \A w \in Worker : Busy(w) => OwnsLease(w)
                      /\ \A v, w \in Worker :
                           Busy(v) /\ Busy(w) /\ sender[v].incident = sender[w].incident
                             => v = w
    BY DEF BoundedSendKeepsLease
  <2> QED
    BY AloneOnDelivery DEF IInv
<1> QED
  BY <1>1, Invariance, PTL

(* Where a send fits in the lease, a second message to Slack needs a       *)
(* receipt that no process could record.                                   *)
THEOREM DuplicatesExcused == Spec => []NoNeedlessDuplicate
<1>1. IInv => NoNeedlessDuplicate
  <2> SUFFICES ASSUME IInv, Bounded, NEW i \in Incident
               PROVE  received[i] <= 1 \/ i \in doubtful
    BY DEF NoNeedlessDuplicate
  <2>1. received[i] \in Nat
    BY DEF IInv, TypeOK
  <2> QED
    BY <2>1 DEF IInv, ReceiptAccounted
<1> QED
  BY <1>1, Invariance, PTL

(* What a step of the outbox may do to a delivery, for the theorems on     *)
(* steps.                                                                  *)

Settled(i) ==
  delivery[i].status = "SENDING" /\ delivery'[i].status # "SENDING" =>
    \E w \in Worker : /\ Answered(w)
                      /\ sender[w].incident = i
                      /\ sender[w].attempt = delivery[i].attempt_count

LEMMA SettledStep ==
  ASSUME IInv, [Next]_vars, NEW i \in Incident
  PROVE  Settled(i)
<1> SUFFICES ASSUME delivery[i].status = "SENDING", delivery'[i].status # "SENDING"
             PROVE  \E w \in Worker : /\ Answered(w)
                                      /\ sender[w].incident = i
                                      /\ sender[w].attempt = delivery[i].attempt_count
  BY DEF Settled
<1> USE DEF IInv
<1>1. ASSUME NEW w \in Worker, Complete(w) \/ Fail(w)
      PROVE  /\ Answered(w) /\ sender[w].incident = i
             /\ sender[w].attempt = delivery[i].attempt_count
  <2>1. Answered(w) /\ Busy(w) /\ OwnsLease(w)
    BY <1>1 DEF Complete, Fail, Accepted, Answered, Busy
  <2>2. sender[w].incident = i
    BY <1>1 DEF Complete, Fail, TypeOK
  <2> QED
    BY <2>1, <2>2, OwnerIsLatest
<1>2. ASSUME NEW k \in Incident, Register(k) PROVE FALSE
  BY <1>2 DEF Register, TypeOK
<1>3. ASSUME NEW w \in Worker, NEW k \in Incident, Claim(w, k) PROVE FALSE
  BY <1>3 DEF Claim, Leased, TypeOK
<1>4. ASSUME NEW w \in Worker, SendAny(w) \/ CompleteLost(w) \/ FailLost(w) \/ Crash(w)
      PROVE  FALSE
  BY <1>4 DEF SendAny, Send, CompleteLost, FailLost, Crash
<1>5. ASSUME Tick PROVE FALSE
  BY <1>5, TickKeeps
<1>6. CASE UNCHANGED vars
  BY <1>6 DEF vars
<1> QED
  BY <1>1, <1>2, <1>3, <1>4, <1>5, <1>6 DEF Next, ClaimNext

Posts(i) ==
  \E w \in Worker : /\ sender[w].phase = "sending"
                    /\ sender'[w].phase = "answered"
                    /\ sender[w].incident = i

LEMMA QuietStep ==
  ASSUME IInv, Bounded, NEW i \in Incident, Posts(i)
  PROVE  Quiet(i) <= 0
  BY SendingIsQuiet DEF IInv, Posts

(* A delivery leaves SENDING only by the hand of the process that made its *)
(* latest claim.                                                           *)
THEOREM OnlyTheHolderSettles == Spec => SettledByHolder
<1>1. IInv /\ [Next]_vars => [\A i \in Incident : Settled(i)]_vars
  BY SettledStep
<1> QED
  BY <1>1, Invariance, PTL DEF Spec, SettledByHolder, Settled

(* Where a send fits in the lease and its process lives to record a 429,   *)
(* nothing is posted for that incident before the time Slack named, or     *)
(* before RetryAfterCap has passed where Slack named more.                 *)
THEOREM RetryAfterHonoured == Spec => HonoursRetryAfter
<1>1. IInv /\ [Next]_vars =>
        [Bounded => \A i \in Incident : Posts(i) => Quiet(i) <= 0]_vars
  BY QuietStep
<1> QED
  BY <1>1, Invariance, PTL DEF Spec, HonoursRetryAfter, Posts

================================================================================
