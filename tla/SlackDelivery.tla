------------------------------ MODULE SlackDelivery ------------------------------
(***************************************************************************)
(* The Slack outbox: the rows of notification_deliveries, the worker       *)
(* processes that claim them under a lease, and Slack, whose answer may be *)
(* late, lost or a refusal (NotificationDeliveryRepository in              *)
(* app/persistence/repositories.py, deliver_notification_once in           *)
(* app/worker.py, app/notifications/slack.py).                             *)
(*                                                                         *)
(* As in AnalysisJobs a transaction is one step and the times of a row are *)
(* relative to the present.  What Slack really received is kept beside     *)
(* what the row says of it; a post and its answer are one step, since the  *)
(* process looks at nothing in between, and the transaction that records   *)
(* the answer is another.                                                  *)
(***************************************************************************)
EXTENDS Integers, FiniteSets

CONSTANTS
  Incident,       \* incidents with a stored analysis; each has one delivery
  Worker,         \* worker processes over the life of the system
  None,           \* NULL
  MaxAttempts,    \* settings.notification_max_attempts
  LeaseSeconds,   \* settings.notification_lease_seconds, in ticks
  BackoffUnit,    \* the 5 seconds of the backoff, in ticks
  BackoffCap,     \* its 300 seconds
  RetryAfterCap,  \* the 3600 seconds a Retry-After is cut to
  Header,         \* numbers a Retry-After header may hold
  NotANumber,     \* any other content of the header
  SendBound,      \* ticks a delivery may take from claim to settling
  Horizon,        \* how many ticks back a time is remembered
  MaxCrashes,     \* bound on the processes that die on their own
  MaxClaims       \* bound on attempt_count

Code == {"SLACK_UNAVAILABLE", "SLACK_RATE_LIMITED", "SLACK_REJECTED",
         "SLACK_INVALID_RESPONSE", "SLACK_NOT_CONFIGURED"}

ASSUME NoneAssumption == None \notin Worker \cup Incident \cup Code
ASSUME HeaderAssumption == Header \subseteq Int /\ NotANumber \notin Header
ASSUME LimitAssumption ==
  /\ MaxAttempts \in Nat \ {0}
  /\ LeaseSeconds \in Nat \ {0}
  /\ BackoffUnit \in Nat
  /\ BackoffCap \in Nat
  /\ RetryAfterCap \in Nat \ {0}
  /\ SendBound \in Nat
  /\ Horizon \in Nat \ {0}
  /\ MaxCrashes \in Nat
  /\ MaxClaims \in Nat \ {0}

VARIABLES
  delivery,   \* notification_deliveries, by incident
  sender,     \* what each process is doing
  received,   \* messages Slack has accepted for each incident
  doubtful,   \* history: incidents with a receipt no process could record
  asked,      \* history: what Slack's last Retry-After named, and time since
  takeovers   \* history: claims of each delivery that took over a lease

history == <<doubtful, asked, takeovers>>
vars == <<delivery, sender, received, doubtful, asked, takeovers>>

Status == {"ABSENT", "PENDING", "SENDING", "SENT", "DEAD"}
Kind == {"ok", "odd_body", "4xx", "429", "5xx", "no_response", "unconfigured"}

DeliveryRow ==
  [ status          : Status,
    available_at    : Int,
    attempt_count   : Nat,
    lease_owner     : Worker \cup {None},
    lease_until     : Int,
    last_error_code : Code \cup {None} ]

(* retry_after is 0 when Slack named none; a named one is at least 1.      *)
Process ==
  [ phase       : {"idle", "sending", "answered", "down"},
    incident    : Incident \cup {None},
    attempt     : Nat,
    elapsed     : Nat,
    error       : Code \cup {None},
    retry_after : Nat ]

(* A Retry-After as Slack sent it, not as the code reads it.               *)
Asking == [ named : Int, passed : Nat ]

TypeOK ==
  /\ delivery \in [Incident -> DeliveryRow]
  /\ sender \in [Worker -> Process]
  /\ received \in [Incident -> Nat]
  /\ doubtful \subseteq Incident
  /\ asked \in [Incident -> Asking]
  /\ takeovers \in [Incident -> Nat]

NoDelivery == [ status |-> "ABSENT", available_at |-> 0, attempt_count |-> 0,
                lease_owner |-> None, lease_until |-> 0, last_error_code |-> None ]

NewDelivery == [NoDelivery EXCEPT !.status = "PENDING"]

Idle == [ phase |-> "idle", incident |-> None, attempt |-> 0, elapsed |-> 0,
          error |-> None, retry_after |-> 0 ]
Down == [Idle EXCEPT !.phase = "down"]

Unasked == [ named |-> 0, passed |-> 0 ]

Busy(w) == sender[w].phase \in {"sending", "answered"}

Init ==
  /\ delivery = [i \in Incident |-> NoDelivery]
  /\ sender = [w \in Worker |-> Idle]
  /\ received = [i \in Incident |-> 0]
  /\ doubtful = {}
  /\ asked = [i \in Incident |-> Unasked]
  /\ takeovers = [i \in Incident |-> 0]

--------------------------------------------------------------------------------
(* The analysis of incident i is stored, its delivery registered with it.  *)
Register(i) ==
  /\ delivery[i].status = "ABSENT"
  /\ delivery' = [delivery EXCEPT ![i] = NewDelivery]
  /\ UNCHANGED <<sender, received, doubtful, asked, takeovers>>

--------------------------------------------------------------------------------
(* claim_next                                                              *)

(* Mutant: a lease ends one tick early (<= for <).                         *)
LeaseExpiredEarly(i) == delivery[i].status = "SENDING" /\ delivery[i].lease_until <= 0

LeaseExpired(i) == delivery[i].status = "SENDING" /\ delivery[i].lease_until < 0

(* Mutant: expired leases are forgotten.                                   *)
ClaimablePendingOnly(i) ==
  delivery[i].available_at <= 0 /\ delivery[i].status = "PENDING"

Claimable(i) ==
  /\ delivery[i].available_at <= 0
  /\ delivery[i].status = "PENDING" \/ LeaseExpired(i)

(* ORDER BY available_at ... SKIP LOCKED, as in AnalysisJobs.              *)
Ahead(i) ==
  {k \in Incident :
     Claimable(k) /\ delivery[k].available_at < delivery[i].available_at}

Concurrent(w) == \E v \in Worker \ {w} : sender[v].phase # "down"

Leased(i, w) ==
  [ status          |-> "SENDING",
    available_at    |-> delivery[i].available_at,
    attempt_count   |-> delivery[i].attempt_count + 1,
    lease_owner     |-> w,
    lease_until     |-> LeaseSeconds,
    last_error_code |-> None ]

Claim(w, i) ==
  /\ sender[w].phase = "idle"
  /\ Claimable(i)
  /\ Ahead(i) = {} \/ Concurrent(w)
  /\ delivery[i].attempt_count < MaxClaims
  /\ delivery' = [delivery EXCEPT ![i] = Leased(i, w)]
  /\ sender' = [sender EXCEPT ![w] =
                  [ phase |-> "sending", incident |-> i,
                    attempt |-> delivery[i].attempt_count + 1, elapsed |-> 0,
                    error |-> None, retry_after |-> 0 ]]
  /\ takeovers' = [takeovers EXCEPT ![i] = IF LeaseExpired(i) THEN @ + 1 ELSE @]
  /\ UNCHANGED <<received, doubtful, asked>>

--------------------------------------------------------------------------------
(* SlackIncomingWebhookClient.send                                         *)

(* Mutant: a 2xx answer is taken for a success whatever its body says.     *)
ErrorOfAnyBody(kind) ==
  CASE kind \in {"ok", "odd_body"} -> None
    [] kind = "4xx"          -> "SLACK_REJECTED"
    [] kind = "429"          -> "SLACK_RATE_LIMITED"
    [] kind = "unconfigured" -> "SLACK_NOT_CONFIGURED"
    [] OTHER                 -> "SLACK_UNAVAILABLE"

ErrorOf(kind) ==
  CASE kind = "ok"           -> None
    [] kind = "odd_body"     -> "SLACK_INVALID_RESPONSE"
    [] kind = "4xx"          -> "SLACK_REJECTED"
    [] kind = "429"          -> "SLACK_RATE_LIMITED"
    [] kind = "unconfigured" -> "SLACK_NOT_CONFIGURED"
    [] OTHER                 -> "SLACK_UNAVAILABLE"

Least(a, b) == IF a <= b THEN a ELSE b
Greatest(a, b) == IF a >= b THEN a ELSE b

(* The seconds of a Retry-After header; a missing header counts as 1.      *)
RetryAfter(header) ==
  IF header = NotANumber THEN 1 ELSE Greatest(1, Least(header, RetryAfterCap))

(* Whether Slack may have taken the message when it answers this way.  A   *)
(* lost connection, a server error or an unexpected body says nothing.     *)
Accepts(kind) ==
  CASE kind = "ok" -> {TRUE}
    [] kind \in {"429", "4xx", "unconfigured"} -> {FALSE}
    [] OTHER -> BOOLEAN

Send(w, kind, header, accepted) ==
  LET i == sender[w].incident IN
  /\ sender[w].phase = "sending"
  /\ accepted \in Accepts(kind)
  /\ sender' = [sender EXCEPT ![w] =
                  [ phase |-> "answered", incident |-> i,
                    attempt |-> sender[w].attempt, elapsed |-> sender[w].elapsed,
                    error |-> ErrorOf(kind),
                    retry_after |-> IF kind = "429" THEN RetryAfter(header) ELSE 0 ]]
  /\ received' = [received EXCEPT ![i] = IF accepted THEN @ + 1 ELSE @]
  /\ doubtful' = doubtful \cup (IF accepted /\ kind # "ok" THEN {i} ELSE {})
  /\ asked' = [asked EXCEPT ![i] = IF kind = "429" /\ header # NotANumber
                                   THEN [ named |-> header, passed |-> 0 ] ELSE @]
  /\ UNCHANGED <<delivery, takeovers>>

--------------------------------------------------------------------------------
(* complete, after an answer without an error                              *)

(* Mutant: the ownership check is dropped.                                 *)
OwnsLeaseAlways(w) == TRUE

OwnsLease(w) == delivery[sender[w].incident].lease_owner = w

Answered(w) == sender[w].phase = "answered"
Accepted(w) == Answered(w) /\ sender[w].error = None

(* Mutant: the row goes back to the queue as if it had still to be sent.   *)
SentAgain(i) ==
  [ delivery[i] EXCEPT !.status = "PENDING",
                       !.lease_owner = None,
                       !.lease_until = 0,
                       !.last_error_code = None ]

Sent(i) ==
  [ status          |-> "SENT",
    available_at    |-> delivery[i].available_at,
    attempt_count   |-> delivery[i].attempt_count,
    lease_owner     |-> None,
    lease_until     |-> 0,
    last_error_code |-> None ]

Complete(w) ==
  /\ Accepted(w)
  /\ OwnsLease(w)
  /\ delivery' = [delivery EXCEPT ![sender[w].incident] = Sent(sender[w].incident)]
  /\ sender' = [sender EXCEPT ![w] = Idle]
  /\ UNCHANGED <<received, doubtful, asked, takeovers>>

(* The RuntimeError of a lost lease is not a SlackDeliveryError: it ends   *)
(* the process.                                                            *)
CompleteLost(w) ==
  /\ Accepted(w)
  /\ ~OwnsLease(w)
  /\ sender' = [sender EXCEPT ![w] = Down]
  /\ doubtful' = doubtful \cup {sender[w].incident}
  /\ UNCHANGED <<delivery, received, asked, takeovers>>

--------------------------------------------------------------------------------
(* fail, after a SlackDeliveryError                                        *)

Retryable(code) == code \in {"SLACK_UNAVAILABLE", "SLACK_RATE_LIMITED"}

(* Mutant: one attempt too many.                                           *)
ShouldRetryLate(i, code) == Retryable(code) /\ delivery[i].attempt_count <= MaxAttempts

ShouldRetry(i, code) == Retryable(code) /\ delivery[i].attempt_count < MaxAttempts

(* The backoff before attempt n + 1 doubles up to its cap.                 *)
Backoff(n) == Least(BackoffUnit * 2 ^ Greatest(0, n - 1), BackoffCap)

(* Mutant: the backoff applies even where Slack named a time.              *)
DelayWithoutRetryAfter(w) == Backoff(delivery[sender[w].incident].attempt_count)

Delay(w) ==
  IF sender[w].retry_after # 0
  THEN sender[w].retry_after
  ELSE Backoff(delivery[sender[w].incident].attempt_count)

(* Mutant: a status nobody selects.                                        *)
FailedAsRetrying(i, code, delay) ==
  [ delivery[i] EXCEPT !.status = IF ShouldRetry(i, code) THEN "RETRYING" ELSE "DEAD",
                       !.available_at = delay,
                       !.lease_owner = None,
                       !.lease_until = 0,
                       !.last_error_code = code ]

Failed(i, code, delay) ==
  [ status          |-> IF ShouldRetry(i, code) THEN "PENDING" ELSE "DEAD",
    available_at    |-> delay,
    attempt_count   |-> delivery[i].attempt_count,
    lease_owner     |-> None,
    lease_until     |-> 0,
    last_error_code |-> code ]

Fail(w) ==
  LET i == sender[w].incident IN
  /\ Answered(w)
  /\ sender[w].error # None
  /\ OwnsLease(w)
  /\ delivery' = [delivery EXCEPT ![i] = Failed(i, sender[w].error, Delay(w))]
  /\ sender' = [sender EXCEPT ![w] = Idle]
  /\ UNCHANGED <<received, doubtful, asked, takeovers>>

(* fail returns without a word, and a Retry-After is forgotten with it.    *)
FailLost(w) ==
  /\ Answered(w)
  /\ sender[w].error # None
  /\ ~OwnsLease(w)
  /\ sender' = [sender EXCEPT ![w] = Idle]
  /\ asked' = [asked EXCEPT ![sender[w].incident] = Unasked]
  /\ UNCHANGED <<delivery, received, doubtful, takeovers>>

--------------------------------------------------------------------------------
(* A process dies.  What Slack answered it dies with it: a receipt is      *)
(* never recorded, a Retry-After never heeded.                             *)
Crash(w) ==
  LET i == sender[w].incident IN
  /\ sender[w].phase # "down"
  /\ Cardinality({v \in Worker : sender[v].phase = "down"}) < MaxCrashes
  /\ sender' = [sender EXCEPT ![w] = Down]
  /\ doubtful' = doubtful \cup (IF Accepted(w) THEN {i} ELSE {})
  /\ asked' = IF Answered(w) THEN [asked EXCEPT ![i] = Unasked] ELSE asked
  /\ UNCHANGED <<delivery, received, takeovers>>

(* Time                                                                    *)
Earlier(t) == IF t > -Horizon THEN t - 1 ELSE t

Aged(row) ==
  [ row EXCEPT !.available_at = IF row.status = "ABSENT" THEN @ ELSE Earlier(@),
               !.lease_until = IF row.lease_owner = None THEN @ ELSE Earlier(@) ]

(* Once the named time is over there is nothing left to keep to.           *)
Later(asking) ==
  IF asking.passed + 1 < asking.named THEN [asking EXCEPT !.passed = @ + 1] ELSE Unasked

Tick ==
  /\ \A w \in Worker : Busy(w) => sender[w].elapsed < SendBound
  /\ delivery' = [i \in Incident |-> Aged(delivery[i])]
  /\ sender' = [w \in Worker |->
                  IF Busy(w) THEN [sender[w] EXCEPT !.elapsed = @ + 1] ELSE sender[w]]
  /\ asked' = [i \in Incident |-> Later(asked[i])]
  /\ UNCHANGED <<received, doubtful, takeovers>>

--------------------------------------------------------------------------------
ClaimNext(w) == \E i \in Incident : Claim(w, i)

SendAny(w) ==
  \E kind \in Kind, header \in Header \cup {NotANumber}, accepted \in BOOLEAN :
    Send(w, kind, header, accepted)

Settle(w) == Complete(w) \/ CompleteLost(w) \/ Fail(w) \/ FailLost(w)

Next ==
  \/ \E i \in Incident : Register(i)
  \/ \E w \in Worker : ClaimNext(w)
  \/ \E w \in Worker : SendAny(w)
  \/ \E w \in Worker : Complete(w)
  \/ \E w \in Worker : CompleteLost(w)
  \/ \E w \in Worker : Fail(w)
  \/ \E w \in Worker : FailLost(w)
  \/ \E w \in Worker : Crash(w)
  \/ Tick

(* run_forever calls deliver_notification_once over and over, the client   *)
(* times out, and the clock runs on.                                       *)
Fairness ==
  /\ WF_vars(Tick)
  /\ \A w \in Worker : WF_vars(ClaimNext(w)) /\ WF_vars(SendAny(w)) /\ WF_vars(Settle(w))

Spec == Init /\ [][Next]_vars /\ Fairness

--------------------------------------------------------------------------------
(* Properties.                                                             *)

Bounded == SendBound <= LeaseSeconds

(* A delivery marked SENT has reached Slack: only an ok body completes it. *)
SentMeansReceived ==
  \A i \in Incident : delivery[i].status = "SENT" => received[i] > 0

(* With sends that fit in the lease a message is posted twice only where a *)
(* receipt could not be recorded: an ambiguous answer or a death between   *)
(* the answer and complete (incident-analyzer/README.md:86-88).            *)
NoNeedlessDuplicate ==
  Bounded => \A i \in Incident : received[i] <= 1 \/ i \in doubtful

(* A send that fits in the lease is settled by the process that claimed    *)
(* it, and no two processes send one notification at a time.               *)
BoundedSendKeepsLease ==
  Bounded =>
    /\ \A w \in Worker : Busy(w) => OwnsLease(w)
    /\ \A v, w \in Worker :
         Busy(v) /\ Busy(w) /\ sender[v].incident = sender[w].incident => v = w

(* notification_max_attempts limits the claims of a delivery, but for      *)
(* those that took over an expired lease; one is given up only for an      *)
(* error that is not retried, or after its last retryable attempt.         *)
RetryBudget ==
  \A i \in Incident :
    /\ delivery[i].status = "PENDING" => delivery[i].attempt_count < MaxAttempts
    /\ delivery[i].attempt_count <= MaxAttempts + takeovers[i]
    /\ delivery[i].status = "DEAD" =>
         \/ delivery[i].last_error_code \in
              {"SLACK_REJECTED", "SLACK_INVALID_RESPONSE", "SLACK_NOT_CONFIGURED"}
         \/ delivery[i].attempt_count >= MaxAttempts

(* Only the process on its latest claim decides a delivery; one that was   *)
(* overtaken neither marks it SENT nor puts it back in the queue.          *)
SettledByHolder ==
  [][\A i \in Incident :
       delivery[i].status = "SENDING" /\ delivery'[i].status # "SENDING" =>
         \E w \in Worker : /\ Answered(w)
                           /\ sender[w].incident = i
                           /\ sender[w].attempt = delivery[i].attempt_count]_vars

(* How long a post has still to wait for the time Slack named, or for      *)
(* RetryAfterCap where Slack named more.                                   *)
Quiet(i) == Least(asked[i].named, RetryAfterCap) - asked[i].passed

(* After a 429 nothing is posted for that incident before the time its     *)
(* Retry-After named has passed or, where that is more than RetryAfterCap, *)
(* RetryAfterCap of it; if sends fit in the lease and the process lives to *)
(* record the answer (incident-analyzer/README.md:86-87; the limit of an   *)
(* hour is slack.py:49).                                                   *)
HonoursRetryAfter ==
  [][Bounded => \A i \in Incident :
       (\E w \in Worker : /\ sender[w].phase = "sending"
                          /\ sender'[w].phase = "answered"
                          /\ sender[w].incident = i)
         => Quiet(i) <= 0]_vars

(* Every registered notification is sent or given up, whichever processes  *)
(* die, as long as one lives on.                                           *)
EveryDeliveryEnds ==
  \A i \in Incident :
    delivery[i].status = "PENDING" ~> delivery[i].status \in {"SENT", "DEAD"}
--------------------------------------------------------------------------------
(* The inductive invariant behind the properties.                          *)

(* A busy process has claimed a delivery and is within its time.           *)
BusyOnClaim ==
  \A w \in Worker : Busy(w) =>
    /\ sender[w].incident \in Incident
    /\ sender[w].elapsed <= SendBound

(* The lease of a delivery being sent belongs to the process on its latest *)
(* claim, or to a dead one; no other delivery has a lease.                 *)
LeaseHolder ==
  \A i \in Incident :
    LET w == delivery[i].lease_owner IN
    /\ w # None <=> delivery[i].status = "SENDING"
    /\ w # None =>
         \/ sender[w].phase = "down"
         \/ /\ Busy(w)
            /\ sender[w].incident = i
            /\ sender[w].attempt = delivery[i].attempt_count

(* The lease of a busy holder has lost no more time than its send took.    *)
LeaseClock ==
  \A w \in Worker : Busy(w) /\ OwnsLease(w) =>
    delivery[sender[w].incident].lease_until >= LeaseSeconds - sender[w].elapsed

(* A send that fits in the lease is never overtaken.                       *)
NeverOvertaken == Bounded => \A w \in Worker : Busy(w) => OwnsLease(w)

(* A delivery being sent has been claimed; claims keep to their bound.     *)
ClaimsCounted ==
  \A i \in Incident :
    /\ delivery[i].attempt_count <= MaxClaims
    /\ delivery[i].status = "SENDING" => delivery[i].attempt_count > 0

(* Only what was registered is claimed, and so posted.                     *)
RegisteredFirst ==
  \A i \in Incident : delivery[i].status = "ABSENT" =>
    /\ received[i] = 0
    /\ \A w \in Worker : Busy(w) => sender[w].incident # i

(* A process that has an answer without an error has delivered.            *)
AcceptedIsReceived ==
  \A w \in Worker : Accepted(w) => received[sender[w].incident] > 0

(* What Slack received is on its way into the row, or in it, or doubtful.  *)
ReceiptAccounted ==
  Bounded => \A i \in Incident : received[i] > 0 =>
    \/ i \in doubtful
    \/ /\ received[i] = 1
       /\ \/ delivery[i].status = "SENT"
          \/ \E w \in Worker : Accepted(w) /\ sender[w].incident = i

(* A time Slack named is, up to the cap, with the process it was told to,  *)
(* or in the row.                                                          *)
RetryAfterKept ==
  Bounded => \A i \in Incident : Quiet(i) > 0 =>
    \/ delivery[i].status = "DEAD"
    \/ delivery[i].status = "PENDING" /\ delivery[i].available_at >= Quiet(i)
    \/ \E w \in Worker : /\ Answered(w)
                         /\ sender[w].error # None
                         /\ sender[w].incident = i
                         /\ sender[w].retry_after >= Quiet(i)

(* All of it together.                                                     *)
IInv ==
  /\ TypeOK
  /\ BusyOnClaim
  /\ LeaseHolder
  /\ LeaseClock
  /\ NeverOvertaken
  /\ ClaimsCounted
  /\ RetryBudget
  /\ RegisteredFirst
  /\ AcceptedIsReceived
  /\ SentMeansReceived
  /\ ReceiptAccounted
  /\ RetryAfterKept
================================================================================
