----------------------------- MODULE IncidentIngest -----------------------------
(***************************************************************************)
(* How alerts become incidents: Grafana posts the firing alerts of a group *)
(* until it is acknowledged, the API (app/api/incidents.py) checks the     *)
(* request, and create_many_with_jobs (app/persistence/repositories.py)    *)
(* stores one incident and one job per alert episode in one transaction,   *)
(* passing over an episode that the unique key uq_incident_episode         *)
(* already knows.                                                          *)
(*                                                                         *)
(* The handler makes its database calls without an await and the API is    *)
(* one process with one event loop (Dockerfile:25), so one request at a    *)
(* time is inside the transaction; others wait, grow old or get lost.      *)
(* Grafana is external: it is known by its contact point and policy, and   *)
(* by what the API answers it.                                             *)
(***************************************************************************)
EXTENDS Integers, FiniteSets

CONSTANTS
  Alert,       \* alert instances, each firing at most once
  Episode,     \* pairs of a dedup_key and a started_at
  EpisodeOf,   \* the episode to_create_commands makes of an alert
  Broken,      \* alerts the webhook's model does not accept
  BodyLimit,   \* alerts that fit in incident_payload_max_bytes
  Slot,        \* bound on the requests under way at a time
  Id,          \* incident ids
  MaxFaults    \* bound on crashes, database errors, lost and late messages

ASSUME EpisodeAssumption == EpisodeOf \in [Alert -> Episode]
ASSUME BrokenAssumption  == Broken \subseteq Alert
ASSUME BoundAssumption   == BodyLimit \in Nat /\ MaxFaults \in Nat /\ Id \subseteq Nat

VARIABLES
  alert,      \* what Grafana knows of each alert
  acked,      \* the alerts of the batches Grafana has a 202 for
  request,    \* the requests under way
  api,        \* "up" or "down"
  txn,        \* the open transaction of the handler
  incidents,  \* committed rows of incidents
  jobs,       \* ids of the incidents with a committed row in analysis_jobs
  faults      \* how many faults have happened

tables == <<incidents, jobs>>
grafana == <<alert, acked>>
vars == <<alert, acked, request, api, txn, incidents, jobs, faults>>

Incident == [id : Id, episode : Episode]

Request ==
  [ phase : {"free", "posted", "handling", "answered"},
    batch : SUBSET Alert,
    code  : {0, 202, 401, 413, 500} ]

Transaction ==
  [ open : BOOLEAN, todo : SUBSET Alert, incidents : SUBSET Incident, jobs : SUBSET Id ]

(* A transaction is open exactly while a request is handled: it ends with  *)
(* the request, however the request ends.                                  *)
TypeOK ==
  /\ alert \in [Alert -> {"quiet", "firing", "resolved"}]
  /\ acked \subseteq Alert
  /\ request \in [Slot -> Request]
  /\ api \in {"up", "down"}
  /\ txn \in Transaction
  /\ incidents \subseteq Incident
  /\ jobs \subseteq Id
  /\ txn.open <=> \E s \in Slot : request[s].phase = "handling"
  /\ faults \in 0..MaxFaults

Free == [phase |-> "free", batch |-> {}, code |-> 0]
NoTxn == [open |-> FALSE, todo |-> {}, incidents |-> {}, jobs |-> {}]

Init ==
  /\ alert = [a \in Alert |-> "quiet"]
  /\ acked = {}
  /\ request = [s \in Slot |-> Free]
  /\ api = "up"
  /\ txn = NoTxn
  /\ incidents = {}
  /\ jobs = {}
  /\ faults = 0

Fault == faults < MaxFaults /\ faults' = faults + 1

--------------------------------------------------------------------------------
(* Grafana                                                                 *)

Firing == {a \in Alert : alert[a] = "firing"}

Fire(a) ==
  /\ alert[a] = "quiet"
  /\ alert' = [alert EXCEPT ![a] = "firing"]
  /\ UNCHANGED <<acked, request, api, txn, incidents, jobs, faults>>

(* A resolved alert is no longer posted (disableResolveMessage); should it *)
(* fire again it starts a new episode, which is another element of Alert.  *)
Resolve(a) ==
  /\ alert[a] = "firing"
  /\ alert' = [alert EXCEPT ![a] = "resolved"]
  /\ UNCHANGED <<acked, request, api, txn, incidents, jobs, faults>>

(* The firing alerts are posted: because some have joined, because the     *)
(* last post failed or was given up, or because the repeat interval is     *)
(* over.  A post given up may still be under way.                          *)
Post(s) ==
  /\ request[s].phase = "free"
  /\ Firing # {}
  /\ request' = [request EXCEPT ![s] = [ phase |-> "posted", batch |-> Firing,
                                         code |-> 0 ]]
  /\ UNCHANGED <<alert, acked, api, txn, incidents, jobs, faults>>

(* A request or its answer is lost.                                        *)
Lose(s) ==
  /\ request[s].phase \in {"posted", "answered"}
  /\ Fault
  /\ request' = [request EXCEPT ![s] = Free]
  /\ UNCHANGED <<alert, acked, api, txn, incidents, jobs>>

Hear(s) ==
  /\ request[s].phase = "answered"
  /\ acked' = IF request[s].code = 202 THEN acked \cup request[s].batch ELSE acked
  /\ request' = [request EXCEPT ![s] = Free]
  /\ UNCHANGED <<alert, api, txn, incidents, jobs, faults>>

--------------------------------------------------------------------------------
(* create_incidents                                                        *)

Answer(s, code) ==
  request' = [request EXCEPT ![s] = [ phase |-> "answered", batch |-> request[s].batch,
                                      code |-> code ]]

TooLarge(batch) == Cardinality(batch) > BodyLimit

Acceptable(batch) == ~TooLarge(batch) /\ batch \cap Broken = {}

Waiting(s) == api = "up" /\ ~txn.open /\ request[s].phase = "posted"

(* The body is measured before anything else is looked at.                 *)
RefuseSize(s) ==
  /\ Waiting(s)
  /\ TooLarge(request[s].batch)
  /\ Answer(s, 413)
  /\ UNCHANGED <<grafana, api, txn, tables, faults>>

(* One alert that the model does not accept, and the whole batch is        *)
(* refused.                                                                *)
RefuseBroken(s) ==
  /\ Waiting(s)
  /\ ~TooLarge(request[s].batch)
  /\ request[s].batch \cap Broken # {}
  /\ Answer(s, 401)
  /\ UNCHANGED <<grafana, api, txn, tables, faults>>

(* The request was on its way, or waited, for longer than its signature    *)
(* lasts.                                                                  *)
RefuseLate(s) ==
  /\ Waiting(s)
  /\ Acceptable(request[s].batch)
  /\ Fault
  /\ Answer(s, 401)
  /\ UNCHANGED <<grafana, api, txn, tables>>

Begin(s) ==
  /\ Waiting(s)
  /\ Acceptable(request[s].batch)
  /\ txn' = [open |-> TRUE, todo |-> request[s].batch, incidents |-> {}, jobs |-> {}]
  /\ request' = [request EXCEPT ![s] = [ phase |-> "handling",
                                         batch |-> request[s].batch, code |-> 0 ]]
  /\ UNCHANGED <<grafana, api, tables, faults>>

--------------------------------------------------------------------------------
(* create_many_with_jobs                                                   *)

(* uq_incident_episode, as the transaction sees it.                        *)
Known(episode) == \E i \in incidents \cup txn.incidents : i.episode = episode

Used == {i.id : i \in incidents \cup txn.incidents}

(* Mutants: the key is looked up before the batch, not within it; any      *)
(* error of the database is taken for a duplicate.                         *)
InsertUnseen(a, id) ==
  /\ txn.open
  /\ a \in txn.todo
  /\ ~\E i \in incidents : i.episode = EpisodeOf[a]
  /\ id \in Id \ Used
  /\ \A other \in Id \ Used : id <= other
  /\ txn' = [ open |-> TRUE, todo |-> txn.todo \ {a},
              incidents |-> txn.incidents \cup {[id |-> id, episode |-> EpisodeOf[a]]},
              jobs |-> txn.jobs \cup {id} ]
  /\ UNCHANGED <<grafana, request, api, tables, faults>>

(* The savepoint holds: the incident and, by cascade, its job are flushed. *)
Insert(a, id) ==
  /\ txn.open
  /\ a \in txn.todo
  /\ ~Known(EpisodeOf[a])
  /\ id \in Id \ Used
  /\ \A other \in Id \ Used : id <= other
  /\ txn' = [ open |-> TRUE, todo |-> txn.todo \ {a},
              incidents |-> txn.incidents \cup {[id |-> id, episode |-> EpisodeOf[a]]},
              jobs |-> txn.jobs \cup {id} ]
  /\ UNCHANGED <<grafana, request, api, tables, faults>>

(* Mutants: a duplicate ends the loop; without a savepoint it ends the     *)
(* request.                                                                *)
SkipDuplicateEndsBatch(a) ==
  /\ txn.open
  /\ a \in txn.todo
  /\ Known(EpisodeOf[a])
  /\ txn' = [txn EXCEPT !.todo = {}]
  /\ UNCHANGED <<grafana, request, api, tables, faults>>

SkipDuplicateAborts(a) ==
  /\ a \in txn.todo
  /\ Known(EpisodeOf[a])
  /\ txn' = NoTxn
  /\ \E s \in Slot : request[s].phase = "handling" /\ Answer(s, 500)
  /\ UNCHANGED <<grafana, api, tables, faults>>

(* The savepoint is rolled back, and what was flushed before it stays.     *)
SkipDuplicate(a) ==
  /\ txn.open
  /\ a \in txn.todo
  /\ Known(EpisodeOf[a])
  /\ txn' = [txn EXCEPT !.todo = @ \ {a}]
  /\ UNCHANGED <<grafana, request, api, tables, faults>>

(* Mutants: an error is passed over like a duplicate; it is answered with  *)
(* the transaction left open.                                              *)
DbErrorSwallowed(s) ==
  /\ request[s].phase = "handling"
  /\ txn.open
  /\ Fault
  /\ \E a \in txn.todo : txn' = [txn EXCEPT !.todo = @ \ {a}]
  /\ UNCHANGED <<grafana, request, api, tables>>

DbErrorLeavesOpen(s) ==
  /\ request[s].phase = "handling"
  /\ Fault
  /\ Answer(s, 500)
  /\ UNCHANGED <<grafana, api, txn, tables>>

(* Any other error of the database undoes the whole batch.                 *)
DbError(s) ==
  /\ request[s].phase = "handling"
  /\ txn.open
  /\ Fault
  /\ txn' = NoTxn
  /\ Answer(s, 500)
  /\ UNCHANGED <<grafana, api, tables>>

Store ==
  /\ incidents' = incidents \cup txn.incidents
  /\ jobs' = jobs \cup txn.jobs
  /\ txn' = NoTxn

Commit(s) ==
  /\ request[s].phase = "handling"
  /\ txn.open
  /\ txn.todo = {}
  /\ Store
  /\ Answer(s, 202)
  /\ UNCHANGED <<grafana, api, faults>>

(* The connection breaks after the server has committed: the handler sees  *)
(* an error where everything is stored.                                    *)
CommitUnheard(s) ==
  /\ request[s].phase = "handling"
  /\ txn.open
  /\ txn.todo = {}
  /\ Fault
  /\ Store
  /\ Answer(s, 500)
  /\ UNCHANGED <<grafana, api>>

(* The process dies and its open transaction with it; Docker starts it     *)
(* again (restart: unless-stopped).                                        *)
Crash ==
  /\ api = "up"
  /\ Fault
  /\ api' = "down"
  /\ txn' = NoTxn
  /\ request' = [s \in Slot |-> IF request[s].phase = "handling" THEN Free ELSE request[s]]
  /\ UNCHANGED <<grafana, tables>>

Restart ==
  /\ api = "down"
  /\ api' = "up"
  /\ UNCHANGED <<grafana, request, txn, tables, faults>>

--------------------------------------------------------------------------------
Handle(s) == RefuseSize(s) \/ RefuseBroken(s) \/ Begin(s) \/ Commit(s)

Row == \E a \in Alert : SkipDuplicate(a) \/ \E id \in Id : Insert(a, id)

Next ==
  \/ \E a \in Alert : Fire(a)
  \/ \E a \in Alert : Resolve(a)
  \/ \E s \in Slot : Post(s)
  \/ \E s \in Slot : Lose(s)
  \/ \E s \in Slot : Hear(s)
  \/ \E s \in Slot : RefuseSize(s)
  \/ \E s \in Slot : RefuseBroken(s)
  \/ \E s \in Slot : RefuseLate(s)
  \/ \E s \in Slot : Begin(s)
  \/ \E a \in Alert, id \in Id : Insert(a, id)
  \/ \E a \in Alert : SkipDuplicate(a)
  \/ \E s \in Slot : DbError(s)
  \/ \E s \in Slot : Commit(s)
  \/ \E s \in Slot : CommitUnheard(s)
  \/ Crash
  \/ Restart

(* Grafana posts while a firing alert is not acknowledged, and the API     *)
(* handles what it gets; only the faults are not bound to happen.          *)
Fairness ==
  /\ WF_vars(Firing \ acked # {} /\ \E s \in Slot : Post(s))
  /\ \A s \in Slot : WF_vars(Handle(s)) /\ WF_vars(Hear(s))
  /\ WF_vars(Row)
  /\ WF_vars(Restart)

Spec == Init /\ [][Next]_vars /\ Fairness

--------------------------------------------------------------------------------
(* Properties.                                                             *)

StoredEpisodes == {i.episode : i \in incidents}
Stored(a) == EpisodeOf[a] \in StoredEpisodes

(* Grafana stops posting an alert only when its incident is stored: a 202  *)
(* is given after the commit, to the batch that was committed, whichever   *)
(* crash or error came before (create_incidents).                          *)
AcknowledgedIsStored ==
  /\ \A a \in acked : Stored(a)
  /\ \A s \in Slot : request[s].phase = "answered" /\ request[s].code = 202 =>
       \A a \in request[s].batch : Stored(a)

(* However often an alert is posted, in one batch or many, its episode has *)
(* one incident, and every incident its one job (create_many_with_jobs,    *)
(* tests/integration/test_mysql_storage.py:192).                           *)
OneIncidentPerEpisode ==
  /\ \A i, j \in incidents : i.episode = j.episode => i = j
  /\ \A i, j \in incidents : i.id = j.id => i = j
  /\ jobs = {i.id : i \in incidents}

(* A commit stores its batch as a whole: a duplicate among the alerts does *)
(* not cost the others their incident, an error leaves none behind.        *)
BatchAtomic ==
  [][ incidents' # incidents =>
        \E s \in Slot : /\ request[s].phase = "handling"
                        /\ {i.episode : i \in incidents'} =
                             StoredEpisodes \cup {EpisodeOf[a] : a \in request[s].batch} ]_vars

(* An alert that keeps firing, in a group whose batch can be accepted, is  *)
(* stored in the end, whatever was lost on the way.                        *)
EveryAlertLands ==
  \A a \in Alert :
    <>[](a \in Firing /\ Acceptable(Firing)) => <>Stored(a)
--------------------------------------------------------------------------------
(* The inductive invariant behind the safety properties.                   *)

(* One request at a time is inside the transaction.                        *)
OneAtATime ==
  \A s, t \in Slot :
    request[s].phase = "handling" /\ request[t].phase = "handling" => s = t

(* What is stored and what is flushed are apart, by episode and by id, and *)
(* every incident has its job where it is itself.                          *)
RowsApart ==
  /\ incidents \cap txn.incidents = {}
  /\ \A i, j \in incidents \cup txn.incidents : i.episode = j.episode => i = j
  /\ \A i, j \in incidents \cup txn.incidents : i.id = j.id => i = j
  /\ jobs = {i.id : i \in incidents}
  /\ txn.jobs = {i.id : i \in txn.incidents}

(* Of the batch in the transaction, what is no longer to do is stored or   *)
(* flushed, and nothing else is flushed.                                   *)
BatchProgress ==
  \A s \in Slot : request[s].phase = "handling" =>
    /\ txn.todo \subseteq request[s].batch
    /\ \A a \in request[s].batch \ txn.todo : Known(EpisodeOf[a])
    /\ \A i \in txn.incidents :
         \E a \in request[s].batch \ txn.todo : i.episode = EpisodeOf[a]

(* All of it together.                                                     *)
IInv ==
  /\ TypeOK
  /\ OneAtATime
  /\ RowsApart
  /\ BatchProgress
  /\ AcknowledgedIsStored
================================================================================
