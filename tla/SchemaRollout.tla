----------------------------- MODULE SchemaRollout -----------------------------
(***************************************************************************)
(* A deployment beside the live system: the database is bootstrapped, the  *)
(* migrations run, then the API and the worker are replaced and the gate   *)
(* looks at them (.github/workflows/cd-pipeline.yml, migrations/versions,  *)
(* .github/scripts/wait-for-incident-health.sh).                           *)
(*                                                                         *)
(* MySQL commits before every statement that changes the schema, so a      *)
(* migration that stops midway stays midway, and the revision is stamped   *)
(* only at its end.  Until the API is replaced the old release stores one  *)
(* incident per alert (create_with_job), duplicates among them.            *)
(***************************************************************************)
EXTENDS Integers, Sequences

CONSTANTS
  Id,           \* incident ids, in any order of creation
  Episode,      \* pairs of a dedup_key and a started_at
  MaxDeploys,   \* bound on the deployments
  MaxKills      \* bound on the deployments that are killed

ASSUME BoundAssumption ==
  Id \subseteq Nat /\ MaxDeploys \in Nat /\ MaxKills \in Nat

VARIABLES
  schema,     \* tables, indexes and keys there are
  revision,   \* the number of the revision in alembic_version
  step,       \* the next statement of the migration that runs
  doomed,     \* rows deleted by its open transaction, by table
  incidents,  \* rows of incidents
  rows,       \* incident ids of the rows of the tables that refer to it
  stage,      \* where the deployment stands
  granted,    \* whether the runtime user may use the database
  service,    \* the release the API and the worker run
  deploys, kills,
  reported,   \* history: episodes whose incident was committed
  cut         \* history: a migration ended between two schema statements

migration == <<schema, revision, step, doomed, cut>>
vars == <<schema, revision, step, doomed, incidents, rows, stage, granted,
          service, deploys, kills, reported, cut>>

--------------------------------------------------------------------------------
(* The migrations                                                          *)

Outcomes == {"evidence_bundles", "analysis_results", "notification_deliveries"}
Children == Outcomes \cup {"analysis_jobs"}
Tables == Children \cup {"incidents"}

Create(object) == [op |-> "create", on |-> object]
Drop(object) == [op |-> "drop", on |-> object]
Purge(table) == [op |-> "purge", on |-> table]

(* 0001 to 0004, as lists of statements.                                   *)
IncidentStorage ==
  << Create("incidents"), Create("ix_incidents_dedup_started"),
     Create("analysis_jobs"), Create("ix_analysis_jobs_claim") >>

AnalysisStorage == << Create("evidence_bundles"), Create("analysis_results") >>

DeliveryStorage ==
  << Create("notification_deliveries"), Create("ix_notification_deliveries_claim") >>

EpisodeDedup ==
  << Purge("notification_deliveries"), Purge("analysis_results"),
     Purge("evidence_bundles"), Purge("analysis_jobs"), Purge("incidents"),
     Drop("ix_incidents_dedup_started"), Create("uq_incident_episode") >>

Upgrade == << IncidentStorage, AnalysisStorage, DeliveryStorage, EpisodeDedup >>

Latest == Len(Upgrade)

(* What the migrations up to one leave behind when each runs to its end.   *)
SchemaAt(r) ==
  LET Of(op, m) == {Upgrade[m][n].on : n \in {k \in 1..Len(Upgrade[m]) : Upgrade[m][k].op = op}}
  IN  {object \in UNION {Of("create", m) : m \in 1..r} :
         ~\E m \in 1..r : object \in Of("drop", m)}

Statement == Upgrade[revision + 1][step]

Ids == {i.id : i \in incidents}
Twins(i, j) == i.episode = j.episode /\ i.id # j.id

(* The JOIN of 0004: every incident of an episode but the one that keeps.  *)
Duplicates == {i.id : i \in {j \in incidents :
                               \E keeper \in incidents :
                                 Twins(keeper, j) /\ keeper.id < j.id}}

--------------------------------------------------------------------------------
Release == {"none", "old", "new"}
Stage == {"none", "bootstrap", "revoked", "migrate", "start", "gate", "passed", "failed"}

TypeOK ==
  /\ schema \subseteq UNION {SchemaAt(r) : r \in 0..Latest}
  /\ revision \in 0..Latest
  /\ step \in 1..8
  /\ doomed \in [Tables -> SUBSET Id]
  /\ incidents \subseteq [id : Id, episode : Episode]
  /\ rows \in [Children -> SUBSET Id]
  /\ stage \in Stage
  /\ granted \in BOOLEAN
  /\ service \in Release
  /\ deploys \in 0..MaxDeploys
  /\ kills \in 0..MaxKills
  /\ reported \subseteq Episode
  /\ cut \in BOOLEAN
  /\ stage # "migrate" => step = 1 /\ \A t \in Tables : doomed[t] = {}

Nothing == [t \in Tables |-> {}]

(* A first installation, or one at the revision before the last.           *)
Init ==
  /\ \/ revision = 0 /\ service = "none" /\ granted = FALSE
     \/ revision = Latest - 1 /\ service = "old" /\ granted = TRUE
  /\ schema = SchemaAt(revision)
  /\ step = 1
  /\ doomed = Nothing
  /\ incidents = {}
  /\ rows = [t \in Children |-> {}]
  /\ stage = "none"
  /\ deploys = 0
  /\ kills = 0
  /\ reported = {}
  /\ cut = FALSE

--------------------------------------------------------------------------------
(* The live system                                                         *)

Unique == "uq_incident_episode" \in schema

(* An alert is stored with its job: by the old release as it comes, by the *)
(* new one unless its episode is there.  The key refuses it to both.       *)
Report(id, episode) ==
  /\ service # "none"
  /\ id \notin Ids
  /\ Unique => ~\E i \in incidents : i.episode = episode
  /\ incidents' = incidents \cup {[id |-> id, episode |-> episode]}
  /\ rows' = [rows EXCEPT !["analysis_jobs"] = @ \cup {id}]
  /\ reported' = reported \cup {episode}
  /\ UNCHANGED <<migration, stage, granted, service, deploys, kills>>

(* A worker completes a job; one that the migration has deleted is locked, *)
(* and gone when the lock is.                                              *)
CompleteJob(id) ==
  /\ service # "none"
  /\ id \in rows["analysis_jobs"] \ doomed["analysis_jobs"]
  /\ id \notin rows["analysis_results"]
  /\ rows' = [t \in Children |-> IF t \in Outcomes THEN rows[t] \cup {id} ELSE rows[t]]
  /\ UNCHANGED <<migration, incidents, stage, granted, service, deploys, kills, reported>>

--------------------------------------------------------------------------------
(* The deployment: bootstrap-database.sh                                   *)

Deploy ==
  /\ stage \in {"none", "passed", "failed"}
  /\ deploys < MaxDeploys
  /\ deploys' = deploys + 1
  /\ stage' = "bootstrap"
  /\ UNCHANGED <<migration, incidents, rows, granted, service, kills, reported>>

Revoke ==
  /\ stage = "bootstrap"
  /\ granted' = FALSE
  /\ stage' = "revoked"
  /\ UNCHANGED <<migration, incidents, rows, service, deploys, kills, reported>>

Grant ==
  /\ stage = "revoked"
  /\ granted' = TRUE
  /\ stage' = "migrate"
  /\ UNCHANGED <<migration, incidents, rows, service, deploys, kills, reported>>

--------------------------------------------------------------------------------
(* alembic upgrade head                                                    *)

Running == stage = "migrate" /\ revision < Latest
Within == Running /\ step <= Len(Upgrade[revision + 1])

(* The statements before this one have already changed the schema.         *)
Midway == Running /\ \E n \in 1..(step - 1) : Upgrade[revision + 1][n].op # "purge"

CommitPurge ==
  /\ incidents' = {i \in incidents : i.id \notin doomed["incidents"]}
  /\ rows' = [t \in Children |-> rows[t] \ doomed[t]]
  /\ doomed' = Nothing

(* Mutant: the JOIN takes any two incidents of an episode for duplicates.  *)
PurgeTwins(table) ==
  LET duplicates == {i.id : i \in {j \in incidents : \E k \in incidents : Twins(k, j)}}
  IN  doomed' = [doomed EXCEPT ![table] =
                   IF table = "incidents" THEN duplicates ELSE rows[table] \cap duplicates]

PurgeRows(table) ==
  doomed' = [doomed EXCEPT ![table] =
               IF table = "incidents" THEN Duplicates ELSE rows[table] \cap Duplicates]

(* Foreign keys keep an incident that a row of another table refers to.    *)
Purgeable(table) ==
  table = "incidents" =>
    \A t \in Children : (rows[t] \ doomed[t]) \cap Duplicates = {}

PurgeStep ==
  /\ Within
  /\ Statement.op = "purge"
  /\ Purgeable(Statement.on)
  /\ PurgeRows(Statement.on)
  /\ step' = step + 1
  /\ UNCHANGED <<schema, revision, incidents, rows, stage, granted, service,
                 deploys, kills, reported, cut>>

(* MySQL creates what is not there, and drops what is.                     *)
Expected(statement) == statement.op = "create" <=> statement.on \notin schema

(* Whether a schema statement finds what it needs; a unique key, a table   *)
(* without duplicates.                                                     *)
Applicable(statement, table) ==
  /\ Expected(statement)
  /\ statement.on = "uq_incident_episode" => ~\E i, j \in table : Twins(i, j)

SchemaStep ==
  /\ Within
  /\ Statement.op # "purge"
  /\ CommitPurge
  /\ Applicable(Statement, incidents')
  /\ schema' = IF Statement.op = "create" THEN schema \cup {Statement.on}
                                          ELSE schema \ {Statement.on}
  /\ step' = step + 1
  /\ UNCHANGED <<revision, stage, granted, service, deploys, kills, reported, cut>>

(* Mutant: the error is swallowed and the next statement tried.            *)
SchemaStepForced ==
  /\ Within
  /\ Statement.op # "purge"
  /\ CommitPurge
  /\ ~Applicable(Statement, incidents')
  /\ step' = step + 1
  /\ UNCHANGED <<schema, revision, stage, granted, service, deploys, kills, reported, cut>>

(* The statement fails after MySQL has committed what came before.         *)
SchemaStepFails ==
  /\ Within
  /\ Statement.op # "purge"
  /\ CommitPurge
  /\ ~Applicable(Statement, incidents')
  /\ stage' = "failed"
  /\ step' = 1
  /\ cut' = (cut \/ Midway)
  /\ UNCHANGED <<schema, revision, granted, service, deploys, kills, reported>>

(* Mutant: what was deleted before the error stays deleted.                *)
PurgeStepFailsOpen ==
  /\ Within
  /\ Statement.op = "purge"
  /\ ~Purgeable(Statement.on)
  /\ stage' = "failed"
  /\ step' = 1
  /\ UNCHANGED <<schema, revision, doomed, incidents, rows, granted, service,
                 deploys, kills, reported, cut>>

(* The transaction is rolled back.                                         *)
PurgeStepFails ==
  /\ Within
  /\ Statement.op = "purge"
  /\ ~Purgeable(Statement.on)
  /\ stage' = "failed"
  /\ step' = 1
  /\ doomed' = Nothing
  /\ UNCHANGED <<schema, revision, incidents, rows, granted, service, deploys,
                 kills, reported, cut>>

(* Mutant: the revision is stamped one statement early.                    *)
StampEarly ==
  /\ Running
  /\ step = Len(Upgrade[revision + 1])
  /\ revision' = revision + 1
  /\ step' = 1
  /\ UNCHANGED <<schema, doomed, incidents, rows, stage, granted, service,
                 deploys, kills, reported, cut>>

Stamp ==
  /\ Running
  /\ step > Len(Upgrade[revision + 1])
  /\ revision' = revision + 1
  /\ step' = 1
  /\ UNCHANGED <<schema, doomed, incidents, rows, stage, granted, service,
                 deploys, kills, reported, cut>>

Migrated ==
  /\ stage = "migrate"
  /\ revision = Latest
  /\ stage' = "start"
  /\ UNCHANGED <<migration, incidents, rows, granted, service, deploys, kills, reported>>

--------------------------------------------------------------------------------
(* docker compose up, wait-for-incident-health.sh                          *)

Start ==
  /\ stage = "start"
  /\ service' = "new"
  /\ stage' = "gate"
  /\ UNCHANGED <<migration, incidents, rows, granted, deploys, kills, reported>>

(* verify_database_ready, with the revision the new release expects.       *)
Ready == service = "new" /\ granted /\ revision = Latest

GatePasses ==
  /\ stage = "gate"
  /\ Ready
  /\ stage' = "passed"
  /\ UNCHANGED <<migration, incidents, rows, granted, service, deploys, kills, reported>>

(* Not ready, or Loki is not, or a container restarts.                     *)
GateFails ==
  /\ stage = "gate"
  /\ stage' = "failed"
  /\ UNCHANGED <<migration, incidents, rows, granted, service, deploys, kills, reported>>

(* The session, the container or the host goes away under the deployment.  *)
Kill ==
  /\ stage \in {"bootstrap", "revoked", "migrate", "start", "gate"}
  /\ kills < MaxKills
  /\ kills' = kills + 1
  /\ stage' = "failed"
  /\ step' = 1
  /\ doomed' = Nothing
  /\ cut' = (cut \/ Midway)
  /\ UNCHANGED <<schema, revision, incidents, rows, granted, service, deploys, reported>>

Next ==
  \/ \E id \in Id, episode \in Episode : Report(id, episode)
  \/ \E id \in Id : CompleteJob(id)
  \/ Deploy
  \/ Revoke
  \/ Grant
  \/ PurgeStep
  \/ SchemaStep
  \/ SchemaStepFails
  \/ PurgeStepFails
  \/ Stamp
  \/ Migrated
  \/ Start
  \/ GatePasses
  \/ GateFails
  \/ Kill

Spec == Init /\ [][Next]_vars

--------------------------------------------------------------------------------
(* Properties.                                                             *)

(* A deployment that has passed runs the new release on the whole schema,  *)
(* with one incident per episode, whatever earlier deployments were killed *)
(* or failed at (README.md:59-62).                                         *)
GateSound ==
  stage = "passed" =>
    /\ service = "new"
    /\ granted
    /\ schema = SchemaAt(Latest)
    /\ \A i, j \in incidents : ~Twins(i, j)

(* Between deployments the schema is the one its revision names, unless a  *)
(* migration was cut between two schema statements; then it never comes to *)
(* the head, for its first schema statement cannot be run again.           *)
SchemaKeepsPace ==
  /\ stage # "migrate" /\ ~cut => schema = SchemaAt(revision)
  /\ revision = Latest => schema = SchemaAt(Latest)
  /\ cut => revision < Latest

(* The migration takes from each episode all its incidents but one, with   *)
(* all their rows or none, though alerts arrive and jobs are completed     *)
(* between its statements: every reported episode keeps an incident with   *)
(* its job, every analysis its evidence and its notification.              *)
EpisodeKept ==
  /\ \A e \in reported :
       \E i \in incidents : i.episode = e /\ i.id \in rows["analysis_jobs"]
  /\ \A t \in Children : rows[t] \subseteq Ids
  /\ \A t \in Outcomes : rows[t] = rows["analysis_results"]
--------------------------------------------------------------------------------
(* The inductive invariant.                                                *)

(* What the first statements of the migration after r leave of its schema. *)
Done(r, n) ==
  LET Of(op) == {Upgrade[r + 1][k].on : k \in {j \in 1..(n - 1) : Upgrade[r + 1][j].op = op}}
  IN  (SchemaAt(r) \cup Of("create")) \ Of("drop")

StepWithin ==
  /\ stage # "migrate" \/ revision = Latest => step = 1
  /\ revision < Latest => step <= Len(Upgrade[revision + 1]) + 1

SchemaTracks == ~cut => schema = Done(revision, step)

(* The first schema statement of the migration has been run, and refuses   *)
(* to be run again.                                                        *)
Stuck == cut =>
  /\ revision < Latest
  /\ \E k \in 1..Len(Upgrade[revision + 1]) :
       /\ Upgrade[revision + 1][k].op # "purge"
       /\ \A n \in 1..(k - 1) : Upgrade[revision + 1][n].op = "purge"
       /\ step <= k
       /\ ~Expected(Upgrade[revision + 1][k])

UniqueKept == Unique => \A i, j \in incidents : ~Twins(i, j)

(* What the deployment has behind it at each stage.                        *)
StageReached ==
  /\ stage \in {"migrate", "start", "gate", "passed"} => granted
  /\ stage \in {"start", "gate", "passed"} => revision = Latest
  /\ stage \in {"gate", "passed"} => service = "new"

(* The open transaction is that of 0004, before its first schema statement,*)
(* and deletes the rows of an incident from every table or from none.      *)
DoomedTogether ==
  /\ (\E t \in Tables : doomed[t] # {}) =>
       stage = "migrate" /\ revision = Latest - 1 /\ step <= 6
  /\ step < 6 => doomed["incidents"] = {}
  /\ doomed["incidents"] \subseteq Duplicates
  /\ \A t \in Children : doomed[t] \subseteq rows[t] \cap Duplicates
  /\ revision = Latest - 1 /\ step = 6 =>
       \A t \in Children : rows[t] \cap doomed["incidents"] = doomed[t]

(* An incident has one row and its job; each episode keeps its first.      *)
RowsAgree ==
  /\ \A i \in incidents : i.episode \in reported
  /\ \A i, j \in incidents : i.id = j.id => i = j
  /\ rows["analysis_jobs"] = Ids
  /\ \A t \in Outcomes : rows[t] = rows["analysis_results"] /\ rows[t] \subseteq Ids
  /\ \A e \in reported : \E i \in incidents : i.episode = e /\ i.id \notin Duplicates

(* A deployment may be killed at any of its steps, and alerts and jobs     *)
(* come between any two: with the above this holds at every one of them.   *)
IInv ==
  /\ TypeOK
  /\ StepWithin
  /\ SchemaTracks
  /\ Stuck
  /\ UniqueKept
  /\ StageReached
  /\ DoomedTogether
  /\ RowsAgree
================================================================================
