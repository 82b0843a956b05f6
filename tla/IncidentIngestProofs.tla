-------------------------- MODULE IncidentIngestProofs --------------------------
(***************************************************************************)
(* Proofs about IncidentIngest for every set of alerts, episodes and       *)
(* requests under way, and any number of faults.  A lemma says what it     *)
(* takes for the transaction to be as it was; one per conjunct of IInv     *)
(* follows, and the theorems read the properties off it.                   *)
(***************************************************************************)
EXTENDS IncidentIngest, TLAPS

USE EpisodeAssumption, BrokenAssumption, BoundAssumption

(* Everything but the transaction: Grafana, the network, and the answers   *)
(* given before one is begun.                                              *)
Outside ==
  \/ \E a \in Alert : Fire(a) \/ Resolve(a)
  \/ \E s \in Slot : \/ Post(s) \/ Lose(s) \/ Hear(s)
                     \/ RefuseSize(s) \/ RefuseBroken(s) \/ RefuseLate(s)
  \/ Restart

Committing(s) == Commit(s) \/ CommitUnheard(s)

LEMMA Steps ==
  Next <=> \/ Outside \/ Row \/ Crash
           \/ \E s \in Slot : Begin(s) \/ DbError(s) \/ Committing(s)
  BY DEF Next, Outside, Row, Committing

(* Outside the transaction nothing of it changes, and no request enters or *)
(* leaves it.                                                              *)
LEMMA OutsideKeeps ==
  ASSUME TypeOK, Outside
  PROVE  /\ UNCHANGED <<txn, incidents, jobs>>
         /\ request' \in [Slot -> Request]
         /\ \A s \in Slot :
              /\ request'[s].phase = "handling" <=> request[s].phase = "handling"
              /\ request[s].phase = "handling" => request'[s] = request[s]
<1> DEFINE Keeps ==
      /\ UNCHANGED <<txn, incidents, jobs>>
      /\ request' \in [Slot -> Request]
      /\ \A s \in Slot :
           /\ request'[s].phase = "handling" <=> request[s].phase = "handling"
           /\ request[s].phase = "handling" => request'[s] = request[s]
<1>1. CASE (\E a \in Alert : Fire(a) \/ Resolve(a)) \/ Restart
  BY <1>1 DEF Fire, Resolve, Restart, tables, grafana, TypeOK
<1>2. ASSUME NEW s \in Slot, Post(s) PROVE Keeps
  <2>1. [phase |-> "posted", batch |-> Firing, code |-> 0] \in Request
    BY DEF Firing, Request
  <2> QED
    BY <1>2, <2>1 DEF Post, TypeOK
<1>3. ASSUME NEW s \in Slot, Lose(s) \/ Hear(s) PROVE Keeps
  <2>1. Free \in Request /\ Free.phase = "free"
    BY DEF Free, Request
  <2> QED
    BY <1>3, <2>1 DEF Lose, Hear, TypeOK
<1>4. ASSUME NEW s \in Slot, RefuseSize(s) \/ RefuseBroken(s) \/ RefuseLate(s) PROVE Keeps
  <2>1. \A code \in {401, 413} :
          [phase |-> "answered", batch |-> request[s].batch, code |-> code] \in Request
    BY DEF TypeOK, Request
  <2> QED
    BY <1>4, <2>1 DEF RefuseSize, RefuseBroken, RefuseLate, Waiting, Answer, tables, TypeOK
<1> QED
  BY <1>1, <1>2, <1>3, <1>4 DEF Outside

(* What the request and the transaction become where one is ended.         *)
LEMMA EndEffect ==
  ASSUME TypeOK, OneAtATime, NEW s \in Slot, DbError(s) \/ Committing(s)
  PROVE  /\ request[s].phase = "handling"
         /\ request'[s].phase = "answered" /\ request'[s].batch = request[s].batch
         /\ request' \in [Slot -> Request]
         /\ \A t \in Slot \ {s} : request'[t] = request[t] /\ request[t].phase # "handling"
         /\ txn' = NoTxn
         /\ UNCHANGED <<grafana, api>>
<1>1. request[s].phase = "handling" /\ txn' = NoTxn /\ UNCHANGED <<grafana, api>>
  BY DEF DbError, Committing, Commit, CommitUnheard, Store
<1>2. \E code \in {202, 500} : Answer(s, code)
  BY DEF DbError, Committing, Commit, CommitUnheard
<1>3. \A code \in {202, 500} :
        [phase |-> "answered", batch |-> request[s].batch, code |-> code] \in Request
  BY DEF TypeOK, Request
<1> QED
  BY <1>1, <1>2, <1>3 DEF Answer, OneAtATime, TypeOK

LEMMA BeginEffect ==
  ASSUME TypeOK, NEW s \in Slot, Begin(s)
  PROVE  /\ ~txn.open
         /\ request'[s].phase = "handling" /\ request'[s].batch = request[s].batch
         /\ request' \in [Slot -> Request]
         /\ \A t \in Slot \ {s} : request'[t] = request[t] /\ request[t].phase # "handling"
         /\ txn' = [open |-> TRUE, todo |-> request[s].batch, incidents |-> {}, jobs |-> {}]
         /\ UNCHANGED <<grafana, api, tables, faults>>
<1>1. [phase |-> "handling", batch |-> request[s].batch, code |-> 0] \in Request
  BY DEF TypeOK, Request
<1> QED
  BY <1>1 DEF Begin, Waiting, TypeOK

LEMMA TypeStep ==
  ASSUME TypeOK, OneAtATime, [Next]_vars
  PROVE  TypeOK'
<1>1. CASE Outside
  <2>1. /\ alert' \in [Alert -> {"quiet", "firing", "resolved"}] /\ acked' \subseteq Alert
        /\ api' \in {"up", "down"} /\ faults' \in 0..MaxFaults
    BY <1>1 DEF Outside, Fire, Resolve, Post, Lose, Hear, RefuseSize, RefuseBroken,
                RefuseLate, Restart, Fault, grafana, TypeOK, Request
  <2> QED
    BY <1>1, <2>1, OutsideKeeps DEF TypeOK
<1>2. ASSUME NEW s \in Slot, Begin(s) PROVE TypeOK'
  <2>1. txn' \in Transaction /\ txn'.open
    <3>1. request[s].batch \subseteq Alert
      BY DEF TypeOK, Request
    <3>2. txn' = [open |-> TRUE, todo |-> request[s].batch, incidents |-> {}, jobs |-> {}]
      BY <1>2, BeginEffect
    <3> QED
      BY <3>1, <3>2 DEF Transaction
  <2> QED
    BY <1>2, <2>1, BeginEffect DEF TypeOK, grafana, tables
<1>3. ASSUME NEW a \in Alert, SkipDuplicate(a) PROVE TypeOK'
  <2>1. txn' \in Transaction /\ txn'.open = txn.open
    BY <1>3 DEF SkipDuplicate, TypeOK, Transaction
  <2> QED
    BY <1>3, <2>1 DEF SkipDuplicate, TypeOK, grafana, tables
<1>4. ASSUME NEW a \in Alert, NEW id \in Id, Insert(a, id) PROVE TypeOK'
  <2>1. [id |-> id, episode |-> EpisodeOf[a]] \in Incident
    BY DEF Incident
  <2>2. txn' \in Transaction /\ txn'.open /\ txn.open
    BY <1>4, <2>1 DEF Insert, TypeOK, Transaction
  <2> QED
    BY <1>4, <2>2 DEF Insert, TypeOK, grafana, tables
<1>5. ASSUME NEW s \in Slot, DbError(s) \/ Committing(s) PROVE TypeOK'
  <2>1. incidents' \subseteq Incident /\ jobs' \subseteq Id /\ faults' \in 0..MaxFaults
    <3>1. /\ faults' = faults \/ Fault
          /\ \/ incidents' = incidents /\ jobs' = jobs
             \/ incidents' = incidents \cup txn.incidents /\ jobs' = jobs \cup txn.jobs
      BY <1>5 DEF DbError, Committing, Commit, CommitUnheard, Store, tables
    <3>2. txn.incidents \subseteq Incident /\ txn.jobs \subseteq Id
      BY DEF TypeOK, Transaction
    <3>3. faults' \in 0..MaxFaults
      BY <3>1 DEF Fault, TypeOK
    <3> QED
      BY <3>1, <3>2, <3>3 DEF TypeOK
  <2>2. txn' \in Transaction /\ ~txn'.open
    <3>1. NoTxn \in Transaction /\ ~NoTxn.open
      BY DEF NoTxn, Transaction
    <3> QED
      BY <1>5, <3>1, EndEffect
  <2>3. ~\E t \in Slot : request'[t].phase = "handling"
    BY <1>5, EndEffect
  <2> QED
    BY <1>5, <2>1, <2>2, <2>3, EndEffect DEF TypeOK, grafana
<1>6. CASE Crash
  <2>1. request' \in [Slot -> Request] /\ ~\E t \in Slot : request'[t].phase = "handling"
    BY <1>6 DEF Crash, Free, Request, TypeOK
  <2>2. txn' \in Transaction /\ ~txn'.open
    BY <1>6 DEF Crash, NoTxn, Transaction
  <2> QED
    BY <1>6, <2>1, <2>2 DEF Crash, Fault, TypeOK, grafana, tables
<1>7. CASE UNCHANGED vars
  BY <1>7 DEF vars, TypeOK
<1> QED
  BY <1>1, <1>2, <1>3, <1>4, <1>5, <1>6, <1>7, Steps DEF Row

(* The handler is entered only when no transaction is open.                *)
LEMMA OneAtATimeStep ==
  ASSUME TypeOK, OneAtATime, [Next]_vars
  PROVE  OneAtATime'
<1>1. CASE Outside
  BY <1>1, OutsideKeeps DEF OneAtATime
<1>2. ASSUME NEW s \in Slot, Begin(s) PROVE OneAtATime'
  BY <1>2, BeginEffect DEF OneAtATime
<1>3. CASE Row
  BY <1>3 DEF Row, SkipDuplicate, Insert, OneAtATime
<1>4. ASSUME NEW s \in Slot, DbError(s) \/ Committing(s) PROVE OneAtATime'
  BY <1>4, EndEffect DEF OneAtATime
<1>5. CASE Crash
  BY <1>5 DEF Crash, Free, OneAtATime, TypeOK
<1>6. CASE UNCHANGED vars
  BY <1>6 DEF vars, OneAtATime
<1> QED
  BY <1>1, <1>2, <1>3, <1>4, <1>5, <1>6, Steps

(* An insert brings a new episode under a new id; a commit moves the rows  *)
(* flushed to those stored, and an error or a death drops them.            *)
LEMMA RowsStep ==
  ASSUME TypeOK, OneAtATime, RowsApart, [Next]_vars
  PROVE  RowsApart'
<1>1. CASE Outside
  BY <1>1, OutsideKeeps DEF RowsApart
<1>2. ASSUME NEW s \in Slot, Begin(s) PROVE RowsApart'
  BY <1>2, BeginEffect DEF RowsApart, tables
<1>3. ASSUME NEW a \in Alert, SkipDuplicate(a) PROVE RowsApart'
  BY <1>3 DEF SkipDuplicate, RowsApart, tables, TypeOK, Transaction
<1>4. ASSUME NEW a \in Alert, NEW id \in Id, Insert(a, id) PROVE RowsApart'
  <2> DEFINE new == [id |-> id, episode |-> EpisodeOf[a]]
  <2>1. /\ txn'.incidents = txn.incidents \cup {new} /\ txn'.jobs = txn.jobs \cup {id}
        /\ UNCHANGED <<incidents, jobs>>
    BY <1>4 DEF Insert, tables
  <2>2. \A i \in incidents \cup txn.incidents : i.episode # new.episode /\ i.id # new.id
    BY <1>4 DEF Insert, Known, Used
  <2>3. new.id = id
    OBVIOUS
  <2> HIDE DEF new
  <2>4. txn'.jobs = {i.id : i \in txn'.incidents}
    BY <2>1, <2>3 DEF RowsApart
  <2> QED
    BY <2>1, <2>2, <2>4 DEF RowsApart
<1>5. ASSUME NEW s \in Slot, DbError(s) \/ Committing(s) PROVE RowsApart'
  <2>1. txn'.incidents = {} /\ txn'.jobs = {}
    BY <1>5, EndEffect DEF NoTxn
  <2>2. \/ incidents' = incidents /\ jobs' = jobs
        \/ incidents' = incidents \cup txn.incidents /\ jobs' = jobs \cup txn.jobs
    BY <1>5 DEF DbError, Committing, Commit, CommitUnheard, Store, tables
  <2>3. jobs' = {i.id : i \in incidents'} /\ txn'.jobs = {i.id : i \in txn'.incidents}
    BY <2>1, <2>2 DEF RowsApart
  <2> QED
    BY <2>1, <2>2, <2>3 DEF RowsApart
<1>6. CASE Crash
  BY <1>6 DEF Crash, NoTxn, RowsApart, tables
<1>7. CASE UNCHANGED vars
  BY <1>7 DEF vars, RowsApart
<1> QED
  BY <1>1, <1>2, <1>3, <1>4, <1>5, <1>6, <1>7, Steps DEF Row

(* An alert leaves the list of what is to do only into the rows.           *)
LEMMA ProgressStep ==
  ASSUME TypeOK, OneAtATime, BatchProgress, [Next]_vars
  PROVE  BatchProgress'
<1>1. CASE Outside
  BY <1>1, OutsideKeeps DEF BatchProgress, Known
<1>2. ASSUME NEW s \in Slot, Begin(s) PROVE BatchProgress'
  BY <1>2, BeginEffect DEF BatchProgress
<1>3. ASSUME NEW a \in Alert, SkipDuplicate(a) PROVE BatchProgress'
  <2>1. /\ txn'.todo = txn.todo \ {a} /\ txn'.incidents = txn.incidents
        /\ UNCHANGED <<request, incidents>>
        /\ Known(EpisodeOf[a])
    BY <1>3 DEF SkipDuplicate, tables, TypeOK, Transaction
  <2> QED
    BY <2>1 DEF BatchProgress, Known
<1>4. ASSUME NEW a \in Alert, NEW id \in Id, Insert(a, id) PROVE BatchProgress'
  <2> DEFINE new == [id |-> id, episode |-> EpisodeOf[a]]
  <2>1. /\ txn'.todo = txn.todo \ {a} /\ txn'.incidents = txn.incidents \cup {new}
        /\ UNCHANGED <<request, incidents>> /\ a \in txn.todo
    BY <1>4 DEF Insert, tables
  <2>2. new.episode = EpisodeOf[a]
    OBVIOUS
  <2> HIDE DEF new
  <2> QED
    BY <2>1, <2>2 DEF BatchProgress, Known
<1>5. ASSUME NEW s \in Slot, DbError(s) \/ Committing(s) PROVE BatchProgress'
  BY <1>5, EndEffect DEF BatchProgress
<1>6. CASE Crash
  BY <1>6 DEF Crash, Free, BatchProgress, TypeOK
<1>7. CASE UNCHANGED vars
  BY <1>7 DEF vars, BatchProgress, Known
<1> QED
  BY <1>1, <1>2, <1>3, <1>4, <1>5, <1>6, <1>7, Steps DEF Row

(* What a commit stores is the batch, beside what was stored before.       *)
LEMMA CommitStoresBatch ==
  ASSUME TypeOK, BatchProgress, NEW s \in Slot, Committing(s)
  PROVE  {i.episode : i \in incidents'} =
           StoredEpisodes \cup {EpisodeOf[a] : a \in request[s].batch}
<1>1. /\ request[s].phase = "handling" /\ txn.todo = {}
      /\ incidents' = incidents \cup txn.incidents
  BY DEF Committing, Commit, CommitUnheard, Store
<1>2. \A a \in request[s].batch : \E i \in incidents' : i.episode = EpisodeOf[a]
  BY <1>1 DEF BatchProgress, Known
<1>3. \A i \in txn.incidents : \E a \in request[s].batch : i.episode = EpisodeOf[a]
  BY <1>1 DEF BatchProgress
<1> QED
  BY <1>1, <1>2, <1>3 DEF StoredEpisodes

(* What is stored stays.                                                   *)
LEMMA StoredStays ==
  ASSUME TypeOK, [Next]_vars
  PROVE  incidents \subseteq incidents'
<1>1. CASE Outside
  BY <1>1, OutsideKeeps
<1>2. CASE Row \/ Crash \/ \E s \in Slot : Begin(s) \/ DbError(s) \/ Committing(s)
  BY <1>2 DEF Row, SkipDuplicate, Insert, Crash, Begin, DbError, Committing, Commit,
              CommitUnheard, Store, tables
<1> QED
  BY <1>1, <1>2, Steps DEF vars

(* A 202 is given to a batch by the commit that stored it.                 *)
LEMMA AcknowledgedStep ==
  ASSUME TypeOK, OneAtATime, BatchProgress, AcknowledgedIsStored, [Next]_vars
  PROVE  AcknowledgedIsStored'
<1> DEFINE Heard(s) == request[s].phase = "answered" /\ request[s].code = 202
<1>0. \A a : Stored(a) => Stored(a)'
  BY StoredStays DEF Stored, StoredEpisodes
<1>s. ASSUME \A s \in Slot : Heard(s)' => request'[s] = request[s],
             \A a \in acked' : a \in acked \/ Stored(a)
      PROVE  AcknowledgedIsStored'
  <2>1. \A a \in acked' : Stored(a)'
    BY <1>0, <1>s DEF AcknowledgedIsStored
  <2>2. ASSUME NEW t \in Slot, Heard(t)' PROVE \A a \in request'[t].batch : Stored(a)'
    <3>1. Heard(t) /\ request'[t].batch = request[t].batch
      BY <1>s, <2>2
    <3> QED
      BY <1>0, <3>1 DEF AcknowledgedIsStored
  <2> QED
    BY <2>1, <2>2 DEF AcknowledgedIsStored
<1>1. CASE (\E a \in Alert : Fire(a) \/ Resolve(a)) \/ Row \/ Restart
  BY <1>s, <1>1 DEF Fire, Resolve, Row, SkipDuplicate, Insert, Restart, grafana
<1>2. ASSUME NEW s \in Slot, \/ Post(s) \/ RefuseSize(s) \/ RefuseBroken(s) \/ RefuseLate(s)
                             \/ Lose(s) \/ Begin(s)
      PROVE  AcknowledgedIsStored'
  BY <1>s, <1>2 DEF Post, RefuseSize, RefuseBroken, RefuseLate, Answer, Lose, Begin, Free,
                    grafana, TypeOK
<1>3. ASSUME NEW s \in Slot, Hear(s) PROVE AcknowledgedIsStored'
  <2>1. \A a \in acked' : a \in acked \/ Stored(a)
    BY <1>3 DEF Hear, AcknowledgedIsStored
  <2>2. \A t \in Slot : Heard(t)' => request'[t] = request[t]
    BY <1>3 DEF Hear, Free, TypeOK
  <2> QED
    BY <1>s, <2>1, <2>2
<1>4. ASSUME NEW s \in Slot, DbError(s) \/ CommitUnheard(s) PROVE AcknowledgedIsStored'
  BY <1>s, <1>4 DEF DbError, CommitUnheard, Answer, grafana, TypeOK
<1>5. ASSUME NEW s \in Slot, Commit(s) PROVE AcknowledgedIsStored'
  <2>1. \A a \in request[s].batch : Stored(a)'
    BY <1>5, CommitStoresBatch DEF Committing, Stored, StoredEpisodes
  <2>2. /\ request'[s].batch = request[s].batch
        /\ \A t \in Slot \ {s} : request'[t] = request[t]
        /\ acked' = acked
    BY <1>5, EndEffect DEF Committing, grafana
  <2> QED
    BY <1>0, <2>1, <2>2 DEF AcknowledgedIsStored
<1>6. CASE Crash
  BY <1>s, <1>6 DEF Crash, Free, grafana
<1>7. CASE UNCHANGED vars
  BY <1>s, <1>7 DEF vars
<1> QED
  BY <1>1, <1>2, <1>3, <1>4, <1>5, <1>6, <1>7, Steps DEF Outside, Committing

--------------------------------------------------------------------------------
(* The invariant and what follows from it.                                 *)

LEMMA InitEstablishes == Init => IInv
  BY DEF Init, IInv, TypeOK, OneAtATime, RowsApart, BatchProgress, AcknowledgedIsStored,
         Free, Request, NoTxn, Transaction, Incident

LEMMA StepPreserves == IInv /\ [Next]_vars => IInv'
  BY TypeStep, OneAtATimeStep, RowsStep, ProgressStep, AcknowledgedStep DEF IInv

(* IInv is inductive: no post, answer, row, fault or restart leaves it.    *)
THEOREM Invariance == Spec => []IInv
  BY InitEstablishes, StepPreserves, PTL DEF Spec

(* create_incidents answers 202 only to a batch whose incidents are        *)
(* stored, so Grafana gives up posting no alert that is not.               *)
THEOREM AcknowledgedStored == Spec => []AcknowledgedIsStored
<1>1. IInv => AcknowledgedIsStored
  BY DEF IInv
<1> QED
  BY <1>1, Invariance, PTL

(* create_many_with_jobs stores one incident for an episode, and one job   *)
(* for an incident, however often and in whichever batches it is posted.   *)
THEOREM EpisodesUnique == Spec => []OneIncidentPerEpisode
<1>1. IInv => OneIncidentPerEpisode
  BY DEF IInv, RowsApart, OneIncidentPerEpisode
<1> QED
  BY <1>1, Invariance, PTL

(* A transaction stores all of its batch or nothing.                       *)
THEOREM BatchesAtomic == Spec => BatchAtomic
<1> DEFINE Whole == incidents' # incidents =>
      \E s \in Slot : /\ request[s].phase = "handling"
                      /\ {i.episode : i \in incidents'} =
                           StoredEpisodes \cup {EpisodeOf[a] : a \in request[s].batch}
<1>1. IInv /\ [Next]_vars => Whole
  <2> SUFFICES ASSUME IInv, [Next]_vars, incidents' # incidents PROVE Whole
    OBVIOUS
  <2> USE DEF IInv
  <2>1. PICK s \in Slot : Committing(s)
    <3>1. ~Outside
      BY OutsideKeeps
    <3>2. ~(Row \/ Crash \/ \E s \in Slot : Begin(s) \/ DbError(s))
      BY DEF Row, SkipDuplicate, Insert, Crash, Begin, DbError, tables
    <3> QED
      BY <3>1, <3>2, Steps DEF vars
  <2> QED
    BY <2>1, EndEffect, CommitStoresBatch
<1> QED
  BY <1>1, Invariance, PTL DEF Spec, BatchAtomic

--------------------------------------------------------------------------------
(* The API as the job queue sees it: incidents, by their ids, that are     *)
(* unknown until their jobs are stored, and then open.                     *)

Opened == [i \in Id |-> IF i \in jobs THEN "open" ELSE "unknown"]

Queue == INSTANCE AnalysisOutcome WITH
  Incident <- Id,
  Attempt <- {},
  outcome <- Opened,
  bundles <- {},
  results <- {},
  outbox <- {}

(* The jobs of a transaction are of incidents the queue does not know yet. *)
LEMMA FlushedIsNew ==
  ASSUME IInv
  PROVE  txn.jobs \subseteq Id /\ txn.jobs \cap jobs = {}
<1>1. txn.jobs \subseteq Id
  BY DEF IInv, TypeOK, Transaction
<1>2. ASSUME NEW id \in txn.jobs, id \in jobs PROVE FALSE
  <2>1. PICK i \in txn.incidents : i.id = id
    BY <1>2 DEF IInv, RowsApart
  <2>2. PICK j \in incidents : j.id = id
    BY <1>2 DEF IInv, RowsApart
  <2> QED
    BY <2>1, <2>2 DEF IInv, RowsApart
<1> QED
  BY <1>1, <1>2

(* Only a commit changes the jobs, and it adds those of its transaction.   *)
LEMMA JobsChange ==
  ASSUME IInv, [Next]_vars
  PROVE  jobs' = jobs \/ jobs' = jobs \cup txn.jobs
<1>1. CASE Outside
  BY <1>1, OutsideKeeps DEF IInv
<1>2. CASE Row \/ Crash \/ \E s \in Slot : Begin(s) \/ DbError(s)
  BY <1>2 DEF Row, SkipDuplicate, Insert, Crash, Begin, DbError, tables
<1>3. ASSUME NEW s \in Slot, Committing(s) PROVE jobs' = jobs \cup txn.jobs
  BY <1>3 DEF Committing, Commit, CommitUnheard, Store
<1>4. CASE UNCHANGED vars
  BY <1>4 DEF vars
<1> QED
  BY <1>1, <1>2, <1>3, <1>4, Steps

(* Whatever is lost, late, posted twice, rolled back or cut by a death,    *)
(* the queue sees whole batches of new incidents appear, as the Enqueue of *)
(* AnalysisJobs has it, and no job vanish (create_many_with_jobs).         *)
THEOREM OpensNewBatches == Spec => Queue!Spec
<1>1. Init => Queue!Init
  BY DEF Init, Queue!Init, Opened
<1>2. IInv /\ [Next]_vars => [Queue!Next]_(Queue!vars)
  <2> SUFFICES ASSUME IInv, [Next]_vars PROVE [Queue!Next]_(Queue!vars)
    OBVIOUS
  <2>1. CASE jobs' = jobs
    BY <2>1 DEF Queue!vars, Opened
  <2>2. CASE jobs' = jobs \cup txn.jobs
    <3>1. txn.jobs \subseteq Id /\ \A i \in txn.jobs : Opened[i] = "unknown"
      BY FlushedIsNew DEF Opened
    <3>2. Opened' = [i \in Id |-> IF i \in txn.jobs THEN "open" ELSE Opened[i]]
      BY <2>2 DEF Opened
    <3>3. Queue!Open(txn.jobs)
      BY <3>1, <3>2 DEF Queue!Open
    <3> QED
      BY <3>1, <3>3 DEF Queue!Next
  <2> QED
    BY <2>1, <2>2, JobsChange
<1> QED
  BY <1>1, <1>2, Invariance, PTL DEF Spec, Queue!Spec

================================================================================
