--------------------------- MODULE SchemaRolloutProofs ---------------------------
(***************************************************************************)
(* Proofs about SchemaRollout for every set of incident ids and episodes,  *)
(* and any number of deployments and kills.  Lemmas on the four migrations *)
(* come first, then one lemma per conjunct of IInv, then the theorems.     *)
(***************************************************************************)
EXTENDS SchemaRollout, TLAPS

USE BoundAssumption

(***************************************************************************)
(* The migrations                                                          *)
(***************************************************************************)

LEMMA Lengths ==
  /\ Latest = 4 /\ Latest \in Nat
  /\ Len(Upgrade[1]) = 4 /\ Len(Upgrade[2]) = 2
  /\ Len(Upgrade[3]) = 2 /\ Len(Upgrade[4]) = 7
  BY DEF Latest, Upgrade, IncidentStorage, AnalysisStorage, DeliveryStorage, EpisodeDedup

LEMMA Sizes ==
  \A m \in 1..4 : Len(Upgrade[m]) \in Nat /\ 1 <= Len(Upgrade[m]) /\ Len(Upgrade[m]) <= 7
<1>1. \A m \in 1..4 : Len(Upgrade[m]) \in {2, 4, 7}
  BY Lengths
<1>2. \A x \in {2, 4, 7} : x \in Nat /\ 1 <= x /\ x <= 7
  OBVIOUS
<1> QED
  BY <1>1, <1>2

LEMMA Statements ==
  /\ Upgrade[1][1] = Create("incidents")
  /\ Upgrade[1][2] = Create("ix_incidents_dedup_started")
  /\ Upgrade[1][3] = Create("analysis_jobs")
  /\ Upgrade[1][4] = Create("ix_analysis_jobs_claim")
  /\ Upgrade[2][1] = Create("evidence_bundles")
  /\ Upgrade[2][2] = Create("analysis_results")
  /\ Upgrade[3][1] = Create("notification_deliveries")
  /\ Upgrade[3][2] = Create("ix_notification_deliveries_claim")
  /\ Upgrade[4][1] = Purge("notification_deliveries")
  /\ Upgrade[4][2] = Purge("analysis_results")
  /\ Upgrade[4][3] = Purge("evidence_bundles")
  /\ Upgrade[4][4] = Purge("analysis_jobs")
  /\ Upgrade[4][5] = Purge("incidents")
  /\ Upgrade[4][6] = Drop("ix_incidents_dedup_started")
  /\ Upgrade[4][7] = Create("uq_incident_episode")
  BY DEF Upgrade, IncidentStorage, AnalysisStorage, DeliveryStorage, EpisodeDedup

LEMMA Kinds ==
  \A m \in 1..4 : \A n \in 1..Len(Upgrade[m]) :
    /\ Upgrade[m][n].op \in {"create", "drop", "purge"}
    /\ Upgrade[m][n].op = "purge" <=> m = 4 /\ n <= 5
    /\ Upgrade[m][n].op = "drop" <=> m = 4 /\ n = 6
<1> SUFFICES ASSUME NEW m \in 1..4, NEW n \in 1..Len(Upgrade[m])
             PROVE  /\ Upgrade[m][n].op \in {"create", "drop", "purge"}
                    /\ Upgrade[m][n].op = "purge" <=> m = 4 /\ n <= 5
                    /\ Upgrade[m][n].op = "drop" <=> m = 4 /\ n = 6
  OBVIOUS
<1>1. m = 1 \/ m = 2 \/ m = 3 \/ m = 4
  OBVIOUS
<1>2. CASE m = 1
  <2>1. n = 1 \/ n = 2 \/ n = 3 \/ n = 4
    BY <1>2, Lengths
  <2> QED
    BY <1>2, <2>1, Statements DEF Create
<1>3. CASE m \in {2, 3}
  <2>1. n = 1 \/ n = 2
    BY <1>3, Lengths
  <2> QED
    BY <1>3, <2>1, Statements DEF Create
<1>4. CASE m = 4
  <2>1. n = 1 \/ n = 2 \/ n = 3 \/ n = 4 \/ n = 5 \/ n = 6 \/ n = 7
    BY <1>4, Lengths
  <2> QED
    BY <1>4, <2>1, Statements DEF Create, Drop, Purge
<1> QED
  BY <1>1, <1>2, <1>3, <1>4

(* No migration drops what it creates.                                     *)
LEMMA CreatedStays ==
  ASSUME NEW m \in 1..4, NEW n \in 1..Len(Upgrade[m]), NEW k \in 1..Len(Upgrade[m]),
         Upgrade[m][n].op = "create", Upgrade[m][k].op = "drop"
  PROVE  Upgrade[m][n].on # Upgrade[m][k].on
<1>1. m = 4 /\ k = 6
  BY Kinds
<1>2. n = 7
  <2>1. Upgrade[m] = Upgrade[4]
    BY <1>1
  <2>2. n <= 7 /\ n \in Nat
    BY <2>1, Lengths
  <2>3. ~(n <= 5) /\ n # 6
    BY <1>1, Kinds
  <2> QED
    BY <2>2, <2>3
<1>3. Upgrade[4][6].on = "ix_incidents_dedup_started" /\ Upgrade[4][7].on = "uq_incident_episode"
  BY Statements DEF Create, Drop
<1>4. Upgrade[m][n].on = Upgrade[4][7].on /\ Upgrade[m][k].on = Upgrade[4][6].on
  BY <1>1, <1>2
<1> QED
  BY <1>3, <1>4

(* What the statements of a kind among the first of a migration name.      *)
On(m, op, n) == {Upgrade[m][k].on : k \in {j \in 1..(n - 1) : Upgrade[m][j].op = op}}

(* One more statement of a migration puts its object there, takes it away, *)
(* or leaves the schema alone.                                             *)
LEMMA DoneSteps ==
  ASSUME NEW r \in 0..3, NEW n \in 1..Len(Upgrade[r + 1])
  PROVE  LET s == Upgrade[r + 1][n] IN
           /\ s.op = "create" => Done(r, n + 1) = Done(r, n) \cup {s.on}
           /\ s.op = "drop" => Done(r, n + 1) = Done(r, n) \ {s.on}
           /\ s.op = "purge" => Done(r, n + 1) = Done(r, n)
<1> DEFINE m == r + 1
<1>0. m \in 1..4 /\ n \in Nat /\ Len(Upgrade[m]) \in Nat
  BY Lengths
<1>1. \A op :
        /\ Upgrade[m][n].op = op => On(m, op, n + 1) = On(m, op, n) \cup {Upgrade[m][n].on}
        /\ Upgrade[m][n].op # op => On(m, op, n + 1) = On(m, op, n)
  <2>1. ASSUME NEW op, NEW k \in 1..(n + 1 - 1) PROVE k = n \/ k \in 1..(n - 1)
    BY <1>0
  <2>2. 1..(n - 1) \subseteq 1..(n + 1 - 1) /\ n \in 1..(n + 1 - 1)
    BY <1>0
  <2> QED
    BY <2>1, <2>2 DEF On
<1>2. ASSUME Upgrade[m][n].op = "create"
      PROVE  Upgrade[m][n].on \notin On(m, "drop", n)
  <2>1. \A k \in 1..(n - 1) : k \in 1..Len(Upgrade[m])
    BY <1>0
  <2> QED
    BY <2>1, <1>0, <1>2, CreatedStays DEF On
<1>3. \A x \in Nat : Done(r, x) = (SchemaAt(r) \cup On(m, "create", x)) \ On(m, "drop", x)
  BY DEF Done, On
<1>4. Upgrade[m][n].op \in {"create", "drop", "purge"}
  BY <1>0, Kinds
<1>8. n \in Nat /\ n + 1 \in Nat
  BY <1>0
<1> HIDE DEF m
<1>5. CASE Upgrade[m][n].op = "create"
  <2>1. On(m, "create", n + 1) = On(m, "create", n) \cup {Upgrade[m][n].on}
    BY <1>1, <1>5
  <2>2. On(m, "drop", n + 1) = On(m, "drop", n)
    BY <1>1, <1>5
  <2> QED
    BY <2>1, <2>2, <1>2, <1>3, <1>5, <1>8 DEF m
<1>6. CASE Upgrade[m][n].op = "drop"
  <2>1. On(m, "drop", n + 1) = On(m, "drop", n) \cup {Upgrade[m][n].on}
    BY <1>1, <1>6
  <2>2. On(m, "create", n + 1) = On(m, "create", n)
    BY <1>1, <1>6
  <2> QED
    BY <2>1, <2>2, <1>3, <1>6, <1>8 DEF m
<1>7. CASE Upgrade[m][n].op = "purge"
  <2>1. On(m, "drop", n + 1) = On(m, "drop", n) /\ On(m, "create", n + 1) = On(m, "create", n)
    BY <1>1, <1>7
  <2> QED
    BY <2>1, <1>3, <1>7, <1>8 DEF m
<1> QED
  BY <1>4, <1>5, <1>6, <1>7 DEF m

(* A migration that has not begun is the revision before it, one that has  *)
(* ended the revision after.                                               *)
LEMMA DoneEnds ==
  /\ \A r \in 0..4 : Done(r, 1) = SchemaAt(r)
  /\ \A r \in 0..3 : Done(r, Len(Upgrade[r + 1]) + 1) = SchemaAt(r + 1)
<1> DEFINE Made(op, r) == UNION {On(m, op, Len(Upgrade[m]) + 1) : m \in 1..r}
<1>1. \A m \in 1..4 : Len(Upgrade[m]) \in Nat /\ 1..(Len(Upgrade[m]) + 1 - 1) = 1..Len(Upgrade[m])
  BY Lengths
<1>2. \A r \in 0..4 : SchemaAt(r) = Made("create", r) \ Made("drop", r)
  <2> DEFINE Of(op, m) ==
        {Upgrade[m][n].on : n \in {k \in 1..Len(Upgrade[m]) : Upgrade[m][k].op = op}}
  <2>1. \A op : \A m \in 1..4 : Of(op, m) = On(m, op, Len(Upgrade[m]) + 1)
    BY <1>1 DEF On
  <2>2. \A r \in 0..4 : SchemaAt(r) =
          {object \in UNION {Of("create", m) : m \in 1..r} :
             ~\E m \in 1..r : object \in Of("drop", m)}
    BY DEF SchemaAt
  <2> HIDE DEF Of
  <2>3. ASSUME NEW r \in 0..4, NEW op
        PROVE  UNION {Of(op, m) : m \in 1..r} = Made(op, r)
    <3>1. \A m \in 1..r : Of(op, m) = On(m, op, Len(Upgrade[m]) + 1)
      <4>1. 1..r \subseteq 1..4
        OBVIOUS
      <4> QED
        BY <2>1, <4>1
    <3> QED
      BY <3>1
  <2> HIDE DEF Made
  <2>4. ASSUME NEW r \in 0..4
        PROVE  SchemaAt(r) = {object \in UNION {Of("create", m) : m \in 1..r} :
                                object \notin UNION {Of("drop", m) : m \in 1..r}}
    BY <2>2
  <2>5. \A r \in 0..4 : SchemaAt(r) = {object \in Made("create", r) : object \notin Made("drop", r)}
    BY <2>3, <2>4
  <2> QED
    BY <2>5
<1>3. \A op, m : On(m, op, 1) = {}
  BY DEF On
<1>4. \A r \in 0..4, x \in Nat :
        Done(r, x) = (SchemaAt(r) \cup On(r + 1, "create", x)) \ On(r + 1, "drop", x)
  BY DEF Done, On
<1>5. ASSUME NEW r \in 0..3
      PROVE  /\ Made("create", r + 1) = Made("create", r) \cup On(r + 1, "create", Len(Upgrade[r + 1]) + 1)
             /\ Made("drop", r + 1) = Made("drop", r) \cup On(r + 1, "drop", Len(Upgrade[r + 1]) + 1)
  <2>1. 1..(r + 1) = 1..r \cup {r + 1}
    OBVIOUS
  <2> QED
    BY <2>1
<1>6. \A r \in 0..3 : Made("drop", r) = {}
  <2>1. \A r \in 0..3 : \A m \in 1..r : m \in 1..4 /\ m # 4
    OBVIOUS
  <2> QED
    BY <2>1, <1>1, Kinds DEF On
<1> HIDE DEF Made
<1>7. ASSUME NEW r \in 0..3
      PROVE  Done(r, Len(Upgrade[r + 1]) + 1) = SchemaAt(r + 1)
  <2>1. r \in 0..4 /\ r + 1 \in 0..4 /\ Len(Upgrade[r + 1]) + 1 \in Nat
    BY <1>1
  <2> QED
    BY <2>1, <1>2, <1>4, <1>5, <1>6
<1> QED
  BY <1>3, <1>4, <1>7


(* While only rows were deleted, the schema is that of the revision.       *)
LEMMA DonePurges ==
  ASSUME NEW r \in 0..3, NEW x \in Nat,
         \A n \in 1..(x - 1) : Upgrade[r + 1][n].op = "purge"
  PROVE  Done(r, x) = SchemaAt(r)
  BY DEF Done

(* What a migration creates is in the schema it ends with.                 *)
LEMMA CreatedInSchema ==
  ASSUME NEW m \in 1..4, NEW n \in 1..Len(Upgrade[m]), Upgrade[m][n].op = "create"
  PROVE  /\ Upgrade[m][n].on \in SchemaAt(m)
         /\ Upgrade[m][n].on \in UNION {SchemaAt(r) : r \in 0..Latest}
<1>1. Len(Upgrade[m]) \in Nat /\ 1..(Len(Upgrade[m]) + 1 - 1) = 1..Len(Upgrade[m])
  BY Lengths
<1>2. m - 1 \in 0..3 /\ (m - 1) + 1 = m /\ m \in 0..Latest
  BY Lengths
<1>3. SchemaAt(m) = Done(m - 1, Len(Upgrade[m]) + 1)
  BY <1>2, DoneEnds
<1>4. Done(m - 1, Len(Upgrade[m]) + 1) =
        (SchemaAt(m - 1) \cup On(m, "create", Len(Upgrade[m]) + 1))
          \ On(m, "drop", Len(Upgrade[m]) + 1)
  BY <1>2 DEF Done, On
<1>5. Upgrade[m][n].on \in On(m, "create", Len(Upgrade[m]) + 1)
  BY <1>1 DEF On
<1>6. Upgrade[m][n].on \notin On(m, "drop", Len(Upgrade[m]) + 1)
  BY <1>1, CreatedStays DEF On
<1> QED
  BY <1>2, <1>3, <1>4, <1>5, <1>6

(***************************************************************************)
(* The steps                                                               *)
(***************************************************************************)

(* What the deployment does outside the migration.                         *)
Staging ==
  Deploy \/ Revoke \/ Grant \/ Migrated \/ Start \/ GatePasses \/ GateFails

Live ==
  \/ \E id \in Id, episode \in Episode : Report(id, episode)
  \/ \E id \in Id : CompleteJob(id)

LEMMA Steps ==
  Next <=> \/ Live \/ Staging \/ PurgeStep \/ SchemaStep \/ SchemaStepFails
           \/ PurgeStepFails \/ Stamp \/ Kill
  BY DEF Next, Live, Staging

(* The migration that runs, and its statement.                             *)
LEMMA Where ==
  ASSUME TypeOK, StepWithin
  PROVE  /\ revision # Latest => revision \in 0..3 /\ revision + 1 \in 1..4
         /\ step \in Nat /\ Latest = 4
         /\ Within => /\ step \in 1..Len(Upgrade[revision + 1])
                      /\ Statement.op \in {"create", "drop", "purge"}
                      /\ Statement.op = "purge" <=> revision = 3 /\ step <= 5
<1>1. revision # Latest => revision \in 0..3 /\ revision + 1 \in 1..4
  BY Lengths DEF TypeOK
<1>2. Within => step \in 1..Len(Upgrade[revision + 1]) /\ revision # Latest
  BY <1>1, Lengths DEF TypeOK, Within, Running
<1>3. revision \in 0..3 => (revision + 1 = 4 <=> revision = 3)
  OBVIOUS
<1> QED
  BY <1>1, <1>2, <1>3, Kinds, Lengths DEF TypeOK, Statement

LEMMA DuplicateIs ==
  \A x : x \in Duplicates <=>
    \E i, keeper \in incidents :
      i.id = x /\ keeper.episode = i.episode /\ keeper.id # i.id /\ keeper.id < i.id
  BY DEF Duplicates, Twins

LEMMA DuplicateIsNext ==
  \A x : x \in Duplicates' <=>
    \E i, keeper \in incidents' :
      i.id = x /\ keeper.episode = i.episode /\ keeper.id # i.id /\ keeper.id < i.id
  BY DEF Duplicates, Twins

(* Between its schema statements a transaction commits the deletion of an  *)
(* incident with all its rows, or of nothing.                              *)
LEMMA CommitEffect ==
  ASSUME TypeOK, StepWithin, DoomedTogether, Within, Statement.op # "purge", CommitPurge
  PROVE  /\ incidents' = {i \in incidents : i.id \notin doomed["incidents"]}
         /\ doomed["incidents"] \subseteq Duplicates
         /\ rows' \in [Children -> SUBSET Id]
         /\ \A t \in Children : rows'[t] = rows[t] \ doomed["incidents"]
         /\ doomed' = Nothing
<1>1. doomed["incidents"] \subseteq Duplicates
  BY DEF DoomedTogether
<1>2. \A t \in Children : rows[t] \ doomed[t] = rows[t] \ doomed["incidents"]
  <2>1. CASE \E t \in Tables : doomed[t] # {}
    <3>1. revision = Latest - 1 /\ step = 6
      BY <2>1, Where DEF DoomedTogether, TypeOK
    <3> QED
      BY <3>1 DEF DoomedTogether
  <2>2. CASE \A t \in Tables : doomed[t] = {}
    BY <2>2 DEF Tables
  <2> QED
    BY <2>1, <2>2
<1> QED
  BY <1>1, <1>2 DEF CommitPurge, TypeOK

(***************************************************************************)
(* The conjuncts of the inductive invariant                                *)
(***************************************************************************)

LEMMA LiveKeeps ==
  ASSUME Live
  PROVE  UNCHANGED <<migration, stage, granted, service, deploys, kills>>
  BY DEF Live, Report, CompleteJob

LEMMA StagingKeeps ==
  ASSUME Staging
  PROVE  UNCHANGED <<migration, incidents, rows, kills, reported>>
  BY DEF Staging, Deploy, Revoke, Grant, Migrated, Start, GatePasses, GateFails

LEMMA TypeStep ==
  ASSUME IInv, Next
  PROVE  TypeOK'
<1> USE DEF IInv
<1>1. CASE Live
  <2>1. UNCHANGED <<migration, stage, granted, service, deploys, kills>>
    BY <1>1, LiveKeeps
  <2>2. incidents' \subseteq [id : Id, episode : Episode] /\ reported' \subseteq Episode
    BY <1>1 DEF Live, Report, CompleteJob, TypeOK
  <2>3. rows' \in [Children -> SUBSET Id]
    BY <1>1 DEF Live, Report, CompleteJob, TypeOK, Children
  <2> QED
    BY <2>1, <2>2, <2>3 DEF TypeOK, migration
<1>2. CASE Staging
  <2>1. UNCHANGED <<migration, incidents, rows, kills, reported>>
    BY <1>2, StagingKeeps
  <2>2. stage' \in Stage /\ granted' \in BOOLEAN /\ service' \in Release
    BY <1>2 DEF Staging, Deploy, Revoke, Grant, Migrated, Start, GatePasses, GateFails,
                TypeOK, Stage, Release
  <2>4. deploys' \in 0..MaxDeploys
    <3>1. deploys' = deploys \/ (deploys < MaxDeploys /\ deploys' = deploys + 1)
      BY <1>2 DEF Staging, Deploy, Revoke, Grant, Migrated, Start, GatePasses, GateFails
    <3> QED
      BY <3>1 DEF TypeOK
  <2>3. stage' # "migrate" => step = 1 /\ \A t \in Tables : doomed[t] = {}
    <3>1. stage # "migrate" \/ revision = Latest
      BY <1>2 DEF Staging, Deploy, Revoke, Grant, Migrated, Start, GatePasses, GateFails
    <3> QED
      BY <3>1, Where DEF TypeOK, StepWithin, DoomedTogether
  <2> QED
    BY <2>1, <2>2, <2>3, <2>4 DEF TypeOK, migration
<1>3. CASE PurgeStep
  <2>1. Statement.on \in Tables /\ step' = step + 1 /\ step + 1 \in 1..8 /\ stage = "migrate"
    <3>1. step \in 1..Len(Upgrade[revision + 1]) /\ revision = 3 /\ step <= 5
      BY <1>3, Where DEF PurgeStep
    <3>2. step = 1 \/ step = 2 \/ step = 3 \/ step = 4 \/ step = 5
      BY <3>1, Lengths
    <3>3. Statement.on \in Tables
      BY <3>1, <3>2, Statements DEF Statement, Purge, Tables, Children, Outcomes
    <3> QED
      BY <3>2, <3>3, <1>3 DEF PurgeStep, Within, Running
  <2>2. doomed' \in [Tables -> SUBSET Id]
    <3>1. Duplicates \subseteq Id
      BY DuplicateIs DEF TypeOK
    <3>2. \A t \in Tables : t = "incidents" \/ rows[t] \subseteq Id
      BY DEF TypeOK, Tables
    <3> QED
      BY <3>1, <3>2, <2>1, <1>3 DEF PurgeStep, PurgeRows, TypeOK
  <2> QED
    BY <1>3, <2>1, <2>2 DEF PurgeStep, TypeOK
<1>4. CASE SchemaStep \/ SchemaStepFails
  <2>1. Within /\ Statement.op # "purge" /\ CommitPurge /\ stage = "migrate"
    BY <1>4 DEF SchemaStep, SchemaStepFails, Within, Running
  <2>2. /\ incidents' = {i \in incidents : i.id \notin doomed["incidents"]}
        /\ rows' \in [Children -> SUBSET Id] /\ doomed' = Nothing
    BY <2>1, CommitEffect
  <2>3. step' \in 1..8 /\ schema' \subseteq UNION {SchemaAt(r) : r \in 0..Latest}
    <3>1. step \in 1..Len(Upgrade[revision + 1]) /\ revision + 1 \in 1..4
      BY <2>1, Where DEF Within, Running, TypeOK
    <3>2. step + 1 \in 1..8
      <4>2. \A x \in Nat : x <= 7 => \A n \in 1..x : n + 1 \in 1..8
        OBVIOUS
      <4> QED
        BY <3>1, <4>2, Sizes
    <3>3. Statement.op = "create" =>
            Statement.on \in UNION {SchemaAt(r) : r \in 0..Latest}
      BY <3>1, CreatedInSchema DEF Statement
    <3> QED
      BY <1>4, <3>2, <3>3 DEF SchemaStep, SchemaStepFails, TypeOK
  <2>4. \A t \in Tables : doomed'[t] = {}
    BY <2>2 DEF Nothing
  <2>5. doomed' \in [Tables -> SUBSET Id]
    BY <2>2 DEF Nothing
  <2>6. /\ UNCHANGED <<revision, granted, service, deploys, kills, reported>>
        /\ stage' \in Stage /\ cut' \in BOOLEAN /\ (stage' # "migrate" => step' = 1)
    BY <1>4, <2>1 DEF SchemaStep, SchemaStepFails, TypeOK, Stage
  <2>7. incidents' \subseteq [id : Id, episode : Episode]
    BY <2>2 DEF TypeOK
  <2> QED
    BY <2>2, <2>3, <2>4, <2>5, <2>6, <2>7 DEF TypeOK
<1>5. CASE PurgeStepFails \/ Kill
  <2>1. Nothing \in [Tables -> SUBSET Id] /\ \A t \in Tables : Nothing[t] = {}
    BY DEF Nothing
  <2>2. kills' \in 0..MaxKills
    <3>1. kills' = kills \/ (kills < MaxKills /\ kills' = kills + 1)
      BY <1>5 DEF PurgeStepFails, Kill
    <3> QED
      BY <3>1 DEF TypeOK
  <2>3. cut' \in BOOLEAN
    <3>1. cut' = cut \/ cut' = (cut \/ Midway)
      BY <1>5 DEF PurgeStepFails, Kill
    <3>2. cut \in BOOLEAN
      BY DEF TypeOK
    <3> QED
      BY <3>1, <3>2, Zenon
  <2> QED
    BY <1>5, <2>1, <2>2, <2>3 DEF PurgeStepFails, Kill, TypeOK, Stage
<1>6. CASE Stamp
  <2>1. revision + 1 \in 0..Latest /\ stage = "migrate"
    BY <1>6, Where DEF Stamp, Running, TypeOK
  <2> QED
    BY <1>6, <2>1 DEF Stamp, TypeOK
<1> QED
  BY <1>1, <1>2, <1>3, <1>4, <1>5, <1>6, Steps

LEMMA StepWithinStep ==
  ASSUME IInv, Next
  PROVE  StepWithin'
<1> USE DEF IInv
<1>1. CASE Live \/ Staging
  <2>1. UNCHANGED migration
    BY <1>1, LiveKeeps, StagingKeeps
  <2>2. stage' # "migrate" => stage # "migrate" \/ revision = Latest
    BY <1>1 DEF Live, Report, CompleteJob, Staging, Deploy, Revoke, Grant, Migrated,
                Start, GatePasses, GateFails
  <2> QED
    BY <2>1, <2>2 DEF StepWithin, migration
<1>2. CASE PurgeStep \/ SchemaStep
  <2>1. /\ step' = step + 1 /\ UNCHANGED <<revision, stage>> /\ Within
        /\ revision # Latest /\ stage = "migrate"
    BY <1>2, Where DEF PurgeStep, SchemaStep, Within, Running
  <2>2. revision + 1 \in 1..4 /\ step \in 1..Len(Upgrade[revision + 1])
    BY <2>1, Where
  <2>3. Len(Upgrade[revision + 1]) \in Nat
    BY <2>2, Lengths
  <2> QED
    BY <2>1, <2>2, <2>3 DEF StepWithin
<1>3. CASE SchemaStepFails \/ PurgeStepFails \/ Kill \/ Stamp
  <2>0. TypeOK'
    BY TypeStep
  <2>1. step' = 1 /\ revision' \in 0..Latest
    BY <1>3, <2>0 DEF SchemaStepFails, PurgeStepFails, Kill, Stamp, TypeOK
  <2>2. revision' < Latest => revision' + 1 \in 1..4
    <3>1. \A r \in 0..Latest : r < Latest => r + 1 \in 1..4
      BY Lengths
    <3> QED
      BY <2>1, <3>1
  <2>3. \A m \in 1..4 : 1 <= Len(Upgrade[m]) + 1
    BY Lengths
  <2> QED
    BY <2>1, <2>2, <2>3 DEF StepWithin
<1> QED
  BY <1>1, <1>2, <1>3, Steps

LEMMA SchemaTracksStep ==
  ASSUME IInv, Next
  PROVE  SchemaTracks'
<1> USE DEF IInv
<1>1. CASE Live \/ Staging
  <2>1. UNCHANGED migration
    BY <1>1, LiveKeeps, StagingKeeps
  <2> QED
    BY <2>1 DEF SchemaTracks, Done, migration
<1>2. CASE PurgeStep \/ SchemaStep
  <2>1. Within /\ step' = step + 1 /\ UNCHANGED <<revision, cut>> /\ revision # Latest
    BY <1>2, Where DEF PurgeStep, SchemaStep, Within, Running
  <2>2. revision \in 0..3 /\ step \in 1..Len(Upgrade[revision + 1])
    BY <2>1, Where
  <2>3. /\ Statement.op = "create" => schema' = schema \cup {Statement.on}
        /\ Statement.op = "drop" => schema' = schema \ {Statement.on}
        /\ Statement.op = "purge" => schema' = schema
        /\ Statement.op \in {"create", "drop", "purge"}
    BY <1>2, <2>1, Where DEF PurgeStep, SchemaStep
  <2>4. /\ Statement.op = "create" =>
             Done(revision, step + 1) = Done(revision, step) \cup {Statement.on}
        /\ Statement.op = "drop" =>
             Done(revision, step + 1) = Done(revision, step) \ {Statement.on}
        /\ Statement.op = "purge" => Done(revision, step + 1) = Done(revision, step)
    BY <2>2, DoneSteps DEF Statement
  <2>5. Done(revision, step)' = Done(revision, step + 1)
    BY <2>1 DEF Done
  <2> QED
    BY <2>1, <2>3, <2>4, <2>5 DEF SchemaTracks
<1>3. CASE SchemaStepFails \/ Kill
  <2>1. step' = 1 /\ UNCHANGED <<schema, revision>> /\ (cut' <=> cut \/ Midway)
    <3>1. cut' = (cut \/ Midway)
      BY <1>3 DEF SchemaStepFails, Kill
    <3>2. cut' <=> cut \/ Midway
      BY <3>1, TypeStep, Zenon DEF TypeOK
    <3> QED
      BY <1>3, <3>2 DEF SchemaStepFails, Kill
  <2>2. ASSUME ~Midway PROVE Done(revision, step) = SchemaAt(revision)
    <3>1. CASE Running
      <4>1. \A n \in 1..(step - 1) : Upgrade[revision + 1][n].op = "purge"
        BY <2>2, <3>1 DEF Midway
      <4> QED
        BY <3>1, <4>1, Where, DonePurges DEF Running
    <3>2. CASE ~Running
      <4>1. step = 1 /\ revision \in 0..4
        BY <3>2, Where DEF Running, StepWithin, TypeOK
      <4> QED
        BY <4>1, DoneEnds
    <3> QED
      BY <3>1, <3>2
  <2>3. Done(revision, step)' = Done(revision, 1)
    BY <2>1 DEF Done
  <2>4. Done(revision, 1) = SchemaAt(revision)
    BY DoneEnds, Where DEF TypeOK
  <2> QED
    BY <2>1, <2>2, <2>3, <2>4 DEF SchemaTracks
<1>4. CASE PurgeStepFails
  <2>1. step' = 1 /\ UNCHANGED <<schema, revision, cut>> /\ Within /\ revision # Latest
    BY <1>4, Where DEF PurgeStepFails, Within, Running
  <2>2. revision = 3 /\ step <= 5 /\ step \in Nat
    BY <1>4, <2>1, Where DEF PurgeStepFails
  <2>3. \A n \in 1..(step - 1) : Upgrade[revision + 1][n].op = "purge"
    BY <2>2, Kinds, Lengths
  <2>4. Done(revision, step) = SchemaAt(revision)
    BY <2>2, <2>3, DonePurges
  <2>5. Done(revision, step)' = Done(revision, 1)
    BY <2>1 DEF Done
  <2> QED
    BY <2>1, <2>2, <2>4, <2>5, DoneEnds DEF SchemaTracks
<1>5. CASE Stamp
  <2>1. /\ step' = 1 /\ revision' = revision + 1 /\ UNCHANGED <<schema, cut>>
        /\ revision # Latest /\ step > Len(Upgrade[revision + 1])
    BY <1>5, Where DEF Stamp, Running
  <2>2. revision \in 0..3 /\ Len(Upgrade[revision + 1]) \in Nat
    BY <2>1, Where, Lengths
  <2>3. step = Len(Upgrade[revision + 1]) + 1
    BY <2>1, <2>2, Where DEF StepWithin
  <2>4. Done(revision, step) = SchemaAt(revision + 1)
    BY <2>2, <2>3, DoneEnds
  <2>5. Done(revision, step)' = Done(revision + 1, 1)
    BY <2>1 DEF Done
  <2> QED
    BY <2>1, <2>2, <2>4, <2>5, DoneEnds DEF SchemaTracks
<1> QED
  BY <1>1, <1>2, <1>3, <1>4, <1>5, Steps

(* The first schema statement of a migration.                              *)
Opening(r) == IF r = 3 THEN 6 ELSE 1

LEMMA OpeningIs ==
  ASSUME NEW r \in 0..3
  PROVE  /\ Opening(r) \in 1..Len(Upgrade[r + 1]) /\ Opening(r) \in Nat
         /\ Upgrade[r + 1][Opening(r)].op \in {"create", "drop"}
         /\ \A n \in 1..Len(Upgrade[r + 1]) :
              Upgrade[r + 1][n].op = "purge" <=> n < Opening(r)
<1>1. r + 1 \in 1..4 /\ (r + 1 = 4 <=> r = 3)
  OBVIOUS
<1>2. Opening(r) \in 1..Len(Upgrade[r + 1])
  <2>1. CASE r = 3
    <3>1. Upgrade[r + 1] = Upgrade[4]
      BY <2>1
    <3> QED
      BY <2>1, <3>1, Lengths DEF Opening
  <2>2. CASE r # 3
    BY <1>1, <2>2, Sizes DEF Opening
  <2> QED
    BY <2>1, <2>2
<1>3. \A n \in 1..Len(Upgrade[r + 1]) : n \in Nat /\ n >= 1
  BY <1>1, Sizes
<1>4. \A n \in 1..Len(Upgrade[r + 1]) : Upgrade[r + 1][n].op = "purge" <=> n < Opening(r)
  <2>1. CASE r = 3
    BY <1>1, <1>3, <2>1, Kinds DEF Opening
  <2>2. CASE r # 3
    BY <1>1, <1>3, <2>2, Kinds DEF Opening
  <2> QED
    BY <2>1, <2>2
<1>5. Opening(r) \in Nat
  BY DEF Opening
<1>6. Upgrade[r + 1][Opening(r)].op \in {"create", "drop"}
  BY <1>1, <1>2, <1>4, <1>5, Kinds
<1> QED
  BY <1>2, <1>4, <1>5, <1>6

(* Once the first schema statement has been run, it is not expected again. *)
LEMMA OpeningDone ==
  ASSUME TypeOK, StepWithin, SchemaTracks, ~cut, Midway
  PROVE  /\ revision \in 0..3 /\ revision < Latest
         /\ ~Expected(Upgrade[revision + 1][Opening(revision)])
<1>1. Running /\ revision \in 0..3 /\ revision < Latest /\ step \in Nat
  BY Where DEF Midway, Running, TypeOK
<1> DEFINE m == revision + 1
           k == Opening(revision)
<1>2. PICK n \in 1..(step - 1) : Upgrade[m][n].op # "purge"
  BY DEF Midway
<1>3. m \in 1..4 /\ Len(Upgrade[m]) \in Nat /\ step <= Len(Upgrade[m]) + 1
  BY <1>1, Sizes DEF StepWithin
<1>4. n \in 1..Len(Upgrade[m]) /\ k \in 1..(step - 1)
  <2>1. n \in 1..Len(Upgrade[m])
    BY <1>1, <1>3
  <2>2. ~(n < k) /\ k \in Nat /\ k >= 1
    <3>1. k \in 1..Len(Upgrade[m]) /\ k \in Nat
      BY <1>1, OpeningIs
    <3>2. ~(n < k)
      BY <1>1, <1>2, <2>1, OpeningIs
    <3> QED
      BY <3>1, <3>2
  <2> QED
    BY <1>1, <2>1, <2>2
<1>5. schema = (SchemaAt(revision) \cup On(m, "create", step)) \ On(m, "drop", step)
  BY DEF SchemaTracks, Done, On
<1>6. CASE Upgrade[m][k].op = "create"
  <2>1. Upgrade[m][k].on \in On(m, "create", step)
    BY <1>4, <1>6 DEF On
  <2>2. \A j \in 1..(step - 1) : j \in 1..Len(Upgrade[m])
    BY <1>1, <1>3
  <2>3. k \in 1..Len(Upgrade[m])
    BY <1>1, OpeningIs
  <2>4. \A j \in 1..(step - 1) : Upgrade[m][j].op = "drop" => Upgrade[m][k].on # Upgrade[m][j].on
    BY <1>3, <1>6, <2>2, <2>3, CreatedStays
  <2>5. Upgrade[m][k].on \notin On(m, "drop", step)
    BY <2>4 DEF On
  <2> QED
    BY <1>1, <1>5, <1>6, <2>1, <2>5 DEF Expected
<1>7. CASE Upgrade[m][k].op = "drop"
  <2>1. Upgrade[m][k].on \in On(m, "drop", step)
    BY <1>4, <1>7 DEF On
  <2> QED
    BY <1>1, <1>5, <1>7, <2>1 DEF Expected
<1> QED
  BY <1>1, <1>6, <1>7, OpeningIs

LEMMA StuckStep ==
  ASSUME IInv, Next
  PROVE  Stuck'
<1> USE DEF IInv
<1> DEFINE At(k) ==
      /\ Upgrade[revision + 1][k].op # "purge"
      /\ \A n \in 1..(k - 1) : Upgrade[revision + 1][n].op = "purge"
      /\ ~Expected(Upgrade[revision + 1][k])
<1>1. ASSUME cut
      PROVE  revision < Latest /\ \E k \in 1..Len(Upgrade[revision + 1]) : At(k) /\ step <= k
  BY <1>1 DEF Stuck
<1>2. ASSUME revision < Latest, NEW k \in 1..Len(Upgrade[revision + 1]), At(k),
             UNCHANGED <<schema, revision>>, step' <= k
      PROVE  Stuck'
  <2>1. ~Expected(Upgrade[revision + 1][k])'
    BY <1>2 DEF Expected
  <2> QED
    BY <1>2, <2>1 DEF Stuck
<1>3. revision < Latest => \A k \in 1..Len(Upgrade[revision + 1]) : k \in Nat /\ 1 <= k
  BY Where, Sizes DEF TypeOK
<1>4. CASE Live \/ Staging
  <2>1. UNCHANGED migration
    BY <1>4, LiveKeeps, StagingKeeps
  <2> QED
    BY <2>1, <1>1, <1>2 DEF Stuck, migration
<1>5. CASE PurgeStep
  <2>1. /\ Within /\ Statement.op = "purge" /\ step' = step + 1
        /\ UNCHANGED <<schema, revision, cut>>
    BY <1>5 DEF PurgeStep
  <2>2. SUFFICES ASSUME cut PROVE Stuck'
    BY <2>1 DEF Stuck
  <2>3. PICK k \in 1..Len(Upgrade[revision + 1]) : At(k) /\ step <= k
    BY <1>1, <2>2
  <2>4. step # k /\ step \in Nat /\ k \in Nat /\ revision < Latest
    BY <1>1, <1>3, <2>1, <2>2, <2>3, Where DEF Statement
  <2>5. step' <= k
    BY <2>1, <2>3, <2>4
  <2> QED
    BY <1>2, <2>1, <2>3, <2>4, <2>5
<1>6. CASE SchemaStep
  <2>1. /\ Within /\ Statement.op # "purge" /\ Expected(Statement) /\ UNCHANGED cut
    BY <1>6 DEF SchemaStep, Applicable
  <2>2. SUFFICES ASSUME cut PROVE FALSE
    BY <2>1 DEF Stuck
  <2>3. PICK k \in 1..Len(Upgrade[revision + 1]) : At(k) /\ step <= k
    BY <1>1, <2>2
  <2>4. step \in Nat /\ 1 <= step /\ k \in Nat
    BY <1>1, <1>3, <2>2, Where DEF TypeOK
  <2>5. step = k
    <3>1. step \notin 1..(k - 1)
      BY <2>1, <2>3 DEF Statement
    <3> QED
      BY <2>3, <2>4, <3>1
  <2> QED
    BY <2>1, <2>3, <2>5 DEF Statement
<1>7. CASE Stamp
  <2>1. Running /\ step > Len(Upgrade[revision + 1]) /\ UNCHANGED cut
    BY <1>7 DEF Stamp
  <2>2. SUFFICES ASSUME cut PROVE FALSE
    BY <2>1 DEF Stuck
  <2>3. PICK k \in 1..Len(Upgrade[revision + 1]) : At(k) /\ step <= k
    BY <1>1, <2>2
  <2>4. revision + 1 \in 1..4 /\ step \in Nat
    BY <2>1, Where DEF Running
  <2> QED
    BY <2>1, <2>3, <2>4, Sizes
<1>8. CASE SchemaStepFails \/ PurgeStepFails \/ Kill
  <2>1. step' = 1 /\ UNCHANGED <<schema, revision>>
    BY <1>8 DEF SchemaStepFails, PurgeStepFails, Kill
  <2>2. CASE cut
    <3>1. PICK k \in 1..Len(Upgrade[revision + 1]) : At(k) /\ step <= k
      BY <1>1, <2>2
    <3> QED
      BY <1>1, <1>2, <1>3, <2>1, <2>2, <3>1
  <2>3. CASE ~cut /\ Midway
    <3> DEFINE k == Opening(revision)
    <3>1. revision \in 0..3 /\ revision < Latest /\ ~Expected(Upgrade[revision + 1][k])
      BY <2>3, OpeningDone
    <3>2. k \in 1..Len(Upgrade[revision + 1]) /\ Upgrade[revision + 1][k].op # "purge"
      BY <3>1, OpeningIs
    <3>3. \A n \in 1..(k - 1) : Upgrade[revision + 1][n].op = "purge"
      <4>1. \A n \in 1..(k - 1) : n \in 1..Len(Upgrade[revision + 1]) /\ n < k
        BY <3>1, <3>2, Sizes
      <4> QED
        BY <3>1, <4>1, OpeningIs
    <3>4. step' <= k
      BY <1>3, <2>1, <3>1, <3>2
    <3> HIDE DEF k
    <3> QED
      BY <1>2, <2>1, <3>1, <3>2, <3>3, <3>4
  <2>4. CASE ~cut /\ ~Midway
    <3>1. cut' = cut \/ cut' = (cut \/ Midway)
      BY <1>8 DEF SchemaStepFails, PurgeStepFails, Kill
    <3>2. ~cut'
      BY <2>4, <3>1, Zenon
    <3> QED
      BY <3>2 DEF Stuck
  <2> QED
    BY <2>2, <2>3, <2>4
<1> QED
  BY <1>4, <1>5, <1>6, <1>7, <1>8, Steps

LEMMA StageReachedStep ==
  ASSUME IInv, Next
  PROVE  StageReached'
<1> USE DEF IInv
<1>1. CASE Live
  BY <1>1, LiveKeeps DEF StageReached, migration
<1>2. CASE Staging
  <2>1. UNCHANGED revision
    BY <1>2, StagingKeeps DEF migration
  <2> QED
    BY <1>2, <2>1 DEF StageReached, Staging, Deploy, Revoke, Grant, Migrated, Start,
                      GatePasses, GateFails
<1>3. CASE PurgeStep \/ SchemaStep \/ Stamp
  BY <1>3 DEF StageReached, PurgeStep, SchemaStep, Stamp, Within, Running
<1>4. CASE SchemaStepFails \/ PurgeStepFails \/ Kill
  BY <1>4 DEF StageReached, SchemaStepFails, PurgeStepFails, Kill
<1> QED
  BY <1>1, <1>2, <1>3, <1>4, Steps

LEMMA UniqueKeptStep ==
  ASSUME IInv, Next
  PROVE  UniqueKept'
<1> USE DEF IInv
<1>1. CASE Live
  <2>1. UNCHANGED migration
    BY <1>1, LiveKeeps
  <2>2. SUFFICES ASSUME Unique PROVE \A i, j \in incidents' : ~Twins(i, j)
    BY <2>1 DEF UniqueKept, Unique, migration, Twins
  <2>3. CASE \E id \in Id, episode \in Episode : Report(id, episode)
    <3>1. PICK id \in Id, episode \in Episode : Report(id, episode)
      BY <2>3
    <3>2. /\ incidents' = incidents \cup {[id |-> id, episode |-> episode]}
          /\ \A i \in incidents : i.episode # episode
      BY <2>2, <3>1 DEF Report
    <3> QED
      BY <2>2, <3>2 DEF UniqueKept, Twins
  <2>4. CASE \E id \in Id : CompleteJob(id)
    BY <2>2, <2>4 DEF CompleteJob, UniqueKept
  <2> QED
    BY <1>1, <2>3, <2>4 DEF Live
<1>2. CASE Staging
  BY <1>2, StagingKeeps DEF UniqueKept, Unique, Twins, migration
<1>3. CASE SchemaStep \/ SchemaStepFails
  <2>1. Within /\ Statement.op # "purge" /\ CommitPurge
    BY <1>3 DEF SchemaStep, SchemaStepFails
  <2>2. incidents' \subseteq incidents
    BY <2>1, CommitEffect
  <2>3. CASE Unique
    BY <2>2, <2>3 DEF UniqueKept, Twins
  <2>4. CASE ~Unique /\ SchemaStep
    <3>1. Unique' => Statement.on = "uq_incident_episode"
      BY <2>4 DEF Unique, SchemaStep
    <3>2. Statement.on = "uq_incident_episode" => ~\E i, j \in incidents' : Twins(i, j)
      BY <2>4 DEF SchemaStep, Applicable
    <3> QED
      BY <3>1, <3>2 DEF UniqueKept, Twins
  <2>5. CASE ~Unique /\ SchemaStepFails
    BY <2>5 DEF Unique, SchemaStepFails, UniqueKept
  <2> QED
    BY <1>3, <2>3, <2>4, <2>5
<1>4. CASE PurgeStep \/ PurgeStepFails \/ Stamp \/ Kill
  BY <1>4 DEF UniqueKept, Unique, Twins, PurgeStep, PurgeStepFails, Stamp, Kill
<1> QED
  BY <1>1, <1>2, <1>3, <1>4, Steps

(* Alerts and completed jobs add rows, and none to what is being deleted.  *)
LEMMA LiveAdds ==
  ASSUME TypeOK, RowsAgree, DoomedTogether, Live
  PROVE  /\ incidents \subseteq incidents' /\ Duplicates \subseteq Duplicates'
         /\ \A t \in Children : rows[t] \subseteq rows'[t]
         /\ revision = Latest - 1 /\ step = 6 =>
              \A t \in Children : (rows'[t] \ rows[t]) \cap doomed["incidents"] = {}
<1>1. incidents \subseteq incidents'
  BY DEF Live, Report, CompleteJob
<1>2. Duplicates \subseteq Duplicates'
  BY <1>1, DuplicateIs, DuplicateIsNext
<1>3. doomed["incidents"] \subseteq Ids
  BY DuplicateIs DEF DoomedTogether, Ids
<1>4. ASSUME NEW id \in Id, NEW episode \in Episode, Report(id, episode)
      PROVE  \A t \in Children : rows[t] \subseteq rows'[t] /\ rows'[t] \subseteq rows[t] \cup {id}
  BY <1>4 DEF Report, TypeOK
<1>5. ASSUME NEW id \in Id, CompleteJob(id)
      PROVE  /\ \A t \in Children : rows[t] \subseteq rows'[t] /\ rows'[t] \subseteq rows[t] \cup {id}
             /\ id \in rows["analysis_jobs"] /\ id \notin doomed["analysis_jobs"]
  BY <1>5 DEF CompleteJob, TypeOK
<1>6. "analysis_jobs" \in Children
  BY DEF Children
<1>7. CASE \E id \in Id, episode \in Episode : Report(id, episode)
  <2>1. PICK id \in Id, episode \in Episode : Report(id, episode)
    BY <1>7
  <2>2. id \notin Ids
    BY <2>1 DEF Report
  <2> QED
    BY <1>1, <1>2, <1>3, <1>4, <2>1, <2>2
<1>8. CASE \E id \in Id : CompleteJob(id)
  <2>1. PICK id \in Id : CompleteJob(id)
    BY <1>8
  <2>2. revision = Latest - 1 /\ step = 6 =>
          rows["analysis_jobs"] \cap doomed["incidents"] = doomed["analysis_jobs"]
    BY <1>6 DEF DoomedTogether
  <2>3. revision = Latest - 1 /\ step = 6 => id \notin doomed["incidents"]
    BY <1>5, <2>1, <2>2
  <2> QED
    BY <1>1, <1>2, <1>5, <2>1, <2>3
<1> QED
  BY <1>7, <1>8 DEF Live

LEMMA DoomedTogetherStep ==
  ASSUME IInv, Next
  PROVE  DoomedTogether'
<1> USE DEF IInv
<1>1. CASE Live
  <2>1. UNCHANGED <<migration, stage>>
    BY <1>1, LiveKeeps
  <2>2. /\ Duplicates \subseteq Duplicates'
        /\ \A t \in Children : rows[t] \subseteq rows'[t]
        /\ revision = Latest - 1 /\ step = 6 =>
             \A t \in Children : (rows'[t] \ rows[t]) \cap doomed["incidents"] = {}
    BY <1>1, LiveAdds
  <2> QED
    BY <2>1, <2>2 DEF DoomedTogether, migration
<1>2. CASE Staging
  <2>1. UNCHANGED <<migration, incidents, rows>>
    BY <1>2, StagingKeeps
  <2>2. \A t \in Tables : doomed[t] = {}
    BY <1>2, Where DEF Staging, Deploy, Revoke, Grant, Migrated, Start, GatePasses, GateFails,
                       TypeOK, DoomedTogether
  <2>3. Duplicates' = Duplicates
    BY <2>1 DEF Duplicates, Twins
  <2> QED
    BY <2>1, <2>2, <2>3 DEF DoomedTogether, migration
<1>3. CASE PurgeStep
  <2>1. /\ Within /\ Statement.op = "purge" /\ Purgeable(Statement.on) /\ PurgeRows(Statement.on)
        /\ UNCHANGED <<revision, incidents, rows, stage>> /\ step' = step + 1 /\ stage = "migrate"
    BY <1>3 DEF PurgeStep, Within, Running
  <2>2. revision = 3 /\ step \in 1..5 /\ Latest = 4
    BY <2>1, Where
  <2>3. /\ step # 5 => Statement.on \in Children
        /\ step = 5 => Statement.on = "incidents"
    <3>1. step = 1 \/ step = 2 \/ step = 3 \/ step = 4 \/ step = 5
      BY <2>2
    <3> QED
      BY <2>2, <3>1, Statements DEF Statement, Purge, Children, Outcomes
  <2>4. Duplicates' = Duplicates
    BY <2>1 DEF Duplicates, Twins
  <2>5. "incidents" \notin Children /\ Tables = Children \cup {"incidents"}
    BY DEF Children, Outcomes, Tables
  <2>6. CASE step # 5
    <3>1. /\ \A t \in Children : doomed'[t] = doomed[t] \/ doomed'[t] = rows[t] \cap Duplicates
          /\ doomed'["incidents"] = doomed["incidents"]
      BY <2>1, <2>3, <2>5, <2>6 DEF PurgeRows, TypeOK
    <3>2. doomed["incidents"] = {}
      BY <2>2, <2>6 DEF DoomedTogether
    <3> QED
      BY <2>1, <2>2, <2>4, <2>5, <2>6, <3>1, <3>2 DEF DoomedTogether
  <2>7. CASE step = 5
    <3>1. /\ \A t \in Children : doomed'[t] = doomed[t]
          /\ doomed'["incidents"] = Duplicates
      BY <2>1, <2>3, <2>5, <2>7 DEF PurgeRows, TypeOK
    <3>2. \A t \in Children : (rows[t] \ doomed[t]) \cap Duplicates = {}
      BY <2>1, <2>3, <2>7 DEF Purgeable
    <3>3. \A t \in Children : rows[t] \cap Duplicates = doomed[t]
      BY <3>2 DEF DoomedTogether
    <3> QED
      BY <2>1, <2>2, <2>4, <2>7, <3>1, <3>3 DEF DoomedTogether
  <2> QED
    BY <2>6, <2>7
<1>4. CASE SchemaStep \/ SchemaStepFails \/ PurgeStepFails \/ Kill
  <2>1. \A t \in Tables : doomed'[t] = {}
    <3>1. doomed' = Nothing
      BY <1>4 DEF SchemaStep, SchemaStepFails, CommitPurge, PurgeStepFails, Kill
    <3> QED
      BY <3>1 DEF Nothing
  <2>2. revision' = Latest - 1 => step' # 6
    <3>1. CASE SchemaStep
      <4>1. Within /\ Statement.op # "purge" /\ step' = step + 1 /\ revision' = revision
        BY <3>1 DEF SchemaStep
      <4>2. revision = 3 => ~(step <= 5)
        BY <4>1, Where
      <4> QED
        BY <4>1, <4>2, Where
    <3>2. CASE SchemaStepFails \/ PurgeStepFails \/ Kill
      BY <3>2 DEF SchemaStepFails, PurgeStepFails, Kill
    <3> QED
      BY <1>4, <3>1, <3>2
  <2> QED
    BY <2>1, <2>2 DEF DoomedTogether, Tables
<1>5. CASE Stamp
  <2>1. /\ Running /\ step > Len(Upgrade[revision + 1]) /\ step' = 1
        /\ UNCHANGED <<doomed, incidents, rows, stage>>
    BY <1>5 DEF Stamp
  <2>2. \A t \in Tables : doomed[t] = {}
    <3>1. revision = 3 => step > 7
      <4>1. revision = 3 => Upgrade[revision + 1] = Upgrade[4]
        OBVIOUS
      <4> QED
        BY <2>1, <4>1, Lengths
    <3> QED
      BY <3>1, Where DEF DoomedTogether
  <2>3. \A t \in Tables : doomed'[t] = {}
    BY <2>1, <2>2
  <2> QED
    BY <2>1, <2>3 DEF DoomedTogether, Tables
<1> QED
  BY <1>1, <1>2, <1>3, <1>4, <1>5, Steps

LEMMA RowsAgreeStep ==
  ASSUME IInv, Next
  PROVE  RowsAgree'
<1> USE DEF IInv
<1>0. /\ "analysis_jobs" \in Children /\ "analysis_jobs" \notin Outcomes
      /\ "analysis_results" \in Outcomes /\ Outcomes \subseteq Children
  BY DEF Children, Outcomes
<1>1. CASE \E id \in Id, episode \in Episode : Report(id, episode)
  <2>1. PICK id \in Id, episode \in Episode : Report(id, episode)
    BY <1>1
  <2> DEFINE new == [id |-> id, episode |-> episode]
  <2>2. /\ incidents' = incidents \cup {new} /\ id \notin Ids
        /\ reported' = reported \cup {episode}
        /\ rows' = [rows EXCEPT !["analysis_jobs"] = @ \cup {id}]
    BY <2>1 DEF Report
  <2>3. Ids' = Ids \cup {id}
    <3>1. new.id = id
      OBVIOUS
    <3> HIDE DEF new
    <3> QED
      BY <2>2, <3>1 DEF Ids
  <2>4. \A i, j \in incidents' : i.id = j.id => i = j
    BY <2>2 DEF RowsAgree, Ids
  <2>5. /\ rows'["analysis_jobs"] = Ids'
        /\ \A t \in Outcomes : rows'[t] = rows'["analysis_results"] /\ rows'[t] \subseteq Ids'
    BY <1>0, <2>2, <2>3 DEF RowsAgree, TypeOK
  <2>6. ASSUME NEW e \in reported'
        PROVE  \E i \in incidents' : i.episode = e /\ i.id \notin Duplicates'
    <3>1. CASE \E i \in incidents : i.episode = e /\ i.id \notin Duplicates
      <4>1. PICK i \in incidents : i.episode = e /\ i.id \notin Duplicates
        BY <3>1
      <4>2. \A k \in incidents : k.id \in Nat
        BY DEF TypeOK
      <4>3. \A k \in incidents : k.episode = e /\ k.id # i.id => i.id < k.id
        <5>1. \A k \in incidents : k.episode = e /\ k.id # i.id => ~(k.id < i.id)
          BY <4>1, DuplicateIs
        <5> QED
          BY <4>1, <4>2, <5>1
      <4>4. \A k \in incidents : k.id = i.id => k = i
        BY <4>1 DEF RowsAgree
      <4>5. id \in Nat /\ \A k \in incidents : k.id # id
        BY <2>2 DEF Ids
      <4>6. CASE episode = e /\ id < i.id
        <5>1. ASSUME NEW j \in incidents', NEW k \in incidents',
                     j.id = id, k.episode = j.episode, k.id # j.id, k.id < j.id
              PROVE  FALSE
          <6>1. j = new /\ k \in incidents /\ k.episode = e
            BY <2>2, <4>5, <4>6, <5>1
          <6>2. k.id < id /\ k.id \in Nat /\ i.id \in Nat
            BY <4>1, <4>2, <5>1, <6>1
          <6>3. k.id = i.id \/ i.id < k.id
            BY <4>3, <6>1
          <6> QED
            BY <4>5, <4>6, <6>2, <6>3
        <5>2. id \notin Duplicates'
          BY <5>1, DuplicateIsNext
        <5>3. new \in incidents' /\ new.episode = e /\ new.id = id
          BY <2>2, <4>6
        <5> QED
          BY <5>2, <5>3
      <4>7. CASE ~(episode = e /\ id < i.id)
        <5>1. ASSUME NEW j \in incidents', NEW k \in incidents',
                     j.id = i.id, k.episode = j.episode, k.id # j.id, k.id < j.id
              PROVE  FALSE
          <6>1. j = i
            BY <2>2, <4>1, <4>4, <4>5, <5>1
          <6>2. k = new \/ k \in incidents
            BY <2>2
          <6>3. CASE k = new
            BY <4>1, <4>7, <5>1, <6>1, <6>3
          <6>4. CASE k \in incidents
            <7>1. i.id < k.id /\ k.id \in Nat /\ i.id \in Nat
              BY <4>1, <4>2, <4>3, <5>1, <6>1, <6>4
            <7> QED
              BY <5>1, <6>1, <7>1
          <6> QED
            BY <6>2, <6>3, <6>4
        <5>2. i.id \notin Duplicates'
          BY <5>1, DuplicateIsNext
        <5> QED
          BY <2>2, <4>1, <5>2
      <4> QED
        BY <4>6, <4>7
    <3>2. CASE ~\E i \in incidents : i.episode = e /\ i.id \notin Duplicates
      <4>1. e = episode /\ e \notin reported
        BY <2>2, <3>2 DEF RowsAgree
      <4>2. \A k \in incidents : k.episode # e /\ k.id # id
        BY <2>2, <4>1 DEF RowsAgree, Ids
      <4>3. \A j, k \in incidents' : j.id = id /\ k.episode = j.episode => k = new
        BY <2>2, <4>1, <4>2
      <4>4. \A k : k = new => k.id = id
        OBVIOUS
      <4>5. id \notin Duplicates'
        BY <4>3, <4>4, DuplicateIsNext
      <4>6. new \in incidents' /\ new.episode = e /\ new.id = id
        BY <2>2, <4>1
      <4> QED
        BY <4>5, <4>6
    <3> QED
      BY <3>1, <3>2
  <2>7. \A i \in incidents' : i.episode \in reported'
    BY <2>2 DEF RowsAgree
  <2> QED
    BY <2>4, <2>5, <2>6, <2>7 DEF RowsAgree
<1>2. CASE \E id \in Id : CompleteJob(id)
  <2>1. PICK id \in Id : CompleteJob(id)
    BY <1>2
  <2>2. /\ UNCHANGED <<incidents, reported>> /\ id \in Ids
        /\ rows'["analysis_jobs"] = rows["analysis_jobs"]
        /\ \A t \in Outcomes : rows'[t] = rows[t] \cup {id}
    BY <1>0, <2>1 DEF CompleteJob, RowsAgree
  <2>3. Ids' = Ids /\ Duplicates' = Duplicates
    BY <2>2 DEF Ids, Duplicates, Twins
  <2>4. \A t \in Outcomes : rows[t] = rows["analysis_results"] /\ rows[t] \subseteq Ids
    BY DEF RowsAgree
  <2>5. \A t \in Outcomes : rows'[t] = rows'["analysis_results"] /\ rows'[t] \subseteq Ids'
    BY <1>0, <2>2, <2>3, <2>4
  <2>6. rows'["analysis_jobs"] = Ids'
    BY <2>2, <2>3 DEF RowsAgree
  <2>7. /\ \A i \in incidents' : i.episode \in reported'
        /\ \A i, j \in incidents' : i.id = j.id => i = j
        /\ \A e \in reported' : \E i \in incidents' : i.episode = e /\ i.id \notin Duplicates'
    BY <2>2, <2>3 DEF RowsAgree
  <2> QED
    BY <2>5, <2>6, <2>7 DEF RowsAgree
<1>3. CASE Staging \/ PurgeStep \/ PurgeStepFails \/ Stamp \/ Kill
  <2>1. UNCHANGED <<incidents, rows, reported>>
    BY <1>3, StagingKeeps DEF PurgeStep, PurgeStepFails, Stamp, Kill
  <2>2. Ids' = Ids /\ Duplicates' = Duplicates
    BY <2>1 DEF Ids, Duplicates, Twins
  <2> QED
    BY <2>1, <2>2 DEF RowsAgree
<1>4. CASE SchemaStep \/ SchemaStepFails
  <2>1. Within /\ Statement.op # "purge" /\ CommitPurge /\ reported' = reported
    BY <1>4 DEF SchemaStep, SchemaStepFails
  <2>2. /\ incidents' = {i \in incidents : i.id \notin doomed["incidents"]}
        /\ doomed["incidents"] \subseteq Duplicates
        /\ \A t \in Children : rows'[t] = rows[t] \ doomed["incidents"]
    BY <2>1, CommitEffect
  <2>3. Ids' = Ids \ doomed["incidents"]
    BY <2>2 DEF Ids
  <2>4. Duplicates' \subseteq Duplicates
    BY <2>2, DuplicateIs, DuplicateIsNext
  <2>5. \A e \in reported : \E i \in incidents' : i.episode = e /\ i.id \notin Duplicates'
    BY <2>2, <2>4 DEF RowsAgree
  <2>6. /\ rows'["analysis_jobs"] = Ids'
        /\ \A t \in Outcomes : rows'[t] = rows'["analysis_results"] /\ rows'[t] \subseteq Ids'
    <3>1. /\ rows["analysis_jobs"] = Ids
          /\ \A t \in Outcomes : rows[t] = rows["analysis_results"] /\ rows[t] \subseteq Ids
      BY DEF RowsAgree
    <3>2. rows'["analysis_jobs"] = Ids'
      BY <1>0, <2>2, <2>3, <3>1
    <3>3. \A t \in Outcomes : rows'[t] = rows[t] \ doomed["incidents"]
      BY <1>0, <2>2
    <3> QED
      BY <1>0, <2>3, <3>1, <3>2, <3>3
  <2>7. /\ \A i \in incidents' : i.episode \in reported'
        /\ \A i, j \in incidents' : i.id = j.id => i = j
    BY <2>1, <2>2 DEF RowsAgree
  <2> QED
    BY <2>1, <2>5, <2>6, <2>7 DEF RowsAgree
<1> QED
  BY <1>1, <1>2, <1>3, <1>4, Steps DEF Live

(***************************************************************************)
(* The theorems                                                            *)
(***************************************************************************)

LEMMA InitInv == Init => IInv
<1> SUFFICES ASSUME Init PROVE IInv
  OBVIOUS
<1>1. revision \in 0..4 /\ revision \in 0..Latest /\ Latest = 4
  BY Lengths DEF Init
<1>2. Nothing \in [Tables -> SUBSET Id] /\ \A t \in Tables : Nothing[t] = {}
  BY DEF Nothing
<1>3. TypeOK
  <2>1. schema \subseteq UNION {SchemaAt(r) : r \in 0..Latest}
    BY <1>1 DEF Init
  <2>2. rows \in [Children -> SUBSET Id] /\ incidents \subseteq [id : Id, episode : Episode]
    BY DEF Init
  <2>3. deploys \in 0..MaxDeploys /\ kills \in 0..MaxKills
    BY DEF Init
  <2>4. step \in 1..8 /\ stage \in Stage /\ service \in Release
    BY DEF Init, Stage, Release
  <2>5. granted \in BOOLEAN /\ cut \in BOOLEAN
    BY Zenon DEF Init
  <2> QED
    BY <1>1, <1>2, <2>1, <2>2, <2>3, <2>4, <2>5 DEF Init, TypeOK
<1>4. StepWithin
  <2>1. \A r \in 0..4 : r < 4 => 1 <= Len(Upgrade[r + 1]) + 1
    BY Sizes
  <2> QED
    BY <1>1, <2>1 DEF Init, StepWithin
<1>5. SchemaTracks
  BY <1>1, DoneEnds DEF Init, SchemaTracks
<1>6. Stuck /\ UniqueKept /\ StageReached
  BY DEF Init, Stuck, UniqueKept, StageReached
<1>7. DoomedTogether
  BY <1>1, <1>2 DEF Init, DoomedTogether, Tables
<1>8. RowsAgree
  BY DEF Init, RowsAgree, Ids, Children, Outcomes
<1> QED
  BY <1>3, <1>4, <1>5, <1>6, <1>7, <1>8 DEF IInv

(* The strengthened invariant holds whatever is killed, fails, arrives or  *)
(* completes between the statements of a deployment (migrations/versions,  *)
(* bootstrap-database.sh, cd-pipeline.yml).                                *)
THEOREM Invariance == Spec => []IInv
<1>1. IInv /\ Next => IInv'
  BY TypeStep, StepWithinStep, SchemaTracksStep, StuckStep, UniqueKeptStep,
     StageReachedStep, DoomedTogetherStep, RowsAgreeStep DEF IInv
<1>2. IInv /\ UNCHANGED vars => IInv'
  BY DEF IInv, vars, TypeOK, StepWithin, SchemaTracks, Done, Stuck, Expected, UniqueKept,
         Unique, StageReached, DoomedTogether, RowsAgree, Duplicates, Twins, Ids
<1> QED
  BY <1>1, <1>2, InitInv, PTL DEF Spec

(* A migration cut between two schema statements never reaches the head:   *)
(* what alembic stamps is the schema (migrations/versions).                *)
THEOREM SchemaIsTheRevisions == Spec => []SchemaKeepsPace
<1>1. IInv => SchemaKeepsPace
  <2> SUFFICES ASSUME IInv PROVE SchemaKeepsPace
    OBVIOUS
  <2>1. revision \in 0..4 /\ Latest = 4
    BY Lengths DEF IInv, TypeOK
  <2>2. cut => revision < Latest
    BY DEF IInv, Stuck
  <2>3. step = 1 /\ ~cut => schema = SchemaAt(revision)
    BY <2>1, DoneEnds DEF IInv, SchemaTracks
  <2>4. stage # "migrate" \/ revision = Latest => step = 1
    BY DEF IInv, StepWithin
  <2> QED
    BY <2>1, <2>2, <2>3, <2>4 DEF SchemaKeepsPace
<1> QED
  BY <1>1, Invariance, PTL

(* A deployment that passes its gate serves the whole schema with one      *)
(* incident per episode (wait-for-incident-health.sh, README.md:59-62).    *)
THEOREM PassedIsSound == Spec => []GateSound
<1>1. IInv /\ SchemaKeepsPace => GateSound
  <2> SUFFICES ASSUME IInv, SchemaKeepsPace, stage = "passed" PROVE GateSound
    BY DEF GateSound
  <2>1. granted /\ revision = Latest /\ service = "new"
    BY DEF IInv, StageReached
  <2>2. schema = SchemaAt(Latest)
    BY <2>1 DEF SchemaKeepsPace
  <2>3. "uq_incident_episode" \in SchemaAt(Latest)
    <3>1. 7 \in 1..Len(Upgrade[4]) /\ Upgrade[4][7].op = "create"
          /\ Upgrade[4][7].on = "uq_incident_episode" /\ 4 \in 1..4 /\ Latest = 4
      BY Lengths, Statements DEF Create
    <3> QED
      BY <3>1, CreatedInSchema
  <2> QED
    BY <2>1, <2>2, <2>3 DEF GateSound, IInv, UniqueKept, Unique
<1> QED
  BY <1>1, Invariance, SchemaIsTheRevisions, PTL

(* 0004 takes all the rows of a duplicate or none, and every reported      *)
(* episode keeps an incident with its job, though alerts and completed     *)
(* jobs come between its statements (0004_incident_episode_dedup.py).      *)
THEOREM EpisodesSurvive == Spec => []EpisodeKept
<1>1. IInv => EpisodeKept
  <2> SUFFICES ASSUME IInv PROVE EpisodeKept
    OBVIOUS
  <2>1. RowsAgree
    BY DEF IInv
  <2>2. \A e \in reported : \E i \in incidents : i.episode = e /\ i.id \in rows["analysis_jobs"]
    BY <2>1 DEF RowsAgree, Ids
  <2>3. \A t \in Children : rows[t] \subseteq Ids
    BY <2>1 DEF RowsAgree, Children
  <2>4. \A t \in Outcomes : rows[t] = rows["analysis_results"]
    BY <2>1 DEF RowsAgree
  <2> QED
    BY <2>2, <2>3, <2>4 DEF EpisodeKept
<1> QED
  BY <1>1, Invariance, PTL
================================================================================
