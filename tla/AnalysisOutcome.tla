---------------------------- MODULE AnalysisOutcome ----------------------------
(***************************************************************************)
(* What the analysis queue of the incident analyzer promises, without its  *)
(* workers, leases, retries and clock: every accepted incident is decided  *)
(* at most once, and a positive decision appears in the evidence, result   *)
(* and delivery tables in one step, all three rows written by the same     *)
(* claim.  AnalysisJobs is the detailed specification shown to implement   *)
(* it.                                                                     *)
(***************************************************************************)
CONSTANT Incident,      \* the incidents that may be reported
         Attempt        \* what tells one claim of a job from another

VARIABLES outcome,      \* what has become of each incident
          bundles,      \* evidence_bundles rows
          results,      \* analysis_results rows
          outbox        \* notification_deliveries rows as first registered

vars == <<outcome, bundles, results, outbox>>

Row == [incident : Incident, attempt : Attempt]

TypeOK ==
  /\ outcome \in [Incident -> {"unknown", "open", "published", "abandoned"}]
  /\ bundles \subseteq Row
  /\ results \subseteq Row
  /\ outbox \subseteq Row

Init ==
  /\ outcome = [i \in Incident |-> "unknown"]
  /\ bundles = {}
  /\ results = {}
  /\ outbox = {}

(* A batch of incidents is accepted.                                       *)
Open(batch) ==
  /\ \A i \in batch : outcome[i] = "unknown"
  /\ outcome' = [i \in Incident |-> IF i \in batch THEN "open" ELSE outcome[i]]
  /\ UNCHANGED <<bundles, results, outbox>>

(* The analysis of claim a is stored and its notification registered.      *)
Publish(i, a) ==
  /\ outcome[i] = "open"
  /\ outcome' = [outcome EXCEPT ![i] = "published"]
  /\ bundles' = bundles \cup {[incident |-> i, attempt |-> a]}
  /\ results' = results \cup {[incident |-> i, attempt |-> a]}
  /\ outbox'  = outbox  \cup {[incident |-> i, attempt |-> a]}

(* The analysis is given up.                                               *)
Abandon(i) ==
  /\ outcome[i] = "open"
  /\ outcome' = [outcome EXCEPT ![i] = "abandoned"]
  /\ UNCHANGED <<bundles, results, outbox>>

Decide(i) == Abandon(i) \/ \E a \in Attempt : Publish(i, a)

Next ==
  \/ \E batch \in SUBSET Incident : Open(batch)
  \/ \E i \in Incident : Decide(i)

Spec == Init /\ [][Next]_vars
================================================================================
