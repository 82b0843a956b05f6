----------------------------- MODULE MCAnalysisJobs -----------------------------
(* AnalysisJobs on small sets of incidents and worker processes.           *)
EXTENDS AnalysisJobs, TLC

(* Neither incidents nor processes are ever compared but for equality.     *)
Symmetry == Permutations(Incident) \cup Permutations(Worker)

================================================================================
