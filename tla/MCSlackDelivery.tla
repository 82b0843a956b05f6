---------------------------- MODULE MCSlackDelivery ----------------------------
(* SlackDelivery on small sets of incidents and worker processes.          *)
EXTENDS SlackDelivery, TLC

(* A header below, inside and above the range a Retry-After is cut to.     *)
MCHeader == {0, 2, 4}

(* Neither incidents nor processes are ever compared but for equality.     *)
Symmetry == Permutations(Incident) \cup Permutations(Worker)

================================================================================
