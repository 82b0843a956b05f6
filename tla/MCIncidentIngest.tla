---------------------------- MODULE MCIncidentIngest ----------------------------
(* IncidentIngest with two alerts of one episode, one of another, and one  *)
(* that the webhook refuses.                                               *)
EXTENDS IncidentIngest, TLC

CONSTANTS a1, a2, b1, x, ea, eb

MCAlert == {a1, a2, b1, x}
MCEpisode == {ea, eb}
MCEpisodeOf == (a1 :> ea) @@ (a2 :> ea) @@ (b1 :> eb) @@ (x :> eb)

FewAlert == {a1, a2, b1}
FewEpisodeOf == (a1 :> ea) @@ (a2 :> ea) @@ (b1 :> eb)
================================================================================
