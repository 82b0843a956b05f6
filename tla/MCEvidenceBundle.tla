---------------------------- MODULE MCEvidenceBundle ----------------------------
(* EvidenceBundle on answers of a few lines, with byte counts such that a  *)
(* bundle may fit, lose some items, or lose all but one.                   *)
EXTENDS EvidenceBundle

(* Samples of any length, and all of one length.                           *)
MixedSamples == <<1, 2, 4>>
EvenSamples == <<1, 1, 1>>

================================================================================
