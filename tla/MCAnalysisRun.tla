----------------------------- MODULE MCAnalysisRun -----------------------------
(* AnalysisRun on a bundle of two log items.                               *)
EXTENDS AnalysisRun
================================================================================
