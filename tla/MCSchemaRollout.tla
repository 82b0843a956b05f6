---------------------------- MODULE MCSchemaRollout ----------------------------
(* SchemaRollout with three incidents of two episodes.                     *)
EXTENDS SchemaRollout
================================================================================
