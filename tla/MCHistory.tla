------------------------------ MODULE MCHistory ------------------------------
(* Engine with its history variables on small instances.                   *)
EXTENDS MCConstants, EngineHistory
=============================================================================
