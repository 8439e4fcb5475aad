-------------------------- MODULE MCControllerLoop --------------------------
(* The instance of MCController under one of its intents.                 *)
EXTENDS MCController, ControllerLoop
=============================================================================
