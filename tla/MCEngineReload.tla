---------------------------- MODULE MCEngineReload ----------------------------
(* Constants for checking EngineReload with TLC.                           *)
EXTENDS EngineReload, TLC
===============================================================================
