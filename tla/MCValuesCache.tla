---------------------------- MODULE MCValuesCache ----------------------------
(* Constants for checking ValuesCache with TLC.                            *)
EXTENDS ValuesCache, TLC
===============================================================================
