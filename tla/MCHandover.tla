------------------------------ MODULE MCHandover ------------------------------
(* Constants for checking Handover with TLC.                               *)
EXTENDS Handover, TLC

(* File names sort as their origin times.                                  *)
Origins == [f \in Path |-> f]

Usual == [directory |-> "data", pattern |-> "sqd", number_to_keep |-> 1]

(* The same models, other models, and settings that cannot be used.        *)
Groups ==
  {Usual,
   "max_latest_age" :> 60 @@ Usual,
   "relative_uv" :> TRUE @@ Usual,
   "colour" :> "red" @@ Usual}

TaskIds == Permutations(TaskId)
===============================================================================
