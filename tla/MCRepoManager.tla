----------------------------- MODULE MCRepoManager -----------------------------
(* Constants for checking RepoManager with TLC.                            *)
EXTENDS RepoManager, TLC

CONSTANTS t1, t2, t3

Symmetry == Permutations(TaskId)

(* One producer, two names that may hold the same origin time; name 2 may  *)
(* be corrupt.                                                             *)
OneProducer == {"p"}
OneDirectory == [f \in Path |-> "p"]
KeepTwo == [p \in {"p"} |-> 2]
KeepOne == [p \in {"p"} |-> 1]
NoMaxAge == [p \in {"p"} |-> 0]
ShortMaxAge == [p \in {"p"} |-> 1]
NothingOld == [p \in {"p"} |-> NoModels]
MixedOrigins == [f \in Path |-> IF f = 1 THEN {2} ELSE {Corrupt, 2}]

(* Two producers that share the monitor and the limit.                     *)
TwoProducers == {"p", "q"}
TwoDirectories == [f \in Path |-> IF f = 3 THEN "q" ELSE "p"]
KeepOnes == [p \in {"p", "q"} |-> 1]
NoMaxAges == [p \in {"p", "q"} |-> 0]
NothingOlds == [p \in {"p", "q"} |-> NoModels]
OneOriginEach == [f \in Path |-> IF f = 2 THEN {Corrupt, 2} ELSE {f}]

(* One directory with one file, and a manager that takes over from another *)
(* one that has loaded it.                                                 *)
OneOldModel ==
  [p \in {"p"} |-> [o \in {1} |-> [path |-> 1, origin |-> 1, modtime |-> 0]]]
MaybeCorrupt == [f \in Path |-> {Corrupt, 1}]
================================================================================
