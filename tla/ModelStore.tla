------------------------------ MODULE ModelStore ------------------------------
(***************************************************************************)
(* What the readers of a repository are promised, whatever the monitor,    *)
(* the loaders and the expiration thread do: every producer's collection   *)
(* changes only by publishing one model or by withdrawing some, it is      *)
(* never seen with more than its limit of models, and publishing a model   *)
(* costs nothing but the oldest ones, when there are too many.             *)
(***************************************************************************)
EXTENDS Naturals, FiniteSets

CONSTANTS Producer, NumberToKeep

VARIABLE models     \* models[p][o]: the model of producer p with origin time o

(* The origin times the new collection lost, and those whose model is new. *)
Lost(old, new) == DOMAIN old \ DOMAIN new

Changed(old, new) == {o \in DOMAIN new : o \in DOMAIN old => new[o] # old[o]}

(* One model is published: a new origin time, or a newer file with a known *)
(* one.  Older models make way for it only when the collection is full.    *)
Publishes(old, new, limit) ==
  /\ Cardinality(Changed(old, new)) <= 1
  /\ \A o \in Changed(old, new) \cap DOMAIN old : new[o].modtime > old[o].modtime
  /\ \A o \in Lost(old, new) : \A q \in DOMAIN new : o < q
  /\ Lost(old, new) # {} => Cardinality(DOMAIN new) = limit
  /\ Cardinality(DOMAIN new) <= limit

(* Models are withdrawn: what is left has not changed.                     *)
Withdraws(old, new) == DOMAIN new \subseteq DOMAIN old /\ Changed(old, new) = {}

Init == \A p \in Producer : DOMAIN models[p] = {}

Step(p) ==
  /\ \A q \in Producer \ {p} : models'[q] = models[q]
  /\ \/ Publishes(models[p], models'[p], NumberToKeep[p])
     \/ Withdraws(models[p], models'[p])

Next == \E p \in Producer : Step(p)

Spec == Init /\ [][Next]_models
===============================================================================
