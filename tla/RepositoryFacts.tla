---------------------------- MODULE RepositoryFacts ----------------------------
(* What the operations of module Repository return, preserve and bound.    *)
EXTENDS Repository, FiniteSetTheorems, WellFoundedInduction, TLAPS

(* A non-empty set of naturals has a least element.                        *)
LEMMA LeastElement ==
  ASSUME NEW T \in SUBSET Nat, T # {}
  PROVE  \E o \in T : \A q \in T : o <= q
<1>1. PICK o \in T : \A q \in T : <<q, o>> \notin OpToRel(<, Nat)
  BY NatLessThanWellFounded, WFMin, Zenon
<1>2. \A q \in T : ~(q < o)
  BY <1>1, Zenon DEF OpToRel
<1>3. QED
  BY <1>2, SMT

-------------------------------------------------------------------------------
(* The elements of S that have at most k elements of S at or above them    *)
(* are at most k.                                                          *)
LEMMA AtMostNewest ==
  ASSUME NEW S \in SUBSET Nat, IsFiniteSet(S), NEW k \in Nat,
         NEW T, T = {o \in S : Cardinality({q \in S : q >= o}) <= k}
  PROVE  IsFiniteSet(T) /\ Cardinality(T) <= k
<1>1. IsFiniteSet(T)
  BY FS_Subset, T \subseteq S
<1>2. CASE T = {}
  <2>1. Cardinality(T) = 0
    BY <1>2, FS_EmptySet
  <2>2. QED
    BY <1>1, <2>1, SMT
<1>3. CASE T # {}
  <2>1. PICK o \in T : \A q \in T : o <= q
    BY <1>3, LeastElement, T \subseteq Nat
  <2>2. T \subseteq {q \in S : q >= o}
    BY <2>1
  <2>3. IsFiniteSet({q \in S : q >= o})
    BY FS_Subset, {q \in S : q >= o} \subseteq S
  <2>4. Cardinality(T) <= Cardinality({q \in S : q >= o})
    BY <2>2, <2>3, FS_Subset
  <2>5. Cardinality({q \in S : q >= o}) <= k
    BY <2>1
  <2>6. Cardinality(T) \in Nat /\ Cardinality({q \in S : q >= o}) \in Nat
    BY <1>1, <2>3, FS_CardinalityType
  <2>7. QED
    BY <1>1, <2>4, <2>5, <2>6
<1>4. QED
  BY <1>2, <1>3

(* A non-empty finite set of naturals has a greatest element: the one with *)
(* the fewest elements at or above it.                                     *)
LEMMA GreatestElement ==
  ASSUME NEW S \in SUBSET Nat, IsFiniteSet(S), S # {}
  PROVE  \E o \in S : \A q \in S : q <= o
<1> DEFINE Above(o) == {q \in S : q >= o}
<1>1. \A o \in S : IsFiniteSet(Above(o)) /\ Cardinality(Above(o)) \in Nat
  BY FS_Subset, FS_CardinalityType, \A o \in S : Above(o) \subseteq S
<1> DEFINE C == {Cardinality(Above(o)) : o \in S}
<1>2. PICK c \in C : \A d \in C : c <= d
  <2>1. C \in SUBSET Nat /\ C # {}
    BY <1>1
  <2> HIDE DEF C
  <2>2. QED
    BY <2>1, LeastElement
<1>3. PICK o \in S : c = Cardinality(Above(o))
  OBVIOUS
<1>4. ASSUME NEW x \in S, x > o PROVE FALSE
  <2>1. Above(x) \subseteq Above(o) /\ o \in Above(o) /\ o \notin Above(x)
    <3>1. /\ \A q \in S : q >= x => q >= o
          /\ o >= o /\ ~(o >= x)
      BY <1>4
    <3>2. QED
      BY <3>1
  <2>2. Cardinality(Above(x)) < Cardinality(Above(o))
    <3>1. IsFiniteSet(Above(o)) /\ Above(x) # Above(o)
      BY <1>1, <2>1
    <3> HIDE DEF Above
    <3>2. Cardinality(Above(x)) <= Cardinality(Above(o))
      BY <2>1, <3>1, FS_Subset
    <3>3. Cardinality(Above(x)) # Cardinality(Above(o))
      BY <2>1, <3>1, FS_Subset
    <3>4. QED
      BY <1>1, <3>2, <3>3
  <2>3. Cardinality(Above(o)) <= Cardinality(Above(x))
    BY <1>2, <1>3
  <2> HIDE DEF Above
  <2>4. QED
    BY <1>1, <2>2, <2>3
<1>5. \A q \in S : q \in Nat /\ o \in Nat /\ ~(q > o)
  BY <1>4
<1>6. QED
  BY <1>5

(* Those elements are the greatest of S, and exactly k if there are more.  *)
LEMMA ExactlyNewest ==
  ASSUME NEW S \in SUBSET Nat, IsFiniteSet(S), NEW k \in Nat,
         NEW T, T = {o \in S : Cardinality({q \in S : q >= o}) <= k}
  PROVE  /\ \A o \in S \ T : \A q \in T : o < q
         /\ S \ T # {} => Cardinality(T) = k
<1> DEFINE Above(o) == {q \in S : q >= o}
<1>1. \A o \in S : IsFiniteSet(Above(o)) /\ Cardinality(Above(o)) \in Nat
  BY FS_Subset, FS_CardinalityType, \A o \in S : Above(o) \subseteq S
<1>2. ASSUME NEW o \in S \ T, NEW q \in T, q <= o PROVE FALSE
  <2>1. Above(o) \subseteq Above(q)
    <3>1. \A x \in S : x >= o => x >= q
      BY <1>2
    <3>2. QED
      BY <3>1
  <2>2. Cardinality(Above(o)) <= Cardinality(Above(q))
    <3>1. q \in S
      OBVIOUS
    <3> HIDE DEF Above
    <3>2. QED
      BY <1>1, <2>1, <3>1, FS_Subset
  <2>3. Cardinality(Above(q)) <= k /\ ~(Cardinality(Above(o)) <= k) /\ q \in S /\ o \in S
    OBVIOUS
  <2> HIDE DEF Above
  <2>4. QED
    BY <1>1, <2>2, <2>3
<1>3. ASSUME S \ T # {} PROVE Cardinality(T) = k
  <2>1. PICK o \in S \ T : \A q \in S \ T : q <= o
    BY <1>3, GreatestElement, FS_Subset, S \ T \subseteq S
  <2>2. Above(o) = T \cup {o} /\ o \notin T
    <3>1. \A x \in S : x >= o <=> x \in T \/ x = o
      <4>1. \A x \in T : x \in Nat /\ o \in Nat /\ ~(x <= o)
        BY <1>2
      <4>2. \A x \in S \ T : x \in Nat /\ o \in Nat /\ x <= o
        BY <2>1
      <4>3. QED
        BY <4>1, <4>2
    <3>2. T \subseteq S /\ o \in S
      OBVIOUS
    <3>3. QED
      BY <3>1, <3>2
  <2>3. IsFiniteSet(T) /\ Cardinality(T) <= k
    BY AtMostNewest
  <2>4. Cardinality(Above(o)) = Cardinality(T) + 1
    BY <2>2, <2>3, FS_AddElement, ZenonT(60)
  <2>5. Cardinality(Above(o)) > k
    BY <1>1, <2>1
  <2>6. Cardinality(T) \in Nat
    BY <2>3, FS_CardinalityType
  <2>7. QED
    BY <2>3, <2>4, <2>5, <2>6
<1>4. \A o \in S \ T : \A q \in T : o \in Nat /\ q \in Nat /\ ~(q <= o)
  BY <1>2
<1>5. QED
  BY <1>3, <1>4

(* resize() leaves a collection of at most `limit' of the models.          *)
LEMMA ResizeFacts ==
  ASSUME NEW models, IsSharedModels(models), IsFiniteSet(DOMAIN models), NEW limit \in Nat
  PROVE  /\ IsSharedModels(Resize(models, limit))
         /\ DOMAIN Resize(models, limit) \subseteq DOMAIN models
         /\ \A o \in DOMAIN Resize(models, limit) : Resize(models, limit)[o] = models[o]
         /\ IsFiniteSet(DOMAIN Resize(models, limit))
         /\ Cardinality(DOMAIN Resize(models, limit)) <= limit
         /\ LET lost == DOMAIN models \ DOMAIN Resize(models, limit)
            IN  /\ \A o \in lost : \A q \in DOMAIN Resize(models, limit) : o < q
                /\ lost # {} => Cardinality(DOMAIN Resize(models, limit)) = limit
<1> DEFINE T == {o \in DOMAIN models : Cardinality({q \in DOMAIN models : q >= o}) <= limit}
<1>1. Resize(models, limit) = [o \in T |-> models[o]]
  BY DEF Resize, Restrict
<1>2. IsFiniteSet(T) /\ Cardinality(T) <= limit
  BY AtMostNewest DEF IsSharedModels
<1>3. /\ \A o \in DOMAIN models \ T : \A q \in T : o < q
      /\ DOMAIN models \ T # {} => Cardinality(T) = limit
  BY ExactlyNewest DEF IsSharedModels
<1>4. IsSharedModels([o \in T |-> models[o]])
  BY DEF IsSharedModels
<1> HIDE DEF T
<1>5. T \subseteq DOMAIN models
  BY DEF T
<1>6. QED
  BY <1>1, <1>2, <1>3, <1>4, <1>5

(* add() keeps every model except one of the same origin time.             *)
LEMMA AddFacts ==
  ASSUME NEW models, IsSharedModels(models), NEW m \in Model
  PROVE  /\ IsSharedModels(Add(models, m))
         /\ DOMAIN Add(models, m) = DOMAIN models \cup {m.origin}
         /\ \A o \in DOMAIN Add(models, m) :
              \/ o \in DOMAIN models /\ Add(models, m)[o] = models[o]
              \/ /\ o = m.origin /\ Add(models, m)[o] = m
                 /\ o \in DOMAIN models => m.modtime > models[o].modtime
         /\ IsFiniteSet(DOMAIN models) => IsFiniteSet(DOMAIN Add(models, m))
<1>1. m.origin \in Nat
  BY DEF Model
<1>2. CASE m.origin \in DOMAIN models /\ m.modtime <= models[m.origin].modtime
  BY <1>2 DEF Add
<1>3. CASE ~(m.origin \in DOMAIN models /\ m.modtime <= models[m.origin].modtime)
  <2>1. Add(models, m) = [o \in DOMAIN models \cup {m.origin} |->
                            IF o = m.origin THEN m ELSE models[o]]
    BY <1>3 DEF Add, AddAlways
  <2>2. IsSharedModels(Add(models, m))
    BY <1>1, <2>1 DEF IsSharedModels
  <2>3. m.origin \in DOMAIN models => m.modtime > models[m.origin].modtime
    BY <1>3 DEF IsSharedModels, Model
  <2>4. QED
    BY <2>1, <2>2, <2>3, FS_AddElement
<1>4. QED
  BY <1>2, <1>3

(* A restriction of a collection is a collection.                          *)
LEMMA RestrictFacts ==
  ASSUME NEW models, IsSharedModels(models), NEW T \in SUBSET DOMAIN models
  PROVE  /\ IsSharedModels(Restrict(models, T))
         /\ DOMAIN Restrict(models, T) = T
         /\ \A o \in T : Restrict(models, T)[o] = models[o]
         /\ IsFiniteSet(DOMAIN models) =>
              IsFiniteSet(T) /\ Cardinality(T) <= Cardinality(DOMAIN models)
<1>1. Restrict(models, T) = [o \in T |-> models[o]]
  BY DEF Restrict
<1>2. IsSharedModels(Restrict(models, T))
  BY <1>1 DEF IsSharedModels
<1>3. QED
  BY <1>1, <1>2, FS_Subset

(* expire() and the removals of update() only take models away.            *)
LEMMA ExpireFacts ==
  ASSUME NEW models, IsSharedModels(models), NEW limit
  PROVE  /\ IsSharedModels(Expire(models, limit))
         /\ DOMAIN Expire(models, limit) \subseteq DOMAIN models
         /\ \A o \in DOMAIN Expire(models, limit) : Expire(models, limit)[o] = models[o]
         /\ IsFiniteSet(DOMAIN models) =>
              /\ IsFiniteSet(DOMAIN Expire(models, limit))
              /\ Cardinality(DOMAIN Expire(models, limit)) <= Cardinality(DOMAIN models)
<1> DEFINE T == {o \in DOMAIN models : models[o].modtime >= limit}
<1>1. T \in SUBSET DOMAIN models
  OBVIOUS
<1>2. Expire(models, limit) = Restrict(models, T)
  BY DEF Expire
<1> HIDE DEF T
<1>3. QED
  BY <1>1, <1>2, RestrictFacts

(* Removing files leaves a part of the models, each as it was.             *)
LEMMA RemoveAllFacts ==
  ASSUME NEW models, IsSharedModels(models), NEW files
  PROVE  /\ IsSharedModels(RemoveAll(models, files))
         /\ DOMAIN RemoveAll(models, files) \subseteq DOMAIN models
         /\ \A o \in DOMAIN RemoveAll(models, files) : RemoveAll(models, files)[o] = models[o]
         /\ IsFiniteSet(DOMAIN models) =>
              /\ IsFiniteSet(DOMAIN RemoveAll(models, files))
              /\ Cardinality(DOMAIN RemoveAll(models, files)) <= Cardinality(DOMAIN models)
<1> DEFINE T == DOMAIN models \ UNION {FirstWithPath(models, f) : f \in files}
<1>1. T \in SUBSET DOMAIN models
  OBVIOUS
<1>2. RemoveAll(models, files) = Restrict(models, T)
  BY DEF RemoveAll
<1> HIDE DEF T
<1>3. QED
  BY <1>1, <1>2, RestrictFacts
===============================================================================
