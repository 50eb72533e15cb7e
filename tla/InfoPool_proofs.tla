---------------------------- MODULE InfoPool_proofs ----------------------------
(***************************************************************************)
(* Cursors are never shared and never outlive the data they read, for any  *)
(* number of models, users and cursors.                                    *)
(***************************************************************************)
EXTENDS InfoPool, FiniteSetTheorems, SequenceTheorems, TLAPS

(* What a user has still to take corresponds to the models it stands for,  *)
(* and it gives back no more than it takes, and one of each model.         *)
ShapeOf(s) ==
  /\ s.pc = "none" => s = NoUser
  /\ s.pc # "none" => Len(s.models) > 0
  /\ s.pc = "taking" => Len(s.wants) > 0 /\ s.released = 0
  /\ s.pc \in {"open", "moving", "closing"} => s.wants = <<>>
  /\ s.released <= s.returns
  /\ s.returns <= Len(s.models)
  /\ s.returns <= Len(s.infos) + Len(s.wants)
  /\ \A j \in 1 .. Len(s.wants) :
       s.wants[j] = s.models[IF Len(s.infos) + j \in DOMAIN s.models
                             THEN Len(s.infos) + j ELSE 1]

Shape == \A u \in User : ShapeOf(user[u])

Inv == TypeOK /\ Shape /\ Exclusive /\ ReadsLiveData

(* What nobody has: an idle user has no models and no cursors.             *)
LEMMA NoUserFacts ==
  /\ NoUser \in UserState
  /\ ShapeOf(NoUser)
  /\ {k \in DOMAIN NoUser.infos : k > NoUser.released} = {}
  /\ Range(NoUser.models) = {}
BY DEF NoUser, UserState, ShapeOf, Range

(* A model is alive when it is loaded or some user owns it.                *)
LEMMA AliveBy ==
  /\ \A m : m \in Alive <=> m \in loaded \/ \E v \in User : m \in Range(user[v].models)
  /\ \A m : m \in Alive' <=> m \in loaded' \/ \E v \in User : m \in Range(user'[v].models)
BY DEF Alive

(* At first there are no models, cursors or users.                         *)
LEMMA InvInit == Init => Inv
<1> SUFFICES ASSUME Init PROVE Inv
  OBVIOUS
<1>1. TypeOK
  BY NoUserFacts DEF Init, TypeOK
<1>2. \A u \in User : user[u] = NoUser
  BY DEF Init
<1>3. Shape
  BY <1>2, NoUserFacts DEF Shape
<1>4. \A u \in User : Has(u) = {} /\ Hand(u) = {}
  BY <1>2, NoUserFacts DEF Has, Hand
<1>5. \A m \in Model : pool[m] = {}
  BY DEF Init
<1>6. Exclusive /\ ReadsLiveData
  BY <1>4, <1>5 DEF Exclusive, ReadsLiveData
<1>7. QED
  BY <1>1, <1>3, <1>6 DEF Inv

(* A user begins with no cursor.                                           *)
LEMMA BeginStep ==
  ASSUME Inv, NEW u \in User, NEW models \in Seq(Model), NEW wants \in Seq(Model),
         NEW returns \in Nat, Len(models) > 0, Len(wants) > 0,
         returns <= Len(models), returns <= Len(wants),
         \A j \in 1 .. Len(wants) : wants[j] = models[IF j \in DOMAIN models THEN j ELSE 1],
         Begin(u, models, wants, returns),
         UNCHANGED <<loaded, pool>>, moved' \subseteq Info, peak' \in [Model -> Nat]
  PROVE  Inv'
<1> DEFINE s == [pc |-> "taking", models |-> models, wants |-> wants, infos |-> <<>>,
                 returns |-> returns, released |-> 0]
<1>1. user[u] = NoUser /\ user \in [User -> UserState]
  BY DEF Begin, Inv, Shape, ShapeOf, TypeOK
<1>2. user' = [user EXCEPT ![u] = s]
  BY DEF Begin
<1>3. s \in UserState
  <2>1. <<>> \in Seq(Info)
    OBVIOUS
  <2>2. QED
    BY <2>1 DEF UserState
<1>4. ShapeOf(s)
  <2>1. Len(s.infos) = 0 /\ s.models[1] = models[1]
    OBVIOUS
  <2>2. QED
    BY <2>1 DEF ShapeOf
<1>5. {k \in DOMAIN s.infos : k > s.released} = {}
  OBVIOUS
<1> HIDE DEF s
<1>6. user'[u] = s /\ \A v \in User \ {u} : user'[v] = user[v]
  BY <1>1, <1>2
<1>7. TypeOK'
  BY <1>1, <1>2, <1>3 DEF Inv, TypeOK
<1>8. Shape'
  BY <1>4, <1>6 DEF Inv, Shape
<1>9. \A v \in User \ {u} : /\ Has(v)' = Has(v) /\ Hand(v)' = Hand(v)
                            /\ \A k \in Has(v) : ModelOf(v, k)' = ModelOf(v, k)
  BY <1>6 DEF Has, Hand, ModelOf
<1>10. Has(u)' = {} /\ Hand(u)' = {}
  BY <1>5, <1>6 DEF Has, Hand
<1>11. Alive \subseteq Alive'
  <2>1. \A v \in User : Range(user[v].models) \subseteq Range(user'[v].models)
    BY <1>1, <1>6, NoUserFacts
  <2>2. QED
    BY <2>1, AliveBy
<1>12. Exclusive'
  <2>1. ASSUME NEW v \in User, NEW w \in User, NEW k \in Has(v)', NEW l \in Has(w)',
               user'[v].infos[k] = user'[w].infos[l]
        PROVE  v = w /\ k = l
    <3>1. v # u /\ w # u
      BY <1>10
    <3>2. QED
      BY <1>6, <1>9, <2>1, <3>1 DEF Inv, Exclusive
  <2>2. \A v \in User, k \in Model : Hand(v)' \cap pool'[k] = {}
    BY <1>9, <1>10 DEF Inv, Exclusive
  <2>3. \A k, l \in Model : pool'[k] \cap pool'[l] # {} => k = l
    BY DEF Inv, Exclusive
  <2>4. QED
    BY <2>1, <2>2, <2>3 DEF Exclusive
<1>13. ReadsLiveData'
  <2>1. ASSUME NEW v \in User, NEW k \in Has(v)'
        PROVE  user'[v].infos[k].of = ModelOf(v, k)' /\ ModelOf(v, k)' \in Alive'
    <3>1. v # u
      BY <1>10
    <3>2. user'[v].infos = user[v].infos /\ k \in Has(v) /\ ModelOf(v, k)' = ModelOf(v, k)
      BY <1>6, <1>9, <3>1
    <3>3. user[v].infos[k].of = ModelOf(v, k) /\ ModelOf(v, k) \in Alive
      BY <3>2 DEF Inv, ReadsLiveData
    <3>4. QED
      BY <1>11, <3>2, <3>3
  <2>2. \A k \in Model : \A j \in pool'[k] : j.of = k /\ k \in Alive'
    BY <1>11 DEF Inv, ReadsLiveData
  <2>3. QED
    BY <2>1, <2>2 DEF ReadsLiveData
<1>14. QED
  BY <1>7, <1>8, <1>12, <1>13 DEF Inv

(* A cursor is either new, made from m and in nobody's hand or pool, or    *)
(* from the pool of m.                                                     *)
LEMMA TakeableFacts ==
  ASSUME Inv, NEW m \in Model, NEW i \in Takeable(m)
  PROVE  /\ i \in Info /\ i.of = m
         /\ \A v \in User : i \notin Hand(v)
         /\ \A n \in Model \ {m} : i \notin pool[n]
<1>1. CASE pool[m] = {}
  BY <1>1 DEF Takeable, Free, Held
<1>2. CASE pool[m] # {}
  BY <1>2 DEF Takeable, Inv, Exclusive, ReadsLiveData, TypeOK
<1>3. QED
  BY <1>1, <1>2

(* Finitely many users have finitely many cursors.                         *)
LEMMA InUseFinite == \A m : IsFiniteSet(InUse(m))
<1>1. IsFiniteSet(1 .. MaxInfos + 1)
  BY InfoPoolAssumption, FS_Interval
<1>2. IsFiniteSet(User \X (1 .. MaxInfos + 1))
  BY <1>1, InfoPoolAssumption, FS_Product
<1>3. QED
  BY <1>2, FS_Subset DEF InUse

(* Moving an element from the end of one list to the head of another.      *)
LEMMA OneMore ==
  ASSUME NEW a \in Nat, NEW b \in Nat, NEW c \in Nat, NEW d \in Nat,
         a = c + 1, b = d - 1
  PROVE  /\ \A j \in 1 .. b : c + (j + 1) = a + j
         /\ d > 0 /\ d # 1 => b > 0
         /\ c + d = a + b
OBVIOUS

(* Cursor i of model m goes into the hand of user u as its n-th.           *)
Takes(u, m, n, i) ==
  /\ i \in Info /\ i.of = m
  /\ \A v \in User : i \notin Hand(v)
  /\ \A k \in Model \ {m} : i \notin pool[k]
  /\ pool' \in [Model -> SUBSET Info] /\ moved' = moved \ {i}
  /\ pool'[m] = pool[m] \ {i} /\ \A k \in Model \ {m} : pool'[k] = pool[k]
  /\ user'[u].infos = Append(user[u].infos, i)
  /\ user'[u].infos[n] = i /\ \A k \in Has(u) : user'[u].infos[k] = user[u].infos[k]
  /\ Hand(u)' = Hand(u) \cup {i}

(* What a user that takes a cursor of model m, its n-th cursor, does.      *)
LEMMA TakeEffect ==
  ASSUME Inv, NEW u \in User, Take(u), NEW m, NEW n,
         m = Head(user[u].wants), n = Len(user[u].infos) + 1
  PROVE  /\ user[u] \in UserState /\ ShapeOf(user[u]) /\ user[u].released = 0
         /\ Len(user[u].wants) > 0 /\ user[u].wants \in Seq(Model)
         /\ user[u].infos \in Seq(Info) /\ user[u].models \in Seq(Model)
         /\ m \in Model /\ m = ModelOf(u, n) /\ n \in Nat /\ n \notin Has(u)
         /\ user'[u].wants = Tail(user[u].wants)
         /\ user'[u].models = user[u].models /\ user'[u].returns = user[u].returns
         /\ user'[u].released = 0
         /\ user'[u].pc = IF Len(user[u].wants) = 1 THEN "open" ELSE "taking"
         /\ user' \in [User -> UserState]
         /\ \A v \in User \ {u} : user'[v] = user[v]
         /\ \A v \in User \ {u} : /\ Has(v)' = Has(v) /\ Hand(v)' = Hand(v)
                                  /\ \A k \in Has(v) : ModelOf(v, k)' = ModelOf(v, k)
         /\ Has(u)' = Has(u) \cup {n}
         /\ \A k \in Has(u) \cup {n} : ModelOf(u, k)' = ModelOf(u, k)
         /\ \E i \in Takeable(m) : Takes(u, m, n, i)
<1>1. /\ user \in [User -> UserState] /\ user[u] \in UserState /\ ShapeOf(user[u])
      /\ user[u].pc = "taking" /\ user[u].released = 0
  BY DEF Take, Inv, TypeOK, Shape, ShapeOf
<1>2. /\ Len(user[u].wants) > 0 /\ user[u].wants \in Seq(Model)
      /\ user[u].infos \in Seq(Info) /\ user[u].models \in Seq(Model)
  BY <1>1 DEF ShapeOf, UserState
<1>3. m \in Model /\ m = user[u].wants[1] /\ m = ModelOf(u, n)
  BY <1>1, <1>2 DEF ShapeOf, ModelOf
<1>4. PICK i \in Takeable(m) :
        /\ pool' = [pool EXCEPT ![m] = OutOfPool(m, i)]
        /\ moved' = AfterFirst(m, i)
        /\ user' = [user EXCEPT ![u].infos = Append(@, i), ![u].wants = Tail(@),
                                ![u].pc = IF Len(user[u].wants) = 1 THEN "open" ELSE @]
  BY DEF Take
<1>5. /\ i \in Info /\ i.of = m
      /\ \A v \in User : i \notin Hand(v)
      /\ \A k \in Model \ {m} : i \notin pool[k]
  BY <1>3, TakeableFacts
<1> DEFINE s == user'[u]
<1>6. Append(user[u].infos, i) \in Seq(Info) /\ Tail(user[u].wants) \in Seq(Model)
  BY <1>2, <1>5
<1>7. /\ s.infos = Append(user[u].infos, i) /\ s.wants = Tail(user[u].wants)
      /\ s.models = user[u].models /\ s.returns = user[u].returns /\ s.released = 0
      /\ s.pc = IF Len(user[u].wants) = 1 THEN "open" ELSE "taking"
      /\ user' \in [User -> UserState]
  <2>1. /\ s.infos = Append(user[u].infos, i) /\ s.wants = Tail(user[u].wants)
        /\ s.models = user[u].models /\ s.returns = user[u].returns /\ s.released = 0
        /\ s.pc = IF Len(user[u].wants) = 1 THEN "open" ELSE "taking"
    BY <1>1, <1>4 DEF UserState
  <2>2. user' \in [User -> UserState]
    BY <1>1, <1>4, <1>6 DEF UserState
  <2>3. QED
    BY <2>1, <2>2
<1>8. \A v \in User \ {u} : user'[v] = user[v]
  BY <1>1, <1>4
<1> HIDE DEF s
<1>9. n \in Nat /\ {k \in DOMAIN s.infos : k > s.released} = Has(u) \cup {n} /\ n \notin Has(u)
  BY <1>1, <1>2, <1>5, <1>7 DEF Has
<1>10. s.infos[n] = i /\ \A k \in Has(u) : s.infos[k] = user[u].infos[k]
  BY <1>2, <1>5, <1>7 DEF Has
<1>11. pool'[m] = pool[m] \ {i} /\ \A k \in Model \ {m} : pool'[k] = pool[k]
  BY <1>3, <1>4 DEF OutOfPool, Inv, TypeOK
<1>12. pool' \in [Model -> SUBSET Info] /\ moved' = moved \ {i}
  BY <1>4 DEF OutOfPool, AfterFirst, Inv, TypeOK
<1>13. \A v \in User \ {u} : /\ Has(v)' = Has(v) /\ Hand(v)' = Hand(v)
                             /\ \A k \in Has(v) : ModelOf(v, k)' = ModelOf(v, k)
  BY <1>8 DEF Has, Hand, ModelOf
<1>14. /\ Has(u)' = Has(u) \cup {n} /\ Hand(u)' = Hand(u) \cup {i}
       /\ \A k \in Has(u) \cup {n} : ModelOf(u, k)' = ModelOf(u, k)
  <2>1. Has(u)' = Has(u) \cup {n}
    BY <1>9 DEF Has, s
  <2>2. \A k \in Has(u) \cup {n} : ModelOf(u, k)' = ModelOf(u, k)
    BY <1>7 DEF ModelOf, s
  <2>3. Hand(u)' = {s.infos[k] : k \in Has(u) \cup {n}}
    BY <2>1 DEF Hand, s
  <2>4. {s.infos[k] : k \in Has(u) \cup {n}} = {user[u].infos[k] : k \in Has(u)} \cup {i}
    BY <1>9, <1>10
  <2>5. QED
    BY <2>1, <2>2, <2>3, <2>4 DEF Hand
<1>15. Takes(u, m, n, i)
  BY <1>5, <1>7, <1>10, <1>11, <1>12, <1>14 DEF s, Takes
<1>16. QED
  BY <1>1, <1>2, <1>3, <1>4, <1>7, <1>8, <1>9, <1>13, <1>14, <1>15 DEF s

(* A cursor that is taken is in nobody else's hand or pool, and of the     *)
(* model that was asked for one.                                           *)
LEMMA TakeStep == ASSUME Inv, NEW u \in User, Take(u) PROVE Inv'
<1> DEFINE m == Head(user[u].wants)
           n == Len(user[u].infos) + 1
           s == user'[u]
<1>1. /\ ShapeOf(user[u])
      /\ user[u].pc = "taking" /\ user[u].returns \in Nat
  BY DEF Take, Inv, TypeOK, Shape, UserState
<1>2. m = Head(user[u].wants) /\ n = Len(user[u].infos) + 1
  OBVIOUS
<1>3. /\ Len(user[u].wants) > 0 /\ user[u].wants \in Seq(Model)
      /\ user[u].infos \in Seq(Info) /\ user[u].models \in Seq(Model)
      /\ m \in Model /\ m = ModelOf(u, n) /\ n \in Nat /\ n \notin Has(u)
      /\ s.wants = Tail(user[u].wants)
      /\ s.models = user[u].models /\ s.returns = user[u].returns /\ s.released = 0
      /\ s.pc = IF Len(user[u].wants) = 1 THEN "open" ELSE "taking"
      /\ user' \in [User -> UserState]
  <2> HIDE DEF m, n
  <2>1. QED
    BY <1>2, TakeEffect
<1>4. PICK i \in Takeable(m) : Takes(u, m, n, i)
  <2> HIDE DEF m, n
  <2>1. QED
    BY <1>2, TakeEffect
<1>5. /\ s.infos = Append(user[u].infos, i)
      /\ i \in Info /\ i.of = m
      /\ \A k \in Model \ {m} : i \notin pool[k]
      /\ pool' \in [Model -> SUBSET Info] /\ moved' = moved \ {i}
      /\ pool'[m] = pool[m] \ {i} /\ \A k \in Model \ {m} : pool'[k] = pool[k]
  <2> HIDE DEF m, n
  <2>1. QED
    BY <1>4 DEF Takes
<1>6. /\ \A v \in User \ {u} : user'[v] = user[v]
      /\ Has(u)' = Has(u) \cup {n}
      /\ \A k \in Has(u) \cup {n} : ModelOf(u, k)' = ModelOf(u, k)
      /\ \A v \in User \ {u} : /\ Has(v)' = Has(v) /\ Hand(v)' = Hand(v)
                               /\ \A k \in Has(v) : ModelOf(v, k)' = ModelOf(v, k)
  <2> HIDE DEF m, n
  <2>1. QED
    BY <1>2, TakeEffect
<1>7. Append(user[u].infos, i) \in Seq(Info) /\ Tail(user[u].wants) \in Seq(Model)
  BY <1>3, <1>5
<1> HIDE DEF s
<1>8. ShapeOf(s)
  <2>1. /\ Len(s.wants) = Len(user[u].wants) - 1 /\ Len(s.infos) = n
        /\ Len(user[u].wants) \in Nat /\ Len(user[u].infos) \in Nat
        /\ Len(s.wants) \in Nat /\ Len(s.infos) \in Nat
    BY <1>3, <1>5
  <2> DEFINE a == Len(s.infos)
             b == Len(s.wants)
             c == Len(user[u].infos)
             d == Len(user[u].wants)
  <2>a. a \in Nat /\ b \in Nat /\ c \in Nat /\ d \in Nat /\ a = c + 1 /\ b = d - 1
    BY <2>1
  <2>b. /\ \A j \in 1 .. b : c + (j + 1) = a + j
        /\ d > 0 /\ d # 1 => b > 0
        /\ c + d = a + b
    <3> HIDE DEF a, b, c, d
    <3>1. QED
      BY <2>a, OneMore
  <2>2. \A j \in 1 .. Len(s.wants) : s.wants[j] = user[u].wants[j + 1] /\ j + 1 \in 1 .. Len(user[u].wants)
    BY <1>3, <1>5, <2>1
  <2>3. \A j \in 1 .. Len(s.wants) :
          s.wants[j] = s.models[IF Len(s.infos) + j \in DOMAIN s.models
                                THEN Len(s.infos) + j ELSE 1]
    <3> SUFFICES ASSUME NEW j \in 1 .. Len(s.wants)
                 PROVE  s.wants[j] = s.models[IF Len(s.infos) + j \in DOMAIN s.models
                                              THEN Len(s.infos) + j ELSE 1]
      OBVIOUS
    <3>1. Len(user[u].infos) + (j + 1) = Len(s.infos) + j
      BY <2>b
    <3>2. QED
      BY <1>1, <1>3, <1>5, <2>2, <3>1 DEF ShapeOf
  <2>4. Len(user[u].wants) = 1 => s.wants = <<>>
    <3>1. ASSUME Len(user[u].wants) = 1 PROVE s.wants = <<>>
      <4>1. Len(s.wants) = 0 /\ s.wants \in Seq(Model)
        BY <1>3, <1>5, <1>7, <2>1, <3>1
      <4>2. QED
        BY <4>1, EmptySeq
    <3>2. QED
      BY <3>1
  <2>5. s.pc = "taking" => Len(s.wants) > 0
    <3>1. Len(user[u].wants) > 0 /\ Len(user[u].wants) # 1 => Len(s.wants) > 0
      BY <2>b
    <3>2. QED
      BY <1>3, <1>5, <3>1
  <2>6. Len(s.models) > 0 /\ s.pc # "none"
    BY <1>1, <1>3, <1>5 DEF ShapeOf
  <2>7. /\ s.returns \in Nat /\ s.returns <= Len(s.models)
        /\ s.returns <= Len(s.infos) + Len(s.wants) /\ s.released <= s.returns
    <3>1. s.returns \in Nat /\ user[u].returns \in Nat
      BY <1>1, <1>3, <1>5 DEF UserState
    <3>2. s.returns <= Len(s.models) /\ s.returns <= Len(user[u].infos) + Len(user[u].wants)
      BY <1>1, <1>3, <1>5 DEF ShapeOf
    <3>3. Len(user[u].infos) + Len(user[u].wants) = Len(s.infos) + Len(s.wants)
      BY <2>b
    <3>4. s.released <= s.returns
      BY <1>3, <1>5, <3>1
    <3>5. QED
      BY <3>1, <3>2, <3>3, <3>4
  <2>8. QED
    BY <1>3, <1>5, <2>3, <2>4, <2>5, <2>6, <2>7 DEF ShapeOf
<1> HIDE DEF m, n
<1>9. /\ n \notin Has(u) /\ \A v \in User : i \notin Hand(v)
      /\ s.infos[n] = i /\ \A k \in Has(u) : s.infos[k] = user[u].infos[k]
      /\ Hand(u)' = Hand(u) \cup {i}
  BY <1>3, <1>4 DEF Takes, s
<1>10. TypeOK'
  <2>1. pool' \in [Model -> SUBSET Info] /\ moved' \subseteq Info
    BY <1>3, <1>5 DEF Inv, TypeOK
  <2>2. peak' \in [Model -> Nat]
    <3>1. \/ peak' = peak
          \/ peak' = [peak EXCEPT ![m] = Cardinality(InUse(m)) + 1]
             /\ peak[m] <= Cardinality(InUse(m))
      BY DEF Take, m, Inv, TypeOK
    <3>2. Cardinality(InUse(m)) \in Nat
      BY InUseFinite, FS_CardinalityType
    <3>3. QED
      BY <3>1, <3>2 DEF Inv, TypeOK
  <2>3. QED
    BY <1>3, <1>5, <2>1, <2>2 DEF Take, Inv, TypeOK
<1>11. Shape'
  BY <1>6, <1>8 DEF Inv, Shape, s
<1>12. Alive' = Alive
  <2>1. \A v \in User : user'[v].models = user[v].models
    BY <1>3, <1>5, <1>6 DEF s
  <2>2. loaded' = loaded
    BY DEF Take
  <2>3. QED
    BY <2>1, <2>2 DEF Alive
<1>13. Exclusive'
  <2>1. ASSUME NEW v \in User, NEW w \in User, NEW k \in Has(v)', NEW l \in Has(w)',
               user'[v].infos[k] = user'[w].infos[l]
        PROVE  v = w /\ k = l
    <3>1. CASE v = u /\ k = n
      BY <1>6, <1>9, <2>1, <3>1 DEF Hand, s
    <3>2. CASE w = u /\ l = n
      BY <1>6, <1>9, <2>1, <3>2 DEF Hand, s
    <3>3. CASE ~(v = u /\ k = n) /\ ~(w = u /\ l = n)
      <4>1. k \in Has(v) /\ l \in Has(w)
        BY <1>6, <3>3
      <4>2. user'[v].infos[k] = user[v].infos[k] /\ user'[w].infos[l] = user[w].infos[l]
        BY <1>6, <1>9, <4>1 DEF s
      <4>3. user[v].infos[k] = user[w].infos[l]
        BY <2>1, <4>2
      <4>4. QED
        BY <4>1, <4>3 DEF Inv, Exclusive
    <3>4. QED
      BY <3>1, <3>2, <3>3
  <2>2. \A v \in User, k \in Model : Hand(v)' \cap pool'[k] = {}
    BY <1>3, <1>5, <1>6, <1>9 DEF Inv, Exclusive
  <2>3. \A k, l \in Model : pool'[k] \cap pool'[l] # {} => k = l
    <3>1. \A k \in Model : pool'[k] \subseteq pool[k]
      BY <1>3, <1>5
    <3>2. QED
      BY <3>1 DEF Inv, Exclusive
  <2>4. QED
    BY <2>1, <2>2, <2>3 DEF Exclusive
<1>14. ReadsLiveData'
  <2>1. \A v \in User : \A k \in Has(v)' :
          user'[v].infos[k].of = ModelOf(v, k)' /\ ModelOf(v, k)' \in Alive'
    <3> SUFFICES ASSUME NEW v \in User, NEW k \in Has(v)'
                 PROVE  user'[v].infos[k].of = ModelOf(v, k)' /\ ModelOf(v, k)' \in Alive'
      OBVIOUS
    <3>1. CASE v = u /\ k = n
      <4>1. ModelOf(u, n) \in Range(user[u].models)
        BY <1>1, <1>3, <1>5 DEF ShapeOf, ModelOf, Range
      <4>2. m \in Alive
        BY <1>3, <1>5, <4>1 DEF Alive, n, m
      <4>3. QED
        BY <1>3, <1>5, <1>6, <1>12, <3>1, <4>2 DEF n, m, s
    <3>2. CASE ~(v = u /\ k = n)
      <4>1. k \in Has(v) /\ user'[v].infos[k] = user[v].infos[k] /\ ModelOf(v, k)' = ModelOf(v, k)
        BY <1>6, <1>9, <3>2 DEF s
      <4>2. QED
        BY <1>12, <4>1 DEF Inv, ReadsLiveData
    <3>3. QED
      BY <3>1, <3>2
  <2>2. \A k \in Model : \A j \in pool'[k] : j.of = k /\ k \in Alive'
    BY <1>3, <1>5, <1>12 DEF Inv, ReadsLiveData
  <2>3. QED
    BY <2>1, <2>2 DEF ReadsLiveData
<1>15. QED
  BY <1>10, <1>11, <1>13, <1>14 DEF Inv

(* The model a user's cursor stands for is one of the user's own models.   *)
LEMMA OwnModel ==
  ASSUME Inv, NEW v \in User, NEW k \in Has(v)
  PROVE  ModelOf(v, k) \in Range(user[v].models) /\ ModelOf(v, k) \in Model
<1>1. user[v] \in UserState /\ ShapeOf(user[v])
  BY DEF Inv, TypeOK, Shape
<1>2. user[v].models \in Seq(Model)
  BY <1>1 DEF UserState
<1>3. user[v].pc # "none"
  BY <1>1, NoUserFacts DEF ShapeOf, Has
<1>4. 1 \in DOMAIN user[v].models
  BY <1>1, <1>2, <1>3 DEF ShapeOf
<1>5. QED
  BY <1>2, <1>4 DEF ModelOf, Range

(* The steps in which only the pools change, or cursors of user u go: what *)
(* is left is exclusive, and live if its models are.                       *)
LEMMA ShrinkStep ==
  ASSUME Inv, TypeOK', Shape',
         \A v \in User : /\ Has(v)' \subseteq Has(v)
                         /\ \A k \in Has(v)' : /\ user'[v].infos = user[v].infos
                                               /\ user'[v].models = user[v].models,
         \A m \in Model : pool'[m] \subseteq pool[m] /\ (pool'[m] # {} => m \in Alive')
  PROVE  Inv'
<1>1. \A v \in User : \A k \in Has(v)' :
        /\ k \in Has(v) /\ user'[v].infos[k] = user[v].infos[k]
        /\ ModelOf(v, k)' = ModelOf(v, k)
        /\ ModelOf(v, k) \in Range(user'[v].models)
  BY OwnModel DEF ModelOf
<1>2. \A v \in User : Hand(v)' \subseteq Hand(v)
  BY <1>1 DEF Hand
<1>3. Exclusive'
  BY <1>1, <1>2 DEF Inv, Exclusive
<1>4. \A v \in User : \A k \in Has(v)' :
        user'[v].infos[k].of = ModelOf(v, k)' /\ ModelOf(v, k)' \in Alive'
  BY <1>1, AliveBy DEF Inv, ReadsLiveData
<1>5. \A m \in Model : \A i \in pool'[m] : i.of = m /\ m \in Alive'
  BY DEF Inv, ReadsLiveData
<1>6. QED
  BY <1>3, <1>4, <1>5 DEF Inv, ReadsLiveData

(* A user that ends frees the cursors and models it still has.             *)
LEMMA EndStep == ASSUME Inv, NEW u \in User, End(u) PROVE Inv'
<1>1. user \in [User -> UserState] /\ user' = [user EXCEPT ![u] = NoUser]
  BY DEF End, Inv, TypeOK
<1>2. user'[u] = NoUser /\ \A v \in User \ {u} : user'[v] = user[v]
  BY <1>1
<1>3. /\ pool \in [Model -> SUBSET Info]
      /\ pool' = [m \in Model |-> IF m \in Alive' THEN pool[m] ELSE {}]
  BY DEF End, FreeModels, Inv, TypeOK
<1>4. TypeOK'
  <2>1. user' \in [User -> UserState]
    BY <1>1, NoUserFacts
  <2>2. pool' \in [Model -> SUBSET Info]
    BY <1>3
  <2>3. moved' \subseteq Info /\ peak' \in [Model -> Nat] /\ loaded' \subseteq Model
    BY DEF End, Inv, TypeOK
  <2>4. QED
    BY <2>1, <2>2, <2>3 DEF TypeOK
<1>5. Shape'
  BY <1>2, NoUserFacts DEF Inv, Shape
<1>6. ASSUME NEW v \in User
      PROVE  /\ Has(v)' \subseteq Has(v)
             /\ \A k \in Has(v)' : /\ user'[v].infos = user[v].infos
                                   /\ user'[v].models = user[v].models
  <2>1. CASE v = u
    BY <1>2, <2>1, NoUserFacts DEF Has
  <2>2. CASE v # u
    BY <1>2, <2>2 DEF Has
  <2>3. QED
    BY <2>1, <2>2
<1>7. \A m \in Model : pool'[m] \subseteq pool[m] /\ (pool'[m] # {} => m \in Alive')
  BY <1>3
<1>8. QED
  BY <1>4, <1>5, <1>6, <1>7, ShrinkStep

(* The repository lets go of a model; it is freed only when no user has    *)
(* it.                                                                     *)
LEMMA UnloadStep == ASSUME Inv, NEW m \in Model, UnloadModel(m) PROVE Inv'
<1>1. user' = user /\ pool' = [n \in Model |-> IF n \in Alive' THEN pool[n] ELSE {}]
  BY DEF UnloadModel, FreeModels
<1>2. TypeOK'
  BY <1>1 DEF UnloadModel, Inv, TypeOK
<1>3. Shape'
  BY <1>1 DEF Inv, Shape
<1>4. \A v \in User : /\ Has(v)' \subseteq Has(v)
                      /\ \A k \in Has(v)' : /\ user'[v].infos = user[v].infos
                                            /\ user'[v].models = user[v].models
  BY <1>1 DEF Has
<1>5. \A n \in Model : pool'[n] \subseteq pool[n] /\ (pool'[n] # {} => n \in Alive')
  BY <1>1
<1>6. QED
  BY <1>2, <1>3, <1>4, <1>5, ShrinkStep

(* The user moves its cursors: nothing changes hands.                      *)
LEMMA MoveStep == ASSUME Inv, NEW u \in User, Move(u) PROVE Inv'
<1>1. /\ user \in [User -> UserState] /\ user[u].pc \in {"open", "moving"}
      /\ user' = [user EXCEPT ![u].pc = "moving"] /\ ShapeOf(user[u])
  BY DEF Move, Inv, TypeOK, Shape
<1>2. /\ user'[u].pc = "moving" /\ user'[u].models = user[u].models
      /\ user'[u].wants = user[u].wants /\ user'[u].infos = user[u].infos
      /\ user'[u].returns = user[u].returns /\ user'[u].released = user[u].released
      /\ user' \in [User -> UserState]
  BY <1>1 DEF UserState
<1>3. \A v \in User \ {u} : user'[v] = user[v]
  BY <1>1
<1>4. \A i \in Hand(u) : i \in Info
  BY <1>1 DEF Hand, Has, UserState
<1>5. TypeOK'
  BY <1>2, <1>4 DEF Move, Inv, TypeOK
<1>6. ShapeOf(user'[u])
  BY <1>1, <1>2 DEF ShapeOf
<1>7. Shape'
  BY <1>3, <1>6 DEF Inv, Shape
<1>8. \A v \in User : /\ Has(v)' \subseteq Has(v)
                      /\ \A k \in Has(v)' : /\ user'[v].infos = user[v].infos
                                            /\ user'[v].models = user[v].models
  BY <1>2, <1>3 DEF Has
<1>9. Alive' = Alive
  <2>1. \A v \in User : user'[v].models = user[v].models
    BY <1>2, <1>3
  <2>2. QED
    BY <2>1 DEF Move, Alive
<1>10. \A n \in Model : pool'[n] \subseteq pool[n] /\ (pool'[n] # {} => n \in Alive')
  BY <1>9 DEF Move, Inv, ReadsLiveData
<1>11. QED
  BY <1>5, <1>7, <1>8, <1>10, ShrinkStep

(* What a user that gives its k-th cursor back to the pool of m does.      *)
LEMMA ReleaseEffect ==
  ASSUME Inv, NEW u \in User, Release(u), NEW k, NEW m, NEW i,
         k = user[u].released + 1, m = user[u].models[k], i = user[u].infos[k]
  PROVE  /\ ShapeOf(user[u]) /\ user[u].pc \in {"open", "moving", "closing"}
         /\ k \in Has(u) /\ m = ModelOf(u, k) /\ m \in Model /\ i \in Info
         /\ k \in Nat /\ k > user[u].released /\ k <= user[u].returns /\ k \notin Has(u)'
         /\ user'[u].pc = "closing" /\ user'[u].models = user[u].models
         /\ user'[u].wants = user[u].wants /\ user'[u].infos = user[u].infos
         /\ user'[u].returns = user[u].returns /\ user'[u].released = k
         /\ user' \in [User -> UserState]
         /\ \A v \in User \ {u} : user'[v] = user[v]
         /\ pool' \in [Model -> SUBSET Info]
         /\ pool'[m] = pool[m] \cup {i} /\ \A n \in Model \ {m} : pool'[n] = pool[n]
         /\ \A v \in User : /\ Has(v)' \subseteq Has(v)
                           /\ user'[v].infos = user[v].infos /\ user'[v].models = user[v].models
<1>1. /\ user \in [User -> UserState] /\ user[u] \in UserState /\ ShapeOf(user[u])
      /\ user[u].pc \in {"open", "moving", "closing"}
      /\ user[u].released < user[u].returns
      /\ user' = [user EXCEPT ![u].pc = "closing", ![u].released = @ + 1]
      /\ pool' = [pool EXCEPT ![m] = @ \cup {i}]
  BY DEF Release, ReleaseTarget, Inv, TypeOK, Shape
<1>2. /\ user[u].released \in Nat /\ user[u].returns \in Nat
      /\ user[u].models \in Seq(Model) /\ user[u].infos \in Seq(Info)
  BY <1>1 DEF UserState
<1>3. k \in DOMAIN user[u].models /\ k \in DOMAIN user[u].infos
  <2>1. user[u].wants = <<>> /\ user[u].returns <= Len(user[u].models)
        /\ user[u].returns <= Len(user[u].infos) + Len(user[u].wants)
    BY <1>1 DEF ShapeOf
  <2>2. Len(user[u].wants) = 0 /\ Len(user[u].infos) \in Nat /\ Len(user[u].models) \in Nat
    BY <1>2, <2>1
  <2>3. k \in 1 .. Len(user[u].models) /\ k \in 1 .. Len(user[u].infos)
    BY <1>1, <1>2, <2>1, <2>2
  <2>4. QED
    BY <1>2, <2>3
<1>4. k \in Has(u) /\ m = ModelOf(u, k) /\ m \in Model /\ i \in Info
  BY <1>2, <1>3 DEF Has, ModelOf
<1>5. /\ user'[u].pc = "closing" /\ user'[u].models = user[u].models
      /\ user'[u].wants = user[u].wants /\ user'[u].infos = user[u].infos
      /\ user'[u].returns = user[u].returns /\ user'[u].released = k
      /\ user' \in [User -> UserState]
  <2>1. /\ user'[u].pc = "closing" /\ user'[u].models = user[u].models
        /\ user'[u].wants = user[u].wants /\ user'[u].infos = user[u].infos
        /\ user'[u].returns = user[u].returns /\ user'[u].released = k
    BY <1>1 DEF UserState
  <2>2. k \in Nat
    BY <1>2
  <2>3. user' = [user EXCEPT ![u].pc = "closing", ![u].released = k]
    BY <1>1
  <2>4. user' \in [User -> UserState]
    <3>1. [user[u] EXCEPT !.pc = "closing", !.released = k] \in UserState
      BY <1>1, <2>2 DEF UserState
    <3>2. user' = [user EXCEPT ![u] = [user[u] EXCEPT !.pc = "closing", !.released = k]]
      BY <1>1, <2>3
    <3>3. QED
      BY <1>1, <3>1, <3>2
  <2>5. QED
    BY <2>1, <2>4
<1>6. \A v \in User \ {u} : user'[v] = user[v]
  BY <1>1
<1>7. pool'[m] = pool[m] \cup {i} /\ \A n \in Model \ {m} : pool'[n] = pool[n]
  BY <1>1, <1>4 DEF Inv, TypeOK
<1>8. k \in Nat /\ k > user[u].released /\ k <= user[u].returns
  BY <1>1, <1>2
<1>9. pool' \in [Model -> SUBSET Info]
  BY <1>1, <1>4 DEF Inv, TypeOK
<1>10. \A v \in User : /\ Has(v)' \subseteq Has(v)
                       /\ user'[v].infos = user[v].infos /\ user'[v].models = user[v].models
  <2>1. \A j \in DOMAIN user[u].infos : j > k => j > user[u].released
    BY <1>2, <1>8
  <2>2. Has(u)' \subseteq Has(u)
    BY <1>5, <2>1 DEF Has
  <2>3. QED
    BY <1>5, <1>6, <2>2 DEF Has
<1>11. k \notin Has(u)'
  BY <1>5, <1>8 DEF Has
<1>12. QED
  BY <1>1, <1>4, <1>5, <1>6, <1>7, <1>8, <1>9, <1>10, <1>11

(* The cursor given back goes from the user's hand to the pool of the      *)
(* model it stands for, which is the model it reads.                       *)
LEMMA ReleaseStep == ASSUME Inv, NEW u \in User, Release(u) PROVE Inv'
<1> DEFINE k == user[u].released + 1
           m == user[u].models[k]
           i == user[u].infos[k]
<1>1. k = user[u].released + 1 /\ m = user[u].models[k] /\ i = user[u].infos[k]
  OBVIOUS
<1> HIDE DEF k, m, i
<1>2. /\ ShapeOf(user[u]) /\ user[u].pc \in {"open", "moving", "closing"}
      /\ k \in Has(u) /\ m = ModelOf(u, k) /\ m \in Model /\ i \in Info
      /\ k \in Nat /\ k > user[u].released /\ k <= user[u].returns /\ k \notin Has(u)'
      /\ user'[u].pc = "closing" /\ user'[u].models = user[u].models
      /\ user'[u].wants = user[u].wants /\ user'[u].infos = user[u].infos
      /\ user'[u].returns = user[u].returns /\ user'[u].released = k
      /\ user' \in [User -> UserState]
  BY <1>1, ReleaseEffect
<1>3. /\ \A v \in User \ {u} : user'[v] = user[v]
      /\ pool' \in [Model -> SUBSET Info]
      /\ pool'[m] = pool[m] \cup {i} /\ \A n \in Model \ {m} : pool'[n] = pool[n]
      /\ \A v \in User : /\ Has(v)' \subseteq Has(v)
                        /\ user'[v].infos = user[v].infos /\ user'[v].models = user[v].models
  BY <1>1, ReleaseEffect
<1>4. TypeOK'
  <2>1. UNCHANGED <<loaded, moved, peak>>
    BY DEF Release
  <2>2. QED
    BY <1>2, <1>3, <2>1 DEF Inv, TypeOK
<1>5. ShapeOf(user'[u])
  <2> DEFINE o == user[u]
             s == user'[u]
  <2>1. ShapeOf(o) /\ o.pc \in {"open", "moving", "closing"} /\ k <= o.returns
    BY <1>2
  <2>2. /\ s.pc = "closing" /\ s.models = o.models /\ s.wants = o.wants
        /\ s.infos = o.infos /\ s.returns = o.returns /\ s.released = k
    BY <1>2
  <2> HIDE DEF o, s
  <2>3. o.wants = <<>> /\ Len(o.models) > 0 /\ o.returns <= Len(o.models)
        /\ o.returns <= Len(o.infos) + Len(o.wants)
    BY <2>1 DEF ShapeOf
  <2>4. \A j \in 1 .. Len(s.wants) :
          s.wants[j] = s.models[IF Len(s.infos) + j \in DOMAIN s.models
                                THEN Len(s.infos) + j ELSE 1]
    BY <2>2, <2>3
  <2>5. ShapeOf(s)
    <3>1. s.pc # "none" /\ s.pc # "taking" /\ s.wants = <<>> /\ s.released <= s.returns
      BY <2>1, <2>2, <2>3
    <3>2. Len(s.models) > 0 /\ s.returns <= Len(s.models)
          /\ s.returns <= Len(s.infos) + Len(s.wants)
      BY <2>2, <2>3
    <3>3. QED
      BY <2>4, <3>1, <3>2 DEF ShapeOf
  <2>6. QED
    BY <2>5 DEF s
<1>6. Shape'
  BY <1>3, <1>5 DEF Inv, Shape
<1>7. \A v \in User : \A j \in Has(v)' : /\ user'[v].infos[j] = user[v].infos[j]
                                          /\ ModelOf(v, j)' = ModelOf(v, j)
                                          /\ j \in Has(v)
  BY <1>3 DEF ModelOf
<1>8. \A v \in User : Hand(v)' \subseteq Hand(v) /\ i \notin Hand(v)'
  <2>1. k \in Has(u) /\ k \notin Has(u)' /\ i = user[u].infos[k]
    BY <1>1, <1>2
  <2>2. QED
    BY <1>7, <2>1 DEF Hand, Inv, Exclusive
<1>9. i \in Hand(u)
  BY <1>1, <1>2 DEF Hand
<1>10. Exclusive'
  <2>1. ASSUME NEW v \in User, NEW w \in User, NEW j \in Has(v)', NEW l \in Has(w)',
               user'[v].infos[j] = user'[w].infos[l]
        PROVE  v = w /\ j = l
    BY <1>7, <2>1 DEF Inv, Exclusive
  <2>2. \A v \in User, n \in Model : Hand(v)' \cap pool'[n] = {}
    BY <1>3, <1>8 DEF Inv, Exclusive
  <2>3. \A n, l \in Model : pool'[n] \cap pool'[l] # {} => n = l
    BY <1>2, <1>3, <1>9 DEF Inv, Exclusive
  <2>4. QED
    BY <2>1, <2>2, <2>3 DEF Exclusive
<1>11. Alive' = Alive
  <2>1. loaded' = loaded /\ \A v \in User : user'[v].models = user[v].models
    BY <1>3 DEF Release
  <2>2. QED
    BY <2>1 DEF Alive
<1>12. i.of = m /\ m \in Alive
  BY <1>1, <1>2 DEF Inv, ReadsLiveData
<1>13. ReadsLiveData'
  <2>1. \A v \in User : \A j \in Has(v)' :
          user'[v].infos[j].of = ModelOf(v, j)' /\ ModelOf(v, j)' \in Alive'
    BY <1>7, <1>11 DEF Inv, ReadsLiveData
  <2>2. \A n \in Model : \A j \in pool'[n] : j.of = n /\ n \in Alive'
    BY <1>3, <1>11, <1>12 DEF Inv, ReadsLiveData
  <2>3. QED
    BY <2>1, <2>2 DEF ReadsLiveData
<1>14. QED
  BY <1>4, <1>6, <1>10, <1>13 DEF Inv

(* A new model's first cursor is fresh; nobody has the model yet.          *)
LEMMA LoadStep == ASSUME Inv, NEW m \in Model, LoadModel(m) PROVE Inv'
<1>1. PICK i \in Free(m) : pool' = [pool EXCEPT ![m] = {i}] /\ moved' = moved \cup {i}
  BY DEF LoadModel
<1>2. /\ i \in Info /\ i.of = m
      /\ \A v \in User : i \notin Hand(v)
      /\ \A n \in Model : i \notin pool[n]
  BY DEF Free, Held
<1>3. user' = user /\ loaded' = loaded \cup {m}
  BY DEF LoadModel
<1>4. pool'[m] = {i} /\ \A n \in Model \ {m} : pool'[n] = pool[n]
  BY <1>1 DEF Inv, TypeOK
<1>5. TypeOK'
  BY <1>1, <1>2, <1>3 DEF LoadModel, Inv, TypeOK
<1>6. Shape'
  BY <1>3 DEF Inv, Shape
<1>7. \A v \in User : /\ Has(v)' = Has(v) /\ Hand(v)' = Hand(v)
                      /\ \A k \in Has(v) : ModelOf(v, k)' = ModelOf(v, k)
  BY <1>3 DEF Has, Hand, ModelOf
<1>8. Alive \subseteq Alive' /\ m \in Alive'
  BY <1>3 DEF Alive
<1>9. Exclusive'
  <2>1. ASSUME NEW v \in User, NEW w \in User, NEW j \in Has(v)', NEW l \in Has(w)',
               user'[v].infos[j] = user'[w].infos[l]
        PROVE  v = w /\ j = l
    BY <1>3, <1>7, <2>1 DEF Inv, Exclusive
  <2>2. \A v \in User, n \in Model : Hand(v)' \cap pool'[n] = {}
    BY <1>2, <1>4, <1>7 DEF Inv, Exclusive
  <2>3. \A n, l \in Model : pool'[n] \cap pool'[l] # {} => n = l
    BY <1>2, <1>4 DEF Inv, Exclusive
  <2>4. QED
    BY <2>1, <2>2, <2>3 DEF Exclusive
<1>10. ReadsLiveData'
  <2>1. \A v \in User : \A j \in Has(v)' :
          user'[v].infos[j].of = ModelOf(v, j)' /\ ModelOf(v, j)' \in Alive'
    BY <1>3, <1>7, <1>8 DEF Inv, ReadsLiveData
  <2>2. \A n \in Model : \A j \in pool'[n] : j.of = n /\ n \in Alive'
    BY <1>2, <1>4, <1>8 DEF Inv, ReadsLiveData
  <2>3. QED
    BY <2>1, <2>2 DEF ReadsLiveData
<1>11. QED
  BY <1>5, <1>6, <1>9, <1>10 DEF Inv

(* The ways in which a user begins ask for cursors as BeginStep needs it.  *)
LEMMA BeginSteps ==
  ASSUME Inv, NEW u \in User, NEW m \in Model,
         SingleQ(u, m) \/ Contains(u, m) \/ Describe(u, m) \/ Sample(u, m)
  PROVE  Inv'
<1> DEFINE one == <<m>>
           two == <<m, m>>
           r == 1
<1>1. moved' \subseteq Info /\ peak' \in [Model -> Nat] /\ UNCHANGED <<loaded, pool>>
  BY DEF SingleQ, Contains, Describe, Sample, Inv, TypeOK
<1>2. Begin(u, one, two, r) \/ Begin(u, one, one, r) \/ Begin(u, one, one, 0)
  BY DEF SingleQ, Contains, Describe, Sample
<1>3. /\ one \in Seq(Model) /\ two \in Seq(Model) /\ r \in Nat
      /\ Len(one) > 0 /\ Len(two) > 0 /\ r <= Len(one) /\ r <= Len(two)
      /\ \A j \in 1 .. Len(one) : one[j] = one[IF j \in DOMAIN one THEN j ELSE 1]
      /\ \A j \in 1 .. Len(two) : two[j] = one[IF j \in DOMAIN one THEN j ELSE 1]
  OBVIOUS
<1> HIDE DEF one, two, r
<1>4. CASE Begin(u, one, two, r)
  BY <1>1, <1>3, <1>4, BeginStep
<1>5. CASE Begin(u, one, one, r)
  BY <1>1, <1>3, <1>5, BeginStep
<1>6. CASE Begin(u, one, one, 0)
  BY <1>1, <1>3, <1>6, BeginStep
<1>7. QED
  BY <1>2, <1>4, <1>5, <1>6

(* A Q of several models owns them all and takes its cursors later.        *)
LEMMA MultiStep ==
  ASSUME Inv, NEW u \in User, NEW models \in ModelLists, MultiQ(u, models)
  PROVE  Inv'
<1>1. models \in Seq(Model) /\ Len(models) > 0 /\ Len(models) \in Nat
  <2>1. PICK n \in 1 .. MaxInfos : models \in [1 .. n -> Model]
    BY DEF ModelLists
  <2>2. n \in Nat /\ n > 0
    BY <2>1, InfoPoolAssumption
  <2>3. QED
    BY <2>1, <2>2
<1>2. \A j \in 1 .. Len(models) : models[j] = models[IF j \in DOMAIN models THEN j ELSE 1]
  BY <1>1
<1>3. moved' \subseteq Info /\ peak' \in [Model -> Nat] /\ UNCHANGED <<loaded, pool>>
  BY DEF MultiQ, Inv, TypeOK
<1>4. Begin(u, models, models, Len(models))
  BY DEF MultiQ
<1>5. QED
  BY <1>1, <1>2, <1>3, <1>4, BeginStep

(* Every step of the system preserves the invariant.                       *)
LEMMA InvStep == Inv /\ [Next]_vars => Inv'
<1> SUFFICES ASSUME Inv, [Next]_vars PROVE Inv'
  OBVIOUS
<1>1. ASSUME NEW m \in Model, LoadModel(m) PROVE Inv'
  BY <1>1, LoadStep
<1>2. ASSUME NEW m \in Model, UnloadModel(m) PROVE Inv'
  BY <1>2, UnloadStep
<1>3. ASSUME NEW u \in User, UserStep(u) PROVE Inv'
  <2>1. ASSUME NEW m \in Model,
               SingleQ(u, m) \/ Contains(u, m) \/ Describe(u, m) \/ Sample(u, m)
        PROVE  Inv'
    BY <2>1, BeginSteps
  <2>2. ASSUME NEW models \in ModelLists, MultiQ(u, models) PROVE Inv'
    BY <2>2, MultiStep
  <2>3. CASE Take(u)
    BY <2>3, TakeStep
  <2>4. CASE Move(u)
    BY <2>4, MoveStep
  <2>5. CASE Release(u)
    BY <2>5, ReleaseStep
  <2>6. CASE End(u)
    BY <2>6, EndStep
  <2>7. QED
    BY <1>3, <2>1, <2>2, <2>3, <2>4, <2>5, <2>6 DEF UserStep
<1>4. CASE UNCHANGED vars
  <2>1. Alive' = Alive
    BY <1>4 DEF vars, Alive
  <2>2. \A v \in User : /\ Has(v)' \subseteq Has(v)
                        /\ \A k \in Has(v)' : /\ user'[v].infos = user[v].infos
                                              /\ user'[v].models = user[v].models
    BY <1>4 DEF vars, Has
  <2>3. \A n \in Model : pool'[n] \subseteq pool[n] /\ (pool'[n] # {} => n \in Alive')
    BY <1>4, <2>1 DEF vars, Inv, ReadsLiveData
  <2>4. TypeOK' /\ Shape'
    BY <1>4 DEF vars, Inv, TypeOK, Shape
  <2>5. QED
    BY <2>2, <2>3, <2>4, ShrinkStep
<1>5. QED
  BY <1>1, <1>2, <1>3, <1>4 DEF Next

(* The invariant holds in every reachable state.                           *)
LEMMA AlwaysInv == Spec => []Inv
<1>1. QED
  BY InvInit, InvStep, PTL DEF Spec

(* No cursor is ever in two hands, for any number of models, cursors and   *)
(* concurrent queries (Model::info, Model::release, ~QImpl).               *)
THEOREM ExclusiveHolds == Spec => []Exclusive
<1>1. Inv => Exclusive
  BY DEF Inv
<1>2. QED
  BY <1>1, AlwaysInv, PTL

(* Every cursor in a hand or a pool reads the data of its own model, and   *)
(* that model is owned by somebody, whatever the repository lets go of     *)
(* meanwhile.                                                              *)
THEOREM ReadsLiveDataHolds == Spec => []ReadsLiveData
<1>1. Inv => ReadsLiveData
  BY DEF Inv
<1>2. QED
  BY <1>1, AlwaysInv, PTL

(* The pools, the users and their lists have the types declared, and the   *)
(* lists correspond: what is given back was taken, each to its own model.  *)
THEOREM TypesAndShape == Spec => [](TypeOK /\ Shape)
<1>1. Inv => TypeOK /\ Shape
  BY DEF Inv
<1>2. QED
  BY <1>1, AlwaysInv, PTL

-------------------------------------------------------------------------------
(* The cursors of users that have not moved any yet are at the first       *)
(* position, those taken already while others are still to be taken.       *)
AtFirst == \A u \in User : user[u].pc \in {"taking", "open"} => Hand(u) \cap moved = {}

LEMMA AtFirstInit == Init => AtFirst
BY DEF Init, AtFirst

(* Nothing else takes cursors, and only their users and the constructor of *)
(* a model, which has a new one, move cursors.                             *)
LEMMA AtFirstQuiet ==
  ASSUME AtFirst, NEW u \in User,
         \A v \in User \ {u} : user'[v] = user[v],
         user'[u].pc \in {"taking", "open"} => Hand(u)' = {},
         \A i \in moved' \ moved : \A v \in User \ {u} : i \notin Hand(v),
         \A i \in moved' \ moved : user'[u].pc \in {"taking", "open"} => i \notin Hand(u)'
  PROVE  AtFirst'
<1> SUFFICES ASSUME NEW v \in User, user'[v].pc \in {"taking", "open"}
             PROVE  Hand(v)' \cap moved' = {}
  BY DEF AtFirst
<1>1. CASE v = u
  BY <1>1 DEF AtFirst
<1>2. CASE v # u
  <2>1. Hand(v)' = Hand(v)
    BY <1>2 DEF Hand, Has
  <2>2. QED
    BY <1>2, <2>1 DEF AtFirst
<1>3. QED
  BY <1>1, <1>2

LEMMA AtFirstStep == Inv /\ AtFirst /\ [Next]_vars => AtFirst'
<1> SUFFICES ASSUME Inv, AtFirst, [Next]_vars PROVE AtFirst'
  OBVIOUS
<1>1. ASSUME NEW m \in Model, LoadModel(m) PROVE AtFirst'
  <2>1. PICK i \in Free(m) : moved' = moved \cup {i}
    BY <1>1 DEF LoadModel
  <2>2. user' = user /\ \A v \in User : i \notin Hand(v)
    BY <1>1, <2>1 DEF LoadModel, Free, Held
  <2>3. \A v \in User : Hand(v)' = Hand(v)
    BY <2>2 DEF Hand, Has
  <2>4. QED
    BY <2>1, <2>2, <2>3 DEF AtFirst
<1>2. ASSUME user' = user, moved' \subseteq moved PROVE AtFirst'
  <2>1. \A v \in User : Hand(v)' = Hand(v)
    BY <1>2 DEF Hand, Has
  <2>2. QED
    BY <1>2, <2>1 DEF AtFirst
<1>3. ASSUME NEW u \in User, NEW models, NEW wants, NEW returns, moved' = moved,
             Begin(u, models, wants, returns)
      PROVE  AtFirst'
  <2>1. user'[u].infos = <<>> /\ \A v \in User \ {u} : user'[v] = user[v]
    BY <1>3 DEF Begin, Inv, TypeOK
  <2>2. Hand(u)' = {}
    BY <2>1 DEF Hand, Has
  <2>3. QED
    BY <1>3, <2>1, <2>2, AtFirstQuiet
<1>4. ASSUME NEW u \in User, Take(u) PROVE AtFirst'
  <2> DEFINE m == Head(user[u].wants)
             n == Len(user[u].infos) + 1
  <2>1. m = Head(user[u].wants) /\ n = Len(user[u].infos) + 1
    OBVIOUS
  <2> HIDE DEF m, n
  <2>2. PICK i \in Takeable(m) : Takes(u, m, n, i)
    BY <1>4, <2>1, TakeEffect
  <2>3. Hand(u)' = Hand(u) \cup {i} /\ moved' = moved \ {i}
    BY <2>2 DEF Takes
  <2>4. \A v \in User \ {u} : user'[v] = user[v] /\ Hand(v)' = Hand(v)
    BY <1>4, <2>1, TakeEffect
  <2>5. user[u].pc = "taking"
    BY <1>4 DEF Take
  <2>6. ASSUME NEW v \in User, user'[v].pc \in {"taking", "open"}
        PROVE  Hand(v)' \cap moved' = {}
    <3>1. CASE v = u
      BY <2>3, <2>5, <3>1 DEF AtFirst
    <3>2. CASE v # u
      BY <2>3, <2>4, <2>6, <3>2 DEF AtFirst
    <3>3. QED
      BY <3>1, <3>2
  <2>7. QED
    BY <2>6 DEF AtFirst
<1>5. ASSUME NEW u \in User, Move(u) PROVE AtFirst'
  <2>1. /\ user'[u].pc = "moving" /\ moved' = moved \cup Hand(u)
        /\ \A v \in User \ {u} : user'[v] = user[v]
    BY <1>5 DEF Move, Inv, TypeOK, UserState
  <2>2. \A v \in User \ {u} : Hand(v) \cap Hand(u) = {}
    BY DEF Inv, Exclusive, Hand
  <2>3. QED
    BY <2>1, <2>2, AtFirstQuiet
<1>6. ASSUME NEW u \in User, Release(u) PROVE AtFirst'
  <2>1. /\ user'[u].pc = "closing" /\ moved' = moved
        /\ \A v \in User \ {u} : user'[v] = user[v]
    BY <1>6 DEF Release, Inv, TypeOK, UserState
  <2>2. QED
    BY <2>1, AtFirstQuiet
<1>7. ASSUME NEW u \in User, End(u) PROVE AtFirst'
  <2>1. /\ user'[u].pc = "none" /\ moved' \subseteq moved
        /\ \A v \in User \ {u} : user'[v] = user[v]
    BY <1>7 DEF End, Inv, TypeOK, NoUser
  <2>2. QED
    BY <2>1, AtFirstQuiet
<1>8. ASSUME NEW u \in User, UserStep(u) PROVE AtFirst'
  <2>1. ASSUME NEW m \in Model,
               SingleQ(u, m) \/ Contains(u, m) \/ Describe(u, m) \/ Sample(u, m)
        PROVE  AtFirst'
    <3>1. moved' = moved
      BY <2>1 DEF SingleQ, Contains, Describe, Sample
    <3>2. \E models, wants, returns : Begin(u, models, wants, returns)
      BY <2>1 DEF SingleQ, Contains, Describe, Sample
    <3>3. QED
      BY <1>3, <3>1, <3>2
  <2>2. ASSUME NEW models \in ModelLists, MultiQ(u, models) PROVE AtFirst'
    BY <1>3, <2>2 DEF MultiQ
  <2>3. QED
    BY <1>4, <1>5, <1>6, <1>7, <1>8, <2>1, <2>2 DEF UserStep
<1>9. ASSUME NEW m \in Model, UnloadModel(m) PROVE AtFirst'
  BY <1>2, <1>9 DEF UnloadModel
<1>10. CASE UNCHANGED vars
  BY <1>2, <1>10 DEF vars
<1>11. QED
  BY <1>1, <1>8, <1>9, <1>10 DEF Next

(* A user finds all its cursors at the first position, wherever the users  *)
(* before it left them, and although others move theirs meanwhile          *)
(* (Model::info calls First() for new and for pooled cursors).             *)
THEOREM StartsAtFirstHolds == Spec => []StartsAtFirst
<1>1. AtFirst => StartsAtFirst
  BY DEF AtFirst, StartsAtFirst
<1>2. QED
  BY <1>1, AtFirstInit, AtFirstStep, AlwaysInv, PTL DEF Spec

-------------------------------------------------------------------------------
(* The pool of a model and the hands of its users are never more than the  *)
(* most that was in use; a model that nobody has has neither.              *)
ReturnsFew == \A u \in User : user[u].returns <= MaxInfos + 1

BoundedFor(m) ==
  IsFiniteSet(pool[m]) /\ Cardinality(pool[m]) + Cardinality(InUse(m)) <= peak[m]

Bounded == \A m \in Model : BoundedFor(m)

LEMMA BoundedInit == Init => ReturnsFew /\ Bounded
<1> SUFFICES ASSUME Init PROVE ReturnsFew /\ Bounded
  OBVIOUS
<1>1. ReturnsFew
  BY InfoPoolAssumption DEF Init, ReturnsFew, NoUser
<1>2. ASSUME NEW m \in Model PROVE BoundedFor(m)
  <2>1. InUse(m) = {}
    BY DEF Init, InUse, Has, NoUser
  <2>2. pool[m] = {} /\ peak[m] = 0
    BY DEF Init
  <2>3. QED
    BY <2>1, <2>2, FS_EmptySet DEF BoundedFor
<1>3. QED
  BY <1>1, <1>2 DEF Bounded

(* Fewer pooled, fewer in use, and no lower peak.                          *)
LEMMA BoundedFewer ==
  ASSUME Inv, Inv', NEW m \in Model, BoundedFor(m),
         pool'[m] \subseteq pool[m], InUse(m)' \subseteq InUse(m), peak'[m] >= peak[m]
  PROVE  BoundedFor(m)'
<1>1. IsFiniteSet(pool'[m]) /\ Cardinality(pool'[m]) <= Cardinality(pool[m])
  BY FS_Subset DEF BoundedFor
<1>2. IsFiniteSet(InUse(m)) /\ IsFiniteSet(InUse(m)')
      /\ Cardinality(InUse(m)') <= Cardinality(InUse(m))
  BY InUseFinite, FS_Subset
<1>3. /\ Cardinality(pool[m]) \in Nat /\ Cardinality(pool'[m]) \in Nat
      /\ Cardinality(InUse(m)) \in Nat /\ Cardinality(InUse(m)') \in Nat
  BY <1>1, <1>2, FS_CardinalityType DEF BoundedFor
<1>4. peak[m] \in Nat /\ peak'[m] \in Nat
  BY DEF Inv, TypeOK
<1>5. QED
  BY <1>1, <1>2, <1>3, <1>4 DEF BoundedFor

(* One cursor more in use, or one more in the pool.                        *)
LEMMA OneMoreElement ==
  ASSUME NEW S, IsFiniteSet(S), NEW x
  PROVE  /\ IsFiniteSet(S \cup {x}) /\ Cardinality(S \cup {x}) <= Cardinality(S) + 1
         /\ Cardinality(S \cup {x}) \in Nat /\ Cardinality(S) \in Nat
<1>1. /\ IsFiniteSet(S \cup {x}) /\ Cardinality(S) \in Nat
      /\ Cardinality(S \cup {x}) = IF x \in S THEN Cardinality(S) ELSE Cardinality(S) + 1
  BY FS_AddElement, FS_CardinalityType
<1>2. QED
  BY <1>1

LEMMA OneLessElement ==
  ASSUME NEW S, IsFiniteSet(S), NEW x \in S
  PROVE  /\ IsFiniteSet(S \ {x}) /\ Cardinality(S \ {x}) = Cardinality(S) - 1
         /\ Cardinality(S \ {x}) \in Nat /\ Cardinality(S) \in Nat
<1>1. IsFiniteSet(S \ {x}) /\ Cardinality(S \ {x}) = Cardinality(S) - 1
  BY FS_RemoveElement
<1>2. QED
  BY <1>1, FS_CardinalityType

(* What a user that keeps its models has in use.                           *)
LEMMA InUseBy ==
  ASSUME NEW m,
         \A v \in User : /\ Has(v)' \subseteq Has(v)
                         /\ \A k \in Has(v)' : user'[v].models = user[v].models
  PROVE  InUse(m)' \subseteq InUse(m)
BY DEF InUse, ModelOf

LEMMA NobodyUses ==
  ASSUME Inv, NEW m \in Model, m \notin Alive
  PROVE  InUse(m) = {} /\ pool[m] = {}
BY DEF InUse, Inv, ReadsLiveData

LEMMA TakeBounded == ASSUME Inv, Inv', Bounded, NEW u \in User, Take(u) PROVE Bounded'
<1>1. PICK m, n : m = Head(user[u].wants) /\ n = Len(user[u].infos) + 1
  OBVIOUS
<1>2. peak' = [peak EXCEPT ![m] = IF @ <= Cardinality(InUse(m))
                                  THEN Cardinality(InUse(m)) + 1 ELSE @]
  BY <1>1 DEF Take
<1>3. PICK i \in Takeable(m) : Takes(u, m, n, i)
  BY <1>1, TakeEffect
<1>4. /\ m \in Model /\ m = ModelOf(u, n)
      /\ Has(u)' = Has(u) \cup {n}
      /\ \A k \in Has(u) \cup {n} : ModelOf(u, k)' = ModelOf(u, k)
      /\ \A v \in User \ {u} : /\ Has(v)' = Has(v)
                               /\ \A k \in Has(v) : ModelOf(v, k)' = ModelOf(v, k)
  BY <1>1, TakeEffect
<1>5. pool'[m] = pool[m] \ {i} /\ \A k \in Model \ {m} : pool'[k] = pool[k]
  BY <1>3 DEF Takes
<1>6. InUse(m)' \subseteq InUse(m) \cup {<<u, n>>}
  BY <1>4 DEF InUse
<1>7. \A k \in Model \ {m} : InUse(k)' \subseteq InUse(k)
  BY <1>4 DEF InUse
<1>8. \A k \in Model : peak[k] \in Nat /\ peak'[k] \in Nat
  BY DEF Inv, TypeOK
<1>9. ASSUME NEW k \in Model, k # m PROVE BoundedFor(k)'
  <2>1. peak'[k] = peak[k]
    BY <1>2, <1>9 DEF Inv, TypeOK
  <2>2. QED
    BY <1>5, <1>7, <1>8, <1>9, <2>1, BoundedFewer DEF Bounded
<1>10. BoundedFor(m)'
  <2> DEFINE a == Cardinality(pool[m])
             b == Cardinality(InUse(m))
             a1 == Cardinality(pool'[m])
             b1 == Cardinality(InUse(m)')
  <2>1. IsFiniteSet(pool[m]) /\ a + b <= peak[m]
    BY <1>4 DEF Bounded, BoundedFor
  <2>2. peak'[m] = IF peak[m] <= b THEN b + 1 ELSE peak[m]
    BY <1>2, <1>4 DEF Inv, TypeOK
  <2>3. b \in Nat /\ b1 \in Nat /\ b1 <= b + 1
    <3>1. IsFiniteSet(InUse(m)) /\ IsFiniteSet(InUse(m) \cup {<<u, n>>})
          /\ Cardinality(InUse(m) \cup {<<u, n>>}) <= b + 1
          /\ Cardinality(InUse(m) \cup {<<u, n>>}) \in Nat /\ b \in Nat
      BY InUseFinite, OneMoreElement
    <3>2. IsFiniteSet(InUse(m)') /\ b1 <= Cardinality(InUse(m) \cup {<<u, n>>})
      BY <1>6, <3>1, FS_Subset
    <3>3. b1 \in Nat
      BY <3>2, FS_CardinalityType
    <3> HIDE DEF b, b1
    <3>4. QED
      BY <3>1, <3>2, <3>3
  <2>4. CASE pool[m] = {}
    <3>1. pool'[m] = {} /\ a = 0 /\ a1 = 0 /\ IsFiniteSet(pool'[m])
      BY <1>5, <2>4, FS_EmptySet
    <3> HIDE DEF a, b, a1, b1
    <3>2. a1 + b1 <= peak'[m]
      BY <1>4, <1>8, <2>2, <2>3, <3>1
    <3>3. QED
      BY <3>1, <3>2 DEF BoundedFor, a1, b1
  <2>5. CASE pool[m] # {}
    <3>1. i \in pool[m]
      BY <1>3, <2>5 DEF Takeable
    <3>2. IsFiniteSet(pool'[m]) /\ a1 = a - 1 /\ a1 \in Nat /\ a \in Nat
      BY <1>5, <2>1, <3>1, OneLessElement
    <3> HIDE DEF a, b, a1, b1
    <3>3. a1 + b1 <= peak'[m]
      BY <1>4, <1>8, <2>1, <2>2, <2>3, <3>2
    <3>4. QED
      BY <3>2, <3>3 DEF BoundedFor, a1, b1
  <2>6. QED
    BY <2>4, <2>5
<1>11. QED
  BY <1>9, <1>10 DEF Bounded

LEMMA ReleaseBounded ==
  ASSUME Inv, Inv', ReturnsFew, Bounded, NEW u \in User, Release(u) PROVE Bounded'
<1>1. PICK k, m, i : k = user[u].released + 1 /\ m = user[u].models[k] /\ i = user[u].infos[k]
  OBVIOUS
<1>2. /\ k \in Has(u) /\ m = ModelOf(u, k) /\ m \in Model
      /\ k \in Nat /\ k > user[u].released /\ k <= user[u].returns /\ k \notin Has(u)'
      /\ pool'[m] = pool[m] \cup {i} /\ \A n \in Model \ {m} : pool'[n] = pool[n]
  BY <1>1, ReleaseEffect
<1>3. \A v \in User : /\ Has(v)' \subseteq Has(v)
                      /\ user'[v].infos = user[v].infos /\ user'[v].models = user[v].models
  BY <1>1, ReleaseEffect
<1>4. peak' = peak
  BY DEF Release
<1>5. \A n \in Model : InUse(n)' \subseteq InUse(n)
  BY <1>3, InUseBy
<1>6. \A n \in Model : peak[n] \in Nat
  BY DEF Inv, TypeOK
<1>7. <<u, k>> \in InUse(m) /\ <<u, k>> \notin InUse(m)'
  <2>1. user[u].released \in Nat /\ user[u].returns \in Nat /\ user[u].returns <= MaxInfos + 1
    BY DEF Inv, TypeOK, UserState, ReturnsFew
  <2>2. k \in 1 .. MaxInfos + 1
    BY <1>2, <2>1, InfoPoolAssumption
  <2>3. QED
    BY <1>2, <2>2 DEF InUse
<1>8. ASSUME NEW n \in Model, n # m PROVE BoundedFor(n)'
  BY <1>2, <1>4, <1>5, <1>6, <1>8, BoundedFewer DEF Bounded
<1>9. BoundedFor(m)'
  <2> DEFINE a == Cardinality(pool[m])
             b == Cardinality(InUse(m))
             a1 == Cardinality(pool'[m])
             b1 == Cardinality(InUse(m)')
  <2>1. IsFiniteSet(pool[m]) /\ a + b <= peak[m]
    BY <1>2 DEF Bounded, BoundedFor
  <2>2. IsFiniteSet(pool'[m]) /\ a1 <= a + 1 /\ a1 \in Nat /\ a \in Nat
    <3>1. pool'[m] = pool[m] \cup {i} /\ IsFiniteSet(pool[m])
      BY <1>2, <2>1
    <3>2. /\ IsFiniteSet(pool[m] \cup {i}) /\ a \in Nat
          /\ Cardinality(pool[m] \cup {i}) <= a + 1 /\ Cardinality(pool[m] \cup {i}) \in Nat
      BY <3>1, OneMoreElement
    <3>3. QED
      BY <3>1, <3>2
  <2>3. b \in Nat /\ b1 \in Nat /\ b1 <= b - 1
    <3> DEFINE c == Cardinality(InUse(m) \ {<<u, k>>})
    <3>1. IsFiniteSet(InUse(m) \ {<<u, k>>}) /\ c = b - 1 /\ c \in Nat /\ b \in Nat
      BY <1>7, InUseFinite, OneLessElement
    <3>2. InUse(m)' \subseteq InUse(m) \ {<<u, k>>}
      BY <1>2, <1>5, <1>7
    <3>3. IsFiniteSet(InUse(m)') /\ b1 <= c
      BY <3>1, <3>2, FS_Subset
    <3>4. b1 \in Nat
      BY <3>3, FS_CardinalityType
    <3> HIDE DEF b, b1, c
    <3>5. QED
      BY <3>1, <3>3, <3>4
  <2>4. peak[m] \in Nat /\ peak'[m] = peak[m]
    BY <1>2, <1>4, <1>6
  <2> HIDE DEF a, b, a1, b1
  <2>5. a1 + b1 <= peak'[m]
    BY <2>1, <2>2, <2>3, <2>4
  <2>6. QED
    BY <2>2, <2>5 DEF BoundedFor, a1, b1
<1>10. QED
  BY <1>8, <1>9 DEF Bounded

(* A user that begins has nothing in use, and a model that is made starts  *)
(* with one cursor, or none.                                               *)
LEMMA BeginBounded ==
  ASSUME Inv, Inv', ReturnsFew, Bounded, NEW u \in User, NEW models, NEW wants, NEW returns,
         returns \in Nat, returns <= MaxInfos + 1, Begin(u, models, wants, returns),
         pool' = pool,
         peak' = peak \/ \E m \in Model : m \notin Alive /\ peak' = [peak EXCEPT ![m] = 0]
  PROVE  ReturnsFew' /\ Bounded'
<1>1. /\ user'[u].infos = <<>> /\ user'[u].returns = returns
      /\ \A v \in User \ {u} : user'[v] = user[v]
  BY DEF Begin, Inv, TypeOK
<1>2. ReturnsFew'
  BY <1>1 DEF ReturnsFew
<1>3. Has(u)' = {}
  BY <1>1 DEF Has
<1>4. \A v \in User \ {u} : Has(v)' = Has(v)
  BY <1>1 DEF Has
<1>5. \A m \in Model : InUse(m)' \subseteq InUse(m)
  BY <1>1, <1>3, <1>4, InUseBy
<1>6. ASSUME NEW m \in Model PROVE BoundedFor(m)'
  <2>1. CASE peak'[m] = peak[m]
    <3>1. peak[m] \in Nat
      BY DEF Inv, TypeOK
    <3>2. QED
      BY <1>5, <2>1, <3>1, BoundedFewer DEF Bounded
  <2>2. CASE m \notin Alive /\ peak'[m] = 0
    <3>1. pool'[m] = {} /\ InUse(m)' = {}
      BY <1>5, <2>2, NobodyUses
    <3>2. QED
      BY <2>2, <3>1, FS_EmptySet DEF BoundedFor
  <2>3. QED
    BY <2>1, <2>2 DEF Inv, TypeOK
<1>7. QED
  BY <1>2, <1>6 DEF Bounded

LEMMA BoundedStep == Inv /\ ReturnsFew /\ Bounded /\ [Next]_vars => ReturnsFew' /\ Bounded'
<1> SUFFICES ASSUME Inv, ReturnsFew, Bounded, [Next]_vars PROVE ReturnsFew' /\ Bounded'
  OBVIOUS
<1>1. Inv'
  BY InvStep
<1>2. \A m \in Model : peak[m] \in Nat
  BY DEF Inv, TypeOK
<1>3. ASSUME peak' = peak, \A m \in Model : pool'[m] \subseteq pool[m],
             \A v \in User : user'[v] = user[v] \/ user'[v] = NoUser
                             \/ (user'[v].returns = user[v].returns /\ Has(v)' = Has(v)
                                 /\ user'[v].models = user[v].models)
      PROVE  ReturnsFew' /\ Bounded'
  <2>1. ReturnsFew'
    BY <1>3, InfoPoolAssumption DEF ReturnsFew, NoUser
  <2>2. ASSUME NEW v \in User
        PROVE  /\ Has(v)' \subseteq Has(v)
               /\ \A k \in Has(v)' : user'[v].models = user[v].models
    <3>1. CASE user'[v] = user[v]
      BY <3>1 DEF Has
    <3>2. CASE user'[v] = NoUser
      BY <3>2, NoUserFacts DEF Has
    <3>3. QED
      BY <1>3, <3>1, <3>2
  <2>3. \A m \in Model : InUse(m)' \subseteq InUse(m)
    BY <2>2, InUseBy
  <2>4. QED
    BY <1>1, <1>2, <1>3, <2>1, <2>3, BoundedFewer DEF Bounded
<1>4. ASSUME NEW m \in Model, LoadModel(m) PROVE ReturnsFew' /\ Bounded'
  <2>1. PICK i \in Free(m) : pool' = [pool EXCEPT ![m] = {i}]
    BY <1>4 DEF LoadModel
  <2>2. user' = user /\ m \notin Alive /\ peak' = [peak EXCEPT ![m] = 1]
    BY <1>4 DEF LoadModel
  <2>3. \A n : InUse(n)' = InUse(n)
    BY <2>2 DEF InUse, Has, ModelOf
  <2>4. InUse(m)' = {} /\ pool'[m] = {i} /\ peak'[m] = 1
    BY <2>1, <2>2, <2>3, NobodyUses DEF Inv, TypeOK
  <2>5. BoundedFor(m)'
    <3>1. IsFiniteSet({i}) /\ Cardinality({i}) = 1 /\ Cardinality({}) = 0
      BY FS_EmptySet, FS_Singleton
    <3>2. QED
      BY <2>4, <3>1 DEF BoundedFor
  <2>6. ASSUME NEW n \in Model, n # m PROVE BoundedFor(n)'
    <3>1. pool'[n] = pool[n] /\ peak'[n] = peak[n]
      BY <2>1, <2>2, <2>6 DEF Inv, TypeOK
    <3>2. QED
      BY <1>1, <1>2, <2>3, <3>1, BoundedFewer DEF Bounded
  <2>7. QED
    BY <2>2, <2>5, <2>6 DEF ReturnsFew, Bounded
<1>5. ASSUME NEW m \in Model, UnloadModel(m) PROVE ReturnsFew' /\ Bounded'
  BY <1>3, <1>5 DEF UnloadModel, FreeModels
<1>6. ASSUME NEW u \in User, UserStep(u) PROVE ReturnsFew' /\ Bounded'
  <2>1. ASSUME NEW m \in Model,
               SingleQ(u, m) \/ Contains(u, m) \/ Describe(u, m) \/ Sample(u, m)
        PROVE  ReturnsFew' /\ Bounded'
    <3>1. pool' = pool
      BY <2>1 DEF SingleQ, Contains, Describe, Sample
    <3>2. peak' = peak \/ (m \notin Alive /\ peak' = [peak EXCEPT ![m] = 0])
      BY <2>1 DEF SingleQ, Contains, Describe, Sample
    <3>3. \E models, wants : \E returns \in {0, 1} : Begin(u, models, wants, returns)
      BY <2>1 DEF SingleQ, Contains, Describe, Sample
    <3>4. \A returns \in {0, 1} : returns \in Nat /\ returns <= MaxInfos + 1
      BY InfoPoolAssumption
    <3>5. QED
      BY <1>1, <3>1, <3>2, <3>3, <3>4, BeginBounded
  <2>2. ASSUME NEW models \in ModelLists, MultiQ(u, models) PROVE ReturnsFew' /\ Bounded'
    <3>1. PICK n \in 1 .. MaxInfos : models \in [1 .. n -> Model]
      BY DEF ModelLists
    <3>2. n \in Nat /\ n <= MaxInfos
      BY <3>1, InfoPoolAssumption
    <3>3. Len(models) = n /\ n <= MaxInfos + 1
      BY <3>1, <3>2, InfoPoolAssumption
    <3>4. QED
      BY <1>1, <2>2, <3>2, <3>3, BeginBounded DEF MultiQ
  <2>3. CASE Take(u)
    <3>1. \A v \in User : user'[v].returns = user[v].returns
      BY <2>3 DEF Take, Inv, TypeOK, UserState
    <3>2. QED
      BY <1>1, <2>3, <3>1, TakeBounded DEF ReturnsFew
  <2>4. CASE Move(u)
    <3>1. /\ \A v \in User \ {u} : user'[v] = user[v]
          /\ user'[u].returns = user[u].returns /\ user'[u].models = user[u].models
          /\ user'[u].infos = user[u].infos /\ user'[u].released = user[u].released
      BY <2>4 DEF Move, Inv, TypeOK, UserState
    <3>2. Has(u)' = Has(u)
      BY <3>1 DEF Has
    <3>3. peak' = peak /\ pool' = pool
      BY <2>4 DEF Move
    <3>4. QED
      BY <1>3, <3>1, <3>2, <3>3
  <2>5. CASE Release(u)
    <3>1. \A v \in User : user'[v].returns = user[v].returns
      BY <2>5 DEF Release, Inv, TypeOK, UserState
    <3>2. QED
      BY <1>1, <2>5, <3>1, ReleaseBounded DEF ReturnsFew
  <2>6. CASE End(u)
    <3>1. \A v \in User : user'[v] = user[v] \/ user'[v] = NoUser
      BY <2>6 DEF End, Inv, TypeOK
    <3>2. peak' = peak /\ \A m \in Model : pool'[m] \subseteq pool[m]
      BY <2>6 DEF End, FreeModels
    <3>3. QED
      BY <1>3, <3>1, <3>2
  <2>7. QED
    BY <1>6, <2>1, <2>2, <2>3, <2>4, <2>5, <2>6 DEF UserStep
<1>7. CASE UNCHANGED vars
  BY <1>3, <1>7 DEF vars
<1>8. QED
  BY <1>4, <1>5, <1>6, <1>7 DEF Next

(* A pool does not grow with the number of queries: what is pooled and in  *)
(* use is never more than what was in use at once.                         *)
THEOREM PoolBoundedHolds == Spec => []PoolBounded
<1>1. Bounded /\ Inv => PoolBounded
  <2>1. Inv => Alive \subseteq Model
    <3> SUFFICES ASSUME Inv PROVE Alive \subseteq Model
      OBVIOUS
    <3>1. loaded \subseteq Model
      BY DEF Inv, TypeOK
    <3>2. ASSUME NEW u \in User PROVE Range(user[u].models) \subseteq Model
      <4>1. user[u].models \in Seq(Model)
        BY DEF Inv, TypeOK, UserState
      <4>2. QED
        BY <4>1 DEF Range
    <3>3. QED
      BY <3>1, <3>2, AliveBy
  <2>2. QED
    BY <2>1 DEF Bounded, BoundedFor, PoolBounded
<1>2. QED
  BY <1>1, BoundedInit, BoundedStep, AlwaysInv, PTL DEF Spec
===============================================================================
