-------------------------- MODULE LevelLoadProofs --------------------------
(***************************************************************************)
(* Proofs about the construction of a level.                               *)
(*                                                                         *)
(* LevelLoad, for any levels and any number of entities: no cascade comes  *)
(* back to where it has been or leaves the object or actor it began with,  *)
(* the ModelManager names living templates, and every object of a level is *)
(* registered with all its meshes.                                         *)
(*                                                                         *)
(* TileScroll, for any configuration: the tiles stay one row without a gap *)
(* however far they move in a frame.                                       *)
(***************************************************************************)
EXTENDS LevelLoad, TileScroll, SequenceTheorems, FiniteSetTheorems, TLAPS

-----------------------------------------------------------------------------
\* Sequences.

\* The elements of a sequence.
LEMMA Members ==
  ASSUME NEW S, NEW s \in Seq(S)
  PROVE  Len(s) \in Nat /\ DOMAIN s = 1..Len(s) /\ \A i \in DOMAIN s : s[i] \in S
OBVIOUS

\* A sequence of numbers up to m is one of numbers up to any higher bound.
LEMMA Raised ==
  ASSUME NEW m \in Nat, NEW n \in Nat, m <= n, NEW s \in Seq(1..m)
  PROVE  s \in Seq(1..n)
<1>1. s \in [1..Len(s) -> 1..m] /\ Len(s) \in Nat
  OBVIOUS
<1>2. s \in [1..Len(s) -> 1..n]
  BY <1>1
<1> QED BY <1>1, <1>2

\* k more entities of one origin.
LEMMA Extended ==
  ASSUME origin \in Seq(Origin), NEW k \in Nat, NEW c \in Origin,
         origin' = origin \o [i \in 1..k |-> c]
  PROVE  /\ origin' \in Seq(Origin) /\ Len(origin') = Len(origin) + k
         /\ \A i \in 1..Len(origin) : origin'[i] = origin[i]
         /\ \A i \in (Len(origin) + 1)..(Len(origin) + k) : origin'[i] = c
<1> DEFINE t == [i \in 1..k |-> c]
<1>1. t \in Seq(Origin) /\ Len(t) = k /\ \A i \in 1..k : t[i] = c
  OBVIOUS
<1>2. origin' = origin \o t
  OBVIOUS
<1> HIDE DEF t
<1>3. /\ origin \o t \in Seq(Origin) /\ Len(origin \o t) = Len(origin) + Len(t)
      /\ \A i \in 1..(Len(origin) + Len(t)) :
           (origin \o t)[i] = IF i <= Len(origin) THEN origin[i] ELSE t[i - Len(origin)]
  BY <1>1, ConcatProperties
<1> QED BY <1>1, <1>2, <1>3

\* The last element of a sequence and those before it.
LEMMA LastAndRest ==
  ASSUME NEW S, NEW s \in Seq(S), s # <<>>
  PROVE  LET r == SubSeq(s, 1, Len(s) - 1)
         IN /\ s[Len(s)] \in S /\ Len(s) \in DOMAIN s /\ Len(s) \in Nat \ {0}
            /\ r \in Seq(S) /\ Len(r) = Len(s) - 1
            /\ \A i \in 1..(Len(s) - 1) : r[i] = s[i]
<1>1. Len(s) \in Nat \ {0} /\ Len(s) \in DOMAIN s /\ s[Len(s)] \in S
  OBVIOUS
<1> DEFINE n == Len(s) - 1
<1>2. n \in Nat /\ \A i \in 1..n : s[i] \in S
  BY <1>1
<1> HIDE DEF n
<1>3. /\ SubSeq(s, 1, n) \in Seq(S) /\ Len(SubSeq(s, 1, n)) = n
      /\ \A i \in 1..n : SubSeq(s, 1, n)[i] = s[i]
  BY <1>2, SubSeqProperties
<1> QED BY <1>1, <1>3 DEF n

\* Appending an element.
LEMMA Appended ==
  ASSUME NEW S, NEW s \in Seq(S), NEW e \in S
  PROVE  /\ Append(s, e) \in Seq(S) /\ Append(s, e) # <<>>
         /\ Len(Append(s, e)) = Len(s) + 1 /\ Append(s, e)[Len(s) + 1] = e
         /\ \A i \in 1..Len(s) : Append(s, e)[i] = s[i]
OBVIOUS

\* The first element and the others.
LEMMA HeadAndTail ==
  ASSUME NEW S, NEW s \in Seq(S), s # <<>>
  PROVE  /\ Head(s) = s[1] /\ 1 \in DOMAIN s /\ Head(s) \in S
         /\ Tail(s) \in Seq(S)
         /\ \A k \in DOMAIN Tail(s) : k + 1 \in DOMAIN s /\ Tail(s)[k] = s[k + 1]
<1>1. Len(s) \in Nat \ {0} /\ Head(s) = s[1] /\ 1 \in DOMAIN s /\ Head(s) \in S
  OBVIOUS
<1>2. Tail(s) \in Seq(S) /\ Len(Tail(s)) = Len(s) - 1
  BY <1>1
<1>3. \A k \in 1..(Len(s) - 1) : Tail(s)[k] = s[k + 1]
  BY <1>1
<1>4. DOMAIN Tail(s) = 1..(Len(s) - 1)
  BY <1>1, <1>2
<1> QED BY <1>1, <1>2, <1>3, <1>4

-----------------------------------------------------------------------------
\* The invariant.

\* What a collection, or the rest of one, may name: entities of the same object
\* or actor; in a level older ones, in an actor ones without a collection.
Kin(e, s) ==
  \A k \in DOMAIN s :
    /\ origin[s[k]] = origin[e]
    /\ origin[e].of = "level" => s[k] < e
    /\ origin[e].of # "level" => e \in DOMAIN collection /\ s[k] \notin DOMAIN collection

\* The collections of a level's visible entities are empty.
CollectionsRight ==
  \A e \in DOMAIN collection :
    /\ Kin(e, collection[e])
    /\ origin[e].of = "level" /\ e \notin hidden => collection[e] = <<>>

\* While a level is played no template is destroyed.
FramesRight ==
  \A i \in DOMAIN destroying : LET f == destroying[i] IN
    /\ Kin(f.entity, f.rest)
    /\ pc = "loaded" => /\ f.entity \notin hidden
                        /\ origin[f.entity].of = "level" => f.rest = <<>>

\* A cascade goes down: to older entities, or from an actor to its copies.
ChainRight ==
  \A i, j \in DOMAIN destroying : i < j =>
    LET e == destroying[i].entity
        n == destroying[j].entity
    IN /\ origin[n] = origin[e]
       /\ origin[e].of = "level" => n < e
       /\ origin[e].of # "level" => e \in DOMAIN collection /\ n \notin DOMAIN collection

HiddenRight == \A e \in hidden : origin[e].of = "level"

Idle == pc \in {"none", "building"} => destroying = <<>>

GatheredRight ==
  pc = "building" =>
    /\ \A k \in DOMAIN gathered :
         gathered[k] \in hidden /\ origin[gathered[k]] = [of |-> "level", number |-> object]
    /\ object <= Len(level) /\ ~level[object].isDynamic => gathered = <<>>

IInv ==
  /\ TypeOK /\ ModelsFresh /\ DestroyedOnce
  /\ CollectionsRight /\ FramesRight /\ ChainRight
  /\ HiddenRight /\ Idle /\ GatheredRight

\* An entity on a chain is on it once, and all are of one object or actor.
LEMMA ChainTells ==
  ASSUME TypeOK, ChainRight
  PROVE  NoReentry /\ CascadeConfined
<1> DEFINE F == [entity : 1..Made, rest : Seq(1..Made)]
<1>a. destroying \in Seq(F)
  BY DEF TypeOK
<1>1. \A i \in DOMAIN destroying : destroying[i].entity \in 1..Made
  <2>1. \A f \in F : f.entity \in 1..Made
    OBVIOUS
  <2> HIDE DEF F
  <2> QED BY <1>a, <2>1, Members
<1>2. Len(destroying) \in Nat /\ DOMAIN destroying = 1..Len(destroying)
  BY DEF TypeOK
<1>3. Made \in Nat
  BY DEF TypeOK, Made
<1>4. ASSUME NEW i \in DOMAIN destroying, NEW j \in DOMAIN destroying, i < j
      PROVE  destroying[i].entity # destroying[j].entity
  BY <1>1, <1>3, <1>4 DEF ChainRight
<1>5. NoReentry
  BY <1>2, <1>4 DEF NoReentry
<1>6. CascadeConfined
  BY <1>2 DEF ChainRight, CascadeConfined
<1> QED BY <1>5, <1>6

LEMMA InitRight == Init => IInv
<1> SUFFICES ASSUME Init PROVE IInv
  OBVIOUS
<1> USE DEF Init
<1>1. TypeOK
  BY LevelLoadAssumption DEF TypeOK, Made
<1> QED BY <1>1 DEF IInv, ModelsFresh, DestroyedOnce, CollectionsRight, FramesRight,
     ChainRight, HiddenRight, Idle, GatheredRight

-----------------------------------------------------------------------------
\* The steps.

\* Entities are added while none is being destroyed.
LEMMA BuildMeshRight == IInv /\ BuildMesh => IInv'
<1> SUFFICES ASSUME IInv, BuildMesh PROVE IInv'
  OBVIOUS
<1> DEFINE o == level[object]
           e == Made + 1
           n == Made + o.tiles
<1>1. /\ o \in [name : Name, meshes : Nat, isDynamic : BOOLEAN, isCollidable : BOOLEAN,
                tiles : Nat \ {0}]
      /\ object \in DOMAIN level /\ object <= Len(level)
  <2>1. object \in DOMAIN level /\ object <= Len(level) /\ level \in Seq(Object)
    BY DEF IInv, TypeOK, BuildMesh, Building
  <2> QED BY <2>1, LevelLoadAssumption
<1>2. Made \in Nat /\ e \in Nat /\ n \in Nat /\ e <= n /\ Made < e
  BY <1>1 DEF IInv, TypeOK, Made
<1>3. /\ origin' \in Seq(Origin) /\ Made' = n
      /\ \A x \in 1..Made : origin'[x] = origin[x]
      /\ \A x \in e..n : origin'[x] = [of |-> "level", number |-> object]
  <2> DEFINE k == o.tiles
             c == [of |-> "level", number |-> object]
  <2>1. k \in Nat /\ c \in Origin
    BY <1>1 DEF IInv, TypeOK, Origin
  <2>2. origin \in Seq(Origin) /\ origin' = origin \o [x \in 1..k |-> c]
    BY DEF BuildMesh, IInv, TypeOK
  <2>3. e = Len(origin) + 1 /\ n = Len(origin) + k /\ Made = Len(origin) /\ Made' = Len(origin')
    BY DEF Made
  <2> HIDE DEF k, c, e, n, o
  <2>4. /\ origin' \in Seq(Origin) /\ Len(origin') = Len(origin) + k
        /\ \A x \in 1..Len(origin) : origin'[x] = origin[x]
        /\ \A x \in (Len(origin) + 1)..(Len(origin) + k) : origin'[x] = c
    BY <2>1, <2>2, Extended
  <2> QED BY <2>3, <2>4 DEF c
<1>4. /\ n <= MaxEntity
      /\ valid' = valid \cup (e..n)
      /\ collection' = IF o.isCollidable THEN With(collection, e, gathered) ELSE collection
      /\ hidden' = IF o.isDynamic THEN hidden \cup {e} ELSE hidden
      /\ gathered' = IF o.isDynamic THEN Append(gathered, e) ELSE gathered
      /\ meshIndex' = meshIndex + 1
      /\ UNCHANGED <<pc, level, object, modelList, destroying>>
      /\ pc = "building" /\ destroying = <<>>
  BY DEF BuildMesh, Building, Named, IInv, Idle
<1> HIDE DEF o, n, e
<1>5. e \in 1..n /\ e \in e..n /\ e \notin 1..Made /\ 1..Made \subseteq 1..n
  BY <1>2 DEF e
<1>6. valid \subseteq 1..Made /\ hidden \subseteq valid /\ DOMAIN collection \subseteq valid
      /\ gathered \in Seq(1..Made) /\ Len(gathered) < meshIndex /\ meshIndex \in Nat \ {0}
  BY DEF IInv, TypeOK
<1>7. /\ DOMAIN collection' \subseteq DOMAIN collection \cup {e}
      /\ \A x \in DOMAIN collection' :
           \/ x \in DOMAIN collection /\ collection'[x] = collection[x]
           \/ x = e /\ collection'[x] = gathered
      /\ DOMAIN collection \subseteq DOMAIN collection'
  BY <1>4, <1>5, <1>6 DEF With
<1>8. gathered' \in Seq(1..n) /\ Len(gathered') < meshIndex'
      /\ \A k \in DOMAIN gathered' :
           (k \in DOMAIN gathered /\ gathered'[k] = gathered[k]) \/ gathered'[k] = e
  <2>1. gathered \in Seq(1..n)
    BY <1>2, <1>6, Raised DEF n
  <2>2. CASE o.isDynamic
    BY <1>4, <1>5, <1>6, <2>1, <2>2, Appended
  <2>3. CASE ~o.isDynamic
    BY <1>4, <1>6, <2>1, <2>3
  <2> QED BY <2>2, <2>3
<1>9. TypeOK'
  <2>1. /\ pc' \in {"none", "building", "loaded", "leaving"}
        /\ level' \in Seq(Object) /\ object' \in 1..(Len(level') + 1)
        /\ meshIndex' \in Nat \ {0} /\ DOMAIN modelList' \subseteq Name
    BY <1>4 DEF IInv, TypeOK
  <2>2. valid' \subseteq 1..n /\ hidden' \subseteq valid' /\ DOMAIN collection' \subseteq valid'
    BY <1>2, <1>4, <1>5, <1>6, <1>7 DEF e
  <2>3. \A x \in DOMAIN collection' : collection'[x] \in Seq(1..n)
    <3>1. \A x \in DOMAIN collection : collection[x] \in Seq(1..n)
      BY <1>2, Raised DEF IInv, TypeOK, n
    <3>2. gathered \in Seq(1..n)
      BY <1>2, <1>6, Raised DEF n
    <3> QED BY <1>7, <3>1, <3>2
  <2>4. \A x \in DOMAIN modelList' : modelList'[x] \in Seq(1..n)
    <3>1. \A x \in DOMAIN modelList : modelList[x] \in Seq(1..n)
      BY <1>2, Raised DEF IInv, TypeOK, n
    <3> QED BY <1>4, <3>1
  <2>5. destroying' \in Seq([entity : 1..Made', rest : Seq(1..Made')])
    BY <1>4
  <2> QED BY <1>3, <1>4, <1>8, <2>1, <2>2, <2>3, <2>4, <2>5 DEF TypeOK
<1>10. ModelsFresh'
  <2> SUFFICES ASSUME NEW m \in DOMAIN modelList, NEW x \in Elements(modelList[m])
               PROVE  /\ x \in hidden' /\ origin'[x].of = "level"
                      /\ level[origin'[x].number].name = m
    BY <1>4 DEF ModelsFresh, Elements
  <2>1. x \in hidden /\ origin[x].of = "level" /\ level[origin[x].number].name = m
    BY <1>4 DEF IInv, ModelsFresh
  <2>2. x \in 1..Made
    BY <1>6, <2>1
  <2> QED BY <1>3, <1>4, <2>1, <2>2
<1>11. CollectionsRight'
  <2> SUFFICES ASSUME NEW x \in DOMAIN collection'
               PROVE  /\ Kin(x, collection[x])'
                      /\ origin'[x].of = "level" /\ x \notin hidden' => collection'[x] = <<>>
    BY DEF CollectionsRight
  <2>1. CASE x \in DOMAIN collection /\ collection'[x] = collection[x]
    <3>1. /\ Kin(x, collection[x])
          /\ origin[x].of = "level" /\ x \notin hidden => collection[x] = <<>>
      BY <2>1 DEF IInv, CollectionsRight
    <3>2. x \in 1..Made /\ \A k \in DOMAIN collection[x] : collection[x][k] \in 1..Made
      <4>1. x \in 1..Made /\ collection[x] \in Seq(1..Made)
        BY <1>6, <2>1 DEF IInv, TypeOK
      <4> QED BY <4>1, Members
    <3>3. Kin(x, collection[x])'
      BY <1>3, <1>5, <1>7, <2>1, <3>1, <3>2 DEF Kin
    <3> QED BY <1>3, <1>4, <2>1, <3>1, <3>2, <3>3
  <2>2. CASE x = e /\ collection'[x] = gathered
    <3>1. origin'[e] = [of |-> "level", number |-> object]
      BY <1>3, <1>5
    <3>2. \A k \in DOMAIN gathered :
            gathered[k] \in 1..Made /\ origin'[gathered[k]] = [of |-> "level", number |-> object]
      BY <1>3, <1>4, <1>6 DEF IInv, GatheredRight
    <3>3. \A k \in DOMAIN gathered : gathered[k] < e
      BY <1>2, <3>2 DEF e
    <3>4. Kin(x, collection[x])'
      BY <2>2, <3>1, <3>2, <3>3 DEF Kin
    <3>5. e \notin hidden' => gathered = <<>>
      BY <1>1, <1>4 DEF IInv, GatheredRight, o
    <3> QED BY <2>2, <3>4, <3>5
  <2> QED BY <1>7, <2>1, <2>2
<1>12. HiddenRight'
  BY <1>3, <1>4, <1>5, <1>6 DEF IInv, HiddenRight
<1>13. GatheredRight'
  <2>1. \A k \in DOMAIN gathered' :
          gathered'[k] \in hidden' /\ origin'[gathered'[k]] = [of |-> "level", number |-> object]
    <3> SUFFICES ASSUME NEW k \in DOMAIN gathered'
                 PROVE  gathered'[k] \in hidden'
                        /\ origin'[gathered'[k]] = [of |-> "level", number |-> object]
      OBVIOUS
    <3>1. CASE k \in DOMAIN gathered /\ gathered'[k] = gathered[k]
      BY <1>3, <1>4, <1>6, <3>1 DEF IInv, GatheredRight
    <3>2. CASE gathered'[k] = e
      <4>1. o.isDynamic
        <5>1. ASSUME ~o.isDynamic PROVE FALSE
          BY <1>2, <1>4, <1>6, <3>2, <5>1 DEF e
        <5> QED BY <5>1
      <4> QED BY <1>3, <1>4, <1>5, <3>2, <4>1
    <3> QED BY <1>8, <3>1, <3>2
  <2>2. object <= Len(level) /\ ~level[object].isDynamic => gathered' = <<>>
    BY <1>4 DEF IInv, GatheredRight, o
  <2> QED BY <1>4, <2>1, <2>2 DEF GatheredRight
<1> QED BY <1>4, <1>9, <1>10, <1>11, <1>12, <1>13
     DEF IInv, DestroyedOnce, FramesRight, ChainRight, Idle

\* The name of an object gets the meshes gathered for it, or keeps the first.
LEMMA EndObjectRight == IInv /\ EndObject => IInv'
<1> SUFFICES ASSUME IInv, EndObject PROVE IInv'
  OBVIOUS
<1> DEFINE o == level[object]
<1>1. o.name \in Name /\ object \in DOMAIN level /\ object \in Nat
  <2>1. object \in DOMAIN level /\ level \in Seq(Object) /\ object \in Nat
    BY DEF IInv, TypeOK, EndObject, Building
  <2> QED BY <2>1, LevelLoadAssumption
<1>2. /\ modelList' = IF o.isDynamic THEN Inserted(o) ELSE modelList
      /\ object' = object + 1 /\ meshIndex' = 1 /\ gathered' = <<>>
      /\ UNCHANGED <<pc, level, origin, valid, hidden, collection, destroying>>
      /\ pc = "building" /\ destroying = <<>>
  BY DEF EndObject, Building, GatheredOfNext, IInv, Idle
<1> HIDE DEF o
<1>3. \A m \in DOMAIN modelList' :
        \/ m \in DOMAIN modelList /\ modelList'[m] = modelList[m]
        \/ m = o.name /\ modelList'[m] = gathered
  BY <1>2 DEF Inserted, With
<1>4. TypeOK'
  <2>1. \A m \in DOMAIN modelList' : m \in Name /\ modelList'[m] \in Seq(1..Made)
    BY <1>1, <1>3 DEF IInv, TypeOK
  <2>2. object' \in 1..(Len(level) + 1)
    BY <1>1, <1>2 DEF IInv, TypeOK
  <2>3. gathered' \in Seq(1..Made) /\ Len(gathered') < meshIndex'
    BY <1>2
  <2> QED BY <1>2, <2>1, <2>2, <2>3 DEF IInv, TypeOK, Made
<1>5. ModelsFresh'
  <2> SUFFICES ASSUME NEW m \in DOMAIN modelList', NEW x \in Elements(modelList'[m])
               PROVE  /\ x \in hidden /\ origin[x].of = "level"
                      /\ level[origin[x].number].name = m
    BY <1>2 DEF ModelsFresh, Elements
  <2>1. CASE m \in DOMAIN modelList /\ modelList'[m] = modelList[m]
    BY <1>2, <2>1 DEF IInv, ModelsFresh
  <2>2. CASE m = o.name /\ modelList'[m] = gathered
    BY <1>2, <2>2 DEF IInv, GatheredRight, Elements, o
  <2> QED BY <1>3, <2>1, <2>2
<1>6. GatheredRight'
  BY <1>2 DEF GatheredRight
<1> QED BY <1>2, <1>4, <1>5, <1>6
     DEF IInv, DestroyedOnce, CollectionsRight, Kin, FramesRight, ChainRight, HiddenRight, Idle

\* An actor names copies that have no collection.
LEMMA SpawnRight == ASSUME NEW name \in Name PROVE IInv /\ Spawn(name) => IInv'
<1> SUFFICES ASSUME IInv, Spawn(name) PROVE IInv'
  OBVIOUS
<1> DEFINE a      == Made + 1
           k      == Len(modelList[name])
           copies == [i \in 1..k |-> a + i]
           n      == a + k
           c      == [of |-> "actor", number |-> a]
<1>1. Made \in Nat /\ k \in Nat /\ modelList[name] \in Seq(1..Made)
  BY DEF Spawn, IInv, TypeOK, Made
<1>2. /\ Len(copies) = k /\ copies \in Seq(1..n) /\ DOMAIN copies = 1..k
      /\ \A i \in 1..k : copies[i] = a + i
      /\ Elements(copies) \subseteq 1..n /\ a \in 1..n /\ a \in Nat /\ n \in Nat /\ Made <= n
  <2>1. a \in Nat /\ n \in Nat /\ Made <= n /\ a \in 1..n
    <3> HIDE DEF k
    <3> QED BY <1>1
  <2> DEFINE b == a
             r == n
  <2>2. b \in Nat /\ r = b + k /\ k \in Nat
    BY <1>1, <2>1
  <2> HIDE DEF k, b, r
  <2>3. \A i \in 1..k : b + i \in 1..r
    BY <2>2
  <2>4. [i \in 1..k |-> b + i] \in [1..k -> 1..r]
    BY <2>3
  <2>5. LET f == [i \in 1..k |-> b + i]
        IN Len(f) = k /\ f \in Seq(1..r) /\ DOMAIN f = 1..k /\ \A i \in 1..k : f[i] = b + i
    BY <2>2, <2>4
  <2>6. Elements([i \in 1..k |-> b + i]) \subseteq 1..r
    BY <2>3 DEF Elements
  <2> QED BY <2>1, <2>5, <2>6 DEF b, r
<1>3. /\ n <= MaxEntity /\ pc = "loaded" /\ destroying = <<>>
      /\ origin' = origin \o [i \in 1..(k + 1) |-> c]
      /\ valid' = valid \cup {a} \cup Elements(copies)
      /\ collection' = With(collection, a, copies)
      /\ UNCHANGED <<pc, build, hidden, destroying>>
  BY <1>2 DEF Spawn
<1>4. c \in Origin
  BY <1>2 DEF Origin
<1>5. a = Made + 1 /\ n = a + k
  OBVIOUS
<1> HIDE DEF a, k, copies, n
<1>6. /\ origin' \in Seq(Origin) /\ Made' = n
      /\ \A x \in 1..Made : origin'[x] = origin[x]
      /\ \A x \in (Made + 1)..n : origin'[x] = c
  <2>1. origin \in Seq(Origin) /\ Made = Len(origin) /\ Made' = Len(origin')
    BY DEF IInv, TypeOK, Made
  <2>2. k + 1 \in Nat
    BY <1>1
  <2> HIDE DEF c
  <2>3. /\ origin' \in Seq(Origin) /\ Len(origin') = Len(origin) + (k + 1)
        /\ \A x \in 1..Len(origin) : origin'[x] = origin[x]
        /\ \A x \in (Len(origin) + 1)..(Len(origin) + (k + 1)) : origin'[x] = c
    BY <1>3, <1>4, <2>1, <2>2, Extended
  <2>4. Len(origin) + (k + 1) = n
    BY <1>1, <1>5, <2>1
  <2> QED BY <2>1, <2>3, <2>4
<1>7. valid \subseteq 1..Made /\ hidden \subseteq valid /\ DOMAIN collection \subseteq valid
  BY DEF IInv, TypeOK
<1>8. /\ DOMAIN collection' = DOMAIN collection \cup {a} /\ collection'[a] = copies
      /\ \A x \in DOMAIN collection : collection'[x] = collection[x]
  <2>1. a \notin DOMAIN collection
    BY <1>1, <1>5, <1>7
  <2> QED BY <1>3, <2>1 DEF With
<1>9. \A x \in DOMAIN collection : collection[x] \in Seq(1..Made)
  BY DEF IInv, TypeOK
<1>10. TypeOK'
  <2>1. /\ pc' \in {"none", "building", "loaded", "leaving"}
        /\ level' \in Seq(Object) /\ object' \in 1..(Len(level') + 1)
        /\ meshIndex' \in Nat \ {0} /\ DOMAIN modelList' \subseteq Name
        /\ Len(gathered') < meshIndex'
    BY <1>3 DEF IInv, TypeOK, build
  <2>2. valid' \subseteq 1..n /\ hidden' \subseteq valid' /\ DOMAIN collection' \subseteq valid'
    <3>1. 1..Made \subseteq 1..n
      BY <1>1, <1>2
    <3> QED BY <1>2, <1>3, <1>7, <1>8, <3>1
  <2>3. \A x \in DOMAIN collection' : collection'[x] \in Seq(1..n)
    BY <1>1, <1>2, <1>8, <1>9, Raised
  <2>4. gathered' \in Seq(1..n) /\ \A x \in DOMAIN modelList' : modelList'[x] \in Seq(1..n)
    <3>1. gathered \in Seq(1..Made) /\ \A x \in DOMAIN modelList : modelList[x] \in Seq(1..Made)
      BY DEF IInv, TypeOK
    <3> QED BY <1>1, <1>2, <1>3, <3>1, Raised DEF build
  <2>5. destroying' \in Seq([entity : 1..Made', rest : Seq(1..Made')])
    BY <1>3
  <2> QED BY <1>3, <1>6, <2>1, <2>2, <2>3, <2>4, <2>5 DEF TypeOK
<1>11. ModelsFresh'
  <2>1. \A m \in DOMAIN modelList : \A x \in Elements(modelList[m]) :
          /\ x \in hidden /\ origin[x].of = "level" /\ level[origin[x].number].name = m
    BY <1>3 DEF IInv, ModelsFresh
  <2>2. UNCHANGED <<pc, level, modelList, hidden>>
    BY <1>3 DEF build
  <2>3. \A x \in hidden : origin'[x] = origin[x]
    BY <1>6, <1>7
  <2> QED BY <2>1, <2>2, <2>3 DEF ModelsFresh, Elements
<1>12. CollectionsRight'
  <2> SUFFICES ASSUME NEW x \in DOMAIN collection'
               PROVE  /\ Kin(x, collection[x])'
                      /\ origin'[x].of = "level" /\ x \notin hidden' => collection'[x] = <<>>
    BY DEF CollectionsRight
  <2>1. CASE x \in DOMAIN collection
    <3>1. /\ Kin(x, collection[x])
          /\ origin[x].of = "level" /\ x \notin hidden => collection[x] = <<>>
      BY <2>1 DEF IInv, CollectionsRight
    <3>2. x \in 1..Made /\ \A i \in DOMAIN collection[x] : collection[x][i] \in 1..Made
      BY <1>7, <1>9, <2>1, Members
    <3>3. a \notin 1..Made
      BY <1>1, <1>5
    <3>4. Kin(x, collection[x])'
      BY <1>6, <1>8, <2>1, <3>1, <3>2, <3>3 DEF Kin
    <3> QED BY <1>3, <1>6, <1>8, <2>1, <3>1, <3>2, <3>4
  <2>2. CASE x = a
    <3>1. \A i \in 1..k : a + i \in (Made + 1)..n /\ a + i # a /\ a + i \notin DOMAIN collection
      BY <1>1, <1>5, <1>7
    <3>2. a \in (Made + 1)..n
      BY <1>1, <1>5
    <3>3. origin'[a] = c /\ c.of # "level"
      BY <1>6, <3>2
    <3>4. \A i \in DOMAIN copies :
            origin'[copies[i]] = c /\ copies[i] \notin DOMAIN collection'
      BY <1>2, <1>6, <1>8, <3>1
    <3>5. origin'[x] = c /\ collection'[x] = copies /\ x \in DOMAIN collection'
      BY <1>8, <2>2, <3>3
    <3> HIDE DEF c
    <3>6. Kin(x, collection[x])'
      BY <3>3, <3>4, <3>5 DEF Kin
    <3> QED BY <3>3, <3>5, <3>6
  <2> QED BY <1>8, <2>1, <2>2
<1>13. HiddenRight'
  BY <1>3, <1>6, <1>7 DEF IInv, HiddenRight
<1> QED BY <1>3, <1>10, <1>11, <1>12, <1>13
     DEF IInv, DestroyedOnce, FramesRight, ChainRight, Idle, GatheredRight

\* A call of registry.destroy that has yet to visit what its entity names.
LEMMA FrameRight ==
  ASSUME IInv, NEW e \in valid
  PROVE  /\ Frame(e) \in [entity : 1..Made, rest : Seq(1..Made)]
         /\ Frame(e).entity = e
         /\ Kin(e, Frame(e).rest)
         /\ origin[e].of = "level" /\ e \notin hidden => Frame(e).rest = <<>>
<1>1. e \in 1..Made
  BY DEF IInv, TypeOK
<1>2. CASE e \in DOMAIN collection
  <2>1. /\ collection[e] \in Seq(1..Made) /\ Kin(e, collection[e])
        /\ origin[e].of = "level" /\ e \notin hidden => collection[e] = <<>>
    BY <1>2 DEF IInv, TypeOK, CollectionsRight
  <2> QED BY <1>1, <1>2, <2>1 DEF Frame
<1>3. CASE e \notin DOMAIN collection
  BY <1>1, <1>3 DEF Frame, Kin
<1> QED BY <1>2, <1>3

\* A destruction begins with an entity of its own.
LEMMA BeginRight ==
  ASSUME IInv, NEW e \in valid, destroying' = <<Frame(e)>>,
         pc = "leaving" \/ (pc = "loaded" /\ e \notin hidden),
         UNCHANGED <<pc, build, origin, valid, hidden, collection>>
  PROVE  IInv'
<1> DEFINE f == Frame(e)
<1>1. /\ f \in [entity : 1..Made, rest : Seq(1..Made)] /\ f.entity = e
      /\ Kin(e, f.rest) /\ (origin[e].of = "level" /\ e \notin hidden => f.rest = <<>>)
  BY FrameRight
<1>2. destroying' = <<f>>
  OBVIOUS
<1> HIDE DEF f
<1>3. UNCHANGED <<pc, level, object, meshIndex, gathered, modelList, origin, valid, hidden, collection>>
  BY DEF build
<1>4. /\ DOMAIN destroying' = {1} /\ destroying'[1] = f
      /\ destroying' \in Seq([entity : 1..Made, rest : Seq(1..Made)])
  BY <1>1, <1>2
<1>5. TypeOK'
  BY <1>3, <1>4 DEF IInv, TypeOK, Made
<1>6. FramesRight'
  BY <1>1, <1>3, <1>4 DEF FramesRight, Kin
<1>7. DestroyedOnce'
  BY <1>1, <1>2, <1>3 DEF DestroyedOnce
<1> QED BY <1>3, <1>4, <1>5, <1>6, <1>7
     DEF IInv, ModelsFresh, CollectionsRight, Kin, ChainRight, HiddenRight, Idle, GatheredRight

\* The loop of Destroy_MeshCollection goes on, into the next entity it names or
\* past it.
LEMMA VisitRight == IInv /\ VisitNamed => IInv'
<1> SUFFICES ASSUME IInv, VisitNamed PROVE IInv'
  OBVIOUS
<1> DEFINE F    == [entity : 1..Made, rest : Seq(1..Made)]
           n    == Len(destroying)
           t    == destroying[n]
           e    == Head(t.rest)
           top  == [t EXCEPT !.rest = Tail(@)]
           here == Append(Callers, top)
<1>1. destroying \in Seq(F) /\ destroying # <<>>
  BY DEF IInv, TypeOK, VisitNamed
<1>2. /\ n \in Nat \ {0} /\ n \in DOMAIN destroying /\ DOMAIN destroying = 1..n
      /\ t \in F
      /\ Callers \in Seq(F) /\ Len(Callers) = n - 1
      /\ \A i \in 1..(n - 1) : Callers[i] = destroying[i]
  <2> HIDE DEF F
  <2> QED BY <1>1, LastAndRest DEF Callers
<1>3. t.entity \in 1..Made /\ t.rest \in Seq(1..Made) /\ t.rest # <<>>
  BY <1>2 DEF VisitNamed, Top
<1>4. /\ e = t.rest[1] /\ 1 \in DOMAIN t.rest /\ e \in 1..Made
      /\ Tail(t.rest) \in Seq(1..Made)
      /\ \A k \in DOMAIN Tail(t.rest) : k + 1 \in DOMAIN t.rest /\ Tail(t.rest)[k] = t.rest[k + 1]
  BY <1>3, HeadAndTail
<1>5. top \in F /\ top.entity = t.entity /\ top.rest = Tail(t.rest)
  BY <1>2, <1>3, <1>4
<1>6. /\ destroying' = IF e \in valid THEN Append(here, Frame(e)) ELSE here
      /\ UNCHANGED <<pc, level, object, meshIndex, gathered, modelList, origin, valid, hidden, collection>>
  BY DEF VisitNamed, Top, StillThere, build
<1> HIDE DEF F, t, e, top, n
<1>7. /\ here \in Seq(F) /\ Len(here) = n /\ here[n] = top
      /\ \A i \in 1..(n - 1) : here[i] = destroying[i]
  BY <1>2, <1>5, Appended
<1> HIDE DEF here
<1>8. /\ Kin(t.entity, t.rest)
      /\ pc = "loaded" => t.entity \notin hidden /\ (origin[t.entity].of = "level" => t.rest = <<>>)
  BY <1>2 DEF IInv, FramesRight, t
<1>9. /\ origin[e] = origin[t.entity]
      /\ origin[t.entity].of = "level" => e < t.entity
      /\ origin[t.entity].of # "level" => t.entity \in DOMAIN collection /\ e \notin DOMAIN collection
  BY <1>4, <1>8 DEF Kin
<1>10. Kin(top.entity, top.rest)
  BY <1>4, <1>5, <1>8 DEF Kin
<1>11. pc \in {"loaded", "leaving"} /\ pc # "building" /\ pc # "none"
  BY <1>1 DEF IInv, Idle, TypeOK
\* What holds of the frames that stay, and of their chain.
<1>12. \A i \in 1..n : here[i].entity = destroying[i].entity
  <2>1. here[n].entity = destroying[n].entity
    BY <1>5, <1>7 DEF t
  <2> QED BY <1>2, <1>7, <2>1
<1>13. \A i \in 1..n :
         /\ Kin(here[i].entity, here[i].rest)
         /\ here[i].entity \in valid /\ here[i].entity \in 1..Made
         /\ pc = "loaded" => /\ here[i].entity \notin hidden
                             /\ origin[here[i].entity].of = "level" => here[i].rest = <<>>
  <2> SUFFICES ASSUME NEW i \in 1..n
               PROVE  /\ Kin(here[i].entity, here[i].rest)
                      /\ here[i].entity \in valid /\ here[i].entity \in 1..Made
                      /\ pc = "loaded" => /\ here[i].entity \notin hidden
                                          /\ origin[here[i].entity].of = "level" => here[i].rest = <<>>
    OBVIOUS
  <2>1. here[i].entity \in valid /\ here[i].entity \in 1..Made
    <3>1. destroying[i].entity \in valid
      BY <1>2 DEF IInv, DestroyedOnce, n
    <3> QED BY <1>12, <3>1 DEF IInv, TypeOK
  <2>2. CASE i = n
    <3>1. pc = "loaded" => top.entity \notin hidden /\ origin[top.entity].of # "level"
      BY <1>3, <1>5, <1>8
    <3> QED BY <1>7, <1>10, <2>1, <2>2, <3>1
  <2>3. CASE i # n
    <3>1. i \in 1..(n - 1) /\ here[i] = destroying[i] /\ i \in DOMAIN destroying
      BY <1>2, <1>7, <2>3
    <3> QED BY <2>1, <3>1 DEF IInv, FramesRight
  <2> QED BY <2>2, <2>3
<1>14. \A i, j \in 1..n : i < j =>
         /\ origin[here[j].entity] = origin[here[i].entity]
         /\ origin[here[i].entity].of = "level" => here[j].entity < here[i].entity
         /\ origin[here[i].entity].of # "level" =>
              here[i].entity \in DOMAIN collection /\ here[j].entity \notin DOMAIN collection
  BY <1>2, <1>12 DEF IInv, ChainRight
<1>15. CASE e \in valid
  <2> DEFINE f == Frame(e)
  <2>1. /\ f \in F /\ f.entity = e /\ Kin(e, f.rest)
        /\ origin[e].of = "level" /\ e \notin hidden => f.rest = <<>>
    BY <1>15, FrameRight DEF F
  <2>2. destroying' = Append(here, f)
    BY <1>6, <1>15
  <2> HIDE DEF f
  <2>3. /\ destroying' \in Seq(F) /\ DOMAIN destroying' = 1..(n + 1)
        /\ destroying'[n + 1] = f /\ \A i \in 1..n : destroying'[i] = here[i]
    <3>1. /\ destroying' \in Seq(F) /\ Len(destroying') = n + 1
          /\ destroying'[n + 1] = f /\ \A i \in 1..n : destroying'[i] = here[i]
      BY <1>7, <2>1, <2>2, Appended
    <3> QED BY <3>1
  <2>4. TypeOK'
    BY <1>6, <2>3 DEF IInv, TypeOK, F, Made
  <2>5. pc = "loaded" => e \notin hidden /\ (origin[e].of = "level" => f.rest = <<>>)
    <3>1. ASSUME pc = "loaded" PROVE origin[e].of # "level"
      BY <1>3, <1>8, <1>9, <3>1
    <3> QED BY <3>1 DEF IInv, HiddenRight
  <2>6. FramesRight'
    <3> DEFINE d == Append(here, f)
    <3>1. destroying' = d /\ DOMAIN d = 1..(n + 1)
      BY <2>2, <2>3
    <3> HIDE DEF d
    <3>2. \A i \in 1..(n + 1) :
            /\ Kin(d[i].entity, d[i].rest)
            /\ pc = "loaded" => /\ d[i].entity \notin hidden
                                /\ origin[d[i].entity].of = "level" => d[i].rest = <<>>
      <4> SUFFICES ASSUME NEW i \in 1..(n + 1)
                   PROVE  /\ Kin(d[i].entity, d[i].rest)
                          /\ pc = "loaded" => /\ d[i].entity \notin hidden
                                              /\ origin[d[i].entity].of = "level" => d[i].rest = <<>>
        OBVIOUS
      <4>1. CASE i = n + 1
        BY <2>1, <2>3, <2>5, <3>1, <4>1
      <4>2. CASE i # n + 1
        <5>1. i \in 1..n
          BY <1>2, <4>2
        <5> QED BY <1>13, <2>3, <3>1, <5>1
      <4> QED BY <4>1, <4>2
    <3>3. UNCHANGED <<pc, origin, hidden, collection>>
      BY <1>6
    <3> QED BY <3>1, <3>2, <3>3 DEF FramesRight, Kin
  <2>7. ChainRight'
    <3> SUFFICES ASSUME NEW i \in 1..(n + 1), NEW j \in 1..(n + 1), i < j
                 PROVE  LET x == destroying'[i].entity
                            y == destroying'[j].entity
                        IN /\ origin[y] = origin[x]
                           /\ origin[x].of = "level" => y < x
                           /\ origin[x].of # "level" => x \in DOMAIN collection /\ y \notin DOMAIN collection
      BY <1>6, <2>3 DEF ChainRight
    <3>1. i \in 1..n /\ destroying'[i] = here[i]
      BY <1>2, <2>3
    <3>2. CASE j # n + 1
      <4>1. j \in 1..n /\ destroying'[j] = here[j]
        BY <1>2, <2>3, <3>2
      <4> QED BY <1>14, <3>1, <4>1
    <3>3. CASE j = n + 1
      <4>1. destroying'[j].entity = e
        BY <2>1, <2>3, <3>3
      <4>2. here[n].entity = t.entity
        BY <1>5, <1>7
      <4>3. CASE i = n
        BY <1>9, <3>1, <4>1, <4>2, <4>3
      <4>4. CASE i # n
        <5>1. i < n /\ n \in 1..n
          BY <1>2, <3>1, <4>4
        <5>2. /\ origin[t.entity] = origin[here[i].entity]
              /\ origin[here[i].entity].of = "level" => t.entity < here[i].entity
              /\ origin[here[i].entity].of # "level" => here[i].entity \in DOMAIN collection
          BY <1>14, <3>1, <4>2, <5>1
        <5>3. here[i].entity \in Nat /\ t.entity \in Nat /\ e \in Nat
          <6>1. here[i].entity \in 1..Made
            BY <1>13, <3>1
          <6> QED BY <1>3, <1>4, <6>1
        <5> QED BY <1>9, <3>1, <4>1, <5>2, <5>3
      <4> QED BY <4>3, <4>4
    <3> QED BY <3>2, <3>3
  <2>8. DestroyedOnce'
    <3> SUFFICES ASSUME NEW i \in 1..(n + 1) PROVE destroying'[i].entity \in valid
      BY <1>6, <2>3, Members DEF DestroyedOnce
    <3>1. CASE i = n + 1
      BY <1>15, <2>1, <2>3, <3>1
    <3>2. CASE i # n + 1
      <4>1. i \in 1..n
        BY <1>2, <3>2
      <4> QED BY <1>13, <2>3, <4>1
    <3> QED BY <3>1, <3>2
  <2> QED BY <1>6, <1>11, <2>4, <2>6, <2>7, <2>8
       DEF IInv, ModelsFresh, CollectionsRight, Kin, HiddenRight, Idle, GatheredRight
<1>16. CASE e \notin valid
  <2>1. destroying' = here /\ DOMAIN destroying' = 1..n /\ Len(destroying') = n
    BY <1>2, <1>6, <1>7, <1>16, Members
  <2>2. TypeOK'
    BY <1>6, <1>7, <2>1 DEF IInv, TypeOK, F, Made
  <2>3. FramesRight'
    BY <1>6, <1>13, <2>1 DEF FramesRight, Kin
  <2>4. ChainRight'
    BY <1>6, <1>14, <2>1 DEF ChainRight
  <2>5. DestroyedOnce'
    BY <1>6, <1>13, <2>1 DEF DestroyedOnce
  <2> QED BY <1>6, <1>11, <2>2, <2>3, <2>4, <2>5
       DEF IInv, ModelsFresh, CollectionsRight, Kin, HiddenRight, Idle, GatheredRight
<1> QED BY <1>15, <1>16

\* The innermost registry.destroy removes its entity and returns.
LEMMA FinishRight == IInv /\ FinishDestroy => IInv'
<1> SUFFICES ASSUME IInv, FinishDestroy PROVE IInv'
  OBVIOUS
<1> DEFINE F == [entity : 1..Made, rest : Seq(1..Made)]
           n == Len(destroying)
           x == destroying[n].entity
           d == Callers
<1>1. destroying \in Seq(F) /\ destroying # <<>>
  BY DEF IInv, TypeOK, FinishDestroy
<1>2. /\ n \in Nat \ {0} /\ DOMAIN destroying = 1..n /\ n \in 1..n
      /\ d \in Seq(F) /\ DOMAIN d = 1..(n - 1)
      /\ \A i \in 1..(n - 1) : d[i] = destroying[i]
  <2> HIDE DEF F
  <2>1. /\ n \in Nat \ {0} /\ n \in DOMAIN destroying /\ DOMAIN destroying = 1..n
        /\ d \in Seq(F) /\ Len(d) = n - 1
        /\ \A i \in 1..(n - 1) : d[i] = destroying[i]
    BY <1>1, LastAndRest DEF Callers
  <2>2. DOMAIN d = 1..Len(d)
    BY <2>1, Members
  <2> QED BY <2>1, <2>2
<1>3. /\ valid' = valid \ {x} /\ hidden' = hidden \ {x}
      /\ collection' = Without(collection, x) /\ destroying' = d
      /\ UNCHANGED <<pc, level, object, meshIndex, gathered, modelList, origin>>
  BY DEF FinishDestroy, Top, build
<1> HIDE DEF F, x, d, n
<1>4. DOMAIN collection' = DOMAIN collection \ {x}
      /\ \A e \in DOMAIN collection' : collection'[e] = collection[e]
  BY <1>3 DEF Without
<1>5. \A i \in 1..(n - 1) :
        /\ i \in 1..n /\ i < n
        /\ d[i] = destroying[i]
        /\ d[i].entity # x /\ d[i].entity \in valid
  <2> SUFFICES ASSUME NEW i \in 1..(n - 1)
               PROVE  /\ i \in 1..n /\ i < n /\ d[i] = destroying[i]
                      /\ d[i].entity # x /\ d[i].entity \in valid
    OBVIOUS
  <2>1. i \in 1..n /\ i < n /\ i # n /\ d[i] = destroying[i]
    BY <1>2
  <2>2. NoReentry
    BY ChainTells DEF IInv
  <2>3. destroying[i].entity # x
    BY <1>2, <2>1, <2>2 DEF NoReentry, x, n
  <2>4. destroying[i].entity \in valid
    BY <2>1 DEF IInv, DestroyedOnce, n
  <2> QED BY <2>1, <2>3, <2>4
<1>6. pc # "none" /\ pc # "building"
  BY <1>1 DEF IInv, Idle
<1>7. /\ pc = "loaded" => x \notin hidden
  BY <1>2 DEF IInv, FramesRight, x
<1>8. TypeOK'
  <2>1. destroying' \in Seq([entity : 1..Made', rest : Seq(1..Made')])
    BY <1>2, <1>3 DEF F, Made
  <2>2. \A e \in DOMAIN collection' : collection'[e] \in Seq(1..Made)
    BY <1>4 DEF IInv, TypeOK
  <2>3. valid' \subseteq 1..Made /\ hidden' \subseteq valid' /\ DOMAIN collection' \subseteq valid'
    BY <1>3, <1>4 DEF IInv, TypeOK
  <2> QED BY <1>3, <2>1, <2>2, <2>3 DEF IInv, TypeOK, Made
<1>9. ModelsFresh'
  <2> SUFFICES ASSUME pc = "loaded", NEW m \in DOMAIN modelList, NEW e \in Elements(modelList[m])
               PROVE  /\ e \in hidden' /\ origin[e].of = "level"
                      /\ level[origin[e].number].name = m
    BY <1>3, <1>6 DEF ModelsFresh, Elements
  <2>1. e \in hidden /\ origin[e].of = "level" /\ level[origin[e].number].name = m
    BY DEF IInv, ModelsFresh
  <2> QED BY <1>3, <1>7, <2>1
<1>10. DestroyedOnce'
  <2>1. Len(d) = n - 1
    BY <1>2, Members
  <2>2. \A i \in 1..(n - 1) : d[i].entity \in valid'
    BY <1>3, <1>5
  <2> QED BY <1>3, <2>1, <2>2 DEF DestroyedOnce
<1>11. CollectionsRight'
  <2> SUFFICES ASSUME NEW e \in DOMAIN collection'
               PROVE  /\ Kin(e, collection[e])'
                      /\ origin'[e].of = "level" /\ e \notin hidden' => collection'[e] = <<>>
    BY DEF CollectionsRight
  <2>1. e \in DOMAIN collection /\ e # x /\ collection'[e] = collection[e]
    BY <1>4
  <2>2. /\ Kin(e, collection[e])
        /\ origin[e].of = "level" /\ e \notin hidden => collection[e] = <<>>
    BY <2>1 DEF IInv, CollectionsRight
  <2>3. Kin(e, collection[e])'
    BY <1>3, <1>4, <2>1, <2>2 DEF Kin
  <2> QED BY <1>3, <2>1, <2>2, <2>3
<1>12. FramesRight'
  <2>1. \A i \in 1..(n - 1) :
          /\ Kin(d[i].entity, d[i].rest) /\ d[i].entity # x
          /\ pc = "loaded" => /\ d[i].entity \notin hidden
                              /\ origin[d[i].entity].of = "level" => d[i].rest = <<>>
    BY <1>2, <1>5 DEF IInv, FramesRight
  <2>2. \A i \in 1..(n - 1) :
          /\ \A k \in DOMAIN d[i].rest :
               /\ origin[d[i].rest[k]] = origin[d[i].entity]
               /\ origin[d[i].entity].of = "level" => d[i].rest[k] < d[i].entity
               /\ origin[d[i].entity].of # "level" =>
                    d[i].entity \in DOMAIN collection' /\ d[i].rest[k] \notin DOMAIN collection'
          /\ pc = "loaded" => /\ d[i].entity \notin hidden'
                              /\ origin[d[i].entity].of = "level" => d[i].rest = <<>>
    BY <1>3, <1>4, <2>1 DEF Kin
  <2>3. destroying' = d /\ DOMAIN d = 1..(n - 1) /\ pc' = pc /\ origin' = origin
    BY <1>2, <1>3
  <2> QED BY <2>2, <2>3 DEF FramesRight, Kin
<1>13. ChainRight'
  <2>1. \A i, j \in 1..(n - 1) : i < j =>
          /\ origin[d[j].entity] = origin[d[i].entity]
          /\ origin[d[i].entity].of = "level" => d[j].entity < d[i].entity
          /\ origin[d[i].entity].of # "level" =>
               d[i].entity \in DOMAIN collection /\ d[j].entity \notin DOMAIN collection
    BY <1>2, <1>5 DEF IInv, ChainRight
  <2> QED BY <1>2, <1>3, <1>4, <1>5, <2>1 DEF ChainRight
<1>14. HiddenRight'
  BY <1>3 DEF IInv, HiddenRight
<1> QED BY <1>3, <1>6, <1>8, <1>9, <1>10, <1>11, <1>12, <1>13, <1>14
     DEF IInv, Idle, GatheredRight

\* The steps that only move pc, and the load that starts with nothing.
LEMMA LevelRight == IInv /\ ((\E l \in Levels : BeginLoad(l)) \/ EndLoad \/ Leave \/ Left) => IInv'
<1> SUFFICES ASSUME IInv, (\E l \in Levels : BeginLoad(l)) \/ EndLoad \/ Leave \/ Left PROVE IInv'
  OBVIOUS
<1>1. CASE \E l \in Levels : BeginLoad(l)
  <2> PICK l \in Levels : BeginLoad(l)
    BY <1>1
  <2>1. /\ l \in Seq(Object) /\ pc' = "building" /\ destroying = <<>>
        /\ level' = l /\ object' = 1 /\ meshIndex' = 1 /\ gathered' = <<>> /\ modelList' = <<>>
        /\ UNCHANGED <<origin, valid, hidden, collection, destroying>>
    BY LevelLoadAssumption DEF BeginLoad, ModelsCleared, IInv, Idle
  <2>2. TypeOK'
    BY <2>1 DEF IInv, TypeOK, Made
  <2> QED BY <2>1, <2>2 DEF IInv, ModelsFresh, DestroyedOnce, CollectionsRight, Kin, FramesRight,
       ChainRight, HiddenRight, Idle, GatheredRight
<1>2. CASE EndLoad \/ Leave \/ Left
  <2>1. /\ \/ pc = "building" /\ pc' = "loaded"
           \/ pc = "loaded" /\ pc' = "leaving"
           \/ pc = "leaving" /\ pc' = "none"
        /\ destroying = <<>>
        /\ UNCHANGED <<level, object, meshIndex, gathered, modelList,
                       origin, valid, hidden, collection, destroying>>
    BY <1>2 DEF EndLoad, Leave, Left, IInv, Idle, build
  <2>2. TypeOK'
    BY <2>1 DEF IInv, TypeOK, Made
  <2> QED BY <2>1, <2>2 DEF IInv, ModelsFresh, DestroyedOnce, CollectionsRight, Kin, FramesRight,
       ChainRight, HiddenRight, Idle, GatheredRight
<1> QED BY <1>1, <1>2

-----------------------------------------------------------------------------
LEMMA Step == IInv /\ [Next]_vars => IInv'
<1> SUFFICES ASSUME IInv, [Next]_vars PROVE IInv'
  OBVIOUS
<1>1. CASE (\E l \in Levels : BeginLoad(l)) \/ EndLoad \/ Leave \/ Left
  BY <1>1, LevelRight
<1>2. CASE BuildMesh
  BY <1>2, BuildMeshRight
<1>3. CASE EndObject
  BY <1>3, EndObjectRight
<1>4. CASE VisitNamed
  BY <1>4, VisitRight
<1>5. CASE FinishDestroy
  BY <1>5, FinishRight
<1>6. CASE \E n \in Name : Spawn(n)
  BY <1>6, SpawnRight
<1>7. CASE \E e \in Entity : Hit(e)
  BY <1>7, BeginRight DEF Hit
<1>8. CASE \E e \in Entity : DeleteLevelEntity(e)
  BY <1>8, BeginRight DEF DeleteLevelEntity, LevelEntities
<1>9. CASE UNCHANGED vars
  BY <1>9 DEF vars, build, IInv, TypeOK, Made, ModelsFresh, Elements, DestroyedOnce, CollectionsRight, Kin,
     FramesRight, ChainRight, HiddenRight, Idle, GatheredRight
<1> QED BY <1>1, <1>2, <1>3, <1>4, <1>5, <1>6, <1>7, <1>8, <1>9 DEF Next

LEMMA Invariance == Spec => []IInv
BY InitRight, Step, PTL DEF Spec

\* Type correctness: every handle the ModelManager, a collection or a
\* destruction under way holds was made by Construct_GPULevel or the game.
THEOREM TypeCorrect == Spec => []TypeOK
<1>1. IInv => TypeOK
  BY DEF IInv
<1> QED BY <1>1, Invariance, PTL

\* Destroy_MeshCollection never comes back to an entity that is being
\* destroyed: in a level what an entity names is older than it, and the copies
\* an actor names have no collections.
THEOREM NeverReentered == Spec => []NoReentry
<1>1. IInv => NoReentry
  BY ChainTells DEF IInv
<1> QED BY <1>1, Invariance, PTL

\* The cascade of registry.destroy does not leave the object of the level, or
\* the actor, it began in.
THEOREM StaysInside == Spec => []CascadeConfined
<1>1. IInv => CascadeConfined
  BY ChainTells DEF IInv
<1> QED BY <1>1, Invariance, PTL

\* An entity whose destruction has begun stays valid until the destruction ends.
THEOREM NamedExist == Spec => []DestroyedOnce
<1>1. IInv => DestroyedOnce
  BY DEF IInv
<1> QED BY <1>1, Invariance, PTL

\* The templates of the ModelManager are hidden meshes of the level being built
\* or played, however the game destroys what can be seen.
THEOREM TemplatesLive == Spec => []ModelsFresh
<1>1. IInv => ModelsFresh
  BY DEF IInv
<1> QED BY <1>1, Invariance, PTL

-----------------------------------------------------------------------------
\* What the ModelManager holds.

\* The sequence s is the meshes of object i of level l, the first dynamic one
\* with the name n, by the origins o.
MeshesOf(l, s, o, n, i) ==
  /\ l[i].name = n /\ l[i].isDynamic
  /\ \A j \in 1..(i - 1) : l[j].name = n => ~l[j].isDynamic
  /\ Len(s) = l[i].meshes
  /\ \A k \in DOMAIN s : o[s[k]] = [of |-> "level", number |-> i]

\* Of the objects that are built the dynamic ones have their names in the
\* ModelManager, each name leads to the meshes of one, and a dynamic object
\* being built has as many meshes gathered as it has built.
ModelsSoFar ==
  pc \in {"building", "loaded"} =>
    /\ \A n \in DOMAIN modelList : \E i \in 1..(object - 1) : MeshesOf(level, modelList[n], origin, n, i)
    /\ \A j \in 1..(object - 1) : level[j].isDynamic => level[j].name \in DOMAIN modelList
    /\ pc = "building" /\ object <= Len(level) =>
         /\ meshIndex <= level[object].meshes + 1
         /\ level[object].isDynamic => Len(gathered) = meshIndex - 1
    /\ pc = "loaded" => object = Len(level) + 1

\* Entities that are added change nobody's origin.
LEMMA OriginsKept ==
  ASSUME IInv, BuildMesh \/ \E name \in Name : Spawn(name)
  PROVE  \A x \in 1..Made : origin'[x] = origin[x]
<1>1. origin \in Seq(Origin) /\ Made = Len(origin) /\ Made \in Nat BY DEF IInv, TypeOK, Made
<1>2. CASE BuildMesh
  <2> DEFINE k == level[object].tiles
             c == [of |-> "level", number |-> object]
  <2>1. k \in Nat /\ c \in Origin
    <3>1. object \in DOMAIN level /\ level \in Seq(Object) /\ object \in Nat
      BY <1>2 DEF IInv, TypeOK, BuildMesh, Building
    <3> QED BY <3>1, LevelLoadAssumption DEF Origin
  <2>2. origin' = origin \o [x \in 1..k |-> c] BY <1>2 DEF BuildMesh
  <2> HIDE DEF k, c
  <2> QED BY <1>1, <2>1, <2>2, Extended
<1>3. ASSUME NEW name \in Name, Spawn(name)
      PROVE  \A x \in 1..Made : origin'[x] = origin[x]
  <2> DEFINE m == Len(modelList[name])
             copies == [i \in 1..m |-> Made + 1 + i]
             c == [of |-> "actor", number |-> Made + 1]
  <2>1. m \in Nat /\ c \in Origin
    BY <1>1, <1>3 DEF Spawn, IInv, TypeOK, Origin
  <2>2. Len(copies) = m
    <3> HIDE DEF m
    <3> QED BY <2>1, <1>1
  <2>3. origin' = origin \o [i \in 1..(Len(copies) + 1) |-> c] BY <1>3 DEF Spawn
  <2>4. m + 1 \in Nat BY <2>1
  <2> HIDE DEF m, c, copies
  <2>5. origin' = origin \o [i \in 1..(m + 1) |-> c] BY <2>2, <2>3
  <2> QED BY <1>1, <2>1, <2>4, <2>5, Extended
<1> QED BY <1>2, <1>3

\* A name that is in the ModelManager stays with its object.
LEMMA NamesKept ==
  ASSUME IInv, NEW n \in DOMAIN modelList, NEW i,
         MeshesOf(level, modelList[n], origin, n, i),
         \A x \in 1..Made : origin'[x] = origin[x]
  PROVE  MeshesOf(level, modelList[n], origin', n, i)
<1>1. modelList[n] \in Seq(1..Made) BY DEF IInv, TypeOK
<1>2. \A k \in DOMAIN modelList[n] : modelList[n][k] \in 1..Made BY <1>1, Members
<1> QED BY <1>2 DEF MeshesOf

LEMMA SoFarBuildMesh == IInv /\ ModelsSoFar /\ BuildMesh => ModelsSoFar'
<1> SUFFICES ASSUME IInv, ModelsSoFar, BuildMesh PROVE ModelsSoFar' OBVIOUS
<1>1. /\ pc = "building" /\ object <= Len(level) /\ meshIndex <= level[object].meshes
      /\ meshIndex' = meshIndex + 1
      /\ level[object].isDynamic => gathered' = Append(gathered, Made + 1)
      /\ UNCHANGED <<pc, level, object, modelList>>
  BY DEF BuildMesh, Building
<1>2. \A n \in DOMAIN modelList : \E i \in 1..(object - 1) : MeshesOf(level, modelList[n], origin', n, i)
  <2> SUFFICES ASSUME NEW n \in DOMAIN modelList
               PROVE  \E i \in 1..(object - 1) : MeshesOf(level, modelList[n], origin', n, i)
    OBVIOUS
  <2>1. PICK i \in 1..(object - 1) : MeshesOf(level, modelList[n], origin, n, i)
    BY <1>1 DEF ModelsSoFar
  <2>2. MeshesOf(level, modelList[n], origin', n, i) BY <2>1, OriginsKept, NamesKept
  <2> QED BY <2>2
<1>3. meshIndex' <= level[object].meshes + 1
  <2>1. level[object].meshes \in Nat
    <3>1. object \in DOMAIN level /\ level \in Seq(Object)
      BY <1>1 DEF IInv, TypeOK
    <3> QED BY <3>1, LevelLoadAssumption
  <2> QED BY <1>1, <2>1 DEF IInv, TypeOK
<1>4. ASSUME level[object].isDynamic PROVE Len(gathered') = meshIndex' - 1
  <2>1. Len(gathered) = meshIndex - 1 BY <1>1, <1>4 DEF ModelsSoFar
  <2>2. gathered \in Seq(1..Made) /\ meshIndex \in Nat BY DEF IInv, TypeOK
  <2>3. Len(Append(gathered, Made + 1)) = Len(gathered) + 1 BY <2>2
  <2> QED BY <1>1, <1>4, <2>1, <2>2, <2>3
<1> QED BY <1>1, <1>2, <1>3, <1>4 DEF ModelsSoFar

LEMMA SoFarEndObject == IInv /\ ModelsSoFar /\ EndObject => ModelsSoFar'
<1> SUFFICES ASSUME IInv, ModelsSoFar, EndObject PROVE ModelsSoFar' OBVIOUS
<1> DEFINE o == level[object]
<1>1. /\ pc = "building" /\ object <= Len(level) /\ meshIndex > o.meshes
      /\ modelList' = IF o.isDynamic THEN Inserted(o) ELSE modelList
      /\ object' = object + 1 /\ meshIndex' = 1 /\ gathered' = <<>>
      /\ UNCHANGED <<pc, level, origin>>
  BY DEF EndObject, Building, GatheredOfNext
<1>2. /\ object \in Nat \ {0} /\ Len(level) \in Nat /\ level \in Seq(Object)
      /\ meshIndex \in Nat /\ gathered \in Seq(1..Made)
  BY DEF IInv, TypeOK
<1>3. \A j \in 1..Len(level) : level[j].meshes \in Nat
  <2>1. \A x \in Object : x.meshes \in Nat BY LevelLoadAssumption
  <2> QED BY <1>2, <2>1
<1>4. ASSUME o.isDynamic, o.name \notin DOMAIN modelList
      PROVE  MeshesOf(level, gathered, origin, o.name, object)
  <2>1. \A j \in 1..(object - 1) : level[j].name = o.name => ~level[j].isDynamic
    BY <1>1, <1>4 DEF ModelsSoFar
  <2>2. Len(gathered) = o.meshes
    <3>1. Len(gathered) = meshIndex - 1 /\ meshIndex <= o.meshes + 1
      BY <1>1, <1>4 DEF ModelsSoFar
    <3>2. o.meshes \in Nat BY <1>1, <1>2, <1>3
    <3> QED BY <1>1, <1>2, <3>1, <3>2
  <2>3. \A k \in DOMAIN gathered : origin[gathered[k]] = [of |-> "level", number |-> object]
    BY <1>1 DEF IInv, GatheredRight
  <2> QED BY <1>4, <2>1, <2>2, <2>3 DEF MeshesOf
<1>5. \A i \in 1..(object - 1) : i \in 1..object BY <1>2
<1>6. object \in 1..object BY <1>2
<1>7. \A n \in DOMAIN modelList' : \E i \in 1..object : MeshesOf(level, modelList'[n], origin, n, i)
  <2> SUFFICES ASSUME NEW n \in DOMAIN modelList'
               PROVE  \E i \in 1..object : MeshesOf(level, modelList'[n], origin, n, i)
    OBVIOUS
  <2>1. CASE n \in DOMAIN modelList /\ modelList'[n] = modelList[n]
    <3>1. PICK i \in 1..(object - 1) : MeshesOf(level, modelList[n], origin, n, i)
      BY <1>1, <2>1 DEF ModelsSoFar
    <3> QED BY <2>1, <3>1, <1>5
  <2>2. CASE o.isDynamic /\ o.name \notin DOMAIN modelList /\ n = o.name /\ modelList'[n] = gathered
    BY <2>2, <1>4, <1>6
  <2>3. \/ n \in DOMAIN modelList /\ modelList'[n] = modelList[n]
        \/ o.isDynamic /\ o.name \notin DOMAIN modelList /\ n = o.name /\ modelList'[n] = gathered
    BY <1>1 DEF Inserted, With
  <2> QED BY <2>1, <2>2, <2>3
<1>8. \A j \in 1..object : level[j].isDynamic => level[j].name \in DOMAIN modelList'
  <2> SUFFICES ASSUME NEW j \in 1..object, level[j].isDynamic
               PROVE  level[j].name \in DOMAIN modelList'
    OBVIOUS
  <2>1. DOMAIN modelList \subseteq DOMAIN modelList' BY <1>1 DEF Inserted, With
  <2>2. CASE j = object
    <3>1. modelList' = Inserted(o) BY <1>1, <2>2
    <3>2. o.name \in DOMAIN Inserted(o) BY DEF Inserted, With
    <3> QED BY <3>1, <3>2, <2>2
  <2>3. CASE j # object
    <3>1. j \in 1..(object - 1) BY <2>3, <1>2
    <3> QED BY <3>1, <2>1, <1>1 DEF ModelsSoFar
  <2> QED BY <2>2, <2>3
<1>9. object' - 1 = object BY <1>1, <1>2
<1>10. pc' = "building" /\ object' <= Len(level') =>
         /\ meshIndex' <= level'[object'].meshes + 1
         /\ level'[object'].isDynamic => Len(gathered') = meshIndex' - 1
  <2> SUFFICES ASSUME object + 1 <= Len(level)
               PROVE  1 <= level[object + 1].meshes + 1 /\ Len(<<>>) = 1 - 1
    BY <1>1
  <2>1. level[object + 1].meshes \in Nat BY <1>2, <1>3
  <2> QED BY <2>1
<1> QED BY <1>1, <1>7, <1>8, <1>9, <1>10 DEF ModelsSoFar

LEMMA SoFarSpawn == IInv /\ ModelsSoFar /\ (\E n \in Name : Spawn(n)) => ModelsSoFar'
<1> SUFFICES ASSUME IInv, ModelsSoFar, \E n \in Name : Spawn(n) PROVE ModelsSoFar' OBVIOUS
<1>1. pc = "loaded" /\ UNCHANGED <<pc, level, object, modelList>> BY DEF Spawn, build
<1>2. \A n \in DOMAIN modelList : \E i \in 1..(object - 1) : MeshesOf(level, modelList[n], origin', n, i)
  <2> SUFFICES ASSUME NEW n \in DOMAIN modelList
               PROVE  \E i \in 1..(object - 1) : MeshesOf(level, modelList[n], origin', n, i)
    OBVIOUS
  <2>1. PICK i \in 1..(object - 1) : MeshesOf(level, modelList[n], origin, n, i)
    BY <1>1 DEF ModelsSoFar
  <2>2. MeshesOf(level, modelList[n], origin', n, i) BY <2>1, OriginsKept, NamesKept
  <2> QED BY <2>2
<1> QED BY <1>1, <1>2 DEF ModelsSoFar

LEMMA SoFarStep == IInv /\ ModelsSoFar /\ [Next]_vars => ModelsSoFar'
<1> SUFFICES ASSUME IInv, ModelsSoFar, [Next]_vars PROVE ModelsSoFar' OBVIOUS
<1>1. CASE \E l \in Levels : BeginLoad(l)
  <2> PICK l \in Levels : BeginLoad(l) BY <1>1
  <2>1. /\ l \in Seq(Object) /\ pc' = "building" /\ level' = l /\ object' = 1 /\ meshIndex' = 1
        /\ gathered' = <<>> /\ modelList' = <<>>
    BY LevelLoadAssumption DEF BeginLoad, ModelsCleared
  <2>2. 1 <= Len(l) => l[1].meshes \in Nat
    <3>1. \A x \in Object : x.meshes \in Nat BY LevelLoadAssumption
    <3> QED BY <2>1, <3>1
  <2>3. meshIndex' <= 1 /\ Len(gathered') = meshIndex' - 1 /\ object' - 1 = 0 BY <2>1
  <2> QED BY <2>1, <2>2, <2>3 DEF ModelsSoFar
<1>2. CASE BuildMesh BY <1>2, SoFarBuildMesh
<1>3. CASE EndObject BY <1>3, SoFarEndObject
<1>4. CASE EndLoad
  <2>1. /\ pc = "building" /\ object > Len(level) /\ pc' = "loaded"
        /\ UNCHANGED <<level, object, modelList, origin>>
    BY <1>4 DEF EndLoad, build
  <2>2. object = Len(level) + 1 BY <2>1 DEF IInv, TypeOK
  <2> QED BY <2>1, <2>2 DEF ModelsSoFar
<1>5. CASE \E n \in Name : Spawn(n) BY <1>5, SoFarSpawn
<1>6. CASE Leave BY <1>6 DEF Leave, ModelsSoFar
<1>7. CASE Left BY <1>7 DEF Left, ModelsSoFar
<1>8. CASE UNCHANGED <<pc, build, origin>>
  BY <1>8 DEF build, ModelsSoFar
<1> QED BY <1>1, <1>2, <1>3, <1>4, <1>5, <1>6, <1>7, <1>8
        DEF Next, VisitNamed, FinishDestroy, Hit, DeleteLevelEntity, vars

\* Once a level is loaded a name of the ModelManager leads to all the meshes of
\* the first dynamic object with the name and to nothing else, whatever is
\* spawned and destroyed, however many objects share names.
THEOREM ModelsAreWhole == Spec => []ModelsComplete
<1>1. Init => ModelsSoFar BY DEF Init, ModelsSoFar
<1>2. IInv /\ ModelsSoFar => ModelsComplete
  <2> SUFFICES ASSUME IInv, ModelsSoFar, pc = "loaded", NEW n \in DOMAIN modelList
               PROVE  \E i \in 1..Len(level) :
                        /\ level[i].name = n /\ level[i].isDynamic
                        /\ \A j \in 1..(i - 1) : level[j].name = n => ~level[j].isDynamic
                        /\ Len(modelList[n]) = level[i].meshes
                        /\ \A e \in Elements(modelList[n]) : origin[e] = [of |-> "level", number |-> i]
    BY DEF ModelsComplete
  <2>1. object - 1 = Len(level) BY DEF ModelsSoFar, IInv, TypeOK
  <2>2. PICK i \in 1..Len(level) : MeshesOf(level, modelList[n], origin, n, i)
    BY <2>1 DEF ModelsSoFar
  <2>3. \A e \in Elements(modelList[n]) : origin[e] = [of |-> "level", number |-> i]
    BY <2>2 DEF MeshesOf, Elements
  <2> QED BY <2>2, <2>3 DEF MeshesOf
<1>3. Spec => []ModelsSoFar BY <1>1, Invariance, SoFarStep, PTL DEF Spec
<1> QED BY <1>2, <1>3, Invariance, PTL

-----------------------------------------------------------------------------
(* The row of tiles.  The numbers of a row.                                *)

\* Of two numbers, the code's max and min are one of them and bound both.
LEMMA TwoBounds ==
  ASSUME NEW a \in Int, NEW b \in Int
  PROVE  /\ Max({a, b}) = IF a >= b THEN a ELSE b
         /\ Min({a, b}) = IF a <= b THEN a ELSE b
<1>1. PICK m \in Int : m = (IF a >= b THEN a ELSE b) /\ m \in {a, b} /\ \A y \in {a, b} : m >= y
  <2>1. CASE a >= b
    BY <2>1
  <2>2. CASE ~(a >= b)
    BY <2>2
  <2> QED  BY <2>1, <2>2
<1>2. PICK l \in Int : l = (IF a <= b THEN a ELSE b) /\ l \in {a, b} /\ \A y \in {a, b} : l <= y
  <2>1. CASE a <= b
    BY <2>1
  <2>2. CASE ~(a <= b)
    BY <2>2
  <2> QED  BY <2>1, <2>2
<1>3. Max({a, b}) \in {a, b} /\ \A y \in {a, b} : Max({a, b}) >= y
  BY <1>1 DEF Max
<1>4. Min({a, b}) \in {a, b} /\ \A y \in {a, b} : Min({a, b}) <= y
  BY <1>2 DEF Min
<1> QED  BY <1>3, <1>4

\* The clamps bring any configuration into range.
LEMMA Clamps ==
  ASSUME NEW tiles \in Int, NEW length \in Int, NEW overlap \in Int
  PROVE  /\ Count(tiles) \in Nat \ {0, 1}
         /\ Length(length) \in Nat /\ Length(length) >= One
         /\ Overlap(overlap, length) \in 0..(Length(length) - Smallest)
<1>1. Count(tiles) = IF tiles >= 2 THEN tiles ELSE 2
  BY TwoBounds DEF Count
<1>2. Length(length) = IF length >= 100 THEN length ELSE 100
  BY TwoBounds DEF Length, One
<1>3. PICK o \in Nat : o = Max({overlap, 0})
  <2>1. Max({overlap, 0}) = IF overlap >= 0 THEN overlap ELSE 0
    BY TwoBounds
  <2> QED  BY <2>1
<1>4. PICK top \in Nat : top = Length(length) - Smallest
  BY <1>2 DEF Smallest
<1>5. Overlap(overlap, length) = IF o <= top THEN o ELSE top
  BY <1>3, <1>4, TwoBounds DEF Overlap
<1> QED  BY <1>1, <1>2, <1>4, <1>5 DEF One, Smallest

-----------------------------------------------------------------------------
(* The row as a ring: tile r + 1 is the nearest, the others follow in turn. *)

Slot(i, r, n) == IF i > r THEN i - 1 - r ELSE n + i - 1 - r

\* Every slot of the row has one tile.
LEMMA SlotOnce ==
  ASSUME NEW n \in Nat \ {0}, NEW r \in 0..(n - 1)
  PROVE  /\ \A i \in 1..n : Slot(i, r, n) \in 0..(n - 1)
         /\ \A i, j \in 1..n : Slot(i, r, n) = Slot(j, r, n) => i = j
         /\ \A k \in 0..(n - 1) : \E i \in 1..n : Slot(i, r, n) = k
<1>1. \A i \in 1..n : Slot(i, r, n) \in 0..(n - 1)
  BY DEF Slot
<1>2. \A i, j \in 1..n : Slot(i, r, n) = Slot(j, r, n) => i = j
  BY DEF Slot
<1>3. ASSUME NEW k \in 0..(n - 1)  PROVE \E i \in 1..n : Slot(i, r, n) = k
  <2>1. CASE k + 1 + r <= n
    <3>1. k + 1 + r \in 1..n /\ Slot(k + 1 + r, r, n) = k
      BY <2>1 DEF Slot
    <3> QED  BY <3>1
  <2>2. CASE ~(k + 1 + r <= n)
    <3>1. k + 1 + r - n \in 1..n /\ Slot(k + 1 + r - n, r, n) = k
      BY <2>2 DEF Slot
    <3> QED  BY <3>1
  <2> QED  BY <2>1, <2>2
<1> QED  BY <1>1, <1>2, <1>3

Turned(r, c, n) == IF r + c < n THEN r + c ELSE r + c - n

\* Turning the row turns every slot.
LEMMA SlotTurned ==
  ASSUME NEW n \in Nat \ {0}, NEW r \in 0..(n - 1), NEW c \in 0..(n - 1),
         NEW i \in 1..n
  PROVE  Slot(i, Turned(r, c, n), n) = IF Slot(i, r, n) < c THEN Slot(i, r, n) - c + n
                                       ELSE Slot(i, r, n) - c
BY DEF Slot, Turned

\* The slots past an edge are the first so many.
LEMMA SlotsPast ==
  ASSUME NEW n \in Nat \ {0}, NEW s \in Nat \ {0}, NEW d \in Int
  PROVE  \E c \in 0..n : \A k \in 0..(n - 1) : s * k < d <=> k < c
<1>1. CASE d <= 0
  <2>1. \A k \in 0..(n - 1) : ~(s * k < d)
    <3> SUFFICES ASSUME NEW k \in 0..(n - 1)  PROVE s * k >= 0
      BY <1>1
    <3> QED  OBVIOUS
  <2> QED  BY <2>1
<1>2. CASE d > 0
  <2>1. PICK q \in Nat, e \in 0..(s - 1) : d - 1 = s * q + e
    <3>1. d - 1 \in Nat
      BY <1>2
    <3>2. PICK a \in Nat : a = d - 1
      BY <3>1
    <3>3. a = s * (a \div s) + (a % s) /\ a % s \in 0..(s - 1) /\ a \div s \in Nat
      OBVIOUS
    <3> QED  BY <3>2, <3>3
  <2>2. \A k \in Nat : s * k < d <=> k <= q
    <3> SUFFICES ASSUME NEW k \in Nat  PROVE s * k < d <=> k <= q
      OBVIOUS
    <3>1. CASE k <= q
      <4>1. s * (q - k) >= 0 /\ s * (q - k) = s * q - s * k
        BY <3>1
      <4> QED  BY <2>1, <3>1, <4>1
    <3>2. CASE k >= q + 1
      <4>1. s * (k - (q + 1)) >= 0 /\ s * (k - (q + 1)) = s * k - s * q - s
        BY <3>2
      <4> QED  BY <2>1, <3>2, <4>1
    <3> QED  BY <3>1, <3>2
  <2>3. CASE q + 1 <= n
    <3>1. \A k \in 0..(n - 1) : s * k < d <=> k < q + 1
      BY <2>2
    <3>2. q + 1 \in 0..n
      BY <2>3
    <3> QED  BY <3>1, <3>2
  <2>4. CASE q + 1 > n
    <3>1. \A k \in 0..(n - 1) : s * k < d <=> k < n
      BY <2>2, <2>4
    <3> QED  BY <3>1
  <2> QED  BY <2>3, <2>4
<1> QED  BY <1>1, <1>2

\* A tile before every other, the rest spacing apart, whichever it is.
Ring(at, n, s) ==
  \E b \in Int, r \in 0..(n - 1) : \A i \in 1..n : at[i] = b + s * Slot(i, r, n)

\* A frame moves the ring, or turns it as far as tiles went past the edge.
LEMMA RingTurns ==
  ASSUME NEW n \in Nat \ {0}, NEW s \in Nat \ {0}, NEW step \in Int, NEW edge \in Int,
         NEW at \in [1..n -> Int], NEW at2 \in [1..n -> Int], Ring(at, n, s),
         \A i \in 1..n : at2[i] = IF at[i] - step < edge THEN at[i] - step + s * n ELSE at[i] - step
  PROVE  Ring(at2, n, s)
<1>1. PICK b \in Int, r \in 0..(n - 1) : \A i \in 1..n : at[i] = b + s * Slot(i, r, n)
  BY DEF Ring
<1>2. PICK d \in Int : d = edge - b + step
  OBVIOUS
<1>3. PICK c \in 0..n : \A k \in 0..(n - 1) : s * k < d <=> k < c
  BY SlotsPast
<1>4. \A i \in 1..n : at2[i] = IF Slot(i, r, n) < c THEN b + s * Slot(i, r, n) - step + s * n
                               ELSE b + s * Slot(i, r, n) - step
  <2> SUFFICES ASSUME NEW i \in 1..n
               PROVE  at2[i] = IF Slot(i, r, n) < c THEN b + s * Slot(i, r, n) - step + s * n
                               ELSE b + s * Slot(i, r, n) - step
    OBVIOUS
  <2>1. PICK k \in 0..(n - 1) : k = Slot(i, r, n)
    BY SlotOnce
  <2>2. PICK p \in Int : p = s * k
    OBVIOUS
  <2>3. at[i] = b + p /\ (p < d <=> k < c)
    BY <1>1, <1>3, <2>1, <2>2
  <2>4. at[i] - step < edge <=> p < d
    BY <1>2, <2>3
  <2>5. PICK m \in Int : m = s * n
    OBVIOUS
  <2>6. at2[i] = IF at[i] - step < edge THEN at[i] - step + m ELSE at[i] - step
    BY <2>5
  <2>7. at2[i] = IF k < c THEN b + p - step + m ELSE b + p - step
    BY <2>3, <2>4, <2>6
  <2> QED  BY <2>1, <2>2, <2>5, <2>7
<1>5. CASE c = n
  <2>1. PICK b2 \in Int : b2 = b - step + s * n
    OBVIOUS
  <2>2. \A i \in 1..n : at2[i] = b2 + s * Slot(i, r, n)
    <3> SUFFICES ASSUME NEW i \in 1..n  PROVE at2[i] = b2 + s * Slot(i, r, n)
      OBVIOUS
    <3>1. PICK k \in 0..(n - 1) : k = Slot(i, r, n)
      BY SlotOnce
    <3>2. at2[i] = b + s * k - step + s * n
      BY <1>4, <1>5, <3>1
    <3>3. PICK p \in Int, m \in Int : p = s * k /\ m = s * n
      OBVIOUS
    <3>4. at2[i] = b + p - step + m /\ b2 = b - step + m
      BY <2>1, <3>2, <3>3
    <3>5. at2[i] = b2 + p
      BY <3>4
    <3> QED  BY <3>1, <3>3, <3>5
  <2> QED  BY <2>2 DEF Ring
<1>6. CASE c < n
  <2>1. PICK b2 \in Int : b2 = b - step + s * c
    <3>1. s * c \in Int
      OBVIOUS
    <3>2. b - step + s * c \in Int
      BY <3>1
    <3> QED  BY <3>2
  <2>a. c \in 0..(n - 1)
    BY <1>6
  <2>2. PICK r2 \in 0..(n - 1) : r2 = Turned(r, c, n)
    <3> USE DEF Turned
    <3>1. CASE r + c < n
      <4>1. r + c \in 0..(n - 1)
        BY <3>1
      <4> QED  BY <3>1, <4>1
    <3>2. CASE ~(r + c < n)
      <4>1. r + c - n \in 0..(n - 1)
        BY <2>a, <3>2
      <4> QED  BY <3>2, <4>1
    <3> QED  BY <3>1, <3>2
  <2>3. \A i \in 1..n : Slot(i, r2, n) = IF Slot(i, r, n) < c THEN Slot(i, r, n) - c + n
                                         ELSE Slot(i, r, n) - c
    <3> SUFFICES ASSUME NEW i \in 1..n
                 PROVE  Slot(i, r2, n) = IF Slot(i, r, n) < c THEN Slot(i, r, n) - c + n
                                         ELSE Slot(i, r, n) - c
      OBVIOUS
    <3> QED  BY <2>a, <2>2, SlotTurned
  <2>4. \A i \in 1..n : at2[i] = b2 + s * Slot(i, r2, n)
    <3> SUFFICES ASSUME NEW i \in 1..n  PROVE at2[i] = b2 + s * Slot(i, r2, n)
      OBVIOUS
    <3>1. PICK k \in 0..(n - 1) : k = Slot(i, r, n)
      BY SlotOnce
    <3>2. CASE k < c
      <4>1. at2[i] = b + s * k - step + s * n /\ Slot(i, r2, n) = k - c + n
        BY <1>4, <2>3, <3>1, <3>2
      <4>2. s * (k - c + n) = s * k - s * c + s * n
        OBVIOUS
      <4> QED  BY <2>1, <4>1, <4>2
    <3>3. CASE ~(k < c)
      <4>1. at2[i] = b + s * k - step /\ Slot(i, r2, n) = k - c
        BY <1>4, <2>3, <3>1, <3>3
      <4>2. s * (k - c) = s * k - s * c
        OBVIOUS
      <4> QED  BY <2>1, <4>1, <4>2
    <3> QED  BY <3>2, <3>3
  <2> QED  BY <2>4 DEF Ring
<1> QED  BY <1>5, <1>6

RingAt(n, s, at, places) ==
  /\ n \in Nat \ {0} /\ s \in Nat \ {0} /\ at \in [1..n -> Int] /\ Ring(at, n, s)
  /\ \A p : p \in places <=> \E i \in 1..n : p = at[i]

\* The places of a ring: from the nearest on, spacing apart, all different.
LEMMA RingPlaces ==
  ASSUME NEW n, NEW s, NEW at, NEW places, RingAt(n, s, at, places)
  PROVE  /\ \A p : p \in places <=> \E k \in 0..(n - 1) : p = Min(places) + s * k
         /\ Cardinality(places) = n
<1> USE DEF RingAt
<1>1. PICK b \in Int, r \in 0..(n - 1) : \A i \in 1..n : at[i] = b + s * Slot(i, r, n)
  BY DEF Ring
<1>2. \A p : p \in places <=> \E k \in 0..(n - 1) : p = b + s * k
  <2>1. \A i \in 1..n : \E k \in 0..(n - 1) : at[i] = b + s * k
    <3>1. \A i \in 1..n : Slot(i, r, n) \in 0..(n - 1)
      BY SlotOnce
    <3> QED  BY <1>1, <3>1
  <2>2. \A k \in 0..(n - 1) : \E i \in 1..n : at[i] = b + s * k
    <3>1. \A k \in 0..(n - 1) : \E i \in 1..n : Slot(i, r, n) = k
      BY SlotOnce
    <3> QED  BY <1>1, <3>1
  <2>3. ASSUME NEW p \in places  PROVE \E k \in 0..(n - 1) : p = b + s * k
    <3>1. PICK i \in 1..n : p = at[i]
      OBVIOUS
    <3>2. PICK k \in 0..(n - 1) : at[i] = b + s * k
      BY <2>1
    <3>3. PICK u : u = b + s * k
      OBVIOUS
    <3>4. p = u
      BY <3>1, <3>2, <3>3
    <3> QED  BY <3>3, <3>4
  <2>4. ASSUME NEW p, NEW k \in 0..(n - 1), p = b + s * k  PROVE p \in places
    <3>1. PICK u : u = b + s * k
      OBVIOUS
    <3>2. PICK i \in 1..n : at[i] = b + s * k
      BY <2>2
    <3>3. p = u /\ at[i] = u
      BY <2>4, <3>1, <3>2
    <3> QED  BY <3>3
  <2> QED  BY <2>3, <2>4
<1>3. b \in places /\ \A y \in places : b <= y /\ y \in Int
  <2>1. b = b + s * 0 /\ 0 \in 0..(n - 1)
    OBVIOUS
  <2>2. ASSUME NEW k \in 0..(n - 1)  PROVE b <= b + s * k /\ b + s * k \in Int
    <3>1. s * k >= 0 /\ s * k \in Int
      OBVIOUS
    <3> QED  BY <3>1
  <2>3. b \in places
    <3>1. \A k \in 0..(n - 1) : b = b + s * k => b \in places
      BY <1>2
    <3> QED  BY <2>1, <3>1
  <2>4. ASSUME NEW y \in places  PROVE b <= y /\ y \in Int
    <3>1. PICK k \in 0..(n - 1) : y = b + s * k
      BY <1>2
    <3>2. PICK u : u = b + s * k
      OBVIOUS
    <3>3. b <= u /\ u \in Int /\ y = u
      BY <2>2, <3>1, <3>2
    <3> QED  BY <3>3
  <2> QED  BY <2>3, <2>4
<1>4. Min(places) = b
  <2>1. Min(places) \in places /\ \A y \in places : Min(places) <= y
    BY <1>3 DEF Min
  <2> QED  BY <1>3, <2>1
<1>5. \A i, j \in 1..n : at[i] = at[j] => i = j
  <2> SUFFICES ASSUME NEW i \in 1..n, NEW j \in 1..n, at[i] = at[j]  PROVE i = j
    OBVIOUS
  <2>1. PICK k \in 0..(n - 1) : k = Slot(i, r, n) /\ at[i] = b + s * k
    BY <1>1, SlotOnce
  <2>2. PICK l \in 0..(n - 1) : l = Slot(j, r, n) /\ at[j] = b + s * l
    BY <1>1, SlotOnce
  <2>3. s * (k - l) = 0
    <3>0. PICK p \in Int, m \in Int : p = s * k /\ m = s * l
      OBVIOUS
    <3>a. at[i] = b + p /\ at[j] = b + m
      BY <2>1, <2>2, <3>0
    <3>b. p = m
      <4>1. PICK u \in Int : u = at[i]
        OBVIOUS
      <4>2. u = b + p /\ u = b + m
        BY <3>a, <4>1
      <4>3. \A x, y, w \in Int : w = b + x /\ w = b + y => x = y
        OBVIOUS
      <4> QED  BY <4>2, <4>3
    <3>1. s * k = s * l
      BY <3>0, <3>b
    <3> QED  BY <3>1
  <2>4. k = l
    BY <2>3
  <2>5. Slot(i, r, n) = Slot(j, r, n)
    BY <2>1, <2>2, <2>4
  <2> QED  BY <2>5, SlotOnce
<1>6. Cardinality(places) = n
  <2>1. at \in Bijection(1..n, places)
    <3>1. at \in [1..n -> places] /\ \A t \in places : \E i \in 1..n : at[i] = t
      OBVIOUS
    <3>2. IsInjective(at)
      BY <1>5 DEF IsInjective
    <3> QED  BY <3>1, <3>2 DEF Bijection, Injection, Surjection
  <2>2. ExistsBijection(1..n, places)
    BY <2>1 DEF ExistsBijection
  <2> QED  BY <2>2, FS_CountingElements
<1> QED  BY <1>2, <1>4, <1>6

-----------------------------------------------------------------------------
(* The terrain.                                                            *)

RowInv ==
  /\ TileTypeOK
  /\ laid => z \in [1..tileCount -> Int] /\ Ring(z, tileCount, tileSpacingZ)

\* What the ranges say of the spacing.
LEMMA SpacingIs ==
  TileTypeOK => /\ tileCount \in Nat \ {0} /\ tileSpacingZ \in Nat \ {0}
                /\ tileSpacingZ <= tileLengthZ /\ wrapMinZ \in Int
                /\ wrapOffsetZ = tileSpacingZ * tileCount
BY DEF TileTypeOK, tileSpacingZ, wrapMinZ, wrapOffsetZ, One, Smallest

LEMMA RowInit == TileInit => RowInv
<1> SUFFICES ASSUME TileInit PROVE RowInv
  OBVIOUS
<1>1. DOMAIN z = {}
  BY DEF TileInit
<1>2. /\ laid = FALSE /\ tileCount \in Nat \ {0, 1} /\ tileLengthZ \in Nat /\ tileLengthZ >= One
      /\ overlapZ \in 0..(tileLengthZ - Smallest)
  BY DEF TileInit, One, Smallest
<1> QED  BY <1>1, <1>2 DEF RowInv, TileTypeOK

\* Laying the row, with whatever configuration.
LEMMA RowLaid ==
  ASSUME NEW tiles \in Tiles, NEW length \in Lengths, NEW overlap \in Overlaps, NEW start \in Starts,
         RowInv, LayTiles(tiles, length, overlap, start)
  PROVE  RowInv'
<1>1. tiles \in Int /\ length \in Int /\ overlap \in Int /\ start \in Int
  BY TileScrollAssumption
<1>2. /\ tileCount' \in Nat \ {0, 1} /\ tileLengthZ' \in Nat /\ tileLengthZ' >= One
      /\ overlapZ' \in 0..(tileLengthZ' - Smallest) /\ laid' = TRUE
      /\ z' = [i \in 1..tileCount' |-> start + tileSpacingZ' * (i - 1)]
  BY <1>1, Clamps DEF LayTiles
<1>3. PICK n \in Nat \ {0} : n = tileCount'
  BY <1>2
<1>4. PICK s \in Nat \ {0} : s = tileSpacingZ'
  <2>1. tileLengthZ' - overlapZ' \in Nat \ {0}
    <3>1. PICK l \in Nat : l = tileLengthZ'
      BY <1>2
    <3>2. PICK o \in 0..(l - 1) : o = overlapZ'
      BY <1>2, <3>1 DEF Smallest
    <3>3. l - o \in Nat /\ l - o # 0
      OBVIOUS
    <3> QED  BY <3>1, <3>2, <3>3
  <2>2. tileSpacingZ' = tileLengthZ' - overlapZ'
    BY DEF tileSpacingZ
  <2> QED  BY <2>1, <2>2
<1>5. z' = [i \in 1..n |-> start + s * (i - 1)]
  BY <1>2, <1>3, <1>4
<1>6. \A i \in 1..n : start + s * (i - 1) \in Int
  <2> SUFFICES ASSUME NEW i \in 1..n  PROVE start + s * (i - 1) \in Int
    OBVIOUS
  <2>1. s * (i - 1) \in Int
    OBVIOUS
  <2> QED  BY <1>1, <2>1
<1>7. PICK at \in [1..n -> Int] : at = z'
  BY <1>5, <1>6
<1>8. Ring(at, n, s)
  <2>1. \A i \in 1..n : at[i] = start + s * (i - 1) /\ Slot(i, 0, n) = i - 1
    <3>1. \A i \in 1..n : Slot(i, 0, n) = i - 1
      BY DEF Slot
    <3> QED  BY <1>5, <1>7, <3>1
  <2>2. \A i \in 1..n : at[i] = start + s * Slot(i, 0, n)
    BY <2>1
  <2>3. 0 \in 0..(n - 1)
    OBVIOUS
  <2> QED  BY <1>1, <2>2, <2>3 DEF Ring
<1>9. TileTypeOK'
  <2>1. DOMAIN z' = 1..tileCount' /\ \A i \in DOMAIN z' : z'[i] \in Int
    BY <1>3, <1>7
  <2> QED  BY <1>2, <2>1 DEF TileTypeOK
<1> QED  BY <1>3, <1>4, <1>7, <1>8, <1>9 DEF RowInv

\* A frame, however far the terrain moves in it.
LEMMA RowScrolled ==
  ASSUME NEW step \in Steps, RowInv, Scroll(step)
  PROVE  RowInv'
<1>1. step \in Int
  BY TileScrollAssumption
<1>2. /\ laid /\ laid' = laid /\ tileCount' = tileCount /\ tileLengthZ' = tileLengthZ
      /\ overlapZ' = overlapZ /\ z' = [i \in DOMAIN z |-> Moved(z[i], step)]
  BY DEF Scroll
<1>3. PICK n \in Nat \ {0}, s \in Nat \ {0}, edge \in Int :
        n = tileCount /\ s = tileSpacingZ /\ edge = wrapMinZ /\ wrapOffsetZ = s * n
  BY SpacingIs DEF RowInv
<1>4. PICK at \in [1..n -> Int] : at = z /\ Ring(at, n, s)
  BY <1>2, <1>3 DEF RowInv
<1>5. PICK m \in Int : m = s * n
  OBVIOUS
<1>6. \A i \in 1..n : Moved(at[i], step) = IF at[i] - step < edge THEN at[i] - step + m ELSE at[i] - step
  BY <1>3, <1>5 DEF Moved
<1>7. PICK at2 \in [1..n -> Int] : at2 = z' /\
        \A i \in 1..n : at2[i] = IF at[i] - step < edge THEN at[i] - step + m ELSE at[i] - step
  <2>1. z' = [i \in 1..n |-> Moved(at[i], step)]
    BY <1>2, <1>4
  <2>2. \A i \in 1..n : Moved(at[i], step) \in Int
    BY <1>1, <1>6
  <2> QED  BY <1>6, <2>1, <2>2
<1>8. Ring(at2, n, s)
  <2>1. \A i \in 1..n : at2[i] = IF at[i] - step < edge THEN at[i] - step + s * n ELSE at[i] - step
    BY <1>5, <1>7
  <2> QED  BY <1>1, <1>4, <2>1, RingTurns
<1>9. tileSpacingZ' = s
  BY <1>2, <1>3 DEF tileSpacingZ
<1>10. TileTypeOK'
  <2>1. DOMAIN z' = 1..tileCount' /\ \A i \in DOMAIN z' : z'[i] \in Int
    BY <1>2, <1>3, <1>7
  <2> QED  BY <1>2, <2>1 DEF TileTypeOK, RowInv
<1> QED  BY <1>2, <1>3, <1>7, <1>8, <1>9, <1>10 DEF RowInv

LEMMA RowInvHolds == TileSpec => []RowInv
<1>1. RowInv /\ UNCHANGED tileVars => RowInv'
  <2> SUFFICES ASSUME RowInv, UNCHANGED tileVars  PROVE RowInv'
    OBVIOUS
  <2>1. /\ laid' = laid /\ tileCount' = tileCount /\ tileLengthZ' = tileLengthZ
        /\ overlapZ' = overlapZ /\ z' = z
    BY DEF tileVars
  <2> QED  BY <2>1 DEF RowInv, TileTypeOK, tileSpacingZ
<1>2. RowInv /\ [TileNext]_tileVars => RowInv'
  BY <1>1, RowLaid, RowScrolled DEF TileNext
<1> QED  BY <1>2, RowInit, PTL DEF TileSpec

\* For any configuration and any frames the tiles are one row without a gap and
\* no two in one place.
THEOREM TilesStayOneRow == TileSpec => []RowUnbroken
<1>1. RowInv => RowUnbroken
  <2> SUFFICES ASSUME RowInv PROVE RowUnbroken
    OBVIOUS
  <2>1. TileTypeOK
    BY DEF RowInv
  <2>2. CASE ~laid
    BY <2>1, <2>2 DEF RowUnbroken
  <2>3. CASE laid
    <3>1. PICK n \in Nat \ {0}, s \in Nat \ {0} : n = tileCount /\ s = tileSpacingZ
      BY <2>1, SpacingIs
    <3>2. PICK at \in [1..n -> Int] : at = z /\ Ring(at, n, s)
      BY <2>3, <3>1 DEF RowInv
    <3>3. PICK places : places = Places
      OBVIOUS
    <3>4. \A p : p \in places <=> \E i \in 1..n : p = at[i]
      BY <3>2, <3>3 DEF Places
    <3>5. /\ \A p : p \in places <=> \E k \in 0..(n - 1) : p = Min(places) + s * k
          /\ Cardinality(places) = n
      <4>1. RingAt(n, s, at, places)
        BY <3>2, <3>4 DEF RingAt
      <4> QED  BY <4>1, RingPlaces
    <3>6. Places = {Min(Places) + tileSpacingZ * k : k \in 0..(tileCount - 1)}
      <4>1. places = {Min(places) + s * k : k \in 0..(n - 1)}
        BY <3>5, Zenon
      <4> QED  BY <3>1, <3>3, <4>1, Zenon
    <3>7. Cardinality(Places) = tileCount /\ tileSpacingZ <= tileLengthZ
      BY <2>1, <3>1, <3>3, <3>5, SpacingIs
    <3> QED  BY <2>1, <3>6, <3>7 DEF RowUnbroken
  <2> QED  BY <2>2, <2>3
<1> QED  BY <1>1, RowInvHolds, PTL

\* No frame leaves a tile past the edge when the row was before it.
THEOREM NoTileLeftBehind == TileSpec => StaysBeforeEdge
<1>1. RowInv /\ [TileNext]_tileVars => [Before => Before']_tileVars
  <2> SUFFICES ASSUME RowInv, TileNext, Before  PROVE Before'
    OBVIOUS
  <2>1. PICK step \in Steps : Scroll(step)
    BY DEF TileNext, LayTiles, Before
  <2>2. step \in Nat
    BY TileScrollAssumption
  <2>3. PICK m \in Int : m = tileSpacingZ * tileCount /\ wrapOffsetZ = m /\ step <= m
    BY <2>1, SpacingIs DEF RowInv, Scroll
  <2>4. wrapMinZ \in Int /\ wrapMinZ' = wrapMinZ /\ laid'
    BY <2>1, SpacingIs DEF RowInv, Scroll, wrapMinZ, tileSpacingZ, Before
  <2>5. ASSUME NEW i \in DOMAIN z  PROVE z'[i] >= wrapMinZ
    <3>1. z[i] \in Int /\ z[i] >= wrapMinZ
      BY DEF RowInv, TileTypeOK, Before
    <3>2. z'[i] = IF z[i] - step < wrapMinZ THEN z[i] - step + m ELSE z[i] - step
      BY <2>1, <2>3 DEF Scroll, Moved
    <3> QED  BY <2>2, <2>3, <2>4, <3>1, <3>2
  <2>6. DOMAIN z' = DOMAIN z
    BY <2>1 DEF Scroll
  <2> QED  BY <2>4, <2>5, <2>6 DEF Before
<1> QED  BY <1>1, RowInvHolds, PTL DEF TileSpec, StaysBeforeEdge
=============================================================================
