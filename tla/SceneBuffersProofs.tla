------------------------- MODULE SceneBuffersProofs -------------------------
(***************************************************************************)
(* Proofs about SceneBuffers, for every number of swapchain images, every  *)
(* set of handles and any number of instances: what a frame in flight      *)
(* reads is left alone, nothing leaks while the program runs, and the      *)
(* renderer uses its frames as the ring the surface promises.              *)
(***************************************************************************)
EXTENDS SceneBuffers, FiniteSetTheorems, SequenceTheorems, TLAPS

-----------------------------------------------------------------------------
\* The invariant.

\* Every handle is of the kind of the field it is in.
Kinds ==
  /\ mesh.vertex \in BufferOf("vertex") \cup {NULL}
  /\ mesh.index \in BufferOf("index") \cup {NULL}
  /\ \A f \in Frame : /\ instance[f] \in BufferOf("instance") \cup {NULL}
                      /\ uniform[f] \in BufferOf("uniform") \cup {NULL}

\* No buffer serves two frames.
OneEach ==
  \A f, g \in Frame : f # g =>
    /\ instance[f] # NULL => instance[f] # instance[g]
    /\ uniform[f] # NULL => uniform[f] # uniform[g]

\* The descriptor sets, also after the end has begun.
SetsRight == \A f \in Frame : sceneSet[f] = [uniform |-> uniform[f], storage |-> instance[f]]

\* Handle b is in a component that is on the entity.
Held(b) ==
  /\ b # NULL
  /\ \/ "vertex" \in has /\ b = mesh.vertex
     \/ "index" \in has /\ b = mesh.index
     \/ "instance" \in has /\ \E f \in Frame : b = instance[f]
     \/ "uniform" \in has /\ \E f \in Frame : b = uniform[f]

\* Before the end the per-frame components are there, and the existing buffers
\* are those the components hold, with the room element_count says.
Owned ==
  todo = NULL =>
    /\ {"instance", "uniform"} \subseteq has
    /\ \A b : b \in DOMAIN heap <=> Held(b)
    /\ \A f \in Frame : instance[f] # NULL => heap[instance[f]] = elementCount

\* Without a failing driver every component has its buffers, the mesh those it
\* was given on a device that was there.
NoNulls ==
  ~CreateMayFail =>
    /\ \A f \in Frame : instance[f] # NULL /\ uniform[f] # NULL
    /\ device = "live" /\ {"vertex", "index"} \subseteq has => mesh.vertex # NULL /\ mesh.index # NULL

\* A frame in flight has drawn a mesh.
FlyingMesh ==
  \A f \in Frame : inFlight[f] # NULL =>
    inFlight[f].mesh \subseteq BufferOf("vertex") \cup BufferOf("index") \cup {NULL}

IInv ==
  /\ TypeOK /\ Kinds /\ OneEach /\ SetsRight /\ Owned /\ NoNulls
  /\ FlyingMesh /\ InFlightIntact /\ HostWritesPrivate

-----------------------------------------------------------------------------
\* Buffers.

LEMMA KindsApart ==
  /\ \A use \in Use : BufferOf(use) \subseteq Buffer /\ NULL \notin BufferOf(use)
  /\ \A use, other \in Use : use # other => BufferOf(use) \cap BufferOf(other) = {}
  /\ {"vertex", "index", "instance", "uniform"} = Use
BY SceneBuffersAssumption DEF BufferOf, Buffer, Use

\* The two orders in which the end may visit the pools.
LEMMA Orders ==
  /\ RendererFirst \in Seq(Component) /\ RendererLast \in Seq(Component)
  /\ RendererFirst # NULL /\ RendererLast # NULL
<1>1. RendererFirst \in Seq(Component) /\ RendererLast \in Seq(Component)
  BY DEF RendererFirst, RendererLast, Component, Use
<1> QED BY <1>1, SceneBuffersAssumption

LEMMA FramesThere == 0 \in Frame
BY SceneBuffersAssumption DEF Frame

LEMMA NextIsFrame == current \in Frame => NextFrame \in Frame
BY SceneBuffersAssumption DEF Frame, NextFrame

\* What create_buffer leaves in the fields of one use.
LEMMA CreatedRight ==
  ASSUME NEW use \in Use, NEW h, NEW f \in Created(use, h)
  PROVE  /\ f \in [Frame -> BufferOf(use) \cup {NULL}]
         /\ \A i \in Frame : f[i] # NULL => f[i] \notin DOMAIN h
         /\ \A i, j \in Frame : i # j /\ f[i] # NULL => f[i] # f[j]
         /\ ~CreateMayFail => \A i \in Frame : f[i] # NULL
<1>1. f \in [Frame -> (BufferOf(use) \ DOMAIN h) \cup IF CreateMayFail THEN {NULL} ELSE {}]
      /\ \A i, j \in Frame : f[i] = f[j] => i = j \/ f[i] = NULL
  BY DEF Created
<1>2. NULL \notin BufferOf(use)
  BY KindsApart
<1> QED BY <1>1, <1>2

\* A heap with more buffers, and one with less.
LEMMA Heaps ==
  ASSUME NEW h, NEW bs, NEW room
  PROVE  /\ DOMAIN With(h, bs, room) = DOMAIN h \cup bs
         /\ \A b \in bs : With(h, bs, room)[b] = room
         /\ \A b \in DOMAIN h \ bs : With(h, bs, room)[b] = h[b]
         /\ DOMAIN Without(h, bs) = DOMAIN h \ bs
         /\ \A b \in DOMAIN h \ bs : Without(h, bs)[b] = h[b]
BY DEF With, Without

-----------------------------------------------------------------------------
\* The arithmetic of the growth loop.

\* The order of the naturals, and the least element of a set of them.
Less == {p \in Nat \X Nat : p[1] < p[2]}
LEMMA LeastNat == ASSUME NEW T, T \subseteq Nat, T # {} PROVE \E x \in T : \A y \in T : x <= y
<1>1. OpToRel(<, Nat) = Less
  BY Zenon DEF OpToRel, Less
<1>2. IsWellFoundedOn(Less, Nat)
  BY <1>1, NatLessThanWellFounded, Zenon
<1>3. PICK x \in T : \A y \in T : ~(<<y, x>> \in Less)
  BY <1>2, WFMin, Zenon
<1>4. \A y \in T : <<y, x>> \in Less <=> y < x
  BY DEF Less
<1>5. ASSUME NEW y \in T PROVE x <= y
  <2>1. x \in Nat /\ y \in Nat
    OBVIOUS
  <2>2. ~(y < x)
    BY <1>3, <1>4
  <2> QED BY <2>1, <2>2
<1> QED BY <1>5

\* Powers of two, from what the library says of the subsets of a finite set.
LEMMA PowerCounts ==
  ASSUME NEW k \in Nat
  PROVE  /\ IsFiniteSet(SUBSET (1..k)) /\ Cardinality(SUBSET (1..k)) = 2^k
         /\ 2^k \in Nat /\ (k = 0 => 2^k = 1)
<1>1. IsFiniteSet(1..k) /\ Cardinality(1..k) = k
  BY FS_Interval
<1>2. IsFiniteSet(SUBSET (1..k)) /\ Cardinality(SUBSET (1..k)) = 2^Cardinality(1..k)
  BY <1>1, FS_SUBSET
<1>3. Cardinality(SUBSET (1..k)) \in Nat
  BY <1>2, FS_CardinalityType
<1>4. k = 0 => Cardinality(SUBSET (1..k)) = 1
  <2>1. SUBSET {} = {{}} /\ 1..0 = {}
    OBVIOUS
  <2> QED BY <2>1, FS_Singleton
<1> QED BY <1>1, <1>2, <1>3, <1>4

LEMMA PowerDoubles ==
  ASSUME NEW k \in Nat
  PROVE  2^(k + 1) = 2 * 2^k
<1> DEFINE A == SUBSET (1..k)
           B == {X \cup {k + 1} : X \in A}
           f == [X \in A |-> X \cup {k + 1}]
<1>1. SUBSET (1..(k + 1)) = A \cup B
  <2>1. 1..(k + 1) = (1..k) \cup {k + 1}
    OBVIOUS
  <2>2. ASSUME NEW Y \in SUBSET (1..(k + 1)), k + 1 \in Y PROVE Y \in B
    <3>1. Y \ {k + 1} \in A /\ Y = (Y \ {k + 1}) \cup {k + 1}
      BY <2>1, <2>2
    <3> QED BY <3>1
  <2>3. ASSUME NEW Y \in SUBSET (1..(k + 1)), k + 1 \notin Y PROVE Y \in A
    BY <2>1, <2>3
  <2>4. A \cup B \subseteq SUBSET (1..(k + 1))
    BY <2>1
  <2> QED BY <2>2, <2>3, <2>4
<1>2. A \cap B = {}
  <2>1. k + 1 \notin 1..k
    OBVIOUS
  <2> QED BY <2>1
<1>3. f \in Bijection(A, B)
  <2>1. k + 1 \notin 1..k
    OBVIOUS
  <2>2. \A X, Y \in A : X \cup {k + 1} = Y \cup {k + 1} => X = Y
    BY <2>1
  <2>3. f \in [A -> B]
    OBVIOUS
  <2>4. \A X, Y \in A : f[X] = f[Y] => X = Y
    BY <2>2
  <2>5. \A Y \in B : \E X \in A : f[X] = Y
    OBVIOUS
  <2> HIDE DEF A, B, f
  <2> QED BY <2>3, <2>4, <2>5 DEF Bijection, Injection, Surjection, IsInjective
<1>4. IsFiniteSet(A) /\ Cardinality(A) = 2^k /\ 2^k \in Nat
  BY PowerCounts
<1> HIDE DEF A, B, f
<1>5. IsFiniteSet(B) /\ Cardinality(B) = 2^k
  BY <1>3, <1>4, FS_Bijection DEF ExistsBijection
<1>6. Cardinality(A \cup B) = Cardinality(A) + Cardinality(B) - Cardinality(A \cap B)
  BY <1>4, <1>5, FS_Union
<1>7. Cardinality(SUBSET (1..(k + 1))) = 2^k + 2^k - 0
  BY <1>1, <1>2, <1>4, <1>5, <1>6, FS_EmptySet
<1>8. Cardinality(SUBSET (1..(k + 1))) = 2^(k + 1)
  BY PowerCounts, k + 1 \in Nat
<1> QED BY <1>4, <1>7, <1>8

\* 2^n is above n: the least n of which it is not would follow one of which it is.
LEMMA PowerAbove == ASSUME NEW n \in Nat PROVE n < 2^n
<1> SUFFICES ASSUME 2^n <= n PROVE FALSE
  BY PowerCounts
<1> DEFINE T == {m \in Nat : 2^m <= m}
<1>1. PICK m \in T : \A y \in T : m <= y
  <2>1. T \subseteq Nat /\ T # {}
    OBVIOUS
  <2> HIDE DEF T
  <2> QED BY <2>1, LeastNat
<1>2. m \in Nat /\ 2^m <= m
  OBVIOUS
<1>3. m # 0
  <2> SUFFICES ASSUME m = 0 PROVE FALSE
    OBVIOUS
  <2>1. 2^m = 1
    BY <1>2, PowerCounts
  <2> QED BY <1>2, <2>1
<1>4. m - 1 \in Nat /\ (m - 1) + 1 = m
  BY <1>2, <1>3
<1>5. 2^m = 2 * 2^(m - 1) /\ 2^(m - 1) \in Nat
  BY <1>4, PowerDoubles, PowerCounts
<1>6. m - 1 \notin T
  BY <1>1, <1>4
<1>7. ~(2^(m - 1) <= m - 1)
  BY <1>4, <1>6
<1> QED BY <1>2, <1>4, <1>5, <1>7

\* Doubling a number below n comes to one number from n on and below 2 * n.
LEMMA DoublingEnds ==
  ASSUME NEW n \in Nat, NEW count \in 1..(n - 1)
  PROVE  \E c \in n..(2 * n - 1) : \E k \in 1..n : c = count * 2^k
<1> DEFINE T == {k \in Nat : n <= count * 2^k}
<1>1. count \in Nat \ {0} /\ count < n
  OBVIOUS
<1>2. n \in T
  <2>1. 2^n \in Nat /\ n < 2^n
    BY PowerCounts, PowerAbove
  <2>2. 2^n <= count * 2^n
    BY <1>1, <2>1
  <2> QED BY <2>1, <2>2, <1>1
<1>3. PICK k \in T : \A y \in T : k <= y
  <2>1. T \subseteq Nat /\ T # {}
    BY <1>2
  <2> HIDE DEF T
  <2> QED BY <2>1, LeastNat
<1>4. k \in Nat /\ n <= count * 2^k /\ k <= n
  BY <1>2, <1>3
<1>5. k # 0
  <2> SUFFICES ASSUME k = 0 PROVE FALSE
    OBVIOUS
  <2>1. 2^k = 1 /\ count * 1 = count
    BY <1>4, PowerCounts
  <2> QED BY <1>1, <1>4, <2>1
<1>6. k - 1 \in Nat /\ (k - 1) + 1 = k
  BY <1>4, <1>5
<1>7. 2^k = 2 * 2^(k - 1) /\ 2^(k - 1) \in Nat
  BY <1>6, PowerDoubles, PowerCounts
<1>8. k - 1 \notin T
  BY <1>3, <1>6
<1>9. ~(n <= count * 2^(k - 1))
  BY <1>6, <1>8
<1>10. count * 2^k = 2 * (count * 2^(k - 1)) /\ count * 2^(k - 1) \in Nat
  <2> DEFINE p == 2^(k - 1)
  <2>1. p \in Nat /\ 2^k = 2 * p
    BY <1>7
  <2> HIDE DEF p
  <2>2. count * (2 * p) = 2 * (count * p) /\ count * p \in Nat
    BY <1>1, <2>1
  <2> QED BY <2>1, <2>2 DEF p
<1>11. count * 2^k \in n..(2 * n - 1)
  BY <1>1, <1>4, <1>9, <1>10
<1> QED BY <1>4, <1>5, <1>11

LEMMA DoubledRight ==
  ASSUME NEW count \in Nat \ {0}, NEW n \in 0..MaxInstances, n > count
  PROVE  Doubled(count, n) \in Nat \ {0} /\ n <= Doubled(count, n)
<1>1. n \in Nat /\ n >= 1 /\ count \in 1..(n - 1)
  BY SceneBuffersAssumption
<1>2. \E c \in n..(2 * n - 1) : \E k \in 1..n : c = count * 2^k
  BY <1>1, DoublingEnds
<1>3. Doubled(count, n) \in n..(2 * n - 1)
  BY <1>2 DEF Doubled
<1> QED BY <1>1, <1>3

-----------------------------------------------------------------------------
\* What the invariant says of the driver.

LEMMA CalledRight == TypeOK => Called \subseteq {"running", "end"}
BY DEF TypeOK, Called, Phase

LEMMA HandlesAre ==
  /\ HandlesOf("vertex") = {mesh.vertex} \ {NULL}
  /\ HandlesOf("index") = {mesh.index} \ {NULL}
  /\ HandlesOf("instance") = {instance[f] : f \in Frame} \ {NULL}
  /\ HandlesOf("uniform") = {uniform[f] : f \in Frame} \ {NULL}
BY DEF HandlesOf

LEMMA NothingLeakedThen == TypeOK /\ Owned /\ OneEach => NothingLeaked
<1> SUFFICES ASSUME TypeOK, Owned, OneEach, todo = NULL PROVE
      DOMAIN heap = UNION {HandlesOf(c) : c \in has \ {"renderer"}}
  BY DEF NothingLeaked, OneEach
<1>1. has \ {"renderer"} \subseteq {"vertex", "index", "instance", "uniform"}
  BY DEF TypeOK, Component, Use
<1>2. \A b : Held(b) <=> \E c \in has \ {"renderer"} : b \in HandlesOf(c)
  BY <1>1, HandlesAre DEF Held
<1> QED BY <1>2 DEF Owned

LEMMA InitRight == Init => IInv
<1> SUFFICES ASSUME Init PROVE IInv
  OBVIOUS
<1>1. /\ instance \in Created("instance", <<>>) /\ uniform \in Created("uniform", <<>>)
      /\ "instance" \in Use /\ "uniform" \in Use
  BY DEF Init, Use
<1>2. /\ instance \in [Frame -> BufferOf("instance") \cup {NULL}]
      /\ uniform \in [Frame -> BufferOf("uniform") \cup {NULL}]
      /\ OneEach
      /\ ~CreateMayFail => \A f \in Frame : instance[f] # NULL /\ uniform[f] # NULL
  BY <1>1, CreatedRight DEF OneEach
<1>3. Kinds
  BY <1>2 DEF Init, Kinds, NoMesh
<1> DEFINE us == [b \in {uniform[f] : f \in Frame} \ {NULL} |-> 1]
           is == {instance[f] : f \in Frame} \ {NULL}
<1>4. /\ DOMAIN heap = ({uniform[f] : f \in Frame} \ {NULL}) \cup is
      /\ \A b \in is : heap[b] = FirstCount
      /\ \A b \in DOMAIN heap : heap[b] \in Nat
  <2>1. heap = With(us, is, FirstCount) /\ DOMAIN us = {uniform[f] : f \in Frame} \ {NULL}
    BY DEF Init
  <2>2. \A b \in DOMAIN us : us[b] = 1
    OBVIOUS
  <2> HIDE DEF us, is
  <2>3. /\ DOMAIN heap = DOMAIN us \cup is
        /\ \A b \in is : heap[b] = FirstCount
        /\ \A b \in DOMAIN us \ is : heap[b] = us[b]
    BY <2>1 DEF With
  <2>4. \A b \in DOMAIN heap : heap[b] = FirstCount \/ heap[b] = 1
    BY <2>2, <2>3
  <2> QED BY <2>1, <2>3, <2>4, SceneBuffersAssumption
<1>5. TypeOK
  <2>1. DOMAIN heap \subseteq Buffer
    BY <1>2, <1>4, KindsApart
  <2>2. instance \in [Frame -> Handle] /\ uniform \in [Frame -> Handle] /\ mesh \in [vertex : Handle, index : Handle]
    BY <1>2, KindsApart DEF Handle, Init, NoMesh
  <2>3. sceneSet \in [Frame -> Scene]
    BY <2>2 DEF Init, Scene
  <2>4. inFlight \in [Frame -> View \cup {NULL}]
    BY DEF Init, NoFrames
  <2> QED BY <1>4, <2>1, <2>2, <2>3, <2>4, FramesThere, SceneBuffersAssumption DEF Init, TypeOK, Component, Use
<1>6. Owned
  <2>1. "instance" \in has /\ "uniform" \in has /\ "vertex" \notin has /\ "index" \notin has
    BY DEF Init
  <2>2. \A b : b \in DOMAIN heap <=> Held(b)
    BY <1>4, <2>1 DEF Held
  <2>3. \A f \in Frame : instance[f] # NULL => heap[instance[f]] = FirstCount
    BY <1>4
  <2>4. elementCount = FirstCount
    BY DEF Init
  <2> QED BY <2>1, <2>2, <2>3, <2>4 DEF Owned
<1>7. SetsRight /\ HostWritesPrivate
  BY DEF Init, SetsRight, HostWritesPrivate
<1>8. NoNulls
  BY <1>2 DEF Init, NoNulls
<1>9. FlyingMesh /\ InFlightIntact
  BY DEF Init, NoFrames, FlyingMesh, InFlightIntact
<1> QED BY <1>2, <1>3, <1>5, <1>6, <1>7, <1>8, <1>9 DEF IInv

-----------------------------------------------------------------------------
\* The steps.

\* Destroying the buffers of the mesh leaves those of the frames.
LEMMA MeshFreedRight ==
  ASSUME IInv, todo = NULL
  PROVE  /\ DOMAIN MeshFreed = DOMAIN heap \ {mesh.vertex, mesh.index}
         /\ \A b \in DOMAIN MeshFreed : MeshFreed[b] = heap[b]
         /\ \A b : b \in DOMAIN MeshFreed <=>
                  /\ b # NULL
                  /\ \/ "instance" \in has /\ \E f \in Frame : b = instance[f]
                     \/ "uniform" \in has /\ \E f \in Frame : b = uniform[f]
<1>1. /\ DOMAIN MeshFreed = DOMAIN heap \ {mesh.vertex, mesh.index}
      /\ \A b \in DOMAIN MeshFreed : MeshFreed[b] = heap[b]
  BY DEF MeshFreed, Without
<1>2. \A b : b \in DOMAIN heap <=> Held(b)
  BY DEF IInv, Owned
<1>3. \A f \in Frame :
        /\ instance[f] # NULL => instance[f] \notin {mesh.vertex, mesh.index}
        /\ uniform[f] # NULL => uniform[f] \notin {mesh.vertex, mesh.index}
  BY KindsApart DEF IInv, Kinds
<1> QED BY <1>1, <1>2, <1>3 DEF Held

LEMMA LoadMeshRight == IInv /\ LoadMesh => IInv'
<1> SUFFICES ASSUME IInv, LoadMesh PROVE IInv'
  OBVIOUS
<1> PICK v \in BufferOf("vertex") \cup {NULL}, i \in BufferOf("index") \cup {NULL} :
           /\ device = "live" => /\ {v, i} \cap DOMAIN MeshFreed = {}
                                 /\ NULL \in {v, i} => CreateMayFail
           /\ mesh' = [vertex |-> v, index |-> i]
           /\ heap' = With(MeshFreed, {v, i} \ {NULL}, 1)
  BY DEF LoadMesh
<1>1. /\ has' = has \cup {"vertex", "index"} /\ inFlight' = NoFrames /\ todo = NULL
      /\ UNCHANGED <<instance, uniform, elementCount, sceneSet, shuttingDown,
                     current, todo, device, lost, raced>>
  BY DEF LoadMesh, Running
<1>2. mesh'.vertex = v /\ mesh'.index = i /\ mesh' \in [vertex : Handle, index : Handle]
  BY KindsApart DEF Handle
<1>3. /\ DOMAIN heap' = DOMAIN MeshFreed \cup ({v, i} \ {NULL})
      /\ \A b \in DOMAIN heap' : \/ heap'[b] = 1
                                 \/ b \in DOMAIN MeshFreed /\ heap'[b] = MeshFreed[b]
      /\ \A b \in DOMAIN MeshFreed : b \notin {v, i} => heap'[b] = MeshFreed[b]
  BY DEF With
<1>4. /\ DOMAIN MeshFreed \subseteq DOMAIN heap
      /\ \A b \in DOMAIN MeshFreed : MeshFreed[b] = heap[b]
      /\ \A b : b \in DOMAIN MeshFreed <=>
               /\ b # NULL
               /\ \/ "instance" \in has /\ \E f \in Frame : b = instance[f]
                  \/ "uniform" \in has /\ \E f \in Frame : b = uniform[f]
  BY <1>1, MeshFreedRight
<1>5. TypeOK'
  <2>0. {v, i} \ {NULL} \subseteq Buffer
    BY KindsApart
  <2>1. DOMAIN heap' \subseteq Buffer /\ \A b \in DOMAIN heap' : heap'[b] \in Nat
    <3>1. DOMAIN heap \subseteq Buffer /\ \A b \in DOMAIN heap : heap[b] \in Nat
      BY DEF IInv, TypeOK
    <3>2. DOMAIN heap' \subseteq Buffer
      BY <1>3, <1>4, <2>0, <3>1
    <3>3. \A b \in DOMAIN heap' : heap'[b] \in Nat
      BY <1>3, <1>4, <3>1
    <3> QED BY <3>2, <3>3
  <2>2. has' \subseteq Component /\ inFlight' \in [Frame -> View \cup {NULL}]
    BY <1>1 DEF IInv, TypeOK, Component, Use, NoFrames
  <2>3. touchedDead' \subseteq {"running", "end"}
    BY CalledRight DEF LoadMesh, IInv
  <2> QED BY <1>1, <1>2, <2>1, <2>2, <2>3 DEF IInv, TypeOK
<1>6. Owned'
  <2>1. \A b : b \in DOMAIN heap' <=> Held(b)'
    BY <1>1, <1>2, <1>3, <1>4 DEF Held
  <2>2. \A f \in Frame : instance[f] # NULL =>
          instance[f] \in DOMAIN MeshFreed /\ instance[f] \notin {v, i}
    BY <1>1, <1>4, KindsApart DEF IInv, Owned, Kinds
  <2>3. \A f \in Frame : instance[f] # NULL => heap'[instance[f]] = elementCount
    BY <1>1, <1>3, <1>4, <2>2 DEF IInv, Owned
  <2> QED BY <1>1, <2>1, <2>3 DEF IInv, Owned
<1>7. Kinds' /\ NoNulls'
  BY <1>1, <1>2 DEF IInv, Kinds, NoNulls
<1> QED BY <1>1, <1>5, <1>6, <1>7
     DEF IInv, OneEach, SetsRight, FlyingMesh, InFlightIntact, HostWritesPrivate, NoFrames

LEMMA UnloadMeshRight == IInv /\ UnloadMesh => IInv'
<1> SUFFICES ASSUME IInv, UnloadMesh PROVE IInv'
  OBVIOUS
<1>1. /\ has' = has \ {"vertex", "index"} /\ mesh' = NoMesh /\ inFlight' = NoFrames
      /\ heap' = Without(heap, {mesh.vertex, mesh.index}) /\ todo = NULL
      /\ touchedDead' \subseteq {"running", "end"}
      /\ {"vertex", "index"} \subseteq has
      /\ UNCHANGED <<instance, uniform, elementCount, sceneSet, shuttingDown,
                     current, todo, device, lost, raced>>
  BY CalledRight DEF UnloadMesh, Running, Destroyed, IInv
<1>2. mesh' \in [vertex : Handle, index : Handle] /\ mesh'.vertex = NULL /\ mesh'.index = NULL
  BY <1>1 DEF NoMesh, Handle
<1>3. /\ DOMAIN heap' = DOMAIN heap \ {mesh.vertex, mesh.index}
      /\ \A b \in DOMAIN heap' : heap'[b] = heap[b]
  BY <1>1 DEF Without
<1>4. \A f \in Frame :
        /\ instance[f] # NULL => instance[f] \notin {mesh.vertex, mesh.index}
        /\ uniform[f] # NULL => uniform[f] \notin {mesh.vertex, mesh.index}
  BY KindsApart DEF IInv, Kinds
<1>5. TypeOK'
  <2>1. has' \subseteq Component /\ inFlight' \in [Frame -> View \cup {NULL}]
    BY <1>1 DEF IInv, TypeOK, NoFrames
  <2> QED BY <1>1, <1>2, <1>3, <2>1 DEF IInv, TypeOK
<1>6. Owned'
  <2>1. \A b : b \in DOMAIN heap <=> Held(b)
    BY <1>1 DEF IInv, Owned
  <2>2. \A b : b \in DOMAIN heap' <=> Held(b)'
    BY <1>1, <1>2, <1>3, <1>4, <2>1 DEF Held
  <2>3. \A f \in Frame : instance[f] # NULL => instance[f] \in DOMAIN heap'
    BY <1>1, <1>3, <1>4, <2>1 DEF IInv, Owned, Held
  <2>4. \A f \in Frame : instance[f] # NULL => heap'[instance[f]] = elementCount
    BY <1>1, <1>3, <2>3 DEF IInv, Owned
  <2> QED BY <1>1, <2>2, <2>4 DEF IInv, Owned
<1>7. Kinds' /\ NoNulls'
  BY <1>1, <1>2 DEF IInv, Kinds, NoNulls
<1> QED BY <1>1, <1>5, <1>6, <1>7
     DEF IInv, OneEach, SetsRight, FlyingMesh, InFlightIntact, HostWritesPrivate, NoFrames

\* What a frame in flight reads is of other frames or other kinds than the
\* buffers of the current frame.
LEMMA OthersRead ==
  ASSUME IInv, FenceSignalled, current \in Frame, NEW f \in Frame, inFlight[f] # NULL
  PROVE  /\ uniform[current] # NULL => uniform[current] \notin Reads(inFlight[f])
         /\ instance[current] # NULL => instance[current] \notin Reads(inFlight[f])
<1>1. f # current
  BY DEF FenceSignalled
<1>2. inFlight[f].scene = [uniform |-> uniform[f], storage |-> instance[f]]
  BY DEF IInv, InFlightIntact, SetsRight
<1>3. inFlight[f].mesh \subseteq BufferOf("vertex") \cup BufferOf("index") \cup {NULL}
  BY DEF IInv, FlyingMesh
<1>4. inFlight[f].scene.uniform = uniform[f] /\ inFlight[f].scene.storage = instance[f]
  BY <1>2
<1>5. /\ uniform[current] # NULL => uniform[current] \notin inFlight[f].mesh
      /\ instance[current] # NULL => instance[current] \notin inFlight[f].mesh
  BY <1>3, KindsApart DEF IInv, Kinds
<1>6. /\ uniform[current] # NULL => uniform[current] \notin {uniform[f], instance[f]}
      /\ instance[current] # NULL => instance[current] \notin {uniform[f], instance[f]}
  BY <1>1, KindsApart DEF IInv, Kinds, OneEach
<1> QED BY <1>4, <1>5, <1>6 DEF Reads

\* Update_VulkanGPUInstanceBuffer: the buffers of every frame are replaced by
\* ones the instances fit in, and the descriptor sets follow.
LEMMA Fitted ==
  ASSUME IInv, Running, NEW n \in 0..MaxInstances, FitInstances(n),
         UNCHANGED <<has, mesh, uniform, todo, device>>
  PROVE  /\ Kinds' /\ OneEach' /\ SetsRight' /\ Owned' /\ NoNulls'
         /\ instance' \in [Frame -> Handle] /\ sceneSet' \in [Frame -> Scene]
         /\ elementCount' \in Nat \ {0} /\ n <= elementCount'
         /\ DOMAIN heap' \subseteq Buffer /\ \A b \in DOMAIN heap' : heap'[b] \in Nat
         /\ n <= elementCount => UNCHANGED <<instance, elementCount, sceneSet, heap>>
<1>1. elementCount \in Nat \ {0} /\ n \in Nat
  BY SceneBuffersAssumption DEF IInv, TypeOK
<1>2. CASE n <= elementCount
  <2>1. UNCHANGED <<instance, elementCount, sceneSet, heap>>
    BY <1>1, <1>2 DEF FitInstances
  <2>2. TypeOK /\ Kinds /\ OneEach /\ SetsRight /\ Owned /\ NoNulls
    BY DEF IInv
  <2> QED BY <1>1, <1>2, <2>1, <2>2 DEF TypeOK, Kinds, OneEach, SetsRight, Owned, Held, NoNulls
<1>3. CASE n > elementCount
  <2> DEFINE freed == InstancesFreed
             c == Doubled(elementCount, n)
  <2> PICK buffers \in Created("instance", freed) :
             /\ instance' = buffers
             /\ elementCount' = c
             /\ sceneSet' = Rewritten(buffers)
             /\ heap' = With(freed, {buffers[f] : f \in Frame} \ {NULL}, c)
    BY <1>3 DEF FitInstances
  <2>1. c \in Nat \ {0} /\ n <= c
    BY <1>1, <1>3, DoubledRight
  <2>2. /\ DOMAIN freed = DOMAIN heap \ {instance[f] : f \in Frame}
        /\ \A b \in DOMAIN freed : freed[b] = heap[b]
    BY DEF InstancesFreed, Without
  <2>3. /\ buffers \in [Frame -> BufferOf("instance") \cup {NULL}]
        /\ \A f \in Frame : buffers[f] # NULL => buffers[f] \notin DOMAIN freed
        /\ \A f, g \in Frame : f # g /\ buffers[f] # NULL => buffers[f] # buffers[g]
        /\ ~CreateMayFail => \A f \in Frame : buffers[f] # NULL
    <3>1. "instance" \in Use
      BY DEF Use
    <3> HIDE DEF freed
    <3> QED BY <3>1, CreatedRight
  <2> HIDE DEF freed, c
  <2>4. /\ DOMAIN heap' = DOMAIN freed \cup ({buffers[f] : f \in Frame} \ {NULL})
        /\ \A f \in Frame : buffers[f] # NULL => heap'[buffers[f]] = c
        /\ \A b \in DOMAIN heap' : heap'[b] = c \/ (b \in DOMAIN freed /\ heap'[b] = freed[b])
    BY DEF With
  <2>5. DOMAIN heap' \subseteq Buffer /\ \A b \in DOMAIN heap' : heap'[b] \in Nat
    <3>1. DOMAIN heap \subseteq Buffer /\ \A b \in DOMAIN heap : heap[b] \in Nat
      BY DEF IInv, TypeOK
    <3>2. {buffers[f] : f \in Frame} \ {NULL} \subseteq Buffer
      BY <2>3, KindsApart
    <3>3. DOMAIN heap' \subseteq Buffer
      BY <2>2, <2>4, <3>1, <3>2
    <3>4. \A b \in DOMAIN heap' : heap'[b] \in Nat
      BY <2>1, <2>2, <2>4, <3>1
    <3> QED BY <3>3, <3>4
  <2>6. instance' \in [Frame -> Handle]
    BY <2>3, KindsApart DEF Handle
  <2>7. \A f \in Frame : sceneSet'[f] = [uniform |-> uniform[f], storage |-> buffers[f]]
    <3> SUFFICES ASSUME NEW f \in Frame
                 PROVE  sceneSet'[f] = [uniform |-> uniform[f], storage |-> buffers[f]]
      OBVIOUS
    <3>1. sceneSet'[f] = [sceneSet[f] EXCEPT !.storage = buffers[f]]
      BY DEF Rewritten
    <3>2. sceneSet[f] = [uniform |-> uniform[f], storage |-> instance[f]]
      BY DEF IInv, SetsRight
    <3> QED BY <3>1, <3>2
  <2>8. sceneSet' \in [Frame -> Scene]
    <3>1. sceneSet' = [f \in Frame |-> [uniform |-> uniform[f], storage |-> buffers[f]]]
      BY <2>7 DEF Rewritten
    <3>2. \A f \in Frame : uniform[f] \in Handle /\ buffers[f] \in Handle
      BY <2>6 DEF IInv, TypeOK
    <3> QED BY <3>1, <3>2 DEF Scene
  <2>9. Kinds' /\ OneEach' /\ SetsRight'
    BY <2>3, <2>7 DEF IInv, Kinds, OneEach, SetsRight
  <2>10. NoNulls'
    BY <2>3 DEF IInv, NoNulls
  <2>11. Owned'
    <3>1. todo = NULL /\ "instance" \in has /\ "uniform" \in has /\ \A b : b \in DOMAIN heap <=> Held(b)
      BY DEF Running, IInv, Owned
    <3>2. \A f \in Frame : instance[f] # NULL =>
            /\ instance[f] # mesh.vertex /\ instance[f] # mesh.index
            /\ \A g \in Frame : instance[f] # uniform[g]
      BY KindsApart DEF IInv, Kinds
    <3>3. \A b : b \in DOMAIN freed <=> Held(b) /\ \A f \in Frame : b # instance[f]
      BY <2>2, <3>1
    <3>4. \A b : b \in DOMAIN heap' <=> Held(b)'
      BY <2>4, <3>1, <3>2, <3>3 DEF Held
    <3> QED BY <2>4, <3>1, <3>4 DEF Owned
  <2> QED BY <1>1, <1>3, <2>1, <2>5, <2>6, <2>8, <2>9, <2>10, <2>11
<1> QED BY <1>1, <1>2, <1>3

LEMMA DrawFrameRight == ASSUME NEW n \in 0..MaxInstances PROVE IInv /\ DrawFrame(n) => IInv'
<1> SUFFICES ASSUME IInv, DrawFrame(n) PROVE IInv'
  OBVIOUS
<1> DEFINE flying == StillFlying(n)
           view == [scene |-> sceneSet'[current], mesh |-> {mesh.vertex, mesh.index}, count |-> n]
<1>1. /\ Running /\ FenceSignalled /\ FitInstances(n) /\ todo = NULL /\ device = "live"
      /\ "vertex" \in has /\ "index" \in has /\ {"vertex", "index"} \subseteq has
      /\ raced' = (raced \/ Races(uniform[current], inFlight)
                        \/ (n > 0 /\ Races(instance'[current], flying)))
      /\ \/ inFlight' = [flying EXCEPT ![current] = view] /\ current' \in {NextFrame, current}
         \/ inFlight' = NoFrames /\ current' = 0
      /\ UNCHANGED <<has, mesh, uniform, shuttingDown, todo, device, lost, touchedDead>>
  BY DEF DrawFrame, EndFrame, Running, SurfaceUp
<1>2. /\ Kinds' /\ OneEach' /\ SetsRight' /\ Owned' /\ NoNulls'
      /\ instance' \in [Frame -> Handle] /\ sceneSet' \in [Frame -> Scene]
      /\ elementCount' \in Nat \ {0} /\ n <= elementCount'
      /\ DOMAIN heap' \subseteq Buffer /\ \A b \in DOMAIN heap' : heap'[b] \in Nat
      /\ n <= elementCount => UNCHANGED <<instance, elementCount, sceneSet, heap>>
  BY <1>1, Fitted
<1>3. current \in Frame /\ elementCount \in Nat /\ n \in Nat
  BY SceneBuffersAssumption DEF IInv, TypeOK
<1>4. \/ flying = NoFrames
      \/ flying = inFlight /\ UNCHANGED <<instance, elementCount, sceneSet, heap>>
  BY <1>2, <1>3 DEF StillFlying
<1>5. /\ flying \in [Frame -> View \cup {NULL}]
      /\ \A f \in Frame : flying[f] # NULL => flying[f] = inFlight[f]
  BY <1>4 DEF NoFrames, IInv, TypeOK
<1>6. view \in View
  BY <1>2, <1>3 DEF View, IInv, TypeOK
<1>7. /\ view.scene = sceneSet'[current] /\ view.mesh = {mesh.vertex, mesh.index} /\ view.count = n
      /\ sceneSet'[current] = [uniform |-> uniform[current], storage |-> instance'[current]]
      /\ view.scene.uniform = uniform[current] /\ view.scene.storage = instance'[current]
  BY <1>1, <1>2, <1>3 DEF SetsRight
<1> HIDE DEF flying, view
<1>8. /\ inFlight' \in [Frame -> View \cup {NULL}]
      /\ \A f \in Frame : inFlight'[f] # NULL =>
           \/ f = current /\ inFlight'[f] = view
           \/ flying[f] # NULL /\ inFlight'[f] = flying[f]
  BY <1>1, <1>3, <1>5, <1>6 DEF NoFrames
<1>9. TypeOK'
  <2>1. current' \in Frame
    BY <1>1, <1>3, NextIsFrame, FramesThere
  <2>2. raced' \in BOOLEAN
    BY <1>1 DEF IInv, TypeOK, Races
  <2> QED BY <1>1, <1>2, <1>8, <2>1, <2>2 DEF IInv, TypeOK
<1>10. FlyingMesh'
  <2> SUFFICES ASSUME NEW f \in Frame, inFlight'[f] # NULL
               PROVE  inFlight'[f].mesh \subseteq BufferOf("vertex") \cup BufferOf("index") \cup {NULL}
    BY DEF FlyingMesh
  <2>1. CASE f = current /\ inFlight'[f] = view
    BY <1>7, <2>1 DEF IInv, Kinds
  <2>2. CASE flying[f] # NULL /\ inFlight'[f] = flying[f]
    BY <1>5, <2>2 DEF IInv, FlyingMesh
  <2> QED BY <1>8, <2>1, <2>2
<1>11. Reads(view) \subseteq DOMAIN heap'
  <2>1. \A b : b \in DOMAIN heap' <=> Held(b)'
    BY <1>1, <1>2 DEF Owned
  <2>2. "instance" \in has' /\ "uniform" \in has' /\ "vertex" \in has' /\ "index" \in has'
    BY <1>1, <1>2 DEF Owned
  <2>3. \A b \in Reads(view) :
          b # NULL /\ (b = mesh.vertex \/ b = mesh.index \/ b = uniform[current] \/ b = instance'[current])
    BY <1>7 DEF Reads
  <2> QED BY <1>1, <1>3, <2>1, <2>2, <2>3 DEF Held
<1>12. InFlightIntact'
  <2> SUFFICES ASSUME NEW f \in Frame, inFlight'[f] # NULL
               PROVE  LET v == inFlight'[f]
                      IN /\ v.scene = sceneSet'[f]
                         /\ Reads(v) \subseteq DOMAIN heap'
                         /\ v.scene.storage # NULL => v.count <= heap'[v.scene.storage]
                         /\ ~CreateMayFail => NULL \notin v.mesh \cup {v.scene.uniform, v.scene.storage}
    BY DEF InFlightIntact, Reads
  <2>1. CASE f = current /\ inFlight'[f] = view
    <3>1. instance'[current] # NULL => heap'[instance'[current]] = elementCount'
      BY <1>1, <1>2, <1>3 DEF Owned
    <3>2. ~CreateMayFail => mesh.vertex # NULL /\ mesh.index # NULL
                            /\ uniform[current] # NULL /\ instance'[current] # NULL
      BY <1>1, <1>2, <1>3 DEF NoNulls
    <3> QED BY <1>2, <1>7, <1>11, <2>1, <3>1, <3>2
  <2>2. CASE flying[f] # NULL /\ inFlight'[f] = flying[f]
    <3>1. inFlight[f] # NULL /\ inFlight'[f] = inFlight[f] /\ UNCHANGED <<sceneSet, heap>>
      BY <1>4, <1>5, <2>2 DEF NoFrames
    <3> QED BY <3>1 DEF IInv, InFlightIntact
  <2> QED BY <1>8, <2>1, <2>2
<1>13. HostWritesPrivate'
  <2>1. ~raced
    BY DEF IInv, HostWritesPrivate
  <2>2. ~Races(uniform[current], inFlight)
    BY <1>1, <1>3, OthersRead DEF Races
  <2>3. ~Races(instance'[current], flying)
    <3>1. CASE flying = NoFrames
      BY <3>1 DEF Races, NoFrames
    <3>2. CASE flying = inFlight /\ UNCHANGED instance
      <4>1. ~Races(instance[current], inFlight)
        BY <1>1, <1>3, OthersRead DEF Races
      <4> QED BY <3>2, <4>1
    <3> QED BY <1>4, <3>1, <3>2
  <2> QED BY <1>1, <2>1, <2>2, <2>3 DEF HostWritesPrivate
<1> QED BY <1>2, <1>9, <1>10, <1>12, <1>13 DEF IInv

\* Steps that leave the buffers and their components alone, and may only end
\* frames in flight.
LEMMA CalmRight ==
  ASSUME IInv, UNCHANGED <<components, heap, touchedDead, raced>>,
         \A f \in Frame : inFlight'[f] # NULL => inFlight'[f] = inFlight[f],
         inFlight' \in [Frame -> View \cup {NULL}],
         current' \in Frame, device' \in {device, "destroyed"}, lost' \subseteq Buffer,
         todo' \in Seq(Component) \cup {NULL}, todo' = NULL => todo = NULL
  PROVE  IInv'
<1>1. UNCHANGED <<has, mesh, instance, uniform, elementCount, sceneSet, shuttingDown>>
  BY DEF components
<1>2. TypeOK'
  BY <1>1 DEF IInv, TypeOK
<1>3. InFlightIntact' /\ FlyingMesh'
  BY <1>1 DEF IInv, InFlightIntact, FlyingMesh, Reads
<1>4. Owned'
  BY <1>1 DEF IInv, Owned, Held
<1> QED BY <1>1, <1>2, <1>3, <1>4 DEF IInv, Kinds, OneEach, SetsRight, NoNulls, HostWritesPrivate

LEMMA EmptyFrameRight == IInv /\ EmptyFrame => IInv'
<1> SUFFICES ASSUME IInv, EmptyFrame PROVE IInv'
  OBVIOUS
<1>1. /\ FenceSignalled /\ raced' = (raced \/ Races(uniform[current], inFlight))
      /\ UNCHANGED <<components, todo, device, heap, lost, touchedDead>>
      /\ \/ inFlight' = [inFlight EXCEPT ![current] = NULL] /\ current' \in {NextFrame, current}
         \/ inFlight' = NoFrames /\ current' = 0
  BY DEF EmptyFrame, EndFrame
<1>2. current \in Frame /\ inFlight \in [Frame -> View \cup {NULL}] /\ raced \in BOOLEAN
      /\ todo \in Seq(Component) \cup {NULL} /\ lost \subseteq Buffer /\ device \in {"live", "destroyed"}
  BY DEF IInv, TypeOK
<1>3. current' \in Frame
  BY <1>1, <1>2, NextIsFrame, FramesThere
<1>4. /\ \A f \in Frame : inFlight'[f] # NULL => inFlight'[f] = inFlight[f]
      /\ inFlight' \in [Frame -> View \cup {NULL}]
  BY <1>1, <1>2 DEF NoFrames
<1>5. raced' = raced
  <2>1. ~Races(uniform[current], inFlight)
    BY <1>1, <1>2, OthersRead DEF Races
  <2> QED BY <1>1, <1>2, <2>1
<1> QED BY <1>1, <1>2, <1>3, <1>4, <1>5, CalmRight

LEMMA SurfaceStepsRight ==
  IInv /\ (ResetSwapchain \/ (\E f \in Frame : GpuFinishes(f)) \/ CloseWindow \/ BeginDestroy) => IInv'
<1> SUFFICES ASSUME IInv, ResetSwapchain \/ (\E f \in Frame : GpuFinishes(f)) \/ CloseWindow \/ BeginDestroy
             PROVE  IInv'
  OBVIOUS
<1>1. /\ current \in Frame /\ inFlight \in [Frame -> View \cup {NULL}]
      /\ todo \in Seq(Component) \cup {NULL} /\ lost \subseteq Buffer /\ device \in {"live", "destroyed"}
      /\ DOMAIN heap \subseteq Buffer
  BY DEF IInv, TypeOK
<1>2. NoFrames \in [Frame -> View \cup {NULL}] /\ \A f \in Frame : NoFrames[f] = NULL
  BY DEF NoFrames
<1>3. CASE ResetSwapchain
  BY <1>1, <1>2, <1>3, FramesThere, CalmRight DEF ResetSwapchain
<1>4. CASE \E f \in Frame : GpuFinishes(f)
  <2> PICK f \in Frame : GpuFinishes(f)
    BY <1>4
  <2> QED BY <1>1, CalmRight DEF GpuFinishes
<1>5. CASE CloseWindow
  BY <1>1, <1>2, <1>5, CalmRight DEF CloseWindow, DeviceGone
<1>6. CASE BeginDestroy
  <2>1. todo' \in Seq(Component) \cup {NULL} /\ todo' # NULL
    BY <1>6, Orders DEF BeginDestroy
  <2> QED BY <1>1, <1>6, <2>1, CalmRight DEF BeginDestroy, driver
<1> QED BY <1>3, <1>4, <1>5, <1>6

\* Once the end has begun it is enough that the buffers the driver destroys are
\* read by no frame: the handlers wait before they destroy.
LEMMA VisitPoolRight == IInv /\ VisitPool => IInv'
<1> SUFFICES ASSUME IInv, VisitPool PROVE IInv'
  OBVIOUS
<1>1. todo \in Seq(Component) /\ todo # <<>> /\ Tail(todo) \in Seq(Component) /\ todo' = Tail(todo)
  BY DEF IInv, TypeOK, VisitPool
<1>2. todo' \in Seq(Component) \cup {NULL} /\ todo' # NULL
  BY <1>1, SceneBuffersAssumption
<1>3. Owned'
  BY <1>2 DEF Owned
<1>4. NoFrames \in [Frame -> View \cup {NULL}] /\ \A f \in Frame : NoFrames[f] = NULL
  BY DEF NoFrames
<1>5. CASE UNCHANGED <<components, current, driver>>
  BY <1>2, <1>5, CalmRight DEF driver, IInv, TypeOK
<1>6. ASSUME NEW bs, Destroyed(bs) PROVE
        /\ DOMAIN heap' \subseteq Buffer /\ \A b \in DOMAIN heap' : heap'[b] \in Nat
        /\ inFlight' = NoFrames /\ touchedDead' \subseteq {"running", "end"}
  <2>1. DOMAIN heap \subseteq Buffer /\ (\A b \in DOMAIN heap : heap[b] \in Nat)
      /\ Called \subseteq {"running", "end"}
    BY CalledRight DEF IInv, TypeOK
  <2> QED BY <1>6, <2>1 DEF Destroyed, Without
<1>7. CASE \E c \in Component : DestroyBuffer(c)
  <2> PICK c \in Component : DestroyBuffer(c)
    BY <1>7
  <2>1. /\ \/ Destroyed(HandlesOf(c))
           \/ UNCHANGED <<heap, inFlight, touchedDead>>
        /\ has' = has \ {c}
        /\ UNCHANGED <<mesh, instance, uniform, elementCount, sceneSet, shuttingDown,
                       current, device, lost, raced>>
    BY DEF DestroyBuffer
  <2>2. TypeOK /\ Kinds /\ OneEach /\ SetsRight /\ NoNulls /\ FlyingMesh /\ InFlightIntact /\ HostWritesPrivate
    BY DEF IInv
  <2>3. Kinds' /\ OneEach' /\ SetsRight' /\ NoNulls' /\ HostWritesPrivate'
    BY <2>1, <2>2 DEF Kinds, OneEach, SetsRight, NoNulls, HostWritesPrivate
  <2>4. CASE Destroyed(HandlesOf(c))
    <3>1. /\ DOMAIN heap' \subseteq Buffer /\ \A b \in DOMAIN heap' : heap'[b] \in Nat
          /\ inFlight' = NoFrames /\ touchedDead' \subseteq {"running", "end"}
      BY <1>6, <2>4
    <3>2. TypeOK'
      BY <1>2, <1>4, <2>1, <2>2, <3>1 DEF TypeOK
    <3>3. FlyingMesh' /\ InFlightIntact'
      BY <1>4, <3>1 DEF FlyingMesh, InFlightIntact
    <3> QED BY <1>3, <2>3, <3>2, <3>3 DEF IInv
  <2>5. CASE UNCHANGED <<heap, inFlight, touchedDead>>
    <3>1. TypeOK'
      BY <1>2, <2>1, <2>2, <2>5 DEF TypeOK
    <3>2. FlyingMesh' /\ InFlightIntact'
      BY <2>1, <2>2, <2>5 DEF FlyingMesh, InFlightIntact, Reads
    <3> QED BY <1>3, <2>3, <3>1, <3>2 DEF IInv
  <2> QED BY <2>1, <2>4, <2>5
<1>8. CASE DestroyRenderer
  <2>1. /\ \/ \E bs : Destroyed(bs)
           \/ heap' = heap /\ inFlight' = NoFrames /\ touchedDead' = touchedDead
        /\ has' = {} /\ shuttingDown' = TRUE
        /\ \/ device' = "destroyed" /\ lost' = DOMAIN heap'
           \/ UNCHANGED <<device, lost>>
        /\ UNCHANGED <<mesh, instance, uniform, elementCount, sceneSet, current, raced>>
    BY <1>8 DEF DestroyRenderer
  <2>2. TypeOK /\ Kinds /\ OneEach /\ SetsRight /\ NoNulls /\ HostWritesPrivate
    BY DEF IInv
  <2>3. /\ DOMAIN heap' \subseteq Buffer /\ \A b \in DOMAIN heap' : heap'[b] \in Nat
        /\ inFlight' = NoFrames /\ touchedDead' \subseteq {"running", "end"}
    <3>1. DOMAIN heap \subseteq Buffer /\ (\A b \in DOMAIN heap : heap[b] \in Nat)
          /\ touchedDead \subseteq {"running", "end"}
      BY <2>2 DEF TypeOK
    <3> QED BY <1>6, <2>1, <3>1
  <2>4. TypeOK'
    BY <1>2, <1>4, <2>1, <2>2, <2>3 DEF TypeOK
  <2>5. FlyingMesh' /\ InFlightIntact'
    BY <1>4, <2>3 DEF FlyingMesh, InFlightIntact
  <2>6. Kinds' /\ OneEach' /\ SetsRight' /\ NoNulls' /\ HostWritesPrivate'
    BY <2>1, <2>2 DEF Kinds, OneEach, SetsRight, NoNulls, HostWritesPrivate
  <2> QED BY <1>3, <2>4, <2>5, <2>6 DEF IInv
<1>9. Head(todo) \in Component
  BY <1>1
<1> QED BY <1>5, <1>7, <1>8, <1>9 DEF VisitPool

LEMMA Step == IInv /\ [Next]_vars => IInv'
<1> SUFFICES ASSUME IInv, [Next]_vars PROVE IInv'
  OBVIOUS
<1>1. CASE LoadMesh
  BY <1>1, LoadMeshRight
<1>2. CASE UnloadMesh
  BY <1>2, UnloadMeshRight
<1>3. CASE \E n \in 0..MaxInstances : DrawFrame(n)
  BY <1>3, DrawFrameRight
<1>4. CASE EmptyFrame
  BY <1>4, EmptyFrameRight
<1>5. CASE ResetSwapchain \/ (\E f \in Frame : GpuFinishes(f)) \/ CloseWindow \/ BeginDestroy
  BY <1>5, SurfaceStepsRight
<1>6. CASE VisitPool
  BY <1>6, VisitPoolRight
<1>7. CASE UNCHANGED vars
  BY <1>7, CalmRight DEF vars, driver, IInv, TypeOK
<1> QED BY <1>1, <1>2, <1>3, <1>4, <1>5, <1>6, <1>7 DEF Next

LEMMA Invariance == Spec => []IInv
BY InitRight, Step, PTL DEF Spec

-----------------------------------------------------------------------------
\* Type correctness, for any driver and either order of the pools.
THEOREM TypeCorrect == Spec => []TypeOK
<1>1. IInv => TypeOK
  BY DEF IInv
<1> QED BY <1>1, Invariance, PTL

\* What an unfinished frame reads is not touched by loads, unloads, growths and
\* destructions: each of them waits for the device before it destroys, and the
\* rewritten descriptor sets are of frames that have finished.
THEOREM FramesIntact == Spec => []InFlightIntact
<1>1. IInv => InFlightIntact
  BY DEF IInv
<1> QED BY <1>1, Invariance, PTL

\* The fence of the current frame is enough for every write of the host.
THEOREM NoRace == Spec => []HostWritesPrivate
<1>1. IInv => HostWritesPrivate
  BY DEF IInv
<1> QED BY <1>1, Invariance, PTL

\* Every descriptor set describes the buffers of its frame.
THEOREM SetsFollow == Spec => []SceneSetsRight
<1>1. IInv => SceneSetsRight
  BY DEF IInv, SetsRight, SceneSetsRight
<1> QED BY <1>1, Invariance, PTL

\* While the program runs the driver has the buffers the components hold, and
\* no others, whether or not creations fail.
THEOREM NoLeak == Spec => []NothingLeaked
<1>1. IInv => NothingLeaked
  BY NothingLeakedThen DEF IInv
<1> QED BY <1>1, Invariance, PTL

\* The frames are used as the ring FrameRing describes: a step of the renderer
\* is a step of the ring, or leaves it alone.
LEMMA RingStep == IInv /\ [Next]_vars => [Ring!Next]_(Ring!vars)
<1> SUFFICES ASSUME IInv, [Next]_vars PROVE [Ring!Next]_(Ring!vars)
  OBVIOUS
<1> DEFINE flying == {f \in Frame : inFlight[f] # NULL}
<1>1. /\ current \in Frame /\ inFlight \in [Frame -> View \cup {NULL}]
      /\ device \in {"live", "destroyed"} /\ current + 1 \in Nat
  BY SceneBuffersAssumption DEF IInv, TypeOK, Frame
<1>2. ASSUME inFlight' = NoFrames, current' \in {current, 0}, device' \in {device, "destroyed"}
      PROVE  Ring!Next
  <2>1. {f \in Frame : inFlight'[f] # NULL} = {}
    BY <1>2 DEF NoFrames
  <2>2. (device' = "destroyed") \in {device = "destroyed", TRUE}
    BY <1>2
  <2>3. CASE current' = current
    BY <2>1, <2>2, <2>3 DEF Ring!Drain, Ring!Next
  <2>4. CASE current' = 0
    <3>1. FrameCount \in 1..FrameCount
      BY SceneBuffersAssumption
    <3> QED BY <2>1, <2>2, <2>4, <3>1 DEF Ring!Drain, Ring!Next
  <2> QED BY <1>2, <2>3, <2>4
<1>3. ASSUME NEW before, NEW view, Running, UNCHANGED device, FenceSignalled,
             SurfaceUp, before \in {inFlight, NoFrames}, EndFrame(before, view)
      PROVE  Ring!Next
  <2>1. CASE inFlight' = [before EXCEPT ![current] = view] /\ current' \in {NextFrame, current}
    <3>1. current \notin flying /\ before[current] = NULL /\ DOMAIN before = Frame
      BY <1>1, <1>3 DEF FenceSignalled, NoFrames
    <3>2. {f \in Frame : before[f] # NULL} \in {flying, {}}
      BY <1>3 DEF NoFrames
    <3>3. {f \in Frame : inFlight'[f] # NULL}
            \in {{f \in Frame : before[f] # NULL} \cup s : s \in {{}, {current}}}
      BY <1>1, <2>1, <3>1
    <3>4. Ring!Frame
      BY <1>1, <1>3, <2>1, <3>1, <3>2, <3>3 DEF Ring!Frame, Ring!NextSlot, NextFrame, SurfaceUp
    <3> QED BY <3>4 DEF Ring!Next
  <2>2. CASE inFlight' = NoFrames /\ current' = 0
    BY <1>2, <1>3, <2>2
  <2> QED BY <1>3, <2>1, <2>2 DEF EndFrame
<1>4. CASE LoadMesh \/ UnloadMesh \/ ResetSwapchain \/ CloseWindow
  BY <1>2, <1>4 DEF LoadMesh, UnloadMesh, ResetSwapchain, CloseWindow, Destroyed, DeviceGone
<1>5. CASE \E n \in 0..MaxInstances : DrawFrame(n)
  <2> PICK n \in 0..MaxInstances : DrawFrame(n)
    BY <1>5
  <2>1. StillFlying(n) \in {inFlight, NoFrames}
    BY DEF StillFlying
  <2> QED BY <1>3, <2>1 DEF DrawFrame
<1>6. CASE EmptyFrame
  BY <1>3, <1>6 DEF EmptyFrame
<1>7. CASE \E f \in Frame : GpuFinishes(f)
  <2> PICK f \in Frame : GpuFinishes(f)
    BY <1>7
  <2>1. f \in flying /\ {g \in Frame : inFlight'[g] # NULL} = flying \ {f}
    BY <1>1 DEF GpuFinishes
  <2>2. Ring!Finish
    BY <2>1 DEF GpuFinishes, Ring!Finish
  <2> QED BY <2>2 DEF Ring!Next
<1>8. CASE BeginDestroy
  BY <1>8 DEF BeginDestroy, driver, Ring!vars
<1>9. CASE VisitPool
  <2>1. CASE UNCHANGED <<components, current, driver>>
    BY <2>1 DEF driver, Ring!vars
  <2>2. CASE DestroyBuffer(Head(todo))
    <3>1. UNCHANGED <<current, device>> /\ (inFlight' = NoFrames \/ UNCHANGED inFlight)
      BY <2>2 DEF DestroyBuffer, Destroyed
    <3>2. CASE inFlight' = NoFrames
      BY <1>2, <3>1, <3>2 DEF Ring!Next
    <3>3. CASE UNCHANGED inFlight
      BY <3>1, <3>3 DEF Ring!vars
    <3> QED BY <3>1, <3>2, <3>3
  <2>3. CASE DestroyRenderer
    <3>1. inFlight' = NoFrames /\ current' = current /\ device' \in {device, "destroyed"}
      BY <2>3 DEF DestroyRenderer, Destroyed
    <3> QED BY <1>2, <3>1
  <2> QED BY <1>9, <2>1, <2>2, <2>3 DEF VisitPool
<1>10. CASE UNCHANGED vars
  BY <1>10 DEF vars, driver, Ring!vars
<1> QED BY <1>4, <1>5, <1>6, <1>7, <1>8, <1>9, <1>10 DEF Next

\* The renderer takes the surface for a ring of frames and nothing more: the
\* ring that VulkanSurface implements.
THEOREM TakesRing == Spec => KeepsToFrameRing
<1>1. Init => Ring!Init
  BY DEF Init, NoFrames, Ring!Init
<1> QED BY <1>1, RingStep, Invariance, PTL DEF Spec, KeepsToFrameRing, Ring!Spec

\* Unless the buffers' pools are visited first, the renderer's goes first and
\* takes the other components with it.
QuietEnd ==
  \/ BuffersGoFirst
  \/ "renderer" \in has /\ todo \in {NULL, RendererFirst}
  \/ has = {}
  \/ todo = <<>>

\* What visiting one pool does to an order of pools.
LEMMA TailOfOrder ==
  ASSUME NEW S, NEW s \in Seq(S), s # <<>>
  PROVE  /\ Len(s) = 1 => Tail(s) = <<>>
         /\ Len(s) # 1 => Tail(s) # <<>> /\ Tail(s)[Len(Tail(s))] = s[Len(s)]
         /\ Tail(s) \in Seq(S)
<1>1. Len(s) \in Nat /\ Len(s) # 0
  OBVIOUS
<1>2. Tail(s) \in Seq(S) /\ Len(Tail(s)) = Len(s) - 1
  OBVIOUS
<1>3. ASSUME Len(s) # 1
      PROVE  Tail(s)[Len(Tail(s))] = s[Len(s)] /\ Tail(s) # <<>>
  <2>1. Len(s) - 1 \in 1..Len(Tail(s))
    BY <1>1, <1>2, <1>3
  <2>2. Tail(s)[Len(s) - 1] = s[Len(s)]
    BY <1>1, <1>2, <2>1
  <2>3. Len(Tail(s)) # Len(<<>>)
    BY <1>1, <1>2, <1>3, EmptySeq
  <2> QED BY <1>2, <2>2, <2>3
<1>4. Len(s) = 1 => Tail(s) = <<>>
  <2>1. \A t \in Seq(S) : t # <<>> => Len(t) # 0
    BY EmptySeq
  <2>2. Len(s) = 1 => Len(Tail(s)) = 0
    BY <1>2
  <2> QED BY <1>2, <2>1, <2>2
<1> QED BY <1>2, <1>3, <1>4

LEMMA QuietStep ==
  IInv /\ QuietEnd /\ [Next]_vars =>
    QuietEnd' /\ ("end" \in touchedDead' \ touchedDead => BuffersGoFirst)
<1> SUFFICES ASSUME IInv, QuietEnd, [Next]_vars
             PROVE  QuietEnd' /\ ("end" \in touchedDead' \ touchedDead => BuffersGoFirst)
  OBVIOUS
<1>1. CASE (\E n \in 0..MaxInstances : DrawFrame(n)) \/ EmptyFrame \/ ResetSwapchain
           \/ (\E f \in Frame : GpuFinishes(f)) \/ CloseWindow
  <2>1. touchedDead' = touchedDead /\ todo' = todo /\ has' = has
    BY <1>1 DEF DrawFrame, EmptyFrame, ResetSwapchain, GpuFinishes, CloseWindow, components
  <2> QED BY <2>1 DEF QuietEnd, BuffersGoFirst
<1>2. CASE LoadMesh \/ UnloadMesh
  <2>1. todo = NULL /\ todo' = todo /\ "renderer" \in has /\ "renderer" \in has'
    BY <1>2 DEF LoadMesh, UnloadMesh, Running
  <2>2. touchedDead' = Called
    BY <1>2 DEF LoadMesh, UnloadMesh, Destroyed
  <2>3. "end" \notin touchedDead' \ touchedDead
    BY <2>1, <2>2 DEF Called, Phase
  <2> QED BY <2>1, <2>3 DEF QuietEnd
<1>3. CASE BeginDestroy
  <2>3. todo # <<>>
    <3>1. <<>> \in Seq(Component)
      BY EmptySeq
    <3> QED BY <1>3, <3>1, SceneBuffersAssumption DEF BeginDestroy
  <2>1. todo = NULL /\ todo' \in {RendererFirst, RendererLast} /\ has' = has /\ touchedDead' = touchedDead
    BY <1>3 DEF BeginDestroy, components, driver
  <2>2. todo' = RendererLast => BuffersGoFirst'
    BY Orders DEF RendererLast, BuffersGoFirst
  <2> QED BY <2>1, <2>2, <2>3 DEF QuietEnd, BuffersGoFirst
<1>4. CASE VisitPool
  <2>1. todo # NULL /\ todo # <<>> /\ todo' = Tail(todo) /\ todo \in Seq(Component)
    BY <1>4 DEF VisitPool, IInv, TypeOK
  <2>2. CASE has = {}
    <3>1. UNCHANGED <<components, current, driver>>
      BY <1>4, <2>2 DEF VisitPool, DestroyBuffer, DestroyRenderer
    <3> QED BY <2>2, <3>1 DEF QuietEnd, components, driver
  <2>3. CASE todo = RendererFirst /\ "renderer" \in has
    <3>1. Head(todo) = "renderer"
      BY <2>3 DEF RendererFirst
    <3>2. DestroyRenderer
      BY <1>4, <2>3, <3>1 DEF VisitPool, DestroyBuffer
    <3> QED BY <3>2 DEF DestroyRenderer, Cleans, FlagAtRemoval, QuietEnd
  <2>4. CASE BuffersGoFirst
    <3>1. CASE Len(todo) = 1
      <4>1. todo' = <<>>
        BY <2>1, <3>1, TailOfOrder
      <4> QED BY <2>4, <4>1 DEF QuietEnd
    <3>2. CASE Len(todo) # 1
      <4>1. todo' # <<>> /\ todo'[Len(todo')] = "renderer" /\ todo' \in Seq(Component)
        BY <2>1, <2>4, <3>2, TailOfOrder DEF BuffersGoFirst
      <4>2. BuffersGoFirst'
        BY <4>1, SceneBuffersAssumption DEF BuffersGoFirst
      <4> QED BY <2>4, <4>2 DEF QuietEnd
    <3> QED BY <3>1, <3>2
  <2> QED BY <2>1, <2>2, <2>3, <2>4 DEF QuietEnd
<1>5. CASE UNCHANGED vars
  BY <1>5 DEF vars, components, driver, QuietEnd, BuffersGoFirst
<1> QED BY <1>1, <1>2, <1>3, <1>4, <1>5 DEF Next

\* At the end of the program Vulkan is called on a device that is gone only
\* where the pools of the buffers are visited before the renderer's, whoever
\* took the device down and whatever came and went after it.
THEOREM QuitIsQuiet == Spec => EndSkipsDeadDevice
<1>1. Init => QuietEnd
  BY DEF Init, QuietEnd
<1>2. IInv /\ QuietEnd /\ [Next]_vars =>
        QuietEnd' /\ ("end" \in touchedDead' \ touchedDead => BuffersGoFirst)
  BY QuietStep
<1> QED BY <1>1, <1>2, Invariance, PTL DEF Spec, EndSkipsDeadDevice

-----------------------------------------------------------------------------
\* The orderly end: the buffers' pools first, while the device is there.

\* Until the end the renderer is there and its flag unset.  While the pools of
\* the buffers go first, what is left to visit holds every component that is
\* left, the renderer as the last, and the buffers are those of the components.
OrderlyEnd ==
  /\ todo = NULL => "renderer" \in has /\ ~shuttingDown
  /\ BuffersGoFirst /\ device = "live" =>
       /\ "renderer" \in has /\ ~shuttingDown
       /\ \A b : b \in DOMAIN heap <=> Held(b)
       /\ has \ {"renderer"} \subseteq {todo[i] : i \in DOMAIN todo}
       /\ \A i \in DOMAIN todo : todo[i] = "renderer" => i = Len(todo)

\* Without the buffers of a component the others are held as before.
LEMMA HeldAfter ==
  ASSUME Kinds, NEW c \in has \ {"renderer"}, has \subseteq Component,
         has' = has \ {c}, UNCHANGED <<mesh, instance, uniform>>
  PROVE  \A b : Held(b)' <=> Held(b) /\ b \notin HandlesOf(c)
<1>1. c \in {"vertex", "index", "instance", "uniform"}
  BY DEF Component, Use
<1>2. \A use, other \in Use : use # other => BufferOf(use) \cap BufferOf(other) = {}
  BY KindsApart
<1>3. {"vertex", "index", "instance", "uniform"} = Use
  BY KindsApart
<1>4. TAKE b
<1>5. CASE c = "vertex"
  BY <1>2, <1>3, <1>5, HandlesAre DEF Held, Kinds
<1>6. CASE c = "index"
  BY <1>2, <1>3, <1>6, HandlesAre DEF Held, Kinds
<1>7. CASE c = "instance"
  BY <1>2, <1>3, <1>7, HandlesAre DEF Held, Kinds
<1>8. CASE c = "uniform"
  BY <1>2, <1>3, <1>8, HandlesAre DEF Held, Kinds
<1> QED BY <1>1, <1>5, <1>6, <1>7, <1>8

\* One pool of the orderly end.
LEMMA OrderlyVisit ==
  ASSUME IInv, OrderlyEnd, VisitPool, BuffersGoFirst, device = "live"
  PROVE  /\ device' = "live" /\ BuffersGoFirst' => OrderlyEnd'
         /\ device' = "destroyed" => lost' = {}
<1>1. /\ todo # NULL /\ todo # <<>> /\ todo' = Tail(todo) /\ todo \in Seq(Component)
      /\ todo' # NULL /\ todo' \in Seq(Component)
  <2>1. todo # NULL /\ todo # <<>> /\ todo' = Tail(todo) /\ todo \in Seq(Component)
    BY DEF VisitPool, IInv, TypeOK
  <2>2. Tail(todo) \in Seq(Component)
    BY <2>1
  <2> QED BY <2>1, <2>2, SceneBuffersAssumption
<1>2. PICK n : n = Len(todo)
  OBVIOUS
<1>3. /\ n \in Nat \ {0} /\ DOMAIN todo = 1..n /\ Head(todo) = todo[1]
      /\ \A i \in 2..n : i - 1 \in DOMAIN todo' /\ todo'[i - 1] = todo[i]
      /\ \A i \in DOMAIN todo' : i + 1 \in 1..n /\ todo'[i] = todo[i + 1]
      /\ Len(todo') = n - 1
  <2>1. n \in Nat \ {0} /\ DOMAIN todo = 1..n /\ Head(todo) = todo[1]
    BY <1>1, <1>2
  <2>2. Len(todo') = n - 1 /\ DOMAIN todo' = 1..(n - 1)
    BY <1>1, <1>2
  <2>3. \A i \in 1..(n - 1) : todo'[i] = todo[i + 1]
    BY <1>1, <1>2
  <2>4. \A i \in 2..n : i - 1 \in 1..(n - 1) /\ (i - 1) + 1 = i
    BY <2>1
  <2>5. \A i \in 1..(n - 1) : i + 1 \in 1..n
    BY <2>1
  <2> QED BY <2>1, <2>2, <2>3, <2>4, <2>5
<1>4. /\ "renderer" \in has /\ ~shuttingDown
      /\ \A b : b \in DOMAIN heap <=> Held(b)
      /\ has \ {"renderer"} \subseteq {todo[i] : i \in 1..n}
      /\ \A i \in 1..n : todo[i] = "renderer" => i = n
  BY <1>2, <1>3 DEF OrderlyEnd
<1>5. \A i \in DOMAIN todo' : todo'[i] = "renderer" => i = Len(todo')
  <2> SUFFICES ASSUME NEW i \in DOMAIN todo', todo'[i] = "renderer" PROVE i = Len(todo')
    OBVIOUS
  <2>1. i + 1 = n
    BY <1>3, <1>4
  <2> QED BY <2>1, <1>3, <1>1
<1>6. \A x : x \in {todo[i] : i \in 1..n} /\ x # todo[1] => x \in {todo'[i] : i \in DOMAIN todo'}
  <2> SUFFICES ASSUME NEW x, NEW i \in 1..n, x = todo[i], i # 1
               PROVE  \E j \in DOMAIN todo' : x = todo'[j]
    OBVIOUS
  <2>1. i \in 2..n
    BY <1>3
  <2> QED BY <2>1, <1>3
<1>7. CASE todo[1] \notin has /\ UNCHANGED <<components, current, driver>>
  <2>1. UNCHANGED <<has, shuttingDown, heap, mesh, instance, uniform, device, lost>>
    BY <1>7 DEF components, driver
  <2>2. \A b : Held(b)' <=> Held(b)
    BY <2>1 DEF Held
  <2>3. has \ {"renderer"} \subseteq {todo'[i] : i \in DOMAIN todo'}
    BY <1>4, <1>6, <1>7
  <2> QED BY <1>1, <1>4, <1>5, <2>1, <2>2, <2>3 DEF OrderlyEnd
<1>8. CASE DestroyBuffer(todo[1])
  <2> DEFINE c == todo[1]
  <2>1. /\ c \in has \ {"renderer"} /\ has' = has \ {c}
        /\ heap' = Without(heap, HandlesOf(c))
        /\ UNCHANGED <<mesh, instance, uniform, shuttingDown, device, lost>>
    BY <1>4, <1>8 DEF DestroyBuffer, Cleans, Destroyed
  <2> HIDE DEF c
  <2>2. \A b : Held(b)' <=> Held(b) /\ b \notin HandlesOf(c)
    <3>1. Kinds /\ has \subseteq Component
      BY DEF IInv, TypeOK
    <3> QED BY <2>1, <3>1, HeldAfter
  <2>3. \A b : b \in DOMAIN heap' <=> b \in DOMAIN heap /\ b \notin HandlesOf(c)
    BY <2>1 DEF Without
  <2>4. \A b : b \in DOMAIN heap' <=> Held(b)'
    BY <1>4, <2>2, <2>3
  <2>5. has' \ {"renderer"} \subseteq {todo'[i] : i \in DOMAIN todo'}
    BY <1>4, <1>6, <2>1 DEF c
  <2> QED BY <1>1, <1>4, <1>5, <2>1, <2>4, <2>5 DEF OrderlyEnd
<1>9. CASE todo[1] = "renderer" /\ DestroyRenderer
  <2>1. n = 1
    BY <1>3, <1>4, <1>9
  <2>2. has \ {"renderer"} = {}
    BY <1>4, <1>9, <2>1
  <2>3. \A b : ~Held(b)
    BY <2>2 DEF Held
  <2>4. DOMAIN heap = {}
    BY <1>4, <2>3
  <2>5. device' = "destroyed" /\ heap' = heap /\ lost' = DOMAIN heap'
    BY <1>9 DEF DestroyRenderer, Cleans, FlagAtRemoval
  <2> QED BY <2>4, <2>5
<1> QED BY <1>3, <1>7, <1>8, <1>9 DEF VisitPool

LEMMA OrderlyStep ==
  IInv /\ OrderlyEnd /\ [Next]_vars =>
    /\ OrderlyEnd'
    /\ device = "live" /\ BuffersGoFirst /\ device' = "destroyed" => lost' = {}
<1> SUFFICES ASSUME IInv, OrderlyEnd, [Next]_vars
             PROVE  /\ OrderlyEnd'
                    /\ device = "live" /\ BuffersGoFirst /\ device' = "destroyed" => lost' = {}
  OBVIOUS
<1>1. CASE LoadMesh \/ UnloadMesh \/ (\E n \in 0..MaxInstances : DrawFrame(n)) \/ EmptyFrame
           \/ ResetSwapchain \/ CloseWindow
  <2>1. /\ todo = NULL /\ todo' = NULL /\ shuttingDown' = shuttingDown
        /\ "renderer" \in has /\ "renderer" \in has'
    BY <1>1 DEF LoadMesh, UnloadMesh, DrawFrame, EmptyFrame, ResetSwapchain, CloseWindow,
                Running, components
  <2> QED BY <2>1 DEF OrderlyEnd, BuffersGoFirst
<1>2. CASE (\E f \in Frame : GpuFinishes(f)) \/ UNCHANGED vars
  <2>1. UNCHANGED <<has, mesh, instance, uniform, shuttingDown, todo, device, heap, lost>>
    BY <1>2 DEF GpuFinishes, vars, components, driver
  <2> QED BY <2>1 DEF OrderlyEnd, BuffersGoFirst, Held, IInv, TypeOK
<1>3. CASE BeginDestroy
  <2>1. /\ todo = NULL /\ todo' \in {RendererFirst, RendererLast}
        /\ UNCHANGED <<has, mesh, instance, uniform, shuttingDown, device, heap, lost>>
    BY <1>3 DEF BeginDestroy, components, driver
  <2>2. todo' # NULL
    BY <2>1, Orders
  <2>3. \A b : b \in DOMAIN heap' <=> Held(b)'
    BY <2>1 DEF IInv, Owned, Held
  <2>4. todo' = RendererFirst => ~BuffersGoFirst'
    BY DEF RendererFirst, BuffersGoFirst
  <2>5. ASSUME todo' = RendererLast
        PROVE  /\ has' \ {"renderer"} \subseteq {todo'[i] : i \in DOMAIN todo'}
               /\ \A i \in DOMAIN todo' : todo'[i] = "renderer" => i = Len(todo')
    <3>1. /\ DOMAIN RendererLast = 1..5 /\ Len(RendererLast) = 5
          /\ RendererLast[1] = "uniform" /\ RendererLast[2] = "instance"
          /\ RendererLast[3] = "index" /\ RendererLast[4] = "vertex" /\ RendererLast[5] = "renderer"
      BY DEF RendererLast
    <3>2. has' \ {"renderer"} \subseteq {"uniform", "instance", "index", "vertex"}
      BY <2>1 DEF IInv, TypeOK, Component, Use
    <3>3. 1 \in 1..5 /\ 2 \in 1..5 /\ 3 \in 1..5 /\ 4 \in 1..5 /\ 5 \in 1..5
      OBVIOUS
    <3>4. \A x \in {"uniform", "instance", "index", "vertex"} :
            x \in {RendererLast[i] : i \in 1..5}
      BY <3>1, <3>3
    <3>5. \A i \in 1..5 : RendererLast[i] = "renderer" => i = 5
      BY <3>1
    <3> QED BY <2>5, <3>1, <3>2, <3>4, <3>5
  <2>6. "renderer" \in has /\ ~shuttingDown
    BY <2>1 DEF OrderlyEnd
  <2> QED BY <2>1, <2>2, <2>3, <2>4, <2>5, <2>6 DEF OrderlyEnd, BuffersGoFirst
<1>4. CASE VisitPool
  <2>1. /\ todo # NULL /\ todo # <<>> /\ todo' = Tail(todo) /\ todo \in Seq(Component)
        /\ todo' # NULL
    <3>1. todo # NULL /\ todo # <<>> /\ todo' = Tail(todo) /\ todo \in Seq(Component)
      BY <1>4 DEF VisitPool, IInv, TypeOK
    <3>2. Tail(todo) \in Seq(Component)
      BY <3>1
    <3> QED BY <3>1, <3>2, SceneBuffersAssumption
  <2>2. BuffersGoFirst' => BuffersGoFirst
    BY <2>1, TailOfOrder DEF BuffersGoFirst
  <2>3. device' = "live" => device = "live"
    <3>1. device' \in {device, "destroyed"}
      BY <1>4 DEF VisitPool, DestroyBuffer, DestroyRenderer, driver
    <3> QED BY <3>1
  <2> QED BY <1>4, <2>1, <2>2, <2>3, OrderlyVisit DEF OrderlyEnd
<1> QED BY <1>1, <1>2, <1>3, <1>4 DEF Next

\* When the pools of the buffers are visited before that of the renderer and
\* the window is still open, the device goes away with no buffer left, for any
\* number of frames and whatever creations failed.
THEOREM OrderlyEndIsClean == Spec => OrderlyEndFrees
<1>1. Init => OrderlyEnd
  BY SceneBuffersAssumption DEF Init, OrderlyEnd, BuffersGoFirst
<1>2. IInv /\ OrderlyEnd /\ [Next]_vars =>
        /\ OrderlyEnd'
        /\ device = "live" /\ BuffersGoFirst /\ device' = "destroyed" => lost' = {}
  BY OrderlyStep
<1> QED BY <1>1, <1>2, Invariance, PTL DEF Spec, OrderlyEndFrees
=============================================================================
