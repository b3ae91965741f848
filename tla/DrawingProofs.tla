---------------------------- MODULE DrawingProofs ----------------------------
(***************************************************************************)
(* Proofs about what a frame shows of an object: its geometry, for any     *)
(* entities and any geometry (DrawBatch), and its texture, for any folder  *)
(* of textures and any materials (TextureResolve).  The two modules share  *)
(* nothing; each has its own invariant.                                    *)
(***************************************************************************)
EXTENDS DrawBatch, TextureResolve, FiniteSetTheorems, SequenceTheorems, TLAPS

-----------------------------------------------------------------------------
(* The batches of a frame.                                                 *)

\* The list is what std::sort left, and the instances are a prefix of it.
InOrder ==
  /\ pc # "collect" => Sorted(renderList)
  /\ renderList \in Seq(Visible)
  /\ Len(bufferList) <= Len(renderList)
  /\ \A i \in 1..Len(bufferList) : bufferList[i] = renderList[i]
  /\ pc \in {"draw", "done"} => Len(bufferList) = Len(renderList)
  /\ pc = "collect" => renderList = <<>>

\* The batches go up in the order of the sort, each before the next, and the
\* last one has the geometry of the last instance.
Ascending ==
  /\ \A i, j \in 1..Len(instructions) :
       i < j => Before(instructions[i].geo, instructions[j].geo)
  /\ (instructions = <<>>) <=> (bufferList = <<>>)
  /\ instructions # <<>> =>
       instructions[Len(instructions)].geo = geometry[bufferList[Len(bufferList)]]

\* Batch k is the instances after starts[k] up to starts[k + 1], and all of
\* them have its geometry.
Splits(starts) ==
  /\ starts[1] = 0
  /\ starts[Len(instructions) + 1] = Len(bufferList)
  /\ \A k \in 1..Len(instructions) :
       /\ starts[k + 1] = starts[k] + instructions[k].count
       /\ \A i \in (starts[k] + 1)..starts[k + 1] : geometry[bufferList[i]] = instructions[k].geo

Starts == [1..(Len(instructions) + 1) -> 0..Len(bufferList)]

\* What has been drawn is the instances up to the running count, which stands
\* where the next batch begins.
DrawnSoFar ==
  /\ \E starts \in Starts : Splits(starts) /\ instanceCount = starts[issued + 1]
  /\ \A e \in Entity :
       drawn[e] = IF \E i \in 1..instanceCount : bufferList[i] = e
                  THEN <<geometry[e]>> ELSE <<>>
  /\ pc \in {"collect", "batch"} => issued = 0
  /\ pc = "done" => issued = Len(instructions)

Inv == TypeOK /\ InOrder /\ Ascending /\ DrawnSoFar

-----------------------------------------------------------------------------
\* Two items one of which the sort puts before the other are ordered as pairs
\* of numbers: the order is transitive and nothing is before itself.
LEMMA Order ==
  ASSUME NEW f \in Geometry, NEW g \in Geometry, NEW h \in Geometry
  PROVE  /\ Before(f, g) /\ Before(g, h) => Before(f, h)
         /\ ~Before(h, g) /\ ~SameMesh(g, h) => Before(g, h)
         /\ Before(g, h) => ~SameMesh(g, h) /\ g # h
BY GeometryAssumption DEF Before, SameMesh

\* Items of one batch have one geometry: where a mesh starts tells the rest.
LEMMA SameGeometry ==
  ASSUME NEW g \in Geometry, NEW h \in Geometry, SameMesh(g, h)
  PROVE  g = h
BY GeometryAssumption DEF SameMesh

\* Every frame starts with nothing drawn.
Empty ==
  /\ geometry \in [Entity -> Geometry] /\ hidden \subseteq Entity
  /\ pc = "collect"
  /\ renderList = <<>> /\ bufferList = <<>> /\ instructions = <<>>
  /\ issued = 0 /\ instanceCount = 0
  /\ drawn = [e \in Entity |-> <<>>]

LEMMA EmptyInv == Empty => Inv
<1> SUFFICES ASSUME Empty PROVE Inv
  OBVIOUS
<1> USE DEF Empty
<1>1. TypeOK
  BY DEF TypeOK
<1>2. InOrder
  BY DEF InOrder
<1>3. Ascending
  BY DEF Ascending
<1>4. DrawnSoFar
  <2> DEFINE starts == [k \in 1..1 |-> 0]
  <2>1. starts \in Starts /\ Splits(starts) /\ instanceCount = starts[issued + 1]
    BY DEF Starts, Splits
  <2>2. \A e \in Entity : drawn[e] = IF \E i \in 1..instanceCount : bufferList[i] = e
                                     THEN <<geometry[e]>> ELSE <<>>
    OBVIOUS
  <2> HIDE DEF starts
  <2> QED  BY <2>1, <2>2 DEF DrawnSoFar
<1> QED  BY <1>1, <1>2, <1>3, <1>4 DEF Inv

\* std::sort leaves a sequence of the visible entities.
LEMMA CollectInv == Inv /\ Collect => Inv'
<1> SUFFICES ASSUME Inv, Collect PROVE Inv'
  OBVIOUS
<1>1. IsFiniteSet(Visible)
  BY GeometryAssumption, FS_Subset DEF Visible
<1>2. Cardinality(Visible) \in Nat
  BY <1>1, FS_CardinalityType
<1>3. renderList' \in [1..Cardinality(Visible) -> Visible] /\ Sorted(renderList')
  BY DEF Collect
<1>4. renderList' \in Seq(Visible)
  BY <1>2, <1>3
<1>5. Visible \subseteq Entity /\ UNCHANGED Visible
  BY DEF Visible, Collect, world
<1>6. bufferList = <<>> /\ issued = 0 /\ instructions = <<>> /\ UNCHANGED <<geometry, hidden, bufferList, instructions, issued, instanceCount, drawn>> /\ pc' = "batch"
  <2>1. bufferList = <<>>
    BY DEF Inv, InOrder, Collect, TypeOK
  <2> QED  BY <2>1 DEF Inv, Ascending, DrawnSoFar, Collect, world
<1>7. TypeOK'
  <2>1. renderList' \in Seq(Entity)
    BY <1>2, <1>3, <1>5
  <2> QED  BY <1>6, <2>1 DEF TypeOK, Inv
<1>8. InOrder'
  <2>1. Sorted(renderList)'
    BY <1>3, <1>5, <1>6 DEF Sorted
  <2> QED  BY <1>4, <1>5, <1>6, <2>1 DEF InOrder
<1>9. Ascending'
  BY <1>6 DEF Inv, Ascending
<1>10. DrawnSoFar'
  BY <1>6 DEF Inv, DrawnSoFar, Starts, Splits
<1> QED  BY <1>7, <1>8, <1>9, <1>10 DEF Inv

\* One more instance opens a batch or joins the last.
LEMMA BatchItemInv == Inv /\ BatchItem => Inv'
<1> SUFFICES ASSUME Inv, BatchItem PROVE Inv'
  OBVIOUS
<1> DEFINE item == renderList[Len(bufferList) + 1]
           n == Len(bufferList)
           top == Len(instructions)
<1>1. /\ n \in Nat /\ top \in Nat /\ n + 1 \in DOMAIN renderList
      /\ item \in Entity /\ geometry[item] \in Geometry
      /\ Sorted(renderList)
  BY DEF Inv, TypeOK, InOrder, BatchItem
<1>2. /\ bufferList' = Append(bufferList, item) /\ pc = "batch"
      /\ UNCHANGED <<geometry, hidden, pc, renderList, issued, instanceCount, drawn>>
  BY DEF BatchItem, world
<1>3. /\ Len(bufferList') = n + 1
      /\ \A i \in 1..n : bufferList'[i] = bufferList[i]
      /\ bufferList'[n + 1] = item
      /\ bufferList' \in Seq(Entity)
  BY <1>1, <1>2 DEF Inv, TypeOK
<1>4. instructions \in Seq(Instruction) /\ bufferList \in Seq(Entity) /\ UNCHANGED Visible
  BY <1>2 DEF Inv, TypeOK, Visible
<1>5. InOrder'
  <2>1. Sorted(renderList)'
    BY <1>1, <1>2, <1>4 DEF Sorted
  <2>2. Len(bufferList') <= Len(renderList')
    BY <1>1, <1>2, <1>3
  <2>3. \A i \in 1..Len(bufferList') : bufferList'[i] = renderList'[i]
    BY <1>1, <1>2, <1>3 DEF Inv, InOrder
  <2> QED  BY <1>2, <1>4, <2>1, <2>2, <2>3 DEF InOrder, Inv
<1>6. issued = 0 /\ instanceCount = 0 /\ drawn = [e \in Entity |-> <<>>]
  <2>1. issued = 0 /\ instanceCount = 0
    BY <1>2 DEF Inv, DrawnSoFar, Splits
  <2>2. drawn \in [Entity -> Seq(Geometry)]
    BY DEF Inv, TypeOK
  <2>3. ~ \E i \in 1..instanceCount : TRUE
    BY <2>1
  <2>4. \A e \in Entity : drawn[e] = <<>>
    BY <2>3 DEF Inv, DrawnSoFar
  <2> QED  BY <2>1, <2>2, <2>4
<1>7. PICK starts \in Starts : Splits(starts)
  BY DEF Inv, DrawnSoFar
<1>8. CASE Opens(item)
  <2> DEFINE new == [geo |-> geometry[item], count |-> 1]
  <2>1. instructions' = Append(instructions, new)
    BY <1>8 DEF BatchItem
  <2>2. /\ Len(instructions') = top + 1
        /\ \A k \in 1..top : instructions'[k] = instructions[k]
        /\ instructions'[top + 1] = new
        /\ instructions' \in Seq(Instruction)
    BY <1>1, <1>4, <2>1 DEF Instruction
  <2>3. TypeOK'
    BY <1>2, <1>3, <1>6, <2>2 DEF Inv, TypeOK
  <2>4. Ascending'
    <3>1. \A i \in 1..top : Before(instructions[i].geo, geometry[item])
      <4> SUFFICES ASSUME NEW i \in 1..top PROVE Before(instructions[i].geo, geometry[item])
        OBVIOUS
      <4>1. n # 0 /\ instructions # <<>> /\ n \in DOMAIN renderList
        <5>1. instructions # <<>>
          BY <1>1, EmptySeq
        <5>2. n # 0
          BY <1>4, <5>1, EmptySeq DEF Inv, Ascending
        <5> QED  BY <1>1, <5>1, <5>2 DEF Inv, InOrder
      <4>2. instructions[top].geo = geometry[renderList[n]]
        BY <1>1, <4>1 DEF Inv, Ascending, InOrder
      <4>3. ~Before(geometry[item], instructions[top].geo)
        BY <1>1, <4>1, <4>2 DEF Sorted
      <4>4. ~SameMesh(instructions[top].geo, geometry[item])
        BY <1>8, <4>1 DEF Opens
      <4>5. instructions[i].geo \in Geometry /\ instructions[top].geo \in Geometry
        <5>1. top \in 1..top
          BY <1>1
        <5>2. instructions[i] \in Instruction /\ instructions[top] \in Instruction
          BY <1>4, <5>1
        <5> QED  BY <5>2 DEF Instruction
      <4>6. Before(instructions[top].geo, geometry[item])
        BY <1>1, <4>3, <4>4, <4>5, Order
      <4>7. i = top \/ Before(instructions[i].geo, instructions[top].geo)
        BY DEF Inv, Ascending
      <4> QED  BY <1>1, <4>5, <4>6, <4>7, Order
    <3>2. \A i, j \in 1..(top + 1) :
            i < j => Before(instructions'[i].geo, instructions'[j].geo)
      <4> SUFFICES ASSUME NEW i \in 1..(top + 1), NEW j \in 1..(top + 1), i < j
                   PROVE  Before(instructions'[i].geo, instructions'[j].geo)
        OBVIOUS
      <4>1. CASE j = top + 1
        BY <1>1, <2>2, <3>1, <4>1
      <4>2. CASE j \in 1..top
        BY <1>1, <2>2, <4>2 DEF Inv, Ascending
      <4> QED  BY <1>1, <4>1, <4>2
    <3>3. instructions'[top + 1].geo = geometry'[bufferList'[n + 1]]
      BY <1>2, <1>3, <2>2
    <3>4. \A i, j \in 1..Len(instructions') :
            i < j => Before(instructions'[i].geo, instructions'[j].geo)
      BY <2>2, <3>2
    <3>5. instructions' # <<>> /\ bufferList' # <<>>
      BY <1>1, <1>3, <2>2
    <3> QED  BY <1>3, <2>2, <3>3, <3>4, <3>5 DEF Ascending
  <2>5. PICK begins \in Starts' :
          /\ begins[1] = 0 /\ begins[top + 2] = n + 1
          /\ \A k \in 1..(top + 1) : begins[k] = starts[k]
    <3> DEFINE b == [k \in 1..(top + 2) |-> IF k = top + 2 THEN n + 1 ELSE starts[k]]
    <3>1. b \in Starts'
      BY <1>1, <1>3, <1>7, <2>2 DEF Starts
    <3>2. b[1] = 0 /\ b[top + 2] = n + 1 /\ \A k \in 1..(top + 1) : b[k] = starts[k]
      BY <1>1, <1>7 DEF Splits
    <3> HIDE DEF b
    <3> QED  BY <3>1, <3>2
  <2>6. Splits(begins)'
    <3>1. starts[top + 1] = n
      BY <1>7 DEF Splits
    <3>2. begins[1] = 0 /\ begins[top + 2] = n + 1 /\ \A k \in 1..(top + 1) : begins[k] = starts[k]
      BY <2>5
    <3>3. ASSUME NEW k \in 1..(top + 1)
          PROVE  /\ begins[k + 1] = begins[k] + instructions'[k].count
                 /\ \A i \in (begins[k] + 1)..begins[k + 1] :
                      geometry'[bufferList'[i]] = instructions'[k].geo
      <4>1. CASE k = top + 1
        BY <1>1, <1>2, <1>3, <2>2, <3>1, <3>2, <4>1
      <4>2. CASE k \in 1..top
        <5>1. k + 1 \in 1..(top + 1) /\ starts[k] \in 0..n /\ starts[k + 1] \in 0..n
          BY <1>1, <1>7, <4>2 DEF Starts
        <5>2. /\ starts[k + 1] = starts[k] + instructions[k].count
              /\ \A i \in (starts[k] + 1)..starts[k + 1] :
                   geometry[bufferList[i]] = instructions[k].geo
          BY <1>7, <4>2 DEF Splits
        <5> HIDE DEF n, top
        <5>3. (starts[k] + 1)..starts[k + 1] \subseteq 1..n
          BY <1>1, <5>1
        <5>4. \A i \in (starts[k] + 1)..starts[k + 1] : bufferList'[i] = bufferList[i]
          BY <1>3, <5>3
        <5> QED  BY <1>1, <1>2, <2>2, <3>2, <4>2, <5>1, <5>2, <5>4
      <4> QED  BY <1>1, <4>1, <4>2
    <3> QED  BY <1>1, <1>3, <2>2, <3>2, <3>3 DEF Splits
  <2>7. DrawnSoFar'
    <3>1. (\E s \in Starts : Splits(s) /\ instanceCount = s[issued + 1])'
      BY <1>2, <1>6, <2>5, <2>6
    <3> QED  BY <1>2, <1>6, <3>1 DEF DrawnSoFar
  <2> QED  BY <1>5, <2>3, <2>4, <2>7 DEF Inv
<1>9. CASE ~Opens(item)
  <2>1. /\ instructions # <<>> /\ top > 0 /\ n > 0
        /\ SameMesh(instructions[top].geo, geometry[item])
        /\ instructions' = [instructions EXCEPT ![top].count = @ + 1]
    BY <1>1, <1>4, <1>9 DEF BatchItem, Opens, Inv, Ascending
  <2>2. instructions[top] \in Instruction
    BY <1>4, <2>1
  <2>3. instructions[top].geo = geometry[item]
    BY <1>1, <2>1, <2>2, SameGeometry DEF Instruction
  <2>4. /\ Len(instructions') = top
        /\ \A k \in 1..top : instructions'[k].geo = instructions[k].geo
        /\ \A k \in 1..(top - 1) : instructions'[k].count = instructions[k].count
        /\ instructions'[top].count = instructions[top].count + 1
        /\ instructions' \in Seq(Instruction)
    <3> DEFINE joined == [instructions[top] EXCEPT !.count = @ + 1]
    <3>1. joined \in Instruction /\ joined.geo = instructions[top].geo
          /\ joined.count = instructions[top].count + 1
      BY <2>2 DEF Instruction
    <3>2. instructions' = [instructions EXCEPT ![top] = joined]
      BY <2>1
    <3> HIDE DEF joined
    <3> QED  BY <1>1, <1>4, <2>1, <3>1, <3>2, ExceptSeq
  <2>5. TypeOK'
    BY <1>2, <1>3, <1>6, <2>4 DEF Inv, TypeOK
  <2>6. Ascending'
    <3>1. bufferList' # <<>> /\ instructions' # <<>>
      BY <1>1, <1>3, <2>1, <2>4
    <3>2. instructions'[top].geo = geometry'[bufferList'[n + 1]]
      BY <1>2, <1>3, <2>1, <2>3, <2>4
    <3>3. \A i, j \in 1..top : i < j => Before(instructions'[i].geo, instructions'[j].geo)
      BY <2>4 DEF Inv, Ascending
    <3> QED  BY <1>3, <2>4, <3>1, <3>2, <3>3 DEF Ascending
  <2>7. PICK begins \in Starts' :
          /\ begins[1] = 0 /\ begins[top + 1] = n + 1
          /\ \A k \in 1..top : begins[k] = starts[k]
    <3> DEFINE b == [starts EXCEPT ![top + 1] = n + 1]
    <3>1. b \in Starts'
      BY <1>1, <1>3, <1>7, <2>4 DEF Starts
    <3>2. b[1] = 0 /\ b[top + 1] = n + 1 /\ \A k \in 1..top : b[k] = starts[k]
      BY <1>1, <1>7, <2>1 DEF Starts, Splits
    <3> HIDE DEF b
    <3> QED  BY <3>1, <3>2
  <2>8. Splits(begins)'
    <3>1. starts[top + 1] = n /\ starts[1] = 0
      BY <1>7 DEF Splits
    <3>2. begins[1] = 0 /\ begins[top + 1] = n + 1 /\ \A k \in 1..top : begins[k] = starts[k]
      BY <2>7
    <3>3. ASSUME NEW k \in 1..top
          PROVE  /\ begins[k + 1] = begins[k] + instructions'[k].count
                 /\ \A i \in (begins[k] + 1)..begins[k + 1] :
                      geometry'[bufferList'[i]] = instructions'[k].geo
      <4>1. k + 1 \in 1..(top + 1) /\ starts[k] \in 0..n /\ starts[k + 1] \in 0..n
        BY <1>1, <1>7 DEF Starts
      <4>2. /\ starts[k + 1] = starts[k] + instructions[k].count
            /\ \A i \in (starts[k] + 1)..starts[k + 1] :
                 geometry[bufferList[i]] = instructions[k].geo
        BY <1>7 DEF Splits
      <4>3. instructions[k].count \in Nat
        <5>1. instructions[k] \in Instruction
          BY <1>4
        <5> QED  BY <5>1 DEF Instruction
      <4> HIDE DEF n, top
      <4>4. CASE k = top
        <5>1. \A i \in (starts[k] + 1)..(n + 1) : geometry[bufferList'[i]] = instructions[k].geo
          <6> SUFFICES ASSUME NEW i \in (starts[k] + 1)..(n + 1)
                       PROVE  geometry[bufferList'[i]] = instructions[k].geo
            OBVIOUS
          <6>1. CASE i = n + 1
            BY <1>3, <2>3, <4>4, <6>1
          <6>2. CASE i \in (starts[k] + 1)..n
            BY <1>1, <1>3, <3>1, <4>1, <4>2, <4>4, <6>2
          <6> QED  BY <1>1, <4>1, <6>1, <6>2
        <5>2. begins[k] = starts[k] /\ begins[k + 1] = n + 1
          BY <3>2, <4>4
        <5>3. begins[k + 1] = begins[k] + instructions'[k].count
          BY <1>1, <2>4, <3>1, <4>1, <4>2, <4>3, <4>4, <5>2
        <5> QED  BY <1>2, <2>4, <5>1, <5>2, <5>3
      <4>5. CASE k \in 1..(top - 1)
        <5>1. (starts[k] + 1)..starts[k + 1] \subseteq 1..n
          BY <1>1, <4>1
        <5>2. \A i \in (starts[k] + 1)..starts[k + 1] : bufferList'[i] = bufferList[i]
          BY <1>3, <5>1
        <5>3. begins[k] = starts[k] /\ begins[k + 1] = starts[k + 1]
          BY <1>1, <3>2, <4>5
        <5>4. begins[k + 1] = begins[k] + instructions'[k].count
          BY <2>4, <4>2, <4>5, <5>3
        <5> QED  BY <1>2, <2>4, <4>2, <5>2, <5>3, <5>4
      <4> QED  BY <1>1, <4>4, <4>5
    <3> QED  BY <1>1, <1>3, <2>4, <3>2, <3>3 DEF Splits
  <2>9. DrawnSoFar'
    <3>1. (\E s \in Starts : Splits(s) /\ instanceCount = s[issued + 1])'
      BY <1>2, <1>6, <2>7, <2>8
    <3> QED  BY <1>2, <1>6, <3>1 DEF DrawnSoFar
  <2> QED  BY <1>5, <2>5, <2>6, <2>9 DEF Inv
<1> QED  BY <1>8, <1>9

\* A draw call uses exactly the instances of the next batch, none of which was
\* drawn before: the list names no entity twice.
LEMMA DrawCallInv == Inv /\ DrawCall => Inv'
<1> SUFFICES ASSUME Inv, DrawCall PROVE Inv'
  OBVIOUS
<1> DEFINE draw == instructions[issued + 1]
           past == instanceCount + draw.count
<1>1. PICK starts \in Starts : Splits(starts) /\ instanceCount = starts[issued + 1]
  BY DEF Inv, DrawnSoFar
<1>2. /\ issued \in Nat /\ Len(instructions) \in Nat /\ Len(bufferList) \in Nat
      /\ instructions \in Seq(Instruction) /\ bufferList \in Seq(Entity)
      /\ issued + 1 \in 1..Len(instructions)
  BY DEF Inv, TypeOK, DrawCall
<1>3. draw \in Instruction
  BY <1>2
<1>4. /\ pc = "draw" /\ UNCHANGED <<geometry, hidden, pc, renderList, bufferList, instructions>>
      /\ issued' = issued + 1 /\ instanceCount' = past
      /\ drawn' = [e \in Entity |->
                     IF \E i \in (instanceCount + 1)..past : bufferList[i] = e
                     THEN Append(drawn[e], draw.geo) ELSE drawn[e]]
  BY DEF DrawCall, Past, world
<1>5. /\ starts[issued + 2] = past /\ past \in 0..Len(bufferList) /\ instanceCount \in 0..past
      /\ \A i \in (instanceCount + 1)..past : geometry[bufferList[i]] = draw.geo
  <2>1. draw.count \in Nat
    BY <1>3 DEF Instruction
  <2>2. starts[issued + 2] \in 0..Len(bufferList) /\ starts[issued + 1] \in 0..Len(bufferList)
    <3>1. issued + 1 \in 1..(Len(instructions) + 1) /\ issued + 2 \in 1..(Len(instructions) + 1)
      BY <1>2
    <3> QED  BY <1>1, <3>1 DEF Starts
  <2>3. /\ starts[(issued + 1) + 1] = past
        /\ \A i \in (starts[issued + 1] + 1)..starts[(issued + 1) + 1] :
             geometry[bufferList[i]] = draw.geo
    BY <1>1, <1>2 DEF Splits
  <2>4. (issued + 1) + 1 = issued + 2
    BY <1>2
  <2> HIDE DEF draw
  <2>5. past \in 0..Len(bufferList) /\ instanceCount \in 0..past
    BY <1>1, <1>2, <2>1, <2>2, <2>3, <2>4
  <2> QED  BY <1>1, <2>3, <2>4, <2>5
<1> HIDE DEF draw, past
<1>6. InOrder'
  <2>1. Sorted(renderList)'
    BY <1>4 DEF Inv, InOrder, Sorted, Visible
  <2> QED  BY <1>4, <2>1 DEF Inv, InOrder, Visible
<1>7. Ascending'
  BY <1>4 DEF Inv, Ascending
<1>8. \A e \in Entity : drawn'[e] = IF \E i \in 1..past : bufferList[i] = e
                                    THEN <<geometry[e]>> ELSE <<>>
  <2> SUFFICES ASSUME NEW e \in Entity
               PROVE  drawn'[e] = IF \E i \in 1..past : bufferList[i] = e
                                  THEN <<geometry[e]>> ELSE <<>>
    OBVIOUS
  <2>1. drawn[e] = IF \E i \in 1..instanceCount : bufferList[i] = e
                   THEN <<geometry[e]>> ELSE <<>>
    BY DEF Inv, DrawnSoFar
  <2>2. drawn'[e] = IF \E i \in (instanceCount + 1)..past : bufferList[i] = e
                    THEN Append(drawn[e], draw.geo) ELSE drawn[e]
    BY <1>4
  <2>3. CASE \E i \in (instanceCount + 1)..past : bufferList[i] = e
    <3>1. PICK i \in (instanceCount + 1)..past : bufferList[i] = e
      BY <2>3
    <3>2. i \in 1..past /\ i \in 1..Len(bufferList) /\ i \in DOMAIN renderList
      BY <1>2, <1>5 DEF Inv, InOrder
    <3>3. ~ \E j \in 1..instanceCount : bufferList[j] = e
      <4> SUFFICES ASSUME NEW j \in 1..instanceCount, bufferList[j] = e PROVE FALSE
        OBVIOUS
      <4>1. j < i /\ j \in 1..Len(bufferList) /\ j \in DOMAIN renderList
        BY <1>2, <1>5, <3>1 DEF Inv, InOrder
      <4>2. renderList[j] # renderList[i]
        BY <1>4, <3>2, <4>1 DEF Inv, InOrder, Sorted
      <4> QED  BY <3>1, <3>2, <4>1, <4>2 DEF Inv, InOrder
    <3>4. drawn'[e] = Append(<<>>, draw.geo)
      BY <2>1, <2>2, <2>3, <3>3
    <3>5. draw.geo = geometry[e]
      BY <1>5, <3>1
    <3> QED  BY <3>1, <3>2, <3>4, <3>5
  <2>4. CASE ~ \E i \in (instanceCount + 1)..past : bufferList[i] = e
    <3>1. (\E i \in 1..past : bufferList[i] = e) <=> (\E i \in 1..instanceCount : bufferList[i] = e)
      <4>1. past \in Nat /\ instanceCount \in 0..past
        BY <1>2, <1>5
      <4>2. \A i \in 1..past : i \in 1..instanceCount \/ i \in (instanceCount + 1)..past
        BY <4>1
      <4>3. \A i \in 1..instanceCount : i \in 1..past
        BY <4>1
      <4> QED  BY <2>4, <4>2, <4>3
    <3> QED  BY <2>1, <2>2, <2>4, <3>1
  <2> QED  BY <2>3, <2>4
<1>9. TypeOK'
  <2>1. drawn' \in [Entity -> Seq(Geometry)]
    <3>1. \A e \in Entity : drawn'[e] \in Seq(Geometry)
      <4> SUFFICES ASSUME NEW e \in Entity PROVE drawn'[e] \in Seq(Geometry)
        OBVIOUS
      <4>1. geometry[e] \in Geometry
        BY DEF Inv, TypeOK
      <4>2. drawn'[e] = <<geometry[e]>> \/ drawn'[e] = <<>>
        BY <1>8
      <4> DEFINE g == geometry[e]
      <4> HIDE DEF g
      <4>3. g \in Geometry
        BY <4>1 DEF g
      <4>4. <<g>> \in Seq(Geometry) /\ <<>> \in Seq(Geometry)
        BY <4>3
      <4> QED  BY <4>2, <4>4 DEF g
    <3>2. drawn' = [e \in Entity |-> drawn'[e]]
      BY <1>4
    <3> QED  BY <3>1, <3>2
  <2>2. issued' \in 0..Len(instructions) /\ instanceCount' \in 0..Len(bufferList)
    BY <1>2, <1>4, <1>5
  <2> QED  BY <1>4, <2>1, <2>2 DEF Inv, TypeOK
<1>10. DrawnSoFar'
  <2>1. Splits(starts)' /\ starts \in Starts'
    BY <1>1, <1>4 DEF Splits, Starts
  <2>2. instanceCount' = starts[issued' + 1]
    <3>1. issued' + 1 = issued + 2
      BY <1>2, <1>4
    <3> QED  BY <1>4, <1>5, <3>1
  <2>3. \A e \in Entity : drawn'[e] = IF \E i \in 1..instanceCount' : bufferList'[i] = e
                                      THEN <<geometry'[e]>> ELSE <<>>
    BY <1>4, <1>8
  <2> QED  BY <1>4, <2>1, <2>2, <2>3 DEF DrawnSoFar
<1> QED  BY <1>6, <1>7, <1>9, <1>10 DEF Inv

\* The two steps that only move on, and the beginning of the next frame.
LEMMA OtherInv == Inv /\ (Upload \/ EndFrame \/ NextFrame \/ UNCHANGED vars) => Inv'
<1> SUFFICES ASSUME Inv, Upload \/ EndFrame \/ NextFrame \/ UNCHANGED vars PROVE Inv'
  OBVIOUS
<1>1. CASE Upload \/ EndFrame \/ UNCHANGED vars
  <2>1. UNCHANGED <<geometry, hidden, renderList, bufferList, instructions, issued,
                    instanceCount, drawn>>
    BY <1>1 DEF Upload, EndFrame, vars, world
  <2>2. \/ UNCHANGED pc
        \/ pc = "batch" /\ Len(bufferList) = Len(renderList) /\ pc' = "draw"
        \/ pc = "draw" /\ issued = Len(instructions) /\ pc' = "done"
    BY <1>1 DEF Upload, EndFrame, vars
  <2>3. TypeOK'
    BY <2>1, <2>2 DEF Inv, TypeOK
  <2>4. InOrder'
    <3>1. UNCHANGED <<Visible, Sorted(renderList)>>
      BY <2>1 DEF Visible, Sorted
    <3> QED  BY <2>1, <2>2, <3>1 DEF Inv, InOrder
  <2>5. Ascending'
    BY <2>1 DEF Inv, Ascending
  <2>6. DrawnSoFar'
    <3>1. (\E starts \in Starts : Splits(starts) /\ instanceCount = starts[issued + 1])'
      BY <2>1 DEF Inv, DrawnSoFar, Starts, Splits
    <3>2. \A e \in Entity : drawn'[e] = IF \E i \in 1..instanceCount' : bufferList'[i] = e
                                        THEN <<geometry'[e]>> ELSE <<>>
      BY <2>1 DEF Inv, DrawnSoFar
    <3> QED  BY <2>1, <2>2, <3>1, <3>2 DEF Inv, DrawnSoFar
  <2> QED  BY <2>3, <2>4, <2>5, <2>6 DEF Inv
<1>4. CASE NextFrame
  <2>1. geometry' \in [Entity -> Geometry] /\ hidden' \subseteq Entity
    BY <1>4 DEF NextFrame, Inv, TypeOK
  <2>2. /\ pc' = "collect" /\ renderList' = <<>> /\ bufferList' = <<>> /\ instructions' = <<>>
        /\ issued' = 0 /\ instanceCount' = 0 /\ drawn' = [e \in Entity |-> <<>>]
    BY <1>4 DEF NextFrame
  <2>3. Empty'
    BY <2>1, <2>2 DEF Empty
  <2> QED  BY <2>3, EmptyInv, PTL
<1> QED  BY <1>1, <1>4

\* Inv is an invariant of the frames.
THEOREM InvHolds == Spec => []Inv
<1>1. Init => Inv
  BY EmptyInv DEF Init, Empty
<1>2. Inv /\ [Next]_vars => Inv'
  BY CollectInv, BatchItemInv, DrawCallInv, OtherInv DEF Next
<1> QED  BY <1>1, <1>2, PTL DEF Spec

\* Types: in particular no draw goes past the instances that were uploaded.
THEOREM TypeCorrect == Spec => []TypeOK
<1>1. Inv => TypeOK
  BY DEF Inv
<1> QED  BY <1>1, InvHolds, PTL

\* Whatever order the sort leaves, a frame shows every visible entity once,
\* with its own mesh and material, and no hidden one.
THEOREM FrameIsRight == Spec => []DrawnRight
<1>1. Inv => DrawnRight
  <2> SUFFICES ASSUME Inv, pc = "done", NEW e \in Entity
               PROVE  drawn[e] = IF e \in Visible THEN <<geometry[e]>> ELSE <<>>
    BY DEF DrawnRight, Inv
  <2>1. Sorted(renderList) /\ renderList \in Seq(Visible)
    BY DEF Inv, InOrder
  <2>2. instanceCount = Len(renderList) /\ Len(bufferList) = Len(renderList)
    BY DEF Inv, DrawnSoFar, Splits, InOrder
  <2>3. (\E i \in 1..instanceCount : bufferList[i] = e) <=> e \in Visible
    <3>1. \A i \in 1..Len(renderList) : bufferList[i] = renderList[i] /\ renderList[i] \in Visible
      BY <2>1, <2>2 DEF Inv, InOrder
    <3>2. e \in Visible => \E i \in 1..Len(renderList) : renderList[i] = e
      BY <2>1 DEF Sorted
    <3> QED  BY <2>2, <3>1, <3>2
  <2> QED  BY <2>3 DEF Inv, DrawnSoFar
<1> QED  BY <1>1, InvHolds, PTL

\* No mesh is drawn with one material by two calls.
THEOREM OneCallEach == Spec => []OneCallPerMesh
<1>1. Inv => OneCallPerMesh
  <2> SUFFICES ASSUME Inv, NEW i \in 1..Len(instructions), NEW j \in 1..Len(instructions), i # j
               PROVE  ~SameMesh(instructions[i].geo, instructions[j].geo)
    BY DEF OneCallPerMesh, SameMesh
  <2>1. instructions[i] \in Instruction /\ instructions[j] \in Instruction
    BY DEF Inv, TypeOK
  <2>2. instructions[i].geo \in Geometry /\ instructions[j].geo \in Geometry
    BY <2>1 DEF Instruction
  <2>3. i < j \/ j < i
    BY DEF Inv, TypeOK
  <2>4. Before(instructions[i].geo, instructions[j].geo)
        \/ Before(instructions[j].geo, instructions[i].geo)
    BY <2>3 DEF Inv, Ascending
  <2> QED  BY <2>2, <2>4, Order DEF SameMesh
<1> QED  BY <1>1, InvHolds, PTL

-----------------------------------------------------------------------------
(* The textures.                                                           *)

\* ResolveTexturePath leads to a file that is there or to nothing, to the name
\* itself if that is a file, and from a terrain name to no other terrain.
LEMMA Resolved ==
  ASSUME files \subseteq FileNames, nearby \subseteq Nearby,
         NEW n \in Names, NEW r \in ResolveTexturePath(n)
  PROVE  /\ r \in files \cup nearby \cup {White}
         /\ n \in files => r = n
         /\ n \in TerrainFiles /\ r \in TerrainFiles \cap Names => r = n
<1> DEFINE found == {i \in DOMAIN WithExt[n] : WithExt[n][i] \in files}
           tails == {f \in files : n \in EndsWith[f]}
<1>1. CASE n \in nearby \cup files
  BY <1>1 DEF ResolveTexturePath
<1>2. CASE n \notin nearby \cup files /\ found # {}
  <2>1. r \in {WithExt[n][i] : i \in {j \in found : \A k \in found : j <= k}}
    BY <1>2 DEF ResolveTexturePath
  <2>2. r \in files
    BY <2>1
  <2>3. n \notin TerrainFiles
    BY <1>2, TextureResolveAssumption
  <2> QED BY <1>2, <2>2, <2>3
<1>3. CASE n \notin nearby \cup files /\ found = {} /\ tails # {}
  <2>1. r \in tails
    BY <1>3 DEF ResolveTexturePath
  <2>2. r \in Names /\ n \in EndsWith[r]
    BY <2>1 DEF Names
  <2> QED BY <1>3, <2>1, <2>2, TextureResolveAssumption
<1>4. CASE n \notin nearby \cup files /\ found = {} /\ tails = {}
  <2>1. r = White
    BY <1>4 DEF ResolveTexturePath
  <2> QED BY <1>4, <2>1, TextureResolveAssumption
<1> QED BY <1>1, <1>2, <1>3, <1>4

\* A material's texture: what it can be, and what it is when it belongs to a
\* ship or is the terrain of a level.
LEMMA TextureFound ==
  ASSUME files \subseteq FileNames, nearby \subseteq Nearby,
         NEW n \in Kd \cup {White}, NEW level \in Levels, NEW t \in Textures(n, level)
  PROVE  /\ t \in files \cup nearby \cup {White}
         /\ n \in files /\ IsPlaneOrShipTextureName(n) => t = n
         /\ t \in TerrainFiles \cap Names /\ ~IsPlaneOrShipTextureName(t)
              => t = ForceTerrainTextureForLevel(level)
<1> DEFINE terrain == ForceTerrainTextureForLevel(level)
<1>1. CASE n = White \/ ~ShouldLoadForLevel(n, level)
  <2>1. t = White
    BY <1>1 DEF Textures
  <2>2. ~(n \in files /\ IsPlaneOrShipTextureName(n))
    BY <1>1, TextureResolveAssumption DEF ShouldLoadForLevel, Names
  <2> QED BY <2>1, <2>2, TextureResolveAssumption
<1>2. CASE n # White /\ ShouldLoadForLevel(n, level)
  <2>1. n \in Names /\ terrain \in Names
    BY <1>2, TextureResolveAssumption DEF Names
  <2>2. PICK r \in Requested(n, level) : t \in Checked(r, level)
    BY <1>2 DEF Textures
  <2>3. \E m \in Names : r \in ResolveTexturePath(m)
    BY <2>1, <2>2 DEF Requested
  <2>4. r \in files \cup nearby \cup {White}
    BY <2>3, Resolved
  <2>5. t = White \/ t = r \/ t \in ResolveTexturePath(terrain)
    BY <2>2 DEF Checked
  <2>6. t \in files \cup nearby \cup {White}
    BY <2>1, <2>4, <2>5, Resolved
  <2>7. n \in files /\ IsPlaneOrShipTextureName(n) => t = n
    <3> SUFFICES ASSUME n \in files, IsPlaneOrShipTextureName(n) PROVE t = n
      OBVIOUS
    <3>1. ~Forced(n, level)
      BY DEF Forced
    <3>2. r = n
      <4>1. r \in ResolveTexturePath(n)
        BY <2>2, <3>1 DEF Requested
      <4> QED BY <2>1, <4>1, Resolved
    <3>3. Checked(n, level) = {n}
      BY <1>2 DEF Checked
    <3> QED BY <2>2, <3>2, <3>3
  <2>8. ASSUME t \in TerrainFiles \cap Names, ~IsPlaneOrShipTextureName(t) PROVE t = terrain
    <3>1. t # White
      BY <2>8, TextureResolveAssumption
    <3>2. terrain \in TerrainFiles
      BY DEF ForceTerrainTextureForLevel, TerrainFiles, Levels
    <3>3. CASE t \in ResolveTexturePath(terrain)
      BY <2>1, <2>8, <3>2, <3>3, Resolved
    <3>4. CASE t \notin ResolveTexturePath(terrain)
      <4>1. t = r
        BY <2>5, <3>1, <3>4
      <4>2. t \in Checked(t, level)
        BY <2>2, <4>1
      <4> QED BY <2>8, <3>1, <3>4, <4>2 DEF Checked, IsAnyTerrainTextureName
    <3> QED BY <3>3, <3>4
  <2> QED BY <2>6, <2>7, <2>8
<1> QED BY <1>1, <1>2

\* A material that begins like the terrain of the level gets that terrain, if
\* its file is there.
LEMMA TerrainFound ==
  ASSUME files \subseteq FileNames, nearby \subseteq Nearby,
         NEW level \in Levels, NEW n \in (Kd \cup {White}) \cap TerrainFiles,
         Begins[n] = Begins[ForceTerrainTextureForLevel(level)],
         ForceTerrainTextureForLevel(level) \in files,
         NEW t \in Textures(n, level)
  PROVE  t = ForceTerrainTextureForLevel(level)
<1> DEFINE terrain == ForceTerrainTextureForLevel(level)
<1>1. n \in Names \cap TerrainFiles /\ n # White /\ terrain \in Names
  BY TextureResolveAssumption DEF Names
<1>2. terrain # White
  BY <1>1, TextureResolveAssumption
<1>3. \A x : x \in ResolveTexturePath(terrain) => x = terrain
  BY <1>1, Resolved
<1>4. CASE level = 3
  <2>1. terrain = "albedo-diffuse.jpg" /\ terrain \in TerrainFiles
    BY <1>4 DEF ForceTerrainTextureForLevel, TerrainFiles
  <2>2. n = terrain
    BY <1>1, <2>1, TextureResolveAssumption
  <2>3. IsPlaneOrShipTextureName(n)
    BY <1>1, <2>1, <2>2, TextureResolveAssumption DEF IsPlaneOrShipTextureName
  <2> QED BY <2>2, <2>3, TextureFound
<1>5. CASE level \in {1, 2}
  <2>1. /\ terrain # "albedo-diffuse.jpg" /\ terrain \in TerrainFiles
        /\ Begins[terrain] = IF level = 1 THEN "ground" ELSE "ocean"
    BY <1>5, TextureResolveAssumption DEF ForceTerrainTextureForLevel, TerrainFiles
  <2>2. n # "albedo-diffuse.jpg"
    BY <1>1, <2>1, TextureResolveAssumption
  <2>3. ~IsPlaneOrShipTextureName(n)
    BY <1>1, <2>2, TextureResolveAssumption DEF IsPlaneOrShipTextureName
  <2>4. ShouldLoadForLevel(n, level) /\ ShouldLoadForLevel(terrain, level)
    BY <1>5, <2>1 DEF ShouldLoadForLevel
  <2>5. Forced(n, level)
    BY <2>3 DEF Forced, IsAnyTerrainTextureName
  <2>6. PICK r \in Requested(n, level) : t \in Checked(r, level)
    BY <1>1, <2>4 DEF Textures
  <2>7. r = terrain
    BY <1>3, <2>5, <2>6 DEF Requested
  <2>8. Checked(terrain, level) = {terrain}
    BY <1>2, <2>4 DEF Checked
  <2> QED BY <2>6, <2>7, <2>8
<1> QED BY <1>4, <1>5 DEF Levels

IInv == ResolveTypeOK /\ VehiclesEverywhere /\ OneTerrain /\ TerrainShown

\* Whatever is in the folder and whatever the materials name, the renderer has
\* a texture for each of them, from the folder or white.
LEMMA Invariance == ResolveSpec => []IInv
<1>1. ResolveInit => IInv
  BY DEF ResolveInit, IInv, ResolveTypeOK, VehiclesEverywhere, OneTerrain, TerrainShown, Loaded
<1>2. IInv /\ [ResolveNext]_resolveVars => IInv'
  <2> SUFFICES ASSUME IInv, [ResolveNext]_resolveVars PROVE IInv'
    OBVIOUS
  <2>1. CASE UNCHANGED resolveVars
    BY <2>1 DEF IInv, ResolveTypeOK, VehiclesEverywhere, OneTerrain, TerrainShown, Loaded, resolveVars, MaterialLists,
       IsPlaneOrShipTextureName, ForceTerrainTextureForLevel
  <2>2. CASE LoadLevelTextures
    <3> DEFINE found == [i \in DOMAIN materials |-> Textures(materials[i], DetectedLevel)]
    <3>1. files \subseteq FileNames /\ nearby \subseteq Nearby /\ materials \in MaterialLists
      BY DEF IInv, ResolveTypeOK
    <3>2. PICK k \in 0..MaxMaterials : materials \in [1..k -> Kd \cup {White}]
      BY <3>1 DEF MaterialLists
    <3>3. DetectedLevel \in Levels /\ DetectedLevel # 0
      BY DEF DetectedLevel, DetectLevelFromMaterials, IInv, ResolveTypeOK, Levels
    <3>4. /\ loaded' \in [DOMAIN materials -> UNION Range(found)]
          /\ \A i \in DOMAIN materials : loaded'[i] \in Textures(materials[i], DetectedLevel)
      BY <2>2 DEF LoadLevelTextures
    <3>5. \A i \in DOMAIN materials :
            /\ loaded'[i] \in files \cup nearby \cup {White}
            /\ materials[i] \in files /\ IsPlaneOrShipTextureName(materials[i])
                 => loaded'[i] = materials[i]
            /\ loaded'[i] \in TerrainFiles \cap Names /\ ~IsPlaneOrShipTextureName(loaded'[i])
                 => loaded'[i] = ForceTerrainTextureForLevel(DetectedLevel)
      BY <3>1, <3>2, <3>3, <3>4, TextureFound
    <3>6. /\ loadedAs' = DetectedLevel
          /\ UNCHANGED <<files, nearby, progress, materials>>
      BY <2>2 DEF LoadLevelTextures
    <3>7. ResolveTypeOK'
      BY <3>1, <3>3, <3>4, <3>5, <3>6 DEF IInv, ResolveTypeOK, MaterialLists
    <3>8. VehiclesEverywhere'
      BY <3>5, <3>6 DEF VehiclesEverywhere, IsPlaneOrShipTextureName
    <3>9. OneTerrain'
      <4>1. \A i \in DOMAIN materials : loaded'[i] \in TerrainFiles => loaded'[i] \in Names
        BY <3>1, <3>5, TextureResolveAssumption DEF Names
      <4> QED BY <3>5, <3>6, <4>1 DEF OneTerrain, IsPlaneOrShipTextureName, ForceTerrainTextureForLevel
    <3>10. TerrainShown'
      <4>1. \A i \in DOMAIN materials :
              /\ materials[i] \in TerrainFiles
              /\ Begins[materials[i]] = Begins[ForceTerrainTextureForLevel(DetectedLevel)]
              /\ ForceTerrainTextureForLevel(DetectedLevel) \in files
              => loaded'[i] = ForceTerrainTextureForLevel(DetectedLevel)
        BY <3>1, <3>2, <3>3, <3>4, TerrainFound
      <4> QED BY <3>6, <4>1 DEF TerrainShown, ForceTerrainTextureForLevel
    <3> QED BY <3>7, <3>8, <3>9, <3>10 DEF IInv
  <2> QED BY <2>1, <2>2 DEF ResolveNext
<1> QED BY <1>1, <1>2, PTL DEF ResolveSpec

\* Every material has a texture, from the folder or white.
THEOREM ResolveTypeCorrect == ResolveSpec => []ResolveTypeOK
BY Invariance, PTL DEF IInv

\* A plane or a ship has its own texture in every level, if it is there.
THEOREM ShipsShown == ResolveSpec => []VehiclesEverywhere
BY Invariance, PTL DEF IInv

\* No search leads to the terrain of another level, that of ships apart.
THEOREM TerrainOfTheLevel == ResolveSpec => []OneTerrain
BY Invariance, PTL DEF IInv

\* A material that begins like the terrain of the level shows that terrain.
THEOREM TerrainIsShown == ResolveSpec => []TerrainShown
BY Invariance, PTL DEF IInv
=============================================================================
