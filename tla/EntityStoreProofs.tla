------------------------- MODULE EntityStoreProofs -------------------------
(***************************************************************************)
(* Proofs about EntityStore: the storage of entities and of one component, *)
(* for any number of entities, versions and nested destructions.           *)
(***************************************************************************)
EXTENDS EntityStore, SequenceTheorems, TLAPS

Usable == [id : Ids, version : 0..(VersionMask - 1)]
Where == [at : Nat, version : 0..VersionMask]
Component == [entity : Usable, names : Seq(Usable)]
Frame == [entity : Usable, at : Nat, rest : Seq(Usable)]

Typed ==
  /\ sparse \in [Ids -> Where] /\ poolSparse \in [Ids -> Where]
  /\ lives \in [Ids -> Nat]
  /\ packed \in Seq(Usable) /\ head \in 0..Len(packed)
  /\ pool \in Seq(Component)
  /\ calls \in Seq(Frame)

\* A number was given out once it is in the arrays, and its version counts its
\* lives: the present one of an entity alive, the next one of a free number.
Counted ==
  /\ Linked(packed, sparse)
  /\ \A i \in Ids : IF sparse[i] = Null THEN i >= Len(packed) /\ lives[i] = 0
                    ELSE i < Len(packed) /\ lives[i] > 0
  /\ \A p \in 1..Len(packed) :
       packed[p].version = (IF p <= head THEN lives[packed[p].id] - 1
                            ELSE lives[packed[p].id]) % VersionMask

\* Components belong to entities alive, and name higher numbers.
Owned ==
  /\ Linked(PoolHandles, poolSparse)
  /\ \A p \in 1..Len(pool) :
       /\ Valid(pool[p].entity)
       /\ \A j \in 1..Len(pool[p].names) : pool[p].names[j].id > pool[p].entity.id

Alive == {h \in Handles : Valid(h)}

NamesIn(components, sp, e) == components[sp[e.id].at].names

\* Call k goes through the collection its entity has, from the end of what it
\* visited; what it visited is dead, but for the entity of the call inside it.
Loop(cs, components, sp, live, k) ==
  LET c == cs[k]
      names == NamesIn(components, sp, c.entity)
      visited == Len(names) - Len(c.rest)
  IN IF Contained(sp, c.entity)
     THEN /\ c.at # 0
          /\ visited >= 0
          /\ \A i \in 1..Len(c.rest) : c.rest[i] = names[visited + i]
          /\ \A i \in 1..visited :
               names[i] \in live => k < Len(cs) /\ names[i] = cs[k + 1].entity
     ELSE c.at = 0 /\ c.rest = <<>>

\* The entities of nested calls are alive, each above the one before.
Nested ==
  /\ \A k \in 1..Len(calls) :
       calls[k].entity \in Alive /\ Loop(calls, pool, poolSparse, Alive, k)
  /\ \A k, l \in 1..Len(calls) : k < l => calls[k].entity.id < calls[l].entity.id

Inv == Typed /\ Counted /\ Owned /\ Nested

-----------------------------------------------------------------------------
(* Versions.                                                               *)

\* What division with rest means, and that the rest is the only one.
LEMMA Division ==
  ASSUME NEW m \in Nat \ {0}, NEW a \in Nat
  PROVE  a = m * (a \div m) + (a % m) /\ a % m \in 0..(m - 1) /\ a \div m \in Nat
OBVIOUS

LEMMA OneRest ==
  ASSUME NEW m \in Nat \ {0}, NEW q \in Nat, NEW r \in 0..(m - 1)
  PROVE  (m * q + r) % m = r
OBVIOUS

\* Counting a life counts a version, and the last one comes round.
LEMMA RestOfNext ==
  ASSUME NEW m \in Nat \ {0}, NEW a \in Nat
  PROVE  (a + 1) % m = IF (a % m) + 1 = m THEN 0 ELSE (a % m) + 1
<1> DEFINE q == a \div m
           r == a % m
<1>1. a = m * q + r /\ r \in 0..(m - 1) /\ q \in Nat
  BY Division
<1> HIDE DEF q, r
<1>2. CASE r + 1 = m
  <2>1. a + 1 = m * (q + 1) + 0
    BY <1>1, <1>2
  <2>2. (m * (q + 1) + 0) % m = 0
    BY <1>1, OneRest
  <2>3. (a + 1) % m = 0
    BY <2>1, <2>2
  <2> QED  BY <1>2, <2>3 DEF r
<1>3. CASE r + 1 # m
  <2>1. a + 1 = m * q + (r + 1) /\ r + 1 \in 0..(m - 1)
    BY <1>1, <1>3
  <2>2. (m * q + (r + 1)) % m = r + 1
    BY <1>1, <2>1, OneRest
  <2>3. (a + 1) % m = r + 1
    BY <2>1, <2>2
  <2> QED  BY <1>3, <2>3 DEF r
<1> QED  BY <1>2, <1>3

\* Two lives fewer than m apart have different versions.
LEMMA RestsDiffer ==
  ASSUME NEW m \in Nat \ {0}, NEW a \in Nat, NEW b \in Nat, a < b, b < a + m
  PROVE  a % m # b % m
<1> SUFFICES ASSUME a % m = b % m PROVE FALSE
  OBVIOUS
<1> DEFINE d == (b \div m) - (a \div m)
<1>1. d \in Int /\ b - a = m * d
  <2>1. a = m * (a \div m) + (a % m) /\ a \div m \in Nat /\ a % m \in 0..(m - 1)
    BY Division
  <2>2. b = m * (b \div m) + (b % m) /\ b \div m \in Nat /\ b % m \in 0..(m - 1)
    BY Division
  <2>3. b - a = m * (b \div m) - m * (a \div m)
    BY <2>1, <2>2
  <2> QED  BY <2>1, <2>2, <2>3
<1> HIDE DEF d
<1>2. CASE d <= 0
  <2>1. m * d <= 0
    BY <1>1, <1>2
  <2> QED  BY <1>1, <2>1
<1>3. CASE d >= 1
  <2>1. m * d >= m
    BY <1>1, <1>3
  <2> QED  BY <1>1, <2>1
<1> QED  BY <1>1, <1>2, <1>3

-----------------------------------------------------------------------------
(* Sparse sets.                                                            *)

\* Usable handles are handles, and none of them is at no position.
LEMMA UsableHandles ==
  /\ Usable \subseteq Handles
  /\ \A h \in Usable : h.id \in Ids /\ h.version \in Nat /\ h.version < VersionMask
  /\ \A a \in Nat \ {0}, v \in 0..VersionMask : [at |-> a, version |-> v] \in Where \ {Null}
  /\ Null \in Where
BY EntityStoreAssumption DEF Usable, Handles, Where, Null

LEMMA PlaceIs ==
  ASSUME NEW a \in Nat, NEW v \in 0..VersionMask
  PROVE  [at |-> a, version |-> v] \in Where
BY DEF Where

\* In linked arrays a number is in one place.
LEMMA LinkedOnce ==
  ASSUME NEW n \in Nat, NEW handles \in [1..n -> Usable], NEW sp, Linked(handles, sp)
  PROVE  \A p, q \in 1..n : handles[p].id = handles[q].id => p = q
<1> SUFFICES ASSUME NEW p \in 1..n, NEW q \in 1..n, handles[p].id = handles[q].id
             PROVE  p = q
  OBVIOUS
<1>1. /\ sp[handles[p].id] = [at |-> p, version |-> handles[p].version]
      /\ sp[handles[q].id] = [at |-> q, version |-> handles[q].version]
  BY DEF Linked
<1> QED  BY <1>1

\* In linked arrays exactly the handles in the
\* packed array are contained, where they are and at the version they have.
LEMMA LinkedLookup ==
  ASSUME NEW n \in Nat, NEW handles \in [1..n -> Usable], NEW sp \in [Ids -> Where],
         Linked(handles, sp)
  PROVE  /\ \A p \in 1..n : Contained(sp, handles[p]) /\ sp[handles[p].id].at = p
         /\ \A i \in Ids : sp[i] # Null =>
              /\ sp[i].at \in 1..n
              /\ handles[sp[i].at] = [id |-> i, version |-> sp[i].version]
         /\ \A h \in Handles : Contained(sp, h) =>
              sp[h.id].at \in 1..n /\ handles[sp[h.id].at] = h
<1>1. \A p \in 1..n : sp[handles[p].id] = [at |-> p, version |-> handles[p].version]
  BY DEF Linked
<1>3. \A p \in 1..n : Contained(sp, handles[p]) /\ sp[handles[p].id].at = p
  <2> SUFFICES ASSUME NEW p \in 1..n
               PROVE  Contained(sp, handles[p]) /\ sp[handles[p].id].at = p
    OBVIOUS
  <2>1. sp[handles[p].id] = [at |-> p, version |-> handles[p].version]
    BY <1>1
  <2>2. [at |-> p, version |-> handles[p].version] # Null
    BY DEF Null
  <2> QED  BY <2>1, <2>2 DEF Contained
<1>4. \A i \in Ids : sp[i] # Null =>
        sp[i].at \in 1..n /\ handles[sp[i].at] = [id |-> i, version |-> sp[i].version]
  <2> SUFFICES ASSUME NEW i \in Ids, sp[i] # Null
               PROVE  sp[i].at \in 1..n /\ handles[sp[i].at] = [id |-> i, version |-> sp[i].version]
    OBVIOUS
  <2>1. sp[i].at \in 1..n /\ handles[sp[i].at].id = i
    BY DEF Linked
  <2>2. sp[i].version = handles[sp[i].at].version
    <3> DEFINE a == sp[i].at
    <3>1. a \in 1..n /\ handles[a].id = i
      BY <2>1
    <3>2. sp[handles[a].id] = [at |-> a, version |-> handles[a].version]
      BY <1>1, <3>1
    <3> HIDE DEF a
    <3>3. sp[i].version = handles[a].version
      BY <3>1, <3>2
    <3> QED  BY <3>3 DEF a
  <2>3. handles[sp[i].at] \in Usable
    BY <2>1
  <2> QED  BY <2>1, <2>2, <2>3 DEF Usable
<1>5. \A h \in Handles : Contained(sp, h) => sp[h.id].at \in 1..n /\ handles[sp[h.id].at] = h
  <2> SUFFICES ASSUME NEW h \in Handles, Contained(sp, h)
               PROVE  sp[h.id].at \in 1..n /\ handles[sp[h.id].at] = h
    OBVIOUS
  <2>1. h.id \in Ids /\ sp[h.id] # Null /\ sp[h.id].version = h.version
        /\ h = [id |-> h.id, version |-> h.version]
    BY DEF Handles, Contained
  <2> QED  BY <1>4, <2>1
<1> QED  BY <1>3, <1>4, <1>5

\* Appending a handle whose number is not there.
LEMMA LinkedAppend ==
  ASSUME NEW n \in Nat, NEW handles \in [1..n -> Usable], NEW sp \in [Ids -> Where],
         Linked(handles, sp), NEW e \in Usable, sp[e.id] = Null,
         NEW more \in [1..(n + 1) -> Usable], \A p \in 1..n : more[p] = handles[p],
         more[n + 1] = e
  PROVE  /\ Linked(more, At(sp, e, n + 1))
         /\ At(sp, e, n + 1) \in [Ids -> Where]
<1> DEFINE sp2 == At(sp, e, n + 1)
<1>1. /\ sp2 \in [Ids -> Where] /\ sp2[e.id] = [at |-> n + 1, version |-> e.version]
      /\ \A i \in Ids : i # e.id => sp2[i] = sp[i]
  <2>1. e.id \in Ids /\ e.version \in 0..VersionMask
    BY EntityStoreAssumption DEF Usable
  <2>2. [at |-> n + 1, version |-> e.version] \in Where
    BY <2>1 DEF Where
  <2> QED  BY <2>1, <2>2 DEF At
<1>2. \A p \in 1..n : handles[p].id # e.id /\ handles[p].id \in Ids
  <2> SUFFICES ASSUME NEW p \in 1..n  PROVE handles[p].id # e.id /\ handles[p].id \in Ids
    OBVIOUS
  <2>1. sp[handles[p].id] = [at |-> p, version |-> handles[p].version]
    BY DEF Linked
  <2>2. sp[handles[p].id] # Null
    BY <2>1 DEF Null
  <2>3. handles[p].id \in Ids
    BY UsableHandles
  <2> QED  BY <2>2, <2>3
<1> HIDE DEF sp2
<1>3. \A p \in 1..(n + 1) : sp2[more[p].id] = [at |-> p, version |-> more[p].version]
  <2> SUFFICES ASSUME NEW p \in 1..(n + 1)
               PROVE  sp2[more[p].id] = [at |-> p, version |-> more[p].version]
    OBVIOUS
  <2>1. CASE p = n + 1
    BY <1>1, <2>1
  <2>2. CASE p \in 1..n
    BY <1>1, <1>2, <2>2 DEF Linked
  <2> QED  BY <2>1, <2>2
<1>4. \A i \in Ids : sp2[i] # Null => sp2[i].at \in 1..(n + 1) /\ more[sp2[i].at].id = i
  <2> SUFFICES ASSUME NEW i \in Ids, sp2[i] # Null
               PROVE  sp2[i].at \in 1..(n + 1) /\ more[sp2[i].at].id = i
    OBVIOUS
  <2>1. CASE i = e.id
    BY <1>1, <2>1
  <2>2. CASE i # e.id
    <3>1. sp2[i] = sp[i] /\ sp[i].at \in 1..n /\ handles[sp[i].at].id = i
      BY <1>1, <2>2 DEF Linked
    <3> QED  BY <3>1
  <2> QED  BY <2>1, <2>2
<1>5. DOMAIN more = 1..(n + 1)
  OBVIOUS
<1> QED  BY <1>1, <1>3, <1>4, <1>5 DEF Linked, sp2

\* The swap and pop: the last handle takes the place of the one that goes.
PopsTo(n, handles, sp, at, fewer, sp2) ==
  /\ n \in Nat /\ handles \in [1..n -> Usable] /\ sp \in [Ids -> Where] /\ at \in 1..n
  /\ fewer \in [1..(n - 1) -> Usable] /\ sp2 \in [Ids -> Where]
  /\ \A p \in 1..(n - 1) : fewer[p] = IF p = at THEN handles[n] ELSE handles[p]
  /\ \A i \in Ids : sp2[i] =
       IF i = handles[at].id THEN Null
       ELSE IF i = handles[n].id THEN [at |-> at, version |-> handles[n].version]
       ELSE sp[i]

LEMMA LinkedPop ==
  ASSUME NEW n, NEW handles, NEW sp, NEW at, NEW fewer, NEW sp2,
         Linked(handles, sp), PopsTo(n, handles, sp, at, fewer, sp2)
  PROVE  Linked(fewer, sp2)
<1> USE DEF PopsTo
<1>1. /\ \A p, q \in 1..n : handles[p].id = handles[q].id => p = q
      /\ \A p \in 1..n : handles[p].id \in Ids
  <2>1. \A p \in 1..n : handles[p].id \in Ids
    BY UsableHandles
  <2>2. \A p, q \in 1..n : handles[p].id = handles[q].id => p = q
    BY LinkedOnce
  <2> QED  BY <2>1, <2>2
<1>2. \A p \in 1..(n - 1) : sp2[fewer[p].id] = [at |-> p, version |-> fewer[p].version]
  <2> SUFFICES ASSUME NEW p \in 1..(n - 1)
               PROVE  sp2[fewer[p].id] = [at |-> p, version |-> fewer[p].version]
    OBVIOUS
  <2>1. n \in 1..n /\ p \in 1..n
    OBVIOUS
  <2>2. CASE p = at
    <3>1. fewer[p] = handles[n] /\ handles[n].id # handles[at].id
      BY <1>1, <2>1, <2>2
    <3> QED  BY <1>1, <2>1, <2>2, <3>1
  <2>3. CASE p # at
    <3>1. fewer[p] = handles[p] /\ handles[p].id # handles[at].id /\ handles[p].id # handles[n].id
      BY <1>1, <2>1, <2>3
    <3> QED  BY <1>1, <2>1, <3>1 DEF Linked
  <2> QED  BY <2>2, <2>3
<1>3. \A i \in Ids : sp2[i] # Null => sp2[i].at \in 1..(n - 1) /\ fewer[sp2[i].at].id = i
  <2> SUFFICES ASSUME NEW i \in Ids, sp2[i] # Null
               PROVE  sp2[i].at \in 1..(n - 1) /\ fewer[sp2[i].at].id = i
    OBVIOUS
  <2>1. i # handles[at].id
    OBVIOUS
  <2>2. CASE i = handles[n].id
    <3>1. at # n
      BY <2>1, <2>2
    <3> QED  BY <2>1, <2>2, <3>1
  <2>3. CASE i # handles[n].id
    <3>1. sp2[i] = sp[i] /\ sp[i].at \in 1..n /\ handles[sp[i].at].id = i
      BY <2>1, <2>3 DEF Linked
    <3>2. sp[i].at # at /\ sp[i].at # n
      BY <2>1, <2>3, <3>1
    <3> QED  BY <3>1, <3>2
  <2> QED  BY <2>2, <2>3
<1> QED  BY <1>2, <1>3 DEF Linked

\* Erasing: the handle leaves for the end of those alive with another version,
\* and the last one alive takes its place.
ErasesTo(n, handles, sp, p, hd, next, handles2, sp2) ==
  /\ n \in Nat /\ handles \in [1..n -> Usable] /\ sp \in [Ids -> Where]
  /\ p \in 1..n /\ hd \in 1..n /\ next \in Usable /\ next.id = handles[p].id
  /\ handles2 \in [1..n -> Usable] /\ sp2 \in [Ids -> Where]
  /\ \A q \in 1..n : handles2[q] =
       IF q = hd THEN next ELSE IF q = p THEN handles[hd] ELSE handles[q]
  /\ \A i \in Ids : sp2[i] =
       IF i = (IF p = hd THEN next.id ELSE handles[hd].id)
       THEN [at |-> p, version |-> IF p = hd THEN next.version ELSE handles[hd].version]
       ELSE IF i = next.id THEN [at |-> hd, version |-> next.version]
       ELSE sp[i]

LEMMA LinkedErase ==
  ASSUME NEW n, NEW handles, NEW sp, NEW p, NEW hd, NEW next, NEW handles2, NEW sp2,
         Linked(handles, sp), ErasesTo(n, handles, sp, p, hd, next, handles2, sp2)
  PROVE  /\ Linked(handles2, sp2)
         /\ \A i \in Ids : sp2[i] = Null <=> sp[i] = Null
<1> USE DEF ErasesTo
<1>1. /\ \A q, r \in 1..n : handles[q].id = handles[r].id => q = r
      /\ \A q \in 1..n : handles[q].id \in Ids
  <2>1. \A q \in 1..n : handles[q].id \in Ids
    BY UsableHandles
  <2>2. \A q, r \in 1..n : handles[q].id = handles[r].id => q = r
    BY LinkedOnce
  <2> QED  BY <2>1, <2>2
<1>2. \A q \in 1..n : sp[handles[q].id] = [at |-> q, version |-> handles[q].version]
  BY DEF Linked
<1>3. \A q \in 1..n : sp2[handles2[q].id] = [at |-> q, version |-> handles2[q].version]
  <2> SUFFICES ASSUME NEW q \in 1..n
               PROVE  sp2[handles2[q].id] = [at |-> q, version |-> handles2[q].version]
    OBVIOUS
  <2>1. CASE q = hd
    <3>1. handles2[q] = next /\ next.id \in Ids
      BY <1>1, <2>1
    <3>2. p # hd => next.id # handles[hd].id
      BY <1>1
    <3> QED  BY <2>1, <3>1, <3>2
  <2>2. CASE q # hd /\ q = p
    <3>1. handles2[q] = handles[hd] /\ handles[hd].id \in Ids
      BY <1>1, <2>2
    <3> QED  BY <2>2, <3>1
  <2>3. CASE q # hd /\ q # p
    <3>1. handles2[q] = handles[q] /\ handles[q].id \in Ids
      BY <1>1, <2>3
    <3>2. handles[q].id # handles[hd].id /\ handles[q].id # handles[p].id
      BY <1>1, <2>3
    <3>3. sp2[handles[q].id] = sp[handles[q].id]
      BY <3>1, <3>2
    <3> QED  BY <1>2, <3>1, <3>3
  <2> QED  BY <2>1, <2>2, <2>3
<1>4. \A i \in Ids : sp2[i] = Null <=> sp[i] = Null
  <2> SUFFICES ASSUME NEW i \in Ids  PROVE sp2[i] = Null <=> sp[i] = Null
    OBVIOUS
  <2>1. \A q \in 1..n : sp[handles[q].id] # Null /\ handles[q].id \in Ids
    <3> SUFFICES ASSUME NEW q \in 1..n  PROVE sp[handles[q].id] # Null /\ handles[q].id \in Ids
      OBVIOUS
    <3>1. [at |-> q, version |-> handles[q].version] # Null
      BY DEF Null
    <3> QED  BY <1>1, <1>2, <3>1
  <2>2. [at |-> p, version |-> IF p = hd THEN next.version ELSE handles[hd].version] # Null
        /\ [at |-> hd, version |-> next.version] # Null
    BY DEF Null
  <2>3. CASE i = handles[p].id \/ i = handles[hd].id
    <3>1. sp[i] # Null
      BY <2>1, <2>3
    <3>2. sp2[i] # Null
      BY <2>2, <2>3
    <3> QED  BY <3>1, <3>2
  <2>4. CASE i # handles[p].id /\ i # handles[hd].id
    BY <2>4
  <2> QED  BY <2>3, <2>4
<1>5. \A i \in Ids : sp2[i] # Null => sp2[i].at \in 1..n /\ handles2[sp2[i].at].id = i
  <2> SUFFICES ASSUME NEW i \in Ids, sp2[i] # Null
               PROVE  sp2[i].at \in 1..n /\ handles2[sp2[i].at].id = i
    OBVIOUS
  <2>1. CASE p = hd /\ i = next.id
    <3>1. sp2[i] = [at |-> p, version |-> next.version]
      BY <2>1
    <3> QED  BY <2>1, <3>1
  <2>2. CASE p # hd /\ i = handles[hd].id
    <3>1. sp2[i] = [at |-> p, version |-> handles[hd].version]
      BY <2>2
    <3>2. handles2[p] = handles[hd]
      BY <2>2
    <3> QED  BY <2>2, <3>1, <3>2
  <2>3. CASE p # hd /\ i = next.id
    <3>1. handles[hd].id # handles[p].id
      BY <1>1, <2>3
    <3>2. sp2[i] = [at |-> hd, version |-> next.version]
      BY <2>3, <3>1
    <3> QED  BY <2>3, <3>2
  <2>4. CASE i # next.id /\ i # handles[hd].id
    <3>1. sp2[i] = sp[i]
      BY <2>4
    <3>2. sp[i].at \in 1..n /\ handles[sp[i].at].id = i
      BY <3>1 DEF Linked
    <3>3. sp[i].at # p /\ sp[i].at # hd
      BY <2>4, <3>2
    <3> QED  BY <3>1, <3>2, <3>3
  <2>5. CASE p = hd /\ i = handles[hd].id
    BY <2>1, <2>5
  <2> QED  BY <2>1, <2>2, <2>3, <2>4, <2>5
<1> QED  BY <1>3, <1>4, <1>5 DEF Linked

\* The entities alive are those before the position head, no two the same.
LEMMA AliveAre ==
  ASSUME NEW n \in Nat, NEW handles \in [1..n -> Usable], NEW sp \in [Ids -> Where],
         Linked(handles, sp), NEW hd \in 0..n, NEW h \in Handles
  PROVE  (Contained(sp, h) /\ sp[h.id].at <= hd) <=> \E q \in 1..hd : handles[q] = h
<1>1. Contained(sp, h) => sp[h.id].at \in 1..n /\ handles[sp[h.id].at] = h
  BY LinkedLookup
<1>2. ASSUME NEW q \in 1..hd, handles[q] = h
      PROVE  Contained(sp, h) /\ sp[h.id].at <= hd
  <2>1. q \in 1..n
    OBVIOUS
  <2>2. Contained(sp, handles[q]) /\ sp[handles[q].id].at = q
    BY <2>1, LinkedLookup
  <2> QED  BY <1>2, <2>2
<1> QED  BY <1>1, <1>2

\* The version after the last one is the first, never the tombstone's.
LEMMA NextVersionIs ==
  ASSUME NEW v \in 0..(VersionMask - 1)
  PROVE  NextVersion(v) = IF v + 1 = VersionMask THEN 0 ELSE v + 1
<1>1. VersionMask \in Nat /\ VersionMask > 0
  BY EntityStoreAssumption
<1>2. CASE v + 1 = VersionMask
  <2>1. (VersionMask + 1) % (VersionMask + 1) = 0
    <3>1. ((VersionMask + 1) * 1 + 0) % (VersionMask + 1) = 0
      BY <1>1, OneRest
    <3> QED  BY <1>1, <3>1
  <2> QED  BY <1>1, <1>2, <2>1 DEF NextVersion
<1>3. CASE v + 1 # VersionMask
  <2>1. (v + 1) % (VersionMask + 1) = v + 1
    <3>1. ((VersionMask + 1) * 0 + (v + 1)) % (VersionMask + 1) = v + 1
      BY <1>1, <1>3, OneRest
    <3> QED  BY <1>1, <3>1
  <2> QED  BY <1>1, <1>3, <2>1 DEF NextVersion
<1> QED  BY <1>2, <1>3

-----------------------------------------------------------------------------
(* The steps.                                                              *)

\* The arrays as functions, which the lemmas above are about.
LEMMA Arrays ==
  Typed =>
    /\ Len(packed) \in Nat /\ packed \in [1..Len(packed) -> Usable]
    /\ Len(pool) \in Nat /\ pool \in [1..Len(pool) -> Component]
    /\ PoolHandles \in [1..Len(pool) -> Usable]
    /\ \A q \in 1..Len(pool) : PoolHandles[q] = pool[q].entity
    /\ Len(calls) \in Nat /\ calls \in [1..Len(calls) -> Frame]
<1> SUFFICES ASSUME Typed
    PROVE /\ Len(packed) \in Nat /\ packed \in [1..Len(packed) -> Usable]
          /\ Len(pool) \in Nat /\ pool \in [1..Len(pool) -> Component]
          /\ PoolHandles \in [1..Len(pool) -> Usable]
          /\ \A q \in 1..Len(pool) : PoolHandles[q] = pool[q].entity
          /\ Len(calls) \in Nat /\ calls \in [1..Len(calls) -> Frame]
  OBVIOUS
<1>1. Len(packed) \in Nat /\ packed \in [1..Len(packed) -> Usable]
  BY DEF Typed
<1>2. Len(pool) \in Nat /\ pool \in [1..Len(pool) -> Component] /\ DOMAIN pool = 1..Len(pool)
  BY DEF Typed
<1>3. Len(calls) \in Nat /\ calls \in [1..Len(calls) -> Frame]
  BY DEF Typed
<1>4. \A q \in 1..Len(pool) : pool[q].entity \in Usable
  BY <1>2 DEF Component
<1>5. PoolHandles \in [1..Len(pool) -> Usable]
      /\ \A q \in 1..Len(pool) : PoolHandles[q] = pool[q].entity
  BY <1>2, <1>4 DEF PoolHandles
<1> QED  BY <1>1, <1>2, <1>3, <1>5

\* Valid, as a place among those alive.
LEMMA ValidPlace ==
  Typed /\ Counted => \A h \in Handles : Valid(h) <=> \E q \in 1..head : packed[q] = h
<1> SUFFICES ASSUME Typed, Counted, NEW h \in Handles
             PROVE  Valid(h) <=> \E q \in 1..head : packed[q] = h
  OBVIOUS
<1>1. /\ Len(packed) \in Nat /\ packed \in [1..Len(packed) -> Usable]
      /\ sparse \in [Ids -> Where] /\ head \in 0..Len(packed) /\ Linked(packed, sparse)
  BY Arrays DEF Typed, Counted
<1>2. (Contained(sparse, h) /\ sparse[h.id].at <= head) <=> \E q \in 1..head : packed[q] = h
  BY <1>1, AliveAre
<1> QED  BY <1>2 DEF Valid

\* An entity alive is usable and no two have the same number.
LEMMA ValidUsable ==
  Typed /\ Counted =>
    /\ \A h \in Handles : Valid(h) => h \in Usable
    /\ \A g, h \in Handles : Valid(g) /\ Valid(h) /\ g.id = h.id => g = h
<1> SUFFICES ASSUME Typed, Counted
             PROVE  /\ \A h \in Handles : Valid(h) => h \in Usable
                    /\ \A g, h \in Handles : Valid(g) /\ Valid(h) /\ g.id = h.id => g = h
  OBVIOUS
<1>1. \A h \in Handles : Valid(h) <=> \E q \in 1..head : packed[q] = h
  BY ValidPlace
<1>2. /\ Len(packed) \in Nat /\ packed \in [1..Len(packed) -> Usable] /\ head \in 0..Len(packed)
  BY Arrays DEF Typed
<1>3. \A h \in Handles : Valid(h) => h \in Usable
  BY <1>1, <1>2
<1>4. ASSUME NEW g \in Handles, NEW h \in Handles, Valid(g), Valid(h), g.id = h.id
      PROVE  g = h
  <2>1. g.version = h.version
    BY <1>4 DEF Valid, Contained
  <2> QED  BY <1>4, <2>1 DEF Handles
<1> QED  BY <1>3, <1>4

\* What the pool holds is where poolSparse says.
LEMMA PoolPlace ==
  Typed /\ Owned =>
    /\ \A q \in 1..Len(pool) :
         Contained(poolSparse, pool[q].entity) /\ poolSparse[pool[q].entity.id].at = q
    /\ \A h \in Handles : Contained(poolSparse, h) =>
         poolSparse[h.id].at \in 1..Len(pool) /\ pool[poolSparse[h.id].at].entity = h
    /\ \A i \in Ids : poolSparse[i] # Null =>
         /\ poolSparse[i].at \in 1..Len(pool)
         /\ pool[poolSparse[i].at].entity = [id |-> i, version |-> poolSparse[i].version]
    /\ \A q, r \in 1..Len(pool) : pool[q].entity.id = pool[r].entity.id => q = r
<1> SUFFICES ASSUME Typed, Owned
    PROVE /\ \A q \in 1..Len(pool) :
               Contained(poolSparse, pool[q].entity) /\ poolSparse[pool[q].entity.id].at = q
          /\ \A h \in Handles : Contained(poolSparse, h) =>
               poolSparse[h.id].at \in 1..Len(pool) /\ pool[poolSparse[h.id].at].entity = h
          /\ \A i \in Ids : poolSparse[i] # Null =>
               /\ poolSparse[i].at \in 1..Len(pool)
               /\ pool[poolSparse[i].at].entity = [id |-> i, version |-> poolSparse[i].version]
          /\ \A q, r \in 1..Len(pool) : pool[q].entity.id = pool[r].entity.id => q = r
  OBVIOUS
<1>1. /\ Len(pool) \in Nat /\ PoolHandles \in [1..Len(pool) -> Usable]
      /\ \A q \in 1..Len(pool) : PoolHandles[q] = pool[q].entity
      /\ poolSparse \in [Ids -> Where] /\ Linked(PoolHandles, poolSparse)
  BY Arrays DEF Typed, Owned
<1>2. /\ \A q \in 1..Len(pool) :
           Contained(poolSparse, PoolHandles[q]) /\ poolSparse[PoolHandles[q].id].at = q
      /\ \A h \in Handles : Contained(poolSparse, h) =>
           poolSparse[h.id].at \in 1..Len(pool) /\ PoolHandles[poolSparse[h.id].at] = h
      /\ \A i \in Ids : poolSparse[i] # Null =>
           /\ poolSparse[i].at \in 1..Len(pool)
           /\ PoolHandles[poolSparse[i].at] = [id |-> i, version |-> poolSparse[i].version]
  BY <1>1, LinkedLookup
<1>3. \A q, r \in 1..Len(pool) : PoolHandles[q].id = PoolHandles[r].id => q = r
  BY <1>1, LinkedOnce
<1> HIDE DEF PoolHandles
<1> QED  BY <1>1, <1>2, <1>3

\* The registry is empty at first.
LEMMA InitInv == Init => Inv
<1> SUFFICES ASSUME Init PROVE Inv
  OBVIOUS
<1>1. Len(packed) = 0 /\ Len(pool) = 0 /\ Len(calls) = 0
  BY DEF Init
<1>2. Typed
  <2>1. sparse \in [Ids -> Where] /\ poolSparse \in [Ids -> Where]
    BY UsableHandles DEF Init
  <2> QED  BY <2>1 DEF Init, Typed
<1>3. Counted
  BY <1>1 DEF Init, Counted, Linked, Ids
<1>4. Owned
  <2>1. DOMAIN PoolHandles = {}
    BY <1>1 DEF Init, PoolHandles
  <2> QED  BY <1>1, <2>1 DEF Init, Owned, Linked
<1>5. Nested
  BY <1>1 DEF Nested
<1> QED  BY <1>2, <1>3, <1>4, <1>5 DEF Inv

\* Creating gives out the next version of a number no entity alive has.
LEMMA CreateStep == Inv /\ Create =>
  /\ Inv'
  /\ \E e \in Usable :
       /\ lives[e.id] \in Nat /\ e.version = lives[e.id] % VersionMask
       /\ lives' = [lives EXCEPT ![e.id] = @ + 1]
       /\ \A h \in Handles : Valid(h)' <=> Valid(h) \/ h = e
       /\ \A h \in Handles : Valid(h) => h.id # e.id
<1> SUFFICES ASSUME Inv, Create
    PROVE  /\ Inv'
           /\ \E e \in Usable :
                /\ lives[e.id] \in Nat /\ e.version = lives[e.id] % VersionMask
                /\ lives' = [lives EXCEPT ![e.id] = @ + 1]
                /\ \A h \in Handles : Valid(h)' <=> Valid(h) \/ h = e
                /\ \A h \in Handles : Valid(h) => h.id # e.id
  OBVIOUS
<1>1. Typed /\ Counted /\ Owned /\ Nested
  BY DEF Inv
<1>2. VersionMask \in Nat /\ VersionMask > 0
  BY EntityStoreAssumption
<1>3. /\ Len(packed) \in Nat /\ packed \in [1..Len(packed) -> Usable] /\ packed \in Seq(Usable)
      /\ sparse \in [Ids -> Where] /\ head \in 0..Len(packed) /\ Linked(packed, sparse)
      /\ lives \in [Ids -> Nat]
  BY <1>1, Arrays DEF Typed, Counted
<1>a. head \in Nat /\ Len(packed) \in Nat /\ head <= Len(packed)
  BY <1>3
<1> DEFINE fresh == head = Len(packed)
<1>4. PICK e : e = IF fresh THEN [id |-> head, version |-> 0] ELSE packed[head + 1]
  OBVIOUS
<1>5. /\ e.id \in Ids /\ head' = head + 1
      /\ packed' = IF fresh THEN Append(packed, e) ELSE packed
      /\ sparse' = At(sparse, e, head + 1)
      /\ lives' = [lives EXCEPT ![e.id] = @ + 1]
      /\ UNCHANGED <<pool, poolSparse, calls>> /\ calls = <<>>
  BY <1>4 DEF Create
<1>6. \A q \in 1..Len(packed) : sparse[packed[q].id] = [at |-> q, version |-> packed[q].version]
  BY <1>3 DEF Linked
<1>7. /\ e \in Usable /\ packed' \in Seq(Usable) /\ head' \in 1..Len(packed')
      /\ Len(packed') \in Nat /\ packed' \in [1..Len(packed') -> Usable]
      /\ Len(packed') = IF fresh THEN Len(packed) + 1 ELSE Len(packed)
      /\ packed'[head'] = e /\ \A q \in 1..Len(packed) : packed'[q] = packed[q]
      /\ \A q \in 1..Len(packed') : q # head' => q \in 1..Len(packed)
  <2>1. CASE fresh
    <3>1. e \in Usable
      BY <1>2, <1>4, <1>5, <2>1 DEF Usable
    <3>2. packed' = Append(packed, e)
      BY <1>5, <2>1
    <3>3. /\ packed' \in Seq(Usable) /\ Len(packed') = Len(packed) + 1
          /\ packed'[Len(packed) + 1] = e
          /\ \A q \in 1..Len(packed) : packed'[q] = packed[q]
      BY <1>3, <3>1, <3>2
    <3>4. packed' \in [1..Len(packed') -> Usable]
      BY <3>3
    <3>5. head' = Len(packed) + 1
      BY <1>5, <2>1
    <3> QED  BY <1>a, <2>1, <3>1, <3>3, <3>4, <3>5
  <2>2. CASE ~fresh
    <3>1. head + 1 \in 1..Len(packed)
      BY <1>a, <2>2
    <3>2. packed' = packed /\ e = packed[head + 1]
      BY <1>4, <1>5, <2>2
    <3> QED  BY <1>3, <1>5, <2>2, <3>1, <3>2
  <2> QED  BY <2>1, <2>2
<1>8. /\ Linked(packed', sparse') /\ sparse' \in [Ids -> Where]
      /\ ~fresh => sparse' = sparse
      /\ fresh => sparse[e.id] = Null /\ e.id = Len(packed) /\ lives[e.id] = 0 /\ e.version = 0
  <2>1. CASE fresh
    <3>1. e.id = Len(packed) /\ e.version = 0
      BY <1>4, <2>1
    <3>2. sparse[e.id] = Null /\ lives[e.id] = 0
      <4>1. IF sparse[e.id] = Null THEN e.id >= Len(packed) /\ lives[e.id] = 0
            ELSE e.id < Len(packed) /\ lives[e.id] > 0
        BY <1>1, <1>5 DEF Counted
      <4>2. ~(e.id < Len(packed))
        BY <1>a, <3>1
      <4> QED  BY <4>1, <4>2
    <3>3. packed' \in [1..(Len(packed) + 1) -> Usable] /\ packed'[Len(packed) + 1] = e
      BY <1>5, <1>7, <2>1
    <3>4. /\ Linked(packed', At(sparse, e, Len(packed) + 1))
          /\ At(sparse, e, Len(packed) + 1) \in [Ids -> Where]
      <4>1. PICK more : more = packed'
        OBVIOUS
      <4>2. /\ more \in [1..(Len(packed) + 1) -> Usable] /\ more[Len(packed) + 1] = e
            /\ \A q \in 1..Len(packed) : more[q] = packed[q]
        BY <1>7, <3>3, <4>1
      <4>3. /\ Linked(more, At(sparse, e, Len(packed) + 1))
            /\ At(sparse, e, Len(packed) + 1) \in [Ids -> Where]
        <5>1. /\ Len(packed) \in Nat /\ packed \in [1..Len(packed) -> Usable]
              /\ sparse \in [Ids -> Where] /\ Linked(packed, sparse)
          BY <1>3
        <5>2. e \in Usable /\ sparse[e.id] = Null
          BY <1>7, <3>2
        <5> HIDE DEF fresh
        <5> QED  BY <4>2, <5>1, <5>2, LinkedAppend
      <4> QED  BY <4>1, <4>3
    <3> QED  BY <1>5, <2>1, <3>1, <3>2, <3>4
  <2>2. CASE ~fresh
    <3>0. head + 1 \in 1..Len(packed)
      BY <1>a, <2>2
    <3>1. head + 1 \in 1..Len(packed) /\ packed' = packed /\ e = packed[head + 1]
      BY <1>4, <1>5, <2>2, <3>0
    <3>2. sparse[e.id] = [at |-> head + 1, version |-> e.version]
      BY <1>6, <3>1
    <3>3. sparse' = sparse
      BY <1>3, <1>5, <3>2 DEF At
    <3> QED  BY <1>3, <2>2, <3>1, <3>3
  <2> QED  BY <2>1, <2>2
<1>9. e.version = lives[e.id] % VersionMask
  <2>1. CASE fresh
    <3>1. (VersionMask * 0 + 0) % VersionMask = 0
      BY <1>2, OneRest
    <3> QED  BY <1>2, <1>8, <2>1, <3>1
  <2>2. CASE ~fresh
    <3>1. head + 1 \in 1..Len(packed) /\ ~(head + 1 <= head)
      BY <1>a, <2>2
    <3>2. e = packed[head + 1]
      BY <1>4, <2>2
    <3> QED  BY <1>1, <3>1, <3>2 DEF Counted
  <2> QED  BY <2>1, <2>2
<1>10. /\ lives' \in [Ids -> Nat] /\ lives'[e.id] = lives[e.id] + 1
       /\ \A i \in Ids : i # e.id => lives'[i] = lives[i]
       /\ \A i \in Ids : i # e.id => sparse'[i] = sparse[i]
       /\ sparse'[e.id] = [at |-> head + 1, version |-> e.version]
  <2>1. /\ lives' \in [Ids -> Nat] /\ lives'[e.id] = lives[e.id] + 1
        /\ \A i \in Ids : i # e.id => lives'[i] = lives[i]
    <3>1. lives \in [Ids -> Nat] /\ e.id \in Ids
      BY <1>3, <1>5
    <3>2. lives' = [lives EXCEPT ![e.id] = @ + 1]
      BY <1>5
    <3>3. lives[e.id] \in Nat
      BY <3>1
    <3> QED  BY <3>1, <3>2, <3>3
  <2>2. sparse' = [sparse EXCEPT ![e.id] = [at |-> head + 1, version |-> e.version]]
    BY <1>5 DEF At
  <2>3. PICK w : w = [at |-> head + 1, version |-> e.version]
    OBVIOUS
  <2>4. sparse' = [sparse EXCEPT ![e.id] = w]
    BY <2>2, <2>3
  <2>5. (\A i \in Ids : i # e.id => sparse'[i] = sparse[i]) /\ sparse'[e.id] = w
    BY <1>3, <1>5, <2>4
  <2> QED  BY <2>1, <2>3, <2>5
<1>11. Counted'
  <2>1. \A i \in Ids : IF sparse'[i] = Null THEN i >= Len(packed') /\ lives'[i] = 0
                       ELSE i < Len(packed') /\ lives'[i] > 0
    <3> SUFFICES ASSUME NEW i \in Ids
                 PROVE  IF sparse'[i] = Null THEN i >= Len(packed') /\ lives'[i] = 0
                        ELSE i < Len(packed') /\ lives'[i] > 0
      OBVIOUS
    <3>1. /\ IF sparse[i] = Null THEN i >= Len(packed) /\ lives[i] = 0
             ELSE i < Len(packed) /\ lives[i] > 0
          /\ i \in Nat /\ lives[i] \in Nat
      BY <1>1, <1>3 DEF Counted, Ids
    <3>2. CASE i = e.id
      <4>1. sparse'[i] # Null
        BY <1>3, <1>10, <3>2 DEF Null
      <4>2. lives'[i] > 0
        BY <1>10, <3>1, <3>2
      <4>3. i < Len(packed')
        <5>1. CASE fresh
          BY <1>3, <1>7, <1>8, <3>2, <5>1
        <5>2. CASE ~fresh
          <6>1. sparse[i] # Null /\ Len(packed') = Len(packed)
            BY <1>7, <1>8, <4>1, <5>2
          <6> QED  BY <3>1, <6>1
        <5> QED  BY <5>1, <5>2
      <4> QED  BY <4>1, <4>2, <4>3
    <3>3. CASE i # e.id
      <4>1. sparse'[i] = sparse[i] /\ lives'[i] = lives[i]
        BY <1>10, <3>3
      <4>2. Len(packed') = Len(packed) \/ (Len(packed') = Len(packed) + 1 /\ e.id = Len(packed))
        BY <1>7, <1>8
      <4> QED  BY <1>3, <3>1, <3>3, <4>1, <4>2
    <3> QED  BY <3>2, <3>3
  <2>2. \A q \in 1..Len(packed') :
          packed'[q].version = (IF q <= head' THEN lives'[packed'[q].id] - 1
                                ELSE lives'[packed'[q].id]) % VersionMask
    <3> SUFFICES ASSUME NEW q \in 1..Len(packed')
                 PROVE  packed'[q].version = (IF q <= head' THEN lives'[packed'[q].id] - 1
                                              ELSE lives'[packed'[q].id]) % VersionMask
      OBVIOUS
    <3>1. CASE q = head'
      <4>1. lives[e.id] \in Nat
        BY <1>3, <1>5
      <4>2. packed'[q] = e /\ q <= head' /\ lives'[e.id] - 1 = lives[e.id]
        BY <1>a, <1>5, <1>7, <1>10, <3>1, <4>1
      <4> QED  BY <1>9, <4>2
    <3>2. CASE q # head'
      <4>0. q \in 1..Len(packed)
        BY <1>7, <3>2
      <4>1. /\ q \in 1..Len(packed) /\ packed'[q] = packed[q] /\ packed[q].id \in Ids
            /\ q <= head' <=> q <= head
        <5>1. packed'[q] = packed[q]
          BY <1>7, <4>0
        <5>2. packed[q].id \in Ids
          BY <1>3, <4>0, UsableHandles
        <5>3. q <= head' <=> q <= head
          BY <1>a, <1>5, <3>2
        <5> QED  BY <4>0, <5>1, <5>2, <5>3
      <4>2. packed'[q].id # e.id
        <5>1. packed' \in [1..Len(packed') -> Usable] /\ Len(packed') \in Nat
          BY <1>7
        <5>2. packed'[q].id = packed'[head'].id => q = head'
          BY <1>7, <1>8, <5>1, LinkedOnce
        <5> QED  BY <1>7, <3>2, <5>2
      <4>3. lives'[packed'[q].id] = lives[packed[q].id]
        BY <1>10, <4>1, <4>2
      <4>4. packed[q].version = (IF q <= head THEN lives[packed[q].id] - 1
                                 ELSE lives[packed[q].id]) % VersionMask
        BY <1>1, <4>1 DEF Counted
      <4> QED  BY <4>1, <4>3, <4>4
    <3> QED  BY <3>1, <3>2
  <2> QED  BY <1>8, <2>1, <2>2 DEF Counted
<1>12. Typed'
  BY <1>1, <1>5, <1>7, <1>8, <1>10 DEF Typed
<1>13. \A h \in Handles : Valid(h)' <=> Valid(h) \/ h = e
  <2>1. \A h \in Handles : Valid(h) <=> \E q \in 1..head : packed[q] = h
    BY <1>1, ValidPlace
  <2>2. (\A h \in Handles : Valid(h) <=> \E q \in 1..head : packed[q] = h)'
    BY <1>11, <1>12, ValidPlace, PTL
  <2>3. \A q : q \in 1..head' <=> q \in 1..head \/ q = head'
    BY <1>a, <1>5
  <2>4. \A q \in 1..head : packed'[q] = packed[q]
    <3>1. \A q \in 1..head : q \in 1..Len(packed)
      BY <1>a
    <3> QED  BY <3>1, <1>7
  <2> QED  BY <1>7, <2>1, <2>2, <2>3, <2>4
<1>14. \A h \in Handles : Valid(h) => h.id # e.id
  <2> SUFFICES ASSUME NEW h \in Handles, Valid(h), h.id = e.id  PROVE FALSE
    OBVIOUS
  <2>1. PICK q \in 1..head : packed[q] = h
    BY <1>1, ValidPlace
  <2>2. q \in 1..Len(packed') /\ packed'[q] = h /\ q # head'
    <3>1. q \in 1..Len(packed) /\ q # head'
      BY <1>a, <1>5, <2>1
    <3>2. Len(packed') = Len(packed) \/ Len(packed') = Len(packed) + 1
      BY <1>7
    <3>3. q \in 1..Len(packed')
      BY <1>a, <3>1, <3>2
    <3> QED  BY <1>7, <2>1, <3>1, <3>3
  <2>3. packed'[q].id = packed'[head'].id => q = head'
    BY <1>7, <1>8, <2>2, LinkedOnce
  <2> QED  BY <1>7, <2>2, <2>3
<1>15. Owned'
  <2>1. PoolHandles' = PoolHandles
    BY <1>5 DEF PoolHandles
  <2>2. \A q \in 1..Len(pool) : Valid(pool[q].entity)'
    <3> SUFFICES ASSUME NEW q \in 1..Len(pool)  PROVE Valid(pool[q].entity)'
      OBVIOUS
    <3>1. PICK h : h = pool[q].entity
      OBVIOUS
    <3>2. h \in Handles /\ Valid(h)
      BY <1>1, <3>1, Arrays, UsableHandles DEF Owned, Component
    <3>3. Valid(h)'
      BY <1>13, <3>2
    <3>4. h = pool'[q].entity
      BY <1>5, <3>1
    <3> QED  BY <1>5, <3>1, <3>3 DEF Valid
  <2> QED  BY <1>1, <1>5, <2>1, <2>2 DEF Owned, Valid
<1>16. Nested'
  BY <1>5 DEF Nested
<1> QED  BY <1>3, <1>5, <1>7, <1>9, <1>11, <1>12, <1>13, <1>14, <1>15, <1>16 DEF Inv, Usable

\* A component goes to the end of the pool; nothing is being destroyed.
LEMMA EmplaceStep ==
  ASSUME NEW e \in Handles, NEW handles \in BoundedSeq(Nameable(e), MaxNamed),
         Inv, Emplace(e, handles)
  PROVE  /\ Inv'
         /\ handles \in Seq(Usable)
         /\ pool' = Append(pool, [entity |-> e, names |-> handles])
         /\ \A h \in Handles : Contained(poolSparse, h)' <=> Contained(poolSparse, h) \/ h = e
         /\ \A h \in Handles : Contained(poolSparse, h) => NamesIn(pool', poolSparse', h) = NamesIn(pool, poolSparse, h)
         /\ NamesIn(pool', poolSparse', e) = handles
<1>1. Typed /\ Counted /\ Owned /\ Nested
  BY DEF Inv
<1>2. /\ Len(pool) \in Nat /\ pool \in [1..Len(pool) -> Component] /\ pool \in Seq(Component)
      /\ PoolHandles \in [1..Len(pool) -> Usable]
      /\ \A q \in 1..Len(pool) : PoolHandles[q] = pool[q].entity
      /\ poolSparse \in [Ids -> Where] /\ Linked(PoolHandles, poolSparse)
  BY <1>1, Arrays DEF Typed, Owned
<1>3. /\ calls = <<>> /\ Valid(e) /\ ~Contained(poolSparse, e)
      /\ pool' = Append(pool, [entity |-> e, names |-> handles])
      /\ poolSparse' = At(poolSparse, e, Len(pool) + 1)
      /\ UNCHANGED <<store, calls>>
  BY DEF Emplace
<1>4. e \in Usable /\ e.id \in Ids
  BY <1>1, <1>3, ValidUsable, UsableHandles
<1>5. /\ handles \in Seq(Usable)
      /\ \A j \in 1..Len(handles) : handles[j].id > e.id
  <2>1. PICK m \in 0..MaxNamed : handles \in [1..m -> Nameable(e)]
    BY DEF BoundedSeq, SeqOf
  <2>2. m \in Nat
    BY EntityStoreAssumption
  <2>3. handles \in Seq(Nameable(e)) /\ Len(handles) = m
    BY <2>1, <2>2
  <2>4. Nameable(e) \subseteq Usable /\ \A h \in Nameable(e) : h.id > e.id
    BY EntityStoreAssumption DEF Nameable, Handles, Usable
  <2> QED  BY <2>1, <2>3, <2>4
<1>6. poolSparse[e.id] = Null
  <2> SUFFICES ASSUME poolSparse[e.id] # Null  PROVE FALSE
    OBVIOUS
  <2>1. PICK q \in 1..Len(pool) : pool[q].entity = [id |-> e.id, version |-> poolSparse[e.id].version]
    BY <1>1, <1>4, PoolPlace
  <2>2. Valid(pool[q].entity) /\ pool[q].entity.id = e.id /\ pool[q].entity \in Handles
    BY <1>1, <1>2, <2>1, UsableHandles DEF Owned, Component
  <2>3. pool[q].entity = e
    BY <1>1, <1>3, <2>2, ValidUsable
  <2> QED  BY <1>1, <1>3, <2>3, PoolPlace
<1>7. PICK c : c = [entity |-> e, names |-> handles]
  OBVIOUS
<1>8. /\ pool' \in Seq(Component) /\ Len(pool') = Len(pool) + 1 /\ pool'[Len(pool) + 1] = c
      /\ \A q \in 1..Len(pool) : pool'[q] = pool[q]
      /\ c \in Component /\ c.entity = e /\ c.names = handles
  <2>1. c \in Component /\ c.entity = e /\ c.names = handles
    BY <1>4, <1>5, <1>7 DEF Component
  <2>2. pool' = Append(pool, c)
    BY <1>3, <1>7
  <2> QED  BY <1>2, <2>1, <2>2
<1>9. /\ Linked(PoolHandles', poolSparse') /\ poolSparse' \in [Ids -> Where]
  <2>1. PICK more : more = PoolHandles'
    OBVIOUS
  <2>2. DOMAIN pool' = 1..(Len(pool) + 1)
    BY <1>2, <1>8
  <2>3. /\ more \in [1..(Len(pool) + 1) -> Usable] /\ more[Len(pool) + 1] = e
        /\ \A q \in 1..Len(pool) : more[q] = PoolHandles[q]
    <3>1. more = [q \in 1..(Len(pool) + 1) |-> pool'[q].entity]
      BY <2>1, <2>2 DEF PoolHandles
    <3>2. \A q \in 1..(Len(pool) + 1) : pool'[q].entity \in Usable
      <4> SUFFICES ASSUME NEW q \in 1..(Len(pool) + 1)  PROVE pool'[q].entity \in Usable
        OBVIOUS
      <4>1. CASE q = Len(pool) + 1
        BY <1>4, <1>8, <4>1
      <4>2. CASE q \in 1..Len(pool)
        BY <1>2, <1>8, <4>2 DEF Component
      <4> QED  BY <1>2, <4>1, <4>2
    <3> QED  BY <1>2, <1>8, <3>1, <3>2
  <2>4. /\ Linked(more, At(poolSparse, e, Len(pool) + 1))
        /\ At(poolSparse, e, Len(pool) + 1) \in [Ids -> Where]
    BY <1>2, <1>4, <1>6, <2>3, LinkedAppend
  <2> QED  BY <1>3, <2>1, <2>4
<1>10. Typed'
  BY <1>1, <1>3, <1>8, <1>9 DEF Typed, store
<1>11. Counted'
  BY <1>1, <1>3 DEF Counted, store
<1>12. \A h : Valid(h)' <=> Valid(h)
  BY <1>3 DEF Valid, store
<1>13. Owned'
  <2>1. \A q \in 1..Len(pool') :
          /\ Valid(pool'[q].entity)
          /\ \A j \in 1..Len(pool'[q].names) : pool'[q].names[j].id > pool'[q].entity.id
    <3> SUFFICES ASSUME NEW q \in 1..Len(pool')
          PROVE  /\ Valid(pool'[q].entity)
                 /\ \A j \in 1..Len(pool'[q].names) : pool'[q].names[j].id > pool'[q].entity.id
      OBVIOUS
    <3>1. CASE q = Len(pool) + 1
      BY <1>3, <1>5, <1>8, <3>1
    <3>2. CASE q \in 1..Len(pool)
      BY <1>1, <1>8, <3>2 DEF Owned
    <3> QED  BY <1>2, <1>8, <3>1, <3>2
  <2> QED  BY <1>3, <1>9, <2>1 DEF Owned, Valid, store
<1>14. Nested'
  BY <1>3 DEF Nested
<1>15. \A h \in Handles : Contained(poolSparse, h)' <=> Contained(poolSparse, h) \/ h = e
  <2>1. (\A q \in 1..Len(pool) :
           Contained(poolSparse, pool[q].entity) /\ poolSparse[pool[q].entity.id].at = q)'
    BY <1>10, <1>13, PoolPlace, PTL
  <2>2. Contained(poolSparse, e)'
    BY <1>2, <1>8, <2>1
  <2>3. ASSUME NEW h \in Handles, h # e
        PROVE  Contained(poolSparse, h)' <=> Contained(poolSparse, h)
    <3>1. CASE h.id # e.id
      <4>1. poolSparse'[h.id] = poolSparse[h.id]
        BY <1>2, <1>3, <1>4, <3>1 DEF At, Handles
      <4> QED  BY <4>1 DEF Contained
    <3>2. CASE h.id = e.id
      <4>1. h.version # e.version
        BY <2>3, <3>2 DEF Handles
      <4>2. poolSparse'[e.id].version = e.version
        BY <2>2 DEF Contained
      <4> QED  BY <1>6, <3>2, <4>1, <4>2 DEF Contained
    <3> QED  BY <3>1, <3>2
  <2> QED  BY <1>3, <2>2, <2>3
<1>16. \A h \in Handles : Contained(poolSparse, h) => NamesIn(pool', poolSparse', h) = NamesIn(pool, poolSparse, h)
  <2> SUFFICES ASSUME NEW h \in Handles, Contained(poolSparse, h)
               PROVE  NamesIn(pool', poolSparse', h) = NamesIn(pool, poolSparse, h)
    OBVIOUS
  <2>1. h.id # e.id /\ h.id \in Ids
    BY <1>6 DEF Contained, Handles
  <2>2. poolSparse'[h.id] = poolSparse[h.id] /\ poolSparse[h.id].at \in 1..Len(pool)
    BY <1>1, <1>2, <1>3, <1>4, <2>1, PoolPlace DEF At
  <2> QED  BY <1>8, <2>2 DEF NamesIn
<1>17. NamesIn(pool', poolSparse', e) = handles
  <2>1. poolSparse'[e.id] = [at |-> Len(pool) + 1, version |-> e.version]
    BY <1>2, <1>3, <1>4 DEF At
  <2> QED  BY <1>8, <2>1 DEF NamesIn
<1> QED  BY <1>3, <1>5, <1>10, <1>11, <1>13, <1>14, <1>15, <1>16, <1>17 DEF Inv

\* A call finds the collection of its entity, if it has one.
LEMMA CallBegins ==
  ASSUME Typed, Counted, Owned, NEW e \in Handles, Valid(e)
  PROVE  /\ Call(e) \in Frame /\ Call(e).entity = e /\ e \in Usable
         /\ Contained(poolSparse, e) => Call(e).at # 0 /\ Call(e).rest = NamesIn(pool, poolSparse, e)
         /\ ~Contained(poolSparse, e) => Call(e).at = 0 /\ Call(e).rest = <<>>
         /\ Contained(poolSparse, e) => NamesIn(pool, poolSparse, e) \in Seq(Usable)
<1>1. e \in Usable
  BY ValidUsable
<1>2. CASE Contained(poolSparse, e)
  <2>1. poolSparse[e.id].at \in 1..Len(pool)
    BY <1>2, PoolPlace
  <2>2. NamesIn(pool, poolSparse, e) \in Seq(Usable)
    BY <2>1, Arrays DEF NamesIn, Component
  <2>3. Call(e) = [entity |-> e, at |-> poolSparse[e.id].at, rest |-> NamesIn(pool, poolSparse, e)]
    BY <1>2, <2>1 DEF Call, NamesIn
  <2> QED  BY <1>1, <1>2, <2>1, <2>2, <2>3, Arrays DEF Frame
<1>3. CASE ~Contained(poolSparse, e)
  <2>1. Call(e) = [entity |-> e, at |-> 0, rest |-> <<>>]
    BY <1>3 DEF Call
  <2> QED  BY <1>1, <1>3, <2>1 DEF Frame
<1> QED  BY <1>2, <1>3

\* The collections calls go through are sequences of handles.
LEMMA NamesUsable ==
  Typed /\ Owned => \A h \in Handles : Contained(poolSparse, h) =>
    /\ NamesIn(pool, poolSparse, h) \in Seq(Usable)
    /\ \A j \in 1..Len(NamesIn(pool, poolSparse, h)) : NamesIn(pool, poolSparse, h)[j].id > h.id
<1> SUFFICES ASSUME Typed, Owned, NEW h \in Handles, Contained(poolSparse, h)
             PROVE  /\ NamesIn(pool, poolSparse, h) \in Seq(Usable)
                    /\ \A j \in 1..Len(NamesIn(pool, poolSparse, h)) : NamesIn(pool, poolSparse, h)[j].id > h.id
  OBVIOUS
<1>1. PICK at \in 1..Len(pool) : at = poolSparse[h.id].at /\ pool[at].entity = h
  BY PoolPlace
<1>2. NamesIn(pool, poolSparse, h) = pool[at].names /\ pool[at] \in Component
  BY <1>1, Arrays DEF NamesIn
<1> QED  BY <1>1, <1>2 DEF Owned, Component

\* A call as it begins, and one nothing happened to.
LEMMA LoopBegins ==
  ASSUME NEW cs, NEW components, NEW sp, NEW live, NEW k, NEW c, c = cs[k],
         Contained(sp, c.entity) =>
           /\ c.at # 0 /\ c.rest = NamesIn(components, sp, c.entity)
           /\ c.rest \in Seq(Usable),
         ~Contained(sp, c.entity) => c.at = 0 /\ c.rest = <<>>
  PROVE  Loop(cs, components, sp, live, k)
<1>1. CASE Contained(sp, c.entity)
  <2>1. /\ c.at # 0 /\ c.rest = NamesIn(components, sp, c.entity)
        /\ Len(c.rest) \in Nat
    BY <1>1
  <2>2. Len(c.rest) - Len(c.rest) = 0
    BY <2>1
  <2>3. \A i \in 1..Len(c.rest) : 0 + i = i
    OBVIOUS
  <2> QED  BY <1>1, <2>1, <2>2, <2>3 DEF Loop
<1>2. CASE ~Contained(sp, c.entity)
  BY <1>2 DEF Loop
<1> QED  BY <1>1, <1>2

LEMMA LoopKept ==
  ASSUME NEW cs, NEW components, NEW sp, NEW live, NEW k,
         NEW cs2, NEW components2, NEW sp2, NEW live2,
         Loop(cs, components, sp, live, k),
         cs2[k] = cs[k],
         Contained(sp2, cs[k].entity) <=> Contained(sp, cs[k].entity),
         Contained(sp, cs[k].entity) =>
           NamesIn(components2, sp2, cs[k].entity) = NamesIn(components, sp, cs[k].entity),
         live2 \subseteq live,
         k < Len(cs) /\ cs[k + 1].entity \in live2 => k < Len(cs2) /\ cs2[k + 1].entity = cs[k + 1].entity
  PROVE  Loop(cs2, components2, sp2, live2, k)
<1>1. CASE Contained(sp, cs[k].entity)
  BY <1>1 DEF Loop
<1>2. CASE ~Contained(sp, cs[k].entity)
  BY <1>2 DEF Loop
<1> QED  BY <1>1, <1>2

\* registry.destroy from game code: the first call of a cascade.
LEMMA DestroyStep ==
  ASSUME NEW e \in Handles, Inv, Destroy(e)
  PROVE  Inv'
<1>1. Typed /\ Counted /\ Owned /\ Nested
  BY DEF Inv
<1>2. Valid(e) /\ calls' = <<Call(e)>> /\ UNCHANGED <<store, pool, poolSparse>>
  BY DEF Destroy
<1>3. PICK c : c = Call(e)
  OBVIOUS
<1>4. /\ c \in Frame /\ c.entity = e /\ e \in Usable
      /\ Contained(poolSparse, e) =>
           c.at # 0 /\ c.rest = NamesIn(pool, poolSparse, e) /\ c.rest \in Seq(Usable)
      /\ ~Contained(poolSparse, e) => c.at = 0 /\ c.rest = <<>>
  BY <1>1, <1>2, <1>3, CallBegins
<1>5. calls' \in Seq(Frame) /\ Len(calls') = 1 /\ calls'[1] = c
  BY <1>2, <1>3, <1>4
<1>6. Typed'
  BY <1>1, <1>2, <1>5 DEF Typed, store
<1>7. Counted' /\ Owned' /\ Alive' = Alive
  BY <1>1, <1>2 DEF Counted, Owned, PoolHandles, Alive, Valid, store
<1>8. e \in Alive
  BY <1>2 DEF Alive
<1>9. Loop(calls', pool', poolSparse', Alive', 1)
  <2>1. pool' = pool /\ poolSparse' = poolSparse
    BY <1>2
  <2>2. Loop(calls', pool, poolSparse, Alive', 1)
    BY <1>4, <1>5, LoopBegins
  <2> QED  BY <2>1, <2>2
<1>10. \A k \in 1..Len(calls') : k = 1
  BY <1>5
<1>11. \A k \in 1..Len(calls') :
         calls'[k].entity \in Alive' /\ Loop(calls', pool', poolSparse', Alive', k)
  BY <1>4, <1>5, <1>7, <1>8, <1>9, <1>10
<1>12. \A k, l \in 1..Len(calls') : k < l => calls'[k].entity.id < calls'[l].entity.id
  <2>1. ~(1 < 1)
    OBVIOUS
  <2> QED  BY <1>10, <2>1
<1> QED  BY <1>6, <1>7, <1>11, <1>12 DEF Inv, Nested

\* The listener's loop takes a handle: a dead one is skipped, for one alive a
\* nested call begins.
LEMMA VisitStep ==
  ASSUME Inv, Visit
  PROVE  Inv'
<1>1. Typed /\ Counted /\ Owned /\ Nested
  BY DEF Inv
<1>2. PICK n \in Nat : n = Len(calls) /\ calls \in [1..n -> Frame] /\ calls \in Seq(Frame)
  BY <1>1, Arrays DEF Typed
<1>3. n \in 1..n /\ n > 0
  BY <1>2 DEF Visit
<1>4. PICK c \in Frame : c = calls[n]
  BY <1>2, <1>3
<1>5. c = Last(calls) /\ c.rest # <<>> /\ c.rest \in Seq(Usable) /\ c.entity \in Usable
  BY <1>2, <1>4 DEF Visit, Last, Frame
<1>6. /\ Len(c.rest) \in Nat /\ Len(c.rest) > 0 /\ Head(c.rest) = c.rest[1] /\ c.rest[1] \in Usable
      /\ Tail(c.rest) \in Seq(Usable) /\ Len(Tail(c.rest)) = Len(c.rest) - 1
      /\ \A i \in 1..(Len(c.rest) - 1) : Tail(c.rest)[i] = c.rest[i + 1]
  BY <1>5
<1>7. PICK e : e = Head(c.rest)
  OBVIOUS
<1>8. PICK d : d = [entity |-> c.entity, at |-> c.at, rest |-> Tail(c.rest)]
  OBVIOUS
<1>9. d \in Frame /\ d.entity = c.entity /\ d.at = c.at /\ d.rest = Tail(c.rest)
  BY <1>4, <1>5, <1>6, <1>8 DEF Frame
<1>10. PICK here : here = [calls EXCEPT ![n].rest = Tail(@)]
  OBVIOUS
<1>11. /\ here \in Seq(Frame) /\ Len(here) = n /\ here[n] = d
       /\ \A k \in 1..n : k # n => here[k] = calls[k]
  <2>1. PICK r : r = Tail(c.rest)
    OBVIOUS
  <2>a. [c EXCEPT !.rest = r] = [entity |-> c.entity, at |-> c.at, rest |-> r]
    BY <1>4 DEF Frame
  <2>2. [c EXCEPT !.rest = Tail(c.rest)] = d
    BY <1>8, <2>1, <2>a
  <2>3. here = [calls EXCEPT ![n] = d]
    BY <1>2, <1>3, <1>4, <1>10, <2>2
  <2>4. here \in [1..n -> Frame] /\ here[n] = d /\ \A k \in 1..n : k # n => here[k] = calls[k]
    BY <1>2, <1>3, <1>9, <2>3
  <2>5. here \in Seq(Frame)
    BY <2>4
  <2>6. Len(here) = n
    BY <2>4, <2>5, LenProperties
  <2> QED  BY <2>4, <2>5, <2>6
<1>12. /\ calls' = IF Valid(e) THEN Append(here, Call(e)) ELSE here
       /\ UNCHANGED <<store, pool, poolSparse>>
  BY <1>2, <1>5, <1>7, <1>10 DEF Visit
<1>13. e \in Usable /\ e \in Handles /\ e = c.rest[1]
  BY <1>6, <1>7, UsableHandles
<1>14. PICK f : f = Call(e)
  OBVIOUS
<1>15. Valid(e) =>
       /\ f \in Frame /\ f.entity = e
       /\ Contained(poolSparse, e) =>
            f.at # 0 /\ f.rest = NamesIn(pool, poolSparse, e) /\ f.rest \in Seq(Usable)
       /\ ~Contained(poolSparse, e) => f.at = 0 /\ f.rest = <<>>
  BY <1>1, <1>13, <1>14, CallBegins
<1>16. /\ calls' \in Seq(Frame)
       /\ Len(calls') = IF Valid(e) THEN n + 1 ELSE n
       /\ calls'[n] = d
       /\ Valid(e) => calls'[n + 1] = f
       /\ \A k \in 1..n : k # n => calls'[k] = calls[k]
  <2>1. CASE Valid(e)
    <3>1. calls' = Append(here, f) /\ f \in Frame
      BY <1>12, <1>14, <1>15, <2>1
    <3>2. /\ calls' \in Seq(Frame) /\ Len(calls') = n + 1 /\ calls'[n + 1] = f
          /\ \A k \in 1..n : calls'[k] = here[k]
      BY <1>11, <3>1
    <3> QED  BY <1>3, <1>11, <2>1, <3>2
  <2>2. CASE ~Valid(e)
    BY <1>11, <1>12, <2>2
  <2> QED  BY <2>1, <2>2
<1>17. Typed'
  BY <1>1, <1>12, <1>16 DEF Typed, store
<1>18. Counted' /\ Owned' /\ Alive' = Alive /\ pool' = pool /\ poolSparse' = poolSparse
  BY <1>1, <1>12 DEF Counted, Owned, PoolHandles, Alive, Valid, store
\* The handle is one the collection names, above its entity.
<1>19. Loop(calls, pool, poolSparse, Alive, n) /\ ~(n < Len(calls))
  BY <1>1, <1>2, <1>3 DEF Nested
<1>20. Contained(poolSparse, c.entity) /\ c.at # 0
  BY <1>4, <1>5, <1>19 DEF Loop
<1>21. PICK names \in Seq(Usable) : names = NamesIn(pool, poolSparse, c.entity)
  BY <1>1, <1>5, <1>20, NamesUsable, UsableHandles
<1>22. PICK v \in Nat : v = Len(names) - Len(c.rest)
  <2>1. Len(names) - Len(c.rest) >= 0
    BY <1>4, <1>19, <1>20, <1>21 DEF Loop
  <2>2. Len(names) \in Nat
    BY <1>21
  <2>3. Len(names) - Len(c.rest) \in Nat
    BY <1>6, <2>1, <2>2
  <2> QED  BY <2>3
<1>23. /\ \A i \in 1..Len(c.rest) : c.rest[i] = names[v + i]
       /\ \A i \in 1..v : names[i] \notin Alive
  BY <1>4, <1>19, <1>20, <1>21, <1>22 DEF Loop
<1>24. Len(names) \in Nat /\ v + 1 \in 1..Len(names) /\ names[v + 1] = e
  <2>1. Len(names) \in Nat /\ v + 1 \in 1..Len(names)
    BY <1>6, <1>21, <1>22
  <2>2. 1 \in 1..Len(c.rest)
    BY <1>6
  <2> QED  BY <1>13, <1>23, <2>1, <2>2
<1>25. e.id > c.entity.id
  BY <1>1, <1>5, <1>20, <1>21, <1>24, NamesUsable, UsableHandles
<1>26. Loop(calls', pool', poolSparse', Alive', n)
  <2>1. /\ calls'[n] = d /\ Contained(poolSparse', d.entity) /\ NamesIn(pool', poolSparse', d.entity) = names
        /\ d.at # 0
    BY <1>9, <1>16, <1>18, <1>20, <1>21
  <2>2. Len(d.rest) = Len(c.rest) - 1
    BY <1>6, <1>9
  <2>3. Len(names) - Len(d.rest) = v + 1 /\ v + 1 >= 0
    BY <1>6, <1>22, <1>24, <2>2
  <2>4. \A i \in 1..Len(d.rest) : d.rest[i] = names[(v + 1) + i]
    <3> SUFFICES ASSUME NEW i \in 1..Len(d.rest)  PROVE d.rest[i] = names[(v + 1) + i]
      OBVIOUS
    <3>1. i \in 1..(Len(c.rest) - 1)
      BY <2>2
    <3>2. i + 1 \in 1..Len(c.rest) /\ v + (i + 1) = (v + 1) + i
      BY <1>6, <3>1
    <3>3. d.rest[i] = c.rest[i + 1]
      BY <1>6, <1>9, <3>1
    <3> QED  BY <1>23, <3>2, <3>3
  <2>5. \A i \in 1..(v + 1) : names[i] \in Alive' => n < Len(calls') /\ names[i] = calls'[n + 1].entity
    <3> SUFFICES ASSUME NEW i \in 1..(v + 1), names[i] \in Alive
                 PROVE  n < Len(calls') /\ names[i] = calls'[n + 1].entity
      BY <1>18
    <3>1. i = v + 1
      BY <1>23
    <3>2. names[i] = e /\ Valid(e)
      BY <1>24, <3>1 DEF Alive
    <3>3. Len(calls') = n + 1 /\ calls'[n + 1] = f /\ f.entity = e
      BY <1>15, <1>16, <3>2
    <3> QED  BY <3>2, <3>3
  <2> QED  BY <2>1, <2>3, <2>4, <2>5 DEF Loop
<1>27. /\ n <= Len(calls') /\ Len(calls') \in Nat
       /\ \A k \in 1..n : calls'[k].entity = calls[k].entity
       /\ \A k \in 1..Len(calls') : k \in 1..n \/ (k = n + 1 /\ Valid(e))
  <2>1. \A k \in 1..n : calls'[k].entity = calls[k].entity
    BY <1>4, <1>9, <1>16
  <2>2. Len(calls') = n \/ (Len(calls') = n + 1 /\ Valid(e))
    BY <1>16
  <2> QED  BY <2>1, <2>2
<1>28. ASSUME NEW k \in 1..n, k # n
       PROVE  Loop(calls', pool', poolSparse', Alive', k)
  <2>1. k + 1 \in 1..n /\ k < Len(calls')
    BY <1>27, <1>28
  <2>2. calls'[k] = calls[k] /\ calls'[k + 1].entity = calls[k + 1].entity
    BY <1>16, <1>27, <1>28, <2>1
  <2>3. Loop(calls, pool, poolSparse, Alive, k)
    BY <1>1, <1>2 DEF Nested
  <2>4. Loop(calls', pool, poolSparse, Alive, k)
    BY <2>1, <2>2, <2>3, LoopKept
  <2> QED  BY <1>18, <2>4
<1>29. Valid(e) => Loop(calls', pool', poolSparse', Alive', n + 1)
  <2> SUFFICES ASSUME Valid(e)  PROVE Loop(calls', pool, poolSparse, Alive, n + 1)
    BY <1>18
  <2> QED  BY <1>15, <1>16, LoopBegins
<1>30. \A k \in 1..Len(calls') :
         calls'[k].entity \in Alive' /\ Loop(calls', pool', poolSparse', Alive', k)
  <2> SUFFICES ASSUME NEW k \in 1..Len(calls')
               PROVE  calls'[k].entity \in Alive /\ Loop(calls', pool', poolSparse', Alive', k)
    BY <1>18
  <2>1. CASE k \in 1..n
    <3>1. calls'[k].entity \in Alive
      BY <1>1, <1>2, <1>27, <2>1 DEF Nested
    <3> QED  BY <1>26, <1>28, <2>1, <3>1
  <2>2. CASE k = n + 1 /\ Valid(e)
    <3>1. calls'[k].entity \in Alive
      BY <1>13, <1>15, <1>16, <2>2 DEF Alive
    <3> QED  BY <1>29, <2>2, <3>1
  <2> QED  BY <1>27, <2>1, <2>2
<1>31. \A k, l \in 1..Len(calls') : k < l => calls'[k].entity.id < calls'[l].entity.id
  <2>1. \A k, l \in 1..n : k < l => calls[k].entity.id < calls[l].entity.id
    BY <1>1, <1>2 DEF Nested
  <2> SUFFICES ASSUME NEW k \in 1..Len(calls'), NEW l \in 1..Len(calls'), k < l
               PROVE  calls'[k].entity.id < calls'[l].entity.id
    OBVIOUS
  <2>2. CASE l \in 1..n
    <3>1. k \in 1..n
      BY <2>2
    <3> QED  BY <1>27, <2>1, <2>2, <3>1
  <2>3. CASE l = n + 1 /\ Valid(e)
    <3>1. k \in 1..n
      BY <2>3
    <3>2. calls'[l].entity = e
      BY <1>15, <1>16, <2>3
    <3>3. calls[k].entity.id = c.entity.id \/ calls[k].entity.id < c.entity.id
      <4>1. k = n \/ k < n
        BY <3>1
      <4> QED  BY <1>3, <1>4, <2>1, <3>1, <4>1
    <3>4. calls[k].entity.id \in Nat /\ c.entity.id \in Nat /\ e.id \in Nat
      <4>1. calls[k].entity \in Usable
        BY <1>2, <3>1 DEF Frame
      <4>2. \A h \in Usable : h.id \in Nat
        BY UsableHandles DEF Ids
      <4> QED  BY <1>5, <1>13, <4>1, <4>2
    <3>5. calls[k].entity.id < e.id
      BY <1>25, <3>3, <3>4
    <3> QED  BY <1>27, <3>1, <3>2, <3>5
  <2> QED  BY <1>27, <2>2, <2>3
<1> QED  BY <1>17, <1>18, <1>30, <1>31 DEF Inv, Nested

\* The swap and pop of a component: the other entities keep theirs.
LEMMA PoolPops ==
  ASSUME Typed, Owned, NEW e \in Handles, Contained(poolSparse, e),
         pool' = Popped(poolSparse[e.id].at), poolSparse' = PoppedSparse(poolSparse[e.id].at)
  PROVE  /\ pool' \in Seq(Component) /\ poolSparse' \in [Ids -> Where]
         /\ Linked(PoolHandles', poolSparse')
         /\ \A q \in 1..Len(pool') : \E r \in 1..Len(pool) : pool'[q] = pool[r] /\ pool[r].entity # e
         /\ \A h \in Handles : Contained(poolSparse', h) <=> Contained(poolSparse, h) /\ h # e
         /\ \A h \in Handles : Contained(poolSparse, h) /\ h # e =>
              NamesIn(pool', poolSparse', h) = NamesIn(pool, poolSparse, h)
<1>1. PICK n \in Nat : n = Len(pool)
  BY Arrays
<1>2. /\ pool \in [1..n -> Component] /\ pool \in Seq(Component) /\ DOMAIN pool = 1..n
      /\ PoolHandles \in [1..n -> Usable]
      /\ \A q \in 1..n : PoolHandles[q] = pool[q].entity
      /\ poolSparse \in [Ids -> Where] /\ Linked(PoolHandles, poolSparse)
  BY <1>1, Arrays DEF Typed, Owned
<1>3. PICK at \in 1..n : at = poolSparse[e.id].at /\ pool[at].entity = e
  BY <1>1, PoolPlace
<1>4. n \in 1..n /\ n - 1 \in Nat /\ \A q \in 1..(n - 1) : q \in 1..n
  OBVIOUS
<1>5. /\ \A q \in 1..n : Contained(poolSparse, pool[q].entity) /\ poolSparse[pool[q].entity.id].at = q
      /\ \A h \in Handles : Contained(poolSparse, h) =>
           poolSparse[h.id].at \in 1..n /\ pool[poolSparse[h.id].at].entity = h
      /\ \A q, r \in 1..n : pool[q].entity.id = pool[r].entity.id => q = r
  BY <1>1, PoolPlace
<1>6. PICK l \in Component : l = pool[n]
  BY <1>2, <1>4
<1>7. l.entity \in Usable /\ l.entity \in Handles /\ l.entity.id \in Ids /\ e.id \in Ids /\ e \in Usable
      /\ l.entity.version \in 0..VersionMask
  BY <1>2, <1>3, <1>6, UsableHandles DEF Component, Handles
\* The new arrays, place by place.
<1>8. PICK pool2 : pool2 = pool'
  OBVIOUS
<1>9. PICK ps2 : ps2 = poolSparse'
  OBVIOUS
<1>10. /\ pool2 \in Seq(Component) /\ Len(pool2) = n - 1 /\ pool2 \in [1..(n - 1) -> Component]
       /\ \A q \in 1..(n - 1) : pool2[q] = IF q = at THEN l ELSE pool[q]
  <2>1. PICK over : over = [pool EXCEPT ![at] = l]
    OBVIOUS
  <2>2. over \in [1..n -> Component] /\ \A q \in 1..n : over[q] = IF q = at THEN l ELSE pool[q]
    BY <1>2, <2>1
  <2>3. over \in Seq(Component)
    BY <2>2
  <2>4. Len(over) = n
    BY <2>2, <2>3, LenProperties
  <2>5. pool2 = SubSeq(over, 1, n - 1)
    BY <1>1, <1>3, <1>6, <1>8, <2>1, <2>4 DEF Popped, Front, Last
  <2>6. /\ pool2 \in Seq(Component) /\ Len(pool2) = n - 1
        /\ \A q \in 1..(n - 1) : pool2[q] = over[q]
    BY <1>4, <2>3, <2>4, <2>5
  <2>7. pool2 \in [1..(n - 1) -> Component]
    BY <2>6, LenProperties
  <2> QED  BY <1>4, <2>2, <2>6, <2>7
<1>11. /\ ps2 \in [Ids -> Where]
       /\ \A i \in Ids : ps2[i] =
            IF i = e.id THEN Null
            ELSE IF i = l.entity.id THEN [at |-> at, version |-> l.entity.version]
            ELSE poolSparse[i]
  <2>1. PICK w \in Where : w = [at |-> at, version |-> l.entity.version]
    <3>1. [at |-> at, version |-> l.entity.version] \in Where
      BY <1>7, PlaceIs
    <3> QED  BY <3>1
  <2>2. PICK one : one = [poolSparse EXCEPT ![l.entity.id] = w]
    OBVIOUS
  <2>3. one \in [Ids -> Where] /\ \A i \in Ids : one[i] = IF i = l.entity.id THEN w ELSE poolSparse[i]
    BY <1>2, <1>7, <2>2
  <2>4. ps2 = [one EXCEPT ![e.id] = Null]
    BY <1>1, <1>3, <1>6, <1>9, <2>1, <2>2 DEF PoppedSparse, At, Last
  <2>5. Null \in Where
    BY UsableHandles
  <2> QED  BY <1>7, <2>1, <2>3, <2>4, <2>5
<1>12. Linked(PoolHandles', ps2)
  <2>1. PICK fewer : fewer = PoolHandles'
    OBVIOUS
  <2>2. fewer = [q \in 1..(n - 1) |-> pool2[q].entity]
    <3>1. DOMAIN pool2 = 1..(n - 1)
      BY <1>10
    <3> QED  BY <1>8, <2>1, <3>1 DEF PoolHandles
  <2>3. \A q \in 1..(n - 1) : fewer[q] = IF q = at THEN PoolHandles[n] ELSE PoolHandles[q]
    BY <1>2, <1>4, <1>6, <1>10, <2>2
  <2>4. fewer \in [1..(n - 1) -> Usable]
    BY <1>2, <1>4, <2>2, <2>3
  <2>5. PoolHandles[at] = e /\ PoolHandles[n] = l.entity
    BY <1>2, <1>3, <1>4, <1>6
  <2>6. \A i \in Ids : ps2[i] =
          IF i = PoolHandles[at].id THEN Null
          ELSE IF i = PoolHandles[n].id THEN [at |-> at, version |-> PoolHandles[n].version]
          ELSE poolSparse[i]
    BY <1>11, <2>5
  <2>7. Linked(fewer, ps2)
    <3>1. ps2 \in [Ids -> Where]
      BY <1>11
    <3>2. PICK handles : handles = PoolHandles
      OBVIOUS
    <3>3. handles \in [1..n -> Usable] /\ Linked(handles, poolSparse) /\ poolSparse \in [Ids -> Where]
      BY <1>2, <3>2
    <3>4. \A q \in 1..(n - 1) : fewer[q] = IF q = at THEN handles[n] ELSE handles[q]
      BY <2>3, <3>2
    <3>5. \A i \in Ids : ps2[i] =
            IF i = handles[at].id THEN Null
            ELSE IF i = handles[n].id THEN [at |-> at, version |-> handles[n].version]
            ELSE poolSparse[i]
      BY <2>6, <3>2
    <3>6. PopsTo(n, handles, poolSparse, at, fewer, ps2)
      BY <2>4, <3>1, <3>3, <3>4, <3>5 DEF PopsTo
    <3> QED  BY <3>3, <3>6, LinkedPop
  <2> QED  BY <2>1, <2>7
<1>13. \A q \in 1..(n - 1) : \E r \in 1..n : pool2[q] = pool[r] /\ pool[r].entity # e
  <2> SUFFICES ASSUME NEW q \in 1..(n - 1)  PROVE \E r \in 1..n : pool2[q] = pool[r] /\ pool[r].entity # e
    OBVIOUS
  <2>1. CASE q = at
    <3>1. n # at /\ pool2[q] = pool[n]
      BY <1>6, <1>10, <2>1
    <3>2. pool[n].entity # e
      BY <1>3, <1>4, <1>5, <3>1
    <3> QED  BY <1>4, <3>1, <3>2
  <2>2. CASE q # at
    BY <1>3, <1>4, <1>5, <1>10, <2>2
  <2> QED  BY <2>1, <2>2
<1>14. \A h \in Handles : Contained(ps2, h) <=> Contained(poolSparse, h) /\ h # e
  <2> SUFFICES ASSUME NEW h \in Handles
               PROVE  Contained(ps2, h) <=> Contained(poolSparse, h) /\ h # e
    OBVIOUS
  <2>0. h.id \in Ids /\ h = [id |-> h.id, version |-> h.version] /\ e = [id |-> e.id, version |-> e.version]
    BY DEF Handles
  <2>1. CASE h.id = e.id
    <3>1. ~Contained(ps2, h)
      BY <1>11, <2>0, <2>1 DEF Contained
    <3>2. Contained(poolSparse, h) => h.version = e.version
      BY <2>1 DEF Contained
    <3> QED  BY <2>0, <2>1, <3>1, <3>2
  <2>2. CASE h.id # e.id /\ h.id = l.entity.id
    <3>1. Contained(poolSparse, l.entity)
      BY <1>4, <1>5, <1>6
    <3>2. ps2[h.id] = [at |-> at, version |-> l.entity.version]
      BY <1>11, <2>0, <2>2
    <3>3. ps2[h.id] # Null
      BY <3>2 DEF Null
    <3> QED  BY <2>2, <3>1, <3>2, <3>3 DEF Contained
  <2>3. CASE h.id # e.id /\ h.id # l.entity.id
    <3>1. ps2[h.id] = poolSparse[h.id]
      BY <1>11, <2>0, <2>3
    <3> QED  BY <2>3, <3>1 DEF Contained
  <2> QED  BY <2>1, <2>2, <2>3
<1>15. \A h \in Handles : Contained(poolSparse, h) /\ h # e =>
         NamesIn(pool2, ps2, h) = NamesIn(pool, poolSparse, h)
  <2> SUFFICES ASSUME NEW h \in Handles, Contained(poolSparse, h), h # e
               PROVE  NamesIn(pool2, ps2, h) = NamesIn(pool, poolSparse, h)
    OBVIOUS
  <2>1. PICK q \in 1..n : q = poolSparse[h.id].at /\ pool[q].entity = h
    BY <1>5
  <2>2. q # at /\ h.id \in Ids /\ h.id # e.id
    <3>1. q # at
      BY <1>3, <2>1
    <3>2. h.id # e.id
      BY <1>3, <1>5, <2>1, <3>1
    <3> QED  BY <3>1, <3>2 DEF Handles
  <2>3. CASE q = n
    <3>1. l.entity = h
      BY <1>6, <2>1, <2>3
    <3>2. ps2[h.id] = [at |-> at, version |-> l.entity.version]
      BY <1>11, <2>2, <3>1
    <3>3. at \in 1..(n - 1)
      BY <2>2, <2>3
    <3>4. pool2[at] = pool[n]
      BY <1>6, <1>10, <3>3
    <3> QED  BY <2>1, <2>3, <3>2, <3>4 DEF NamesIn
  <2>4. CASE q # n
    <3>1. q \in 1..(n - 1)
      BY <2>4
    <3>2. h.id # l.entity.id
      BY <1>4, <1>5, <1>6, <2>1, <2>4
    <3>3. ps2[h.id] = poolSparse[h.id]
      BY <1>11, <2>2, <3>2
    <3>4. pool2[q] = pool[q]
      BY <1>10, <2>2, <3>1
    <3> QED  BY <2>1, <3>3, <3>4 DEF NamesIn
  <2> QED  BY <2>3, <2>4
<1> QED  BY <1>1, <1>8, <1>9, <1>10, <1>11, <1>12, <1>13, <1>14, <1>15

\* Erasing takes the entity from those alive and nobody else, and the handle
\* that waits has the version of the next life.
LEMMA Erased ==
  ASSUME Typed, Counted, NEW e \in Handles, Valid(e), EraseEntity(e)
  PROVE  /\ packed' \in Seq(Usable) /\ head' \in 0..Len(packed') /\ sparse' \in [Ids -> Where]
         /\ lives' = lives /\ Counted' /\ Alive' = Alive \ {e}
<1>1. PICK n \in Nat : n = Len(packed)
  BY Arrays
<1>2. /\ packed \in [1..n -> Usable] /\ packed \in Seq(Usable) /\ DOMAIN packed = 1..n
      /\ sparse \in [Ids -> Where] /\ head \in 0..n /\ Linked(packed, sparse)
      /\ lives \in [Ids -> Nat]
  BY <1>1, Arrays DEF Typed, Counted
<1>3. VersionMask \in Nat /\ VersionMask > 0
  BY EntityStoreAssumption
<1>4. PICK p \in 1..n : p = sparse[e.id].at /\ packed[p] = e /\ p <= head
  BY <1>1, <1>2, LinkedLookup DEF Valid
<1>5. PICK hd \in 1..n : hd = head /\ p <= hd
  BY <1>2, <1>4
<1>6. /\ e \in Usable /\ e.id \in Ids /\ e.version \in 0..(VersionMask - 1)
      /\ \A q \in 1..n : packed[q].id \in Ids /\ packed[q].version \in 0..VersionMask
      /\ \A q, r \in 1..n : packed[q].id = packed[r].id => q = r
  <2>1. e \in Usable
    BY <1>2, <1>4
  <2>2. \A q \in 1..n : packed[q].id \in Ids /\ packed[q].version \in 0..VersionMask
    BY <1>2, <1>3 DEF Usable
  <2>3. \A q, r \in 1..n : packed[q].id = packed[r].id => q = r
    BY <1>2, LinkedOnce
  <2> QED  BY <2>1, <2>2, <2>3 DEF Usable
<1>7. PICK next \in Usable : next = [id |-> e.id, version |-> NextVersion(e.version)]
  <2>1. NextVersion(e.version) \in 0..(VersionMask - 1)
    BY <1>3, <1>6, NextVersionIs
  <2> QED  BY <1>6, <2>1 DEF Usable
<1>8. PICK last \in Usable : last = packed[hd]
  BY <1>2
<1>9. PICK packed2 : packed2 = packed'
  OBVIOUS
<1>10. PICK sparse2 : sparse2 = sparse'
  OBVIOUS
<1>11. PICK bumped : bumped = [packed EXCEPT ![p] = next]
  OBVIOUS
<1>12. bumped \in [1..n -> Usable] /\ \A q \in 1..n : bumped[q] = IF q = p THEN next ELSE packed[q]
  BY <1>2, <1>11
<1>13. /\ packed2 \in [1..n -> Usable] /\ packed2 \in Seq(Usable) /\ Len(packed2) = n
       /\ \A q \in 1..n : packed2[q] =
            IF q = hd THEN next ELSE IF q = p THEN last ELSE packed[q]
  <2>1. packed2 = [bumped EXCEPT ![p] = bumped[hd], ![hd] = bumped[p]]
    BY <1>4, <1>5, <1>7, <1>9, <1>11 DEF EraseEntity, Swapped
  <2>2. /\ packed2 \in [1..n -> Usable]
        /\ \A q \in 1..n : packed2[q] = IF q = hd THEN bumped[p] ELSE IF q = p THEN bumped[hd] ELSE bumped[q]
    BY <1>12, <2>1
  <2>3. packed2 \in Seq(Usable)
    BY <2>2
  <2>4. Len(packed2) = n
    BY <2>2, <2>3, LenProperties
  <2> QED  BY <1>8, <1>12, <2>2, <2>3, <2>4
<1>14. /\ sparse2 \in [Ids -> Where]
       /\ \A i \in Ids : sparse2[i] =
            IF i = (IF p = hd THEN next.id ELSE packed[hd].id)
            THEN [at |-> p, version |-> IF p = hd THEN next.version ELSE packed[hd].version]
            ELSE IF i = next.id THEN [at |-> hd, version |-> next.version]
            ELSE sparse[i]
  <2>1. PICK one : one = At(sparse, next, p)
    OBVIOUS
  <2>2. PICK two : two = At(one, next, hd)
    OBVIOUS
  <2>3. PICK moved \in Usable : moved = bumped[hd]
    BY <1>12
  <2>4. moved = IF p = hd THEN next ELSE packed[hd]
    BY <1>12, <2>3
  <2>5. sparse2 = At(two, moved, p)
    <3>1. bumped[p] = next
      BY <1>12
    <3> QED  BY <1>4, <1>5, <1>7, <1>10, <1>11, <2>1, <2>2, <2>3, <3>1 DEF EraseEntity, SwappedSparse
  <2>6. next.id = e.id /\ next.id \in Ids /\ next.version \in 0..VersionMask
    BY <1>3, <1>6, <1>7 DEF Usable
  <2>7. moved.id \in Ids /\ moved.version \in 0..VersionMask
    BY <1>3, <2>3 DEF Usable
  <2>8. PICK w1 \in Where : w1 = [at |-> p, version |-> next.version]
    <3>1. [at |-> p, version |-> next.version] \in Where
      BY <2>6, PlaceIs
    <3> QED  BY <3>1
  <2>9. PICK w2 \in Where : w2 = [at |-> hd, version |-> next.version]
    <3>1. [at |-> hd, version |-> next.version] \in Where
      BY <2>6, PlaceIs
    <3> QED  BY <3>1
  <2>10. PICK w3 \in Where : w3 = [at |-> p, version |-> moved.version]
    <3>1. [at |-> p, version |-> moved.version] \in Where
      BY <2>7, PlaceIs
    <3> QED  BY <3>1
  <2>11. one \in [Ids -> Where] /\ \A i \in Ids : i # next.id => one[i] = sparse[i]
    <3>1. one = [sparse EXCEPT ![next.id] = w1]
      BY <2>1, <2>8 DEF At
    <3> QED  BY <1>2, <2>6, <3>1
  <2>12. two \in [Ids -> Where] /\ \A i \in Ids : two[i] = IF i = next.id THEN w2 ELSE one[i]
    <3>1. two = [one EXCEPT ![next.id] = w2]
      BY <2>2, <2>9 DEF At
    <3> QED  BY <2>6, <2>11, <3>1
  <2>13. sparse2 \in [Ids -> Where] /\ \A i \in Ids : sparse2[i] = IF i = moved.id THEN w3 ELSE two[i]
    <3>1. sparse2 = [two EXCEPT ![moved.id] = w3]
      BY <2>5, <2>10 DEF At
    <3> QED  BY <2>7, <2>12, <3>1
  <2>14. moved.id = (IF p = hd THEN next.id ELSE packed[hd].id)
         /\ w3 = [at |-> p, version |-> IF p = hd THEN next.version ELSE packed[hd].version]
    BY <2>4, <2>10
  <2>15. \A i \in Ids : sparse2[i] = IF i = moved.id THEN w3 ELSE IF i = next.id THEN w2 ELSE sparse[i]
    BY <2>11, <2>12, <2>13
  <2> QED  BY <2>9, <2>13, <2>14, <2>15
<1>15. /\ Linked(packed2, sparse2)
       /\ \A i \in Ids : sparse2[i] = Null <=> sparse[i] = Null
  <2>1. next.id = packed[p].id
    BY <1>4, <1>7
  <2>2. \A q \in 1..n : packed2[q] = IF q = hd THEN next ELSE IF q = p THEN packed[hd] ELSE packed[q]
    BY <1>8, <1>13
  <2>3. packed2 \in [1..n -> Usable] /\ sparse2 \in [Ids -> Where]
    BY <1>13, <1>14
  <2>4. packed \in [1..n -> Usable] /\ sparse \in [Ids -> Where] /\ Linked(packed, sparse)
    BY <1>2
  <2>5. \A i \in Ids : sparse2[i] =
          IF i = (IF p = hd THEN next.id ELSE packed[hd].id)
          THEN [at |-> p, version |-> IF p = hd THEN next.version ELSE packed[hd].version]
          ELSE IF i = next.id THEN [at |-> hd, version |-> next.version]
          ELSE sparse[i]
    BY <1>14
  <2>6. ErasesTo(n, packed, sparse, p, hd, next, packed2, sparse2)
    BY <2>1, <2>2, <2>3, <2>4, <2>5 DEF ErasesTo
  <2> QED  BY <2>4, <2>6, LinkedErase
<1>16. lives' = lives /\ head' = hd - 1
  BY <1>5 DEF EraseEntity
<1>17. next.version = lives[e.id] % VersionMask
  <2>1. e.version = (lives[e.id] - 1) % VersionMask
    BY <1>1, <1>4, <1>5 DEF Counted
  <2>2. lives[e.id] > 0 /\ lives[e.id] \in Nat
    <3>1. sparse[e.id] # Null
      BY DEF Valid, Contained
    <3> QED  BY <1>2, <1>6, <3>1 DEF Counted
  <2>3. PICK a \in Nat : a = lives[e.id] - 1 /\ lives[e.id] = a + 1
    BY <2>2
  <2>4. (a + 1) % VersionMask = IF (a % VersionMask) + 1 = VersionMask THEN 0 ELSE (a % VersionMask) + 1
    <3>1. VersionMask \in Nat \ {0}
      BY <1>3
    <3> QED  BY <3>1, RestOfNext
  <2>5. next.version = IF e.version + 1 = VersionMask THEN 0 ELSE e.version + 1
    BY <1>6, <1>7, NextVersionIs
  <2> QED  BY <2>1, <2>3, <2>4, <2>5
<1>18. \A q \in 1..n : packed2[q].version =
         (IF q <= hd - 1 THEN lives[packed2[q].id] - 1 ELSE lives[packed2[q].id]) % VersionMask
  <2> SUFFICES ASSUME NEW q \in 1..n
               PROVE  packed2[q].version =
                        (IF q <= hd - 1 THEN lives[packed2[q].id] - 1 ELSE lives[packed2[q].id]) % VersionMask
    OBVIOUS
  <2>1. \A r \in 1..n : packed[r].version =
          (IF r <= hd THEN lives[packed[r].id] - 1 ELSE lives[packed[r].id]) % VersionMask
    BY <1>1, <1>5 DEF Counted
  <2>2. CASE q = hd
    <3>1. ~(q <= hd - 1) /\ packed2[q] = next /\ next.id = e.id
      BY <1>7, <1>13, <2>2
    <3> QED  BY <1>17, <3>1
  <2>3. CASE q # hd /\ q = p
    <3>1. q <= hd - 1 /\ hd <= hd /\ packed2[q] = packed[hd]
      BY <1>5, <1>8, <1>13, <2>3
    <3> QED  BY <2>1, <3>1
  <2>4. CASE q # hd /\ q # p
    <3>1. (q <= hd - 1 <=> q <= hd) /\ packed2[q] = packed[q]
      BY <1>13, <2>4
    <3> QED  BY <2>1, <3>1
  <2> QED  BY <2>2, <2>3, <2>4
<1>19. Counted'
  <2>1. \A i \in Ids : IF sparse2[i] = Null THEN i >= n /\ lives[i] = 0 ELSE i < n /\ lives[i] > 0
    BY <1>1, <1>15 DEF Counted
  <2>2. \A i \in Ids : IF sparse'[i] = Null THEN i >= Len(packed') /\ lives'[i] = 0
                       ELSE i < Len(packed') /\ lives'[i] > 0
    BY <1>9, <1>10, <1>13, <1>16, <2>1
  <2>3. \A q \in 1..Len(packed') : packed'[q].version =
          (IF q <= head' THEN lives'[packed'[q].id] - 1 ELSE lives'[packed'[q].id]) % VersionMask
    BY <1>9, <1>13, <1>16, <1>18
  <2>4. Linked(packed', sparse')
    BY <1>9, <1>10, <1>15
  <2> QED  BY <2>2, <2>3, <2>4 DEF Counted
<1>20. \A h \in Handles : Valid(h)' <=> Valid(h) /\ h # e
  <2> SUFFICES ASSUME NEW h \in Handles
               PROVE  Valid(h)' <=> Valid(h) /\ h # e
    OBVIOUS
  <2>1. Valid(h) <=> \E q \in 1..hd : packed[q] = h
    BY <1>5, ValidPlace
  <2>2. Valid(h)' <=> \E q \in 1..(hd - 1) : packed2[q] = h
    <3>1. hd - 1 \in 0..n
      OBVIOUS
    <3>2. (Contained(sparse2, h) /\ sparse2[h.id].at <= hd - 1) <=> \E q \in 1..(hd - 1) : packed2[q] = h
      <4>1. sparse2 \in [Ids -> Where] /\ packed2 \in [1..n -> Usable] /\ Linked(packed2, sparse2)
        BY <1>13, <1>14, <1>15
      <4> QED  BY <3>1, <4>1, AliveAre
    <3> QED  BY <1>10, <1>16, <3>2 DEF Valid
  <2>3. ASSUME NEW q \in 1..(hd - 1), packed2[q] = h
        PROVE  h # e /\ \E r \in 1..hd : packed[r] = h
    <3>1. q \in 1..n /\ q # hd /\ q \in 1..hd /\ hd \in 1..hd
      OBVIOUS
    <3>2. CASE q = p
      <4>1. h = packed[hd] /\ p # hd
        BY <1>8, <1>13, <2>3, <3>1, <3>2
      <4>2. packed[hd].id # packed[p].id
        BY <1>6, <4>1
      <4> QED  BY <1>4, <3>1, <4>1, <4>2
    <3>3. CASE q # p
      <4>1. h = packed[q]
        BY <1>13, <2>3, <3>1, <3>3
      <4>2. packed[q].id # packed[p].id
        BY <1>6, <3>1, <3>3
      <4> QED  BY <1>4, <3>1, <4>1, <4>2
    <3> QED  BY <3>2, <3>3
  <2>4. ASSUME NEW r \in 1..hd, packed[r] = h, h # e
        PROVE  \E q \in 1..(hd - 1) : packed2[q] = h
    <3>1. r \in 1..n /\ r # p
      BY <1>4, <2>4
    <3>2. CASE r = hd
      <4>1. p \in 1..(hd - 1) /\ p # hd
        BY <1>5, <3>1, <3>2
      <4>2. packed2[p] = h
        BY <1>8, <1>13, <2>4, <3>2, <4>1
      <4> QED  BY <4>1, <4>2
    <3>3. CASE r # hd
      <4>1. r \in 1..(hd - 1)
        BY <3>3
      <4>2. packed2[r] = h
        BY <1>13, <2>4, <3>1, <3>3
      <4> QED  BY <4>1, <4>2
    <3> QED  BY <3>2, <3>3
  <2> QED  BY <2>1, <2>2, <2>3, <2>4
<1>21. Alive' = Alive \ {e}
  BY <1>20 DEF Alive
<1>22. head' \in 0..n
  BY <1>16
<1> QED  BY <1>9, <1>10, <1>13, <1>14, <1>16, <1>19, <1>21, <1>22

\* The innermost call ends: its component goes, then its entity.
LEMMA DestroyedStep ==
  ASSUME Inv, Destroyed
  PROVE  /\ Inv'
         /\ \E e \in Alive :
              /\ Alive' = Alive \ {e} /\ lives' = lives
              /\ \A h \in Handles : Contained(poolSparse', h) <=> Contained(poolSparse, h) /\ h # e
              /\ \A h \in Handles : Contained(poolSparse, h) /\ h # e =>
                   NamesIn(pool', poolSparse', h) = NamesIn(pool, poolSparse, h)
              /\ Contained(poolSparse, e) =>
                   \A j \in 1..Len(NamesIn(pool, poolSparse, e)) :
                     NamesIn(pool, poolSparse, e)[j] \notin Alive
<1>1. Typed /\ Counted /\ Owned /\ Nested
  BY DEF Inv
<1>2. PICK n \in Nat : n = Len(calls) /\ calls \in [1..n -> Frame] /\ calls \in Seq(Frame)
  BY <1>1, Arrays DEF Typed
<1>3. n \in 1..n /\ n > 0 /\ n - 1 \in Nat
  BY <1>2 DEF Destroyed
<1>4. PICK c \in Frame : c = calls[n]
  BY <1>2, <1>3
<1>5. PICK e \in Usable : e = c.entity
  BY <1>4 DEF Frame
<1>6. c = Last(calls) /\ c.rest = <<>> /\ EraseEntity(e) /\ calls' = Front(calls)
  BY <1>2, <1>4, <1>5 DEF Destroyed, Last
<1>7. /\ e \in Handles /\ e \in Alive /\ Valid(e)
      /\ Loop(calls, pool, poolSparse, Alive, n) /\ ~(n < Len(calls))
  <2>1. e \in Alive /\ Loop(calls, pool, poolSparse, Alive, n) /\ ~(n < Len(calls))
    BY <1>1, <1>2, <1>3, <1>4, <1>5 DEF Nested
  <2> QED  BY <2>1, UsableHandles DEF Alive
<1>8. c.at # 0 <=> Contained(poolSparse, e)
  BY <1>4, <1>5, <1>7 DEF Loop
<1>9. /\ calls' \in Seq(Frame) /\ Len(calls') = n - 1
      /\ \A k \in 1..(n - 1) : calls'[k] = calls[k]
  <2>1. calls' = SubSeq(calls, 1, n - 1)
    BY <1>2, <1>6 DEF Front
  <2> QED  BY <1>2, <1>3, <2>1
<1>10. /\ packed' \in Seq(Usable) /\ head' \in 0..Len(packed') /\ sparse' \in [Ids -> Where]
       /\ lives' = lives /\ Counted' /\ Alive' = Alive \ {e}
  BY <1>1, <1>6, <1>7, Erased
\* The pool without the component of the entity.
<1>11. /\ pool' \in Seq(Component) /\ poolSparse' \in [Ids -> Where]
       /\ Linked(PoolHandles', poolSparse')
       /\ \A q \in 1..Len(pool') : \E r \in 1..Len(pool) : pool'[q] = pool[r] /\ pool[r].entity # e
       /\ \A h \in Handles : Contained(poolSparse', h) <=> Contained(poolSparse, h) /\ h # e
       /\ \A h \in Handles : Contained(poolSparse, h) /\ h # e =>
            NamesIn(pool', poolSparse', h) = NamesIn(pool, poolSparse, h)
  <2>1. CASE c.at # 0
    <3>1. Contained(poolSparse, e)
      BY <1>8, <2>1
    <3>2. pool' = Popped(poolSparse[e.id].at) /\ poolSparse' = PoppedSparse(poolSparse[e.id].at)
      BY <1>5, <1>6, <2>1 DEF Destroyed, Place
    <3> QED  BY <1>1, <1>7, <3>1, <3>2, PoolPops
  <2>2. CASE c.at = 0
    <3>1. pool' = pool /\ poolSparse' = poolSparse
      BY <1>6, <2>2 DEF Destroyed
    <3>2. ~Contained(poolSparse, e)
      BY <1>8, <2>2
    <3>3. \A q \in 1..Len(pool) : pool[q].entity # e
      BY <1>1, <3>2, PoolPlace
    <3>4. PoolHandles' = PoolHandles
      BY <3>1 DEF PoolHandles
    <3>5. pool' \in Seq(Component) /\ poolSparse' \in [Ids -> Where] /\ Linked(PoolHandles', poolSparse')
      BY <1>1, <3>1, <3>4 DEF Typed, Owned
    <3>6. \A q \in 1..Len(pool') : \E r \in 1..Len(pool) : pool'[q] = pool[r] /\ pool[r].entity # e
      BY <3>1, <3>3
    <3>7. \A h \in Handles : Contained(poolSparse', h) <=> Contained(poolSparse, h) /\ h # e
      BY <3>1, <3>2
    <3>8. \A h \in Handles : NamesIn(pool', poolSparse', h) = NamesIn(pool, poolSparse, h)
      BY <3>1
    <3> QED  BY <3>5, <3>6, <3>7, <3>8
  <2> QED  BY <2>1, <2>2
<1>12. Typed'
  BY <1>1, <1>9, <1>10, <1>11 DEF Typed
<1>13. Owned'
  <2>1. \A q \in 1..Len(pool') :
          /\ pool'[q].entity \in Alive'
          /\ \A j \in 1..Len(pool'[q].names) : pool'[q].names[j].id > pool'[q].entity.id
    <3> SUFFICES ASSUME NEW q \in 1..Len(pool')
          PROVE  /\ pool'[q].entity \in Alive'
                 /\ \A j \in 1..Len(pool'[q].names) : pool'[q].names[j].id > pool'[q].entity.id
      OBVIOUS
    <3>1. PICK r \in 1..Len(pool) : pool'[q] = pool[r] /\ pool[r].entity # e
      BY <1>11
    <3>2. Valid(pool[r].entity) /\ pool[r].entity \in Handles
      BY <1>1, Arrays, UsableHandles DEF Owned, Component
    <3>3. pool[r].entity \in Alive
      BY <3>2 DEF Alive
    <3> QED  BY <1>1, <1>10, <3>1, <3>3 DEF Owned
  <2>2. \A q \in 1..Len(pool') : Valid(pool[q].entity)'
    BY <2>1 DEF Alive, Valid
  <2>3. \A q \in 1..Len(pool') : \A j \in 1..Len(pool'[q].names) :
          pool'[q].names[j].id > pool'[q].entity.id
    BY <2>1
  <2> QED  BY <1>11, <2>2, <2>3 DEF Owned
<1>14. ASSUME NEW k \in 1..(n - 1)
       PROVE  calls'[k].entity \in Alive' /\ Loop(calls', pool', poolSparse', Alive', k)
  <2>1. /\ k \in 1..Len(calls) /\ k < n /\ calls'[k] = calls[k] /\ k \in 1..n
    BY <1>2, <1>9
  <2>2. calls[k].entity \in Alive /\ Loop(calls, pool, poolSparse, Alive, k)
    BY <1>1, <2>1 DEF Nested
  <2>3. calls[k].entity # e
    <3>1. calls[k].entity.id < calls[n].entity.id
      BY <1>1, <1>2, <1>3, <2>1 DEF Nested
    <3>2. e.id \in Nat /\ e = calls[n].entity
      <4>1. e.id \in Nat
        BY UsableHandles DEF Ids
      <4> QED  BY <1>4, <1>5, <4>1
    <3> QED  BY <3>1, <3>2
  <2>4. calls[k].entity \in Handles
    BY <2>2 DEF Alive
  <2>5. k < Len(calls) /\ calls[k + 1].entity \in Alive' =>
          k < Len(calls') /\ calls'[k + 1].entity = calls[k + 1].entity
    <3>1. CASE k + 1 = n
      <4>1. calls[k + 1].entity = e
        BY <1>4, <1>5, <3>1
      <4> QED  BY <1>10, <4>1
    <3>2. CASE k + 1 # n
      <4>1. k + 1 \in 1..(n - 1) /\ k < n - 1
        BY <3>2
      <4> QED  BY <1>9, <4>1
    <3> QED  BY <3>1, <3>2
  <2>6. Alive' \subseteq Alive
    BY <1>10
  <2>7. Contained(poolSparse', calls[k].entity) <=> Contained(poolSparse, calls[k].entity)
    BY <1>11, <2>3, <2>4
  <2>8. Contained(poolSparse, calls[k].entity) =>
          NamesIn(pool', poolSparse', calls[k].entity) = NamesIn(pool, poolSparse, calls[k].entity)
    BY <1>11, <2>3, <2>4
  <2>9. Loop(calls', pool', poolSparse', Alive', k)
    BY <2>1, <2>2, <2>5, <2>6, <2>7, <2>8, LoopKept
  <2> QED  BY <1>10, <2>1, <2>2, <2>3, <2>9
<1>15. \A k, l \in 1..(n - 1) : k < l => calls'[k].entity.id < calls'[l].entity.id
  <2>1. \A k \in 1..(n - 1) : k \in 1..n
    OBVIOUS
  <2> QED  BY <1>1, <1>2, <1>9, <2>1 DEF Nested
<1>16. Nested'
  BY <1>9, <1>14, <1>15 DEF Nested
<1>17. Contained(poolSparse, e) =>
         \A j \in 1..Len(NamesIn(pool, poolSparse, e)) : NamesIn(pool, poolSparse, e)[j] \notin Alive
  <2> SUFFICES ASSUME Contained(poolSparse, e)
               PROVE  \A j \in 1..Len(NamesIn(pool, poolSparse, e)) :
                        NamesIn(pool, poolSparse, e)[j] \notin Alive
    OBVIOUS
  <2>1. PICK names \in Seq(Usable) : names = NamesIn(pool, poolSparse, e)
    BY <1>1, <1>7, NamesUsable
  <2>2. Len(names) - Len(c.rest) = Len(names)
    BY <1>6, <2>1
  <2>3. \A i \in 1..Len(names) : names[i] \notin Alive
    BY <1>4, <1>5, <1>7, <2>1, <2>2 DEF Loop
  <2> QED  BY <2>1, <2>3
<1> QED  BY <1>7, <1>10, <1>11, <1>12, <1>13, <1>16, <1>17 DEF Inv

\* Every step of the storage keeps the invariant.
LEMMA NextInv == Inv /\ [Next]_vars => Inv'
<1> SUFFICES ASSUME Inv, [Next]_vars PROVE Inv'
  OBVIOUS
<1>1. CASE Create
  BY <1>1, CreateStep
<1>2. ASSUME NEW e \in Handles, NEW handles \in BoundedSeq(Nameable(e), MaxNamed), Emplace(e, handles)
      PROVE  Inv'
  BY <1>2, EmplaceStep
<1>3. ASSUME NEW e \in Handles, Destroy(e)
      PROVE  Inv'
  BY <1>3, DestroyStep
<1>4. CASE Visit
  BY <1>4, VisitStep
<1>5. CASE Destroyed
  BY <1>5, DestroyedStep
<1>6. CASE UNCHANGED vars
  <2>1. UNCHANGED <<packed, sparse, head, lives, pool, poolSparse, calls>>
    BY <1>6 DEF vars, store
  <2>2. Alive' = Alive /\ PoolHandles' = PoolHandles
    BY <2>1 DEF Alive, Valid, PoolHandles
  <2> QED  BY <2>1, <2>2 DEF Inv, Typed, Counted, Owned, Valid, Nested
<1> QED  BY <1>1, <1>2, <1>3, <1>4, <1>5, <1>6 DEF Next

-----------------------------------------------------------------------------
(* The theorems.                                                           *)

\* In every reachable state of the registry and its pool the invariant holds.
THEOREM InvHolds == Spec => []Inv
BY InitInv, NextInv, PTL DEF Spec

LEMMA InvTypeOK == Inv => TypeOK
<1> SUFFICES ASSUME Inv PROVE TypeOK
  OBVIOUS
<1>1. Typed /\ Counted /\ Owned
  BY DEF Inv
<1>2. packed \in Seq([id : Ids, version : 0..(VersionMask - 1)]) /\ head \in 0..Len(packed)
  BY <1>1 DEF Typed, Usable
<1>3. pool \in Seq([entity : Handles, names : Seq(Handles)])
  <2>1. Component \subseteq [entity : Handles, names : Seq(Handles)]
    <3> SUFFICES ASSUME NEW c \in Component  PROVE c \in [entity : Handles, names : Seq(Handles)]
      OBVIOUS
    <3>1. c = [entity |-> c.entity, names |-> c.names] /\ c.entity \in Usable /\ c.names \in Seq(Usable)
      BY DEF Component
    <3>2. c.names \in Seq(Handles) /\ c.entity \in Handles
      BY <3>1, UsableHandles
    <3> QED  BY <3>1, <3>2
  <2>2. PICK S : S = [entity : Handles, names : Seq(Handles)]
    OBVIOUS
  <2>3. pool \in Seq(Component) /\ Component \subseteq S
    BY <1>1, <2>1, <2>2 DEF Typed
  <2>4. pool \in Seq(S)
    BY <2>3
  <2> QED  BY <2>2, <2>4
<1> QED  BY <1>1, <1>2, <1>3 DEF TypeOK, Counted, Owned

\* Both arrays of both sets lead to each other, whatever was created, named and
\* destroyed, at any depth of a cascade.
THEOREM TypeCorrect == Spec => []TypeOK
BY InvHolds, InvTypeOK, PTL

\* The end of a sequence, read off its places.
LEMMA SuffixPlaces ==
  ASSUME NEW S, NEW s \in Seq(S), NEW t \in Seq(S), Len(s) <= Len(t),
         \A i \in 1..Len(s) : s[i] = t[(Len(t) - Len(s)) + i]
  PROVE  IsSuffix(s, t)
<1>1. PICK m \in Nat : m = Len(s)
  OBVIOUS
<1>2. PICK n \in Nat : n = Len(t) /\ m <= n
  BY <1>1
<1>3. PICK rs : rs = Reverse(s)
  OBVIOUS
<1>4. PICK rt : rt = Reverse(t)
  OBVIOUS
<1>5. rs \in Seq(S) /\ Len(rs) = m /\ \A i \in 1..m : rs[i] = s[(m - i) + 1]
  <2>1. rs = [i \in 1..m |-> s[(m - i) + 1]]
    BY <1>1, <1>3 DEF Reverse
  <2>2. \A i \in 1..m : s[(m - i) + 1] \in S
    BY <1>1
  <2>3. rs \in [1..m -> S]
    BY <2>1, <2>2
  <2>4. rs \in Seq(S)
    BY <2>3
  <2>5. Len(rs) = m
    BY <2>3, <2>4, LenProperties
  <2> QED  BY <2>1, <2>4, <2>5
<1>6. rt \in Seq(S) /\ Len(rt) = n /\ \A i \in 1..n : rt[i] = t[(n - i) + 1]
  <2>1. rt = [i \in 1..n |-> t[(n - i) + 1]]
    BY <1>2, <1>4 DEF Reverse
  <2>2. \A i \in 1..n : t[(n - i) + 1] \in S
    BY <1>2
  <2>3. rt \in [1..n -> S]
    BY <2>1, <2>2
  <2>4. rt \in Seq(S)
    BY <2>3
  <2>5. Len(rt) = n
    BY <2>3, <2>4, LenProperties
  <2> QED  BY <2>1, <2>4, <2>5
<1>7. \A i \in 1..m : rs[i] = rt[i]
  <2> SUFFICES ASSUME NEW i \in 1..m  PROVE rs[i] = rt[i]
    OBVIOUS
  <2>1. (m - i) + 1 \in 1..m /\ (n - m) + ((m - i) + 1) = (n - i) + 1 /\ i \in 1..n
    BY <1>2
  <2>2. s[(m - i) + 1] = t[(n - m) + ((m - i) + 1)]
    BY <1>1, <1>2, <2>1
  <2> QED  BY <1>5, <1>6, <2>1, <2>2
<1>8. SubSeq(rs, 1, m) = SubSeq(rt, 1, m)
  <2>1. SubSeq(rs, 1, m) \in Seq(S) /\ Len(SubSeq(rs, 1, m)) = m
        /\ \A i \in 1..m : SubSeq(rs, 1, m)[i] = rs[i]
    BY <1>5
  <2>2. SubSeq(rt, 1, m) \in Seq(S) /\ Len(SubSeq(rt, 1, m)) = m
        /\ \A i \in 1..m : SubSeq(rt, 1, m)[i] = rt[i]
    BY <1>2, <1>6
  <2> QED  BY <1>7, <2>1, <2>2, SeqEqual
<1> QED  BY <1>2, <1>3, <1>4, <1>5, <1>6, <1>8 DEF IsSuffix, IsPrefix

\* The loop over a collection never loses it: at any depth, for any cascade, it
\* is in the pool, its entity's, and what is left to visit is its end.
THEOREM LoopStaysIntact == Spec => []LoopIntact
<1>1. Inv => LoopIntact
  <2> SUFFICES ASSUME Inv PROVE LoopIntact
    OBVIOUS
  <2> SUFFICES ASSUME NEW k \in DOMAIN calls, calls[k].at # 0
               PROVE  /\ Contained(poolSparse, calls[k].entity)
                      /\ IsSuffix(calls[k].rest, NamesIn(pool, poolSparse, calls[k].entity))
    BY InvTypeOK DEF LoopIntact, NamesIn
  <2>1. Typed /\ Counted /\ Owned /\ Nested
    BY DEF Inv
  <2>2. k \in 1..Len(calls) /\ calls[k] \in Frame
    BY <2>1 DEF Typed
  <2>3. PICK c \in Frame : c = calls[k]
    BY <2>2
  <2>4. Loop(calls, pool, poolSparse, Alive, k)
    BY <2>1, <2>2 DEF Nested
  <2>5. Contained(poolSparse, c.entity)
    BY <2>3, <2>4 DEF Loop
  <2>6. PICK names \in Seq(Usable) : names = NamesIn(pool, poolSparse, c.entity)
    BY <2>1, <2>3, <2>5, NamesUsable, UsableHandles DEF Frame
  <2>7. c.rest \in Seq(Usable) /\ Len(c.rest) \in Nat /\ Len(names) \in Nat
    BY <2>3, <2>6 DEF Frame
  <2>8. /\ Len(names) - Len(c.rest) >= 0
        /\ \A i \in 1..Len(c.rest) : c.rest[i] = names[(Len(names) - Len(c.rest)) + i]
    BY <2>3, <2>4, <2>5, <2>6 DEF Loop
  <2>9. Len(c.rest) <= Len(names)
    BY <2>7, <2>8
  <2>10. IsSuffix(c.rest, names)
    BY <2>6, <2>7, <2>8, <2>9, SuffixPlaces
  <2> QED  BY <2>3, <2>5, <2>6, <2>10
<1> QED  BY <1>1, InvHolds, PTL

\* A stale handle is refused until its number has been given out VersionMask
\* more times.
THEOREM StaleHandlesRefused == Spec => []StaleRefused
<1>1. Inv => StaleRefused
  <2> SUFFICES ASSUME Inv, NEW i \in Ids, NEW life \in 1..(lives[i] - 1),
                      lives[i] - life < VersionMask,
                      Valid([id |-> i, version |-> (life - 1) % VersionMask])
               PROVE  FALSE
    BY DEF StaleRefused
  <2>1. Typed /\ Counted
    BY DEF Inv
  <2>2. VersionMask \in Nat \ {0} /\ lives[i] \in Nat
    BY <2>1, EntityStoreAssumption DEF Typed
  <2>3. PICK a \in Nat : a = life - 1 /\ a \in 0..(lives[i] - 2)
    BY <2>2
  <2>4. PICK b \in Nat : b = lives[i] - 1 /\ a < b /\ b < a + VersionMask
    BY <2>2, <2>3
  <2>5. PICK v \in 0..VersionMask : v = a % VersionMask
    <3>1. a % VersionMask \in 0..(VersionMask - 1)
      BY <2>2, Division
    <3>2. a % VersionMask \in 0..VersionMask
      BY <2>2, <3>1
    <3> QED  BY <3>2
  <2>6. PICK h \in Handles : h = [id |-> i, version |-> v]
    BY DEF Handles
  <2>7. PICK q \in 1..head : packed[q] = h
    BY <2>1, <2>3, <2>5, <2>6, ValidPlace
  <2>8. q \in 1..Len(packed) /\ q <= head
    BY <2>1 DEF Typed
  <2>9. h.version = (lives[h.id] - 1) % VersionMask
    BY <2>1, <2>7, <2>8 DEF Counted
  <2>10. a % VersionMask = b % VersionMask
    BY <2>4, <2>5, <2>6, <2>9
  <2> QED  BY <2>2, <2>4, <2>10, RestsDiffer
<1> QED  BY <1>1, InvHolds, PTL

-----------------------------------------------------------------------------
(* The registry as a set of entities.                                      *)

Holders == {h \in Handles : Contained(poolSparse, h)}

\* What EntitySet's variables stand for.
LEMMA Mapped ==
  Inv => /\ {packed[p] : p \in 1..head} = Alive
         /\ [e \in Range(PoolHandles) |-> pool[poolSparse[e.id].at].names] =
              [e \in Holders |-> NamesIn(pool, poolSparse, e)]
<1> SUFFICES ASSUME Inv
    PROVE  /\ {packed[p] : p \in 1..head} = Alive
           /\ [e \in Range(PoolHandles) |-> pool[poolSparse[e.id].at].names] =
                [e \in Holders |-> NamesIn(pool, poolSparse, e)]
  OBVIOUS
<1>1. Typed /\ Counted /\ Owned
  BY DEF Inv
<1>2. {packed[p] : p \in 1..head} = Alive
  <2>1. \A p \in 1..head : packed[p] \in Handles
    <3>1. \A p \in 1..head : p \in 1..Len(packed)
      BY <1>1 DEF Typed
    <3> QED  BY <1>1, <3>1, Arrays, UsableHandles
  <2>2. \A h \in Handles : h \in Alive <=> \E p \in 1..head : packed[p] = h
    BY <1>1, ValidPlace DEF Alive
  <2>3. Alive \subseteq Handles
    BY DEF Alive
  <2> QED  BY <2>1, <2>2, <2>3
<1>3. Range(PoolHandles) = Holders
  <2>1. DOMAIN PoolHandles = 1..Len(pool)
        /\ \A q \in 1..Len(pool) : PoolHandles[q] = pool[q].entity /\ pool[q].entity \in Handles
    BY <1>1, Arrays, UsableHandles DEF Component
  <2>2. \A q \in 1..Len(pool) : Contained(poolSparse, pool[q].entity)
    BY <1>1, PoolPlace
  <2>3. \A h \in Holders : h \in Handles /\ poolSparse[h.id].at \in 1..Len(pool)
                           /\ pool[poolSparse[h.id].at].entity = h
    BY <1>1, PoolPlace DEF Holders
  <2>4. \A h : h \in Range(PoolHandles) <=> \E q \in 1..Len(pool) : h = pool[q].entity
    BY <2>1 DEF Range
  <2>5. \A h : h \in Holders => h \in Range(PoolHandles)
    BY <2>3, <2>4
  <2>6. \A h : h \in Range(PoolHandles) => h \in Holders
    BY <2>1, <2>2, <2>4 DEF Holders
  <2> QED  BY <2>5, <2>6
<1> QED  BY <1>2, <1>3 DEF NamesIn

\* A step of the storages is a step of the set, or none of its business.
LEMMA SetStep ==
  ASSUME Inv, Inv', [Next]_vars
  PROVE  [Entities!Next]_<<lives, {packed[p] : p \in 1..head},
                           [e \in Range(PoolHandles) |-> pool[poolSparse[e.id].at].names]>>
<1>1. PICK alive : alive = {packed[p] : p \in 1..head}
  OBVIOUS
<1>2. PICK alive2 : alive2 = {packed[p] : p \in 1..head}'
  OBVIOUS
<1>3. PICK named : named = [e \in Range(PoolHandles) |-> pool[poolSparse[e.id].at].names]
  OBVIOUS
<1>4. PICK named2 : named2 = [e \in Range(PoolHandles) |-> pool[poolSparse[e.id].at].names]'
  OBVIOUS
<1>5. alive = Alive /\ named = [e \in Holders |-> NamesIn(pool, poolSparse, e)]
  BY <1>1, <1>3, Mapped
<1>6. alive2 = Alive' /\ named2 = [e \in Holders' |-> NamesIn(pool', poolSparse', e)]
  <2>1. (/\ {packed[p] : p \in 1..head} = Alive
         /\ [e \in Range(PoolHandles) |-> pool[poolSparse[e.id].at].names] =
              [e \in Holders |-> NamesIn(pool, poolSparse, e)])'
    BY Mapped, PTL
  <2> QED  BY <1>2, <1>4, <2>1
<1>7. CASE Create
  <2>1. PICK e \in Usable :
          /\ lives[e.id] \in Nat /\ e.version = lives[e.id] % VersionMask
          /\ lives' = [lives EXCEPT ![e.id] = @ + 1]
          /\ \A h \in Handles : Valid(h)' <=> Valid(h) \/ h = e
          /\ \A h \in Handles : Valid(h) => h.id # e.id
    BY <1>7, CreateStep
  <2>2. e \in Handles /\ e.id \in Ids /\ e = [id |-> e.id, version |-> lives[e.id] % VersionMask]
    BY <2>1, UsableHandles DEF Usable
  <2>3. alive2 = alive \cup {[id |-> e.id, version |-> lives[e.id] % VersionMask]}
    BY <1>5, <1>6, <2>1, <2>2 DEF Alive
  <2>4. named2 = named
    BY <1>5, <1>6, <1>7 DEF Create, Holders
  <2>5. \A h \in alive : h.id # e.id
    BY <1>5, <2>1 DEF Alive
  <2>6. Entities!Create(e.id)
    BY <1>1, <1>2, <1>3, <1>4, <2>1, <2>3, <2>4, <2>5 DEF Entities!Create
  <2> QED  BY <2>2, <2>6 DEF Entities!Next
<1>8. ASSUME NEW e \in Handles, NEW handles \in BoundedSeq(Nameable(e), MaxNamed), Emplace(e, handles)
      PROVE  Entities!Next
  <2>1. /\ handles \in Seq(Usable)
        /\ \A h \in Handles : Contained(poolSparse', h) <=> Contained(poolSparse, h) \/ h = e
        /\ \A h \in Handles : Contained(poolSparse, h) =>
             NamesIn(pool', poolSparse', h) = NamesIn(pool, poolSparse, h)
        /\ NamesIn(pool', poolSparse', e) = handles
    BY <1>8, EmplaceStep
  <2>2. lives' = lives /\ alive2 = alive
    BY <1>5, <1>6, <1>8 DEF Emplace, store, Alive, Valid
  <2>3. e \in alive /\ e \notin DOMAIN named
    BY <1>5, <1>8 DEF Emplace, Alive, Holders
  <2>4. DOMAIN named2 = DOMAIN named \cup {e}
    BY <1>5, <1>6, <2>1 DEF Holders
  <2>5. Entities!Restrict(named2, DOMAIN named) = named
    <3>1. \A h \in DOMAIN named : named2[h] = named[h]
      BY <1>5, <1>6, <2>1, <2>4 DEF Holders
    <3>2. named = [h \in DOMAIN named |-> named[h]]
      BY <1>5
    <3> QED  BY <3>1, <3>2 DEF Entities!Restrict
  <2>6. named2[e] \in Seq([id : Ids, version : 0..(VersionMask - 1)])
    <3>1. named2[e] = handles
      BY <1>6, <2>1, <2>4
    <3> QED  BY <2>1, <3>1 DEF Usable
  <2>7. Entities!Emplace(e)
    BY <1>1, <1>2, <1>3, <1>4, <2>2, <2>3, <2>4, <2>5, <2>6 DEF Entities!Emplace
  <2> QED  BY <1>1, <2>3, <2>7 DEF Entities!Next
<1>9. ASSUME UNCHANGED <<store, pool, poolSparse>>
      PROVE  lives' = lives /\ alive2 = alive /\ named2 = named
  BY <1>5, <1>6, <1>9 DEF store, Alive, Valid, Holders
<1>10. CASE Destroyed
  <2>1. PICK e \in Alive :
          /\ Alive' = Alive \ {e} /\ lives' = lives
          /\ \A h \in Handles : Contained(poolSparse', h) <=> Contained(poolSparse, h) /\ h # e
          /\ \A h \in Handles : Contained(poolSparse, h) /\ h # e =>
               NamesIn(pool', poolSparse', h) = NamesIn(pool, poolSparse, h)
          /\ Contained(poolSparse, e) =>
               \A j \in 1..Len(NamesIn(pool, poolSparse, e)) :
                 NamesIn(pool, poolSparse, e)[j] \notin Alive
    BY <1>10, DestroyedStep
  <2>2. e \in alive /\ alive2 = alive \ {e} /\ e \in Handles
    BY <1>5, <1>6, <2>1 DEF Alive
  <2>3. named2 = Entities!Restrict(named, DOMAIN named \ {e})
    <3>1. Holders' = Holders \ {e} /\ DOMAIN named = Holders
      BY <1>5, <2>1 DEF Holders
    <3>2. \A h \in Holders \ {e} : named[h] = NamesIn(pool', poolSparse', h)
      BY <1>5, <2>1 DEF Holders
    <3> QED  BY <1>6, <3>1, <3>2 DEF Entities!Restrict
  <2>4. e \in DOMAIN named => Entities!Range(named[e]) \cap alive = {}
    <3> SUFFICES ASSUME e \in Holders  PROVE Entities!Range(named[e]) \cap alive = {}
      BY <1>5
    <3>1. Contained(poolSparse, e) /\ named[e] = NamesIn(pool, poolSparse, e)
      BY <1>5 DEF Holders
    <3>2. PICK names \in Seq(Usable) : names = named[e]
      BY <2>2, <3>1, NamesUsable DEF Inv
    <3>3. \A j \in 1..Len(names) : names[j] \notin Alive
      BY <2>1, <3>1, <3>2
    <3>4. DOMAIN names = 1..Len(names)
      BY <3>2
    <3> QED  BY <1>5, <3>2, <3>3, <3>4 DEF Entities!Range
  <2>5. Entities!Destroy(e)
    BY <1>1, <1>2, <1>3, <1>4, <2>1, <2>2, <2>3, <2>4 DEF Entities!Destroy
  <2> QED  BY <1>1, <2>2, <2>5 DEF Entities!Next
<1>11. ASSUME lives' = lives, alive2 = alive, named2 = named
       PROVE  [Entities!Next]_<<lives, {packed[p] : p \in 1..head},
                                [e \in Range(PoolHandles) |-> pool[poolSparse[e.id].at].names]>>
  BY <1>1, <1>2, <1>3, <1>4, <1>11
<1>12. CASE Visit
  BY <1>9, <1>11, <1>12 DEF Visit
<1>13. ASSUME NEW e \in Handles, Destroy(e)
       PROVE  lives' = lives /\ alive2 = alive /\ named2 = named
  BY <1>9, <1>13 DEF Destroy
<1>14. CASE UNCHANGED vars
  BY <1>9, <1>11, <1>14 DEF vars
<1> QED  BY <1>7, <1>8, <1>10, <1>11, <1>12, <1>13, <1>14 DEF Next

\* The two storages, with their swaps, recycled versions and nested
\* destructions, are the set of entities game code takes the registry for.
THEOREM StorageImplementsSet == Spec => RefinesEntitySet
<1>1. Init => Entities!Init
  <2> SUFFICES ASSUME Init PROVE Entities!Init
    OBVIOUS
  <2>1. {packed[p] : p \in 1..head} = {}
    BY DEF Init
  <2>2. [e \in Range(PoolHandles) |-> pool[poolSparse[e.id].at].names] = <<>>
    <3>1. DOMAIN PoolHandles = {}
      BY DEF Init, PoolHandles
    <3>2. Range(PoolHandles) = {}
      BY <3>1 DEF Range
    <3> QED  BY <3>2
  <2> QED  BY <2>1, <2>2 DEF Init, Entities!Init
<1> QED  BY <1>1, SetStep, InvHolds, PTL DEF Spec, RefinesEntitySet, Entities!Spec
=============================================================================
