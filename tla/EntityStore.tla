---------------------------- MODULE EntityStore ----------------------------
(***************************************************************************)
(* The part of EnTT the repository stands on: how a registry gives out and *)
(* takes back entities (the swap-only storage of entities), and how it     *)
(* keeps one kind of component, MeshCollection, whose destruction calls    *)
(* Destroy_MeshCollection, which destroys more entities from inside the    *)
(* pool's pop.  Positions are one higher than the code's.                  *)
(*                                                                         *)
(* Pools without a listener have the same arrays and nothing can happen in *)
(* the middle of their pop; they are left out.                             *)
(*                                                                         *)
(* A definition noted "mutated" is not part of the model: it is the form   *)
(* its neighbour would have with a plausible bug, for the runs to catch.   *)
(***************************************************************************)
EXTENDS Naturals, Sequences, SequencesExt

CONSTANTS
  MaxIds,       \* bound: entities created before one is recycled
  VersionMask,  \* version_mask, 0xFFF in the build; as a version, the tombstone's
  MaxLives,     \* bound: lives of a number
  MaxNamed      \* bound: handles a MeshCollection names

ASSUME EntityStoreAssumption ==
  /\ MaxIds \in Nat /\ MaxLives \in Nat /\ MaxNamed \in Nat
  /\ VersionMask \in Nat \ {0}

Ids == 0..(MaxIds - 1)
Handles == [id : Ids, version : 0..VersionMask]
Null == [at |-> 0, version |-> VersionMask]   \* no position

VARIABLES
  packed,       \* the storage of entities: handles, those alive first
  sparse,       \* where each number is: position and version, or Null
  head,         \* free_list: how many are alive
  pool,         \* the pool of MeshCollection: an entity and what it names
  poolSparse,   \* where each number is in the pool
  calls,        \* registry.destroy under way, the innermost last: the entity,
                \*   its place in the pool when it began, what it has yet to visit
  lives         \* history: how often each number has been given out

store == <<packed, sparse, head, lives>>
vars  == <<store, pool, poolSparse, calls>>

Init ==
  /\ packed = <<>> /\ sparse = [i \in Ids |-> Null] /\ head = 0
  /\ pool = <<>> /\ poolSparse = [i \in Ids |-> Null]
  /\ calls = <<>>
  /\ lives = [i \in Ids |-> 0]

-----------------------------------------------------------------------------
(* Sparse sets.                                                            *)

NextUnskipped(v) == (v + 1) % (VersionMask + 1)   \* mutated
NextVersion(v) == LET u == v + 1 IN (IF u = VersionMask THEN u + 1 ELSE u) % (VersionMask + 1)

AnyVersion(sp, h) == sp[h.id] # Null   \* mutated
Contained(sp, h) == sp[h.id] # Null /\ sp[h.id].version = h.version

Valid(h) == Contained(sparse, h) /\ sparse[h.id].at <= head

Swapped(p, a, b) == [p EXCEPT ![a] = p[b], ![b] = p[a]]
At(sp, h, a) == [sp EXCEPT ![h.id] = [at |-> a, version |-> h.version]]

\* Both positions are written before the handles are swapped.
SwappedSparse(p, sp, a, b) == At(At(sp, p[a], b), p[b], a)

-----------------------------------------------------------------------------
(* The registry.                                                           *)

\* The handle a recycled number comes back with waits behind those alive.
Create ==
  /\ calls = <<>>
  /\ head' = head + 1
  /\ LET fresh == head = Len(packed)
         e     == IF fresh THEN [id |-> head, version |-> 0] ELSE packed[head + 1]
     IN /\ e.id \in Ids /\ lives[e.id] < MaxLives
        /\ packed' = IF fresh THEN Append(packed, e) ELSE packed
        /\ sparse' = At(sparse, e, head + 1)
        /\ lives' = [lives EXCEPT ![e.id] = @ + 1]
  /\ UNCHANGED <<pool, poolSparse, calls>>

\* As game code and Construct_GPULevel do, NoReentry of LevelLoad: what an
\* entity names never leads back to it.  Here it names higher numbers only.
Nameable(e) == {h \in Handles : h.id > e.id /\ h.version < lives[h.id] /\ h.version < VersionMask}

Emplace(e, handles) ==
  /\ calls = <<>>
  /\ Valid(e) /\ ~Contained(poolSparse, e)
  /\ pool' = Append(pool, [entity |-> e, names |-> handles])
  /\ poolSparse' = At(poolSparse, e, Len(pool) + 1)
  /\ UNCHANGED <<store, calls>>

\* registry.destroy as far as the listener's loop.
Call(e) ==
  LET at == IF Contained(poolSparse, e) THEN poolSparse[e.id].at ELSE 0
  IN [entity |-> e, at |-> at, rest |-> IF at = 0 THEN <<>> ELSE pool[at].names]

Destroy(e) ==
  /\ calls = <<>>
  /\ Valid(e)
  /\ calls' = <<Call(e)>>
  /\ UNCHANGED <<store, pool, poolSparse>>

Visit ==
  /\ calls # <<>> /\ Last(calls).rest # <<>>
  /\ LET e    == Head(Last(calls).rest)
         here == [calls EXCEPT ![Len(calls)].rest = Tail(@)]
     IN calls' = IF Valid(e) THEN Append(here, Call(e)) ELSE here
  /\ UNCHANGED <<store, pool, poolSparse>>

\* The last component takes the place of the one that goes; its listener may
\* have moved it.
PlaceBefore(c) == IF c.at \in DOMAIN pool THEN c.at ELSE Len(pool)   \* mutated
Place(c) == poolSparse[c.entity.id].at

Popped(at) == Front([pool EXCEPT ![at] = Last(pool)])
PoppedSparse(at) ==
  [At(poolSparse, Last(pool).entity, at) EXCEPT ![pool[at].entity.id] = Null]

\* The entity, with its next version, changes places with the last one alive.
EraseEntity(e) ==
  LET p      == sparse[e.id].at
      next   == [id |-> e.id, version |-> NextVersion(e.version)]
      bumped == [packed EXCEPT ![p] = next]
  IN /\ packed' = Swapped(bumped, p, head)
     /\ sparse' = SwappedSparse(bumped, At(sparse, next, p), p, head)
     /\ head' = head - 1
     /\ UNCHANGED lives

Destroyed ==
  /\ calls # <<>> /\ Last(calls).rest = <<>>
  /\ IF Last(calls).at # 0
     THEN pool' = Popped(Place(Last(calls))) /\ poolSparse' = PoppedSparse(Place(Last(calls)))
     ELSE UNCHANGED <<pool, poolSparse>>
  /\ EraseEntity(Last(calls).entity)
  /\ calls' = Front(calls)

Next ==
  \/ Create
  \/ \E e \in Handles : \E handles \in BoundedSeq(Nameable(e), MaxNamed) : Emplace(e, handles)
  \/ \E e \in Handles : Destroy(e)
  \/ Visit
  \/ Destroyed

Spec == Init /\ [][Next]_vars

-----------------------------------------------------------------------------
(* Properties.                                                             *)

\* The two arrays of a sparse set lead to each other.
Linked(handles, sp) ==
  /\ \A p \in DOMAIN handles : sp[handles[p].id] = [at |-> p, version |-> handles[p].version]
  /\ \A i \in Ids : sp[i] # Null => sp[i].at \in DOMAIN handles /\ handles[sp[i].at].id = i

PoolHandles == [p \in DOMAIN pool |-> pool[p].entity]

\* A handle given out or waiting never has the tombstone's version, and the
\* arrays of both sets agree, at any depth of a cascade.
TypeOK ==
  /\ packed \in Seq([id : Ids, version : 0..(VersionMask - 1)])
  /\ head \in 0..Len(packed)
  /\ Linked(packed, sparse)
  /\ pool \in Seq([entity : Handles, names : Seq(Handles)])
  /\ Linked(PoolHandles, poolSparse)

\* A handle kept beyond its entity's death is refused until its number has
\* been given out VersionMask more times, whoever has the number now.
StaleRefused ==
  \A i \in Ids : \A life \in 1..(lives[i] - 1) :
    lives[i] - life < VersionMask => ~Valid([id |-> i, version |-> (life - 1) % VersionMask])

\* The arrays stay linked as TypeOK says, and Destroy_MeshCollection goes on
\* through a collection while nested calls move components: it is still there,
\* and is the one its entity has.
LoopIntact ==
  /\ TypeOK
  /\ \A k \in DOMAIN calls : LET c == calls[k] IN c.at # 0 =>
       /\ Contained(poolSparse, c.entity)
       /\ IsSuffix(c.rest, pool[poolSparse[c.entity.id].at].names)

\* Both storages together are the set of entities game code takes them for.
Entities == INSTANCE EntitySet WITH
  Versions <- VersionMask,
  alive    <- {packed[p] : p \in 1..head},
  named    <- [e \in Range(PoolHandles) |-> pool[poolSparse[e.id].at].names]

RefinesEntitySet == Entities!Spec
=============================================================================
