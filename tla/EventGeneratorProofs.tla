------------------------ MODULE EventGeneratorProofs ------------------------
(***************************************************************************)
(* Proofs about EventGenerator, for any threads, listeners and size of the *)
(* arrays: no array and no index leaves its range, callbacks run without   *)
(* the lock, and the generator does what EventBus promises.                *)
(***************************************************************************)
EXTENDS EventGenerator, SequenceTheorems, WellFoundedInduction, TLAPS

-----------------------------------------------------------------------------
\* Sequences.

\* The last element of a sequence and the rest of it.
LEMMA FrontAndLast ==
  ASSUME NEW S, NEW s \in Seq(S), s # <<>>
  PROVE  /\ Last(s) \in S
         /\ Front(s) \in Seq(S)
         /\ Len(Front(s)) = Len(s) - 1
         /\ \A i \in 1..(Len(s) - 1) : Front(s)[i] = s[i]
         /\ Len(s) \in Nat \ {0} /\ Len(s) \in DOMAIN s /\ Last(s) = s[Len(s)]
  <1>1. Len(s) \in Nat \ {0} /\ Len(s) \in DOMAIN s /\ Last(s) = s[Len(s)] /\ Last(s) \in S
    BY DEF Last
  <1> DEFINE n == Len(s) - 1
  <1>2. n \in Nat /\ \A i \in 1..n : s[i] \in S
    BY <1>1
  <1> HIDE DEF n
  <1>3. /\ SubSeq(s, 1, n) \in Seq(S) /\ Len(SubSeq(s, 1, n)) = n
        /\ \A i \in 1..n : SubSeq(s, 1, n)[i] = s[i]
    BY <1>2, SubSeqProperties
  <1>4. Front(s) = SubSeq(s, 1, n)
    BY DEF Front, n
  <1>5. n = Len(s) - 1
    BY DEF n
  <1> QED BY <1>1, <1>3, <1>4, <1>5

\* Appending an element.
LEMMA Appended ==
  ASSUME NEW S, NEW s \in Seq(S), NEW e \in S
  PROVE  /\ Append(s, e) \in Seq(S) /\ Append(s, e) # <<>>
         /\ Len(Append(s, e)) = Len(s) + 1 /\ Append(s, e)[Len(s) + 1] = e
         /\ \A i \in 1..Len(s) : Append(s, e)[i] = s[i]
         /\ Last(Append(s, e)) = e
  BY DEF Last

\* Replacing the last element.
LEMMA LastReplaced ==
  ASSUME NEW S, NEW s \in Seq(S), s # <<>>, NEW e \in S
  PROVE  LET r == Append(Front(s), e)
         IN /\ r \in Seq(S) /\ r # <<>>
            /\ Len(r) = Len(s) /\ r[Len(s)] = e
            /\ \A i \in 1..(Len(s) - 1) : r[i] = s[i]
            /\ Last(r) = e /\ Front(r) = Front(s)
  <1> DEFINE f == Front(s)
             r == Append(f, e)
  <1>1. f \in Seq(S) /\ Len(f) = Len(s) - 1 /\ Len(s) \in Nat \ {0} /\ \A i \in 1..(Len(s) - 1) : f[i] = s[i]
    BY FrontAndLast
  <1> HIDE DEF f
  <1>2. /\ r \in Seq(S) /\ r # <<>>
        /\ Len(r) = Len(s) /\ r[Len(s)] = e
        /\ \A i \in 1..(Len(s) - 1) : r[i] = s[i]
    BY <1>1
  <1>3. Last(r) = e
    BY <1>2 DEF Last
  <1>4. Front(r) = f
    BY <1>1 DEF Front
  <1> QED BY <1>2, <1>3, <1>4 DEF f

\* Removing an element.
LEMMA Removed ==
  ASSUME NEW S, NEW s \in Seq(S), NEW i \in DOMAIN s
  PROVE  RemoveAt(s, i) \in Seq(S) /\ Len(RemoveAt(s, i)) = Len(s) - 1
  <1>1. i \in 1..Len(s)
    OBVIOUS
  <1>2. SubSeq(s, 1, i - 1) \in Seq(S) /\ Len(SubSeq(s, 1, i - 1)) = i - 1
    BY <1>1, SubSeqProperties
  <1>3. SubSeq(s, i + 1, Len(s)) \in Seq(S) /\ Len(SubSeq(s, i + 1, Len(s))) = Len(s) - i
    BY <1>1, SubSeqProperties
  <1> DEFINE before == SubSeq(s, 1, i - 1)
             after  == SubSeq(s, i + 1, Len(s))
  <1>4. before \in Seq(S) /\ after \in Seq(S) /\ Len(before) = i - 1 /\ Len(after) = Len(s) - i
    BY <1>2, <1>3
  <1>5. RemoveAt(s, i) = before \o after
    BY DEF RemoveAt
  <1> HIDE DEF before, after
  <1>6. before \o after \in Seq(S) /\ Len(before \o after) = Len(before) + Len(after)
    BY <1>4, ConcatProperties
  <1> QED BY <1>1, <1>4, <1>5, <1>6

-----------------------------------------------------------------------------
\* The invariant.

\* Types, without the bounds.
Types ==
  /\ listeners \in Seq(Listeners)
  /\ dead \subseteq Listeners
  /\ asked \in [Threads -> {NoCall} \cup ({"register", "deregister"} \X Listeners)]
  /\ locker \in Threads \cup {NoThread}
  /\ pushes \in [Threads -> Seq(PushState)]

\* The arrays of a push and its index stay in their ranges.
InRange(push) ==
  /\ push.current >= -1
  /\ \A a \in DOMAIN push.arrays : Len(push.arrays[a]) <= Stack

\* While a push collects, every one of the n entries of the list is still to be
\* looked at or in one of its arrays, and all arrays but the last are full.
Counted(push, n) ==
  /\ push.arrays # <<>>
  /\ n = push.current + 1 + Stack * (Len(push.arrays) - 1) + Len(Last(push.arrays))

\* A push that waits for the lock has collected nothing, any other has an array.
PushRight(push, n) ==
  /\ InRange(push)
  /\ push.at = "lock" => push.arrays = <<>>
  /\ push.at = "collect" => Counted(push, n)
  /\ push.at \in {"invoke", "callback"} => push.arrays # <<>>

PushesRight ==
  \A t \in Threads : \A p \in DOMAIN pushes[t] : PushRight(pushes[t][p], Len(listeners))

IInv ==
  /\ Types
  /\ CallbacksUnlocked
  /\ PushesRight

\* A thread goes on in its innermost push.
LEMMA Continued ==
  ASSUME Types, NEW t \in Threads, Busy(t), NEW push \in PushState, Continue(t, push)
  PROVE  /\ pushes' \in [Threads -> Seq(PushState)]
         /\ \A u \in Threads \ {t} : pushes'[u] = pushes[u]
         /\ Len(pushes'[t]) = Len(pushes[t]) /\ pushes'[t] # <<>>
         /\ pushes'[t][Len(pushes[t])] = push /\ Last(pushes'[t]) = push
         /\ \A p \in 1..(Len(pushes[t]) - 1) : pushes'[t][p] = pushes[t][p]
         /\ Len(pushes[t]) \in Nat \ {0}
         /\ Last(pushes[t]) \in PushState /\ Last(pushes[t]) = pushes[t][Len(pushes[t])]
  <1> DEFINE r == Append(Front(pushes[t]), push)
  <1>1. pushes[t] \in Seq(PushState) /\ pushes[t] # <<>>
    BY DEF Types, Busy
  <1>2. pushes' = [pushes EXCEPT ![t] = r]
    BY DEF Continue
  <1>3. /\ r \in Seq(PushState) /\ r # <<>>
        /\ Len(r) = Len(pushes[t]) /\ r[Len(pushes[t])] = push
        /\ \A p \in 1..(Len(pushes[t]) - 1) : r[p] = pushes[t][p]
        /\ Last(r) = push
    BY <1>1, LastReplaced
  <1>4. pushes'[t] = r /\ \A u \in Threads \ {t} : pushes'[u] = pushes[u]
    BY <1>2 DEF Types
  <1>5. pushes' \in [Threads -> Seq(PushState)]
    BY <1>2, <1>3 DEF Types
  <1> HIDE DEF r
  <1> QED BY <1>1, <1>3, <1>4, <1>5, FrontAndLast

\* The length of the list matters to nobody but the collector.
LEMMA OnlyCollectorCounts ==
  ASSUME NEW push, NEW n, NEW m, PushRight(push, n), push.at # "collect"
  PROVE  PushRight(push, m)
  BY DEF PushRight

\* Only the holder of the lock collects, and in its innermost push.
LEMMA CollectorHasLock ==
  ASSUME Types, CallbacksUnlocked, NEW t \in Threads, NEW p \in DOMAIN pushes[t],
         pushes[t][p].at = "collect"
  PROVE  locker = t /\ p = Len(pushes[t])
  <1>1. pushes[t] \in Seq(PushState) /\ p \in 1..Len(pushes[t])
    BY DEF Types
  <1>2. p = Len(pushes[t])
    BY <1>1 DEF CallbacksUnlocked
  <1>3. At(t, "collect")
    BY <1>1, <1>2 DEF At, Busy, Last
  <1> QED BY <1>2, <1>3 DEF CallbacksUnlocked

\* The other pushes of the thread that goes on, and those of other threads, stay right.
LEMMA PushesStayRight ==
  ASSUME IInv, NEW t \in Threads, Busy(t), NEW push \in PushState, Continue(t, push),
         PushRight(push, Len(listeners')),
         Len(listeners') = Len(listeners) \/ locker = t \/ locker = NoThread
  PROVE  PushesRight'
  <1> SUFFICES ASSUME NEW u \in Threads, NEW p \in DOMAIN pushes'[u]
               PROVE  PushRight(pushes'[u][p], Len(listeners'))
    BY DEF PushesRight
  <1>0. Types /\ CallbacksUnlocked /\ PushesRight
    BY DEF IInv
  <1>1. CASE u = t
    <2>1. p \in 1..Len(pushes[t])
      BY <1>0, <1>1, Continued
    <2>2. CASE p = Len(pushes[t])
      BY <1>0, <1>1, <2>2, Continued
    <2>3. CASE p # Len(pushes[t])
      <3>1. p \in 1..(Len(pushes[t]) - 1) /\ p \in DOMAIN pushes[t]
        BY <1>0, <2>1, <2>3 DEF Types
      <3>2. pushes'[t][p] = pushes[t][p]
        BY <1>0, <3>1, Continued
      <3>3. PushRight(pushes[t][p], Len(listeners))
        BY <1>0, <3>1 DEF PushesRight
      <3>4. pushes[t][p].at # "collect"
        BY <1>0, <3>1, <2>3, CollectorHasLock
      <3> QED BY <1>1, <3>2, <3>3, <3>4, OnlyCollectorCounts
    <2> QED BY <2>2, <2>3
  <1>2. CASE u # t
    <2>1. pushes'[u] = pushes[u] /\ p \in DOMAIN pushes[u]
      BY <1>0, <1>2, Continued
    <2>2. PushRight(pushes[u][p], Len(listeners))
      BY <1>0, <2>1 DEF PushesRight
    <2>3. CASE pushes[u][p].at = "collect"
      <3>1. locker = u
        BY <1>0, <2>1, <2>3, CollectorHasLock
      <3>2. Len(listeners') = Len(listeners)
        BY <3>1, <1>2, EventGeneratorAssumption
      <3> QED BY <2>1, <2>2, <3>2
    <2>4. CASE pushes[u][p].at # "collect"
      BY <2>1, <2>2, <2>4, OnlyCollectorCounts
    <2> QED BY <2>3, <2>4
  <1> QED BY <1>1, <1>2

\* The lock stays with the collector when a thread goes on and takes the lock,
\* keeps it or gives it up as it should.
LEMMA LockFollows ==
  ASSUME IInv, NEW t \in Threads, Busy(t), NEW push \in PushState, Continue(t, push),
         locker' = t <=> push.at = "collect",
         \A u \in Threads \ {t} : locker' = u <=> locker = u
  PROVE  CallbacksUnlocked'
  <1>0. Types /\ CallbacksUnlocked
    BY DEF IInv
  <1> SUFFICES ASSUME NEW u \in Threads
               PROVE  /\ locker' = u <=> At(u, "collect")'
                      /\ \A p \in DOMAIN pushes'[u] : p < Len(pushes'[u]) => pushes'[u][p].at = "callback"
    BY DEF CallbacksUnlocked
  <1>1. CASE u = t
    <2>1. At(t, "collect")' <=> push.at = "collect"
      BY <1>0, Continued DEF At, Busy
    <2>2. \A p \in DOMAIN pushes'[t] : p < Len(pushes'[t]) => pushes'[t][p].at = "callback"
      <3> SUFFICES ASSUME NEW p \in DOMAIN pushes'[t], p < Len(pushes'[t])
                   PROVE  pushes'[t][p].at = "callback"
        OBVIOUS
      <3>1. p \in 1..(Len(pushes[t]) - 1) /\ p \in DOMAIN pushes[t] /\ p < Len(pushes[t])
        BY <1>0, Continued DEF Types
      <3>2. pushes'[t][p] = pushes[t][p]
        BY <1>0, <3>1, Continued
      <3> QED BY <1>0, <3>1, <3>2 DEF CallbacksUnlocked
    <2> QED BY <1>1, <2>1, <2>2
  <1>2. CASE u # t
    <2>1. pushes'[u] = pushes[u]
      BY <1>0, <1>2, Continued
    <2>2. At(u, "collect")' <=> At(u, "collect")
      BY <2>1 DEF At, Busy
    <2> QED BY <1>0, <1>2, <2>1, <2>2 DEF CallbacksUnlocked
  <1> QED BY <1>1, <1>2

\* A step by which thread t goes on in its innermost push.
LEMMA GoesOn ==
  ASSUME IInv, NEW t \in Threads, Busy(t), NEW push \in PushState, Continue(t, push),
         PushRight(push, Len(listeners')),
         Len(listeners') = Len(listeners) \/ locker = t \/ locker = NoThread,
         locker' = t <=> push.at = "collect",
         \A u \in Threads \ {t} : locker' = u <=> locker = u,
         listeners' \in Seq(Listeners), dead' = dead, asked' = asked, locker' \in Threads \cup {NoThread}
  PROVE  IInv'
  <1>0. Types
    BY DEF IInv
  <1>1. Types'
    BY <1>0, Continued DEF Types
  <1> QED BY <1>1, PushesStayRight, LockFollows DEF IInv

\* A step that touches neither the lock nor a push.
LEMMA PushesUntouched ==
  ASSUME IInv, Types', UNCHANGED <<locker, pushes>>,
         Len(listeners') = Len(listeners) \/ locker = NoThread
  PROVE  IInv'
  <1>0. Types /\ CallbacksUnlocked /\ PushesRight
    BY DEF IInv
  <1>1. CallbacksUnlocked'
    BY <1>0 DEF CallbacksUnlocked, At, Busy
  <1>2. PushesRight'
    <2> SUFFICES ASSUME NEW t \in Threads, NEW p \in DOMAIN pushes[t]
                 PROVE  PushRight(pushes[t][p], Len(listeners'))
      BY DEF PushesRight
    <2>1. PushRight(pushes[t][p], Len(listeners))
      BY <1>0 DEF PushesRight
    <2>2. pushes[t][p].at = "collect" => locker \in Threads
      BY <1>0, CollectorHasLock
    <2> QED BY <2>1, <2>2, OnlyCollectorCounts, EventGeneratorAssumption
  <1> QED BY <1>1, <1>2 DEF IInv

\* What a thread knows of its innermost push.
LEMMA Innermost ==
  ASSUME IInv, NEW t \in Threads, Busy(t)
  PROVE  /\ Last(pushes[t]) \in PushState
         /\ PushRight(Last(pushes[t]), Len(listeners))
         /\ locker = t <=> Last(pushes[t]).at = "collect"
  <1>1. pushes[t] \in Seq(PushState) /\ pushes[t] # <<>>
    BY DEF IInv, Types, Busy
  <1>2. Len(pushes[t]) \in DOMAIN pushes[t] /\ Last(pushes[t]) = pushes[t][Len(pushes[t])]
    BY <1>1, FrontAndLast
  <1>3. At(t, "collect") <=> Last(pushes[t]).at = "collect"
    BY DEF At
  <1> QED BY <1>1, <1>2, <1>3, FrontAndLast DEF IInv, PushesRight, CallbacksUnlocked

\* The fields of a push.
LEMMA Fields ==
  ASSUME NEW push \in PushState
  PROVE  /\ push.at \in {"lock", "collect", "invoke", "callback"}
         /\ push.current \in Int
         /\ push.arrays \in Seq(Seq(Listeners))
         /\ \A at \in {"lock", "collect", "invoke", "callback"}, current \in Int,
               arrays \in Seq(Seq(Listeners)) :
              [at |-> at, current |-> current, arrays |-> arrays] \in PushState
  BY DEF PushState

\* Entering a RecursivePush, the first or one below arrays that are all full.
LEMMA EnteredRight ==
  ASSUME NEW push \in PushState, InRange(push), listeners \in Seq(Listeners),
         \/ push.arrays = <<>>
         \/ Counted(push, Len(listeners)) /\ push.current >= 0 /\ ~HasRoom(push)
  PROVE  Entered(push) \in PushState /\ PushRight(Entered(push), Len(listeners))
  <1> DEFINE arrays == Append(push.arrays, <<>>)
             current == Len(listeners) - 1 - Stack * Len(push.arrays)
  <1>1. push.arrays \in Seq(Seq(Listeners)) /\ push.current \in Int /\ Len(push.arrays) \in Nat
        /\ Len(listeners) \in Nat /\ Stack \in Nat \ {0}
    BY Fields, EventGeneratorAssumption
  <1>2. /\ arrays \in Seq(Seq(Listeners)) /\ arrays # <<>>
        /\ Len(arrays) = Len(push.arrays) + 1 /\ arrays[Len(arrays)] = <<>>
        /\ \A a \in 1..Len(push.arrays) : arrays[a] = push.arrays[a]
        /\ Last(arrays) = <<>>
    <2> DEFINE none == <<>>
               Array == Seq(Listeners)
    <2>1. none \in Array /\ push.arrays \in Seq(Array)
      BY <1>1
    <2>2. arrays = Append(push.arrays, none)
      OBVIOUS
    <2> HIDE DEF none, Array, arrays
    <2>3. /\ arrays \in Seq(Array) /\ arrays # <<>>
          /\ Len(arrays) = Len(push.arrays) + 1 /\ arrays[Len(arrays)] = none
          /\ \A a \in 1..Len(push.arrays) : arrays[a] = push.arrays[a]
          /\ Last(arrays) = none
      BY <2>1, <2>2, Appended
    <2> QED BY <2>3 DEF none, Array
  <1>3. current \in Int /\ current >= -1
    <2>1. CASE push.arrays = <<>>
      <3>1. Len(push.arrays) = 0
        BY <2>1
      <3>2. Stack * Len(push.arrays) = 0
        BY <1>1, <3>1
      <3> QED BY <1>1, <3>2
    <2>2. CASE Counted(push, Len(listeners)) /\ push.current >= 0 /\ ~HasRoom(push)
      <3>1. Last(push.arrays) \in Seq(Listeners) /\ Len(push.arrays) \in DOMAIN push.arrays
            /\ Last(push.arrays) = push.arrays[Len(push.arrays)]
        <4>1. push.arrays # <<>>
          BY <2>2 DEF Counted
        <4> QED BY <1>1, <4>1, FrontAndLast
      <3>2. Len(Last(push.arrays)) = Stack
        BY <1>1, <2>2, <3>1 DEF InRange, HasRoom
      <3>3. Stack * (Len(push.arrays) - 1) + Stack = Stack * Len(push.arrays)
        BY <1>1
      <3>4. Stack * (Len(push.arrays) - 1) \in Int /\ Stack * Len(push.arrays) \in Int
        BY <1>1
      <3> HIDE DEF current
      <3>5. Len(listeners) - 1 - Stack * Len(push.arrays) = push.current
        BY <1>1, <2>2, <3>2, <3>3, <3>4 DEF Counted
      <3>6. current = push.current
        BY <3>5 DEF current
      <3> QED BY <1>1, <2>2, <3>6
    <2> QED BY <2>1, <2>2
  <1>4. Entered(push) = [at |-> "collect", current |-> current, arrays |-> arrays]
    BY DEF Entered, Offset, arrays
  <1>5. \A a \in DOMAIN arrays : Len(arrays[a]) <= Stack
    BY <1>1, <1>2 DEF InRange
  <1> HIDE DEF arrays
  <1>7. Len(listeners) = current + 1 + Stack * (Len(arrays) - 1) + Len(Last(arrays))
    <2>1. Stack * (Len(arrays) - 1) = Stack * Len(push.arrays) /\ Stack * Len(push.arrays) \in Int
      BY <1>1, <1>2
    <2>2. Len(Last(arrays)) = 0
      BY <1>2
    <2> DEFINE taken == Stack * Len(push.arrays)
    <2>3. current = Len(listeners) - 1 - taken /\ taken \in Int
      BY <2>1
    <2>4. Stack * (Len(arrays) - 1) = taken
      BY <2>1
    <2> HIDE DEF taken, current
    <2>5. Len(listeners) = current + 1 + taken + 0
      BY <1>1, <2>3
    <2> QED BY <2>2, <2>4, <2>5, Zenon
  <1> HIDE DEF current
  <1>8. Entered(push) \in PushState
    BY <1>2, <1>3, <1>4, Fields
  <1>9. /\ Entered(push).at = "collect" /\ Entered(push).current = current
        /\ Entered(push).arrays = arrays
    BY <1>4
  <1> HIDE DEF Entered
  <1>10. InRange(Entered(push)) /\ Counted(Entered(push), Len(listeners))
    BY <1>2, <1>3, <1>5, <1>7, <1>9 DEF InRange, Counted
  <1> QED BY <1>8, <1>9, <1>10 DEF PushRight

\* Replacing fields of a record like a push.
LEMMA FieldsReplaced ==
  ASSUME NEW A, NEW B, NEW C, NEW r \in [at : A, current : B, arrays : C],
         NEW a \in A, NEW b \in B, NEW c \in C
  PROVE  LET R == [at : A, current : B, arrays : C]
             r1 == [r EXCEPT !.current = b, !.arrays = c]
             r2 == [r EXCEPT !.at = a, !.arrays = c]
             r3 == [r EXCEPT !.current = b]
             r4 == [r EXCEPT !.at = a]
             r5 == [r EXCEPT !.arrays = c]
         IN /\ r1 \in R /\ r1.at = r.at /\ r1.current = b /\ r1.arrays = c
            /\ r2 \in R /\ r2.at = a /\ r2.current = r.current /\ r2.arrays = c
            /\ r3 \in R /\ r3.at = r.at /\ r3.current = b /\ r3.arrays = r.arrays
            /\ r4 \in R /\ r4.at = a /\ r4.current = r.current /\ r4.arrays = r.arrays
            /\ r5 \in R /\ r5.at = r.at /\ r5.current = r.current /\ r5.arrays = c
  OBVIOUS

\* Replacing the last array.
LEMMA LastArrayReplaced ==
  ASSUME NEW push \in PushState, InRange(push), push.arrays # <<>>,
         NEW array \in Seq(Listeners), Len(array) <= Stack
  PROVE  LET new == Append(Front(push.arrays), array)
         IN /\ new \in Seq(Seq(Listeners)) /\ new # <<>>
            /\ Len(new) = Len(push.arrays) /\ Last(new) = array
            /\ \A a \in DOMAIN new : Len(new[a]) <= Stack
  <1> DEFINE new == Append(Front(push.arrays), array)
             old == push.arrays
             Array == Seq(Listeners)
  <1>1. old \in Seq(Array) /\ array \in Array /\ old # <<>>
    BY Fields
  <1>2. new = Append(Front(old), array)
    OBVIOUS
  <1>3. \A a \in DOMAIN old : Len(old[a]) <= Stack
    BY DEF InRange
  <1> HIDE DEF Array, old, new
  <1>4. Len(old) \in Nat \ {0}
    BY <1>1, FrontAndLast
  <1>5. /\ new \in Seq(Array) /\ new # <<>> /\ Last(new) = array
        /\ Len(new) = Len(old) /\ new[Len(old)] = array
        /\ \A a \in 1..(Len(old) - 1) : new[a] = old[a]
    BY <1>1, <1>2, LastReplaced
  <1>6. ASSUME NEW a \in DOMAIN new PROVE Len(new[a]) <= Stack
    <2>1. a \in 1..Len(old)
      BY <1>5
    <2>2. CASE a = Len(old)
      BY <1>5, <2>2
    <2>3. CASE a # Len(old)
      <3>1. a \in 1..(Len(old) - 1) /\ a \in DOMAIN old
        BY <1>1, <1>4, <2>1, <2>3
      <3> QED BY <1>3, <1>5, <3>1
    <2> QED BY <2>2, <2>3
  <1> QED BY <1>5, <1>6 DEF new, old, Array

\* What a collecting push points at is on the list.
LEMMA LooksAtTheList ==
  ASSUME NEW push \in PushState, Counted(push, Len(listeners)), listeners \in Seq(Listeners),
         push.current >= 0
  PROVE  /\ push.current + 1 \in DOMAIN listeners
         /\ Last(push.arrays) \in Seq(Listeners) /\ Len(Last(push.arrays)) \in Nat
         /\ Stack * (Len(push.arrays) - 1) \in Nat
  <1> DEFINE above == Stack * (Len(push.arrays) - 1)
  <1>1. push.arrays \in Seq(Seq(Listeners)) /\ push.arrays # <<>> /\ push.current \in Int
    BY Fields DEF Counted
  <1>2. Last(push.arrays) \in Seq(Listeners) /\ Len(push.arrays) \in Nat \ {0}
    BY <1>1, FrontAndLast
  <1>3. above \in Nat
    BY <1>2, EventGeneratorAssumption
  <1>4. Len(listeners) = push.current + 1 + above + Len(Last(push.arrays))
    BY DEF Counted
  <1>5. Len(Last(push.arrays)) \in Nat
    BY <1>2
  <1> HIDE DEF above
  <1>6. push.current + 1 \in DOMAIN listeners
    BY <1>1, <1>3, <1>4, <1>5
  <1> QED BY <1>2, <1>3, <1>5, <1>6 DEF above

-----------------------------------------------------------------------------
\* The steps.

\* The list is empty and nobody pushes.
LEMMA InitRight == Init => IInv
  BY EventGeneratorAssumption
     DEF Init, IInv, Types, CallbacksUnlocked, PushesRight, At, Busy, NoCall

\* A new push waits for the lock, on top of one that is in a callback.
LEMMA PushStep ==
  ASSUME IInv, NEW t \in Threads, Push(t)
  PROVE  IInv'
  <1> DEFINE new == [at |-> "lock", current |-> -1, arrays |-> <<>>]
             old == pushes[t]
  <1>0. Types /\ CallbacksUnlocked /\ PushesRight
    BY DEF IInv
  <1>1. new \in PushState /\ PushRight(new, Len(listeners)) /\ new.at = "lock"
    BY Fields DEF PushState, PushRight, InRange
  <1>2. old \in Seq(PushState)
    BY <1>0 DEF Types
  <1>3. pushes' = [pushes EXCEPT ![t] = Append(old, new)]
    BY DEF Push
  <1>4. pushes'[t] = Append(old, new) /\ \A u \in Threads \ {t} : pushes'[u] = pushes[u]
    BY <1>0, <1>3 DEF Types
  <1> HIDE DEF new
  <1>5. /\ Append(old, new) \in Seq(PushState) /\ Append(old, new) # <<>>
        /\ Len(Append(old, new)) = Len(old) + 1 /\ Append(old, new)[Len(old) + 1] = new
        /\ \A i \in 1..Len(old) : Append(old, new)[i] = old[i]
        /\ Last(Append(old, new)) = new
    BY <1>1, <1>2, Appended
  <1>6. pushes' \in [Threads -> Seq(PushState)]
    BY <1>0, <1>3, <1>5 DEF Types
  <1>7. UNCHANGED <<listeners, dead, asked, locker>>
    BY DEF Push
  <1>8. \A i \in DOMAIN old : old[i].at = "callback"
    <2> SUFFICES ASSUME NEW i \in DOMAIN old PROVE old[i].at = "callback"
      OBVIOUS
    <2>1. i \in 1..Len(old) /\ old # <<>>
      BY <1>2
    <2>2. CASE i = Len(old)
      BY <2>1, <2>2 DEF Push, MayCall, At, Busy, Last
    <2>3. CASE i # Len(old)
      BY <1>0, <1>2, <2>1, <2>3 DEF CallbacksUnlocked
    <2> QED BY <2>2, <2>3
  <1>9. locker # t
    <2> SUFFICES ASSUME At(t, "collect") PROVE FALSE
      BY <1>0 DEF CallbacksUnlocked
    <2>1. old # <<>> /\ Last(old).at = "collect"
      BY DEF At, Busy
    <2>2. Len(old) \in DOMAIN old /\ Last(old) = old[Len(old)]
      BY <1>2, <2>1, FrontAndLast
    <2> QED BY <1>8, <2>1, <2>2
  <1>10. CallbacksUnlocked'
    <2> SUFFICES ASSUME NEW u \in Threads
                 PROVE  /\ locker = u <=> At(u, "collect")'
                        /\ \A p \in DOMAIN pushes'[u] : p < Len(pushes'[u]) => pushes'[u][p].at = "callback"
      BY <1>7 DEF CallbacksUnlocked
    <2>1. CASE u = t
      <3>1. ~At(t, "collect")'
        BY <1>1, <1>4, <1>5 DEF At
      <3>2. \A p \in DOMAIN pushes'[t] : p < Len(pushes'[t]) => pushes'[t][p].at = "callback"
        BY <1>2, <1>4, <1>5, <1>8
      <3> QED BY <1>9, <2>1, <3>1, <3>2
    <2>2. CASE u # t
      <3>1. pushes'[u] = pushes[u]
        BY <1>4, <2>2
      <3> QED BY <1>0, <3>1 DEF CallbacksUnlocked, At, Busy
    <2> QED BY <2>1, <2>2
  <1>11. PushesRight'
    <2> SUFFICES ASSUME NEW u \in Threads, NEW p \in DOMAIN pushes'[u]
                 PROVE  PushRight(pushes'[u][p], Len(listeners))
      BY <1>7 DEF PushesRight
    <2>1. CASE u = t
      BY <1>0, <1>1, <1>2, <1>4, <1>5, <2>1 DEF PushesRight
    <2>2. CASE u # t
      BY <1>0, <1>4, <2>2 DEF PushesRight
    <2> QED BY <2>1, <2>2
  <1> QED BY <1>0, <1>6, <1>7, <1>10, <1>11 DEF IInv, Types

LEMMA RegisterStep ==
  ASSUME IInv, NEW t \in Threads, NEW l \in Listeners, Register(t, l)
  PROVE  IInv'
  <1>1. Types'
    BY Appended DEF Register, IInv, Types
  <1>2. locker = NoThread /\ UNCHANGED <<locker, pushes>>
    BY DEF Register
  <1> QED BY <1>1, <1>2, PushesUntouched

LEMMA DeregisterStep ==
  ASSUME IInv, NEW t \in Threads, NEW l \in Listeners, Deregister(t, l)
  PROVE  IInv'
  <1>1. listeners \in Seq(Listeners)
    BY DEF IInv, Types
  <1>2. listeners' \in EraseFirst(l)
    BY DEF Deregister
  <1>3. listeners' = listeners \/ \E i \in DOMAIN listeners : listeners' = RemoveAt(listeners, i)
    BY <1>2 DEF EraseFirst
  <1>4. listeners' \in Seq(Listeners)
    BY <1>1, <1>3, Removed
  <1>5. Types'
    BY <1>4 DEF Deregister, IInv, Types
  <1>6. locker = NoThread /\ UNCHANGED <<locker, pushes>>
    BY DEF Deregister
  <1> QED BY <1>5, <1>6, PushesUntouched

LEMMA AskStep ==
  ASSUME IInv, NEW t \in Threads, NEW l \in Listeners, NEW what \in {"register", "deregister"},
         Ask(t, what, l)
  PROVE  IInv'
  <1>1. <<what, l>> \in {"register", "deregister"} \X Listeners
    OBVIOUS
  <1>2. Types'
    BY <1>1 DEF Ask, IInv, Types
  <1> QED BY <1>2, PushesUntouched DEF Ask

LEMMA DieStep ==
  ASSUME IInv, NEW l \in Listeners, Die(l)
  PROVE  IInv'
  <1>1. Types'
    BY DEF Die, IInv, Types
  <1> QED BY <1>1, PushesUntouched DEF Die

\* Taking the lock, the first search begins.
LEMMA LockStep ==
  ASSUME IInv, NEW t \in Threads, LockSyncWrite(t)
  PROVE  IInv'
  <1> DEFINE push == Last(pushes[t])
  <1>0. Types /\ Busy(t) /\ push.at = "lock" /\ locker = NoThread /\ locker' = t
        /\ Continue(t, Entered(push)) /\ UNCHANGED <<listeners, dead, asked>>
    BY DEF IInv, LockSyncWrite, At
  <1>1. push \in PushState /\ PushRight(push, Len(listeners))
    BY <1>0, Innermost
  <1>2. push.arrays = <<>> /\ InRange(push)
    BY <1>0, <1>1 DEF PushRight
  <1>3. Entered(push) \in PushState /\ PushRight(Entered(push), Len(listeners))
    BY <1>0, <1>1, <1>2, EnteredRight DEF Types
  <1>4. Entered(push).at = "collect"
    BY DEF Entered
  <1> HIDE DEF push
  <1>5. \A u \in Threads \ {t} : locker' = u <=> locker = u
    BY <1>0, EventGeneratorAssumption
  <1>6. listeners' \in Seq(Listeners) /\ Len(listeners') = Len(listeners) /\ locker' \in Threads \cup {NoThread}
    BY <1>0 DEF Types
  <1>7. PushRight(Entered(push), Len(listeners'))
    BY <1>0, <1>3
  <1> QED BY <1>0, <1>3, <1>4, <1>5, <1>6, <1>7, GoesOn

\* All arrays are full and there is more: one more level.
LEMMA RecurseStep ==
  ASSUME IInv, NEW t \in Threads, Recurse(t)
  PROVE  IInv'
  <1> DEFINE push == Last(pushes[t])
  <1>0. Types /\ Busy(t) /\ push.at = "collect" /\ push.current >= 0 /\ ~HasRoom(push)
        /\ Continue(t, Entered(push)) /\ UNCHANGED <<listeners, dead, asked, locker>>
    BY DEF IInv, Recurse, At
  <1>1. push \in PushState /\ PushRight(push, Len(listeners)) /\ locker = t
    BY <1>0, Innermost
  <1>2. Counted(push, Len(listeners)) /\ InRange(push)
    BY <1>0, <1>1 DEF PushRight
  <1>3. Entered(push) \in PushState /\ PushRight(Entered(push), Len(listeners))
    BY <1>0, <1>1, <1>2, EnteredRight DEF Types
  <1>4. Entered(push).at = "collect"
    BY DEF Entered
  <1> HIDE DEF push
  <1>5. listeners' \in Seq(Listeners) /\ Len(listeners') = Len(listeners) /\ locker' \in Threads \cup {NoThread}
    BY <1>0 DEF Types
  <1>6. PushRight(Entered(push), Len(listeners'))
    BY <1>0, <1>3
  <1> QED BY <1>0, <1>1, <1>3, <1>4, <1>5, <1>6, GoesOn

\* A living listener moves from the list to the last array, which has room.
LEMMA TakeStep ==
  ASSUME IInv, NEW t \in Threads, TakeListener(t)
  PROVE  IInv'
  <1> DEFINE push == Last(pushes[t])
             l == listeners[push.current + 1]
             array == Append(Last(push.arrays), l)
             new == Append(Front(push.arrays), array)
             next == [push EXCEPT !.current = push.current - 1, !.arrays = new]
  <1>0. Types /\ Busy(t) /\ push.at = "collect" /\ push.current >= 0 /\ HasRoom(push)
        /\ Continue(t, next) /\ UNCHANGED <<listeners, dead, asked, locker>>
    BY DEF IInv, TakeListener, Looking, At
  <1>1. push \in PushState /\ PushRight(push, Len(listeners)) /\ locker = t
    BY <1>0, Innermost
  <1> HIDE DEF push
  <1>2. Counted(push, Len(listeners)) /\ InRange(push)
    BY <1>0, <1>1 DEF PushRight
  <1>3. /\ push.current + 1 \in DOMAIN listeners /\ listeners \in Seq(Listeners)
        /\ Last(push.arrays) \in Seq(Listeners) /\ Len(Last(push.arrays)) \in Nat
    BY <1>0, <1>1, <1>2, LooksAtTheList DEF Types
  <1>4. l \in Listeners
    BY <1>3
  <1> HIDE DEF l
  <1>5. array \in Seq(Listeners) /\ Len(array) = Len(Last(push.arrays)) + 1
    BY <1>3, <1>4, Appended
  <1>6. Len(array) <= Stack
    BY <1>0, <1>3, <1>5, EventGeneratorAssumption DEF HasRoom
  <1> HIDE DEF array
  <1>7. /\ new \in Seq(Seq(Listeners)) /\ new # <<>>
        /\ Len(new) = Len(push.arrays) /\ Last(new) = array
        /\ \A a \in DOMAIN new : Len(new[a]) <= Stack
    BY <1>1, <1>2, <1>5, <1>6, LastArrayReplaced DEF Counted
  <1> HIDE DEF new
  <1>8. push.current - 1 \in Int /\ push.current - 1 >= -1
    BY <1>0, <1>1, Fields
  <1>9. /\ next \in PushState /\ next.at = "collect"
        /\ next.current = push.current - 1 /\ next.arrays = new
    BY <1>0, <1>1, <1>7, <1>8, FieldsReplaced DEF PushState
  <1> HIDE DEF next
  <1>10. Counted(next, Len(listeners))
    <2> DEFINE above == Stack * (Len(push.arrays) - 1)
    <2>0. above \in Nat /\ push.current \in Int
      BY <1>0, <1>1, <1>2, <1>3, LooksAtTheList, Fields
    <2>1. Stack * (Len(next.arrays) - 1) = above
      BY <1>7, <1>9
    <2>2. Len(listeners) = push.current + 1 + above + Len(Last(push.arrays))
      BY <1>2 DEF Counted
    <2> HIDE DEF above
    <2>4. Len(Last(next.arrays)) = Len(Last(push.arrays)) + 1 /\ next.current = push.current - 1
      BY <1>5, <1>7, <1>9
    <2> DEFINE taken == Len(Last(push.arrays))
               at == push.current
    <2>5. above \in Nat /\ at \in Int /\ taken \in Nat
      BY <1>3, <2>0
    <2>6. Len(listeners) = at + 1 + above + taken
      BY <2>2
    <2>7. Len(Last(next.arrays)) = taken + 1 /\ next.current = at - 1
      BY <2>4
    <2> HIDE DEF taken, at
    <2>3. Len(listeners) = next.current + 1 + above + Len(Last(next.arrays))
      BY <2>5, <2>6, <2>7
    <2> QED BY <1>7, <1>9, <2>1, <2>3 DEF Counted
  <1>11. PushRight(next, Len(listeners'))
    BY <1>0, <1>7, <1>8, <1>9, <1>10 DEF PushRight, InRange
  <1> QED BY <1>0, <1>1, <1>3, <1>9, <1>11, GoesOn DEF Types

\* A dead one goes from the list, above nothing that is still to be looked at.
LEMMA EraseStep ==
  ASSUME IInv, NEW t \in Threads, EraseDead(t)
  PROVE  IInv'
  <1> DEFINE push == Last(pushes[t])
             next == [push EXCEPT !.current = push.current - 1]
  <1>0. Types /\ Busy(t) /\ push.at = "collect" /\ push.current >= 0
        /\ Continue(t, next) /\ UNCHANGED <<dead, asked, locker>>
        /\ listeners' = RemoveAt(listeners, push.current + 1)
    BY DEF IInv, EraseDead, Looking, At
  <1>1. push \in PushState /\ PushRight(push, Len(listeners)) /\ locker = t
    BY <1>0, Innermost
  <1> HIDE DEF push
  <1>2. Counted(push, Len(listeners)) /\ InRange(push)
    BY <1>0, <1>1 DEF PushRight
  <1>3. /\ push.current + 1 \in DOMAIN listeners /\ listeners \in Seq(Listeners)
        /\ Len(Last(push.arrays)) \in Nat
    BY <1>0, <1>1, <1>2, LooksAtTheList DEF Types
  <1>4. listeners' \in Seq(Listeners) /\ Len(listeners') = Len(listeners) - 1
    BY <1>0, <1>3, Removed
  <1>5. push.current - 1 \in Int /\ push.current - 1 >= -1
    BY <1>0, <1>1, Fields
  <1>6. /\ next \in PushState /\ next.at = "collect"
        /\ next.current = push.current - 1 /\ next.arrays = push.arrays
    BY <1>0, <1>1, <1>5, FieldsReplaced, Fields DEF PushState
  <1> HIDE DEF next
  <1>7. Counted(next, Len(listeners'))
    <2> DEFINE above == Stack * (Len(push.arrays) - 1)
    <2>1. above \in Nat /\ push.current \in Int /\ Len(listeners) \in Nat
      BY <1>0, <1>1, <1>2, <1>3, LooksAtTheList, Fields
    <2>2. Len(listeners) = push.current + 1 + above + Len(Last(push.arrays))
      BY <1>2 DEF Counted
    <2>3. Stack * (Len(next.arrays) - 1) = above
      BY <1>6
    <2> HIDE DEF above
    <2>4. Len(listeners') = next.current + 1 + above + Len(Last(next.arrays))
      BY <1>3, <1>4, <1>6, <2>1, <2>2
    <2> QED BY <1>2, <1>6, <2>3, <2>4 DEF Counted
  <1>8. PushRight(next, Len(listeners'))
    BY <1>2, <1>5, <1>6, <1>7 DEF PushRight, InRange
  <1>9. locker' = t /\ \A u \in Threads \ {t} : locker' = u <=> locker = u
    BY <1>0, <1>1
  <1> QED BY <1>0, <1>1, <1>4, <1>6, <1>8, <1>9, GoesOn DEF Types

\* Nothing is left: the lock is free before anybody is called.
LEMMA UnlockStep ==
  ASSUME IInv, NEW t \in Threads, UnlockSyncWrite(t)
  PROVE  IInv'
  <1> DEFINE push == Last(pushes[t])
             next == [push EXCEPT !.at = "invoke"]
  <1>0. Types /\ Busy(t) /\ push.at = "collect" /\ locker' = NoThread
        /\ Continue(t, next) /\ UNCHANGED <<listeners, dead, asked>>
    BY DEF IInv, UnlockSyncWrite, At, Released
  <1>1. push \in PushState /\ PushRight(push, Len(listeners)) /\ locker = t
    BY <1>0, Innermost
  <1> HIDE DEF push
  <1>2. Counted(push, Len(listeners)) /\ InRange(push)
    BY <1>0, <1>1 DEF PushRight
  <1>3. /\ next \in PushState /\ next.at = "invoke"
        /\ next.current = push.current /\ next.arrays = push.arrays
    BY <1>1, FieldsReplaced, Fields DEF PushState
  <1> HIDE DEF next
  <1>4. PushRight(next, Len(listeners'))
    BY <1>2, <1>3 DEF PushRight, InRange, Counted
  <1>5. (locker' = t <=> next.at = "collect") /\ \A u \in Threads \ {t} : locker' = u <=> locker = u
    BY <1>0, <1>1, <1>3, EventGeneratorAssumption
  <1> QED BY <1>0, <1>3, <1>4, <1>5, GoesOn DEF Types

\* A step from one phase without the lock to another, with other arrays.
LEMMA WithoutLock ==
  ASSUME IInv, NEW t \in Threads, Busy(t), Last(pushes[t]).at # "collect",
         NEW next \in PushState, Continue(t, next),
         next.at \in {"invoke", "callback"}, InRange(next), next.arrays # <<>>,
         UNCHANGED <<listeners, dead, asked, locker>>
  PROVE  IInv'
  <1>1. locker # t
    BY Innermost
  <1>2. PushRight(next, Len(listeners'))
    BY DEF PushRight
  <1>3. (locker' = t <=> next.at = "collect") /\ \A u \in Threads \ {t} : locker' = u <=> locker = u
    BY <1>1
  <1>4. listeners' \in Seq(Listeners) /\ locker' \in Threads \cup {NoThread} /\ Len(listeners') = Len(listeners)
    BY DEF IInv, Types
  <1> QED BY <1>2, <1>3, <1>4, GoesOn

LEMMA InvokeStep ==
  ASSUME IInv, NEW t \in Threads, Invoke(t)
  PROVE  IInv'
  <1> DEFINE push == Last(pushes[t])
             array == Front(Last(push.arrays))
             new == Append(Front(push.arrays), array)
             next == [push EXCEPT !.at = "callback", !.arrays = new]
  <1>0. Busy(t) /\ push.at = "invoke" /\ Last(push.arrays) # <<>>
        /\ Continue(t, next) /\ UNCHANGED <<listeners, dead, asked, locker>>
    BY DEF Invoke, At, LastOut
  <1>1. push \in PushState /\ PushRight(push, Len(listeners))
    BY <1>0, Innermost
  <1>2. push.at # "collect"
    BY <1>0
  <1>3. Last(pushes[t]).at # "collect"
    BY <1>2
  <1> HIDE DEF push
  <1>4. InRange(push) /\ push.arrays # <<>>
    BY <1>0, <1>1 DEF PushRight
  <1>5. Last(push.arrays) \in Seq(Listeners) /\ Len(Last(push.arrays)) <= Stack
    <2> DEFINE Array == Seq(Listeners)
    <2>1. push.arrays \in Seq(Array)
      BY <1>1, Fields
    <2> HIDE DEF Array
    <2>2. Last(push.arrays) \in Array /\ Len(push.arrays) \in DOMAIN push.arrays
          /\ Last(push.arrays) = push.arrays[Len(push.arrays)]
      BY <1>4, <2>1, FrontAndLast
    <2> QED BY <1>4, <2>2 DEF InRange, Array
  <1>6. array \in Seq(Listeners) /\ Len(array) <= Stack
    <2>1. array \in Seq(Listeners) /\ Len(array) = Len(Last(push.arrays)) - 1 /\ Len(Last(push.arrays)) \in Nat
      BY <1>0, <1>5, FrontAndLast
    <2> HIDE DEF array
    <2> QED BY <1>5, <2>1, EventGeneratorAssumption
  <1> HIDE DEF array
  <1>7. /\ new \in Seq(Seq(Listeners)) /\ new # <<>>
        /\ \A a \in DOMAIN new : Len(new[a]) <= Stack
    BY <1>1, <1>4, <1>6, LastArrayReplaced
  <1> HIDE DEF new
  <1>8. /\ next \in PushState /\ next.at = "callback"
        /\ next.current = push.current /\ next.arrays = new
    BY <1>1, <1>7, FieldsReplaced, Fields DEF PushState
  <1> HIDE DEF next
  <1>9. InRange(next)
    BY <1>4, <1>7, <1>8 DEF InRange
  <1> QED BY <1>0, <1>3, <1>7, <1>8, <1>9, WithoutLock

LEMMA CallbackReturnsStep ==
  ASSUME IInv, NEW t \in Threads, CallbackReturns(t)
  PROVE  IInv'
  <1> DEFINE push == Last(pushes[t])
             next == [push EXCEPT !.at = "invoke"]
  <1>0. Busy(t) /\ push.at = "callback"
        /\ Continue(t, next) /\ UNCHANGED <<listeners, dead, asked, locker>>
    BY DEF CallbackReturns, At
  <1>1. push \in PushState /\ PushRight(push, Len(listeners)) /\ push.at # "collect"
    BY <1>0, Innermost
  <1>2. Last(pushes[t]).at # "collect"
    BY <1>1
  <1> HIDE DEF push
  <1>3. InRange(push) /\ push.arrays # <<>>
    BY <1>0, <1>1 DEF PushRight
  <1>4. /\ next \in PushState /\ next.at = "invoke"
        /\ next.current = push.current /\ next.arrays = push.arrays
    BY <1>1, FieldsReplaced, Fields DEF PushState
  <1> HIDE DEF next
  <1>5. InRange(next)
    BY <1>3, <1>4 DEF InRange
  <1> QED BY <1>0, <1>2, <1>3, <1>4, <1>5, WithoutLock

\* The innermost RecursivePush returns to the one around it, or the push to the
\* callback it was made from.
LEMMA ReturnStep ==
  ASSUME IInv, NEW t \in Threads, Return(t)
  PROVE  IInv'
  <1> DEFINE push == Last(pushes[t])
             outer == Front(push.arrays)
             next == [push EXCEPT !.arrays = outer]
  <1>0. Types /\ CallbacksUnlocked /\ PushesRight /\ Busy(t) /\ push.at = "invoke"
        /\ UNCHANGED <<listeners, dead, asked, locker>>
        /\ IF outer = <<>> THEN pushes' = [pushes EXCEPT ![t] = Front(pushes[t])]
                           ELSE Continue(t, next)
    BY DEF IInv, Return, At
  <1>1. push \in PushState /\ PushRight(push, Len(listeners)) /\ push.at # "collect" /\ locker # t
    BY <1>0, Innermost
  <1>2. InRange(push) /\ push.arrays # <<>>
    BY <1>0, <1>1 DEF PushRight
  <1>3. CASE outer = <<>>
    <2> DEFINE old == pushes[t]
               rest == Front(old)
    <2>1. old \in Seq(PushState) /\ old # <<>>
      BY <1>0 DEF Types, Busy
    <2>2. pushes' = [pushes EXCEPT ![t] = rest]
      BY <1>0, <1>3
    <2> HIDE DEF rest
    <2>3. /\ rest \in Seq(PushState) /\ Len(rest) = Len(old) - 1 /\ Len(old) \in Nat \ {0}
          /\ \A p \in 1..(Len(old) - 1) : rest[p] = old[p]
      BY <2>1, FrontAndLast DEF rest
    <2>4. pushes' \in [Threads -> Seq(PushState)] /\ pushes'[t] = rest
          /\ \A u \in Threads \ {t} : pushes'[u] = pushes[u]
      BY <1>0, <2>2, <2>3 DEF Types
    <2>5. ASSUME NEW p \in DOMAIN rest PROVE p \in DOMAIN old /\ rest[p] = old[p] /\ rest[p].at = "callback"
      <3>1. p \in 1..(Len(old) - 1) /\ p \in DOMAIN old /\ p < Len(old)
        BY <2>1, <2>3
      <3>2. rest[p] = old[p]
        BY <2>3, <3>1
      <3> QED BY <1>0, <3>1, <3>2 DEF CallbacksUnlocked
    <2>6. ~At(t, "collect")'
      <3> SUFFICES ASSUME rest # <<>> PROVE Last(rest).at # "collect"
        BY <2>4 DEF At, Busy
      <3>1. Len(rest) \in DOMAIN rest /\ Last(rest) = rest[Len(rest)]
        BY <2>3, FrontAndLast
      <3> QED BY <2>5, <3>1
    <2>7. CallbacksUnlocked'
      <3> SUFFICES ASSUME NEW u \in Threads
                   PROVE  /\ locker = u <=> At(u, "collect")'
                          /\ \A p \in DOMAIN pushes'[u] : p < Len(pushes'[u]) => pushes'[u][p].at = "callback"
        BY <1>0 DEF CallbacksUnlocked
      <3>1. CASE u = t
        BY <1>1, <2>4, <2>5, <2>6, <3>1
      <3>2. CASE u # t
        <4>1. pushes'[u] = pushes[u]
          BY <2>4, <3>2
        <4> QED BY <1>0, <4>1 DEF CallbacksUnlocked, At, Busy
      <3> QED BY <3>1, <3>2
    <2>8. PushesRight'
      <3> SUFFICES ASSUME NEW u \in Threads, NEW p \in DOMAIN pushes'[u]
                   PROVE  PushRight(pushes'[u][p], Len(listeners))
        BY <1>0 DEF PushesRight
      <3>1. CASE u = t
        BY <1>0, <2>4, <2>5, <3>1 DEF PushesRight
      <3>2. CASE u # t
        BY <1>0, <2>4, <3>2 DEF PushesRight
      <3> QED BY <3>1, <3>2
    <2> QED BY <1>0, <2>4, <2>7, <2>8 DEF IInv, Types
  <1>4. CASE outer # <<>>
    <2>1. Continue(t, next)
      BY <1>0, <1>4
    <2>2. Last(pushes[t]).at # "collect"
      BY <1>1
    <2> HIDE DEF push
    <2>3. /\ outer \in Seq(Seq(Listeners))
          /\ \A a \in DOMAIN outer : Len(outer[a]) <= Stack
      <3> DEFINE old == push.arrays
                 Array == Seq(Listeners)
      <3>1. old \in Seq(Array) /\ old # <<>>
        BY <1>1, <1>2, Fields
      <3>2. \A a \in DOMAIN old : Len(old[a]) <= Stack
        BY <1>2 DEF InRange
      <3>3. outer = Front(old)
        OBVIOUS
      <3> HIDE DEF old, Array, outer
      <3>4. outer \in Seq(Array) /\ Len(outer) = Len(old) - 1 /\ Len(old) \in Nat \ {0}
            /\ \A a \in 1..(Len(old) - 1) : outer[a] = old[a]
        BY <3>1, <3>3, FrontAndLast
      <3>5. ASSUME NEW a \in DOMAIN outer PROVE Len(outer[a]) <= Stack
        <4>1. a \in 1..(Len(old) - 1) /\ a \in DOMAIN old
          BY <3>1, <3>4
        <4> QED BY <3>2, <3>4, <4>1
      <3> QED BY <3>4, <3>5 DEF Array
    <2> HIDE DEF outer
    <2>4. /\ next \in PushState /\ next.at = "invoke"
          /\ next.current = push.current /\ next.arrays = outer
      BY <1>0, <1>1, <2>3, FieldsReplaced, Fields DEF PushState
    <2> HIDE DEF next
    <2>5. InRange(next)
      BY <1>2, <2>3, <2>4 DEF InRange
    <2> QED BY <1>0, <1>4, <2>1, <2>2, <2>4, <2>5, WithoutLock
  <1> QED BY <1>3, <1>4

-----------------------------------------------------------------------------
\* The theorems.

LEMMA NextRight == IInv /\ [Next]_vars => IInv'
  <1> SUFFICES ASSUME IInv, [Next]_vars PROVE IInv'
    OBVIOUS
  <1>1. ASSUME NEW t \in Threads, Push(t) PROVE IInv'
    BY <1>1, PushStep
  <1>2. ASSUME NEW t \in Threads, InsidePush(t) PROVE IInv'
    BY <1>2, LockStep, TakeStep, EraseStep, RecurseStep, UnlockStep, InvokeStep,
       CallbackReturnsStep, ReturnStep DEF InsidePush
  <1>3. ASSUME NEW t \in Threads, NEW l \in Listeners, Ask(t, "register", l) \/ Ask(t, "deregister", l)
        PROVE  IInv'
    BY <1>3, AskStep
  <1>4. ASSUME NEW t \in Threads, NEW l \in Listeners, Register(t, l) \/ Deregister(t, l)
        PROVE  IInv'
    BY <1>4, RegisterStep, DeregisterStep
  <1>5. ASSUME NEW l \in Listeners \ dead, Die(l) PROVE IInv'
    BY <1>5, DieStep
  <1>6. CASE UNCHANGED vars
    BY <1>6 DEF vars, IInv, Types, CallbacksUnlocked, PushesRight, At, Busy
  <1> QED BY <1>1, <1>2, <1>3, <1>4, <1>5, <1>6 DEF Next

THEOREM Invariance == Spec => []IInv
  <1>1. IInv /\ [Next]_vars => IInv'
    BY NextRight
  <1>2. Init => IInv
    BY InitRight
  <1> QED BY <1>1, <1>2, PTL DEF Spec

\* The types of the generator, and every array and index of RecursivePush in its
\* range, for any size of the arrays and any depth of recursion and re-entry.
THEOREM TypeCorrect == Spec => []TypeOK
  <1>1. IInv => TypeOK
    <2> SUFFICES ASSUME IInv, NEW t \in Threads, NEW p \in DOMAIN pushes[t]
                 PROVE  /\ pushes[t][p].current >= -1
                        /\ \A a \in DOMAIN pushes[t][p].arrays : Len(pushes[t][p].arrays[a]) <= Stack
      BY DEF IInv, Types, TypeOK
    <2> QED BY DEF IInv, PushesRight, PushRight, InRange
  <1> QED BY <1>1, Invariance, PTL

\* Whatever a callback does to the generator, its own thread does not hold the
\* lock (comment "a callback could invoke a Register or Push ... leading to a deadlock").
THEOREM NoCallbackUnderTheLock == Spec => []CallbacksUnlocked
  <1>1. IInv => CallbacksUnlocked
    BY DEF IInv
  <1> QED BY <1>1, Invariance, PTL

-----------------------------------------------------------------------------
\* What the generator promises.

\* The order of the naturals, and the least element of a set of them.
Less == {p \in Nat \X Nat : p[1] < p[2]}
LEMMA LeastNat ==
  ASSUME NEW T, T \subseteq Nat, T # {}
  PROVE \E x \in T : \A y \in T : x <= y
  <1>1. OpToRel(<, Nat) = Less
    BY Zenon DEF OpToRel, Less
  <1>2. IsWellFoundedOn(Less, Nat)
    BY <1>1, NatLessThanWellFounded, Zenon
  <1>3. PICK x \in T : \A y \in T : ~(<<y, x>> \in Less)
    BY <1>2, WFMin, Zenon
  <1>4. \A y \in T : <<y, x>> \in Less <=> y < x
    BY DEF Less
  <1>5. ASSUME NEW y \in T PROVE x <= y
    <2>1. x \in Nat /\ y \in Nat
      OBVIOUS
    <2>2. ~(y < x)
      BY <1>3, <1>4
    <2> QED BY <2>1, <2>2
  <1> QED BY <1>5

-----------------------------------------------------------------------------
\* Flattening, from its recursion.

\* g has the concatenations of the first elements of s, up to the n-th.
Flattens(g, s, n) ==
  \A i \in 1..n : g[i] = IF i = 1 THEN s[i] ELSE g[i - 1] \o s[i]

\* s and t agree as far as n.
Agree(s, t, n) == \A i \in 1..n : s[i] = t[i]

\* There is such a g for every n: the least n without would follow one with.
LEMMA FlattensExists ==
  ASSUME NEW S, NEW s \in Seq(Seq(S)), NEW n \in 0..Len(s)
  PROVE  \E g \in [1..n -> Seq(S)] : Flattens(g, s, n)
  <1> DEFINE A == Seq(S)
             Has(m) == \E g \in [1..m -> A] : Flattens(g, s, m)
             T == {m \in 0..Len(s) : ~Has(m)}
  <1>0. s \in Seq(A) /\ Len(s) \in Nat /\ \A i \in 1..Len(s) : s[i] \in A
    OBVIOUS
  <1>1. \A a, b \in A : a \o b \in A
    OBVIOUS
  <1> HIDE DEF A
  <1> SUFFICES ASSUME ~Has(n) PROVE FALSE
    BY DEF A
  <1>2. PICK m \in T : \A y \in T : m <= y
    <2>0. n \in T
      OBVIOUS
    <2>1. T \subseteq Nat /\ T # {}
      BY <1>0, <2>0
    <2> HIDE DEF T
    <2> QED BY <2>1, LeastNat
  <1>3. m \in 0..Len(s) /\ ~Has(m)
    OBVIOUS
  <1>4. m # 0
    <2> SUFFICES Has(0)
      BY <1>3
    <2>1. [i \in 1..0 |-> <<>>] \in [1..0 -> A] /\ Flattens([i \in 1..0 |-> <<>>], s, 0)
      BY DEF Flattens
    <2> QED BY <2>1
  <1>5. m - 1 \in 0..Len(s) /\ ~(m <= m - 1)
    BY <1>0, <1>3, <1>4
  <1>6. Has(m - 1)
    BY <1>2, <1>5
  <1>7. PICK g \in [1..(m - 1) -> A] : Flattens(g, s, m - 1)
    BY <1>6
  <1> DEFINE last == IF m = 1 THEN s[m] ELSE g[m - 1] \o s[m]
             h == [i \in 1..m |-> IF i = m THEN last ELSE g[i]]
  <1>8. last \in A
    <2>1. s[m] \in A
      BY <1>0, <1>3, <1>4
    <2>2. m # 1 => g[m - 1] \in A
      BY <1>3, <1>4
    <2> QED BY <1>1, <2>1, <2>2
  <1>9. h \in [1..m -> A]
    <2>1. \A i \in 1..m : i # m => i \in 1..(m - 1)
      BY <1>3
    <2> QED BY <1>8, <2>1
  <1>10. Flattens(h, s, m)
    <2> SUFFICES ASSUME NEW i \in 1..m PROVE h[i] = IF i = 1 THEN s[i] ELSE h[i - 1] \o s[i]
      BY DEF Flattens
    <2>1. CASE i = m
      <3>1. m # 1 => h[m - 1] = g[m - 1]
        BY <1>3, <1>4
      <3> QED BY <2>1, <3>1
    <2>2. CASE i # m
      <3>1. i \in 1..(m - 1) /\ h[i] = g[i]
        BY <1>3, <2>2
      <3>2. i # 1 => i - 1 \in 1..m /\ i - 1 # m
        BY <1>3, <3>1
      <3>3. i # 1 => h[i - 1] = g[i - 1]
        BY <3>2
      <3> QED BY <1>7, <3>1, <3>3 DEF Flattens
    <2> QED BY <2>1, <2>2
  <1> QED BY <1>3, <1>9, <1>10

\* Two of them agree as far as the sequences do.
LEMMA FlattensAgree ==
  ASSUME NEW n \in Nat, NEW s, NEW t, Agree(s, t, n),
         NEW g, NEW h, Flattens(g, s, n), Flattens(h, t, n),
         NEW k \in 1..n
  PROVE  g[k] = h[k]
  <1> DEFINE T == {i \in 1..n : g[i] # h[i]}
  <1> SUFFICES ASSUME g[k] # h[k] PROVE FALSE
    OBVIOUS
  <1>1. PICK m \in T : \A y \in T : m <= y
    <2>1. T \subseteq Nat /\ T # {}
      OBVIOUS
    <2> HIDE DEF T
    <2> QED BY <2>1, LeastNat
  <1>2. m \in 1..n /\ g[m] # h[m] /\ s[m] = t[m]
    BY DEF Agree
  <1>3. CASE m = 1
    BY <1>2, <1>3 DEF Flattens
  <1>4. CASE m # 1
    <2>1. m - 1 \in 1..n /\ ~(m <= m - 1)
      BY <1>2, <1>4
    <2>2. g[m - 1] = h[m - 1]
      BY <1>1, <2>1
    <2>3. g[m] = g[m - 1] \o s[m] /\ h[m] = h[m - 1] \o t[m]
      BY <1>2, <1>4 DEF Flattens
    <2> QED BY <1>2, <2>2, <2>3
  <1> QED BY <1>3, <1>4

\* FlattenSeq is the last of them.
LEMMA FlattenIs ==
  ASSUME NEW S, NEW s \in Seq(Seq(S)), s # <<>>
  PROVE  \E g \in [1..Len(s) -> Seq(S)] : Flattens(g, s, Len(s)) /\ FlattenSeq(s) = g[Len(s)]
  <1> DEFINE n == Len(s)
             Eq(g) == g = [i \in 1..Len(s) |-> IF i = 1 THEN s[i] ELSE g[i - 1] \o s[i]]
             f == CHOOSE g : Eq(g)
  <1>1. n \in Nat \ {0}
    OBVIOUS
  <1>2. PICK g \in [1..n -> Seq(S)] : Flattens(g, s, n)
    <2>1. n \in 0..Len(s)
      BY <1>1
    <2> QED BY <2>1, FlattensExists
  <1>3. Eq(g)
    BY <1>2 DEF Flattens
  <1>4. Eq(f)
    BY <1>3
  <1>5. FlattenSeq(s) = f[n]
    BY <1>1 DEF FlattenSeq
  <1> HIDE DEF f
  <1>6. Flattens(f, s, n)
    BY <1>4 DEF Flattens
  <1>7. g[n] = f[n]
    <2>1. Agree(s, s, n)
      BY DEF Agree
    <2> HIDE DEF n
    <2> QED BY <1>1, <1>2, <1>6, <2>1, FlattensAgree
  <1> QED BY <1>2, <1>5, <1>7

LEMMA FlattenEmpty == FlattenSeq(<<>>) = <<>>
  BY DEF FlattenSeq

LEMMA FlattenType ==
  ASSUME NEW S, NEW s \in Seq(Seq(S))
  PROVE  FlattenSeq(s) \in Seq(S)
  <1> DEFINE A == Seq(S)
  <1>0. <<>> \in A /\ s \in Seq(A)
    OBVIOUS
  <1>1. CASE s = <<>>
    <2> HIDE DEF A
    <2>1. FlattenSeq(s) \in A
      BY <1>0, <1>1, FlattenEmpty
    <2> QED BY <2>1 DEF A
  <1>2. CASE s # <<>>
    <2>1. PICK g \in [1..Len(s) -> A] : FlattenSeq(s) = g[Len(s)]
      BY <1>2, FlattenIs
    <2> HIDE DEF A
    <2>2. Len(s) \in 1..Len(s)
      BY <1>0, <1>2
    <2>3. FlattenSeq(s) \in A
      BY <2>1, <2>2
    <2> QED BY <2>3 DEF A
  <1> QED BY <1>1, <1>2

\* One step more of the concatenations.
LEMMA FlattensMore ==
  ASSUME NEW n \in Nat \ {0}, NEW s, NEW t, Agree(s, t, n),
         NEW g, NEW h, Flattens(g, t, n + 1), Flattens(h, s, n)
  PROVE  g[n + 1] = h[n] \o t[n + 1]
  <1>1. Flattens(g, t, n)
    <2>1. 1..n \subseteq 1..(n + 1)
      OBVIOUS
    <2> QED BY <2>1 DEF Flattens
  <1>2. h[n] = g[n]
    <2>1. n \in Nat /\ n \in 1..n
      OBVIOUS
    <2> QED BY <1>1, <2>1, FlattensAgree
  <1>3. (n + 1) - 1 = n /\ n + 1 \in 1..(n + 1) /\ n + 1 # 1
    OBVIOUS
  <1>4. g[n + 1] = g[(n + 1) - 1] \o t[n + 1]
    BY <1>3 DEF Flattens
  <1> QED BY <1>2, <1>3, <1>4

LEMMA FlattenAppend ==
  ASSUME NEW S, NEW s \in Seq(Seq(S)), NEW x \in Seq(S)
  PROVE  FlattenSeq(Append(s, x)) = FlattenSeq(s) \o x
  <1> DEFINE A == Seq(S)
  <1>0. x \in A /\ s \in Seq(A)
    OBVIOUS
  <1>1. PICK n \in Nat, t \in Seq(A) :
          /\ n = Len(s) /\ t = Append(s, x)
          /\ t # <<>> /\ Len(t) = n + 1 /\ t[n + 1] = x
          /\ \A i \in 1..n : s[i] = t[i]
    <2> HIDE DEF A
    <2>1. /\ Len(s) \in Nat /\ Append(s, x) \in Seq(A) /\ Append(s, x) # <<>>
          /\ Len(Append(s, x)) = Len(s) + 1 /\ Append(s, x)[Len(s) + 1] = x
          /\ \A i \in 1..Len(s) : s[i] = Append(s, x)[i]
      BY <1>0
    <2> QED BY <2>1
  <1>2. PICK g \in [1..Len(t) -> A] : Flattens(g, t, Len(t)) /\ FlattenSeq(t) = g[Len(t)]
    BY <1>1, FlattenIs
  <1> HIDE DEF A
  <1>3. CASE n = 0
    <2>1. s = <<>>
      BY <1>0, <1>1, <1>3
    <2>2. g[1] = t[1] /\ Len(t) = 1
      BY <1>1, <1>2, <1>3 DEF Flattens
    <2>3. FlattenSeq(s) \o x = x
      BY <2>1, FlattenEmpty
    <2> QED BY <1>1, <1>2, <1>3, <2>2, <2>3
  <1>4. CASE n # 0
    <2>1. s # <<>>
      BY <1>1, <1>4
    <2>2. PICK h \in [1..Len(s) -> A] : Flattens(h, s, Len(s)) /\ FlattenSeq(s) = h[Len(s)]
      BY <2>1, FlattenIs DEF A
    <2>3. Flattens(g, t, n + 1) /\ Flattens(h, s, n) /\ Agree(s, t, n)
      BY <1>1, <1>2, <2>2 DEF Agree
    <2>4. n \in Nat \ {0}
      BY <1>4
    <2>5. g[n + 1] = h[n] \o t[n + 1]
      BY <2>3, <2>4, FlattensMore
    <2> QED BY <1>1, <1>2, <2>2, <2>5
  <1> QED BY <1>3, <1>4

-----------------------------------------------------------------------------
\* What arrays owe.

\* Reversing.
LEMMA Reversed ==
  ASSUME NEW S, NEW s \in Seq(S)
  PROVE  /\ Reverse(s) \in Seq(S) /\ Len(Reverse(s)) = Len(s)
         /\ \A i \in 1..Len(s) : Reverse(s)[i] = s[(Len(s) - i) + 1]
  <1>1. Len(s) \in Nat /\ \A i \in 1..Len(s) : (Len(s) - i) + 1 \in 1..Len(s)
    OBVIOUS
  <1>2. \A i \in 1..Len(s) : s[(Len(s) - i) + 1] \in S
    BY <1>1
  <1>3. Reverse(s) \in [1..Len(s) -> S]
    BY <1>2 DEF Reverse
  <1>4. Reverse(s) \in Seq(S) /\ Len(Reverse(s)) = Len(s)
    BY <1>1, <1>3
  <1> QED BY <1>4 DEF Reverse

\* The last element of a sequence is the first of the reverse.
LEMMA ReversedAppend ==
  ASSUME NEW S, NEW s \in Seq(S), NEW x \in S
  PROVE  Reverse(Append(s, x)) = <<x>> \o Reverse(s)
  <1> DEFINE l == Reverse(Append(s, x))
             r == <<x>> \o Reverse(s)
  <1>0. Len(s) \in Nat
    OBVIOUS
  <1>1. /\ Append(s, x) \in Seq(S) /\ Len(Append(s, x)) = Len(s) + 1
        /\ Append(s, x)[Len(s) + 1] = x /\ \A i \in 1..Len(s) : Append(s, x)[i] = s[i]
    BY Appended
  <1>2. /\ l \in Seq(S) /\ Len(l) = Len(s) + 1
        /\ \A i \in 1..(Len(s) + 1) : l[i] = Append(s, x)[((Len(s) + 1) - i) + 1]
    <2>1. PICK a \in Seq(S) : a = Append(s, x)
      BY <1>1
    <2>2. /\ Reverse(a) \in Seq(S) /\ Len(Reverse(a)) = Len(a)
          /\ \A i \in 1..Len(a) : Reverse(a)[i] = a[(Len(a) - i) + 1]
      BY Reversed
    <2>3. Len(a) = Len(s) + 1 /\ l = Reverse(a)
      BY <1>1, <2>1
    <2> HIDE DEF l
    <2> QED BY <2>1, <2>2, <2>3
  <1>3. /\ Reverse(s) \in Seq(S) /\ Len(Reverse(s)) = Len(s)
        /\ \A i \in 1..Len(s) : Reverse(s)[i] = s[(Len(s) - i) + 1]
    BY Reversed
  <1>4. <<x>> \in Seq(S) /\ Len(<<x>>) = 1 /\ <<x>>[1] = x
    OBVIOUS
  <1>5. /\ r \in Seq(S) /\ Len(r) = 1 + Len(s) /\ r[1] = x
        /\ \A i \in 1..(1 + Len(s)) : i > 1 => r[i] = Reverse(s)[i - 1]
    BY <1>0, <1>3, <1>4, ConcatProperties
  <1> HIDE DEF l, r
  <1>6. \A i \in 1..(Len(s) + 1) : l[i] = r[i]
    <2> SUFFICES ASSUME NEW i \in 1..(Len(s) + 1) PROVE l[i] = r[i]
      OBVIOUS
    <2>1. CASE i = 1
      <3>1. ((Len(s) + 1) - i) + 1 = Len(s) + 1
        BY <1>0, <2>1
      <3> QED BY <1>1, <1>2, <1>5, <2>1, <3>1
    <2>2. CASE i > 1
      <3>1. i - 1 \in 1..Len(s) /\ ((Len(s) + 1) - i) + 1 = (Len(s) - (i - 1)) + 1
            /\ (Len(s) - (i - 1)) + 1 \in 1..Len(s) /\ i \in 1..(1 + Len(s))
        BY <1>0, <2>2
      <3>2. r[i] = s[(Len(s) - (i - 1)) + 1]
        BY <1>3, <1>5, <2>2, <3>1
      <3>3. l[i] = Append(s, x)[(Len(s) - (i - 1)) + 1]
        BY <1>2, <3>1
      <3> QED BY <1>1, <3>1, <3>2, <3>3
    <2> QED BY <1>0, <2>1, <2>2
  <1>7. Len(l) = Len(r)
    BY <1>0, <1>2, <1>5
  <1> QED BY <1>2, <1>5, <1>6, <1>7, SeqEqual DEF l, r

\* What arrays of S owe.
OwedOf(arrays) == Reverse(FlattenSeq(arrays))

LEMMA OwedType ==
  ASSUME NEW S, NEW arrays \in Seq(Seq(S))
  PROVE  OwedOf(arrays) \in Seq(S)
  BY FlattenType, Reversed DEF OwedOf

\* Nothing, when there is none.
LEMMA OwedNothing == OwedOf(<<>>) = <<>>
  <1>1. <<>> \in Seq({0}) /\ Len(<<>>) = 0
    OBVIOUS
  <1>2. Reverse(<<>>) \in Seq({0}) /\ Len(Reverse(<<>>)) = 0
    BY <1>1, Reversed
  <1>3. Reverse(<<>>) = <<>>
    BY <1>2
  <1> QED BY <1>3, FlattenEmpty DEF OwedOf

\* An empty array adds nothing.
LEMMA OwedEmptyArray ==
  ASSUME NEW S, NEW arrays \in Seq(Seq(S))
  PROVE  OwedOf(Append(arrays, <<>>)) = OwedOf(arrays)
  <1>1. <<>> \in Seq(S)
    OBVIOUS
  <1>2. FlattenSeq(Append(arrays, <<>>)) = FlattenSeq(arrays) \o <<>>
    BY <1>1, FlattenAppend
  <1>3. FlattenSeq(arrays) \o <<>> = FlattenSeq(arrays)
    BY FlattenType, ConcatEmptySeq
  <1> QED BY <1>2, <1>3 DEF OwedOf

\* One more in the last array is owed first.
LEMMA OwedOneMore ==
  ASSUME NEW S, NEW front \in Seq(Seq(S)), NEW array \in Seq(S), NEW x \in S
  PROVE  OwedOf(Append(front, Append(array, x))) = <<x>> \o OwedOf(Append(front, array))
  <1> DEFINE f == FlattenSeq(front)
  <1>1. f \in Seq(S) /\ Append(array, x) \in Seq(S)
    BY FlattenType, Appended
  <1>2. /\ FlattenSeq(Append(front, Append(array, x))) = f \o Append(array, x)
        /\ FlattenSeq(Append(front, array)) = f \o array
    BY <1>1, FlattenAppend
  <1> HIDE DEF f
  <1>3. f \o array \in Seq(S) /\ f \o Append(array, x) = Append(f \o array, x)
    BY <1>1
  <1>4. Reverse(Append(f \o array, x)) = <<x>> \o Reverse(f \o array)
    BY <1>3, ReversedAppend
  <1> QED BY <1>2, <1>3, <1>4 DEF OwedOf

-----------------------------------------------------------------------------
\* The operators of the bus on sequences are those of the generator.
LEMMA BusSequences ==
  /\ \A s : Bus!Last(s) = Last(s)
  /\ \A s : Bus!Front(s) = Front(s)
  /\ \A s, i : Bus!RemoveAt(s, i) = RemoveAt(s, i)
  /\ \A s, e : Bus!RemoveFirst(s, e) = RemoveFirst(s, e)
  <1>1. \A s : Bus!Last(s) = Last(s)
    BY DEF Bus!Last, Last
  <1>2. \A s : Bus!Front(s) = Front(s)
    BY DEF Bus!Front, Front
  <1>3. \A s, i : Bus!RemoveAt(s, i) = RemoveAt(s, i)
    BY DEF Bus!RemoveAt, RemoveAt
  <1>4. \A s, e : Bus!RemoveFirst(s, e) = RemoveFirst(s, e)
    BY <1>3 DEF Bus!RemoveFirst, RemoveFirst, Bus!SelectInSeq, SelectInSeq, Bus!Min, Min
  <1> QED BY <1>1, <1>2, <1>3, <1>4

\* A sequence is its front and its last element.
LEMMA InParts ==
  ASSUME NEW S, NEW s \in Seq(S), s # <<>>
  PROVE  s = Append(Front(s), Last(s))
  <1> DEFINE f == Front(s)
             e == Last(s)
  <1>1. /\ e \in S /\ f \in Seq(S) /\ Len(f) = Len(s) - 1 /\ Len(s) \in Nat \ {0}
        /\ \A i \in 1..(Len(s) - 1) : f[i] = s[i]
        /\ e = s[Len(s)]
    BY FrontAndLast
  <1> HIDE DEF f, e
  <1>2. /\ Append(f, e) \in Seq(S) /\ Len(Append(f, e)) = Len(s)
        /\ Append(f, e)[Len(s)] = e
        /\ \A i \in 1..(Len(s) - 1) : Append(f, e)[i] = f[i]
    BY <1>1
  <1>3. \A i \in 1..Len(s) : s[i] = Append(f, e)[i]
    BY <1>1, <1>2
  <1>4. s = Append(f, e)
    BY <1>2, <1>3, SeqEqual
  <1> QED BY <1>4 DEF f, e

\* The front of what was appended to.
LEMMA FrontOfAppend ==
  ASSUME NEW S, NEW s \in Seq(S), NEW e \in S
  PROVE  Front(Append(s, e)) = s /\ Last(Append(s, e)) = e /\ Append(s, e) # <<>>
  <1>1. Len(Append(s, e)) = Len(s) + 1 /\ Len(s) \in Nat
    BY Appended
  <1>2. SubSeq(Append(s, e), 1, Len(s)) = s
    OBVIOUS
  <1> QED BY <1>1, <1>2, Appended DEF Front

\* The rest of what was put in front.
LEMMA TailOfCons ==
  ASSUME NEW S, NEW s \in Seq(S), NEW e \in S
  PROVE  Tail(<<e>> \o s) = s /\ <<e>> \o s # <<>>
  <1> DEFINE c == <<e>> \o s
  <1>0. <<e>> \in Seq(S) /\ Len(<<e>>) = 1 /\ Len(s) \in Nat
    OBVIOUS
  <1>1. /\ c \in Seq(S) /\ Len(c) = 1 + Len(s)
        /\ \A i \in 1..(1 + Len(s)) : i > 1 => c[i] = s[i - 1]
    BY <1>0, ConcatProperties
  <1> HIDE DEF c
  <1>2. c # <<>>
    BY <1>0, <1>1
  <1>3. Tail(c) \in Seq(S) /\ Len(Tail(c)) = Len(s) /\ \A i \in 1..Len(s) : Tail(c)[i] = c[i + 1]
    BY <1>0, <1>1, <1>2
  <1>4. \A i \in 1..Len(s) : Tail(c)[i] = s[i]
    <2> SUFFICES ASSUME NEW i \in 1..Len(s) PROVE Tail(c)[i] = s[i]
      OBVIOUS
    <2>1. i + 1 \in 1..(1 + Len(s)) /\ i + 1 > 1 /\ (i + 1) - 1 = i
      BY <1>0
    <2>2. c[i + 1] = s[(i + 1) - 1]
      BY <1>1, <2>1
    <2> QED BY <1>3, <2>1, <2>2
  <1>5. Tail(c) = s
    BY <1>3, <1>4, SeqEqual
  <1> QED BY <1>2, <1>5 DEF c

-----------------------------------------------------------------------------
\* What the pushes of a thread owe.

\* One push, after its release.
LEMMA OwedIs ==
  ASSUME NEW push \in PushState
  PROVE  Owed(push) = OwedOf(push.arrays) /\ Owed(push) \in Seq(Listeners)
  BY Fields, OwedType DEF Owed, OwedOf

\* All pushes.
LEMMA DueIs ==
  ASSUME NEW ps \in Seq(PushState)
  PROVE  /\ Due(ps) \in Seq(Seq(Listeners)) /\ Len(Due(ps)) = Len(ps)
         /\ \A p \in 1..Len(ps) : Due(ps)[p] = Owed(ps[p])
  <1> DEFINE Array == Seq(Listeners)
  <1>1. \A p \in 1..Len(ps) : Owed(ps[p]) \in Array
    BY OwedIs
  <1> HIDE DEF Array
  <1>2. Due(ps) = [p \in 1..Len(ps) |-> Owed(ps[p])] /\ Len(ps) \in Nat
    BY DEF Due
  <1>3. Due(ps) \in [1..Len(ps) -> Array]
    BY <1>1, <1>2
  <1>4. Due(ps) \in Seq(Array) /\ Len(Due(ps)) = Len(ps)
    BY <1>2, <1>3
  <1> QED BY <1>2, <1>4 DEF Array

\* One more push.
LEMMA DueAppend ==
  ASSUME NEW ps \in Seq(PushState), NEW push \in PushState
  PROVE  Due(Append(ps, push)) = Append(Due(ps), Owed(push))
  <1> DEFINE Array == Seq(Listeners)
             o == Owed(push)
  <1>0. /\ Append(ps, push) \in Seq(PushState)
        /\ Len(Append(ps, push)) = Len(ps) + 1 /\ Append(ps, push)[Len(ps) + 1] = push
        /\ \A i \in 1..Len(ps) : Append(ps, push)[i] = ps[i]
    BY Appended
  <1>1. PICK more \in Seq(PushState) :
          /\ more = Append(ps, push) /\ Len(more) = Len(ps) + 1 /\ more[Len(ps) + 1] = push
          /\ \A i \in 1..Len(ps) : more[i] = ps[i]
    BY <1>0, Zenon
  <1>2. /\ Due(more) \in Seq(Array) /\ Len(Due(more)) = Len(more)
        /\ \A p \in 1..Len(more) : Due(more)[p] = Owed(more[p])
    BY DueIs
  <1>3. /\ Due(ps) \in Seq(Array) /\ Len(Due(ps)) = Len(ps) /\ Len(ps) \in Nat
        /\ \A p \in 1..Len(ps) : Due(ps)[p] = Owed(ps[p])
    BY DueIs
  <1>4. o \in Array
    BY OwedIs
  <1>5. Len(ps) + 1 \in 1..Len(more) /\ \A p \in 1..Len(ps) : p \in 1..Len(more)
    BY <1>1, <1>3
  <1>6. Due(more)[Len(ps) + 1] = o /\ \A p \in 1..Len(ps) : Due(more)[p] = Due(ps)[p]
    BY <1>1, <1>2, <1>3, <1>5
  <1> HIDE DEF Array, o
  <1>7. /\ Append(Due(ps), o) \in Seq(Array) /\ Len(Append(Due(ps), o)) = Len(ps) + 1
        /\ Append(Due(ps), o)[Len(ps) + 1] = o
        /\ \A p \in 1..Len(ps) : Append(Due(ps), o)[p] = Due(ps)[p]
    BY <1>3, <1>4
  <1>8. \A p \in 1..(Len(ps) + 1) : Due(more)[p] = Append(Due(ps), o)[p]
    <2> SUFFICES ASSUME NEW p \in 1..(Len(ps) + 1) PROVE Due(more)[p] = Append(Due(ps), o)[p]
      OBVIOUS
    <2>1. p = Len(ps) + 1 \/ p \in 1..Len(ps)
      BY <1>3
    <2> QED BY <1>6, <1>7, <2>1
  <1>9. Due(more) = Append(Due(ps), o)
    BY <1>1, <1>2, <1>3, <1>7, <1>8, SeqEqual
  <1> QED BY <1>1, <1>9 DEF o

\* Before its release, and after.
Before(push) == push.at \in {"lock", "collect"}

\* The same, where the new push may be before its release.
LEMMA DueOfAppend ==
  ASSUME NEW ps \in Seq(PushState), NEW push \in PushState
  PROVE  Due(Collected(Append(ps, push))) =
           IF Before(push) THEN Due(ps) ELSE Append(Due(ps), Owed(push))
  <1>1. /\ Append(ps, push) # <<>> /\ Last(Append(ps, push)) = push
        /\ Front(Append(ps, push)) = ps
    BY FrontOfAppend
  <1> QED BY <1>1, DueAppend DEF Collected, Before

\* When a thread goes on in its innermost push only that push may owe less or more.
LEMMA DueContinues ==
  ASSUME Types, NEW t \in Threads, Busy(t), NEW push \in PushState, Continue(t, push)
  PROVE  \E base \in Seq(Seq(Listeners)) :
           /\ due[t] = IF Before(Last(pushes[t])) THEN base
                       ELSE Append(base, Owed(Last(pushes[t])))
           /\ due' = [due EXCEPT ![t] = IF Before(push) THEN base ELSE Append(base, Owed(push))]
  <1> DEFINE old == pushes[t]
             f == Front(old)
             base == Due(f)
  <1>1. old \in Seq(PushState) /\ old # <<>>
    BY DEF Types, Busy
  <1>2. f \in Seq(PushState) /\ Last(old) \in PushState /\ old = Append(f, Last(old))
    BY <1>1, FrontAndLast, InParts
  <1>3. base \in Seq(Seq(Listeners))
    BY <1>2, DueIs
  <1>4. Due(Collected(old)) = IF Before(Last(old)) THEN base ELSE Append(base, Owed(Last(old)))
    BY <1>2, DueOfAppend
  <1>5. Due(Collected(Append(f, push))) = IF Before(push) THEN base ELSE Append(base, Owed(push))
    BY <1>2, DueOfAppend
  <1>6. pushes' = [pushes EXCEPT ![t] = Append(f, push)] /\ pushes \in [Threads -> Seq(PushState)]
    BY DEF Continue, Types
  <1> HIDE DEF base, f
  <1>7. due' = [u \in Threads |-> Due(Collected(pushes'[u]))]
    BY DEF due
  <1>8. due = [u \in Threads |-> Due(Collected(pushes[u]))]
    BY DEF due
  <1>9. due' = [due EXCEPT ![t] = Due(Collected(Append(f, push)))]
    <2>1. pushes'[t] = Append(f, push) /\ \A u \in Threads \ {t} : pushes'[u] = pushes[u]
      BY <1>6
    <2> QED BY <1>7, <1>8, <2>1
  <1> QED BY <1>3, <1>4, <1>5, <1>8, <1>9

\* It goes on without changing what it owes.
LEMMA OwesTheSame ==
  ASSUME Types, NEW t \in Threads, Busy(t), NEW push \in PushState, Continue(t, push),
         Before(push) <=> Before(Last(pushes[t])),
         Before(push) \/ Owed(push) = Owed(Last(pushes[t]))
  PROVE  due' = due
  <1>1. PICK base \in Seq(Seq(Listeners)) :
          /\ due[t] = IF Before(Last(pushes[t])) THEN base
                      ELSE Append(base, Owed(Last(pushes[t])))
          /\ due' = [due EXCEPT ![t] = IF Before(push) THEN base ELSE Append(base, Owed(push))]
    BY DueContinues
  <1>2. due' = [due EXCEPT ![t] = due[t]]
    BY <1>1
  <1>3. due = [u \in Threads |-> Due(Collected(pushes[u]))]
    BY DEF due
  <1> QED BY <1>2, <1>3

\* It goes on after the release of the lock: what it owes is the last that is due.
LEMMA OwesAnother ==
  ASSUME Types, NEW t \in Threads, Busy(t), NEW push \in PushState, Continue(t, push),
         ~Before(push), ~Before(Last(pushes[t]))
  PROVE  /\ due[t] # <<>> /\ Last(due[t]) = Owed(Last(pushes[t]))
         /\ due' = [due EXCEPT ![t] = Append(Front(due[t]), Owed(push))]
  <1> DEFINE Array == Seq(Listeners)
             o == Owed(Last(pushes[t]))
  <1>1. PICK base \in Seq(Array) :
          /\ due[t] = Append(base, o)
          /\ due' = [due EXCEPT ![t] = Append(base, Owed(push))]
    <2>1. PICK base \in Seq(Seq(Listeners)) :
            /\ due[t] = IF Before(Last(pushes[t])) THEN base
                        ELSE Append(base, Owed(Last(pushes[t])))
            /\ due' = [due EXCEPT ![t] = IF Before(push) THEN base ELSE Append(base, Owed(push))]
      BY DueContinues
    <2> QED BY <2>1
  <1>2. o \in Array
    <2>1. Last(pushes[t]) \in PushState
      BY Continued
    <2> QED BY <2>1, OwedIs
  <1> HIDE DEF Array, o
  <1>3. Append(base, o) # <<>> /\ Last(Append(base, o)) = o /\ Front(Append(base, o)) = base
    BY <1>2, FrontOfAppend
  <1> QED BY <1>1, <1>3 DEF o

-----------------------------------------------------------------------------
\* What a collecting push has found so far.

\* The rest of a list from an entry on is the entry and the rest after it.
LEMMA SuffixOneMore ==
  ASSUME NEW S, NEW s \in Seq(S), NEW k \in DOMAIN s
  PROVE  SubSeq(s, k, Len(s)) = <<s[k]>> \o SubSeq(s, k + 1, Len(s))
  <1> DEFINE n == Len(s)
             l == SubSeq(s, k, n)
             rest == SubSeq(s, k + 1, n)
             r == <<s[k]>> \o rest
  <1>1. n \in Nat /\ k \in 1..n /\ s[k] \in S /\ \A i \in 1..n : s[i] \in S
    OBVIOUS
  <1>2. /\ l \in Seq(S) /\ Len(l) = n - k + 1
        /\ \A i \in 1..(n - k + 1) : l[i] = s[k + i - 1]
    <2>1. \A i \in k..n : s[i] \in S
      BY <1>1
    <2> HIDE DEF n
    <2> QED BY <1>1, <2>1, SubSeqProperties
  <1>3. /\ rest \in Seq(S) /\ Len(rest) = n - k
        /\ \A i \in 1..(n - k) : rest[i] = s[k + i]
    <2>1. \A i \in (k + 1)..n : s[i] \in S
      BY <1>1
    <2> HIDE DEF n
    <2>0. n \in Nat /\ k \in 1..n
      BY <1>1
    <2>2. k + 1 \in 1..(n + 1) /\ n - (k + 1) + 1 = n - k /\ \A i \in 1..(n - k) : (k + 1) + i - 1 = k + i
      BY <2>0
    <2>3. /\ rest \in Seq(S)
          /\ Len(rest) = IF k + 1 <= n THEN n - (k + 1) + 1 ELSE 0
          /\ \A i \in 1..(n - (k + 1) + 1) : rest[i] = s[(k + 1) + i - 1]
      BY <1>1, <2>1, <2>2, SubSeqProperties
    <2>4. Len(rest) = n - k
      BY <1>1, <2>3
    <2> QED BY <2>2, <2>3, <2>4
  <1>4. <<s[k]>> \in Seq(S) /\ Len(<<s[k]>>) = 1 /\ <<s[k]>>[1] = s[k]
    BY <1>1
  <1> HIDE DEF rest, n, l
  <1>5. /\ r \in Seq(S) /\ Len(r) = 1 + (n - k) /\ r[1] = s[k]
        /\ \A i \in 1..(1 + (n - k)) : i > 1 => r[i] = rest[i - 1]
    BY <1>1, <1>3, <1>4, ConcatProperties
  <1> HIDE DEF r
  <1>6. \A i \in 1..(n - k + 1) : l[i] = r[i]
    <2> SUFFICES ASSUME NEW i \in 1..(n - k + 1) PROVE l[i] = r[i]
      OBVIOUS
    <2>1. CASE i = 1
      <3>1. k + i - 1 = k
        BY <1>1, <2>1
      <3> QED BY <1>2, <1>5, <2>1, <3>1
    <2>2. CASE i # 1
      <3>1. i \in 1..(1 + (n - k)) /\ i > 1 /\ i - 1 \in 1..(n - k) /\ k + (i - 1) = k + i - 1
        BY <1>1, <2>2
      <3> QED BY <1>2, <1>3, <1>5, <3>1
    <2> QED BY <2>1, <2>2
  <1>7. Len(l) = Len(r) /\ Len(l) = n - k + 1
    BY <1>1, <1>2, <1>5
  <1>8. l = r
    BY <1>2, <1>5, <1>6, <1>7, SeqEqual
  <1> QED BY <1>8 DEF l, r, rest, n

\* Removing an entry leaves what is behind it.
LEMMA SuffixOfRemoved ==
  ASSUME NEW S, NEW s \in Seq(S), NEW k \in DOMAIN s
  PROVE  SubSeq(RemoveAt(s, k), k, Len(RemoveAt(s, k))) = SubSeq(s, k + 1, Len(s))
  <1> DEFINE n == Len(s)
             before == SubSeq(s, 1, k - 1)
             after == SubSeq(s, k + 1, n)
             r == RemoveAt(s, k)
             l == SubSeq(r, k, Len(r))
  <1>1. n \in Nat /\ k \in 1..n
    OBVIOUS
  <1>2. before \in Seq(S) /\ Len(before) = k - 1
    BY <1>1, SubSeqProperties
  <1>3. after \in Seq(S) /\ Len(after) = n - k
    BY <1>1, SubSeqProperties
  <1>4. r = before \o after /\ r \in Seq(S) /\ Len(r) = n - 1
    BY Removed DEF RemoveAt
  <1> HIDE DEF before, after, r, n
  <1>5. \A i \in 1..(n - k) : r[(k - 1) + i] = after[i]
    <2> SUFFICES ASSUME NEW i \in 1..(n - k) PROVE r[(k - 1) + i] = after[i]
      OBVIOUS
    <2> DEFINE j == (k - 1) + i
    <2>1. Len(before) = k - 1 /\ Len(after) = n - k
      BY <1>2, <1>3
    <2>2. j \in 1..((k - 1) + (n - k)) /\ ~(j <= k - 1) /\ j - (k - 1) = i
      BY <1>1
    <2> HIDE DEF j
    <2>3. \A q \in 1..(Len(before) + Len(after)) :
            (before \o after)[q] = IF q <= Len(before) THEN before[q] ELSE after[q - Len(before)]
      BY <1>2, <1>3, ConcatProperties
    <2>4. (before \o after)[j] = after[j - (k - 1)]
      BY <2>1, <2>2, <2>3
    <2>5. r[j] = after[i]
      BY <1>4, <2>2, <2>4
    <2> QED BY <2>5 DEF j
  <1>6. /\ l \in Seq(S) /\ Len(l) = n - k
        /\ \A i \in 1..(n - k) : l[i] = r[(k - 1) + i]
    <2> DEFINE m == n - 1
    <2>1. m \in Int /\ k \in 1..(m + 1) /\ m - k + 1 = n - k /\ Len(r) = m
          /\ \A i \in 1..(n - k) : k + i - 1 = (k - 1) + i
      BY <1>1, <1>4
    <2>2. \A i \in k..m : r[i] \in S
      BY <1>1, <1>4
    <2> HIDE DEF m
    <2>3. /\ SubSeq(r, k, m) \in Seq(S)
          /\ Len(SubSeq(r, k, m)) = IF k <= m THEN m - k + 1 ELSE 0
          /\ \A i \in 1..(m - k + 1) : SubSeq(r, k, m)[i] = r[k + i - 1]
      BY <1>1, <2>1, <2>2, SubSeqProperties
    <2>4. Len(SubSeq(r, k, m)) = n - k
      BY <1>1, <2>1, <2>3
    <2> QED BY <2>1, <2>3, <2>4
  <1> HIDE DEF l
  <1>7. \A i \in 1..(n - k) : l[i] = after[i]
    BY <1>5, <1>6
  <1>8. l = after
    BY <1>3, <1>6, <1>7, SeqEqual
  <1> QED BY <1>8 DEF l, r, after, n

-----------------------------------------------------------------------------
\* What the collector owes when it releases the lock: those it has looked at
\* and found alive, which is everybody from there to the end of the list.
CollectRight ==
  locker # NoThread =>
    LET push == Last(pushes[locker])
    IN Owed(push) = SubSeq(listeners, push.current + 2, Len(listeners))

BusInv == IInv /\ CollectRight

\* A thread goes on and takes the lock, keeps it or gives it up.
LEMMA CollectContinues ==
  ASSUME BusInv, NEW t \in Threads, Busy(t), NEW push \in PushState, Continue(t, push),
         locker' \in {locker, t, NoThread},
         locker' = t => Owed(push) = SubSeq(listeners', push.current + 2, Len(listeners')),
         listeners' = listeners \/ locker = t
  PROVE  CollectRight'
  <1>0. IInv /\ Types /\ CollectRight
    BY DEF BusInv, IInv
  <1> SUFFICES ASSUME locker' # NoThread
               PROVE  Owed(Last(pushes'[locker'])) =
                        SubSeq(listeners', Last(pushes'[locker']).current + 2, Len(listeners'))
    BY DEF CollectRight, Owed
  <1>1. CASE locker' = t
    <2>1. Last(pushes'[t]) = push
      BY <1>0, Continued
    <2> QED BY <1>1, <2>1
  <1>2. CASE locker' # t
    <2>1. locker' = locker /\ locker \in Threads \ {t} /\ listeners' = listeners
      BY <1>0, <1>2 DEF Types
    <2>2. pushes'[locker] = pushes[locker]
      BY <1>0, <2>1, Continued
    <2>3. Owed(Last(pushes[locker])) =
            SubSeq(listeners, Last(pushes[locker]).current + 2, Len(listeners))
      BY <1>0, <2>1, EventGeneratorAssumption DEF CollectRight
    <2> QED BY <2>1, <2>2, <2>3
  <1> QED BY <1>1, <1>2

\* The collector, if there is one, is not in the step.
LEMMA CollectUntouched ==
  ASSUME BusInv, locker' = locker, \A u \in Threads : u = locker => pushes'[u] = pushes[u],
         listeners' = listeners \/ locker = NoThread
  PROVE  CollectRight'
  <1>0. Types /\ CollectRight
    BY DEF BusInv, IInv
  <1> SUFFICES ASSUME locker # NoThread
               PROVE  Owed(Last(pushes'[locker])) =
                        SubSeq(listeners', Last(pushes'[locker]).current + 2, Len(listeners'))
    BY DEF CollectRight, Owed
  <1>1. locker \in Threads /\ pushes'[locker] = pushes[locker] /\ listeners' = listeners
    BY <1>0 DEF Types
  <1>2. Owed(Last(pushes[locker])) =
          SubSeq(listeners, Last(pushes[locker]).current + 2, Len(listeners))
    BY <1>0 DEF CollectRight
  <1> QED BY <1>1, <1>2

\* What the bus sees of a step.
BusStep == Bus!Next \/ UNCHANGED <<listeners, dead, due>>

-----------------------------------------------------------------------------
\* The steps.

\* A thread that takes the lock has looked at nothing.
LEMMA LockOnBus ==
  ASSUME BusInv, NEW t \in Threads, LockSyncWrite(t)
  PROVE  CollectRight' /\ BusStep
  <1> DEFINE push == Last(pushes[t])
             next == Entered(push)
  <1>0. IInv /\ Types /\ Busy(t) /\ push.at = "lock" /\ locker = NoThread /\ locker' = t
        /\ Continue(t, next) /\ UNCHANGED <<listeners, dead, asked>>
    BY DEF BusInv, IInv, LockSyncWrite, At
  <1>1. push \in PushState /\ PushRight(push, Len(listeners))
    BY <1>0, Innermost
  <1>1a. Before(Last(pushes[t]))
    BY <1>0 DEF Before
  <1> HIDE DEF push
  <1>2. push.arrays = <<>> /\ InRange(push)
    BY <1>0, <1>1 DEF PushRight
  <1>3. next \in PushState /\ PushRight(next, Len(listeners)) /\ next.at = "collect"
    <2>1. next \in PushState /\ PushRight(next, Len(listeners))
      BY <1>0, <1>1, <1>2, EnteredRight DEF Types
    <2>2. next.at = "collect"
      BY DEF Entered
    <2> QED BY <2>1, <2>2
  <1>4. next.arrays = Append(push.arrays, <<>>) /\ next.current = Len(listeners) - 1
    <2>1. Len(push.arrays) = 0
      BY <1>2
    <2>2. Offset(push) = 0
      BY <2>1, EventGeneratorAssumption DEF Offset
    <2>3. Len(listeners) \in Nat
      BY <1>0 DEF Types
    <2> QED BY <2>2, <2>3 DEF Entered
  <1>5. Owed(next) = <<>>
    <2> DEFINE arrays == push.arrays
    <2>1. arrays \in Seq(Seq(Listeners))
      BY <1>1, Fields
    <2> HIDE DEF arrays
    <2>2. OwedOf(Append(arrays, <<>>)) = OwedOf(arrays)
      BY <2>1, OwedEmptyArray
    <2>3. OwedOf(Append(push.arrays, <<>>)) = OwedOf(<<>>)
      BY <1>2, <2>2 DEF arrays
    <2>4. Owed(next) = OwedOf(next.arrays)
      BY <1>3, OwedIs
    <2> HIDE DEF next
    <2> QED BY <1>4, <2>3, <2>4, OwedNothing
  <1> HIDE DEF next
  <1>6. SubSeq(listeners, next.current + 2, Len(listeners)) = <<>>
    <2>1. Len(listeners) \in Nat
      BY <1>0 DEF Types
    <2>2. next.current + 2 = Len(listeners) + 1
      BY <1>4, <2>1
    <2> QED BY <2>1, <2>2, SubSeqEmpty
  <1>7. CollectRight'
    <2>1. Owed(next) = SubSeq(listeners', next.current + 2, Len(listeners'))
      BY <1>0, <1>5, <1>6
    <2> QED BY <1>0, <1>3, <2>1, CollectContinues
  <1>8. due' = due
    <2>1. Before(next)
      BY <1>3 DEF Before
    <2> QED BY <1>0, <1>1a, <1>3, <2>1, OwesTheSame
  <1> QED BY <1>0, <1>7, <1>8 DEF BusStep

\* What is taken comes before what was.
LEMMA TakeOnBus ==
  ASSUME BusInv, NEW t \in Threads, TakeListener(t)
  PROVE  CollectRight' /\ BusStep
  <1> DEFINE push == Last(pushes[t])
             l == listeners[push.current + 1]
             array == Append(Last(push.arrays), l)
             new == Append(Front(push.arrays), array)
             next == [push EXCEPT !.current = push.current - 1, !.arrays = new]
  <1>0. IInv /\ Types /\ Busy(t) /\ push.at = "collect" /\ push.current >= 0 /\ HasRoom(push)
        /\ Continue(t, next) /\ UNCHANGED <<listeners, dead, asked, locker>>
    BY DEF BusInv, IInv, TakeListener, Looking, At
  <1>1. push \in PushState /\ PushRight(push, Len(listeners)) /\ locker = t
    BY <1>0, Innermost
  <1>1a. Before(Last(pushes[t]))
    BY <1>0 DEF Before
  <1>1b. Owed(push) = SubSeq(listeners, push.current + 2, Len(listeners))
    BY <1>1, EventGeneratorAssumption DEF BusInv, CollectRight
  <1> HIDE DEF push
  <1>2. Counted(push, Len(listeners)) /\ InRange(push) /\ push.arrays # <<>>
    BY <1>0, <1>1 DEF PushRight, Counted
  <1>3. /\ push.current + 1 \in DOMAIN listeners /\ listeners \in Seq(Listeners)
        /\ Last(push.arrays) \in Seq(Listeners) /\ Len(Last(push.arrays)) \in Nat
    BY <1>0, <1>1, <1>2, LooksAtTheList DEF Types
  <1>4. l \in Listeners
    BY <1>3
  <1>5. array \in Seq(Listeners) /\ Len(array) <= Stack
    <2>1. array \in Seq(Listeners) /\ Len(array) = Len(Last(push.arrays)) + 1
      BY <1>3, <1>4, Appended
    <2> HIDE DEF array
    <2> QED BY <1>0, <1>3, <2>1, EventGeneratorAssumption DEF HasRoom
  <1>6. new \in Seq(Seq(Listeners))
    <2> HIDE DEF array
    <2> QED BY <1>1, <1>2, <1>5, LastArrayReplaced
  <1>7. OwedOf(new) = <<l>> \o Owed(push)
    <2> DEFINE arrays == push.arrays
               last == Last(arrays)
               front == Front(arrays)
               Array == Seq(Listeners)
    <2>1. arrays \in Seq(Array) /\ arrays # <<>>
      BY <1>1, <1>2, Fields
    <2> HIDE DEF Array
    <2>2. front \in Seq(Array) /\ last \in Array /\ arrays = Append(front, last)
      <3> HIDE DEF arrays
      <3> QED BY <2>1, FrontAndLast, InParts
    <2>3. OwedOf(arrays) = Owed(push)
      BY <1>1, OwedIs
    <2>4. new = Append(front, Append(last, l))
      OBVIOUS
    <2> HIDE DEF front, last, arrays, new, l
    <2>5. OwedOf(Append(front, Append(last, l))) = <<l>> \o OwedOf(Append(front, last))
      BY <1>4, <2>2, OwedOneMore DEF Array
    <2> QED BY <2>2, <2>3, <2>4, <2>5
  <1> HIDE DEF array, new, l
  <1>8. push.current \in Int /\ push.current - 1 \in Int
    BY <1>1, Fields
  <1>9. /\ next \in PushState /\ next.at = "collect"
        /\ next.current = push.current - 1 /\ next.arrays = new
    BY <1>0, <1>1, <1>6, <1>8, FieldsReplaced DEF PushState
  <1> HIDE DEF next
  <1>10. Owed(next) = SubSeq(listeners, next.current + 2, Len(listeners))
    <2>1. next.current + 2 = push.current + 1 /\ push.current + 2 = (push.current + 1) + 1
      BY <1>8, <1>9
    <2>2. Owed(next) = <<l>> \o SubSeq(listeners, (push.current + 1) + 1, Len(listeners))
      BY <1>1b, <1>7, <1>9, <2>1, OwedIs
    <2>3. SubSeq(listeners, push.current + 1, Len(listeners)) =
            <<l>> \o SubSeq(listeners, (push.current + 1) + 1, Len(listeners))
      BY <1>3, SuffixOneMore DEF l
    <2> QED BY <2>1, <2>2, <2>3
  <1>11. CollectRight'
    <2>1. Owed(next) = SubSeq(listeners', next.current + 2, Len(listeners'))
      BY <1>0, <1>10
    <2> QED BY <1>0, <1>9, <2>1, CollectContinues
  <1>12. due' = due
    <2>1. Before(next)
      BY <1>9 DEF Before
    <2> QED BY <1>0, <1>1a, <1>9, <2>1, OwesTheSame
  <1> QED BY <1>0, <1>11, <1>12 DEF BusStep

\* A dead one is forgotten, before everything that has been looked at.
LEMMA EraseOnBus ==
  ASSUME BusInv, NEW t \in Threads, EraseDead(t)
  PROVE  CollectRight' /\ BusStep
  <1> DEFINE push == Last(pushes[t])
             next == [push EXCEPT !.current = push.current - 1]
             i == push.current + 1
  <1>0. IInv /\ Types /\ Busy(t) /\ push.at = "collect" /\ push.current >= 0
        /\ Continue(t, next) /\ UNCHANGED <<dead, asked, locker>>
        /\ listeners[i] \in dead /\ listeners' = RemoveAt(listeners, i)
    BY DEF BusInv, IInv, EraseDead, Looking, At
  <1>1. push \in PushState /\ PushRight(push, Len(listeners)) /\ locker = t
    BY <1>0, Innermost
  <1>1a. Before(Last(pushes[t]))
    BY <1>0 DEF Before
  <1>1b. Owed(push) = SubSeq(listeners, push.current + 2, Len(listeners))
    BY <1>1, EventGeneratorAssumption DEF BusInv, CollectRight
  <1> HIDE DEF push
  <1>2. Counted(push, Len(listeners)) /\ InRange(push)
    BY <1>0, <1>1 DEF PushRight
  <1>3. i \in DOMAIN listeners /\ listeners \in Seq(Listeners)
    BY <1>0, <1>1, <1>2, LooksAtTheList DEF Types
  <1>4. push.current \in Int /\ push.current - 1 \in Int
    BY <1>1, Fields
  <1>5. /\ next \in PushState /\ next.at = "collect"
        /\ next.current = push.current - 1 /\ next.arrays = push.arrays
    BY <1>0, <1>1, <1>4, FieldsReplaced, Fields DEF PushState
  <1> HIDE DEF next
  <1>6. Owed(next) = SubSeq(listeners', next.current + 2, Len(listeners'))
    <2>1. next.current + 2 = i /\ push.current + 2 = i + 1
      BY <1>4, <1>5
    <2>2. SubSeq(listeners', i, Len(listeners')) = SubSeq(listeners, i + 1, Len(listeners))
      <3> HIDE DEF i
      <3> QED BY <1>0, <1>3, SuffixOfRemoved
    <2>3. Owed(next) = Owed(push)
      BY <1>5 DEF Owed
    <2> QED BY <1>1b, <2>1, <2>2, <2>3
  <1> HIDE DEF i
  <1>7. CollectRight'
    BY <1>0, <1>1, <1>5, <1>6, CollectContinues
  <1>8. due' = due
    <2>1. Before(next)
      BY <1>5 DEF Before
    <2> QED BY <1>0, <1>1a, <1>5, <2>1, OwesTheSame
  <1>9. Bus!Forget(i)
    BY <1>0, <1>8, BusSequences DEF Bus!Forget
  <1>10. Bus!Next
    BY <1>3, <1>9 DEF Bus!Next
  <1> QED BY <1>7, <1>10 DEF BusStep

\* An array more, with nothing in it.
LEMMA RecurseOnBus ==
  ASSUME BusInv, NEW t \in Threads, Recurse(t)
  PROVE  CollectRight' /\ BusStep
  <1> DEFINE push == Last(pushes[t])
             next == Entered(push)
  <1>0. IInv /\ Types /\ Busy(t) /\ push.at = "collect" /\ push.current >= 0 /\ ~HasRoom(push)
        /\ Continue(t, next) /\ UNCHANGED <<listeners, dead, asked, locker>>
    BY DEF BusInv, IInv, Recurse, At
  <1>1. push \in PushState /\ PushRight(push, Len(listeners)) /\ locker = t
    BY <1>0, Innermost
  <1>1a. Before(Last(pushes[t]))
    BY <1>0 DEF Before
  <1>1b. Owed(push) = SubSeq(listeners, push.current + 2, Len(listeners))
    BY <1>1, EventGeneratorAssumption DEF BusInv, CollectRight
  <1> HIDE DEF push
  <1>2. Counted(push, Len(listeners)) /\ InRange(push) /\ push.arrays # <<>>
    BY <1>0, <1>1 DEF PushRight, Counted
  <1>3. next \in PushState /\ PushRight(next, Len(listeners)) /\ next.at = "collect"
    <2>1. next \in PushState /\ PushRight(next, Len(listeners))
      BY <1>0, <1>1, <1>2, EnteredRight DEF Types
    <2>2. next.at = "collect"
      BY DEF Entered
    <2> QED BY <2>1, <2>2
  <1>4. next.arrays = Append(push.arrays, <<>>)
    BY DEF Entered
  <1> HIDE DEF next
  <1>5. Owed(next) = Owed(push)
    <2> DEFINE arrays == push.arrays
    <2>1. arrays \in Seq(Seq(Listeners))
      BY <1>1, Fields
    <2>2. Owed(next) = OwedOf(next.arrays) /\ Owed(push) = OwedOf(arrays)
      BY <1>1, <1>3, OwedIs
    <2>3. next.arrays = Append(arrays, <<>>)
      BY <1>4
    <2> HIDE DEF arrays
    <2> QED BY <2>1, <2>2, <2>3, OwedEmptyArray
  <1>6. next.current = push.current
    <2> DEFINE n == Len(push.arrays)
               arrays == push.arrays
               Array == Seq(Listeners)
    <2>1. arrays \in Seq(Array) /\ arrays # <<>> /\ push.current \in Int /\ next.current \in Int
      BY <1>1, <1>2, <1>3, Fields
    <2>2. n \in Nat \ {0} /\ Stack \in Nat \ {0} /\ Len(listeners) \in Nat
      BY <1>0, <2>1, EventGeneratorAssumption DEF Types
    <2>3. Len(next.arrays) = n + 1 /\ Last(next.arrays) = <<>>
      <3> DEFINE none == <<>>
      <3>1. none \in Array /\ next.arrays = Append(arrays, none)
        BY <1>4
      <3> HIDE DEF Array, none
      <3>2. Len(Append(arrays, none)) = Len(arrays) + 1 /\ Last(Append(arrays, none)) = none
        BY <2>1, <3>1, Appended
      <3> QED BY <3>1, <3>2 DEF none
    <2>4. Len(Last(arrays)) = Stack
      <3> HIDE DEF Array
      <3>1. Len(arrays) \in DOMAIN arrays /\ Last(arrays) = arrays[Len(arrays)] /\ Last(arrays) \in Array
        <4> HIDE DEF arrays
        <4> QED BY <2>1, FrontAndLast
      <3>2. Len(Last(arrays)) <= Stack
        BY <1>2, <3>1 DEF InRange
      <3>3. Len(Last(arrays)) \in Nat
        BY <3>1 DEF Array
      <3> QED BY <1>0, <2>2, <3>2, <3>3 DEF HasRoom
    <2>5. Len(listeners) = next.current + 1 + Stack * ((n + 1) - 1) + 0
      <3>1. Len(Last(next.arrays)) = 0
        BY <2>3
      <3>2. Len(listeners) = next.current + 1 + Stack * (Len(next.arrays) - 1) + Len(Last(next.arrays))
        BY <1>3 DEF PushRight, Counted
      <3> QED BY <2>3, <3>1, <3>2
    <2>6. Len(listeners) = push.current + 1 + Stack * (n - 1) + Stack
      BY <1>2, <2>4 DEF Counted
    <2> HIDE DEF n
    <2>7. Stack * ((n + 1) - 1) = Stack * (n - 1) + Stack /\ Stack * (n - 1) \in Int
      BY <2>2
    <2> DEFINE above == Stack * (n - 1)
               a == next.current
               b == push.current
    <2>8. Len(listeners) = a + 1 + (above + Stack) + 0 /\ Len(listeners) = b + 1 + above + Stack
          /\ above \in Int /\ a \in Int /\ b \in Int
      BY <2>1, <2>5, <2>6, <2>7
    <2> HIDE DEF above, a, b
    <2>9. a = b
      BY <2>2, <2>8
    <2> QED BY <2>9 DEF a, b
  <1>7. CollectRight'
    <2>1. Owed(next) = SubSeq(listeners', next.current + 2, Len(listeners'))
      BY <1>0, <1>1b, <1>5, <1>6
    <2> QED BY <1>0, <1>3, <2>1, CollectContinues
  <1>8. due' = due
    <2>1. Before(next)
      BY <1>3 DEF Before
    <2> QED BY <1>0, <1>1a, <1>3, <2>1, OwesTheSame
  <1> QED BY <1>0, <1>7, <1>8 DEF BusStep

\* The event is due to everybody who is on the list now.
LEMMA UnlockOnBus ==
  ASSUME BusInv, NEW t \in Threads, UnlockSyncWrite(t)
  PROVE  CollectRight' /\ BusStep
  <1> DEFINE push == Last(pushes[t])
             next == [push EXCEPT !.at = "invoke"]
  <1>0. IInv /\ Types /\ Busy(t) /\ push.at = "collect" /\ push.current < 0 /\ locker' = NoThread
        /\ Continue(t, next) /\ UNCHANGED <<listeners, dead, asked>>
    BY DEF BusInv, IInv, UnlockSyncWrite, At, Released
  <1>1. push \in PushState /\ PushRight(push, Len(listeners)) /\ locker = t
    BY <1>0, Innermost
  <1>1a. Before(Last(pushes[t]))
    BY <1>0 DEF Before
  <1>1b. Owed(push) = SubSeq(listeners, push.current + 2, Len(listeners))
    BY <1>1, EventGeneratorAssumption DEF BusInv, CollectRight
  <1> HIDE DEF push
  <1>2. push.current \in Int /\ push.current >= -1
    BY <1>1, Fields DEF PushRight, InRange
  <1>3. /\ next \in PushState /\ next.at = "invoke" /\ next.arrays = push.arrays
    BY <1>1, FieldsReplaced, Fields DEF PushState
  <1> HIDE DEF next
  <1>4. Owed(next) = listeners
    <2>1. push.current + 2 = 1
      BY <1>0, <1>2
    <2>2. SubSeq(listeners, 1, Len(listeners)) = listeners
      BY <1>0 DEF Types
    <2>3. Owed(next) = Owed(push)
      BY <1>3 DEF Owed
    <2> QED BY <1>1b, <2>1, <2>2, <2>3
  <1>5. CollectRight'
    <2>1. locker' # t
      BY <1>0, EventGeneratorAssumption
    <2> QED BY <1>0, <1>3, <2>1, CollectContinues
  <1>6. due' = [due EXCEPT ![t] = Append(due[t], listeners)]
    <2>1. ~Before(next)
      BY <1>3 DEF Before
    <2> QED BY <1>0, <1>1a, <1>3, <1>4, <2>1, DueContinues
  <1>7. Bus!Push(t)
    BY <1>0, <1>6 DEF Bus!Push
  <1>8. Bus!Next
    BY <1>7 DEF Bus!Next
  <1> QED BY <1>5, <1>8 DEF BusStep

\* The first of those it is still due to.
LEMMA InvokeOnBus ==
  ASSUME BusInv, NEW t \in Threads, Invoke(t)
  PROVE  CollectRight' /\ BusStep
  <1> DEFINE push == Last(pushes[t])
             last == Last(push.arrays)
             array == Front(last)
             front == Front(push.arrays)
             new == Append(front, array)
             next == [push EXCEPT !.at = "callback", !.arrays = new]
             Array == Seq(Listeners)
  <1>0. IInv /\ Types /\ Busy(t) /\ push.at = "invoke" /\ last # <<>>
        /\ Continue(t, next) /\ UNCHANGED <<listeners, dead, asked, locker>>
    BY DEF BusInv, IInv, Invoke, At, LastOut
  <1>1. push \in PushState /\ PushRight(push, Len(listeners)) /\ locker # t
    BY <1>0, Innermost
  <1>1a. ~Before(Last(pushes[t]))
    BY <1>0 DEF Before
  <1>2. push.arrays # <<>> /\ push.arrays \in Seq(Array)
    <2> HIDE DEF push
    <2> QED BY <1>0, <1>1, Fields DEF PushRight
  <1>3. front \in Seq(Array) /\ last \in Array /\ push.arrays = Append(front, last)
    <2> DEFINE arrays == push.arrays
    <2>1. arrays \in Seq(Array) /\ arrays # <<>>
      BY <1>2
    <2> HIDE DEF Array, arrays
    <2>2. Front(arrays) \in Seq(Array) /\ Last(arrays) \in Array
          /\ arrays = Append(Front(arrays), Last(arrays))
      BY <2>1, FrontAndLast, InParts
    <2> QED BY <2>2 DEF arrays
  <1>4. array \in Array /\ last = Append(array, Last(last)) /\ Last(last) \in Listeners
    <2>1. last \in Seq(Listeners) /\ last # <<>>
      BY <1>0, <1>3
    <2> HIDE DEF last
    <2> QED BY <2>1, FrontAndLast, InParts
  <1>5. new \in Seq(Array)
    <2> HIDE DEF Array, front, array
    <2> QED BY <1>3, <1>4, Appended
  <1>6. OwedOf(push.arrays) = <<Last(last)>> \o OwedOf(new)
    <2>1. front \in Seq(Seq(Listeners)) /\ array \in Seq(Listeners) /\ Last(last) \in Listeners
      BY <1>3, <1>4
    <2>2. push.arrays = Append(front, Append(array, Last(last)))
      BY <1>3, <1>4
    <2> HIDE DEF front, last, array, push
    <2>3. OwedOf(Append(front, Append(array, Last(last)))) = <<Last(last)>> \o OwedOf(Append(front, array))
      BY <2>1, OwedOneMore
    <2> QED BY <2>2, <2>3
  <1> DEFINE x == Last(last)
  <1>7. x \in Listeners /\ OwedOf(push.arrays) = <<x>> \o OwedOf(new)
    BY <1>4, <1>6
  <1> HIDE DEF push, new, x, array, front, last
  <1>8. /\ next \in PushState /\ next.at = "callback"
        /\ next.arrays = new
    <2>1. new \in Seq(Seq(Listeners))
      BY <1>5
    <2> QED BY <1>1, <2>1, FieldsReplaced, Fields DEF PushState
  <1> HIDE DEF next
  <1>9. Owed(push) # <<>> /\ Owed(next) = Tail(Owed(push))
    <2>1. Owed(push) = OwedOf(push.arrays) /\ Owed(next) = OwedOf(new) /\ OwedOf(new) \in Seq(Listeners)
      BY <1>1, <1>5, <1>8, OwedIs, OwedType
    <2>2. Tail(<<x>> \o OwedOf(new)) = OwedOf(new) /\ <<x>> \o OwedOf(new) # <<>>
      BY <1>7, <2>1, TailOfCons
    <2> QED BY <1>7, <2>1, <2>2
  <1>10. CollectRight'
    BY <1>0, <1>1, <1>8, CollectContinues
  <1>11. /\ due[t] # <<>> /\ Last(due[t]) = Owed(push)
         /\ due' = [due EXCEPT ![t] = Append(Front(due[t]), Owed(next))]
    <2>1. ~Before(next)
      BY <1>8 DEF Before
    <2> QED BY <1>0, <1>1a, <1>8, <2>1, OwesAnother DEF push
  <1>12. Bus!Call(t)
    <2>1. Bus!Last(due[t]) = Last(due[t]) /\ Bus!Front(due[t]) = Front(due[t])
      BY BusSequences
    <2> QED BY <1>0, <1>9, <1>11, <2>1 DEF Bus!Call
  <1>13. Bus!Next
    BY <1>12 DEF Bus!Next
  <1> QED BY <1>10, <1>13 DEF BusStep

\* The end of a call changes nothing.
LEMMA CallbackReturnsOnBus ==
  ASSUME BusInv, NEW t \in Threads, CallbackReturns(t)
  PROVE  CollectRight' /\ BusStep
  <1> DEFINE push == Last(pushes[t])
             next == [push EXCEPT !.at = "invoke"]
  <1>0. IInv /\ Types /\ Busy(t) /\ push.at = "callback"
        /\ Continue(t, next) /\ UNCHANGED <<listeners, dead, asked, locker>>
    BY DEF BusInv, IInv, CallbackReturns, At
  <1>1. push \in PushState /\ locker # t
    BY <1>0, Innermost
  <1>2. ~Before(Last(pushes[t]))
    BY <1>0 DEF Before
  <1> HIDE DEF push
  <1>3. next \in PushState /\ next.at = "invoke" /\ next.arrays = push.arrays
    BY <1>1, FieldsReplaced, Fields DEF PushState
  <1> HIDE DEF next
  <1>4. CollectRight'
    BY <1>0, <1>1, <1>3, CollectContinues
  <1>5. due' = due
    <2>1. ~Before(next) /\ Owed(next) = Owed(push)
      BY <1>3 DEF Before, Owed
    <2> QED BY <1>0, <1>2, <1>3, <2>1, OwesTheSame DEF push
  <1> QED BY <1>0, <1>4, <1>5 DEF BusStep

\* A level below has nothing left, or the whole push.
LEMMA ReturnOnBus ==
  ASSUME BusInv, NEW t \in Threads, Return(t)
  PROVE  CollectRight' /\ BusStep
  <1> DEFINE push == Last(pushes[t])
             outer == Front(push.arrays)
             next == [push EXCEPT !.arrays = outer]
             Array == Seq(Listeners)
             old == pushes[t]
             rest == Front(old)
  <1>0. IInv /\ Types /\ CallbacksUnlocked /\ Busy(t) /\ push.at = "invoke" /\ Last(push.arrays) = <<>>
        /\ UNCHANGED <<listeners, dead, asked, locker>>
        /\ IF outer = <<>> THEN pushes' = [pushes EXCEPT ![t] = rest]
                           ELSE Continue(t, next)
    BY DEF BusInv, IInv, Return, At
  <1>1. push \in PushState /\ PushRight(push, Len(listeners)) /\ locker # t
    BY <1>0, Innermost
  <1>2. ~Before(push)
    BY <1>0 DEF Before
  <1>3. push.arrays # <<>> /\ push.arrays \in Seq(Array)
    <2> HIDE DEF push
    <2> QED BY <1>0, <1>1, Fields DEF PushRight
  <1>4. outer \in Seq(Array) /\ push.arrays = Append(outer, <<>>)
    <2> DEFINE arrays == push.arrays
    <2>1. arrays \in Seq(Array) /\ arrays # <<>> /\ Last(arrays) = <<>>
      BY <1>0, <1>3
    <2> HIDE DEF Array, arrays
    <2>2. Front(arrays) \in Seq(Array) /\ arrays = Append(Front(arrays), Last(arrays))
      BY <2>1, FrontAndLast, InParts
    <2> QED BY <2>1, <2>2 DEF arrays
  <1>5. Owed(push) = OwedOf(outer)
    <2>1. Owed(push) = OwedOf(push.arrays)
      BY <1>1, OwedIs
    <2> HIDE DEF outer, push
    <2>2. OwedOf(Append(outer, <<>>)) = OwedOf(outer)
      BY <1>4, OwedEmptyArray
    <2> QED BY <1>4, <2>1, <2>2
  <1>6. CASE outer # <<>>
    <2>1. Continue(t, next)
      BY <1>0, <1>6
    <2>2. outer \in Seq(Seq(Listeners))
      BY <1>4
    <2> HIDE DEF push, outer
    <2>3. next \in PushState /\ next.at = "invoke" /\ next.arrays = outer
      BY <1>0, <1>1, <2>2, FieldsReplaced, Fields DEF PushState
    <2> HIDE DEF next
    <2>4. CollectRight'
      BY <1>0, <1>1, <2>1, <2>3, CollectContinues
    <2>5. ~Before(next) /\ Owed(next) = Owed(push)
      BY <1>5, <2>3, OwedIs DEF Before
    <2>6. due' = due
      BY <1>0, <1>2, <2>1, <2>3, <2>5, OwesTheSame DEF push
    <2> QED BY <1>0, <2>4, <2>6 DEF BusStep
  <1>7. CASE outer = <<>>
    <2>1. pushes' = [pushes EXCEPT ![t] = rest]
      BY <1>0, <1>7
    <2>2. old \in Seq(PushState) /\ old # <<>> /\ pushes \in [Threads -> Seq(PushState)]
      BY <1>0 DEF Types, Busy
    <2>3. Owed(push) = <<>>
      <3> HIDE DEF outer, push
      <3> QED BY <1>5, <1>7, OwedNothing
    <2>4. rest \in Seq(PushState) /\ Len(rest) = Len(old) - 1 /\ old = Append(rest, push)
          /\ (\A p \in 1..(Len(old) - 1) : rest[p] = old[p]) /\ Len(old) \in Nat \ {0}
      <3> HIDE DEF old
      <3> QED BY <2>2, FrontAndLast, InParts DEF old
    <2>5. Collected(rest) = rest
      <3> SUFFICES ASSUME rest # <<>> PROVE ~(Last(rest).at \in {"lock", "collect"})
        BY DEF Collected
      <3>1. Last(rest) = rest[Len(rest)] /\ Len(rest) \in DOMAIN rest
        <4> HIDE DEF rest
        <4> QED BY <2>4, FrontAndLast
      <3>2. Len(rest) \in 1..(Len(old) - 1) /\ Len(rest) \in DOMAIN old /\ Len(rest) < Len(old)
        <4>1. Len(rest) \in 1..Len(rest)
          <5> HIDE DEF rest
          <5> QED BY <2>4, <3>1
        <4> HIDE DEF rest, old
        <4> QED BY <2>2, <2>4, <4>1
      <3>3. old[Len(rest)].at = "callback"
        BY <1>0, <3>2 DEF CallbacksUnlocked
      <3> QED BY <2>4, <3>1, <3>2, <3>3
    <2> HIDE DEF rest, old, push
    <2>6. Due(Collected(old)) = Append(Due(rest), <<>>)
      BY <1>1, <1>2, <2>3, <2>4, DueOfAppend
    <2>7. due = [u \in Threads |-> Due(Collected(pushes[u]))]
          /\ due' = [u \in Threads |-> Due(Collected(pushes'[u]))]
      BY DEF due
    <2>8. due' = [due EXCEPT ![t] = Due(rest)] /\ due[t] = Append(Due(rest), <<>>)
      <3>1. pushes'[t] = rest /\ \A u \in Threads \ {t} : pushes'[u] = pushes[u]
        BY <2>1, <2>2
      <3>2. due[t] = Append(Due(rest), <<>>)
        BY <2>6, <2>7 DEF old
      <3> QED BY <2>5, <2>7, <3>1, <3>2
    <2>9. due[t] # <<>> /\ Last(due[t]) = <<>> /\ Front(due[t]) = Due(rest)
      <3> DEFINE none == <<>>
      <3>1. none \in Array /\ Due(rest) \in Seq(Array)
        BY <2>4, DueIs
      <3>2. due[t] = Append(Due(rest), none)
        BY <2>8
      <3> HIDE DEF Array, none
      <3>3. Append(Due(rest), none) # <<>> /\ Last(Append(Due(rest), none)) = none
            /\ Front(Append(Due(rest), none)) = Due(rest)
        BY <3>1, FrontOfAppend
      <3> QED BY <3>2, <3>3 DEF none
    <2>10. Bus!Return(t)
      <3>1. Bus!Last(due[t]) = Last(due[t]) /\ Bus!Front(due[t]) = Front(due[t])
        BY BusSequences
      <3> QED BY <1>0, <2>8, <2>9, <3>1 DEF Bus!Return
    <2>11. Bus!Next
      BY <2>10 DEF Bus!Next
    <2>12. CollectRight'
      <3>1. \A u \in Threads : u = locker => pushes'[u] = pushes[u]
        BY <1>1, <2>1, <2>2
      <3> QED BY <1>0, <3>1, CollectUntouched
    <2> QED BY <2>11, <2>12 DEF BusStep
  <1> QED BY <1>6, <1>7

\* A push that waits for the lock owes nothing yet.
LEMMA PushOnBus ==
  ASSUME BusInv, NEW t \in Threads, Push(t)
  PROVE  CollectRight' /\ BusStep
  <1> DEFINE new == [at |-> "lock", current |-> -1, arrays |-> <<>>]
             old == pushes[t]
  <1>0. IInv /\ Types /\ CallbacksUnlocked /\ UNCHANGED <<listeners, dead, asked, locker>>
        /\ pushes' = [pushes EXCEPT ![t] = Append(old, new)]
        /\ (old # <<>> => Last(old).at = "callback")
    BY DEF BusInv, IInv, Push, MayCall, At, Busy
  <1>1. old \in Seq(PushState) /\ pushes \in [Threads -> Seq(PushState)]
    BY <1>0 DEF Types
  <1>2. new \in PushState /\ Before(new)
    BY Fields DEF PushState, Before
  <1>3. locker # t
    BY <1>0 DEF CallbacksUnlocked, At, Busy
  <1> HIDE DEF new
  <1>4. pushes'[t] = Append(old, new) /\ \A u \in Threads \ {t} : pushes'[u] = pushes[u]
    BY <1>0, <1>1
  <1>5. CollectRight'
    <2>1. \A u \in Threads : u = locker => pushes'[u] = pushes[u]
      BY <1>3, <1>4
    <2> QED BY <1>0, <2>1, CollectUntouched
  <1>6. Due(Collected(Append(old, new))) = Due(Collected(old))
    <2>1. Collected(old) = old
      BY <1>0 DEF Collected
    <2> QED BY <1>1, <1>2, <2>1, DueOfAppend
  <1>7. due' = due
    <2>1. \A u \in Threads : Due(Collected(pushes'[u])) = Due(Collected(pushes[u]))
      BY <1>4, <1>6
    <2>2. due = [u \in Threads |-> Due(Collected(pushes[u]))]
          /\ due' = [u \in Threads |-> Due(Collected(pushes'[u]))]
      BY DEF due
    <2> QED BY <2>1, <2>2
  <1> QED BY <1>0, <1>5, <1>7 DEF BusStep

\* The steps outside the pushes.
LEMMA OutsidePushes ==
  ASSUME BusInv, UNCHANGED <<locker, pushes>>, listeners' = listeners \/ locker = NoThread
  PROVE  CollectRight' /\ due' = due
  <1>1. CollectRight'
    BY CollectUntouched
  <1>2. due' = due
    BY DEF due
  <1> QED BY <1>1, <1>2

LEMMA AskOnBus ==
  ASSUME BusInv, NEW t \in Threads, NEW l \in Listeners, NEW what \in {"register", "deregister"},
         Ask(t, what, l)
  PROVE  CollectRight' /\ BusStep
  <1>1. UNCHANGED <<listeners, dead, locker, pushes>>
    BY DEF Ask
  <1> QED BY <1>1, OutsidePushes DEF BusStep

LEMMA RegisterOnBus ==
  ASSUME BusInv, NEW t \in Threads, NEW l \in Listeners, Register(t, l)
  PROVE  CollectRight' /\ BusStep
  <1>1. UNCHANGED <<dead, locker, pushes>> /\ locker = NoThread /\ listeners' = Append(listeners, l)
    BY DEF Register
  <1>2. CollectRight' /\ due' = due
    BY <1>1, OutsidePushes
  <1>3. Bus!Register(l)
    BY <1>1, <1>2 DEF Bus!Register
  <1> QED BY <1>2, <1>3 DEF BusStep, Bus!Next

LEMMA DieOnBus ==
  ASSUME BusInv, NEW l \in Listeners, Die(l)
  PROVE  CollectRight' /\ BusStep
  <1>1. UNCHANGED <<listeners, locker, pushes>> /\ dead' = dead \cup {l}
    BY DEF Die
  <1>2. CollectRight' /\ due' = due
    BY <1>1, OutsidePushes
  <1>3. Bus!Die(l)
    BY <1>1, <1>2 DEF Bus!Die
  <1> QED BY <1>2, <1>3 DEF BusStep, Bus!Next

\* The first entry of a handle, as the bus removes it.
LEMMA FirstRemoved ==
  ASSUME NEW S, NEW s \in Seq(S), NEW e, NEW i \in DOMAIN s, s[i] = e,
         \A j \in DOMAIN s : s[j] = e => i <= j
  PROVE  RemoveFirst(s, e) = RemoveAt(s, i)
  <1> DEFINE I == {j \in 1..Len(s) : s[j] = e}
  <1>1. i \in I /\ (\A j \in I : i <= j) /\ I \subseteq Nat /\ \E j \in 1..Len(s) : s[j] = e
    BY LenProperties
  <1>2. SelectInSeq(s, LAMBDA v : v = e) = Min(I)
    BY <1>1 DEF SelectInSeq
  <1>3. Min(I) = i
    <2> HIDE DEF I
    <2>1. \A x \in I : (\A y \in I : x <= y) => x = i
      BY <1>1
    <2> QED BY <1>1, <2>1 DEF Min
  <1> QED BY <1>1, <1>2, <1>3 DEF RemoveFirst

LEMMA DeregisterOnBus ==
  ASSUME BusInv, NEW t \in Threads, NEW l \in Listeners, Deregister(t, l)
  PROVE  CollectRight' /\ BusStep
  <1> DEFINE same  == {i \in DOMAIN listeners : IF l \in dead THEN listeners[i] \in dead
                                                              ELSE listeners[i] = l}
             first == {i \in same : l \notin dead => \A j \in same : i <= j}
  <1>0. listeners \in Seq(Listeners) /\ UNCHANGED <<dead, locker, pushes>> /\ locker = NoThread
    BY DEF BusInv, IInv, Types, Deregister
  <1>1. CollectRight' /\ due' = due
    BY <1>0, OutsidePushes
  <1>2. listeners' \in {RemoveAt(listeners, i) : i \in first}
                         \cup (IF l \in dead \/ same = {} THEN {listeners} ELSE {})
    BY DEF Deregister, EraseFirst
  <1>3. CASE listeners' = listeners
    BY <1>0, <1>1, <1>3 DEF BusStep
  <1>4. ASSUME NEW i \in first, listeners' = RemoveAt(listeners, i) PROVE BusStep
    <2>1. CASE l \in dead
      <3>1. i \in DOMAIN listeners /\ listeners[i] \in dead
        BY <2>1
      <3>2. Bus!Forget(i)
        BY <1>0, <1>1, <1>4, <3>1, BusSequences DEF Bus!Forget
      <3> QED BY <3>1, <3>2 DEF BusStep, Bus!Next
    <2>2. CASE l \notin dead
      <3>1. i \in DOMAIN listeners /\ listeners[i] = l
            /\ \A j \in DOMAIN listeners : listeners[j] = l => i <= j
        BY <2>2
      <3>2. listeners' = RemoveFirst(listeners, l)
        BY <1>0, <1>4, <3>1, FirstRemoved
      <3>3. Bus!Deregister(l)
        BY <1>0, <1>1, <3>2, BusSequences DEF Bus!Deregister
      <3> QED BY <3>3 DEF BusStep, Bus!Next
    <2> QED BY <2>1, <2>2
  <1>5. listeners' = listeners \/ \E i \in first : listeners' = RemoveAt(listeners, i)
    BY <1>2
  <1> HIDE DEF same, first
  <1> QED BY <1>1, <1>3, <1>4, <1>5

LEMMA NextOnBus ==
  ASSUME BusInv, [Next]_vars
  PROVE  CollectRight' /\ BusStep
  <1>1. ASSUME NEW t \in Threads, Push(t) PROVE CollectRight' /\ BusStep
    BY <1>1, PushOnBus
  <1>2. ASSUME NEW t \in Threads, InsidePush(t) PROVE CollectRight' /\ BusStep
    BY <1>2, LockOnBus, TakeOnBus, EraseOnBus, RecurseOnBus, UnlockOnBus, InvokeOnBus,
       CallbackReturnsOnBus, ReturnOnBus DEF InsidePush
  <1>3. ASSUME NEW t \in Threads, NEW l \in Listeners, Ask(t, "register", l) \/ Ask(t, "deregister", l)
        PROVE  CollectRight' /\ BusStep
    BY <1>3, AskOnBus
  <1>4. ASSUME NEW t \in Threads, NEW l \in Listeners, Register(t, l) \/ Deregister(t, l)
        PROVE  CollectRight' /\ BusStep
    BY <1>4, RegisterOnBus, DeregisterOnBus
  <1>5. ASSUME NEW l \in Listeners \ dead, Die(l) PROVE CollectRight' /\ BusStep
    BY <1>5, DieOnBus
  <1>6. CASE UNCHANGED vars
    BY <1>6, OutsidePushes DEF vars, BusStep
  <1> QED BY <1>1, <1>2, <1>3, <1>4, <1>5, <1>6 DEF Next

LEMMA InitOnBus == Init => Bus!Init /\ CollectRight
  <1> SUFFICES ASSUME Init PROVE Bus!Init /\ CollectRight
    OBVIOUS
  <1>1. Due(<<>>) = <<>> /\ Collected(<<>>) = <<>>
    BY DEF Due, Collected
  <1>2. due = [t \in Threads |-> <<>>]
    BY <1>1 DEF due, Init
  <1> QED BY <1>2 DEF Init, Bus!Init, CollectRight

\* Every push calls the listeners of one instant, in the order in which they
\* registered, for any threads, listeners, array size and depth of recursion and
\* re-entry (comment "execute FIFO traversal!").
THEOREM EventsReachTheirListeners == Spec => RefinesEventBus
  <1>1. Init => BusInv /\ Bus!Init
    BY InitRight, InitOnBus DEF BusInv
  <1>2. BusInv /\ [Next]_vars => BusInv' /\ [Bus!Next]_(Bus!vars)
    BY NextRight, NextOnBus DEF BusInv, BusStep, Bus!vars
  <1> QED BY <1>1, <1>2, PTL DEF Spec, RefinesEventBus, Bus!Spec
=============================================================================
