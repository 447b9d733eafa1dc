-------------------------- MODULE AsyncCacheProofs --------------------------
(***************************************************************************)
(* Proofs about AsyncCache for any number of keys, calls, lock objects and *)
(* any max_size.                                                           *)
(***************************************************************************)
EXTENDS AsyncCache, SequenceTheorems, TLAPS

(* Sequences without repetition: the store and the queues are such. *)

LEMMA SequenceMembers ==
    ASSUME NEW S, NEW s \in Seq(S)
    PROVE  /\ \A y : y \in Range(s) <=> \E i \in 1..Len(s) : s[i] = y
           /\ IsInjective(s) <=> \A i, j \in 1..Len(s) : s[i] = s[j] => i = j
           /\ Len(s) \in Nat
<1>1. DOMAIN s = 1..Len(s) /\ Len(s) \in Nat
  OBVIOUS
<1>2. \A y : y \in Range(s) <=> \E i \in 1..Len(s) : s[i] = y
  BY <1>1, Zenon DEF Range
<1>3. IsInjective(s) <=> \A i, j \in 1..Len(s) : s[i] = s[j] => i = j
  BY <1>1, Zenon DEF IsInjective
<1> QED BY <1>1, <1>2, <1>3

\* Taking an element out of a sequence (the store's pop, a waiter's cancellation).
LEMMA WithoutProperties ==
    ASSUME NEW S, NEW s \in Seq(S), IsInjective(s), NEW x
    PROVE  /\ Without(s, x) \in Seq(S)
           /\ Range(Without(s, x)) = Range(s) \ {x}
           /\ IsInjective(Without(s, x))
           /\ x \in Range(s) => Len(Without(s, x)) = Len(s) - 1
           /\ x \notin Range(s) => Without(s, x) = s
<1> DEFINE p == Place(s, x)
           w == Without(s, x)
<1>1. CASE x \in Range(s)
  <2>1. p \in 1..Len(s) /\ s[p] = x
    BY <1>1 DEF Place, Range
  <2>2. w = SubSeq(s, 1, p - 1) \o SubSeq(s, p + 1, Len(s))
    BY <1>1 DEF Without, RemoveAt
  <2> DEFINE u == SubSeq(s, 1, p - 1)
             v == SubSeq(s, p + 1, Len(s))
  <2> HIDE DEF p, w
  <2>3. /\ u \in Seq(S) /\ Len(u) = p - 1
        /\ \A i \in 1..(p - 1) : u[i] = s[i]
    BY <2>1, SubSeqProperties
  <2>4. /\ v \in Seq(S) /\ Len(v) = Len(s) - p
        /\ \A i \in 1..(Len(s) - p) : v[i] = s[p + i]
    BY <2>1, SubSeqProperties
  <2> HIDE DEF u, v
  <2>5. w = u \o v
    BY <2>2 DEF u, v
  <2>6. w \in Seq(S) /\ Len(w) = Len(s) - 1
    <3>1. u \o v \in Seq(S) /\ Len(u \o v) = Len(u) + Len(v)
      BY <2>3, <2>4, ConcatProperties
    <3> QED BY <2>1, <2>3, <2>4, <2>5, <3>1
  <2>7. \A i \in 1..Len(w) : w[i] = IF i < p THEN s[i] ELSE s[i + 1]
    <3>1. TAKE i \in 1..Len(w)
    <3>2. w[i] = IF i <= p - 1 THEN u[i] ELSE v[i - (p - 1)]
      <4>1. \A j \in 1..(Len(u) + Len(v)) :
               (u \o v)[j] = IF j <= Len(u) THEN u[j] ELSE v[j - Len(u)]
        BY <2>3, <2>4, ConcatProperties
      <4>2. i \in 1..(Len(u) + Len(v))
        BY <2>1, <2>3, <2>4, <2>6
      <4> QED BY <2>3, <2>5, <4>1, <4>2
    <3>3. CASE i < p
      BY <2>1, <2>3, <3>2, <3>3
    <3>4. CASE i >= p
      <4>1. i - (p - 1) \in 1..(Len(s) - p) /\ p + (i - (p - 1)) = i + 1
        BY <2>1, <2>6, <3>4
      <4> QED BY <2>1, <2>4, <3>2, <3>4, <4>1
    <3> QED BY <2>1, <3>3, <3>4
  <2>8. /\ \A y : y \in Range(w) <=> \E i \in 1..Len(w) : w[i] = y
        /\ IsInjective(w) <=> \A i, j \in 1..Len(w) : w[i] = w[j] => i = j
    BY <2>6, SequenceMembers
  <2>9. /\ \A y : y \in Range(s) <=> \E i \in 1..Len(s) : s[i] = y
        /\ \A i, j \in 1..Len(s) : s[i] = s[j] => i = j
    BY SequenceMembers
  <2>10. IsInjective(w)
    <3>1. SUFFICES ASSUME NEW i \in 1..Len(w), NEW j \in 1..Len(w), w[i] = w[j]
                   PROVE  i = j
      BY <2>8
    <3> QED BY <2>1, <2>6, <2>7, <2>9, <3>1
  <2>11. ASSUME NEW y \in Range(w)
        PROVE  y \in Range(s) \ {x}
    <3>1. PICK i \in 1..Len(w) : w[i] = y
      BY <2>8
    <3>2. CASE i < p
      BY <2>1, <2>6, <2>7, <2>9, <3>1, <3>2
    <3>3. CASE i >= p
      <4>1. i + 1 \in 1..Len(s) /\ s[i + 1] = y
        BY <2>1, <2>6, <2>7, <3>1, <3>3
      <4> QED BY <2>1, <2>9, <3>3, <4>1
    <3> QED BY <2>1, <3>1, <3>2, <3>3
  <2>12. ASSUME NEW y \in Range(s) \ {x}
        PROVE  y \in Range(w)
    <3>1. PICK i \in 1..Len(s) : s[i] = y
      BY <2>9
    <3>2. CASE i < p
      BY <2>1, <2>6, <2>7, <2>8, <3>1, <3>2
    <3>3. CASE i > p
      <4>1. i - 1 \in 1..Len(w) /\ w[i - 1] = s[i]
        BY <2>1, <2>6, <2>7, <3>1, <3>3
      <4> QED BY <2>8, <3>1, <4>1
    <3> QED BY <2>1, <3>1, <3>2, <3>3
  <2>13. Range(w) = Range(s) \ {x}
    BY <2>11, <2>12
  <2> QED BY <1>1, <2>6, <2>10, <2>13 DEF w
<1>2. CASE x \notin Range(s)
  BY <1>2 DEF Without
<1> QED BY <1>1, <1>2

\* Putting a new element last.
LEMMA AppendNew ==
    ASSUME NEW S, NEW s \in Seq(S), IsInjective(s), NEW x \in S, x \notin Range(s)
    PROVE  /\ Append(s, x) \in Seq(S)
           /\ Len(Append(s, x)) = Len(s) + 1
           /\ Range(Append(s, x)) = Range(s) \cup {x}
           /\ IsInjective(Append(s, x))
<1> DEFINE a == Append(s, x)
<1>1. a \in Seq(S) /\ Len(a) = Len(s) + 1
  OBVIOUS
<1>2. /\ \A i \in 1..Len(s) : a[i] = s[i]
      /\ a[Len(s) + 1] = x
  OBVIOUS
<1> HIDE DEF a
<1>3. /\ \A y : y \in Range(a) <=> \E i \in 1..Len(a) : a[i] = y
      /\ IsInjective(a) <=> \A i, j \in 1..Len(a) : a[i] = a[j] => i = j
  BY <1>1, SequenceMembers
<1>4. /\ \A y : y \in Range(s) <=> \E i \in 1..Len(s) : s[i] = y
      /\ \A i, j \in 1..Len(s) : s[i] = s[j] => i = j
      /\ Len(s) \in Nat
  BY SequenceMembers
<1>5. \A y : y \in Range(a) <=> y \in Range(s) \/ y = x
  BY <1>1, <1>2, <1>3, <1>4
<1>6. Range(a) = Range(s) \cup {x}
  BY <1>5
<1>7. IsInjective(a)
  BY <1>1, <1>2, <1>3, <1>4
<1> QED BY <1>1, <1>6, <1>7 DEF a

\* Taking the first element off.
LEMMA TailWithoutHead ==
    ASSUME NEW S, NEW s \in Seq(S), IsInjective(s), s # <<>>
    PROVE  /\ Tail(s) \in Seq(S)
           /\ Len(Tail(s)) = Len(s) - 1
           /\ Head(s) \in Range(s)
           /\ Range(Tail(s)) = Range(s) \ {Head(s)}
           /\ IsInjective(Tail(s))
<1> DEFINE r == Tail(s)
<1>1. r \in Seq(S) /\ Len(r) = Len(s) - 1 /\ Len(s) >= 1 /\ Len(s) \in Nat
  OBVIOUS
<1>2. Head(s) = s[1] /\ \A i \in 1..Len(r) : r[i] = s[i + 1]
  OBVIOUS
<1>3. /\ \A y : y \in Range(r) <=> \E i \in 1..Len(r) : r[i] = y
      /\ IsInjective(r) <=> \A i, j \in 1..Len(r) : r[i] = r[j] => i = j
  BY <1>1, SequenceMembers
<1>4. /\ \A y : y \in Range(s) <=> \E i \in 1..Len(s) : s[i] = y
      /\ \A i, j \in 1..Len(s) : s[i] = s[j] => i = j
  BY SequenceMembers
<1> HIDE DEF r
<1>5. ASSUME NEW y \in Range(r)
      PROVE  y \in Range(s) \ {Head(s)}
  <2>1. PICK i \in 1..Len(r) : r[i] = y
    BY <1>3
  <2>2. i + 1 \in 1..Len(s) /\ s[i + 1] = y /\ i + 1 # 1 /\ 1 \in 1..Len(s)
    BY <1>1, <1>2, <2>1
  <2> QED BY <1>2, <1>4, <2>2
<1>6. ASSUME NEW y \in Range(s) \ {Head(s)}
      PROVE  y \in Range(r)
  <2>1. PICK i \in 1..Len(s) : s[i] = y
    BY <1>4
  <2>2. i - 1 \in 1..Len(r) /\ r[i - 1] = y
    BY <1>1, <1>2, <2>1
  <2> QED BY <1>3, <2>2
<1>7. Range(r) = Range(s) \ {Head(s)}
  BY <1>5, <1>6
<1>8. IsInjective(r)
  <2>1. SUFFICES ASSUME NEW i \in 1..Len(r), NEW j \in 1..Len(r), r[i] = r[j]
                 PROVE  i = j
    BY <1>3
  <2> QED BY <1>1, <1>2, <1>4, <2>1
<1>9. Head(s) \in Range(s)
  BY <1>1, <1>2, <1>4
<1> QED BY <1>1, <1>7, <1>8, <1>9 DEF r
-----------------------------------------------------------------------------
(* The invariant of the cache's data structures. *)

StoreTyped == store \in Seq(Keys) /\ stale \in SUBSET Keys /\ StoreBounded

\* A key that is looked up or inserted becomes the most recently used one.
LEMMA TouchedProperties ==
    ASSUME StoreTyped, NEW k \in Keys
    PROVE  /\ Touched(k) \in Seq(Keys)
           /\ IsInjective(Touched(k))
           /\ Range(Touched(k)) = Range(store) \cup {k}
           /\ k \in Range(store) => Len(Touched(k)) = Len(store)
           /\ k \notin Range(store) => Len(Touched(k)) = Len(store) + 1
           /\ Touched(k) # <<>>
<1> DEFINE w == Without(store, k)
<1>1. /\ w \in Seq(Keys) /\ IsInjective(w) /\ Range(w) = Range(store) \ {k}
      /\ k \in Range(store) => Len(w) = Len(store) - 1
      /\ k \notin Range(store) => w = store
  BY WithoutProperties DEF StoreTyped, StoreBounded
<1>2. Len(store) \in Nat
  BY DEF StoreTyped
<1>3. Touched(k) = Append(w, k)
  BY DEF Touched
<1> HIDE DEF w
<1>4. /\ Append(w, k) \in Seq(Keys) /\ Len(Append(w, k)) = Len(w) + 1
      /\ Range(Append(w, k)) = Range(w) \cup {k} /\ IsInjective(Append(w, k))
  BY <1>1, AppendNew
<1>5. Range(Touched(k)) = Range(store) \cup {k}
  BY <1>1, <1>3, <1>4
<1>6. Len(w) \in Nat
  BY <1>1
<1>7. Touched(k) # <<>>
  BY <1>3, <1>4, <1>6
<1>8. Len(Touched(k)) = Len(w) + 1
  BY <1>3, <1>4
<1>9. k \in Range(store) => Len(Touched(k)) = Len(store)
  BY <1>1, <1>2, <1>8
<1>10. k \notin Range(store) => Len(Touched(k)) = Len(store) + 1
  BY <1>1, <1>8
<1> QED BY <1>3, <1>4, <1>5, <1>7, <1>9, <1>10

LEMMA LookupKeepsStore ==
    ASSUME StoreTyped, NEW k \in Keys, Lookup(k), MaxSize \in Nat
    PROVE  StoreTyped'
<1>1. CASE Hit(k)
  <2>1. store' = Touched(k) /\ stale' = stale \ {k} /\ k \in Range(store)
    BY <1>1 DEF Lookup, Hit
  <2>2. /\ store' \in Seq(Keys) /\ IsInjective(store')
        /\ Range(store') = Range(store) \cup {k} /\ Len(store') = Len(store)
    BY <2>1, TouchedProperties
  <2> QED BY <2>1, <2>2 DEF StoreTyped, StoreBounded
<1>2. CASE ~Hit(k)
  <2>1. store' = Without(store, k) /\ stale' = stale \ {k}
    BY <1>2 DEF Lookup
  <2>2. /\ store' \in Seq(Keys) /\ IsInjective(store') /\ Range(store') = Range(store) \ {k}
        /\ k \in Range(store) => Len(store') = Len(store) - 1
        /\ k \notin Range(store) => store' = store
    BY <2>1, WithoutProperties DEF StoreTyped, StoreBounded
  <2>3. Len(store') <= MaxSize
    BY <2>2 DEF StoreTyped, StoreBounded
  <2> QED BY <2>1, <2>2, <2>3 DEF StoreTyped, StoreBounded
<1> QED BY <1>1, <1>2

LEMMA InsertKeepsStore ==
    ASSUME StoreTyped, NEW k \in Keys, Insert(k), MaxSize \in Nat
    PROVE  StoreTyped' /\ (dropped \subseteq Keys => dropped' \subseteq Keys)
<1> DEFINE s == Touched(k)
<1>1. /\ s \in Seq(Keys) /\ IsInjective(s) /\ Range(s) = Range(store) \cup {k} /\ s # <<>>
      /\ k \in Range(store) => Len(s) = Len(store)
      /\ k \notin Range(store) => Len(s) = Len(store) + 1
  BY TouchedProperties
<1>2. Len(s) <= MaxSize + 1 /\ Len(s) \in Nat /\ Len(store) \in Nat
  BY <1>1 DEF StoreTyped, StoreBounded
<1>3. stale \subseteq Range(store)
  BY DEF StoreTyped, StoreBounded
<1>4. CASE Len(s) <= MaxSize
  <2>1. store' = s /\ stale' = stale \ {k} /\ dropped' = dropped
    BY <1>4 DEF Insert
  <2> HIDE DEF s
  <2> QED BY <1>1, <1>3, <1>4, <2>1 DEF StoreTyped, StoreBounded
<1>5. CASE ~(Len(s) <= MaxSize)
  <2>1. store' = Tail(s) /\ stale' = stale \ {k, Head(s)} /\ dropped' = dropped \cup {Head(s)}
    BY <1>5 DEF Insert
  <2> HIDE DEF s
  <2>2. /\ Tail(s) \in Seq(Keys) /\ Len(Tail(s)) = Len(s) - 1
        /\ Head(s) \in Range(s) /\ Range(Tail(s)) = Range(s) \ {Head(s)}
        /\ IsInjective(Tail(s))
    BY <1>1, TailWithoutHead
  <2>3. Len(store') <= MaxSize
    BY <1>2, <2>1, <2>2
  <2>4. Head(s) \in Keys
    BY <1>1
  <2> QED BY <1>1, <1>3, <2>1, <2>2, <2>3, <2>4 DEF StoreTyped, StoreBounded
<1> QED BY <1>4, <1>5

Inv == TypeOK /\ StoreTyped /\ WaitersQueued

\* A call that waits is in its lock's queue, which is then not empty.
LEMMA WaiterInQueue ==
    ASSUME TypeOK, WaitersQueued, NEW c \in Calls, pc[c] = "waiting"
    PROVE  /\ lock[c] \in Locks /\ key[c] \in Keys
           /\ queue[lock[c]] \in Seq(Calls)
           /\ c \in Range(queue[lock[c]])
           /\ queue[lock[c]] # <<>>
<1>1. lock[c] \in Locks /\ key[c] \in Keys
  BY DEF TypeOK
<1>2. queue[lock[c]] \in Seq(Calls) /\ c \in Range(queue[lock[c]])
  BY <1>1 DEF TypeOK, WaitersQueued
<1>3. queue[lock[c]] # <<>>
  BY <1>2, SequenceMembers
<1> QED BY <1>1, <1>2, <1>3

LEMMA InvInit == Init => Inv
<1> SUFFICES ASSUME Init PROVE Inv
  OBVIOUS
<1>1. << >> \in Seq(Keys) /\ << >> \in Seq(Calls) /\ Len(<< >>) = 0
  OBVIOUS
<1>2. Range(<< >>) = {} /\ IsInjective(<< >>)
  BY DEF Range, IsInjective
<1>3. TypeOK
  BY <1>1 DEF Init, TypeOK
<1>4. StoreTyped
  BY <1>1, <1>2, ConstantsAssumption DEF Init, StoreTyped, StoreBounded
<1>5. WaitersQueued
  BY <1>2 DEF Init, WaitersQueued
<1> QED BY <1>3, <1>4, <1>5 DEF Inv

\* A step that touches one call and no queue keeps the queues right, if the call
\* neither waited before nor waits after it.
LEMMA QueuesUntouched ==
    ASSUME TypeOK, WaitersQueued, NEW c \in Calls, pc[c] # "waiting", queue' = queue,
           NEW p \in {"idle", "computing"}, NEW k, NEW l, Become(c, p, k, l)
    PROVE  WaitersQueued'
BY DEF TypeOK, WaitersQueued, Become

LEMMA InvMiss ==
    ASSUME Inv, NEW c \in Calls, NEW k \in Keys, NEW l \in Locks, CallMiss(c, k, l)
    PROVE  Inv'
<1> USE DEF Inv
<1>1. StoreTyped'
  BY LookupKeepsStore, ConstantsAssumption DEF CallMiss
<1>2. CASE Become(c, "computing", k, l) /\ UNCHANGED queue
  <2>1. TypeOK'
    BY <1>1, <1>2 DEF CallMiss, TypeOK, Become, StoreTyped
  <2>2. WaitersQueued'
    BY <1>2, QueuesUntouched DEF CallMiss
  <2> QED BY <1>1, <2>1, <2>2
<1>3. CASE Become(c, "waiting", k, l) /\ queue' = [queue EXCEPT ![l] = Append(@, c)]
  <2>1. queue[l] \in Seq(Calls) /\ IsInjective(queue[l]) /\ c \notin Range(queue[l])
    BY DEF CallMiss, TypeOK, WaitersQueued
  <2>2. /\ queue'[l] = Append(queue[l], c)
        /\ \A m \in Locks : m # l => queue'[m] = queue[m]
    BY <1>3 DEF TypeOK
  <2>3. /\ queue'[l] \in Seq(Calls) /\ Range(queue'[l]) = Range(queue[l]) \cup {c}
        /\ IsInjective(queue'[l])
    BY <2>1, <2>2, AppendNew
  <2>4. queue' \in [Locks -> Seq(Calls)]
    BY <1>3, <2>1 DEF TypeOK
  <2>5. TypeOK'
    BY <1>1, <1>3, <2>4 DEF CallMiss, TypeOK, Become, StoreTyped
  <2>6. WaitersQueued'
    BY <1>3, <2>2, <2>3 DEF CallMiss, TypeOK, WaitersQueued, Become
  <2> QED BY <1>1, <2>5, <2>6
<1> QED BY <1>2, <1>3 DEF CallMiss

LEMMA InvAcquire ==
    ASSUME Inv, NEW c \in Calls, Acquire(c)
    PROVE  Inv'
<1> USE DEF Inv
<1> DEFINE l == lock[c]
<1>1. /\ l \in Locks /\ key[c] \in Keys /\ queue[l] \in Seq(Calls) /\ queue[l] # <<>>
      /\ IsInjective(queue[l]) /\ pc[c] = "waiting" /\ Head(queue[l]) = c
  BY WaiterInQueue DEF Acquire, WaitersQueued, TypeOK
<1>2. StoreTyped'
  BY <1>1, LookupKeepsStore, ConstantsAssumption DEF Acquire
<1>3. /\ Tail(queue[l]) \in Seq(Calls) /\ IsInjective(Tail(queue[l]))
      /\ Range(Tail(queue[l])) = Range(queue[l]) \ {c}
  BY <1>1, TailWithoutHead
<1>4. queue' = [queue EXCEPT ![l] = Tail(queue[l])] /\ UNCHANGED <<keyLocks, dropped>>
  BY DEF Acquire
<1>5. Become(c, "idle", None, None) \/ Become(c, "computing", key[c], l)
  BY DEF Acquire, Return
<1>6. queue' \in [Locks -> Seq(Calls)]
  BY <1>3, <1>4 DEF TypeOK
<1>7. TypeOK'
  BY <1>1, <1>2, <1>4, <1>5, <1>6 DEF TypeOK, Become, StoreTyped
<1>8. pc' = [pc EXCEPT ![c] = pc'[c]] /\ lock' = [lock EXCEPT ![c] = lock'[c]]
      /\ pc'[c] # "waiting"
  BY <1>5 DEF Become, TypeOK
<1> HIDE DEF l
<1>9. WaitersQueued'
  BY <1>1, <1>3, <1>4, <1>8 DEF TypeOK, WaitersQueued, l
<1> QED BY <1>2, <1>7, <1>9

LEMMA InvCancel ==
    ASSUME Inv, NEW c \in Calls, CancelWaiting(c)
    PROVE  Inv'
<1> USE DEF Inv
<1> DEFINE l == lock[c]
           q == Without(queue[l], c)
<1>1. l \in Locks /\ queue[l] \in Seq(Calls) /\ IsInjective(queue[l]) /\ pc[c] = "waiting"
  BY WaiterInQueue DEF CancelWaiting, WaitersQueued, TypeOK
<1>2. q \in Seq(Calls) /\ IsInjective(q) /\ Range(q) = Range(queue[l]) \ {c}
  BY <1>1, WithoutProperties
<1>3. queue' = [queue EXCEPT ![l] = q] /\ UNCHANGED <<keyLocks, store, stale, dropped>>
  BY DEF CancelWaiting
<1>4. Become(c, "idle", None, None)
  BY DEF CancelWaiting, Return
<1> HIDE DEF q
<1>5. queue' \in [Locks -> Seq(Calls)]
  BY <1>2, <1>3 DEF TypeOK
<1>6. TypeOK'
  BY <1>3, <1>4, <1>5 DEF TypeOK, Become
<1>7. StoreTyped'
  BY <1>3 DEF StoreTyped, StoreBounded
<1>8. WaitersQueued'
  BY <1>1, <1>2, <1>3, <1>4 DEF TypeOK, WaitersQueued, Become
<1> QED BY <1>6, <1>7, <1>8

LEMMA InvStep == Inv /\ [Next]_vars => Inv'
<1> SUFFICES ASSUME Inv, [Next]_vars PROVE Inv'
  OBVIOUS
<1> USE DEF Inv
<1>1. ASSUME NEW c \in Calls, NEW k \in Keys, CallHit(c, k)
      PROVE  Inv'
  <2>1. StoreTyped'
    BY <1>1, LookupKeepsStore, ConstantsAssumption DEF CallHit
  <2> QED BY <1>1, <2>1 DEF CallHit, calls, TypeOK, StoreTyped, WaitersQueued
<1>2. ASSUME NEW c \in Calls, NEW k \in Keys, NEW l \in Locks, CallMiss(c, k, l)
      PROVE  Inv'
  BY <1>2, InvMiss
<1>3. ASSUME NEW c \in Calls, Acquire(c)
      PROVE  Inv'
  BY <1>3, InvAcquire
<1>4. ASSUME NEW c \in Calls, ComputeReturns(c)
      PROVE  Inv'
  <2>1. key[c] \in Keys /\ pc[c] # "waiting"
    BY <1>4 DEF ComputeReturns, TypeOK
  <2>2. StoreTyped' /\ dropped' \in SUBSET Keys
    BY <1>4, <2>1, InsertKeepsStore, ConstantsAssumption DEF ComputeReturns, TypeOK
  <2>3. Become(c, "idle", None, None) /\ queue' = queue
    BY <1>4 DEF ComputeReturns, Return
  <2>4. keyLocks' \in [Keys -> Locks \cup {None}]
    BY <1>4 DEF ComputeReturns, Insert, TypeOK
  <2>5. TypeOK'
    BY <2>2, <2>3, <2>4 DEF TypeOK, Become, StoreTyped
  <2>6. WaitersQueued'
    BY <2>1, <2>3, QueuesUntouched
  <2> QED BY <2>2, <2>5, <2>6
<1>5. ASSUME NEW c \in Calls, ComputeFails(c)
      PROVE  Inv'
  <2>1. Become(c, "idle", None, None) /\ queue' = queue /\ pc[c] # "waiting"
        /\ UNCHANGED <<keyLocks, store, stale, dropped>>
    BY <1>5 DEF ComputeFails, Return
  <2>2. WaitersQueued'
    BY <2>1, QueuesUntouched
  <2>3. TypeOK'
    BY <2>1 DEF TypeOK, Become
  <2>4. StoreTyped'
    BY <2>1 DEF StoreTyped, StoreBounded
  <2> QED BY <2>2, <2>3, <2>4
<1>6. ASSUME NEW c \in Calls, CancelWaiting(c)
      PROVE  Inv'
  BY <1>6, InvCancel
<1>7. ASSUME NEW k \in Keys, Expire(k)
      PROVE  Inv'
  BY <1>7 DEF Expire, Hit, calls, TypeOK, StoreTyped, StoreBounded, WaitersQueued
<1>8. CASE UNCHANGED vars
  BY <1>8 DEF vars, TypeOK, StoreTyped, StoreBounded, WaitersQueued
<1> QED BY <1>1, <1>2, <1>3, <1>4, <1>5, <1>6, <1>7, <1>8 DEF Next

LEMMA CacheInvariant == Spec => []Inv
BY InvInit, InvStep, PTL DEF Spec

\* The types of the cache's state.
THEOREM TypeCorrect == Spec => []TypeOK
BY CacheInvariant, PTL DEF Inv

\* The store never exceeds max_size and never holds a key twice (cache.py:50-55).
THEOREM StoreStaysBounded == Spec => []StoreBounded
<1>1. Inv => StoreBounded
  BY DEF Inv, StoreTyped
<1> QED BY <1>1, CacheInvariant, PTL

\* The calls that wait are just those queued at their lock object, each once, although
\* evictions drop lock objects from the table (cache.py:29-31, 55).
THEOREM WaitersStayQueued == Spec => []WaitersQueued
BY CacheInvariant, PTL DEF Inv
-----------------------------------------------------------------------------
(* Exclusion: a lock object is held by one call, and the calls of a key whose lock was
   never dropped all use the lock object in the table. *)

ExclusionInv ==
    /\ \A c, d \in Calls : pc[c] = "computing" /\ pc[d] = "computing" /\ lock[c] = lock[d]
                           => c = d
    /\ \A c \in Calls : pc[c] # "idle" /\ key[c] \notin dropped
                        => lock[c] = keyLocks[key[c]]

LEMMA ExclusionMiss ==
    ASSUME TypeOK, ExclusionInv, ConstantsAssumption,
           NEW c \in Calls, NEW k \in Keys, NEW l \in Locks, CallMiss(c, k, l)
    PROVE  ExclusionInv'
<1>1. PICK p \in {"computing", "waiting"} :
          Become(c, p, k, l) /\ (p = "computing" => ~Held(l))
  BY DEF CallMiss
<1>2. /\ keyLocks' = [keyLocks EXCEPT ![k] = l] /\ dropped' = dropped
      /\ keyLocks[k] = None \/ keyLocks[k] = l
  BY DEF CallMiss
<1>3. \A d \in Calls : d # c => pc'[d] = pc[d] /\ key'[d] = key[d] /\ lock'[d] = lock[d]
  BY <1>1 DEF Become, TypeOK
<1>4. pc'[c] = p /\ key'[c] = k /\ lock'[c] = l
  BY <1>1 DEF Become, TypeOK
<1>5. ASSUME NEW d \in Calls, d # c, pc'[d] # "idle", key'[d] \notin dropped'
      PROVE  lock'[d] = keyLocks'[key'[d]]
  <2>1. lock[d] = keyLocks[key[d]] /\ lock[d] \in Locks /\ key[d] \in Keys
    BY <1>2, <1>3, <1>5 DEF ExclusionInv, TypeOK
  <2>2. None \notin Locks
    BY DEF ConstantsAssumption
  <2> QED BY <1>2, <1>3, <1>5, <2>1, <2>2 DEF TypeOK
<1>6. lock'[c] = keyLocks'[key'[c]]
  BY <1>2, <1>4 DEF TypeOK
<1>7. ASSUME NEW a \in Calls, NEW b \in Calls, pc'[a] = "computing", pc'[b] = "computing",
             lock'[a] = lock'[b]
      PROVE  a = b
  <2>1. CASE a # c /\ b # c
    BY <1>3, <1>7, <2>1 DEF ExclusionInv
  <2>2. CASE a = c /\ b # c
    BY <1>1, <1>3, <1>4, <1>7, <2>2 DEF Held
  <2>3. CASE a # c /\ b = c
    BY <1>1, <1>3, <1>4, <1>7, <2>3 DEF Held
  <2> QED BY <2>1, <2>2, <2>3
<1> QED BY <1>5, <1>6, <1>7 DEF ExclusionInv

LEMMA ExclusionAcquire ==
    ASSUME TypeOK, ExclusionInv, NEW c \in Calls, Acquire(c)
    PROVE  ExclusionInv'
<1>1. /\ keyLocks' = keyLocks /\ dropped' = dropped
      /\ pc[c] = "waiting" /\ ~Held(lock[c])
  BY DEF Acquire
<1>2. \A d \in Calls : d # c => pc'[d] = pc[d] /\ key'[d] = key[d] /\ lock'[d] = lock[d]
  BY DEF Acquire, Return, Become, TypeOK
<1>3. pc'[c] # "idle" => key'[c] = key[c] /\ lock'[c] = lock[c]
  BY DEF Acquire, Return, Become, TypeOK
<1>4. ASSUME NEW d \in Calls, pc'[d] # "idle", key'[d] \notin dropped'
      PROVE  lock'[d] = keyLocks'[key'[d]]
  BY <1>1, <1>2, <1>3, <1>4 DEF ExclusionInv
<1>5. ASSUME NEW a \in Calls, NEW b \in Calls, pc'[a] = "computing", pc'[b] = "computing",
             lock'[a] = lock'[b]
      PROVE  a = b
  BY <1>1, <1>2, <1>3, <1>5 DEF ExclusionInv, Held
<1> QED BY <1>4, <1>5 DEF ExclusionInv

\* A call that returns, fails or is cancelled lets go of its lock.
LEMMA ExclusionReturn ==
    ASSUME TypeOK, ExclusionInv, NEW c \in Calls, Return(c),
           \/ UNCHANGED <<keyLocks, dropped>>
           \/ \E o : keyLocks' = [keyLocks EXCEPT ![o] = None] /\ dropped' = dropped \cup {o}
    PROVE  ExclusionInv'
<1>1. pc'[c] = "idle"
  BY DEF Return, Become, TypeOK
<1>2. \A d \in Calls : d # c => pc'[d] = pc[d] /\ key'[d] = key[d] /\ lock'[d] = lock[d]
  BY DEF Return, Become, TypeOK
<1>3. ASSUME NEW d \in Calls, pc'[d] # "idle", key'[d] \notin dropped'
      PROVE  lock'[d] = keyLocks'[key'[d]]
  <2>1. key[d] \in Keys /\ key[d] \notin dropped /\ lock[d] = keyLocks[key[d]] /\ d # c
    BY <1>1, <1>2, <1>3 DEF ExclusionInv, TypeOK
  <2> QED BY <1>2, <1>3, <2>1 DEF TypeOK
<1>4. ASSUME NEW a \in Calls, NEW b \in Calls, pc'[a] = "computing", pc'[b] = "computing",
             lock'[a] = lock'[b]
      PROVE  a = b
  BY <1>1, <1>2, <1>4 DEF ExclusionInv
<1> QED BY <1>3, <1>4 DEF ExclusionInv

LEMMA ExclusionStep == TypeOK /\ ExclusionInv /\ [Next]_vars => ExclusionInv'
<1> SUFFICES ASSUME TypeOK, ExclusionInv, [Next]_vars PROVE ExclusionInv'
  OBVIOUS
<1>1. ASSUME NEW c \in Calls, NEW k \in Keys, CallHit(c, k)
      PROVE  ExclusionInv'
  BY <1>1 DEF CallHit, calls, ExclusionInv
<1>2. ASSUME NEW c \in Calls, NEW k \in Keys, NEW l \in Locks, CallMiss(c, k, l)
      PROVE  ExclusionInv'
  BY <1>2, ExclusionMiss, ConstantsAssumption
<1>3. ASSUME NEW c \in Calls, Acquire(c)
      PROVE  ExclusionInv'
  BY <1>3, ExclusionAcquire
<1>4. ASSUME NEW c \in Calls, ComputeReturns(c)
      PROVE  ExclusionInv'
  <2>1. \/ UNCHANGED <<keyLocks, dropped>>
        \/ \E o : keyLocks' = [keyLocks EXCEPT ![o] = None] /\ dropped' = dropped \cup {o}
    BY <1>4 DEF ComputeReturns, Insert
  <2> QED BY <1>4, <2>1, ExclusionReturn DEF ComputeReturns
<1>5. ASSUME NEW c \in Calls, ComputeFails(c) \/ CancelWaiting(c)
      PROVE  ExclusionInv'
  BY <1>5, ExclusionReturn DEF ComputeFails, CancelWaiting
<1>6. ASSUME NEW k \in Keys, Expire(k)
      PROVE  ExclusionInv'
  BY <1>6 DEF Expire, calls, ExclusionInv
<1>7. CASE UNCHANGED vars
  BY <1>7 DEF vars, ExclusionInv
<1> QED BY <1>1, <1>2, <1>3, <1>4, <1>5, <1>6, <1>7 DEF Next

\* Two calls compute the same key together only after an eviction has dropped the key's
\* lock from the table (cache.py:24-37, 55).
THEOREM ExclusionUnlessEvicted == Spec => []NoStampedeUnlessEvicted
<1>1. Init => ExclusionInv
  BY DEF Init, ExclusionInv
<1>2. ExclusionInv => NoStampedeUnlessEvicted
  BY DEF ExclusionInv, NoStampedeUnlessEvicted
<1> QED BY <1>1, <1>2, ExclusionStep, TypeCorrect, PTL DEF Spec
=============================================================================
