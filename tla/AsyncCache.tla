----------------------------- MODULE AsyncCache -----------------------------
(***************************************************************************)
(* AsyncResultCache: the LRU cache with an optional time to live that the  *)
(* chat search keeps of query expansions and embeddings.  A call that      *)
(* misses takes the lock of its key, looks again, computes and inserts.    *)
(*                                                                         *)
(* The code awaits in two places only: for a key lock that is held or      *)
(* waited for, and for the computation.  The guard lock is never contended *)
(* (nothing is awaited under it), so a call runs to one of these two       *)
(* places in one step.  Key locks are objects: dropping one from the table *)
(* does not take it from the calls that hold it or wait for it.            *)
(***************************************************************************)
EXTENDS Naturals, SequencesExt

CONSTANTS Keys,      \* query strings
          Calls,     \* pool of concurrent get_or_compute calls
          Locks,     \* lock objects; an unreferenced one is collected and reused
          None,      \* no key, no lock
          MaxSize    \* max_size

ASSUME ConstantsAssumption == /\ None \notin Keys \cup Locks
                              /\ MaxSize \in Nat

VARIABLES pc,        \* "idle", "waiting" for a lock, or "computing" under it
          key,       \* the key of each call
          lock,      \* the lock object each call waits for or holds
          queue,     \* the calls waiting for each lock object, first come first served
          keyLocks,  \* the table of key locks
          store,     \* the cached keys, least recently used first
          stale,     \* cached keys whose time to live has passed
          dropped    \* keys whose lock an eviction has ever taken from the table

calls == <<pc, key, lock, queue>>
vars == <<pc, key, lock, queue, keyLocks, store, stale, dropped>>

TypeOK ==
    /\ pc \in [Calls -> {"idle", "waiting", "computing"}]
    /\ key \in [Calls -> Keys \cup {None}]
    /\ lock \in [Calls -> Locks \cup {None}]
    /\ queue \in [Locks -> Seq(Calls)]
    /\ keyLocks \in [Keys -> Locks \cup {None}]
    /\ store \in Seq(Keys)
    /\ stale \in SUBSET Keys
    /\ dropped \in SUBSET Keys
    /\ \A c \in Calls : pc[c] # "idle" => key[c] \in Keys /\ lock[c] \in Locks

Init ==
    /\ pc = [c \in Calls |-> "idle"]
    /\ key = [c \in Calls |-> None]
    /\ lock = [c \in Calls |-> None]
    /\ queue = [l \in Locks |-> <<>>]
    /\ keyLocks = [k \in Keys |-> None]
    /\ store = <<>>
    /\ stale = {}
    /\ dropped = {}

\* A sequence that holds x at most once, without x.
Place(s, x) == CHOOSE i \in DOMAIN s : s[i] = x
Without(s, x) == IF x \in Range(s) THEN RemoveAt(s, Place(s, x)) ELSE s

Hit(k) == k \in Range(store) /\ k \notin stale
Touched(k) == Append(Without(store, k), k)

\* _lookup: a hit becomes the most recently used, an expired entry is popped.
Lookup(k) == /\ store' = IF Hit(k) THEN Touched(k) ELSE Without(store, k)
             /\ stale' = stale \ {k}

Held(l) == \E c \in Calls : pc[c] = "computing" /\ lock[c] = l
InUse == {keyLocks[k] : k \in Keys} \cup {lock[c] : c \in Calls}

Become(c, state, k, l) == /\ pc' = [pc EXCEPT ![c] = state]
                          /\ key' = [key EXCEPT ![c] = k]
                          /\ lock' = [lock EXCEPT ![c] = l]
Return(c) == Become(c, "idle", None, None)
-----------------------------------------------------------------------------
\* get_or_compute that is answered from the store at once.
CallHit(c, k) ==
    /\ pc[c] = "idle" /\ Hit(k)
    /\ Lookup(k)
    /\ UNCHANGED <<calls, keyLocks, dropped>>

\* Mutant: every call makes a lock of its own (no setdefault).
CallMissFreshLock(c, k, l) ==
    /\ pc[c] = "idle" /\ ~Hit(k)
    /\ l \notin InUse
    /\ keyLocks' = [keyLocks EXCEPT ![k] = l]
    /\ Lookup(k)
    /\ Become(c, "computing", k, l)
    /\ UNCHANGED <<queue, dropped>>

\* Mutant: the lock goes to the latest caller first.
CallMissNewestFirst(c, k, l) ==
    /\ pc[c] = "idle" /\ ~Hit(k)
    /\ IF keyLocks[k] = None THEN l \notin InUse ELSE l = keyLocks[k]
    /\ keyLocks' = [keyLocks EXCEPT ![k] = l]
    /\ Lookup(k)
    /\ IF ~Held(l) /\ queue[l] = <<>>
       THEN Become(c, "computing", k, l) /\ UNCHANGED queue
       ELSE /\ Become(c, "waiting", k, l)
            /\ queue' = [queue EXCEPT ![l] = <<c>> \o @]
    /\ UNCHANGED dropped

\* get_or_compute that misses: take the key's lock object, a new one if there is none,
\* and compute under it if it is free; otherwise wait behind the others.
CallMiss(c, k, l) ==
    /\ pc[c] = "idle" /\ ~Hit(k)
    /\ IF keyLocks[k] = None THEN l \notin InUse ELSE l = keyLocks[k]
    /\ keyLocks' = [keyLocks EXCEPT ![k] = l]
    /\ Lookup(k)
    /\ IF ~Held(l) /\ queue[l] = <<>>
       THEN Become(c, "computing", k, l) /\ UNCHANGED queue
       ELSE /\ Become(c, "waiting", k, l)
            /\ queue' = [queue EXCEPT ![l] = Append(@, c)]
    /\ UNCHANGED dropped

\* The lock is released to the first call waiting for it, which looks again.
Acquire(c) ==
    LET l == lock[c] IN
    /\ pc[c] = "waiting"
    /\ ~Held(l) /\ Head(queue[l]) = c
    /\ queue' = [queue EXCEPT ![l] = Tail(@)]
    /\ Lookup(key[c])
    /\ IF Hit(key[c]) THEN Return(c) ELSE Become(c, "computing", key[c], l)
    /\ UNCHANGED <<keyLocks, dropped>>

\* _insert: beyond the limit the least recently used entry goes, and its key's lock too.
Insert(k) ==
    LET s == Touched(k)
        oldest == Head(s)
    IN IF Len(s) <= MaxSize
       THEN /\ store' = s
            /\ stale' = stale \ {k}
            /\ UNCHANGED <<keyLocks, dropped>>
       ELSE /\ store' = Tail(s)
            /\ stale' = stale \ {k, oldest}
            /\ keyLocks' = [keyLocks EXCEPT ![oldest] = None]
            /\ dropped' = dropped \cup {oldest}

ComputeReturns(c) ==
    /\ pc[c] = "computing"
    /\ Insert(key[c])
    /\ Return(c)
    /\ UNCHANGED queue

\* The computation raises or is cancelled: the lock is released, nothing is stored.
ComputeFails(c) ==
    /\ pc[c] = "computing"
    /\ Return(c)
    /\ UNCHANGED <<queue, keyLocks, store, stale, dropped>>

\* Mutant: a cancelled call stays in the queue.
CancelStaysQueued(c) ==
    /\ pc[c] = "waiting"
    /\ Return(c)
    /\ UNCHANGED <<queue, keyLocks, store, stale, dropped>>

\* A call is cancelled while it waits (the client went away).
CancelWaiting(c) ==
    /\ pc[c] = "waiting"
    /\ queue' = [queue EXCEPT ![lock[c]] = Without(@, c)]
    /\ Return(c)
    /\ UNCHANGED <<keyLocks, store, stale, dropped>>

Expire(k) ==
    /\ Hit(k)
    /\ stale' = stale \cup {k}
    /\ UNCHANGED <<calls, keyLocks, store, dropped>>
-----------------------------------------------------------------------------
Next ==
    \/ \E c \in Calls, k \in Keys : CallHit(c, k) \/ \E l \in Locks : CallMiss(c, k, l)
    \/ \E c \in Calls : \/ Acquire(c) \/ ComputeReturns(c) \/ ComputeFails(c)
                        \/ CancelWaiting(c)
    \/ \E k \in Keys : Expire(k)

Spec == Init /\ [][Next]_vars

\* A woken waiter runs, and computations return or raise.
FairSpec == Spec /\ \A c \in Calls : WF_vars(Acquire(c))
                                     /\ WF_vars(ComputeReturns(c) \/ ComputeFails(c))
-----------------------------------------------------------------------------
(* Properties *)

\* Two calls never compute the same key at the same time (cache.py:14), as long as no
\* eviction has taken the key's lock from the table (cache.py:55).
NoStampedeUnlessEvicted == \A c, d \in Calls :
    pc[c] = "computing" /\ pc[d] = "computing" /\ key[c] = key[d]
    /\ key[c] \notin dropped => c = d

\* The store holds each key once, at most max_size of them, and only those can be stale.
StoreBounded == /\ Len(store) <= MaxSize
                /\ IsInjective(store)
                /\ stale \subseteq Range(store)

\* A waiting call is queued once, at the lock object it waits for, and nobody else is;
\* so no wake-up is lost when its key's lock leaves the table.
WaitersQueued ==
    /\ \A c \in Calls, l \in Locks :
          c \in Range(queue[l]) <=> pc[c] = "waiting" /\ lock[c] = l
    /\ \A l \in Locks : IsInjective(queue[l])

\* Every call that waits for a lock gets on: it computes, finds the result or is gone.
WaitersServed == \A c \in Calls : pc[c] = "waiting" ~> pc[c] # "waiting"
=============================================================================
