---------------------------- MODULE ExpiringCache ----------------------------
(***************************************************************************)
(* The payload store of the ignition server at the grain of its lock: the  *)
(* HTTP handlers and the reconciler call Get, Set and Delete concurrently. *)
(* Set, Delete and the lookup of Get hold the RWMutex; the garbage         *)
(* collection at the start of every Get walks the map without it and takes *)
(* it only to delete an entry it found expired.                            *)
(*                                                                         *)
(* A Go program that writes a map while another goroutine ranges over it   *)
(* either goes on or is aborted by the runtime; Crash is the second case,  *)
(* after which the container starts again with an empty store.             *)
(***************************************************************************)
EXTENDS Integers

CONSTANTS Threads,   \* goroutines that use the store
          Keys,      \* tokens
          ttl,       \* in ticks, not 0
          MaxTime    \* bound on the clock

VARIABLES now,
          cache,   \* expiry of the entry of each key, Absent if there is none
          lock,    \* the goroutine that holds the lock for writing, or Free
          th       \* per goroutine: the call in progress

vars == <<now, cache, lock, th>>

Absent == -1
Free == "free"
NoKey == "none"

\* "gc": ranging over the map; "gcDelete", "set", "delete": about to write key
\* victim or key; "read": about to look key up.
Calls == [pc : {"idle", "gc", "gcDelete", "read", "set", "delete"},
          key : Keys \cup {NoKey}, victim : Keys \cup {NoKey},
          todo : SUBSET Keys, start : 0..MaxTime]
Idle == [pc |-> "idle", key |-> NoKey, victim |-> NoKey, todo |-> {}, start |-> 0]

Init ==
    /\ now = 0
    /\ cache = [k \in Keys |-> Absent]
    /\ lock = Free
    /\ th = [t \in Threads |-> Idle]

----------------------------------------------------------------------------
Present == {k \in Keys : cache[k] # Absent}

Expired(k) == now > cache[k]

\* The Get in progress, at another step of its collection.
GetAt(get, pc, todo, victim) ==
    [pc |-> pc, key |-> get.key, victim |-> victim, todo |-> todo, start |-> get.start]

CallGet(t, k) ==
    /\ th[t].pc = "idle"
    /\ th' = [th EXCEPT ![t] = [pc |-> "gc", key |-> k, victim |-> NoKey,
                                todo |-> Present, start |-> now]]
    /\ UNCHANGED <<now, cache, lock>>

\* Mutant: a live entry is visited again and again.
GcVisitAgain(t, k) ==
    /\ th[t].pc = "gc"
    /\ k \in th[t].todo
    /\ th' = [th EXCEPT ![t] =
         IF k \in Present /\ Expired(k)
         THEN GetAt(th[t], "gcDelete", th[t].todo \ {k}, k) ELSE th[t]]
    /\ UNCHANGED <<now, cache, lock>>

\* One round of garbageCollect's loop; an entry deleted meanwhile is not visited.
GcVisit(t, k) ==
    /\ th[t].pc = "gc"
    /\ k \in th[t].todo
    /\ th' = [th EXCEPT ![t] =
         IF k \in Present /\ Expired(k)
         THEN GetAt(th[t], "gcDelete", th[t].todo \ {k}, k)
         ELSE GetAt(th[t], "gc", th[t].todo \ {k}, NoKey)]
    /\ UNCHANGED <<now, cache, lock>>

GcDone(t) ==
    /\ th[t].pc = "gc"
    /\ th[t].todo = {}
    /\ th' = [th EXCEPT ![t] = GetAt(th[t], "read", {}, NoKey)]
    /\ UNCHANGED <<now, cache, lock>>

\* The lookup, under the read lock.
Read(t) ==
    /\ th[t].pc = "read"
    /\ lock = Free
    /\ th' = [th EXCEPT ![t] = Idle]
    /\ UNCHANGED <<now, cache, lock>>

Writing(pc, k) == [pc |-> pc, key |-> k, victim |-> NoKey, todo |-> {}, start |-> 0]

CallSet(t, k) ==
    /\ th[t].pc = "idle"
    /\ th' = [th EXCEPT ![t] = Writing("set", k)]
    /\ UNCHANGED <<now, cache, lock>>

CallDelete(t, k) ==
    /\ th[t].pc = "idle"
    /\ th' = [th EXCEPT ![t] = Writing("delete", k)]
    /\ UNCHANGED <<now, cache, lock>>

Acquire(t) ==
    /\ th[t].pc \in {"set", "delete", "gcDelete"}
    /\ lock = Free
    /\ lock' = t
    /\ UNCHANGED <<now, cache, th>>

WriteSet(t) ==
    /\ lock = t
    /\ th[t].pc = "set"
    /\ cache' = [cache EXCEPT ![th[t].key] = now + ttl]
    /\ th' = [th EXCEPT ![t] = Idle]
    /\ lock' = Free
    /\ UNCHANGED now

WriteDelete(t) ==
    /\ lock = t
    /\ th[t].pc = "delete"
    /\ cache' = [cache EXCEPT ![th[t].key] = Absent]
    /\ th' = [th EXCEPT ![t] = Idle]
    /\ lock' = Free
    /\ UNCHANGED now

\* Mutant: the victim of the collection is the key that is looked up.
WriteGcDeleteKey(t) ==
    /\ lock = t
    /\ th[t].pc = "gcDelete"
    /\ cache' = [cache EXCEPT ![th[t].key] = Absent]
    /\ th' = [th EXCEPT ![t] = GetAt(th[t], "gc", th[t].todo, NoKey)]
    /\ lock' = Free
    /\ UNCHANGED now

\* Delete as garbageCollect calls it; then the loop goes on.
WriteGcDelete(t) ==
    /\ lock = t
    /\ th[t].pc = "gcDelete"
    /\ cache' = [cache EXCEPT ![th[t].victim] = Absent]
    /\ th' = [th EXCEPT ![t] = GetAt(th[t], "gc", th[t].todo, NoKey)]
    /\ lock' = Free
    /\ UNCHANGED now

Crash(t) ==
    /\ th[t].pc = "gc"
    /\ lock # Free
    /\ cache' = [k \in Keys |-> Absent]
    /\ th' = [u \in Threads |-> Idle]
    /\ lock' = Free
    /\ UNCHANGED now

Tick ==
    /\ now < MaxTime
    /\ now' = now + 1
    /\ UNCHANGED <<cache, lock, th>>

----------------------------------------------------------------------------
Collect(t) == GcDone(t) \/ \E k \in Keys : GcVisit(t, k)
Write(t) == WriteSet(t) \/ WriteDelete(t) \/ WriteGcDelete(t)
Call(t) == \E k \in Keys : CallGet(t, k) \/ CallSet(t, k) \/ CallDelete(t, k)

Next ==
    \/ Tick
    \/ \E t \in Threads : Call(t) \/ Collect(t) \/ Read(t) \/ Acquire(t) \/ Write(t) \/ Crash(t)

Spec == Init /\ [][Next]_vars

\* Goroutines run, and a sync.RWMutex starves neither readers nor writers.
Fairness ==
    \A t \in Threads : /\ WF_vars(Collect(t)) /\ WF_vars(Write(t))
                       /\ SF_vars(Read(t)) /\ SF_vars(Acquire(t))

FairSpec == Spec /\ Fairness

----------------------------------------------------------------------------
(* Properties *)

\* Every variable holds a value of its type.
TypeOK ==
    /\ now \in 0..MaxTime
    /\ cache \in [Keys -> {Absent} \cup (0..(MaxTime + ttl))]
    /\ lock \in Threads \cup {Free}
    /\ th \in [Threads -> Calls]

\* When Get looks its key up, every entry that had expired when it was called is
\* gone, whatever the other goroutines did: no stale payload is served.
GetCollects ==
    \A t \in Threads : th[t].pc = "read" =>
        \A k \in Present : cache[k] >= th[t].start

\* Every call returns.
CallsReturn ==
    \A t \in Threads : th[t].pc # "idle" ~> th[t].pc = "idle"
=============================================================================
