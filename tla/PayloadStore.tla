----------------------------- MODULE PayloadStore -----------------------------
(***************************************************************************)
(* The PayloadStore of one replica of the ignition server, as the          *)
(* ExpiringCache it is: the goroutines that serve payloads and the one     *)
(* that reconciles token Secrets share it.  Its state has names of its     *)
(* own, so that the store can stand beside IgnitionTokens, where the       *)
(* calls of a replica are atomic.                                          *)
(***************************************************************************)
EXTENDS Integers

CONSTANTS Goroutines, \* the handlers and the reconciler
          StoreKeys,  \* tokens
          Lifetime,   \* ttl of an entry
          Ticks       \* bound on the clock

ASSUME LifetimeAssumption == Lifetime \in Nat \ {0}
ASSUME TicksAssumption == Ticks \in Nat

VARIABLES clock, store, mutex, calls

Store == INSTANCE ExpiringCache WITH Threads <- Goroutines, Keys <- StoreKeys, ttl <- Lifetime,
    MaxTime <- Ticks, now <- clock, cache <- store, lock <- mutex, th <- calls

StoreSpec == Store!Spec
FairStore == Store!FairSpec

\* When Get looks its key up, every entry that had expired when it was called is
\* gone, although garbageCollect walks the map without the lock.
GetCollects == Store!GetCollects

\* Every Get, Set and Delete returns.
CallsReturn == Store!CallsReturn
=============================================================================
