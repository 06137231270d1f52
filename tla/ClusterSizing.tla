---------------------------- MODULE ClusterSizing ----------------------------
(***************************************************************************)
(* The hosted cluster sizing controller: it gives every HostedCluster a    *)
(* t-shirt size, waits a delay before a cluster changes size, and limits   *)
(* how many clusters change size within a sliding window.                  *)
(*                                                                         *)
(* Its only memory is in the HostedCluster: the size label, and three      *)
(* conditions with their transition times.  It runs on watch events, on    *)
(* the timer a reconcile asks for (RequeueAfter; the work queue keeps the  *)
(* earliest one), on the periodic resync of the informers, and on every    *)
(* cluster when it starts.                                                 *)
(*                                                                         *)
(* A time is represented by its age, capped at MaxAge, so that the clock   *)
(* runs forever.  Reconciles take seconds: time passes when none is due.   *)
(***************************************************************************)
EXTENDS Integers, FiniteSets, FiniteSetsExt, Sequences, SequencesExt

CONSTANTS Clusters,
          NewClusters,   \* clusters without a size or a scheduled control plane
          Classes,       \* spec.sizes: the node counts [from, to] of each size class
          Inputs,        \* what determines the size of a cluster (see sizeClass)
          StartInput,    \* the input of every cluster at the start
          Limit, Window, \* spec.concurrency
          Increase, Decrease,   \* spec.transitionDelay
          Resync,        \* resync period of the informers
          StaleReads,    \* the informer cache may lag
          MaxChanges,    \* bound on the changes of the clusters' inputs
          MaxRestarts    \* bound on restarts of the operator

ASSUME ClustersAssumption == IsFiniteSet(Clusters) /\ NewClusters \subseteq Clusters
ASSUME ClassesAssumption == Classes \in Seq([from : Nat, to : Nat]) /\ Classes # <<>>
ASSUME InputsAssumption == StartInput \in Inputs
ASSUME ConfigAssumption ==
    Limit \in Nat \ {0} /\ Window \in Nat \ {0} /\ Increase \in Nat /\ Decrease \in Nat
ASSUME ResyncAssumption == Resync \in Nat \ {0} /\ StaleReads \in BOOLEAN
ASSUME BoundsAssumption == MaxChanges \in Nat /\ MaxRestarts \in Nat

VARIABLES
    hc,        \* the HostedClusters as the API server stores them
    cache,     \* the HostedClusters as the informer cache shows them
    input,     \* the annotations, node counts and state that determine its size
    queue,     \* clusters in the work queue
    timer,     \* ticks until a cluster is queued again, Never if no timer is set
    clock,     \* ticks since the last resync
    changes, restarts

vars == <<hc, cache, input, queue, timer, clock, changes, restarts>>

----------------------------------------------------------------------------
(* Data *)

Sizes == DOMAIN Classes
None == 0
NoClass == -1   \* no size class is found, or the node count cannot be trusted
Missing == -1   \* an object or name that does not exist

MaxAge == Window + Increase + Decrease
Ages == 0..MaxAge
Never == -1

\* ClusterSizeTransitionPending: False, or its reason and what its message tells.
NotPending == [reason |-> "none", detail |-> 0]
Pendings == [reason : {"none", "delay", "limit"}, detail : 0..(Cardinality(Clusters) + Increase + Decrease)]

\* ClusterSizeComputed (computed, at) and ClusterSizeTransitionRequired
\* (required, reqAge) with the ages of their transition times.
HostedClusters == [computed : Sizes \cup {None}, at : Ages,
                   required : Sizes \cup {None}, reqAge : Ages,
                   pending : Pendings, label : Sizes \cup {None}, scheduled : BOOLEAN]

Sized == [computed |-> 1, at |-> MaxAge, required |-> None, reqAge |-> 0,
          pending |-> NotPending, label |-> 1, scheduled |-> TRUE]
Unsized == [computed |-> None, at |-> 0, required |-> None, reqAge |-> 0,
            pending |-> NotPending, label |-> None, scheduled |-> FALSE]

----------------------------------------------------------------------------
(* The decision of a reconcile, on the cluster v it read and the size s *)

\* The replicas of all NodePools: from status for autoscaled ones.
replicas == [i \in Inputs |->
    FoldSeq(LAMBDA p, n : n + (IF p.autoscaled THEN p.status ELSE p.spec), 0, i.pools)]

\* determineNodeCount: the count the HCCO reports in the HostedControlPlane, or
\* the replicas of the NodePools, which for autoscaled ones cannot be trusted
\* while the API server of a cluster that has a size is down.
determineNodeCount(v, i) ==
    IF i.hccoReports THEN i.hcp
    ELSE IF \E p \in 1..Len(i.pools) : i.pools[p].autoscaled /\ ~ i.kas /\ v.label # None
         THEN Missing
         ELSE replicas[i]

Matching(n) == {s \in Sizes : Classes[s].from <= n /\ n <= Classes[s].to}

\* The size a cluster v should have: the override, the recommendation of the
\* autoscaler, or the (last) class of its node count.
sizeClass(v, i) ==
    CASE i.override # None -> IF i.override \in Sizes THEN i.override ELSE NoClass
      [] i.override = None /\ i.autoscaling -> IF i.recommended \in Sizes THEN i.recommended ELSE 1
      [] OTHER -> Max(Matching(determineNodeCount(v, i)) \cup {NoClass})

\* The clusters that are there at the start have the size their input asks for.
ASSUME StartAssumption == sizeClass(Sized, StartInput) \in {1, NoClass}

minimumSize(size) == IF size = None THEN 0 ELSE Classes[size].from

delay(v, s) == IF minimumSize(v.label) < Classes[s].from THEN Increase ELSE Decrease

\* r.now().Sub(delayStart)
elapsed(v, s) == IF v.required = s THEN v.reqAge
                 ELSE IF v.computed # None THEN v.at ELSE MaxAge

\* transitionsWithinSlidingWindow: the clusters, and the ticks until they change.
withinWindow == {c \in Clusters : cache[c].computed # None /\ cache[c].at < Window}
durationUntilChanges == Window - Max({cache[c].at : c \in withinWindow} \cup {0})

\* Mutant: one too many.
limitExceeded(v) == v.scheduled /\ Cardinality(withinWindow) > Limit
limitReached(v) == v.scheduled /\ Cardinality(withinWindow) >= Limit

\* applyCfgFor: a condition that is there already keeps its transition time.
Waiting(v, s, reason, detail) ==
    [v EXCEPT !.pending = [reason |-> reason, detail |-> detail],
              !.required = s, !.reqAge = IF v.required = s THEN v.reqAge ELSE 0]

\* Mutant: the transient conditions stay.
SettledDirty(v) == v
Settled(v) == [v EXCEPT !.pending = NotPending, !.required = None, !.reqAge = 0]

Transitioned(v, s) == [v EXCEPT !.computed = s, !.at = 0,
                                !.pending = NotPending, !.required = None, !.reqAge = 0]

\* The status to apply, given that the label is up to date.
newStatus(v, s) ==
    IF s = NoClass THEN v
    ELSE IF s = v.label THEN Settled(v)
    ELSE IF elapsed(v, s) < delay(v, s) THEN Waiting(v, s, "delay", delay(v, s))
    ELSE IF limitReached(v) THEN Waiting(v, s, "limit", Cardinality(withinWindow))
    ELSE Transitioned(v, s)

requeueAfter(v, s, new) ==
    CASE new # v /\ new.pending.reason = "delay" -> delay(v, s) - elapsed(v, s)
      [] new # v /\ new.pending.reason = "limit" -> durationUntilChanges
      [] OTHER -> Never

\* AddAfter: the earlier of two timers stays.
AddAfter(t, d) == IF d = Never THEN t ELSE IF t = Never \/ d < t THEN d ELSE t

----------------------------------------------------------------------------
Init ==
    /\ hc = [c \in Clusters |-> IF c \in NewClusters THEN Unsized ELSE Sized]
    /\ cache = hc
    /\ input = [c \in Clusters |-> StartInput]
    /\ queue = NewClusters
    /\ timer = [c \in Clusters |-> Never]
    /\ clock = 0
    /\ changes = 0
    /\ restarts = 0

\* A write to a cluster: with a cache that does not lag its event is there at once.
Written(c, new) ==
    /\ hc' = [hc EXCEPT ![c] = new]
    /\ cache' = IF StaleReads THEN cache ELSE hc'
    /\ queue' = IF StaleReads \/ new = hc[c] THEN queue \ {c} ELSE queue

\* A status write leaves the metadata that is stored as it is.
ApplyStatus(stored, new) == [new EXCEPT !.label = stored.label, !.scheduled = stored.scheduled]

\* Nodes come or go, an annotation of the cluster changes, it is paused or resumed.
ChangeInput(c) ==
    /\ changes < MaxChanges
    /\ changes' = changes + 1
    /\ \E i \in Inputs \ {input[c]} : input' = [input EXCEPT ![c] = i]
    /\ queue' = queue \cup {c}
    /\ UNCHANGED <<hc, cache, timer, clock, restarts>>

\* The scheduler places the control plane of a cluster that has a size.
Schedule(c) ==
    /\ ~ hc[c].scheduled
    /\ hc[c].label # None
    /\ hc' = [hc EXCEPT ![c].scheduled = TRUE]
    /\ cache' = IF StaleReads THEN cache ELSE hc'
    /\ queue' = IF StaleReads THEN queue ELSE queue \cup {c}
    /\ UNCHANGED <<input, timer, clock, changes, restarts>>

\* An invalid configuration, or a cluster that is deleted or paused.
ReconcileSkips(c) ==
    /\ c \in queue
    /\ input[c].halted
    /\ queue' = queue \ {c}
    /\ UNCHANGED <<hc, cache, input, timer, clock, changes, restarts>>

\* Mutant: the label is left for a later reconcile.
ReconcileLabelLater(c) ==
    /\ c \in queue
    /\ ~ input[c].halted
    /\ cache[c].label # cache[c].computed
    /\ queue' = queue \ {c}
    /\ UNCHANGED <<hc, cache, input, timer, clock, changes, restarts>>

\* "when we have updated status but have not yet updated the labels, we just
\* need to do that first"
ReconcileLabel(c) ==
    /\ c \in queue
    /\ ~ input[c].halted
    /\ cache[c].label # cache[c].computed
    /\ Written(c, [hc[c] EXCEPT !.label = cache[c].computed])
    /\ UNCHANGED <<input, timer, clock, changes, restarts>>

\* All the conditions this controller manages are applied as they were read,
\* but for the ones it changes.
ReconcileStatus(c) ==
    LET v == cache[c]
        s == sizeClass(v, input[c])
        new == newStatus(v, s)
    IN  /\ c \in queue
        /\ ~ input[c].halted
        /\ v.label = v.computed
        /\ IF new = v THEN queue' = queue \ {c} /\ UNCHANGED <<hc, cache>>
           ELSE Written(c, ApplyStatus(hc[c], new))
        /\ timer' = [timer EXCEPT ![c] = AddAfter(@, requeueAfter(v, s, new))]
        /\ UNCHANGED <<input, clock, changes, restarts>>

\* A watch event.
CacheSync(c) ==
    /\ cache[c] # hc[c]
    /\ cache' = [cache EXCEPT ![c] = hc[c]]
    /\ queue' = queue \cup {c}
    /\ UNCHANGED <<hc, input, timer, clock, changes, restarts>>

\* Timers are lost; every cluster is listed and queued.
Restart ==
    /\ restarts < MaxRestarts
    /\ restarts' = restarts + 1
    /\ queue' = Clusters
    /\ timer' = [c \in Clusters |-> Never]
    /\ cache' = hc
    /\ UNCHANGED <<hc, input, clock, changes>>

Older(a) == IF a < MaxAge THEN a + 1 ELSE a
OlderCluster(v) ==
    [v EXCEPT !.at = IF v.computed = None THEN 0 ELSE Older(v.at),
              !.reqAge = IF v.required = None THEN 0 ELSE Older(v.reqAge)]

Quiet == queue = {} /\ cache = hc

Tick ==
    /\ Quiet
    /\ hc' = [c \in Clusters |-> OlderCluster(hc[c])]
    /\ cache' = hc'
    /\ clock' = (clock + 1) % Resync
    /\ queue' = IF clock' = 0 THEN Clusters ELSE {c \in Clusters : timer[c] = 1}
    /\ timer' = [c \in Clusters |-> IF timer[c] > 1 THEN timer[c] - 1 ELSE Never]
    /\ UNCHANGED <<input, changes, restarts>>

----------------------------------------------------------------------------
Reconcile(c) == ReconcileSkips(c) \/ ReconcileLabel(c) \/ ReconcileStatus(c)

Next ==
    \/ Tick \/ Restart
    \/ \E c \in Clusters : ChangeInput(c) \/ Schedule(c) \/ Reconcile(c) \/ CacheSync(c)

Spec == Init /\ [][Next]_vars

\* The work queue is served, watch events arrive, time passes.
Fairness ==
    /\ WF_vars(Tick)
    /\ \A c \in Clusters : WF_vars(Reconcile(c)) /\ WF_vars(CacheSync(c))

FairSpec == Spec /\ Fairness

----------------------------------------------------------------------------
(* Properties *)

\* Every variable holds a value of its type.
TypeOK ==
    /\ hc \in [Clusters -> HostedClusters]
    /\ cache \in [Clusters -> HostedClusters]
    /\ input \in [Clusters -> Inputs]
    /\ queue \subseteq Clusters
    /\ timer \in [Clusters -> Nat \cup {Never}]
    /\ clock \in 0..(Resync - 1)
    /\ changes \in 0..MaxChanges /\ restarts \in 0..MaxRestarts

\* No more than Limit clusters that had a control plane from the start changed
\* size within the window (transitionsWithinSlidingWindow).
ClustersWithinLimit ==
    Cardinality({c \in Clusters \ NewClusters : hc[c].computed # None /\ hc[c].at < Window}) <= Limit

\* The status and the label are written in two steps; a cluster whose label is
\* behind is always on its way to another reconcile, wherever the operator
\* restarts.
LabelNotForgotten ==
    \A c \in Clusters : hc[c].label # hc[c].computed /\ ~ input[c].halted =>
        c \in queue \/ cache[c] # hc[c]

\* When the controller rests, the ClusterSizeTransitionRequired condition names
\* the size the cluster is going to, and is False when it has that size.
RequiredIsHonest ==
    Quiet => \A c \in Clusters :
        LET s == sizeClass(hc[c], input[c])
        IN  s \in Sizes /\ ~ input[c].halted =>
                hc[c].required = IF hc[c].label = s THEN None ELSE s

\* The reason TransitionDelayNotElapsed is reported only until the delay has
\* elapsed: a cluster that waits for its delay is woken up when it is over.
DelayReasonTrue ==
    Quiet => \A c \in Clusters :
        hc[c].pending.reason = "delay" => hc[c].reqAge <= hc[c].pending.detail

\* When sizes stop changing, every cluster gets the label of its size and keeps
\* it, whatever delays, limits and restarts come in between.
SizeApplied ==
    <>[](\A c \in Clusters : LET s == sizeClass(hc[c], input[c])
                             IN  s \in Sizes /\ ~ input[c].halted => hc[c].label = s)
=============================================================================
