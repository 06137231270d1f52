--------------------------- MODULE InPlaceUpgrade ---------------------------
(***************************************************************************)
(* The in-place upgrade of a NodePool: the NodePool controller             *)
(* (hypershift-operator) requests it through annotations of a MachineSet,  *)
(* the in-place upgrader (hosted-cluster-config-operator) rolls it over    *)
(* the Nodes of the hosted cluster, the drainer controller performs the    *)
(* cordon / drain / uncordon requests, and the machine-config-daemon (MCD, *)
(* external) running in a pod on every updating Node applies the config.   *)
(*                                                                         *)
(* A config version is a hash; annotations that are absent hold NoHash.    *)
(* Every write of the upgrader to the API server is a step of its own, so  *)
(* that the other actors run in between and an error or a restart can      *)
(* strike anywhere.  The upgrader and the drainer read Nodes through an    *)
(* informer cache: with StaleReads it lags behind the API server.          *)
(***************************************************************************)
EXTENDS Integers, FiniteSets, Sequences, FiniteSetsExt

CONSTANTS Nodes,            \* Nodes of the pool
          History,          \* the config versions the NodePool's spec goes through
          MaxUnavailable,   \* spec.management.inPlace.maxUnavailable and spec.replicas
          StaleReads,       \* the informer cache of Nodes may lag
          MaxAborts,        \* bound on failed or interrupted reconciles
          MaxDegrades,      \* bound on MCD failures
          NoHash            \* an absent annotation

Hashes == {History[i] : i \in 1..Len(History)}

ASSUME NodesAssumption == IsFiniteSet(Nodes) /\ Nodes # {}
ASSUME HistoryAssumption == Len(History) \in Nat \ {0} /\ DOMAIN History = 1..Len(History)
ASSUME NoHashAssumption == NoHash \notin Hashes
ASSUME BoundsAssumption == MaxAborts \in Nat /\ MaxDegrades \in Nat
ASSUME StaleAssumption == StaleReads \in BOOLEAN
ASSUME MaxUnavailableAssumption ==
    MaxUnavailable \in [percent : BOOLEAN, value : Nat, replicas : Nat]

VARIABLES
    spec,       \* index in History of the config the NodePool spec asks for
    npCurrent,  \* NodePool annotation nodePoolCurrentConfigVersion
    npCond,     \* NodePool condition UpdatingConfig: "True", "Failed" or "False"
    ms,         \* the MachineSet: annotations and user-data reference
    payload,    \* config versions whose token Secret carries a payload
    configMap,  \* hash in the upgrade ConfigMap of the hosted cluster
    node,       \* the Nodes as the API server stores them
    nodeCache,  \* the Nodes as the informer cache shows them
    boot,       \* the config version the Nodes booted with
    pod,        \* MCD pod of each Node: "none" or "running"
    upg,        \* the upgrader's reconcile in progress
    drainer,    \* per Node: the verb the drainer has performed and not yet acknowledged
    aborts, degrades

vars == <<spec, npCurrent, npCond, ms, payload, configMap, node, nodeCache,
          boot, pod, upg, drainer, aborts, degrades>>
poolVars == <<spec, npCurrent, npCond, boot>>

----------------------------------------------------------------------------
(* Data *)

States == {"", "Working", "Done", "Degraded"}
NoRequest == [verb |-> "none", hash |-> NoHash]
Requests == [verb : {"drain", "uncordon"}, hash : Hashes \cup {NoHash}] \cup {NoRequest}
NodeRecords == [current : Hashes \cup {NoHash}, desired : Hashes \cup {NoHash},
                state : States, desiredDrain : Requests,
                lastAppliedDrain : Requests, unschedulable : BOOLEAN]

FreshNode == [current |-> NoHash, desired |-> NoHash, state |-> "",
              desiredDrain |-> NoRequest, lastAppliedDrain |-> NoRequest,
              unschedulable |-> FALSE]

\* A reconcile of the upgrader: where it is, the target it read, the Nodes as it
\* listed them, and the Nodes the loop it is in has still to visit.
Phases == {"idle", "complete", "degraded", "progress", "manifests", "desired",
           "desiredThenPanic", "pods"}
Reconciles == [pc : Phases, target : Hashes \cup {NoHash},
               view : [Nodes -> NodeRecords], todo : SUBSET Nodes]
Idle == [pc |-> "idle", target |-> NoHash, view |-> [n \in Nodes |-> FreshNode], todo |-> {}]

Hash == History[spec]

----------------------------------------------------------------------------
(* Pure functions of the controllers *)

\* The scaled, floored and at least 1 bound that reconcileMachineSet writes
\* in the nodePoolMaxUnavailable annotation.
getInPlaceMaxUnavailable ==
    LET scaled == IF MaxUnavailable.percent
                  THEN (MaxUnavailable.value * MaxUnavailable.replicas) \div 100
                  ELSE MaxUnavailable.value
    IN  IF scaled = 0 THEN 1 ELSE scaled

\* Nodes of a view that are updating: current and desired config differ.
Updating(view) == {n \in Nodes : view[n].current # view[n].desired}

getCapacityIgnoringUpdating(view) == getInPlaceMaxUnavailable
getCapacity(view) == getInPlaceMaxUnavailable - Cardinality(Updating(view))

\* Nodes that neither target the config nor have an update in progress.
Candidates(view, target) ==
    {n \in Nodes : view[n].desired # target /\ view[n].current = view[n].desired}

getNoUnavailableCandidates(view, target) == {}
getAlreadyUnavailableCandidates(view, target) ==
    {n \in Nodes : view[n].current # view[n].desired /\ view[n].desired # target}

needsUpgradeByDesired(n, currentVersion, targetVersion) ==
    n.desiredDrain # n.lastAppliedDrain \/ n.desired # targetVersion
needsUpgradeWithoutDrain(n, currentVersion, targetVersion) ==
    n.current # targetVersion \/ n.state # "Done"
nodeNeedsUpgrade(n, currentVersion, targetVersion) ==
    \/ n.desiredDrain # n.lastAppliedDrain
    \/ /\ ~ (n.current = NoHash /\ currentVersion = targetVersion)
       /\ n.current # targetVersion \/ n.state # "Done"

inPlaceUpgradeComplete(view, currentVersion, targetVersion) ==
    \A n \in Nodes : ~ nodeNeedsUpgrade(view[n], currentVersion, targetVersion)

\* The capacity of a Go slice of pointers that append grew to length len from
\* nil: the next power of two.
SliceCap(len) == CHOOSE c \in {2^k : k \in 0..len} : c >= len /\ c < 2 * len

\* candidateNodes[:capacity]: the candidates the code goes on with.  The list
\* comes from an informer cache, in no particular order.  Slicing past the
\* length but within the slice's capacity yields every candidate followed by
\* nil pointers, slicing past its capacity panics at once.
getAvailableCandidates(view, target) ==
    LET capacity == getCapacity(view)
        cand     == Candidates(view, target)
    IN  IF capacity < 1 \/ cand = {} THEN {{}}
        ELSE IF capacity <= Cardinality(cand) THEN kSubset(capacity, cand)
        ELSE IF capacity <= SliceCap(Cardinality(cand)) THEN {cand}
        ELSE {}

\* The slice holds nil pointers: setNodesDesiredConfig dereferences one after
\* the candidates, before the Nodes that are already unavailable.
ReachesNil(view, target) ==
    LET cand == Candidates(view, target)
    IN  cand # {} /\ getCapacity(view) > Cardinality(cand)

----------------------------------------------------------------------------
Init ==
    /\ spec = 1
    /\ npCurrent = NoHash
    /\ npCond = "False"
    /\ ms = [userData |-> NoHash, target |-> NoHash, current |-> NoHash,
             inProgressTrue |-> FALSE, inProgressFalse |-> FALSE]
    /\ payload = {}
    /\ configMap = NoHash
    /\ node = [n \in Nodes |-> FreshNode]
    /\ nodeCache = node
    /\ boot = NoHash
    /\ pod = [n \in Nodes |-> "none"]
    /\ upg = Idle
    /\ drainer = [n \in Nodes |-> "idle"]
    /\ aborts = 0
    /\ degrades = 0

\* Without stale reads the cache follows every write at once.
CacheFollows == nodeCache' = IF StaleReads THEN nodeCache ELSE node'

----------------------------------------------------------------------------
(* The user and the NodePool controller *)

ChangeSpec ==
    /\ spec < Len(History)
    /\ spec' = spec + 1
    /\ UNCHANGED <<npCurrent, npCond, ms, payload, configMap, node, nodeCache,
                   boot, pod, upg, drainer, aborts, degrades>>

\* The UpdatingConfig condition, computed before the MachineSet is reconciled.
updatingConfigCondition ==
    IF npCurrent = Hash THEN "False"
    ELSE IF ms.inProgressFalse THEN "Failed" ELSE "True"

\* The MachineSet is pointed at the user data of the current config version; a
\* brand new MachineSet starts at it.
ProposeTarget ==
    [ms EXCEPT !.userData = Hash, !.target = Hash,
               !.current = IF @ = NoHash THEN Hash ELSE @]

NodePoolReconcile ==
    /\ npCond' = updatingConfigCondition
    /\ \/ /\ ms.userData # Hash
          /\ ms' = ProposeTarget
          /\ boot' = IF ms.current = NoHash THEN Hash ELSE boot
          /\ UNCHANGED npCurrent
       \/ /\ ms.userData = Hash
          /\ npCurrent' = IF ms.current = ms.target THEN Hash ELSE npCurrent
          /\ UNCHANGED <<ms, boot>>
    /\ UNCHANGED <<spec, payload, configMap, node, nodeCache, pod, upg, drainer,
                   aborts, degrades>>

\* The ignition server stores the payload in the token Secret of the target.
PayloadGenerated ==
    /\ ms.target \in Hashes \ payload
    /\ payload' = payload \cup {ms.target}
    /\ UNCHANGED <<poolVars, ms, configMap, node, nodeCache, pod, upg, drainer,
                   aborts, degrades>>

----------------------------------------------------------------------------
(* The in-place upgrader: one reconcile, write by write *)

UpgraderVarsUnchanged == UNCHANGED <<poolVars, payload, drainer, degrades>>

UpgraderReconcile ==
    /\ upg.pc = "idle"
    /\ ms.target # NoHash
    /\ ms.target # ms.current
    /\ ms.target \in payload
    /\ upg' = [pc |-> IF inPlaceUpgradeComplete(nodeCache, ms.current, ms.target)
                      THEN "complete"
                      ELSE IF \E n \in Nodes : nodeCache[n].state = "Degraded"
                      THEN "degraded" ELSE "progress",
               target |-> ms.target, view |-> nodeCache, todo |-> Nodes]
    /\ UNCHANGED <<ms, configMap, node, nodeCache, pod, aborts>>
    /\ UpgraderVarsUnchanged

\* deleteUpgradeManifests, then the annotation that signals completion.
DeletePod(n) ==
    /\ upg.pc = "complete"
    /\ n \in upg.todo
    /\ pod' = [pod EXCEPT ![n] = "none"]
    /\ upg' = [upg EXCEPT !.todo = @ \ {n}]
    /\ UNCHANGED <<ms, configMap, node, nodeCache, aborts>>
    /\ UpgraderVarsUnchanged

SignalComplete ==
    /\ upg.pc = "complete"
    /\ upg.todo = {}
    /\ ms' = [ms EXCEPT !.current = upg.target, !.inProgressTrue = FALSE,
                        !.inProgressFalse = FALSE]
    /\ upg' = Idle
    /\ UNCHANGED <<configMap, node, nodeCache, pod, aborts>>
    /\ UpgraderVarsUnchanged

SignalDegraded ==
    /\ upg.pc = "degraded"
    /\ ms' = [ms EXCEPT !.inProgressTrue = FALSE, !.inProgressFalse = TRUE]
    /\ upg' = Idle
    /\ UNCHANGED <<configMap, node, nodeCache, pod, aborts>>
    /\ UpgraderVarsUnchanged

SignalProgress ==
    /\ upg.pc = "progress"
    /\ ms' = [ms EXCEPT !.inProgressTrue = TRUE, !.inProgressFalse = FALSE]
    /\ upg' = [upg EXCEPT !.pc = "manifests"]
    /\ UNCHANGED <<configMap, node, nodeCache, pod, aborts>>
    /\ UpgraderVarsUnchanged

\* The ConfigMap with the payload, then the choice of the Nodes to upgrade.
\* A slice out of range panics; the panic is recovered as a reconcile error.
ReconcileManifests ==
    /\ upg.pc = "manifests"
    /\ configMap' = upg.target
    /\ \/ /\ getAvailableCandidates(upg.view, upg.target) = {}
          /\ upg' = Idle
       \/ \E S \in getAvailableCandidates(upg.view, upg.target) :
            upg' = IF ReachesNil(upg.view, upg.target)
                   THEN [upg EXCEPT !.pc = "desiredThenPanic", !.todo = S]
                   ELSE [upg EXCEPT !.pc = "desired",
                                    !.todo = S \cup getAlreadyUnavailableCandidates(
                                                      upg.view, upg.target)]
    /\ UNCHANGED <<ms, node, nodeCache, pod, aborts>>
    /\ UpgraderVarsUnchanged

\* setNodesDesiredConfig on one Node: the available candidates come first.
SetDesired(n) ==
    /\ upg.pc \in {"desired", "desiredThenPanic"}
    /\ n \in upg.todo
    /\ n \in Updating(upg.view) => upg.todo \subseteq Updating(upg.view)
    /\ nodeCache[n] = node[n]
    /\ node' = [node EXCEPT ![n].desired = upg.target]
    /\ CacheFollows
    /\ upg' = [upg EXCEPT !.todo = @ \ {n}, !.view[n] = node'[n]]
    /\ UNCHANGED <<ms, configMap, pod, aborts>>
    /\ UpgraderVarsUnchanged

\* The object read from the cache is outdated: the update is refused.
SetDesiredConflict(n) ==
    /\ upg.pc \in {"desired", "desiredThenPanic"}
    /\ n \in upg.todo
    /\ nodeCache[n] # node[n]
    /\ upg' = Idle
    /\ UNCHANGED <<ms, configMap, node, nodeCache, pod, aborts>>
    /\ UpgraderVarsUnchanged

DesiredDone ==
    /\ upg.pc \in {"desired", "desiredThenPanic"}
    /\ upg.todo = {}
    /\ upg' = IF upg.pc = "desired" THEN [upg EXCEPT !.pc = "pods", !.todo = Nodes]
              ELSE Idle
    /\ UNCHANGED <<ms, configMap, node, nodeCache, pod, aborts>>
    /\ UpgraderVarsUnchanged

\* reconcileUpgradePods on one Node: a settled Node needs no MCD.
Settled(n) == n.current = n.desired /\ n.desiredDrain = n.lastAppliedDrain

ReconcilePod(n) ==
    /\ upg.pc = "pods"
    /\ n \in upg.todo
    /\ pod' = [pod EXCEPT ![n] = IF Settled(upg.view[n]) THEN "none" ELSE "running"]
    /\ upg' = IF upg.todo = {n} THEN Idle ELSE [upg EXCEPT !.todo = @ \ {n}]
    /\ UNCHANGED <<ms, configMap, node, nodeCache, aborts>>
    /\ UpgraderVarsUnchanged

\* A request to the API server fails, or the operator restarts.
UpgraderAborts ==
    /\ upg.pc # "idle"
    /\ aborts < MaxAborts
    /\ aborts' = aborts + 1
    /\ upg' = Idle
    /\ UNCHANGED <<ms, configMap, node, nodeCache, pod>>
    /\ UpgraderVarsUnchanged

----------------------------------------------------------------------------
(* The drainer controller *)

DrainerVarsUnchanged ==
    UNCHANGED <<poolVars, ms, payload, configMap, pod, upg, degrades>>

\* Mutants: a handler without its guard, and one that forgets the cordon.
HandleDrainUnguarded(n) ==
    /\ drainer[n] = "idle"
    /\ drainer' = [drainer EXCEPT ![n] = nodeCache[n].desiredDrain.verb]
    /\ UNCHANGED <<node, nodeCache, aborts>>
    /\ DrainerVarsUnchanged
HandleDrainWithoutCordon(n) ==
    /\ nodeCache[n].desiredDrain # nodeCache[n].lastAppliedDrain
    /\ HandleDrainUnguarded(n)

\* The cordon or uncordon, and the drain, of the request read from the cache.
\* RunCordonOrUncordon leaves a Node alone that it sees in the wanted state.
\* Any other verb is an error and changes nothing.
HandleDrainRequest(n) ==
    /\ drainer[n] = "idle"
    /\ nodeCache[n].desiredDrain # nodeCache[n].lastAppliedDrain
    /\ nodeCache[n].desiredDrain.verb \in {"drain", "uncordon"}
    /\ LET cordon == nodeCache[n].desiredDrain.verb = "drain" IN
       node' = IF nodeCache[n].unschedulable = cordon THEN node
               ELSE [node EXCEPT ![n].unschedulable = cordon]
    /\ CacheFollows
    /\ drainer' = [drainer EXCEPT ![n] = nodeCache[n].desiredDrain.verb]
    /\ UNCHANGED aborts
    /\ DrainerVarsUnchanged

\* CreateOrUpdate reads the Node again and copies the request it finds.
AcknowledgeDrain(n) ==
    /\ drainer[n] # "idle"
    /\ nodeCache[n] = node[n]
    /\ node' = [node EXCEPT ![n].lastAppliedDrain = node[n].desiredDrain]
    /\ CacheFollows
    /\ drainer' = [drainer EXCEPT ![n] = "idle"]
    /\ UNCHANGED aborts
    /\ DrainerVarsUnchanged

AcknowledgeConflict(n) ==
    /\ drainer[n] # "idle"
    /\ nodeCache[n] # node[n]
    /\ drainer' = [drainer EXCEPT ![n] = "idle"]
    /\ UNCHANGED <<node, nodeCache, aborts>>
    /\ DrainerVarsUnchanged

\* The drain fails or times out after the cordon; it is retried.
DrainFails(n) ==
    /\ drainer[n] = "drain"
    /\ aborts < MaxAborts
    /\ aborts' = aborts + 1
    /\ drainer' = [drainer EXCEPT ![n] = "idle"]
    /\ UNCHANGED <<node, nodeCache>>
    /\ DrainerVarsUnchanged

----------------------------------------------------------------------------
(* The machine-config-daemon in its pod (external) *)

MCDVarsUnchanged ==
    UNCHANGED <<poolVars, ms, payload, configMap, pod, upg, drainer, aborts>>

\* The daemon has an update to make: the ConfigMap mounted in its pod must be
\* the config the Node's annotation names, or it waits.
MCDActive(n) ==
    /\ pod[n] = "running"
    /\ node[n].current # node[n].desired
    /\ configMap = node[n].desired

MCDRequestDrain(n) ==
    LET request == [verb |-> "drain", hash |-> node[n].desired] IN
    /\ MCDActive(n)
    /\ node[n].state # "Degraded"
    /\ node[n].desiredDrain # request
    /\ node' = [node EXCEPT ![n].desiredDrain = request, ![n].state = "Working"]
    /\ CacheFollows
    /\ UNCHANGED degrades
    /\ MCDVarsUnchanged

\* Once the drain is acknowledged: apply the config, reboot, report the new
\* config and ask to be uncordoned.
MCDUpdate(n) ==
    /\ MCDActive(n)
    /\ node[n].state # "Degraded"
    /\ node[n].desiredDrain = [verb |-> "drain", hash |-> node[n].desired]
    /\ node[n].lastAppliedDrain = node[n].desiredDrain
    /\ node' = [node EXCEPT ![n].current = node[n].desired, ![n].state = "Done",
                            ![n].desiredDrain = [verb |-> "uncordon", hash |-> node[n].desired]]
    /\ CacheFollows
    /\ UNCHANGED degrades
    /\ MCDVarsUnchanged

MCDDegrades(n) ==
    /\ MCDActive(n)
    /\ node[n].state # "Degraded"
    /\ degrades < MaxDegrades
    /\ degrades' = degrades + 1
    /\ node' = [node EXCEPT ![n].state = "Degraded"]
    /\ CacheFollows
    /\ MCDVarsUnchanged

\* The daemon keeps retrying and recovers.
MCDRecovers(n) ==
    /\ pod[n] = "running"
    /\ node[n].state = "Degraded"
    /\ node' = [node EXCEPT ![n].state = "Working"]
    /\ CacheFollows
    /\ UNCHANGED degrades
    /\ MCDVarsUnchanged

\* A watch event brings the informer cache up to date with one Node.
CacheSync(n) ==
    /\ nodeCache[n] # node[n]
    /\ nodeCache' = [nodeCache EXCEPT ![n] = node[n]]
    /\ UNCHANGED <<poolVars, ms, payload, configMap, node, pod, upg, drainer,
                   aborts, degrades>>

----------------------------------------------------------------------------
UpgraderStep ==
    \/ UpgraderReconcile \/ SignalComplete \/ SignalDegraded \/ SignalProgress
    \/ ReconcileManifests \/ DesiredDone
    \/ \E n \in Nodes : DeletePod(n) \/ SetDesired(n) \/ SetDesiredConflict(n)
                        \/ ReconcilePod(n)

DrainerStep(n) == HandleDrainRequest(n) \/ AcknowledgeDrain(n) \/ AcknowledgeConflict(n)

MCDStep(n) == MCDRequestDrain(n) \/ MCDUpdate(n) \/ MCDRecovers(n)

Next ==
    \/ ChangeSpec \/ NodePoolReconcile \/ PayloadGenerated
    \/ UpgraderStep \/ UpgraderAborts
    \/ \E n \in Nodes : DrainerStep(n) \/ DrainFails(n) \/ MCDStep(n)
                        \/ MCDDegrades(n) \/ CacheSync(n)

Spec == Init /\ [][Next]_vars

\* Controllers reconcile while there is work (watches, requeues and retries),
\* the daemon makes progress in a running pod, watch events arrive.
Fairness ==
    /\ WF_vars(NodePoolReconcile) /\ WF_vars(PayloadGenerated) /\ WF_vars(UpgraderStep)
    /\ \A n \in Nodes : WF_vars(DrainerStep(n)) /\ WF_vars(MCDStep(n)) /\ WF_vars(CacheSync(n))

FairSpec == Spec /\ Fairness

----------------------------------------------------------------------------
(* Properties *)

\* Every variable holds a value of its type.
TypeOK ==
    /\ spec \in 1..Len(History)
    /\ npCurrent \in Hashes \cup {NoHash}
    /\ npCond \in {"True", "Failed", "False"}
    /\ ms \in [userData : Hashes \cup {NoHash}, target : Hashes \cup {NoHash},
               current : Hashes \cup {NoHash}, inProgressTrue : BOOLEAN,
               inProgressFalse : BOOLEAN]
    /\ payload \subseteq Hashes
    /\ configMap \in Hashes \cup {NoHash}
    /\ node \in [Nodes -> NodeRecords]
    /\ nodeCache \in [Nodes -> NodeRecords]
    /\ boot \in Hashes \cup {NoHash}
    /\ pod \in [Nodes -> {"none", "running"}]
    /\ upg \in Reconciles
    /\ drainer \in [Nodes -> {"idle", "drain", "uncordon"}]
    /\ aborts \in 0..MaxAborts
    /\ degrades \in 0..MaxDegrades

\* No more Nodes are taken out of service by an upgrade at one time than the
\* nodePoolMaxUnavailable annotation allows, however many configs pile up and
\* wherever a reconcile is interrupted (getCapacity).
MaxUnavailableRespected == Cardinality(Updating(node)) <= getInPlaceMaxUnavailable

\* A Node runs config h: the daemon reported it, or the Node was never
\* upgraded and booted with it.
Runs(n, h) == node[n].current = h \/ (node[n].current = NoHash /\ h = boot)

\* When the NodePool controller records the rollout of a config as complete,
\* every Node runs that config (machineSetInPlaceRolloutIsComplete trusts the
\* annotations the upgrader exchanges with it).
CompleteMeansUpgraded ==
    (npCurrent = Hash /\ npCond = "False") => \A n \in Nodes : Runs(n, Hash)

\* The upgrader moves the MachineSet's current version only when every Node
\* reports that version and its daemon is done, although it decides on a view
\* of the Nodes that may be outdated when it writes (inPlaceUpgradeComplete).
CompletionSound ==
    [][ms'.current # ms.current /\ ms.current # NoHash =>
         \A n \in Nodes : node[n].current = ms'.current /\ node[n].state = "Done"]_vars

\* No Node is still cordoned when the upgrader signals completion (the drain
\* check of nodeNeedsUpgrade: "last node not yet cordoned").
BackInService ==
    [][ms'.current # ms.current /\ ms.current # NoHash =>
         \A n \in Nodes : ~ node[n].unschedulable]_vars

\* Within one rollout the daemon changes the config of a Node (and reboots it)
\* only while the Node is cordoned: the acknowledgement of a drain is never for
\* a request that was not performed.  (When a second change overtakes the first
\* the drainer may acknowledge the next drain for the uncordon it performed.)
DrainedBeforeUpdate ==
    [][spec <= 2 =>
         \A n \in Nodes : node'[n].current # node[n].current => node[n].unschedulable]_vars

\* The daemon pod of a Node is never removed while the Node is updating.
PodStaysWhileUpdating ==
    [][\A n \in Nodes : (pod[n] = "running" /\ pod'[n] = "none")
         => node[n].current = node[n].desired]_vars

\* Every rollout ends: the NodePool reports completion, every Node runs the
\* requested config and is schedulable, and no daemon pod is left.
UpgradeCompletes ==
    <>[](/\ npCurrent = Hash /\ npCond = "False"
         /\ \A n \in Nodes : Runs(n, Hash) /\ ~ node[n].unschedulable /\ pod[n] = "none")
=============================================================================
