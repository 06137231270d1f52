--------------------------- MODULE RequestServing ---------------------------
(***************************************************************************)
(* Dedicated request-serving nodes on AWS, in the mode with size tagging:  *)
(* the scheduler-and-sizer, the placeholder creator and updater, the       *)
(* request-serving autoscaler and the MachineSet descaler.                 *)
(*                                                                         *)
(* The five controllers never call one another.  They meet in the labels   *)
(* of Nodes, in one ConfigMap per pair of nodes, in placeholder            *)
(* Deployments and in the replicas of MachineSets, and each acts on what   *)
(* it listed earlier.  A MachineSet owns at most one Node and both are     *)
(* named by the pair label, the size and the zone.  The kube-scheduler,    *)
(* the Deployment controller and the machine API are external.             *)
(***************************************************************************)
EXTENDS Integers, FiniteSets, Sequences

CONSTANTS
    Fleets    \* the management clusters considered

None == "none"
Absent == "absent"
NoPair == 0
Zones == {1, 2}

ASSUME FleetsAssumption ==
    \A f \in Fleets :
        /\ f.pairs \subseteq Nat \ {0} /\ f.deleted \subseteq f.clusters
        /\ f.wanted \in [{f.sizes[i] : i \in DOMAIN f.sizes} -> Nat]
        /\ f.clusters \cap (DOMAIN f.wanted \cup {None, Absent}) = {}   \* names are told apart
        /\ f.resizes \in Nat   \* bound: changes of a HostedCluster's size label
        /\ f.faults \in Nat    \* bound: failed passes and lost Nodes, together
        /\ f.shrinks \in BOOLEAN

VARIABLES
    fleet,     \* pair labels, sizes in configuration order, HostedClusters
    wanted,    \* per size, Management.Placeholders of the configuration
    hc,        \* per HostedCluster, what the controllers read of it
    pairOwner, \* per pair label, the cluster its ConfigMap names
    replicas,  \* per MachineSet, spec.replicas
    node,      \* per MachineSet, its Node: Absent, or the cluster it is labelled for
    doomed,    \* the Nodes whose Machine is being deleted: no later scale-up saves it
    dep,       \* placeholder Deployments and where their pods run
    pass,      \* the writes left to the scheduler's pass
    downs,     \* the MachineSets the descaler's pass is about to scale down
    resizes,
    faults

vars == <<fleet, wanted, hc, pairOwner, replicas, node, doomed, dep, pass, downs, resizes, faults>>

\* fleet.sizes lists the sizes in the order of the configuration.
Sizes == DOMAIN wanted
MachineSets == DOMAIN node
Pair(m) == m[1]
Size(m) == m[2]
Zone(m) == m[3]

\* A Deployment is named by its size and index, or by its HostedCluster.
DeploymentIds == DOMAIN dep
IsPool(d) == d[1] \in Sizes
PoolIds == {d \in DeploymentIds : IsPool(d)}

NoSpec == [size |-> None, pair |-> NoPair, excl |-> {}, n |-> 0]
NoDeployment == [spec |-> NoSpec, on |-> {}]
Exists(d) == dep[d].spec # NoSpec
Template(spec) == <<spec.size, spec.pair, spec.excl>>

\* External: the Deployment controller.  The Recreate strategy deletes the pods of an older
\* template; a change of the replicas alone keeps as many pods as it can.
Deploy(d, spec) ==
    \E keep \in SUBSET dep[d].on :
        /\ IF Template(dep[d].spec) = Template(spec)
           THEN \/ keep = dep[d].on /\ Cardinality(keep) <= spec.n
                \/ Cardinality(keep) = spec.n
           ELSE keep = {}
        /\ dep' = [dep EXCEPT ![d] = [spec |-> spec, on |-> keep]]

IsDeploymentReady(d) ==
    /\ Exists(d)
    /\ Cardinality(dep[d].on) = dep[d].spec.n

Idle == [c |-> None, label |-> {}, lost |-> {}, then |-> <<>>]
Busy(c, nodes, then) == [c |-> c, label |-> nodes, lost |-> {}, then |-> then]

Live(c) == hc[c].phase = "live"
Pairs(S) == {Pair(m) : m \in S}
Present == {m \in MachineSets : node[m] # Absent}
LabelledFor(c) == {m \in MachineSets : node[m] = c}
Labelled == {m \in Present : node[m] # None}
AssignedPairs == {q \in fleet.pairs : pairOwner[q] # None}

Init ==
    /\ fleet \in Fleets
    /\ wanted = fleet.wanted
    /\ hc = [c \in fleet.clusters |-> [phase |-> "absent", holds |-> FALSE, fin |-> FALSE,
                                       size |-> None, selector |-> None]]
    /\ pairOwner = [q \in fleet.pairs |-> None]
    /\ node = [m \in fleet.pairs \X (DOMAIN fleet.wanted) \X Zones |-> Absent]
    /\ replicas = [m \in MachineSets |-> 0]
    /\ doomed = {}
    /\ dep = [d \in (fleet.clusters \X {0})
                  \cup UNION {{s} \X (0 .. fleet.wanted[s] - 1) : s \in DOMAIN fleet.wanted}
               |-> NoDeployment]
    /\ pass = Idle
    /\ downs = {}
    /\ resizes = 0 /\ faults = 0

-----------------------------------------------------------------------------
(* HostedClusters come, change size and go.  "holds" is the finalizer of   *)
(* the HostedCluster controller, "fin" that of the scheduler.              *)

clusterVars == <<fleet, wanted, pairOwner, replicas, node, doomed, dep, pass, downs, faults>>

CreateCluster(c) ==
    /\ hc[c].phase = "absent"
    /\ \E s \in Sizes : hc' = [hc EXCEPT ![c] = [phase |-> "live", holds |-> TRUE, fin |-> FALSE,
                                                 size |-> s, selector |-> None]]
    /\ UNCHANGED <<clusterVars, resizes>>

Resize(c) ==
    /\ Live(c) /\ resizes < fleet.resizes
    /\ \E s \in Sizes \ {hc[c].size} : hc' = [hc EXCEPT ![c].size = s]
    /\ resizes' = resizes + 1
    /\ UNCHANGED clusterVars

DeleteCluster(c) ==
    /\ Live(c) /\ c \in fleet.deleted
    /\ hc' = [hc EXCEPT ![c].phase = "deleting"]
    /\ UNCHANGED <<clusterVars, resizes>>

TornDown(c) ==
    /\ hc[c].phase = "deleting" /\ hc[c].holds
    /\ hc' = [hc EXCEPT ![c].holds = FALSE, ![c].phase = IF hc[c].fin THEN @ ELSE "gone"]
    /\ UNCHANGED <<clusterVars, resizes>>

\* The administrator gives up the placeholders of a size.
DropPlaceholders(s) ==
    /\ fleet.shrinks /\ wanted[s] > 0
    /\ wanted' = [wanted EXCEPT ![s] = @ - 1]
    /\ UNCHANGED <<fleet, hc, pairOwner, replicas, node, doomed, dep, pass, downs, resizes, faults>>

-----------------------------------------------------------------------------
(* DedicatedServingComponentSchedulerAndSizer, one pass at a time.  An     *)
(* action decides what the pass does and makes its first write; the        *)
(* remaining writes are made one by one, each of which may fail.           *)

scheduled == <<fleet, wanted, replicas, doomed, downs, resizes, faults>>

AddFinalizer(c) ==
    /\ pass = Idle
    /\ Live(c) /\ ~hc[c].fin
    /\ hc' = [hc EXCEPT ![c].fin = TRUE]
    /\ UNCHANGED <<pairOwner, node, dep, pass, scheduled>>

CleanUp(c) ==
    /\ pass = Idle
    /\ hc[c].phase = "deleting" /\ hc[c].fin /\ ~hc[c].holds
    /\ pass' = Busy(c, {}, <<"undeploy", "unpair", "release">>)
    /\ UNCHANGED <<hc, pairOwner, node, dep, scheduled>>

\* The pair label of the first Node listed for the cluster, else that of a ConfigMap.
PairLabels(c) ==
    IF LabelledFor(c) # {} THEN Pairs(LabelledFor(c))
    ELSE LET mapped == {q \in fleet.pairs : pairOwner[q] = c}
         IN  IF mapped # {} THEN mapped ELSE {NoPair}

ensurePairConfigMap(q, c) ==
    /\ pairOwner[q] \in {None, c}
    /\ pairOwner' = [pairOwner EXCEPT ![q] = c]

EnsurePair(q, c) == IF q = NoPair THEN UNCHANGED pairOwner ELSE ensurePairConfigMap(q, c)

NeedClusterLabel(c, q) ==
    {m \in MachineSets : node[m] = None /\ Size(m) = hc[c].size /\ Pair(m) = q}

Backfill(c) ==
    /\ pass = Idle
    /\ Live(c) /\ hc[c].fin
    /\ \E q \in PairLabels(c) \ {NoPair} :
        /\ NeedClusterLabel(c, q) # {}
        /\ ensurePairConfigMap(q, c)
        /\ pass' = Busy(c, NeedClusterLabel(c, q), <<>>)
    /\ UNCHANGED <<hc, node, dep, scheduled>>

\* The placeholder Deployments that nodesFromPlaceholders would use.
nodesFromPlaceholders(s) ==
    IF wanted[s] > 0 THEN {d \in PoolIds : d[1] = s /\ IsDeploymentReady(d)} ELSE {}

ClaimPlaceholder(c) ==
    /\ pass = Idle
    /\ Live(c) /\ hc[c].fin
    /\ PairLabels(c) = {NoPair}
    /\ \E d \in nodesFromPlaceholders(hc[c].size) :
        /\ \E m \in dep[d].on : ensurePairConfigMap(Pair(m), c)
        /\ pass' = Busy(c, dep[d].on, <<>>)
    /\ UNCHANGED <<hc, node, dep, scheduled>>

\* The pass has nothing to label or to claim and goes on to place the cluster.
Placing(c, q) ==
    /\ pass = Idle
    /\ Live(c) /\ hc[c].fin
    /\ q \in PairLabels(c)
    /\ IF q = NoPair THEN nodesFromPlaceholders(hc[c].size) = {}
                     ELSE NeedClusterLabel(c, q) = {} /\ pairOwner[q] \in {None, c}

GoalNodes(c, q) == {m \in LabelledFor(c) : Size(m) = hc[c].size /\ Pair(m) = q}
GoalZones(c, q) == {Zone(m) : m \in GoalNodes(c, q)}

Place(c) ==
    /\ \E q \in PairLabels(c) :
        /\ Placing(c, q)
        /\ Cardinality(GoalZones(c, q)) > 1
        /\ EnsurePair(q, c)
    /\ hc' = [hc EXCEPT ![c].selector = hc[c].size]
    /\ pass' = IF Exists(<<c, 0>>) THEN Busy(c, {}, <<"undeploy">>) ELSE Idle
    /\ UNCHANGED <<node, dep, scheduled>>

takenNodePairLabels == Pairs(Labelled)

DesiredSpec(c, q) ==
    [size |-> hc[c].size, pair |-> q,
     excl |-> IF q = NoPair THEN takenNodePairLabels ELSE {},
     n    |-> 2 - Cardinality(GoalZones(c, q))]

ensurePlaceholderDeployment(c) ==
    /\ \E q \in PairLabels(c) :
        /\ Placing(c, q)
        /\ Cardinality(GoalZones(c, q)) < 2
        /\ EnsurePair(q, c)
        /\ dep[<<c, 0>>].spec # DesiredSpec(c, q)
        /\ Deploy(<<c, 0>>, DesiredSpec(c, q))
    /\ UNCHANGED <<hc, node, pass, scheduled>>

\* Mutant of ClaimOwnPlaceholder: the Nodes are labelled without recording their pair.
ClaimUnrecorded(c) ==
    /\ \E q \in PairLabels(c) :
        /\ Placing(c, q)
        /\ Cardinality(GoalZones(c, q)) < 2
        /\ dep[<<c, 0>>].spec = DesiredSpec(c, q)
    /\ IsDeploymentReady(<<c, 0>>)
    /\ pass' = Busy(c, dep[<<c, 0>>].on, <<"undeploy">>)
    /\ UNCHANGED <<hc, pairOwner, node, dep, scheduled>>

ClaimOwnPlaceholder(c) ==
    /\ \E q \in PairLabels(c) :
        /\ Placing(c, q)
        /\ Cardinality(GoalZones(c, q)) < 2
        /\ dep[<<c, 0>>].spec = DesiredSpec(c, q)
        /\ IsDeploymentReady(<<c, 0>>)
    /\ \E m \in dep[<<c, 0>>].on : ensurePairConfigMap(Pair(m), c)
    /\ pass' = Busy(c, dep[<<c, 0>>].on, <<"undeploy">>)
    /\ UNCHANGED <<hc, node, dep, scheduled>>

\* One Node is patched, provided it is still the Node that was read.
ensureHostedClusterLabelAndTaint(m) ==
    /\ pass # Idle /\ m \in pass.label
    /\ IF m \in pass.lost
       THEN pass' = Idle /\ UNCHANGED node
       ELSE /\ node' = [node EXCEPT ![m] = pass.c]
            /\ pass' = IF pass.label = {m} /\ pass.then = <<>> THEN Idle
                       ELSE [pass EXCEPT !.label = @ \ {m}]
    /\ UNCHANGED <<hc, pairOwner, dep, scheduled>>

Then(op) == pass # Idle /\ pass.label = {} /\ Head(pass.then) = op
Advance == pass' = IF Len(pass.then) = 1 THEN Idle ELSE [pass EXCEPT !.then = Tail(@)]

deletePlaceholderDeployment ==
    /\ Then("undeploy")
    /\ dep' = [dep EXCEPT ![<<pass.c, 0>>] = NoDeployment]
    /\ Advance
    /\ UNCHANGED <<hc, pairOwner, node, scheduled>>

deletePairConfigMaps ==
    /\ Then("unpair")
    /\ pairOwner' = [q \in fleet.pairs |-> IF pairOwner[q] = pass.c THEN None ELSE pairOwner[q]]
    /\ Advance
    /\ UNCHANGED <<hc, node, dep, scheduled>>

RemoveFinalizer ==
    /\ Then("release")
    /\ hc' = [hc EXCEPT ![pass.c].fin = FALSE, ![pass.c].phase = "gone"]
    /\ Advance
    /\ UNCHANGED <<pairOwner, node, dep, scheduled>>

\* A write is refused, or the operator restarts: the rest of the pass is lost.
PassFails ==
    /\ pass # Idle /\ faults < fleet.faults
    /\ pass' = Idle
    /\ faults' = faults + 1
    /\ UNCHANGED <<fleet, wanted, hc, pairOwner, replicas, node, doomed, dep, downs, resizes>>

Reconcile(c) ==
    \/ AddFinalizer(c)
    \/ CleanUp(c)
    \/ Backfill(c)
    \/ ClaimPlaceholder(c)
    \/ Place(c)
    \/ ensurePlaceholderDeployment(c)
    \/ ClaimOwnPlaceholder(c)

PassStep ==
    \/ \E m \in MachineSets : ensureHostedClusterLabelAndTaint(m)
    \/ deletePlaceholderDeployment
    \/ deletePairConfigMaps
    \/ RemoveFinalizer

-----------------------------------------------------------------------------
(* PlaceholderScheduler: the creator and the updater.                      *)

pooled == <<fleet, wanted, hc, pairOwner, replicas, node, doomed, pass, downs, resizes, faults>>

PoolSpec(s) == [size |-> s, pair |-> NoPair, excl |-> AssignedPairs, n |-> 2]
Placeholders(s) == {d \in PoolIds : d[1] = s /\ Exists(d)}

\* The creator stops at the first size that wants placeholders.
FirstWanted(s) ==
    \E i \in DOMAIN fleet.sizes :
        /\ fleet.sizes[i] = s /\ wanted[s] # 0
        /\ \A j \in 1 .. i - 1 : wanted[fleet.sizes[j]] = 0

placeholderCreator(s) ==
    /\ FirstWanted(s)
    /\ Cardinality(Placeholders(s)) < wanted[s]
    /\ LET Missing == {i \in 0 .. wanted[s] - 1 : ~Exists(<<s, i>>)}
           missingIndex == CHOOSE i \in Missing : \A j \in Missing : i <= j
       IN  Deploy(<<s, missingIndex>>, PoolSpec(s))
    /\ UNCHANGED pooled

\* Mutant of placeholderUpdater: excess Deployments go, exclusions are never brought up to date.
UpdaterDeletesOnly(d) ==
    /\ IsPool(d) /\ Exists(d)
    /\ d[2] > wanted[d[1]] - 1
    /\ dep' = [dep EXCEPT ![d] = NoDeployment]
    /\ UNCHANGED pooled

placeholderUpdater(d) ==
    /\ IsPool(d) /\ Exists(d)
    /\ IF d[2] > wanted[d[1]] - 1
       THEN dep' = [dep EXCEPT ![d] = NoDeployment]
       ELSE /\ dep[d].spec.excl # AssignedPairs
            /\ Deploy(d, PoolSpec(d[1]))
    /\ UNCHANGED pooled

-----------------------------------------------------------------------------
(* External: the kube-scheduler and the machines behind the MachineSets.   *)

\* The pods of two sizes' placeholders with one index carry the same placeholder label.
SameLabel(d, e) == d = e \/ (IsPool(d) /\ IsPool(e) /\ d[2] = e[2])
PodsLike(d) == UNION {dep[e].on : e \in {f \in DeploymentIds : SameLabel(d, f)}}
PodsUnlike(d) == UNION {dep[e].on : e \in {f \in DeploymentIds : ~SameLabel(d, f)}}

Fits(d, m) ==
    LET r == dep[d].spec IN
    /\ node[m] = None /\ Size(m) = r.size
    /\ r.pair \in {NoPair, Pair(m)} /\ Pair(m) \notin r.excl
    /\ r.pair = NoPair => PodsLike(d) = {} \/ Pair(m) \in Pairs(PodsLike(d))
    /\ \A k \in PodsLike(d) : Zone(k) # Zone(m)
    /\ \A k \in PodsUnlike(d) : Pair(k) # Pair(m)

SchedulePod(d, m) ==
    /\ Exists(d) /\ Cardinality(dep[d].on) < dep[d].spec.n
    /\ Fits(d, m)
    /\ dep' = [dep EXCEPT ![d].on = @ \cup {m}]
    /\ UNCHANGED pooled

NodeUp(m) ==
    /\ replicas[m] = 1 /\ node[m] = Absent
    /\ node' = [node EXCEPT ![m] = None]
    /\ UNCHANGED <<fleet, wanted, hc, pairOwner, replicas, doomed, dep, pass, downs, resizes, faults>>

Vanish(m) ==
    /\ node' = [node EXCEPT ![m] = Absent]
    /\ doomed' = doomed \ {m}
    /\ dep' = [d \in DeploymentIds |-> [dep[d] EXCEPT !.on = @ \ {m}]]
    /\ pass' = IF m \in pass.label THEN [pass EXCEPT !.lost = @ \cup {m}] ELSE pass
    /\ UNCHANGED <<fleet, wanted, hc, pairOwner, replicas, downs, resizes>>

NodeDown(m) ==
    /\ m \in doomed
    /\ Vanish(m)
    /\ UNCHANGED faults

\* The instance of a Node fails and its Machine is replaced.
NodeLost(m) ==
    /\ node[m] # Absent /\ m \notin doomed
    /\ faults < fleet.faults
    /\ faults' = faults + 1
    /\ Vanish(m)

-----------------------------------------------------------------------------
(* RequestServingNodeAutoscaler and MachineSetDescaler.  Each lists the    *)
(* world once, and then writes the scale of its MachineSets one by one.    *)

Pending(d) == Exists(d) /\ Cardinality(dep[d].on) < dep[d].spec.n

\* Mutant of podPairLabel: the node selector is not looked at.
PairOfNodeOnly(d) ==
    IF dep[d].on # {} THEN CHOOSE q \in fleet.pairs : q \in Pairs(dep[d].on) ELSE NoPair

\* podPairLabel of either pod of a Deployment: that of a Node, else of the selector.
podPairLabel(d) ==
    IF dep[d].on # {} THEN CHOOSE q \in fleet.pairs : q \in Pairs(dep[d].on) ELSE dep[d].spec.pair

takenPairLabels == Pairs(Labelled) \cup {podPairLabel(d) : d \in DeploymentIds}

ScaledDown(q, s) == {m \in MachineSets : Pair(m) = q /\ Size(m) = s /\ replicas[m] = 0}

\* What the pending pods with a specific pair label require.
ForPairs ==
    UNION {ScaledDown(podPairLabel(d), dep[d].spec.size) :
              d \in {e \in DeploymentIds : Pending(e) /\ podPairLabel(e) # NoPair}}

\* What the pending pods without one require, for one size.
ForPlaceholders(s) ==
    LET free == fleet.pairs \ takenPairLabels
        count == 2 * Cardinality({d \in DeploymentIds : /\ Pending(d) /\ dep[d].spec.size = s
                                                        /\ podPairLabel(d) = NoPair})
        availableNodes == {m \in Present : Size(m) = s /\ Pair(m) \in free}
        pendingMachineSets == {m \in MachineSets \ Present :
                                 Size(m) = s /\ Pair(m) \in free /\ replicas[m] > 0}
        needed == count - Cardinality(availableNodes) - Cardinality(pendingMachineSets)
        paired == {m \in MachineSets : /\ replicas[m] = 0
                                       /\ \E k \in pendingMachineSets :
                                            m # k /\ Pair(m) = Pair(k) /\ Size(m) = s}
        left == needed - Cardinality(paired)
        \* Pairs of which both MachineSets are scaled down, in the order of their names.
        whole == {q \in free : Cardinality(ScaledDown(q, s)) = 2}
        picked == {q \in whole : 2 * Cardinality({r \in whole : r < q}) < left}
    IN  (IF needed < 1 THEN {} ELSE paired)
          \cup (IF left < 1 THEN {} ELSE UNION {ScaledDown(q, s) : q \in picked})

machineSetsToScaleUp == ForPairs \cup UNION {ForPlaceholders(s) : s \in Sizes}

scaling == <<fleet, wanted, hc, pairOwner, node, dep, pass, resizes, faults>>

Autoscale ==
    /\ LET up == machineSetsToScaleUp IN
        /\ up # {}
        /\ replicas' = [m \in MachineSets |-> IF m \in up THEN 1 ELSE replicas[m]]
    /\ UNCHANGED <<scaling, doomed, downs>>

PairNodes(q) == {m \in Present : Pair(m) = q}

\* Mutant of nodeMachineSetsToScaleDown: the test of the replicas is inverted.
ScaledDownAlready(n) == {m \in PairNodes(Pair(n)) : replicas[m] = 0}

nodeMachineSetsToScaleDown(n) == {m \in PairNodes(Pair(n)) : replicas[m] # 0}

\* Mutant of ActiveNodes: only the size label counts, not the node selector in force.
ActiveBySizeLabel(c, q) == {m \in PairNodes(q) : Size(m) = hc[c].size}

\* q: the pair label of the first Node listed for the cluster.
ActiveNodes(c, q) == {m \in PairNodes(q) : Size(m) \in {hc[c].size, hc[c].selector}}

hostedClusterMachineSetsToScaleDown(c, q) ==
    IF ActiveNodes(c, q) = {} THEN {}
    ELSE {m \in PairNodes(q) \ ActiveNodes(c, q) : replicas[m] # 0}

\* The Nodes younger than nodeScaleDownDelay are left to a later pass.
Descale(n) ==
    /\ downs = {} /\ n \in Labelled
    /\ LET c == node[n] IN
       IF hc[c].phase = "gone"
       THEN downs' = nodeMachineSetsToScaleDown(n)
       ELSE \E q \in Pairs(LabelledFor(c)) :
                downs' \in SUBSET hostedClusterMachineSetsToScaleDown(c, q)
    /\ downs' # {}
    /\ UNCHANGED <<scaling, replicas, doomed>>

ScaleDown ==
    /\ downs # {}
    /\ replicas' = [m \in MachineSets |-> IF m \in downs THEN 0 ELSE replicas[m]]
    /\ doomed' = doomed \cup (downs \cap Present)
    /\ downs' = {}
    /\ UNCHANGED scaling

-----------------------------------------------------------------------------
Next ==
    \/ \E c \in fleet.clusters :
          CreateCluster(c) \/ Resize(c) \/ DeleteCluster(c) \/ TornDown(c) \/ Reconcile(c)
    \/ \E s \in Sizes : DropPlaceholders(s) \/ placeholderCreator(s)
    \/ \E d \in DeploymentIds : placeholderUpdater(d)
    \/ \E d \in DeploymentIds, m \in MachineSets : SchedulePod(d, m)
    \/ \E m \in MachineSets :
          NodeUp(m) \/ NodeDown(m) \/ NodeLost(m) \/ Descale(m)
    \/ PassStep \/ PassFails \/ Autoscale \/ ScaleDown

Spec == Init /\ [][Next]_vars

\* Workqueues retry what failed and HostedClusters, Nodes and Deployments are watched; the
\* autoscaler also runs on a ticker.  Machines start and stop, and pods that fit are scheduled.
AllClusters == UNION {f.clusters : f \in Fleets}
AllSizes == UNION {DOMAIN f.wanted : f \in Fleets}
AllPairs == UNION {f.pairs : f \in Fleets}

Fairness ==
    /\ \A c \in AllClusters : WF_vars(c \in fleet.clusters /\ (TornDown(c) \/ Reconcile(c)))
    /\ \A m \in AllPairs \X AllSizes \X Zones : WF_vars(m \in MachineSets /\ (NodeUp(m) \/ NodeDown(m)))
    /\ WF_vars(\E s \in Sizes : placeholderCreator(s))
    /\ WF_vars(\E d \in DeploymentIds : placeholderUpdater(d))
    /\ WF_vars(\E d \in DeploymentIds, m \in MachineSets : SchedulePod(d, m))
    /\ WF_vars(\E m \in MachineSets : Descale(m))
    /\ WF_vars(PassStep)
    /\ WF_vars(Autoscale)
    /\ WF_vars(ScaleDown)

FairSpec == Spec /\ Fairness

-----------------------------------------------------------------------------
(* Properties.                                                             *)

\* The types of the state.  A Node outlives its MachineSet's scale-down only while its Machine
\* is being deleted, and placeholder pods run on Nodes that exist, at most two per Deployment.
TypeOK ==
    /\ \A q \in fleet.pairs : pairOwner[q] \in fleet.clusters \cup {None}
    /\ replicas \in [MachineSets -> 0 .. 1]
    /\ node \in [MachineSets -> fleet.clusters \cup {None, Absent}]
    /\ {m \in Present : replicas[m] = 0} \subseteq doomed /\ doomed \subseteq Present
    /\ \A c \in fleet.clusters : hc[c] \in [phase : {"absent", "live", "deleting", "gone"},
                                            holds : BOOLEAN, fin : BOOLEAN,
                                            size : Sizes \cup {None}, selector : Sizes \cup {None}]
    /\ \A d \in DeploymentIds : dep[d].on \subseteq Present /\ dep[d].spec.n \in 0 .. 2
    /\ pass.c = None => pass = Idle
    /\ downs \subseteq MachineSets
    /\ wanted \in [Sizes -> Nat] /\ resizes \in 0 .. fleet.resizes /\ faults \in 0 .. fleet.faults

\* A Node is labelled for a live cluster only while the pair's ConfigMap names that cluster, so
\* the placeholder scheduler, which reads only the ConfigMaps, sees every pair that is in use.
\* Hence, whatever passes failed half-way, the Nodes of one pair never serve two live clusters.
LabelIsRecorded == \A m \in Labelled : Live(node[m]) => pairOwner[Pair(m)] = node[m]

\* The descaler never decides to scale down a Node that serves a live cluster, in the middle of
\* a resize neither, when the size label has changed and not yet the node selector; unless a Node
\* of the pair is still labelled for a cluster that is being deleted or is gone, for then the
\* whole pair goes with that Node, whoever has claimed the rest of it since.  (Between its decision
\* and its write a cluster can come to be served there: the write carries no resource version.)
Serves(m) == node[m] \in fleet.clusters /\ Live(node[m]) /\ hc[node[m]].selector = Size(m)

ServingNodesKept ==
    [][\A m \in downs' \ downs :
          Serves(m) => \E n \in Labelled : Pair(n) = Pair(m) /\ ~Live(node[n])]_vars

\* Two labelled Nodes of the cluster's size, in both zones, and the annotation that selects them.
Placed(c) ==
    /\ hc[c].selector = hc[c].size
    /\ {Zone(m) : m \in {k \in LabelledFor(c) : Size(k) = hc[c].size /\ replicas[k] = 1}} = Zones

\* Every live cluster is served in the end, and for good, if there is a pair for each: no order
\* of claims, resizes, lost Nodes, failed passes and descaler writes leaves the scheduler, the
\* autoscaler, the descaler and the placeholders waiting for, or undoing, one another.
Served ==
    <>[](Cardinality({c \in fleet.clusters : Live(c)}) <= Cardinality(fleet.pairs)
            => \A c \in fleet.clusters : Live(c) => Placed(c))

\* The Nodes of a deleted HostedCluster do not stay behind: the descaler scales their pair down,
\* or another cluster takes them over.
Released == <>[](\A m \in Labelled : hc[node[m]].phase # "gone")

\* Placeholder pods end up off the pairs that clusters have claimed, those whose Nodes they kept
\* warm included, because the updater re-creates the Deployment with the new exclusions.
PlaceholdersYield ==
    <>[](\A d \in PoolIds : \A m \in dep[d].on : pairOwner[Pair(m)] = None)
=============================================================================
