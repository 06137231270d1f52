------------------------ MODULE RequestServingProofs ------------------------
(* Proofs about RequestServing, for any fleet: which clusters a Node may be *)
(* labelled for, which Nodes the descaler leaves alone, and where pods run. *)
EXTENDS RequestServing, FiniteSetTheorems, TLAPS

-----------------------------------------------------------------------------
(* The inductive invariant.                                                *)

\* The sets below hang on the fleet alone, which no step changes.
FleetSizes == DOMAIN fleet.wanted
FleetSets == fleet.pairs \X FleetSizes \X Zones
Ids == (fleet.clusters \X {0})
           \cup UNION {{s} \X (0 .. fleet.wanted[s] - 1) : s \in FleetSizes}

HCs == [phase : {"absent", "live", "deleting", "gone"}, holds : BOOLEAN, fin : BOOLEAN,
        size : FleetSizes \cup {None}, selector : FleetSizes \cup {None}]
Specs == [size : FleetSizes \cup {None}, pair : Nat, excl : SUBSET Nat, n : Int]
Deps == [spec : Specs, on : SUBSET FleetSets]

\* What a pass for a live cluster may still have to do after labelling, and one that cleans up.
Labelling == {<<>>, <<"undeploy">>}
Cleaning == {<<"undeploy", "unpair", "release">>, <<"unpair", "release">>, <<"release">>}
Passes == [c : fleet.clusters \cup {None}, label : SUBSET FleetSets, lost : SUBSET FleetSets,
           then : Labelling \cup Cleaning]

Types ==
    /\ fleet \in Fleets
    /\ wanted \in [FleetSizes -> Nat]
    /\ hc \in [fleet.clusters -> HCs]
    /\ pairOwner \in [fleet.pairs -> fleet.clusters \cup {None}]
    /\ node \in [FleetSets -> fleet.clusters \cup {None, Absent}]
    /\ dep \in [Ids -> Deps]
    /\ pass \in Passes
    /\ pass # Idle => pass.c \in fleet.clusters /\ (pass.label = {} => pass.then # <<>>)

\* The pods of one placeholder run in one pair, the selected one where there is one; pods of
\* the pool with one index share the placeholder label, hence the pair.
DepInv ==
    /\ \A d \in Ids : IsPool(d) => dep[d].spec.pair = NoPair
    /\ \A d \in Ids : dep[d].spec.pair # NoPair => \A m \in dep[d].on : Pair(m) = dep[d].spec.pair
    /\ \A d \in Ids, e \in Ids :
          SameLabel(d, e) => \A m \in dep[d].on, k \in dep[e].on : Pair(m) = Pair(k)

\* The pass under way has recorded the pair before it labels the Nodes, and gives a pair up
\* only for a cluster that is not live.
PassInv ==
    pass # Idle =>
        /\ hc[pass.c].phase # "absent"
        /\ pass.then \in Cleaning => ~Live(pass.c) /\ pass.label = {}
        /\ Live(pass.c) => \A m \in pass.label : pairOwner[Pair(m)] = pass.c

LabelInv ==
    \A m \in FleetSets : node[m] \in fleet.clusters =>
        /\ hc[node[m]].phase # "absent"
        /\ Live(node[m]) => pairOwner[Pair(m)] = node[m]

IInv == Types /\ DepInv /\ PassInv /\ LabelInv

-----------------------------------------------------------------------------
(* Which actions write what.                                               *)

\* Names are told apart, and the pair label NoPair is nobody's.
LEMMA FleetFacts ==
    ASSUME Types
    PROVE  /\ None \notin fleet.clusters /\ Absent \notin fleet.clusters
           /\ fleet.clusters \cap FleetSizes = {}
           /\ fleet.pairs \subseteq Nat /\ NoPair \notin fleet.pairs
           /\ Sizes = FleetSizes /\ MachineSets = FleetSets /\ DeploymentIds = Ids
BY FleetsAssumption DEF Types, FleetSizes, Sizes, MachineSets, DeploymentIds, NoPair

\* The parts of a MachineSet's labels: pair, size and zone.
LEMMA MachineSetParts ==
    ASSUME NEW m \in FleetSets
    PROVE  Pair(m) \in fleet.pairs /\ Size(m) \in FleetSizes /\ Zone(m) \in Zones
BY DEF FleetSets, Pair, Size, Zone

\* The fleet never changes, and only the administrator changes the configuration.
LEMMA FleetKept ==
    ASSUME [Next]_vars
    PROVE  fleet' = fleet /\ (UNCHANGED wanted \/ \E s \in Sizes : DropPlaceholders(s))
BY DEF Next, vars, CreateCluster, Resize, DeleteCluster, TornDown, DropPlaceholders, AddFinalizer,
       CleanUp, Backfill, ClaimPlaceholder, Place, ensurePlaceholderDeployment,
       ClaimOwnPlaceholder, ensureHostedClusterLabelAndTaint, deletePlaceholderDeployment,
       deletePairConfigMaps, RemoveFinalizer, PassFails, Reconcile, PassStep, placeholderCreator,
       placeholderUpdater, SchedulePod, NodeUp, Vanish, NodeDown, NodeLost, Autoscale, Descale,
       ScaleDown, clusterVars, scheduled, pooled, scaling

\* The steps that write a HostedCluster: its owner, and the scheduler's finalizer and selector.
LEMMA ClusterSteps ==
    ASSUME [Next]_vars
    PROVE  \/ UNCHANGED hc
           \/ \E c \in fleet.clusters : \/ CreateCluster(c) \/ Resize(c) \/ DeleteCluster(c)
                                        \/ TornDown(c) \/ AddFinalizer(c) \/ Place(c)
           \/ RemoveFinalizer
BY DEF Next, vars, CleanUp, Backfill, ClaimPlaceholder, ensurePlaceholderDeployment,
       DropPlaceholders,
       ClaimOwnPlaceholder, ensureHostedClusterLabelAndTaint, deletePlaceholderDeployment,
       deletePairConfigMaps, PassFails, Reconcile, PassStep, placeholderCreator,
       placeholderUpdater, SchedulePod, NodeUp, Vanish, NodeDown, NodeLost, Autoscale, Descale,
       ScaleDown, clusterVars, scheduled, pooled, scaling

\* The steps that write the pairs' ConfigMaps, all of them the scheduler's.
LEMMA OwnerSteps ==
    ASSUME [Next]_vars
    PROVE  \/ UNCHANGED pairOwner
           \/ \E c \in fleet.clusters : \/ Backfill(c) \/ ClaimPlaceholder(c) \/ Place(c)
                                        \/ ensurePlaceholderDeployment(c) \/ ClaimOwnPlaceholder(c)
           \/ deletePairConfigMaps
BY DEF Next, vars, CreateCluster, Resize, DeleteCluster, TornDown, DropPlaceholders, AddFinalizer,
       CleanUp, ensureHostedClusterLabelAndTaint, deletePlaceholderDeployment,
       RemoveFinalizer, PassFails, Reconcile, PassStep, placeholderCreator,
       placeholderUpdater, SchedulePod, NodeUp, Vanish, NodeDown, NodeLost, Autoscale, Descale,
       ScaleDown, clusterVars, scheduled, pooled, scaling

\* The steps that write Nodes: the label patch, a Machine that starts, one that goes.
LEMMA NodeSteps ==
    ASSUME [Next]_vars
    PROVE  \/ UNCHANGED node
           \/ \E m \in MachineSets : \/ ensureHostedClusterLabelAndTaint(m) \/ NodeUp(m)
                                     \/ Vanish(m)
BY DEF Next, vars, CreateCluster, Resize, DeleteCluster, TornDown, DropPlaceholders, AddFinalizer,
       CleanUp, Backfill, ClaimPlaceholder, Place, ensurePlaceholderDeployment,
       ClaimOwnPlaceholder, deletePlaceholderDeployment,
       deletePairConfigMaps, RemoveFinalizer, PassFails, Reconcile, PassStep, placeholderCreator,
       placeholderUpdater, SchedulePod, NodeDown, NodeLost, Autoscale, Descale,
       ScaleDown, clusterVars, scheduled, pooled, scaling

\* The steps that write placeholder Deployments or their pods.
LEMMA DeploymentSteps ==
    ASSUME [Next]_vars
    PROVE  \/ UNCHANGED dep
           \/ \E c \in fleet.clusters : ensurePlaceholderDeployment(c)
           \/ deletePlaceholderDeployment
           \/ \E s \in Sizes : placeholderCreator(s)
           \/ \E d \in DeploymentIds : placeholderUpdater(d)
           \/ \E d \in DeploymentIds, m \in MachineSets : SchedulePod(d, m)
           \/ \E m \in MachineSets : Vanish(m)
BY DEF Next, vars, CreateCluster, Resize, DeleteCluster, TornDown, DropPlaceholders, AddFinalizer,
       CleanUp, Backfill, ClaimPlaceholder, Place,
       ClaimOwnPlaceholder, ensureHostedClusterLabelAndTaint,
       deletePairConfigMaps, RemoveFinalizer, PassFails, Reconcile, PassStep,
       NodeUp, NodeDown, NodeLost, Autoscale, Descale,
       ScaleDown, clusterVars, scheduled, pooled, scaling

\* The steps that begin, advance or end a pass of the scheduler.
LEMMA PassSteps ==
    ASSUME [Next]_vars
    PROVE  \/ UNCHANGED pass
           \/ \E c \in fleet.clusters : \/ CleanUp(c) \/ Backfill(c) \/ ClaimPlaceholder(c)
                                        \/ Place(c) \/ ClaimOwnPlaceholder(c)
           \/ PassStep
           \/ PassFails
           \/ \E m \in MachineSets : Vanish(m)
BY DEF Next, vars, CreateCluster, Resize, DeleteCluster, TornDown, DropPlaceholders, AddFinalizer,
       ensurePlaceholderDeployment, Reconcile, placeholderCreator,
       placeholderUpdater, SchedulePod, NodeUp, NodeDown, NodeLost, Autoscale, Descale,
       ScaleDown, clusterVars, scheduled, pooled, scaling

-----------------------------------------------------------------------------
(* Types.                                                                  *)

\* The zones that hold Nodes for a cluster are counted by a natural number.
LEMMA ZonesCounted ==
    ASSUME Types, NEW c, NEW q
    PROVE  Cardinality(GoalZones(c, q)) \in Nat
<1>1. GoalZones(c, q) \subseteq Zones
  BY FleetFacts, MachineSetParts DEF GoalZones, GoalNodes, LabelledFor
<1>2. IsFiniteSet({1, 2})
  <2>1. IsFiniteSet({1})
    BY FS_Singleton
  <2>2. {1, 2} = {1} \cup {2}
    OBVIOUS
  <2>. QED  BY <2>1, <2>2, FS_AddElement
<1>. QED  BY <1>1, <1>2, FS_Subset, FS_CardinalityType DEF Zones

\* The specifications the scheduler writes are well formed.
LEMMA SpecTypes ==
    ASSUME Types
    PROVE  /\ \A s \in FleetSizes : PoolSpec(s) \in Specs /\ PoolSpec(s).pair = NoPair
           /\ \A c \in fleet.clusters, q \in Nat : DesiredSpec(c, q) \in Specs
           /\ NoDeployment \in Deps
           /\ NoDeployment.spec.pair = NoPair /\ NoDeployment.on = {}
<1>1. AssignedPairs \subseteq Nat /\ takenNodePairLabels \subseteq Nat
  BY FleetFacts, MachineSetParts
     DEF AssignedPairs, takenNodePairLabels, Pairs, Labelled, Present
<1>2. \A s \in FleetSizes : PoolSpec(s) \in Specs /\ PoolSpec(s).pair = NoPair
  BY <1>1 DEF PoolSpec, Specs, NoPair
<1>3. ASSUME NEW c \in fleet.clusters, NEW q \in Nat
      PROVE  DesiredSpec(c, q) \in Specs
  <2>1. hc[c].size \in FleetSizes \cup {None}
    BY DEF Types, HCs
  <2>2. 2 - Cardinality(GoalZones(c, q)) \in Int
    BY ZonesCounted
  <2>3. (IF q = NoPair THEN takenNodePairLabels ELSE {}) \in SUBSET Nat
    BY <1>1
  <2>. QED  BY <2>1, <2>2, <2>3 DEF DesiredSpec, Specs
<1>4. NoDeployment \in Deps /\ NoDeployment.spec.pair = NoPair /\ NoDeployment.on = {}
  <2>1. NoSpec \in Specs
    BY DEF NoSpec, Specs, NoPair
  <2>. QED  BY <2>1 DEF NoDeployment, Deps, NoSpec
<1>. QED  BY <1>2, <1>3, <1>4

\* The pair labels considered for a cluster are numbers, and those of its Nodes or its ConfigMap.
LEMMA PairLabelTypes ==
    ASSUME Types, NEW c, NEW q \in PairLabels(c)
    PROVE  q \in Nat /\ (q # NoPair => q \in fleet.pairs)
<1>1. Pairs(LabelledFor(c)) \subseteq fleet.pairs
  BY FleetFacts, MachineSetParts DEF Pairs, LabelledFor
<1>. QED  BY <1>1, FleetFacts DEF PairLabels, NoPair

\* The fields of a cluster's record that the steps write, one lemma for all of them.
LEMMA ClusterWrites ==
    ASSUME NEW h \in HCs
    PROVE  /\ \A s \in FleetSizes : [h EXCEPT !.size = s] \in HCs
           /\ [h EXCEPT !.phase = "deleting"] \in HCs
           /\ [h EXCEPT !.holds = FALSE, !.phase = IF h.fin THEN h.phase ELSE "gone"] \in HCs
           /\ [h EXCEPT !.fin = TRUE] \in HCs
           /\ [h EXCEPT !.selector = h.size] \in HCs
           /\ [h EXCEPT !.fin = FALSE, !.phase = "gone"] \in HCs
BY DEF HCs

\* A cluster's record keeps its shape, whoever writes it.
LEMMA ClusterTypes ==
    ASSUME Types, [Next]_vars
    PROVE  hc' \in [fleet.clusters -> HCs]
<1>1. CASE UNCHANGED hc
  BY <1>1 DEF Types
<1>2. ASSUME NEW c \in fleet.clusters, CreateCluster(c)
      PROVE  hc' \in [fleet.clusters -> HCs]
  <2>1. PICK s \in FleetSizes :
           hc' = [hc EXCEPT ![c] = [phase |-> "live", holds |-> TRUE, fin |-> FALSE,
                                    size |-> s, selector |-> None]]
    BY <1>2, FleetFacts DEF CreateCluster
  <2>2. [phase |-> "live", holds |-> TRUE, fin |-> FALSE, size |-> s, selector |-> None] \in HCs
    BY DEF HCs
  <2>. QED  BY <2>1, <2>2 DEF Types
<1>3. ASSUME NEW c \in fleet.clusters, Resize(c)
      PROVE  hc' \in [fleet.clusters -> HCs]
  <2>1. PICK s \in FleetSizes : hc' = [hc EXCEPT ![c] = [hc[c] EXCEPT !.size = s]]
    BY <1>3, FleetFacts DEF Resize, Types
  <2>2. [hc[c] EXCEPT !.size = s] \in HCs
    BY ClusterWrites DEF Types
  <2>. QED  BY <2>1, <2>2 DEF Types
<1>4. ASSUME NEW c \in fleet.clusters, DeleteCluster(c)
      PROVE  hc' \in [fleet.clusters -> HCs]
  <2>1. [hc[c] EXCEPT !.phase = "deleting"] \in HCs
    BY ClusterWrites DEF Types
  <2>. QED  BY <2>1, <1>4 DEF Types, DeleteCluster
<1>5. ASSUME NEW c \in fleet.clusters, TornDown(c)
      PROVE  hc' \in [fleet.clusters -> HCs]
  <2>. DEFINE h == [hc[c] EXCEPT !.holds = FALSE,
                                 !.phase = IF hc[c].fin THEN hc[c].phase ELSE "gone"]
  <2>1. h \in HCs
    BY ClusterWrites DEF Types
  <2>2. hc' = [hc EXCEPT ![c] = h]
    BY <1>5 DEF Types, HCs, TornDown
  <2>. QED  BY <2>1, <2>2 DEF Types
<1>6. ASSUME NEW c \in fleet.clusters, AddFinalizer(c)
      PROVE  hc' \in [fleet.clusters -> HCs]
  <2>1. [hc[c] EXCEPT !.fin = TRUE] \in HCs
    BY ClusterWrites DEF Types
  <2>. QED  BY <2>1, <1>6 DEF Types, AddFinalizer
<1>7. ASSUME NEW c \in fleet.clusters, Place(c)
      PROVE  hc' \in [fleet.clusters -> HCs]
  <2>1. [hc[c] EXCEPT !.selector = hc[c].size] \in HCs
    BY ClusterWrites DEF Types
  <2>. QED  BY <2>1, <1>7 DEF Types, Place
<1>8. CASE RemoveFinalizer
  <2>. DEFINE h == [hc[pass.c] EXCEPT !.fin = FALSE, !.phase = "gone"]
  <2>1. pass.c \in fleet.clusters
    BY <1>8 DEF RemoveFinalizer, Then, Types
  <2>2. h \in HCs
    BY <2>1, ClusterWrites DEF Types
  <2>3. hc' = [hc EXCEPT ![pass.c] = h]
    BY <2>1, <1>8 DEF Types, HCs, RemoveFinalizer
  <2>. QED  BY <2>2, <2>3 DEF Types
<1>. QED  BY <1>1, <1>2, <1>3, <1>4, <1>5, <1>6, <1>7, <1>8, ClusterSteps

\* ensurePairConfigMap takes a free pair or one the cluster has already, and no other.
LEMMA PairRecorded ==
    ASSUME Types, NEW c \in fleet.clusters, NEW q, ensurePairConfigMap(q, c)
    PROVE  /\ pairOwner' \in [fleet.pairs -> fleet.clusters \cup {None}]
           /\ \A r \in fleet.pairs : pairOwner[r] \in fleet.clusters => pairOwner'[r] = pairOwner[r]
           /\ q \in fleet.pairs => pairOwner'[q] = c
BY FleetFacts DEF Types, ensurePairConfigMap

\* The ConfigMap of a pair that a live cluster has claimed stays: passes for other clusters find
\* it taken, and deletePairConfigMaps runs for clusters that are being deleted.
LEMMA RecordsKept ==
    ASSUME Types, PassInv, [Next]_vars
    PROVE  /\ pairOwner' \in [fleet.pairs -> fleet.clusters \cup {None}]
           /\ \A q \in fleet.pairs : pairOwner[q] \in fleet.clusters /\ Live(pairOwner[q])
                                        => pairOwner'[q] = pairOwner[q]
<1>1. CASE UNCHANGED pairOwner
  BY <1>1 DEF Types
<1>2. CASE deletePairConfigMaps
  <2>1. ~Live(pass.c)
    <3>1. pass # Idle /\ pass.then \in Labelling \cup Cleaning /\ pass.label = {}
      BY <1>2 DEF deletePairConfigMaps, Then, Types, Passes
    <3>2. pass.then # <<>> /\ Head(pass.then) = "unpair"
      BY <3>1, <1>2 DEF deletePairConfigMaps, Then, Types
    <3>3. pass.then \in Cleaning
      BY <3>1, <3>2 DEF Labelling
    <3>. QED  BY <3>1, <3>3 DEF PassInv
  <2>. QED  BY <1>2, <2>1 DEF deletePairConfigMaps, Types
<1>3. ASSUME NEW c \in fleet.clusters,
             \/ Backfill(c) \/ ClaimPlaceholder(c) \/ Place(c)
             \/ ensurePlaceholderDeployment(c) \/ ClaimOwnPlaceholder(c)
      PROVE  UNCHANGED pairOwner \/ \E q : ensurePairConfigMap(q, c)
  BY <1>3 DEF Backfill, ClaimPlaceholder, Place, ensurePlaceholderDeployment, ClaimOwnPlaceholder,
              EnsurePair
<1>. QED  BY <1>1, <1>2, <1>3, PairRecorded, OwnerSteps

\* A Node is labelled only by the pass under way, and for its cluster.
LEMMA NodeWrites ==
    ASSUME Types, [Next]_vars
    PROVE  /\ node' \in [FleetSets -> fleet.clusters \cup {None, Absent}]
           /\ \A m \in FleetSets :
                 \/ node'[m] \in {node[m], None, Absent}
                 \/ pass # Idle /\ m \in pass.label /\ node'[m] = pass.c
<1>1. CASE UNCHANGED node
  BY <1>1 DEF Types
<1>2. ASSUME NEW m \in FleetSets, ensureHostedClusterLabelAndTaint(m)
      PROVE  \/ UNCHANGED node
             \/ /\ pass # Idle /\ m \in pass.label /\ pass.c \in fleet.clusters
                /\ node' = [node EXCEPT ![m] = pass.c]
  BY <1>2 DEF ensureHostedClusterLabelAndTaint, Types
<1>3. ASSUME NEW m \in FleetSets, NodeUp(m) \/ Vanish(m)
      PROVE  \E x \in {None, Absent} : node' = [node EXCEPT ![m] = x]
  BY <1>3 DEF NodeUp, Vanish
<1>4. ASSUME NEW m \in FleetSets, NEW x \in fleet.clusters \cup {None, Absent},
             x \in {None, Absent} \/ (pass # Idle /\ m \in pass.label /\ x = pass.c),
             node' = [node EXCEPT ![m] = x]
      PROVE  /\ node' \in [FleetSets -> fleet.clusters \cup {None, Absent}]
             /\ \A k \in FleetSets :
                   \/ node'[k] \in {node[k], None, Absent}
                   \/ pass # Idle /\ k \in pass.label /\ node'[k] = pass.c
  BY <1>4 DEF Types
<1>5. CASE ~UNCHANGED node
  <2>1. PICK m \in FleetSets : ensureHostedClusterLabelAndTaint(m) \/ NodeUp(m) \/ Vanish(m)
    BY <1>5, NodeSteps, FleetFacts
  <2>2. CASE ensureHostedClusterLabelAndTaint(m)
    BY <2>2, <1>2, <1>4, <1>5
  <2>3. CASE NodeUp(m) \/ Vanish(m)
    BY <2>3, <1>3, <1>4
  <2>. QED  BY <2>1, <2>2, <2>3
<1>. QED  BY <1>1, <1>5

-----------------------------------------------------------------------------
(* Placeholders.                                                           *)

\* A Deployment that gains no pod: it keeps its pair label or loses all its pods.
NoPodGained ==
    \A d \in Ids :
        /\ dep'[d].on \subseteq dep[d].on
        /\ dep'[d].spec.pair = dep[d].spec.pair \/ dep'[d].on = {}
        /\ IsPool(d) => dep'[d].spec.pair = NoPair

\* The Deployment controller's answer to a written specification gains no pod.
LEMMA DeployEffect ==
    ASSUME Types, DepInv, NEW d, NEW s \in Specs, IsPool(d) => s.pair = NoPair, Deploy(d, s)
    PROVE  dep' \in [Ids -> Deps] /\ NoPodGained
<1>1. PICK keep \in SUBSET dep[d].on :
        /\ Template(dep[d].spec) = Template(s) \/ keep = {}
        /\ dep' = [dep EXCEPT ![d] = [spec |-> s, on |-> keep]]
  BY DEF Deploy
<1>2. CASE d \notin Ids
  BY <1>1, <1>2 DEF Types, NoPodGained, DepInv
<1>3. CASE d \in Ids
  <2>. DEFINE o == [spec |-> s, on |-> keep]
  <2>1. dep[d].on \subseteq FleetSets
    BY <1>3 DEF Types, Deps
  <2>2. o \in Deps /\ o.spec = s /\ o.on = keep
    BY <2>1 DEF Deps
  <2>3. dep' = [dep EXCEPT ![d] = o]
    BY <1>1
  <2>4. s.pair = dep[d].spec.pair \/ keep = {}
    BY <1>1 DEF Template
  <2>. HIDE DEF o
  <2>. QED  BY <1>3, <2>2, <2>3, <2>4 DEF Types, NoPodGained, DepInv
<1>. QED  BY <1>2, <1>3

\* Deleting a Deployment gains no pod.
LEMMA UndeployEffect ==
    ASSUME Types, DepInv, NEW d, dep' = [dep EXCEPT ![d] = NoDeployment]
    PROVE  dep' \in [Ids -> Deps] /\ NoPodGained
<1>1. NoDeployment \in Deps /\ NoDeployment.spec.pair = NoPair /\ NoDeployment.on = {}
  BY SpecTypes
<1>. QED  BY <1>1 DEF Types, NoPodGained, DepInv

\* A Node that goes takes its pods along.
LEMMA VanishEffect ==
    ASSUME Types, DepInv, NEW m, Vanish(m)
    PROVE  dep' \in [Ids -> Deps] /\ NoPodGained
<1>1. dep' = [d \in Ids |-> [dep[d] EXCEPT !.on = @ \ {m}]]
  BY FleetFacts DEF Vanish
<1>2. ASSUME NEW o \in Deps
      PROVE  /\ [o EXCEPT !.on = @ \ {m}] \in Deps
             /\ [o EXCEPT !.on = @ \ {m}].spec = o.spec
             /\ [o EXCEPT !.on = @ \ {m}].on \subseteq o.on
  BY DEF Deps
<1>3. \A d \in Ids : /\ dep'[d] \in Deps /\ dep'[d].spec = dep[d].spec
                     /\ dep'[d].on \subseteq dep[d].on
  BY <1>1, <1>2 DEF Types
<1>4. dep' \in [Ids -> Deps]
  BY <1>1, <1>3
<1>. QED  BY <1>3, <1>4 DEF NoPodGained, DepInv

\* A pod is scheduled into the pair of the pods that carry its placeholder label.
LEMMA ScheduledTogether ==
    ASSUME Types, DepInv, NEW d \in Ids, NEW m \in FleetSets, SchedulePod(d, m)
    PROVE  /\ dep' \in [Ids -> Deps]
           /\ \A e \in Ids : dep'[e].spec = dep[e].spec
           /\ \A e \in Ids : e # d => dep'[e].on = dep[e].on
           /\ dep'[d].on = dep[d].on \cup {m}
           /\ dep[d].spec.pair # NoPair => Pair(m) = dep[d].spec.pair
           /\ \A e \in Ids : SameLabel(d, e) => \A k \in dep[e].on : Pair(k) = Pair(m)
<1>. DEFINE o == [dep[d] EXCEPT !.on = @ \cup {m}]
<1>1. o \in Deps /\ o.spec = dep[d].spec /\ o.on = dep[d].on \cup {m}
  <2>1. ASSUME NEW x \in Deps
        PROVE  /\ [x EXCEPT !.on = @ \cup {m}] \in Deps
               /\ [x EXCEPT !.on = @ \cup {m}].spec = x.spec
               /\ [x EXCEPT !.on = @ \cup {m}].on = x.on \cup {m}
    BY DEF Deps
  <2>. QED  BY <2>1 DEF Types
<1>2. dep' = [dep EXCEPT ![d] = o]
  BY DEF SchedulePod, Types
<1>. HIDE DEF o
<1>3. Fits(d, m)
  BY DEF SchedulePod
<1>4. dep[d].spec.pair # NoPair => Pair(m) = dep[d].spec.pair
  BY <1>3 DEF Fits
<1>5. ASSUME NEW e \in Ids, SameLabel(d, e), NEW k \in dep[e].on
      PROVE  Pair(k) = Pair(m)
  <2>1. k \in PodsLike(d)
    BY <1>5, FleetFacts DEF PodsLike
  <2>2. CASE dep[d].spec.pair = NoPair
    <3>1. PICK j \in PodsLike(d) : Pair(j) = Pair(m)
      BY <2>1, <2>2, <1>3 DEF Fits, Pairs
    <3>2. PICK f \in Ids : SameLabel(d, f) /\ j \in dep[f].on
      BY FleetFacts DEF PodsLike
    <3>3. SameLabel(e, f)
      BY <1>5, <3>2 DEF SameLabel
    <3>. QED  BY <3>1, <3>2, <3>3 DEF DepInv
  <2>3. CASE dep[d].spec.pair # NoPair
    <3>1. e = d
      BY <1>5, <2>3 DEF DepInv, SameLabel
    <3>. QED  BY <3>1, <2>3, <1>4 DEF DepInv
  <2>. QED  BY <2>2, <2>3
<1>. QED  BY <1>1, <1>2, <1>4, <1>5 DEF Types

\* Every step gains no pod or schedules one.
LEMMA DeploymentWrites ==
    ASSUME Types, DepInv, [Next]_vars
    PROVE  /\ dep' \in [Ids -> Deps]
           /\ NoPodGained \/ \E d \in Ids, m \in FleetSets : SchedulePod(d, m)
<1>1. CASE UNCHANGED dep
  BY <1>1 DEF Types, NoPodGained, DepInv
<1>2. ASSUME NEW c \in fleet.clusters, ensurePlaceholderDeployment(c)
      PROVE  dep' \in [Ids -> Deps] /\ NoPodGained
  <2>1. PICK q \in PairLabels(c) : Deploy(<<c, 0>>, DesiredSpec(c, q))
    BY <1>2 DEF ensurePlaceholderDeployment
  <2>2. DesiredSpec(c, q) \in Specs
    BY PairLabelTypes, SpecTypes
  <2>3. ~IsPool(<<c, 0>>)
    BY FleetFacts DEF IsPool
  <2>. QED  BY <2>1, <2>2, <2>3, DeployEffect
<1>3. CASE deletePlaceholderDeployment
  BY <1>3, UndeployEffect DEF deletePlaceholderDeployment
<1>4. ASSUME NEW s \in FleetSizes, placeholderCreator(s)
      PROVE  dep' \in [Ids -> Deps] /\ NoPodGained
  <2>1. PICK i : Deploy(<<s, i>>, PoolSpec(s))
    BY <1>4 DEF placeholderCreator
  <2>. QED  BY <2>1, SpecTypes, DeployEffect
<1>5. ASSUME NEW d \in Ids, placeholderUpdater(d)
      PROVE  dep' \in [Ids -> Deps] /\ NoPodGained
  <2>1. d[1] \in FleetSizes
    BY <1>5, FleetFacts DEF placeholderUpdater, IsPool
  <2>2. dep' = [dep EXCEPT ![d] = NoDeployment] \/ Deploy(d, PoolSpec(d[1]))
    BY <1>5 DEF placeholderUpdater
  <2>. QED  BY <2>1, <2>2, SpecTypes, DeployEffect, UndeployEffect
<1>. QED  BY <1>1, <1>2, <1>3, <1>4, <1>5, ScheduledTogether, VanishEffect, DeploymentSteps, FleetFacts

\* The configuration keeps its sizes.
LEMMA SizesKept ==
    ASSUME Types, [Next]_vars
    PROVE  wanted' \in [FleetSizes -> Nat] /\ \A d : IsPool(d)' <=> d[1] \in FleetSizes
<1>1. wanted' \in [FleetSizes -> Nat]
  BY FleetKept, FleetFacts DEF Types, DropPlaceholders
<1>. QED  BY <1>1 DEF IsPool, Sizes

\* The placeholders of one label stay in one pair.
LEMMA StepDeployments ==
    ASSUME Types, DepInv, [Next]_vars
    PROVE  DepInv'
<1>1. \A d : IsPool(d)' <=> IsPool(d)
  BY SizesKept, FleetFacts DEF IsPool
<1>2. \A d, e : SameLabel(d, e)' <=> SameLabel(d, e)
  BY <1>1 DEF SameLabel
<1>3. Ids' = Ids
  BY FleetKept DEF Ids, FleetSizes
<1>4. CASE NoPodGained
  BY <1>1, <1>2, <1>3, <1>4 DEF DepInv, NoPodGained
<1>5. ASSUME NEW d \in Ids, NEW m \in FleetSets, SchedulePod(d, m)
      PROVE  DepInv'
  <2>1. /\ \A e \in Ids : dep'[e].spec = dep[e].spec
        /\ \A e \in Ids : e # d => dep'[e].on = dep[e].on
        /\ dep'[d].on = dep[d].on \cup {m}
        /\ dep[d].spec.pair # NoPair => Pair(m) = dep[d].spec.pair
        /\ \A e \in Ids : SameLabel(d, e) => \A k \in dep[e].on : Pair(k) = Pair(m)
    BY <1>5, ScheduledTogether
  <2>2. \A e \in Ids : IsPool(e)' => dep'[e].spec.pair = NoPair
    BY <1>1, <2>1 DEF DepInv
  <2>3. \A e \in Ids : dep'[e].spec.pair # NoPair =>
           \A k \in dep'[e].on : Pair(k) = dep'[e].spec.pair
    BY <2>1 DEF DepInv
  <2>4. ASSUME NEW e \in Ids, NEW f \in Ids, SameLabel(e, f),
               NEW k \in dep'[e].on, NEW l \in dep'[f].on
        PROVE  Pair(k) = Pair(l)
    <3>1. SameLabel(f, e)
      BY <2>4 DEF SameLabel
    <3>2. /\ k \in dep[e].on \/ (e = d /\ k = m)
          /\ l \in dep[f].on \/ (f = d /\ l = m)
      BY <2>1, <2>4
    <3>. QED  BY <2>1, <2>4, <3>1, <3>2 DEF DepInv
  <2>. QED  BY <1>2, <1>3, <2>2, <2>3, <2>4 DEF DepInv, Pair
<1>. QED  BY <1>4, <1>5, DeploymentWrites

-----------------------------------------------------------------------------
(* The pass of the scheduler.                                              *)

\* A cluster never becomes live again, nor absent.
LEMMA PhasesAdvance ==
    ASSUME Types, [Next]_vars
    PROVE  \A c \in fleet.clusters :
               hc[c].phase # "absent" => hc'[c].phase # "absent" /\ (Live(c)' => Live(c))
<1>1. CASE UNCHANGED hc
  BY <1>1 DEF Live
<1>2. ASSUME NEW c \in fleet.clusters, CreateCluster(c)
      PROVE  hc[c].phase = "absent" /\ \A b \in fleet.clusters : b # c => hc'[b] = hc[b]
  BY <1>2 DEF CreateCluster, Types
<1>3. ASSUME NEW c \in fleet.clusters,
             Resize(c) \/ DeleteCluster(c) \/ TornDown(c) \/ AddFinalizer(c) \/ Place(c)
      PROVE  /\ \A b \in fleet.clusters : b # c => hc'[b] = hc[b]
             /\ hc'[c].phase \in {hc[c].phase, "deleting", "gone"}
  <2>1. \A b \in fleet.clusters : b # c => hc'[b] = hc[b]
    BY <1>3 DEF Resize, DeleteCluster, TornDown, AddFinalizer, Place, Types
  <2>2. hc[c] \in HCs
    BY DEF Types
  <2>3. ASSUME NEW h \in HCs
        PROVE  /\ \A x : [h EXCEPT !.size = x].phase = h.phase
               /\ \A x : [h EXCEPT !.selector = x].phase = h.phase
               /\ \A x : [h EXCEPT !.fin = x].phase = h.phase
               /\ [h EXCEPT !.phase = "deleting"].phase = "deleting"
               /\ [h EXCEPT !.holds = FALSE,
                            !.phase = IF h.fin THEN h.phase ELSE "gone"].phase \in {h.phase, "gone"}
    BY DEF HCs
  <2>4. CASE Resize(c)
    <3>1. \E x : hc'[c] = [hc[c] EXCEPT !.size = x]
      BY <2>4 DEF Resize, Types
    <3>. QED  BY <2>1, <2>2, <2>3, <3>1
  <2>5. CASE DeleteCluster(c)
    <3>1. hc'[c] = [hc[c] EXCEPT !.phase = "deleting"]
      BY <2>5 DEF DeleteCluster, Types
    <3>. QED  BY <2>1, <2>2, <2>3, <3>1
  <2>6. CASE TornDown(c)
    <3>1. hc'[c] = [hc[c] EXCEPT !.holds = FALSE,
                                 !.phase = IF hc[c].fin THEN hc[c].phase ELSE "gone"]
      BY <2>2, <2>6 DEF TornDown, Types, HCs
    <3>. QED  BY <2>1, <2>2, <2>3, <3>1
  <2>7. CASE AddFinalizer(c)
    <3>1. hc'[c] = [hc[c] EXCEPT !.fin = TRUE]
      BY <2>7 DEF AddFinalizer, Types
    <3>. QED  BY <2>1, <2>2, <2>3, <3>1
  <2>8. CASE Place(c)
    <3>1. hc'[c] = [hc[c] EXCEPT !.selector = hc[c].size]
      BY <2>8 DEF Place, Types
    <3>. QED  BY <2>1, <2>2, <2>3, <3>1
  <2>. QED  BY <1>3, <2>4, <2>5, <2>6, <2>7, <2>8
<1>4. CASE RemoveFinalizer
  <2>1. pass.c \in fleet.clusters
    BY <1>4 DEF RemoveFinalizer, Then, Types
  <2>2. ASSUME NEW h \in HCs
        PROVE  [h EXCEPT !.fin = FALSE, !.phase = "gone"].phase = "gone"
    BY DEF HCs
  <2>3. hc'[pass.c] = [hc[pass.c] EXCEPT !.fin = FALSE, !.phase = "gone"]
    BY <1>4, <2>1 DEF RemoveFinalizer, Types, HCs
  <2>4. hc'[pass.c].phase = "gone"
    BY <2>1, <2>2, <2>3 DEF Types
  <2>5. \A b \in fleet.clusters : b # pass.c => hc'[b] = hc[b]
    BY <1>4 DEF RemoveFinalizer, Types
  <2>. QED  BY <2>4, <2>5 DEF Live
<1>5. CASE \E c \in fleet.clusters : CreateCluster(c)
  BY <1>2, <1>5 DEF Live
<1>6. CASE \E c \in fleet.clusters :
              Resize(c) \/ DeleteCluster(c) \/ TornDown(c) \/ AddFinalizer(c) \/ Place(c)
  BY <1>3, <1>6 DEF Live
<1>. QED  BY <1>1, <1>4, <1>5, <1>6, ClusterSteps

\* A new pass: it cleans up after a cluster that is not live, or has recorded the pair of the
\* Nodes it is going to label.
Begins ==
    /\ pass' \in Passes /\ pass'.c \in fleet.clusters
    /\ pass'.label = {} => pass'.then # <<>>
    /\ hc[pass'.c].phase # "absent"
    /\ pass'.then \in Cleaning => ~Live(pass'.c) /\ pass'.label = {}
    /\ \A m \in pass'.label : pairOwner'[Pair(m)] = pass'.c

\* The pass goes on: it labels no other Nodes, and does not turn to cleaning up.
Continues ==
    /\ pass' \in Passes /\ pass # Idle /\ pass'.c = pass.c
    /\ pass'.label = {} => pass'.then # <<>>
    /\ pass'.label \subseteq pass.label
    /\ pass'.then \in Cleaning => pass.then \in Cleaning

\* What is left of each kind of pass after its first remaining operation.
LEMMA Tails ==
    ASSUME NEW t \in Labelling \cup Cleaning, t # <<>>
    PROVE  Len(t) = 1 \/ (t \in Cleaning /\ Tail(t) \in Cleaning)
<1>1. /\ Len(<<"undeploy">>) = 1 /\ Len(<<"release">>) = 1
      /\ Tail(<<"unpair", "release">>) = <<"release">>
      /\ Tail(<<"undeploy", "unpair", "release">>) = <<"unpair", "release">>
  OBVIOUS
<1>. QED  BY <1>1 DEF Labelling, Cleaning

\* The fields of a new pass.
LEMMA BusyType ==
    ASSUME Types, NEW c \in fleet.clusters, NEW L \in SUBSET FleetSets,
           NEW t \in Labelling \cup Cleaning
    PROVE  /\ Busy(c, L, t) \in Passes /\ Busy(c, L, t).c = c
           /\ Busy(c, L, t).label = L /\ Busy(c, L, t).then = t
BY DEF Busy, Passes

\* The fields of a pass that a step writes.
LEMMA PassWrites ==
    ASSUME NEW p \in Passes
    PROVE  /\ \A m : LET o == [p EXCEPT !.label = @ \ {m}]
                    IN  o \in Passes /\ o.c = p.c /\ o.label = p.label \ {m} /\ o.then = p.then
           /\ \A m \in p.label :
                 LET o == [p EXCEPT !.lost = @ \cup {m}]
                 IN  o \in Passes /\ o.c = p.c /\ o.label = p.label /\ o.then = p.then
           /\ Tail(p.then) \in Cleaning =>
                 LET o == [p EXCEPT !.then = Tail(@)]
                 IN  /\ o \in Passes /\ o.c = p.c /\ o.label = p.label
                     /\ o.then = Tail(p.then)
BY DEF Passes

\* Each step leaves no pass, goes on with the one under way, or begins one.
LEMMA PassMoves ==
    ASSUME Types, DepInv, [Next]_vars
    PROVE  pass' = Idle \/ Continues \/ Begins
<1>1. CASE UNCHANGED pass
  BY <1>1 DEF Continues, Types
<1>2. CASE PassFails
  BY <1>2 DEF PassFails
<1>3. ASSUME NEW m \in FleetSets, Vanish(m), pass # Idle
      PROVE  Continues
  <2>. DEFINE o == [pass EXCEPT !.lost = @ \cup {m}]
  <2>1. m \in pass.label => o \in Passes /\ o.c = pass.c /\ o.label = pass.label /\ o.then = pass.then
    BY PassWrites DEF Types
  <2>2. pass' = IF m \in pass.label THEN o ELSE pass
    BY <1>3 DEF Vanish
  <2>. HIDE DEF o
  <2>. QED  BY <1>3, <2>1, <2>2 DEF Continues, Types
<1>4. ASSUME NEW m \in FleetSets, ensureHostedClusterLabelAndTaint(m)
      PROVE  pass' = Idle \/ Continues
  <2>. DEFINE o == [pass EXCEPT !.label = @ \ {m}]
  <2>1. o \in Passes /\ o.c = pass.c /\ o.label = pass.label \ {m} /\ o.then = pass.then
    BY PassWrites DEF Types
  <2>2. pass # Idle /\ m \in pass.label
    BY <1>4 DEF ensureHostedClusterLabelAndTaint
  <2>3. pass' = Idle \/ (pass' = o /\ ~(pass.label = {m} /\ pass.then = <<>>))
    BY <1>4 DEF ensureHostedClusterLabelAndTaint
  <2>. HIDE DEF o
  <2>4. pass' = o /\ ~(pass.label = {m} /\ pass.then = <<>>) => Continues
    BY <2>1, <2>2 DEF Continues
  <2>. QED  BY <2>3, <2>4
<1>5. ASSUME NEW op, Then(op), Advance
      PROVE  pass' = Idle \/ Continues
  <2>. DEFINE o == [pass EXCEPT !.then = Tail(@)]
  <2>1. pass # Idle /\ pass.label = {} /\ pass.then # <<>> /\ pass.then \in Labelling \cup Cleaning
    BY <1>5 DEF Then, Types, Passes
  <2>2. CASE Len(pass.then) = 1
    BY <1>5, <2>2 DEF Advance
  <2>3. CASE Len(pass.then) # 1
    <3>1. pass.then \in Cleaning /\ Tail(pass.then) \in Cleaning
      BY <2>1, <2>3, Tails
    <3>2. o \in Passes /\ o.c = pass.c /\ o.label = pass.label /\ o.then = Tail(pass.then)
      BY <3>1, PassWrites DEF Types
    <3>3. pass' = o
      BY <1>5, <2>3 DEF Advance
    <3>4. Tail(pass.then) # <<>>
      BY <3>1 DEF Cleaning
    <3>. HIDE DEF o
    <3>. QED  BY <2>1, <3>1, <3>2, <3>3, <3>4 DEF Continues
  <2>. QED  BY <2>2, <2>3
<1>6. CASE PassStep
  BY <1>4, <1>5, <1>6, FleetFacts
     DEF PassStep, deletePlaceholderDeployment, deletePairConfigMaps, RemoveFinalizer
<1>7. ASSUME NEW c \in fleet.clusters, CleanUp(c)
      PROVE  Begins
  <2>1. pass' = Busy(c, {}, <<"undeploy", "unpair", "release">>) /\ hc[c].phase = "deleting"
    BY <1>7 DEF CleanUp
  <2>2. {} \in SUBSET FleetSets /\ <<"undeploy", "unpair", "release">> \in Labelling \cup Cleaning
    BY DEF Cleaning
  <2>. QED  BY <2>1, <2>2, BusyType DEF Begins, Live
<1>8. ASSUME NEW c \in fleet.clusters, Backfill(c)
      PROVE  Begins
  <2>1. PICK q \in PairLabels(c) \ {NoPair} :
          /\ NeedClusterLabel(c, q) # {} /\ ensurePairConfigMap(q, c)
          /\ pass' = Busy(c, NeedClusterLabel(c, q), <<>>)
    BY <1>8 DEF Backfill
  <2>2. NeedClusterLabel(c, q) \in SUBSET FleetSets /\ <<>> \in Labelling \cup Cleaning
    BY FleetFacts DEF NeedClusterLabel, Labelling
  <2>3. Live(c) /\ <<>> \notin Cleaning
    BY <1>8 DEF Backfill, Cleaning
  <2>4. \A m \in NeedClusterLabel(c, q) : pairOwner'[Pair(m)] = c
    <3>1. q \in fleet.pairs
      BY PairLabelTypes
    <3>2. pairOwner'[q] = c
      BY <2>1, <3>1, PairRecorded
    <3>. QED  BY <3>2 DEF NeedClusterLabel
  <2>5. /\ pass' \in Passes /\ pass'.c = c
        /\ pass'.label = NeedClusterLabel(c, q) /\ pass'.then = <<>>
    BY <2>1, <2>2, BusyType
  <2>. QED  BY <2>1, <2>3, <2>4, <2>5 DEF Begins, Live
<1>9. ASSUME NEW c \in fleet.clusters, NEW d \in Ids, NEW t \in Labelling, Live(c),
             \E m \in dep[d].on : ensurePairConfigMap(Pair(m), c),
             pass' = Busy(c, dep[d].on, t)
      PROVE  Begins
  <2>1. dep[d].on \in SUBSET FleetSets
    BY DEF Types, Deps
  <2>2. PICK m \in dep[d].on : ensurePairConfigMap(Pair(m), c)
    BY <1>9
  <2>3. pairOwner'[Pair(m)] = c
    BY <2>1, <2>2, MachineSetParts, PairRecorded
  <2>4. \A k \in dep[d].on : Pair(k) = Pair(m)
    BY <2>2 DEF DepInv, SameLabel
  <2>5. t \notin Cleaning
    <3>1. <<>> \notin Cleaning
      BY DEF Cleaning
    <3>2. <<"undeploy">> \notin Cleaning
      BY DEF Cleaning
    <3>. QED  BY <3>1, <3>2 DEF Labelling
  <2>6. /\ pass' \in Passes /\ pass'.c = c
        /\ pass'.label = dep[d].on /\ pass'.then = t
    BY <1>9, <2>1, BusyType
  <2>. QED  BY <1>9, <2>2, <2>3, <2>4, <2>5, <2>6 DEF Begins, Live
<1>10. ASSUME NEW c \in fleet.clusters, ClaimPlaceholder(c)
       PROVE  Begins
  <2>1. PICK d \in Ids : /\ \E m \in dep[d].on : ensurePairConfigMap(Pair(m), c)
                        /\ pass' = Busy(c, dep[d].on, <<>>)
    BY <1>10, FleetFacts DEF ClaimPlaceholder, nodesFromPlaceholders, PoolIds
  <2>. QED  BY <1>9, <1>10, <2>1 DEF ClaimPlaceholder, Labelling
<1>11. ASSUME NEW c \in fleet.clusters, ClaimOwnPlaceholder(c)
       PROVE  Begins
  <2>1. <<c, 0>> \in Ids
    BY DEF Ids
  <2>. QED  BY <1>9, <1>11, <2>1 DEF ClaimOwnPlaceholder, Placing, Labelling
<1>12. ASSUME NEW c \in fleet.clusters, Place(c)
       PROVE  pass' = Idle \/ Begins
  <2>1. {} \in SUBSET FleetSets /\ <<"undeploy">> \in Labelling \cup Cleaning
    BY DEF Labelling
  <2>2. <<"undeploy">> \notin Cleaning
    BY DEF Cleaning
  <2>3. Live(c) /\ (pass' = Idle \/ pass' = Busy(c, {}, <<"undeploy">>))
    BY <1>12 DEF Place, Placing
  <2>4. pass' # Idle => /\ pass' \in Passes /\ pass'.c = c
                        /\ pass'.label = {} /\ pass'.then = <<"undeploy">>
    BY <2>1, <2>3, BusyType
  <2>. QED  BY <2>2, <2>3, <2>4 DEF Begins, Live
<1>13. CASE \E m \in FleetSets : Vanish(m)
  <2>1. pass = Idle => pass' = Idle
    BY <1>13 DEF Vanish, Idle
  <2>. QED  BY <2>1, <1>3, <1>13
<1>. QED  BY <1>1, <1>2, <1>6, <1>7, <1>8, <1>10, <1>11, <1>12, <1>13, PassSteps, FleetFacts

-----------------------------------------------------------------------------
(* The invariant.                                                          *)

\* The initial state: no cluster, no Node, no placeholder.
LEMMA Initial ==
    ASSUME Init
    PROVE  IInv
<1>1. /\ fleet \in Fleets /\ wanted = fleet.wanted
      /\ hc = [c \in fleet.clusters |-> [phase |-> "absent", holds |-> FALSE, fin |-> FALSE,
                                         size |-> None, selector |-> None]]
      /\ pairOwner = [q \in fleet.pairs |-> None]
      /\ node = [m \in FleetSets |-> Absent]
      /\ dep = [d \in Ids |-> NoDeployment]
      /\ pass = Idle
  BY DEF Init, FleetSets, FleetSizes, Ids
<1>2. wanted \in [FleetSizes -> Nat]
  BY <1>1, FleetsAssumption DEF FleetSizes
<1>3. hc \in [fleet.clusters -> HCs]
  <2>1. [phase |-> "absent", holds |-> FALSE, fin |-> FALSE, size |-> None, selector |-> None] \in HCs
    BY DEF HCs
  <2>. QED  BY <1>1, <2>1
<1>4. /\ pairOwner \in [fleet.pairs -> fleet.clusters \cup {None}]
      /\ node \in [FleetSets -> fleet.clusters \cup {None, Absent}]
  BY <1>1
<1>5. NoDeployment \in Deps /\ NoDeployment.spec.pair = NoPair /\ NoDeployment.on = {}
  <2>1. NoSpec \in Specs
    BY DEF NoSpec, Specs, NoPair
  <2>. QED  BY <2>1 DEF NoDeployment, Deps, NoSpec
<1>6. pass \in Passes
  <2>1. <<>> \in Labelling
    BY DEF Labelling
  <2>. QED  BY <1>1, <2>1 DEF Idle, Passes
<1>7. dep \in [Ids -> Deps] /\ \A d \in Ids : dep[d].spec.pair = NoPair /\ dep[d].on = {}
  BY <1>1, <1>5
<1>8. Types
  BY <1>1, <1>2, <1>3, <1>4, <1>6, <1>7 DEF Types
<1>9. LabelInv
  BY <1>1, <1>8, FleetFacts DEF LabelInv
<1>. QED  BY <1>1, <1>7, <1>8, <1>9 DEF IInv, DepInv, PassInv

\* The types are kept.
LEMMA StepTypes ==
    ASSUME IInv, [Next]_vars
    PROVE  Types'
<1>1. Types /\ DepInv /\ PassInv
  BY DEF IInv
<1>2. fleet' = fleet
  BY FleetKept
<1>3. /\ FleetSizes' = FleetSizes /\ FleetSets' = FleetSets /\ Ids' = Ids
      /\ HCs' = HCs /\ Deps' = Deps /\ Passes' = Passes
  BY <1>2 DEF FleetSizes, FleetSets, Ids, HCs, Specs, Deps, Passes
<1>4. pass' \in Passes
  <2>1. Idle \in Passes
    <3>1. <<>> \in Labelling
      BY DEF Labelling
    <3>. QED  BY <3>1 DEF Idle, Passes
  <2>. QED  BY <1>1, <2>1, PassMoves DEF Continues, Begins
<1>5. pass' # Idle => pass'.c \in fleet.clusters /\ (pass'.label = {} => pass'.then # <<>>)
  BY <1>1, PassMoves DEF Continues, Begins, Types
<1>6. /\ wanted' \in [FleetSizes -> Nat] /\ hc' \in [fleet.clusters -> HCs]
      /\ pairOwner' \in [fleet.pairs -> fleet.clusters \cup {None}]
      /\ node' \in [FleetSets -> fleet.clusters \cup {None, Absent}]
      /\ dep' \in [Ids -> Deps]
  BY <1>1, SizesKept, ClusterTypes, RecordsKept, NodeWrites, DeploymentWrites
<1>7. fleet' \in Fleets
  BY <1>1, <1>2 DEF Types
<1>8. Idle' = Idle
  BY DEF Idle
<1>. QED  BY <1>2, <1>3, <1>4, <1>5, <1>6, <1>7, <1>8 DEF Types

\* A pass still knows why it may do what it has left to do, whatever happened meanwhile.
LEMMA StepPass ==
    ASSUME IInv, [Next]_vars
    PROVE  PassInv'
<1>1. Types /\ DepInv /\ PassInv /\ Types' /\ fleet' = fleet
  BY StepTypes, FleetKept DEF IInv
<1>2. CASE pass' = Idle
  BY <1>2 DEF PassInv, Idle
<1>3. CASE Continues
  <2>1. /\ pass # Idle /\ pass'.c = pass.c /\ pass.c \in fleet.clusters
        /\ pass'.label \subseteq pass.label /\ pass.label \subseteq FleetSets
        /\ pass'.then \in Cleaning => pass.then \in Cleaning
    BY <1>1, <1>3 DEF Continues, Types, Passes
  <2>2. hc'[pass.c].phase # "absent" /\ (hc'[pass.c].phase = "live" => Live(pass.c))
    BY <1>1, <2>1, PhasesAdvance DEF PassInv, Live
  <2>3. pass'.then \in Cleaning => ~Live(pass.c) /\ pass'.label = {}
    BY <1>1, <2>1 DEF PassInv
  <2>4. Live(pass.c) => \A m \in pass'.label : pairOwner'[Pair(m)] = pass.c
    BY <1>1, <2>1, RecordsKept, MachineSetParts DEF PassInv
  <2>5. Cleaning' = Cleaning
    BY DEF Cleaning
  <2>. QED  BY <2>1, <2>2, <2>3, <2>4, <2>5 DEF PassInv, Live, Pair
<1>4. CASE Begins
  <2>1. hc'[pass'.c].phase # "absent" /\ (hc'[pass'.c].phase = "live" => Live(pass'.c))
    BY <1>1, <1>4, PhasesAdvance DEF Begins, Live
  <2>2. Cleaning' = Cleaning
    BY DEF Cleaning
  <2>. QED  BY <1>4, <2>1, <2>2 DEF Begins, PassInv, Live, Pair
<1>. QED  BY <1>1, <1>2, <1>3, <1>4, PassMoves

\* A Node keeps a label only as long as the record that goes with it.
LEMMA StepLabels ==
    ASSUME IInv, [Next]_vars
    PROVE  LabelInv'
<1>1. Types /\ PassInv /\ LabelInv /\ fleet' = fleet /\ FleetSets' = FleetSets
  BY FleetKept DEF IInv, FleetSets, FleetSizes
<1>2. ASSUME NEW m \in FleetSets, node'[m] \in fleet.clusters
      PROVE  /\ hc'[node'[m]].phase # "absent"
             /\ hc'[node'[m]].phase = "live" => pairOwner'[Pair(m)] = node'[m]
  <2>. DEFINE c == node'[m]
  <2>1. Pair(m) \in fleet.pairs
    BY MachineSetParts
  <2>2. hc[c].phase # "absent" /\ (Live(c) => pairOwner[Pair(m)] = c)
    BY <1>1, <1>2, NodeWrites, FleetFacts DEF LabelInv, PassInv
  <2>3. hc'[c].phase # "absent" /\ (hc'[c].phase = "live" => Live(c))
    BY <1>1, <1>2, <2>2, PhasesAdvance DEF Live
  <2>. QED  BY <1>1, <1>2, <2>1, <2>2, <2>3, RecordsKept
<1>. QED  BY <1>1, <1>2 DEF LabelInv, Live, Pair

\* The invariant is inductive.
LEMMA Inductive ==
    ASSUME IInv, [Next]_vars
    PROVE  IInv'
BY StepTypes, StepDeployments, StepPass, StepLabels DEF IInv

\* A Node carries the label of a live cluster only while the ConfigMap of its pair names that
\* cluster, for any fleet and any order of claims, resizes, deletions, lost Nodes and failed
\* passes: ensurePairConfigMap precedes the label patches, and deletePairConfigMaps is reached
\* only for clusters that are being deleted.
THEOREM LabelsRecorded == Spec => []LabelIsRecorded
<1>1. Init => IInv
  BY Initial
<1>2. IInv /\ [Next]_vars => IInv'
  BY Inductive
<1>3. IInv => LabelIsRecorded
  <2>. SUFFICES ASSUME IInv, NEW m \in Labelled, Live(node[m])
                PROVE  pairOwner[Pair(m)] = node[m]
    BY DEF LabelIsRecorded
  <2>1. m \in FleetSets /\ node[m] \in fleet.clusters
    BY FleetFacts DEF IInv, Types, Labelled, Present
  <2>. QED  BY <2>1 DEF IInv, LabelInv
<1>. QED  BY <1>1, <1>2, <1>3, PTL DEF Spec

\* The descaler's decision spares the Nodes that serve a live cluster, unless their pair still
\* holds a Node left over from a cluster that is being deleted or gone: a live cluster whose
\* surplus Nodes hostedClusterMachineSetsToScaleDown lists is the one the pair is recorded for.
THEOREM ServingKept == Spec => ServingNodesKept
<1>1. Init => IInv
  BY Initial
<1>2. IInv /\ [Next]_vars => IInv'
  BY Inductive
<1>3. ASSUME IInv, [Next]_vars, NEW m \in downs' \ downs, Serves(m)
      PROVE  \E n \in Labelled : Pair(n) = Pair(m) /\ ~Live(node[n])
  <2>1. PICK n \in MachineSets : Descale(n)
    <3>1. UNCHANGED downs \/ ScaleDown \/ \E n \in MachineSets : Descale(n)
      BY <1>3
         DEF Next, vars, CreateCluster, Resize, DeleteCluster, TornDown, DropPlaceholders,
             AddFinalizer, CleanUp, Backfill, ClaimPlaceholder, Place, ensurePlaceholderDeployment,
             ClaimOwnPlaceholder, ensureHostedClusterLabelAndTaint, deletePlaceholderDeployment,
             deletePairConfigMaps, RemoveFinalizer, PassFails, Reconcile, PassStep,
             placeholderCreator, placeholderUpdater, SchedulePod, NodeUp, Vanish, NodeDown,
             NodeLost, Autoscale, clusterVars, scheduled, pooled
    <3>. QED  BY <3>1, <1>3 DEF ScaleDown
  <2>2. Types /\ LabelInv /\ n \in Labelled
    BY <1>3, <2>1 DEF IInv, Descale
  <2>3. CASE hc[node[n]].phase = "gone"
    <3>1. m \in nodeMachineSetsToScaleDown(n)
      BY <1>3, <2>1, <2>3 DEF Descale
    <3>. QED  BY <2>2, <2>3, <3>1 DEF nodeMachineSetsToScaleDown, PairNodes, Live
  <2>4. CASE hc[node[n]].phase # "gone"
    <3>. DEFINE c == node[n]
    <3>1. PICK q \in Pairs(LabelledFor(c)) : m \in hostedClusterMachineSetsToScaleDown(c, q)
      BY <1>3, <2>1, <2>4 DEF Descale
    <3>2. PICK k \in LabelledFor(c) : Pair(k) = q
      BY DEF Pairs
    <3>3. m \in PairNodes(q) \ ActiveNodes(c, q)
      BY <3>1 DEF hostedClusterMachineSetsToScaleDown
    <3>4. /\ m \in FleetSets /\ Pair(m) = q /\ k \in FleetSets /\ node[k] = c
          /\ c \in fleet.clusters /\ k \in Labelled
      BY <2>2, <3>2, <3>3, FleetFacts DEF PairNodes, Present, Labelled, LabelledFor, Types
    <3>5. ~Live(c)
      <4>1. SUFFICES ASSUME Live(c) PROVE FALSE
        OBVIOUS
      <4>2. pairOwner[q] = c /\ pairOwner[q] = node[m]
        BY <1>3, <2>2, <3>2, <3>4, <4>1 DEF LabelInv, Serves
      <4>3. Size(m) = hc[c].selector
        BY <1>3, <4>2 DEF Serves
      <4>. QED  BY <3>3, <4>3 DEF ActiveNodes
    <3>. QED  BY <3>2, <3>4, <3>5
  <2>. QED  BY <2>3, <2>4
<1>4. IInv /\ [Next]_vars =>
        [\A m \in downs' \ downs :
            Serves(m) => \E n \in Labelled : Pair(n) = Pair(m) /\ ~Live(node[n])]_vars
  BY <1>3
<1>. QED  BY <1>1, <1>2, <1>4, PTL DEF Spec, ServingNodesKept


-----------------------------------------------------------------------------
(* Machines, Nodes and the pods on them.                                   *)

\* A Node without replicas is on its way out, pods run on Nodes that exist, and so are the Nodes
\* that the pass under way may still patch: a Node that went is no longer the one it read.
MachineInv ==
    /\ replicas \in [FleetSets -> 0 .. 1]
    /\ doomed \subseteq Present
    /\ \A m \in Present : replicas[m] = 0 => m \in doomed
    /\ downs \subseteq FleetSets
    /\ \A d \in Ids : dep[d].on \subseteq Present
    /\ pass.label \ pass.lost \subseteq Present

\* What is counted: the pods a placeholder asks for, resizes and faults.
CountInv ==
    /\ \A d \in Ids : dep[d].spec.n \in 0 .. 2
    /\ resizes \in 0 .. fleet.resizes /\ faults \in 0 .. fleet.faults

\* The Nodes there are, by the fleet's MachineSets.
LEMMA PresentNodes ==
    ASSUME Types
    PROVE  Present = {m \in FleetSets : node[m] # Absent}
BY FleetFacts DEF Present

\* The same after a step.
LEMMA PresentAfter ==
    ASSUME Types, [Next]_vars
    PROVE  Present' = {m \in FleetSets : node'[m] # Absent}
BY NodeWrites DEF Present, MachineSets

\* Steps that scale MachineSets, decide to, or delete Machines.
LEMMA ScaleSteps ==
    ASSUME [Next]_vars
    PROVE  \/ UNCHANGED <<replicas, doomed, downs>>
           \/ Autoscale \/ ScaleDown
           \/ \E m \in MachineSets : Descale(m) \/ Vanish(m)
<1> DEFINE Kept == UNCHANGED <<replicas, doomed, downs>>
<1>1. ASSUME NEW c \in fleet.clusters,
             CreateCluster(c) \/ Resize(c) \/ DeleteCluster(c) \/ TornDown(c)
      PROVE  Kept
  BY <1>1 DEF CreateCluster, Resize, DeleteCluster, TornDown, clusterVars
<1>2. ASSUME NEW c \in fleet.clusters, Reconcile(c)
      PROVE  Kept
  BY <1>2
  DEF Reconcile, AddFinalizer, CleanUp, Backfill, ClaimPlaceholder, Place,
      ensurePlaceholderDeployment, ClaimOwnPlaceholder, clusterVars, scheduled, pooled, scaling
<1>3. ASSUME NEW s, DropPlaceholders(s) \/ placeholderCreator(s) \/ placeholderUpdater(s)
      PROVE  Kept
  BY <1>3
  DEF DropPlaceholders, placeholderCreator, placeholderUpdater, clusterVars, scheduled, pooled,
      scaling
<1>4. ASSUME NEW d, NEW m, SchedulePod(d, m)
      PROVE  Kept
  BY <1>4 DEF SchedulePod, clusterVars, scheduled, pooled, scaling
<1>5. ASSUME NEW m \in MachineSets, NodeUp(m) \/ NodeDown(m) \/ NodeLost(m)
      PROVE  Kept \/ Vanish(m)
  BY <1>5 DEF NodeUp, NodeDown, NodeLost, clusterVars, scheduled, pooled, scaling
<1>6. ASSUME PassStep \/ PassFails
      PROVE  Kept
  BY <1>6
  DEF PassStep, ensureHostedClusterLabelAndTaint, deletePlaceholderDeployment,
      deletePairConfigMaps, RemoveFinalizer, PassFails, clusterVars, scheduled, pooled, scaling
<1>7. CASE UNCHANGED vars
  BY <1>7 DEF vars
<1> HIDE DEF Kept
<1>8. \/ Kept \/ Autoscale \/ ScaleDown
      \/ \E m \in MachineSets : Descale(m) \/ Vanish(m)
  BY Zenon, <1>1, <1>2, <1>3, <1>4, <1>5, <1>6, <1>7 DEF Next, Kept
<1> QED BY Zenon, <1>8 DEF Kept

\* A Machine that goes takes its Node along, and no other.
LEMMA VanishPresent ==
    ASSUME Types, [Next]_vars, NEW m \in FleetSets, Vanish(m)
    PROVE  Present' = Present \ {m}
BY PresentNodes, PresentAfter DEF Vanish, Types

\* Otherwise Nodes only come, each for a replica: the label patch finds the Node it read or fails.
LEMMA NodesStay ==
    ASSUME Types, MachineInv, [Next]_vars, ~ \E m \in FleetSets : Vanish(m)
    PROVE  \/ Present' = Present
           \/ \E m \in FleetSets : NodeUp(m) /\ Present' = Present \cup {m}
<1>1. CASE UNCHANGED node
  BY <1>1, PresentNodes, PresentAfter
<1>2. ASSUME NEW m \in FleetSets, ensureHostedClusterLabelAndTaint(m)
      PROVE  Present' = Present
  <2>1. CASE m \in pass.lost
    BY <1>2, <2>1, PresentNodes, PresentAfter DEF ensureHostedClusterLabelAndTaint
  <2>2. CASE m \notin pass.lost
    <3>1. m \in Present
      BY <1>2, <2>2 DEF ensureHostedClusterLabelAndTaint, MachineInv
    <3>2. node' = [node EXCEPT ![m] = pass.c]
      BY <1>2, <2>2 DEF ensureHostedClusterLabelAndTaint
    <3>3. pass.c # Absent
      BY <1>2, FleetFacts DEF ensureHostedClusterLabelAndTaint, Types
    <3>. QED  BY <3>1, <3>2, <3>3, PresentNodes, PresentAfter DEF Types
  <2>. QED  BY <2>1, <2>2
<1>3. ASSUME NEW m \in FleetSets, NodeUp(m)
      PROVE  Present' = Present \cup {m}
  BY <1>3, PresentNodes, PresentAfter DEF NodeUp, Types, None, Absent
<1>. QED  BY <1>1, <1>2, <1>3, NodeSteps, FleetFacts

\* Every Node whose MachineSet has no replica is being deleted, after every step.
LEMMA StepMachines ==
    ASSUME Types, MachineInv, [Next]_vars
    PROVE  /\ replicas' \in [FleetSets -> 0 .. 1]
           /\ doomed' \subseteq Present'
           /\ \A m \in Present' : replicas'[m] = 0 => m \in doomed'
           /\ downs' \subseteq FleetSets
<1>0. Present \subseteq FleetSets /\ MachineSets = FleetSets
  BY PresentNodes, FleetFacts
<1>1. ASSUME NEW m \in FleetSets, Vanish(m)
      PROVE  /\ replicas' = replicas /\ downs' = downs
             /\ doomed' = doomed \ {m} /\ Present' = Present \ {m}
  BY <1>1, VanishPresent DEF Vanish
<1>2. ASSUME NEW m \in FleetSets, NodeUp(m)
      PROVE  /\ replicas' = replicas /\ downs' = downs /\ doomed' = doomed
             /\ replicas[m] = 1
  BY <1>2 DEF NodeUp
<1>3. ASSUME Autoscale \/ ScaleDown \/ \E m \in MachineSets : Descale(m)
      PROVE  Present' = Present
  BY <1>3, PresentNodes, PresentAfter DEF Autoscale, ScaleDown, Descale, scaling
<1>4. CASE Autoscale
  <2>1. /\ doomed' = doomed /\ downs' = downs
        /\ replicas' = [m \in FleetSets |-> IF m \in machineSetsToScaleUp THEN 1 ELSE replicas[m]]
    BY <1>0, <1>4 DEF Autoscale
  <2>. QED  BY <1>0, <1>3, <1>4, <2>1 DEF MachineInv
<1>5. CASE ScaleDown
  <2>1. /\ doomed' = doomed \cup (downs \cap Present) /\ downs' = {}
        /\ replicas' = [m \in FleetSets |-> IF m \in downs THEN 0 ELSE replicas[m]]
    BY <1>0, <1>5 DEF ScaleDown
  <2>. QED  BY <1>0, <1>3, <1>5, <2>1 DEF MachineInv
<1>6. ASSUME NEW n \in FleetSets, Descale(n)
      PROVE  downs' \subseteq FleetSets /\ replicas' = replicas /\ doomed' = doomed
  BY <1>0, <1>6 DEF Descale, nodeMachineSetsToScaleDown, hostedClusterMachineSetsToScaleDown, PairNodes
<1>7. CASE \E n \in FleetSets : Descale(n)
  BY <1>0, <1>3, <1>6, <1>7 DEF MachineInv
<1>8. CASE \E m \in FleetSets : Vanish(m)
  BY <1>1, <1>8 DEF MachineInv
<1>9. CASE UNCHANGED <<replicas, doomed, downs>> /\ ~ \E m \in FleetSets : Vanish(m)
  <2>1. CASE Present' = Present
    BY <1>9, <2>1 DEF MachineInv
  <2>2. CASE \E m \in FleetSets : NodeUp(m) /\ Present' = Present \cup {m}
    BY <1>2, <2>2 DEF MachineInv
  <2>. QED  BY <1>9, <2>1, <2>2, NodesStay
<1>. QED  BY <1>0, <1>4, <1>5, <1>7, <1>8, <1>9, ScaleSteps


\* Pods run on Nodes that exist, after every step.
LEMMA StepPods ==
    ASSUME Types, DepInv, MachineInv, [Next]_vars
    PROVE  \A d \in Ids : dep'[d].on \subseteq Present'
<1>1. ASSUME NEW m \in FleetSets, Vanish(m), NEW d \in Ids
      PROVE  dep'[d].on \subseteq Present'
  <2>1. Present' = Present \ {m}
    BY <1>1, VanishPresent
  <2>2. dep' = [e \in Ids |-> [dep[e] EXCEPT !.on = @ \ {m}]]
    BY <1>1, FleetFacts DEF Vanish
  <2>3. dep[d] \in Deps
    BY DEF Types
  <2>4. dep'[d].on = dep[d].on \ {m}
    BY <2>2, <2>3 DEF Deps
  <2>. QED  BY <2>1, <2>4 DEF MachineInv
<1>2. ASSUME NEW d \in Ids, NEW m \in FleetSets, SchedulePod(d, m)
      PROVE  \A e \in Ids : dep'[e].on \subseteq Present
  <2>1. m \in Present
    BY <1>2, PresentNodes DEF SchedulePod, Fits, None, Absent
  <2>2. \A e \in Ids : dep'[e].on \subseteq dep[e].on \cup {m}
    BY <1>2, ScheduledTogether
  <2>. QED  BY <2>1, <2>2 DEF MachineInv
<1>3. NoPodGained => \A e \in Ids : dep'[e].on \subseteq Present
  BY DEF NoPodGained, MachineInv
<1>4. ~(\E m \in FleetSets : Vanish(m)) => Present \subseteq Present'
  BY NodesStay
<1>. QED  BY <1>1, <1>2, <1>3, <1>4, DeploymentWrites

\* A pass that begins lists Nodes that exist.
LEMMA NewPassNodes ==
    ASSUME Types, MachineInv, NEW c \in fleet.clusters,
           CleanUp(c) \/ Backfill(c) \/ ClaimPlaceholder(c) \/ Place(c) \/ ClaimOwnPlaceholder(c)
    PROVE  pass'.label \subseteq Present
<1>1. \A L, t : Busy(c, L, t).label = L
  BY DEF Busy
<1>2. ASSUME CleanUp(c) \/ Place(c)
      PROVE  pass'.label = {}
  BY <1>1, <1>2 DEF CleanUp, Place, Idle
<1>3. ASSUME Backfill(c)
      PROVE  pass'.label \subseteq Present
  <2>1. PICK q : pass' = Busy(c, NeedClusterLabel(c, q), <<>>)
    BY <1>3 DEF Backfill
  <2>2. NeedClusterLabel(c, q) \subseteq Present
    BY PresentNodes, FleetFacts DEF NeedClusterLabel, None, Absent
  <2>. QED  BY <1>1, <2>1, <2>2
<1>4. ASSUME ClaimPlaceholder(c) \/ ClaimOwnPlaceholder(c)
      PROVE  \E d \in Ids : pass'.label = dep[d].on
  <2>1. <<c, 0>> \in Ids
    BY DEF Ids
  <2>2. ASSUME ClaimPlaceholder(c)
        PROVE  \E d \in Ids : pass' = Busy(c, dep[d].on, <<>>)
    BY <2>2, FleetFacts DEF ClaimPlaceholder, nodesFromPlaceholders, PoolIds
  <2>3. ASSUME ClaimOwnPlaceholder(c)
        PROVE  pass' = Busy(c, dep[<<c, 0>>].on, <<"undeploy">>)
    BY <2>3 DEF ClaimOwnPlaceholder
  <2>. QED  BY <1>1, <1>4, <2>1, <2>2, <2>3
<1>. QED  BY <1>2, <1>3, <1>4 DEF MachineInv

\* A pass that goes on lists no further Node, and remembers the ones it lost.
LEMMA OldPassNodes ==
    ASSUME Types, PassStep
    PROVE  pass'.label \subseteq pass.label /\ (pass'.label # {} => pass'.lost = pass.lost)
<1>1. ASSUME NEW m, ensureHostedClusterLabelAndTaint(m)
      PROVE  pass' = Idle \/ pass' = [pass EXCEPT !.label = @ \ {m}]
  BY <1>1 DEF ensureHostedClusterLabelAndTaint
<1>2. ASSUME NEW op, Then(op), Advance
      PROVE  pass' = Idle \/ pass' = [pass EXCEPT !.then = Tail(@)]
  BY <1>2 DEF Advance
<1>3. pass \in Passes /\ Idle.label = {}
  BY DEF Types, Idle
<1>4. \A m : LET o == [pass EXCEPT !.label = @ \ {m}]
             IN  o.label \subseteq pass.label /\ o.lost = pass.lost
  BY <1>3 DEF Passes
<1>5. LET o == [pass EXCEPT !.then = Tail(@)]
      IN  o.label = pass.label /\ o.lost = pass.lost
  BY <1>3 DEF Passes
<1>. QED
  BY <1>1, <1>2, <1>3, <1>4, <1>5
     DEF PassStep, deletePlaceholderDeployment, deletePairConfigMaps, RemoveFinalizer

\* The Nodes a pass may still patch exist, after every step.
LEMMA StepPassNodes ==
    ASSUME Types, MachineInv, [Next]_vars
    PROVE  pass'.label \ pass'.lost \subseteq Present'
<1>1. ASSUME NEW m \in FleetSets, Vanish(m)
      PROVE  pass'.label \ pass'.lost \subseteq Present'
  <2>1. Present' = Present \ {m}
    BY <1>1, VanishPresent
  <2>2. CASE m \notin pass.label
    BY <1>1, <2>1, <2>2 DEF Vanish, MachineInv
  <2>3. CASE m \in pass.label
    <3>1. pass' = [pass EXCEPT !.lost = @ \cup {m}]
      BY <1>1, <2>3 DEF Vanish
    <3>2. pass'.label = pass.label /\ pass'.lost = pass.lost \cup {m}
      BY <3>1 DEF Types, Passes
    <3>. QED  BY <2>1, <3>2 DEF MachineInv
  <2>. QED  BY <2>2, <2>3
<1>2. CASE ~ \E m \in FleetSets : Vanish(m)
  <2>1. Present \subseteq Present'
    BY <1>2, NodesStay
  <2>2. CASE UNCHANGED pass
    BY <2>1, <2>2 DEF MachineInv
  <2>3. CASE PassFails
    BY <2>3 DEF PassFails, Idle
  <2>4. CASE PassStep
    BY <2>1, <2>4, OldPassNodes DEF MachineInv
  <2>5. CASE \E c \in fleet.clusters : \/ CleanUp(c) \/ Backfill(c) \/ ClaimPlaceholder(c)
                                       \/ Place(c) \/ ClaimOwnPlaceholder(c)
    BY <2>1, <2>5, NewPassNodes
  <2>. QED  BY <1>2, <2>2, <2>3, <2>4, <2>5, PassSteps, FleetFacts
<1>. QED  BY <1>1, <1>2


\* A cluster's placeholder asks for the zones that have no Node for it: there are two zones.
LEMMA ZonesMissing ==
    ASSUME Types, NEW c, NEW q
    PROVE  2 - Cardinality(GoalZones(c, q)) \in 0 .. 2
<1>1. GoalZones(c, q) \subseteq Zones
  BY FleetFacts, MachineSetParts DEF GoalZones, GoalNodes, LabelledFor
<1>2. IsFiniteSet(Zones) /\ Cardinality(Zones) = 2
  <2>1. IsFiniteSet({1}) /\ Cardinality({1}) = 1
    BY FS_Singleton
  <2>2. Zones = {1} \cup {2} /\ 2 \notin {1}
    BY DEF Zones
  <2>. QED  BY <2>1, <2>2, FS_AddElement
<1>3. Cardinality(GoalZones(c, q)) <= 2
  BY <1>1, <1>2, FS_Subset
<1>. QED  BY <1>3, ZonesCounted

\* No placeholder ever asks for more than two pods.
LEMMA StepReplicasAsked ==
    ASSUME Types, DepInv, CountInv, [Next]_vars
    PROVE  \A d \in Ids : dep'[d].spec.n \in 0 .. 2
<1>0. dep \in [Ids -> Deps] /\ dep' \in [Ids -> Deps]
  BY DeploymentWrites DEF Types
<1>1. CASE UNCHANGED dep
  BY <1>1 DEF CountInv
<1>2. ASSUME NEW d, NEW s, s.n \in 0 .. 2, Deploy(d, s)
      PROVE  \A e \in Ids : dep'[e].spec.n \in 0 .. 2
  <2>1. PICK keep : dep' = [dep EXCEPT ![d] = [spec |-> s, on |-> keep]]
    BY <1>2 DEF Deploy
  <2>2. \A e \in Ids : dep'[e].spec = s \/ dep'[e].spec = dep[e].spec
    BY <1>0, <2>1
  <2>. QED  BY <1>2, <2>2 DEF CountInv
<1>3. ASSUME NEW d, dep' = [dep EXCEPT ![d] = NoDeployment]
      PROVE  \A e \in Ids : dep'[e].spec.n \in 0 .. 2
  <2>1. NoDeployment.spec.n = 0
    BY DEF NoDeployment, NoSpec
  <2>2. \A e \in Ids : dep'[e] = NoDeployment \/ dep'[e] = dep[e]
    BY <1>0, <1>3
  <2>. QED  BY <2>1, <2>2 DEF CountInv
<1>4. \A s : PoolSpec(s).n = 2
  BY DEF PoolSpec
<1>5. \A c, q : DesiredSpec(c, q).n \in 0 .. 2
  BY ZonesMissing DEF DesiredSpec
<1>6. ASSUME NEW c \in fleet.clusters, ensurePlaceholderDeployment(c)
      PROVE  \A e \in Ids : dep'[e].spec.n \in 0 .. 2
  BY <1>2, <1>5, <1>6 DEF ensurePlaceholderDeployment
<1>7. ASSUME NEW s \in Sizes, placeholderCreator(s)
      PROVE  \A e \in Ids : dep'[e].spec.n \in 0 .. 2
  BY <1>2, <1>4, <1>7 DEF placeholderCreator
<1>8. ASSUME NEW d \in DeploymentIds, placeholderUpdater(d)
      PROVE  \A e \in Ids : dep'[e].spec.n \in 0 .. 2
  <2>1. dep' = [dep EXCEPT ![d] = NoDeployment] \/ Deploy(d, PoolSpec(d[1]))
    BY <1>8 DEF placeholderUpdater
  <2>. QED  BY <1>2, <1>3, <1>4, <2>1
<1>9. ASSUME NEW m \in MachineSets, Vanish(m)
      PROVE  \A e \in Ids : dep'[e].spec.n \in 0 .. 2
  <2>1. \A e \in Ids : dep'[e] = [dep[e] EXCEPT !.on = @ \ {m}]
    BY <1>9, FleetFacts DEF Vanish
  <2>2. \A o \in Deps : [o EXCEPT !.on = @ \ {m}].spec = o.spec
    BY DEF Deps
  <2>3. \A e \in Ids : dep'[e].spec = dep[e].spec
    BY <1>0, <2>1, <2>2
  <2>. QED  BY <2>3 DEF CountInv
<1>10. CASE \E d \in Ids, m \in FleetSets : SchedulePod(d, m)
  BY <1>10, ScheduledTogether DEF CountInv
<1>11. CASE deletePlaceholderDeployment
  BY <1>3, <1>11 DEF deletePlaceholderDeployment
<1>. QED  BY <1>1, <1>6, <1>7, <1>8, <1>9, <1>10, <1>11, DeploymentSteps, FleetFacts

\* Resizes and faults stay within what the fleet allows.
LEMMA StepBudgets ==
    ASSUME Types, CountInv, [Next]_vars
    PROVE  resizes' \in 0 .. fleet.resizes /\ faults' \in 0 .. fleet.faults
<1>1. fleet.resizes \in Nat /\ fleet.faults \in Nat
  BY FleetsAssumption DEF Types
<1>2. \/ resizes' = resizes
      \/ resizes < fleet.resizes /\ resizes' = resizes + 1
  BY DEF Next, vars, CreateCluster, Resize, DeleteCluster, TornDown, DropPlaceholders, AddFinalizer,
         CleanUp, Backfill, ClaimPlaceholder, Place, ensurePlaceholderDeployment,
         ClaimOwnPlaceholder, ensureHostedClusterLabelAndTaint, deletePlaceholderDeployment,
         deletePairConfigMaps, RemoveFinalizer, PassFails, Reconcile, PassStep, placeholderCreator,
         placeholderUpdater, SchedulePod, NodeUp, Vanish, NodeDown, NodeLost, Autoscale, Descale,
         ScaleDown, clusterVars, scheduled, pooled, scaling
<1>3. \/ faults' = faults
      \/ faults < fleet.faults /\ faults' = faults + 1
  BY DEF Next, vars, CreateCluster, Resize, DeleteCluster, TornDown, DropPlaceholders, AddFinalizer,
         CleanUp, Backfill, ClaimPlaceholder, Place, ensurePlaceholderDeployment,
         ClaimOwnPlaceholder, ensureHostedClusterLabelAndTaint, deletePlaceholderDeployment,
         deletePairConfigMaps, RemoveFinalizer, PassFails, Reconcile, PassStep, placeholderCreator,
         placeholderUpdater, SchedulePod, NodeUp, Vanish, NodeDown, NodeLost, Autoscale, Descale,
         ScaleDown, clusterVars, scheduled, pooled, scaling
<1>. QED  BY <1>1, <1>2, <1>3 DEF CountInv

FleetInv == IInv /\ MachineInv /\ CountInv

\* The inductive step for the fleet.
LEMMA FleetNext ==
    ASSUME FleetInv, [Next]_vars
    PROVE  FleetInv'
<1>1. Types /\ DepInv /\ MachineInv /\ CountInv /\ IInv
  BY DEF FleetInv, IInv
<1>2. fleet' = fleet /\ Ids' = Ids /\ FleetSets' = FleetSets
  BY FleetKept DEF Ids, FleetSets, FleetSizes
<1>3. IInv'
  BY <1>1, Inductive
<1>4. MachineInv'
  BY <1>1, <1>2, StepMachines, StepPods, StepPassNodes DEF MachineInv
<1>5. CountInv'
  BY <1>1, <1>2, StepReplicasAsked, StepBudgets DEF CountInv
<1>. QED  BY <1>3, <1>4, <1>5 DEF FleetInv

\* The invariant holds in a management cluster without Nodes and HostedClusters.
LEMMA FleetInit ==
    ASSUME Init
    PROVE  FleetInv
<1>1. IInv /\ Types
  BY Initial DEF IInv
<1>2. Present = {}
  BY <1>1, PresentNodes DEF Init, FleetSets, FleetSizes
<1>3. \A d \in Ids : dep[d] = NoDeployment
  BY DEF Init, Ids, FleetSizes
<1>4. \A d \in Ids : dep[d].on = {} /\ dep[d].spec.n = 0
  <2>1. NoDeployment.on = {} /\ NoDeployment.spec.n = 0
    BY DEF NoDeployment, NoSpec
  <2>. QED  BY <1>3, <2>1
<1>5. MachineSets = FleetSets /\ fleet.resizes \in Nat /\ fleet.faults \in Nat
  BY <1>1, FleetFacts, FleetsAssumption DEF Types
<1>0. /\ replicas = [m \in MachineSets |-> 0] /\ doomed = {} /\ downs = {}
      /\ pass = Idle /\ resizes = 0 /\ faults = 0
  BY DEF Init
<1>6. MachineInv
  <2>1. Idle.label = {}
    BY DEF Idle
  <2>2. replicas \in [FleetSets -> 0 .. 1]
    BY <1>0, <1>5
  <2>. QED  BY <1>0, <1>2, <1>4, <2>1, <2>2 DEF MachineInv
<1>7. CountInv
  BY <1>0, <1>4, <1>5 DEF CountInv
<1>. QED  BY <1>1, <1>6, <1>7 DEF FleetInv

\* The invariant says more than the types.
LEMMA FleetTyped ==
    ASSUME FleetInv
    PROVE  TypeOK
<1>1. Types /\ MachineInv /\ CountInv
  BY DEF FleetInv, IInv
<1>2. Sizes = FleetSizes /\ MachineSets = FleetSets /\ DeploymentIds = Ids
  BY <1>1, FleetFacts
<1>3. pass.c = None => pass = Idle
  BY <1>1, FleetFacts DEF Types
<1>4. \A c \in fleet.clusters : hc[c] \in HCs
  BY <1>1 DEF Types
<1>. QED  BY <1>1, <1>2, <1>3, <1>4 DEF TypeOK, Types, HCs, MachineInv, CountInv

\* In every fleet, a Node whose MachineSet has no replica is being deleted, placeholder pods run
\* on Nodes that exist and never more than two are asked for, whatever Nodes are lost while a
\* pass is half-way: ensureHostedClusterLabelAndTaint patches only the Node that was read, so a
\* pass never brings back a Node that went.
THEOREM NodesAccounted == Spec => []TypeOK
<1>1. Init => FleetInv
  BY FleetInit
<1>2. FleetInv /\ [Next]_vars => FleetInv'
  BY FleetNext
<1>3. FleetInv => TypeOK
  BY FleetTyped
<1>. QED  BY <1>1, <1>2, <1>3, PTL DEF Spec


-----------------------------------------------------------------------------
(* What a HostedCluster leaves behind.                                     *)

\* The cluster has the scheduler's finalizer and is still there.
Holding(c) == hc[c].fin /\ hc[c].phase \in {"live", "deleting"}

\* The clean-up of the cluster has only the given operations left.
CleanedUpTo(c, ops) == pass # Idle /\ pass.c = c /\ pass.then \in ops

\* Whatever the scheduler wrote for a cluster, its finalizer guards; the clean-up takes it away
\* before it comes to the finalizer.
LeftInv ==
    /\ \A q \in fleet.pairs : pairOwner[q] \in fleet.clusters =>
          Holding(pairOwner[q]) /\ ~CleanedUpTo(pairOwner[q], {<<"release">>})
    /\ \A c \in fleet.clusters : Exists(<<c, 0>>) =>
          Holding(c) /\ ~CleanedUpTo(c, {<<"unpair", "release">>, <<"release">>})

\* A cluster that is gone has left no ConfigMap of a pair, and no placeholder of its own.
NothingLeft ==
    \A c \in fleet.clusters : hc[c].phase = "gone" =>
        ~Exists(<<c, 0>>) /\ \A q \in fleet.pairs : pairOwner[q] # c

\* The finalizer of a cluster goes last.
LEMMA FinalizerStays ==
    ASSUME Types, [Next]_vars, NEW c \in fleet.clusters, Holding(c)
    PROVE  \/ hc'[c].fin /\ hc'[c].phase \in {"live", "deleting"}
           \/ RemoveFinalizer /\ c = pass.c
<1>0. hc \in [fleet.clusters -> HCs] /\ hc[c] \in HCs
  BY DEF Types
<1>1. CASE UNCHANGED hc
  BY <1>1 DEF Holding
<1>2. ASSUME NEW e \in fleet.clusters, CreateCluster(e)
      PROVE  hc'[c] = hc[c]
  <2>1. c # e
    BY <1>2 DEF CreateCluster, Holding
  <2>. QED  BY <1>0, <1>2, <2>1 DEF CreateCluster
<1>3. ASSUME NEW e \in fleet.clusters, Resize(e) \/ AddFinalizer(e) \/ Place(e)
      PROVE  hc'[c].phase = hc[c].phase /\ (hc'[c].fin = hc[c].fin \/ hc'[c].fin = TRUE)
  BY <1>0, <1>3 DEF Resize, AddFinalizer, Place, HCs
<1>4. ASSUME NEW e \in fleet.clusters, DeleteCluster(e)
      PROVE  hc'[c].phase \in {hc[c].phase, "deleting"} /\ hc'[c].fin = hc[c].fin
  BY <1>0, <1>4 DEF DeleteCluster, HCs
<1>5. ASSUME NEW e \in fleet.clusters, TornDown(e)
      PROVE  hc'[c].phase = hc[c].phase /\ hc'[c].fin = hc[c].fin
  BY <1>0, <1>5 DEF TornDown, HCs, Holding
<1>6. CASE RemoveFinalizer /\ c # pass.c
  BY <1>0, <1>6 DEF RemoveFinalizer, HCs, Holding
<1>. QED  BY <1>1, <1>2, <1>3, <1>4, <1>5, <1>6, ClusterSteps DEF Holding

\* The operations left to a clean-up, one by one.
LEMMA CleanUpOrder ==
    ASSUME Types, [Next]_vars, pass' # Idle,
           pass'.then \in {<<"unpair", "release">>, <<"release">>}
    PROVE  /\ pass # Idle /\ pass'.c = pass.c
           /\ \/ pass'.then = pass.then
              \/ deletePlaceholderDeployment /\ pass'.then = <<"unpair", "release">>
              \/ deletePairConfigMaps /\ pass'.then = <<"release">>
<1>0. pass \in Passes /\ Idle.then = <<>> /\ \A c, L, t : Busy(c, L, t).then = t
  BY DEF Types, Idle, Busy
<1>1. /\ <<>> \notin {<<"unpair", "release">>, <<"release">>}
      /\ <<"undeploy">> \notin {<<"unpair", "release">>, <<"release">>}
      /\ <<"undeploy", "unpair", "release">> \notin {<<"unpair", "release">>, <<"release">>}
  OBVIOUS
<1>2. CASE UNCHANGED pass
  BY <1>2
<1>3. ASSUME NEW c \in fleet.clusters,
             CleanUp(c) \/ Backfill(c) \/ ClaimPlaceholder(c) \/ Place(c) \/ ClaimOwnPlaceholder(c)
      PROVE  pass' = Idle \/ pass'.then \in {<<>>, <<"undeploy">>, <<"undeploy", "unpair", "release">>}
  BY <1>0, <1>3 DEF CleanUp, Backfill, ClaimPlaceholder, Place, ClaimOwnPlaceholder
<1>4. ASSUME NEW m, Vanish(m)
      PROVE  pass'.c = pass.c /\ pass'.then = pass.then /\ (pass = Idle => pass' = Idle)
  <2>1. CASE m \notin pass.label
    BY <1>4, <2>1 DEF Vanish
  <2>2. CASE m \in pass.label
    <3>1. pass' = [pass EXCEPT !.lost = @ \cup {m}] /\ pass # Idle
      BY <1>4, <2>2 DEF Vanish, Idle
    <3>. QED  BY <1>0, <3>1 DEF Passes
  <2>. QED  BY <2>1, <2>2
<1>5. ASSUME NEW m, ensureHostedClusterLabelAndTaint(m)
      PROVE  pass # Idle /\ pass'.c = pass.c /\ pass'.then = pass.then
  BY <1>0, <1>5 DEF ensureHostedClusterLabelAndTaint, Passes
<1>6. ASSUME NEW op, Then(op), Advance
      PROVE  /\ pass # Idle /\ pass'.c = pass.c /\ Len(pass.then) # 1
             /\ pass'.then = Tail(pass.then) /\ pass.then \in Cleaning
  <2>1. pass # Idle /\ pass.then # <<>> /\ pass.then \in Labelling \cup Cleaning
    BY <1>0, <1>6 DEF Then, Types, Passes
  <2>2. Len(pass.then) # 1 /\ pass' = [pass EXCEPT !.then = Tail(@)]
    BY <1>6 DEF Advance
  <2>. QED  BY <1>0, <2>1, <2>2, Tails DEF Passes
<1>7. ASSUME NEW t \in Cleaning, Len(t) # 1
      PROVE  \/ Head(t) = "undeploy" /\ Tail(t) = <<"unpair", "release">>
             \/ Head(t) = "unpair" /\ Tail(t) = <<"release">>
  <2>1. /\ Head(<<"undeploy", "unpair", "release">>) = "undeploy"
        /\ Tail(<<"undeploy", "unpair", "release">>) = <<"unpair", "release">>
        /\ Head(<<"unpair", "release">>) = "unpair" /\ Tail(<<"unpair", "release">>) = <<"release">>
        /\ Len(<<"release">>) = 1
    OBVIOUS
  <2>. QED  BY <1>7, <2>1 DEF Cleaning
<1>8. CASE PassStep
  <2>1. CASE \E m \in MachineSets : ensureHostedClusterLabelAndTaint(m)
    BY <1>5, <2>1
  <2>2. CASE deletePlaceholderDeployment
    <3>1. Then("undeploy") /\ Advance /\ Head(pass.then) = "undeploy"
      BY <2>2 DEF deletePlaceholderDeployment, Then
    <3>. QED  BY <1>6, <1>7, <2>2, <3>1
  <2>3. CASE deletePairConfigMaps
    <3>1. Then("unpair") /\ Advance /\ Head(pass.then) = "unpair"
      BY <2>3 DEF deletePairConfigMaps, Then
    <3>. QED  BY <1>6, <1>7, <2>3, <3>1
  <2>4. CASE RemoveFinalizer
    <3>1. Then("release") /\ Advance /\ Head(pass.then) = "release"
      BY <2>4 DEF RemoveFinalizer, Then
    <3>. QED  BY <1>6, <1>7, <3>1
  <2>. QED  BY <1>8, <2>1, <2>2, <2>3, <2>4 DEF PassStep
<1>9. CASE PassFails
  BY <1>9 DEF PassFails
<1>10. CASE \E m \in MachineSets : Vanish(m)
  BY <1>4, <1>10
<1>11. ~ \E c \in fleet.clusters :
            CleanUp(c) \/ Backfill(c) \/ ClaimPlaceholder(c) \/ Place(c) \/ ClaimOwnPlaceholder(c)
  BY <1>1, <1>3
<1>12. UNCHANGED pass \/ PassStep \/ PassFails \/ \E m \in MachineSets : Vanish(m)
  BY <1>11, PassSteps
<1>13. UNCHANGED pass => pass # Idle
  OBVIOUS
<1>. QED  BY <1>2, <1>8, <1>9, <1>10, <1>12, <1>13


\* When the finalizer is removed, nothing else is left to do.
LEMMA ReleaseIsLast ==
    ASSUME Types, RemoveFinalizer
    PROVE  pass # Idle /\ pass.then = <<"release">>
<1>1. pass # Idle /\ pass.then # <<>> /\ Head(pass.then) = "release"
  BY DEF RemoveFinalizer, Then, Types
<1>2. pass.then \in Labelling \cup Cleaning
  BY DEF Types, Passes
<1>3. /\ Head(<<"undeploy">>) = "undeploy" /\ Head(<<"unpair", "release">>) = "unpair"
      /\ Head(<<"undeploy", "unpair", "release">>) = "undeploy"
  OBVIOUS
<1>. QED  BY <1>1, <1>2, <1>3 DEF Labelling, Cleaning

\* When the ConfigMaps are deleted, only the finalizer is left after them.
LEMMA UnpairIsSecond ==
    ASSUME Types, Then("unpair")
    PROVE  pass.then = <<"unpair", "release">>
<1>1. pass # Idle /\ pass.then # <<>> /\ Head(pass.then) = "unpair"
  BY DEF Then, Types
<1>2. pass.then \in Labelling \cup Cleaning
  BY DEF Types, Passes
<1>3. /\ Head(<<"undeploy">>) = "undeploy" /\ Head(<<"release">>) = "release"
      /\ Head(<<"undeploy", "unpair", "release">>) = "undeploy"
  OBVIOUS
<1>. QED  BY <1>1, <1>2, <1>3 DEF Labelling, Cleaning

\* A pair is recorded for a live cluster that has the finalizer, when no pass is under way.
LEMMA RecordedFor ==
    ASSUME Types, [Next]_vars, NEW q \in fleet.pairs, pairOwner'[q] \in fleet.clusters
    PROVE  \/ pairOwner'[q] = pairOwner[q] /\ ~(deletePairConfigMaps /\ pairOwner[q] = pass.c)
           \/ Live(pairOwner'[q]) /\ hc[pairOwner'[q]].fin /\ pass = Idle
<1>1. CASE deletePairConfigMaps
  BY <1>1, FleetFacts DEF deletePairConfigMaps, Types
<1>2. CASE UNCHANGED pairOwner /\ ~deletePairConfigMaps
  BY <1>2
<1>3. ASSUME NEW c \in fleet.clusters,
             \/ Backfill(c) \/ ClaimPlaceholder(c) \/ Place(c)
             \/ ensurePlaceholderDeployment(c) \/ ClaimOwnPlaceholder(c)
      PROVE  /\ UNCHANGED pairOwner \/ \E r : ensurePairConfigMap(r, c)
             /\ Live(c) /\ hc[c].fin /\ pass = Idle
  BY <1>3 DEF Backfill, ClaimPlaceholder, Place, ensurePlaceholderDeployment, ClaimOwnPlaceholder,
              EnsurePair, Placing
<1>4. ASSUME NEW c \in fleet.clusters,
             \/ Backfill(c) \/ ClaimPlaceholder(c) \/ Place(c)
             \/ ensurePlaceholderDeployment(c) \/ ClaimOwnPlaceholder(c),
             ~deletePairConfigMaps
      PROVE  pairOwner'[q] = pairOwner[q] \/ (pairOwner'[q] = c /\ Live(c) /\ hc[c].fin /\ pass = Idle)
  BY <1>3, <1>4 DEF ensurePairConfigMap, Types
<1>. QED  BY <1>1, <1>2, <1>4, OwnerSteps

\* A cluster's own placeholder is written when no pass is under way, for a live cluster that has
\* the finalizer.
LEMMA PlaceholderFor ==
    ASSUME Types, DepInv, [Next]_vars, NEW c \in fleet.clusters, Exists(<<c, 0>>)'
    PROVE  \/ Exists(<<c, 0>>) /\ ~(deletePlaceholderDeployment /\ c = pass.c)
           \/ Live(c) /\ hc[c].fin /\ pass = Idle
<1>. DEFINE d == <<c, 0>>
<1>0. d \in Ids /\ dep \in [Ids -> Deps] /\ dep'[d].spec # NoSpec /\ ~IsPool(d)
  BY FleetFacts DEF Ids, Types, Exists, IsPool
<1>1. ASSUME NEW e, NEW s, Deploy(e, s), e # d
      PROVE  dep'[d] = dep[d]
  BY <1>0, <1>1 DEF Deploy
<1>2. CASE deletePlaceholderDeployment
  <2>1. dep' = [dep EXCEPT ![<<pass.c, 0>>] = NoDeployment]
    BY <1>2 DEF deletePlaceholderDeployment
  <2>2. c # pass.c
    BY <1>0, <2>1 DEF NoDeployment
  <2>. QED  BY <1>0, <2>1, <2>2 DEF Exists
<1>3. ASSUME NEW e \in fleet.clusters, ensurePlaceholderDeployment(e)
      PROVE  dep'[d] = dep[d] \/ (Live(c) /\ hc[c].fin /\ pass = Idle)
  BY <1>1, <1>3 DEF ensurePlaceholderDeployment, Placing
<1>4. ASSUME NEW s \in Sizes, placeholderCreator(s)
      PROVE  dep'[d] = dep[d]
  <2>1. PICK i : Deploy(<<s, i>>, PoolSpec(s))
    BY <1>4 DEF placeholderCreator
  <2>2. <<s, i>> # d
    BY FleetFacts
  <2>. QED  BY <1>1, <2>1, <2>2
<1>5. ASSUME NEW e \in DeploymentIds, placeholderUpdater(e)
      PROVE  dep'[d] = dep[d]
  <2>1. IsPool(e) /\ (dep' = [dep EXCEPT ![e] = NoDeployment] \/ Deploy(e, PoolSpec(e[1])))
    BY <1>5 DEF placeholderUpdater
  <2>. QED  BY <1>0, <1>1, <2>1
<1>6. ASSUME NEW e \in Ids, NEW m \in FleetSets, SchedulePod(e, m)
      PROVE  dep'[d].spec = dep[d].spec
  BY <1>0, <1>6, ScheduledTogether
<1>7. ASSUME NEW m, Vanish(m)
      PROVE  dep'[d].spec = dep[d].spec
  <2>1. dep'[d] = [dep[d] EXCEPT !.on = @ \ {m}]
    BY <1>0, <1>7, FleetFacts DEF Vanish
  <2>2. dep[d] \in Deps
    BY <1>0
  <2>. QED  BY <2>1, <2>2 DEF Deps
<1>8. CASE dep'[d].spec = dep[d].spec /\ ~deletePlaceholderDeployment
  BY <1>0, <1>8 DEF Exists
<1>. HIDE DEF d
<1>. QED
  BY <1>2, <1>3, <1>4, <1>5, <1>6, <1>7, <1>8, DeploymentSteps, FleetFacts

\* The finalizer guards what the scheduler wrote, after every step.
LEMMA StepLeft ==
    ASSUME IInv, LeftInv, [Next]_vars
    PROVE  LeftInv'
<1>0. Types /\ DepInv /\ fleet' = fleet
  BY FleetKept DEF IInv
<1>1. ASSUME NEW c \in fleet.clusters, Live(c), hc[c].fin, pass = Idle
      PROVE  /\ Holding(c)'
             /\ ~CleanedUpTo(c, {<<"unpair", "release">>, <<"release">>})'
             /\ ~CleanedUpTo(c, {<<"release">>})'
  <2>1. Holding(c)
    BY <1>1 DEF Holding, Live
  <2>2. ~RemoveFinalizer
    BY <1>1 DEF RemoveFinalizer, Then
  <2>3. Holding(c)'
    BY <1>0, <2>1, <2>2, FinalizerStays DEF Holding
  <2>4. ~(pass' # Idle /\ pass'.then \in {<<"unpair", "release">>, <<"release">>})
    BY <1>0, <1>1, CleanUpOrder
  <2>. QED  BY <2>3, <2>4 DEF CleanedUpTo, Idle
<1>2. ASSUME NEW c \in fleet.clusters, Holding(c), ~CleanedUpTo(c, {<<"release">>})
      PROVE  Holding(c)'
  BY <1>0, <1>2, FinalizerStays, ReleaseIsLast DEF Holding, CleanedUpTo
<1>3. ASSUME NEW q \in fleet.pairs, NEW c \in fleet.clusters, pairOwner'[q] = c
      PROVE  Holding(c)' /\ ~CleanedUpTo(c, {<<"release">>})'
  <2>1. CASE Live(c) /\ hc[c].fin /\ pass = Idle
    BY <1>1, <2>1
  <2>2. CASE pairOwner[q] = c /\ ~(deletePairConfigMaps /\ c = pass.c)
    <3>1. Holding(c) /\ ~CleanedUpTo(c, {<<"release">>})
      BY <2>2 DEF LeftInv
    <3>2. ASSUME pass' # Idle, pass'.then = <<"release">>
          PROVE  pass'.c # c
      BY <1>0, <2>2, <3>1, <3>2, CleanUpOrder DEF CleanedUpTo
    <3>. QED  BY <1>2, <3>1, <3>2 DEF CleanedUpTo, Idle
  <2>. QED  BY <1>0, <1>3, <2>1, <2>2, RecordedFor
<1>4. ASSUME NEW c \in fleet.clusters, Exists(<<c, 0>>)'
      PROVE  Holding(c)' /\ ~CleanedUpTo(c, {<<"unpair", "release">>, <<"release">>})'
  <2>1. CASE Live(c) /\ hc[c].fin /\ pass = Idle
    BY <1>1, <2>1
  <2>2. CASE Exists(<<c, 0>>) /\ ~(deletePlaceholderDeployment /\ c = pass.c)
    <3>1. Holding(c) /\ ~CleanedUpTo(c, {<<"unpair", "release">>, <<"release">>})
      BY <2>2 DEF LeftInv
    <3>2. ASSUME pass' # Idle, pass'.then \in {<<"unpair", "release">>, <<"release">>}
          PROVE  pass'.c # c
      <4>1. CASE pass'.then = pass.then
        BY <1>0, <3>1, <3>2, <4>1, CleanUpOrder DEF CleanedUpTo
      <4>2. CASE deletePairConfigMaps
        <5>1. Then("unpair")
          BY <4>2 DEF deletePairConfigMaps
        <5>2. pass.then = <<"unpair", "release">>
          BY <1>0, <5>1, UnpairIsSecond
        <5>. QED  BY <1>0, <3>1, <3>2, <5>2, CleanUpOrder DEF CleanedUpTo
      <4>. QED  BY <1>0, <2>2, <3>2, <4>1, <4>2, CleanUpOrder
    <3>3. Holding(c)'
      BY <1>2, <3>1 DEF CleanedUpTo
    <3>. QED  BY <3>2, <3>3 DEF CleanedUpTo, Idle
  <2>. QED  BY <1>0, <1>4, <2>1, <2>2, PlaceholderFor
<1>. QED  BY <1>0, <1>3, <1>4 DEF LeftInv

\* A HostedCluster that is gone has left no ConfigMap that keeps its pair from others and no
\* placeholder Deployment, at whichever write its clean-up failed and however often: the
\* scheduler's finalizer, removed last, precedes every claim and every placeholder.
THEOREM NothingLeftBehind == Spec => []NothingLeft
<1>1. Init => IInv /\ LeftInv
  <2>. SUFFICES ASSUME Init PROVE IInv /\ LeftInv
    OBVIOUS
  <2>1. IInv /\ Types
    BY Initial DEF IInv
  <2>2. \A q \in fleet.pairs : pairOwner[q] \notin fleet.clusters
    BY <2>1, FleetFacts DEF Init
  <2>3. \A c \in fleet.clusters : ~Exists(<<c, 0>>)
    BY DEF Init, Exists, NoDeployment
  <2>. QED  BY <2>1, <2>2, <2>3 DEF LeftInv
<1>2. IInv /\ LeftInv /\ [Next]_vars => (IInv /\ LeftInv)'
  BY Inductive, StepLeft
<1>3. IInv /\ LeftInv => NothingLeft
  BY DEF LeftInv, NothingLeft, Holding
<1>. QED  BY <1>1, <1>2, <1>3, PTL DEF Spec


\* The labelled Nodes of one pair are labelled for one live cluster.
PairServesOne ==
    \A m \in Labelled, n \in Labelled :
        Pair(m) = Pair(n) /\ Live(node[m]) /\ Live(node[n]) => node[m] = node[n]

\* The two Nodes of a pair never serve two live HostedClusters, whatever claims, resizes, lost
\* Nodes and failed passes came before: both are recorded in the one ConfigMap of the pair.
THEOREM PairNotShared == Spec => []PairServesOne
<1>1. LabelIsRecorded => PairServesOne
  BY DEF LabelIsRecorded, PairServesOne
<1>. QED  BY <1>1, LabelsRecorded, PTL
=============================================================================
