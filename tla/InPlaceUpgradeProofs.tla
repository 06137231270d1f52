------------------------ MODULE InPlaceUpgradeProofs ------------------------
(***************************************************************************)
(* Proofs about the in-place upgrade, for any set of Nodes, any history of *)
(* configs, any maxUnavailable and any number of aborted reconciles:       *)
(*   - type correctness;                                                   *)
(*   - with a Node cache that does not lag, never more Nodes are updating  *)
(*     than getInPlaceMaxUnavailable allows;                               *)
(*   - when no config returns (NoRollback), what is reported complete is,  *)
(*     however far the cache lags, and with a cache that does not lag the  *)
(*     Nodes are drained before and back in service after their update.    *)
(***************************************************************************)
EXTENDS InPlaceUpgrade, FiniteSetTheorems, TLAPS

\* getInPlaceMaxUnavailable is a natural number.
LEMMA MaxUnavailableType == getInPlaceMaxUnavailable \in Nat
<1>1. /\ MaxUnavailable.percent \in BOOLEAN
      /\ MaxUnavailable.value \in Nat
      /\ MaxUnavailable.replicas \in Nat
  BY MaxUnavailableAssumption
<1>2. \A a, b \in Nat : a * b \in Nat
  OBVIOUS
<1>3. \A a \in Nat : a \div 100 \in Nat
  OBVIOUS
<1>4. (MaxUnavailable.value * MaxUnavailable.replicas) \div 100 \in Nat
  BY <1>1, <1>2, <1>3
<1> QED
  BY <1>1, <1>4 DEF getInPlaceMaxUnavailable

\* Sets of Nodes are finite, and a subset is no larger.
LEMMA NodeSets ==
    ASSUME NEW S \in SUBSET Nodes, NEW T \in SUBSET S
    PROVE  /\ IsFiniteSet(S) /\ Cardinality(S) \in Nat
           /\ IsFiniteSet(T) /\ Cardinality(T) \in Nat
           /\ Cardinality(T) <= Cardinality(S)
<1>1. IsFiniteSet(S)
  BY NodesAssumption, FS_Subset
<1>2. IsFiniteSet(T) /\ Cardinality(T) <= Cardinality(S)
  BY <1>1, FS_Subset
<1> QED
  BY <1>1, <1>2, FS_CardinalityType

\* The records the Nodes start with, and the reconcile that is not running.
LEMMA FreshTypes ==
    FreshNode \in NodeRecords /\ NoRequest \in Requests /\ Idle \in Reconciles
<1>1. FreshNode \in NodeRecords /\ NoRequest \in Requests
  BY DEF FreshNode, NodeRecords, NoRequest, Requests, States
<1> QED
  BY <1>1 DEF Idle, Reconciles, Phases

\* A reconcile moves on, or visits a Node, or refreshes its view.
LEMMA ReconcileUpdates ==
    ASSUME NEW u \in Reconciles
    PROVE  /\ u.pc \in Phases /\ u.target \in Hashes \cup {NoHash}
           /\ u.view \in [Nodes -> NodeRecords] /\ u.todo \in SUBSET Nodes
           /\ \A p \in Phases : [u EXCEPT !.pc = p] \in Reconciles
           /\ \A S \in SUBSET Nodes : [u EXCEPT !.todo = S] \in Reconciles
           /\ \A S \in SUBSET Nodes, p \in Phases :
                 [u EXCEPT !.pc = p, !.todo = S] \in Reconciles
           /\ \A S \in SUBSET Nodes, v \in [Nodes -> NodeRecords] :
                 [u EXCEPT !.todo = S, !.view = v] \in Reconciles
  BY Zenon DEF Reconciles

\* The config the spec asks for is one of the history.
LEMMA HashType == ASSUME spec \in 1..Len(History) PROVE Hash \in Hashes
  BY DEF Hash, Hashes

\* Setting one annotation of a Node keeps it a Node.
LEMMA RecordUpdates ==
    ASSUME NEW r \in NodeRecords
    PROVE  /\ \A h \in Hashes \cup {NoHash} : [r EXCEPT !.desired = h] \in NodeRecords
           /\ \A h \in Hashes \cup {NoHash} : [r EXCEPT !.current = h] \in NodeRecords
           /\ \A st \in States : [r EXCEPT !.state = st] \in NodeRecords
           /\ \A b \in BOOLEAN : [r EXCEPT !.unschedulable = b] \in NodeRecords
           /\ \A q \in Requests : [r EXCEPT !.desiredDrain = q] \in NodeRecords
           /\ \A q \in Requests : [r EXCEPT !.lastAppliedDrain = q] \in NodeRecords
  BY DEF NodeRecords

\* The fields of a Node.
LEMMA RecordFields ==
    ASSUME NEW f \in [Nodes -> NodeRecords], NEW n \in Nodes
    PROVE  /\ f[n] \in NodeRecords
           /\ f[n].desired \in Hashes \cup {NoHash}
           /\ f[n].current \in Hashes \cup {NoHash}
           /\ f[n].desiredDrain \in Requests
           /\ f[n].lastAppliedDrain \in Requests
           /\ f[n].unschedulable \in BOOLEAN
  BY DEF NodeRecords

\* Replacing the record of one Node gives a map of Nodes again.
LEMMA NodeUpdate ==
    ASSUME NEW f \in [Nodes -> NodeRecords], NEW n \in Nodes, NEW r \in NodeRecords
    PROVE  [f EXCEPT ![n] = r] \in [Nodes -> NodeRecords]
  OBVIOUS

\* A write of one Node, which the cache follows or not.
LEMMA NodeWrite ==
    ASSUME TypeOK, NEW n \in Nodes, NEW r \in NodeRecords,
           node' = [node EXCEPT ![n] = r], CacheFollows
    PROVE  node' \in [Nodes -> NodeRecords] /\ nodeCache' \in [Nodes -> NodeRecords]
  BY NodeUpdate DEF TypeOK, CacheFollows

----------------------------------------------------------------------------
(* Type correctness *)

\* The initial values have their types.
LEMMA InitTypeOK == Init => TypeOK
  BY FreshTypes, HistoryAssumption, BoundsAssumption DEF Init, TypeOK

\* The NodePool controller's writes of the MachineSet keep the types.
LEMMA PoolTypeOK ==
    ASSUME TypeOK, ChangeSpec \/ NodePoolReconcile \/ PayloadGenerated
    PROVE  TypeOK'
<1>1. CASE ChangeSpec
  BY <1>1, HistoryAssumption DEF ChangeSpec, TypeOK
<1>2. CASE NodePoolReconcile
  <2> DEFINE MS == [userData : Hashes \cup {NoHash}, target : Hashes \cup {NoHash},
                    current : Hashes \cup {NoHash}, inProgressTrue : BOOLEAN,
                    inProgressFalse : BOOLEAN]
  <2>1. ms \in MS /\ Hash \in Hashes
    BY HashType DEF TypeOK
  <2>2. ProposeTarget \in MS
    BY Zenon, <2>1 DEF ProposeTarget
  <2>3. ms' \in MS
    BY <1>2, <2>1, <2>2 DEF NodePoolReconcile
  <2>4. npCond' \in {"True", "Failed", "False"}
    BY <1>2 DEF NodePoolReconcile, updatingConfigCondition
  <2>5. npCurrent' \in Hashes \cup {NoHash} /\ boot' \in Hashes \cup {NoHash}
    BY <1>2, <2>1 DEF NodePoolReconcile, TypeOK
  <2> QED
    BY <1>2, <2>3, <2>4, <2>5 DEF NodePoolReconcile, TypeOK
<1>3. CASE PayloadGenerated
  BY <1>3 DEF PayloadGenerated, poolVars, TypeOK
<1> QED
  BY <1>1, <1>2, <1>3

\* What getAvailableCandidates may return: candidates, no more than the capacity.
LEMMA AvailableCandidates ==
    ASSUME NEW view, NEW target, NEW S \in getAvailableCandidates(view, target)
    PROVE  /\ S \in SUBSET Candidates(view, target)
           /\ S = {} \/ (getCapacity(view) \in Int /\ Cardinality(S) <= getCapacity(view))
<1> DEFINE cand == Candidates(view, target)
           capacity == getCapacity(view)
<1>1. Cardinality(cand) \in Nat /\ capacity \in Int
  <2>1. Updating(view) \in SUBSET Nodes /\ cand \in SUBSET Nodes
    BY DEF Updating, Candidates
  <2>2. Cardinality(Updating(view)) \in Nat /\ Cardinality(cand) \in Nat
    BY <2>1, NodeSets
  <2> QED
    BY <2>2, MaxUnavailableType DEF getCapacity
<1>2. CASE capacity < 1 \/ cand = {}
  BY <1>2 DEF getAvailableCandidates
<1>3. CASE ~ (capacity < 1 \/ cand = {}) /\ capacity <= Cardinality(cand)
  <2>1. S \in kSubset(capacity, cand)
    BY <1>3 DEF getAvailableCandidates
  <2> QED
    BY <1>1, <2>1 DEF kSubset
<1>4. CASE ~ (capacity < 1 \/ cand = {}) /\ ~ (capacity <= Cardinality(cand))
  <2>1. S = cand
    BY <1>4 DEF getAvailableCandidates
  <2> QED
    BY <1>1, <1>4, <2>1
<1> QED
  BY <1>2, <1>3, <1>4

\* The steps of the upgrader's reconcile keep the types.
LEMMA UpgraderTypeOK ==
    ASSUME TypeOK, UpgraderStep \/ UpgraderAborts
    PROVE  TypeOK'
<1> USE DEF TypeOK, UpgraderVarsUnchanged, poolVars
<1>0. /\ upg \in Reconciles
      /\ upg.target \in Hashes \cup {NoHash} /\ upg.todo \in SUBSET Nodes
      /\ upg.view \in [Nodes -> NodeRecords]
  BY Zenon, ReconcileUpdates
<1>1. CASE UpgraderReconcile
  BY <1>1 DEF UpgraderReconcile, Reconciles, Phases
<1>2. CASE SignalComplete
  BY Zenon, <1>0, <1>2, FreshTypes DEF SignalComplete
<1>3. CASE SignalDegraded
  BY Zenon, <1>3, FreshTypes DEF SignalDegraded
<1>4. CASE SignalProgress
  <2>1. upg' \in Reconciles
    BY Zenon, <1>0, <1>4, ReconcileUpdates DEF SignalProgress, Phases
  <2> QED
    BY Zenon, <1>4, <2>1 DEF SignalProgress
<1>5. CASE ReconcileManifests
  <2> DEFINE A == getAvailableCandidates(upg.view, upg.target)
             U == getAlreadyUnavailableCandidates(upg.view, upg.target)
  <2>1. U \in SUBSET Nodes
    BY DEF getAlreadyUnavailableCandidates
  <2>2. \A S \in A : S \in SUBSET Nodes
    BY AvailableCandidates DEF Candidates
  <2>3. CASE upg' = Idle
    BY ZenonT(30), <1>0, <1>5, <2>3, FreshTypes DEF ReconcileManifests
  <2>4. ASSUME NEW S \in A,
               \/ upg' = [upg EXCEPT !.pc = "desiredThenPanic", !.todo = S]
               \/ upg' = [upg EXCEPT !.pc = "desired", !.todo = S \cup U]
        PROVE  upg' \in Reconciles
    <3>1. S \in SUBSET Nodes /\ S \cup U \in SUBSET Nodes
      BY <2>1, <2>2
    <3>2. "desired" \in Phases /\ "desiredThenPanic" \in Phases
      BY DEF Phases
    <3>3. [upg EXCEPT !.pc = "desiredThenPanic", !.todo = S] \in Reconciles
      BY Zenon, <1>0, <3>1, <3>2, ReconcileUpdates
    <3>4. [upg EXCEPT !.pc = "desired", !.todo = S \cup U] \in Reconciles
      BY Zenon, <1>0, <3>1, <3>2, ReconcileUpdates
    <3> QED
      BY <2>4, <3>3, <3>4
  <2>5. upg' \in Reconciles
    BY Zenon, <1>5, <2>3, <2>4, FreshTypes DEF ReconcileManifests
  <2> QED
    BY Zenon, <1>0, <1>5, <2>5 DEF ReconcileManifests
<1>6. CASE DesiredDone
  <2>1. upg' \in Reconciles
    BY Zenon, <1>0, <1>6, FreshTypes, ReconcileUpdates DEF DesiredDone, Phases
  <2> QED
    BY <1>6, <2>1 DEF DesiredDone
<1>7. ASSUME NEW n \in Nodes, DeletePod(n)
      PROVE  TypeOK'
  <2>1. upg' \in Reconciles
    BY Zenon, <1>0, <1>7, ReconcileUpdates DEF DeletePod
  <2> QED
    BY <1>7, <2>1 DEF DeletePod
<1>8. ASSUME NEW n \in Nodes, SetDesired(n)
      PROVE  TypeOK'
  <2> DEFINE r == [node[n] EXCEPT !.desired = upg.target]
             v == [upg.view EXCEPT ![n] = node'[n]]
  <2>1. r \in NodeRecords
    BY <1>0, <1>8, RecordFields, RecordUpdates
  <2>2. node' = [node EXCEPT ![n] = r] /\ CacheFollows
    BY <1>8 DEF SetDesired
  <2>3. node' \in [Nodes -> NodeRecords] /\ nodeCache' \in [Nodes -> NodeRecords]
    BY Zenon, <1>8, <2>1, <2>2, NodeWrite
  <2>4. v \in [Nodes -> NodeRecords]
    BY <1>0, <1>8, <2>3, NodeUpdate, RecordFields
  <2>5. upg' = [upg EXCEPT !.todo = upg.todo \ {n}, !.view = v]
    BY <1>8 DEF SetDesired
  <2>6. upg' \in Reconciles
    BY Zenon, <1>0, <2>4, <2>5, ReconcileUpdates
  <2> QED
    BY <1>8, <2>3, <2>6 DEF SetDesired
<1>9. ASSUME NEW n \in Nodes, SetDesiredConflict(n)
      PROVE  TypeOK'
  BY <1>9, FreshTypes DEF SetDesiredConflict
<1>10. ASSUME NEW n \in Nodes, ReconcilePod(n)
       PROVE  TypeOK'
  <2>1. upg' \in Reconciles
    BY Zenon, <1>0, <1>10, FreshTypes, ReconcileUpdates DEF ReconcilePod
  <2> QED
    BY <1>10, <2>1 DEF ReconcilePod
<1>11. CASE UpgraderAborts
  BY <1>11, FreshTypes, BoundsAssumption DEF UpgraderAborts
<1> QED
  BY <1>1, <1>2, <1>3, <1>4, <1>5, <1>6, <1>7, <1>8, <1>9, <1>10, <1>11 DEF UpgraderStep

\* The steps of the drainer's reconcile keep the types.
LEMMA DrainerTypeOK ==
    ASSUME TypeOK, NEW n \in Nodes, DrainerStep(n) \/ DrainFails(n)
    PROVE  TypeOK'
<1> USE DEF TypeOK, DrainerVarsUnchanged, poolVars
<1>1. CASE HandleDrainRequest(n)
  <2> DEFINE cordon == nodeCache[n].desiredDrain.verb = "drain"
             r == [node[n] EXCEPT !.unschedulable = cordon]
  <2>1. r \in NodeRecords
    BY Zenon, RecordFields, RecordUpdates
  <2>2. CASE node' = node
    BY <1>1, <2>2 DEF HandleDrainRequest, CacheFollows
  <2>3. CASE node' = [node EXCEPT ![n] = r]
    <3>1. CacheFollows
      BY <1>1 DEF HandleDrainRequest
    <3>2. node' \in [Nodes -> NodeRecords] /\ nodeCache' \in [Nodes -> NodeRecords]
      BY Zenon, <2>1, <2>3, <3>1, NodeWrite
    <3>3. drainer' \in [Nodes -> {"idle", "drain", "uncordon"}]
      BY <1>1 DEF HandleDrainRequest
    <3>4. UNCHANGED <<spec, npCurrent, npCond, boot, ms, payload, configMap, pod, upg, degrades, aborts>>
      BY <1>1 DEF HandleDrainRequest
    <3> HIDE DEF r, cordon
    <3> QED
      BY <3>2, <3>3, <3>4
  <2> QED
    BY <1>1, <2>2, <2>3 DEF HandleDrainRequest
<1>2. CASE AcknowledgeDrain(n)
  <2> DEFINE r == [node[n] EXCEPT !.lastAppliedDrain = node[n].desiredDrain]
  <2>1. r \in NodeRecords
    BY RecordFields, RecordUpdates
  <2>2. node' \in [Nodes -> NodeRecords] /\ nodeCache' \in [Nodes -> NodeRecords]
    BY Zenon, <1>2, <2>1, NodeWrite DEF AcknowledgeDrain
  <2> QED
    BY <1>2, <2>2 DEF AcknowledgeDrain
<1>3. CASE AcknowledgeConflict(n)
  BY <1>3 DEF AcknowledgeConflict
<1>4. CASE DrainFails(n)
  BY <1>4, BoundsAssumption DEF DrainFails
<1> QED
  BY <1>1, <1>2, <1>3, <1>4 DEF DrainerStep

\* The daemon's steps on a Node keep the types.
LEMMA MCDTypeOK ==
    ASSUME TypeOK, NEW n \in Nodes, MCDStep(n) \/ MCDDegrades(n) \/ CacheSync(n)
    PROVE  TypeOK'
<1> USE DEF TypeOK, MCDVarsUnchanged, poolVars
<1> DEFINE drain == [verb |-> "drain", hash |-> node[n].desired]
           uncordon == [verb |-> "uncordon", hash |-> node[n].desired]
<1>1. drain \in Requests /\ uncordon \in Requests
  BY RecordFields DEF Requests
<1>2. CASE MCDRequestDrain(n)
  <2> DEFINE r == [node[n] EXCEPT !.desiredDrain = drain]
             q == [r EXCEPT !.state = "Working"]
  <2>1. r \in NodeRecords
    BY <1>1, RecordFields, RecordUpdates
  <2>2. q \in NodeRecords
    BY Zenon, <2>1, RecordUpdates DEF States
  <2>3. node' = [node EXCEPT ![n] = q] /\ CacheFollows
    BY Zenon, <1>2 DEF MCDRequestDrain
  <2>4. node' \in [Nodes -> NodeRecords] /\ nodeCache' \in [Nodes -> NodeRecords]
    BY Zenon, <2>2, <2>3, NodeWrite
  <2> QED
    BY <1>2, <2>4 DEF MCDRequestDrain
<1>3. CASE MCDUpdate(n)
  <2> DEFINE r == [node[n] EXCEPT !.current = node[n].desired]
             q == [r EXCEPT !.state = "Done"]
             p == [q EXCEPT !.desiredDrain = uncordon]
  <2>1. r \in NodeRecords
    BY Zenon, RecordFields, RecordUpdates
  <2>2. q \in NodeRecords
    BY Zenon, <2>1, RecordUpdates DEF States
  <2>3. p \in NodeRecords
    BY Zenon, <1>1, <2>2, RecordUpdates
  <2>4. node' = [node EXCEPT ![n] = p] /\ CacheFollows
    BY Zenon, <1>3 DEF MCDUpdate
  <2>5. node' \in [Nodes -> NodeRecords] /\ nodeCache' \in [Nodes -> NodeRecords]
    BY Zenon, <2>3, <2>4, NodeWrite
  <2> QED
    BY <1>3, <2>5 DEF MCDUpdate
<1>4. CASE MCDRecovers(n)
  <2> DEFINE r == [node[n] EXCEPT !.state = "Working"]
  <2>1. r \in NodeRecords
    BY Zenon, RecordFields, RecordUpdates DEF States
  <2>2. node' \in [Nodes -> NodeRecords] /\ nodeCache' \in [Nodes -> NodeRecords]
    BY Zenon, <1>4, <2>1, NodeWrite DEF MCDRecovers
  <2> QED
    BY <1>4, <2>2 DEF MCDRecovers
<1>5. CASE MCDDegrades(n)
  <2> DEFINE r == [node[n] EXCEPT !.state = "Degraded"]
  <2>1. r \in NodeRecords
    BY Zenon, RecordFields, RecordUpdates DEF States
  <2>2. node' \in [Nodes -> NodeRecords] /\ nodeCache' \in [Nodes -> NodeRecords]
    BY Zenon, <1>5, <2>1, NodeWrite DEF MCDDegrades
  <2> QED
    BY <1>5, <2>2, BoundsAssumption DEF MCDDegrades
<1>6. CASE CacheSync(n)
  BY <1>6 DEF CacheSync
<1> QED
  BY <1>2, <1>3, <1>4, <1>5, <1>6 DEF MCDStep

\* Every step of every actor preserves the types.
LEMMA NextTypeOK == TypeOK /\ [Next]_vars => TypeOK'
<1>1. ASSUME TypeOK, UNCHANGED vars PROVE TypeOK'
  BY <1>1 DEF vars, TypeOK
<1> QED
  BY <1>1, PoolTypeOK, UpgraderTypeOK, DrainerTypeOK, MCDTypeOK DEF Next

\* The types of the in-place upgrade hold in every reachable state: no write
\* of the NodePool controller, the upgrader, the drainer or the daemon, nor
\* any interruption of them, leaves an annotation without a meaning.
THEOREM TypeCorrect == Spec => []TypeOK
  BY InitTypeOK, NextTypeOK, PTL DEF Spec

----------------------------------------------------------------------------
(* The bound on unavailable Nodes *)

\* A reconcile that has listed the Nodes and not yet chosen any: no Node has
\* started updating since, because only this reconcile starts updates, and the
\* Nodes it saw updating respected the bound.
ViewFollows ==
    upg.pc \in {"progress", "manifests"} =>
        /\ Updating(node) \subseteq Updating(upg.view)
        /\ Cardinality(Updating(upg.view)) <= getInPlaceMaxUnavailable

\* A reconcile that has chosen Nodes: those it has still to mark and those
\* already updating respect the bound together.
ChoiceFits ==
    upg.pc \in {"desired", "desiredThenPanic"} =>
        Cardinality(Updating(node) \cup upg.todo) <= getInPlaceMaxUnavailable

BoundInv ==
    /\ TypeOK
    /\ nodeCache = node
    /\ ViewFollows
    /\ ChoiceFits
    /\ MaxUnavailableRespected

\* A step that starts no update and leaves the reconcile alone, or ends it.
LEMMA NoNewUpdate ==
    ASSUME BoundInv, TypeOK', nodeCache' = node',
           Updating(node)' \subseteq Updating(node),
           \/ upg' = upg
           \/ upg'.pc \notin {"progress", "manifests", "desired", "desiredThenPanic"}
    PROVE  BoundInv'
<1> DEFINE max == getInPlaceMaxUnavailable
<1>1. Updating(node) \in SUBSET Nodes /\ upg.todo \in SUBSET Nodes /\ max \in Nat
  BY Zenon, MaxUnavailableType, ReconcileUpdates DEF Updating, BoundInv, TypeOK
<1>2. MaxUnavailableRespected'
  <2>1. Cardinality(Updating(node)') <= Cardinality(Updating(node))
    BY <1>1, NodeSets
  <2>2. Cardinality(Updating(node)') \in Nat /\ Cardinality(Updating(node)) \in Nat
    BY <1>1, NodeSets
  <2> QED
    BY <1>1, <2>1, <2>2 DEF BoundInv, MaxUnavailableRespected
<1>3. CASE upg' = upg
  <2>1. ViewFollows'
    BY <1>3 DEF BoundInv, ViewFollows, Updating
  <2>2. ChoiceFits'
    <3> DEFINE S == Updating(node) \cup upg.todo
               T == Updating(node)' \cup upg.todo
    <3>1. Cardinality(T) <= Cardinality(S) /\ Cardinality(T) \in Nat /\ Cardinality(S) \in Nat
      BY <1>1, NodeSets
    <3> QED
      BY <1>1, <1>3, <3>1 DEF BoundInv, ChoiceFits
  <2> QED
    BY <1>2, <2>1, <2>2 DEF BoundInv
<1>4. CASE upg'.pc \notin {"progress", "manifests", "desired", "desiredThenPanic"}
  BY <1>2, <1>4 DEF BoundInv, ViewFollows, ChoiceFits
<1> QED
  BY <1>3, <1>4

\* No Node is being updated when the first rollout begins.
LEMMA InitBound == Init => BoundInv
<1> SUFFICES ASSUME Init PROVE BoundInv
  OBVIOUS
<1>1. TypeOK
  BY InitTypeOK
<1>2. Updating(node) = {}
  BY Zenon DEF Init, Updating, FreshNode
<1>3. MaxUnavailableRespected
  BY <1>2, MaxUnavailableType, FS_EmptySet DEF MaxUnavailableRespected
<1>4. upg.pc = "idle"
  BY DEF Init, Idle
<1> QED
  BY <1>1, <1>3, <1>4 DEF Init, BoundInv, ViewFollows, ChoiceFits

\* The NodePool controller and the drainer never touch the config of a Node.
LEMMA OthersBound ==
    ASSUME BoundInv, ~StaleReads, TypeOK',
           \/ ChangeSpec \/ NodePoolReconcile \/ PayloadGenerated
           \/ \E n \in Nodes : DrainerStep(n) \/ DrainFails(n) \/ CacheSync(n)
    PROVE  BoundInv'
<1>0. nodeCache = node /\ node \in [Nodes -> NodeRecords]
  BY DEF BoundInv, TypeOK
<1>1. CASE ChangeSpec \/ NodePoolReconcile \/ PayloadGenerated
  <2>1. UNCHANGED <<node, nodeCache, upg>>
    BY <1>1 DEF ChangeSpec, NodePoolReconcile, PayloadGenerated
  <2> QED
    BY <1>0, <2>1, NoNewUpdate DEF Updating
<1>2. ASSUME NEW n \in Nodes, HandleDrainRequest(n) \/ AcknowledgeDrain(n)
      PROVE  BoundInv'
  <2>1. upg' = upg /\ nodeCache' = node'
    BY <1>2 DEF HandleDrainRequest, AcknowledgeDrain, CacheFollows, DrainerVarsUnchanged
  <2>2. \/ node' = node
        \/ \E b : node' = [node EXCEPT ![n] = [node[n] EXCEPT !.unschedulable = b]]
        \/ \E q : node' = [node EXCEPT ![n] = [node[n] EXCEPT !.lastAppliedDrain = q]]
    BY <1>2 DEF HandleDrainRequest, AcknowledgeDrain
  <2>3. \A m \in Nodes : node'[m].current = node[m].current /\ node'[m].desired = node[m].desired
    BY <1>0, <2>2 DEF NodeRecords
  <2> QED
    BY <2>1, <2>3, NoNewUpdate DEF Updating
<1>3. ASSUME NEW n \in Nodes, AcknowledgeConflict(n) \/ DrainFails(n) \/ CacheSync(n)
      PROVE  BoundInv'
  <2>1. upg' = upg /\ node' = node /\ nodeCache' = node'
    BY <1>0, <1>3 DEF AcknowledgeConflict, DrainFails, CacheSync, DrainerVarsUnchanged
  <2> QED
    BY <2>1, NoNewUpdate DEF Updating
<1> QED
  BY <1>1, <1>2, <1>3 DEF DrainerStep

\* The daemon only ever ends an update.
LEMMA MCDBound ==
    ASSUME BoundInv, ~StaleReads, TypeOK', NEW n \in Nodes, MCDStep(n) \/ MCDDegrades(n)
    PROVE  BoundInv'
<1>0. node \in [Nodes -> NodeRecords]
  BY DEF BoundInv, TypeOK
<1>1. upg' = upg /\ nodeCache' = node'
  BY DEF MCDStep, MCDRequestDrain, MCDUpdate, MCDRecovers, MCDDegrades, CacheFollows,
         MCDVarsUnchanged
<1>2. CASE MCDUpdate(n)
  <2> DEFINE r == [node[n] EXCEPT !.current = node[n].desired]
             q == [r EXCEPT !.state = "Done"]
             p == [q EXCEPT !.desiredDrain = [verb |-> "uncordon", hash |-> node[n].desired]]
  <2>1. node' = [node EXCEPT ![n] = p]
    BY Zenon, <1>2 DEF MCDUpdate
  <2>2. node[n] \in NodeRecords
    BY <1>0
  <2>3. p.current = p.desired
    BY <2>2 DEF NodeRecords
  <2>4. Updating(node)' \subseteq Updating(node)
    <3> HIDE DEF p
    <3> QED
      BY <1>0, <2>1, <2>3 DEF Updating
  <2> QED
    BY <1>1, <2>4, NoNewUpdate
<1>3. ASSUME NEW r, r.current = node[n].current, r.desired = node[n].desired,
             node' = [node EXCEPT ![n] = r]
      PROVE  BoundInv'
  <2>1. Updating(node)' \subseteq Updating(node)
    BY <1>0, <1>3 DEF Updating
  <2> QED
    BY <1>1, <2>1, NoNewUpdate
<1>4. CASE MCDRequestDrain(n)
  <2> DEFINE q == [node[n] EXCEPT !.desiredDrain = [verb |-> "drain", hash |-> node[n].desired]]
             r == [q EXCEPT !.state = "Working"]
  <2>1. node' = [node EXCEPT ![n] = r]
    BY Zenon, <1>4 DEF MCDRequestDrain
  <2>2. r.current = node[n].current /\ r.desired = node[n].desired
    BY <1>0, RecordFields DEF NodeRecords
  <2> QED
    BY Zenon, <1>3, <2>1, <2>2
<1>5. CASE MCDRecovers(n)
  <2> DEFINE r == [node[n] EXCEPT !.state = "Working"]
  <2>1. node' = [node EXCEPT ![n] = r]
    BY <1>5 DEF MCDRecovers
  <2>2. r.current = node[n].current /\ r.desired = node[n].desired
    BY <1>0, RecordFields DEF NodeRecords
  <2> QED
    BY Zenon, <1>3, <2>1, <2>2
<1>6. CASE MCDDegrades(n)
  <2> DEFINE r == [node[n] EXCEPT !.state = "Degraded"]
  <2>1. node' = [node EXCEPT ![n] = r]
    BY <1>6 DEF MCDDegrades
  <2>2. r.current = node[n].current /\ r.desired = node[n].desired
    BY <1>0, RecordFields DEF NodeRecords
  <2> QED
    BY Zenon, <1>3, <2>1, <2>2
<1> QED
  BY <1>2, <1>4, <1>5, <1>6 DEF MCDStep

\* The upgrader: reading the Nodes, choosing among them, marking them.
LEMMA UpgraderBound ==
    ASSUME BoundInv, ~StaleReads, TypeOK', UpgraderStep \/ UpgraderAborts
    PROVE  BoundInv'
<1> DEFINE max == getInPlaceMaxUnavailable
<1>0. /\ nodeCache = node /\ node \in [Nodes -> NodeRecords] /\ upg \in Reconciles
      /\ Updating(node) \in SUBSET Nodes /\ Updating(upg.view) \in SUBSET Nodes
      /\ upg.todo \in SUBSET Nodes /\ max \in Nat
  BY Zenon, MaxUnavailableType, ReconcileUpdates DEF BoundInv, TypeOK, Updating
<1>1. CASE UpgraderReconcile
  <2>1. node' = node /\ nodeCache' = nodeCache /\ upg'.view = node
        /\ upg'.pc \in {"complete", "degraded", "progress"}
    BY <1>0, <1>1 DEF UpgraderReconcile
  <2>2. Updating(node)' = Updating(node) /\ Updating(upg.view)' = Updating(node)
    BY <2>1 DEF Updating
  <2> QED
    BY <1>0, <2>1, <2>2 DEF BoundInv, ViewFollows, ChoiceFits, MaxUnavailableRespected
<1>2. CASE SignalProgress
  <2>1. node' = node /\ nodeCache' = nodeCache /\ upg'.view = upg.view
        /\ upg.pc = "progress" /\ upg'.pc = "manifests"
    BY <1>0, <1>2 DEF SignalProgress, Reconciles
  <2>2. Updating(node)' = Updating(node) /\ Updating(upg.view)' = Updating(upg.view)
    BY <2>1 DEF Updating
  <2> QED
    BY <1>0, <2>1, <2>2 DEF BoundInv, ViewFollows, ChoiceFits, MaxUnavailableRespected
<1>3. CASE ReconcileManifests
  <2> DEFINE A == getAvailableCandidates(upg.view, upg.target)
             U == getAlreadyUnavailableCandidates(upg.view, upg.target)
             V == Updating(upg.view)
  <2>1. /\ node' = node /\ nodeCache' = nodeCache /\ Updating(node)' = Updating(node)
        /\ upg.pc = "manifests"
    BY Zenon, <1>3 DEF ReconcileManifests, Updating
  <2>2. Updating(node) \subseteq V /\ Cardinality(V) <= max
    BY <2>1 DEF BoundInv, ViewFollows
  <2>3. CASE upg' = Idle
    BY <1>0, <2>1, <2>3, NoNewUpdate DEF Idle
  <2>4. ASSUME NEW S \in A, NEW T \in SUBSET (S \cup U), upg'.todo = T,
               upg'.pc \in {"desired", "desiredThenPanic"}
        PROVE  BoundInv'
    <3>1. S \in SUBSET Nodes /\ (S = {} \/ Cardinality(S) <= getCapacity(upg.view))
      BY AvailableCandidates DEF Candidates
    <3>2. U \subseteq V
      BY DEF getAlreadyUnavailableCandidates, Updating
    <3>3. IsFiniteSet(S) /\ IsFiniteSet(V) /\ Cardinality(S) \in Nat /\ Cardinality(V) \in Nat
      BY <1>0, <3>1, NodeSets
    <3>4. Cardinality(V \cup S) <= max
      <4>1. CASE S = {}
        BY <2>2, <4>1
      <4>2. CASE Cardinality(S) <= getCapacity(upg.view)
        <5>1. Cardinality(V \cup S) = Cardinality(V) + Cardinality(S) - Cardinality(V \cap S)
          BY <3>3, FS_Union
        <5>2. Cardinality(V \cap S) \in Nat
          BY <1>0, NodeSets
        <5> QED
          BY <1>0, <3>3, <4>2, <5>1, <5>2 DEF getCapacity
      <4> QED
        BY <3>1, <4>1, <4>2
    <3>5. V \cup S \in SUBSET Nodes /\ Updating(node) \cup T \in SUBSET (V \cup S)
      BY <1>0, <2>2, <3>1, <3>2
    <3>6. /\ Cardinality(Updating(node) \cup T) <= Cardinality(V \cup S)
          /\ Cardinality(Updating(node) \cup T) \in Nat /\ Cardinality(V \cup S) \in Nat
      BY <3>5, NodeSets
    <3>7. Cardinality(Updating(node) \cup T) <= max
      BY <1>0, <3>4, <3>6
    <3>8. ChoiceFits' /\ ViewFollows' /\ MaxUnavailableRespected'
      BY <2>1, <2>4, <3>7 DEF ChoiceFits, ViewFollows, BoundInv, MaxUnavailableRespected
    <3> QED
      BY <2>1, <3>8 DEF BoundInv
  <2>5. ASSUME NEW S \in A,
               \/ upg' = [upg EXCEPT !.pc = "desiredThenPanic", !.todo = S]
               \/ upg' = [upg EXCEPT !.pc = "desired", !.todo = S \cup U]
        PROVE  BoundInv'
    <3>1. /\ upg'.pc \in {"desired", "desiredThenPanic"}
          /\ upg'.todo = S \/ upg'.todo = S \cup U
      BY Zenon, <1>0, <2>5 DEF Reconciles
    <3> QED
      BY <2>4, <3>1
  <2> QED
    BY Zenon, <1>3, <2>3, <2>5 DEF ReconcileManifests
<1>4. ASSUME NEW n \in Nodes, SetDesired(n)
      PROVE  BoundInv'
  <2> DEFINE r == [node[n] EXCEPT !.desired = upg.target]
  <2>1. /\ n \in upg.todo /\ upg.pc \in {"desired", "desiredThenPanic"}
        /\ node' = [node EXCEPT ![n] = r] /\ nodeCache' = node'
    BY <1>4 DEF SetDesired, CacheFollows
  <2>2. upg'.todo = upg.todo \ {n} /\ upg'.pc = upg.pc
    BY <1>0, <1>4 DEF SetDesired, Reconciles
  <2> DEFINE S == Updating(node) \cup upg.todo
             T == Updating(node)' \cup upg'.todo
  <2>3. Updating(node)' \subseteq Updating(node) \cup {n}
    <3> HIDE DEF r
    <3> QED
      BY <1>0, <2>1 DEF Updating
  <2>4. S \in SUBSET Nodes /\ T \in SUBSET S /\ Updating(node)' \in SUBSET S
    BY Zenon, <1>0, <2>1, <2>2, <2>3
  <2>5. /\ Cardinality(S) \in Nat /\ Cardinality(T) \in Nat
        /\ Cardinality(T) <= Cardinality(S)
        /\ Cardinality(Updating(node)') \in Nat
        /\ Cardinality(Updating(node)') <= Cardinality(S)
    BY <2>4, NodeSets
  <2>6. Cardinality(S) <= max
    BY <2>1 DEF BoundInv, ChoiceFits
  <2>7. Cardinality(T) <= max /\ Cardinality(Updating(node)') <= max
    BY <1>0, <2>5, <2>6
  <2> QED
    BY <2>1, <2>2, <2>7 DEF BoundInv, ViewFollows, ChoiceFits, MaxUnavailableRespected
<1>5. CASE \/ SignalComplete \/ SignalDegraded \/ DesiredDone \/ UpgraderAborts
           \/ \E n \in Nodes : DeletePod(n) \/ SetDesiredConflict(n) \/ ReconcilePod(n)
  <2>1. node' = node /\ nodeCache' = node'
    BY <1>0, <1>5 DEF SignalComplete, SignalDegraded, DesiredDone, UpgraderAborts, DeletePod,
                      SetDesiredConflict, ReconcilePod
  <2>2. \/ upg' = Idle
        \/ \E n : upg.pc = "complete" /\ upg' = [upg EXCEPT !.todo = upg.todo \ {n}]
        \/ \E n : upg.pc = "pods" /\ upg' = [upg EXCEPT !.todo = upg.todo \ {n}]
        \/ upg' = [upg EXCEPT !.pc = "pods", !.todo = Nodes]
    BY <1>5 DEF SignalComplete, SignalDegraded, DesiredDone, UpgraderAborts, DeletePod,
                SetDesiredConflict, ReconcilePod
  <2>3. Idle.pc = "idle"
    BY DEF Idle
  <2>4. upg'.pc \in {"idle", "complete", "pods"}
    BY Zenon, <1>0, <2>2, <2>3 DEF Reconciles
  <2> QED
    BY <2>1, <2>4, NoNewUpdate DEF Updating
<1> QED
  BY <1>1, <1>2, <1>3, <1>4, <1>5 DEF UpgraderStep

\* With an up-to-date cache every step keeps the bound on updating Nodes.
LEMMA NextBound == ASSUME ~StaleReads PROVE BoundInv /\ [Next]_vars => BoundInv'
<1> SUFFICES ASSUME BoundInv, [Next]_vars PROVE BoundInv'
  OBVIOUS
<1>1. TypeOK'
  BY NextTypeOK DEF BoundInv
<1>2. CASE UNCHANGED vars
  BY <1>2, <1>1, NoNewUpdate DEF vars, Updating, BoundInv
<1> QED
  BY <1>1, <1>2, OthersBound, MCDBound, UpgraderBound DEF Next

\* When the Node cache does not lag, no interleaving of the controllers, no
\* pile of config changes and no interrupted or panicking reconcile ever takes
\* more Nodes out of service than getInPlaceMaxUnavailable (getCapacity).
THEOREM Bound == ASSUME ~StaleReads PROVE Spec => []MaxUnavailableRespected
<1>1. BoundInv => MaxUnavailableRespected
  BY DEF BoundInv
<1> QED
  BY <1>1, InitBound, NextBound, PTL DEF Spec

----------------------------------------------------------------------------
(* The order of the configs *)

\* No config of the NodePool's history comes back.
NoRollback == \A i, j \in 1..Len(History) : History[i] = History[j] => i = j

\* The place of a config in the history, 0 for none.
Idx(h) == IF h = NoHash THEN 0 ELSE CHOOSE i \in 1..Len(History) : History[i] = h
Versions == Hashes \cup {NoHash}

\* The arithmetic of places.
LEMMA NatOrder ==
    /\ \A a, b \in Nat : a <= b /\ b <= a => a = b
    /\ \A a, b \in Nat : a > b => a # 0
    /\ \A a, b \in Nat : a <= b /\ b = 0 => a = 0
OBVIOUS

\* The places tell the configs apart.
LEMMA Places ==
    ASSUME NoRollback
    PROVE  /\ \A h \in Versions : Idx(h) \in Nat /\ (Idx(h) = 0 <=> h = NoHash)
           /\ \A i \in 1..Len(History) : History[i] \in Hashes /\ Idx(History[i]) = i
           /\ \A g, h \in Versions : Idx(g) = Idx(h) => g = h
<1>1. ASSUME NEW h \in Hashes
      PROVE  Idx(h) \in 1..Len(History) /\ History[Idx(h)] = h
  <2>1. h # NoHash /\ \E i \in 1..Len(History) : History[i] = h
    BY NoHashAssumption DEF Hashes
  <2> QED
    BY <2>1 DEF Idx
<1>2. Idx(NoHash) = 0
  BY DEF Idx
<1>3. \A i \in 1..Len(History) : History[i] \in Hashes
  BY DEF Hashes
<1>4. \A h \in Versions : Idx(h) \in Nat /\ (Idx(h) = 0 <=> h = NoHash)
  BY <1>1, <1>2, NoHashAssumption, HistoryAssumption DEF Versions
<1>5. \A i \in 1..Len(History) : Idx(History[i]) = i
  BY <1>1, <1>3 DEF NoRollback
<1>6. ASSUME NEW g \in Versions, NEW h \in Versions, Idx(g) = Idx(h)
      PROVE  g = h
  BY <1>1, <1>4, <1>6 DEF Versions
<1> QED
  BY <1>3, <1>4, <1>5, <1>6

\* The MachineSet is never ahead of the spec, nor behind itself; the NodePool reports the config
\* it asks for only while the MachineSet has it.
PoolOrder ==
    /\ ms.userData = ms.target /\ (ms.current = NoHash <=> ms.target = NoHash)
    /\ Idx(ms.current) <= Idx(ms.target) /\ Idx(ms.target) <= spec /\ Idx(npCurrent) <= spec
    /\ npCurrent = Hash => ms.current = Hash /\ ms.target = Hash

\* Nodes only move forward, not beyond the MachineSet's target.  A Node that has reached its
\* desired config is done, and asks or has asked to be uncordoned.
NodeOrder ==
    \A n \in Nodes :
        /\ Idx(nodeCache[n].current) <= Idx(node[n].current)
        /\ Idx(node[n].current) <= Idx(node[n].desired)
        /\ Idx(node[n].desired) <= Idx(ms.target)
        /\ node[n].desired # NoHash => Idx(node[n].desired) > 1
        /\ node[n].current = node[n].desired /\ node[n].desired # NoHash =>
              /\ node[n].state = "Done"
              /\ node[n].desiredDrain = [verb |-> "uncordon", hash |-> node[n].desired]

\* A reconcile works on the newest config any Node was given, newer than the one completed last.
\* When it has found the rollout complete, it is.
UpgraderOrder ==
    upg.pc # "idle" =>
        /\ ms.current # NoHash /\ Idx(ms.current) < Idx(upg.target)
        /\ Idx(upg.target) <= Idx(ms.target)
        /\ \A n \in Nodes : Idx(node[n].desired) <= Idx(upg.target)
        /\ upg.pc = "complete" =>
              \A n \in Nodes : node[n].current = upg.target /\ node[n].desired = upg.target

\* While the MachineSet has the config it asks for, so have the Nodes.
Rested ==
    ms.current = ms.target /\ ms.target # NoHash =>
        \A n \in Nodes : node[n].current = node[n].desired /\ Runs(n, ms.target)

OrderInv == TypeOK /\ PoolOrder /\ NodeOrder /\ UpgraderOrder /\ Rested

\* The config versions the actors hold.
LEMMA HashTypes ==
    ASSUME TypeOK
    PROVE  /\ ms.target \in Versions /\ ms.current \in Versions /\ ms.userData \in Versions
           /\ npCurrent \in Versions /\ upg.target \in Versions /\ Hash \in Versions
           /\ boot \in Versions /\ spec \in Nat
           /\ \A n \in Nodes : /\ node[n].current \in Versions /\ node[n].desired \in Versions
                               /\ nodeCache[n].current \in Versions
<1>1. ms.target \in Versions /\ ms.current \in Versions /\ ms.userData \in Versions
  BY DEF TypeOK, Versions
<1>2. upg.target \in Versions
  BY Zenon, ReconcileUpdates DEF TypeOK, Versions
<1>3. \A n \in Nodes : /\ node[n].current \in Versions /\ node[n].desired \in Versions
                      /\ nodeCache[n].current \in Versions
  BY RecordFields DEF TypeOK, Versions
<1>4. npCurrent \in Versions /\ Hash \in Versions /\ boot \in Versions /\ spec \in Nat
  BY HashType DEF TypeOK, Versions
<1> QED
  BY <1>1, <1>2, <1>3, <1>4

\* A Node at place c that is sent to d moves to c1 and d1, while the target moves from t to t1
\* and a reconcile may work on place u.
LEMMA PlacesMove ==
    ASSUME NEW c \in Nat, NEW d \in Nat, NEW k \in Nat, NEW t \in Nat, NEW t1 \in Nat,
           NEW u \in Nat, NEW c1, NEW d1, NEW k1,
           k <= c, c <= d, d <= t, t <= t1, d = 0 \/ d > 1,
           \/ c1 = c /\ d1 = d
           \/ c1 = c /\ d1 = u /\ d <= u /\ u <= t /\ u > 1
           \/ c1 = d /\ d1 = d,
           k1 \in {k, c, c1}
    PROVE  /\ k1 <= c1 /\ c1 <= d1 /\ d1 <= t1 /\ (d1 = 0 \/ d1 > 1)
           /\ d1 = u /\ d <= u /\ c1 = c /\ c1 = d1 => d = u
OBVIOUS

\* The config the spec asks for is at the place of the spec.
LEMMA HashPlace ==
    ASSUME NoRollback, TypeOK
    PROVE  Idx(Hash) = spec /\ Hash # NoHash
BY Places, NoHashAssumption DEF TypeOK, Hash

\* One Node is written: its annotations after the step.
NodeBecomes(n, current, desired, state, drain, applied, unschedulable) ==
    /\ \A m \in Nodes : m # n => node'[m] = node[m]
    /\ node'[n].current = current /\ node'[n].desired = desired /\ node'[n].state = state
    /\ node'[n].desiredDrain = drain /\ node'[n].lastAppliedDrain = applied
    /\ node'[n].unschedulable = unschedulable

\* A write of one Node is seen in its fields.
LEMMA FieldsWritten ==
    ASSUME TypeOK, NEW n \in Nodes, NEW o, node' = [node EXCEPT ![n] = o]
    PROVE  NodeBecomes(n, o.current, o.desired, o.state, o.desiredDrain, o.lastAppliedDrain,
                       o.unschedulable)
BY DEF TypeOK, NodeBecomes

\* What each actor writes of a Node.
LEMMA NodeWrites ==
    ASSUME TypeOK, NEW n \in Nodes
    PROVE  LET r == node[n] IN
           /\ SetDesired(n) =>
                 NodeBecomes(n, r.current, upg.target, r.state, r.desiredDrain,
                             r.lastAppliedDrain, r.unschedulable)
           /\ MCDRequestDrain(n) =>
                 NodeBecomes(n, r.current, r.desired, "Working",
                             [verb |-> "drain", hash |-> r.desired],
                             r.lastAppliedDrain, r.unschedulable)
           /\ MCDUpdate(n) =>
                 NodeBecomes(n, r.desired, r.desired, "Done",
                             [verb |-> "uncordon", hash |-> r.desired],
                             r.lastAppliedDrain, r.unschedulable)
           /\ MCDRecovers(n) \/ MCDDegrades(n) =>
                 \E st : NodeBecomes(n, r.current, r.desired, st, r.desiredDrain,
                                     r.lastAppliedDrain, r.unschedulable)
           /\ AcknowledgeDrain(n) =>
                 NodeBecomes(n, r.current, r.desired, r.state, r.desiredDrain,
                             r.desiredDrain, r.unschedulable)
           /\ HandleDrainRequest(n) =>
                 \/ node' = node
                 \/ NodeBecomes(n, r.current, r.desired, r.state, r.desiredDrain,
                                r.lastAppliedDrain, nodeCache[n].desiredDrain.verb = "drain")
<1> DEFINE r == node[n]
<1>0. r \in NodeRecords
  BY DEF TypeOK
<1> HIDE DEF r
<1>1. ASSUME SetDesired(n)
      PROVE  NodeBecomes(n, r.current, upg.target, r.state, r.desiredDrain, r.lastAppliedDrain,
                         r.unschedulable)
  <2> DEFINE o == [r EXCEPT !.desired = upg.target]
  <2>1. /\ o.current = r.current /\ o.desired = upg.target /\ o.state = r.state
        /\ o.desiredDrain = r.desiredDrain /\ o.lastAppliedDrain = r.lastAppliedDrain
        /\ o.unschedulable = r.unschedulable
    BY <1>0 DEF NodeRecords
  <2>2. node' = [node EXCEPT ![n] = o]
    BY <1>1 DEF SetDesired, r
  <2> HIDE DEF o
  <2> QED
    BY Zenon, <2>1, <2>2, FieldsWritten
<1>2. ASSUME MCDRequestDrain(n)
      PROVE  NodeBecomes(n, r.current, r.desired, "Working",
                         [verb |-> "drain", hash |-> r.desired], r.lastAppliedDrain, r.unschedulable)
  <2> DEFINE q == [verb |-> "drain", hash |-> r.desired]
  <2> HIDE DEF q
  <2> DEFINE o == [r EXCEPT !.desiredDrain = q, !.state = "Working"]
  <2>1. /\ o.current = r.current /\ o.desired = r.desired /\ o.state = "Working"
        /\ o.desiredDrain = q /\ o.lastAppliedDrain = r.lastAppliedDrain
        /\ o.unschedulable = r.unschedulable
    BY <1>0 DEF NodeRecords
  <2>2. node' = [node EXCEPT ![n] = o]
    BY Zenon, <1>2 DEF MCDRequestDrain, r, q, TypeOK
  <2> HIDE DEF o
  <2>3. NodeBecomes(n, r.current, r.desired, "Working", q, r.lastAppliedDrain, r.unschedulable)
    BY Zenon, <2>1, <2>2, FieldsWritten
  <2> QED
    BY <2>3 DEF q
<1>3. ASSUME MCDUpdate(n)
      PROVE  NodeBecomes(n, r.desired, r.desired, "Done",
                         [verb |-> "uncordon", hash |-> r.desired], r.lastAppliedDrain,
                         r.unschedulable)
  <2> DEFINE q == [verb |-> "uncordon", hash |-> r.desired]
  <2> HIDE DEF q
  <2> DEFINE o == [r EXCEPT !.current = r.desired, !.state = "Done", !.desiredDrain = q]
  <2>1. /\ o.current = r.desired /\ o.desired = r.desired /\ o.state = "Done"
        /\ o.desiredDrain = q /\ o.lastAppliedDrain = r.lastAppliedDrain
        /\ o.unschedulable = r.unschedulable
    BY <1>0 DEF NodeRecords
  <2>2. node' = [node EXCEPT ![n] = o]
    BY Zenon, <1>3 DEF MCDUpdate, r, q, TypeOK
  <2> HIDE DEF o
  <2>3. NodeBecomes(n, r.desired, r.desired, "Done", q, r.lastAppliedDrain, r.unschedulable)
    BY Zenon, <2>1, <2>2, FieldsWritten
  <2> QED
    BY <2>3 DEF q
<1>4. ASSUME NEW st, node' = [node EXCEPT ![n].state = st]
      PROVE  NodeBecomes(n, r.current, r.desired, st, r.desiredDrain, r.lastAppliedDrain,
                         r.unschedulable)
  <2> DEFINE o == [r EXCEPT !.state = st]
  <2>1. /\ o.current = r.current /\ o.desired = r.desired /\ o.state = st
        /\ o.desiredDrain = r.desiredDrain /\ o.lastAppliedDrain = r.lastAppliedDrain
        /\ o.unschedulable = r.unschedulable
    BY <1>0 DEF NodeRecords
  <2>2. node' = [node EXCEPT ![n] = o]
    BY <1>4 DEF r
  <2> HIDE DEF o
  <2> QED
    BY Zenon, <2>1, <2>2, FieldsWritten
<1>5. MCDRecovers(n) \/ MCDDegrades(n) => \E st : node' = [node EXCEPT ![n].state = st]
  BY DEF MCDRecovers, MCDDegrades
<1>6. ASSUME AcknowledgeDrain(n)
      PROVE  NodeBecomes(n, r.current, r.desired, r.state, r.desiredDrain, r.desiredDrain,
                         r.unschedulable)
  <2> DEFINE o == [r EXCEPT !.lastAppliedDrain = r.desiredDrain]
  <2>1. /\ o.current = r.current /\ o.desired = r.desired /\ o.state = r.state
        /\ o.desiredDrain = r.desiredDrain /\ o.lastAppliedDrain = r.desiredDrain
        /\ o.unschedulable = r.unschedulable
    BY <1>0 DEF NodeRecords
  <2>2. node' = [node EXCEPT ![n] = o]
    BY <1>6 DEF AcknowledgeDrain, r
  <2> HIDE DEF o
  <2> QED
    BY Zenon, <2>1, <2>2, FieldsWritten
<1>7. ASSUME HandleDrainRequest(n), node' # node
      PROVE  NodeBecomes(n, r.current, r.desired, r.state, r.desiredDrain, r.lastAppliedDrain,
                         nodeCache[n].desiredDrain.verb = "drain")
  <2> DEFINE b == nodeCache[n].desiredDrain.verb = "drain"
  <2>0. node' = [node EXCEPT ![n] = [r EXCEPT !.unschedulable = b]]
    BY <1>7 DEF HandleDrainRequest, r
  <2> HIDE DEF b
  <2> DEFINE o == [r EXCEPT !.unschedulable = b]
  <2>1. /\ o.current = r.current /\ o.desired = r.desired /\ o.state = r.state
        /\ o.desiredDrain = r.desiredDrain /\ o.lastAppliedDrain = r.lastAppliedDrain
        /\ o.unschedulable = b
    BY <1>0 DEF NodeRecords
  <2>2. node' = [node EXCEPT ![n] = o]
    BY <2>0
  <2> HIDE DEF o
  <2>3. NodeBecomes(n, r.current, r.desired, r.state, r.desiredDrain, r.lastAppliedDrain, b)
    BY Zenon, <2>1, <2>2, FieldsWritten
  <2> QED
    BY <2>3 DEF b
<1> QED
  BY <1>1, <1>2, <1>3, <1>4, <1>5, <1>6, <1>7 DEF r

\* The steps of the NodePool and its MachineSet.
PoolKept == UNCHANGED <<spec, npCurrent, boot, ms.userData, ms.target, ms.current>>
NodesKept == UNCHANGED <<node, nodeCache, upg, drainer>>
Proposes ==
    /\ NodesKept /\ UNCHANGED <<spec, npCurrent>>
    /\ ms.userData # Hash /\ ms'.userData = Hash /\ ms'.target = Hash
    /\ ms.current = NoHash => ms'.current = Hash /\ boot' = Hash
    /\ ms.current # NoHash => ms'.current = ms.current /\ boot' = boot
Records ==
    /\ NodesKept /\ UNCHANGED <<spec, ms, boot>>
    /\ ms.userData = Hash
    /\ npCurrent' = npCurrent \/ (ms.current = ms.target /\ npCurrent' = Hash)
Completes ==
    /\ UNCHANGED <<spec, npCurrent, boot, node, nodeCache, drainer, ms.userData, ms.target>>
    /\ upg.pc = "complete" /\ ms'.current = upg.target /\ upg'.pc = "idle"

\* The fields of the MachineSet that its writers change.
LEMMA MachineSetFields ==
    ASSUME TypeOK, NEW t, NEW c
    PROVE  LET p == [ms EXCEPT !.userData = t, !.target = t, !.current = c]
               q == [ms EXCEPT !.current = c, !.inProgressTrue = FALSE, !.inProgressFalse = FALSE]
           IN  /\ p.userData = t /\ p.target = t /\ p.current = c
               /\ q.userData = ms.userData /\ q.target = ms.target /\ q.current = c
BY DEF TypeOK

\* What each step does to the pool.
LEMMA PoolSteps ==
    ASSUME TypeOK, [Next]_vars
    PROVE  PoolKept \/ (ChangeSpec /\ NodesKept) \/ Proposes \/ Records \/ Completes
<1>1. CASE ChangeSpec
  BY <1>1 DEF ChangeSpec, NodesKept
<1>2. CASE NodePoolReconcile
  <2>0. NodesKept /\ spec' = spec
    BY <1>2 DEF NodePoolReconcile, NodesKept
  <2>1. CASE ms.userData = Hash
    BY <1>2, <2>0, <2>1 DEF NodePoolReconcile, Records
  <2>2. CASE ms.userData # Hash
    <3> DEFINE c == IF ms.current = NoHash THEN Hash ELSE ms.current
    <3>1. /\ ms' = [ms EXCEPT !.userData = Hash, !.target = Hash, !.current = c]
          /\ npCurrent' = npCurrent /\ boot' = IF ms.current = NoHash THEN Hash ELSE boot
      BY <1>2, <2>2 DEF NodePoolReconcile, ProposeTarget
    <3> HIDE DEF c
    <3>2. ms'.userData = Hash /\ ms'.target = Hash /\ ms'.current = c
      BY <3>1, MachineSetFields
    <3> QED
      BY <2>0, <2>2, <3>1, <3>2 DEF Proposes, c
  <2> QED
    BY <2>1, <2>2
<1>3. CASE SignalComplete
  <2>1. ms'.userData = ms.userData /\ ms'.target = ms.target /\ ms'.current = upg.target
    BY <1>3, MachineSetFields DEF SignalComplete
  <2> QED
    BY <1>3, <2>1 DEF SignalComplete, UpgraderVarsUnchanged, poolVars, Completes, Idle
<1>4. CASE SignalDegraded \/ SignalProgress
  <2>1. ms'.userData = ms.userData /\ ms'.target = ms.target /\ ms'.current = ms.current
    BY Zenon, <1>4 DEF SignalDegraded, SignalProgress, TypeOK
  <2> QED
    BY <1>4, <2>1 DEF SignalDegraded, SignalProgress, UpgraderVarsUnchanged, poolVars, PoolKept
<1>5. CASE \/ PayloadGenerated \/ UpgraderReconcile \/ ReconcileManifests \/ DesiredDone
           \/ UpgraderAborts \/ UNCHANGED vars
           \/ \E n \in Nodes : \/ DeletePod(n) \/ SetDesired(n) \/ SetDesiredConflict(n)
                               \/ ReconcilePod(n) \/ DrainerStep(n) \/ DrainFails(n)
                               \/ MCDStep(n) \/ MCDDegrades(n) \/ CacheSync(n)
  <2>1. UNCHANGED <<poolVars, ms>>
    BY Zenon, <1>5 DEF PayloadGenerated, UpgraderReconcile, ReconcileManifests, DesiredDone,
                UpgraderAborts, vars, DeletePod, SetDesired, SetDesiredConflict, ReconcilePod,
                DrainerStep, HandleDrainRequest, AcknowledgeDrain, AcknowledgeConflict, DrainFails,
                MCDStep, MCDRequestDrain, MCDUpdate, MCDRecovers, MCDDegrades, CacheSync,
                UpgraderVarsUnchanged, DrainerVarsUnchanged, MCDVarsUnchanged, poolVars
  <2> QED
    BY <2>1 DEF PoolKept, poolVars
<1> QED
  BY <1>1, <1>2, <1>3, <1>4, <1>5 DEF Next, UpgraderStep

\* Which steps write a Node, and what the cache then shows.
LEMMA NodeSteps ==
    ASSUME TypeOK, [Next]_vars
    PROVE  /\ \/ node' = node
              \/ \E n \in Nodes : \/ SetDesired(n) \/ MCDRequestDrain(n) \/ MCDUpdate(n)
                                  \/ MCDRecovers(n) \/ MCDDegrades(n) \/ AcknowledgeDrain(n)
                                  \/ HandleDrainRequest(n)
           /\ \A m \in Nodes : nodeCache'[m] \in {nodeCache[m], node[m], node'[m]}
<1>1. CASE \E n \in Nodes : \/ SetDesired(n) \/ MCDRequestDrain(n) \/ MCDUpdate(n)
                            \/ MCDRecovers(n) \/ MCDDegrades(n) \/ AcknowledgeDrain(n)
                            \/ HandleDrainRequest(n)
  <2>1. CacheFollows
    BY <1>1 DEF SetDesired, MCDRequestDrain, MCDUpdate, MCDRecovers, MCDDegrades,
                AcknowledgeDrain, HandleDrainRequest
  <2> QED
    BY <1>1, <2>1 DEF CacheFollows
<1>2. CASE \E n \in Nodes : CacheSync(n)
  BY <1>2 DEF CacheSync, TypeOK
<1>3. CASE \/ ChangeSpec \/ NodePoolReconcile \/ PayloadGenerated \/ UpgraderReconcile
           \/ SignalComplete \/ SignalDegraded \/ SignalProgress \/ ReconcileManifests
           \/ DesiredDone \/ UpgraderAborts \/ UNCHANGED vars
           \/ \E n \in Nodes : \/ DeletePod(n) \/ SetDesiredConflict(n) \/ ReconcilePod(n)
                               \/ AcknowledgeConflict(n) \/ DrainFails(n)
  BY Zenon, <1>3 DEF ChangeSpec, NodePoolReconcile, PayloadGenerated, UpgraderReconcile, SignalComplete,
              SignalDegraded, SignalProgress, ReconcileManifests, DesiredDone, UpgraderAborts,
              vars, DeletePod, SetDesiredConflict, ReconcilePod, AcknowledgeConflict, DrainFails
<1> QED
  BY Zenon, <1>1, <1>2, <1>3 DEF Next, UpgraderStep, DrainerStep, MCDStep

\* A reconcile in progress goes on with its target and its view of the Nodes, except for the Node
\* it has just written.
GoesOn ==
    /\ upg.pc # "idle" /\ upg'.target = upg.target
    /\ upg'.pc = "complete" => upg.pc = "complete"
    /\ \A n \in Nodes : upg'.view[n] = upg.view[n] \/ (SetDesired(n) /\ upg'.view[n] = node'[n])

\* What each step does to the upgrader's reconcile.
LEMMA ReconcileSteps ==
    ASSUME TypeOK, [Next]_vars
    PROVE  upg' = upg \/ upg'.pc = "idle" \/ UpgraderReconcile \/ GoesOn
<1>1. upg \in Reconciles
  BY DEF TypeOK
<1>2. CASE \/ SignalComplete \/ SignalDegraded \/ UpgraderAborts
           \/ \E n \in Nodes : SetDesiredConflict(n)
  BY <1>2 DEF SignalComplete, SignalDegraded, UpgraderAborts, SetDesiredConflict, Idle
<1>3. ASSUME NEW p, NEW T
      PROVE  LET u == [upg EXCEPT !.pc = p, !.todo = T]
             IN  u.pc = p /\ u.target = upg.target /\ u.view = upg.view
  BY <1>1 DEF Reconciles
<1>4. ASSUME NEW n \in Nodes, DeletePod(n) \/ ReconcilePod(n)
      PROVE  upg'.pc = "idle" \/ GoesOn
  <2>1. upg' = Idle \/ upg' = [upg EXCEPT !.pc = upg.pc, !.todo = upg.todo \ {n}]
    BY Zenon, <1>1, <1>4 DEF DeletePod, ReconcilePod, Reconciles
  <2>2. upg.pc # "idle"
    BY <1>4 DEF DeletePod, ReconcilePod
  <2>3. \/ upg' = Idle
        \/ upg'.pc = upg.pc /\ upg'.target = upg.target /\ upg'.view = upg.view
    BY Zenon, <1>1, <2>1 DEF Reconciles
  <2> QED
    BY <2>2, <2>3 DEF Idle, GoesOn
<1>5. ASSUME SignalProgress
      PROVE  GoesOn
  <2>1. upg' = [upg EXCEPT !.pc = "manifests", !.todo = upg.todo] /\ upg.pc = "progress"
    BY Zenon, <1>1, <1>5 DEF SignalProgress, Reconciles
  <2>2. upg'.pc = "manifests" /\ upg'.target = upg.target /\ upg'.view = upg.view
    BY <1>3, <2>1
  <2> QED
    BY <2>1, <2>2 DEF GoesOn
<1>6. ASSUME ReconcileManifests \/ DesiredDone
      PROVE  upg'.pc = "idle" \/ GoesOn
  <2>1. upg' = Idle \/ \E p \in {"desired", "desiredThenPanic", "pods"} : \E T :
                          upg' = [upg EXCEPT !.pc = p, !.todo = T]
    BY Zenon, <1>6 DEF ReconcileManifests, DesiredDone
  <2>2. upg.pc # "idle"
    BY Zenon, <1>6 DEF ReconcileManifests, DesiredDone
  <2>3. \/ upg' = Idle
        \/ upg'.pc # "complete" /\ upg'.target = upg.target /\ upg'.view = upg.view
    <3> SUFFICES ASSUME NEW p \in {"desired", "desiredThenPanic", "pods"}, NEW T,
                        upg' = [upg EXCEPT !.pc = p, !.todo = T]
                 PROVE  upg'.pc = p /\ upg'.target = upg.target /\ upg'.view = upg.view
      BY Zenon, <2>1
    <3> QED
      BY <1>1 DEF Reconciles
  <2> QED
    BY <2>2, <2>3 DEF Idle, GoesOn
<1>7. ASSUME NEW n \in Nodes, SetDesired(n)
      PROVE  GoesOn
  <2>1. upg' = [upg EXCEPT !.todo = upg.todo \ {n}, !.view[n] = node'[n]] /\ upg.pc # "idle"
    BY <1>7 DEF SetDesired
  <2>2. /\ upg'.pc = upg.pc /\ upg'.target = upg.target
        /\ upg'.view = [upg.view EXCEPT ![n] = node'[n]]
    BY <1>1, <2>1 DEF Reconciles
  <2>3. \A m \in Nodes : upg'.view[m] = upg.view[m] \/ (m = n /\ upg'.view[m] = node'[m])
    BY <1>1, <2>2 DEF Reconciles
  <2> QED
    BY <1>7, <2>1, <2>2, <2>3 DEF GoesOn
<1>8. CASE \/ ChangeSpec \/ NodePoolReconcile \/ PayloadGenerated \/ UNCHANGED vars
           \/ \E n \in Nodes : DrainerStep(n) \/ DrainFails(n) \/ MCDStep(n) \/ MCDDegrades(n)
                               \/ CacheSync(n)
  BY Zenon, <1>8 DEF ChangeSpec, NodePoolReconcile, PayloadGenerated, vars, DrainerStep,
              HandleDrainRequest, AcknowledgeDrain, AcknowledgeConflict, DrainFails, MCDStep,
              MCDRequestDrain, MCDUpdate, MCDRecovers, MCDDegrades, CacheSync,
              DrainerVarsUnchanged, MCDVarsUnchanged
<1> QED
  BY <1>2, <1>4, <1>5, <1>6, <1>7, <1>8 DEF Next, UpgraderStep

\* How a Node moves: not at all, to a new desired config, within its update, or to its desired
\* config.
NodeMoves(n) ==
    \/ UNCHANGED <<node[n].current, node[n].desired, node[n].state, node[n].desiredDrain>>
    \/ /\ upg.pc \in {"desired", "desiredThenPanic"} /\ node'[n].desired = upg.target
       /\ UNCHANGED <<node[n].current, node[n].state, node[n].desiredDrain>>
    \/ /\ node[n].current # node[n].desired \/ node[n].state # "Done"
       /\ UNCHANGED <<node[n].current, node[n].desired>>
    \/ /\ node[n].current # node[n].desired
       /\ node'[n].current = node[n].desired /\ node'[n].desired = node[n].desired
       /\ node'[n].state = "Done"
       /\ node'[n].desiredDrain = [verb |-> "uncordon", hash |-> node[n].desired]

\* Every step moves a Node in one of these ways.
LEMMA NodesMove ==
    ASSUME TypeOK, [Next]_vars, NEW n \in Nodes
    PROVE  NodeMoves(n)
<1>1. CASE node' = node
  BY <1>1 DEF NodeMoves
<1>2. ASSUME NEW m \in Nodes, m # n,
             \/ SetDesired(m) \/ MCDRequestDrain(m) \/ MCDUpdate(m) \/ MCDRecovers(m)
             \/ MCDDegrades(m) \/ AcknowledgeDrain(m) \/ HandleDrainRequest(m)
      PROVE  NodeMoves(n)
  <2>1. node'[n] = node[n]
    BY Zenon, <1>2, NodeWrites DEF NodeBecomes
  <2> QED
    BY Zenon, <2>1 DEF NodeMoves
<1>3. CASE SetDesired(n)
  BY Zenon, <1>3, NodeWrites DEF NodeBecomes, NodeMoves, SetDesired
<1>4. CASE MCDRequestDrain(n)
  BY Zenon, <1>4, NodeWrites DEF NodeBecomes, NodeMoves, MCDRequestDrain, MCDActive
<1>5. CASE MCDUpdate(n)
  BY Zenon, <1>5, NodeWrites DEF NodeBecomes, NodeMoves, MCDUpdate, MCDActive
<1>6. CASE MCDRecovers(n) \/ MCDDegrades(n)
  <2>1. node[n].current # node[n].desired \/ node[n].state # "Done"
    BY <1>6 DEF MCDRecovers, MCDDegrades, MCDActive
  <2> QED
    BY Zenon, <1>6, <2>1, NodeWrites DEF NodeBecomes, NodeMoves
<1>7. CASE AcknowledgeDrain(n) \/ HandleDrainRequest(n)
  BY Zenon, <1>1, <1>7, NodeWrites DEF NodeBecomes, NodeMoves
<1> QED
  BY <1>1, <1>2, <1>3, <1>4, <1>5, <1>6, <1>7, NodeSteps

\* No step lets the MachineSet run ahead of the spec or fall back.
LEMMA PoolOrderStep ==
    ASSUME NoRollback, OrderInv, TypeOK', [Next]_vars
    PROVE  PoolOrder' /\ Idx(ms.target) <= Idx(ms'.target)
<1>1. /\ \A h \in Versions : Idx(h) \in Nat /\ (Idx(h) = 0 <=> h = NoHash)
      /\ \A g, h \in Versions : Idx(g) = Idx(h) => g = h
  BY Places
<1>2. Idx(Hash) = spec /\ Hash # NoHash /\ Idx(Hash') = spec' /\ Hash' # NoHash
  <2>1. Idx(Hash) = spec /\ Hash # NoHash
    BY HashPlace DEF OrderInv
  <2>2. Idx(Hash') = spec' /\ Hash' # NoHash
    BY Places, NoHashAssumption DEF TypeOK, Hash
  <2> QED
    BY <2>1, <2>2
<1>3. /\ ms.target \in Versions /\ ms.current \in Versions /\ npCurrent \in Versions
      /\ upg.target \in Versions /\ Hash \in Versions /\ spec \in Nat
  BY HashTypes DEF OrderInv
<1>4. CASE PoolKept
  BY <1>1, <1>3, <1>4 DEF PoolKept, OrderInv, PoolOrder, Hash
<1>5. CASE ChangeSpec /\ NodesKept
  <2>1. spec' = spec + 1 /\ ms' = ms /\ npCurrent' = npCurrent
    BY <1>5 DEF ChangeSpec
  <2>2. Idx(npCurrent) <= spec /\ Idx(ms.target) <= spec
    BY DEF OrderInv, PoolOrder
  <2>3. npCurrent # Hash'
    BY <1>1, <1>2, <1>3, <2>1, <2>2
  <2> QED
    BY <1>1, <1>3, <2>1, <2>2, <2>3 DEF OrderInv, PoolOrder
<1>6. CASE Proposes
  <2>1. Hash' = Hash
    BY <1>6 DEF Proposes, Hash
  <2>2. Idx(ms.target) <= spec /\ Idx(ms.current) <= Idx(ms.target) /\ ms.userData = ms.target
    BY DEF OrderInv, PoolOrder
  <2>3. npCurrent # Hash
    BY <1>6, <2>2 DEF Proposes, OrderInv, PoolOrder
  <2>4. Idx(ms'.current) <= spec
    BY <1>1, <1>2, <1>3, <1>6, <2>2 DEF Proposes
  <2> QED
    BY <1>1, <1>2, <1>3, <1>6, <2>1, <2>2, <2>3, <2>4 DEF Proposes, OrderInv, PoolOrder
<1>7. CASE Records
  <2>1. Hash' = Hash /\ ms' = ms /\ spec' = spec
    BY <1>7 DEF Records, Hash
  <2> QED
    BY <1>1, <1>2, <1>3, <1>7, <2>1 DEF Records, OrderInv, PoolOrder
<1>8. CASE Completes
  <2>1. Hash' = Hash
    BY <1>8 DEF Completes, Hash
  <2>2. /\ Idx(ms.current) < Idx(upg.target) /\ Idx(upg.target) <= Idx(ms.target)
        /\ upg.target # NoHash
    BY <1>1, <1>3, <1>8 DEF Completes, OrderInv, UpgraderOrder
  <2>3. npCurrent # Hash
    BY <2>2, <1>1, <1>3 DEF OrderInv, PoolOrder
  <2> QED
    BY <1>1, <1>3, <1>8, <2>1, <2>2, <2>3 DEF Completes, OrderInv, PoolOrder
<1> QED
  BY <1>4, <1>5, <1>6, <1>7, <1>8, PoolSteps DEF OrderInv

\* No step lets a Node run ahead of the MachineSet or fall back.
LEMMA NodeOrderStep ==
    ASSUME NoRollback, OrderInv, TypeOK', [Next]_vars
    PROVE  NodeOrder'
<1> SUFFICES ASSUME NEW n \in Nodes
             PROVE  /\ Idx(nodeCache'[n].current) <= Idx(node'[n].current)
                    /\ Idx(node'[n].current) <= Idx(node'[n].desired)
                    /\ Idx(node'[n].desired) <= Idx(ms'.target)
                    /\ node'[n].desired # NoHash => Idx(node'[n].desired) > 1
                    /\ node'[n].current = node'[n].desired /\ node'[n].desired # NoHash =>
                          /\ node'[n].state = "Done"
                          /\ node'[n].desiredDrain =
                                [verb |-> "uncordon", hash |-> node'[n].desired]
  BY Zenon DEF NodeOrder
<1>1. /\ \A h \in Versions : Idx(h) \in Nat /\ (Idx(h) = 0 <=> h = NoHash)
      /\ \A g, h \in Versions : Idx(g) = Idx(h) => g = h
  BY Places
<1>2. /\ ms.target \in Versions /\ ms'.target \in Versions /\ upg.target \in Versions
      /\ ms.current \in Versions
      /\ node[n].current \in Versions /\ node[n].desired \in Versions
      /\ nodeCache[n].current \in Versions
      /\ node'[n].current \in Versions /\ node'[n].desired \in Versions
  <2>1. /\ ms'.target \in Versions
        /\ node'[n].current \in Versions /\ node'[n].desired \in Versions
    BY RecordFields DEF TypeOK, Versions
  <2> QED
    BY <2>1, HashTypes DEF OrderInv
<1>3. Idx(ms.target) <= Idx(ms'.target)
  BY PoolOrderStep
<1>4. /\ Idx(nodeCache[n].current) <= Idx(node[n].current)
      /\ Idx(node[n].current) <= Idx(node[n].desired)
      /\ Idx(node[n].desired) <= Idx(ms.target)
      /\ node[n].desired # NoHash => Idx(node[n].desired) > 1
      /\ node[n].current = node[n].desired /\ node[n].desired # NoHash =>
            /\ node[n].state = "Done"
            /\ node[n].desiredDrain = [verb |-> "uncordon", hash |-> node[n].desired]
  BY DEF OrderInv, NodeOrder
<1>5. upg.pc # "idle" => /\ Idx(ms.current) < Idx(upg.target) /\ ms.current # NoHash
                        /\ Idx(upg.target) <= Idx(ms.target)
                        /\ Idx(node[n].desired) <= Idx(upg.target)
  BY DEF OrderInv, UpgraderOrder
<1>6. NodeMoves(n)
  BY NodesMove DEF OrderInv
<1>7. /\ Idx(ms.target) \in Nat /\ Idx(ms'.target) \in Nat /\ Idx(upg.target) \in Nat
      /\ Idx(ms.current) \in Nat /\ (ms.current # NoHash => Idx(ms.current) # 0)
      /\ Idx(node[n].current) \in Nat /\ Idx(node[n].desired) \in Nat
      /\ Idx(nodeCache[n].current) \in Nat
  BY Zenon, <1>1, <1>2
<1>8. \/ node'[n].current = node[n].current /\ node'[n].desired = node[n].desired
      \/ /\ upg.pc # "idle" /\ node'[n].desired = upg.target
         /\ node'[n].current = node[n].current
      \/ node'[n].current = node[n].desired /\ node'[n].desired = node[n].desired
  BY <1>6 DEF NodeMoves
<1>9. /\ Idx(nodeCache'[n].current) <= Idx(node'[n].current)
      /\ Idx(node'[n].current) <= Idx(node'[n].desired)
      /\ Idx(node'[n].desired) <= Idx(ms'.target)
      /\ node'[n].desired # NoHash => Idx(node'[n].desired) > 1
      /\ /\ node'[n].desired = upg.target /\ upg.pc # "idle" /\ node'[n].current = node[n].current
         /\ node'[n].current = node'[n].desired
         => Idx(node[n].desired) = Idx(upg.target)
  <2> DEFINE c == Idx(node[n].current)
             d == Idx(node[n].desired)
             k == Idx(nodeCache[n].current)
             c1 == Idx(node'[n].current)
             d1 == Idx(node'[n].desired)
             k1 == Idx(nodeCache'[n].current)
             t == Idx(ms.target)
             t1 == Idx(ms'.target)
             u == Idx(upg.target)
             m == Idx(ms.current)
  <2>1. k1 \in {k, c, c1}
    <3>1. nodeCache'[n].current \in {nodeCache[n].current, node[n].current, node'[n].current}
      BY Zenon, NodeSteps DEF OrderInv
    <3> QED
      BY Zenon, <3>1
  <2>2. /\ c \in Nat /\ d \in Nat /\ k \in Nat /\ t \in Nat /\ t1 \in Nat /\ u \in Nat
        /\ m \in Nat
    BY Zenon, <1>7
  <2>3. k <= c /\ c <= d /\ d <= t /\ t <= t1
    BY Zenon, <1>3, <1>4
  <2>4. d = 0 \/ d > 1
    BY Zenon, <1>1, <1>2, <1>4
  <2>5. upg.pc # "idle" => d <= u /\ u <= t /\ m < u /\ m # 0
    BY Zenon, <1>5, <1>7
  <2>6. \/ c1 = c /\ d1 = d
        \/ upg.pc # "idle" /\ c1 = c /\ d1 = u
        \/ c1 = d /\ d1 = d
    BY Zenon, <1>8
  <2>7. node'[n].desired # NoHash => d1 # 0
    BY Zenon, <1>1, <1>2
  <2>8. /\ node'[n].desired = upg.target => d1 = u
        /\ node'[n].current = node[n].current => c1 = c
        /\ node'[n].current = node'[n].desired => c1 = d1
    BY Zenon
  <2> HIDE DEF c, d, k, c1, d1, k1, t, t1, u, m
  <2>9. upg.pc # "idle" => u > 1
    BY <2>2, <2>5
  <2>10. \/ c1 = c /\ d1 = d
         \/ c1 = c /\ d1 = u /\ d <= u /\ u <= t /\ u > 1
         \/ c1 = d /\ d1 = d
    BY <2>5, <2>6, <2>9
  <2>11. /\ k1 <= c1 /\ c1 <= d1 /\ d1 <= t1 /\ (d1 = 0 \/ d1 > 1)
         /\ d1 = u /\ d <= u /\ c1 = c /\ c1 = d1 => d = u
    BY <2>1, <2>2, <2>3, <2>4, <2>10, PlacesMove
  <2>12. (node'[n].desired # NoHash => d1 > 1)
         /\ (/\ node'[n].desired = upg.target /\ upg.pc # "idle"
             /\ node'[n].current = node[n].current /\ node'[n].current = node'[n].desired
             => d = u)
    BY Zenon, <2>5, <2>7, <2>8, <2>11
  <2> QED
    BY Zenon, <2>11, <2>12 DEF c, d, c1, d1, k1, t1, u
<1>10. node'[n].current = node'[n].desired /\ node'[n].desired # NoHash =>
          /\ node'[n].state = "Done"
          /\ node'[n].desiredDrain = [verb |-> "uncordon", hash |-> node'[n].desired]
  <2>1. CASE upg.pc \in {"desired", "desiredThenPanic"} /\ node'[n].desired = upg.target
             /\ UNCHANGED <<node[n].current, node[n].state, node[n].desiredDrain>>
    <3>1. node'[n].current = node'[n].desired => node[n].desired = node'[n].desired
      BY Zenon, <1>1, <1>2, <1>9, <2>1
    <3> QED
      BY <1>4, <2>1, <3>1
  <2> QED
    BY Zenon, <1>4, <1>6, <2>1 DEF NodeMoves
<1> QED
  BY <1>9, <1>10

\* A reconcile stays on the newest config, and what it found complete stays complete.
LEMMA UpgraderOrderStep ==
    ASSUME NoRollback, OrderInv, TypeOK', [Next]_vars
    PROVE  UpgraderOrder'
<1> SUFFICES ASSUME upg'.pc # "idle"
             PROVE  /\ ms'.current # NoHash /\ Idx(ms'.current) < Idx(upg'.target)
                    /\ Idx(upg'.target) <= Idx(ms'.target)
                    /\ \A n \in Nodes : Idx(node'[n].desired) <= Idx(upg'.target)
                    /\ upg'.pc = "complete" =>
                          \A n \in Nodes : /\ node'[n].current = upg'.target
                                           /\ node'[n].desired = upg'.target
  BY DEF UpgraderOrder
<1>1. /\ \A h \in Versions : Idx(h) \in Nat /\ (Idx(h) = 0 <=> h = NoHash)
      /\ \A g, h \in Versions : Idx(g) = Idx(h) => g = h
  BY Places
<1>2. /\ ms.target \in Versions /\ upg.target \in Versions /\ ms.current \in Versions
      /\ \A n \in Nodes : /\ node[n].current \in Versions /\ node[n].desired \in Versions
                          /\ nodeCache[n].current \in Versions
  BY HashTypes DEF OrderInv
<1>3. Idx(ms.target) <= Idx(ms'.target) /\ ms'.target \in Versions
  BY PoolOrderStep DEF TypeOK, Versions
<1>4. ms.current # NoHash => ms'.current = ms.current
  <2>1. ~ Completes
    BY DEF Completes
  <2> QED
    BY <2>1, PoolSteps DEF OrderInv, PoolKept, ChangeSpec, Proposes, Records
<1>5. CASE upg.pc # "idle" /\ upg'.target = upg.target
           /\ (upg'.pc = "complete" => upg.pc = "complete")
  <2>1. /\ ms.current # NoHash /\ Idx(ms.current) < Idx(upg.target)
        /\ Idx(upg.target) <= Idx(ms.target)
        /\ \A n \in Nodes : Idx(node[n].desired) <= Idx(upg.target)
        /\ upg.pc = "complete" =>
              \A n \in Nodes : node[n].current = upg.target /\ node[n].desired = upg.target
    BY <1>5 DEF OrderInv, UpgraderOrder
  <2>2. \A n \in Nodes : NodeMoves(n)
    BY NodesMove DEF OrderInv
  <2>3. Idx(upg'.target) <= Idx(ms'.target)
    BY <1>1, <1>2, <1>3, <1>5, <2>1
  <2>4. ASSUME NEW n \in Nodes
        PROVE  Idx(node'[n].desired) <= Idx(upg'.target)
    <3>1. node'[n].desired = node[n].desired \/ node'[n].desired = upg.target
      BY Zenon, <2>2 DEF NodeMoves
    <3>2. Idx(node[n].desired) <= Idx(upg.target) /\ Idx(upg.target) \in Nat
      BY <1>1, <1>2, <2>1
    <3> QED
      BY <1>5, <3>1, <3>2
  <2>5. upg.pc = "complete" =>
           \A n \in Nodes : node'[n].current = upg.target /\ node'[n].desired = upg.target
    BY Zenon, <2>1, <2>2 DEF NodeMoves
  <2> QED
    BY <1>4, <1>5, <2>1, <2>3, <2>4, <2>5
<1>6. CASE UpgraderReconcile
  <2>1. /\ ms' = ms /\ node' = node /\ upg'.target = ms.target
        /\ ms.target # NoHash /\ ms.target # ms.current
        /\ upg'.pc = "complete" => inPlaceUpgradeComplete(nodeCache, ms.current, ms.target)
    BY <1>6 DEF UpgraderReconcile
  <2>2. ms.current # NoHash /\ Idx(ms.current) < Idx(ms.target)
    <3>1. Idx(ms.current) <= Idx(ms.target) /\ ms.current # NoHash
      BY Zenon, <2>1 DEF OrderInv, PoolOrder
    <3>2. Idx(ms.current) # Idx(ms.target) /\ Idx(ms.current) \in Nat /\ Idx(ms.target) \in Nat
      BY Zenon, <1>1, <1>2, <2>1
    <3> QED
      BY <3>1, <3>2
  <2>3. \A n \in Nodes : /\ Idx(nodeCache[n].current) <= Idx(node[n].current)
                         /\ Idx(node[n].current) <= Idx(node[n].desired)
                         /\ Idx(node[n].desired) <= Idx(ms.target)
    BY Zenon DEF OrderInv, NodeOrder
  <2>4. ASSUME upg'.pc = "complete", NEW n \in Nodes
        PROVE  node[n].current = ms.target /\ node[n].desired = ms.target
    <3>1. nodeCache[n].current = ms.target
      BY <2>1, <2>4 DEF inPlaceUpgradeComplete, nodeNeedsUpgrade
    <3>2. /\ Idx(node[n].current) \in Nat /\ Idx(node[n].desired) \in Nat
          /\ Idx(ms.target) \in Nat
      BY Zenon, <1>1, <1>2
    <3>3. Idx(node[n].current) = Idx(ms.target) /\ Idx(node[n].desired) = Idx(ms.target)
      BY SMTT(30), <2>3, <3>1, <3>2
    <3> QED
      BY Zenon, <1>1, <1>2, <3>3
  <2>5. Idx(ms.target) <= Idx(ms.target)
    <3>1. Idx(ms.target) \in Nat
      BY Zenon, <1>1, <1>2
    <3> QED
      BY <3>1
  <2> QED
    BY Zenon, <2>1, <2>2, <2>3, <2>4, <2>5
<1>7. CASE upg' = upg \/ GoesOn
  BY <1>5, <1>7 DEF GoesOn
<1> QED
  BY <1>6, <1>7, ReconcileSteps DEF OrderInv

\* A Node leaves the config the MachineSet rests on only after the MachineSet has left it.
LEMMA RestedStep ==
    ASSUME NoRollback, OrderInv, TypeOK', [Next]_vars
    PROVE  Rested'
<1> SUFFICES ASSUME ms'.current = ms'.target, ms'.target # NoHash, NEW n \in Nodes
             PROVE  /\ node'[n].current = node'[n].desired
                    /\ \/ node'[n].current = ms'.target
                       \/ node'[n].current = NoHash /\ ms'.target = boot'
  BY DEF Rested, Runs
<1>1. /\ \A h \in Versions : Idx(h) \in Nat /\ (Idx(h) = 0 <=> h = NoHash)
      /\ \A g, h \in Versions : Idx(g) = Idx(h) => g = h
      /\ Idx(NoHash) = 0 /\ NoHash \in Versions
  BY Places DEF Versions, Idx
<1>2. /\ ms.target \in Versions /\ upg.target \in Versions /\ ms.current \in Versions
      /\ Hash \in Versions /\ spec \in Nat
      /\ node[n].current \in Versions /\ node[n].desired \in Versions
  BY HashTypes DEF OrderInv
<1>3. CASE ms.current = ms'.current /\ ms.target = ms'.target /\ boot' = boot
  <2>1. /\ node[n].current = node[n].desired
        /\ node[n].current = ms.target \/ (node[n].current = NoHash /\ ms.target = boot)
    BY <1>3 DEF OrderInv, Rested, Runs
  <2>2. upg.pc = "idle"
    BY <1>1, <1>2, <1>3 DEF OrderInv, UpgraderOrder
  <2>3. NodeMoves(n)
    BY NodesMove DEF OrderInv
  <2> QED
    BY <1>3, <2>1, <2>2, <2>3 DEF NodeMoves
<1>4. CASE Proposes
  <2>1. /\ node' = node /\ ms'.target = Hash /\ ms.userData # Hash
        /\ ms.current = NoHash => boot' = Hash
        /\ ms.current # NoHash => ms'.current = ms.current
    BY <1>4 DEF Proposes, NodesKept
  <2>2. Idx(Hash) = spec
    BY HashPlace DEF OrderInv
  <2>3. /\ ms.userData = ms.target /\ Idx(ms.current) <= Idx(ms.target)
        /\ Idx(ms.target) <= spec /\ (ms.current = NoHash => ms.target = NoHash)
        /\ Idx(node[n].current) <= Idx(node[n].desired)
        /\ Idx(node[n].desired) <= Idx(ms.target)
    BY Zenon DEF OrderInv, PoolOrder, NodeOrder
  <2>4. /\ Idx(ms.current) \in Nat /\ Idx(ms.target) \in Nat
        /\ Idx(node[n].current) \in Nat /\ Idx(node[n].desired) \in Nat
    BY Zenon, <1>1, <1>2
  <2>5. ms.current = NoHash
    <3>1. ms.current # NoHash => Idx(ms.target) = Idx(Hash)
      BY SMTT(30), <1>2, <2>1, <2>2, <2>3, <2>4
    <3> QED
      BY Zenon, <1>1, <1>2, <2>1, <2>3, <3>1
  <2>6. node[n].current = NoHash /\ node[n].desired = NoHash
    <3>1. Idx(node[n].current) = 0 /\ Idx(node[n].desired) = 0
      BY SMTT(30), <1>1, <2>3, <2>4, <2>5
    <3> QED
      BY Zenon, <1>1, <1>2, <3>1
  <2> QED
    BY <2>1, <2>5, <2>6
<1>5. CASE Completes
  BY <1>5 DEF Completes, OrderInv, UpgraderOrder
<1> QED
  BY <1>3, <1>4, <1>5, PoolSteps DEF OrderInv, PoolKept, ChangeSpec, Records

\* The order is kept by every step, whether or not the cache lags.
LEMMA OrderStep == ASSUME NoRollback PROVE OrderInv /\ [Next]_vars => OrderInv'
<1> SUFFICES ASSUME OrderInv, [Next]_vars PROVE OrderInv'
  OBVIOUS
<1>1. TypeOK'
  BY NextTypeOK DEF OrderInv
<1> QED
  BY <1>1, PoolOrderStep, NodeOrderStep, UpgraderOrderStep, RestedStep DEF OrderInv

\* The order holds at the start.
LEMMA OrderInit == ASSUME NoRollback PROVE Init => OrderInv
<1> SUFFICES ASSUME Init PROVE OrderInv
  OBVIOUS
<1>1. TypeOK
  BY InitTypeOK
<1>2. Idx(NoHash) = 0 /\ Hash # NoHash
  BY <1>1, HashPlace DEF Idx
<1>3. \A n \in Nodes : /\ node[n].current = NoHash /\ node[n].desired = NoHash
                       /\ nodeCache[n].current = NoHash
  BY Zenon DEF Init, FreshNode
<1>4. PoolOrder
  <2>1. /\ ms.userData = NoHash /\ ms.target = NoHash /\ ms.current = NoHash
        /\ npCurrent = NoHash /\ spec = 1
    BY DEF Init
  <2> QED
    BY <1>2, <2>1 DEF PoolOrder
<1>5. NodeOrder
  <2>1. ms.target = NoHash
    BY DEF Init
  <2> QED
    BY SMTT(30), <1>2, <1>3, <2>1 DEF NodeOrder
<1>6. UpgraderOrder /\ Rested
  BY DEF Init, UpgraderOrder, Rested, Idle
<1> QED
  BY <1>1, <1>4, <1>5, <1>6 DEF OrderInv

\* As long as no config comes back, the MachineSet's current version moves only to a config that
\* every Node reports with its daemon done, although inPlaceUpgradeComplete decides on a cached
\* list of the Nodes and the annotation is written several API calls later: whatever the cache
\* lags and whatever is interrupted, Nodes do not move behind a reconcile that found them done.
THEOREM CompletionHolds == ASSUME NoRollback PROVE Spec => CompletionSound
<1>1. ASSUME OrderInv, [Next]_vars
      PROVE  [ms'.current # ms.current /\ ms.current # NoHash =>
                \A n \in Nodes : node[n].current = ms'.current /\ node[n].state = "Done"]_vars
  <2> SUFFICES ASSUME ms'.current # ms.current, ms.current # NoHash, NEW n \in Nodes
               PROVE  node[n].current = ms'.current /\ node[n].state = "Done"
    OBVIOUS
  <2>1. Completes
    BY <1>1, PoolSteps DEF OrderInv, PoolKept, ChangeSpec, Proposes, Records
  <2>2. /\ node[n].current = upg.target /\ node[n].desired = upg.target
        /\ Idx(upg.target) > Idx(ms.current)
    BY <1>1, <2>1 DEF Completes, OrderInv, UpgraderOrder
  <2>3. upg.target # NoHash
    <3>1. upg.target \in Versions /\ ms.current \in Versions
      BY <1>1, HashTypes DEF OrderInv
    <3> QED
      BY <3>1, <2>2, Places
  <2>4. node[n].state = "Done"
    BY Zenon, <1>1, <2>2, <2>3 DEF OrderInv, NodeOrder
  <2> QED
    BY <2>1, <2>2, <2>4 DEF Completes
<1> QED
  BY <1>1, OrderInit, OrderStep, PTL DEF Spec, CompletionSound

\* As long as no config comes back, a NodePool that reports the requested config as current
\* (machineSetInPlaceRolloutIsComplete, trusting the annotations alone) has every Node on it:
\* changes that overtake a rollout, restarts and stale reads included.
THEOREM CompleteUpgraded == ASSUME NoRollback PROVE Spec => []CompleteMeansUpgraded
<1>1. ASSUME OrderInv PROVE CompleteMeansUpgraded
  <2>1. Hash # NoHash
    BY <1>1, HashPlace DEF OrderInv
  <2> QED
    BY <1>1, <2>1 DEF OrderInv, PoolOrder, Rested, CompleteMeansUpgraded
<1> QED
  BY <1>1, OrderInit, OrderStep, PTL DEF Spec

----------------------------------------------------------------------------
(* The drain requests *)

\* Requests follow the configs: the one acknowledged last is not newer than the one asked for,
\* which is not newer than the desired config.
DrainOrder ==
    \A n \in Nodes :
        /\ Idx(node[n].lastAppliedDrain.hash) <= Idx(node[n].desiredDrain.hash)
        /\ Idx(node[n].desiredDrain.hash) <= Idx(node[n].desired)
        /\ node[n].desiredDrain.verb # "none" => Idx(node[n].desiredDrain.hash) > 1
        /\ node[n].desiredDrain.verb = "none" => node[n].lastAppliedDrain.verb = "none"

\* What the drainer performed still holds when it acknowledges it.
Performed ==
    \A n \in Nodes :
        /\ drainer[n] = "uncordon" => ~ node[n].unschedulable
        /\ drainer[n] = "drain" =>
              /\ node[n].unschedulable /\ node[n].desiredDrain.verb = "drain"
              /\ node[n].lastAppliedDrain # node[n].desiredDrain
        /\ /\ node[n].desiredDrain.verb = "uncordon"
           /\ node[n].lastAppliedDrain = node[n].desiredDrain
           => ~ node[n].unschedulable
        /\ upg.pc = "complete" => node[n].lastAppliedDrain = node[n].desiredDrain

\* In the first rollout no request overtakes another.
FirstRollout ==
    spec <= 2 => \A n \in Nodes :
        /\ drainer[n] = "uncordon" => node[n].desiredDrain.verb = "uncordon"
        /\ node[n].desiredDrain.verb = "uncordon" => node[n].current = node[n].desired
        /\ /\ node[n].desiredDrain.verb = "drain"
           /\ node[n].lastAppliedDrain = node[n].desiredDrain
           => node[n].unschedulable

\* The Nodes a reconcile listed have at most finished their updates since.
ViewHolds ==
    upg.pc # "idle" => \A n \in Nodes :
        /\ node[n].desired = upg.view[n].desired
        /\ node[n].current \in {upg.view[n].current, node[n].desired}

DrainInv ==
    /\ OrderInv /\ nodeCache = node
    /\ DrainOrder /\ Performed /\ FirstRollout /\ ViewHolds

\* What a step does to a Node's requests, its cordon and the drainer working on it: nothing, or
\* an end of the drainer's work; a new desired config; a drain request; an update; an
\* acknowledgement; a cordon or uncordon.
DrainRequest(n) == [verb |-> "drain", hash |-> node[n].desired]
Stays(n) ==
    /\ drainer'[n] \in {drainer[n], "idle"}
    /\ UNCHANGED <<node[n].desiredDrain, node[n].lastAppliedDrain, node[n].unschedulable,
                   node[n].current, node[n].desired>>
Given(n) ==
    /\ upg.pc \in {"desired", "desiredThenPanic"} /\ node'[n].desired = upg.target
    /\ UNCHANGED <<node[n].desiredDrain, node[n].lastAppliedDrain, node[n].unschedulable,
                   node[n].current, drainer[n]>>
Asks(n) ==
    /\ node[n].current # node[n].desired /\ node[n].desiredDrain # DrainRequest(n)
    /\ node'[n].desiredDrain = DrainRequest(n)
    /\ UNCHANGED <<node[n].lastAppliedDrain, node[n].unschedulable, node[n].current,
                   node[n].desired, drainer[n]>>
Updates(n) ==
    /\ node[n].current # node[n].desired
    /\ node[n].desiredDrain = DrainRequest(n) /\ node[n].lastAppliedDrain = DrainRequest(n)
    /\ node'[n].current = node[n].desired
    /\ node'[n].desiredDrain = [verb |-> "uncordon", hash |-> node[n].desired]
    /\ UNCHANGED <<node[n].lastAppliedDrain, node[n].unschedulable, node[n].desired, drainer[n]>>
Acknowledges(n) ==
    /\ drainer[n] # "idle" /\ drainer'[n] = "idle"
    /\ node'[n].lastAppliedDrain = node[n].desiredDrain
    /\ UNCHANGED <<node[n].desiredDrain, node[n].unschedulable, node[n].current,
                   node[n].desired>>
Handles(n) ==
    /\ node[n].desiredDrain # node[n].lastAppliedDrain
    /\ drainer'[n] = node[n].desiredDrain.verb
    /\ node[n].desiredDrain.verb = "drain" => node'[n].unschedulable
    /\ node[n].desiredDrain.verb # "drain" => ~ node'[n].unschedulable
    /\ UNCHANGED <<node[n].desiredDrain, node[n].lastAppliedDrain, node[n].current,
                   node[n].desired>>
DrainMoves(n) ==
    Stays(n) \/ Given(n) \/ Asks(n) \/ Updates(n) \/ Acknowledges(n) \/ Handles(n)

\* The drainer works on one Node at a time.
LEMMA DrainerSteps ==
    ASSUME TypeOK, [Next]_vars, NEW n \in Nodes
    PROVE  \/ drainer'[n] = drainer[n] \/ HandleDrainRequest(n) \/ AcknowledgeDrain(n)
           \/ node' = node /\ drainer'[n] = "idle"
<1>1. CASE \E m \in Nodes : HandleDrainRequest(m) \/ AcknowledgeDrain(m)
  BY <1>1 DEF HandleDrainRequest, AcknowledgeDrain, TypeOK
<1>2. CASE \E m \in Nodes : AcknowledgeConflict(m) \/ DrainFails(m)
  BY <1>2 DEF AcknowledgeConflict, DrainFails, TypeOK
<1>3. CASE \/ ChangeSpec \/ NodePoolReconcile \/ PayloadGenerated \/ UpgraderStep
           \/ UpgraderAborts \/ UNCHANGED vars
           \/ \E m \in Nodes : MCDStep(m) \/ MCDDegrades(m) \/ CacheSync(m)
  BY Zenon, <1>3 DEF ChangeSpec, NodePoolReconcile, PayloadGenerated, UpgraderStep, UpgraderReconcile,
              SignalComplete, SignalDegraded, SignalProgress, ReconcileManifests, DesiredDone,
              DeletePod, SetDesired, SetDesiredConflict, ReconcilePod, UpgraderAborts, vars,
              MCDStep, MCDRequestDrain, MCDUpdate, MCDRecovers, MCDDegrades, CacheSync,
              UpgraderVarsUnchanged, MCDVarsUnchanged
<1> QED
  BY Zenon, <1>1, <1>2, <1>3 DEF Next, DrainerStep

\* Every step is one of those.
LEMMA DrainsMove ==
    ASSUME TypeOK, nodeCache = node, [Next]_vars, NEW n \in Nodes
    PROVE  DrainMoves(n)
<1>1. CASE SetDesired(n)
  <2>1. drainer' = drainer /\ upg.pc \in {"desired", "desiredThenPanic"}
    BY <1>1 DEF SetDesired, UpgraderVarsUnchanged
  <2> QED
    BY Zenon, <1>1, <2>1, NodeWrites DEF NodeBecomes, DrainMoves, Given
<1>2. CASE MCDRequestDrain(n)
  <2>1. drainer' = drainer /\ node[n].current # node[n].desired
        /\ node[n].desiredDrain # [verb |-> "drain", hash |-> node[n].desired]
    BY <1>2 DEF MCDRequestDrain, MCDActive, MCDVarsUnchanged
  <2> QED
    BY Zenon, <1>2, <2>1, NodeWrites DEF NodeBecomes, DrainMoves, Asks, DrainRequest
<1>3. CASE MCDUpdate(n)
  <2>1. drainer' = drainer /\ node[n].current # node[n].desired
        /\ node[n].desiredDrain = [verb |-> "drain", hash |-> node[n].desired]
        /\ node[n].lastAppliedDrain = node[n].desiredDrain
    BY <1>3 DEF MCDUpdate, MCDActive, MCDVarsUnchanged
  <2> QED
    BY Zenon, <1>3, <2>1, NodeWrites DEF NodeBecomes, DrainMoves, Updates, DrainRequest
<1>4. CASE MCDRecovers(n) \/ MCDDegrades(n)
  <2>1. drainer' = drainer
    BY <1>4 DEF MCDRecovers, MCDDegrades, MCDVarsUnchanged
  <2> QED
    BY Zenon, <1>4, <2>1, NodeWrites DEF NodeBecomes, DrainMoves, Stays
<1>5. CASE AcknowledgeDrain(n)
  <2>1. drainer[n] # "idle" /\ drainer'[n] = "idle"
    BY <1>5 DEF AcknowledgeDrain, TypeOK
  <2> QED
    BY Zenon, <1>5, <2>1, NodeWrites DEF NodeBecomes, DrainMoves, Acknowledges
<1>6. CASE HandleDrainRequest(n)
  <2>1. /\ node[n].desiredDrain # node[n].lastAppliedDrain
        /\ drainer'[n] = node[n].desiredDrain.verb
    BY <1>6 DEF HandleDrainRequest, TypeOK
  <2>2. CASE node' = node
    <3>1. node[n].unschedulable = (node[n].desiredDrain.verb = "drain")
      <4>1. SUFFICES ASSUME node[n].unschedulable # (node[n].desiredDrain.verb = "drain")
                     PROVE  FALSE
        OBVIOUS
      <4>2. node' = [node EXCEPT ![n].unschedulable = (node[n].desiredDrain.verb = "drain")]
        BY <1>6, <4>1 DEF HandleDrainRequest
      <4>3. node'[n].unschedulable = (node[n].desiredDrain.verb = "drain")
        BY <4>2 DEF TypeOK, NodeRecords
      <4> QED
        BY <2>2, <4>1, <4>3
    <3> QED
      BY Zenon, <2>1, <2>2, <3>1 DEF DrainMoves, Handles
  <2>3. CASE node' # node
    <3>1. /\ node'[n].unschedulable = (node[n].desiredDrain.verb = "drain")
          /\ UNCHANGED <<node[n].desiredDrain, node[n].lastAppliedDrain, node[n].current,
                         node[n].desired>>
      BY Zenon, <1>6, <2>3, NodeWrites DEF NodeBecomes
    <3> QED
      BY Zenon, <2>1, <3>1 DEF DrainMoves, Handles
  <2> QED
    BY <2>2, <2>3
<1>7. CASE node'[n] = node[n] /\ drainer'[n] \in {drainer[n], "idle"}
  BY Zenon, <1>7 DEF DrainMoves, Stays
<1>8. ASSUME NEW m \in Nodes, m # n,
             \/ SetDesired(m) \/ MCDRequestDrain(m) \/ MCDUpdate(m) \/ MCDRecovers(m)
             \/ MCDDegrades(m) \/ AcknowledgeDrain(m) \/ HandleDrainRequest(m)
      PROVE  node'[n] = node[n]
  BY Zenon, <1>8, NodeWrites DEF NodeBecomes
<1> QED
  BY Zenon, <1>1, <1>2, <1>3, <1>4, <1>5, <1>6, <1>7, <1>8, NodeSteps, DrainerSteps

\* A cache that does not lag follows every write.
LEMMA CacheCurrent ==
    ASSUME ~StaleReads, nodeCache = node, [Next]_vars
    PROVE  nodeCache' = node'
<1>1. CASE \E n \in Nodes : \/ SetDesired(n) \/ MCDRequestDrain(n) \/ MCDUpdate(n)
                            \/ MCDRecovers(n) \/ MCDDegrades(n) \/ AcknowledgeDrain(n)
                            \/ HandleDrainRequest(n)
  BY <1>1 DEF SetDesired, MCDRequestDrain, MCDUpdate, MCDRecovers, MCDDegrades,
              AcknowledgeDrain, HandleDrainRequest, CacheFollows
<1>2. CASE \E n \in Nodes : CacheSync(n)
  BY <1>2 DEF CacheSync
<1>3. CASE \/ ChangeSpec \/ NodePoolReconcile \/ PayloadGenerated \/ UpgraderReconcile
           \/ SignalComplete \/ SignalDegraded \/ SignalProgress \/ ReconcileManifests
           \/ DesiredDone \/ UpgraderAborts \/ UNCHANGED vars
           \/ \E n \in Nodes : \/ DeletePod(n) \/ SetDesiredConflict(n) \/ ReconcilePod(n)
                               \/ AcknowledgeConflict(n) \/ DrainFails(n)
  BY Zenon, <1>3 DEF ChangeSpec, NodePoolReconcile, PayloadGenerated, UpgraderReconcile, SignalComplete,
              SignalDegraded, SignalProgress, ReconcileManifests, DesiredDone, UpgraderAborts,
              vars, DeletePod, SetDesiredConflict, ReconcilePod, AcknowledgeConflict, DrainFails
<1> QED
  BY <1>1, <1>2, <1>3 DEF Next, UpgraderStep, DrainerStep, MCDStep

\* A request is its verb and its hash.
LEMMA RequestFields ==
    ASSUME NEW q \in Requests
    PROVE  /\ q.hash \in Versions /\ q.verb \in {"none", "drain", "uncordon"}
           /\ q = [verb |-> q.verb, hash |-> q.hash]
BY DEF Requests, NoRequest, Versions

\* The requests the daemon writes.
LEMMA RequestParts ==
    ASSUME NEW n \in Nodes
    PROVE  LET uncordon == [verb |-> "uncordon", hash |-> node[n].desired] IN
           /\ DrainRequest(n).verb = "drain" /\ DrainRequest(n).hash = node[n].desired
           /\ uncordon.verb = "uncordon" /\ uncordon.hash = node[n].desired
           /\ DrainRequest(n) # uncordon
BY DEF DrainRequest

\* What DrainInv says of one Node, in one place.
LEMMA DrainFacts ==
    ASSUME NoRollback, DrainInv, NEW n \in Nodes
    PROVE  /\ node[n].desiredDrain \in Requests /\ node[n].lastAppliedDrain \in Requests
           /\ Idx(node[n].lastAppliedDrain.hash) \in Nat /\ Idx(node[n].desiredDrain.hash) \in Nat
           /\ Idx(node[n].desired) \in Nat /\ Idx(upg.target) \in Nat
           /\ Idx(node[n].lastAppliedDrain.hash) <= Idx(node[n].desiredDrain.hash)
           /\ Idx(node[n].desiredDrain.hash) <= Idx(node[n].desired)
           /\ node[n].desiredDrain.verb # "none" => Idx(node[n].desiredDrain.hash) > 1
           /\ node[n].desiredDrain.verb = "none" => node[n].lastAppliedDrain.verb = "none"
           /\ node[n].current # node[n].desired => Idx(node[n].desired) > 1
           /\ upg.pc # "idle" => /\ Idx(node[n].desired) <= Idx(upg.target)
                                 /\ Idx(upg.target) <= spec
<1>1. /\ node[n].desiredDrain \in Requests /\ node[n].lastAppliedDrain \in Requests
      /\ node[n].current \in Versions /\ node[n].desired \in Versions
      /\ upg.target \in Versions /\ ms.target \in Versions /\ spec \in Nat
  BY RecordFields, HashTypes DEF DrainInv, OrderInv, TypeOK
<1>2. node[n].desiredDrain.hash \in Versions /\ node[n].lastAppliedDrain.hash \in Versions
  BY <1>1, RequestFields
<1>3. \A h \in Versions : Idx(h) \in Nat /\ (Idx(h) = 0 <=> h = NoHash)
  BY Places
<1>4. /\ Idx(node[n].current) <= Idx(node[n].desired)
      /\ node[n].desired # NoHash => Idx(node[n].desired) > 1
      /\ Idx(ms.target) <= spec
      /\ upg.pc # "idle" => /\ Idx(upg.target) <= Idx(ms.target)
                            /\ Idx(node[n].desired) <= Idx(upg.target)
  BY Zenon DEF DrainInv, OrderInv, NodeOrder, PoolOrder, UpgraderOrder
<1>5. node[n].current # node[n].desired => Idx(node[n].desired) > 1
  <2>1. node[n].desired = NoHash => node[n].current = NoHash
    <3>1. Idx(node[n].current) \in Nat /\ Idx(node[n].desired) \in Nat
      BY Zenon, <1>1, <1>3
    <3>2. Idx(node[n].desired) = 0 => Idx(node[n].current) = 0
      BY Zenon, <1>4, <3>1, NatOrder
    <3> QED
      BY Zenon, <1>1, <1>3, <3>2
  <2> QED
    BY Zenon, <1>4, <2>1
<1>6. upg.pc # "idle" => Idx(node[n].desired) <= Idx(upg.target) /\ Idx(upg.target) <= spec
  BY <1>1, <1>3, <1>4
<1> QED
  BY <1>1, <1>2, <1>3, <1>5, <1>6 DEF DrainInv, DrainOrder

\* Every step keeps the order of the requests.
LEMMA DrainOrderStep ==
    ASSUME NoRollback, DrainInv, [Next]_vars
    PROVE  DrainOrder'
<1> SUFFICES ASSUME NEW n \in Nodes
             PROVE  /\ Idx(node'[n].lastAppliedDrain.hash) <= Idx(node'[n].desiredDrain.hash)
                    /\ Idx(node'[n].desiredDrain.hash) <= Idx(node'[n].desired)
                    /\ node'[n].desiredDrain.verb # "none" => Idx(node'[n].desiredDrain.hash) > 1
                    /\ node'[n].desiredDrain.verb = "none" =>
                          node'[n].lastAppliedDrain.verb = "none"
  BY DEF DrainOrder
<1>1. DrainMoves(n)
  BY DrainsMove DEF DrainInv, OrderInv
<1>2. CASE Stays(n) \/ Handles(n)
  BY Zenon, <1>2, DrainFacts DEF Stays, Handles
<1>3. CASE Given(n)
  <2>1. Idx(node[n].desiredDrain.hash) <= Idx(upg.target)
    <3>1. upg.pc # "idle"
      BY <1>3 DEF Given
    <3>2. /\ Idx(node[n].desiredDrain.hash) <= Idx(node[n].desired)
          /\ Idx(node[n].desired) <= Idx(upg.target)
          /\ Idx(node[n].desiredDrain.hash) \in Nat /\ Idx(node[n].desired) \in Nat
          /\ Idx(upg.target) \in Nat
      BY Zenon, <3>1, DrainFacts
    <3> QED
      BY <3>2
  <2> QED
    BY Zenon, <1>3, <2>1, DrainFacts DEF Given
<1>4. CASE Asks(n) \/ Updates(n)
  <2>1. /\ node'[n].desiredDrain.hash = node[n].desired /\ node'[n].desired = node[n].desired
        /\ node'[n].desiredDrain.verb # "none"
        /\ node'[n].lastAppliedDrain = node[n].lastAppliedDrain
        /\ node[n].current # node[n].desired
    BY Zenon, <1>4, RequestParts DEF Asks, Updates
  <2>2. /\ Idx(node[n].lastAppliedDrain.hash) <= Idx(node[n].desired)
        /\ Idx(node[n].desired) <= Idx(node[n].desired) /\ Idx(node[n].desired) > 1
    <3>1. /\ Idx(node[n].lastAppliedDrain.hash) <= Idx(node[n].desiredDrain.hash)
          /\ Idx(node[n].desiredDrain.hash) <= Idx(node[n].desired)
          /\ Idx(node[n].lastAppliedDrain.hash) \in Nat
          /\ Idx(node[n].desiredDrain.hash) \in Nat
          /\ Idx(node[n].desired) \in Nat /\ Idx(node[n].desired) > 1
      BY Zenon, <2>1, DrainFacts
    <3> QED
      BY SMTT(30), <3>1
  <2> QED
    BY Zenon, <2>1, <2>2
<1>5. CASE Acknowledges(n)
  <2>1. Idx(node[n].desiredDrain.hash) <= Idx(node[n].desiredDrain.hash)
    <3>1. Idx(node[n].desiredDrain.hash) \in Nat
      BY Zenon, DrainFacts
    <3> QED
      BY <3>1
  <2> QED
    BY Zenon, <1>5, <2>1, DrainFacts DEF Acknowledges
<1> QED
  BY Zenon, <1>1, <1>2, <1>3, <1>4, <1>5 DEF DrainMoves

\* A new drain request differs from what was acknowledged last.
LEMMA NewRequest ==
    ASSUME NoRollback, DrainInv, NEW n \in Nodes,
           node[n].desiredDrain # [verb |-> "drain", hash |-> node[n].desired],
           node[n].desiredDrain.verb # "uncordon"
    PROVE  node[n].lastAppliedDrain # [verb |-> "drain", hash |-> node[n].desired]
<1> SUFFICES ASSUME node[n].lastAppliedDrain = [verb |-> "drain", hash |-> node[n].desired]
             PROVE  FALSE
  OBVIOUS
<1>1. node[n].lastAppliedDrain.hash = node[n].desired /\ node[n].lastAppliedDrain.verb = "drain"
  OBVIOUS
<1>2. Idx(node[n].desiredDrain.hash) = Idx(node[n].desired)
  <2>1. /\ Idx(node[n].desired) <= Idx(node[n].desiredDrain.hash)
        /\ Idx(node[n].desiredDrain.hash) <= Idx(node[n].desired)
        /\ Idx(node[n].desiredDrain.hash) \in Nat /\ Idx(node[n].desired) \in Nat
    BY Zenon, <1>1, DrainFacts
  <2> QED
    BY Zenon, <2>1, NatOrder
<1>3. node[n].desired \in Versions
  BY HashTypes DEF DrainInv, OrderInv
<1>4. node[n].desiredDrain.hash = node[n].desired
  BY <1>2, <1>3, DrainFacts, RequestFields, Places
<1>5. node[n].desiredDrain.verb = "drain"
  BY <1>1, DrainFacts, RequestFields
<1> QED
  BY <1>4, <1>5, DrainFacts, RequestFields

\* Nothing undoes what the drainer has performed before it is acknowledged.
LEMMA PerformedStep ==
    ASSUME NoRollback, DrainInv, [Next]_vars
    PROVE  Performed'
<1> SUFFICES ASSUME NEW n \in Nodes
             PROVE  /\ drainer'[n] = "uncordon" => ~ node'[n].unschedulable
                    /\ drainer'[n] = "drain" =>
                          /\ node'[n].unschedulable /\ node'[n].desiredDrain.verb = "drain"
                          /\ node'[n].lastAppliedDrain # node'[n].desiredDrain
                    /\ /\ node'[n].desiredDrain.verb = "uncordon"
                       /\ node'[n].lastAppliedDrain = node'[n].desiredDrain
                       => ~ node'[n].unschedulable
                    /\ upg'.pc = "complete" => node'[n].lastAppliedDrain = node'[n].desiredDrain
  BY DEF Performed
<1>1. DrainMoves(n)
  BY DrainsMove DEF DrainInv, OrderInv
<1>2. /\ drainer[n] = "uncordon" => ~ node[n].unschedulable
      /\ drainer[n] = "drain" =>
            /\ node[n].unschedulable /\ node[n].desiredDrain.verb = "drain"
            /\ node[n].lastAppliedDrain # node[n].desiredDrain
      /\ /\ node[n].desiredDrain.verb = "uncordon"
         /\ node[n].lastAppliedDrain = node[n].desiredDrain
         => ~ node[n].unschedulable
      /\ upg.pc = "complete" => node[n].lastAppliedDrain = node[n].desiredDrain
      /\ drainer[n] \in {"idle", "drain", "uncordon"}
  BY DEF DrainInv, Performed, OrderInv, TypeOK
<1>3. /\ node[n].desiredDrain # [verb |-> "drain", hash |-> node[n].desired]
      /\ node[n].desiredDrain.verb # "uncordon"
      => node[n].lastAppliedDrain # [verb |-> "drain", hash |-> node[n].desired]
  BY NewRequest
<1>4. drainer'[n] = "uncordon" => ~ node'[n].unschedulable
  BY Zenon, <1>1, <1>2 DEF DrainMoves, Stays, Given, Asks, Updates,
                           Acknowledges, Handles, DrainRequest
<1>5. drainer'[n] = "drain" =>
         /\ node'[n].unschedulable /\ node'[n].desiredDrain.verb = "drain"
         /\ node'[n].lastAppliedDrain # node'[n].desiredDrain
  <2>1. CASE Asks(n)
    <3>1. drainer'[n] = "drain" => node[n].desiredDrain.verb # "uncordon"
      BY Zenon, <1>2, <2>1 DEF Asks
    <3>2. drainer'[n] = "drain" => node[n].lastAppliedDrain # DrainRequest(n)
      BY Zenon, <1>3, <2>1, <3>1 DEF Asks, DrainRequest
    <3>3. node'[n].desiredDrain = DrainRequest(n) /\ DrainRequest(n).verb = "drain"
      BY Zenon, <2>1, RequestParts DEF Asks
    <3> QED
      BY Zenon, <1>2, <2>1, <3>2, <3>3 DEF Asks
  <2>2. CASE Stays(n) \/ Given(n) \/ Updates(n) \/ Acknowledges(n) \/ Handles(n)
    BY Zenon, <1>2, <2>2 DEF Stays, Given, Updates, Acknowledges, Handles
  <2> QED
    BY <1>1, <2>1, <2>2 DEF DrainMoves
<1>6. /\ node'[n].desiredDrain.verb = "uncordon"
      /\ node'[n].lastAppliedDrain = node'[n].desiredDrain
      => ~ node'[n].unschedulable
  <2>1. CASE Updates(n)
    BY Zenon, <2>1, RequestParts DEF Updates
  <2>2. CASE Asks(n)
    BY Zenon, <2>2, RequestParts DEF Asks
  <2>3. CASE Stays(n) \/ Given(n) \/ Acknowledges(n) \/ Handles(n)
    BY Zenon, <1>2, <2>3 DEF Stays, Given, Acknowledges, Handles
  <2> QED
    BY <1>1, <2>1, <2>2, <2>3 DEF DrainMoves
<1>7. upg'.pc = "complete" => node'[n].lastAppliedDrain = node'[n].desiredDrain
  <2>1. CASE upg.pc = "complete"
    <3>1. node[n].current = node[n].desired
      BY Zenon, <2>1 DEF DrainInv, OrderInv, UpgraderOrder
    <3> QED
      BY Zenon, <1>1, <1>2, <2>1, <3>1 DEF DrainMoves, Stays, Given, Asks, Updates,
                                           Acknowledges, Handles, DrainRequest
  <2>2. CASE UpgraderReconcile
    <3>1. /\ upg'.pc = "complete" => inPlaceUpgradeComplete(nodeCache, ms.current, ms.target)
          /\ node' = node
      BY <2>2 DEF UpgraderReconcile
    <3> QED
      BY <3>1 DEF DrainInv, inPlaceUpgradeComplete, nodeNeedsUpgrade
  <2> QED
    BY <2>1, <2>2, ReconcileSteps DEF DrainInv, OrderInv, GoesOn
<1> QED
  BY <1>4, <1>5, <1>6, <1>7

\* Up to the second config the requests of a Node come one at a time.
LEMMA FirstRolloutStep ==
    ASSUME NoRollback, DrainInv, [Next]_vars
    PROVE  FirstRollout'
<1> SUFFICES ASSUME spec' <= 2, NEW n \in Nodes
             PROVE  /\ drainer'[n] = "uncordon" => node'[n].desiredDrain.verb = "uncordon"
                    /\ node'[n].desiredDrain.verb = "uncordon" =>
                          node'[n].current = node'[n].desired
                    /\ /\ node'[n].desiredDrain.verb = "drain"
                       /\ node'[n].lastAppliedDrain = node'[n].desiredDrain
                       => node'[n].unschedulable
  BY DEF FirstRollout
<1>1. DrainMoves(n)
  BY DrainsMove DEF DrainInv, OrderInv
<1>2. spec <= 2 /\ spec \in Nat
  <2>1. spec \in Nat
    BY DEF DrainInv, OrderInv, TypeOK
  <2>2. spec' = spec \/ spec' = spec + 1
    BY PoolSteps DEF DrainInv, OrderInv, PoolKept, ChangeSpec, Proposes, Records, Completes
  <2> QED
    BY <2>1, <2>2
<1>3. /\ drainer[n] = "uncordon" => node[n].desiredDrain.verb = "uncordon"
      /\ node[n].desiredDrain.verb = "uncordon" => node[n].current = node[n].desired
      /\ /\ node[n].desiredDrain.verb = "drain"
         /\ node[n].lastAppliedDrain = node[n].desiredDrain
         => node[n].unschedulable
      /\ drainer[n] = "drain" => node[n].unschedulable
      /\ drainer[n] \in {"idle", "drain", "uncordon"}
  BY <1>2 DEF DrainInv, FirstRollout, Performed, OrderInv, TypeOK
<1>4. /\ node[n].desiredDrain # [verb |-> "drain", hash |-> node[n].desired]
      /\ node[n].desiredDrain.verb # "uncordon"
      => node[n].lastAppliedDrain # [verb |-> "drain", hash |-> node[n].desired]
  BY NewRequest
<1>5. upg.pc # "idle" /\ node[n].desiredDrain.verb = "uncordon" => upg.target = node[n].desired
  <2> SUFFICES ASSUME upg.pc # "idle", node[n].desiredDrain.verb = "uncordon"
               PROVE  upg.target = node[n].desired
    OBVIOUS
  <2>1. Idx(upg.target) = Idx(node[n].desired)
    <3>1. /\ Idx(node[n].desiredDrain.hash) > 1
          /\ Idx(node[n].desiredDrain.hash) <= Idx(node[n].desired)
          /\ Idx(node[n].desired) <= Idx(upg.target) /\ Idx(upg.target) <= spec
          /\ Idx(node[n].desiredDrain.hash) \in Nat /\ Idx(node[n].desired) \in Nat
          /\ Idx(upg.target) \in Nat
      BY DrainFacts
    <3> QED
      BY <1>2, <3>1
  <2>2. upg.target \in Versions /\ node[n].desired \in Versions
    BY HashTypes DEF DrainInv, OrderInv
  <2> QED
    BY <2>1, <2>2, Places
<1>6. drainer'[n] = "uncordon" => node'[n].desiredDrain.verb = "uncordon"
  BY Zenon, <1>1, <1>3 DEF DrainMoves, Stays, Given, Asks, Updates,
                           Acknowledges, Handles, DrainRequest
<1>7. node'[n].desiredDrain.verb = "uncordon" => node'[n].current = node'[n].desired
  <2>1. CASE Asks(n)
    BY Zenon, <2>1, RequestParts DEF Asks
  <2>2. CASE Given(n)
    BY <1>3, <1>5, <2>2 DEF Given
  <2>3. CASE Updates(n)
    BY Zenon, <2>3 DEF Updates
  <2>4. CASE Stays(n) \/ Acknowledges(n) \/ Handles(n)
    BY Zenon, <1>3, <2>4 DEF Stays, Acknowledges, Handles
  <2> QED
    BY <1>1, <2>1, <2>2, <2>3, <2>4 DEF DrainMoves
<1>8. /\ node'[n].desiredDrain.verb = "drain"
      /\ node'[n].lastAppliedDrain = node'[n].desiredDrain
      => node'[n].unschedulable
  BY Zenon, <1>1, <1>3, <1>4 DEF DrainMoves, Stays, Given, Asks, Updates,
                                 Acknowledges, Handles, DrainRequest
<1> QED
  BY <1>6, <1>7, <1>8

\* Only the reconcile itself gives Nodes a new config.
LEMMA ViewHoldsStep ==
    ASSUME DrainInv, [Next]_vars
    PROVE  ViewHolds'
<1> SUFFICES ASSUME upg'.pc # "idle", NEW n \in Nodes
             PROVE  /\ node'[n].desired = upg'.view[n].desired
                    /\ node'[n].current \in {upg'.view[n].current, node'[n].desired}
  BY Zenon DEF ViewHolds
<1>1. CASE UpgraderReconcile
  BY Zenon, <1>1 DEF UpgraderReconcile, DrainInv
<1>2. CASE SetDesired(n)
  <2>1. upg' = [upg EXCEPT !.todo = upg.todo \ {n}, !.view[n] = node'[n]]
    BY <1>2 DEF SetDesired
  <2>2. upg'.view = [upg.view EXCEPT ![n] = node'[n]]
    BY <2>1 DEF DrainInv, OrderInv, TypeOK, Reconciles
  <2>3. upg'.view[n] = node'[n]
    BY <2>2 DEF DrainInv, OrderInv, TypeOK, Reconciles
  <2> QED
    BY <2>3
<1>3. CASE ~ SetDesired(n) /\ (upg' = upg \/ GoesOn)
  <2>1. upg.pc # "idle" /\ upg'.view[n] = upg.view[n]
    BY <1>3 DEF GoesOn
  <2>2. /\ node[n].desired = upg.view[n].desired
        /\ node[n].current \in {upg.view[n].current, node[n].desired}
    BY <2>1 DEF DrainInv, ViewHolds
  <2>3. node'[n].desired = node[n].desired /\ node'[n].current \in {node[n].current, node[n].desired}
    <3>1. CASE node' = node
      BY <3>1
    <3>2. ASSUME NEW m \in Nodes, SetDesired(m)
          PROVE  node'[n] = node[n]
      BY Zenon, <1>3, <3>2 DEF SetDesired, DrainInv, OrderInv, TypeOK
    <3>3. ASSUME NEW m \in Nodes, \/ MCDRequestDrain(m) \/ MCDUpdate(m) \/ MCDRecovers(m)
                                  \/ MCDDegrades(m) \/ AcknowledgeDrain(m)
                                  \/ HandleDrainRequest(m)
          PROVE  /\ node'[n].desired = node[n].desired
                 /\ node'[n].current \in {node[n].current, node[n].desired}
      <4>1. CASE m = n
        BY Zenon, <3>1, <3>3, <4>1, NodeWrites DEF NodeBecomes, DrainInv, OrderInv
      <4>2. CASE m # n
        BY Zenon, <3>1, <3>3, <4>2, NodeWrites DEF NodeBecomes, DrainInv, OrderInv
      <4> QED
        BY <4>1, <4>2
    <3> QED
      BY Zenon, <3>1, <3>2, <3>3, NodeSteps DEF DrainInv, OrderInv
  <2> QED
    BY <2>1, <2>2, <2>3
<1> QED
  BY Zenon, <1>1, <1>2, <1>3, ReconcileSteps DEF DrainInv, OrderInv

\* DrainInv holds at the start.
LEMMA DrainInit == ASSUME NoRollback PROVE Init => DrainInv
<1> SUFFICES ASSUME Init PROVE DrainInv
  OBVIOUS
<1>1. OrderInv
  BY OrderInit
<1>2. /\ nodeCache = node /\ upg.pc = "idle"
      /\ \A n \in Nodes : /\ node[n].desiredDrain = NoRequest /\ node[n].lastAppliedDrain = NoRequest
                          /\ node[n].desired = NoHash /\ drainer[n] = "idle"
  BY Zenon DEF Init, FreshNode, Idle
<1>3. NoRequest.verb = "none" /\ NoRequest.hash = NoHash /\ Idx(NoHash) = 0
  BY DEF NoRequest, Idx
<1>4. DrainOrder
  BY <1>2, <1>3 DEF DrainOrder
<1>5. Performed /\ FirstRollout /\ ViewHolds
  BY <1>2, <1>3 DEF Performed, FirstRollout, ViewHolds
<1> QED
  BY <1>1, <1>2, <1>4, <1>5 DEF DrainInv

\* With a cache that does not lag every step keeps DrainInv.
LEMMA DrainStep ==
    ASSUME NoRollback, ~StaleReads
    PROVE  DrainInv /\ [Next]_vars => DrainInv'
<1> SUFFICES ASSUME DrainInv, [Next]_vars PROVE DrainInv'
  OBVIOUS
<1>1. OrderInv'
  BY OrderStep DEF DrainInv
<1>2. nodeCache' = node'
  BY CacheCurrent DEF DrainInv
<1> QED
  BY <1>1, <1>2, DrainOrderStep, PerformedStep, FirstRolloutStep, ViewHoldsStep DEF DrainInv

\* With a cache that does not lag and no config that comes back, no Node is left cordoned when
\* the upgrader signals completion: nodeNeedsUpgrade waits for the last uncordon request to be
\* acknowledged, and the drainer acknowledges it only after the Node is schedulable.
THEOREM ServiceRestored == ASSUME NoRollback, ~StaleReads PROVE Spec => BackInService
<1>1. ASSUME DrainInv, [Next]_vars
      PROVE  [ms'.current # ms.current /\ ms.current # NoHash =>
                \A n \in Nodes : ~ node[n].unschedulable]_vars
  <2> SUFFICES ASSUME ms'.current # ms.current, ms.current # NoHash, NEW n \in Nodes
               PROVE  ~ node[n].unschedulable
    OBVIOUS
  <2>1. upg.pc = "complete"
    BY <1>1, PoolSteps DEF DrainInv, OrderInv, PoolKept, ChangeSpec, Proposes, Records, Completes
  <2>2. /\ node[n].current = upg.target /\ node[n].desired = upg.target
        /\ Idx(upg.target) > Idx(ms.current)
    BY <1>1, <2>1 DEF DrainInv, OrderInv, UpgraderOrder
  <2>3. upg.target # NoHash
    <3>1. upg.target \in Versions /\ ms.current \in Versions
      BY <1>1, HashTypes DEF DrainInv, OrderInv
    <3>2. Idx(upg.target) \in Nat /\ Idx(ms.current) \in Nat
          /\ (Idx(upg.target) = 0 <=> upg.target = NoHash)
      BY Zenon, <3>1, Places
    <3> QED
      BY Zenon, <2>2, <3>2, NatOrder
  <2>4. node[n].desiredDrain = [verb |-> "uncordon", hash |-> node[n].desired]
    BY <1>1, <2>2, <2>3 DEF DrainInv, OrderInv, NodeOrder
  <2>5. node[n].desiredDrain.verb = "uncordon"
    BY <2>4
  <2> QED
    BY <1>1, <2>1, <2>5 DEF DrainInv, Performed
<1> QED
  BY <1>1, DrainInit, DrainStep, PTL DEF Spec, BackInService

\* With a cache that does not lag and no config that comes back, the first rollout changes the
\* config of a Node (and reboots it) only while the Node is cordoned: the acknowledgement the
\* daemon waits for is that of the drain it asked for, performed by the drainer.
THEOREM DrainedFirst == ASSUME NoRollback, ~StaleReads PROVE Spec => DrainedBeforeUpdate
<1>1. ASSUME DrainInv, [Next]_vars
      PROVE  [spec <= 2 => \A n \in Nodes :
                node'[n].current # node[n].current => node[n].unschedulable]_vars
  <2> SUFFICES ASSUME spec <= 2, NEW n \in Nodes, node'[n].current # node[n].current
               PROVE  node[n].unschedulable
    OBVIOUS
  <2>1. DrainMoves(n)
    BY <1>1, DrainsMove DEF DrainInv, OrderInv
  <2>2. /\ node[n].desiredDrain = [verb |-> "drain", hash |-> node[n].desired]
        /\ node[n].lastAppliedDrain = [verb |-> "drain", hash |-> node[n].desired]
    BY Zenon, <2>1 DEF DrainMoves, Stays, Given, Asks, Updates, Acknowledges, Handles, DrainRequest
  <2> QED
    <3>1. node[n].desiredDrain.verb = "drain" /\ node[n].lastAppliedDrain = node[n].desiredDrain
      BY <2>2
    <3> QED
      BY Zenon, <1>1, <3>1 DEF DrainInv, FirstRollout
<1> QED
  BY <1>1, DrainInit, DrainStep, PTL DEF Spec, DrainedBeforeUpdate

\* With a cache that does not lag and no config that comes back, a daemon pod is removed only
\* from a Node that is not updating, although reconcileUpgradePods and deleteUpgradeManifests
\* decide on the Nodes as the reconcile listed them.
THEOREM PodStays == ASSUME NoRollback, ~StaleReads PROVE Spec => PodStaysWhileUpdating
<1>1. ASSUME DrainInv, [Next]_vars
      PROVE  [\A n \in Nodes : (pod[n] = "running" /\ pod'[n] = "none")
                => node[n].current = node[n].desired]_vars
  <2> SUFFICES ASSUME NEW n \in Nodes, pod[n] = "running", pod'[n] = "none"
               PROVE  node[n].current = node[n].desired
    OBVIOUS
  <2>1. DeletePod(n) \/ ReconcilePod(n)
    <3>1. \/ pod' = pod \/ \E m \in Nodes : DeletePod(m) \/ ReconcilePod(m)
      BY Zenon, <1>1 DEF Next, ChangeSpec, NodePoolReconcile, PayloadGenerated, UpgraderStep,
                  UpgraderReconcile, SignalComplete, SignalDegraded, SignalProgress,
                  ReconcileManifests, DesiredDone, SetDesired, SetDesiredConflict,
                  UpgraderAborts, vars, DrainerStep, HandleDrainRequest, AcknowledgeDrain,
                  AcknowledgeConflict, DrainFails, MCDStep, MCDRequestDrain, MCDUpdate,
                  MCDRecovers, MCDDegrades, CacheSync, DrainerVarsUnchanged, MCDVarsUnchanged
    <3>2. ASSUME NEW m \in Nodes, DeletePod(m) \/ ReconcilePod(m), m # n
          PROVE  pod'[n] = pod[n]
      BY <1>1, <3>2 DEF DeletePod, ReconcilePod, DrainInv, OrderInv, TypeOK
    <3> QED
      BY <3>1, <3>2
  <2>2. CASE DeletePod(n)
    BY <1>1, <2>2 DEF DeletePod, DrainInv, OrderInv, UpgraderOrder
  <2>3. CASE ReconcilePod(n)
    <3>1. Settled(upg.view[n]) /\ upg.pc # "idle"
      BY <1>1, <2>3 DEF ReconcilePod, DrainInv, OrderInv, TypeOK
    <3> QED
      BY <1>1, <3>1 DEF Settled, DrainInv, ViewHolds
  <2> QED
    BY Zenon, <2>1, <2>2, <2>3
<1> QED
  BY <1>1, DrainInit, DrainStep, PTL DEF Spec, PodStaysWhileUpdating
=============================================================================
