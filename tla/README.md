# HyperShift: TLA+ models and proofs

HyperShift runs the control planes of OpenShift clusters ("hosted clusters") as
pods of a management cluster. It is a set of controllers that communicate only
through Kubernetes objects, which each of them reads through an informer cache,
writes one request at a time, and may find changed or outdated at any moment.
This directory models the parts of it where that style is hardest to get right,
checks them with TLC on small instances, and proves the main safety properties
with TLAPS for every instance.

Contents: [the system](#the-system), [the modules](#the-modules) and their
correspondence to the code, [the runs](#the-runs), [bounds](#bounds),
[fairness](#fairness), [the proofs](#the-proofs),
[disagreements](#where-code-and-documentation-disagree),
[what is not modelled](#not-modelled), [the plan](#plan).

## The system

| Part | Where | State it keeps | What it does |
|---|---|---|---|
| NodePool controller | `hypershift-operator/controllers/nodepool` | annotations and conditions of the NodePool; MachineSet or MachineDeployment; token and user-data Secrets | turns a NodePool into Machines, rolls out config and version changes (Replace or InPlace), creates and expires ignition tokens |
| Secret janitor | `.../nodepool/secret_janitor.go` | none | expires or deletes Secrets that no NodePool refers to |
| In-place upgrader | `control-plane-operator/hostedclusterconfigoperator/controllers/inplaceupgrader` | MachineSet annotations, Node annotations, a ConfigMap and daemon pods in the hosted cluster | upgrades the Nodes of a pool in place, a few at a time |
| Drainer | `.../controllers/drainer` | Node `spec.unschedulable`, `lastAppliedDrain` annotation | performs the drain and uncordon requests of the machine-config-daemon |
| Ignition server | `ignition-server` | token Secret; per replica a cache from tokens to payloads | generates payloads, rotates tokens, serves booting Machines |
| Sizing controller | `hypershift-operator/controllers/hostedclustersizing` | size label and three conditions of the HostedCluster | gives a HostedCluster a size, with delays and a concurrency limit |
| Request-serving scheduler, placeholders, autoscaler | `hypershift-operator/controllers/scheduler` | labels and taints of Nodes, annotations of HostedClusters | dedicates pairs of Nodes to HostedClusters |
| HostedCluster controller | `hypershift-operator/controllers/hostedcluster` | HostedControlPlane and its namespace; recovery Job | reconciles a HostedCluster, deletes it in order, starts etcd recovery |
| HostedControlPlane controller, component framework | `control-plane-operator/controllers/hostedcontrolplane`, `support/controlplane-component` | workloads and ControlPlaneComponent status | rolls a release out over components that depend on each other |
| PKI operator | `control-plane-pki-operator` | signers, trust bundles, CSRs, revocation requests | rotates, signs and revokes certificates |
| etcd tools | `etcd-defrag`, `etcd-recovery`, `etcd-backup` | etcd members, PVCs | defragment members one by one, replace a lost member, back up |
| Audit log persistence | `hypershift-operator/controllers/auditlogpersistence` | pod annotations, VolumeSnapshots | snapshots the audit log of a crashing API server |
| Private link controllers | `control-plane-operator/controllers/awsprivatelink`, `gcpprivateserviceconnect` | cloud endpoints, finalizers | connect a private hosted cluster |
| Karpenter operator | `karpenter-operator` | NodePools, machine approvals | runs Karpenter for a hosted cluster |
| Proxies and helpers | `konnectivity-*`, `shared-ingress`, `availability-prober`, `token-minter`, ... | none or a file | forward connections, poll, copy objects |

The parts modelled here meet as follows. A change of a NodePool's config gives
it a new *config version*, a hash. The NodePool controller creates the token
Secret of that version; a replica of the ignition server generates its payload
and stores it in its cache and, for in-place pools, in the Secret. In a Replace
pool new Machines boot with the user data that holds the token. In an InPlace
pool the controller writes the hash as the *target* annotation of the
MachineSet; the upgrader, in the hosted control plane, writes it as
*desiredConfig* on a few Nodes at a time and runs a machine-config-daemon pod on
them; each daemon asks the drainer for a drain, updates and reboots the Node,
and asks for an uncordon; when all Nodes are done the upgrader writes the
*current* annotation, which tells the NodePool controller that the rollout is
complete. The number of Nodes in turn is what the sizing controller gives the
HostedCluster a size by, and the size decides which pairs of Nodes of the
management cluster the scheduler dedicates to its API servers. A new release
goes from the HostedCluster to the HostedControlPlane, whose operator rolls it
out over its components in the order of their dependencies. A private cluster on
AWS is reached through an endpoint service of one operator and an endpoint of
another. Credentials issued for emergencies are revoked by replacing their
signer. When the HostedCluster is deleted, NodePools, Machines, endpoints,
resources of the guest in the cloud, control plane and namespace go one after the
other, each removed by a controller that a later step removes.

What makes these controllers hard: every actor decides on a copy of the state
that may be old; every write is separate from the next and may fail or be the
last before a restart; requests are level-triggered, so a change may be
overtaken by its revert; several replicas work without a leader; timers are
held in memory. The properties checked are about the combinations of these:
nothing is taken out of service beyond a bound, completion means completed, a
Node is cordoned before it is changed, a token that was handed out is served
until its grace period is over, a limit holds across restarts, nothing is
removed before what still needs it, two operators do not work against each
other, and whatever was interrupted finishes in the end. `PROJECT.json` lists the
hazards with their source lines and the properties that address them.

## The modules

### InPlaceUpgrade

The four actors of an in-place rollout of one NodePool.

| Variables | Code |
|---|---|
| `spec`, `npCurrent`, `npCond` | NodePool spec (as an index in the constant `History` of config versions), `nodePoolCurrentConfigVersion`, condition `UpdatingConfig` |
| `ms` | MachineSet: user-data reference, target, current and in-progress annotations |
| `payload`, `configMap` | token Secrets that carry a payload; ConfigMap with the upgrade payload |
| `node`, `nodeCache` | Nodes as stored and as the informer cache shows them: current and desired config, daemon state, desired and last applied drain, cordon |
| `pod`, `boot` | daemon pods; config the Nodes first booted with |
| `upg` | the upgrader's reconcile in progress: which loop it is in, the Nodes as it listed them, the Nodes it has still to visit |
| `drainer` | per Node the request that was performed and not yet acknowledged |

Every API write of the upgrader is a step (`SignalProgress`,
`ReconcileManifests`, `SetDesired`, `ReconcilePod`, `DeletePod`,
`SignalComplete`, `SignalDegraded`), so other actors interleave and
`UpgraderAborts` can end the reconcile between any two. The drainer performs a
request (`HandleDrainRequest`) and later reads the Node again to acknowledge it
(`AcknowledgeDrain`). `SetDesiredConflict` and `AcknowledgeConflict` are updates
refused because the cached object is outdated. `getAvailableCandidates` keeps
what Go's slice expression does: more than the length but within the capacity
gives nil pointers (and a panic when the first is used), more than the capacity
panics; controller-runtime turns a panic into a failed reconcile.
The daemon is external: the `MCD...` actions are what the code relies on.
With the constant `StaleReads` the Node cache lags, otherwise it follows each
write at once.

### IgnitionTokens

One config version of a NodePool and the life of its token. `deployment`, chosen
initially, is the platform and the replicas of the ignition server. `role` says whether
the NodePool asks for it (`target`), is still leaving it (`outdated`), has
dropped it (`abandoned`) or is being deleted (`gone`). `secret` is the token
Secret, `userData` the token new Machines get, `np` and `janitor` the
reconciles of the NodePool controller and the secret janitor between their
read and their write, `cache` and `rec` the payload store and the reconcile of
each replica, `machine` a Machine that is booting. `Token.Reconcile` is
`ReconcileToken; ReconcileUserData`, `rotateToken` is `StartRotation` followed
by `PatchRotation`, `PatchRotationFails` or `PatchRotationNotFound`; payload
generation is `StartGeneration` followed by `Generated`, `GenerationFails` or
`GenerationUnpublished` (the patch after the payload was cached fails). The
patches carry no resource version and hence never conflict, the janitor's
update does.

### ExpiringCache and PayloadStore

The payload store at the grain of its `RWMutex`. PayloadStore is the store of one
replica, an instance of ExpiringCache (`NewPayloadStore`); its run and its theorems are
about this instance. `Get` first collects expired
entries: the loop ranges over the map without the lock (`GcVisit`) and takes it
to delete (`Acquire`, `WriteGcDelete`); then it reads. A map that is ranged over
while another goroutine writes it is a data race: the run may go on, or the Go
runtime stops the process (`Crash`).

### ClusterSizing

`hc` and `cache` are the HostedClusters (conditions `ClusterSizeComputed`,
`ClusterSizeTransitionRequired`, `ClusterSizeTransitionPending`, the size label)
as stored and as cached; `queue` and `timer` are the controller's work queue
and its `RequeueAfter` timers; `input` is all that determines a size: override,
autoscaler recommendation, node count of the HostedControlPlane, NodePools,
state of the API server. `newStatus` is the decision of a reconcile,
`requeueAfter` its timer; `ReconcileLabel` and `ReconcileStatus` are its two
writes, which never happen in one reconcile. Times are ages capped at `MaxAge`,
so the clock has no end.

### PrivateLink

One `AWSEndpointService` (`cr`) and the two operators that write its status:
`ho`, the HyperShift operator, owns the endpoint `service` and its permissions
(`allowed`), `cpo`, the control plane operator, the endpoint, its security group
and its DNS `record`. A reconcile reads the object (`base`), calls AWS step by
step and changes its copy (`obj`), and writes the status last; the write is
refused if the object changed since. `clients` are the CPO's AWS clients,
which live in memory and are made from the HostedControlPlane. AWS is external:
connections become available, endpoints are deleted asynchronously, and others
may delete either resource. `strip` is the HostedCluster controller taking the
CPO's finalizer away (credentials invalid, or the grace period over).

### Teardown and ClusterDeletion

`Teardown` is the abstract specification of a deletion: parts go away one by one,
each after those that need it, until none is left. `ClusterDeletion` is how it is
done on AWS by four controllers: `PropagateCleanup`, `DeleteInfra` (NodePools,
Cluster, and machines whose credentials are gone), `DeleteEndpointServices`,
`DeleteHostedControlPlane`, `DeleteNamespace` and `Finalize` by the HostedCluster
controller, each waiting for the one before; `NodePoolDelete`; `HCPDelete`, which stops the cluster version operator,
waits for the guest's resources and removes the default security group; and the
HCCO's pass (`HCCOBegin`, `ensureResourceCreationIsBlocked`, `VisitKind`,
`HCCOWrite`), which visits one kind of resource after the other through an API
server that may be away. The refinement maps phases to parts (`Gone`, `Outlives`)
in the `INSTANCE`; `ImplementsTeardown` is its safety half (parts go one by one and
in order), `TeardownCompletes` the liveness half.

### ReleaseRollout

`ReconcileHostedCluster` validates a release, asks whether an upgrade may begin
and performs two writes, the release of the HostedControlPlane and the CPO
of that release, between which it may fail. A pass of the CPO visits the
components in the order they are registered and for each checks the
dependencies, writes the `workload`, and derives the `status` from what the cache
shows. The field `told` of a status is a history variable no action reads: whether the
status was made from the workload as written or from the one before, or the workload
was overwritten after it (a pass cut off between its two writes, `Crash`). `Dependencies` adds kube-apiserver to what a component declares, as the
framework does. The HCCO reports the guest's version and its `Upgradeable`
condition (`ReportVersion`), which the first check of the next upgrade reads.

### CertificateRevocation

The six stages of a `CertificateRevocationRequest`, each an action that decides
on one write (`pass`) and a later action that performs it; the signer, leaf and
bundle rotation of library-go (vendored in the repository); the controller
that copies the bundle to the one the API servers mount (`total`); the API
servers, which load it in their own time (`kas`). A certificate is its second of
issue; validity starts a second earlier, as in the code, so whether a signer is
valid at the request's timestamp (`OnlyAfter`) keeps the edge.

### RequestServing

The five controllers that share the pairs of Nodes for request serving. `fleet`,
chosen initially, is a management cluster: pairs, sizes, HostedClusters and
what may happen to them. The scheduler's pass is a choice (`Reconcile(c)`) followed
by its writes one at a time (`pass`: label a Node, write the selector, delete the
placeholder); the ConfigMap of a pair (`pairOwner`) is created, never taken over.
`placeholderCreator`, `placeholderUpdater`, `Autoscale` and `Descale` followed by
`ScaleDown` are the others. Deployments, the kube-scheduler and Machines are
external. A scale-down dooms the Machine: a later scale-up makes a new one.

Two modelling decisions apply to IgnitionTokens and ClusterSizing: time advances
only when no reconcile is due (reconciles take seconds, the delays are minutes
or hours), and comparisons of times are exact in ticks.

In each module the definitions marked `Mutant` and the other variants in front
of a definition are not part of the specification: they are plausible bugs that
the properties must catch.

## The runs

| Run | Instance | Shows |
|---|---|---|
| `inplace` | 2 Nodes, A→B→C, one abort | the second change may come at any point of the first rollout: the bound, the meaning of completion, cordon before change, return to service, daemon pods, termination |
| `inplace_lag` | 2 Nodes, both at a time, A→B, lagging cache, one degraded daemon, symmetry | completion is reported only for a config that every Node runs, although it is decided on an outdated view, updates are refused and reconciles end in the slice panic |
| `inplace_panic` | 3 Nodes, two at a time, A→B | expects a violation, see [below](#where-code-and-documentation-disagree) |
| `tokens` | 1 replica with 2 role changes and 1 restart, or 2 replicas with 1 role change; 1 failure | Machines in flight are served even after a cache was lost, by some replica if several rotate at once; a lone replica caches two tokens at most; an active token is restored, an outdated one revoked |
| `cache_calls` | 2 goroutines, 2 keys | a lookup meets nothing that expired before the call; every call returns |
| `sizing_limit` | 3 clusters, limit 2, 4 changes, 1 restart | the limit |
| `sizing_fair` | a new and an old cluster, limit 1, all sources of a size, lagging cache, 1 restart | the label follows the status, conditions tell the truth at rest, every cluster gets its size in the end |
| `privatelink` | 1 or 2 subnets, 2 services, 2 endpoints, 1 fault | one endpoint at a time, no finalizer removed before what it stands for, connected in the end, deletion completes |
| `deletion` | 1 NodePool, 4 kinds of guest resources, 1 fault | the deletion implements `Teardown`, order and completion; the conditions on cloud resources are true; what is left in the cloud is left for a reason the code names |
| `rollout` | 4 components, 2 releases, 1 upgrade, managed etcd or not, 1 fault | components move in the order of their dependencies, so far as the statuses tell; a release is rolled out everywhere or refused before it begins |
| `revocation` | 1 request, 2 API servers, 5 seconds, 1 fault | nothing revoked returns to the bundle, stored certificates keep their trust, the request completes or stops for a named reason |
| `requestserving` | 4 fleets of 1 or 2 pairs and 1 or 2 clusters | a labelled Node's pair is recorded for its cluster, serving Nodes are not chosen for removal unless their pair holds a leftover Node, every cluster is served in the end, Nodes of deleted clusters are released, placeholders give way |

Every property of a passing run has a mutant of the code under which TLC finds
it violated (`PROJECT.json`). `TypeOK` is checked in `inplace`; elsewhere it is proved
or, in IgnitionTokens, ClusterSizing, CertificateRevocation and RequestServing, holds on
the same instances and is left out of the configurations.

## Bounds

* Nodes: two are the fewest with a Node that updates and a Node that must not;
  three with two at a time (`InPlacePanic.cfg`) the fewest where the capacity
  exceeds the candidates left without any failure. The safety properties are proved for any number.
  Histories of two changes contain every way for a change to overtake another
  (`Back` is the revert).
* `MaxAborts`, `MaxDegrades`, `MaxFailures`, `MaxRestarts`: one or two, at any
  step. The controllers remember nothing across reconciles but what is in the
  objects, the caches and the timers, so a single interruption already meets
  every state of a reconcile; series of independent failures beyond two are not
  explored by TLC. The theorems hold for any number. The degraded daemon is in
  `inplace_lag` only; `inplace` with `MaxDegrades` = 1, with and without the abort,
  was checked once and holds (1.8 million states).
* Tokens: `Half` = 3 and `Grace` = 2 keep the order of the code's constants
  (rotation after `ttl/2`; the grace period is shorter than `ttl/2`, `TimesAssumption`).
  A deployment's `time` covers two to three rotations and an expiration after the
  last change (`Horizon`); behaviours end there, so the run does not check deadlock.
  `MaxTokens` is larger than the number of tokens that can be generated.
* PayloadStore: `Ticks` = 2 with `Lifetime` = 1 lets an entry expire and be set
  again during a call.
* Sizing: limit 2 of 3 clusters and limit 1 of 2 clusters; windows and delays of
  one to three ticks, the window longer in the passing runs, the delay in
  `SizingWake.cfg`. `Resync` is longer than either; only the length of a wait
  depends on it, which no passing property mentions.
* PrivateLink: two services and two endpoints are needed to replace one that was
  deleted or is wrong; the single fault is any of a restart of either operator, a
  failed call, a deletion by others, or a change of the subnets.
* ClusterDeletion: one NodePool, since NodePools do not interact; two failures make
  the tracker give up, so one fault (an API server that goes away) reaches both
  sides of its limit by repetition.
* ReleaseRollout: four components: an operator registered before the
  kube-apiserver it depends on, and the three the code treats specially, etcd,
  kube-apiserver and the cluster version operator. Upgrading from
  release 1 to a next minor version meets every check. By hand: two upgrades with two
  faults keep the order as well (19.7 million states), and are the least that reach a
  status outdated by a crash whose release is asked for again.
* CertificateRevocation: five seconds leave room for a signer of the same second
  as the request, one of the next and a regenerated one. By hand: two requests with
  one replica (1.0 million states) and two faults (0.6 million) hold as well.
* RequestServing: each fleet makes one conflict happen: competition for pairs,
  resize in a pair, a pair handed on, a pool that shrinks. By hand: competition with
  a fault, and a pair with two sizes and two clusters, hold as well.

Runs whose behaviours end (a deleted cluster, a bounded clock, nothing left to do)
do not check deadlock; their liveness properties take its place.

## Fairness

Weak fairness of each controller's step: a reconcile that is due is run, since
watches, `RequeueAfter`, retries with backoff and the resync all put it in the
queue. `CacheSync` is fair because watch events arrive. Time passes
(`WF(Tick)`). The daemon's steps are fair while its pod runs; it is a loop with
retries. Never fair: changes by the user, failures, restarts, degradations.
In ExpiringCache the lock is granted with strong fairness: Go's `RWMutex`
blocks new readers once a writer waits, and a writer waits for finitely many
readers; in between steps of the other goroutine the lock is free again and
again. In ClusterSizing `SizeApplied` rests on the informers' resync, which is
part of `Tick`: the code leaves waits without a timer (see `SizingWake.cfg`).

In the other modules each controller, each object it works on and each external
controller (AWS, Cluster API, kube-scheduler, Deployments) is weakly fair on its own,
so that one busy object cannot stand for another. Two points are more than that: in
ClusterDeletion the CPO's ten-minute timeout passes if it is waited for, which
is what ends a deletion whose HCCO stopped without a requeue
(`resources.go:2224`); in CertificateRevocation every sync happens again because
of informer events and their ten-minute resync (`operator.go:59`), since the
controller's own resync only queues a default key.

## The proofs

Checked by TLAPS for all values of the constants that satisfy the modules'
`ASSUME`s: any number of Nodes, clusters, components, requests or goroutines, and any
number of faults where TLC takes one. The invariants that carry the proofs were checked
by TLC on the instances of the runs before they were proved. A comment in front of each
lemma says what it is for.

**InPlaceUpgradeProofs.**

* `TypeCorrect`: `[]TypeOK`, one lemma per actor.
* `Bound`: without stale reads, `[]MaxUnavailableRespected`. The bound alone is not
  inductive: the upgrader writes desired configs chosen on an earlier view. `BoundInv`
  adds, for a reconcile that is writing, that the Nodes updating now together with the
  Nodes it has still to write stay within the bound. It holds because nobody but the
  upgrader makes a Node updating, so since the list the set of updating Nodes has only
  shrunk; the choice left room for all that was chosen; and a Node that was updating
  already stays in the count when its target changes. The history may revert.
* `CompletionHolds` (`CompletionSound`) and `CompleteUpgraded`
  (`[]CompleteMeansUpgraded`), for a cache that lags as much as it likes, if no config
  comes back (`NoRollback`). `OrderInv` orders everything by the place of a config in
  the history. The MachineSet's current is at most its target, that at most the spec
  (`PoolOrder`); a cached Node is not ahead of the stored one, whose current config is at
  most its desired one, and that at most the target (`NodeOrder`); a reconcile works on
  the newest config any Node was given, and when it has found the rollout complete, it
  is (`UpgraderOrder`). So a Node that was seen at the target, however long ago, has
  nowhere else to be, and the decision is still right when it is written. While the
  MachineSet has the config it asks for, so have the Nodes (`Rested`).
* `ServiceRestored` (`BackInService`), `DrainedFirst` (`DrainedBeforeUpdate`) and
  `PodStays` (`PodStaysWhileUpdating`), if moreover the cache does not lag. `DrainInv`
  adds that requests follow the configs (`DrainOrder`), that what the drainer performed
  still holds when it acknowledges it (`Performed`), that in the first rollout no request
  overtakes another (`FirstRollout`), and that the Nodes a reconcile listed have at most
  finished their updates since (`ViewHolds`).

  `NoRollback` is needed: `InPlaceRollback.cfg` refutes `CompleteMeansUpgraded` for a
  history that goes back. The passing runs satisfy the hypotheses of each theorem they
  check the property of.

**ReleaseRolloutProofs.** `InOrder` (`RolloutInOrder`) and `RolloutTypes`. The property is
about workloads, the code decides on statuses; `StatusTells` links them: a status that
says "complete" has the version of its workload unless that was overwritten, and the
workload has finished if the status was made from it as written. `Moves` lists the five
things a step can do to a component, and each keeps the link.

**RequestServingProofs.** `LabelsRecorded` (`[]LabelIsRecorded`) and `ServingKept`
(`ServingNodesKept`). The invariant says that the pass under way has recorded a pair
before it labels its Nodes and gives one up only for a cluster that is not live
(`PassInv`), and that the pods of one placeholder run in one pair, those of the pool with
one index too (`DepInv`), since that is how the scheduler comes by the Nodes it labels.
`ServingKept` follows: two live clusters cannot both have Nodes in a pair
(`PairNotShared`). `NodesAccounted` (`[]TypeOK`) is more than types: a Node without
replicas is being deleted, and placeholder pods run on Nodes that exist. It needs
that the Nodes a pass may still patch exist (`MachineInv`), which they do
because the patch carries the resource version that was read and fails on a new Node.
`NothingLeftBehind` (`[]NothingLeft`): a cluster that is gone has left no ConfigMap and no
placeholder, wherever its clean-up failed. By `LeftInv` both exist only under the
scheduler's finalizer, and not once the clean-up has passed them.

**CertificateRevocationProofs.** `CopyRevoked`, `RevokedForGood` (`[]RevokedStaysPruned`),
`PruneSafe` (`PruneKeepsLeaves`) and `RevocationTypes` (`[]TypeOK`). Each stage decides on a write and performs it later, so
the invariant says of each kind of pending write that what made it due still holds
(`StatusDue`, `CopyDue`, `BundleDue`). Nothing else can undo it: every other step adds
at most the current signer to the bundle, and replaces the signer only by a newer one
(`Quiet`).

**PrivateLinkProofs.** `AtMostOneEndpoint` (`[]OneEndpoint`), `ServiceNotLeft`,
`EndpointNotLeft` and `PrivateLinkTypes`. A write goes through only if the object is still
the one that was read (`base`), so it suffices to follow each reconcile from `base` to the
copy it writes; what a deletion has found gone only the operator itself could bring back.

**ClusterDeletionProofs.** `TeardownOrder` (`ImplementsTeardown`): every step of the
deletion is a step of `Teardown` or leaves its parts alone, by `OrderInv`: no part but
the machines goes before them, nothing before it is asked for. `DestroyedHonest`,
`CleanupHasReason`, `GroupReported`, `NoOrphans` and `DeletionTypes` are about the
conditions and what is left in the cloud. The HCCO looks at one kind after the other, so
the invariant says that the kinds it has passed are gone and cannot come back: creations are
blocked first, and snapshots come after the volumes they are made from (`GoneBefore`).

**ClusterSizingProofs.** `LimitHolds`: with scheduled clusters and an up-to-date cache,
`[]ClustersWithinLimit`; `LimitInv` adds that the cache equals the stored clusters, so
that the count a reconcile takes is the real one. `LabelFollows` (`[]LabelNotForgotten`) and
`RequiredRight` (`[]RequiredIsHonest`) hold for any cache: by `RestInv` a cluster that is
not queued, and whose cached copy is the stored one, has the label of its status and
honest conditions, because whatever is written changes the object and its event queues the
cluster again. `SizingTypes` (`[](TypeOK /\ TimersFire)`) says among others that a
transition that waits asks for a timer in the future: `RequeueAfter` is positive at the
edge of the delay and of the window too (`RequeueLater`). That the largest member of a
bounded set exists comes from the well-foundedness of the naturals (`MaxInSet`).

**IgnitionServerProofs**, the ignition server with its tokens and its payload store.

* `MachinesServed` (`[]MachineServed`), for any number of replicas that rotate one token at
  once, and for a lone replica that restarts at any point (`Steady`). Being served is far
  from inductive. `ServerInv` adds to the types: tokens are new when they are made
  (`BelowInv`, `NewInv`); the token of the Secret is rotated at `Half`, before its entries
  expire, and the old one has `Half` left (`TimeInv`); under a reconcile in progress the
  Secret is there, and while the user data exists it does not expire within `Grace`
  (`PendingInv`); a rotation has read the token of the Secret, or another replica was
  faster and has the token that this one is about to drop (`RotationInv`); hence a token
  that was handed out is the token of the Secret, its old one, or one that some replica
  keeps for long enough (`HandedInv`).
* `CacheBound` (`[]CacheBounded`): `LoneInv` says which tokens the cache of a replica that
  works alone holds, at every point of a rotation and after a failed patch.
* `RotationKeepsPrevious`: a rotation by a lone replica keeps the token before as the old
  one, through restarts, failed patches and the janitor's late decisions. `TokenTypes`:
  `[]TypeOK`, for every deployment.
* `NoExpiredLookup` (`[]GetCollects`) and `CacheTypeCorrect` are about the payload store at
  the grain of its lock (`StoreSpec` of PayloadStore). `CollectInv` says that
  every entry older than the call is still in the collector's list or is the victim it is
  about to delete; entries written meanwhile expire later.

`Steady` leaves out what the property does not hold for in the model: a platform
`"AWS<4.16"`, whose user data outlives the version, and several replicas of which one
restarts. There the token of a rotation that was overtaken is in no other cache and in
no field of the Secret (`tokensecret_controller.go:389`), and the restart loses it.

Assumptions beyond types and bounds: names of clusters, sizes and the markers for "none"
are told apart (`FleetsAssumption`); clusters that exist from the start have the
size their input asks for (`StartAssumption`); etcd, kube-apiserver and the cluster version
operator are among the components and none is registered twice (`RolloutAssumption`);
the grace period is not longer than half the lifetime of a token (`TimesAssumption`: two
hours, `token.go:209`, and half of eleven, `tokensecret_controller.go:47`). With a longer
one `MachineServed` is false (`Half` = 2, `Grace` = 3).

Every invariant and every action property of the passing runs is stated by a theorem. Only
model-checked: all liveness, which needs fairness and `ENABLED`, and with it
`TeardownCompletes`.

## Where code and documentation disagree

In each of these TLC finds what a document, comment or message of the repository
says violated. The first is a run of the project, quoted in `PROJECT.json`; the
others are reproduced with `tlc -config <configuration> <module>`.

| Configuration, module | Property | What happens | What is said |
|---|---|---|---|
| `InPlacePanic.cfg`, MCInPlaceUpgrade | `UpgradeCompletes` | `candidateNodes[:capacity]` with fewer candidates than capacity: the rollout stops (`inplaceupgrader.go:553`) | run `inplace_panic` |
| `InPlaceRollback.cfg`, MCInPlaceUpgrade | `CompleteMeansUpgraded` | a change reverted during its rollout makes current and target equal: reported complete with Nodes on the abandoned config (`capi.go:1045`) | `nodepool-rollouts.md:150`: "all Nodes report the target configuration version" |
| `TokensPublish.cfg`, MCIgnitionTokens | `PayloadPublished` | the payload is cached before the patch that publishes it; after a failed patch the retry finds it cached and never publishes (`tokensecret_controller.go:229`, `330`) | `nodepool_conditions.go:5`: "signals if the ignition sever generated an ignition payload successfully" |
| `SizingWake.cfg`, MCClusterSizing | `DelayReasonTrue` | a cluster waits for its delay after the delay is over, without a timer (`hostedclustersizing_controller.go:305`, `339`) | `hostedcluster_conditions.go:201`: "due to transition delays on the cluster itself or from management-cluster-wide limits" |
| `PrivateLinkRestart.cfg`, MCPrivateLink | `FinalizerForCleanup` | a CPO that restarts when the HostedControlPlane is gone cannot make its AWS clients, logs that, and removes its finalizer with the endpoint in place (`awsprivatelink_controller.go:403`) | `awsprivatelink_controller.go:422`: "Ensure the awsEndpointService has a finalizer for cleanup" |
| `ReleaseRolloutDowngrade.cfg`, MCReleaseRollout | `NoMinorDowngrade` | a minor upgrade taken back before the cluster version operator reports it: components that moved go back (`hostedcluster_controller.go:3690`) | `version.go:116`: "y-stream downgrade from %q to %q is not supported" |
| `CertificateRevocationReplicas.cfg`, MCCertificateRevocation | `RevokedIsRejected` | one API server answers for all; another may not have loaded the bundle yet (`certificaterevocationcontroller.go:877`) | `break-glass-credentials.md:199`: "Old certificates are no longer accepted" |

Some properties hold only for the constants of their passing runs, or are stated
with a condition, and the models show why when that is changed:

* `DrainedBeforeUpdate` is about the first change: when a second one arrives the
  drainer, having performed an uncordon, may copy the drain request that
  replaced it meanwhile (`drainer.go:133`).
* `MaxUnavailableRespected` needs an up-to-date cache: with `StaleReads = TRUE`
  a reconcile that does not see the last one's writes chooses another Node.
* `MachineServed` asks for one replica that serves, not all: when two rotate the
  same token at once, the second patch drops the first one's token, which may
  be in the user data (`tokensecret_controller.go:389`). For the same reason
  `CacheBounded` is about a lone replica, and `MachineServed` needs that no replica
  restarts where there are several. It is not claimed for the platform `"AWS<4.16"`, where
  the model lets a Machine be created with the old user data between a change of the
  NodePool and its reconcile.
* `OutdatedTokenRevoked` fails for the platform `"AWS<4.16"`: the janitor returns
  before it looks at token Secrets (`secret_janitor.go:99`).
* `ClustersWithinLimit` needs an up-to-date cache, as `MaxUnavailableRespected`
  does. It counts clusters, as the code does: a cluster that changes
  size twice within the window counts once.
* `ServiceFinalizerGuards` and `EndpointFinalizerGuards` are about what the status
  records. A resource whose record was refused, of an object that is deleted next,
  is left in AWS (`platform/aws/controller.go:575`).
* `RolloutInOrder` leaves two cases out, both recorded in the field `told`. A status
  derived from a cache that did not show the write yet says "complete" of a dependency
  that has been moved but has not finished (`status.go:183`). And when the operator
  stops between the write of a workload and its status
  (`controlplane-component.go:172`), the status still speaks of the release before; if
  the user goes back to that release, dependents move to it although the dependency is
  at the other one, until the next pass over it. Without the second exception the
  property fails with two upgrades and two faults (30 steps). That an
  available HostedControlPlane has all its components does not hold
  (`hostedcontrolplane_controller.go:968` counts those that exist). When the
  ClusterVersion is not found `Upgradeable` becomes true (`hcpstatus.go:168`),
  although the comment at line 106 says unknown.
* `RevocationSettles` allows a request that lost its previous signer: the step that
  copies it dereferences nil and the operator restarts again and again
  (`certificaterevocationcontroller.go:516`).
* `ServingNodesKept` is about the descaler's decision, and leaves out a pair that still
  holds a Node of a cluster that is being deleted or gone: `nodeMachineSetsToScaleDown`
  (`autoscaler.go:208`) scales down all Nodes of such a pair, those included that carry the
  label of another cluster by then. The Nodes of a deleted cluster keep its label until
  they are scaled down, its ConfigMap is deleted before, and another cluster may claim
  Nodes of the pair in between. The write carries no resource
  version and may come after a cluster took the pair; `Served` says that heals.
  The placeholder creator returns at the first size whose placeholders exist
  (`placeholders.go:200`), so later sizes get none: no property asks for them.
  Nodes of a pair scaled up for a cluster that was deleted before they were
  labelled stay until somebody else claims the pair (`autoscaler.go:399`).

## Not modelled

Within the modelled parts:

* InPlaceUpgrade: Nodes that join or leave during a rollout; changes that only
  concern the machine template. With a lagging cache the drainer can acknowledge
  an uncordon it did not make, so `BackInService` is checked with an up-to-date
  cache only.
* IgnitionTokens: the janitor's part in the deletion of a HostedCluster; the
  ignition-reached annotation.
* ClusterSizing: changes of the sizing configuration while clusters wait.
* PrivateLink: paused clusters, the removal of an obsolete private-ingress object,
  ExternalName services, a VPC shared between accounts.
* ClusterDeletion: other platforms, the annotation that keeps the namespace, the
  OIDC bucket; credentials only get worse. Volume snapshots are not covered by the
  creation block in the code, nor in the model.
* ReleaseRollout: the feature-gate Job, the check of operands, paused clusters; a
  cache lag longer than one component's reconcile.
* CertificateRevocation: the second signer class, requests for unknown classes, a
  request that is deleted and made again, expiry of certificates.
* RequestServing: the scheduler without size tagging and its reaper, the autoscaler
  of the other Nodes, the age of Nodes, an invalid or growing configuration. Reads
  are fresh at the start of a pass: with a cache that lags over two passes a cluster
  could claim a second pair.

The other parts of the system are listed, with reasons, in `PROJECT.json`. The
repository is large, and by lines most of it is outside what a state machine says
anything about: manifests and platform templates computed in one pass from a
spec, API types with their generated clients, command line tools, and I/O. The
modules therefore map a small share of all lines: the paths of the modelled
controllers that change state. What is left and has state of its own is in the plan.

## Plan

1. `EtcdRecovery` and `EtcdDefrag`: the finished recovery Job is deleted in the
   background and a new one may be created in the same pass
   (`etcd_recovery.go:79`); after a timeout the defragmentation goes on to the next
   member (`etcddefrag_controller.go:204`).
2. `AuditSnapshots`: snapshot after a crash, minimum interval, retention; a restart
   is recorded as seen before its snapshot is made (`snapshot_controller.go:160`).
3. Replace rollouts (`capi.go`), the scheduler without size tagging, the
   ignition-reached annotation (`start.go:279`).
4. Compositions: an atomic store with expiry that ExpiringCache implements, up to the
   collection that deletes an entry renewed meanwhile (`cache.go:91`); an abstract
   rollout that InPlaceUpgrade implements without reverts; IgnitionTokens as the
   source of InPlaceUpgrade's payload; PrivateLink as the endpoints of
   ClusterDeletion.
5. Proofs: `MachineServed` for several replicas that restart, once the code keeps the
   token of a rotation that was overtaken; the store with expiry of item 4 as a refinement.
