---------------------------- MODULE ReleaseRollout ----------------------------
(***************************************************************************)
(* A release of a HostedCluster and its rollout over the control plane.    *)
(*   - The HostedCluster controller validates the release, asks isUpgrading*)
(*     whether an upgrade may begin, copies the release to the             *)
(*     HostedControlPlane (HCP) and then, later in the same reconcile,     *)
(*     deploys the control-plane-operator (CPO) of that release.           *)
(*   - The CPO reconciles an HCP only if its release is the one it was     *)
(*     deployed for.  A pass visits the components in the order they are   *)
(*     registered; a component is updated once its dependencies report     *)
(*     this very release, and its ControlPlaneComponent is written after.  *)
(*   - The hosted-cluster-config-operator (HCCO) copies the version and    *)
(*     the Upgradeable condition of the guest's ClusterVersion to the HCP. *)
(* External: the workload controllers, the cluster version operator (CVO). *)
(* Releases are numbers; 0 stands for none.                                *)
(***************************************************************************)
EXTENDS Integers, FiniteSets, Sequences, SequencesExt

CONSTANTS Order,         \* the components, in the order registerComponents lists them
          Declared,      \* component -> the dependencies its builder declares
          Excluded,      \* componentsExcludedFromKubeAPIServerDependency
          Minor,         \* <<minor version of release 1, ...>>
          EtcdTypes,     \* is etcd managed: a set of BOOLEAN
          MaxUpgrades,   \* bound on the changes of the HostedCluster's release
          MaxFaults      \* bound on crashes, failures, lost pods and vetoes

Components == Range(Order)
Releases == 1 .. Len(Minor)

ASSUME RolloutAssumption ==
    /\ Order \in Seq(STRING) /\ IsInjective(Order)
    /\ {"etcd", "kube-apiserver", "cluster-version-operator"} \subseteq Components
    /\ Declared \in [Components -> SUBSET Components]
    /\ Excluded \subseteq Components
    /\ Minor \in Seq(Nat) /\ Minor # <<>>
    /\ EtcdTypes \subseteq BOOLEAN
    /\ MaxUpgrades \in Nat /\ MaxFaults \in Nat

VARIABLES
    hc,         \* the HostedCluster: release, force-upgrade annotation, release found valid
    hcp,        \* the release of the HCP's spec
    report,     \* the HCP's status: the CVO's desired release, and Upgradeable
    cpo,        \* the release the running CPO operates on
    pass,       \* the CPO's reconcile in progress
    workload,   \* component -> its Deployment or StatefulSet
    status,     \* component -> its ControlPlaneComponent, and which workload it tells of
                \* (a history variable, see Told)
    cv,         \* the guest's ClusterVersion: desired release, and Upgradeable
    managed,    \* etcd is managed
    upgrades,
    faults

hostedVars == <<hc, hcp>>
cpoVars == <<cpo, pass, status>>
guestVars == <<cv, report>>
vars == <<hostedVars, cpoVars, workload, guestVars, managed, upgrades, faults>>

----------------------------------------------------------------------------
(* Data *)

NoWorkload == [release |-> 0, updated |-> FALSE, up |-> FALSE]
\* A status tells of the workload as it was last written, of the one before, which the
\* cache still showed, or of one that was overwritten since.
Told == {"written", "before", "overwritten"}
NoStatus == [available |-> FALSE, complete |-> FALSE, version |-> 0, told |-> "written"]
Idle == [next |-> 0, release |-> 0]

\* IsAvailable and IsReady of a workload.
IsAvailable(w) == w.up
IsReady(w) == w.release # 0 /\ w.updated /\ w.up

Enabled(c) == c = "etcd" => managed

TypeOK ==
    /\ hc \in [release : Releases, force : Releases \cup {0}, valid : BOOLEAN]
    /\ hcp \in Releases \cup {0} /\ cpo \in Releases \cup {0}
    /\ report \in [desired : Releases \cup {0}, upgradeable : BOOLEAN]
    /\ cv \in [desired : Releases \cup {0}, upgradeable : BOOLEAN]
    /\ pass \in [next : 0 .. Len(Order), release : Releases \cup {0}]
    /\ workload \in [Components -> [release : Releases \cup {0}, updated : BOOLEAN, up : BOOLEAN]]
    /\ status \in [Components -> [available : BOOLEAN, complete : BOOLEAN,
                                  version : Releases \cup {0}, told : Told]]
    /\ managed \in EtcdTypes
    /\ upgrades \in 0 .. MaxUpgrades /\ faults \in 0 .. MaxFaults

Init ==
    /\ hc = [release |-> 1, force |-> 0, valid |-> FALSE]
    /\ hcp = 0 /\ cpo = 0
    /\ report = [desired |-> 0, upgradeable |-> TRUE]
    /\ cv = [desired |-> 0, upgradeable |-> TRUE]
    /\ pass = Idle
    /\ workload = [c \in Components |-> NoWorkload]
    /\ status = [c \in Components |-> NoStatus]
    /\ managed \in EtcdTypes
    /\ upgrades = 0 /\ faults = 0

Fault == faults < MaxFaults /\ faults' = faults + 1
----------------------------------------------------------------------------
(* The HostedCluster controller *)

\* The user of an installed cluster asks for another release, forcing the upgrade or
\* not; an annotation of an earlier upgrade stays.
ChangeRelease(r, f) ==
    /\ report.desired # 0
    /\ upgrades < MaxUpgrades
    /\ r # hc.release
    /\ hc' = [release |-> r, force |-> f, valid |-> FALSE]
    /\ upgrades' = upgrades + 1
    /\ UNCHANGED <<hcp, cpoVars, workload, guestVars, managed, faults>>

\* computeClusterVersionStatus: what the CVO reports or, before it does, the spec.
StatusDesired == IF report.desired # 0 THEN report.desired ELSE hc.release

\* validateReleaseImage, skipped once this generation was found valid.
ValidReleaseImage ==
    \/ hc.valid
    \/ StatusDesired = hc.release
    \/ Minor[StatusDesired] <= Minor[hc.release]

\* isUpgrading returns an error: Upgradeable is false and nothing overrides it.
UpgradeRefused ==
    /\ StatusDesired # hc.release
    /\ ~ report.upgradeable
    /\ IF hc.force # 0 THEN hc.force # hc.release ELSE Minor[StatusDesired] # Minor[hc.release]

\* A reconcile.  The write of the HCP comes first, the CPO of the release is deployed
\* some twenty fallible steps later and replaces the running one, whose pass ends.
ReconcileHostedCluster ==
    /\ hc' = [hc EXCEPT !.valid = ValidReleaseImage]
    /\ IF ValidReleaseImage /\ ~ UpgradeRefused
          THEN /\ hcp' = hc.release
               /\ cpo' = hc.release
               /\ pass' = IF cpo = hc.release THEN pass ELSE Idle
          ELSE UNCHANGED <<hcp, cpo, pass>>
    /\ UNCHANGED <<status, workload, guestVars, managed, upgrades, faults>>

\* One of the steps in between fails, or the HyperShift operator stops there.
ReconcileFails ==
    /\ Fault
    /\ ValidReleaseImage /\ ~ UpgradeRefused
    /\ hc' = [hc EXCEPT !.valid = TRUE]
    /\ hcp' = hc.release
    /\ UNCHANGED <<cpoVars, workload, guestVars, managed, upgrades>>

----------------------------------------------------------------------------
(* The control-plane-operator *)

\* A pass begins: an HCP of another release is left to another CPO.
StartPass ==
    /\ pass = Idle
    /\ hcp # 0 /\ cpo = hcp
    /\ pass' = [next |-> 1, release |-> hcp]
    /\ UNCHANGED <<hostedVars, cpo, status, workload, guestVars, managed, upgrades, faults>>

\* Mutant: kube-apiserver is added to its own dependencies.
DependenciesOnItself(c) ==
    (Declared[c] \cup (IF c \in Excluded THEN {} ELSE {"kube-apiserver"}))
        \ (IF managed THEN {} ELSE {"etcd"})

\* checkDependencies: the dependencies of a component.
Dependencies(c) ==
    ((Declared[c] \cup (IF c \in Excluded THEN {} ELSE {"kube-apiserver"}))
        \ (IF managed THEN {} ELSE {"etcd"})) \ {c}

\* Mutant: a dependency rolled out to any release will do.
NotRolledOut(c) == {d \in Dependencies(c) : ~ (status[d].available /\ status[d].complete)}

\* checkDependencies: the ones that are not at the release of the pass.
UnavailableDependencies(c) ==
    {d \in Dependencies(c) :
        ~ (status[d].available /\ status[d].complete /\ status[d].version = pass.release)}

Current == Order[pass.next]

\* The component after the current one, or the end of the pass.
NextComponent ==
    IF pass.next = Len(Order) THEN Idle ELSE [pass EXCEPT !.next = pass.next + 1]

\* A component that is not enabled is removed.
DeleteComponent ==
    /\ pass # Idle
    /\ ~ Enabled(Current)
    /\ workload' = [workload EXCEPT ![Current] = NoWorkload]
    /\ status' = [status EXCEPT ![Current] = NoStatus]
    /\ pass' = NextComponent
    /\ UNCHANGED <<hostedVars, cpo, guestVars, managed, upgrades, faults>>

\* reconcileComponentStatus, from the workload the cache shows: the version is
\* recorded when the rollout is complete.
Reported(old, seen, complete, told) ==
    [available |-> IsAvailable(seen), complete |-> complete,
     version |-> IF complete THEN pass.release ELSE old.version, told |-> told]

ComponentWaits ==
    /\ pass # Idle
    /\ Enabled(Current)
    /\ UnavailableDependencies(Current) # {}
    /\ status' = [status EXCEPT ![Current] = Reported(@, workload[Current], FALSE, "written")]
    /\ pass' = NextComponent
    /\ UNCHANGED <<hostedVars, cpo, workload, guestVars, managed, upgrades, faults>>

Updating ==
    /\ pass # Idle
    /\ Enabled(Current)
    /\ UnavailableDependencies(Current) = {}

\* update: a new template, the pods there are keep running until they are replaced.
Applied ==
    [workload EXCEPT ![Current] = IF @.release = pass.release THEN @
                                  ELSE [@ EXCEPT !.release = pass.release, !.updated = FALSE]]

\* The component is updated and its status written.  The workload is read back from
\* the cache, which may not have seen the write yet.
UpdateComponent ==
    /\ Updating
    /\ workload' = Applied
    /\ \E seen \in {Applied[Current], workload[Current]} :
          status' = [status EXCEPT ![Current] =
                       Reported(@, seen, IsReady(seen),
                                IF seen = Applied[Current] THEN "written" ELSE "before")]
    /\ pass' = NextComponent
    /\ UNCHANGED <<hostedVars, cpo, guestVars, managed, upgrades, faults>>

\* A manifest cannot be applied: the workload comes after it, or is the one.
UpdateFails ==
    /\ Updating
    /\ Fault
    /\ status' = [status EXCEPT ![Current] = Reported(@, workload[Current], FALSE, "written")]
    /\ pass' = NextComponent
    /\ UNCHANGED <<hostedVars, cpo, workload, guestVars, managed, upgrades>>

\* The CPO stops in the middle of a pass, between two components or after the write
\* of a workload.
Crash ==
    /\ pass # Idle
    /\ Fault
    /\ pass' = Idle
    /\ \/ UNCHANGED <<workload, status>>
       \/ /\ Updating
          /\ Applied # workload
          /\ workload' = Applied
          /\ status' = [status EXCEPT ![Current].told = "overwritten"]
    /\ UNCHANGED <<hostedVars, cpo, guestVars, managed, upgrades>>

----------------------------------------------------------------------------
(* The environment: workload controllers, the CPO's cache, the CVO *)

\* The pods of a workload are replaced, or replace lost ones.
RollOut(c) ==
    /\ workload[c].release # 0
    /\ ~ IsReady(workload[c])
    /\ workload' = [workload EXCEPT ![c].updated = TRUE, ![c].up = TRUE]
    /\ UNCHANGED <<hostedVars, cpoVars, guestVars, managed, upgrades, faults>>

LosePods(c) ==
    /\ workload[c].up
    /\ Fault
    /\ workload' = [workload EXCEPT ![c].up = FALSE]
    /\ UNCHANGED <<hostedVars, cpoVars, guestVars, managed, upgrades>>

\* The CVO of a release makes it the desired one.
RunCVO ==
    /\ IsReady(workload["cluster-version-operator"])
    /\ workload["kube-apiserver"].up
    /\ cv.desired # workload["cluster-version-operator"].release
    /\ cv' = [cv EXCEPT !.desired = workload["cluster-version-operator"].release]
    /\ UNCHANGED <<hostedVars, cpoVars, workload, report, managed, upgrades, faults>>

\* A guest operator forbids or allows upgrades.
ChangeUpgradeable ==
    /\ cv.desired # 0
    /\ Fault
    /\ cv' = [cv EXCEPT !.upgradeable = ~ @]
    /\ UNCHANGED <<hostedVars, cpoVars, workload, report, managed, upgrades>>

\* hcpStatusReconciler.
ReportVersion ==
    /\ cv.desired # 0
    /\ workload["kube-apiserver"].up
    /\ report # cv
    /\ report' = cv
    /\ UNCHANGED <<hostedVars, cpoVars, workload, cv, managed, upgrades, faults>>

\* hcpStatusReconciler, when the ClusterVersion is not found: it has no Upgradeable
\* condition, which counts as true.
ReportMissingVersion ==
    /\ workload["kube-apiserver"].up
    /\ Fault
    /\ report' = [report EXCEPT !.upgradeable = TRUE]
    /\ UNCHANGED <<hostedVars, cpoVars, workload, cv, managed, upgrades>>

----------------------------------------------------------------------------
PassStep == StartPass \/ DeleteComponent \/ ComponentWaits \/ UpdateComponent

Next ==
    \/ \E r \in Releases : \E f \in {hc.force, r} : ChangeRelease(r, f)
    \/ ReconcileHostedCluster \/ ReconcileFails
    \/ PassStep \/ UpdateFails \/ Crash
    \/ \E c \in Components : RollOut(c) \/ LosePods(c)
    \/ RunCVO \/ ChangeUpgradeable
    \/ ReportVersion \/ ReportMissingVersion

Spec == Init /\ [][Next]_vars

\* Controllers are requeued and reconcile again and again; workloads roll out.
FairSpec ==
    /\ Spec
    /\ WF_vars(ReconcileHostedCluster) /\ WF_vars(PassStep)
    /\ \A c \in Components : WF_vars(RollOut(c))
    /\ WF_vars(RunCVO) /\ WF_vars(ReportVersion)

----------------------------------------------------------------------------
(* Properties *)

\* A component moves to a release only when each of its dependencies has been moved
\* to it and has finished (checkDependencies trusts the ControlPlaneComponents).  Where
\* a status was made from the cache before it showed the write, the dependency may not
\* have finished; where the operator stopped between the write of the dependency and
\* its status, and the release of that status is asked for again, it may have left it.
RolloutInOrder ==
    [][\A c \in Components :
          workload'[c].release \notin {0, workload[c].release} =>
             \A d \in Dependencies(c) :
                /\ status[d].told # "overwritten" => workload[d].release = workload'[c].release
                /\ status[d].told = "written" => workload[d].updated]_vars

AllAt(r) == \A c \in Components : Enabled(c) => status[c].version = r /\ status[c].complete
                                             /\ workload[c].release = r

\* In the end the release of the HostedCluster is rolled out over all components and
\* taken up by the CVO, or it is refused: not begun or, where the reconcile failed
\* between the two writes, known to the HCP and to no CPO.  A veto that comes later
\* stops no rollout half-way.
UpgradeSettles ==
    <>[](\/ AllAt(hc.release) /\ cv.desired = hc.release
         \/ cpo # hc.release /\ (~ ValidReleaseImage \/ UpgradeRefused))

\* An HCP is not given a release of an earlier minor version than one of its
\* components already has (IsValidReleaseVersion refuses a downgrade).
NoMinorDowngrade ==
    [][report.desired # 0 /\ hcp' # hcp =>
          \A c \in Components :
             workload[c].release # 0 => Minor[workload[c].release] <= Minor[hcp']]_vars
=============================================================================
