--------------------------- MODULE ClusterDeletion ---------------------------
(***************************************************************************)
(* The deletion of a HostedCluster on AWS.  Four controllers take part and *)
(* speak to each other through the objects they delete and the conditions  *)
(* of the HostedControlPlane (HCP):                                        *)
(*   - the HostedCluster controller deletes NodePools and the Cluster API  *)
(*     Cluster, then the AWSEndpointServices, the HCP and the namespace,   *)
(*     waiting for each to be gone;                                        *)
(*   - the NodePool controller deletes the machines of a NodePool;         *)
(*   - the control-plane-operator (CPO) holds the HCP until the cloud      *)
(*     resources of the guest cluster are removed, or gives up;            *)
(*   - the hosted-cluster-config-operator (HCCO) removes them, through the *)
(*     guest cluster's API server, one kind after the other.               *)
(* External: Cluster API, the guest cluster, AWS, and the operators of     *)
(* module PrivateLink, which release the AWSEndpointService.               *)
(* An object is "present", "deleting" (it has a deletion timestamp and     *)
(* finalizers) or "gone".                                                  *)
(***************************************************************************)
EXTENDS Integers, FiniteSets, Sequences

CONSTANTS NodePools,
          MaxCleanupFailures,   \* connection failures after which the cleanup is skipped
          DestroyGrace,         \* the HostedCluster has a destroy grace period
          MaxFaults             \* bound on faults and on what users create in the meantime

ASSUME DeletionAssumption ==
    /\ IsFiniteSet(NodePools)
    /\ MaxCleanupFailures \in Nat \ {0}
    /\ DestroyGrace \in BOOLEAN
    /\ MaxFaults \in Nat

VARIABLES
    hc,          \* the HostedCluster: phase, cleanup annotation, its Destroyed condition
    nodePool,    \* NodePool -> phase
    machine,     \* NodePool -> phase of its Machine and AWSMachine
    instance,    \* NodePool -> the EC2 instance runs
    cluster,     \* the Cluster API Cluster
    endpoint,    \* the AWSEndpointService
    hcp,         \* the HCP: phase, cleanup annotation, conditions
    namespace,   \* the control plane namespace
    creds,       \* AWS credentials: "valid", "unknown", "invalid"
    cvo,         \* the cluster version operator: "up", "stopping", "down"
    timeout,     \* resourceDeletionTimeout has passed
    sg,          \* the default security group exists
    eni,         \* a network interface of a load balancer uses it
    guest,       \* kind of guest cloud resource -> phase
    blocked,     \* the webhook that blocks creations is in place
    kas,         \* the guest's API server: "up", "down", "removed"
    failures,    \* consecutive connection failures the HCCO has seen
    hcco,        \* the HCCO's reconcile in progress
    wake,        \* a reconcile of the HCCO is queued
    faults

hcVars == <<hc, nodePool, machine, instance, cluster, endpoint, namespace>>
cloudVars == <<sg, eni, guest, blocked, kas>>
hccoVars == <<failures, hcco>>
vars == <<hcVars, hcp, creds, cvo, timeout, cloudVars, hccoVars, wake, faults>>

----------------------------------------------------------------------------
(* Data *)

Phases == {"present", "deleting", "gone"}

\* The kinds of guest resources, in the order in which the HCCO visits them; the
\* ingress controllers stand for their load balancers.
Order == <<"registry", "loadBalancer", "volume", "snapshot">>
Kinds == {"registry", "loadBalancer", "volume", "snapshot"}

NewHCP == [phase |-> "present", cleanup |-> FALSE, sg |-> "none", destroyed |-> "none",
           cvoScaledDown |-> FALSE]

\* The HCCO at work: the place in its pass, the HCP it read, whether a kind
\* remains, whether a call could not connect, and the condition to write.
Started == [pc |-> "block", next |-> 1, view |-> hcp, remaining |-> FALSE, lost |-> FALSE,
            result |-> "none"]
Idle == [pc |-> "idle", next |-> 1, view |-> NewHCP, remaining |-> FALSE, lost |-> FALSE,
         result |-> "none"]

Settled(o) == IF o = "present" THEN "deleting" ELSE o

----------------------------------------------------------------------------
Init ==
    /\ hc \in [phase : {"present"}, cleanup : BOOLEAN, destroyed : {"none"}]
    /\ cluster \in {"present", "gone"}   \* "gone": a platform without Cluster API
    /\ nodePool = [n \in NodePools |-> "present"]
    /\ machine = [n \in NodePools |-> IF cluster = "present" THEN "present" ELSE "gone"]
    /\ instance = [n \in NodePools |-> cluster = "present"]
    /\ endpoint = cluster
    /\ hcp = NewHCP
    /\ namespace = "present"
    /\ creds \in {"valid", "unknown"}
    /\ cvo = "up"
    /\ timeout = FALSE
    /\ sg = TRUE /\ eni = TRUE
    /\ guest \in [Kinds -> {"present", "gone"}]
    /\ guest["registry"] = "present" /\ guest["loadBalancer"] = "present"
    /\ guest["snapshot"] = "gone"
    /\ blocked = FALSE
    /\ kas = "up"
    /\ failures = 0
    /\ hcco = Idle
    /\ wake = TRUE
    /\ faults = 0

Fault == faults < MaxFaults /\ faults' = faults + 1

----------------------------------------------------------------------------
(* The HostedCluster controller: delete, called in every reconcile.  Each step *)
(* is a segment of it that ends where the code waits for something to be gone. *)

DeleteHostedCluster ==
    /\ hc.phase = "present"
    /\ hc' = [hc EXCEPT !.phase = "deleting"]
    /\ UNCHANGED <<nodePool, machine, instance, cluster, endpoint, namespace, hcp, creds, cvo,
                   timeout, cloudVars, hccoVars, wake, faults>>

Annotated == hc.cleanup /\ hcp.phase # "gone" => hcp.cleanup

\* The cleanup annotation reaches the HCP before anything is deleted.
PropagateCleanup ==
    /\ hc.phase = "deleting"
    /\ ~ Annotated
    /\ hcp' = [hcp EXCEPT !.cleanup = TRUE]
    /\ wake' = TRUE
    /\ UNCHANGED <<hcVars, creds, cvo, timeout, cloudVars, hccoVars, faults>>

\* Mutant: an instance is given up although it could be terminated.
StrippedAlways == [n \in NodePools |-> machine[n] = "deleting"]

\* DeleteOrphanedMachines: AWSMachines whose instance cannot be terminated are
\* let go.
Stripped == [n \in NodePools |-> creds # "valid" /\ machine[n] = "deleting"]

\* NodePools and the Cluster are deleted, orphaned machines let go.
DeleteInfra ==
    /\ hc.phase = "deleting"
    /\ Annotated
    /\ nodePool' = [n \in NodePools |-> Settled(nodePool[n])]
    /\ cluster' = Settled(cluster)
    /\ machine' = [n \in NodePools |-> IF Stripped[n] THEN "gone" ELSE machine[n]]
    /\ <<nodePool', cluster', machine'>> # <<nodePool, cluster, machine>>
    /\ UNCHANGED <<hc, instance, endpoint, namespace, hcp, creds, cvo, timeout, cloudVars,
                   hccoVars, wake, faults>>

\* Mutant: the Cluster is not waited for.
InfraDeleted ==
    /\ hc.phase = "deleting"
    /\ Annotated
    /\ \A n \in NodePools : nodePool[n] # "present"

InfraGone ==
    /\ hc.phase = "deleting"
    /\ Annotated
    /\ \A n \in NodePools : nodePool[n] # "present"
    /\ cluster = "gone"

DeleteEndpointServices ==
    /\ InfraGone
    /\ endpoint = "present"
    /\ endpoint' = "deleting"
    /\ UNCHANGED <<hc, nodePool, machine, instance, cluster, namespace, hcp, creds, cvo, timeout,
                   cloudVars, hccoVars, wake, faults>>

\* Where Cluster API did not delete the HCP it is deleted now.
DeleteHostedControlPlane ==
    /\ InfraGone
    /\ endpoint = "gone"
    /\ hcp.phase = "present"
    /\ hcp' = [hcp EXCEPT !.phase = "deleting"]
    /\ wake' = TRUE
    /\ UNCHANGED <<hcVars, creds, cvo, timeout, cloudVars, hccoVars, faults>>

\* Mutant: the namespace does not wait for the HCP.
DeleteNamespaceEarly ==
    /\ InfraGone
    /\ endpoint = "gone"
    /\ namespace = "present"
    /\ namespace' = "deleting"
    /\ UNCHANGED <<hc, nodePool, machine, instance, cluster, endpoint, hcp, creds, cvo, timeout,
                   cloudVars, hccoVars, wake, faults>>

DeleteNamespace ==
    /\ InfraGone
    /\ endpoint = "gone"
    /\ hcp.phase = "gone"
    /\ namespace = "present"
    /\ namespace' = "deleting"
    /\ UNCHANGED <<hc, nodePool, machine, instance, cluster, endpoint, hcp, creds, cvo, timeout,
                   cloudVars, hccoVars, wake, faults>>

\* The finalizer is removed, at once or after the grace period that starts with
\* the HostedClusterDestroyed condition.
Finalize ==
    /\ InfraGone
    /\ endpoint = "gone" /\ hcp.phase = "gone" /\ namespace = "gone"
    /\ hc' = IF DestroyGrace /\ hc.destroyed = "none" THEN [hc EXCEPT !.destroyed = "waiting"]
             ELSE [hc EXCEPT !.phase = "gone"]
    /\ UNCHANGED <<nodePool, machine, instance, cluster, endpoint, namespace, hcp, creds, cvo,
                   timeout, cloudVars, hccoVars, wake, faults>>

----------------------------------------------------------------------------
(* The NodePool controller, Cluster API, and what else is external *)

\* The MachineDeployment or MachineSet is deleted, and with it the machines; the
\* finalizer stays until no machine is left.
NodePoolDelete(n) ==
    /\ nodePool[n] = "deleting"
    /\ machine' = [machine EXCEPT ![n] = Settled(@)]
    /\ nodePool' = IF machine[n] = "gone" THEN [nodePool EXCEPT ![n] = "gone"] ELSE nodePool
    /\ UNCHANGED <<hc, instance, cluster, endpoint, namespace, hcp, creds, cvo, timeout,
                   cloudVars, hccoVars, wake, faults>>

InstanceTerminated(n) ==
    /\ machine[n] = "deleting"
    /\ creds # "invalid"
    /\ machine' = [machine EXCEPT ![n] = "gone"]
    /\ instance' = [instance EXCEPT ![n] = FALSE]
    /\ UNCHANGED <<hc, nodePool, cluster, endpoint, namespace, hcp, creds, cvo, timeout,
                   cloudVars, hccoVars, wake, faults>>

\* Cluster API: machines first, then the control plane, then the Cluster.
ClusterDelete ==
    /\ cluster = "deleting"
    /\ machine' = [n \in NodePools |-> Settled(machine[n])]
    /\ LET noMachines == \A n \in NodePools : machine[n] = "gone" IN
       /\ hcp' = IF noMachines THEN [hcp EXCEPT !.phase = Settled(@)] ELSE hcp
       /\ cluster' = IF noMachines /\ hcp.phase = "gone" THEN "gone" ELSE cluster
    /\ wake' = (wake \/ hcp' # hcp)
    /\ UNCHANGED <<hc, nodePool, instance, endpoint, namespace, creds, cvo, timeout, cloudVars,
                   hccoVars, faults>>

\* The operators of module PrivateLink, of which the CPO lives in the namespace.
EndpointReleased ==
    /\ endpoint = "deleting"
    /\ namespace = "present"
    /\ endpoint' = "gone"
    /\ UNCHANGED <<hc, nodePool, machine, instance, cluster, namespace, hcp, creds, cvo, timeout,
                   cloudVars, hccoVars, wake, faults>>

\* A namespace goes when the finalizers of its objects are gone.
NamespaceGone ==
    /\ namespace = "deleting"
    /\ endpoint = "gone" /\ hcp.phase = "gone" /\ cluster = "gone"
    /\ namespace' = "gone"
    /\ UNCHANGED <<hc, nodePool, machine, instance, cluster, endpoint, hcp, creds, cvo, timeout,
                   cloudVars, hccoVars, wake, faults>>

CVOStopped ==
    /\ cvo = "stopping"
    /\ cvo' = "down"
    /\ UNCHANGED <<hcVars, hcp, creds, timeout, cloudVars, hccoVars, wake, faults>>

TimeoutPasses ==
    /\ hcp.phase = "deleting" /\ hcp.cvoScaledDown
    /\ ~ timeout
    /\ timeout' = TRUE
    /\ UNCHANGED <<hcVars, hcp, creds, cvo, cloudVars, hccoVars, wake, faults>>

\* The guest's controllers finish a deletion.
GuestGone(r) ==
    /\ kas = "up"
    /\ guest[r] = "deleting"
    /\ guest' = [guest EXCEPT ![r] = "gone"]
    /\ UNCHANGED <<hcVars, hcp, creds, cvo, timeout, sg, eni, blocked, kas, hccoVars, wake,
                   faults>>

InterfaceReleased ==
    /\ guest["loadBalancer"] = "gone" /\ eni
    /\ eni' = FALSE
    /\ UNCHANGED <<hcVars, hcp, creds, cvo, timeout, sg, guest, blocked, kas, hccoVars, wake,
                   faults>>

\* Users of the guest create services and volumes until that is blocked, and
\* snapshots of the volumes there are.
GuestCreate(r) ==
    /\ Fault
    /\ kas = "up"
    /\ guest[r] = "gone"
    /\ \/ r \in {"loadBalancer", "volume"} /\ ~ blocked
       \/ r = "snapshot" /\ guest["volume"] # "gone"
    /\ guest' = [guest EXCEPT ![r] = "present"]
    /\ eni' = (eni \/ r = "loadBalancer")
    /\ UNCHANGED <<hcVars, hcp, creds, cvo, timeout, sg, blocked, kas, hccoVars, wake>>

CredentialsChange ==
    /\ Fault
    /\ creds' = CASE creds = "unknown" -> "valid" [] creds = "valid" -> "invalid" [] OTHER -> creds
    /\ creds' # creds
    /\ UNCHANGED <<hcVars, hcp, cvo, timeout, cloudVars, hccoVars, wake>>

APIServerChanges ==
    /\ Fault
    /\ kas' \in (CASE kas = "up" -> {"down", "removed"} [] kas = "down" -> {"up"} [] OTHER -> {})
    /\ UNCHANGED <<hcVars, hcp, creds, cvo, timeout, sg, eni, guest, blocked, hccoVars, wake>>

----------------------------------------------------------------------------
(* The CPO: reconcile of an HCP that is being deleted.  Its writes carry the   *)
(* resourceVersion of the HCP it read: a pass that the HCCO interrupts is lost *)
(* but for the security group, and repeated.                                   *)

shouldCleanupCloudResources == hcp.cleanup /\ creds # "invalid"

\* Mutant: any answer of the HCCO is taken for its last.
Answered == hcp.destroyed # "none"

Destroyed == hcp.destroyed \in {"true", "skipped"}
removeCloudResourcesDone == Destroyed \/ (hcp.cvoScaledDown /\ timeout)

\* Mutant: the condition says deleted before the group is.
SecurityGroupOptimistic ==
    /\ sg' = (sg /\ eni)
    /\ hcp' = [hcp EXCEPT !.sg = "deleted",
                          !.phase = IF removeCloudResourcesDone THEN "gone" ELSE @,
                          !.cvoScaledDown = @ \/ (~ removeCloudResourcesDone /\ cvo = "down")]

\* destroyAWSDefaultSecurityGroup, whose failure for a dependency is tolerated,
\* then removeCloudResources.
DestroyGroupAndResources ==
    /\ sg' = (sg /\ eni)
    /\ hcp' = [hcp EXCEPT !.sg = IF sg' THEN "failed" ELSE "deleted",
                          !.phase = IF removeCloudResourcesDone THEN "gone" ELSE @,
                          !.cvoScaledDown = @ \/ (~ removeCloudResourcesDone /\ cvo = "down")]

HCPDelete ==
    /\ hcp.phase = "deleting"
    /\ namespace = "present"
    /\ \/ /\ ~ shouldCleanupCloudResources
          /\ hcp' = [hcp EXCEPT !.phase = "gone"]
          /\ UNCHANGED <<sg, cvo>>
       \/ /\ shouldCleanupCloudResources
          /\ DestroyGroupAndResources
          /\ cvo' = IF ~ removeCloudResourcesDone /\ ~ hcp.cvoScaledDown /\ cvo = "up"
                    THEN "stopping" ELSE cvo
    /\ wake' = (wake \/ hcp' # hcp)
    /\ UNCHANGED <<hcVars, creds, timeout, eni, guest, blocked, kas, hccoVars, faults>>

\* Another AWS error ends the pass.
HCPDeleteFails ==
    /\ Fault
    /\ hcp.phase = "deleting"
    /\ namespace = "present"
    /\ shouldCleanupCloudResources /\ sg
    /\ hcp' = [hcp EXCEPT !.sg = "failed"]
    /\ wake' = (wake \/ hcp' # hcp)
    /\ UNCHANGED <<hcVars, creds, cvo, timeout, cloudVars, hccoVars>>

----------------------------------------------------------------------------
(* The HCCO *)

hccoUnchanged == UNCHANGED <<hcVars, creds, cvo, timeout, sg, eni, kas, faults>>

Writes(result) == [hcco EXCEPT !.pc = "write", !.result = result]

\* ShouldSkipCleanup, at the start of the pass: the API server's deployment is
\* gone, or too many connection failures, or one too long ago.
HCCOBegin ==
    /\ hcco.pc = "idle" /\ wake
    /\ namespace = "present"
    /\ hcp.phase = "deleting" /\ hcp.cleanup /\ hcp.cvoScaledDown
    /\ wake' = FALSE
    /\ \/ /\ kas = "removed" \/ failures > 0
          /\ hcco' = [Started EXCEPT !.pc = "write", !.result = "skipped"]
       \/ /\ kas # "removed" /\ failures < MaxCleanupFailures
          /\ hcco' = Started
    /\ UNCHANGED <<hcp, guest, blocked, failures>>
    /\ hccoUnchanged

\* Mutant: the creation of resources is not blocked.
SkipBlocking ==
    /\ hcco.pc = "block"
    /\ hcco' = [hcco EXCEPT !.pc = "visit"]
    /\ UNCHANGED <<hcp, guest, blocked, failures, wake>>
    /\ hccoUnchanged

ensureResourceCreationIsBlocked ==
    /\ hcco.pc = "block"
    /\ IF kas = "up"
       THEN blocked' = TRUE /\ hcco' = [hcco EXCEPT !.pc = "visit"] /\ UNCHANGED failures
       ELSE failures' = failures + 1 /\ hcco' = Writes("error") /\ UNCHANGED blocked
    /\ UNCHANGED <<hcp, guest, wake>>
    /\ hccoUnchanged

\* One kind after the other: what is there is deleted, and remains for now.
VisitKind ==
    /\ hcco.pc = "visit" /\ hcco.next <= Len(Order)
    /\ LET r == Order[hcco.next] IN
       /\ guest' = IF kas = "up" THEN [guest EXCEPT ![r] = Settled(@)] ELSE guest
       /\ hcco' = [hcco EXCEPT !.next = @ + 1,
                               !.remaining = @ \/ kas # "up" \/ guest[r] # "gone",
                               !.lost = @ \/ kas # "up"]
    /\ UNCHANGED <<hcp, blocked, failures, wake>>
    /\ hccoUnchanged

VisitDone ==
    /\ hcco.pc = "visit" /\ hcco.next > Len(Order)
    /\ failures' = IF hcco.lost THEN failures + 1 ELSE 0
    /\ hcco' = Writes(CASE hcco.lost -> "error" [] hcco.remaining -> "remaining" [] OTHER -> "true")
    /\ UNCHANGED <<hcp, guest, blocked, wake>>
    /\ hccoUnchanged

\* The condition is written if the HCP is the one that was read.  A pass that
\* leaves nothing remaining, one that could not block creations included, is
\* repeated only on an event, such as the change of the condition itself.
HCCOWrite ==
    /\ hcco.pc = "write"
    /\ hcp' = IF hcp = hcco.view THEN [hcp EXCEPT !.destroyed = hcco.result] ELSE hcp
    /\ wake' = (wake \/ hcp # hcco.view \/ hcp' # hcp \/ hcco.remaining)
    /\ hcco' = Idle
    /\ UNCHANGED <<guest, blocked, failures>>
    /\ hccoUnchanged

HCCORestart ==
    /\ Fault
    /\ namespace = "present"
    /\ hcco' = Idle
    /\ failures' = 0
    /\ wake' = TRUE
    /\ UNCHANGED <<hcVars, hcp, creds, cvo, timeout, cloudVars>>

----------------------------------------------------------------------------
HCStep ==
    \/ PropagateCleanup \/ DeleteInfra \/ DeleteEndpointServices \/ DeleteHostedControlPlane
    \/ DeleteNamespace \/ Finalize
HCCOStep == HCCOBegin \/ ensureResourceCreationIsBlocked \/ VisitKind \/ VisitDone \/ HCCOWrite
External ==
    \/ ClusterDelete \/ EndpointReleased \/ NamespaceGone \/ CVOStopped \/ InterfaceReleased
    \/ \E n \in NodePools : InstanceTerminated(n)
    \/ \E r \in Kinds : GuestGone(r)

Next ==
    \/ DeleteHostedCluster \/ HCStep \/ HCPDelete \/ HCCOStep \/ External \/ TimeoutPasses
    \/ \E n \in NodePools : NodePoolDelete(n)
    \/ CredentialsChange \/ APIServerChanges \/ HCPDeleteFails \/ HCCORestart
    \/ \E r \in Kinds : GuestCreate(r)

Spec == Init /\ [][Next]_vars

\* Controllers retry until what they wait for is there; time passes.
Fairness ==
    /\ WF_vars(HCStep) /\ WF_vars(HCPDelete) /\ WF_vars(HCCOStep) /\ WF_vars(TimeoutPasses)
    /\ WF_vars(ClusterDelete) /\ WF_vars(EndpointReleased) /\ WF_vars(NamespaceGone)
    /\ WF_vars(CVOStopped)
    /\ \A n \in NodePools : WF_vars(NodePoolDelete(n)) /\ WF_vars(InstanceTerminated(n))
    /\ \A r \in Kinds : WF_vars(GuestGone(r))

FairSpec == Spec /\ Fairness

----------------------------------------------------------------------------
(* Properties *)

\* Every variable holds a value of its type; the failure tracker never counts
\* past the number at which the cleanup is skipped.
TypeOK ==
    /\ hc \in [phase : Phases, cleanup : BOOLEAN, destroyed : {"none", "waiting"}]
    /\ {nodePool, machine} \subseteq [NodePools -> Phases]
    /\ instance \in [NodePools -> BOOLEAN]
    /\ {cluster, endpoint, namespace, hcp.phase} \subseteq Phases
    /\ hcp.sg \in {"none", "failed", "deleted"}
    /\ hcp.destroyed \in {"none", "true", "remaining", "error", "skipped"}
    /\ creds \in {"valid", "unknown", "invalid"}
    /\ cvo \in {"up", "stopping", "down"} /\ kas \in {"up", "down", "removed"}
    /\ {hcp.cleanup, hcp.cvoScaledDown, timeout, sg, eni, blocked, wake, hcco.remaining,
        hcco.lost} \subseteq BOOLEAN
    /\ guest \in [Kinds -> Phases]
    /\ failures \in 0..MaxCleanupFailures
    /\ hcco.pc \in {"idle", "block", "visit", "write"} /\ hcco.next \in 1..(Len(Order) + 1)
    /\ faults \in 0..MaxFaults

\* When the CloudResourcesDestroyed condition of the HCP is True, no guest
\* resource is left and none comes back, although the HCCO looks at one kind
\* after the other while users may create more, and never at two at once.
DestroyedIsTrue == hcp.destroyed = "true" => \A r \in Kinds : guest[r] = "gone"

\* A HostedCluster that asks for cleanup loses its control plane, the only way
\* to clean up, before its guest resources are gone only for a reason the code
\* names: invalid credentials, a skipped cleanup, or the timeout.
CleanupExplained ==
    hc.cleanup /\ hcp.phase = "gone" =>
        \/ \A r \in Kinds : guest[r] = "gone"
        \/ creds = "invalid" \/ hcp.destroyed = "skipped" \/ timeout

\* The AWSDefaultSecurityGroupDeleted condition is honest: True means that the
\* group is gone, and a group left behind by a cleanup was reported.
SecurityGroupReported ==
    /\ hcp.sg = "deleted" => ~ sg
    /\ hc.cleanup /\ hcp.phase = "gone" /\ sg => creds = "invalid" \/ hcp.sg = "failed"

\* An instance outlives its Machine only if the HostedCluster's credentials
\* were not valid (DeleteOrphanedMachines).
InstancesTerminated ==
    [][\A n \in NodePools : machine[n] = "deleting" /\ machine'[n] = "gone" /\ instance'[n]
          => creds # "valid"]_vars

\* What must outlive what: the control plane outlives the machines, which
\* need it to be removed; the namespace outlives the control plane and the
\* endpoints, whose operator lives in it; the HostedCluster outlives the
\* namespace.
AllParts == {"machines", "nodePools", "controlPlane", "endpoints", "namespace", "hostedCluster"}
Outlives == [p \in AllParts |->
    CASE p = "machines" -> {}
      [] p \in {"nodePools", "controlPlane", "endpoints"} -> {"machines"}
      [] p = "namespace" -> {"controlPlane", "endpoints"}
      [] p = "hostedCluster" -> {"namespace"}]

Requested == hc.phase # "present"
Gone == {p \in AllParts :
    \/ p = "machines" /\ \A n \in NodePools : machine[n] = "gone"
    \/ p = "nodePools" /\ \A n \in NodePools : nodePool[n] = "gone"
    \/ p = "controlPlane" /\ hcp.phase = "gone"
    \/ p = "endpoints" /\ endpoint = "gone"
    \/ p = "namespace" /\ namespace = "gone"
    \/ p = "hostedCluster" /\ hc.phase = "gone"}

T == INSTANCE Teardown WITH Parts <- AllParts, Needs <- Outlives, requested <- Requested, gone <- Gone

\* The deletion implements the specification Teardown: its parts go one by one
\* and in order, whoever fails or restarts in between.
ImplementsTeardown == T!InOrder

\* Once requested the deletion completes, although every controller waits for
\* another one.
TeardownCompletes == T!Completes
=============================================================================
