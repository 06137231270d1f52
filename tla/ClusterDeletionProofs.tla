------------------------ MODULE ClusterDeletionProofs ------------------------
(***************************************************************************)
(* For any number of NodePools, faults and connection failures: the        *)
(* conditions of a control plane that is deleted are honest, a cleanup     *)
(* that did not happen has a reason the code names, and the deletion takes *)
(* the parts of the hosted cluster away in the order Teardown asks for.    *)
(***************************************************************************)
EXTENDS ClusterDeletion, TLAPS

Results == {"none", "true", "remaining", "error", "skipped"}
HCPs == [phase : Phases, cleanup : BOOLEAN, sg : {"none", "failed", "deleted"},
         destroyed : Results, cvoScaledDown : BOOLEAN]
Passes == [pc : {"idle", "block", "visit", "write"}, next : 1..5, view : HCPs,
           remaining : BOOLEAN, lost : BOOLEAN, result : Results]

\* The variables of the HCCO and of the CPO, with the failures of a pass that
\* is under way still below the number at which cleanup is skipped.
CleanupTypes ==
    /\ hcp \in HCPs /\ hcco \in Passes
    /\ guest \in [Kinds -> Phases]
    /\ failures \in 0..MaxCleanupFailures
    /\ hcco.pc \in {"block", "visit"} => failures < MaxCleanupFailures
    /\ creds \in {"valid", "unknown", "invalid"}
    /\ cvo \in {"up", "stopping", "down"} /\ kas \in {"up", "down", "removed"}
    /\ timeout \in BOOLEAN /\ sg \in BOOLEAN /\ eni \in BOOLEAN /\ blocked \in BOOLEAN
    /\ wake \in BOOLEAN
    /\ faults \in 0..MaxFaults

\* The variables of the HostedCluster controller and of Cluster API.
InfraTypes ==
    /\ hc \in [phase : Phases, cleanup : BOOLEAN, destroyed : {"none", "waiting"}]
    /\ nodePool \in [NodePools -> Phases] /\ machine \in [NodePools -> Phases]
    /\ instance \in [NodePools -> BOOLEAN]
    /\ cluster \in Phases /\ endpoint \in Phases /\ namespace \in Phases

\* The kinds before the i-th are gone and stay so: nobody can create a load
\* balancer or a volume any more, nor a snapshot once there is no volume.
GoneBefore(i) ==
    /\ blocked
    /\ i > 1 => guest["registry"] = "gone"
    /\ i > 2 => guest["loadBalancer"] = "gone"
    /\ i > 3 => guest["volume"] = "gone"
    /\ i > 4 => guest["snapshot"] = "gone"

\* What the HCCO has established so far, and what it has told the CPO.
CleanupInv ==
    /\ hcco.pc = "block" => hcco.next = 1 /\ ~ hcco.lost
    /\ hcco.pc = "visit" => blocked /\ (~ hcco.remaining => GoneBefore(hcco.next))
    /\ hcco.pc = "visit" /\ hcco.lost => hcco.remaining
    /\ hcco.pc = "write" /\ hcco.result = "true" => GoneBefore(5)
    /\ hcco.pc # "idle" => hcco.view.phase = "deleting"
    /\ hcp.destroyed = "true" => GoneBefore(5)

\* The HCP knows that cleanup is asked for before anything can delete it, and
\* what it reports of the cleanup once it is gone.
ReportInv ==
    /\ hc.cleanup /\ (cluster = "deleting" \/ hcp.phase # "present") => hcp.cleanup
    /\ hc.cleanup /\ hcp.phase = "gone" =>
         creds = "invalid" \/ hcp.destroyed \in {"true", "skipped"} \/ timeout
    /\ hcp.sg = "deleted" => ~ sg
    /\ hc.cleanup /\ hcp.phase = "gone" /\ sg => creds = "invalid" \/ hcp.sg = "failed"

NoMachines == \A n \in NodePools : machine[n] = "gone"

\* No part goes before the machines, and nothing before it is asked for.
OrderInv ==
    /\ \A n \in NodePools : nodePool[n] = "gone" => machine[n] = "gone"
    /\ cluster = "gone" \/ hcp.phase # "present" \/ endpoint # "present" => NoMachines
    /\ hc.phase = "present" =>
         /\ \A n \in NodePools : nodePool[n] = "present" /\ machine[n] # "deleting"
         /\ cluster # "deleting" /\ endpoint # "deleting" /\ namespace = "present"
         /\ hcp.phase = "present"

IInv == CleanupTypes /\ InfraTypes /\ CleanupInv /\ ReportInv /\ OrderInv

----------------------------------------------------------------------------
(* Types *)

\* The HCP the HCCO starts from, and its idle state.
LEMMA NewTypes == NewHCP \in HCPs /\ Idle \in Passes
<1>1. NewHCP \in HCPs
  BY DEF NewHCP, HCPs, Results, Phases
<1> QED
  BY <1>1 DEF Idle, Passes, Results

\* What the fields of an HCP can be.
LEMMA HCPFields ==
    ASSUME NEW h \in HCPs
    PROVE  /\ h.phase \in Phases /\ h.cleanup \in BOOLEAN /\ h.destroyed \in Results
           /\ h.cvoScaledDown \in BOOLEAN /\ h.sg \in {"none", "failed", "deleted"}
BY DEF HCPs

\* The HostedCluster controller's annotation changes nothing else of the HCP.
LEMMA HCPAnnotated ==
    ASSUME hcp \in HCPs, PropagateCleanup
    PROVE  /\ hcp' \in HCPs
           /\ hcp'.phase = hcp.phase /\ hcp'.cleanup = TRUE
           /\ hcp'.destroyed = hcp.destroyed /\ hcp'.sg = hcp.sg
<1>1. hcp' = [hcp EXCEPT !.cleanup = TRUE]
  BY DEF PropagateCleanup
<1> QED
  BY Zenon, <1>1 DEF HCPs

\* Deleting or releasing the HCP keeps its annotation and its conditions.
LEMMA HCPPhase ==
    ASSUME hcp \in HCPs, NEW p \in Phases, hcp' = [hcp EXCEPT !.phase = p]
    PROVE  /\ hcp' \in HCPs
           /\ hcp'.phase = p /\ hcp'.cleanup = hcp.cleanup
           /\ hcp'.destroyed = hcp.destroyed /\ hcp'.sg = hcp.sg
BY DEF HCPs

\* Cluster API deletes the HCP only when no machine is left.
LEMMA HCPAfterMachines ==
    ASSUME hcp \in HCPs, ClusterDelete
    PROVE  /\ hcp' \in HCPs
           /\ hcp'.phase = hcp.phase \/ (hcp.phase = "present" /\ hcp'.phase = "deleting" /\ NoMachines)
           /\ hcp'.cleanup = hcp.cleanup
           /\ hcp'.destroyed = hcp.destroyed /\ hcp'.sg = hcp.sg
<1>1. CASE hcp' = hcp
  BY <1>1
<1>2. CASE NoMachines /\ hcp' = [hcp EXCEPT !.phase = Settled(hcp.phase)]
  <2>1. Settled(hcp.phase) \in Phases
    BY HCPFields DEF Settled, Phases
  <2> QED
    BY <1>2, <2>1, HCPPhase DEF Settled
<1> QED
  BY <1>1, <1>2 DEF ClusterDelete, NoMachines

\* What a pass of the CPO writes: the security group's condition, and whether
\* the HCP is released.
LEMMA HCPReported ==
    ASSUME hcp \in HCPs, sg \in BOOLEAN, DestroyGroupAndResources
    PROVE  /\ hcp' \in HCPs /\ sg' \in BOOLEAN
           /\ hcp'.sg = IF sg' THEN "failed" ELSE "deleted"
           /\ hcp'.phase = IF removeCloudResourcesDone THEN "gone" ELSE hcp.phase
           /\ hcp'.cleanup = hcp.cleanup /\ hcp'.destroyed = hcp.destroyed
<1> DEFINE g == IF sg' THEN "failed" ELSE "deleted"
           p == IF removeCloudResourcesDone THEN "gone" ELSE hcp.phase
           c == hcp.cvoScaledDown \/ (~ removeCloudResourcesDone /\ cvo = "down")
<1>1. hcp' = [hcp EXCEPT !.sg = g, !.phase = p, !.cvoScaledDown = c]
  BY DEF DestroyGroupAndResources
<1>2. p \in Phases /\ c \in BOOLEAN /\ g \in {"none", "failed", "deleted"}
  BY HCPFields DEF Phases
<1> HIDE DEF g, p, c
<1>3. hcp' \in HCPs
  BY Zenon, <1>1, <1>2 DEF HCPs
<1>4. /\ hcp'.sg = g /\ hcp'.phase = p /\ hcp'.cleanup = hcp.cleanup
      /\ hcp'.destroyed = hcp.destroyed
  BY <1>1, <1>2 DEF HCPs
<1>5. sg' \in BOOLEAN
  BY DEF DestroyGroupAndResources
<1> QED
  BY <1>3, <1>4, <1>5 DEF g, p

\* A pass of the CPO that an AWS error ends reports the security group.
LEMMA HCPFailed ==
    ASSUME hcp \in HCPs, HCPDeleteFails
    PROVE  /\ hcp' \in HCPs
           /\ hcp'.phase = hcp.phase /\ hcp'.cleanup = hcp.cleanup
           /\ hcp'.destroyed = hcp.destroyed /\ hcp'.sg = "failed"
<1>1. hcp' = [hcp EXCEPT !.sg = "failed"]
  BY DEF HCPDeleteFails
<1> QED
  BY <1>1 DEF HCPs

\* What the HCCO writes into the HCP it read.
LEMMA HCPDestroyed ==
    ASSUME hcp \in HCPs, hcco \in Passes, HCCOWrite
    PROVE  /\ hcp' \in HCPs
           /\ hcp'.phase = hcp.phase /\ hcp'.cleanup = hcp.cleanup /\ hcp'.sg = hcp.sg
           /\ \/ hcp' = hcp
              \/ hcp = hcco.view /\ hcp'.destroyed = hcco.result
<1>1. CASE hcp' = hcp
  BY <1>1
<1>2. CASE hcp = hcco.view /\ hcp' = [hcp EXCEPT !.destroyed = hcco.result]
  <2>1. hcco.result \in Results
    BY DEF Passes
  <2> QED
    BY <1>2, <2>1 DEF HCPs
<1> QED
  BY <1>1, <1>2 DEF HCCOWrite

\* How a pass of the HCCO begins (ShouldSkipCleanup).
LEMMA PassBegins ==
    ASSUME hcp \in HCPs, HCCOBegin
    PROVE  /\ hcco' \in Passes
           /\ hcco'.view = hcp /\ hcco'.next = 1 /\ hcco'.lost = FALSE
           /\ \/ hcco'.pc = "block"
              \/ hcco'.pc = "write" /\ hcco'.result = "skipped"
<1>1. CASE hcco' = Started
  BY <1>1 DEF Started, Passes, Results
<1>2. CASE hcco' = [Started EXCEPT !.pc = "write", !.result = "skipped"]
  <2>1. hcco' = [pc |-> "write", next |-> 1, view |-> hcp, remaining |-> FALSE, lost |-> FALSE,
                 result |-> "skipped"]
    BY Zenon, <1>2 DEF Started
  <2> QED
    BY <2>1 DEF Passes, Results
<1> QED
  BY Zenon, <1>1, <1>2 DEF HCCOBegin

\* A pass of the HCCO that has blocked creations moves on to the kinds.
LEMMA PassVisits ==
    ASSUME hcco \in Passes, hcco' = [hcco EXCEPT !.pc = "visit"]
    PROVE  /\ hcco' \in Passes
           /\ hcco'.pc = "visit" /\ hcco'.next = hcco.next /\ hcco'.remaining = hcco.remaining
           /\ hcco'.lost = hcco.lost /\ hcco'.view = hcco.view
BY DEF Passes

\* A pass of the HCCO that is about to write its result.
LEMMA PassWrites ==
    ASSUME hcco \in Passes, NEW r \in Results, hcco' = Writes(r)
    PROVE  /\ hcco' \in Passes
           /\ hcco'.pc = "write" /\ hcco'.result = r /\ hcco'.view = hcco.view
BY Zenon DEF Passes, Writes

\* The kind that a visit looks at.
Visited == Order[hcco.next]

\* The order of the visits (destroyCloudResources).
LEMMA VisitOrder ==
    ASSUME hcco \in Passes, hcco.next <= Len(Order)
    PROVE  /\ hcco.next \in 1..4 /\ Visited \in Kinds
           /\ hcco.next = 1 => Visited = "registry"
           /\ hcco.next = 2 => Visited = "loadBalancer"
           /\ hcco.next = 3 => Visited = "volume"
           /\ hcco.next = 4 => Visited = "snapshot"
BY DEF Passes, Order, Visited, Kinds

\* A visit remembers whether the kind was there or could not be looked at.
LEMMA PassGoesOn ==
    ASSUME hcco \in Passes, VisitKind
    PROVE  /\ hcco' \in Passes
           /\ hcco'.pc = "visit" /\ hcco'.next = hcco.next + 1 /\ hcco'.view = hcco.view
           /\ hcco'.remaining = (hcco.remaining \/ kas # "up" \/ guest[Visited] # "gone")
           /\ hcco'.lost = (hcco.lost \/ kas # "up")
<1> DEFINE m == hcco.remaining \/ kas # "up" \/ guest[Visited] # "gone"
           l == hcco.lost \/ kas # "up"
           i == hcco.next + 1
<1>1. hcco' = [hcco EXCEPT !.next = i, !.remaining = m, !.lost = l]
  BY DEF VisitKind, Visited
<1>2. i \in 1..5
  BY VisitOrder DEF VisitKind
<1>3. m \in BOOLEAN /\ l \in BOOLEAN /\ hcco.pc = "visit"
  BY DEF VisitKind
<1> HIDE DEF i, m, l
<1>4. hcco' \in Passes
  BY Zenon, <1>1, <1>2, <1>3 DEF Passes
<1>5. /\ hcco'.pc = "visit" /\ hcco'.next = i /\ hcco'.view = hcco.view
      /\ hcco'.remaining = m /\ hcco'.lost = l
  BY <1>1, <1>2, <1>3 DEF Passes
<1> QED
  BY <1>4, <1>5 DEF i, m, l

\* Nothing is deleted yet when the deletion has not been asked for (Init).
LEMMA InitIInv == Init => IInv
<1> SUFFICES ASSUME Init PROVE IInv
  OBVIOUS
<1>1. CleanupTypes
  <2>1. hcp \in HCPs /\ hcco \in Passes /\ hcco.pc = "idle"
    BY NewTypes DEF Init, Idle
  <2>2. guest \in [Kinds -> Phases]
    BY DEF Init, Phases
  <2>3. failures \in 0..MaxCleanupFailures /\ faults \in 0..MaxFaults
    BY DeletionAssumption DEF Init
  <2> QED
    BY Zenon, <2>1, <2>2, <2>3 DEF Init, CleanupTypes
<1>2. InfraTypes
  BY Zenon DEF Init, InfraTypes, Phases
<1>3. CleanupInv
  BY DEF Init, CleanupInv, Idle, NewHCP
<1>4. ReportInv
  BY DEF Init, ReportInv, NewHCP
<1>5. OrderInv
  BY DEF Init, OrderInv, NoMachines, NewHCP
<1> QED
  BY <1>1, <1>2, <1>3, <1>4, <1>5 DEF IInv

\* The variables of the CPO, the HCCO and the guest cluster.
cleanupVars == <<hcp, hcco, guest, failures, creds, cvo, kas, timeout, sg, eni, blocked, wake,
                 faults>>

\* Every step keeps the types of the variables the CPO and the HCCO work on,
\* and the failures of the HCCO's calls below their limit (CleanupTracker).
LEMMA StepCleanupTypes ==
    ASSUME CleanupTypes, InfraTypes, [Next]_vars
    PROVE  CleanupTypes'
<1> USE DEF CleanupTypes
<1>0. CASE UNCHANGED cleanupVars
  BY <1>0 DEF cleanupVars
<1>1. CASE \/ DeleteHostedCluster \/ DeleteInfra \/ DeleteEndpointServices \/ DeleteNamespace
           \/ Finalize \/ EndpointReleased \/ NamespaceGone
           \/ (\E n \in NodePools : InstanceTerminated(n) \/ NodePoolDelete(n))
           \/ UNCHANGED vars
  BY <1>0, <1>1
     DEF cleanupVars, DeleteHostedCluster, DeleteInfra, DeleteEndpointServices, DeleteNamespace,
         Finalize, EndpointReleased, NamespaceGone, InstanceTerminated, NodePoolDelete, vars,
         cloudVars, hccoVars
<1>2. CASE PropagateCleanup
  BY <1>2, HCPAnnotated DEF PropagateCleanup, cloudVars, hccoVars
<1>3. CASE DeleteHostedControlPlane
  <2>1. hcp' \in HCPs
    BY <1>3, HCPPhase DEF DeleteHostedControlPlane, Phases
  <2> QED
    BY <1>3, <2>1 DEF DeleteHostedControlPlane, cloudVars, hccoVars
<1>4. CASE ClusterDelete
  BY <1>4, HCPAfterMachines DEF ClusterDelete, cloudVars, hccoVars
<1>5. CASE CVOStopped \/ TimeoutPasses
  <2>1. CASE CVOStopped
    BY ZenonT(30), <2>1 DEF CVOStopped, cloudVars, hccoVars
  <2>2. CASE TimeoutPasses
    BY ZenonT(30), <2>2 DEF TimeoutPasses, cloudVars, hccoVars
  <2> QED
    BY <1>5, <2>1, <2>2
<1>6. CASE InterfaceReleased
  BY Zenon, <1>6 DEF InterfaceReleased, hccoVars
<1>7. ASSUME NEW r \in Kinds, GuestGone(r) PROVE CleanupTypes'
  BY <1>7 DEF GuestGone, Phases, hccoVars
<1>8. ASSUME NEW r \in Kinds, GuestCreate(r) PROVE CleanupTypes'
  BY <1>8, DeletionAssumption DEF GuestCreate, Fault, Phases, hccoVars
<1>9. CASE CredentialsChange \/ APIServerChanges
  BY <1>9, DeletionAssumption DEF CredentialsChange, APIServerChanges, Fault, cloudVars, hccoVars
<1>10. CASE HCPDelete
  <2>1. hcp' \in HCPs /\ sg' \in BOOLEAN
    <3>1. CASE hcp' = [hcp EXCEPT !.phase = "gone"] /\ UNCHANGED <<sg, cvo>>
      BY <3>1, HCPPhase DEF Phases
    <3>2. CASE DestroyGroupAndResources
      BY <3>2, HCPReported
    <3> QED
      BY <1>10, <3>1, <3>2 DEF HCPDelete
  <2> QED
    BY <1>10, <2>1 DEF HCPDelete, hccoVars
<1>11. CASE HCPDeleteFails
  BY <1>11, HCPFailed, DeletionAssumption DEF HCPDeleteFails, Fault, cloudVars, hccoVars
<1>12. CASE HCCOBegin
  <2>1. hcco'.pc = "block" => failures < MaxCleanupFailures
    BY Zenon, <1>12 DEF HCCOBegin, Started
  <2>2. hcco' \in Passes /\ hcco'.pc # "visit"
    BY <1>12, PassBegins
  <2>3. /\ UNCHANGED <<hcp, guest, failures, creds, cvo, kas, timeout, sg, eni, blocked, faults>>
        /\ wake' = FALSE
    BY Zenon, <1>12 DEF HCCOBegin, hccoUnchanged
  <2> QED
    BY ZenonT(30), <2>1, <2>2, <2>3
<1>13. CASE ensureResourceCreationIsBlocked
  <2>1. CASE kas = "up"
    BY <1>13, <2>1, PassVisits DEF ensureResourceCreationIsBlocked, hccoUnchanged
  <2>2. CASE kas # "up"
    <3>1. hcco' \in Passes /\ hcco'.pc = "write"
      BY <1>13, <2>2, PassWrites DEF ensureResourceCreationIsBlocked, Results
    <3> QED
      BY <1>13, <2>2, <3>1, DeletionAssumption DEF ensureResourceCreationIsBlocked, hccoUnchanged
  <2> QED
    BY <2>1, <2>2
<1>14. CASE VisitKind
  <2>1. guest' \in [Kinds -> Phases]
    BY <1>14, VisitOrder DEF VisitKind, Visited, Settled, Phases
  <2> QED
    BY <1>14, <2>1, PassGoesOn DEF VisitKind, hccoUnchanged
<1>15. CASE VisitDone
  <2>1. hcco' \in Passes /\ hcco'.pc = "write"
    BY <1>15, PassWrites DEF VisitDone, Results
  <2> QED
    BY <1>15, <2>1, DeletionAssumption DEF VisitDone, hccoUnchanged
<1>16. CASE HCCOWrite
  BY <1>16, NewTypes, HCPDestroyed DEF HCCOWrite, Idle, hccoUnchanged
<1>17. CASE HCCORestart
  BY <1>17, NewTypes, DeletionAssumption DEF HCCORestart, Fault, Idle, cloudVars
<1> QED
  BY Zenon, <1>1, <1>2, <1>3, <1>4, <1>5, <1>6, <1>7, <1>8, <1>9, <1>10, <1>11, <1>12, <1>13, <1>14,
     <1>15, <1>16, <1>17
     DEF Next, HCStep, HCCOStep, External

\* Every step keeps the types of the HostedCluster controller's variables.
LEMMA StepInfraTypes ==
    ASSUME InfraTypes, [Next]_vars
    PROVE  InfraTypes'
<1> USE DEF InfraTypes, Phases
<1>1. CASE UNCHANGED hcVars
  BY <1>1 DEF hcVars
<1>2. CASE DeleteHostedCluster
  BY <1>2 DEF DeleteHostedCluster
<1>3. CASE DeleteInfra
  BY <1>3 DEF DeleteInfra, Settled
<1>4. CASE DeleteEndpointServices \/ DeleteNamespace \/ EndpointReleased \/ NamespaceGone
  BY <1>4 DEF DeleteEndpointServices, DeleteNamespace, EndpointReleased, NamespaceGone
<1>5. CASE Finalize
  BY <1>5 DEF Finalize
<1>6. ASSUME NEW n \in NodePools, NodePoolDelete(n) PROVE InfraTypes'
  BY <1>6 DEF NodePoolDelete, Settled
<1>7. ASSUME NEW n \in NodePools, InstanceTerminated(n) PROVE InfraTypes'
  BY <1>7 DEF InstanceTerminated
<1>8. CASE ClusterDelete
  BY <1>8 DEF ClusterDelete, Settled
<1>9. CASE \/ PropagateCleanup \/ DeleteHostedControlPlane \/ HCPDelete \/ HCCOStep
           \/ CVOStopped \/ InterfaceReleased \/ TimeoutPasses \/ CredentialsChange
           \/ APIServerChanges \/ HCPDeleteFails \/ HCCORestart
           \/ (\E r \in Kinds : GuestGone(r) \/ GuestCreate(r)) \/ UNCHANGED vars
  BY <1>1, <1>9
     DEF PropagateCleanup, DeleteHostedControlPlane, HCPDelete, HCCOStep, HCCOBegin,
         ensureResourceCreationIsBlocked, VisitKind, VisitDone, HCCOWrite, hccoUnchanged,
         CVOStopped, InterfaceReleased, TimeoutPasses, CredentialsChange, APIServerChanges,
         HCPDeleteFails, HCCORestart, GuestGone, GuestCreate, vars
<1> QED
  BY <1>2, <1>3, <1>4, <1>5, <1>6, <1>7, <1>8, <1>9 DEF Next, HCStep, External

----------------------------------------------------------------------------
(* What the HCCO has established *)

\* Kinds that are gone stay gone: GuestCreate cannot bring them back once
\* creations are blocked, and the other steps only remove.
LEMMA GoneStays ==
    ASSUME CleanupTypes, [Next]_vars, NEW i \in 1..5, GoneBefore(i)
    PROVE  GoneBefore(i)'
<1> USE DEF GoneBefore, CleanupTypes
<1>1. CASE UNCHANGED <<guest, blocked>>
  BY <1>1
<1>2. ASSUME NEW r \in Kinds, GuestGone(r) PROVE GoneBefore(i)'
  BY <1>2 DEF GuestGone, Kinds
<1>3. ASSUME NEW r \in Kinds, GuestCreate(r) PROVE GoneBefore(i)'
  BY <1>3 DEF GuestCreate, Kinds
<1>4. CASE ensureResourceCreationIsBlocked
  BY Zenon, <1>4 DEF ensureResourceCreationIsBlocked
<1>5. CASE VisitKind
  <2>1. /\ blocked' = blocked /\ Visited \in Kinds
        /\ guest' = guest \/ guest' = [guest EXCEPT ![Visited] = Settled(guest[Visited])]
    BY <1>5, VisitOrder DEF VisitKind, Visited
  <2>2. \A r \in Kinds : guest[r] = "gone" => guest'[r] = "gone"
    BY <2>1 DEF Settled
  <2> QED
    BY <2>1, <2>2 DEF Kinds
<1>6. CASE \/ DeleteHostedCluster \/ HCStep \/ HCPDelete \/ HCCOBegin \/ VisitDone \/ HCCOWrite
           \/ ClusterDelete \/ EndpointReleased \/ NamespaceGone \/ CVOStopped
           \/ InterfaceReleased \/ TimeoutPasses \/ CredentialsChange \/ APIServerChanges
           \/ HCPDeleteFails \/ HCCORestart
           \/ (\E n \in NodePools : InstanceTerminated(n) \/ NodePoolDelete(n))
           \/ UNCHANGED vars
  BY Zenon, <1>1, <1>6
     DEF DeleteHostedCluster, HCStep, PropagateCleanup, DeleteInfra, DeleteEndpointServices,
         DeleteHostedControlPlane, DeleteNamespace, Finalize, HCPDelete, HCCOBegin, VisitDone,
         HCCOWrite, ClusterDelete, EndpointReleased, NamespaceGone, CVOStopped,
         InterfaceReleased, TimeoutPasses, CredentialsChange, APIServerChanges, HCPDeleteFails,
         HCCORestart, InstanceTerminated, NodePoolDelete, cloudVars, vars
<1> QED
  BY <1>2, <1>3, <1>4, <1>5, <1>6 DEF Next, HCCOStep, External

\* Only the HCCO writes the CloudResourcesDestroyed condition.
LEMMA OnlyHCCOWrites ==
    ASSUME CleanupTypes, [Next]_vars
    PROVE  \/ hcp'.destroyed = hcp.destroyed
           \/ HCCOWrite /\ hcp'.destroyed = hcco.result
<1> USE DEF CleanupTypes
<1>1. CASE UNCHANGED hcp
  BY <1>1
<1>2. CASE PropagateCleanup
  BY <1>2, HCPAnnotated
<1>3. CASE DeleteHostedControlPlane
  BY <1>3, HCPPhase DEF DeleteHostedControlPlane, Phases
<1>4. CASE ClusterDelete
  BY <1>4, HCPAfterMachines
<1>5. CASE HCPDelete
  <2>1. CASE hcp' = [hcp EXCEPT !.phase = "gone"]
    BY <2>1, HCPPhase DEF Phases
  <2>2. CASE DestroyGroupAndResources
    BY <2>2, HCPReported
  <2> QED
    BY <1>5, <2>1, <2>2 DEF HCPDelete
<1>6. CASE HCPDeleteFails
  BY <1>6, HCPFailed
<1>7. CASE HCCOWrite
  BY <1>7, HCPDestroyed
<1>8. CASE \/ DeleteHostedCluster \/ DeleteInfra \/ DeleteEndpointServices \/ DeleteNamespace
           \/ Finalize \/ HCCOBegin \/ ensureResourceCreationIsBlocked \/ VisitKind \/ VisitDone
           \/ EndpointReleased \/ NamespaceGone \/ CVOStopped \/ InterfaceReleased
           \/ TimeoutPasses \/ CredentialsChange \/ APIServerChanges \/ HCCORestart
           \/ (\E n \in NodePools : InstanceTerminated(n) \/ NodePoolDelete(n))
           \/ (\E r \in Kinds : GuestGone(r) \/ GuestCreate(r))
           \/ UNCHANGED vars
  BY <1>1, <1>8
     DEF DeleteHostedCluster, DeleteInfra, DeleteEndpointServices, DeleteNamespace, Finalize,
         HCCOBegin, ensureResourceCreationIsBlocked, VisitKind, VisitDone, EndpointReleased,
         NamespaceGone, CVOStopped, InterfaceReleased, TimeoutPasses, CredentialsChange,
         APIServerChanges, HCCORestart, InstanceTerminated, NodePoolDelete, GuestGone,
         GuestCreate, vars
<1> QED
  BY <1>2, <1>3, <1>4, <1>5, <1>6, <1>7, <1>8 DEF Next, HCStep, HCCOStep, External

\* Every step keeps what the HCCO has established, and what it told the CPO.
LEMMA StepCleanupInv ==
    ASSUME CleanupTypes, CleanupInv, [Next]_vars
    PROVE  CleanupInv'
<1>0. hcco \in Passes /\ hcco.next \in 1..5 /\ hcco.remaining \in BOOLEAN /\ hcp \in HCPs
      /\ hcco.lost \in BOOLEAN
  BY DEF CleanupTypes, Passes
<1>1. blocked => blocked'
  BY GoneStays DEF GoneBefore
<1>2. hcp'.destroyed = "true" => GoneBefore(5)'
  <2>1. CASE hcp'.destroyed = hcp.destroyed
    BY <2>1, GoneStays DEF CleanupInv
  <2>2. CASE HCCOWrite /\ hcp'.destroyed = hcco.result
    BY <2>2, GoneStays DEF CleanupInv, HCCOWrite
  <2> QED
    BY <2>1, <2>2, OnlyHCCOWrites
<1>3. CASE UNCHANGED hcco
  <2>1. PICK i \in 1..5 : i = hcco.next
    BY <1>0
  <2>2. (GoneBefore(i) => GoneBefore(i)') /\ (GoneBefore(5) => GoneBefore(5)')
    BY GoneStays
  <2>3. hcco.pc = "visit" => blocked' /\ (~ hcco.remaining => GoneBefore(i)')
    BY <1>1, <2>1, <2>2 DEF CleanupInv
  <2>4. hcco'.pc = "visit" => blocked' /\ (~ hcco'.remaining => GoneBefore(hcco.next)')
    BY <1>3, <2>1, <2>3 DEF GoneBefore
  <2> QED
    BY <1>2, <1>3, <2>2, <2>4 DEF CleanupInv
<1>4. CASE HCCOBegin
  BY Zenon, <1>0, <1>2, <1>4, PassBegins DEF CleanupInv, HCCOBegin
<1>5. CASE ensureResourceCreationIsBlocked
  <2>1. CASE kas = "up"
    <3>1. /\ hcco'.pc = "visit" /\ hcco'.view = hcco.view /\ hcco'.next = hcco.next
          /\ hcco'.remaining = hcco.remaining /\ hcco'.lost = hcco.lost
      BY <1>0, <1>5, <2>1, PassVisits DEF ensureResourceCreationIsBlocked
    <3>2. blocked' /\ hcco.pc = "block" /\ guest' = guest
      BY <1>5, <2>1 DEF ensureResourceCreationIsBlocked
    <3> QED
      BY <1>2, <3>1, <3>2 DEF CleanupInv, GoneBefore
  <2>2. CASE kas # "up"
    BY <1>0, <1>2, <1>5, <2>2, PassWrites
       DEF CleanupInv, ensureResourceCreationIsBlocked, Results
  <2> QED
    BY <2>1, <2>2
<1>6. CASE VisitKind
  <2>1. /\ hcco'.pc = "visit" /\ hcco'.next = hcco.next + 1 /\ hcco'.view = hcco.view
        /\ hcco'.remaining = (hcco.remaining \/ kas # "up" \/ guest[Visited] # "gone")
        /\ hcco'.lost = (hcco.lost \/ kas # "up")
    BY <1>0, <1>6, PassGoesOn
  <2>2. blocked'
    BY <1>1, <1>6 DEF CleanupInv, VisitKind
  <2>3. ASSUME ~ hcco'.remaining PROVE GoneBefore(hcco.next)'
    <3>1. PICK i \in 1..5 : i = hcco.next
      BY <1>0
    <3>2. ~ hcco.remaining /\ kas = "up" /\ guest[Visited] = "gone"
      BY Zenon, <1>0, <2>1, <2>3
    <3>3. GoneBefore(i)'
      BY <1>6, <3>1, <3>2, GoneStays DEF CleanupInv, VisitKind
    <3>4. guest'[Visited] = "gone"
      BY <1>0, <1>6, <3>2, VisitOrder DEF VisitKind, Visited, Settled, CleanupTypes
    <3>5. /\ i \in 1..4
          /\ i = 1 => Visited = "registry"
          /\ i = 2 => Visited = "loadBalancer"
          /\ i = 3 => Visited = "volume"
          /\ i = 4 => Visited = "snapshot"
      BY <1>0, <1>6, <3>1, VisitOrder DEF VisitKind
    <3>6. GoneBefore(i + 1)'
      BY <3>3, <3>4, <3>5 DEF GoneBefore
    <3> QED
      BY <2>1, <3>1, <3>6 DEF GoneBefore
  <2>4. hcco'.lost => hcco'.remaining
    BY <1>0, <1>6, <2>1 DEF CleanupInv, VisitKind
  <2> QED
    BY <1>2, <1>6, <2>1, <2>2, <2>3, <2>4 DEF CleanupInv, VisitKind
<1>7. CASE VisitDone
  <2>1. hcco.next = 5
    BY <1>0, <1>7 DEF VisitDone, Order
  <2>2. PICK r \in Results : hcco' = Writes(r) /\ (r = "true" => ~ hcco.remaining)
    BY <1>0, <1>7 DEF VisitDone, Results
  <2>3. hcco'.pc = "write" /\ hcco'.result = r /\ hcco'.view = hcco.view
    BY <1>0, <2>2, PassWrites
  <2>4. r = "true" => GoneBefore(5)
    BY <1>7, <2>1, <2>2 DEF VisitDone, CleanupInv
  <2>5. GoneBefore(5) => GoneBefore(5)'
    BY GoneStays
  <2> QED
    BY <1>2, <1>7, <2>3, <2>4, <2>5 DEF VisitDone, CleanupInv
<1>8. CASE HCCOWrite \/ HCCORestart
  BY <1>2, <1>8 DEF CleanupInv, HCCOWrite, HCCORestart, Idle
<1>9. CASE \/ DeleteHostedCluster \/ HCStep \/ HCPDelete \/ External \/ TimeoutPasses
           \/ CredentialsChange \/ APIServerChanges \/ HCPDeleteFails
           \/ (\E n \in NodePools : NodePoolDelete(n))
           \/ (\E r \in Kinds : GuestCreate(r))
           \/ UNCHANGED vars
  BY <1>3, <1>9
     DEF DeleteHostedCluster, HCStep, PropagateCleanup, DeleteInfra, DeleteEndpointServices,
         DeleteHostedControlPlane, DeleteNamespace, Finalize, HCPDelete, External,
         ClusterDelete, EndpointReleased, NamespaceGone, CVOStopped, InterfaceReleased,
         InstanceTerminated, GuestGone, TimeoutPasses, CredentialsChange, APIServerChanges,
         HCPDeleteFails, NodePoolDelete, GuestCreate, hccoVars, vars
<1> QED
  BY <1>4, <1>5, <1>6, <1>7, <1>8, <1>9 DEF Next, HCCOStep

----------------------------------------------------------------------------
(* What the control plane reports *)

\* The variables that ReportInv speaks of.
reportVars == <<hc, cluster, hcp, creds, timeout, sg>>

\* Every step keeps the annotation ahead of the deletion, and the reports honest.
LEMMA StepReportInv ==
    ASSUME IInv, [Next]_vars
    PROVE  ReportInv'
<1>0. /\ hcp \in HCPs /\ hcco \in Passes /\ sg \in BOOLEAN /\ timeout \in BOOLEAN
      /\ hc \in [phase : Phases, cleanup : BOOLEAN, destroyed : {"none", "waiting"}]
      /\ cluster \in Phases
  BY DEF IInv, CleanupTypes, InfraTypes
<1>r. ReportInv
  BY DEF IInv
<1>1. CASE UNCHANGED reportVars
  BY <1>1, <1>r DEF reportVars, ReportInv
<1>2. CASE DeleteHostedCluster \/ Finalize
  <2>1. UNCHANGED <<cluster, hcp, creds, timeout, sg>> /\ hc'.cleanup = hc.cleanup
    BY <1>0, <1>2 DEF DeleteHostedCluster, Finalize, cloudVars
  <2> QED
    BY <1>r, <2>1 DEF ReportInv
<1>3. CASE PropagateCleanup
  BY <1>0, <1>3, <1>r, HCPAnnotated DEF PropagateCleanup, ReportInv, hcVars, cloudVars
<1>4. CASE DeleteInfra
  <2>1. UNCHANGED <<hc, hcp, creds, timeout, sg>>
    BY <1>4 DEF DeleteInfra, cloudVars
  <2>2. hc.cleanup => hcp.cleanup
    BY <1>4, <1>r DEF DeleteInfra, Annotated, ReportInv
  <2> QED
    BY <1>r, <2>1, <2>2 DEF ReportInv
<1>5. CASE DeleteHostedControlPlane
  <2>1. hc.cleanup => hcp.cleanup
    BY <1>5 DEF DeleteHostedControlPlane, InfraGone, Annotated
  <2>2. /\ UNCHANGED <<hc, cluster, creds, timeout, sg>>
        /\ hcp'.phase = "deleting" /\ hcp'.cleanup = hcp.cleanup /\ hcp'.sg = hcp.sg
    BY <1>0, <1>5, HCPPhase DEF DeleteHostedControlPlane, Phases, hcVars, cloudVars
  <2> QED
    BY <1>r, <2>1, <2>2 DEF ReportInv
<1>6. CASE ClusterDelete
  <2>1. /\ UNCHANGED <<hc, creds, timeout, sg>> /\ cluster = "deleting"
        /\ cluster' = cluster \/ cluster' = "gone"
    BY <1>6 DEF ClusterDelete, cloudVars
  <2>2. /\ hcp'.phase = hcp.phase \/ (hcp.phase = "present" /\ hcp'.phase = "deleting")
        /\ hcp'.cleanup = hcp.cleanup /\ hcp'.destroyed = hcp.destroyed /\ hcp'.sg = hcp.sg
    BY <1>0, <1>6, HCPAfterMachines
  <2> QED
    BY <1>r, <2>1, <2>2 DEF ReportInv
<1>7. CASE TimeoutPasses
  <2>1. hcp.phase = "deleting" /\ UNCHANGED <<hc, cluster, hcp, creds, sg>> /\ timeout'
    BY <1>7 DEF TimeoutPasses, hcVars, cloudVars
  <2> QED
    BY <1>r, <2>1 DEF ReportInv
<1>8. CASE CredentialsChange
  <2>1. UNCHANGED <<hc, cluster, hcp, timeout, sg>> /\ (creds = "invalid" => creds' = "invalid")
    BY <1>8 DEF CredentialsChange, hcVars, cloudVars
  <2> QED
    BY <1>r, <2>1 DEF ReportInv
<1>9. CASE HCPDelete
  <2>0. UNCHANGED <<hc, cluster, creds, timeout>> /\ hcp.phase = "deleting"
    BY <1>9 DEF HCPDelete, hcVars
  <2>1. CASE ~ shouldCleanupCloudResources /\ hcp' = [hcp EXCEPT !.phase = "gone"] /\ sg' = sg
    <3>1. /\ hcp'.phase = "gone" /\ hcp'.cleanup = hcp.cleanup /\ hcp'.sg = hcp.sg
      BY <1>0, <2>1, HCPPhase DEF Phases
    <3>2. hc.cleanup => creds = "invalid"
      BY <1>r, <2>0, <2>1 DEF ReportInv, shouldCleanupCloudResources
    <3> QED
      BY <1>r, <2>0, <2>1, <3>1, <3>2 DEF ReportInv
  <2>2. CASE DestroyGroupAndResources
    <3>1. /\ hcp'.sg = IF sg' THEN "failed" ELSE "deleted"
          /\ hcp'.phase = IF removeCloudResourcesDone THEN "gone" ELSE hcp.phase
          /\ hcp'.cleanup = hcp.cleanup /\ hcp'.destroyed = hcp.destroyed
      BY <1>0, <2>2, HCPReported
    <3>2. removeCloudResourcesDone => hcp.destroyed \in {"true", "skipped"} \/ timeout
      BY DEF removeCloudResourcesDone, Destroyed
    <3> QED
      BY <1>r, <2>0, <3>1, <3>2 DEF ReportInv
  <2> QED
    BY <1>9, <2>1, <2>2 DEF HCPDelete
<1>10. CASE HCPDeleteFails
  <2>1. UNCHANGED <<hc, cluster, creds, timeout, sg>> /\ sg
    BY <1>10 DEF HCPDeleteFails, hcVars, cloudVars
  <2> QED
    BY <1>0, <1>10, <1>r, <2>1, HCPFailed DEF ReportInv
<1>11. CASE HCCOWrite
  <2>1. UNCHANGED <<hc, cluster, creds, timeout, sg>> /\ hcco.pc = "write"
    BY <1>11 DEF HCCOWrite, hccoUnchanged, hcVars
  <2>2. /\ hcp'.phase = hcp.phase /\ hcp'.cleanup = hcp.cleanup /\ hcp'.sg = hcp.sg
        /\ hcp' = hcp \/ hcp = hcco.view
    BY <1>0, <1>11, HCPDestroyed
  <2>3. hcco.view.phase = "deleting"
    BY <2>1 DEF IInv, CleanupInv
  <2> QED
    BY <1>r, <2>1, <2>2, <2>3 DEF ReportInv
<1>12. CASE \/ DeleteEndpointServices \/ DeleteNamespace \/ HCCOBegin
            \/ ensureResourceCreationIsBlocked \/ VisitKind \/ VisitDone \/ EndpointReleased
            \/ NamespaceGone \/ CVOStopped \/ InterfaceReleased \/ APIServerChanges
            \/ HCCORestart
            \/ (\E n \in NodePools : InstanceTerminated(n) \/ NodePoolDelete(n))
            \/ (\E r \in Kinds : GuestGone(r) \/ GuestCreate(r))
            \/ UNCHANGED vars
  BY <1>1, <1>12
     DEF reportVars, DeleteEndpointServices, DeleteNamespace, HCCOBegin,
         ensureResourceCreationIsBlocked, VisitKind, VisitDone, hccoUnchanged,
         EndpointReleased, NamespaceGone, CVOStopped, InterfaceReleased, APIServerChanges,
         HCCORestart, InstanceTerminated, NodePoolDelete, GuestGone, GuestCreate, vars, hcVars,
         cloudVars
<1> QED
  BY <1>2, <1>3, <1>4, <1>5, <1>6, <1>7, <1>8, <1>9, <1>10, <1>11, <1>12
     DEF Next, HCStep, HCCOStep, External

----------------------------------------------------------------------------
(* The order of the deletion *)

\* Machines that are gone stay gone, for Cluster API creates none for a NodePool
\* or a Cluster that is deleted.
LEMMA MachinesStayGone ==
    ASSUME InfraTypes, [Next]_vars
    PROVE  \A n \in NodePools : machine[n] = "gone" => machine'[n] = "gone"
<1> USE DEF InfraTypes
<1>1. CASE UNCHANGED machine
  BY <1>1
<1>2. CASE DeleteInfra
  BY <1>2 DEF DeleteInfra
<1>3. CASE ClusterDelete
  BY <1>3 DEF ClusterDelete, Settled
<1>4. ASSUME NEW m \in NodePools, NodePoolDelete(m) \/ InstanceTerminated(m)
      PROVE  \A n \in NodePools : machine[n] = "gone" => machine'[n] = "gone"
  BY <1>4 DEF NodePoolDelete, InstanceTerminated, Settled
<1>5. CASE \/ DeleteHostedCluster \/ PropagateCleanup \/ DeleteEndpointServices
           \/ DeleteHostedControlPlane \/ DeleteNamespace \/ Finalize \/ HCPDelete \/ HCCOStep
           \/ EndpointReleased \/ NamespaceGone \/ CVOStopped \/ InterfaceReleased
           \/ TimeoutPasses \/ CredentialsChange \/ APIServerChanges \/ HCPDeleteFails
           \/ HCCORestart
           \/ (\E r \in Kinds : GuestGone(r) \/ GuestCreate(r))
           \/ UNCHANGED vars
  BY Zenon, <1>1, <1>5
     DEF DeleteHostedCluster, PropagateCleanup, DeleteEndpointServices,
         DeleteHostedControlPlane, DeleteNamespace, Finalize, HCPDelete, HCCOStep, HCCOBegin,
         ensureResourceCreationIsBlocked, VisitKind, VisitDone, HCCOWrite, hccoUnchanged,
         EndpointReleased, NamespaceGone, CVOStopped, InterfaceReleased, TimeoutPasses,
         CredentialsChange, APIServerChanges, HCPDeleteFails, HCCORestart, GuestGone,
         GuestCreate, hcVars, vars
<1> QED
  BY <1>2, <1>3, <1>4, <1>5 DEF Next, HCStep, External

\* The variables of the order, apart from the conditions of the HCP.
orderVars == <<hc, nodePool, machine, cluster, endpoint, namespace>>

\* Every step keeps the machines first in the order of the deletion.
LEMMA StepOrderInv ==
    ASSUME IInv, [Next]_vars
    PROVE  OrderInv'
<1>0. InfraTypes /\ hcp \in HCPs /\ hcco \in Passes /\ sg \in BOOLEAN /\ OrderInv
  BY DEF IInv, CleanupTypes
<1>m. NoMachines => NoMachines'
  BY <1>0, MachinesStayGone DEF NoMachines
<1>1. ASSUME UNCHANGED orderVars, hcp'.phase = hcp.phase PROVE OrderInv'
  BY <1>0, <1>1 DEF orderVars, OrderInv, NoMachines
<1>2. CASE DeleteHostedCluster \/ Finalize
  <2>1. /\ UNCHANGED <<nodePool, machine, cluster, endpoint, namespace, hcp>>
        /\ hc'.phase = "present" => hc.phase = "present"
    BY <1>0, <1>2 DEF DeleteHostedCluster, Finalize, InfraGone, InfraTypes
  <2> QED
    BY <1>0, <2>1 DEF OrderInv, NoMachines
<1>3. CASE PropagateCleanup
  BY <1>0, <1>1, <1>3, HCPAnnotated DEF PropagateCleanup, orderVars, hcVars
<1>4. CASE DeleteInfra
  <2>1. UNCHANGED <<hc, endpoint, namespace, hcp>> /\ hc.phase = "deleting"
    BY <1>4 DEF DeleteInfra
  <2>2. /\ \A n \in NodePools : nodePool'[n] = "gone" => nodePool[n] = "gone"
        /\ \A n \in NodePools : machine[n] = "gone" => machine'[n] = "gone"
        /\ cluster' = "gone" => cluster = "gone"
    BY <1>0, <1>4 DEF DeleteInfra, Settled, InfraTypes
  <2> QED
    BY <1>0, <1>m, <2>1, <2>2 DEF OrderInv
<1>5. CASE DeleteEndpointServices \/ DeleteHostedControlPlane
  <2>1. cluster = "gone" /\ hc.phase = "deleting" /\ UNCHANGED <<hc, nodePool, machine, cluster>>
    BY <1>5 DEF DeleteEndpointServices, DeleteHostedControlPlane, InfraGone, hcVars
  <2> QED
    BY <1>0, <1>m, <2>1 DEF OrderInv
<1>6. CASE DeleteNamespace \/ NamespaceGone
  <2>1. UNCHANGED <<hc, nodePool, machine, cluster, endpoint, hcp>>
    BY <1>6 DEF DeleteNamespace, NamespaceGone
  <2>2. hc.phase # "present"
    BY <1>0, <1>6 DEF DeleteNamespace, NamespaceGone, InfraGone, OrderInv
  <2> QED
    BY <1>0, <2>1, <2>2 DEF OrderInv, NoMachines
<1>7. CASE EndpointReleased
  <2>1. UNCHANGED <<hc, nodePool, machine, cluster, namespace, hcp>> /\ endpoint = "deleting"
    BY <1>7 DEF EndpointReleased
  <2> QED
    BY <1>0, <1>m, <2>1 DEF OrderInv
<1>8. ASSUME NEW n \in NodePools, NodePoolDelete(n) PROVE OrderInv'
  <2>1. UNCHANGED <<hc, cluster, endpoint, namespace, hcp>> /\ nodePool[n] = "deleting"
    BY <1>8 DEF NodePoolDelete
  <2>2. \A m \in NodePools : nodePool'[m] = "gone" => machine'[m] = "gone"
    BY <1>0, <1>8 DEF NodePoolDelete, Settled, InfraTypes, OrderInv
  <2> QED
    BY <1>0, <1>m, <2>1, <2>2 DEF OrderInv
<1>9. ASSUME NEW n \in NodePools, InstanceTerminated(n) PROVE OrderInv'
  <2>1. UNCHANGED <<hc, nodePool, cluster, endpoint, namespace, hcp>> /\ machine[n] = "deleting"
    BY <1>9 DEF InstanceTerminated
  <2>2. \A m \in NodePools : machine[m] = "gone" => machine'[m] = "gone"
    BY <1>0, MachinesStayGone
  <2> QED
    BY <1>0, <1>m, <2>1, <2>2 DEF OrderInv
<1>10. CASE ClusterDelete
  <2>1. UNCHANGED <<hc, nodePool, endpoint, namespace>> /\ cluster = "deleting"
    BY <1>10 DEF ClusterDelete
  <2>2. hcp'.phase = hcp.phase \/ NoMachines
    BY <1>0, <1>10, HCPAfterMachines
  <2>3. cluster' = "gone" => NoMachines
    BY <1>10, <2>1 DEF ClusterDelete, NoMachines
  <2>4. \A m \in NodePools : machine[m] = "gone" => machine'[m] = "gone"
    BY <1>0, MachinesStayGone
  <2> QED
    BY <1>0, <1>m, <2>1, <2>2, <2>3, <2>4 DEF OrderInv
<1>11. CASE HCPDelete
  <2>1. UNCHANGED orderVars /\ hcp.phase = "deleting"
    BY <1>11 DEF HCPDelete, orderVars, hcVars
  <2> QED
    BY <1>0, <1>m, <2>1 DEF OrderInv, orderVars
<1>12. CASE HCPDeleteFails
  BY <1>0, <1>1, <1>12, HCPFailed DEF HCPDeleteFails, orderVars, hcVars
<1>13. CASE HCCOWrite
  BY <1>0, <1>1, <1>13, HCPDestroyed DEF HCCOWrite, hccoUnchanged, orderVars, hcVars
<1>14. CASE \/ HCCOBegin \/ ensureResourceCreationIsBlocked \/ VisitKind \/ VisitDone
            \/ CVOStopped \/ InterfaceReleased \/ TimeoutPasses \/ CredentialsChange
            \/ APIServerChanges \/ HCCORestart
            \/ (\E r \in Kinds : GuestGone(r) \/ GuestCreate(r))
            \/ UNCHANGED vars
  BY <1>1, <1>14
     DEF orderVars, HCCOBegin, ensureResourceCreationIsBlocked, VisitKind, VisitDone,
         hccoUnchanged, CVOStopped, InterfaceReleased, TimeoutPasses, CredentialsChange,
         APIServerChanges, HCCORestart, GuestGone, GuestCreate, hcVars, vars
<1> QED
  BY <1>2, <1>3, <1>4, <1>5, <1>6, <1>7, <1>8, <1>9, <1>10, <1>11, <1>12, <1>13, <1>14
     DEF Next, HCStep, HCCOStep, External

----------------------------------------------------------------------------
(* The invariants *)

\* Every step keeps the inductive invariant.
LEMMA StepIInv == IInv /\ [Next]_vars => IInv'
<1> SUFFICES ASSUME IInv, [Next]_vars PROVE IInv'
  OBVIOUS
<1>1. CleanupTypes' /\ InfraTypes' /\ CleanupInv'
  BY StepCleanupTypes, StepInfraTypes, StepCleanupInv DEF IInv
<1> QED
  BY <1>1, StepReportInv, StepOrderInv DEF IInv

\* The inductive invariant holds of the deletion of any hosted cluster.
LEMMA DeletionInvariant == Spec => []IInv
BY InitIInv, StepIInv, PTL DEF Spec

\* The CloudResourcesDestroyed condition is never true while a guest resource is
\* left or could come back, although the HCCO looks at one kind at a time.
THEOREM DestroyedHonest == Spec => []DestroyedIsTrue
<1>1. IInv => DestroyedIsTrue
  BY DEF IInv, CleanupInv, GoneBefore, DestroyedIsTrue, Kinds
<1> QED
  BY <1>1, DeletionInvariant, PTL

\* A control plane that is released before its guest resources are gone, though
\* cleanup was asked for, had invalid credentials, a skipped cleanup or a timeout.
THEOREM CleanupHasReason == Spec => []CleanupExplained
<1>1. IInv => CleanupExplained
  BY DEF IInv, CleanupInv, ReportInv, GoneBefore, CleanupExplained, Kinds
<1> QED
  BY <1>1, DeletionInvariant, PTL

\* The AWSDefaultSecurityGroupDeleted condition is honest, and a group that a
\* cleanup leaves behind was reported.
THEOREM GroupReported == Spec => []SecurityGroupReported
<1>1. IInv => SecurityGroupReported
  BY DEF IInv, ReportInv, SecurityGroupReported
<1> QED
  BY <1>1, DeletionInvariant, PTL

\* An instance outlives its Machine only with credentials that are not valid
\* (DeleteOrphanedMachines).
THEOREM NoOrphans == Spec => InstancesTerminated
<1> DEFINE A == \A n \in NodePools :
                  machine[n] = "deleting" /\ machine'[n] = "gone" /\ instance'[n] => creds # "valid"
<1>1. IInv /\ [Next]_vars => [A]_vars
  <2> SUFFICES ASSUME InfraTypes, Next PROVE A
    BY DEF IInv
  <2> USE DEF InfraTypes
  <2>1. CASE UNCHANGED machine
    BY <2>1
  <2>2. CASE DeleteInfra
    BY Zenon, <2>2 DEF DeleteInfra, Stripped
  <2>3. CASE ClusterDelete
    BY <2>3 DEF ClusterDelete, Settled
  <2>4. ASSUME NEW m \in NodePools, NodePoolDelete(m) \/ InstanceTerminated(m) PROVE A
    BY <2>4 DEF NodePoolDelete, InstanceTerminated, Settled
  <2>5. CASE \/ DeleteHostedCluster \/ PropagateCleanup \/ DeleteEndpointServices
             \/ DeleteHostedControlPlane \/ DeleteNamespace \/ Finalize \/ HCPDelete
             \/ HCCOStep \/ EndpointReleased \/ NamespaceGone \/ CVOStopped
             \/ InterfaceReleased \/ TimeoutPasses \/ CredentialsChange \/ APIServerChanges
             \/ HCPDeleteFails \/ HCCORestart
             \/ (\E r \in Kinds : GuestGone(r) \/ GuestCreate(r))
    <3>1. UNCHANGED machine
      BY Zenon, <2>5
         DEF DeleteHostedCluster, PropagateCleanup, DeleteEndpointServices,
             DeleteHostedControlPlane, DeleteNamespace, Finalize, HCPDelete, HCCOStep, HCCOBegin,
             ensureResourceCreationIsBlocked, VisitKind, VisitDone, HCCOWrite, hccoUnchanged,
             EndpointReleased, NamespaceGone, CVOStopped, InterfaceReleased, TimeoutPasses,
             CredentialsChange, APIServerChanges, HCPDeleteFails, HCCORestart, GuestGone,
             GuestCreate, hcVars
    <3> QED
      BY <2>1, <3>1
  <2> QED
    BY <2>2, <2>3, <2>4, <2>5 DEF Next, HCStep, External
<1> QED
  BY <1>1, DeletionInvariant, PTL DEF Spec, InstancesTerminated

\* Every variable of the deletion keeps its type, and the failure tracker never
\* counts past the number at which the cleanup is skipped (CleanupTracker).
THEOREM DeletionTypes == Spec => []TypeOK
<1>1. IInv => TypeOK
  <2> SUFFICES ASSUME IInv PROVE TypeOK
    OBVIOUS
  <2>1. /\ hcp.phase \in Phases /\ hcp.cleanup \in BOOLEAN /\ hcp.destroyed \in Results
        /\ hcp.cvoScaledDown \in BOOLEAN /\ hcp.sg \in {"none", "failed", "deleted"}
    BY HCPFields DEF IInv, CleanupTypes
  <2>2. /\ hcco.pc \in {"idle", "block", "visit", "write"} /\ hcco.next \in 1..(Len(Order) + 1)
        /\ hcco.remaining \in BOOLEAN /\ hcco.lost \in BOOLEAN
    BY DEF IInv, CleanupTypes, Passes, Order
  <2> QED
    BY <2>1, <2>2 DEF IInv, CleanupTypes, InfraTypes, TypeOK, Results
<1> QED
  BY <1>1, DeletionInvariant, PTL

----------------------------------------------------------------------------
(* The deletion is a teardown *)

NoNodePools == \A n \in NodePools : nodePool[n] = "gone"

\* Which parts are gone.
LEMMA GoneParts ==
    /\ "machines" \in Gone <=> NoMachines
    /\ "nodePools" \in Gone <=> NoNodePools
    /\ "controlPlane" \in Gone <=> hcp.phase = "gone"
    /\ "endpoints" \in Gone <=> endpoint = "gone"
    /\ "namespace" \in Gone <=> namespace = "gone"
    /\ "hostedCluster" \in Gone <=> hc.phase = "gone"
    /\ Gone \subseteq AllParts
BY DEF Gone, AllParts, NoMachines, NoNodePools

\* Which parts are gone after a step.
LEMMA GonePartsNext ==
    /\ "machines" \in Gone' <=> NoMachines'
    /\ "nodePools" \in Gone' <=> NoNodePools'
    /\ "controlPlane" \in Gone' <=> hcp'.phase = "gone"
    /\ "endpoints" \in Gone' <=> endpoint' = "gone"
    /\ "namespace" \in Gone' <=> namespace' = "gone"
    /\ "hostedCluster" \in Gone' <=> hc'.phase = "gone"
    /\ Gone' \subseteq AllParts
BY DEF Gone, AllParts, NoMachines, NoNodePools

\* A step after which the same parts are gone.
LEMMA NoneRemoved ==
    ASSUME NoMachines' <=> NoMachines, NoNodePools' <=> NoNodePools,
           hcp'.phase = "gone" <=> hcp.phase = "gone", endpoint' = endpoint,
           namespace' = namespace, hc' = hc
    PROVE  Gone' = Gone
<1>1. \A p \in AllParts : p \in Gone' <=> p \in Gone
  BY GoneParts, GonePartsNext DEF AllParts
<1>2. Gone \subseteq AllParts /\ Gone' \subseteq AllParts
  BY GoneParts, GonePartsNext
<1>3. \A p : p \in Gone' <=> p \in Gone
  BY <1>1, <1>2
<1> QED
  BY Zenon, <1>3

\* A step that takes one part away, after the parts that need it, is a step of
\* the teardown.
LEMMA Removes ==
    ASSUME NEW p \in AllParts, Requested, Requested', p \notin Gone, Outlives[p] \subseteq Gone,
           Gone' = Gone \cup {p}
    PROVE  T!Next
<1>1. T!Remove(p)
  BY DEF T!Remove, Requested
<1> QED
  BY <1>1 DEF T!Next

\* What each part must outlive.
LEMMA OutlivesOf ==
    /\ Outlives["machines"] = {}
    /\ Outlives["nodePools"] = {"machines"} /\ Outlives["controlPlane"] = {"machines"}
    /\ Outlives["endpoints"] = {"machines"}
    /\ Outlives["namespace"] = {"controlPlane", "endpoints"}
    /\ Outlives["hostedCluster"] = {"namespace"}
BY DEF Outlives, AllParts

\* A hosted cluster that is not deleted is whole, or has no machines to begin with.
LEMMA TeardownInit == Init => T!Init
<1> SUFFICES ASSUME Init PROVE T!Init
  OBVIOUS
<1>1. IInv
  BY InitIInv
<1>2. Requested = FALSE /\ hc.phase = "present" /\ hcp.phase = "present" /\ namespace = "present"
  BY DEF Init, Requested, NewHCP
<1>3. endpoint = "gone" \/ NoNodePools => NoMachines
  BY <1>1 DEF IInv, OrderInv, NoMachines, NoNodePools
<1>4. Gone \subseteq AllParts
  BY DEF Gone
<1>5. \A p \in Gone : Outlives[p] \subseteq Gone
  <2> SUFFICES ASSUME NEW p \in Gone PROVE Outlives[p] \subseteq Gone
    OBVIOUS
  <2>1. "controlPlane" \notin Gone /\ "namespace" \notin Gone /\ "hostedCluster" \notin Gone
    BY <1>2, GoneParts
  <2>2. p = "machines" \/ p = "nodePools" \/ p = "endpoints"
    BY <1>4, <2>1 DEF AllParts
  <2>3. p # "machines" => "machines" \in Gone
    BY <1>3, <2>2, GoneParts
  <2>4. Outlives[p] \subseteq {"machines"} /\ (p = "machines" => Outlives[p] = {})
    BY <2>2, OutlivesOf
  <2> QED
    BY <2>3, <2>4
<1> QED
  BY <1>2, <1>4, <1>5 DEF T!Init

\* Every step of the deletion is a step of the teardown, or takes no part away.
LEMMA TeardownStep == IInv /\ [Next]_vars => [T!Next]_(T!vars)
<1> SUFFICES ASSUME IInv, [Next]_vars PROVE T!Next \/ UNCHANGED <<Requested, Gone>>
  BY DEF T!vars
<1>0. InfraTypes /\ OrderInv /\ hcp \in HCPs /\ hcco \in Passes /\ sg \in BOOLEAN
  BY DEF IInv, CleanupTypes
<1>g. ASSUME UNCHANGED orderVars, hcp'.phase = hcp.phase
      PROVE  UNCHANGED <<Requested, Gone>>
  BY <1>g DEF orderVars, Requested, Gone
<1>1. CASE DeleteHostedCluster
  <2>1. UNCHANGED Gone
    BY <1>0, <1>1 DEF DeleteHostedCluster, Gone, InfraTypes
  <2>2. Requested = FALSE /\ Requested' = TRUE
    BY <1>0, <1>1 DEF DeleteHostedCluster, Requested, InfraTypes
  <2> QED
    BY Zenon, <2>1, <2>2 DEF T!Next, T!Request
<1>2. CASE Finalize
  <2>1. /\ UNCHANGED <<nodePool, machine, endpoint, namespace, hcp>> /\ namespace = "gone"
        /\ hc.phase = "deleting" /\ (hc'.phase = "deleting" \/ hc'.phase = "gone")
    BY <1>0, <1>2 DEF Finalize, InfraGone, InfraTypes
  <2>2. CASE hc'.phase = "deleting"
    BY <2>1, <2>2 DEF Requested, Gone
  <2>3. CASE hc'.phase = "gone"
    <3>1. Gone' = Gone \cup {"hostedCluster"} /\ "hostedCluster" \notin Gone
      BY Zenon, <2>1, <2>3, GoneParts, GonePartsNext DEF AllParts, NoMachines, NoNodePools
    <3>2. "namespace" \in Gone
      BY <2>1, GoneParts, GonePartsNext DEF AllParts
    <3> QED
      BY <2>1, <2>3, <3>1, <3>2, OutlivesOf, Removes DEF Requested, AllParts
  <2> QED
    BY <2>1, <2>2, <2>3
<1>3. ASSUME UNCHANGED <<hc, endpoint, namespace, hcp>>, hc.phase # "present",
             NoNodePools' <=> NoNodePools, NoMachines => NoMachines'
      PROVE  T!Next \/ UNCHANGED <<Requested, Gone>>
  <2>1. CASE NoMachines' /\ ~ NoMachines
    <3>1. Gone' = Gone \cup {"machines"} /\ "machines" \notin Gone
      BY Zenon, <1>3, <2>1, GoneParts, GonePartsNext DEF AllParts
    <3> QED
      BY <1>3, <3>1, OutlivesOf, Removes DEF Requested, AllParts
  <2>2. CASE NoMachines' <=> NoMachines
    <3>1. Gone' = Gone
      BY <1>3, <2>2, NoneRemoved
    <3> QED
      BY <1>3, <3>1 DEF Requested
  <2> QED
    BY <1>3, <2>1, <2>2
<1>m. NoMachines => NoMachines'
  BY <1>0, MachinesStayGone DEF NoMachines
<1>4. CASE DeleteInfra
  <2>1. UNCHANGED <<hc, endpoint, namespace, hcp>> /\ hc.phase # "present"
    BY <1>4 DEF DeleteInfra
  <2>2. NoNodePools' <=> NoNodePools
    BY <1>0, <1>4 DEF DeleteInfra, Settled, NoNodePools, InfraTypes
  <2> QED
    BY <1>3, <1>m, <2>1, <2>2
<1>5. ASSUME NEW n \in NodePools, InstanceTerminated(n)
      PROVE  T!Next \/ UNCHANGED <<Requested, Gone>>
  <2>1. UNCHANGED <<hc, endpoint, namespace, hcp, nodePool>> /\ hc.phase # "present"
    BY <1>0, <1>5 DEF InstanceTerminated, OrderInv
  <2> QED
    BY <1>3, <1>m, <2>1 DEF NoNodePools
<1>6. CASE ClusterDelete
  <2>1. UNCHANGED <<hc, endpoint, namespace, nodePool>>
    BY <1>6 DEF ClusterDelete
  <2>2. hcp'.phase = "gone" <=> hcp.phase = "gone"
    BY <1>0, <1>6, HCPAfterMachines
  <2>3. NoMachines' <=> NoMachines
    BY <1>0, <1>6 DEF ClusterDelete, NoMachines, Settled, InfraTypes
  <2>4. Gone' = Gone
    BY <2>1, <2>2, <2>3, NoneRemoved DEF NoNodePools
  <2> QED
    BY <2>1, <2>4 DEF Requested
<1>7. ASSUME NEW n \in NodePools, NodePoolDelete(n)
      PROVE  T!Next \/ UNCHANGED <<Requested, Gone>>
  <2>1. UNCHANGED <<hc, endpoint, namespace, hcp>> /\ hc.phase # "present"
    BY <1>0, <1>7 DEF NodePoolDelete, OrderInv
  <2>2. NoMachines' <=> NoMachines
    BY <1>0, <1>7 DEF NodePoolDelete, NoMachines, Settled, InfraTypes
  <2>3. NoNodePools => NoNodePools'
    BY <1>0, <1>7 DEF NodePoolDelete, NoNodePools, InfraTypes
  <2>4. CASE NoNodePools' /\ ~ NoNodePools
    <3>1. OrderInv'
      BY StepOrderInv
    <3>2. NoMachines
      BY <2>2, <2>4, <3>1 DEF OrderInv, NoMachines, NoNodePools
    <3>3. Gone' = Gone \cup {"nodePools"} /\ "nodePools" \notin Gone /\ "machines" \in Gone
      BY Zenon, <2>1, <2>2, <2>4, <3>2, GoneParts, GonePartsNext DEF AllParts
    <3> QED
      BY <2>1, <3>3, OutlivesOf, Removes DEF Requested, AllParts
  <2>5. CASE NoNodePools' <=> NoNodePools
    <3>1. Gone' = Gone
      BY <2>1, <2>2, <2>5, NoneRemoved
    <3> QED
      BY <2>1, <3>1 DEF Requested
  <2> QED
    BY <2>3, <2>4, <2>5
<1>8. CASE EndpointReleased
  <2>1. UNCHANGED <<hc, nodePool, machine, namespace, hcp>> /\ hc.phase # "present" /\ NoMachines
        /\ endpoint # "gone" /\ endpoint' = "gone"
    BY <1>0, <1>8 DEF EndpointReleased, OrderInv
  <2>2. Gone' = Gone \cup {"endpoints"} /\ "endpoints" \notin Gone /\ "machines" \in Gone
    BY Zenon, <2>1, GoneParts, GonePartsNext DEF AllParts, NoMachines, NoNodePools
  <2> QED
    BY <2>1, <2>2, OutlivesOf, Removes DEF Requested, AllParts
<1>9. CASE NamespaceGone
  <2>1. UNCHANGED <<hc, nodePool, machine, endpoint, hcp>> /\ hc.phase # "present"
        /\ namespace # "gone" /\ namespace' = "gone" /\ endpoint = "gone" /\ hcp.phase = "gone"
    BY <1>0, <1>9 DEF NamespaceGone, OrderInv
  <2>2. /\ Gone' = Gone \cup {"namespace"} /\ "namespace" \notin Gone
        /\ {"controlPlane", "endpoints"} \subseteq Gone
    BY Zenon, <2>1, GoneParts, GonePartsNext DEF AllParts, NoMachines, NoNodePools
  <2> QED
    BY <2>1, <2>2, OutlivesOf, Removes DEF Requested, AllParts
<1>10. CASE HCPDelete
  <2>1. UNCHANGED orderVars /\ hcp.phase = "deleting" /\ hc.phase # "present" /\ NoMachines
    BY <1>0, <1>10 DEF HCPDelete, orderVars, hcVars, OrderInv
  <2>2. CASE hcp'.phase = "gone"
    <3>1. Gone' = Gone \cup {"controlPlane"} /\ "controlPlane" \notin Gone /\ "machines" \in Gone
      BY Zenon, <2>1, <2>2, GoneParts, GonePartsNext DEF AllParts, NoMachines, NoNodePools, orderVars
    <3> QED
      BY <2>1, <3>1, OutlivesOf, Removes DEF Requested, AllParts, orderVars
  <2>3. CASE hcp'.phase # "gone"
    <3>1. Gone' = Gone
      BY <2>1, <2>3, NoneRemoved DEF NoMachines, NoNodePools, orderVars
    <3> QED
      BY <2>1, <3>1 DEF Requested, orderVars
  <2> QED
    BY <2>2, <2>3
<1>11. CASE DeleteEndpointServices \/ DeleteNamespace
  <2>1. /\ UNCHANGED <<hc, nodePool, machine, hcp>>
        /\ endpoint' = "gone" <=> endpoint = "gone"
        /\ namespace' = "gone" <=> namespace = "gone"
    BY <1>11 DEF DeleteEndpointServices, DeleteNamespace
  <2> QED
    BY <2>1 DEF Requested, Gone
<1>12. CASE DeleteHostedControlPlane
  <2>1. UNCHANGED orderVars /\ (hcp'.phase = "gone" <=> hcp.phase = "gone")
    BY <1>0, <1>12, HCPPhase DEF DeleteHostedControlPlane, Phases, orderVars, hcVars
  <2> QED
    BY <2>1 DEF Requested, Gone, orderVars
<1>13. CASE PropagateCleanup
  BY <1>0, <1>g, <1>13, HCPAnnotated DEF PropagateCleanup, orderVars, hcVars
<1>14. CASE HCPDeleteFails
  BY <1>0, <1>g, <1>14, HCPFailed DEF HCPDeleteFails, orderVars, hcVars
<1>15. CASE HCCOWrite
  BY <1>0, <1>g, <1>15, HCPDestroyed DEF HCCOWrite, hccoUnchanged, orderVars, hcVars
<1>16. CASE \/ HCCOBegin \/ ensureResourceCreationIsBlocked \/ VisitKind \/ VisitDone
            \/ CVOStopped \/ InterfaceReleased \/ TimeoutPasses \/ CredentialsChange
            \/ APIServerChanges \/ HCCORestart
            \/ (\E r \in Kinds : GuestGone(r) \/ GuestCreate(r))
            \/ UNCHANGED vars
  BY <1>g, <1>16
     DEF orderVars, HCCOBegin, ensureResourceCreationIsBlocked, VisitKind, VisitDone,
         hccoUnchanged, CVOStopped, InterfaceReleased, TimeoutPasses, CredentialsChange,
         APIServerChanges, HCCORestart, GuestGone, GuestCreate, hcVars, vars
<1> QED
  BY <1>1, <1>2, <1>4, <1>5, <1>6, <1>7, <1>8, <1>9, <1>10, <1>11, <1>12, <1>13, <1>14, <1>15,
     <1>16
     DEF Next, HCStep, HCCOStep, External

\* The deletion takes the parts of a hosted cluster away in the order that
\* Teardown asks for: whatever is interleaved, fails or restarts, the control
\* plane outlives the machines, the namespace the control plane and the
\* endpoints, and the HostedCluster the namespace.
THEOREM TeardownOrder == Spec => ImplementsTeardown
BY TeardownInit, TeardownStep, DeletionInvariant, PTL DEF Spec, ImplementsTeardown, T!InOrder
=============================================================================
