----------------------------- MODULE PrivateLink -----------------------------
(***************************************************************************)
(* The private connection of a hosted cluster's VPC to its control plane   *)
(* on AWS.  One AWSEndpointService object carries the agreement between    *)
(* two operators: the hypershift-operator (HO) creates the VPC endpoint    *)
(* service in the management account and writes its name in the status,    *)
(* the control-plane-operator (CPO) creates the object, the security group,*)
(* the VPC endpoint and the DNS record in the guest account.  Each puts a  *)
(* finalizer on the object and cleans up when the object is deleted, which *)
(* the HostedCluster controller does once the HostedControlPlane is gone.  *)
(*                                                                         *)
(* A reconcile reads the object, calls AWS, and writes the status back at  *)
(* the end; the write is refused when the object changed in between.  The  *)
(* steps of a reconcile are its calls and writes.  AWS is external: the    *)
(* load balancer has at most one endpoint service, deleting an endpoint    *)
(* takes time.  Identifiers are numbers, 0 is the empty string.            *)
(***************************************************************************)
EXTENDS Integers, FiniteSets

CONSTANTS Subnets,        \* sets of subnets the NodePools may use
          MaxServices,    \* bound on the endpoint services created
          MaxEndpoints,   \* bound on the VPC endpoints created
          MaxFaults       \* bound on all of: changes of the NodePools' subnets, deletions in
                          \* AWS by others, AWS calls that fail, restarts of the operators

ASSUME SubnetsAssumption == Subnets # {}
ASSUME BoundsAssumption ==
    MaxServices \in Nat \ {0} /\ MaxEndpoints \in Nat \ {0} /\ MaxFaults \in Nat

VARIABLES
    hc,          \* the HostedCluster: "present" or "deleting"
    hcp,         \* the HostedControlPlane: "present", "deleting" or "gone"
    subnets,     \* the subnets of the NodePools
    cr,          \* the AWSEndpointService
    strip,       \* its credentials are invalid or the grace period of its deletion is over
    ho, cpo,     \* the reconcile in progress of either operator
    clients,     \* the CPO has initialized its AWS clients
    lb,          \* load balancer of the private Service: "none", "pending", "active"
    service,     \* the endpoint service of the load balancer, 0 if none
    allowed,     \* the endpoint service that admits the CPO's role, 0 if none
    endpoints,   \* the VPC endpoints tagged with the object's name
    sg,          \* the security group of the endpoint exists
    record,      \* the endpoint the DNS record points to, 0 if there is no record
    nextService, nextEndpoint,
    faults

vars == <<hc, hcp, subnets, cr, strip, ho, cpo, clients, lb, service, allowed, endpoints,
          sg, record, nextService, nextEndpoint, faults>>
awsVars == <<lb, service, allowed, endpoints, sg, record, nextService, nextEndpoint>>
userVars == <<hc, hcp, subnets, strip>>

----------------------------------------------------------------------------
(* Data *)

Services == 1..MaxServices
Endpoints == 1..MaxEndpoints

NoCR == [exists |-> FALSE, deleting |-> FALSE, ho |-> FALSE, cpo |-> FALSE, subnets |-> {},
         service |-> 0, serviceUp |-> FALSE,
         endpoint |-> 0, sg |-> FALSE, dns |-> FALSE, endpointUp |-> FALSE]
CRs == [exists : BOOLEAN, deleting : BOOLEAN, ho : BOOLEAN, cpo : BOOLEAN,
        subnets : Subnets \cup {{}}, service : Services \cup {0}, serviceUp : BOOLEAN,
        endpoint : Endpoints \cup {0}, sg : BOOLEAN, dns : BOOLEAN, endpointUp : BOOLEAN]

\* A reconcile: where it is, the object as it was read, the copy it changes.
Idle == [pc |-> "idle", base |-> NoCR, obj |-> NoCR]
At(pc, base, obj) == [pc |-> pc, base |-> base, obj |-> obj]

NoEndpoint == [state |-> "none", service |-> 0, subnets |-> {}]
Existing == {e \in Endpoints : endpoints[e].state # "none"}

\* An object that is being deleted is removed with its last finalizer.
Stored(c) == IF c.deleting /\ ~ c.ho /\ ~ c.cpo THEN NoCR ELSE c

----------------------------------------------------------------------------
Init ==
    /\ hc = "present" /\ hcp = "present"
    /\ subnets \in Subnets
    /\ cr = NoCR
    /\ strip = FALSE
    /\ ho = Idle /\ cpo = Idle
    /\ clients = FALSE
    /\ lb = "none"
    /\ service = 0 /\ allowed = 0
    /\ endpoints = [e \in Endpoints |-> NoEndpoint]
    /\ sg = FALSE
    /\ record = 0
    /\ nextService = 1 /\ nextEndpoint = 1
    /\ faults = 0

----------------------------------------------------------------------------
(* The user and the HostedCluster controller *)

Fault == faults < MaxFaults /\ faults' = faults + 1

\* A NodePool comes, goes or moves to another subnet.
ChangeSubnets ==
    /\ Fault
    /\ subnets' \in Subnets \ {subnets}
    /\ UNCHANGED <<hc, hcp, cr, strip, ho, cpo, clients, awsVars>>

DeleteHostedCluster ==
    /\ hc = "present"
    /\ hc' = "deleting"
    /\ UNCHANGED <<hcp, subnets, cr, strip, ho, cpo, clients, awsVars, faults>>

\* Cluster API deletes the control plane it owns before the Cluster goes away.
DeleteHostedControlPlane ==
    /\ hc = "deleting"
    /\ hcp' = CASE hcp = "present" -> "deleting" [] hcp = "deleting" -> "gone" [] OTHER -> hcp
    /\ hcp' # hcp
    /\ UNCHANGED <<hc, subnets, cr, strip, ho, cpo, clients, awsVars, faults>>

\* deleteAWSEndpointServices: the object is deleted; later the CPO's finalizer
\* is removed from it when its credentials are invalid or it takes too long.
deleteAWSEndpointServices ==
    /\ hc = "deleting" /\ hcp = "gone"
    /\ cr.exists
    /\ \/ ~ cr.deleting /\ cr' = Stored([cr EXCEPT !.deleting = TRUE])
       \/ cr.deleting /\ cr.cpo /\ strip /\ cr' = Stored([cr EXCEPT !.cpo = FALSE])
    /\ UNCHANGED <<userVars, ho, cpo, clients, awsVars, faults>>

GracePeriodEnds ==
    /\ cr.deleting /\ ~ strip
    /\ strip' = TRUE
    /\ UNCHANGED <<hc, hcp, subnets, cr, ho, cpo, clients, awsVars, faults>>

----------------------------------------------------------------------------
(* AWS (external) *)

awsUnchanged == UNCHANGED <<hc, hcp, subnets, cr, strip, ho, cpo, clients>>

LoadBalancerProgress ==
    /\ lb # "active"
    /\ lb' = IF lb = "none" THEN "pending" ELSE "active"
    /\ awsUnchanged
    /\ UNCHANGED <<service, allowed, endpoints, sg, record, nextService, nextEndpoint, faults>>

EndpointAvailable(e) ==
    /\ endpoints[e].state = "pending"
    /\ endpoints' = [endpoints EXCEPT ![e].state = "available"]
    /\ awsUnchanged
    /\ UNCHANGED <<lb, service, allowed, sg, record, nextService, nextEndpoint, faults>>

EndpointDeleted(e) ==
    /\ endpoints[e].state = "deleting"
    /\ endpoints' = [endpoints EXCEPT ![e] = NoEndpoint]
    /\ awsUnchanged
    /\ UNCHANGED <<lb, service, allowed, sg, record, nextService, nextEndpoint, faults>>

Rejected(s) == [e \in Endpoints |->
    IF endpoints[e].state \in {"pending", "available"} /\ endpoints[e].service = s
    THEN [endpoints[e] EXCEPT !.state = "rejected"] ELSE endpoints[e]]
Deleting(e) == [endpoints EXCEPT ![e].state = "deleting"]

\* Somebody else deletes the endpoint service, or an endpoint.
OutOfBandDeletion ==
    /\ Fault
    /\ \/ /\ service # 0
          /\ service' = 0
          /\ endpoints' = Rejected(service)
       \/ /\ \E e \in Existing : endpoints[e].state # "deleting" /\ endpoints' = Deleting(e)
          /\ UNCHANGED service
    /\ awsUnchanged
    /\ UNCHANGED <<lb, allowed, sg, record, nextService, nextEndpoint>>

----------------------------------------------------------------------------
(* hypershift-operator: AWSEndpointServiceReconciler *)

hoUnchanged == UNCHANGED <<userVars, cpo, clients, lb, sg, record, nextEndpoint>>

\* The finalizer is added; without a HostedControlPlane the reconcile fails.
HOReconcile ==
    /\ ho.pc = "idle"
    /\ cr.exists /\ ~ cr.deleting
    /\ cr' = [cr EXCEPT !.ho = TRUE]
    /\ ho' = IF hcp = "gone" THEN Idle ELSE At("spec", cr', cr')
    /\ UNCHANGED <<service, allowed, endpoints, nextService, faults>>
    /\ hoUnchanged

\* CreateOrUpdate reads the object again and sets the subnets of all NodePools.
HOSpec ==
    /\ ho.pc = "spec"
    /\ \/ cr.exists /\ cr' = [cr EXCEPT !.subnets = subnets] /\ ho' = At("service", cr', cr')
       \/ ~ cr.exists /\ ho' = Idle /\ UNCHANGED cr
    /\ UNCHANGED <<service, allowed, endpoints, nextService, faults>>
    /\ hoUnchanged

HOFailed(obj) == At("status", ho.base, [obj EXCEPT !.serviceUp = FALSE])
HOGoesOn(obj) == At("permissions", ho.base, obj)

\* The service named in the status is looked up; without a name one is created,
\* or the one that already uses the load balancer is adopted.
reconcileAWSEndpointServiceStatus ==
    /\ ho.pc = "service"
    /\ LET named == ho.obj.service IN
       \/ /\ named # 0
          /\ ho' = IF service = named THEN HOGoesOn(ho.obj)
                   ELSE HOFailed([ho.obj EXCEPT !.service = 0])
          /\ UNCHANGED <<service, allowed, nextService>>
       \/ /\ named = 0 /\ lb # "active"
          /\ ho' = HOFailed(ho.obj)
          /\ UNCHANGED <<service, allowed, nextService>>
       \/ /\ named = 0 /\ lb = "active" /\ service # 0
          /\ ho' = HOGoesOn([ho.obj EXCEPT !.service = service])
          /\ UNCHANGED <<service, allowed, nextService>>
       \/ /\ named = 0 /\ lb = "active" /\ service = 0
          /\ nextService <= MaxServices
          /\ service' = nextService /\ allowed' = 0 /\ nextService' = nextService + 1
          /\ ho' = HOGoesOn([ho.obj EXCEPT !.service = nextService])
    /\ UNCHANGED <<cr, endpoints, faults>>
    /\ hoUnchanged

HOPermissions ==
    /\ ho.pc = "permissions"
    /\ IF service = ho.obj.service
       THEN allowed' = service /\ ho' = At("status", ho.base, [ho.obj EXCEPT !.serviceUp = TRUE])
       ELSE ho' = HOFailed(ho.obj) /\ UNCHANGED allowed
    /\ UNCHANGED <<cr, service, endpoints, nextService, faults>>
    /\ hoUnchanged

HOCallFails ==
    /\ ho.pc \in {"service", "permissions"}
    /\ Fault
    /\ ho' = HOFailed(ho.obj)
    /\ UNCHANGED <<cr, service, allowed, endpoints, nextService>>
    /\ hoUnchanged

\* An update is refused if the object is not the one that was read.
WriteBack(r) == IF cr = r.base THEN Stored(r.obj) ELSE cr

HOWrite ==
    /\ ho.pc \in {"status", "unfinalize"}
    /\ cr' = WriteBack(ho)
    /\ ho' = Idle
    /\ UNCHANGED <<service, allowed, endpoints, nextService, faults>>
    /\ hoUnchanged

Unfinalized(c) == At("unfinalize", c, [c EXCEPT !.ho = FALSE])

\* Mutant: the finalizer goes although the service has connections.
HODeleteRegardless ==
    /\ ho.pc = "idle"
    /\ cr.exists /\ cr.deleting /\ cr.ho
    /\ ho' = Unfinalized(cr)
    /\ UNCHANGED <<cr, service, allowed, endpoints, nextService, faults>>
    /\ hoUnchanged

\* Mutant: the connections are not rejected, only waited for.
HODeleteWaits ==
    /\ ho.pc = "idle"
    /\ cr.exists /\ cr.deleting /\ cr.ho
    /\ IF cr.service = 0 \/ service # cr.service
       THEN ho' = Unfinalized(cr) /\ UNCHANGED service
       ELSE /\ Rejected(service) = endpoints
            /\ service' = 0 /\ ho' = Unfinalized(cr)
    /\ UNCHANGED <<cr, allowed, endpoints, nextService, faults>>
    /\ hoUnchanged

\* A service with connections cannot be deleted: they are rejected first.
HODelete ==
    /\ ho.pc = "idle"
    /\ cr.exists /\ cr.deleting /\ cr.ho
    /\ IF cr.service = 0 \/ service # cr.service
       THEN ho' = Unfinalized(cr) /\ UNCHANGED <<service, endpoints>>
       ELSE IF Rejected(service) # endpoints
       THEN endpoints' = Rejected(service) /\ UNCHANGED <<ho, service>>
       ELSE service' = 0 /\ ho' = Unfinalized(cr) /\ UNCHANGED endpoints
    /\ UNCHANGED <<cr, allowed, nextService, faults>>
    /\ hoUnchanged

HORestart ==
    /\ ho.pc # "idle"
    /\ Fault
    /\ ho' = Idle
    /\ UNCHANGED <<userVars, cr, cpo, clients, awsVars>>

----------------------------------------------------------------------------
(* control-plane-operator: PrivateServiceObserver, AWSEndpointServiceReconciler *)

cpoUnchanged == UNCHANGED <<userVars, ho, lb, service, allowed, nextService>>

\* The object represents the load balancer of the private Service.
ObserveService ==
    /\ hcp = "present"
    /\ lb # "none"
    /\ ~ cr.exists
    /\ cr' = [NoCR EXCEPT !.exists = TRUE]
    /\ UNCHANGED <<cpo, clients, endpoints, sg, record, nextEndpoint, faults>>
    /\ cpoUnchanged

\* The finalizer is added; the rest waits for the name of the endpoint service.
CPOReconcile ==
    /\ cpo.pc = "idle"
    /\ cr.exists /\ ~ cr.deleting
    /\ cr' = [cr EXCEPT !.cpo = TRUE]
    /\ LET goesOn == cr.service # 0 /\ hcp # "gone" IN
       /\ clients' = (clients \/ goesOn)
       /\ cpo' = IF goesOn THEN At("securityGroup", cr', cr') ELSE Idle
    /\ UNCHANGED <<endpoints, sg, record, nextEndpoint, faults>>
    /\ cpoUnchanged

CPOFailed(obj) == At("status", cpo.base, [obj EXCEPT !.endpointUp = FALSE])

reconcileAWSEndpointSecurityGroup ==
    /\ cpo.pc = "securityGroup"
    /\ sg' = TRUE
    /\ cpo' = At("endpoint", cpo.base, [cpo.obj EXCEPT !.sg = TRUE])
    /\ UNCHANGED <<cr, clients, endpoints, record, nextEndpoint, faults>>
    /\ cpoUnchanged

\* A new endpoint may have no DNS entries yet; then there is no record to make.
GoesOnWith(e) ==
    {At("dns", cpo.base, [cpo.obj EXCEPT !.endpoint = e])} \cup
    (IF endpoints[e].state \in {"none", "pending"}
     THEN {At("status", cpo.base, [cpo.obj EXCEPT !.endpoint = e, !.endpointUp = TRUE])} ELSE {})

\* Mutant: an endpoint that is gone stays in the status.
CPOKeepEndpoint ==
    /\ cpo.pc = "endpoint"
    /\ cpo.obj.endpoint # 0
    /\ LET e == cpo.obj.endpoint IN
       \/ /\ endpoints[e].state = "none"
          /\ cpo' = CPOFailed(cpo.obj)
          /\ UNCHANGED endpoints
       \/ /\ endpoints[e].state # "none"
          /\ cpo' \in GoesOnWith(e)
          /\ endpoints' = [endpoints EXCEPT ![e].subnets = cpo.obj.subnets]
    /\ UNCHANGED <<cr, clients, sg, record, nextEndpoint, faults>>
    /\ cpoUnchanged

\* The endpoint of the status is checked against AWS and gets the subnets.
CPOCheckEndpoint ==
    /\ cpo.pc = "endpoint"
    /\ cpo.obj.endpoint # 0
    /\ LET e == cpo.obj.endpoint IN
       \/ /\ endpoints[e].state = "none"
          /\ cpo' = CPOFailed([cpo.obj EXCEPT !.endpoint = 0])
          /\ UNCHANGED endpoints
       \/ /\ endpoints[e].state # "none" /\ endpoints[e].service # cpo.obj.service
          /\ endpoints' = Deleting(e)
          /\ cpo' = CPOFailed(cpo.obj)
       \/ /\ endpoints[e].state # "none" /\ endpoints[e].service = cpo.obj.service
          /\ IF endpoints[e].subnets # cpo.obj.subnets /\ endpoints[e].state = "deleting"
             THEN cpo' = CPOFailed(cpo.obj) /\ UNCHANGED endpoints
             ELSE /\ cpo' \in GoesOnWith(e)
                  /\ endpoints' = [endpoints EXCEPT ![e].subnets = cpo.obj.subnets]
    /\ UNCHANGED <<cr, clients, sg, record, nextEndpoint, faults>>
    /\ cpoUnchanged

\* Mutant: a new endpoint is created without looking for one to adopt.
CPOCreateEndpoint ==
    /\ cpo.pc = "endpoint"
    /\ cpo.obj.endpoint = 0
    /\ service = cpo.obj.service /\ allowed = service /\ nextEndpoint <= MaxEndpoints
    /\ endpoints' = [endpoints EXCEPT ![nextEndpoint] =
         [state |-> "pending", service |-> service, subnets |-> cpo.obj.subnets]]
    /\ cpo' \in GoesOnWith(nextEndpoint)
    /\ nextEndpoint' = nextEndpoint + 1
    /\ UNCHANGED <<cr, clients, sg, record, faults>>
    /\ cpoUnchanged

\* Without an endpoint in the status one with the object's tag is adopted, or,
\* if it belongs to another service, deleted; else one is created.
CPOFindEndpoint ==
    /\ cpo.pc = "endpoint"
    /\ cpo.obj.endpoint = 0
    /\ \/ \E e \in Existing :
            IF endpoints[e].service = cpo.obj.service
            THEN cpo' \in GoesOnWith(e) /\ UNCHANGED <<endpoints, nextEndpoint>>
            ELSE endpoints' = Deleting(e) /\ cpo' = CPOFailed(cpo.obj) /\ UNCHANGED nextEndpoint
       \/ /\ Existing = {}
          /\ service = cpo.obj.service /\ allowed = service /\ nextEndpoint <= MaxEndpoints
          /\ endpoints' = [endpoints EXCEPT ![nextEndpoint] =
               [state |-> "pending", service |-> service, subnets |-> cpo.obj.subnets]]
          /\ cpo' \in GoesOnWith(nextEndpoint)
          /\ nextEndpoint' = nextEndpoint + 1
       \/ /\ Existing = {}
          /\ service # cpo.obj.service \/ allowed # service
          /\ cpo' = CPOFailed(cpo.obj)
          /\ UNCHANGED <<endpoints, nextEndpoint>>
    /\ UNCHANGED <<cr, clients, sg, record, faults>>
    /\ cpoUnchanged

CPORecord ==
    /\ cpo.pc = "dns"
    /\ record' = cpo.obj.endpoint
    /\ cpo' = At("status", cpo.base, [cpo.obj EXCEPT !.dns = TRUE, !.endpointUp = TRUE])
    /\ UNCHANGED <<cr, clients, endpoints, sg, nextEndpoint, faults>>
    /\ cpoUnchanged

CPOCallFails ==
    /\ cpo.pc \in {"securityGroup", "endpoint", "dns"}
    /\ Fault
    /\ cpo' = CPOFailed(cpo.obj)
    /\ UNCHANGED <<cr, clients, endpoints, sg, record, nextEndpoint>>
    /\ cpoUnchanged

CPOWrite ==
    /\ cpo.pc \in {"status", "unfinalize"}
    /\ cr' = WriteBack(cpo)
    /\ cpo' = Idle
    /\ UNCHANGED <<clients, endpoints, sg, record, nextEndpoint, faults>>
    /\ cpoUnchanged

CPOUnfinalized(c) == At("unfinalize", c, [c EXCEPT !.cpo = FALSE])

\* Without AWS clients the cleanup is skipped; else the endpoint of the status
\* is deleted, and the reconcile is tried again until AWS no longer knows it.
CPODelete ==
    /\ cpo.pc = "idle"
    /\ cr.exists /\ cr.deleting /\ cr.cpo
    /\ IF ~ clients
       THEN cpo' = CPOUnfinalized(cr) /\ UNCHANGED endpoints
       ELSE IF cr.endpoint \in Existing
       THEN endpoints' = Deleting(cr.endpoint) /\ UNCHANGED cpo
       ELSE cpo' = At("deleteSG", cr, cr) /\ UNCHANGED endpoints
    /\ UNCHANGED <<cr, clients, sg, record, nextEndpoint, faults>>
    /\ cpoUnchanged

\* A security group that an endpoint uses cannot be deleted.
deleteSecurityGroup ==
    /\ cpo.pc = "deleteSG"
    /\ IF cpo.base.sg /\ sg /\ Existing # {}
       THEN cpo' = Idle /\ UNCHANGED sg
       ELSE /\ cpo' = [cpo EXCEPT !.pc = "deleteDNS"]
            /\ sg' = (sg /\ ~ cpo.base.sg)
    /\ UNCHANGED <<cr, clients, endpoints, record, nextEndpoint, faults>>
    /\ cpoUnchanged

\* Mutant: the record stays.
CPOKeepRecord ==
    /\ cpo.pc = "deleteDNS"
    /\ cpo' = CPOUnfinalized(cpo.base)
    /\ UNCHANGED <<cr, clients, endpoints, sg, record, nextEndpoint, faults>>
    /\ cpoUnchanged

CPODeleteRecord ==
    /\ cpo.pc = "deleteDNS"
    /\ record' = IF cpo.base.dns THEN 0 ELSE record
    /\ cpo' = CPOUnfinalized(cpo.base)
    /\ UNCHANGED <<cr, clients, endpoints, sg, nextEndpoint, faults>>
    /\ cpoUnchanged

CPORestart ==
    /\ Fault
    /\ cpo' = Idle
    /\ clients' = FALSE
    /\ UNCHANGED <<userVars, cr, ho, awsVars>>

----------------------------------------------------------------------------
AWSStep == LoadBalancerProgress \/ \E e \in Endpoints : EndpointAvailable(e) \/ EndpointDeleted(e)
HCStep == DeleteHostedControlPlane \/ deleteAWSEndpointServices \/ GracePeriodEnds
HOStep ==
    \/ HOReconcile \/ HOSpec \/ reconcileAWSEndpointServiceStatus \/ HOPermissions
    \/ HOWrite \/ HODelete
CPOStep ==
    \/ CPOReconcile \/ reconcileAWSEndpointSecurityGroup \/ CPOCheckEndpoint
    \/ CPOFindEndpoint \/ CPORecord \/ CPOWrite \/ CPODelete \/ deleteSecurityGroup
    \/ CPODeleteRecord

Next ==
    \/ ChangeSubnets \/ DeleteHostedCluster \/ OutOfBandDeletion \/ ObserveService
    \/ HOCallFails \/ CPOCallFails \/ HORestart \/ CPORestart
    \/ AWSStep \/ HCStep \/ HOStep \/ CPOStep

Spec == Init /\ [][Next]_vars

\* AWS makes progress; the operators reconcile on watch events, every five
\* minutes, and again after an error.
Fairness ==
    /\ WF_vars(AWSStep) /\ WF_vars(HCStep) /\ WF_vars(ObserveService)
    /\ WF_vars(HOStep) /\ WF_vars(CPOStep)

FairSpec == Spec /\ Fairness

----------------------------------------------------------------------------
(* Properties *)

\* Every variable holds a value of its type.
TypeOK ==
    /\ hc \in {"present", "deleting"} /\ hcp \in {"present", "deleting", "gone"}
    /\ subnets \in Subnets
    /\ cr \in CRs
    /\ ho \in [pc : {"idle", "spec", "service", "permissions", "status", "unfinalize"},
               base : CRs, obj : CRs]
    /\ cpo \in [pc : {"idle", "securityGroup", "endpoint", "dns", "status", "deleteSG",
                      "deleteDNS", "unfinalize"}, base : CRs, obj : CRs]
    /\ {strip, clients, sg} \subseteq BOOLEAN
    /\ lb \in {"none", "pending", "active"}
    /\ {service, allowed} \subseteq Services \cup {0}
    /\ endpoints \in [Endpoints -> [state : {"none", "pending", "available", "rejected",
                                             "deleting"}, service : Services \cup {0}, subnets : Subnets \cup {{}}]]
    /\ record \in Endpoints \cup {0}
    /\ nextService \in 1..(MaxServices + 1) /\ nextEndpoint \in 1..(MaxEndpoints + 1)
    /\ faults \in 0..MaxFaults

\* However status writes are refused and operators restart between a call and
\* the record of it, the object never ends up with two endpoints in the guest
\* VPC (the adoption by tag of reconcileAWSEndpointService).
OneEndpoint == Cardinality(Existing) <= 1

\* The hypershift-operator lets go of the object only when the endpoint service
\* that the stored status names is gone from AWS (delete): whatever the CPO
\* wrote since it read the object, no recorded service is left behind.
ServiceFinalizerGuards ==
    [][cr.ho /\ ~ cr'.ho => cr.service = 0 \/ service # cr.service]_vars

\* What the CPO's finalizer stands for: nothing that the stored status records,
\* the endpoint, the security group, the DNS record, is left in AWS.
Cleaned == /\ cr.endpoint \notin Existing
           /\ ~ (cr.sg /\ sg)
           /\ ~ (cr.dns /\ record # 0)

\* A CPO that has its AWS clients lets go of the object only when everything
\* the stored status records is gone, unless the HostedCluster controller
\* takes the finalizer away (deleteAWSEndpointServices).
EndpointFinalizerGuards ==
    [][cr.cpo /\ ~ cr'.cpo /\ clients => strip \/ Cleaned]_vars

\* "Ensure the awsEndpointService has a finalizer for cleanup": the object does
\* not lose the CPO's finalizer before its endpoint is cleaned up, unless the
\* HostedCluster controller gives up on it.
FinalizerForCleanup ==
    [][cr.cpo /\ ~ cr'.cpo => strip \/ Cleaned]_vars

\* Once others leave AWS alone, the hosted cluster is connected: the endpoint
\* of the status exists, in the subnets of the NodePools, is connected to the
\* service of the status, and the DNS record points to it.
Connected ==
    <>[](hc = "present" =>
           /\ cr.serviceUp /\ cr.endpointUp
           /\ cr.service = service /\ service # 0
           /\ cr.endpoint \in Existing /\ record = cr.endpoint
           /\ endpoints[cr.endpoint] = [state |-> "available", service |-> service,
                                        subnets |-> subnets])

\* The object of a HostedCluster that is deleted goes away, although each
\* operator waits for AWS, AWS for connections and endpoints to be removed, and
\* the CPO may wait for an endpoint nobody remembers.
DeletionCompletes == hc = "deleting" ~> ~ cr.exists
=============================================================================
