-------------------------- MODULE PrivateLinkProofs --------------------------
(***************************************************************************)
(* For any subnets and any bounds: the guest VPC never has two endpoints   *)
(* of the object, and neither operator's finalizer leaves the object while *)
(* what the stored status records of its resources is in AWS.              *)
(*                                                                         *)
(* The invariant follows each reconcile from the object it read (base) to  *)
(* the copy it writes (obj).  A write goes through only if the object is   *)
(* still base, so what holds of base holds of the stored object; only the  *)
(* operator itself can undo what its deletion has found or made gone.      *)
(***************************************************************************)
EXTENDS PrivateLink, FiniteSetTheorems, TLAPS

HOPasses == [pc : {"idle", "spec", "service", "permissions", "status", "unfinalize"},
             base : CRs, obj : CRs]
CPOPasses == [pc : {"idle", "securityGroup", "endpoint", "dns", "status", "deleteSG",
                    "deleteDNS", "unfinalize"}, base : CRs, obj : CRs]
EndpointRecords == [state : {"none", "pending", "available", "rejected", "deleting"},
                    service : Services \cup {0}, subnets : Subnets \cup {{}}]

UserTypes ==
    /\ hc \in {"present", "deleting"} /\ hcp \in {"present", "deleting", "gone"}
    /\ subnets \in Subnets
    /\ strip \in BOOLEAN
    /\ lb \in {"none", "pending", "active"}
    /\ faults \in 0..MaxFaults

ObjectTypes == cr \in CRs /\ ho \in HOPasses /\ cpo \in CPOPasses

AWSTypes ==
    /\ clients \in BOOLEAN /\ sg \in BOOLEAN
    /\ service \in Services \cup {0} /\ allowed \in Services \cup {0}
    /\ endpoints \in [Endpoints -> EndpointRecords]
    /\ record \in Endpoints \cup {0}
    /\ nextService \in 1..(MaxServices + 1) /\ nextEndpoint \in 1..(MaxEndpoints + 1)

Types == UserTypes /\ ObjectTypes /\ AWSTypes

\* Adoption by tag: an endpoint is created only when none exists.
One == \A e, f \in Existing : e = f

\* A status edit leaves alone what decides whether the object stays.
Same(o, b) == o.exists = b.exists /\ o.ho = b.ho /\ o.cpo = b.cpo

ObjectInv == cr.ho \/ cr.cpo => cr.exists

HOInv ==
    /\ ho.pc \in {"service", "permissions", "status"} => Same(ho.obj, ho.base)
    /\ ho.pc = "unfinalize" =>
         /\ ho.obj.exists = ho.base.exists /\ ho.obj.cpo = ho.base.cpo /\ ~ ho.obj.ho
         /\ ho.base.service = 0 \/ service # ho.base.service

CPOInv ==
    /\ cpo.pc \in {"securityGroup", "endpoint", "dns", "status"} => Same(cpo.obj, cpo.base)
    /\ cpo.pc \in {"deleteSG", "deleteDNS"} => cpo.base.endpoint \notin Existing
    /\ cpo.pc = "deleteDNS" => ~ (cpo.base.sg /\ sg)
    /\ cpo.pc = "unfinalize" =>
         /\ cpo.obj.exists = cpo.base.exists /\ cpo.obj.ho = cpo.base.ho /\ ~ cpo.obj.cpo
         /\ \/ ~ clients
            \/ /\ cpo.base.endpoint \notin Existing
               /\ ~ (cpo.base.sg /\ sg)
               /\ ~ (cpo.base.dns /\ record # 0)

IInv == Types /\ One /\ ObjectInv /\ HOInv /\ CPOInv

----------------------------------------------------------------------------
(* Data *)

\* The object before it is created, and a reconcile that is not running.
LEMMA IdleTypes ==
    /\ NoCR \in CRs /\ ~ NoCR.exists /\ ~ NoCR.ho /\ ~ NoCR.cpo
    /\ Idle \in HOPasses /\ Idle \in CPOPasses /\ Idle.pc = "idle"
<1>1. NoCR \in CRs /\ ~ NoCR.exists /\ ~ NoCR.ho /\ ~ NoCR.cpo
  BY DEF NoCR, CRs
<1>2. Idle \in HOPasses /\ Idle \in CPOPasses /\ Idle.pc = "idle"
  BY <1>1 DEF Idle, HOPasses, CPOPasses
<1> QED
  BY <1>1, <1>2

\* The fields of an object.
LEMMA CRFields ==
    ASSUME NEW c \in CRs
    PROVE  /\ c.exists \in BOOLEAN /\ c.deleting \in BOOLEAN /\ c.ho \in BOOLEAN
           /\ c.cpo \in BOOLEAN /\ c.service \in Services \cup {0}
           /\ c.endpoint \in Endpoints \cup {0} /\ c.subnets \in Subnets \cup {{}}
BY DEF CRs

\* The fields of the reconciles.
LEMMA PassFields ==
    ASSUME ObjectTypes
    PROVE  /\ ho.base \in CRs /\ ho.obj \in CRs
           /\ ho.pc \in {"idle", "spec", "service", "permissions", "status", "unfinalize"}
           /\ cpo.base \in CRs /\ cpo.obj \in CRs
           /\ cpo.pc \in {"idle", "securityGroup", "endpoint", "dns", "status", "deleteSG",
                          "deleteDNS", "unfinalize"}
BY DEF ObjectTypes, HOPasses, CPOPasses

\* A reconcile that goes on to a step.
LEMMA AtFields ==
    ASSUME NEW pc, NEW b \in CRs, NEW o \in CRs, NEW p, p = At(pc, b, o)
    PROVE  /\ p.pc = pc /\ p.base = b /\ p.obj = o
           /\ pc \in {"idle", "spec", "service", "permissions", "status", "unfinalize"}
                => p \in HOPasses
           /\ pc \in {"idle", "securityGroup", "endpoint", "dns", "status", "deleteSG",
                      "deleteDNS", "unfinalize"} => p \in CPOPasses
BY DEF At, HOPasses, CPOPasses

\* Edits of the status, and of the list of subnets.
LEMMA ServiceEdits ==
    ASSUME NEW c \in CRs, NEW o, NEW s \in Services \cup {0}, NEW x \in Subnets,
           NEW up \in BOOLEAN,
           \/ o = [c EXCEPT !.serviceUp = up]
           \/ o = [c EXCEPT !.service = s]
           \/ o = [c EXCEPT !.subnets = x]
    PROVE  o \in CRs /\ Same(o, c)
BY DEF CRs, Same

\* So do those of the control-plane-operator: condition, security group, endpoint, record.
LEMMA EndpointEdits ==
    ASSUME NEW c \in CRs, NEW o, NEW e \in Endpoints \cup {0},
           \/ o = [c EXCEPT !.endpointUp = FALSE]
           \/ o = [c EXCEPT !.sg = TRUE]
           \/ o = [c EXCEPT !.endpoint = e]
           \/ o = [c EXCEPT !.endpoint = e, !.endpointUp = TRUE]
           \/ o = [c EXCEPT !.dns = TRUE, !.endpointUp = TRUE]
    PROVE  o \in CRs /\ Same(o, c)
BY DEF CRs, Same

\* The finalizers come and go.
LEMMA HOFinalizer ==
    ASSUME NEW c \in CRs, NEW b \in BOOLEAN, NEW o, o = [c EXCEPT !.ho = b]
    PROVE  o \in CRs /\ o.exists = c.exists /\ o.cpo = c.cpo /\ o.ho = b
BY DEF CRs

\* The same for the finalizer of the control-plane-operator.
LEMMA CPOFinalizer ==
    ASSUME NEW c \in CRs, NEW b \in BOOLEAN, NEW o, o = [c EXCEPT !.cpo = b]
    PROVE  o \in CRs /\ o.exists = c.exists /\ o.ho = c.ho /\ o.cpo = b
BY DEF CRs

\* The object is marked for deletion, or comes into being.
LEMMA Marked ==
    ASSUME NEW c \in CRs, NEW o, o = [c EXCEPT !.deleting = TRUE]
    PROVE  o \in CRs /\ Same(o, c)
BY DEF CRs, Same

\* A new object has the finalizers it had: none.
LEMMA Created ==
    ASSUME NEW c \in CRs, NEW o, o = [c EXCEPT !.exists = TRUE]
    PROVE  o \in CRs /\ o.exists /\ o.ho = c.ho /\ o.cpo = c.cpo
BY DEF CRs

\* The removal of an object with its last finalizer clears no finalizer.
LEMMA StoredFields ==
    ASSUME NEW c \in CRs
    PROVE  /\ Stored(c) \in CRs
           /\ Stored(c).ho = c.ho /\ Stored(c).cpo = c.cpo
           /\ c.ho \/ c.cpo => Stored(c).exists = c.exists
<1>1. c.ho \in BOOLEAN /\ c.cpo \in BOOLEAN
  BY CRFields
<1>2. CASE c.deleting /\ ~ c.ho /\ ~ c.cpo
  <2>1. Stored(c) = NoCR /\ NoCR.ho = FALSE /\ NoCR.cpo = FALSE
    BY <1>2 DEF Stored, NoCR
  <2> QED
    BY <1>1, <1>2, <2>1, IdleTypes
<1>3. CASE ~ (c.deleting /\ ~ c.ho /\ ~ c.cpo)
  BY <1>3 DEF Stored
<1> QED
  BY <1>2, <1>3

----------------------------------------------------------------------------
(* The endpoints in AWS *)

EndpointTypes == endpoints \in [Endpoints -> EndpointRecords]

\* One field of an endpoint record changes.
LEMMA EndpointRecordEdits ==
    ASSUME NEW r \in EndpointRecords, NEW n,
           NEW st \in {"pending", "available", "rejected", "deleting"}, NEW x \in Subnets \cup {{}},
           \/ n = [r EXCEPT !.state = st] /\ r.state # "none"
           \/ n = [r EXCEPT !.subnets = x]
    PROVE  n \in EndpointRecords /\ (n.state = "none" <=> r.state = "none")
BY DEF EndpointRecords

\* An endpoint that exists changes, or goes: no endpoint comes into being.
LEMMA ChangedEndpoint ==
    ASSUME EndpointTypes, NEW e \in Endpoints, NEW n \in EndpointRecords,
           endpoints' = [endpoints EXCEPT ![e] = n],
           endpoints[e].state = "none" => n.state = "none"
    PROVE  EndpointTypes' /\ Existing' \subseteq Existing
BY DEF EndpointTypes, Existing

\* Connections are rejected (Rejected), an endpoint is deleted (Deleting).
LEMMA RejectedEndpoints ==
    ASSUME EndpointTypes, NEW s, endpoints' = Rejected(s)
    PROVE  EndpointTypes' /\ Existing' \subseteq Existing
<1> DEFINE E(e) == IF endpoints[e].state \in {"pending", "available"} /\ endpoints[e].service = s
                   THEN [endpoints[e] EXCEPT !.state = "rejected"] ELSE endpoints[e]
<1>1. endpoints' = [e \in Endpoints |-> E(e)]
  BY DEF Rejected
<1>2. ASSUME NEW e \in Endpoints
      PROVE  E(e) \in EndpointRecords /\ (E(e).state = "none" <=> endpoints[e].state = "none")
  <2>1. endpoints[e] \in EndpointRecords
    BY DEF EndpointTypes
  <2>2. {} \in Subnets \cup {{}}
    OBVIOUS
  <2>3. CASE endpoints[e].state \in {"pending", "available"} /\ endpoints[e].service = s
    <3>1. E(e) = [endpoints[e] EXCEPT !.state = "rejected"] /\ endpoints[e].state # "none"
      BY <2>3
    <3> QED
      BY <2>1, <2>2, <3>1, EndpointRecordEdits
  <2>4. CASE ~ (endpoints[e].state \in {"pending", "available"} /\ endpoints[e].service = s)
    BY <2>1, <2>4
  <2> QED
    BY <2>3, <2>4
<1> HIDE DEF E
<1> QED
  BY <1>1, <1>2 DEF EndpointTypes, Existing

\* Deleting an endpoint makes none.
LEMMA DeletedEndpoint ==
    ASSUME EndpointTypes, NEW e \in Existing, endpoints' = Deleting(e)
    PROVE  EndpointTypes' /\ Existing' \subseteq Existing
<1> DEFINE n == [endpoints[e] EXCEPT !.state = "deleting"]
<1>1. e \in Endpoints /\ endpoints[e] \in EndpointRecords /\ endpoints[e].state # "none"
  BY DEF EndpointTypes, Existing
<1>2. {} \in Subnets \cup {{}}
  OBVIOUS
<1>3. n \in EndpointRecords
  BY <1>1, <1>2, EndpointRecordEdits
<1>4. endpoints' = [endpoints EXCEPT ![e] = n]
  BY DEF Deleting
<1> HIDE DEF n
<1> QED
  BY <1>1, <1>3, <1>4, ChangedEndpoint

\* The endpoint of the status gets the subnets (ModifyVpcEndpoint).
LEMMA ModifiedEndpoint ==
    ASSUME EndpointTypes, NEW e \in Endpoints, NEW x \in Subnets \cup {{}},
           endpoints' = [endpoints EXCEPT ![e].subnets = x]
    PROVE  EndpointTypes' /\ Existing' \subseteq Existing
<1> DEFINE n == [endpoints[e] EXCEPT !.subnets = x]
<1>1. endpoints[e] \in EndpointRecords
  BY DEF EndpointTypes
<1>2. n \in EndpointRecords /\ (n.state = "none" <=> endpoints[e].state = "none")
  BY <1>1, EndpointRecordEdits
<1>3. endpoints' = [endpoints EXCEPT ![e] = n]
  OBVIOUS
<1> HIDE DEF n
<1> QED
  BY <1>2, <1>3, ChangedEndpoint

\* AWS makes progress with an endpoint, or someone else deletes one.
LEMMA AWSEndpoints ==
    ASSUME EndpointTypes,
           OutOfBandDeletion \/ \E e \in Endpoints : EndpointAvailable(e) \/ EndpointDeleted(e)
    PROVE  EndpointTypes' /\ Existing' \subseteq Existing
<1>1. ASSUME NEW e \in Endpoints, EndpointAvailable(e) PROVE EndpointTypes' /\ Existing' \subseteq Existing
  <2> DEFINE n == [endpoints[e] EXCEPT !.state = "available"]
  <2>1. endpoints[e] \in EndpointRecords /\ endpoints[e].state # "none"
    BY <1>1 DEF EndpointTypes, EndpointAvailable
  <2>2. {} \in Subnets \cup {{}}
    OBVIOUS
  <2>3. n \in EndpointRecords
    BY <2>1, <2>2, EndpointRecordEdits
  <2>4. endpoints' = [endpoints EXCEPT ![e] = n]
    BY <1>1 DEF EndpointAvailable
  <2> HIDE DEF n
  <2> QED
    BY <2>1, <2>3, <2>4, ChangedEndpoint
<1>2. ASSUME NEW e \in Endpoints, EndpointDeleted(e) PROVE EndpointTypes' /\ Existing' \subseteq Existing
  <2>1. NoEndpoint \in EndpointRecords /\ NoEndpoint.state = "none"
    BY DEF NoEndpoint, EndpointRecords
  <2>2. endpoints' = [endpoints EXCEPT ![e] = NoEndpoint]
    BY <1>2 DEF EndpointDeleted
  <2> QED
    BY <2>1, <2>2, ChangedEndpoint
<1>3. CASE OutOfBandDeletion
  <2>1. endpoints' = Rejected(service) \/ \E e \in Existing : endpoints' = Deleting(e)
    BY <1>3 DEF OutOfBandDeletion
  <2> QED
    BY <2>1, RejectedEndpoints, DeletedEndpoint
<1> QED
  BY <1>1, <1>2, <1>3

----------------------------------------------------------------------------
(* The reconciles *)

\* A reconcile of the HO on its way to a status write.
HOEditing(pass) ==
    \E pc \in {"permissions", "status"}, o \in CRs :
        pass = At(pc, ho.base, o) /\ Same(o, ho.base)

\* Whether a call of the HyperShift operator fails or not, its reconcile is on its way to a
\* status write.
LEMMA HOFailedEdits ==
    ASSUME ObjectTypes, NEW o \in CRs, Same(o, ho.base)
    PROVE  HOEditing(HOFailed(o)) /\ HOEditing(HOGoesOn(o))
<1> DEFINE f == [o EXCEPT !.serviceUp = FALSE]
<1>1. f \in CRs /\ Same(f, o)
  <2>1. PICK x : x \in Subnets
    BY SubnetsAssumption
  <2>2. 0 \in Services \cup {0} /\ FALSE \in BOOLEAN
    OBVIOUS
  <2> QED
    BY <2>1, <2>2, ServiceEdits
<1>2. HOFailed(o) = At("status", ho.base, f)
  BY DEF HOFailed
<1> HIDE DEF f
<1>3. Same(f, ho.base)
  BY <1>1 DEF Same
<1> QED
  BY <1>1, <1>2, <1>3 DEF HOEditing, HOGoesOn

\* The HO's calls to AWS (reconcileAWSEndpointServiceStatus) edit the status only.
LEMMA HOCalls ==
    ASSUME Types, HOInv,
           reconcileAWSEndpointServiceStatus \/ HOPermissions \/ HOCallFails
    PROVE  HOEditing(ho') /\ ho.pc \in {"service", "permissions"}
<1>1. ho.pc \in {"service", "permissions"}
  BY DEF reconcileAWSEndpointServiceStatus, HOPermissions, HOCallFails
<1>2. ObjectTypes /\ ho.obj \in CRs /\ Same(ho.obj, ho.base)
  BY <1>1, PassFields DEF Types, HOInv
<1>3. PICK x : x \in Subnets
  BY SubnetsAssumption
<1>4. ASSUME NEW s \in Services \cup {0}
      PROVE  /\ HOEditing(HOFailed([ho.obj EXCEPT !.service = s]))
             /\ HOEditing(HOGoesOn([ho.obj EXCEPT !.service = s]))
  <2> DEFINE o == [ho.obj EXCEPT !.service = s]
  <2>1. TRUE \in BOOLEAN
    OBVIOUS
  <2>2. o \in CRs /\ Same(o, ho.obj)
    BY <1>2, <1>3, <2>1, ServiceEdits
  <2> HIDE DEF o
  <2>3. Same(o, ho.base)
    BY <1>2, <2>2 DEF Same
  <2>4. HOEditing(HOFailed(o)) /\ HOEditing(HOGoesOn(o))
    BY <1>2, <2>2, <2>3, HOFailedEdits
  <2> QED
    BY <2>4 DEF o
<1>5. HOEditing(HOFailed(ho.obj)) /\ HOEditing(HOGoesOn(ho.obj))
  BY <1>2, HOFailedEdits
<1>6. CASE reconcileAWSEndpointServiceStatus
  <2>1. 0 \in Services \cup {0} /\ service \in Services \cup {0}
    BY DEF Types, AWSTypes
  <2>2. nextService <= MaxServices => nextService \in Services \cup {0}
    BY BoundsAssumption DEF Types, AWSTypes, Services
  <2>3. \/ ho' = HOGoesOn(ho.obj) \/ ho' = HOFailed(ho.obj)
        \/ ho' = HOFailed([ho.obj EXCEPT !.service = 0])
        \/ ho' = HOGoesOn([ho.obj EXCEPT !.service = service])
        \/ nextService <= MaxServices /\ ho' = HOGoesOn([ho.obj EXCEPT !.service = nextService])
    BY <1>6 DEF reconcileAWSEndpointServiceStatus
  <2> QED
    BY <1>1, <1>4, <1>5, <2>1, <2>2, <2>3
<1>7. CASE HOPermissions
  <2> DEFINE o == [ho.obj EXCEPT !.serviceUp = TRUE]
  <2>1. 0 \in Services \cup {0} /\ TRUE \in BOOLEAN
    OBVIOUS
  <2>2. o \in CRs /\ Same(o, ho.obj)
    BY <1>2, <1>3, <2>1, ServiceEdits
  <2>3. ho' = At("status", ho.base, o) \/ ho' = HOFailed(ho.obj)
    BY <1>7 DEF HOPermissions
  <2> HIDE DEF o
  <2>4. HOEditing(At("status", ho.base, o))
    BY <1>2, <2>2 DEF Same, HOEditing
  <2> QED
    BY <1>1, <1>5, <2>3, <2>4
<1>8. CASE HOCallFails
  BY <1>1, <1>5, <1>8 DEF HOCallFails
<1> QED
  BY <1>6, <1>7, <1>8

\* A reconcile of the CPO on its way to a status write.
CPOEditing(pass) ==
    \E pc \in {"endpoint", "dns", "status"}, o \in CRs :
        pass = At(pc, cpo.base, o) /\ Same(o, cpo.base)

\* A reconcile of the CPO whose call failed is on its way to a status write.
LEMMA CPOFailedEdits ==
    ASSUME ObjectTypes, NEW o \in CRs, Same(o, cpo.base)
    PROVE  CPOEditing(CPOFailed(o))
<1> DEFINE f == [o EXCEPT !.endpointUp = FALSE]
<1>1. f \in CRs /\ Same(f, o)
  <2>1. 0 \in Endpoints \cup {0}
    OBVIOUS
  <2> QED
    BY <2>1, EndpointEdits
<1>2. CPOFailed(o) = At("status", cpo.base, f)
  BY DEF CPOFailed
<1> HIDE DEF f
<1>3. Same(f, cpo.base)
  BY <1>1 DEF Same
<1> QED
  BY <1>1, <1>2, <1>3 DEF CPOEditing

\* So is one that has found or made its endpoint.
LEMMA GoesOnEdits ==
    ASSUME ObjectTypes, cpo.obj \in CRs, Same(cpo.obj, cpo.base), NEW e \in Endpoints,
           NEW pass \in GoesOnWith(e)
    PROVE  CPOEditing(pass)
<1> DEFINE d == [cpo.obj EXCEPT !.endpoint = e]
           u == [cpo.obj EXCEPT !.endpoint = e, !.endpointUp = TRUE]
<1>1. e \in Endpoints \cup {0}
  OBVIOUS
<1>2. d \in CRs /\ Same(d, cpo.obj)
  BY <1>1, EndpointEdits
<1>3. u \in CRs /\ Same(u, cpo.obj)
  BY <1>1, EndpointEdits
<1>4. pass = At("dns", cpo.base, d) \/ pass = At("status", cpo.base, u)
  BY DEF GoesOnWith
<1> HIDE DEF d, u
<1>5. Same(d, cpo.base) /\ Same(u, cpo.base)
  BY <1>2, <1>3 DEF Same
<1> QED
  BY <1>2, <1>3, <1>4, <1>5 DEF CPOEditing

\* The CPO's calls to AWS (reconcileAWSEndpointService and what follows it) edit the
\* status only.
LEMMA CPOCalls ==
    ASSUME Types, CPOInv,
           \/ reconcileAWSEndpointSecurityGroup \/ CPOCheckEndpoint \/ CPOFindEndpoint
           \/ CPORecord \/ CPOCallFails
    PROVE  CPOEditing(cpo') /\ cpo.pc \in {"securityGroup", "endpoint", "dns"}
<1>1. cpo.pc \in {"securityGroup", "endpoint", "dns"}
  BY DEF reconcileAWSEndpointSecurityGroup, CPOCheckEndpoint, CPOFindEndpoint, CPORecord,
         CPOCallFails
<1>2. ObjectTypes /\ cpo.obj \in CRs /\ Same(cpo.obj, cpo.base)
  BY <1>1, PassFields DEF Types, CPOInv
<1>3. cpo.obj.endpoint \in Endpoints \cup {0} /\ 0 \in Endpoints \cup {0}
  BY <1>2, CRFields
<1>4. CPOEditing(CPOFailed(cpo.obj))
  BY <1>2, CPOFailedEdits
<1>5. \A e \in Endpoints : \A pass \in GoesOnWith(e) : CPOEditing(pass)
  BY <1>2, GoesOnEdits
<1>6. CASE reconcileAWSEndpointSecurityGroup
  <2> DEFINE o == [cpo.obj EXCEPT !.sg = TRUE]
  <2>1. o \in CRs /\ Same(o, cpo.obj)
    BY <1>2, <1>3, EndpointEdits
  <2>2. cpo' = At("endpoint", cpo.base, o)
    BY <1>6 DEF reconcileAWSEndpointSecurityGroup
  <2> HIDE DEF o
  <2> QED
    BY <1>1, <1>2, <2>1, <2>2 DEF CPOEditing, Same
<1>7. CASE CPOCheckEndpoint
  <2> DEFINE o == [cpo.obj EXCEPT !.endpoint = 0]
  <2>1. o \in CRs /\ Same(o, cpo.obj)
    BY <1>2, <1>3, EndpointEdits
  <2>2. \/ cpo' = CPOFailed(o) \/ cpo' = CPOFailed(cpo.obj)
        \/ \E e \in Endpoints : cpo' \in GoesOnWith(e)
    BY <1>3, <1>7 DEF CPOCheckEndpoint
  <2> HIDE DEF o
  <2>3. Same(o, cpo.base)
    BY <1>2, <2>1 DEF Same
  <2>4. CPOEditing(CPOFailed(o))
    BY <1>2, <2>1, <2>3, CPOFailedEdits
  <2> QED
    BY <1>1, <1>4, <1>5, <2>2, <2>4
<1>8. CASE CPOFindEndpoint
  <2>1. nextEndpoint <= MaxEndpoints => nextEndpoint \in Endpoints
    BY BoundsAssumption DEF Types, AWSTypes, Endpoints
  <2>2. \/ cpo' = CPOFailed(cpo.obj)
        \/ \E e \in Endpoints : cpo' \in GoesOnWith(e)
    BY <2>1, <1>8 DEF CPOFindEndpoint, Existing
  <2> QED
    BY <1>1, <1>4, <1>5, <2>2
<1>9. CASE CPORecord
  <2> DEFINE o == [cpo.obj EXCEPT !.dns = TRUE, !.endpointUp = TRUE]
  <2>1. o \in CRs /\ Same(o, cpo.obj)
    BY <1>2, <1>3, EndpointEdits
  <2>2. cpo' = At("status", cpo.base, o)
    BY <1>9 DEF CPORecord
  <2> HIDE DEF o
  <2> QED
    BY <1>1, <1>2, <2>1, <2>2 DEF CPOEditing, Same
<1>10. CASE CPOCallFails
  BY <1>1, <1>4, <1>10 DEF CPOCallFails
<1> QED
  BY <1>6, <1>7, <1>8, <1>9, <1>10

\* What the CPO does to the endpoints: one comes into being only when there is none.
LEMMA CPOEndpoints ==
    ASSUME Types, CPOCheckEndpoint \/ CPOFindEndpoint \/ CPODelete
    PROVE  /\ EndpointTypes'
           /\ \/ Existing' \subseteq Existing
              \/ Existing = {} /\ Existing' \subseteq {nextEndpoint} /\ CPOFindEndpoint
<1>1. EndpointTypes /\ cpo.obj \in CRs
  BY PassFields DEF Types, AWSTypes, EndpointTypes
<1>2. cpo.obj.endpoint \in Endpoints \cup {0} /\ cpo.obj.subnets \in Subnets \cup {{}}
  BY <1>1, CRFields
<1>3. CASE endpoints' = endpoints
  BY <1>1, <1>3 DEF EndpointTypes, Existing
<1>4. CASE CPOCheckEndpoint
  <2>1. cpo.obj.endpoint \in Endpoints
    BY <1>2, <1>4 DEF CPOCheckEndpoint
  <2>2. \/ endpoints' = endpoints
        \/ cpo.obj.endpoint \in Existing /\ endpoints' = Deleting(cpo.obj.endpoint)
        \/ endpoints' = [endpoints EXCEPT ![cpo.obj.endpoint].subnets = cpo.obj.subnets]
    BY <2>1, <1>4 DEF CPOCheckEndpoint, Existing
  <2> QED
    BY <1>1, <1>2, <1>3, <2>1, <2>2, DeletedEndpoint, ModifiedEndpoint
<1>5. CASE CPOFindEndpoint
  <2> DEFINE n == [state |-> "pending", service |-> service, subnets |-> cpo.obj.subnets]
  <2>1. n \in EndpointRecords
    BY <1>2 DEF EndpointRecords, Types, AWSTypes
  <2>2. nextEndpoint <= MaxEndpoints => nextEndpoint \in Endpoints
    BY BoundsAssumption DEF Types, AWSTypes, Endpoints
  <2>3. \/ endpoints' = endpoints
        \/ \E e \in Existing : endpoints' = Deleting(e)
        \/ /\ Existing = {} /\ nextEndpoint <= MaxEndpoints
           /\ endpoints' = [endpoints EXCEPT ![nextEndpoint] = n]
    BY <1>5 DEF CPOFindEndpoint
  <2> HIDE DEF n
  <2>4. ASSUME Existing = {}, nextEndpoint \in Endpoints,
               endpoints' = [endpoints EXCEPT ![nextEndpoint] = n]
        PROVE  EndpointTypes' /\ Existing' \subseteq {nextEndpoint}
    <3>1. EndpointTypes'
      BY <1>1, <2>1, <2>4 DEF EndpointTypes
    <3>2. ASSUME NEW e \in Endpoints, e # nextEndpoint PROVE e \notin Existing'
      BY <1>1, <2>4, <3>2 DEF EndpointTypes, Existing
    <3> QED
      BY <3>1, <3>2 DEF Existing
  <2> QED
    BY <1>1, <1>3, <1>5, <2>2, <2>3, <2>4, DeletedEndpoint
<1>6. CASE CPODelete
  <2>1. \/ endpoints' = endpoints
        \/ cr.endpoint \in Existing /\ endpoints' = Deleting(cr.endpoint)
    BY <1>6 DEF CPODelete
  <2> QED
    BY <1>1, <1>3, <2>1, DeletedEndpoint
<1> QED
  BY <1>4, <1>5, <1>6

\* A reconcile adds the finalizer (HOReconcile, CPOReconcile) and reads the object.
LEMMA HOReads ==
    ASSUME Types, HOReconcile
    PROVE  /\ cr' \in CRs /\ cr'.exists /\ cr'.ho /\ cr'.cpo = cr.cpo
           /\ ho' = Idle \/ ho' = At("spec", cr', cr')
<1>1. cr \in CRs /\ cr.exists /\ cr' = [cr EXCEPT !.ho = TRUE] /\ TRUE \in BOOLEAN
  BY DEF Types, ObjectTypes, HOReconcile
<1>2. cr' \in CRs /\ cr'.exists = cr.exists /\ cr'.ho = TRUE /\ cr'.cpo = cr.cpo
  BY <1>1, HOFinalizer
<1> QED
  BY <1>1, <1>2 DEF HOReconcile

\* A reconcile of the CPO begins with its finalizer on the object.
LEMMA CPOReads ==
    ASSUME Types, CPOReconcile
    PROVE  /\ cr' \in CRs /\ cr'.exists /\ cr'.cpo /\ cr'.ho = cr.ho
           /\ cpo' = Idle \/ cpo' = At("securityGroup", cr', cr')
<1>1. cr \in CRs /\ cr.exists /\ cr' = [cr EXCEPT !.cpo = TRUE] /\ TRUE \in BOOLEAN
  BY DEF Types, ObjectTypes, CPOReconcile
<1>2. cr' \in CRs /\ cr'.exists = cr.exists /\ cr'.cpo = TRUE /\ cr'.ho = cr.ho
  BY <1>1, CPOFinalizer
<1> QED
  BY <1>1, <1>2 DEF CPOReconcile

\* The HO writes the subnets of the NodePools and reads the object again (HOSpec).
LEMMA HOSpecEffect ==
    ASSUME Types, HOSpec
    PROVE  /\ cr' \in CRs /\ Same(cr', cr)
           /\ ho' = Idle \/ ho' = At("service", cr', cr')
<1>1. cr \in CRs /\ subnets \in Subnets /\ 0 \in Services \cup {0} /\ TRUE \in BOOLEAN
  BY DEF Types, ObjectTypes, UserTypes
<1>2. CASE cr' = [cr EXCEPT !.subnets = subnets] /\ ho' = At("service", cr', cr')
  BY <1>1, <1>2, ServiceEdits
<1>3. CASE cr' = cr /\ ho' = Idle
  BY <1>1, <1>3 DEF Same
<1> QED
  BY <1>2, <1>3 DEF HOSpec

\* The write at the end of a reconcile (HOWrite, CPOWrite): no other finalizer goes than
\* the writer's own, and only at the end of its deletion.
LEMMA HOWriteEffect ==
    ASSUME Types, ObjectInv, HOInv, HOWrite
    PROVE  /\ cr' \in CRs /\ cr'.cpo = cr.cpo
           /\ cr'.ho \/ cr'.cpo => cr'.exists
           /\ cr.ho /\ ~ cr'.ho => ho.pc = "unfinalize" /\ cr = ho.base
<1>1. /\ cr \in CRs /\ ho.obj \in CRs /\ cr.ho \in BOOLEAN
      /\ ho.obj.ho \in BOOLEAN /\ ho.obj.cpo \in BOOLEAN
  BY PassFields, CRFields DEF Types, ObjectTypes
<1>2. CASE cr = ho.base
  <2>1. cr' = Stored(ho.obj)
    BY <1>2 DEF HOWrite, WriteBack
  <2>2. /\ cr' \in CRs /\ cr'.ho = ho.obj.ho /\ cr'.cpo = ho.obj.cpo
        /\ ho.obj.ho \/ ho.obj.cpo => cr'.exists = ho.obj.exists
    BY <1>1, <2>1, StoredFields
  <2>3. CASE ho.pc = "status"
    BY <1>1, <1>2, <2>2, <2>3 DEF HOInv, Same, ObjectInv
  <2>4. CASE ho.pc = "unfinalize"
    BY <1>1, <1>2, <2>2, <2>4 DEF HOInv, ObjectInv
  <2> QED
    BY <2>3, <2>4 DEF HOWrite
<1>3. CASE cr # ho.base
  <2>1. cr' = cr
    BY <1>3 DEF HOWrite, WriteBack
  <2> QED
    BY <1>1, <2>1 DEF ObjectInv
<1> QED
  BY <1>2, <1>3

\* A write of the CPO keeps the other operator's finalizer, and takes its own away only at the
\* end of a deletion, from the object as it was read.
LEMMA CPOWriteEffect ==
    ASSUME Types, ObjectInv, CPOInv, CPOWrite
    PROVE  /\ cr' \in CRs /\ cr'.ho = cr.ho
           /\ cr'.ho \/ cr'.cpo => cr'.exists
           /\ cr.cpo /\ ~ cr'.cpo => cpo.pc = "unfinalize" /\ cr = cpo.base
<1>1. /\ cr \in CRs /\ cpo.obj \in CRs /\ cr.cpo \in BOOLEAN
      /\ cpo.obj.ho \in BOOLEAN /\ cpo.obj.cpo \in BOOLEAN
  BY PassFields, CRFields DEF Types, ObjectTypes
<1>2. CASE cr = cpo.base
  <2>1. cr' = Stored(cpo.obj)
    BY <1>2 DEF CPOWrite, WriteBack
  <2>2. /\ cr' \in CRs /\ cr'.ho = cpo.obj.ho /\ cr'.cpo = cpo.obj.cpo
        /\ cpo.obj.ho \/ cpo.obj.cpo => cr'.exists = cpo.obj.exists
    BY <1>1, <2>1, StoredFields
  <2>3. CASE cpo.pc = "status"
    BY <1>1, <1>2, <2>2, <2>3 DEF CPOInv, Same, ObjectInv
  <2>4. CASE cpo.pc = "unfinalize"
    BY <1>1, <1>2, <2>2, <2>4 DEF CPOInv, ObjectInv
  <2> QED
    BY <2>3, <2>4 DEF CPOWrite
<1>3. CASE cr # cpo.base
  <2>1. cr' = cr
    BY <1>3 DEF CPOWrite, WriteBack
  <2> QED
    BY <1>1, <2>1 DEF ObjectInv
<1> QED
  BY <1>2, <1>3

\* The HostedCluster controller deletes the object, or takes the CPO's finalizer when
\* it has given up on it (deleteAWSEndpointServices).
LEMMA ObjectDeleted ==
    ASSUME Types, ObjectInv, deleteAWSEndpointServices
    PROVE  /\ cr' \in CRs /\ cr'.ho = cr.ho
           /\ cr'.ho \/ cr'.cpo => cr'.exists
           /\ cr.cpo /\ ~ cr'.cpo => strip
<1>1. cr \in CRs /\ cr.exists /\ FALSE \in BOOLEAN
  BY DEF Types, ObjectTypes, deleteAWSEndpointServices
<1>2. CASE cr' = Stored([cr EXCEPT !.deleting = TRUE])
  <2> DEFINE o == [cr EXCEPT !.deleting = TRUE]
  <2>1. o \in CRs /\ Same(o, cr)
    BY <1>1, Marked
  <2> HIDE DEF o
  <2>2. cr' = Stored(o)
    BY <1>2 DEF o
  <2> QED
    BY <1>1, <2>1, <2>2, StoredFields DEF Same
<1>3. CASE strip /\ cr' = Stored([cr EXCEPT !.cpo = FALSE])
  <2> DEFINE o == [cr EXCEPT !.cpo = FALSE]
  <2>1. o \in CRs /\ o.exists = cr.exists /\ o.ho = cr.ho /\ o.cpo = FALSE
    BY <1>1, CPOFinalizer
  <2> HIDE DEF o
  <2>2. cr' = Stored(o)
    BY <1>3 DEF o
  <2> QED
    BY <1>1, <1>3, <2>1, <2>2, StoredFields
<1> QED
  BY <1>2, <1>3 DEF deleteAWSEndpointServices

\* The HO's deletion (delete): the finalizer goes once the service of the status is gone.
LEMMA HODeleteEffect ==
    ASSUME Types, HODelete
    PROVE  /\ ho.pc = "idle"
           /\ \/ ho' = ho
              \/ /\ ho' = Unfinalized(cr)
                 /\ cr.service = 0 \/ service' # cr.service
           /\ service' = service \/ service' = 0
           /\ endpoints' = endpoints \/ endpoints' = Rejected(service)
<1>1. cr.service \in Services \cup {0} /\ Services \subseteq Nat /\ 0 \notin Services
  BY CRFields, BoundsAssumption DEF Types, ObjectTypes, Services
<1>2. CASE cr.service = 0 \/ service # cr.service
  BY <1>2 DEF HODelete
<1>3. CASE cr.service # 0 /\ service = cr.service
  BY <1>1, <1>3 DEF HODelete
<1> QED
  BY <1>2, <1>3

\* The finalizers in the copy that a deletion writes.
LEMMA UnfinalizedFields ==
    ASSUME NEW c \in CRs, NEW p, NEW q, p = Unfinalized(c), q = CPOUnfinalized(c)
    PROVE  /\ p \in HOPasses /\ p.pc = "unfinalize" /\ p.base = c
           /\ p.obj.exists = c.exists /\ p.obj.cpo = c.cpo /\ ~ p.obj.ho
           /\ q \in CPOPasses /\ q.pc = "unfinalize" /\ q.base = c
           /\ q.obj.exists = c.exists /\ q.obj.ho = c.ho /\ ~ q.obj.cpo
<1> DEFINE o == [c EXCEPT !.ho = FALSE]
           d == [c EXCEPT !.cpo = FALSE]
<1>1. o \in CRs /\ o.exists = c.exists /\ o.cpo = c.cpo /\ o.ho = FALSE
  BY HOFinalizer
<1>2. d \in CRs /\ d.exists = c.exists /\ d.ho = c.ho /\ d.cpo = FALSE
  BY CPOFinalizer
<1>3. p = At("unfinalize", c, o) /\ q = At("unfinalize", c, d)
  BY DEF Unfinalized, CPOUnfinalized
<1> HIDE DEF o, d
<1>4. p \in HOPasses /\ p.pc = "unfinalize" /\ p.base = c /\ p.obj = o
  BY <1>1, <1>3, AtFields
<1>5. q \in CPOPasses /\ q.pc = "unfinalize" /\ q.base = c /\ q.obj = d
  BY <1>2, <1>3, AtFields
<1> QED
  BY <1>1, <1>2, <1>4, <1>5

----------------------------------------------------------------------------
(* Every step keeps the invariant *)

\* What the user, the load balancer and the bounds are is kept.
LEMMA StepUser == Types /\ [Next]_vars => UserTypes'
<1> SUFFICES ASSUME Types, [Next]_vars PROVE UserTypes'
  OBVIOUS
<1>1. faults' \in 0..MaxFaults
  <2>1. faults \in 0..MaxFaults
    BY DEF Types, UserTypes
  <2>2. faults' = faults \/ Fault
    BY DEF Next, vars, AWSStep, HCStep, HOStep, CPOStep, ChangeSubnets, DeleteHostedCluster,
           OutOfBandDeletion, ObserveService, HOCallFails, CPOCallFails, HORestart, CPORestart,
           LoadBalancerProgress, EndpointAvailable, EndpointDeleted, DeleteHostedControlPlane,
           deleteAWSEndpointServices, GracePeriodEnds, HOReconcile, HOSpec,
           reconcileAWSEndpointServiceStatus, HOPermissions, HOWrite, HODelete, CPOReconcile,
           reconcileAWSEndpointSecurityGroup, CPOCheckEndpoint, CPOFindEndpoint, CPORecord,
           CPOWrite, CPODelete, deleteSecurityGroup, CPODeleteRecord
  <2> QED
    BY <2>1, <2>2, BoundsAssumption DEF Fault
<1>2. CASE UNCHANGED <<hc, hcp, subnets, strip, lb>>
  BY <1>1, <1>2 DEF Types, UserTypes
<1>3. CASE ChangeSubnets
  BY <1>1, <1>3 DEF Types, UserTypes, ChangeSubnets, awsVars
<1>4. CASE DeleteHostedCluster
  BY <1>1, <1>4 DEF Types, UserTypes, DeleteHostedCluster, awsVars
<1>5. CASE DeleteHostedControlPlane
  BY <1>1, <1>5 DEF Types, UserTypes, DeleteHostedControlPlane, awsVars
<1>6. CASE GracePeriodEnds
  BY <1>1, <1>6 DEF Types, UserTypes, GracePeriodEnds, awsVars
<1>7. CASE LoadBalancerProgress
  BY <1>1, <1>7 DEF Types, UserTypes, LoadBalancerProgress, awsUnchanged
<1>8. CASE \/ UNCHANGED vars \/ OutOfBandDeletion \/ ObserveService \/ HOCallFails
           \/ CPOCallFails \/ HORestart \/ CPORestart \/ deleteAWSEndpointServices
           \/ HOStep \/ CPOStep \/ \E e \in Endpoints : EndpointAvailable(e) \/ EndpointDeleted(e)
  <2>1. UNCHANGED <<hc, hcp, subnets, strip, lb>>
    BY <1>8 DEF vars, awsVars, userVars, awsUnchanged, hoUnchanged, cpoUnchanged, HOStep, CPOStep,
           OutOfBandDeletion, ObserveService, HOCallFails, CPOCallFails, HORestart, CPORestart,
           EndpointAvailable, EndpointDeleted, deleteAWSEndpointServices, HOReconcile, HOSpec,
           reconcileAWSEndpointServiceStatus, HOPermissions, HOWrite, HODelete, CPOReconcile,
           reconcileAWSEndpointSecurityGroup, CPOCheckEndpoint, CPOFindEndpoint, CPORecord,
           CPOWrite, CPODelete, deleteSecurityGroup, CPODeleteRecord
  <2> QED
    BY <1>2, <2>1
<1> QED
  BY <1>3, <1>4, <1>5, <1>6, <1>7, <1>8 DEF Next, AWSStep, HCStep

\* The object keeps its type, and a finalizer goes only as the properties say.
LEMMA StepObject ==
    ASSUME IInv, [Next]_vars
    PROVE  /\ cr' \in CRs /\ ObjectInv'
           /\ cr.ho /\ ~ cr'.ho => cr.service = 0 \/ service # cr.service
           /\ cr.cpo /\ ~ cr'.cpo /\ clients => strip \/ Cleaned
<1>t. Types /\ ObjectInv /\ HOInv /\ CPOInv /\ cr \in CRs
  BY DEF IInv, Types, ObjectTypes
<1>1. CASE cr' = cr
  BY <1>1, <1>t DEF ObjectInv
<1>2. CASE deleteAWSEndpointServices
  BY <1>2, <1>t, ObjectDeleted DEF ObjectInv
<1>3. CASE ObserveService
  <2>1. cr' = [NoCR EXCEPT !.exists = TRUE] /\ ~ cr.exists
    BY <1>3 DEF ObserveService
  <2>2. cr' \in CRs /\ cr'.exists
    BY <2>1, IdleTypes, Created
  <2> QED
    BY <1>t, <2>1, <2>2 DEF ObjectInv
<1>4. CASE HOReconcile
  BY <1>4, <1>t, HOReads DEF ObjectInv
<1>5. CASE HOSpec
  BY <1>5, <1>t, HOSpecEffect DEF ObjectInv, Same
<1>6. CASE HOWrite
  BY <1>6, <1>t, HOWriteEffect DEF ObjectInv, HOInv
<1>7. CASE CPOReconcile
  BY <1>7, <1>t, CPOReads DEF ObjectInv
<1>8. CASE CPOWrite
  <2>1. cr.cpo /\ ~ cr'.cpo /\ clients => Cleaned
    BY <1>8, <1>t, CPOWriteEffect DEF CPOInv, Cleaned
  <2> QED
    BY <1>8, <1>t, <2>1, CPOWriteEffect DEF ObjectInv
<1>9. CASE \/ UNCHANGED vars \/ ChangeSubnets \/ DeleteHostedCluster \/ OutOfBandDeletion
           \/ HOCallFails \/ CPOCallFails \/ HORestart \/ CPORestart
           \/ AWSStep \/ DeleteHostedControlPlane \/ GracePeriodEnds
           \/ reconcileAWSEndpointServiceStatus \/ HOPermissions \/ HODelete
           \/ reconcileAWSEndpointSecurityGroup \/ CPOCheckEndpoint \/ CPOFindEndpoint
           \/ CPORecord \/ CPODelete \/ deleteSecurityGroup \/ CPODeleteRecord
  <2>1. cr' = cr
    BY <1>9 DEF vars, awsUnchanged, AWSStep, ChangeSubnets, DeleteHostedCluster,
           OutOfBandDeletion, HOCallFails, CPOCallFails, HORestart, CPORestart,
           LoadBalancerProgress, EndpointAvailable, EndpointDeleted, DeleteHostedControlPlane,
           GracePeriodEnds, reconcileAWSEndpointServiceStatus, HOPermissions, HODelete,
           reconcileAWSEndpointSecurityGroup, CPOCheckEndpoint, CPOFindEndpoint, CPORecord,
           CPODelete, deleteSecurityGroup, CPODeleteRecord
  <2> QED
    BY <1>1, <2>1
<1> QED
  BY <1>2, <1>3, <1>4, <1>5, <1>6, <1>7, <1>8, <1>9 DEF Next, HCStep, HOStep, CPOStep

\* The HO's reconcile: what its deletion found gone stays gone, for only the HO
\* creates services.
LEMMA StepHO ==
    ASSUME IInv, [Next]_vars
    PROVE  ho' \in HOPasses /\ HOInv'
<1>t. Types /\ HOInv /\ ho \in HOPasses /\ cr \in CRs /\ cr' \in CRs
  BY StepObject DEF IInv, Types, ObjectTypes
<1>0. CASE ho' = Idle
  BY <1>0, IdleTypes DEF HOInv
<1>1. CASE ho' = ho /\ (service' = service \/ service' = 0)
  BY <1>1, <1>t DEF HOInv
<1>2. CASE HOReconcile
  <2>1. CASE ho' = At("spec", cr', cr')
    <3>1. ho' \in HOPasses /\ ho'.pc = "spec"
      BY <1>t, <2>1, AtFields
    <3> QED
      BY <3>1 DEF HOInv
  <2> QED
    BY <1>0, <1>2, <1>t, <2>1, HOReads
<1>3. CASE HOSpec
  <2>1. CASE ho' = At("service", cr', cr')
    <3>1. ho' \in HOPasses /\ ho'.pc = "service" /\ ho'.base = cr' /\ ho'.obj = cr'
      BY <1>t, <2>1, AtFields
    <3> QED
      BY <3>1 DEF HOInv, Same
  <2> QED
    BY <1>0, <1>3, <1>t, <2>1, HOSpecEffect
<1>4. CASE reconcileAWSEndpointServiceStatus \/ HOPermissions \/ HOCallFails
  <2>1. PICK pc \in {"permissions", "status"}, o \in CRs :
            ho' = At(pc, ho.base, o) /\ Same(o, ho.base)
    BY <1>4, <1>t, HOCalls DEF HOEditing
  <2>2. ho.base \in CRs
    BY <1>t, PassFields DEF Types
  <2>3. ho' \in HOPasses /\ ho'.pc = pc /\ ho'.base = ho.base /\ ho'.obj = o
    BY <2>1, <2>2, AtFields
  <2> QED
    BY <2>1, <2>3 DEF HOInv
<1>5. CASE HOWrite \/ HORestart
  BY <1>0, <1>5 DEF HOWrite, HORestart
<1>6. CASE HODelete
  <2>1. CASE ho' = Unfinalized(cr) /\ (cr.service = 0 \/ service' # cr.service)
    <3>1. /\ ho' \in HOPasses /\ ho'.pc = "unfinalize" /\ ho'.base = cr
          /\ ho'.obj.exists = cr.exists /\ ho'.obj.cpo = cr.cpo /\ ~ ho'.obj.ho
      BY <1>t, <2>1, UnfinalizedFields
    <3> QED
      BY <2>1, <3>1 DEF HOInv
  <2> QED
    BY <1>1, <1>6, <1>t, <2>1, HODeleteEffect
<1>7. CASE \/ UNCHANGED vars \/ ChangeSubnets \/ DeleteHostedCluster \/ OutOfBandDeletion
           \/ ObserveService \/ CPOCallFails \/ CPORestart \/ AWSStep \/ HCStep \/ CPOStep
  <2>1. ho' = ho /\ (service' = service \/ service' = 0)
    BY <1>7 DEF vars, awsVars, userVars, awsUnchanged, cpoUnchanged, AWSStep, HCStep, CPOStep,
           ChangeSubnets, DeleteHostedCluster, OutOfBandDeletion, ObserveService, CPOCallFails,
           CPORestart, LoadBalancerProgress, EndpointAvailable, EndpointDeleted,
           DeleteHostedControlPlane, deleteAWSEndpointServices, GracePeriodEnds, CPOReconcile,
           reconcileAWSEndpointSecurityGroup, CPOCheckEndpoint, CPOFindEndpoint, CPORecord,
           CPOWrite, CPODelete, deleteSecurityGroup, CPODeleteRecord
  <2> QED
    BY <1>1, <2>1
<1> QED
  BY <1>2, <1>3, <1>4, <1>5, <1>6, <1>7 DEF Next, HOStep

\* The endpoints: their types, and that no two exist.
LEMMA StepEndpoints ==
    ASSUME Types, One, [Next]_vars
    PROVE  /\ EndpointTypes' /\ One'
           /\ Existing' \subseteq Existing \/ CPOFindEndpoint
<1>t. EndpointTypes
  BY DEF Types, AWSTypes, EndpointTypes
<1>0. ASSUME EndpointTypes', Existing' \subseteq Existing
      PROVE  EndpointTypes' /\ One' /\ Existing' \subseteq Existing
  BY <1>0 DEF One
<1>1. CASE endpoints' = endpoints
  <2>1. EndpointTypes' /\ Existing' = Existing
    BY <1>1, <1>t DEF EndpointTypes, Existing
  <2> QED
    BY <1>0, <2>1
<1>2. CASE OutOfBandDeletion \/ \E e \in Endpoints : EndpointAvailable(e) \/ EndpointDeleted(e)
  BY <1>0, <1>2, <1>t, AWSEndpoints
<1>3. CASE HODelete
  BY <1>0, <1>1, <1>3, <1>t, HODeleteEffect, RejectedEndpoints
<1>4. CASE CPOCheckEndpoint \/ CPOFindEndpoint \/ CPODelete
  BY <1>0, <1>4, CPOEndpoints DEF One
<1>5. CASE \/ UNCHANGED vars \/ ChangeSubnets \/ DeleteHostedCluster \/ ObserveService
           \/ HOCallFails \/ CPOCallFails \/ HORestart \/ CPORestart
           \/ LoadBalancerProgress \/ HCStep
           \/ HOReconcile \/ HOSpec \/ reconcileAWSEndpointServiceStatus \/ HOPermissions \/ HOWrite
           \/ CPOReconcile \/ reconcileAWSEndpointSecurityGroup \/ CPORecord \/ CPOWrite
           \/ deleteSecurityGroup \/ CPODeleteRecord
  <2>1. endpoints' = endpoints
    BY <1>5 DEF vars, awsVars, HCStep, ChangeSubnets, DeleteHostedCluster, ObserveService,
           HOCallFails, CPOCallFails, HORestart, CPORestart, LoadBalancerProgress,
           DeleteHostedControlPlane, deleteAWSEndpointServices, GracePeriodEnds, HOReconcile, HOSpec,
           reconcileAWSEndpointServiceStatus, HOPermissions, HOWrite, CPOReconcile,
           reconcileAWSEndpointSecurityGroup, CPORecord, CPOWrite, deleteSecurityGroup,
           CPODeleteRecord
  <2> QED
    BY <1>1, <2>1
<1> QED
  BY <1>2, <1>3, <1>4, <1>5 DEF Next, AWSStep, HOStep, CPOStep

\* The rest of what AWS and the CPO's process hold.
LEMMA StepAWS ==
    ASSUME Types, One, [Next]_vars
    PROVE  AWSTypes'
<1>e. endpoints' \in [Endpoints -> EndpointRecords]
  BY StepEndpoints DEF EndpointTypes
<1>1. CASE UNCHANGED <<clients, sg, service, allowed, record, nextService, nextEndpoint>>
  BY <1>1, <1>e DEF Types, AWSTypes
<1>2. CASE OutOfBandDeletion \/ HODelete
  <2>1. /\ service' \in Services \cup {0}
        /\ UNCHANGED <<clients, sg, allowed, record, nextService, nextEndpoint>>
    BY <1>2, HODeleteEffect DEF Types, AWSTypes, OutOfBandDeletion, HODelete, awsUnchanged, hoUnchanged
  <2> QED
    BY <1>e, <2>1 DEF Types, AWSTypes
<1>3. CASE reconcileAWSEndpointServiceStatus \/ HOPermissions
  <2>1. /\ service' \in Services \cup {0} /\ allowed' \in Services \cup {0}
        /\ nextService' \in 1..(MaxServices + 1)
    BY <1>3, BoundsAssumption
       DEF Types, AWSTypes, Services, reconcileAWSEndpointServiceStatus, HOPermissions
  <2>2. UNCHANGED <<clients, sg, record, nextEndpoint>>
    BY <1>3 DEF reconcileAWSEndpointServiceStatus, HOPermissions, hoUnchanged
  <2> QED
    BY <1>e, <2>1, <2>2 DEF Types, AWSTypes
<1>4. CASE CPOFindEndpoint
  <2>1. nextEndpoint' \in 1..(MaxEndpoints + 1)
    BY SMTT(30), <1>4, BoundsAssumption DEF Types, AWSTypes, CPOFindEndpoint
  <2>2. UNCHANGED <<clients, sg, service, allowed, record, nextService>>
    BY <1>4 DEF CPOFindEndpoint, cpoUnchanged
  <2> QED
    BY <1>e, <2>1, <2>2 DEF Types, AWSTypes
<1>5. CASE CPOReconcile \/ CPORestart
  <2>1. clients' \in BOOLEAN
    BY <1>5 DEF Types, AWSTypes, CPOReconcile, CPORestart
  <2>2. UNCHANGED <<sg, service, allowed, record, nextService, nextEndpoint>>
    BY <1>5 DEF CPOReconcile, CPORestart, cpoUnchanged, awsVars
  <2> QED
    BY <1>e, <2>1, <2>2 DEF Types, AWSTypes
<1>6. CASE \/ reconcileAWSEndpointSecurityGroup \/ deleteSecurityGroup
           \/ CPORecord \/ CPODeleteRecord
  <2>1. sg' \in BOOLEAN
    BY <1>6 DEF Types, AWSTypes, reconcileAWSEndpointSecurityGroup, deleteSecurityGroup,
                CPORecord, CPODeleteRecord
  <2>2. record' \in Endpoints \cup {0}
    <3>1. cpo.obj.endpoint \in Endpoints \cup {0}
      BY PassFields, CRFields DEF Types
    <3> QED
      BY <1>6, <3>1 DEF Types, AWSTypes, reconcileAWSEndpointSecurityGroup, deleteSecurityGroup,
                        CPORecord, CPODeleteRecord
  <2>3. UNCHANGED <<clients, service, allowed, nextService, nextEndpoint>>
    BY <1>6 DEF reconcileAWSEndpointSecurityGroup, deleteSecurityGroup, CPORecord,
                CPODeleteRecord, cpoUnchanged
  <2> QED
    BY <1>e, <2>1, <2>2, <2>3 DEF Types, AWSTypes
<1>7. CASE \/ UNCHANGED vars \/ ChangeSubnets \/ DeleteHostedCluster \/ ObserveService
           \/ HOCallFails \/ CPOCallFails \/ HORestart \/ AWSStep \/ HCStep
           \/ HOReconcile \/ HOSpec \/ HOWrite
           \/ CPOCheckEndpoint \/ CPOWrite \/ CPODelete
  <2>1. UNCHANGED <<clients, sg, service, allowed, record, nextService, nextEndpoint>>
    BY <1>7 DEF vars, awsVars, awsUnchanged, hoUnchanged, cpoUnchanged, AWSStep, HCStep,
           ChangeSubnets, DeleteHostedCluster, ObserveService, HOCallFails, CPOCallFails, HORestart,
           LoadBalancerProgress, EndpointAvailable, EndpointDeleted, DeleteHostedControlPlane,
           deleteAWSEndpointServices, GracePeriodEnds, HOReconcile, HOSpec, HOWrite,
           CPOCheckEndpoint, CPOWrite, CPODelete
  <2> QED
    BY <1>1, <2>1
<1> QED
  BY <1>2, <1>3, <1>4, <1>5, <1>6, <1>7 DEF Next, HOStep, CPOStep

\* The CPO's reconcile: only the CPO creates endpoints, security group and record, and
\* it does not while it deletes them.
LEMMA StepCPO ==
    ASSUME IInv, [Next]_vars
    PROVE  cpo' \in CPOPasses /\ CPOInv'
<1>t. Types /\ One /\ CPOInv /\ cpo \in CPOPasses /\ cr \in CRs /\ cr' \in CRs
  BY StepObject DEF IInv, Types, ObjectTypes
<1>0. CASE cpo' = Idle
  BY <1>0, IdleTypes DEF CPOInv
<1>1. CASE cpo' = cpo /\ Existing' \subseteq Existing /\ UNCHANGED <<clients, sg, record>>
  BY <1>1, <1>t DEF CPOInv
<1>2. CASE CPOReconcile
  <2>1. CASE cpo' = At("securityGroup", cr', cr')
    <3>1. cpo' \in CPOPasses /\ cpo'.pc = "securityGroup" /\ cpo'.base = cr' /\ cpo'.obj = cr'
      BY <1>t, <2>1, AtFields
    <3> QED
      BY <3>1 DEF CPOInv, Same
  <2> QED
    BY <1>0, <1>2, <1>t, <2>1, CPOReads
<1>3. CASE \/ reconcileAWSEndpointSecurityGroup \/ CPOCheckEndpoint \/ CPOFindEndpoint
           \/ CPORecord \/ CPOCallFails
  <2>1. PICK pc \in {"endpoint", "dns", "status"}, o \in CRs :
            cpo' = At(pc, cpo.base, o) /\ Same(o, cpo.base)
    BY <1>3, <1>t, CPOCalls DEF CPOEditing
  <2>2. cpo.base \in CRs
    BY <1>t, PassFields DEF Types
  <2>3. cpo' \in CPOPasses /\ cpo'.pc = pc /\ cpo'.base = cpo.base /\ cpo'.obj = o
    BY <2>1, <2>2, AtFields
  <2> QED
    BY <2>1, <2>3 DEF CPOInv
<1>4. CASE CPOWrite \/ CPORestart
  BY <1>0, <1>4 DEF CPOWrite, CPORestart
<1>5. CASE CPODelete
  <2>e. Existing' \subseteq Existing /\ UNCHANGED <<clients, sg, record>>
    BY <1>5, <1>t, CPOEndpoints DEF CPODelete, CPOFindEndpoint
  <2>1. CASE ~ clients /\ cpo' = CPOUnfinalized(cr)
    <3>1. /\ cpo' \in CPOPasses /\ cpo'.pc = "unfinalize" /\ cpo'.base = cr
          /\ cpo'.obj.exists = cr.exists /\ cpo'.obj.ho = cr.ho /\ ~ cpo'.obj.cpo
      BY <1>t, <2>1, UnfinalizedFields
    <3> QED
      BY <2>e, <2>1, <3>1 DEF CPOInv
  <2>2. CASE cr.endpoint \notin Existing /\ cpo' = At("deleteSG", cr, cr)
    <3>1. cpo' \in CPOPasses /\ cpo'.pc = "deleteSG" /\ cpo'.base = cr
      BY <1>t, <2>2, AtFields
    <3> QED
      BY <2>e, <2>2, <3>1 DEF CPOInv
  <2>3. CASE cpo' = cpo
    BY <1>1, <2>e, <2>3
  <2> QED
    BY <1>5, <2>1, <2>2, <2>3 DEF CPODelete
<1>6. CASE deleteSecurityGroup
  <2>e. Existing' = Existing
    BY <1>6 DEF deleteSecurityGroup, Existing
  <2>1. CASE cpo' = [cpo EXCEPT !.pc = "deleteDNS"] /\ sg' = (sg /\ ~ cpo.base.sg)
    <3>1. cpo' \in CPOPasses /\ cpo'.pc = "deleteDNS" /\ cpo'.base = cpo.base
      BY <1>t, <2>1 DEF CPOPasses
    <3>2. cpo.base.endpoint \notin Existing
      BY <1>6, <1>t DEF deleteSecurityGroup, CPOInv
    <3>3. ~ (cpo.base.sg /\ sg')
      BY <2>1
    <3> QED
      BY <2>e, <3>1, <3>2, <3>3 DEF CPOInv
  <2> QED
    BY <1>0, <1>6, <2>1 DEF deleteSecurityGroup
<1>7. CASE CPODeleteRecord
  <2>e. Existing' = Existing /\ UNCHANGED <<clients, sg>>
    BY <1>7 DEF CPODeleteRecord, Existing
  <2>1. cpo.base \in CRs /\ cpo' = CPOUnfinalized(cpo.base)
    BY <1>7, <1>t, PassFields DEF Types, CPODeleteRecord
  <2>2. /\ cpo' \in CPOPasses /\ cpo'.pc = "unfinalize" /\ cpo'.base = cpo.base
        /\ cpo'.obj.exists = cpo.base.exists /\ cpo'.obj.ho = cpo.base.ho /\ ~ cpo'.obj.cpo
    BY <2>1, UnfinalizedFields
  <2>3. cpo.base.endpoint \notin Existing /\ ~ (cpo.base.sg /\ sg)
    BY <1>7, <1>t DEF CPODeleteRecord, CPOInv
  <2>4. ~ (cpo.base.dns /\ record' # 0)
    BY <1>7 DEF CPODeleteRecord
  <2> QED
    BY <2>e, <2>2, <2>3, <2>4 DEF CPOInv
<1>8. CASE \/ UNCHANGED vars \/ ChangeSubnets \/ DeleteHostedCluster \/ OutOfBandDeletion
           \/ ObserveService \/ HOCallFails \/ HORestart \/ AWSStep \/ HCStep \/ HOStep
  <2>1. cpo' = cpo /\ UNCHANGED <<clients, sg, record>>
    BY <1>8 DEF vars, awsVars, userVars, awsUnchanged, hoUnchanged, AWSStep, HCStep, HOStep,
           ChangeSubnets, DeleteHostedCluster, OutOfBandDeletion, ObserveService, HOCallFails,
           HORestart, LoadBalancerProgress, EndpointAvailable, EndpointDeleted,
           DeleteHostedControlPlane, deleteAWSEndpointServices, GracePeriodEnds, HOReconcile, HOSpec,
           reconcileAWSEndpointServiceStatus, HOPermissions, HOWrite, HODelete
  <2>2. CASE Existing' \subseteq Existing
    BY <1>1, <2>1, <2>2
  <2>3. CASE CPOFindEndpoint
    BY <1>3, <2>3
  <2> QED
    BY <1>t, <2>2, <2>3, StepEndpoints
<1> QED
  BY <1>2, <1>3, <1>4, <1>5, <1>6, <1>7, <1>8 DEF Next, CPOStep

----------------------------------------------------------------------------
(* The theorems *)

\* The invariant holds in the first states and every step keeps it.
LEMMA Inductive == Spec => []IInv
<1>1. Init => IInv
  <2> SUFFICES ASSUME Init PROVE IInv
    OBVIOUS
  <2>0. /\ hc = "present" /\ hcp = "present" /\ subnets \in Subnets /\ strip = FALSE
        /\ lb = "none" /\ faults = 0 /\ clients = FALSE /\ sg = FALSE
        /\ service = 0 /\ allowed = 0 /\ record = 0 /\ nextService = 1 /\ nextEndpoint = 1
    BY DEF Init
  <2>b. strip \in BOOLEAN /\ clients \in BOOLEAN /\ sg \in BOOLEAN
    BY <2>0
  <2>n. /\ faults \in 0..MaxFaults
        /\ nextService \in 1..(MaxServices + 1) /\ nextEndpoint \in 1..(MaxEndpoints + 1)
    BY <2>0, BoundsAssumption
  <2>1. UserTypes
    BY <2>0, <2>b, <2>n DEF UserTypes
  <2>2. ObjectTypes
    BY IdleTypes DEF Init, ObjectTypes
  <2>3. NoEndpoint \in EndpointRecords /\ NoEndpoint.state = "none"
    BY DEF NoEndpoint, EndpointRecords
  <2>4. AWSTypes
    <3>1. endpoints \in [Endpoints -> EndpointRecords]
      BY <2>3 DEF Init
    <3> QED
      BY <2>0, <2>b, <2>n, <3>1 DEF AWSTypes
  <2>5. One
    BY <2>3 DEF Init, One, Existing
  <2>6. ObjectInv /\ HOInv /\ CPOInv
    BY IdleTypes DEF Init, ObjectInv, HOInv, CPOInv
  <2> QED
    BY <2>1, <2>2, <2>4, <2>5, <2>6 DEF IInv, Types
<1>2. IInv /\ [Next]_vars => IInv'
  BY StepUser, StepObject, StepHO, StepCPO, StepAWS, StepEndpoints DEF IInv, Types, ObjectTypes
<1> QED
  BY <1>1, <1>2, PTL DEF Spec

\* The types of the object, of both operators' reconciles and of what AWS holds.
THEOREM PrivateLinkTypes == Spec => []TypeOK
<1>1. IInv => TypeOK
  BY DEF IInv, Types, UserTypes, ObjectTypes, AWSTypes, HOPasses, CPOPasses, EndpointRecords, TypeOK
<1> QED
  BY <1>1, Inductive, PTL

\* The guest VPC never has two endpoints of the object (reconcileAWSEndpointService),
\* for any number of services, endpoints, failed calls, refused writes and restarts.
THEOREM AtMostOneEndpoint == Spec => []OneEndpoint
<1>1. One => OneEndpoint
  <2> SUFFICES ASSUME One PROVE Cardinality(Existing) <= 1
    BY DEF OneEndpoint
  <2>1. CASE Existing = {}
    BY <2>1, FS_EmptySet
  <2>2. ASSUME NEW e \in Existing PROVE Cardinality(Existing) <= 1
    <3>1. Existing = {e}
      BY <2>2 DEF One
    <3>2. Cardinality({e}) = 1
      BY FS_Singleton
    <3> QED
      BY <3>1, <3>2
  <2> QED
    BY <2>1, <2>2
<1> QED
  BY <1>1, Inductive, PTL DEF IInv

\* The HO's finalizer leaves the object only when the service that the stored status
\* names is gone (delete): a status that names one was read after it was made.
THEOREM ServiceNotLeft == Spec => ServiceFinalizerGuards
<1>1. IInv /\ [Next]_vars =>
        [cr.ho /\ ~ cr'.ho => cr.service = 0 \/ service # cr.service]_vars
  BY StepObject
<1> QED
  BY <1>1, Inductive, PTL DEF Spec, ServiceFinalizerGuards

\* A CPO with AWS clients lets its finalizer go only when the endpoint, the security
\* group and the record of the stored status are gone (delete), unless the
\* HostedCluster controller has given up on the object.
THEOREM EndpointNotLeft == Spec => EndpointFinalizerGuards
<1>1. IInv /\ [Next]_vars => [cr.cpo /\ ~ cr'.cpo /\ clients => strip \/ Cleaned]_vars
  BY StepObject
<1> QED
  BY <1>1, Inductive, PTL DEF Spec, EndpointFinalizerGuards
=============================================================================
