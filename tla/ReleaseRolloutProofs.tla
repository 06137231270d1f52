------------------------- MODULE ReleaseRolloutProofs -------------------------
(***************************************************************************)
(* Theorems about ReleaseRollout for any number of components, any         *)
(* dependencies between them, any releases and any number of upgrades and  *)
(* faults.                                                                 *)
(*                                                                         *)
(* Components move in the order of their dependencies because of what a    *)
(* status that says "complete" tells (StatusTells): the workload has the   *)
(* version of the status unless it was overwritten since, and has finished *)
(* if the status was made from the workload as it was written.  A pass     *)
(* writes a workload and its status together, except when it is cut off in *)
(* between; checkDependencies does the rest.                               *)
(***************************************************************************)
EXTENDS ReleaseRollout, TLAPS

----------------------------------------------------------------------------
(* Types *)

Known == Releases \cup {0}
Workloads == [release : Known, updated : BOOLEAN, up : BOOLEAN]
Statuses == [available : BOOLEAN, complete : BOOLEAN, version : Known, told : Told]

\* A pass that has begun is at a component, and a CPO runs it for its release.
PassAt == pass # Idle => pass.next \in 1 .. Len(Order) /\ pass.release \in Releases

TypeInv == TypeOK /\ PassAt

\* The components and releases there are.
LEMMA Names ==
    /\ Len(Order) \in Nat /\ Len(Order) >= 1
    /\ \A i \in 1 .. Len(Order) : Order[i] \in Components
    /\ 1 \in Releases /\ 0 \notin Releases
    /\ {"etcd", "kube-apiserver", "cluster-version-operator"} \subseteq Components
<1>1. Order \in Seq(STRING) /\ Minor \in Seq(Nat) /\ Minor # <<>>
      /\ {"etcd", "kube-apiserver", "cluster-version-operator"} \subseteq Components
  BY RolloutAssumption
<1>2. Len(Order) \in Nat /\ DOMAIN Order = 1 .. Len(Order)
  BY <1>1
<1>3. \A i \in 1 .. Len(Order) : Order[i] \in Components
  BY <1>2 DEF Components, Range
<1>4. Len(Order) >= 1
  <2>1. "etcd" \in {Order[i] : i \in DOMAIN Order}
    BY <1>1 DEF Components, Range
  <2> QED
    BY <1>2, <2>1
<1>5. 1 \in Releases /\ 0 \notin Releases
  BY <1>1 DEF Releases
<1> QED
  BY <1>1, <1>2, <1>3, <1>4, <1>5

\* What the component of a pass may be, and where a pass goes from it.
LEMMA PassSteps ==
    ASSUME TypeInv, pass # Idle
    PROVE  /\ Current \in Components
           /\ NextComponent \in [next : 0 .. Len(Order), release : Known]
           /\ NextComponent # Idle => /\ NextComponent.next \in 1 .. Len(Order)
                                      /\ NextComponent.release \in Releases
<1>1. /\ pass.next \in 1 .. Len(Order) /\ pass.release \in Releases
      /\ pass \in [next : 0 .. Len(Order), release : Known]
  BY DEF TypeInv, TypeOK, PassAt, Known
<1>2. Current \in Components
  BY <1>1, Names DEF Current
<1>3. CASE pass.next = Len(Order)
  BY <1>2, <1>3, Names DEF NextComponent, Idle, Known
<1>4. CASE pass.next # Len(Order)
  <2> DEFINE q == [pass EXCEPT !.next = pass.next + 1]
  <2>1. pass.next + 1 \in 1 .. Len(Order)
    BY <1>1, <1>4, Names
  <2>2. q.next = pass.next + 1 /\ q.release = pass.release
        /\ q \in [next : 0 .. Len(Order), release : Known]
    BY <1>1, <2>1
  <2>3. NextComponent = q
    BY <1>4 DEF NextComponent
  <2> QED
    BY <1>1, <1>2, <2>1, <2>2, <2>3
<1> QED
  BY <1>3, <1>4

\* What a workload becomes when it is updated, rolled out or loses its pods.
LEMMA WorkloadEdits ==
    ASSUME NEW w \in Workloads, NEW r \in Known, NEW b \in BOOLEAN
    PROVE  /\ LET u == [w EXCEPT !.release = r, !.updated = FALSE] IN
                 u \in Workloads /\ u.release = r
           /\ LET u == [w EXCEPT !.updated = TRUE, !.up = TRUE] IN
                 u \in Workloads /\ u.release = w.release /\ u.updated = TRUE
           /\ LET u == [w EXCEPT !.up = b] IN
                 u \in Workloads /\ u.release = w.release /\ u.updated = w.updated
BY DEF Workloads

\* What a status becomes when it is reported, and what is known of it from then on.
LEMMA StatusEdits ==
    ASSUME NEW s \in Statuses, NEW t \in Told
    PROVE  LET u == [s EXCEPT !.told = t] IN
           u \in Statuses /\ u.told = t /\ u.complete = s.complete /\ u.version = s.version
BY DEF Statuses

\* The status reconcileComponentStatus makes: a complete one has the release of the pass.
LEMMA ReportedStatus ==
    ASSUME NEW s \in Statuses, NEW w \in Workloads, NEW b \in BOOLEAN, NEW t \in Told,
           pass.release \in Known
    PROVE  LET u == Reported(s, w, b, t) IN
           /\ u \in Statuses /\ u.told = t /\ u.complete = b
           /\ b => u.version = pass.release
BY DEF Statuses, Workloads, Reported, IsAvailable, Told

\* The workload a pass writes has the release of the pass.
LEMMA AppliedWorkload ==
    ASSUME TypeInv, pass # Idle
    PROVE  /\ Applied \in [Components -> Workloads]
           /\ Applied[Current].release = pass.release
           /\ \A c \in Components : c # Current => Applied[c] = workload[c]
<1>1. Current \in Components /\ pass.release \in Known /\ workload \in [Components -> Workloads]
  BY PassSteps DEF TypeInv, TypeOK, PassAt, Known, Workloads
<1> DEFINE w == workload[Current]
           u == IF w.release = pass.release THEN w
                ELSE [w EXCEPT !.release = pass.release, !.updated = FALSE]
<1>2. u \in Workloads /\ u.release = pass.release
  BY <1>1, WorkloadEdits
<1>3. Applied = [workload EXCEPT ![Current] = u]
  BY DEF Applied
<1> HIDE DEF u
<1> QED
  BY <1>1, <1>2, <1>3

----------------------------------------------------------------------------
(* What a step does to a component *)

\* Pods come and go; a status is reported without a rollout; the component is removed; the pass
\* updates it and reports; the pass updates it and is cut off.
PodsChange(c) ==
    /\ status'[c] = status[c] /\ workload'[c].release = workload[c].release
    /\ workload[c].updated => workload'[c].updated
ReportsWaiting(c) == workload'[c] = workload[c] /\ ~ status'[c].complete
Removed(c) == workload'[c] = NoWorkload /\ status'[c] = NoStatus
Updated(c) ==
    /\ Updating /\ c = Current
    /\ workload'[c].release = pass.release
    /\ status'[c].complete =>
          /\ status'[c].version = pass.release
          /\ status'[c].told = "written" => workload'[c].updated
CutOff(c) ==
    /\ Updating /\ c = Current
    /\ workload'[c].release = pass.release
    /\ status'[c].told = "overwritten"
Moves(c) == PodsChange(c) \/ ReportsWaiting(c) \/ Removed(c) \/ Updated(c) \/ CutOff(c)

\* The rows of the two tables keep their types.
Tables == workload' \in [Components -> Workloads] /\ status' \in [Components -> Statuses]

\* One row of each table is written.
LEMMA RowsWritten ==
    ASSUME TypeInv, NEW c \in Components, NEW w \in Workloads, NEW s \in Statuses,
           workload' = [workload EXCEPT ![c] = w], status' = [status EXCEPT ![c] = s]
    PROVE  /\ Tables /\ workload'[c] = w /\ status'[c] = s
           /\ \A d \in Components : d # c => Moves(d)
BY DEF TypeInv, TypeOK, Tables, Moves, PodsChange, Workloads, Statuses, Known

\* The types of the rows.
LEMMA Rows ==
    ASSUME TypeInv
    PROVE  /\ workload \in [Components -> Workloads] /\ status \in [Components -> Statuses]
           /\ pass.release \in Known
BY DEF TypeInv, TypeOK, Workloads, Statuses, Known

\* A pass does no more to the components than that.
LEMMA PassMoves ==
    ASSUME TypeInv, DeleteComponent \/ ComponentWaits \/ UpdateComponent \/ UpdateFails
    PROVE  Tables /\ \A c \in Components : Moves(c)
<1>0. /\ pass # Idle /\ Current \in Components /\ pass.release \in Known
      /\ workload \in [Components -> Workloads] /\ status \in [Components -> Statuses]
  BY PassSteps, Rows DEF DeleteComponent, ComponentWaits, UpdateComponent, UpdateFails, Updating
<1> DEFINE w == workload[Current]
           s == status[Current]
<1>1. w \in Workloads /\ s \in Statuses
  BY <1>0
<1>2. CASE DeleteComponent
  <2>1. NoWorkload \in Workloads /\ NoStatus \in Statuses
    BY DEF NoWorkload, NoStatus, Workloads, Statuses, Known, Told
  <2>2. /\ workload' = [workload EXCEPT ![Current] = NoWorkload]
        /\ status' = [status EXCEPT ![Current] = NoStatus]
    BY <1>2 DEF DeleteComponent
  <2>3. /\ Tables /\ workload'[Current] = NoWorkload /\ status'[Current] = NoStatus
        /\ \A d \in Components : d # Current => Moves(d)
    BY <1>0, <2>1, <2>2, RowsWritten
  <2> QED
    BY <2>3 DEF Moves, Removed
<1>3. CASE ComponentWaits \/ UpdateFails
  <2> DEFINE u == Reported(s, w, FALSE, "written")
  <2>1. u \in Statuses /\ u.complete = FALSE
    <3>1. "written" \in Told
      BY DEF Told
    <3> QED
      BY <1>0, <1>1, <3>1, ReportedStatus
  <2>2. /\ workload' = [workload EXCEPT ![Current] = w]
        /\ status' = [status EXCEPT ![Current] = u]
    BY <1>0, <1>3 DEF ComponentWaits, UpdateFails
  <2> HIDE DEF u, w, s
  <2>3. /\ Tables /\ workload'[Current] = w /\ status'[Current] = u
        /\ \A d \in Components : d # Current => Moves(d)
    BY <1>0, <1>1, <2>1, <2>2, RowsWritten
  <2> QED
    BY <2>1, <2>3 DEF Moves, ReportsWaiting, w
<1>4. CASE UpdateComponent
  <2> DEFINE a == Applied[Current]
  <2>1. PICK seen \in {a, w} :
           status' = [status EXCEPT ![Current] =
                        Reported(s, seen, IsReady(seen), IF seen = a THEN "written" ELSE "before")]
    BY <1>4 DEF UpdateComponent
  <2>2. /\ Updating /\ workload' = Applied
        /\ Applied \in [Components -> Workloads] /\ a \in Workloads /\ a.release = pass.release
        /\ \A c \in Components : c # Current => Applied[c] = workload[c]
    BY <1>0, <1>4, AppliedWorkload DEF UpdateComponent
  <2>3. workload' = [workload EXCEPT ![Current] = a]
    BY <1>0, <2>2
  <2> DEFINE ready == IsReady(seen)
             t == IF seen = a THEN "written" ELSE "before"
             u == Reported(s, seen, ready, t)
  <2>4. ready \in BOOLEAN /\ (seen = a /\ ready => a.updated)
    BY DEF IsReady
  <2>5. status' = [status EXCEPT ![Current] = u]
    BY <2>1
  <2>6. seen \in Workloads
    BY <1>1, <2>2
  <2>7. t \in Told /\ (t = "written" => seen = a)
    BY DEF Told
  <2> HIDE DEF ready, t
  <2>8. /\ u \in Statuses /\ u.told = t /\ u.complete = ready
        /\ ready => u.version = pass.release
    BY <1>0, <1>1, <2>4, <2>6, <2>7, ReportedStatus
  <2> HIDE DEF u, a
  <2>10. /\ Tables /\ workload'[Current] = a /\ status'[Current] = u
         /\ \A d \in Components : d # Current => Moves(d)
    BY <1>0, <2>2, <2>3, <2>5, <2>8, RowsWritten
  <2>11. Updated(Current)
    BY <2>2, <2>4, <2>7, <2>8, <2>10 DEF Updated
  <2> QED
    BY <2>10, <2>11 DEF Moves
<1> QED
  BY <1>2, <1>3, <1>4

\* Nor does a crash.
LEMMA CrashMoves ==
    ASSUME TypeInv, Crash
    PROVE  Tables /\ \A c \in Components : Moves(c)
<1>0. /\ pass # Idle /\ Current \in Components
      /\ workload \in [Components -> Workloads] /\ status \in [Components -> Statuses]
  BY PassSteps, Rows DEF Crash
<1>1. CASE UNCHANGED <<workload, status>>
  BY <1>0, <1>1 DEF Tables, Moves, PodsChange
<1>2. CASE /\ Updating /\ workload' = Applied
           /\ status' = [status EXCEPT ![Current].told = "overwritten"]
  <2> DEFINE a == Applied[Current]
             s == status[Current]
             u == [s EXCEPT !.told = "overwritten"]
  <2>1. /\ Applied \in [Components -> Workloads] /\ a \in Workloads /\ a.release = pass.release
        /\ \A c \in Components : c # Current => Applied[c] = workload[c]
    BY <1>0, AppliedWorkload
  <2>2. u \in Statuses /\ u.told = "overwritten"
    <3>1. s \in Statuses /\ "overwritten" \in Told
      BY <1>0 DEF Told
    <3> QED
      BY <3>1, StatusEdits
  <2>3. workload' = [workload EXCEPT ![Current] = a] /\ status' = [status EXCEPT ![Current] = u]
    BY <1>0, <1>2, <2>1
  <2> HIDE DEF u, a
  <2>4. /\ Tables /\ workload'[Current] = a /\ status'[Current] = u
        /\ \A d \in Components : d # Current => Moves(d)
    BY <1>0, <2>1, <2>2, <2>3, RowsWritten
  <2> QED
    BY <1>2, <2>1, <2>2, <2>4 DEF Moves, CutOff
<1> QED
  BY <1>1, <1>2 DEF Crash

\* Nor does any other step.
LEMMA OtherMoves ==
    ASSUME TypeInv,
           \/ \E r \in Releases : \E f \in {hc.force, r} : ChangeRelease(r, f)
           \/ ReconcileHostedCluster \/ ReconcileFails \/ StartPass \/ RunCVO
           \/ ChangeUpgradeable \/ ReportVersion \/ ReportMissingVersion \/ UNCHANGED vars
           \/ \E c \in Components : RollOut(c) \/ LosePods(c)
    PROVE  Tables /\ \A c \in Components : Moves(c)
<1>0. workload \in [Components -> Workloads] /\ status \in [Components -> Statuses]
  BY Rows
<1>1. ASSUME NEW c \in Components, RollOut(c) \/ LosePods(c)
      PROVE  Tables /\ \A d \in Components : Moves(d)
  <2>1. PICK w \in Workloads :
           /\ workload' = [workload EXCEPT ![c] = w]
           /\ w.release = workload[c].release /\ (workload[c].updated => w.updated)
    <3>1. workload[c] \in Workloads
      BY <1>0
    <3>2. CASE RollOut(c)
      <4> DEFINE w == [workload[c] EXCEPT !.updated = TRUE, !.up = TRUE]
      <4>1. w \in Workloads /\ w.release = workload[c].release /\ w.updated = TRUE
        BY <3>1 DEF Workloads
      <4>2. workload' = [workload EXCEPT ![c] = w]
        BY <1>0, <3>2 DEF RollOut
      <4> QED
        BY <4>1, <4>2
    <3>3. CASE LosePods(c)
      <4> DEFINE w == [workload[c] EXCEPT !.up = FALSE]
      <4>1. /\ w \in Workloads /\ w.release = workload[c].release
            /\ w.updated = workload[c].updated
        BY <3>1 DEF Workloads
      <4>2. workload' = [workload EXCEPT ![c] = w]
        BY <1>0, <3>3 DEF LosePods
      <4> QED
        BY <4>1, <4>2
    <3> QED
      BY <1>1, <3>2, <3>3
  <2>2. status' = status
    BY <1>1 DEF RollOut, LosePods, cpoVars
  <2> QED
    BY <1>0, <2>1, <2>2 DEF Tables, Moves, PodsChange
<1>2. CASE UNCHANGED <<workload, status>>
  BY <1>0, <1>2 DEF Tables, Moves, PodsChange
<1>3. CASE \/ \E r \in Releases : \E f \in {hc.force, r} : ChangeRelease(r, f)
           \/ ReconcileHostedCluster \/ ReconcileFails \/ StartPass \/ RunCVO
           \/ ChangeUpgradeable \/ ReportVersion \/ ReportMissingVersion \/ UNCHANGED vars
  BY <1>2, <1>3 DEF ChangeRelease, ReconcileHostedCluster, ReconcileFails, StartPass, RunCVO,
                    ChangeUpgradeable, ReportVersion, ReportMissingVersion, vars, cpoVars
<1> QED
  BY <1>1, <1>3


\* No step does more to a component than that.
LEMMA StepMoves ==
    ASSUME TypeInv, [Next]_vars
    PROVE  Tables /\ \A c \in Components : Moves(c)
<1>1. CASE DeleteComponent \/ ComponentWaits \/ UpdateComponent \/ UpdateFails
  BY <1>1, PassMoves
<1>2. CASE Crash
  BY <1>2, CrashMoves
<1>3. CASE \/ \E r \in Releases : \E f \in {hc.force, r} : ChangeRelease(r, f)
           \/ ReconcileHostedCluster \/ ReconcileFails \/ StartPass \/ RunCVO
           \/ ChangeUpgradeable \/ ReportVersion \/ ReportMissingVersion \/ UNCHANGED vars
           \/ \E c \in Components : RollOut(c) \/ LosePods(c)
  BY <1>3, OtherMoves
<1> QED
  BY <1>1, <1>2, <1>3 DEF Next, PassStep

----------------------------------------------------------------------------
(* The types hold *)

\* The types hold when the cluster is created.
LEMMA TypeInvInit == Init => TypeInv
<1> SUFFICES ASSUME Init PROVE TypeInv
  OBVIOUS
<1>1. NoWorkload \in Workloads /\ NoStatus \in Statuses
  BY DEF NoWorkload, NoStatus, Workloads, Statuses, Known, Told
<1>2. MaxUpgrades \in Nat /\ MaxFaults \in Nat
  BY RolloutAssumption
<1>3. workload \in [Components -> Workloads] /\ status \in [Components -> Statuses]
  BY <1>1 DEF Init
<1>4. pass \in [next : 0 .. Len(Order), release : Releases \cup {0}] /\ PassAt
  BY Names DEF Init, Idle, PassAt
<1>5. /\ hc \in [release : Releases, force : Releases \cup {0}, valid : BOOLEAN]
      /\ hcp \in Releases \cup {0} /\ cpo \in Releases \cup {0}
      /\ report \in [desired : Releases \cup {0}, upgradeable : BOOLEAN]
      /\ cv \in [desired : Releases \cup {0}, upgradeable : BOOLEAN]
  BY Names DEF Init
<1>6. managed \in EtcdTypes /\ upgrades \in 0 .. MaxUpgrades /\ faults \in 0 .. MaxFaults
  BY <1>2 DEF Init
<1> QED
  BY <1>3, <1>4, <1>5, <1>6 DEF TypeInv, TypeOK, Workloads, Statuses, Known

\* A pass is begun for the release of the HCP, goes on to the next component, ends or is left.
LEMMA PassTyped ==
    ASSUME TypeInv, [Next]_vars
    PROVE  pass' \in [next : 0 .. Len(Order), release : Known] /\ PassAt'
<1>0. /\ pass \in [next : 0 .. Len(Order), release : Known] /\ PassAt
      /\ Idle \in [next : 0 .. Len(Order), release : Known]
  BY Names DEF TypeInv, TypeOK, Known, Idle
<1>1. CASE pass' = pass
  BY <1>0, <1>1 DEF PassAt
<1>2. CASE pass' = Idle
  BY <1>0, <1>2 DEF PassAt
<1>3. CASE pass # Idle /\ pass' = NextComponent
  BY <1>3, PassSteps DEF PassAt
<1>4. CASE StartPass
  <2>1. pass' = [next |-> 1, release |-> hcp] /\ hcp \in Releases
    BY <1>4 DEF StartPass, TypeInv, TypeOK
  <2> QED
    BY <2>1, Names DEF PassAt, Known
<1>5. CASE ReconcileHostedCluster
  BY <1>1, <1>2, <1>5 DEF ReconcileHostedCluster
<1>6. CASE DeleteComponent \/ ComponentWaits \/ UpdateComponent \/ UpdateFails
  BY <1>3, <1>6, Zenon DEF DeleteComponent, ComponentWaits, UpdateComponent, UpdateFails, Updating
<1>7. CASE Crash
  BY <1>2, <1>7, Zenon DEF Crash
<1>8. CASE \/ \E r \in Releases : \E f \in {hc.force, r} : ChangeRelease(r, f)
           \/ ReconcileFails \/ \E c \in Components : RollOut(c) \/ LosePods(c)
           \/ RunCVO \/ ChangeUpgradeable \/ ReportVersion \/ ReportMissingVersion
           \/ UNCHANGED vars
  <2>1. pass' = pass
    BY <1>8, Zenon DEF vars, cpoVars, ChangeRelease, ReconcileFails, RollOut, LosePods, RunCVO,
                       ChangeUpgradeable, ReportVersion, ReportMissingVersion
  <2> QED
    BY <1>1, <2>1
<1> QED
  BY <1>4, <1>5, <1>6, <1>7, <1>8 DEF Next, PassStep

\* The HostedCluster, its HCP and the operator that runs hold releases.
LEMMA HostedTyped ==
    ASSUME TypeInv, [Next]_vars
    PROVE  /\ hc' \in [release : Releases, force : Releases \cup {0}, valid : BOOLEAN]
           /\ hcp' \in Releases \cup {0} /\ cpo' \in Releases \cup {0}
<1>0. /\ hc \in [release : Releases, force : Releases \cup {0}, valid : BOOLEAN]
      /\ hcp \in Releases \cup {0} /\ cpo \in Releases \cup {0}
  BY DEF TypeInv, TypeOK
<1>1. ASSUME NEW r \in Releases, NEW f \in {hc.force, r}, ChangeRelease(r, f)
      PROVE  /\ hc' \in [release : Releases, force : Releases \cup {0}, valid : BOOLEAN]
             /\ hcp' \in Releases \cup {0} /\ cpo' \in Releases \cup {0}
  BY <1>0, <1>1 DEF ChangeRelease, cpoVars
<1>2. CASE ReconcileHostedCluster
  <2>1. ValidReleaseImage \in BOOLEAN
    BY <1>0 DEF ValidReleaseImage
  <2>2. hc' = [hc EXCEPT !.valid = ValidReleaseImage]
        /\ hcp' \in {hcp, hc.release} /\ cpo' \in {cpo, hc.release}
    BY <1>2 DEF ReconcileHostedCluster
  <2> QED
    BY <1>0, <2>1, <2>2
<1>3. CASE ReconcileFails
  BY <1>0, <1>3 DEF ReconcileFails, cpoVars
<1>4. CASE UNCHANGED <<hc, hcp, cpo>>
  BY <1>0, <1>4
<1>5. \/ \E r \in Releases : \E f \in {hc.force, r} : ChangeRelease(r, f)
      \/ ReconcileHostedCluster \/ ReconcileFails \/ UNCHANGED <<hc, hcp, cpo>>
  BY Zenon DEF Next, PassStep, vars, hostedVars, cpoVars, guestVars, StartPass,
               DeleteComponent, ComponentWaits, UpdateComponent, UpdateFails, Crash, RollOut,
               LosePods, RunCVO, ChangeUpgradeable, ReportVersion, ReportMissingVersion
<1> QED
  BY <1>1, <1>2, <1>3, <1>4, <1>5

\* So do the ClusterVersion and what is reported of it.
LEMMA GuestTyped ==
    ASSUME TypeInv, [Next]_vars
    PROVE  /\ report' \in [desired : Releases \cup {0}, upgradeable : BOOLEAN]
           /\ cv' \in [desired : Releases \cup {0}, upgradeable : BOOLEAN]
<1>0. /\ report \in [desired : Releases \cup {0}, upgradeable : BOOLEAN]
      /\ cv \in [desired : Releases \cup {0}, upgradeable : BOOLEAN]
      /\ workload["cluster-version-operator"].release \in Releases \cup {0}
  BY Names, Rows DEF TypeInv, TypeOK, Workloads, Known
<1>1. CASE RunCVO \/ ChangeUpgradeable \/ ReportVersion \/ ReportMissingVersion
  BY <1>0, <1>1 DEF RunCVO, ChangeUpgradeable, ReportVersion, ReportMissingVersion
<1>2. CASE UNCHANGED <<report, cv>>
  BY <1>0, <1>2
<1>3. \/ RunCVO \/ ChangeUpgradeable \/ ReportVersion \/ ReportMissingVersion
      \/ UNCHANGED <<report, cv>>
  BY Zenon DEF Next, PassStep, vars, hostedVars, cpoVars, guestVars, ChangeRelease,
               ReconcileHostedCluster, ReconcileFails, StartPass, DeleteComponent,
               ComponentWaits, UpdateComponent, UpdateFails, Crash, RollOut, LosePods
<1> QED
  BY <1>1, <1>2, <1>3

\* The counters keep their bounds, and a cluster its kind of etcd.
LEMMA CountersTyped ==
    ASSUME TypeInv, [Next]_vars
    PROVE  managed' \in EtcdTypes /\ upgrades' \in 0 .. MaxUpgrades /\ faults' \in 0 .. MaxFaults
<1>0. /\ managed \in EtcdTypes /\ upgrades \in 0 .. MaxUpgrades /\ faults \in 0 .. MaxFaults
      /\ MaxUpgrades \in Nat /\ MaxFaults \in Nat
  BY RolloutAssumption DEF TypeInv, TypeOK
<1>1. managed' = managed
  BY Zenon DEF Next, PassStep, vars, hostedVars, cpoVars, guestVars, ChangeRelease,
               ReconcileHostedCluster, ReconcileFails, StartPass, DeleteComponent,
               ComponentWaits, UpdateComponent, UpdateFails, Crash, RollOut, LosePods,
               RunCVO, ChangeUpgradeable, ReportVersion, ReportMissingVersion
<1>2. faults' = faults \/ Fault
  BY Zenon DEF Next, PassStep, vars, hostedVars, cpoVars, guestVars, ChangeRelease,
               ReconcileHostedCluster, ReconcileFails, StartPass, DeleteComponent,
               ComponentWaits, UpdateComponent, UpdateFails, Crash, RollOut, LosePods,
               RunCVO, ChangeUpgradeable, ReportVersion, ReportMissingVersion
<1>3. CASE \E r \in Releases : \E f \in {hc.force, r} : ChangeRelease(r, f)
  <2>1. upgrades < MaxUpgrades /\ upgrades' = upgrades + 1
    BY <1>3 DEF ChangeRelease
  <2> QED
    BY <1>0, <1>1, <1>2, <2>1 DEF Fault
<1>4. CASE ~ \E r \in Releases : \E f \in {hc.force, r} : ChangeRelease(r, f)
  <2>1. upgrades' = upgrades
    BY <1>4, Zenon
       DEF Next, PassStep, vars, hostedVars, cpoVars, guestVars, ReconcileHostedCluster,
           ReconcileFails, StartPass, DeleteComponent, ComponentWaits, UpdateComponent,
           UpdateFails, Crash, RollOut, LosePods, RunCVO, ChangeUpgradeable, ReportVersion,
           ReportMissingVersion
  <2> QED
    BY <1>0, <1>1, <1>2, <2>1 DEF Fault
<1> QED
  BY <1>3, <1>4

\* The types are inductive.
LEMMA TypeInvStep == TypeInv /\ [Next]_vars => TypeInv'
<1> SUFFICES ASSUME TypeInv, [Next]_vars PROVE TypeInv'
  OBVIOUS
<1>1. workload' \in [Components -> Workloads] /\ status' \in [Components -> Statuses]
  BY StepMoves DEF Tables
<1> QED
  BY <1>1, PassTyped, HostedTyped, GuestTyped, CountersTyped
     DEF TypeInv, TypeOK, Workloads, Statuses, Known


\* Every variable of the rollout keeps its type.
THEOREM RolloutTypes == Spec => []TypeOK
<1>1. TypeInv => TypeOK
  BY DEF TypeInv
<1> QED
  BY <1>1, TypeInvInit, TypeInvStep, PTL DEF Spec

----------------------------------------------------------------------------
(* What a status tells *)

\* A status that says "complete" has the version of the workload it was made from, and a
\* workload that was as it is written when the status was made has finished.
Tells(d) ==
    status[d].complete =>
        /\ status[d].told # "overwritten" => workload[d].release = status[d].version
        /\ status[d].told = "written" => workload[d].updated
StatusTells == \A d \in Components : Tells(d)

RolloutInv == TypeInv /\ StatusTells

\* What a step does to a component leaves its status telling the truth.
LEMMA MovesTell ==
    ASSUME NEW d, Moves(d), Tells(d)
    PROVE  Tells(d)'
<1>1. CASE PodsChange(d)
  BY <1>1 DEF PodsChange, Tells
<1>2. CASE ReportsWaiting(d)
  BY <1>2 DEF ReportsWaiting, Tells
<1>3. CASE Removed(d)
  BY <1>3 DEF Removed, Tells, NoStatus
<1>4. CASE Updated(d)
  BY <1>4 DEF Updated, Tells
<1>5. CASE CutOff(d)
  BY <1>5 DEF CutOff, Tells
<1> QED
  BY <1>1, <1>2, <1>3, <1>4, <1>5 DEF Moves

\* The invariant holds when the cluster is created: no status says "complete".
LEMMA RolloutInvInit == Init => RolloutInv
<1>1. Init => StatusTells
  BY DEF Init, StatusTells, Tells, NoStatus
<1> QED
  BY <1>1, TypeInvInit DEF RolloutInv

\* The invariant is inductive.
LEMMA RolloutInvStep == RolloutInv /\ [Next]_vars => RolloutInv'
<1> SUFFICES ASSUME RolloutInv, [Next]_vars PROVE RolloutInv'
  OBVIOUS
<1>1. TypeInv' /\ \A d \in Components : Moves(d)
  BY TypeInvStep, StepMoves DEF RolloutInv
<1>2. StatusTells'
  BY <1>1, MovesTell DEF RolloutInv, StatusTells
<1> QED
  BY <1>1, <1>2 DEF RolloutInv

\* A step that follows the order: what RolloutInOrder says of each step.
InOrderStep ==
    \A c \in Components :
       workload'[c].release \notin {0, workload[c].release} =>
          \A d \in Dependencies(c) :
             /\ status[d].told # "overwritten" => workload[d].release = workload'[c].release
             /\ status[d].told = "written" => workload[d].updated

\* The release of a component changes in the pass that is at it, when checkDependencies
\* finds the statuses of its dependencies complete at the release of the pass.
LEMMA OrderStep == RolloutInv /\ [Next]_vars => InOrderStep
<1> SUFFICES ASSUME RolloutInv, [Next]_vars,
                    NEW c \in Components, workload'[c].release \notin {0, workload[c].release},
                    NEW d \in Dependencies(c)
             PROVE  /\ status[d].told # "overwritten" => workload[d].release = workload'[c].release
                    /\ status[d].told = "written" => workload[d].updated
  BY DEF InOrderStep
<1>1. Updating /\ c = Current /\ workload'[c].release = pass.release
  <2>1. Moves(c)
    BY StepMoves DEF RolloutInv
  <2> QED
    BY <2>1 DEF Moves, PodsChange, ReportsWaiting, Removed, NoWorkload, Updated, CutOff
<1>2. status[d].complete /\ status[d].version = pass.release
  BY <1>1, Zenon DEF Updating, UnavailableDependencies
<1>3. d \in Components
  BY RolloutAssumption DEF Dependencies
<1>4. Tells(d)
  BY <1>3 DEF RolloutInv, StatusTells
<1> QED
  BY <1>1, <1>2, <1>4 DEF Tells

\* Components move to a release in the order of their dependencies, whatever the components
\* and dependencies, through any number of upgrades, crashes and lost pods (checkDependencies).
THEOREM InOrder == Spec => RolloutInOrder
<1>1. RolloutInv /\ [Next]_vars => [InOrderStep]_vars
  BY OrderStep
<1>2. Spec => [][InOrderStep]_vars
  BY <1>1, RolloutInvInit, RolloutInvStep, PTL DEF Spec
<1> QED
  BY <1>2 DEF RolloutInOrder, InOrderStep
=============================================================================
