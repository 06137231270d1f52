------------------------- MODULE ClusterSizingProofs -------------------------
(***************************************************************************)
(* The concurrency limit of the sizing controller holds for any number of  *)
(* clusters, any limit, window and delays, when every cluster has a        *)
(* scheduled control plane and a reconcile sees the writes before it.      *)
(* The label and the conditions of a cluster it is done with are right,    *)
(* however much the cache lags; every variable keeps its type, and the     *)
(* timers that a reconcile asks for fire.                                  *)
(***************************************************************************)
EXTENDS ClusterSizing, FiniteSetTheorems, TLAPS

\* A HostedCluster has the fields of one, and its transition an age.
Cluster(cm, a, r, ra, p, l, sc) ==
    [computed |-> cm, at |-> a, required |-> r, reqAge |-> ra, pending |-> p, label |-> l, scheduled |-> sc]
Shape(v) == \E cm, r, ra, p, l, sc : \E a \in Nat : v = Cluster(cm, a, r, ra, p, l, sc)

\* The clusters that transitioned within the window.
Recent == {c \in Clusters : hc[c].computed # None /\ hc[c].at < Window}

\* The inductive invariant: the limit is decided on the clusters as they are,
\* and it applies to each of them.
LimitInv ==
    /\ hc = [c \in Clusters |-> hc[c]]
    /\ \A c \in Clusters : Shape(hc[c]) /\ hc[c].scheduled = TRUE
    /\ cache = hc
    /\ Cardinality(Recent) <= Limit

\* A record made of a cluster's fields, its transition with an age, is a cluster.
LEMMA ClusterShape ==
    ASSUME NEW cm, NEW a \in Nat, NEW r, NEW ra, NEW p, NEW l, NEW sc
    PROVE  Shape(Cluster(cm, a, r, ra, p, l, sc))
BY DEF Shape

\* The transition of a cluster has an age (lastTransitionTime).
LEMMA ShapeAge ==
    ASSUME NEW v, Shape(v)
    PROVE  v.at \in Nat
BY DEF Shape, Cluster

\* A step that takes no transition and makes none younger keeps the limit.
LEMMA NoneYounger ==
    ASSUME LimitInv, Recent' \subseteq Recent
    PROVE  Cardinality(Recent') <= Limit
<1>1. IsFiniteSet(Recent)
  BY FS_Subset, ClustersAssumption DEF Recent
<1>2. Cardinality(Recent') <= Cardinality(Recent)
  BY <1>1, FS_Subset
<1>3. Cardinality(Recent) \in Nat /\ Cardinality(Recent') \in Nat
  BY <1>1, FS_Subset, FS_CardinalityType
<1> QED
  BY <1>2, <1>3, ConfigAssumption DEF LimitInv

\* Below the limit one more cluster may transition.
LEMMA OneMore ==
    ASSUME LimitInv, NEW c \in Clusters, ~ (Cardinality(Recent) >= Limit),
           Recent' \subseteq Recent \cup {c}
    PROVE  Cardinality(Recent') <= Limit
<1>1. IsFiniteSet(Recent)
  BY FS_Subset, ClustersAssumption DEF Recent
<1>2. /\ IsFiniteSet(Recent \cup {c})
      /\ Cardinality(Recent \cup {c}) <= Cardinality(Recent) + 1
  <2>1. Cardinality(Recent) \in Nat
    BY <1>1, FS_CardinalityType
  <2>2. /\ IsFiniteSet(Recent \cup {c})
        /\ \/ Cardinality(Recent \cup {c}) = Cardinality(Recent)
           \/ Cardinality(Recent \cup {c}) = Cardinality(Recent) + 1
    BY <1>1, FS_AddElement, Zenon
  <2> QED
    BY <2>1, <2>2
<1>3. Cardinality(Recent') <= Cardinality(Recent \cup {c})
  BY <1>2, FS_Subset
<1>4. /\ Cardinality(Recent) \in Nat /\ Cardinality(Recent') \in Nat
      /\ Cardinality(Recent \cup {c}) \in Nat
  BY <1>1, <1>2, FS_Subset, FS_CardinalityType
<1> QED
  BY <1>2, <1>3, <1>4, ConfigAssumption

\* What a reconcile writes into a cluster it read: it has the fields of one and
\* stays scheduled; its transition keeps its time, unless the limit allowed a new one.
LEMMA StatusKeepsTransition ==
    ASSUME NEW v, NEW s, Shape(v), v.scheduled = TRUE
    PROVE  /\ Shape(newStatus(v, s))
           /\ newStatus(v, s).scheduled = TRUE
           /\ \/ newStatus(v, s).computed = v.computed /\ newStatus(v, s).at = v.at
              \/ ~ limitReached(v)
<1> DEFINE new == newStatus(v, s)
<1>0. PICK cm, r, ra, p, l, sc : \E a \in Nat : v = Cluster(cm, a, r, ra, p, l, sc)
  BY DEF Shape
<1>a. PICK a \in Nat : v = Cluster(cm, a, r, ra, p, l, sc)
  BY <1>0
<1>b. sc = TRUE /\ v.computed = cm /\ v.at = a
  BY <1>a DEF Cluster
<1>1. CASE new = v
  BY <1>1
<1>2. CASE new = Settled(v)
  <2>1. new = Cluster(cm, a, None, 0, NotPending, l, sc)
    BY <1>2, <1>a DEF Settled, Cluster
  <2>2. new.scheduled = TRUE /\ new.computed = cm /\ new.at = a
    BY <1>b, <2>1 DEF Cluster
  <2>3. Shape(new)
    BY <2>1, ClusterShape
  <2> QED
    BY <1>b, <2>2, <2>3
<1>3. ASSUME NEW why, NEW d, new = Waiting(v, s, why, d)
      PROVE  Shape(new) /\ new.scheduled = TRUE /\ new.computed = v.computed /\ new.at = v.at
  <2> DEFINE rb == IF v.required = s THEN v.reqAge ELSE 0
             pb == [reason |-> why, detail |-> d]
  <2>0. new = [v EXCEPT !.pending = pb, !.required = s, !.reqAge = rb]
    BY <1>3 DEF Waiting
  <2> HIDE DEF rb, pb, new
  <2>1. new = Cluster(cm, a, s, rb, pb, l, sc)
    BY <2>0, <1>a DEF Cluster
  <2>2. new.scheduled = TRUE /\ new.computed = cm /\ new.at = a
    BY <1>b, <2>1 DEF Cluster
  <2>3. Shape(new)
    BY <2>1, ClusterShape
  <2> QED
    BY <1>b, <2>2, <2>3
<1>4. CASE new = Transitioned(v, s) /\ ~ limitReached(v)
  <2>1. new = Cluster(s, 0, None, 0, NotPending, l, sc)
    BY <1>4, <1>a DEF Transitioned, Cluster
  <2>2. new.scheduled = TRUE
    BY <1>b, <2>1 DEF Cluster
  <2>3. Shape(new)
    BY <2>1, ClusterShape
  <2> QED
    BY <1>4, <2>2, <2>3
<1>5. \/ new = v
      \/ new = Settled(v)
      \/ new = Waiting(v, s, "delay", delay(v, s))
      \/ new = Waiting(v, s, "limit", Cardinality(withinWindow))
      \/ new = Transitioned(v, s) /\ ~ limitReached(v)
  BY DEF newStatus
<1> QED
  BY <1>1, <1>2, <1>3, <1>4, <1>5

\* Writing the label, or keeping the one of the API server, is no transition.
LEMMA Relabelled ==
    ASSUME NEW v, NEW x, Shape(v)
    PROVE  /\ Shape([v EXCEPT !.label = x])
           /\ [v EXCEPT !.label = x].scheduled = v.scheduled
           /\ [v EXCEPT !.label = x].computed = v.computed
           /\ [v EXCEPT !.label = x].at = v.at
<1>0. PICK cm, r, ra, p, l, sc : \E a \in Nat : v = Cluster(cm, a, r, ra, p, l, sc)
  BY DEF Shape
<1>1. PICK a \in Nat : v = Cluster(cm, a, r, ra, p, l, sc)
  BY <1>0
<1>2. [v EXCEPT !.label = x] = Cluster(cm, a, r, ra, p, x, sc)
  BY <1>1 DEF Cluster
<1>3. Shape(Cluster(cm, a, r, ra, p, x, sc))
  BY ClusterShape
<1> QED
  BY <1>1, <1>2, <1>3 DEF Cluster

\* What the status patch writes is a cluster again, with the age it is given.
LEMMA StatusApplied ==
    ASSUME NEW v, NEW old, Shape(v)
    PROVE  /\ Shape(ApplyStatus(old, v))
           /\ ApplyStatus(old, v).scheduled = old.scheduled
           /\ ApplyStatus(old, v).computed = v.computed
           /\ ApplyStatus(old, v).at = v.at
<1> DEFINE x == old.label
           y == old.scheduled
<1>0. PICK cm, r, ra, p, l, sc : \E a \in Nat : v = Cluster(cm, a, r, ra, p, l, sc)
  BY DEF Shape
<1>1. PICK a \in Nat : v = Cluster(cm, a, r, ra, p, l, sc)
  BY <1>0
<1>2. ApplyStatus(old, v) = Cluster(cm, a, r, ra, p, x, y)
  <2>1. [v EXCEPT !.label = x] = Cluster(cm, a, r, ra, p, x, sc)
    BY <1>1 DEF Cluster
  <2>2. [Cluster(cm, a, r, ra, p, x, sc) EXCEPT !.scheduled = y] = Cluster(cm, a, r, ra, p, x, y)
    BY DEF Cluster
  <2>3. ApplyStatus(old, v) = [[v EXCEPT !.label = x] EXCEPT !.scheduled = y]
    BY DEF ApplyStatus
  <2> QED
    BY <2>1, <2>2, <2>3
<1> HIDE DEF x, y
<1>3. Shape(Cluster(cm, a, r, ra, p, x, y))
  BY ClusterShape
<1> QED
  BY <1>1, <1>2, <1>3 DEF Cluster, y

\* Time passes for a cluster: its transition gets no younger.
LEMMA OlderShape ==
    ASSUME NEW v, Shape(v), v.scheduled = TRUE
    PROVE  /\ Shape(OlderCluster(v)) /\ OlderCluster(v).scheduled = TRUE
           /\ OlderCluster(v).computed = v.computed
           /\ v.computed # None => OlderCluster(v).at >= v.at
<1>0. PICK cm, r, ra, p, l, sc : \E a \in Nat : v = Cluster(cm, a, r, ra, p, l, sc)
  BY DEF Shape
<1>1. PICK a \in Nat : v = Cluster(cm, a, r, ra, p, l, sc)
  BY <1>0
<1>2. sc = TRUE /\ v.computed = cm /\ v.at = a /\ v.required = r /\ v.reqAge = ra
  BY <1>1 DEF Cluster
<1> DEFINE b == IF cm = None THEN 0 ELSE Older(a)
           rb == IF r = None THEN 0 ELSE Older(ra)
<1>3. b \in Nat /\ (cm # None => b >= a)
  BY DEF Older
<1>4. OlderCluster(v) = Cluster(cm, b, r, rb, p, l, sc)
  <2>1. OlderCluster(v) = [v EXCEPT !.at = b, !.reqAge = rb]
    BY <1>2 DEF OlderCluster
  <2> HIDE DEF b, rb
  <2> QED
    BY <1>1, <2>1 DEF Cluster
<1> HIDE DEF b, rb
<1>5. /\ OlderCluster(v).scheduled = TRUE
      /\ OlderCluster(v).computed = cm /\ OlderCluster(v).at = b
  BY <1>2, <1>4 DEF Cluster
<1>6. Shape(OlderCluster(v))
  BY <1>3, <1>4, ClusterShape
<1> QED
  BY <1>2, <1>3, <1>5, <1>6

\* Every step of the controller, the clock and the world preserves LimitInv.
LEMMA LimitInvStep ==
    ASSUME NewClusters = {}, StaleReads = FALSE, LimitInv, [Next]_vars
    PROVE  LimitInv'
<1> USE DEF Recent
<1>1. ASSUME UNCHANGED hc, UNCHANGED cache
      PROVE  LimitInv'
  BY <1>1 DEF LimitInv
<1>2. ASSUME NEW c \in Clusters, NEW new, Written(c, new), Shape(new), new.scheduled = TRUE,
             \/ new.computed = hc[c].computed /\ new.at = hc[c].at
             \/ ~ (Cardinality(Recent) >= Limit)
      PROVE  LimitInv'
  <2>1. hc' = [hc EXCEPT ![c] = new] /\ cache' = hc'
    BY <1>2 DEF Written
  <2>2. /\ hc' = [d \in Clusters |-> hc'[d]]
        /\ \A d \in Clusters : hc'[d] = IF d = c THEN new ELSE hc[d]
    BY <2>1 DEF LimitInv
  <2>3. \A d \in Clusters : Shape(hc'[d]) /\ hc'[d].scheduled = TRUE
    BY <1>2, <2>2 DEF LimitInv
  <2>4. Cardinality(Recent') <= Limit
    <3>1. CASE new.computed = hc[c].computed /\ new.at = hc[c].at
      <4>1. Recent' \subseteq Recent
        BY <2>2, <3>1
      <4> QED
        BY <4>1, NoneYounger
    <3>2. CASE ~ (Cardinality(Recent) >= Limit)
      <4>1. Recent' \subseteq Recent \cup {c}
        BY <2>2
      <4> QED
        BY <3>2, <4>1, OneMore
    <3> QED
      BY <1>2, <3>1, <3>2
  <2> QED
    BY <2>1, <2>2, <2>3, <2>4 DEF LimitInv
<1>3. ASSUME NEW c \in Clusters, ReconcileLabel(c)
      PROVE  LimitInv'
  <2> DEFINE new == [hc[c] EXCEPT !.label = cache[c].computed]
  <2>1. /\ Shape(new) /\ new.scheduled = TRUE
        /\ new.computed = hc[c].computed /\ new.at = hc[c].at
    <3>1. Shape(hc[c]) /\ hc[c].scheduled = TRUE
      BY DEF LimitInv
    <3> QED
      BY <3>1, Relabelled
  <2>2. Written(c, new)
    BY <1>3 DEF ReconcileLabel
  <2> HIDE DEF new
  <2> QED
    BY <1>2, <2>1, <2>2
<1>4. ASSUME NEW c \in Clusters, ReconcileStatus(c)
      PROVE  LimitInv'
  <2> DEFINE v == cache[c]
             s == sizeClass(v, input[c])
             n == newStatus(v, s)
             new == ApplyStatus(hc[c], n)
  <2>1. v = hc[c] /\ Shape(v) /\ v.scheduled = TRUE
    BY DEF LimitInv
  <2>2. limitReached(v) <=> Cardinality(Recent) >= Limit
    <3>1. withinWindow = Recent
      BY DEF withinWindow, LimitInv
    <3> QED
      BY <2>1, <3>1 DEF limitReached
  <2>3. /\ Shape(n)
        /\ n.scheduled = TRUE
        /\ \/ n.computed = v.computed /\ n.at = v.at
           \/ ~ limitReached(v)
    BY <2>1, StatusKeepsTransition
  <2>4. \/ UNCHANGED <<hc, cache>>
        \/ Written(c, new)
    BY <1>4 DEF ReconcileStatus
  <2> HIDE DEF n, s, v
  <2>5. /\ Shape(new) /\ new.scheduled = TRUE
        /\ new.computed = n.computed /\ new.at = n.at
    <3>1. hc[c].scheduled = TRUE
      BY <2>1
    <3>2. Shape(new) /\ new.scheduled = hc[c].scheduled /\ new.computed = n.computed /\ new.at = n.at
      BY <2>3, StatusApplied
    <3> QED
      BY <3>1, <3>2
  <2> HIDE DEF new
  <2> QED
    BY <1>1, <1>2, <2>1, <2>2, <2>3, <2>4, <2>5
<1>5. ASSUME NEW c \in Clusters, Schedule(c) \/ CacheSync(c)
      PROVE  LimitInv'
  BY <1>5 DEF Schedule, CacheSync, LimitInv
<1>6. CASE Restart
  <2>1. UNCHANGED <<hc, cache>>
    BY <1>6 DEF Restart, LimitInv
  <2> QED
    BY <1>1, <2>1
<1>7. CASE Tick
  <2>1. /\ hc' = [c \in Clusters |-> OlderCluster(hc[c])]
        /\ cache' = hc'
    BY <1>7 DEF Tick
  <2>2. \A c \in Clusters :
            /\ Shape(hc'[c]) /\ hc'[c].scheduled = TRUE
            /\ hc'[c].computed = hc[c].computed
            /\ hc[c].computed # None => hc'[c].at >= hc[c].at
    BY <2>1, OlderShape DEF LimitInv
  <2>a. \A c \in Clusters : hc[c].at \in Nat /\ hc'[c].at \in Nat
    BY <2>2, ShapeAge DEF LimitInv
  <2>3. Recent' \subseteq Recent
    BY <2>2, <2>a, ConfigAssumption
  <2>4. Cardinality(Recent') <= Limit
    BY <2>3, NoneYounger
  <2> QED
    BY <2>1, <2>2, <2>4 DEF LimitInv
<1>8. ASSUME NEW c \in Clusters, ChangeInput(c) \/ ReconcileSkips(c)
      PROVE  LimitInv'
  BY <1>1, <1>8 DEF ChangeInput, ReconcileSkips
<1>9. CASE UNCHANGED vars
  BY <1>1, <1>9 DEF vars
<1> QED
  BY <1>3, <1>4, <1>5, <1>6, <1>7, <1>8, <1>9 DEF Next, Reconcile

\* No more than Limit clusters transition within the window
\* (transitionsWithinSlidingWindow), for every set of scheduled clusters, as long
\* as the cache the controller lists them from is up to date.
THEOREM LimitHolds ==
    ASSUME NewClusters = {}, StaleReads = FALSE
    PROVE  Spec => []ClustersWithinLimit
<1>1. Init => LimitInv
  <2> SUFFICES ASSUME Init PROVE LimitInv
    OBVIOUS
  <2>1. hc = [c \in Clusters |-> Sized] /\ cache = hc
    BY DEF Init
  <2>2. \A c \in Clusters : Shape(hc[c]) /\ hc[c].scheduled = TRUE /\ hc[c].at >= Window
    <3>1. MaxAge \in Nat /\ MaxAge >= Window
      BY ConfigAssumption DEF MaxAge
    <3>2. Sized = Cluster(1, MaxAge, None, 0, NotPending, 1, TRUE)
      BY DEF Sized, Cluster
    <3>3. Shape(Sized) /\ Sized.scheduled = TRUE /\ Sized.at = MaxAge
      BY <3>1, <3>2, ClusterShape DEF Sized
    <3> QED
      BY <2>1, <3>1, <3>3
  <2>3. Recent = {}
    BY <2>2, ShapeAge, ConfigAssumption DEF Recent
  <2>4. Cardinality(Recent) <= Limit
    BY <2>3, FS_EmptySet, ConfigAssumption
  <2> QED
    BY <2>1, <2>2, <2>4 DEF LimitInv
<1>2. LimitInv /\ [Next]_vars => LimitInv'
  BY LimitInvStep
<1>3. LimitInv => ClustersWithinLimit
  BY DEF LimitInv, Recent, ClustersWithinLimit
<1> QED
  BY <1>1, <1>2, <1>3, PTL DEF Spec

----------------------------------------------------------------------------
(* A cluster that is neither queued nor behind in the cache is done with.  *)

\* The condition that a transition is required names the size it goes to.
Honest(c) ==
    LET s == sizeClass(hc[c], input[c])
    IN  s \in Sizes => hc[c].required = IF hc[c].label = s THEN None ELSE s

\* The inductive invariant.  The cache lags, but shows a control plane as scheduled only if it is:
\* so no write leaves the API server with what the cache shows already.
RestInv ==
    /\ hc = [c \in Clusters |-> hc[c]] /\ cache = [c \in Clusters |-> cache[c]]
    /\ ~ StaleReads => cache = hc
    /\ \A c \in Clusters :
          /\ Shape(hc[c]) /\ Shape(cache[c])
          /\ cache[c].scheduled = TRUE => hc[c].scheduled = TRUE
          /\ c \notin queue /\ cache[c] = hc[c] /\ ~ input[c].halted
                => hc[c].label = hc[c].computed /\ Honest(c)

\* A reconcile computes the conditions and not the metadata, and when it finds nothing to change
\* the ClusterSizeTransitionRequired condition is right.
LEMMA StatusFields ==
    ASSUME NEW v, NEW s, Shape(v)
    PROVE  LET new == newStatus(v, s) IN
           /\ Shape(new) /\ new.label = v.label /\ new.scheduled = v.scheduled
           /\ new = v /\ s \in Sizes /\ v.label = v.computed
                 => v.required = IF v.label = s THEN None ELSE s
<1> DEFINE new == newStatus(v, s)
<1>0. PICK cm, r, ra, p, l, sc : \E a \in Nat : v = Cluster(cm, a, r, ra, p, l, sc)
  BY DEF Shape
<1>a. PICK a \in Nat : v = Cluster(cm, a, r, ra, p, l, sc)
  BY <1>0
<1>b. v.computed = cm /\ v.required = r /\ v.label = l /\ v.scheduled = sc
  BY <1>a DEF Cluster
<1>1. CASE s = NoClass
  <2>1. new = v
    BY <1>1 DEF newStatus
  <2>2. s \notin Sizes
    BY <1>1, ClassesAssumption DEF NoClass, Sizes
  <2> QED
    BY <2>1, <2>2
<1>2. CASE s # NoClass /\ s = v.label
  <2>1. new = Cluster(cm, a, None, 0, NotPending, l, sc)
    BY <1>2, <1>a DEF newStatus, Settled, Cluster
  <2>2. Shape(new) /\ new.label = l /\ new.scheduled = sc /\ new.required = None
    BY <2>1, ClusterShape DEF Cluster
  <2> QED
    BY <1>2, <1>b, <2>2
<1>3. ASSUME NEW why, NEW d, new = Waiting(v, s, why, d), s # v.label
      PROVE  /\ Shape(new) /\ new.label = v.label /\ new.scheduled = v.scheduled
             /\ new.required = s
  <2> DEFINE rb == IF v.required = s THEN v.reqAge ELSE 0
             pb == [reason |-> why, detail |-> d]
  <2>0. new = [v EXCEPT !.pending = pb, !.required = s, !.reqAge = rb]
    BY <1>3 DEF Waiting
  <2> HIDE DEF rb, pb, new
  <2>1. new = Cluster(cm, a, s, rb, pb, l, sc)
    BY <2>0, <1>a DEF Cluster
  <2> QED
    BY <1>b, <2>1, ClusterShape DEF Cluster
<1>4. ASSUME new = Transitioned(v, s), s # v.label
      PROVE  /\ Shape(new) /\ new.label = v.label /\ new.scheduled = v.scheduled
             /\ new.computed = s
  <2>1. new = Cluster(s, 0, None, 0, NotPending, l, sc)
    BY <1>4, <1>a DEF Transitioned, Cluster
  <2> HIDE DEF new
  <2> QED
    BY <1>b, <2>1, ClusterShape DEF Cluster
<1>5. CASE s # NoClass /\ s # v.label
  <2>1. \/ new = Waiting(v, s, "delay", delay(v, s))
        \/ new = Waiting(v, s, "limit", Cardinality(withinWindow))
        \/ new = Transitioned(v, s)
    BY <1>5 DEF newStatus
  <2> HIDE DEF new
  <2>2. \/ Shape(new) /\ new.label = v.label /\ new.scheduled = v.scheduled /\ new.required = s
        \/ Shape(new) /\ new.label = v.label /\ new.scheduled = v.scheduled /\ new.computed = s
    BY <1>3, <1>4, <1>5, <2>1
  <2>3. /\ Shape(new) /\ new.label = v.label /\ new.scheduled = v.scheduled
        /\ new = v /\ s \in Sizes /\ v.label = v.computed
              => v.required = IF v.label = s THEN None ELSE s
    BY <1>5, <2>2
  <2> QED
    BY <2>3 DEF new
<1> QED
  BY <1>1, <1>2, <1>5

\* The status patch keeps the stored metadata; where the reader saw the same, it writes what
\* was computed.
LEMMA PatchFields ==
    ASSUME NEW v, NEW old, Shape(v)
    PROVE  /\ ApplyStatus(old, v).label = old.label
           /\ old.label = v.label /\ old.scheduled = v.scheduled => ApplyStatus(old, v) = v
<1> DEFINE x == old.label
           y == old.scheduled
<1>0. PICK cm, r, ra, p, l, sc : \E a \in Nat : v = Cluster(cm, a, r, ra, p, l, sc)
  BY DEF Shape
<1>1. PICK a \in Nat : v = Cluster(cm, a, r, ra, p, l, sc)
  BY <1>0
<1>2. ApplyStatus(old, v) = Cluster(cm, a, r, ra, p, x, y)
  <2>1. ApplyStatus(old, v) = [v EXCEPT !.label = x, !.scheduled = y]
    BY DEF ApplyStatus
  <2> HIDE DEF x, y
  <2> QED
    BY <1>1, <2>1 DEF Cluster
<1>3. l = v.label /\ sc = v.scheduled
  BY <1>1 DEF Cluster
<1> HIDE DEF x, y
<1>4. ApplyStatus(old, v).label = x
  BY <1>2 DEF Cluster
<1>5. x = l /\ y = sc => ApplyStatus(old, v) = v
  BY <1>1, <1>2
<1> QED
  BY <1>3, <1>4, <1>5 DEF x, y

\* Time passes for a cluster: only the ages of its conditions change.
LEMMA OlderFields ==
    ASSUME NEW v, Shape(v)
    PROVE  LET o == OlderCluster(v) IN
           /\ Shape(o) /\ o.computed = v.computed /\ o.required = v.required
           /\ o.label = v.label /\ o.scheduled = v.scheduled
<1>0. PICK cm, r, ra, p, l, sc : \E a \in Nat : v = Cluster(cm, a, r, ra, p, l, sc)
  BY DEF Shape
<1>1. PICK a \in Nat : v = Cluster(cm, a, r, ra, p, l, sc)
  BY <1>0
<1>2. v.computed = cm /\ v.at = a /\ v.required = r /\ v.reqAge = ra
  BY <1>1 DEF Cluster
<1> DEFINE b == IF cm = None THEN 0 ELSE Older(a)
           rb == IF r = None THEN 0 ELSE Older(ra)
<1>3. b \in Nat
  BY DEF Older
<1>4. OlderCluster(v) = Cluster(cm, b, r, rb, p, l, sc)
  <2>1. OlderCluster(v) = [v EXCEPT !.at = b, !.reqAge = rb]
    BY <1>2 DEF OlderCluster
  <2> HIDE DEF b, rb
  <2> QED
    BY <1>1, <2>1 DEF Cluster
<1> HIDE DEF b, rb
<1>5. Shape(OlderCluster(v))
  BY <1>3, <1>4, ClusterShape
<1> QED
  BY <1>1, <1>4, <1>5 DEF Cluster

\* The size of a cluster depends on its input, and on whether it has one already.
LEMMA SizeByLabel ==
    ASSUME NEW v, NEW w, NEW i, v.label = w.label
    PROVE  sizeClass(v, i) = sizeClass(w, i)
BY DEF sizeClass, determineNodeCount

\* A write that differs from what the cache shows leaves the cluster queued, or to be.
LEMMA WriteNoticed ==
    ASSUME RestInv, NEW c \in Clusters, NEW w, Shape(w), w # cache[c],
           cache[c].scheduled = TRUE => w.scheduled = TRUE,
           c \in queue, Written(c, w), UNCHANGED input
    PROVE  RestInv'
<1>1. /\ hc' = [hc EXCEPT ![c] = w]
      /\ cache' = IF StaleReads THEN cache ELSE hc'
      /\ queue' = IF StaleReads \/ w = hc[c] THEN queue \ {c} ELSE queue
  BY DEF Written
<1>2. /\ hc' = [d \in Clusters |-> hc'[d]] /\ hc'[c] = w
      /\ \A d \in Clusters : d # c => hc'[d] = hc[d]
  BY <1>1 DEF RestInv
<1>3. CASE StaleReads
  <2>1. cache' = cache /\ \A d \in Clusters : d # c => (d \in queue' <=> d \in queue)
    BY <1>1, <1>3
  <2>2. cache'[c] # hc'[c]
    BY <1>2, <2>1
  <2> QED
    BY <1>2, <1>3, <2>1, <2>2 DEF RestInv, Honest
<1>4. CASE ~ StaleReads
  <2>1. cache' = hc' /\ cache = hc /\ queue' = queue
    BY <1>1, <1>4 DEF RestInv
  <2> QED
    BY <1>2, <2>1 DEF RestInv, Honest
<1> QED
  BY <1>3, <1>4

\* Every step leaves each cluster done with, queued, or behind in the cache.
LEMMA RestInvStep ==
    ASSUME RestInv, [Next]_vars
    PROVE  RestInv'
<1>1. CASE UNCHANGED vars
  BY <1>1 DEF RestInv, Honest, vars
<1>2. ASSUME NEW c \in Clusters, ReconcileLabel(c)
      PROVE  RestInv'
  <2> DEFINE w == [hc[c] EXCEPT !.label = cache[c].computed]
  <2>1. Shape(hc[c]) /\ (cache[c].scheduled = TRUE => hc[c].scheduled = TRUE)
    BY DEF RestInv
  <2>2. Shape(w) /\ w.scheduled = hc[c].scheduled /\ w.label = cache[c].computed
    <3>1. PICK cm, r, ra, p, l, sc : \E a \in Nat : hc[c] = Cluster(cm, a, r, ra, p, l, sc)
      BY <2>1 DEF Shape
    <3>2. w.label = cache[c].computed
      BY <3>1 DEF Cluster
    <3> QED
      BY <2>1, <3>2, Relabelled
  <2>3. w # cache[c] /\ c \in queue /\ Written(c, w) /\ UNCHANGED input
    BY <1>2, <2>2 DEF ReconcileLabel
  <2> HIDE DEF w
  <2> QED
    BY <2>1, <2>2, <2>3, WriteNoticed
<1>3. ASSUME NEW c \in Clusters, ReconcileStatus(c)
      PROVE  RestInv'
  <2> DEFINE v == cache[c]
             s == sizeClass(v, input[c])
             n == newStatus(v, s)
             w == ApplyStatus(hc[c], n)
  <2>1. /\ c \in queue /\ v.label = v.computed /\ UNCHANGED input
        /\ \/ n = v /\ queue' = queue \ {c} /\ UNCHANGED <<hc, cache>>
           \/ n # v /\ Written(c, w)
    BY <1>3 DEF ReconcileStatus
  <2>2. Shape(v) /\ Shape(hc[c]) /\ (v.scheduled = TRUE => hc[c].scheduled = TRUE)
    BY DEF RestInv
  <2>3. /\ Shape(n) /\ n.label = v.label /\ n.scheduled = v.scheduled
        /\ n = v /\ s \in Sizes /\ v.label = v.computed
              => v.required = IF v.label = s THEN None ELSE s
    BY <2>2, StatusFields
  <2> HIDE DEF n
  <2>4. CASE n = v
    <3>1. cache[c] = hc[c] => hc[c].label = hc[c].computed /\ Honest(c)
      BY <2>1, <2>3, <2>4 DEF Honest
    <3>2. queue' = queue \ {c} /\ UNCHANGED <<hc, cache, input>>
      BY <2>1, <2>4
    <3> HIDE DEF v, s
    <3> QED
      BY <3>1, <3>2 DEF RestInv, Honest
  <2>5. CASE n # v
    <3>1. /\ Shape(w) /\ w.scheduled = hc[c].scheduled /\ w.label = hc[c].label
          /\ hc[c].label = n.label /\ hc[c].scheduled = n.scheduled => w = n
      BY <2>3, StatusApplied, PatchFields
    <3> HIDE DEF w
    <3>2. w # v
      BY <2>3, <2>5, <3>1
    <3> QED
      BY <2>1, <2>2, <2>5, <3>1, <3>2, WriteNoticed
  <2> QED
    BY <2>4, <2>5
<1>4. ASSUME NEW c \in Clusters, Schedule(c)
      PROVE  RestInv'
  <2> DEFINE w == [hc[c] EXCEPT !.scheduled = TRUE]
  <2>1. Shape(hc[c]) /\ cache[c].scheduled # TRUE
    BY <1>4 DEF RestInv, Schedule
  <2>2. Shape(w) /\ w.scheduled = TRUE
    <3>1. PICK cm, r, ra, p, l, sc : \E a \in Nat : hc[c] = Cluster(cm, a, r, ra, p, l, sc)
      BY <2>1 DEF Shape
    <3>2. PICK a \in Nat : hc[c] = Cluster(cm, a, r, ra, p, l, sc)
      BY <3>1
    <3>3. w = Cluster(cm, a, r, ra, p, l, TRUE)
      <4>1. ASSUME NEW y
            PROVE  [Cluster(cm, a, r, ra, p, l, sc) EXCEPT !.scheduled = y]
                     = Cluster(cm, a, r, ra, p, l, y)
        BY DEF Cluster
      <4> QED
        BY <3>2, <4>1
    <3> HIDE DEF w
    <3> QED
      BY <3>3, ClusterShape DEF Cluster
  <2>3. /\ hc' = [hc EXCEPT ![c] = w] /\ UNCHANGED input
        /\ cache' = IF StaleReads THEN cache ELSE hc'
        /\ queue' = IF StaleReads THEN queue ELSE queue \cup {c}
    BY <1>4 DEF Schedule
  <2> HIDE DEF w
  <2>4. /\ hc' = [d \in Clusters |-> hc'[d]] /\ hc'[c] = w
        /\ \A d \in Clusters : d # c => hc'[d] = hc[d]
    BY <2>3 DEF RestInv
  <2>5. CASE StaleReads
    <3>1. cache' = cache /\ queue' = queue /\ cache'[c] # hc'[c]
      BY <2>1, <2>2, <2>3, <2>4, <2>5
    <3> QED
      BY <2>2, <2>3, <2>4, <2>5, <3>1 DEF RestInv, Honest
  <2>6. CASE ~ StaleReads
    <3>1. cache' = hc' /\ cache = hc /\ queue' = queue \cup {c}
      BY <2>3, <2>6 DEF RestInv
    <3> QED
      BY <2>2, <2>3, <2>4, <3>1 DEF RestInv, Honest
  <2> QED
    BY <2>5, <2>6
<1>5. ASSUME NEW c \in Clusters, ChangeInput(c)
      PROVE  RestInv'
  <2>1. /\ UNCHANGED <<hc, cache>> /\ queue' = queue \cup {c}
        /\ \E i \in Inputs : input' = [input EXCEPT ![c] = i]
    BY <1>5 DEF ChangeInput
  <2>2. \A d \in Clusters : d # c => input'[d] = input[d]
    BY <2>1
  <2> QED
    BY <2>1, <2>2 DEF RestInv, Honest
<1>6. ASSUME NEW c \in Clusters, ReconcileSkips(c)
      PROVE  RestInv'
  BY <1>6 DEF ReconcileSkips, RestInv, Honest
<1>7. ASSUME NEW c \in Clusters, CacheSync(c)
      PROVE  RestInv'
  <2>1. /\ UNCHANGED <<hc, input>> /\ queue' = queue \cup {c}
        /\ cache' = [cache EXCEPT ![c] = hc[c]]
    BY <1>7 DEF CacheSync
  <2>2. StaleReads
    BY <1>7 DEF CacheSync, RestInv
  <2>3. /\ cache' = [d \in Clusters |-> cache'[d]] /\ cache'[c] = hc[c]
        /\ \A d \in Clusters : d # c => cache'[d] = cache[d]
    BY <2>1 DEF RestInv
  <2> QED
    BY <2>1, <2>2, <2>3 DEF RestInv, Honest
<1>8. CASE Restart
  BY <1>8 DEF Restart, RestInv, Honest
<1>9. CASE Tick
  <2>1. /\ hc' = [c \in Clusters |-> OlderCluster(hc[c])] /\ cache' = hc'
        /\ queue = {} /\ cache = hc /\ UNCHANGED input
    BY <1>9 DEF Tick, Quiet
  <2>2. \A c \in Clusters :
            /\ Shape(hc'[c]) /\ hc'[c].computed = hc[c].computed /\ hc'[c].required = hc[c].required
            /\ hc'[c].label = hc[c].label /\ hc'[c].scheduled = hc[c].scheduled
    BY <2>1, OlderFields DEF RestInv
  <2>3. \A c \in Clusters : sizeClass(hc'[c], input[c]) = sizeClass(hc[c], input[c])
    BY <2>2, SizeByLabel
  <2>4. \A c \in Clusters : sizeClass(hc[c], input[c])' = sizeClass(hc[c], input[c])
    BY <2>1, <2>3 DEF sizeClass, determineNodeCount
  <2>5. \A c \in Clusters : Honest(c) => Honest(c)'
    BY <2>2, <2>4 DEF Honest
  <2> QED
    BY <2>1, <2>2, <2>5 DEF RestInv
<1> QED
  BY <1>1, <1>2, <1>3, <1>4, <1>5, <1>6, <1>7, <1>8, <1>9 DEF Next, Reconcile

\* The invariant holds at the start: new clusters are queued, the others have the size that
\* their input gives them.
LEMMA RestInvInit ==
    ASSUME Init
    PROVE  RestInv
<1>1. /\ hc = [c \in Clusters |-> IF c \in NewClusters THEN Unsized ELSE Sized]
      /\ cache = hc /\ queue = NewClusters /\ input = [c \in Clusters |-> StartInput]
  BY DEF Init
<1>2. Shape(Sized) /\ Shape(Unsized)
  <2>1. MaxAge \in Nat
    BY ConfigAssumption DEF MaxAge
  <2>2. /\ Sized = Cluster(1, MaxAge, None, 0, NotPending, 1, TRUE)
        /\ Unsized = Cluster(None, 0, None, 0, NotPending, None, FALSE)
    BY DEF Sized, Unsized, Cluster
  <2> QED
    BY <2>1, <2>2, ClusterShape
<1>3. NoClass \notin Sizes
  BY ClassesAssumption DEF NoClass, Sizes
<1>4. Sized.label = 1 /\ Sized.computed = 1 /\ Sized.required = None
  BY DEF Sized
<1>5. ASSUME NEW c \in Clusters, c \notin queue
      PROVE  hc[c].label = hc[c].computed /\ Honest(c)
  <2>1. hc[c] = Sized /\ input[c] = StartInput
    BY <1>1, <1>5
  <2>2. sizeClass(hc[c], input[c]) \in Sizes => sizeClass(hc[c], input[c]) = 1
    BY <1>3, <2>1, StartAssumption
  <2> QED
    BY <1>4, <2>1, <2>2 DEF Honest
<1> QED
  BY <1>1, <1>2, <1>5 DEF RestInv

\* A cluster whose label is behind its status is always on its way to another reconcile, for any
\* configuration, however far the cache lags and wherever the operator restarts between the two
\* writes.
THEOREM LabelFollows == Spec => []LabelNotForgotten
<1>1. Init => RestInv
  BY RestInvInit
<1>2. RestInv /\ [Next]_vars => RestInv'
  BY RestInvStep
<1>3. RestInv => LabelNotForgotten
  BY DEF RestInv, LabelNotForgotten
<1> QED
  BY <1>1, <1>2, <1>3, PTL DEF Spec

\* When the controller rests the ClusterSizeTransitionRequired condition names the size the
\* cluster is going to, whatever stale clusters its reconciles read before.
THEOREM RequiredRight == Spec => []RequiredIsHonest
<1>1. Init => RestInv
  BY RestInvInit
<1>2. RestInv /\ [Next]_vars => RestInv'
  BY RestInvStep
<1>3. RestInv => RequiredIsHonest
  BY DEF RestInv, RequiredIsHonest, Quiet, Honest
<1> QED
  BY <1>1, <1>2, <1>3, PTL DEF Spec


----------------------------------------------------------------------------
(* Types, and timers that fire *)

\* A set of natural numbers has a least element.
LEMMA LeastNatural ==
    ASSUME NEW T \in SUBSET Nat, T # {}
    PROVE  \E x \in T : \A y \in T : x <= y
<1> DEFINE R == {ss \in Nat \X Nat : ss[1] < ss[2]}
<1>1. IsWellFoundedOn(R, Nat)
  BY NatLessThanWellFounded DEF OpToRel
<1> HIDE DEF R
<1>2. PICK x \in T : \A y \in T : ~ (<<y, x>> \in R)
  BY <1>1, WFMin
<1>3. ASSUME NEW a \in Nat, NEW b \in Nat, a < b PROVE <<a, b>> \in R
  BY <1>3 DEF R
<1>4. ASSUME NEW y \in T PROVE x <= y
  <2>1. y \in Nat /\ x \in Nat /\ ~ (y < x)
    BY <1>2, <1>3
  <2> QED
    BY <2>1
<1> QED
  BY <1>4

\* A bounded set of integers has a maximum.
LEMMA MaxInSet ==
    ASSUME NEW S \in SUBSET Int, NEW hi \in Int, S # {}, \A x \in S : x <= hi
    PROVE  Max(S) \in S /\ \A y \in S : y <= Max(S)
<1> DEFINE T == {n \in Nat : hi - n \in S}
<1>1. T # {}
  <2>1. PICK x \in S : TRUE
    OBVIOUS
  <2>2. hi - x \in Nat /\ hi - (hi - x) = x
    OBVIOUS
  <2>3. hi - x \in T
    BY <2>1, <2>2
  <2> QED
    BY <2>3
<1>2. PICK n \in T : \A m \in T : n <= m
  <2>1. T \in SUBSET Nat
    OBVIOUS
  <2> HIDE DEF T
  <2> QED
    BY <1>1, <2>1, LeastNatural
<1>3. hi - n \in S /\ n \in Nat
  BY <1>2
<1>4. ASSUME NEW y \in S PROVE hi - n >= y
  <2>1. hi - y \in Nat /\ hi - (hi - y) = y
    OBVIOUS
  <2>2. hi - y \in T
    BY <2>1
  <2>3. n <= hi - y
    BY <1>2, <2>2
  <2> QED
    BY <1>3, <2>3
<1>5. \E x \in S : \A y \in S : x >= y
  BY <1>3, <1>4
<1>6. Max(S) \in S /\ \A y \in S : Max(S) >= y
  BY <1>5 DEF Max
<1> QED
  BY <1>6

\* The size a cluster should have is one of the size classes, if there is any.
LEMMA ClassFound ==
    ASSUME NEW v, NEW i
    PROVE  sizeClass(v, i) \in Sizes \cup {NoClass}
<1>0. Sizes = 1 .. Len(Classes) /\ Len(Classes) \in Nat /\ 1 \in Sizes
  BY ClassesAssumption DEF Sizes
<1> DEFINE M == Matching(determineNodeCount(v, i)) \cup {NoClass}
<1>1. M \subseteq Sizes \cup {NoClass} /\ M # {}
  BY DEF Matching
<1>2. M \in SUBSET Int /\ Len(Classes) \in Int /\ \A x \in M : x <= Len(Classes)
  BY <1>0, <1>1 DEF NoClass
<1> HIDE DEF M
<1>3. Max(M) \in M
  BY Zenon, <1>1, <1>2, MaxInSet
<1>4. sizeClass(v, i) \in Sizes \cup {NoClass, 1} \/ sizeClass(v, i) = Max(M)
  BY DEF sizeClass, M
<1> QED
  BY <1>0, <1>1, <1>3, <1>4


\* The numbers of the configuration.
LEMMA Configured ==
    /\ Increase \in Nat /\ Decrease \in Nat /\ Window \in Nat /\ Window > 0
    /\ MaxAge \in Nat /\ MaxAge >= Window /\ Ages \subseteq Nat /\ 0 \in Ages
    /\ Cardinality(Clusters) \in Nat
BY ConfigAssumption, ClustersAssumption, FS_CardinalityType DEF MaxAge, Ages

\* The delay of a transition is one of the two configured ones.
LEMMA DelayTyped ==
    ASSUME NEW v, NEW s
    PROVE  delay(v, s) \in Nat /\ delay(v, s) <= Increase + Decrease
BY Configured DEF delay

\* What the conditions of a cluster can tell about a transition that waits.
LEMMA PendingTyped ==
    ASSUME NEW v, NEW s
    PROVE  /\ NotPending \in Pendings
           /\ [reason |-> "delay", detail |-> delay(v, s)] \in Pendings
           /\ [reason |-> "limit", detail |-> Cardinality(withinWindow)] \in Pendings
<1> DEFINE D == 0..(Cardinality(Clusters) + Increase + Decrease)
<1>1. 0 \in D /\ delay(v, s) \in D
  BY Configured, DelayTyped
<1>2. Cardinality(withinWindow) \in D
  <2>1. withinWindow \subseteq Clusters
    BY DEF withinWindow
  <2>2. IsFiniteSet(withinWindow) /\ Cardinality(withinWindow) <= Cardinality(Clusters)
    BY <2>1, FS_Subset, ClustersAssumption
  <2>3. Cardinality(withinWindow) \in Nat
    BY <2>2, FS_CardinalityType
  <2> QED
    BY <2>2, <2>3, Configured
<1>3. Pendings = [reason : {"none", "delay", "limit"}, detail : D]
  BY DEF Pendings
<1> HIDE DEF D
<1> QED
  BY <1>1, <1>2, <1>3 DEF NotPending

\* The fields of a HostedCluster.
LEMMA ClusterFields ==
    ASSUME NEW v \in HostedClusters
    PROVE  /\ v.computed \in Sizes \cup {None} /\ v.at \in Ages /\ v.required \in Sizes \cup {None}
           /\ v.reqAge \in Ages /\ v.pending \in Pendings /\ v.label \in Sizes \cup {None}
           /\ v.scheduled \in BOOLEAN
BY DEF HostedClusters

\* The status that a reconcile computes is one of a HostedCluster.
LEMMA StatusTyped ==
    ASSUME NEW v \in HostedClusters, NEW s \in Sizes \cup {NoClass}
    PROVE  newStatus(v, s) \in HostedClusters
<1>0. 0 \in Ages /\ NotPending \in Pendings
  BY Configured, PendingTyped
<1>1. Settled(v) \in HostedClusters
  BY <1>0 DEF Settled, HostedClusters
<1>2. s \in Sizes => Transitioned(v, s) \in HostedClusters
  BY <1>0 DEF Transitioned, HostedClusters
<1>3. ASSUME NEW p \in Pendings, NEW a \in Ages, s \in Sizes
      PROVE  [v EXCEPT !.pending = p, !.required = s, !.reqAge = a] \in HostedClusters
  BY <1>3 DEF HostedClusters
<1>4. (IF v.required = s THEN v.reqAge ELSE 0) \in Ages
  BY <1>0, ClusterFields
<1>5. s \in Sizes => Waiting(v, s, "delay", delay(v, s)) \in HostedClusters
  BY Zenon, <1>3, <1>4, PendingTyped DEF Waiting
<1>6. s \in Sizes => Waiting(v, s, "limit", Cardinality(withinWindow)) \in HostedClusters
  BY Zenon, <1>3, <1>4, PendingTyped DEF Waiting
<1> QED
  BY Zenon, <1>1, <1>2, <1>5, <1>6 DEF newStatus

\* A transition that waits asks for a reconcile in the future: RequeueAfter is
\* positive, at the edge of the delay and of the window too.
LEMMA RequeueLater ==
    ASSUME cache \in [Clusters -> HostedClusters],
           NEW v \in HostedClusters, NEW s \in Sizes \cup {NoClass}
    PROVE  requeueAfter(v, s, newStatus(v, s)) \in {Never} \cup (Nat \ {0})
<1> DEFINE new == newStatus(v, s)
<1>1. CASE new # v /\ new.pending.reason = "delay"
  <2>1. elapsed(v, s) < delay(v, s)
    <3>1. Settled(v).pending = NotPending /\ Transitioned(v, s).pending = NotPending
      BY DEF Settled, Transitioned, HostedClusters
    <3>2. Waiting(v, s, "limit", Cardinality(withinWindow)).pending.reason = "limit"
      BY DEF Waiting, HostedClusters
    <3> QED
      BY <1>1, <3>1, <3>2 DEF newStatus, NotPending
  <2>2. elapsed(v, s) \in Nat
    BY ClusterFields, Configured DEF elapsed
  <2>3. requeueAfter(v, s, new) = delay(v, s) - elapsed(v, s)
    BY <1>1 DEF requeueAfter
  <2> QED
    BY <2>1, <2>2, <2>3, DelayTyped
<1>2. CASE new # v /\ new.pending.reason = "limit"
  <2> DEFINE A == {cache[c].at : c \in withinWindow} \cup {0}
  <2>1. \A x \in A : x \in Nat /\ x < Window
    <3>1. \A c \in withinWindow : cache[c].at \in Nat /\ cache[c].at < Window
      BY ClusterFields, Configured DEF withinWindow
    <3> QED
      BY <3>1, Configured
  <2>3. durationUntilChanges = Window - Max(A) /\ 0 \in A
    BY DEF durationUntilChanges
  <2> HIDE DEF A
  <2>2. A \in SUBSET Int /\ Window \in Int /\ A # {} /\ \A x \in A : x <= Window
    BY <2>1, <2>3, Configured
  <2>4. Max(A) \in A
    BY Zenon, <2>2, MaxInSet
  <2>5. requeueAfter(v, s, new) = Window - Max(A)
    BY <1>2, <2>3 DEF requeueAfter
  <2> QED
    BY <2>1, <2>4, <2>5, Configured
<1>3. CASE new = v \/ new.pending.reason \notin {"delay", "limit"}
  BY <1>3 DEF requeueAfter
<1> QED
  BY <1>1, <1>2, <1>3


\* Timers are pending or absent; none is zero, which Tick would never fire.
TimersFire == \A c \in Clusters : timer[c] # 0

SizingInv == TypeOK /\ TimersFire

\* A cluster whose size is applied, and one without a size.
LEMMA StartTyped == Sized \in HostedClusters /\ Unsized \in HostedClusters
<1>1. 1 \in Sizes
  BY ClassesAssumption DEF Sizes
<1>2. MaxAge \in Ages /\ 0 \in Ages
  BY Configured DEF Ages
<1>3. NotPending \in Pendings
  BY PendingTyped
<1> QED
  BY <1>1, <1>2, <1>3 DEF Sized, Unsized, HostedClusters

\* A cluster that ages stays one.
LEMMA OlderTyped ==
    ASSUME NEW v \in HostedClusters
    PROVE  OlderCluster(v) \in HostedClusters
<1>1. ASSUME NEW a \in Ages
      PROVE  Older(a) \in Ages
  BY Configured DEF Older, Ages
<1>2. /\ (IF v.computed = None THEN 0 ELSE Older(v.at)) \in Ages
      /\ (IF v.required = None THEN 0 ELSE Older(v.reqAge)) \in Ages
  BY <1>1, Configured, ClusterFields
<1>3. ASSUME NEW a \in Ages, NEW b \in Ages
      PROVE  [v EXCEPT !.at = a, !.reqAge = b] \in HostedClusters
  BY DEF HostedClusters
<1> QED
  BY Zenon, <1>2, <1>3 DEF OlderCluster

\* What a status write stores.
LEMMA ApplyTyped ==
    ASSUME NEW v \in HostedClusters, NEW new \in HostedClusters
    PROVE  ApplyStatus(v, new) \in HostedClusters
BY DEF ApplyStatus, HostedClusters

\* A write of a HostedCluster keeps the types of the store, the cache and the queue.
LEMMA WriteTyped ==
    ASSUME TypeOK, NEW c \in Clusters, NEW new \in HostedClusters, Written(c, new)
    PROVE  /\ hc' \in [Clusters -> HostedClusters]
           /\ cache' \in [Clusters -> HostedClusters]
           /\ queue' \subseteq Clusters
<1>1. hc' = [hc EXCEPT ![c] = new] /\ (cache' = cache \/ cache' = hc') /\ queue' \subseteq queue
  BY DEF Written
<1> QED
  BY <1>1 DEF TypeOK

\* The earlier of two timers that fire fires.
LEMMA AddTyped ==
    ASSUME NEW t \in {Never} \cup (Nat \ {0}), NEW d \in {Never} \cup (Nat \ {0})
    PROVE  AddAfter(t, d) \in {Never} \cup (Nat \ {0})
BY DEF AddAfter

\* The timers that SizingInv describes.
LEMMA TimersTyped ==
    (timer \in [Clusters -> Nat \cup {Never}] /\ TimersFire)
        <=> timer \in [Clusters -> {Never} \cup (Nat \ {0})]
BY DEF TimersFire, Never

\* The inductive step: SizingInv is preserved by every action of the controller.
LEMMA SizingNext ==
    ASSUME SizingInv, [Next]_vars
    PROVE  SizingInv'
<1> DEFINE T == {Never} \cup (Nat \ {0})
           Objects == /\ hc' \in [Clusters -> HostedClusters]
                      /\ cache' \in [Clusters -> HostedClusters]
                      /\ queue' \subseteq Clusters
           Rest == /\ input' \in [Clusters -> Inputs]
                   /\ clock' \in 0..(Resync - 1)
                   /\ changes' \in 0..MaxChanges /\ restarts' \in 0..MaxRestarts
<1>0. TypeOK /\ timer \in [Clusters -> T]
  BY TimersTyped DEF SizingInv, TypeOK
<1>a. timer' \in [Clusters -> T] => timer' \in [Clusters -> Nat \cup {Never}] /\ TimersFire'
  BY DEF TimersFire, Never
<1>b. SUFFICES Objects /\ Rest /\ timer' \in [Clusters -> T]
  BY <1>a DEF SizingInv, TypeOK
<1>c. ASSUME UNCHANGED <<input, clock, changes, restarts>>
      PROVE  Rest
  BY <1>0, <1>c DEF TypeOK
<1>1. CASE Tick
  <2>1. Objects
    <3>1. \A c \in Clusters : OlderCluster(hc[c]) \in HostedClusters
      BY <1>0, OlderTyped DEF TypeOK
    <3> QED
      BY <1>1, <3>1 DEF Tick
  <2>2. (clock + 1) % Resync \in 0..(Resync - 1)
    BY <1>0, ResyncAssumption DEF TypeOK
  <2>3. Rest
    BY <1>0, <1>1, <2>2 DEF Tick, TypeOK
  <2>4. \A c \in Clusters : (IF timer[c] > 1 THEN timer[c] - 1 ELSE Never) \in T
    BY <1>0 DEF Never
  <2>5. timer' \in [Clusters -> T]
    BY <1>1, <2>4 DEF Tick
  <2> QED
    BY <2>1, <2>3, <2>5
<1>2. CASE Restart
  <2>1. Objects /\ timer' \in [Clusters -> T]
    BY <1>0, <1>2 DEF Restart, TypeOK
  <2>2. Rest
    BY <1>0, <1>2, BoundsAssumption DEF Restart, TypeOK
  <2> QED
    BY <2>1, <2>2
<1>3. ASSUME NEW c \in Clusters, ChangeInput(c)
      PROVE  Objects /\ Rest /\ timer' \in [Clusters -> T]
  <2>1. Objects /\ timer' \in [Clusters -> T]
    BY <1>0, <1>3 DEF ChangeInput, TypeOK
  <2>2. Rest
    BY <1>0, <1>3, BoundsAssumption DEF ChangeInput, TypeOK
  <2> QED
    BY <2>1, <2>2
<1>4. ASSUME NEW c \in Clusters, Schedule(c)
      PROVE  Objects /\ Rest /\ timer' \in [Clusters -> T]
  <2>0. \A v \in HostedClusters : [v EXCEPT !.scheduled = TRUE] \in HostedClusters
    BY DEF HostedClusters
  <2>1. [hc[c] EXCEPT !.scheduled = TRUE] \in HostedClusters
    BY <1>0, <2>0 DEF TypeOK
  <2>2. hc' = [hc EXCEPT ![c] = [hc[c] EXCEPT !.scheduled = TRUE]]
    BY <1>0, <1>4 DEF Schedule, TypeOK
  <2>3. hc' \in [Clusters -> HostedClusters]
    BY <1>0, <2>1, <2>2 DEF TypeOK
  <2>4. (cache' = cache \/ cache' = hc') /\ queue' \subseteq Clusters /\ timer' = timer
    BY <1>0, <1>4 DEF Schedule, TypeOK
  <2> QED
    BY <1>0, <1>4, <1>c, <2>3, <2>4 DEF Schedule, TypeOK

<1>5. ASSUME NEW c \in Clusters, ReconcileSkips(c)
      PROVE  Objects /\ Rest /\ timer' \in [Clusters -> T]
  BY <1>0, <1>5, <1>c DEF ReconcileSkips, TypeOK
<1>6. ASSUME NEW c \in Clusters, ReconcileLabel(c)
      PROVE  Objects /\ Rest /\ timer' \in [Clusters -> T]
  <2>1. [hc[c] EXCEPT !.label = cache[c].computed] \in HostedClusters
    BY <1>0 DEF TypeOK, HostedClusters
  <2>2. Objects
    BY <1>0, <1>6, <2>1, WriteTyped DEF ReconcileLabel
  <2> QED
    BY <1>0, <1>6, <1>c, <2>2 DEF ReconcileLabel
<1>7. ASSUME NEW c \in Clusters, ReconcileStatus(c)
      PROVE  Objects /\ Rest /\ timer' \in [Clusters -> T]
  <2> DEFINE v == cache[c]
             s == sizeClass(v, input[c])
             new == newStatus(v, s)
  <2>1. v \in HostedClusters /\ hc[c] \in HostedClusters /\ s \in Sizes \cup {NoClass}
    BY <1>0, ClassFound DEF TypeOK
  <2>2. /\ \/ queue' = queue \ {c} /\ UNCHANGED <<hc, cache>>
           \/ Written(c, ApplyStatus(hc[c], new))
        /\ timer' = [timer EXCEPT ![c] = AddAfter(timer[c], requeueAfter(v, s, new))]
        /\ UNCHANGED <<input, clock, changes, restarts>>
    BY <1>7 DEF ReconcileStatus
  <2> HIDE DEF s
  <2>3. new \in HostedClusters
    BY <2>1, StatusTyped
  <2>4. requeueAfter(v, s, new) \in T
    BY <1>0, <2>1, RequeueLater DEF TypeOK
  <2> HIDE DEF new, v
  <2>5. ApplyStatus(hc[c], new) \in HostedClusters
    BY <2>1, <2>3, ApplyTyped
  <2>6. Objects
    <3>1. CASE queue' = queue \ {c} /\ UNCHANGED <<hc, cache>>
      BY <1>0, <3>1 DEF TypeOK
    <3>2. CASE Written(c, ApplyStatus(hc[c], new))
      BY <1>0, <2>5, <3>2, WriteTyped
    <3> QED
      BY <2>2, <3>1, <3>2
  <2>7. AddAfter(timer[c], requeueAfter(v, s, new)) \in T
    <3>1. timer[c] \in T
      BY <1>0
    <3> QED
      BY <2>4, <3>1, AddTyped
  <2>8. timer' \in [Clusters -> T]
    BY <1>0, <2>2, <2>7
  <2> QED
    BY <1>c, <2>2, <2>6, <2>8
<1>8. ASSUME NEW c \in Clusters, CacheSync(c)
      PROVE  Objects /\ Rest /\ timer' \in [Clusters -> T]
  BY <1>0, <1>8, <1>c DEF CacheSync, TypeOK
<1>9. CASE UNCHANGED vars
  BY <1>0, <1>9 DEF vars, TypeOK
<1> HIDE DEF Objects, Rest
<1> QED
  BY <1>1, <1>2, <1>3, <1>4, <1>5, <1>6, <1>7, <1>8, <1>9 DEF Next, Reconcile

\* SizingInv holds at the start.
LEMMA SizingInit == Init => SizingInv
BY StartTyped, ClustersAssumption, InputsAssumption, ResyncAssumption, BoundsAssumption
   DEF Init, SizingInv, TypeOK, TimersFire, Never

\* Every variable of the sizing controller keeps its type, for any size classes,
\* delays and window, however much the cache lags: the class of a cluster is one
\* of the configured ones, ages stay within MaxAge and what the conditions report
\* stays in range.  A reconcile that waits for a delay or for the window asks for
\* a timer that fires: the duration it computes is never zero.
THEOREM SizingTypes == Spec => [](TypeOK /\ TimersFire)
<1>1. Init => SizingInv
  BY SizingInit
<1>2. SizingInv /\ [Next]_vars => SizingInv'
  BY SizingNext
<1>3. SizingInv => TypeOK /\ TimersFire
  BY DEF SizingInv
<1> QED
  BY <1>1, <1>2, <1>3, PTL DEF Spec
=============================================================================
