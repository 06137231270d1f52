--------------------------- MODULE IgnitionTokens ---------------------------
(***************************************************************************)
(* The life of the ignition token of one config version of a NodePool.     *)
(*                                                                         *)
(* The NodePool controller creates the token Secret and the user-data      *)
(* Secret that hands the token to new Machines, and sets an expiration on  *)
(* the token Secret when the config version is outdated; the secret        *)
(* janitor does the same for versions nobody refers to.  Each replica of   *)
(* the ignition server keeps a cache from tokens to payloads (PayloadStore,*)
(* an ExpiringCache), rotates the token of the Secret every ttl/2 and      *)
(* removes Secrets that expired.  A Machine boots if the replica that      *)
(* answers it has its token in the cache.                                  *)
(*                                                                         *)
(* Tokens are numbered as they are generated; 0 is the empty string, the   *)
(* value of a missing key.  Time is counted in ticks and passes only when  *)
(* no reconcile is due or running (Quiet): reconciles take seconds, the    *)
(* timers hours.                                                           *)
(***************************************************************************)
EXTENDS Integers, FiniteSets

CONSTANTS Half,          \* ttl / 2, the age at which a token is rotated
          Grace,         \* timeUntilExpiry of an outdated token
          MaxTokens,     \* bound on the tokens generated
          MaxFailures,   \* bound on failed patches and payload generations
          Deployments    \* the ignition servers considered and what happens to them

ASSUME TimesAssumption ==
    Half \in Nat \ {0} /\ Grace \in Nat \ {0} /\ Grace <= Half   \* 5.5 and 2 hours
ASSUME BoundsAssumption == MaxTokens \in Nat /\ MaxFailures \in Nat
ASSUME DeploymentsAssumption ==
    \A d \in Deployments :
        /\ IsFiniteSet(d.replicas) /\ d.platform \in {"AWS", "AWS<4.16", "other"}
        /\ d.time \in Nat       \* bound: the clock
        /\ d.roles \in Nat      \* bound: changes of the NodePool
        /\ d.restarts \in Nat   \* bound: restarts of replicas

VARIABLES
    deployment, \* the replicas of the ignition server, the platform and the bounds
    now,
    role,       \* what the config version is to the NodePool (see Roles)
    secret,     \* the token Secret
    userData,   \* the token in the user-data Secret, NoSecret if it is deleted
    np,         \* token the NodePool controller is about to write in the user data
    janitor,    \* the secret janitor's reconcile in progress
    cache,      \* per replica: expiry of the entry of each token, Absent if none
    rec,        \* per replica: the reconcile in progress
    machine,    \* a Machine that is booting: its token and when it got it
    next,       \* number of the next token
    roles, restarts, failures

vars == <<deployment, now, role, secret, userData, np, janitor, cache, rec, machine, next,
          roles, restarts, failures>>
serverVars == <<cache, rec>>
poolVars == <<role, userData, np, janitor, machine, roles>>

----------------------------------------------------------------------------
(* Data *)

Replicas == deployment.replicas
Platform == deployment.platform

ttl == 2 * Half
Tokens == 1..MaxTokens
Keys == 0..MaxTokens
Absent == -1
NoSecret == -1
Never == -1

\* "target": the spec asks for it; "outdated": the spec asks for another one
\* but nodePoolCurrentConfigVersion still is this one; "abandoned": neither;
\* "gone": the NodePool is being deleted.
Roles == {"target", "outdated", "abandoned", "gone"}
Reasons == {"", "InvalidConfig", "AsExpected"}

Secrets == [exists : BOOLEAN, token : Keys, old : Keys, gen : 0..deployment.time,
            expires : {Never} \cup (0..(deployment.time + Grace)), reason : Reasons]
Deleted == [exists |-> FALSE, token |-> 0, old |-> 0, gen |-> 0,
            expires |-> Never, reason |-> ""]
IdleJanitor == [kind |-> "idle", view |-> Deleted]
IdleRec == [pc |-> "idle", view |-> Deleted, new |-> 0]

----------------------------------------------------------------------------
(* Pure functions *)

\* Every Get of the cache first drops what expired (garbageCollect).
Live(r, key) == cache[r][key] >= now

isTokenExpired(s) == s.expires # Never /\ now > s.expires

tokenNeedRotation(s) == now - s.gen >= Half

\* setExpirationTimestampOnToken: once only.
WithExpirationNow(s) == IF s.expires = Never THEN [s EXCEPT !.expires = now] ELSE s
WithExpiration(s) == IF s.expires = Never THEN [s EXCEPT !.expires = now + Grace] ELSE s

shouldKeepOldUserData == Platform = "AWS<4.16"

----------------------------------------------------------------------------
Init ==
    /\ deployment \in Deployments
    /\ now = 0
    /\ role = "target"
    /\ secret = Deleted
    /\ userData = NoSecret
    /\ np = NoSecret
    /\ janitor = IdleJanitor
    /\ cache = [r \in Replicas |-> [k \in Keys |-> Absent]]
    /\ rec = [r \in Replicas |-> IdleRec]
    /\ machine = [token |-> 0, at |-> 0]
    /\ next = 1
    /\ roles = 0
    /\ restarts = 0
    /\ failures = 0

----------------------------------------------------------------------------
(* The NodePool controller and the user *)

\* The clock leaves room for an expiration and a rotation after now.
Horizon == now + Grace + Half < deployment.time

\* The user edits the NodePool, or a rollout completes.
ChangeRole ==
    /\ roles < deployment.roles
    /\ Horizon
    /\ roles' = roles + 1
    /\ \E to \in Roles :
         /\ <<role, to>> \in {<<"target", "outdated">>, <<"target", "abandoned">>,
                              <<"outdated", "target">>, <<"outdated", "abandoned">>,
                              <<"abandoned", "target">>}
                             \cup ((Roles \ {"gone"}) \X {"gone"})
         /\ role' = to
    /\ UNCHANGED <<deployment, now, secret, userData, np, janitor, cache, rec,
                   machine, next,
                   restarts, failures>>

NewSecret == [exists |-> TRUE, token |-> next, old |-> 0, gen |-> now,
              expires |-> Never, reason |-> ""]

\* Mutant: an expiration set before stays.
ReconcileTokenKeepingExpiration ==
    /\ role = "target"
    /\ np = NoSecret
    /\ secret.exists \/ next <= MaxTokens
    /\ secret' = IF secret.exists THEN secret ELSE NewSecret
    /\ next' = IF secret.exists THEN next ELSE next + 1
    /\ np' = secret'.token
    /\ UNCHANGED <<deployment, now, role, userData, janitor, machine, roles,
                   restarts, failures, serverVars>>

\* Token.Reconcile, first half: the token Secret is created, or its expiration
\* is removed ("active token should never be marked as expired").
ReconcileToken ==
    /\ role = "target"
    /\ np = NoSecret
    /\ secret.exists \/ next <= MaxTokens
    /\ secret' = IF secret.exists THEN [secret EXCEPT !.expires = Never] ELSE NewSecret
    /\ next' = IF secret.exists THEN next ELSE next + 1
    /\ np' = secret'.token
    /\ UNCHANGED <<deployment, now, role, userData, janitor, machine, roles,
                   restarts, failures, serverVars>>

\* Token.Reconcile, second half: the user data gets the token read before.
ReconcileUserData ==
    /\ np # NoSecret
    /\ userData' = np
    /\ np' = NoSecret
    /\ UNCHANGED <<deployment, now, role, secret, janitor, machine, next, roles,
                   restarts, failures, serverVars>>

\* Token.cleanupOutdated.
CleanupOutdated ==
    /\ role = "outdated"
    /\ np = NoSecret
    /\ secret' = IF secret.exists THEN WithExpiration(secret) ELSE secret
    /\ userData' = IF Platform = "other" THEN NoSecret ELSE userData
    /\ <<secret', userData'>> # <<secret, userData>>
    /\ UNCHANGED <<deployment, now, role, np, janitor, machine, next, roles,
                   restarts, failures, serverVars>>

\* deleteNodePoolSecrets, when the NodePool is deleted.
DeleteNodePoolSecrets ==
    /\ role = "gone"
    /\ np = NoSecret
    /\ secret.exists \/ userData # NoSecret
    /\ secret' = Deleted
    /\ userData' = NoSecret
    /\ UNCHANGED <<deployment, now, role, np, janitor, machine, next, roles,
                   restarts, failures, serverVars>>

----------------------------------------------------------------------------
(* The secret janitor: reads a Secret, then the NodePool, then cleans up *)

JanitorReads ==
    /\ janitor.kind = "idle"
    /\ \/ role \in {"outdated", "abandoned"} /\ ~ shouldKeepOldUserData
       \/ role = "gone"
    /\ \/ secret.exists /\ secret.expires = Never /\ role # "gone"
          /\ janitor' = [kind |-> "token", view |-> secret]
       \/ secret.exists /\ role = "gone"
          /\ janitor' = [kind |-> "missing", view |-> secret]
       \/ userData # NoSecret
          /\ janitor' = [kind |-> "userData", view |-> Deleted]
    /\ UNCHANGED <<deployment, now, role, secret, userData, np, machine, next, roles,
                   restarts,
                   failures, serverVars>>

\* The token Secret is updated, which is refused if it changed since it was read
\* (compared by value here, which allows more than by version); the user-data
\* Secret, and any Secret of a NodePool that is missing, is deleted as it is.
JanitorCleans ==
    /\ janitor.kind # "idle"
    /\ janitor' = IdleJanitor
    /\ secret' = CASE janitor.kind = "missing" -> Deleted
                   [] janitor.kind = "token" /\ secret = janitor.view -> WithExpiration(secret)
                   [] OTHER -> secret
    /\ userData' = IF janitor.kind = "userData" THEN NoSecret ELSE userData
    /\ UNCHANGED <<deployment, now, role, np, machine, next, roles, restarts,
                   failures, serverVars>>

----------------------------------------------------------------------------
(* A replica of the ignition server *)

SetKey(c, key) == [c EXCEPT ![key] = now + ttl]
DeleteKey(c, key) == [c EXCEPT ![key] = Absent]

\* Mutant: the tokens of a missing Secret stay in the cache.
PurgeNothing(r) == FALSE /\ UNCHANGED vars

\* The Secret is gone: its tokens are purged from the cache.
PurgeCache(r) ==
    /\ rec[r].pc = "idle"
    /\ ~ secret.exists
    /\ \E k \in Keys : cache[r][k] # Absent
    /\ cache' = [cache EXCEPT ![r] = [k \in Keys |-> Absent]]
    /\ UNCHANGED <<deployment, now, poolVars, secret, rec, next, restarts, failures>>

\* processExpiredToken
ProcessExpiredToken(r) ==
    /\ rec[r].pc = "idle"
    /\ secret.exists
    /\ isTokenExpired(secret)
    /\ cache' = [cache EXCEPT ![r] =
         DeleteKey(IF secret.old = 0 THEN @ ELSE DeleteKey(@, secret.old), secret.token)]
    /\ secret' = Deleted
    /\ UNCHANGED <<deployment, now, poolVars, rec, next, restarts, failures>>

Active(r) == rec[r].pc = "idle" /\ secret.exists /\ ~ isTokenExpired(secret)

\* Mutant: the token before the last one is kept.
StartRotationKeepingOld(r) ==
    /\ Active(r)
    /\ Live(r, secret.token)
    /\ tokenNeedRotation(secret)
    /\ next <= MaxTokens
    /\ cache' = [cache EXCEPT ![r] = SetKey(@, next)]
    /\ rec' = [rec EXCEPT ![r] = [pc |-> "rotating", view |-> secret, new |-> next]]
    /\ next' = next + 1
    /\ UNCHANGED <<deployment, now, poolVars, secret, restarts, failures>>

\* rotateToken up to the patch: the token before the last one is dropped, the
\* new one is in the cache before it is in the Secret.
StartRotation(r) ==
    /\ Active(r)
    /\ Live(r, secret.token)
    /\ tokenNeedRotation(secret)
    /\ next <= MaxTokens
    /\ cache' = [cache EXCEPT ![r] =
         SetKey(IF secret.old = 0 THEN @ ELSE DeleteKey(@, secret.old), next)]
    /\ rec' = [rec EXCEPT ![r] = [pc |-> "rotating", view |-> secret, new |-> next]]
    /\ next' = next + 1
    /\ UNCHANGED <<deployment, now, poolVars, secret, restarts, failures>>

\* The patch names no resourceVersion: it succeeds whatever happened since.
PatchRotation(r) ==
    /\ rec[r].pc = "rotating"
    /\ secret.exists
    /\ secret' = [secret EXCEPT !.token = rec[r].new, !.old = rec[r].view.token, !.gen = now]
    /\ rec' = [rec EXCEPT ![r] = IdleRec]
    /\ UNCHANGED <<deployment, now, poolVars, cache, next, restarts, failures>>

RestoreCache(c, r) == SetKey(DeleteKey(c, rec[r].new), rec[r].view.old)

AbandonRotation(r) ==
    /\ rec[r].pc = "rotating"
    /\ cache' = [cache EXCEPT ![r] = RestoreCache(@, r)]
    /\ rec' = [rec EXCEPT ![r] = IdleRec]
    /\ UNCHANGED <<deployment, now, poolVars, secret, next, restarts>>

PatchRotationNotFound(r) ==
    /\ ~ secret.exists
    /\ AbandonRotation(r)
    /\ UNCHANGED failures

PatchRotationFails(r) ==
    /\ failures < MaxFailures
    /\ failures' = failures + 1
    /\ AbandonRotation(r)

\* Another replica rotated the token: the payload is the old token's.
CopyFromOldToken(r) ==
    /\ Active(r)
    /\ ~ Live(r, secret.token)
    /\ secret.old # 0
    /\ Live(r, secret.old)
    /\ cache' = [cache EXCEPT ![r] = SetKey(@, secret.token)]
    /\ UNCHANGED <<deployment, now, poolVars, secret, rec, next, restarts, failures>>

StartGeneration(r) ==
    /\ Active(r)
    /\ ~ Live(r, secret.token)
    /\ secret.old = 0 \/ ~ Live(r, secret.old)
    /\ rec' = [rec EXCEPT ![r] = [pc |-> "generating", view |-> secret, new |-> 0]]
    /\ UNCHANGED <<deployment, now, poolVars, secret, cache, next, restarts, failures>>

SetGenerated(c, v) == IF v.old = 0 THEN SetKey(c, v.token)
                      ELSE SetKey(SetKey(c, v.token), v.old)

\* The payload is stored for the token and the old token, then the Secret says so.
Generated(r) ==
    /\ rec[r].pc = "generating"
    /\ cache' = [cache EXCEPT ![r] = SetGenerated(@, rec[r].view)]
    /\ secret' = IF secret.exists THEN [secret EXCEPT !.reason = "AsExpected"] ELSE secret
    /\ rec' = [rec EXCEPT ![r] = IdleRec]
    /\ UNCHANGED <<deployment, now, poolVars, next, restarts, failures>>

\* The payload is in the cache, but the patch of the Secret fails.
GenerationUnpublished(r) ==
    /\ rec[r].pc = "generating"
    /\ failures < MaxFailures
    /\ failures' = failures + 1
    /\ cache' = [cache EXCEPT ![r] = SetGenerated(@, rec[r].view)]
    /\ rec' = [rec EXCEPT ![r] = IdleRec]
    /\ UNCHANGED <<deployment, now, poolVars, secret, next, restarts>>

GenerationFails(r) ==
    /\ rec[r].pc = "generating"
    /\ failures < MaxFailures
    /\ failures' = failures + 1
    /\ secret' = IF secret.exists THEN [secret EXCEPT !.reason = "InvalidConfig"] ELSE secret
    /\ rec' = [rec EXCEPT ![r] = IdleRec]
    /\ UNCHANGED <<deployment, now, poolVars, cache, next, restarts>>

\* The cache is lost with the process.
Restart(r) ==
    /\ restarts < deployment.restarts
    /\ restarts' = restarts + 1
    /\ cache' = [cache EXCEPT ![r] = [k \in Keys |-> Absent]]
    /\ rec' = [rec EXCEPT ![r] = IdleRec]
    /\ UNCHANGED <<deployment, now, poolVars, secret, next, failures>>

----------------------------------------------------------------------------
(* Machines and time *)

\* A Machine is created from the user data of the version the spec asks for.
MachineCreated ==
    /\ machine.token = 0
    /\ role = "target"
    /\ userData # NoSecret
    /\ machine' = [token |-> userData, at |-> now]
    /\ UNCHANGED <<deployment, now, role, secret, userData, np, janitor, next, roles,
                   restarts,
                   failures, serverVars>>

\* The controllers have something to do that they will be woken up for.  A
\* replica is woken by a change of the Secret or by the timer of the rotation,
\* not by the expiration.
PoolDue ==
    \/ np # NoSecret \/ janitor.kind # "idle"
    \/ role = "target" /\ (~ secret.exists \/ secret.expires # Never \/ userData # secret.token)
    \/ role = "outdated" /\ (\/ secret.exists /\ secret.expires = Never
                             \/ Platform = "other" /\ userData # NoSecret)
    \/ role = "gone" /\ (secret.exists \/ userData # NoSecret)
    \/ /\ role \in {"outdated", "abandoned"} /\ ~ shouldKeepOldUserData
       /\ (secret.exists /\ secret.expires = Never) \/ userData # NoSecret

ServerDue(r) ==
    \/ rec[r].pc # "idle"
    \/ ~ secret.exists /\ \E k \in Keys : cache[r][k] # Absent
    \/ secret.exists /\ (~ Live(r, secret.token) \/ tokenNeedRotation(secret))

Quiet == ~ PoolDue /\ \A r \in Replicas : ~ ServerDue(r)

Tick ==
    /\ Quiet
    /\ now < deployment.time
    /\ now' = now + 1
    /\ UNCHANGED <<deployment, poolVars, secret, cache, rec, next, restarts, failures>>

----------------------------------------------------------------------------
PoolStep == ReconcileToken \/ ReconcileUserData \/ CleanupOutdated \/ DeleteNodePoolSecrets
JanitorStep == JanitorReads \/ JanitorCleans
ServerStep(r) ==
    \/ PurgeCache(r) \/ ProcessExpiredToken(r) \/ StartRotation(r) \/ PatchRotation(r)
    \/ PatchRotationNotFound(r)
    \/ CopyFromOldToken(r) \/ StartGeneration(r) \/ Generated(r)

Next ==
    \/ ChangeRole \/ PoolStep \/ JanitorStep \/ MachineCreated \/ Tick
    \/ \E r \in Replicas : \/ ServerStep(r) \/ PatchRotationFails(r) \/ GenerationFails(r)
                           \/ GenerationUnpublished(r) \/ Restart(r)

Spec == Init /\ [][Next]_vars

AllReplicas == UNION {d.replicas : d \in Deployments}

\* Watches, requeues and timers wake the controllers; time passes.
Fairness ==
    /\ WF_vars(PoolStep) /\ WF_vars(JanitorStep) /\ WF_vars(Tick)
    /\ \A r \in AllReplicas : WF_vars(r \in Replicas /\ ServerStep(r))

FairSpec == Spec /\ Fairness

----------------------------------------------------------------------------
(* Properties *)

\* Every variable holds a value of its type.
TypeOK ==
    /\ now \in 0..deployment.time
    /\ role \in Roles
    /\ secret \in Secrets
    /\ userData \in {NoSecret} \cup Tokens
    /\ np \in {NoSecret} \cup Tokens
    /\ janitor \in [kind : {"idle", "token", "missing", "userData"}, view : Secrets]
    /\ cache \in [Replicas -> [Keys -> {Absent} \cup (0..(deployment.time + ttl))]]
    /\ rec \in [Replicas -> [pc : {"idle", "rotating", "generating"}, view : Secrets, new : Keys]]
    /\ machine \in [token : Keys, at : 0..deployment.time]
    /\ next \in 1..(MaxTokens + 1)
    /\ roles \in 0..deployment.roles /\ restarts \in 0..deployment.restarts /\ failures \in 0..MaxFailures

\* A Machine that was given a token less than Grace ago boots: neither the
\* rotation nor the expiration of the token, nor a restart of the server, takes
\* the payload away from provisions in flight (the old token of rotateToken,
\* timeUntilExpiry).  When two replicas rotate the token at once one of them may
\* not know the Machine's token, but a retry finds the other that has it.
MachineServed ==
    Quiet /\ machine.token # 0 /\ now - machine.at < Grace /\ role # "gone"
        => \E r \in Replicas : Live(r, machine.token)

\* A replica that works alone caches no more than the token and the old token of
\* the Secret.  (A replica that another one overtakes keeps its own token until
\* it expires.)
CacheBounded ==
    Quiet /\ Cardinality(Replicas) = 1
        => \A r \in Replicas : {k \in Tokens : Live(r, k)} \subseteq {secret.token, secret.old}

\* Once the NodePool rests, the version it asks for has a token Secret without
\* expiration and user data with its token, whatever stale decisions the janitor
\* took.
ActiveTokenRestored ==
    <>[](role = "target" =>
           secret.exists /\ secret.expires = Never /\ userData = secret.token)

\* Once the NodePool rests, the Secret of the version it asks for says that its
\* payload was generated; the ValidGeneratedPayload condition reads this, and the
\* in-place upgrader waits for the payload that is written with it.
PayloadPublished ==
    <>[](role = "target" => secret.exists /\ secret.reason = "AsExpected")

\* Once the NodePool rests, the token of a version it no longer asks for is
\* revoked: the Secret is deleted and no replica serves its tokens.
OutdatedTokenRevoked ==
    <>[](role # "target" =>
           ~ secret.exists /\ \A r \in Replicas, k \in Keys : ~ Live(r, k))
=============================================================================
