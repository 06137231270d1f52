------------------------- MODULE IgnitionServerProofs -------------------------
(***************************************************************************)
(* What the ignition server promises, for any number of replicas, any      *)
(* times and any bounds: a Machine in flight is served (MachineServed) and *)
(* a lone replica caches no more than two tokens (CacheBounded); and its   *)
(* payload store, at the grain of its lock, serves nothing that had        *)
(* expired before the call (GetCollects of PayloadStore).                  *)
(***************************************************************************)
EXTENDS IgnitionTokens, PayloadStore, FiniteSetTheorems, TLAPS

----------------------------------------------------------------------------
(* Types *)

Rotating(r) == rec[r].pc = "rotating"

Expiries == {Never} \cup (0..(deployment.time + Grace))
Recs == [pc : {"idle", "rotating", "generating"}, view : Secrets, new : Keys]
Entries == {Absent} \cup (0..(deployment.time + ttl))

\* A Secret that exists has a token, and so has the one a reconcile read.
TypeInv ==
    /\ deployment \in Deployments
    /\ TypeOK
    /\ secret.exists => secret.token \in Tokens
    /\ \A r \in Replicas : rec[r].pc # "idle" => rec[r].view.token \in Tokens
    /\ \A r \in Replicas : Rotating(r) => rec[r].new \in Tokens

\* The bounds of a deployment are natural numbers.
LEMMA DeploymentBounds ==
  ASSUME deployment \in Deployments
  PROVE  /\ deployment.time \in Nat /\ deployment.roles \in Nat /\ deployment.restarts \in Nat
         /\ IsFiniteSet(Replicas)
  BY Zenon, DeploymentsAssumption DEF Replicas

\* The times are natural numbers, and so is a clock within its bound.
LEMMA Times ==
  ASSUME TypeInv
  PROVE  /\ Half \in Nat /\ Half > 0 /\ Grace \in Nat /\ Grace > 0 /\ Grace <= Half
         /\ ttl = 2 * Half /\ ttl \in Nat
         /\ now \in Nat /\ now <= deployment.time /\ deployment.time \in Nat
         /\ next \in Nat /\ next >= 1
         /\ machine.token \in Keys /\ machine.at \in Nat
  BY DeploymentBounds, TimesAssumption, BoundsAssumption DEF TypeInv, TypeOK, ttl

\* What a value of each record type is made of.
LEMMA SecretFields ==
  ASSUME NEW s \in Secrets, deployment.time \in Nat
  PROVE  /\ s.exists \in BOOLEAN /\ s.token \in Keys /\ s.old \in Keys
         /\ s.gen \in Nat /\ s.gen <= deployment.time /\ s.expires \in Expiries
         /\ s.token \in Nat /\ s.old \in Nat /\ s.expires \in Int
  BY BoundsAssumption, TimesAssumption DEF Secrets, Expiries, Keys, Never

\* The empty values have their types.
LEMMA EmptyTypes ==
  ASSUME deployment.time \in Nat
  PROVE  /\ Deleted \in Secrets /\ IdleRec \in Recs
         /\ IdleJanitor \in [kind : {"idle", "token", "missing", "userData"}, view : Secrets]
<1>1. 0 \in Keys /\ 0 \in 0..deployment.time
  BY BoundsAssumption DEF Keys
<1>2. Deleted \in Secrets
  BY Zenon, <1>1 DEF Deleted, Secrets, Reasons
<1> QED BY Zenon, <1>1, <1>2 DEF IdleRec, Recs, IdleJanitor

\* The type invariant holds initially: no Secret, no reconcile, empty caches.
LEMMA TypesInit == Init => TypeInv
<1> SUFFICES ASSUME Init PROVE TypeInv
  BY Zenon
<1>1. /\ deployment \in Deployments /\ deployment.time \in Nat
      /\ deployment.roles \in Nat /\ deployment.restarts \in Nat
  BY Zenon, DeploymentBounds DEF Init
<1>2. Deleted \in Secrets /\ IdleRec \in Recs /\ ~ Deleted.exists /\ IdleRec.pc = "idle"
  BY Zenon, <1>1, EmptyTypes DEF Deleted, IdleRec
<1>3. secret \in Secrets /\ janitor \in [kind : {"idle", "token", "missing", "userData"}, view : Secrets]
  BY Zenon, <1>1, EmptyTypes DEF Init
<1>4. rec \in [Replicas -> Recs] /\ \A r \in Replicas : rec[r].pc = "idle"
  BY <1>2, Zenon DEF Init
<1>5. cache \in [Replicas -> [Keys -> Entries]]
  BY Zenon DEF Init, Entries
<1>6. /\ now \in 0..deployment.time /\ role \in Roles
      /\ userData \in {NoSecret} \cup Tokens /\ np \in {NoSecret} \cup Tokens
      /\ machine \in [token : Keys, at : 0..deployment.time] /\ next \in 1..(MaxTokens + 1)
      /\ roles \in 0..deployment.roles /\ restarts \in 0..deployment.restarts
      /\ failures \in 0..MaxFailures
  BY <1>1, BoundsAssumption DEF Init, Roles, Keys
<1>7. TypeOK
  BY Zenon, <1>3, <1>4, <1>5, <1>6 DEF TypeOK, Recs, Entries
<1> QED BY Zenon, <1>1, <1>2, <1>4, <1>7 DEF TypeInv, Init, Rotating

----------------------------------------------------------------------------
(* What a step can do to the Secret *)

\* The tokens of the Secret stay; its expiration may be removed or set.
SameToken ==
    /\ secret'.exists = secret.exists /\ secret'.token = secret.token
    /\ secret'.old = secret.old /\ secret'.gen = secret.gen
    /\ secret'.expires \in {secret.expires, Never, now + Grace}

Created == ~ secret.exists /\ ReconcileToken /\ secret' = NewSecret

Removed ==
    /\ secret' = Deleted
    /\ \/ role = "gone" \/ janitor.kind = "missing"
       \/ secret.exists /\ isTokenExpired(secret)

SecretMoves == SameToken \/ Created \/ Removed \/ \E r \in Replicas : PatchRotation(r)

\* A deployment never changes.
LEMMA SameDeployment == [Next]_vars => deployment' = deployment
  BY Zenon DEF Next, vars, ChangeRole, PoolStep, ReconcileToken, ReconcileUserData, CleanupOutdated,
     DeleteNodePoolSecrets, JanitorStep, JanitorReads, JanitorCleans, MachineCreated, Tick,
     ServerStep, PurgeCache, ProcessExpiredToken, StartRotation, PatchRotation,
     PatchRotationNotFound, PatchRotationFails, AbandonRotation, CopyFromOldToken,
     StartGeneration, Generated, GenerationUnpublished, GenerationFails, Restart

\* Setting an expiration on a Secret leaves its tokens alone.
LEMMA ExpirationSet ==
  ASSUME TypeInv, NEW s, s = WithExpiration(secret)
  PROVE  /\ s \in Secrets
         /\ s.exists = secret.exists /\ s.token = secret.token /\ s.old = secret.old
         /\ s.gen = secret.gen /\ s.expires \in {secret.expires, now + Grace}
<1>1. now + Grace \in Expiries
  BY Times DEF Expiries
<1>2. secret \in Secrets
  BY Zenon DEF TypeInv, TypeOK
<1>3. CASE secret.expires = Never
  BY Zenon, <1>1, <1>2, <1>3 DEF WithExpiration, Secrets, Expiries
<1>4. CASE secret.expires # Never
  BY Zenon, <1>2, <1>4 DEF WithExpiration
<1> QED BY Zenon, <1>3, <1>4

\* A Secret patched with a reason keeps everything else.
LEMMA ReasonSet ==
  ASSUME TypeInv, NEW v \in Reasons, secret' = IF secret.exists THEN [secret EXCEPT !.reason = v] ELSE secret
  PROVE  secret' \in Secrets /\ SameToken
<1>1. secret \in Secrets
  BY Zenon DEF TypeInv, TypeOK
<1> QED BY Zenon, <1>1 DEF Secrets, SameToken

\* Token.Reconcile creates the Secret or removes its expiration.
LEMMA TokenReconciled ==
  ASSUME TypeInv, ReconcileToken
  PROVE  /\ secret' \in Secrets /\ secret'.exists /\ secret'.token \in Tokens
         /\ secret'.expires = Never
         /\ (secret.exists /\ SameToken) \/ Created
<1>1. secret \in Secrets /\ next \in 1..(MaxTokens + 1) /\ (secret.exists => secret.token \in Tokens)
  BY Zenon DEF TypeInv, TypeOK
<1>2. CASE secret.exists
  <2>1. secret' = [secret EXCEPT !.expires = Never]
    BY Zenon, <1>2 DEF ReconcileToken
  <2> QED BY Zenon, <1>1, <1>2, <2>1 DEF Secrets, SameToken
<1>3. CASE ~ secret.exists
  <2>1. secret' = NewSecret /\ next \in Tokens
    BY <1>1, <1>3, BoundsAssumption DEF ReconcileToken, Tokens
  <2>2. next \in Keys /\ 0 \in Keys /\ now \in 0..deployment.time
    BY <2>1, BoundsAssumption DEF Tokens, Keys, TypeInv, TypeOK
  <2>3. NewSecret \in Secrets
    BY Zenon, <2>2 DEF NewSecret, Secrets, Reasons
  <2> QED BY Zenon, <1>3, <2>1, <2>3 DEF Created, NewSecret
<1> QED BY Zenon, <1>2, <1>3

\* The patch of a rotation writes the new token, and as the old one the token
\* that the reconcile read.
LEMMA RotationPatched ==
  ASSUME TypeInv, NEW r \in Replicas, PatchRotation(r)
  PROVE  /\ secret' \in Secrets /\ secret'.exists /\ secret'.token = rec[r].new
         /\ secret'.token \in Tokens /\ secret'.old = rec[r].view.token /\ secret'.gen = now
         /\ secret'.expires = secret.expires
<1>1. secret \in Secrets /\ rec[r] \in Recs /\ rec[r].new \in Tokens
  BY Zenon DEF TypeInv, TypeOK, PatchRotation, Rotating, Recs
<1>2. rec[r].new \in Keys /\ rec[r].view.token \in Keys /\ now \in 0..deployment.time
  BY Zenon, <1>1 DEF Recs, Secrets, TypeInv, TypeOK
<1>3. /\ secret.exists
      /\ secret' = [secret EXCEPT !.token = rec[r].new, !.old = rec[r].view.token, !.gen = now]
  BY Zenon DEF PatchRotation
<1> QED BY Zenon, <1>1, <1>2, <1>3 DEF Secrets

\* A step leaves the tokens of the Secret alone, creates it, deletes it or is the
\* patch of a rotation.
LEMMA SecretStep ==
  ASSUME TypeInv, [Next]_vars
  PROVE  SecretMoves /\ secret' \in Secrets /\ (secret'.exists => secret'.token \in Tokens)
<1> DEFINE Goal == SecretMoves /\ secret' \in Secrets /\ (secret'.exists => secret'.token \in Tokens)
<1>0. secret \in Secrets /\ (secret.exists => secret.token \in Tokens)
  BY Zenon DEF TypeInv, TypeOK
<1>k. ASSUME SameToken, secret' \in Secrets PROVE Goal
  BY Zenon, <1>0, <1>k DEF SecretMoves, SameToken
<1>u. ASSUME UNCHANGED secret PROVE Goal
  BY Zenon, <1>0, <1>u DEF SecretMoves, SameToken
<1>d. ASSUME Removed PROVE Goal
  <2>1. deployment.time \in Nat
    BY Zenon, DeploymentBounds DEF TypeInv
  <2> QED BY Zenon, <1>d, <2>1, EmptyTypes DEF SecretMoves, Removed, Deleted
<1>1. CASE ReconcileToken
  BY Zenon, <1>1, TokenReconciled DEF SecretMoves
<1>2. CASE CleanupOutdated
  <2>1. CASE secret.exists
    BY Zenon, <1>2, <2>1, <1>k, ExpirationSet DEF CleanupOutdated, SameToken
  <2>2. CASE ~ secret.exists
    BY Zenon, <1>2, <2>2, <1>u DEF CleanupOutdated
  <2> QED BY Zenon, <2>1, <2>2
<1>3. CASE DeleteNodePoolSecrets
  BY Zenon, <1>3, <1>d DEF DeleteNodePoolSecrets, Removed
<1>4. CASE JanitorCleans
  <2>1. CASE janitor.kind = "missing"
    BY Zenon, <1>4, <2>1, <1>d DEF JanitorCleans, Removed
  <2>2. CASE janitor.kind # "missing" /\ secret' = secret
    BY Zenon, <2>2, <1>u
  <2>3. CASE janitor.kind # "missing" /\ secret' = WithExpiration(secret)
    BY Zenon, <2>3, <1>k, ExpirationSet DEF SameToken
  <2>4. secret' = secret \/ secret' = WithExpiration(secret) \/ janitor.kind = "missing"
    BY Zenon, <1>4 DEF JanitorCleans
  <2> QED BY Zenon, <2>1, <2>2, <2>3, <2>4
<1>5. ASSUME NEW r \in Replicas, ProcessExpiredToken(r) PROVE Goal
  BY Zenon, <1>5, <1>d DEF ProcessExpiredToken, Removed
<1>6. ASSUME NEW r \in Replicas, PatchRotation(r) PROVE Goal
  BY Zenon, <1>6, RotationPatched DEF SecretMoves
<1>7. ASSUME NEW r \in Replicas, Generated(r) \/ GenerationFails(r) PROVE Goal
  <2>1. \E v \in Reasons : secret' = IF secret.exists THEN [secret EXCEPT !.reason = v] ELSE secret
    BY Zenon, <1>7 DEF Generated, GenerationFails, Reasons
  <2> QED BY Zenon, <2>1, ReasonSet, <1>k
<1>8. ASSUME NEW r \in Replicas,
             \/ PurgeCache(r) \/ StartRotation(r) \/ PatchRotationNotFound(r) \/ PatchRotationFails(r)
             \/ CopyFromOldToken(r) \/ StartGeneration(r) \/ GenerationUnpublished(r) \/ Restart(r)
      PROVE  Goal
  BY Zenon, <1>8, <1>u DEF PurgeCache, StartRotation, PatchRotationNotFound, PatchRotationFails,
     AbandonRotation, CopyFromOldToken, StartGeneration, GenerationUnpublished, Restart
<1>9. CASE \/ ChangeRole \/ ReconcileUserData \/ JanitorReads \/ MachineCreated \/ Tick
           \/ UNCHANGED vars
  BY Zenon, <1>9, <1>u DEF ChangeRole, ReconcileUserData, JanitorReads, MachineCreated, Tick, vars
<1> HIDE DEF Goal
<1> QED
  BY Zenon, <1>1, <1>2, <1>3, <1>4, <1>5, <1>6, <1>7, <1>8, <1>9
  DEF Next, PoolStep, JanitorStep, ServerStep, Goal

----------------------------------------------------------------------------
(* What a step can do to the entries of a cache *)

\* Why a replica may drop its entry of a token.
Dropped(q, k) ==
    \/ /\ rec[q].pc = "idle"
       /\ \/ ~ secret.exists
          \/ secret.exists /\ isTokenExpired(secret)
          \/ secret.exists /\ tokenNeedRotation(secret) /\ k = secret.old
    \/ /\ rec'[q].pc = "idle"
       /\ (Rotating(q) /\ k = rec[q].new) \/ deployment.restarts # 0

\* The tokens whose payload a replica may cache: those of the Secret as it is or
\* as a reconcile read it, and the one a rotation generates.
Cacheable(q, k) ==
    \/ k = secret.token \/ k = rec[q].view.token \/ k = rec[q].view.old
    \/ k = next /\ next' = next + 1

EntryMoves(q, k) ==
    \/ cache'[q][k] = cache[q][k]
    \/ cache'[q][k] = now + ttl /\ Cacheable(q, k) /\ now' = now
    \/ cache'[q][k] = Absent /\ Dropped(q, k) /\ now' = now

\* Set and Delete of the store change one entry.
LEMMA KeySet ==
  ASSUME TypeInv, NEW c \in [Keys -> Entries], NEW k \in Keys
  PROVE  SetKey(c, k) \in [Keys -> Entries]
         /\ \A j \in Keys : SetKey(c, k)[j] = IF j = k THEN now + ttl ELSE c[j]
<1>1. now + ttl \in Entries
  BY Times DEF Entries
<1> QED BY Zenon, <1>1 DEF SetKey

\* The same for Delete.
LEMMA KeyDeleted ==
  ASSUME NEW c \in [Keys -> Entries], NEW k \in Keys
  PROVE  DeleteKey(c, k) \in [Keys -> Entries]
         /\ \A j \in Keys : DeleteKey(c, k)[j] = IF j = k THEN Absent ELSE c[j]
  BY Zenon DEF DeleteKey, Entries

\* Only the cache of r is written.
OnlyCache(r) ==
    /\ cache' \in [Replicas -> [Keys -> Entries]]
    /\ \A q \in Replicas : q # r => cache'[q] = cache[q]

\* A write to the cache of r leaves the other replicas alone.
LEMMA CacheWritten ==
  ASSUME TypeInv, NEW r \in Replicas, NEW c \in [Keys -> Entries], cache' = [cache EXCEPT ![r] = c]
  PROVE  OnlyCache(r) /\ cache'[r] = c
  BY Zenon DEF TypeInv, TypeOK, Entries, OnlyCache

\* The cache of r after it dropped the old token.
OldDropped(r) == IF secret.old = 0 THEN cache[r] ELSE DeleteKey(cache[r], secret.old)

\* Dropping the old token touches no other entry.
LEMMA OldDrop ==
  ASSUME TypeInv, NEW r \in Replicas
  PROVE  /\ OldDropped(r) \in [Keys -> Entries]
         /\ \A k \in Keys : OldDropped(r)[k] = IF k = secret.old /\ k # 0 THEN Absent ELSE cache[r][k]
<1>1. cache[r] \in [Keys -> Entries] /\ secret.old \in Keys
  BY Zenon DEF TypeInv, TypeOK, Entries, Secrets
<1> QED BY <1>1, KeyDeleted DEF OldDropped

\* What each step of a replica makes of its cache.
LEMMA ExpiredDropped ==
  ASSUME TypeInv, NEW r \in Replicas, ProcessExpiredToken(r)
  PROVE  /\ OnlyCache(r)
         /\ \A k \in Keys : cache'[r][k] = IF k = secret.token \/ (k = secret.old /\ k # 0)
               THEN Absent ELSE cache[r][k]
<1>1. secret.token \in Keys /\ OldDropped(r) \in [Keys -> Entries]
  BY Zenon, OldDrop DEF TypeInv, TypeOK, Secrets
<1>2. cache' = [cache EXCEPT ![r] = DeleteKey(OldDropped(r), secret.token)]
  BY Zenon DEF ProcessExpiredToken, OldDropped, TypeInv, TypeOK
<1>3. /\ DeleteKey(OldDropped(r), secret.token) \in [Keys -> Entries]
      /\ \A j \in Keys : DeleteKey(OldDropped(r), secret.token)[j] =
            IF j = secret.token THEN Absent ELSE OldDropped(r)[j]
  BY Zenon, <1>1, KeyDeleted
<1>4. OnlyCache(r) /\ cache'[r] = DeleteKey(OldDropped(r), secret.token)
  BY Zenon, <1>2, <1>3, CacheWritten
<1> QED BY Zenon, <1>3, <1>4, OldDrop

\* A rotation begins: the old token is dropped and the new one cached.
LEMMA RotationStarted ==
  ASSUME TypeInv, NEW r \in Replicas, StartRotation(r)
  PROVE  /\ next \in Tokens
         /\ OnlyCache(r)
         /\ \A k \in Keys : cache'[r][k] = IF k = next THEN now + ttl
               ELSE IF k = secret.old /\ k # 0 THEN Absent ELSE cache[r][k]
<1>1. next \in Tokens /\ next \in Keys /\ OldDropped(r) \in [Keys -> Entries]
  BY OldDrop, BoundsAssumption DEF TypeInv, TypeOK, Tokens, Keys, StartRotation
<1>2. cache' = [cache EXCEPT ![r] = SetKey(OldDropped(r), next)]
  BY Zenon DEF StartRotation, OldDropped, TypeInv, TypeOK
<1>3. SetKey(OldDropped(r), next) \in [Keys -> Entries]
  BY Zenon, <1>1, KeySet
<1>4. \A k \in Keys : SetKey(OldDropped(r), next)[k] = IF k = next THEN now + ttl ELSE OldDropped(r)[k]
  BY Zenon, <1>1, KeySet
<1>5. OnlyCache(r) /\ cache'[r] = SetKey(OldDropped(r), next)
  BY Zenon, <1>2, <1>3, CacheWritten
<1> QED BY Zenon, <1>1, <1>4, <1>5, OldDrop

\* A rotation is given up: the new token is dropped, the old one cached again.
LEMMA RotationAbandoned ==
  ASSUME TypeInv, NEW r \in Replicas, AbandonRotation(r)
  PROVE  /\ rec[r].view.old \in Keys
         /\ OnlyCache(r)
         /\ \A k \in Keys : cache'[r][k] = IF k = rec[r].view.old THEN now + ttl
               ELSE IF k = rec[r].new THEN Absent ELSE cache[r][k]
<1> DEFINE d == DeleteKey(cache[r], rec[r].new)
<1>1. rec[r] \in Recs /\ cache[r] \in [Keys -> Entries]
  BY Zenon DEF TypeInv, TypeOK, Recs, Entries
<1>2. rec[r].new \in Keys /\ rec[r].view.old \in Keys
  BY Zenon, <1>1 DEF Recs, Secrets
<1>3. d \in [Keys -> Entries] /\ \A j \in Keys : d[j] = IF j = rec[r].new THEN Absent ELSE cache[r][j]
  BY Zenon, <1>1, <1>2, KeyDeleted
<1>4. cache' = [cache EXCEPT ![r] = SetKey(d, rec[r].view.old)]
  BY Zenon DEF AbandonRotation, RestoreCache, TypeInv, TypeOK
<1> HIDE DEF d
<1>5. SetKey(d, rec[r].view.old) \in [Keys -> Entries]
  BY Zenon, <1>2, <1>3, KeySet
<1>6. \A k \in Keys : SetKey(d, rec[r].view.old)[k] = IF k = rec[r].view.old THEN now + ttl ELSE d[k]
  BY Zenon, <1>2, <1>3, KeySet
<1>7. OnlyCache(r) /\ cache'[r] = SetKey(d, rec[r].view.old)
  BY Zenon, <1>4, <1>5, CacheWritten
<1> QED BY Zenon, <1>2, <1>3, <1>6, <1>7

\* A generated payload is cached for the token and the old token that were read.
LEMMA PayloadCached ==
  ASSUME TypeInv, NEW r \in Replicas, Generated(r) \/ GenerationUnpublished(r)
  PROVE  /\ OnlyCache(r)
         /\ \A k \in Keys : cache'[r][k] = IF k = rec[r].view.token \/ (k = rec[r].view.old /\ k # 0)
               THEN now + ttl ELSE cache[r][k]
<1> DEFINE v == rec[r].view
           d == SetKey(cache[r], v.token)
<1>1. cache[r] \in [Keys -> Entries] /\ v.token \in Keys /\ v.old \in Keys
  BY Zenon DEF TypeInv, TypeOK, Recs, Entries, Secrets
<1>2. d \in [Keys -> Entries] /\ \A j \in Keys : d[j] = IF j = v.token THEN now + ttl ELSE cache[r][j]
  BY Zenon, <1>1, KeySet
<1>3. cache' = [cache EXCEPT ![r] = IF v.old = 0 THEN d ELSE SetKey(d, v.old)]
  BY Zenon DEF Generated, GenerationUnpublished, SetGenerated, TypeInv, TypeOK
<1> HIDE DEF v, d
<1>4. CASE v.old = 0
  <2>1. OnlyCache(r) /\ cache'[r] = d
    BY Zenon, <1>2, <1>3, <1>4, CacheWritten
  <2> QED BY Zenon, <1>1, <1>2, <1>4, <2>1 DEF v
<1>5. CASE v.old # 0
  <2>1. /\ SetKey(d, v.old) \in [Keys -> Entries]
        /\ \A k \in Keys : SetKey(d, v.old)[k] = IF k = v.old THEN now + ttl ELSE d[k]
    BY Zenon, <1>1, <1>2, KeySet
  <2>2. OnlyCache(r) /\ cache'[r] = SetKey(d, v.old)
    BY Zenon, <1>3, <1>5, <2>1, CacheWritten
  <2> QED BY Zenon, <1>1, <1>2, <1>5, <2>1, <2>2 DEF v
<1> QED BY Zenon, <1>4, <1>5

\* The payload of the old token is cached for the token.
LEMMA PayloadCopied ==
  ASSUME TypeInv, NEW r \in Replicas, CopyFromOldToken(r)
  PROVE  /\ OnlyCache(r)
         /\ \A k \in Keys : cache'[r][k] = IF k = secret.token THEN now + ttl ELSE cache[r][k]
<1>1. cache[r] \in [Keys -> Entries] /\ secret.token \in Keys
  BY Zenon DEF TypeInv, TypeOK, Entries, Secrets
<1>2. /\ SetKey(cache[r], secret.token) \in [Keys -> Entries]
      /\ \A k \in Keys : SetKey(cache[r], secret.token)[k] =
            IF k = secret.token THEN now + ttl ELSE cache[r][k]
  BY Zenon, <1>1, KeySet
<1>3. cache' = [cache EXCEPT ![r] = SetKey(cache[r], secret.token)]
  BY Zenon DEF CopyFromOldToken, TypeInv, TypeOK
<1>4. OnlyCache(r) /\ cache'[r] = SetKey(cache[r], secret.token)
  BY Zenon, <1>2, <1>3, CacheWritten
<1> QED BY Zenon, <1>2, <1>4

\* A purge or a restart leaves an empty cache.
LEMMA CacheEmptied ==
  ASSUME TypeInv, NEW r \in Replicas, PurgeCache(r) \/ Restart(r)
  PROVE  /\ OnlyCache(r)
         /\ \A k \in Keys : cache'[r][k] = Absent
<1>1. [k \in Keys |-> Absent] \in [Keys -> Entries]
  BY Zenon DEF Entries
<1>2. OnlyCache(r) /\ cache'[r] = [k \in Keys |-> Absent]
  BY Zenon, <1>1, CacheWritten DEF PurgeCache, Restart
<1> QED BY Zenon, <1>2

\* The steps that write a cache: of which replica, and when they may.
LEMMA EntryStep ==
  ASSUME TypeInv, [Next]_vars
  PROVE  /\ cache' \in [Replicas -> [Keys -> Entries]]
         /\ \A q \in Replicas, k \in Keys : EntryMoves(q, k)
<1> DEFINE Goal == /\ cache' \in [Replicas -> [Keys -> Entries]]
                   /\ \A q \in Replicas, k \in Keys : EntryMoves(q, k)
<1>0. cache \in [Replicas -> [Keys -> Entries]]
  BY Zenon DEF TypeInv, TypeOK, Entries
<1>u. ASSUME UNCHANGED cache PROVE Goal
  BY Zenon, <1>0, <1>u DEF EntryMoves
<1>w. ASSUME NEW r \in Replicas, OnlyCache(r), \A k \in Keys : EntryMoves(r, k) PROVE Goal
  BY Zenon, <1>w DEF EntryMoves, OnlyCache
<1>1. ASSUME NEW r \in Replicas, PurgeCache(r) PROVE Goal
  <2>1. rec[r].pc = "idle" /\ ~ secret.exists /\ now' = now
    BY Zenon, <1>1 DEF PurgeCache
  <2> QED BY Zenon, <1>1, <2>1, CacheEmptied, <1>w DEF EntryMoves, Dropped
<1>2. ASSUME NEW r \in Replicas, Restart(r) PROVE Goal
  <2>1. deployment.restarts # 0 /\ now' = now /\ rec'[r].pc = "idle"
    BY <1>2 DEF Restart, TypeInv, TypeOK, IdleRec
  <2> QED BY Zenon, <1>2, <2>1, CacheEmptied, <1>w DEF EntryMoves, Dropped
<1>3. ASSUME NEW r \in Replicas, ProcessExpiredToken(r) PROVE Goal
  <2>1. rec[r].pc = "idle" /\ secret.exists /\ isTokenExpired(secret) /\ now' = now
    BY Zenon, <1>3 DEF ProcessExpiredToken
  <2> QED BY Zenon, <1>3, <2>1, ExpiredDropped, <1>w DEF EntryMoves, Dropped
<1>4. ASSUME NEW r \in Replicas, StartRotation(r) PROVE Goal
  <2>1. /\ rec[r].pc = "idle" /\ secret.exists /\ tokenNeedRotation(secret)
        /\ now' = now /\ next' = next + 1
    BY Zenon, <1>4 DEF StartRotation, Active
  <2> QED BY Zenon, <1>4, <2>1, RotationStarted, <1>w DEF EntryMoves, Dropped, Cacheable
<1>5. ASSUME NEW r \in Replicas, PatchRotationNotFound(r) \/ PatchRotationFails(r) PROVE Goal
  <2>1. AbandonRotation(r) /\ Rotating(r) /\ now' = now /\ rec' = [rec EXCEPT ![r] = IdleRec]
    BY Zenon, <1>5 DEF PatchRotationNotFound, PatchRotationFails, AbandonRotation, Rotating
  <2>2. rec'[r].pc = "idle"
    BY Zenon, <2>1 DEF IdleRec, TypeInv, TypeOK
  <2> QED BY Zenon, <2>1, <2>2, RotationAbandoned, <1>w DEF EntryMoves, Dropped, Cacheable
<1>6. ASSUME NEW r \in Replicas, CopyFromOldToken(r) PROVE Goal
  <2>1. now' = now
    BY Zenon, <1>6 DEF CopyFromOldToken
  <2> QED BY Zenon, <1>6, <2>1, PayloadCopied, <1>w DEF EntryMoves, Cacheable
<1>7. ASSUME NEW r \in Replicas, Generated(r) \/ GenerationUnpublished(r) PROVE Goal
  <2>1. now' = now
    BY Zenon, <1>7 DEF Generated, GenerationUnpublished
  <2>2. /\ OnlyCache(r)
        /\ \A k \in Keys :
              \/ cache'[r][k] = cache[r][k]
              \/ cache'[r][k] = now + ttl /\ (k = rec[r].view.token \/ k = rec[r].view.old)
    BY Zenon, <1>7, PayloadCached
  <2> QED BY Zenon, <2>1, <2>2, <1>w DEF EntryMoves, Cacheable
<1>8. ASSUME NEW r \in Replicas, PatchRotation(r) \/ StartGeneration(r) \/ GenerationFails(r)
      PROVE  Goal
  BY Zenon, <1>8, <1>u DEF PatchRotation, StartGeneration, GenerationFails
<1>9. CASE \/ ChangeRole \/ PoolStep \/ JanitorStep \/ MachineCreated \/ Tick \/ UNCHANGED vars
  BY Zenon, <1>9, <1>u DEF ChangeRole, PoolStep, ReconcileToken, ReconcileUserData, CleanupOutdated,
     DeleteNodePoolSecrets, JanitorStep, JanitorReads, JanitorCleans, MachineCreated, Tick,
     serverVars, vars
<1> HIDE DEF Goal
<1> QED
  BY Zenon, <1>1, <1>2, <1>3, <1>4, <1>5, <1>6, <1>7, <1>8, <1>9 DEF Next, ServerStep, Goal

----------------------------------------------------------------------------
(* What a step can do to the reconcile of a replica *)

RecMoves(q) ==
    \/ rec'[q] = rec[q]
    \/ rec'[q] = IdleRec
    \/ StartRotation(q) /\ rec'[q] = [pc |-> "rotating", view |-> secret, new |-> next]
    \/ StartGeneration(q) /\ rec'[q] = [pc |-> "generating", view |-> secret, new |-> 0]

\* A reconcile ends, or one that reads the Secret begins.
LEMMA RecStep ==
  ASSUME TypeInv, [Next]_vars
  PROVE  rec' \in [Replicas -> Recs] /\ \A q \in Replicas : RecMoves(q)
<1> DEFINE Goal == rec' \in [Replicas -> Recs] /\ \A q \in Replicas : RecMoves(q)
<1>0. rec \in [Replicas -> Recs] /\ secret \in Secrets
  BY Zenon DEF TypeInv, TypeOK, Recs
<1>u. ASSUME UNCHANGED rec PROVE Goal
  BY Zenon, <1>0, <1>u DEF RecMoves
<1>i. ASSUME NEW r \in Replicas, rec' = [rec EXCEPT ![r] = IdleRec] PROVE Goal
  <2>1. IdleRec \in Recs
    BY Zenon, EmptyTypes, DeploymentBounds DEF TypeInv
  <2> QED BY Zenon, <1>0, <1>i, <2>1 DEF RecMoves
<1>1. ASSUME NEW r \in Replicas, StartRotation(r) PROVE Goal
  <2> DEFINE n == [pc |-> "rotating", view |-> secret, new |-> next]
  <2>1. next \in Keys /\ rec' = [rec EXCEPT ![r] = n]
    BY <1>1, BoundsAssumption DEF StartRotation, TypeInv, TypeOK, Keys
  <2>2. n \in Recs
    BY Zenon, <1>0, <2>1 DEF Recs
  <2> QED BY Zenon, <1>0, <1>1, <2>1, <2>2 DEF RecMoves
<1>2. ASSUME NEW r \in Replicas, StartGeneration(r) PROVE Goal
  <2> DEFINE n == [pc |-> "generating", view |-> secret, new |-> 0]
  <2>1. 0 \in Keys /\ rec' = [rec EXCEPT ![r] = n]
    BY <1>2, BoundsAssumption DEF StartGeneration, Keys
  <2>2. n \in Recs
    BY Zenon, <1>0, <2>1 DEF Recs
  <2> QED BY Zenon, <1>0, <1>2, <2>1, <2>2 DEF RecMoves
<1>3. ASSUME NEW r \in Replicas,
             \/ PatchRotation(r) \/ PatchRotationNotFound(r) \/ PatchRotationFails(r) \/ Generated(r)
             \/ GenerationUnpublished(r) \/ GenerationFails(r) \/ Restart(r)
      PROVE  Goal
  BY Zenon, <1>3, <1>i DEF PatchRotation, PatchRotationNotFound, PatchRotationFails, AbandonRotation,
     Generated, GenerationUnpublished, GenerationFails, Restart
<1>4. ASSUME NEW r \in Replicas, PurgeCache(r) \/ ProcessExpiredToken(r) \/ CopyFromOldToken(r)
      PROVE  Goal
  BY Zenon, <1>4, <1>u DEF PurgeCache, ProcessExpiredToken, CopyFromOldToken
<1>5. CASE \/ ChangeRole \/ PoolStep \/ JanitorStep \/ MachineCreated \/ Tick \/ UNCHANGED vars
  BY Zenon, <1>5, <1>u DEF ChangeRole, PoolStep, ReconcileToken, ReconcileUserData, CleanupOutdated,
     DeleteNodePoolSecrets, JanitorStep, JanitorReads, JanitorCleans, MachineCreated, Tick,
     serverVars, vars
<1> HIDE DEF Goal
<1> QED BY Zenon, <1>1, <1>2, <1>3, <1>4, <1>5 DEF Next, ServerStep, Goal

----------------------------------------------------------------------------
(* What a step can do to the rest *)

PoolMoves ==
    /\ now' = now \/ Tick
    /\ userData' \in {userData, NoSecret} \/ (ReconcileUserData /\ userData' = np)
    /\ np' \in {np, NoSecret} \/ (ReconcileToken /\ np' = secret'.token)
    /\ machine' = machine \/ MachineCreated
    /\ role' = role \/ role # "gone"
    /\ next' = next \/ next' = next + 1
    /\ janitor'.kind = "missing" => janitor' = janitor \/ role = "gone"

PoolTypes ==
    /\ now \in 0..deployment.time
    /\ role \in Roles
    /\ userData \in {NoSecret} \cup Tokens
    /\ np \in {NoSecret} \cup Tokens
    /\ janitor \in [kind : {"idle", "token", "missing", "userData"}, view : Secrets]
    /\ machine \in [token : Keys, at : 0..deployment.time]
    /\ next \in 1..(MaxTokens + 1)
    /\ roles \in 0..deployment.roles /\ restarts \in 0..deployment.restarts /\ failures \in 0..MaxFailures

\* The NodePool controller, the janitor, the Machine and the clock, step by step.
LEMMA PoolStepMoves ==
  ASSUME TypeInv, [Next]_vars
  PROVE  PoolMoves
<1>1. CASE ChangeRole
  BY Zenon, <1>1 DEF ChangeRole, PoolMoves, Roles
<1>2. CASE ReconcileToken
  BY Zenon, <1>2 DEF ReconcileToken, PoolMoves
<1>3. CASE ReconcileUserData
  BY Zenon, <1>3 DEF ReconcileUserData, PoolMoves
<1>4. CASE CleanupOutdated \/ DeleteNodePoolSecrets
  BY Zenon, <1>4 DEF CleanupOutdated, DeleteNodePoolSecrets, PoolMoves
<1>5. CASE JanitorReads
  BY <1>5 DEF JanitorReads, PoolMoves
<1>6. CASE JanitorCleans
  BY Zenon, <1>6 DEF JanitorCleans, IdleJanitor, PoolMoves
<1>7. CASE MachineCreated
  BY Zenon, <1>7 DEF MachineCreated, PoolMoves
<1>8. CASE Tick
  BY Zenon, <1>8 DEF Tick, poolVars, PoolMoves
<1>9. ASSUME NEW r \in Replicas, StartRotation(r) PROVE PoolMoves
  BY Zenon, <1>9 DEF StartRotation, poolVars, PoolMoves
<1>10. ASSUME NEW r \in Replicas,
             \/ PurgeCache(r) \/ ProcessExpiredToken(r) \/ PatchRotation(r) \/ PatchRotationNotFound(r)
             \/ PatchRotationFails(r) \/ CopyFromOldToken(r) \/ StartGeneration(r) \/ Generated(r)
             \/ GenerationUnpublished(r) \/ GenerationFails(r) \/ Restart(r)
      PROVE  PoolMoves
  <2>1. UNCHANGED <<now, poolVars, next>>
    BY Zenon, <1>10 DEF PurgeCache, ProcessExpiredToken, PatchRotation, PatchRotationNotFound,
       PatchRotationFails, AbandonRotation, CopyFromOldToken, StartGeneration, Generated,
       GenerationUnpublished, GenerationFails, Restart
  <2> QED BY Zenon, <2>1 DEF poolVars, PoolMoves
<1>11. CASE UNCHANGED vars
  BY Zenon, <1>11 DEF vars, PoolMoves
<1> QED
  BY Zenon, <1>1, <1>2, <1>3, <1>4, <1>5, <1>6, <1>7, <1>8, <1>9, <1>10, <1>11
  DEF Next, PoolStep, JanitorStep, ServerStep

\* The counters stay within their bounds and the rest keeps its types.
LEMMA PoolTypesNext ==
  ASSUME TypeInv, [Next]_vars
  PROVE  /\ now' \in 0..deployment.time /\ role' \in Roles
         /\ userData' \in {NoSecret} \cup Tokens /\ np' \in {NoSecret} \cup Tokens
         /\ machine' \in [token : Keys, at : 0..deployment.time] /\ next' \in 1..(MaxTokens + 1)
<1>0. /\ PoolMoves /\ PoolTypes /\ deployment.time \in Nat
      /\ secret'.exists => secret'.token \in Tokens
  BY Zenon, PoolStepMoves, SecretStep, Times DEF TypeInv, TypeOK, PoolTypes
<1>1. now' \in 0..deployment.time
  BY <1>0 DEF PoolMoves, PoolTypes, Tick
<1>2. role' \in Roles
  <2>1. CASE ChangeRole
    BY Zenon, <2>1 DEF ChangeRole
  <2>2. CASE ~ ChangeRole
    <3>1. role' = role
      BY Zenon, <2>2 DEF Next, vars, PoolStep, ReconcileToken, ReconcileUserData, CleanupOutdated,
         DeleteNodePoolSecrets, JanitorStep, JanitorReads, JanitorCleans, MachineCreated, Tick,
         ServerStep, PurgeCache, ProcessExpiredToken, StartRotation, PatchRotation,
         PatchRotationNotFound, PatchRotationFails, AbandonRotation, CopyFromOldToken,
         StartGeneration, Generated, GenerationUnpublished, GenerationFails, Restart, poolVars
    <3> QED BY Zenon, <1>0, <3>1 DEF PoolTypes
  <2> QED BY Zenon, <2>1, <2>2
<1>3. userData' \in {NoSecret} \cup Tokens
  BY Zenon, <1>0 DEF PoolMoves, PoolTypes
<1>4. np' \in {NoSecret} \cup Tokens
  BY Zenon, <1>0, TokenReconciled DEF PoolMoves, PoolTypes
<1>5. machine' \in [token : Keys, at : 0..deployment.time]
  <2>1. CASE MachineCreated
    <3>1. userData \in Keys
      BY <2>1, <1>0, BoundsAssumption DEF MachineCreated, PoolTypes, Tokens, Keys, NoSecret
    <3> QED BY Zenon, <1>0, <2>1, <3>1 DEF MachineCreated, PoolTypes
  <2> QED BY Zenon, <1>0, <2>1 DEF PoolMoves, PoolTypes
<1>6. next' \in 1..(MaxTokens + 1)
  <2>1. CASE next' = next
    BY Zenon, <2>1, <1>0 DEF PoolTypes
  <2>2. CASE ReconcileToken \/ \E r \in Replicas : StartRotation(r)
    BY <2>2, <1>0, BoundsAssumption DEF ReconcileToken, StartRotation, PoolTypes
  <2>3. next' = next \/ ReconcileToken \/ \E r \in Replicas : StartRotation(r)
    BY Zenon DEF Next, vars, ChangeRole, PoolStep, ReconcileUserData, CleanupOutdated,
       DeleteNodePoolSecrets, JanitorStep, JanitorReads, JanitorCleans, MachineCreated, Tick,
       ServerStep, PurgeCache, ProcessExpiredToken, PatchRotation,
       PatchRotationNotFound, PatchRotationFails, AbandonRotation, CopyFromOldToken,
       StartGeneration, Generated, GenerationUnpublished, GenerationFails, Restart
  <2> QED BY Zenon, <2>1, <2>2, <2>3
<1> QED BY Zenon, <1>1, <1>2, <1>3, <1>4, <1>5, <1>6

\* The same for the janitor and the counters.
LEMMA CounterTypesNext ==
  ASSUME TypeInv, [Next]_vars
  PROVE  /\ janitor' \in [kind : {"idle", "token", "missing", "userData"}, view : Secrets]
         /\ roles' \in 0..deployment.roles /\ restarts' \in 0..deployment.restarts
         /\ failures' \in 0..MaxFailures
<1> DEFINE Janitors == [kind : {"idle", "token", "missing", "userData"}, view : Secrets]
<1>0. /\ deployment.time \in Nat /\ deployment.roles \in Nat /\ deployment.restarts \in Nat
      /\ MaxFailures \in Nat /\ secret \in Secrets /\ janitor \in Janitors
      /\ roles \in 0..deployment.roles /\ restarts \in 0..deployment.restarts
      /\ failures \in 0..MaxFailures
  BY Zenon, DeploymentBounds, BoundsAssumption DEF TypeInv, TypeOK
<1>1. janitor' \in Janitors
  <2>1. CASE JanitorReads
    <3>1. Deleted \in Secrets
      BY Zenon, <1>0, EmptyTypes
    <3> QED BY <1>0, <2>1, <3>1 DEF JanitorReads
  <2>2. CASE JanitorCleans
    BY Zenon, <1>0, <2>2, EmptyTypes DEF JanitorCleans
  <2>3. janitor' = janitor \/ JanitorReads \/ JanitorCleans
    BY Zenon DEF Next, vars, ChangeRole, PoolStep, ReconcileToken, ReconcileUserData, CleanupOutdated,
       DeleteNodePoolSecrets, JanitorStep, MachineCreated, Tick,
       ServerStep, PurgeCache, ProcessExpiredToken, StartRotation, PatchRotation,
       PatchRotationNotFound, PatchRotationFails, AbandonRotation, CopyFromOldToken,
       StartGeneration, Generated, GenerationUnpublished, GenerationFails, Restart, poolVars
  <2> QED BY Zenon, <1>0, <2>1, <2>2, <2>3
<1>2. roles' \in 0..deployment.roles
  <2>1. CASE ChangeRole
    BY <1>0, <2>1 DEF ChangeRole
  <2>2. roles' = roles \/ ChangeRole
    BY Zenon DEF Next, vars, PoolStep, ReconcileToken, ReconcileUserData, CleanupOutdated,
       DeleteNodePoolSecrets, JanitorStep, JanitorReads, JanitorCleans, MachineCreated, Tick,
       ServerStep, PurgeCache, ProcessExpiredToken, StartRotation, PatchRotation,
       PatchRotationNotFound, PatchRotationFails, AbandonRotation, CopyFromOldToken,
       StartGeneration, Generated, GenerationUnpublished, GenerationFails, Restart, poolVars
  <2> QED BY Zenon, <1>0, <2>1, <2>2
<1>3. restarts' \in 0..deployment.restarts
  <2>1. ASSUME NEW r \in Replicas, Restart(r) PROVE restarts' \in 0..deployment.restarts
    BY <1>0, <2>1 DEF Restart
  <2>2. restarts' = restarts \/ \E r \in Replicas : Restart(r)
    BY Zenon DEF Next, vars, ChangeRole, PoolStep, ReconcileToken, ReconcileUserData, CleanupOutdated,
       DeleteNodePoolSecrets, JanitorStep, JanitorReads, JanitorCleans, MachineCreated, Tick,
       ServerStep, PurgeCache, ProcessExpiredToken, StartRotation, PatchRotation,
       PatchRotationNotFound, PatchRotationFails, AbandonRotation, CopyFromOldToken,
       StartGeneration, Generated, GenerationUnpublished, GenerationFails
  <2> QED BY Zenon, <1>0, <2>1, <2>2
<1>4. failures' \in 0..MaxFailures
  <2>1. ASSUME NEW r \in Replicas,
               PatchRotationFails(r) \/ GenerationUnpublished(r) \/ GenerationFails(r)
        PROVE  failures' \in 0..MaxFailures
    BY <1>0, <2>1 DEF PatchRotationFails, GenerationUnpublished, GenerationFails
  <2>2. \/ failures' = failures
        \/ \E r \in Replicas : PatchRotationFails(r) \/ GenerationUnpublished(r) \/ GenerationFails(r)
    BY Zenon DEF Next, vars, ChangeRole, PoolStep, ReconcileToken, ReconcileUserData, CleanupOutdated,
       DeleteNodePoolSecrets, JanitorStep, JanitorReads, JanitorCleans, MachineCreated, Tick,
       ServerStep, PurgeCache, ProcessExpiredToken, StartRotation, PatchRotation,
       PatchRotationNotFound, CopyFromOldToken, StartGeneration, Generated, Restart
  <2> QED BY Zenon, <1>0, <2>1, <2>2
<1> QED BY Zenon, <1>1, <1>2, <1>3, <1>4

\* Each step keeps the types.
LEMMA TypesNext == TypeInv /\ [Next]_vars => TypeInv'
<1> SUFFICES ASSUME TypeInv, [Next]_vars PROVE TypeInv'
  BY Zenon
<1>0. deployment' = deployment
  BY Zenon, SameDeployment
<1>1. /\ Replicas' = Replicas /\ Secrets' = Secrets /\ Recs' = Recs /\ Entries' = Entries
  BY Zenon, <1>0 DEF Replicas, Secrets, Recs, Entries
<1>2. TypeOK'
  <2>1. secret' \in Secrets' /\ cache' \in [Replicas' -> [Keys -> Entries']] /\ rec' \in [Replicas' -> Recs']
    BY Zenon, <1>1, SecretStep, EntryStep, RecStep
  <2>2. /\ now' \in 0..(deployment'.time) /\ role' \in Roles
        /\ userData' \in {NoSecret} \cup Tokens /\ np' \in {NoSecret} \cup Tokens
        /\ machine' \in [token : Keys, at : 0..(deployment'.time)] /\ next' \in 1..(MaxTokens + 1)
    BY Zenon, <1>0, PoolTypesNext
  <2>3. /\ janitor' \in [kind : {"idle", "token", "missing", "userData"}, view : Secrets']
        /\ roles' \in 0..(deployment'.roles) /\ restarts' \in 0..(deployment'.restarts)
        /\ failures' \in 0..MaxFailures
    BY Zenon, <1>0, <1>1, CounterTypesNext
  <2> QED BY Zenon, <2>1, <2>2, <2>3 DEF TypeOK, Recs, Entries
<1>3. secret'.exists => secret'.token \in Tokens
  BY Zenon, SecretStep
<1>4. ASSUME NEW r \in Replicas
      PROVE  /\ rec'[r].pc # "idle" => rec'[r].view.token \in Tokens
             /\ rec'[r].pc = "rotating" => rec'[r].new \in Tokens
  <2>1. RecMoves(r)
    BY Zenon, RecStep
  <2>2. CASE rec'[r] = rec[r]
    BY Zenon, <2>2 DEF TypeInv, Rotating
  <2>3. CASE rec'[r] = IdleRec
    BY <2>3 DEF IdleRec
  <2>4. CASE StartRotation(r) /\ rec'[r] = [pc |-> "rotating", view |-> secret, new |-> next]
    <3>1. next \in Tokens /\ secret.token \in Tokens
      BY Zenon, <2>4, RotationStarted DEF TypeInv, StartRotation, Active
    <3> QED BY <2>4, <3>1
  <2>5. CASE StartGeneration(r) /\ rec'[r] = [pc |-> "generating", view |-> secret, new |-> 0]
    BY <2>5 DEF TypeInv, StartGeneration, Active
  <2> QED BY Zenon, <2>1, <2>2, <2>3, <2>4, <2>5 DEF RecMoves
<1> QED BY Zenon, <1>0, <1>1, <1>2, <1>3, <1>4 DEF TypeInv, Rotating

----------------------------------------------------------------------------
(* Tokens are new when they are generated *)

\* Every token in use was generated.
BelowInv ==
    /\ secret.token < next /\ secret.old < next
    /\ userData < next /\ np < next /\ machine.token < next
    /\ \A r \in Replicas : rec[r].view.token < next /\ rec[r].view.old < next /\ rec[r].new < next
    /\ \A r \in Replicas, k \in Keys : cache[r][k] # Absent => k < next

\* The token of a rotation that is not patched yet is known to nobody else.
NewInv ==
    \A r \in Replicas : Rotating(r) =>
       /\ rec[r].new \notin {secret.token, secret.old, userData, np, machine.token}
       /\ \A q \in Replicas : rec[q].view.token # rec[r].new
       /\ \A q \in Replicas : q # r /\ Rotating(q) => rec[q].new # rec[r].new

\* The numbers of tokens are integers.
LEMMA TokenNumbers ==
  ASSUME TypeInv
  PROVE  /\ secret.token \in Nat /\ secret.old \in Nat /\ secret.gen \in Nat /\ secret.expires \in Int
         /\ secret.exists \in BOOLEAN /\ secret.token \in Keys /\ secret.old \in Keys
         /\ userData \in Int /\ np \in Int /\ machine.token \in Nat /\ next \in Nat
         /\ \A r \in Replicas :
              /\ rec[r].view.token \in Nat /\ rec[r].view.old \in Nat /\ rec[r].new \in Nat
              /\ rec[r].view.token \in Keys /\ rec[r].view.old \in Keys /\ rec[r].new \in Keys
<1>1. secret \in Secrets /\ deployment.time \in Nat /\ rec \in [Replicas -> Recs]
  BY Zenon, Times DEF TypeInv, TypeOK, Recs
<1>2. ASSUME NEW r \in Replicas
      PROVE  /\ rec[r].view.token \in Nat /\ rec[r].view.old \in Nat /\ rec[r].new \in Nat
             /\ rec[r].view.token \in Keys /\ rec[r].view.old \in Keys /\ rec[r].new \in Keys
  <2>1. rec[r].view \in Secrets /\ rec[r].new \in Keys
    BY Zenon, <1>1 DEF Recs
  <2> QED BY <1>1, <2>1, SecretFields, BoundsAssumption DEF Keys
<1>3. /\ userData \in Int /\ np \in Int /\ machine.token \in Nat /\ next \in Nat
  BY BoundsAssumption DEF TypeInv, TypeOK, Tokens, NoSecret, Keys
<1> QED BY Zenon, <1>1, <1>2, <1>3, SecretFields

\* Tokens are numbered upwards.
LEMMA NextGrows ==
  ASSUME TypeInv, [Next]_vars
  PROVE  next' \in Nat /\ next \in Nat /\ (next' = next \/ next' = next + 1)
  BY TokenNumbers, PoolStepMoves, BoundsAssumption DEF PoolMoves

\* What the constant Secrets say.
LEMMA NoTokens ==
  /\ Deleted.exists = FALSE /\ Deleted.token = 0 /\ Deleted.old = 0 /\ Deleted.gen = 0
  /\ Deleted.expires = Never
  /\ IdleRec.pc = "idle" /\ IdleRec.view.token = 0 /\ IdleRec.view.old = 0 /\ IdleRec.new = 0
  BY Zenon DEF Deleted, IdleRec

\* A new Secret has the next token and no old one.
LEMMA SecretCreated ==
  ASSUME Created
  PROVE  /\ ~ secret.exists /\ role = "target" /\ next' = next + 1 /\ now' = now
         /\ secret'.exists /\ secret'.token = next /\ secret'.old = 0 /\ secret'.gen = now
         /\ secret'.expires = Never /\ np' = next
         /\ UNCHANGED <<role, userData, janitor, machine, cache, rec>>
<1>1. secret' = NewSecret /\ ReconcileToken /\ ~ secret.exists
  BY Zenon DEF Created
<1>2. /\ secret'.exists /\ secret'.token = next /\ secret'.old = 0 /\ secret'.gen = now
      /\ secret'.expires = Never
  BY Zenon, <1>1 DEF NewSecret
<1> QED BY Zenon, <1>1, <1>2 DEF ReconcileToken, serverVars

\* Initially there is no token.
LEMMA FreshInit == Init => BelowInv /\ NewInv
<1> SUFFICES ASSUME Init PROVE BelowInv /\ NewInv
  BY Zenon
<1>1. \A r \in Replicas : rec[r] = IdleRec /\ \A k \in Keys : cache[r][k] = Absent
  BY Zenon DEF Init
<1>2. /\ secret.token = 0 /\ secret.old = 0 /\ userData = -1 /\ np = -1 /\ machine.token = 0 /\ next = 1
  BY Zenon DEF Init, Deleted, NoSecret
<1> QED BY <1>1, <1>2, NoTokens DEF BelowInv, NewInv, Rotating

\* The tokens a step writes in the Secret were generated.
LEMMA SecretBelow ==
  ASSUME TypeInv, BelowInv, [Next]_vars
  PROVE  secret'.token < next' /\ secret'.old < next'
<1>0. /\ next' \in Nat /\ next \in Nat /\ (next' = next \/ next' = next + 1) /\ next >= 1
      /\ secret.token \in Nat /\ secret.old \in Nat /\ secret.token < next /\ secret.old < next
  BY Zenon, NextGrows, TokenNumbers, Times DEF BelowInv
<1>1. CASE SameToken
  BY <1>0, <1>1 DEF SameToken
<1>2. CASE Created
  <2>1. secret'.token = next /\ secret'.old = 0 /\ next' = next + 1
    BY Zenon, <1>2, SecretCreated
  <2> QED BY <1>0, <2>1
<1>3. CASE Removed
  <2>1. secret'.token = 0 /\ secret'.old = 0
    BY Zenon, <1>3, NoTokens DEF Removed
  <2> QED BY <1>0, <2>1
<1>4. ASSUME NEW r \in Replicas, PatchRotation(r) PROVE secret'.token < next' /\ secret'.old < next'
  <2>1. /\ rec[r].new \in Nat /\ rec[r].view.token \in Nat
        /\ rec[r].new < next /\ rec[r].view.token < next
    BY Zenon, TokenNumbers DEF BelowInv
  <2>2. secret'.token = rec[r].new /\ secret'.old = rec[r].view.token
    BY Zenon, <1>4, RotationPatched
  <2> QED BY <1>0, <2>1, <2>2
<1> QED BY Zenon, <1>1, <1>2, <1>3, <1>4, SecretStep DEF SecretMoves

\* Each step uses generated tokens only.
LEMMA BelowNext ==
  ASSUME TypeInv, BelowInv, [Next]_vars
  PROVE  BelowInv'
<1>0. /\ next' \in Nat /\ next \in Nat /\ (next' = next \/ next' = next + 1) /\ next >= 1
      /\ Replicas' = Replicas /\ secret'.token < next' /\ secret'.old < next' /\ PoolMoves
  BY Zenon, NextGrows, SameDeployment, SecretBelow, PoolStepMoves, Times DEF Replicas
<1>1. np' < next'
  BY <1>0, TokenNumbers DEF BelowInv, PoolMoves, NoSecret
<1>2. userData' < next'
  BY <1>0, TokenNumbers DEF BelowInv, PoolMoves, NoSecret
<1>3. machine'.token < next'
  BY <1>0, TokenNumbers DEF BelowInv, PoolMoves, MachineCreated
<1>4. ASSUME NEW r \in Replicas
      PROVE  rec'[r].view.token < next' /\ rec'[r].view.old < next' /\ rec'[r].new < next'
  <2>1. CASE rec'[r] = rec[r]
    BY <1>0, <2>1, TokenNumbers DEF BelowInv
  <2>2. CASE rec'[r] = IdleRec
    <3>1. rec'[r].view.token = 0 /\ rec'[r].view.old = 0 /\ rec'[r].new = 0
      BY Zenon, <2>2, NoTokens
    <3> QED BY <1>0, <3>1
  <2>3. CASE StartRotation(r) /\ rec'[r] = [pc |-> "rotating", view |-> secret, new |-> next]
    BY <1>0, <2>3, TokenNumbers DEF BelowInv, StartRotation
  <2>4. CASE StartGeneration(r) /\ rec'[r] = [pc |-> "generating", view |-> secret, new |-> 0]
    <3>1. rec'[r].view = secret /\ rec'[r].new = 0
      BY <2>4
    <3>2. next \in Nat /\ next' \in Nat /\ next <= next' /\ 0 < next
      BY <1>0, TokenNumbers DEF BelowInv
    <3>3. secret.token < next /\ secret.old < next /\ secret.token \in Nat /\ secret.old \in Nat
      BY Zenon, TokenNumbers DEF BelowInv
    <3> QED BY <3>1, <3>2, <3>3
  <2> QED BY Zenon, <2>1, <2>2, <2>3, <2>4, RecStep DEF RecMoves
<1>5. ASSUME NEW r \in Replicas, NEW k \in Keys, cache'[r][k] # Absent PROVE k < next'
  <2>1. k \in Nat
    BY BoundsAssumption DEF Keys
  <2>2. CASE cache'[r][k] = cache[r][k]
    BY <1>0, <1>5, <2>1, <2>2 DEF BelowInv
  <2>3. CASE Cacheable(r, k)
    BY <1>0, <2>1, <2>3, TokenNumbers DEF Cacheable, BelowInv
  <2> QED BY Zenon, <1>5, <2>2, <2>3, EntryStep DEF EntryMoves
<1> QED BY Zenon, <1>0, <1>1, <1>2, <1>3, <1>4, <1>5 DEF BelowInv

\* What a rotation that begins leaves alone, and what it reads.
LEMMA RotationBegins ==
  ASSUME TypeInv, NEW r \in Replicas, StartRotation(r)
  PROVE  /\ rec' = [rec EXCEPT ![r] = [pc |-> "rotating", view |-> secret, new |-> next]]
         /\ rec'[r] = [pc |-> "rotating", view |-> secret, new |-> next]
         /\ \A q \in Replicas : q # r => rec'[q] = rec[q]
         /\ rec'[r].pc = "rotating" /\ rec'[r].new = next
         /\ rec'[r].view.token = secret.token /\ rec'[r].view.old = secret.old
         /\ rec[r].pc = "idle" /\ secret.exists /\ ~ isTokenExpired(secret)
         /\ tokenNeedRotation(secret) /\ Live(r, secret.token)
         /\ UNCHANGED <<deployment, now, role, userData, np, janitor, machine, secret>>
<1>1. rec \in [Replicas -> Recs]
  BY Zenon DEF TypeInv, TypeOK, Recs
<1>2. /\ rec' = [rec EXCEPT ![r] = [pc |-> "rotating", view |-> secret, new |-> next]]
      /\ rec[r].pc = "idle" /\ secret.exists /\ ~ isTokenExpired(secret)
      /\ tokenNeedRotation(secret) /\ Live(r, secret.token)
      /\ UNCHANGED <<deployment, now, role, userData, np, janitor, machine, secret>>
  BY Zenon DEF StartRotation, Active, poolVars
<1> QED BY Zenon, <1>1, <1>2

\* The patch of a rotation ends the reconcile and leaves the caches alone.
LEMMA RotationEnds ==
  ASSUME TypeInv, NEW r \in Replicas, PatchRotation(r)
  PROVE  /\ rec'[r] = IdleRec /\ rec'[r].pc = "idle"
         /\ \A q \in Replicas : q # r => rec'[q] = rec[q]
         /\ Rotating(r) /\ secret.exists
         /\ UNCHANGED <<deployment, now, role, userData, np, janitor, machine, cache, next>>
<1>1. rec \in [Replicas -> Recs]
  BY Zenon DEF TypeInv, TypeOK, Recs
<1>2. /\ rec' = [rec EXCEPT ![r] = IdleRec] /\ Rotating(r) /\ secret.exists
      /\ UNCHANGED <<deployment, now, role, userData, np, janitor, machine, cache, next>>
  BY Zenon DEF PatchRotation, Rotating, poolVars
<1> QED BY Zenon, <1>1, <1>2 DEF IdleRec

\* Nobody comes to know the token of a rotation before its patch.
LEMMA SecretNotNew ==
  ASSUME TypeInv, BelowInv, NewInv, [Next]_vars, NEW r \in Replicas, Rotating(r), rec'[r] = rec[r]
  PROVE  secret'.token # rec[r].new /\ secret'.old # rec[r].new
<1>0. rec[r].new \in Nat /\ rec[r].new < next /\ rec[r].new # 0 /\ next \in Nat
  BY TokenNumbers DEF BelowInv, TypeInv, Tokens
<1>1. CASE SameToken
  BY Zenon, <1>1 DEF SameToken, NewInv
<1>2. CASE Created
  BY <1>0, <1>2, SecretCreated
<1>3. CASE Removed
  BY Zenon, <1>0, <1>3, NoTokens DEF Removed
<1>4. ASSUME NEW q \in Replicas, PatchRotation(q)
      PROVE  secret'.token # rec[r].new /\ secret'.old # rec[r].new
  <2>1. q # r /\ Rotating(q)
    BY Zenon, <1>4, RotationEnds DEF Rotating
  <2>2. rec[q].new # rec[r].new /\ rec[q].view.token # rec[r].new
    BY Zenon, <2>1 DEF NewInv
  <2> QED BY Zenon, <1>4, <2>2, RotationPatched
<1> QED BY Zenon, <1>1, <1>2, <1>3, <1>4, SecretStep DEF SecretMoves

\* Each step keeps the tokens of rotations apart.
LEMMA NewNext ==
  ASSUME TypeInv, BelowInv, NewInv, [Next]_vars
  PROVE  NewInv'
<1>0. Replicas' = Replicas /\ PoolMoves
  BY Zenon, SameDeployment, PoolStepMoves DEF Replicas
<1> SUFFICES ASSUME NEW r \in Replicas, rec'[r].pc = "rotating"
             PROVE  /\ rec'[r].new \notin {secret'.token, secret'.old, userData', np', machine'.token}
                    /\ \A q \in Replicas : rec'[q].view.token # rec'[r].new
                    /\ \A q \in Replicas : q # r /\ rec'[q].pc = "rotating" => rec'[q].new # rec'[r].new
  BY Zenon, <1>0 DEF NewInv, Rotating
<1>1. CASE rec'[r] = rec[r]
  <2>0. /\ Rotating(r) /\ rec'[r].new = rec[r].new /\ rec[r].new \in Nat /\ rec[r].new < next
        /\ rec[r].new # 0 /\ rec[r].new # -1 /\ next \in Nat
    BY <1>1, TokenNumbers DEF BelowInv, TypeInv, Tokens, Rotating
  <2>1. secret'.token # rec[r].new /\ secret'.old # rec[r].new
    BY Zenon, <1>1, <2>0, SecretNotNew
  <2>2. /\ rec[r].new \notin {secret.token, secret.old, userData, np, machine.token}
        /\ \A q \in Replicas : rec[q].view.token # rec[r].new
        /\ \A q \in Replicas : q # r /\ Rotating(q) => rec[q].new # rec[r].new
    BY Zenon, <2>0 DEF NewInv
  <2>3. np' # rec[r].new /\ userData' # rec[r].new
    BY Zenon, <1>0, <2>0, <2>1, <2>2 DEF PoolMoves, NoSecret
  <2>4. machine'.token # rec[r].new
    BY <1>0, <2>2 DEF PoolMoves, MachineCreated
  <2>5. ASSUME NEW q \in Replicas
        PROVE  /\ rec'[q].view.token # rec[r].new
               /\ q # r /\ rec'[q].pc = "rotating" => rec'[q].new # rec[r].new
    <3>1. CASE rec'[q] = rec[q]
      BY Zenon, <2>2, <3>1 DEF Rotating
    <3>2. CASE rec'[q] = IdleRec
      BY Zenon, <2>0, <3>2, NoTokens
    <3>3. CASE StartRotation(q) /\ rec'[q] = [pc |-> "rotating", view |-> secret, new |-> next]
      BY <2>0, <2>2, <3>3
    <3>4. CASE StartGeneration(q) /\ rec'[q] = [pc |-> "generating", view |-> secret, new |-> 0]
      BY <2>0, <2>2, <3>4
    <3> QED BY Zenon, <3>1, <3>2, <3>3, <3>4, RecStep DEF RecMoves
  <2> QED BY Zenon, <2>0, <2>1, <2>3, <2>4, <2>5
<1>2. CASE StartRotation(r)
  <2>1. /\ rec'[r].new = next /\ rec'[r].view.token = secret.token
        /\ \A q \in Replicas : q # r => rec'[q] = rec[q]
        /\ UNCHANGED <<userData, np, machine, secret>>
    BY Zenon, <1>2, RotationBegins
  <2>2. next \notin {secret.token, secret.old, userData, np, machine.token}
    BY TokenNumbers DEF BelowInv
  <2>3. ASSUME NEW q \in Replicas PROVE rec[q].view.token # next /\ rec[q].new # next
    BY TokenNumbers DEF BelowInv
  <2> QED BY Zenon, <2>1, <2>2, <2>3
<1> QED BY <1>1, <1>2, RecStep, NoTokens DEF RecMoves

----------------------------------------------------------------------------
(* Rotations are in time, and entries outlive them *)

\* No replica will collect its entry of k before t.
Lasts(k, t) == \A q \in Replicas : cache[q][k] = Absent \/ cache[q][k] >= t

\* The token is rotated at Half, before its entries expire; then the old token
\* has Half left.  While a rotation is in progress no time passes.
TimeInv ==
    /\ secret.gen <= now /\ machine.at <= now
    /\ secret.exists =>
          /\ secret.old # secret.token
          /\ Replicas # {} => now <= secret.gen + Half
          /\ Lasts(secret.token, secret.gen + ttl)
          /\ secret.old # 0 => Lasts(secret.old, secret.gen + Half)
    /\ \A r \in Replicas : Rotating(r) =>
          /\ Lasts(rec[r].new, now + ttl)
          /\ Lasts(rec[r].view.token, now + Half)
          /\ cache[r][rec[r].new] # Absent
          /\ cache[r][rec[r].view.token] # Absent

\* The entries are integers.
LEMMA EntryNumbers ==
  ASSUME TypeInv, NEW q \in Replicas, NEW k \in Keys
  PROVE  cache[q][k] \in Int /\ (cache[q][k] >= 0 => cache[q][k] # Absent)
<1>1. cache[q][k] \in Entries
  BY DEF TypeInv, TypeOK, Entries
<1> QED BY <1>1, Times DEF Entries, Absent

\* What is cached is cached for ttl.
LEMMA LastsStep ==
  ASSUME TypeInv, [Next]_vars, NEW k \in Keys, NEW t \in Int, t <= now + ttl, Lasts(k, t)
  PROVE  \A q \in Replicas : cache'[q][k] = Absent \/ cache'[q][k] >= t
<1> SUFFICES ASSUME NEW q \in Replicas PROVE cache'[q][k] = Absent \/ cache'[q][k] >= t
  BY Zenon
<1>1. EntryMoves(q, k) /\ (cache[q][k] = Absent \/ cache[q][k] >= t)
  BY Zenon, EntryStep DEF Lasts
<1> QED BY Zenon, <1>1 DEF EntryMoves

\* When time passes nothing is in progress, no rotation is due, the user data is
\* that of the token and an expiration is set unless the NodePool asks for it.
LEMMA TickQuiet ==
  ASSUME TypeInv, Tick
  PROVE  /\ now' = now + 1 /\ \A r \in Replicas : rec[r].pc = "idle"
         /\ np = NoSecret
         /\ ~ shouldKeepOldUserData /\ userData # NoSecret =>
               role = "target" /\ userData = secret.token /\ secret.exists /\ secret.expires = Never
         /\ secret.exists /\ Replicas # {} => now - secret.gen < Half
         /\ UNCHANGED <<deployment, role, secret, userData, np, janitor, machine, cache, rec, next>>
<1>1. /\ Quiet /\ now' = now + 1
      /\ UNCHANGED <<deployment, role, secret, userData, np, janitor, machine, cache, rec, next>>
  BY Zenon DEF Tick, poolVars
<1>2. /\ ~ PoolDue /\ \A r \in Replicas : ~ ServerDue(r)
  BY Zenon, <1>1 DEF Quiet
<1>3. \A r \in Replicas : rec[r].pc = "idle"
  BY Zenon, <1>2 DEF ServerDue
<1>4. secret.exists /\ Replicas # {} => now - secret.gen < Half
  <2>1. secret.exists /\ Replicas # {} => ~ tokenNeedRotation(secret)
    BY Zenon, <1>2 DEF ServerDue
  <2> QED BY <2>1, Times, TokenNumbers DEF tokenNeedRotation
<1>5. /\ np = NoSecret
      /\ ~ shouldKeepOldUserData /\ userData # NoSecret =>
            role = "target" /\ userData = secret.token /\ secret.exists /\ secret.expires = Never
  BY Zenon, <1>2 DEF PoolDue, TypeInv, TypeOK, Roles
<1> QED BY Zenon, <1>1, <1>3, <1>4, <1>5

\* Initially there is nothing to time.
LEMMA TimeInit == Init => TimeInv
<1> SUFFICES ASSUME Init PROVE TimeInv
  BY Zenon
<1>1. secret = Deleted /\ now = 0 /\ machine.at = 0 /\ \A r \in Replicas : rec[r] = IdleRec
  BY Zenon DEF Init
<1> QED BY <1>1, NoTokens DEF TimeInv, Rotating

\* The clock does not run back, and the times that are recorded are past.
LEMMA TimesPast ==
  ASSUME TypeInv, TimeInv, [Next]_vars
  PROVE  secret'.gen <= now' /\ machine'.at <= now' /\ now' \in Nat /\ now <= now'
<1>0. /\ now \in Nat /\ secret.gen \in Nat /\ machine.at \in Nat /\ secret.gen <= now /\ machine.at <= now
      /\ PoolMoves
  BY Zenon, Times, TokenNumbers, PoolStepMoves DEF TimeInv
<1>1. now' \in Nat /\ now <= now'
  BY <1>0 DEF PoolMoves, Tick
<1>2. machine'.at <= now'
  BY <1>0, <1>1 DEF PoolMoves, MachineCreated
<1>3. secret'.gen <= now'
  <2>1. CASE SameToken
    BY <1>0, <1>1, <2>1 DEF SameToken
  <2>2. CASE Created
    BY Zenon, <1>0, <1>1, <2>2, SecretCreated
  <2>3. CASE Removed
    BY <1>0, <1>1, <2>3, NoTokens DEF Removed
  <2>4. ASSUME NEW r \in Replicas, PatchRotation(r) PROVE secret'.gen <= now'
    BY Zenon, <1>0, <1>1, <2>4, RotationPatched
  <2> QED BY Zenon, <2>1, <2>2, <2>3, <2>4, SecretStep DEF SecretMoves
<1> QED BY Zenon, <1>1, <1>2, <1>3

\* The entries of the tokens in the Secret last until they have been rotated out.
LEMMA SecretLasts ==
  ASSUME TypeInv, BelowInv, NewInv, TimeInv, [Next]_vars, secret'.exists
  PROVE  /\ secret'.old # secret'.token
         /\ Replicas # {} => now' <= secret'.gen + Half
         /\ \A q \in Replicas :
               cache'[q][secret'.token] = Absent \/ cache'[q][secret'.token] >= secret'.gen + ttl
         /\ secret'.old # 0 => \A q \in Replicas :
               cache'[q][secret'.old] = Absent \/ cache'[q][secret'.old] >= secret'.gen + Half
<1> DEFINE Goal ==
         /\ secret'.old # secret'.token
         /\ Replicas # {} => now' <= secret'.gen + Half
         /\ \A q \in Replicas :
               cache'[q][secret'.token] = Absent \/ cache'[q][secret'.token] >= secret'.gen + ttl
         /\ secret'.old # 0 => \A q \in Replicas :
               cache'[q][secret'.old] = Absent \/ cache'[q][secret'.old] >= secret'.gen + Half
<1>0. /\ now \in Nat /\ secret.gen \in Nat /\ secret.gen <= now /\ Half \in Nat /\ ttl = 2 * Half /\ ttl \in Nat
      /\ secret.token \in Keys /\ secret.old \in Keys /\ PoolMoves
  BY Zenon, Times, TokenNumbers, PoolStepMoves DEF TimeInv
<1>1. CASE SameToken
  <2>1. secret.exists /\ secret'.old = secret.old /\ secret'.token = secret.token /\ secret'.gen = secret.gen
    BY Zenon, <1>1 DEF SameToken
  <2>2. /\ secret.old # secret.token
        /\ Replicas # {} => now <= secret.gen + Half
        /\ Lasts(secret.token, secret.gen + ttl)
        /\ secret.old # 0 => Lasts(secret.old, secret.gen + Half)
    BY Zenon, <2>1 DEF TimeInv
  <2>3. /\ secret.gen + ttl \in Int /\ secret.gen + Half \in Int
        /\ secret.gen + ttl <= now + ttl /\ secret.gen + Half <= now + ttl
    BY <1>0
  <2>4. \A q \in Replicas : cache'[q][secret.token] = Absent \/ cache'[q][secret.token] >= secret.gen + ttl
    BY Zenon, <1>0, <2>2, <2>3, LastsStep
  <2>5. secret.old # 0 => \A q \in Replicas :
           cache'[q][secret.old] = Absent \/ cache'[q][secret.old] >= secret.gen + Half
    BY Zenon, <1>0, <2>2, <2>3, LastsStep
  <2>6. Replicas # {} => now' <= secret.gen + Half
    <3>1. CASE Tick
      BY <1>0, <2>1, <3>1, TickQuiet
    <3> QED BY Zenon, <1>0, <2>2, <3>1 DEF PoolMoves
  <2> QED BY Zenon, <2>1, <2>2, <2>4, <2>5, <2>6
<1>2. CASE Created
  <2>1. /\ secret'.token = next /\ secret'.old = 0 /\ secret'.gen = now /\ now' = now /\ cache' = cache
        /\ next \in Nat /\ next >= 1
    BY Zenon, <1>2, SecretCreated, Times
  <2>2. next \in Keys
    BY <2>1, SecretStep, BoundsAssumption DEF Tokens, Keys
  <2>3. \A q \in Replicas : cache[q][next] = Absent
    BY <2>1, <2>2 DEF BelowInv
  <2> QED BY <1>0, <2>1, <2>3
<1>3. CASE Removed
  BY Zenon, <1>3, NoTokens DEF Removed
<1>4. ASSUME NEW r \in Replicas, PatchRotation(r) PROVE Goal
  <2>1. /\ secret'.token = rec[r].new /\ secret'.old = rec[r].view.token /\ secret'.gen = now
        /\ now' = now /\ cache' = cache /\ Rotating(r)
    BY Zenon, <1>4, RotationPatched, RotationEnds
  <2>2. /\ rec[r].new # rec[r].view.token
        /\ Lasts(rec[r].new, now + ttl) /\ Lasts(rec[r].view.token, now + Half)
    BY Zenon, <2>1 DEF NewInv, TimeInv
  <2> QED BY <1>0, <2>1, <2>2 DEF Lasts
<1> QED BY Zenon, <1>1, <1>2, <1>3, <1>4, SecretStep DEF SecretMoves

\* A replica that rotates the token holds the payloads of both tokens.
LEMMA RotationLasts ==
  ASSUME TypeInv, BelowInv, TimeInv, [Next]_vars, NEW r \in Replicas, rec'[r].pc = "rotating"
  PROVE  /\ \A q \in Replicas : cache'[q][rec'[r].new] = Absent \/ cache'[q][rec'[r].new] >= now' + ttl
         /\ \A q \in Replicas : \/ cache'[q][rec'[r].view.token] = Absent
                                \/ cache'[q][rec'[r].view.token] >= now' + Half
         /\ cache'[r][rec'[r].new] # Absent /\ cache'[r][rec'[r].view.token] # Absent
<1> DEFINE n == rec'[r].new
           v == rec'[r].view.token
<1>0. now \in Nat /\ Half \in Nat /\ ttl = 2 * Half /\ ttl \in Nat
  BY Zenon, Times
<1>1. CASE rec'[r] = rec[r]
  <2>1. /\ Rotating(r) /\ n = rec[r].new /\ v = rec[r].view.token /\ n \in Keys /\ v \in Keys
    BY Zenon, <1>1, TokenNumbers DEF Rotating
  <2>2. Lasts(n, now + ttl) /\ Lasts(v, now + Half) /\ cache[r][n] # Absent /\ cache[r][v] # Absent
    BY Zenon, <2>1 DEF TimeInv
  <2>3. now' = now
    BY Zenon, <2>1, TickQuiet, PoolStepMoves DEF PoolMoves, Rotating
  <2>4. ASSUME NEW k \in Keys, cache[r][k] # Absent PROVE cache'[r][k] # Absent
    <3>1. EntryMoves(r, k) /\ ~ Dropped(r, k)
      BY Zenon, <1>1, <2>1, EntryStep DEF Dropped, Rotating
    <3>2. now + ttl # Absent
      BY <1>0 DEF Absent
    <3> QED BY Zenon, <2>4, <3>1, <3>2 DEF EntryMoves
  <2> HIDE DEF n, v
  <2>5. \A q \in Replicas : cache'[q][n] = Absent \/ cache'[q][n] >= now + ttl
    BY <1>0, <2>1, <2>2, LastsStep
  <2>6. \A q \in Replicas : cache'[q][v] = Absent \/ cache'[q][v] >= now + Half
    BY <1>0, <2>1, <2>2, LastsStep
  <2> QED BY Zenon, <2>1, <2>2, <2>3, <2>4, <2>5, <2>6 DEF n, v
<1>2. CASE StartRotation(r)
  <2>1. /\ n = next /\ v = secret.token /\ secret.exists /\ now' = now
        /\ Live(r, secret.token) /\ next \in Keys /\ secret.token \in Keys
    <3>1. Tokens \subseteq Keys
      BY BoundsAssumption DEF Tokens, Keys
    <3>2. next \in Tokens
      BY Zenon, <1>2, RotationStarted
    <3>3. n = next /\ v = secret.token /\ secret.exists /\ now' = now /\ Live(r, secret.token)
      BY Zenon, <1>2, RotationBegins
    <3> QED BY Zenon, <3>1, <3>2, <3>3, TokenNumbers
  <2>2. /\ \A q \in Replicas : q # r => cache'[q] = cache[q]
        /\ \A k \in Keys : cache'[r][k] = IF k = next THEN now + ttl
               ELSE IF k = secret.old /\ k # 0 THEN Absent ELSE cache[r][k]
    BY Zenon, <1>2, RotationStarted DEF OnlyCache
  <2>3. /\ secret.old # secret.token /\ now <= secret.gen + Half
        /\ Lasts(secret.token, secret.gen + ttl)
    BY Zenon, <2>1 DEF TimeInv
  <2>4. secret.token # next /\ \A q \in Replicas : cache[q][next] = Absent
    BY <2>1, TokenNumbers DEF BelowInv
  <2>5. cache'[r][next] = now + ttl /\ cache'[r][secret.token] = cache[r][secret.token]
    BY Zenon, <2>1, <2>2, <2>3, <2>4
  <2>6. \A q \in Replicas : cache'[q][next] = Absent \/ cache'[q][next] >= now + ttl
    <3>1. now + ttl >= now + ttl
      BY <1>0
    <3> QED BY Zenon, <2>2, <2>4, <2>5, <3>1
  <2>7. \A q \in Replicas : cache'[q][secret.token] = cache[q][secret.token]
    BY Zenon, <2>2, <2>5
  <2>8. ASSUME NEW q \in Replicas
        PROVE  cache[q][secret.token] = Absent \/ cache[q][secret.token] >= now + Half
    BY <1>0, <2>1, <2>3, TokenNumbers, EntryNumbers DEF Lasts
  <2>9. cache[r][secret.token] # Absent /\ now + ttl # Absent
    BY <1>0, <2>1, EntryNumbers DEF Live, Absent
  <2> HIDE DEF n, v
  <2> QED BY Zenon, <2>1, <2>5, <2>6, <2>7, <2>8, <2>9 DEF n, v
<1>3. rec'[r] # IdleRec
  BY Zenon, NoTokens
<1>4. rec'[r] # [pc |-> "generating", view |-> secret, new |-> 0]
  OBVIOUS
<1>5. RecMoves(r)
  BY Zenon, RecStep
<1> QED BY Zenon, <1>1, <1>2, <1>3, <1>4, <1>5 DEF RecMoves

\* Each step keeps the times.
LEMMA TimeNext ==
  ASSUME TypeInv, BelowInv, NewInv, TimeInv, [Next]_vars
  PROVE  TimeInv'
<1>0. Replicas' = Replicas
  BY Zenon, SameDeployment DEF Replicas
<1>1. secret'.gen <= now' /\ machine'.at <= now'
  BY Zenon, TimesPast
<1>2. secret'.exists =>
          /\ secret'.old # secret'.token
          /\ Replicas' # {} => now' <= secret'.gen + Half
          /\ \A q \in Replicas' :
                cache'[q][secret'.token] = Absent \/ cache'[q][secret'.token] >= secret'.gen + ttl
          /\ secret'.old # 0 => \A q \in Replicas' :
                cache'[q][secret'.old] = Absent \/ cache'[q][secret'.old] >= secret'.gen + Half
  BY Zenon, <1>0, SecretLasts
<1>3. \A r \in Replicas' : rec'[r].pc = "rotating" =>
          /\ \A q \in Replicas' : cache'[q][rec'[r].new] = Absent \/ cache'[q][rec'[r].new] >= now' + ttl
          /\ \A q \in Replicas' : \/ cache'[q][rec'[r].view.token] = Absent
                                  \/ cache'[q][rec'[r].view.token] >= now' + Half
          /\ cache'[r][rec'[r].new] # Absent /\ cache'[r][rec'[r].view.token] # Absent
  BY Zenon, <1>0, RotationLasts
<1> QED BY Zenon, <1>1, <1>2, <1>3 DEF TimeInv, Lasts, Rotating

----------------------------------------------------------------------------
(* A Secret that is in use is not removed *)

Unexpired(t) == secret.expires = Never \/ secret.expires >= t

\* The NodePool is not being deleted, and the platform is one whose user data goes
\* with the version.
Handing == role # "gone" /\ ~ shouldKeepOldUserData

\* Under a reconcile in progress the Secret exists and has not expired; while the
\* user data exists the token has Grace left.
PendingInv ==
    /\ janitor.kind = "missing" => role = "gone"
    /\ role # "gone" => \A r \in Replicas : rec[r].pc # "idle" => secret.exists /\ Unexpired(now)
    /\ Handing /\ (userData # NoSecret \/ np # NoSecret) => secret.exists /\ Unexpired(now + Grace)

\* Initially nothing is in use.
LEMMA PendingInit == Init => PendingInv
<1> SUFFICES ASSUME Init PROVE PendingInv
  BY Zenon
<1>1. /\ janitor = IdleJanitor /\ \A r \in Replicas : rec[r] = IdleRec
      /\ userData = NoSecret /\ np = NoSecret
  BY Zenon DEF Init
<1> QED BY Zenon, <1>1, NoTokens DEF PendingInv, IdleJanitor

\* A Secret that does not expire for a while still does not after a step that
\* leaves it in place: an expiration is set Grace ahead.
LEMMA UnexpiredStep ==
  ASSUME TypeInv, [Next]_vars, ~ Removed, NEW t \in Int, t <= now + Grace,
         secret.exists, Unexpired(t)
  PROVE  secret'.exists /\ (secret'.expires = Never \/ secret'.expires >= t)
<1>0. secret.expires \in Int /\ now \in Nat /\ Grace \in Nat
  BY Zenon, TokenNumbers, Times
<1>1. CASE SameToken
  BY Zenon, <1>0, <1>1 DEF SameToken, Unexpired
<1>2. CASE Created
  BY Zenon, <1>2, SecretCreated
<1>3. ASSUME NEW r \in Replicas, PatchRotation(r)
      PROVE  secret'.exists /\ (secret'.expires = Never \/ secret'.expires >= t)
  BY Zenon, <1>3, RotationPatched DEF Unexpired
<1> QED BY Zenon, <1>1, <1>2, <1>3, SecretStep DEF SecretMoves

\* While the NodePool exists, a Secret is removed only when it has expired.
LEMMA RemovedExpired ==
  ASSUME TypeInv, PendingInv, Removed, role # "gone", NEW t \in Int, t >= now, Unexpired(t)
  PROVE  FALSE
<1>1. isTokenExpired(secret)
  BY Zenon DEF Removed, PendingInv
<1>2. secret.expires # Never /\ now > secret.expires
  BY Zenon, <1>1 DEF isTokenExpired
<1> QED BY <1>2, TokenNumbers, Times DEF Unexpired

\* Each step keeps Secrets that are in use.
LEMMA PendingNext ==
  ASSUME TypeInv, PendingInv, [Next]_vars
  PROVE  PendingInv'
<1>0. /\ Replicas' = Replicas /\ PoolMoves /\ now \in Nat /\ Grace \in Nat
      /\ shouldKeepOldUserData' = shouldKeepOldUserData
      /\ role' # "gone" => role # "gone"
  BY Zenon, SameDeployment, PoolStepMoves, Times DEF Replicas, PoolMoves, shouldKeepOldUserData, Platform
<1>1. janitor'.kind = "missing" => role' = "gone"
  BY Zenon, <1>0 DEF PoolMoves, PendingInv
<1>2. ASSUME role' # "gone", NEW r \in Replicas, rec'[r].pc # "idle"
      PROVE  secret'.exists /\ (secret'.expires = Never \/ secret'.expires >= now')
  <2>1. secret.exists /\ Unexpired(now)
    <3>1. CASE rec'[r] = rec[r]
      BY Zenon, <1>0, <1>2, <3>1 DEF PendingInv
    <3>2. CASE StartRotation(r) \/ StartGeneration(r)
      BY <3>2, <1>0, TokenNumbers DEF StartRotation, StartGeneration, Active, isTokenExpired, Unexpired
    <3> QED BY Zenon, <1>2, <3>1, <3>2, RecStep, NoTokens DEF RecMoves
  <2>2. now' = now
    <3>1. rec[r].pc # "idle" => now' = now
      BY Zenon, <1>0, TickQuiet DEF PoolMoves
    <3>2. StartRotation(r) \/ StartGeneration(r) => now' = now
      BY Zenon DEF StartRotation, StartGeneration
    <3> QED BY Zenon, <1>2, <3>1, <3>2, RecStep, NoTokens DEF RecMoves
  <2>3. ~ Removed
    BY <1>0, <1>2, <2>1, RemovedExpired
  <2> QED BY <1>0, <2>1, <2>2, <2>3, UnexpiredStep
<1>3. ASSUME role' # "gone", ~ shouldKeepOldUserData, userData' # NoSecret \/ np' # NoSecret
      PROVE  secret'.exists /\ (secret'.expires = Never \/ secret'.expires >= now' + Grace)
  <2>1. CASE Tick
    BY Zenon, <1>3, <2>1, TickQuiet
  <2>2. CASE now' = now /\ (userData # NoSecret \/ np # NoSecret)
    <3>1. secret.exists /\ Unexpired(now + Grace)
      BY Zenon, <1>0, <1>3, <2>2 DEF PendingInv, Handing
    <3>2. ~ Removed
      BY <1>0, <1>3, <3>1, RemovedExpired
    <3> QED BY <1>0, <2>2, <3>1, <3>2, UnexpiredStep
  <2>3. CASE ReconcileToken
    BY Zenon, <2>3, TokenReconciled
  <2>4. userData # NoSecret \/ np # NoSecret \/ ReconcileToken
    BY Zenon, <1>0, <1>3 DEF PoolMoves
  <2>5. now' = now \/ Tick
    BY Zenon, <1>0 DEF PoolMoves
  <2> QED BY Zenon, <2>1, <2>2, <2>3, <2>4, <2>5
<1> QED BY Zenon, <1>0, <1>1, <1>2, <1>3 DEF PendingInv, Unexpired, Handing

----------------------------------------------------------------------------
(* Rotations that overlap *)

\* A rotation in progress read the token of the Secret; or another replica was
\* faster, and then that one has the token that the patch is going to overwrite.
RotationInv ==
    role # "gone" => \A r \in Replicas : Rotating(r) =>
       \/ rec[r].view.token = secret.token /\ secret.gen + Half <= now
       \/ /\ rec[r].view.token = secret.old /\ secret.gen = now
          /\ \E q \in Replicas \ {r} :
                deployment.restarts = 0 => cache[q][secret.token] >= now + ttl

\* An entry that was cached just now stays unless its replica restarts or gives
\* up its own rotation.
LEMMA JustCachedStays ==
  ASSUME TypeInv, PendingInv, TimeInv, [Next]_vars, role # "gone", secret.exists, Unexpired(now),
         now' = now, NEW q \in Replicas, NEW k \in Keys, NEW t \in Int, t <= now + ttl, cache[q][k] >= t,
         deployment.restarts = 0, k = secret.old => secret.gen + Half > now,
         Rotating(q) => k # rec[q].new
  PROVE  cache'[q][k] >= t
<1>0. now \in Nat /\ Half \in Nat /\ ttl \in Nat /\ secret.gen \in Nat
  BY Zenon, Times, TokenNumbers
<1>1. ~ isTokenExpired(secret)
  BY TokenNumbers, Times DEF isTokenExpired, Unexpired
<1>2. k = secret.old => ~ tokenNeedRotation(secret)
  BY <1>0 DEF tokenNeedRotation
<1>3. ~ Dropped(q, k)
  BY Zenon, <1>1, <1>2 DEF Dropped
<1>4. cache'[q][k] = cache[q][k] \/ cache'[q][k] = now + ttl
  BY Zenon, <1>3, EntryStep DEF EntryMoves
<1> QED BY Zenon, <1>0, <1>4

\* Initially nothing rotates.
LEMMA RotationInit == Init => RotationInv
<1> SUFFICES ASSUME Init PROVE RotationInv
  BY Zenon
<1>1. \A r \in Replicas : rec[r] = IdleRec
  BY Zenon DEF Init
<1> QED BY Zenon, <1>1, NoTokens DEF RotationInv, Rotating

\* Under a rotation in progress the Secret stays, or another rotation is patched.
LEMMA UnderRotation ==
  ASSUME TypeInv, PendingInv, [Next]_vars, role # "gone",
         NEW r \in Replicas, rec'[r] = rec[r], Rotating(r)
  PROVE  /\ secret.exists /\ Unexpired(now) /\ now' = now
         /\ SameToken \/ \E q \in Replicas \ {r} : PatchRotation(q)
<1>1. secret.exists /\ Unexpired(now) /\ now \in Nat
  BY Zenon, Times DEF PendingInv, Rotating
<1>2. now' = now
  BY Zenon, PoolStepMoves, TickQuiet DEF PoolMoves, Rotating
<1>3. ~ Removed /\ ~ Created
  BY <1>1, RemovedExpired DEF Created
<1>4. ASSUME NEW q \in Replicas, PatchRotation(q) PROVE q # r
  BY Zenon, <1>4, RotationEnds DEF Rotating
<1> QED BY Zenon, <1>1, <1>2, <1>3, <1>4, SecretStep DEF SecretMoves

\* Each step keeps what is known of overlapping rotations.
LEMMA RotationNext ==
  ASSUME TypeInv, BelowInv, NewInv, TimeInv, PendingInv, RotationInv, [Next]_vars
  PROVE  RotationInv'
<1>0. /\ Replicas' = Replicas /\ deployment' = deployment
      /\ role' # "gone" => role # "gone"
  BY Zenon, SameDeployment, PoolStepMoves DEF Replicas, PoolMoves
<1>n. now \in Nat /\ Half \in Nat /\ Half > 0 /\ ttl \in Nat /\ ttl = 2 * Half /\ secret.gen \in Nat
  BY Zenon, Times, TokenNumbers
<1> DEFINE Goal(r) ==
       \/ rec'[r].view.token = secret'.token /\ secret'.gen + Half <= now'
       \/ /\ rec'[r].view.token = secret'.old /\ secret'.gen = now'
          /\ \E q \in Replicas \ {r} :
                deployment.restarts = 0 => cache'[q][secret'.token] >= now' + ttl
<1> SUFFICES ASSUME role' # "gone", NEW r \in Replicas, rec'[r].pc = "rotating" PROVE Goal(r)
  BY Zenon, <1>0 DEF RotationInv, Rotating
<1>1. CASE rec'[r] = rec[r]
  <2>0. role # "gone" /\ Rotating(r)
    BY Zenon, <1>0, <1>1 DEF Rotating
  <2>1. secret.exists /\ Unexpired(now) /\ now' = now
    BY Zenon, <1>1, <2>0, UnderRotation
  <2>2. CASE SameToken
    <3>0. secret'.token = secret.token /\ secret'.old = secret.old /\ secret'.gen = secret.gen
      BY Zenon, <2>2 DEF SameToken
    <3>1. CASE rec[r].view.token = secret.token /\ secret.gen + Half <= now
      BY Zenon, <1>1, <2>1, <3>0, <3>1
    <3>2. ASSUME rec[r].view.token = secret.old, secret.gen = now, NEW q \in Replicas \ {r},
                 deployment.restarts = 0 => cache[q][secret.token] >= now + ttl
          PROVE  Goal(r)
      <4>1. /\ secret.token \in Keys /\ secret.token # secret.old
            /\ Rotating(q) => secret.token # rec[q].new
        BY Zenon, <2>1, TokenNumbers DEF TimeInv, NewInv
      <4>2. now + ttl \in Int /\ now + ttl <= now + ttl
        BY <1>n
      <4>3. deployment.restarts = 0 => cache'[q][secret.token] >= now + ttl
        BY Zenon, <2>0, <2>1, <3>2, <4>1, <4>2, JustCachedStays
      <4> QED BY Zenon, <1>1, <2>1, <3>0, <3>2, <4>3
    <3> QED BY Zenon, <2>0, <3>1, <3>2 DEF RotationInv
  <2>3. ASSUME NEW q \in Replicas \ {r}, PatchRotation(q) PROVE Goal(r)
    <3>0. /\ Rotating(q) /\ secret'.token = rec[q].new /\ secret'.old = rec[q].view.token
          /\ secret'.gen = now /\ cache' = cache
      BY Zenon, <2>3, RotationPatched, RotationEnds
    <3>1. deployment.restarts = 0 => cache'[q][secret'.token] >= now + ttl
      BY Zenon, <3>0 DEF TimeInv, Lasts
    <3>2. CASE rec[r].view.token = secret.token /\ secret.gen + Half <= now
      <4>1. secret.gen # now
        BY <1>n, <3>2
      <4>2. rec[q].view.token = secret.token
        BY Zenon, <2>0, <3>0, <4>1 DEF RotationInv
      <4> QED BY Zenon, <1>1, <2>1, <3>0, <3>1, <3>2, <4>2
    <3>3. CASE rec[r].view.token = secret.old /\ secret.gen = now
      <4>1. ~ (secret.gen + Half <= now)
        BY <1>n, <3>3
      <4>2. rec[q].view.token = secret.old
        BY Zenon, <2>0, <3>0, <4>1 DEF RotationInv
      <4> QED BY Zenon, <1>1, <2>1, <3>0, <3>1, <3>3, <4>2
    <3> QED BY Zenon, <2>0, <3>2, <3>3 DEF RotationInv
  <2> QED BY Zenon, <1>1, <2>0, <2>2, <2>3, UnderRotation
<1>2. CASE StartRotation(r)
  <2>1. rec'[r].view.token = secret.token /\ secret' = secret /\ now' = now /\ tokenNeedRotation(secret)
    BY Zenon, <1>2, RotationBegins
  <2>2. secret.gen + Half <= now
    BY <1>n, <2>1 DEF tokenNeedRotation
  <2> QED BY Zenon, <2>1, <2>2
<1> HIDE DEF Goal
<1> QED BY <1>1, <1>2, RecStep, NoTokens DEF RecMoves

----------------------------------------------------------------------------
(* Who serves a token that was handed out *)

Lone == \E r \in Replicas : Replicas = {r}

\* The token k, handed out at time at, is the token of the Secret; or it was
\* rotated out since, and some replica keeps it until till.  A lone replica may
\* restart: it generates the payload again for the old token of the Secret.
Handed(k, at, till) ==
    \/ k = secret.token
    \/ /\ k = secret.old => at <= secret.gen
       /\ Lone => k = secret.old
       /\ deployment.restarts = 0 => \E q \in Replicas : cache[q][k] >= till

\* The same of the next state, for a token and times of this one.
StillHanded(k, at, till) ==
    \/ k = secret'.token
    \/ /\ k = secret'.old => at <= secret'.gen
       /\ Lone => k = secret'.old
       /\ deployment.restarts = 0 => \E q \in Replicas : cache'[q][k] >= till

HandedInv ==
    Handing =>
       /\ userData # NoSecret => Handed(userData, now, now + Half)
       /\ np # NoSecret => Handed(np, now, now + Half)
       /\ machine.token # 0 /\ now - machine.at < Grace =>
             /\ secret.exists /\ Unexpired(machine.at + Grace)
             /\ Handed(machine.token, machine.at, machine.at + Grace)

\* Initially no token was handed out.
LEMMA HandedInit == Init => HandedInv
<1> SUFFICES ASSUME Init PROVE HandedInv
  BY Zenon
<1>1. userData = NoSecret /\ np = NoSecret /\ machine.token = 0
  BY Zenon DEF Init
<1> QED BY Zenon, <1>1 DEF HandedInv

\* At the same time, a token handed out is still served after a step: the old
\* token is dropped only Half after it was rotated out.
LEMMA HandedStep ==
  ASSUME TypeInv, NewInv, TimeInv, PendingInv, RotationInv, [Next]_vars,
         role # "gone", secret.exists, Unexpired(now), now' = now,
         NEW k \in Keys, NEW at \in Nat, NEW till \in Int, at <= now, at + Half > now, till <= now + Half,
         \A q \in Replicas : Rotating(q) => k # rec[q].new,
         Handed(k, at, till)
  PROVE  StillHanded(k, at, till)
<1>n. /\ now \in Nat /\ Half \in Nat /\ Half > 0 /\ ttl \in Nat /\ ttl = 2 * Half /\ secret.gen \in Nat
  BY Zenon, Times, TokenNumbers
<1>1. CASE SameToken
  <2>1. secret'.token = secret.token /\ secret'.old = secret.old /\ secret'.gen = secret.gen
    BY Zenon, <1>1 DEF SameToken
  <2>2. CASE k = secret.token
    BY Zenon, <2>1, <2>2 DEF StillHanded
  <2>3. CASE /\ k = secret.old => at <= secret.gen
             /\ Lone => k = secret.old
             /\ deployment.restarts = 0 => \E q \in Replicas : cache[q][k] >= till
    <3>1. till <= now + ttl /\ (k = secret.old => secret.gen + Half > now)
      BY <1>n, <2>3
    <3>2. ASSUME deployment.restarts = 0, NEW q \in Replicas, cache[q][k] >= till
          PROVE  cache'[q][k] >= till
      BY Zenon, <3>1, <3>2, JustCachedStays
    <3> QED BY Zenon, <2>1, <2>3, <3>2 DEF StillHanded
  <2> QED BY Zenon, <2>2, <2>3 DEF Handed
<1>2. ~ Created /\ ~ Removed
  BY <1>n, RemovedExpired DEF Created
<1>3. ASSUME NEW r \in Replicas, PatchRotation(r) PROVE StillHanded(k, at, till)
  <2>0. /\ Rotating(r) /\ secret'.token = rec[r].new /\ secret'.old = rec[r].view.token
        /\ secret'.gen = now /\ cache' = cache
    BY Zenon, <1>3, RotationPatched, RotationEnds
  <2>1. CASE rec[r].view.token = secret.token /\ secret.gen + Half <= now
    <3>1. CASE k = secret.token
      <4>1. cache[r][k] # Absent /\ (cache[r][k] = Absent \/ cache[r][k] >= now + Half) /\ cache[r][k] \in Int
        BY Zenon, <2>0, <2>1, <3>1, EntryNumbers DEF TimeInv, Lasts
      <4>2. cache'[r][k] >= till
        BY <1>n, <2>0, <4>1
      <4> QED BY Zenon, <2>0, <2>1, <3>1, <4>2 DEF StillHanded
    <3>2. CASE /\ k = secret.old => at <= secret.gen
               /\ Lone => k = secret.old
               /\ deployment.restarts = 0 => \E q \in Replicas : cache[q][k] >= till
      <4>1. ~ Lone
        BY <1>n, <2>1, <3>2
      <4> QED BY Zenon, <2>0, <3>2, <4>1 DEF StillHanded
    <3> QED BY Zenon, <3>1, <3>2 DEF Handed
  <2>2. ASSUME rec[r].view.token = secret.old, secret.gen = now, NEW q \in Replicas \ {r},
               deployment.restarts = 0 => cache[q][secret.token] >= now + ttl
        PROVE  StillHanded(k, at, till)
    <3>1. ~ Lone
      BY Zenon, <2>2 DEF Lone
    <3>2. CASE k = secret.token
      <4>1. secret.token # secret.old
        BY Zenon DEF TimeInv
      <4>2. deployment.restarts = 0 => cache'[q][k] >= till
        <5>1. cache[q][k] \in Int
          BY Zenon, EntryNumbers
        <5> QED BY <1>n, <2>0, <2>2, <3>2, <5>1
      <4> QED BY Zenon, <2>0, <2>2, <3>1, <3>2, <4>1, <4>2 DEF StillHanded
    <3>3. CASE deployment.restarts = 0 => \E p \in Replicas : cache[p][k] >= till
      BY Zenon, <2>0, <3>1, <3>3 DEF StillHanded
    <3> QED BY Zenon, <3>2, <3>3 DEF Handed
  <2> QED BY Zenon, <2>0, <2>1, <2>2 DEF RotationInv
<1> QED BY Zenon, <1>1, <1>2, <1>3, SecretStep DEF SecretMoves


\* A token about to be handed out is still served after a step at the same time.
LEMMA AboutToBeHanded ==
  ASSUME TypeInv, NewInv, TimeInv, PendingInv, RotationInv, HandedInv, [Next]_vars, Handing, now' = now,
         NEW k, k = userData \/ k = np, k # NoSecret
  PROVE  StillHanded(k, now, now + Half)
<1>n. now \in Nat /\ Half \in Nat /\ Half > 0 /\ Grace \in Nat /\ now + Half \in Int
  BY Times
<1>1. role # "gone" /\ secret.exists /\ Unexpired(now)
  BY <1>n, TokenNumbers DEF PendingInv, Unexpired, Handing
<1>2. k \in Keys
  <2>1. userData \in {NoSecret} \cup Tokens /\ np \in {NoSecret} \cup Tokens
    BY Zenon DEF TypeInv, TypeOK
  <2>2. userData # NoSecret => userData \in Tokens
    BY Zenon, <2>1
  <2>3. np # NoSecret => np \in Tokens
    BY Zenon, <2>1
  <2>4. k \in Tokens
    BY <2>2, <2>3
  <2> QED BY <2>4, BoundsAssumption DEF Keys, Tokens
<1>3. Handed(k, now, now + Half)
  <2>1. CASE k = userData
    BY Zenon, <2>1 DEF HandedInv
  <2>2. CASE k = np
    BY Zenon, <2>2 DEF HandedInv
  <2> QED BY Zenon, <2>1, <2>2
<1>4. \A q \in Replicas : Rotating(q) => k # rec[q].new
  BY Zenon DEF NewInv
<1> QED BY <1>n, <1>1, <1>2, <1>3, <1>4, HandedStep

\* The Secret whose token a booting Machine has does not expire within Grace, and
\* its token is still served after a step.
LEMMA MachineHanded ==
  ASSUME TypeInv, NewInv, TimeInv, PendingInv, RotationInv, HandedInv, [Next]_vars, Handing, now' = now,
         machine.token # 0, now - machine.at < Grace
  PROVE  /\ secret'.exists
         /\ secret'.expires = Never \/ secret'.expires >= machine.at + Grace
         /\ StillHanded(machine.token, machine.at, machine.at + Grace)
<1>n. now \in Nat /\ Half \in Nat /\ Half > 0 /\ Grace \in Nat /\ Grace <= Half
  BY Zenon, Times
<1>m. machine.at \in Nat /\ machine.at + Grace \in Int /\ machine.at <= now /\ machine.token \in Keys
  BY Times DEF TimeInv
<1>1. secret.exists /\ Unexpired(machine.at + Grace) /\ Handed(machine.token, machine.at, machine.at + Grace)
  BY Zenon DEF HandedInv
<1>2. Unexpired(now)
  BY <1>n, <1>m, <1>1, TokenNumbers DEF Unexpired
<1>3. \A q \in Replicas : Rotating(q) => machine.token # rec[q].new
  BY Zenon DEF NewInv
<1>4. StillHanded(machine.token, machine.at, machine.at + Grace)
  BY <1>n, <1>m, <1>1, <1>2, <1>3, HandedStep DEF Handing
<1>5. ~ Removed
  BY <1>n, <1>2, RemovedExpired DEF Handing
<1>6. machine.at + Grace <= now + Grace
  BY <1>n, <1>m
<1> QED BY Zenon, <1>m, <1>1, <1>4, <1>5, <1>6, UnexpiredStep

\* Each step keeps the tokens that were handed out.
LEMMA HandedNext ==
  ASSUME TypeInv, NewInv, TimeInv, PendingInv, RotationInv, HandedInv, [Next]_vars
  PROVE  HandedInv'
<1>0. /\ Replicas' = Replicas /\ deployment' = deployment /\ PoolMoves
      /\ shouldKeepOldUserData' = shouldKeepOldUserData
      /\ role' # "gone" => role # "gone"
  BY Zenon, SameDeployment, PoolStepMoves DEF Replicas, PoolMoves, shouldKeepOldUserData, Platform
<1>n. now \in Nat /\ Half \in Nat /\ Half > 0 /\ Grace \in Nat /\ Grace <= Half /\ machine.at \in Nat
  BY Zenon, Times
<1>l. Lone' <=> Lone
  BY Zenon, <1>0 DEF Lone
<1> SUFFICES ASSUME role' # "gone", ~ shouldKeepOldUserData
             PROVE  /\ userData' # NoSecret => Handed(userData, now, now + Half)'
                    /\ np' # NoSecret => Handed(np, now, now + Half)'
                    /\ machine'.token # 0 /\ now' - machine'.at < Grace =>
                          /\ secret'.exists /\ Unexpired(machine.at + Grace)'
                          /\ Handed(machine.token, machine.at, machine.at + Grace)'
  BY Zenon, <1>0 DEF HandedInv, Handing
<1>h. Handing
  BY Zenon, <1>0 DEF Handing
<1>1. CASE now' = now
  <2>1. ASSUME userData' # NoSecret PROVE Handed(userData, now, now + Half)'
    <3>1. userData' = userData \/ userData' = np
      BY Zenon, <1>0, <2>1 DEF PoolMoves
    <3>2. StillHanded(userData', now, now + Half)
      BY Zenon, <1>1, <1>h, <2>1, <3>1, AboutToBeHanded
    <3> QED BY Zenon, <1>0, <1>1, <1>l, <3>2 DEF StillHanded, Handed
  <2>2. ASSUME np' # NoSecret PROVE Handed(np, now, now + Half)'
    <3>1. CASE np' = np
      <4>1. StillHanded(np', now, now + Half)
        BY Zenon, <1>1, <1>h, <2>2, <3>1, AboutToBeHanded
      <4> QED BY Zenon, <1>0, <1>1, <1>l, <4>1 DEF StillHanded, Handed
    <3>2. CASE np' = secret'.token
      BY Zenon, <3>2 DEF Handed
    <3> QED BY Zenon, <1>0, <2>2, <3>1, <3>2 DEF PoolMoves
  <2>3. ASSUME machine'.token # 0, now' - machine'.at < Grace
        PROVE  /\ secret'.exists /\ Unexpired(machine.at + Grace)'
               /\ Handed(machine.token, machine.at, machine.at + Grace)'
    <3>1. CASE machine' = machine
      <4>1. /\ secret'.exists
            /\ secret'.expires = Never \/ secret'.expires >= machine.at + Grace
            /\ StillHanded(machine.token, machine.at, machine.at + Grace)
        BY Zenon, <1>1, <1>h, <2>3, <3>1, MachineHanded
      <4> QED BY Zenon, <1>0, <1>l, <3>1, <4>1 DEF StillHanded, Handed, Unexpired
    <3>2. CASE MachineCreated
      <4>1. /\ machine'.token = userData /\ machine'.at = now /\ userData # NoSecret
            /\ secret' = secret /\ cache' = cache
        BY Zenon, <3>2 DEF MachineCreated, serverVars
      <4>2. secret.exists /\ Unexpired(now + Grace) /\ Handed(userData, now, now + Half)
        BY Zenon, <1>h, <4>1 DEF PendingInv, HandedInv
      <4>3. userData \in Keys
        BY <4>1, BoundsAssumption DEF TypeInv, TypeOK, Keys, Tokens
      <4>4. ASSUME NEW q \in Replicas, cache[q][userData] >= now + Half
            PROVE  cache[q][userData] >= now + Grace
        BY <1>n, <4>3, <4>4, EntryNumbers
      <4>5. Handed(userData, now, now + Grace)
        BY Zenon, <4>2, <4>4 DEF Handed
      <4> QED BY Zenon, <1>0, <1>l, <4>1, <4>2, <4>5 DEF Handed, Unexpired
    <3> QED BY Zenon, <1>0, <3>1, <3>2 DEF PoolMoves
  <2> QED BY Zenon, <2>1, <2>2, <2>3
<1>2. CASE Tick
  <2>0. /\ now' = now + 1 /\ np = NoSecret
        /\ userData # NoSecret => userData = secret.token
        /\ UNCHANGED <<deployment, role, secret, userData, np, janitor, machine, cache, rec, next>>
    BY Zenon, <1>2, TickQuiet
  <2>1. ASSUME userData' # NoSecret PROVE Handed(userData, now, now + Half)'
    BY Zenon, <2>0, <2>1 DEF Handed
  <2>2. ASSUME machine'.token # 0, now' - machine'.at < Grace
        PROVE  /\ secret'.exists /\ Unexpired(machine.at + Grace)'
               /\ Handed(machine.token, machine.at, machine.at + Grace)'
    <3>1. now - machine.at < Grace /\ machine.token # 0
      BY <1>n, <2>0, <2>2
    <3>2. /\ secret.exists /\ Unexpired(machine.at + Grace)
          /\ Handed(machine.token, machine.at, machine.at + Grace)
      BY Zenon, <1>h, <3>1 DEF HandedInv
    <3> QED BY Zenon, <1>0, <1>l, <2>0, <3>2 DEF Handed, Unexpired
  <2> QED BY Zenon, <2>0, <2>1, <2>2
<1> QED BY Zenon, <1>0, <1>1, <1>2 DEF PoolMoves


----------------------------------------------------------------------------
(* A replica that works alone *)

\* Nobody changes the tokens under its reconcile; its cache holds the tokens of
\* the Secret, during a rotation the new one in place of the old one, and the old
\* one whenever it holds the token.
Alone(r) ==
    /\ secret.exists /\ rec[r].pc # "idle" =>
          rec[r].view.token = secret.token /\ rec[r].view.old = secret.old
    /\ secret.exists => \A k \in Tokens : cache[r][k] # Absent =>
          k = secret.token \/ k = IF Rotating(r) THEN rec[r].new ELSE secret.old
    /\ ~ secret.exists /\ role # "gone" => \A k \in Tokens : cache[r][k] = Absent
    /\ secret.exists /\ secret.old # 0 /\ ~ Rotating(r) /\ cache[r][secret.token] # Absent =>
          cache[r][secret.old] # Absent

LoneInv == \A r \in Replicas : Replicas = {r} => Alone(r)

\* Initially the caches are empty.
LEMMA LoneInit == Init => LoneInv
<1> SUFFICES ASSUME Init, NEW r \in Replicas PROVE Alone(r)
  BY Zenon DEF LoneInv
<1>1. secret = Deleted /\ rec[r] = IdleRec /\ \A k \in Keys : cache[r][k] = Absent
  BY Zenon DEF Init
<1>2. Tokens \subseteq Keys
  BY BoundsAssumption DEF Tokens, Keys
<1> QED BY Zenon, <1>1, <1>2, NoTokens DEF Alone

\* The steps of the others: the Secret is created while no replica works, or
\* deleted with the NodePool.
LEMMA OthersStep ==
  ASSUME TypeInv, PendingInv, NEW r \in Replicas, Alone(r), UNCHANGED <<cache, rec>>,
         role' = role \/ role # "gone",
         SameToken \/ Created \/ (secret' = Deleted /\ role' = "gone")
  PROVE  Alone(r)'
<1>0. rec'[r] = rec[r] /\ cache'[r] = cache[r] /\ (Rotating(r)' <=> Rotating(r))
  BY Zenon DEF Rotating
<1>1. CASE SameToken
  <2>1. /\ secret'.exists = secret.exists /\ secret'.token = secret.token /\ secret'.old = secret.old
    BY Zenon, <1>1 DEF SameToken
  <2>2. role' # "gone" => role # "gone"
    BY Zenon
  <2> QED BY Zenon, <1>0, <2>1, <2>2 DEF Alone
<1>2. CASE Created
  <2>1. /\ ~ secret.exists /\ role # "gone" /\ secret'.exists /\ secret'.token = next /\ secret'.old = 0
    BY Zenon, <1>2, SecretCreated
  <2>2. rec[r].pc = "idle" /\ \A k \in Tokens : cache[r][k] = Absent
    BY Zenon, <2>1 DEF PendingInv, Alone
  <2> QED BY Zenon, <1>0, <2>1, <2>2 DEF Alone
<1>3. CASE secret' = Deleted /\ role' = "gone"
  BY Zenon, <1>3, NoTokens DEF Alone
<1> QED BY Zenon, <1>1, <1>2, <1>3

\* Which steps are those of the others.
LEMMA NotServerStep ==
  ASSUME TypeInv, PendingInv,
         \/ ChangeRole \/ PoolStep \/ JanitorStep \/ MachineCreated \/ Tick \/ UNCHANGED vars
  PROVE  /\ UNCHANGED <<cache, rec>>
         /\ role' = role \/ role # "gone"
         /\ SameToken \/ Created \/ (secret' = Deleted /\ role' = "gone")
<1>n. [Next]_vars
  BY Zenon DEF Next
<1>1. UNCHANGED <<cache, rec>>
  BY Zenon DEF ChangeRole, PoolStep, ReconcileToken, ReconcileUserData, CleanupOutdated,
     DeleteNodePoolSecrets, JanitorStep, JanitorReads, JanitorCleans, MachineCreated, Tick, vars, serverVars
<1>2. role' = role \/ role # "gone"
  BY Zenon, <1>n, PoolStepMoves DEF PoolMoves
<1>3. SameToken \/ Created \/ (secret' = Deleted /\ role' = "gone")
  <2>1. CASE ReconcileToken
    BY Zenon, <2>1, TokenReconciled
  <2>2. CASE DeleteNodePoolSecrets
    BY Zenon, <2>2 DEF DeleteNodePoolSecrets
  <2>3. CASE JanitorCleans /\ janitor.kind = "missing"
    BY Zenon, <2>3 DEF JanitorCleans, PendingInv
  <2>4. CASE \/ secret' = secret
             \/ secret.exists /\ secret' = WithExpiration(secret)
    BY Zenon, <2>4, ExpirationSet DEF SameToken
  <2>5. CASE CleanupOutdated
    BY Zenon, <2>4, <2>5 DEF CleanupOutdated
  <2>6. CASE JanitorCleans /\ janitor.kind # "missing"
    <3>1. secret' = secret \/ secret' = WithExpiration(secret)
      BY Zenon, <2>6 DEF JanitorCleans
    <3> QED BY Zenon, <3>1, ExpirationSet DEF SameToken
  <2>7. CASE ChangeRole \/ ReconcileUserData \/ JanitorReads \/ MachineCreated \/ Tick \/ UNCHANGED vars
    BY Zenon, <2>4, <2>7 DEF ChangeRole, ReconcileUserData, JanitorReads, MachineCreated, Tick, vars
  <2> QED BY Zenon, <2>1, <2>2, <2>3, <2>5, <2>6, <2>7 DEF PoolStep, JanitorStep
<1> QED BY Zenon, <1>1, <1>2, <1>3


\* The steps of the replica that do not concern a rotation.
LEMMA ReplicaStep ==
  ASSUME TypeInv, PendingInv, NEW r \in Replicas, Alone(r), UNCHANGED role,
         \/ PurgeCache(r) \/ ProcessExpiredToken(r) \/ CopyFromOldToken(r) \/ StartGeneration(r)
         \/ Generated(r) \/ GenerationUnpublished(r) \/ GenerationFails(r) \/ Restart(r)
  PROVE  Alone(r)'
<1>r. rec \in [Replicas -> Recs]
  BY Zenon DEF TypeInv, TypeOK, Recs
<1>n. now \in Nat /\ ttl \in Nat /\ now + ttl # Absent /\ Tokens \subseteq Keys
  BY Times, BoundsAssumption DEF Absent, Tokens, Keys
<1>s. secret.token \in Keys /\ secret.old \in Keys /\ (secret.exists => secret.token \in Tokens)
  BY Zenon, TokenNumbers DEF TypeInv
<1>1. CASE PurgeCache(r) \/ Restart(r)
  <2>1. /\ secret' = secret /\ (rec'[r] = rec[r] \/ rec'[r] = IdleRec)
        /\ rec'[r] = rec[r] => rec[r].pc = "idle" \/ rec[r] = IdleRec
    BY Zenon, <1>1, <1>r DEF PurgeCache, Restart
  <2>2. rec'[r].pc = "idle"
    BY Zenon, <2>1, NoTokens
  <2>3. \A k \in Keys : cache'[r][k] = Absent
    BY Zenon, <1>1, CacheEmptied
  <2> QED BY Zenon, <1>n, <1>s, <2>1, <2>2, <2>3 DEF Alone
<1>2. CASE ProcessExpiredToken(r)
  <2>1. /\ secret' = Deleted /\ secret.exists /\ rec[r].pc = "idle" /\ rec' = rec
    BY Zenon, <1>2 DEF ProcessExpiredToken
  <2>2. \A k \in Keys : cache'[r][k] = IF k = secret.token \/ (k = secret.old /\ k # 0)
               THEN Absent ELSE cache[r][k]
    BY Zenon, <1>2, ExpiredDropped
  <2>3. \A k \in Tokens : cache[r][k] # Absent => k = secret.token \/ k = secret.old
    BY Zenon, <2>1 DEF Alone, Rotating
  <2>4. \A k \in Tokens : cache'[r][k] = Absent
    BY <1>n, <2>2, <2>3 DEF Tokens
  <2> QED BY Zenon, <2>1, <2>4, NoTokens DEF Alone
<1>3. CASE CopyFromOldToken(r)
  <2>1. /\ secret' = secret /\ secret.exists /\ rec[r].pc = "idle" /\ rec' = rec /\ secret.old # 0
        /\ Live(r, secret.old)
    BY Zenon, <1>3 DEF CopyFromOldToken, Active
  <2>2. \A k \in Keys : cache'[r][k] = IF k = secret.token THEN now + ttl ELSE cache[r][k]
    BY Zenon, <1>3, PayloadCopied
  <2>3. cache[r][secret.old] # Absent
    BY <1>n, <1>s, <2>1 DEF Live, Absent
  <2>4. /\ \A k \in Tokens : cache'[r][k] # Absent => k = secret.token \/ k = secret.old
        /\ cache'[r][secret.old] # Absent
    BY Zenon, <1>n, <1>s, <2>1, <2>2, <2>3 DEF Alone, Rotating
  <2> QED BY Zenon, <2>1, <2>4 DEF Alone, Rotating
<1>4. CASE StartGeneration(r)
  <2>1. /\ secret' = secret /\ secret.exists /\ rec[r].pc = "idle" /\ cache' = cache
        /\ rec'[r] = [pc |-> "generating", view |-> secret, new |-> 0]
    BY Zenon, <1>4, <1>r DEF StartGeneration, Active
  <2>2. rec'[r].pc = "generating" /\ rec'[r].view = secret
    BY <2>1
  <2> QED BY Zenon, <2>1, <2>2 DEF Alone, Rotating
<1>5. CASE Generated(r) \/ GenerationUnpublished(r)
  <2>1. rec[r].pc = "generating" /\ rec'[r] = IdleRec
    BY Zenon, <1>5, <1>r DEF Generated, GenerationUnpublished
  <2>2. \A k \in Keys : cache'[r][k] = IF k = rec[r].view.token \/ (k = rec[r].view.old /\ k # 0)
               THEN now + ttl ELSE cache[r][k]
    BY Zenon, <1>5, PayloadCached
  <2>3. secret'.exists = secret.exists /\ secret'.token = secret.token /\ secret'.old = secret.old
    BY Zenon, <1>5, TokenNumbers DEF Generated, GenerationUnpublished, TypeInv, TypeOK, Secrets
  <2>4. rec'[r].pc = "idle" /\ ~ Rotating(r)
    BY Zenon, <2>1, NoTokens DEF Rotating
  <2>5. CASE secret.exists
    <3>1. rec[r].view.token = secret.token /\ rec[r].view.old = secret.old
      BY Zenon, <2>1, <2>5 DEF Alone
    <3>2. \A k \in Tokens : cache'[r][k] # Absent => k = secret.token \/ k = secret.old
      BY Zenon, <1>n, <2>2, <2>4, <2>5, <3>1 DEF Alone
    <3>3. secret.old # 0 => cache'[r][secret.old] # Absent
      BY Zenon, <1>n, <1>s, <2>2, <3>1
    <3> QED BY Zenon, <2>3, <2>4, <2>5, <3>2, <3>3 DEF Alone, Rotating
  <2>6. CASE ~ secret.exists
    <3>1. role = "gone"
      BY Zenon, <2>1, <2>6 DEF PendingInv
    <3> QED BY Zenon, <2>3, <2>6, <3>1 DEF Alone
  <2> QED BY Zenon, <2>5, <2>6
<1>6. CASE GenerationFails(r)
  <2>1. rec[r].pc = "generating" /\ rec'[r] = IdleRec /\ cache' = cache
    BY Zenon, <1>6, <1>r DEF GenerationFails
  <2>2. secret'.exists = secret.exists /\ secret'.token = secret.token /\ secret'.old = secret.old
    BY Zenon, <1>6 DEF GenerationFails, TypeInv, TypeOK, Secrets
  <2>3. rec'[r].pc = "idle"
    BY Zenon, <2>1, NoTokens
  <2> QED BY Zenon, <2>1, <2>2, <2>3 DEF Alone, Rotating
<1> QED BY Zenon, <1>1, <1>2, <1>3, <1>4, <1>5, <1>6

\* The steps of a rotation.
LEMMA ReplicaRotates ==
  ASSUME TypeInv, TimeInv, PendingInv, NEW r \in Replicas, Alone(r), UNCHANGED role,
         \/ StartRotation(r) \/ PatchRotation(r) \/ PatchRotationNotFound(r) \/ PatchRotationFails(r)
  PROVE  Alone(r)'
<1>r. rec \in [Replicas -> Recs]
  BY Zenon DEF TypeInv, TypeOK, Recs
<1>n. now \in Nat /\ ttl \in Nat /\ now + ttl # Absent /\ Tokens \subseteq Keys
  BY Times, BoundsAssumption DEF Absent, Tokens, Keys
<1>s. secret.token \in Keys /\ secret.old \in Keys /\ (secret.exists => secret.token \in Tokens)
  BY Zenon, TokenNumbers DEF TypeInv
<1>1. CASE StartRotation(r)
  <2>1. /\ secret' = secret /\ secret.exists /\ rec[r].pc = "idle"
        /\ rec'[r].pc = "rotating" /\ rec'[r].new = next
        /\ rec'[r].view.token = secret.token /\ rec'[r].view.old = secret.old
    BY Zenon, <1>1, RotationBegins
  <2>2. \A k \in Keys : cache'[r][k] = IF k = next THEN now + ttl
               ELSE IF k = secret.old /\ k # 0 THEN Absent ELSE cache[r][k]
    BY Zenon, <1>1, RotationStarted
  <2>3. \A k \in Tokens : cache'[r][k] # Absent => k = secret.token \/ k = next
    BY <1>n, <2>1, <2>2 DEF Alone, Rotating, Tokens
  <2> QED BY Zenon, <2>1, <2>3 DEF Alone, Rotating
<1>2. CASE PatchRotation(r)
  <2>1. /\ rec'[r].pc = "idle" /\ Rotating(r) /\ secret.exists /\ cache' = cache
        /\ secret'.exists /\ secret'.token = rec[r].new /\ secret'.old = rec[r].view.token
    BY Zenon, <1>2, RotationEnds, RotationPatched
  <2>2. rec[r].view.token = secret.token /\ cache[r][rec[r].view.token] # Absent
    BY Zenon, <2>1 DEF Alone, Rotating, TimeInv
  <2>3. \A k \in Tokens : cache[r][k] # Absent => k = secret.token \/ k = rec[r].new
    BY Zenon, <2>1 DEF Alone
  <2> QED BY Zenon, <2>1, <2>2, <2>3 DEF Alone, Rotating
<1>3. CASE PatchRotationNotFound(r) \/ PatchRotationFails(r)
  <2>0. AbandonRotation(r)
    BY Zenon, <1>3 DEF PatchRotationNotFound, PatchRotationFails
  <2>1. Rotating(r) /\ secret' = secret /\ rec'[r] = IdleRec /\ rec'[r].pc = "idle"
    BY Zenon, <2>0, <1>r, NoTokens DEF AbandonRotation, Rotating
  <2>2. \A k \in Keys : cache'[r][k] = IF k = rec[r].view.old THEN now + ttl
               ELSE IF k = rec[r].new THEN Absent ELSE cache[r][k]
    BY Zenon, <2>0, RotationAbandoned
  <2>3. CASE secret.exists
    <3>1. rec[r].view.token = secret.token /\ rec[r].view.old = secret.old
      BY Zenon, <2>1, <2>3 DEF Alone, Rotating
    <3>2. \A k \in Tokens : cache[r][k] # Absent => k = secret.token \/ k = rec[r].new
      BY Zenon, <2>1, <2>3 DEF Alone
    <3>3. \A k \in Tokens : cache'[r][k] # Absent => k = secret.token \/ k = secret.old
      BY Zenon, <1>n, <2>2, <3>1, <3>2
    <3>4. cache'[r][secret.old] # Absent
      BY Zenon, <1>n, <1>s, <2>2, <3>1
    <3> QED BY Zenon, <2>1, <2>3, <3>3, <3>4 DEF Alone, Rotating
  <2>4. CASE ~ secret.exists
    <3>1. role = "gone"
      BY Zenon, <2>1, <2>4 DEF PendingInv, Rotating
    <3> QED BY Zenon, <2>1, <2>4, <3>1 DEF Alone
  <2> QED BY Zenon, <2>3, <2>4
<1> QED BY Zenon, <1>1, <1>2, <1>3

\* Each step keeps what a lone replica relies on.
LEMMA LoneNext ==
  ASSUME TypeInv, TimeInv, PendingInv, LoneInv, [Next]_vars
  PROVE  LoneInv'
<1>0. Replicas' = Replicas
  BY Zenon, SameDeployment DEF Replicas
<1> SUFFICES ASSUME NEW r \in Replicas, Replicas = {r} PROVE Alone(r)'
  BY Zenon, <1>0 DEF LoneInv
<1>1. Alone(r)
  BY Zenon DEF LoneInv
<1>2. CASE ChangeRole \/ PoolStep \/ JanitorStep \/ MachineCreated \/ Tick \/ UNCHANGED vars
  BY Zenon, <1>1, <1>2, NotServerStep, OthersStep
<1>3. ASSUME NEW q \in Replicas,
             \/ ServerStep(q) \/ PatchRotationFails(q) \/ GenerationFails(q)
             \/ GenerationUnpublished(q) \/ Restart(q)
      PROVE  Alone(r)'
  <2>1. q = r
    BY Zenon
  <2>2. UNCHANGED role
    BY Zenon, <1>3 DEF ServerStep, PurgeCache, ProcessExpiredToken, StartRotation, PatchRotation,
       PatchRotationNotFound, PatchRotationFails, AbandonRotation, CopyFromOldToken, StartGeneration,
       Generated, GenerationUnpublished, GenerationFails, Restart, poolVars
  <2> QED BY Zenon, <1>1, <1>3, <2>1, <2>2, ReplicaStep, ReplicaRotates DEF ServerStep
<1> QED BY Zenon, <1>2, <1>3 DEF Next


----------------------------------------------------------------------------
(* The theorems about the tokens *)

ServerInv ==
    /\ TypeInv /\ BelowInv /\ NewInv /\ TimeInv /\ PendingInv /\ RotationInv
    /\ HandedInv /\ LoneInv

\* The invariant holds in the initial states.
LEMMA ServerInit == Init => ServerInv
  BY Zenon, TypesInit, FreshInit, TimeInit, PendingInit, RotationInit, HandedInit, LoneInit DEF ServerInv

\* Each step preserves it.
LEMMA ServerNext == ServerInv /\ [Next]_vars => ServerInv'
  BY Zenon, TypesNext, BelowNext, NewNext, TimeNext, PendingNext, RotationNext, HandedNext, LoneNext
  DEF ServerInv

\* When nothing is due every replica serves the token of the Secret, which is
\* younger than Half.
LEMMA QuietServes ==
  ASSUME TypeInv, Quiet, NEW r \in Replicas
  PROVE  /\ ~ Rotating(r)
         /\ secret.exists => Live(r, secret.token) /\ now - secret.gen < Half
         /\ ~ secret.exists => \A k \in Keys : cache[r][k] = Absent
<1>1. ~ ServerDue(r)
  BY Zenon DEF Quiet
<1>2. /\ rec[r].pc = "idle"
      /\ secret.exists => Live(r, secret.token) /\ ~ tokenNeedRotation(secret)
      /\ ~ secret.exists => \A k \in Keys : cache[r][k] = Absent
  BY Zenon, <1>1 DEF ServerDue
<1>3. ~ tokenNeedRotation(secret) => now - secret.gen < Half
  BY Times, TokenNumbers DEF tokenNeedRotation
<1> QED BY Zenon, <1>2, <1>3 DEF Rotating

\* A lone replica that holds the token of the Secret serves the old one for Half
\* after the rotation.
LEMMA OldTokenServed ==
  ASSUME TypeInv, TimeInv, LoneInv, Quiet, secret.exists, NEW r \in Replicas, Replicas = {r},
         secret.old # 0
  PROVE  Live(r, secret.old)
<1>n. now \in Nat /\ secret.gen \in Nat /\ Half \in Nat
  BY Zenon, Times, TokenNumbers
<1>1. ~ Rotating(r) /\ Live(r, secret.token) /\ now - secret.gen < Half
  BY Zenon, QuietServes
<1>2. cache[r][secret.token] # Absent
  BY <1>n, <1>1 DEF Live, Absent
<1>3. cache[r][secret.old] # Absent
  BY Zenon, <1>1, <1>2 DEF LoneInv, Alone
<1>4. cache[r][secret.old] >= secret.gen + Half /\ cache[r][secret.old] \in Int
  BY Zenon, <1>3, TokenNumbers, EntryNumbers DEF TimeInv, Lasts
<1> QED BY <1>n, <1>1, <1>4 DEF Live

\* What the theorem on Machines asks of a deployment: a platform whose user data
\* goes with the version, some replica, and no restarts unless it works alone.
Steady(d) ==
    /\ d.platform # "AWS<4.16" /\ d.replicas # {}
    /\ Cardinality(d.replicas) = 1 \/ d.restarts = 0

\* The invariant says that a booting Machine is served.
LEMMA ServedEnough ==
  ASSUME ServerInv, Steady(deployment)
  PROVE  MachineServed
<1> USE DEF ServerInv
<1> SUFFICES ASSUME Quiet, machine.token # 0, now - machine.at < Grace, role # "gone"
             PROVE  \E r \in Replicas : Live(r, machine.token)
  BY Zenon DEF MachineServed
<1>n. now \in Nat /\ Grace \in Nat /\ machine.at \in Nat /\ machine.token \in Keys
  BY Zenon, Times
<1>1. Replicas # {} /\ ~ shouldKeepOldUserData /\ (Cardinality(Replicas) = 1 \/ deployment.restarts = 0)
  BY Zenon DEF Steady, Replicas, Platform, shouldKeepOldUserData
<1>2. secret.exists /\ Handed(machine.token, machine.at, machine.at + Grace)
  BY Zenon, <1>1 DEF HandedInv, Handing
<1>3. CASE machine.token = secret.token
  BY Zenon, <1>1, <1>2, <1>3, QuietServes
<1>4. CASE deployment.restarts = 0 /\ machine.token # secret.token
  <2>1. PICK q \in Replicas : cache[q][machine.token] >= machine.at + Grace
    BY Zenon, <1>2, <1>4 DEF Handed
  <2>2. Live(q, machine.token)
    BY <1>n, <2>1, EntryNumbers DEF Live
  <2> QED BY Zenon, <2>2
<1>5. CASE Cardinality(Replicas) = 1 /\ machine.token # secret.token
  <2>1. PICK r : Replicas = {r}
    BY Zenon, <1>5, DeploymentBounds, FS_Singleton DEF TypeInv
  <2>2. machine.token = secret.old /\ r \in Replicas
    BY Zenon, <1>2, <1>5, <2>1 DEF Handed, Lone
  <2> QED BY Zenon, <1>2, <2>1, <2>2, OldTokenServed
<1> QED BY Zenon, <1>1, <1>3, <1>4, <1>5

\* The invariant says that the cache of a lone replica is bounded.
LEMMA BoundedEnough ==
  ASSUME ServerInv
  PROVE  CacheBounded
<1> USE DEF ServerInv
<1> SUFFICES ASSUME Quiet, Cardinality(Replicas) = 1, NEW r \in Replicas, NEW k \in Tokens, Live(r, k)
             PROVE  k \in {secret.token, secret.old}
  BY Zenon DEF CacheBounded
<1>1. Replicas = {r}
  BY DeploymentBounds, FS_Singleton DEF TypeInv
<1>2. k \in Keys /\ cache[r][k] # Absent
  BY Times, BoundsAssumption DEF Live, Absent, Tokens, Keys
<1>3. secret.exists /\ ~ Rotating(r)
  BY Zenon, <1>2, QuietServes
<1> QED BY Zenon, <1>1, <1>2, <1>3 DEF LoneInv, Alone

\* The controllers, the janitor and the replicas keep the types of the token
\* Secret, the user data and the caches, whatever the replicas and the platform.
THEOREM TokenTypes == Spec => []TypeOK
<1>1. ServerInv => TypeOK
  BY Zenon DEF ServerInv, TypeInv
<1> QED BY <1>1, ServerInit, ServerNext, PTL DEF Spec

\* A replica that works alone caches no more than the token and the old token of
\* the Secret: rotateToken drops the one before, a failed patch undoes what it
\* cached, and the tokens of a Secret that is gone are purged.
THEOREM CacheBound == Spec => []CacheBounded
  BY ServerInit, ServerNext, BoundedEnough, PTL DEF Spec

\* A Machine that was given a token less than Grace ago finds a replica that
\* serves it: for any number of replicas that rotate the token at once, and for a
\* lone one that restarts at any point.
THEOREM MachinesServed ==
  ASSUME \A d \in Deployments : Steady(d)
  PROVE  Spec => []MachineServed
<1>1. ServerInv => MachineServed
  BY Zenon, ServedEnough DEF ServerInv, TypeInv
<1> QED BY <1>1, ServerInit, ServerNext, PTL DEF Spec

\* A lone replica never loses the token that Machines in flight may have: whenever
\* the token of a Secret changes, the Secret keeps the one before as the old one
\* (rotateToken patches with the token it read, whatever was written since).
PreviousKept ==
    [][Lone /\ secret.exists /\ secret'.exists /\ secret'.token # secret.token
         => secret'.old = secret.token]_vars

\* The patch of a lone replica writes as the old token the one that is in the
\* Secret, through restarts, failed patches and the decisions of the janitor.
THEOREM RotationKeepsPrevious == Spec => PreviousKept
<1> DEFINE Kept == Lone /\ secret.exists /\ secret'.exists /\ secret'.token # secret.token
                     => secret'.old = secret.token
<1>1. ServerInv /\ [Next]_vars => Kept
  <2> SUFFICES ASSUME ServerInv, [Next]_vars, NEW r \in Replicas, Replicas = {r},
                      secret.exists, secret'.exists, secret'.token # secret.token
               PROVE  secret'.old = secret.token
    BY Zenon DEF Lone
  <2>1. TypeInv /\ Alone(r)
    BY Zenon DEF ServerInv, LoneInv
  <2>2. ~ SameToken /\ ~ Created /\ ~ Removed
    BY Zenon, NoTokens DEF SameToken, Created, Removed
  <2>3. PICK q \in Replicas : PatchRotation(q)
    BY Zenon, <2>1, <2>2, SecretStep DEF SecretMoves
  <2>4. q = r
    BY Zenon
  <2>5. Rotating(r) /\ secret'.old = rec[r].view.token
    BY Zenon, <2>1, <2>3, <2>4, RotationEnds, RotationPatched
  <2>6. rec[r].pc # "idle"
    BY Zenon, <2>5 DEF Rotating
  <2> QED BY Zenon, <2>1, <2>5, <2>6 DEF Alone
<1>2. ServerInv /\ [Next]_vars => [Kept]_vars
  BY Zenon, <1>1
<1> QED BY <1>2, ServerInit, ServerNext, PTL DEF Spec, PreviousKept

----------------------------------------------------------------------------
(* The payload store of one replica, at the grain of its lock.             *)
(*                                                                         *)
(* The inductive invariant follows a Get through its collection: an entry  *)
(* that had expired when the call began is still to be visited (todo), or  *)
(* is the one about to be deleted (victim).                                *)

Collecting == {"gc", "gcDelete"}

\* What t's Get has collected so far.
Collected(t) ==
    \/ calls[t].pc \notin Collecting \cup {"read"}
    \/ \A k \in StoreKeys :
          \/ store[k] = Store!Absent
          \/ store[k] >= calls[t].start
          \/ calls[t].pc \in Collecting /\ k \in calls[t].todo
          \/ calls[t].pc = "gcDelete" /\ k = calls[t].victim

StartedBefore(t) == calls[t].start <= clock

CollectInv == Store!TypeOK /\ \A t \in Goroutines : Collected(t) /\ StartedBefore(t)

\* The invariant holds in the initial states.
LEMMA InitCollect ==
  Store!Init => CollectInv
<1> SUFFICES ASSUME Store!Init PROVE CollectInv
  BY Zenon
<1>0. clock = 0 /\ 0 \in 0..Ticks
  BY TicksAssumption DEF Store!Init
<1>1. Store!Idle \in Store!Calls /\ Store!Idle.pc = "idle" /\ Store!Idle.start = 0
  BY Zenon, <1>0 DEF Store!Idle, Store!Calls
<1>2. \A t \in Goroutines : calls[t] = Store!Idle
  BY Zenon DEF Store!Init
<1>3. Store!TypeOK
  BY Zenon, <1>0, <1>1 DEF Store!Init, Store!TypeOK
<1>4. ASSUME NEW t \in Goroutines PROVE Collected(t) /\ StartedBefore(t)
  BY <1>0, <1>1, <1>2 DEF Collected, StartedBefore, Collecting
<1> QED BY Zenon, <1>3, <1>4 DEF CollectInv

\* The calls the methods of the store make of a goroutine.
LEMMA CallsMade ==
  ASSUME Store!TypeOK
  PROVE  /\ Store!Idle \in Store!Calls
         /\ \A k \in StoreKeys, pc \in {"set", "delete"} : Store!Writing(pc, k) \in Store!Calls
         /\ \A k \in StoreKeys :
              [pc |-> "gc", key |-> k, victim |-> Store!NoKey, todo |-> Store!Present, start |-> clock]
                  \in Store!Calls
         /\ \A get \in Store!Calls, pc \in {"gc", "gcDelete", "read"}, todo \in SUBSET StoreKeys,
               k \in StoreKeys \cup {Store!NoKey} : Store!GetAt(get, pc, todo, k) \in Store!Calls
<1>0. clock \in 0..Ticks /\ 0 \in 0..Ticks /\ Store!Present \in SUBSET StoreKeys
  BY TicksAssumption DEF Store!TypeOK, Store!Present
<1>1. Store!Idle \in Store!Calls
  BY Zenon, <1>0 DEF Store!Idle, Store!Calls
<1>2. ASSUME NEW k \in StoreKeys, NEW pc \in {"set", "delete"}
      PROVE  Store!Writing(pc, k) \in Store!Calls
  BY Zenon, <1>0 DEF Store!Writing, Store!Calls
<1>3. ASSUME NEW k \in StoreKeys
      PROVE  [pc |-> "gc", key |-> k, victim |-> Store!NoKey, todo |-> Store!Present, start |-> clock]
                 \in Store!Calls
  BY Zenon, <1>0 DEF Store!Calls
<1>4. ASSUME NEW get \in Store!Calls, NEW pc \in {"gc", "gcDelete", "read"},
             NEW todo \in SUBSET StoreKeys, NEW k \in StoreKeys \cup {Store!NoKey}
      PROVE  Store!GetAt(get, pc, todo, k) \in Store!Calls
  BY Zenon DEF Store!GetAt, Store!Calls
<1> QED BY Zenon, <1>1, <1>2, <1>3, <1>4

\* What a step writes of the call of goroutine u.
CallMoves(u) ==
    \/ calls'[u] = calls[u]
    \/ calls'[u] = Store!Idle
    \/ \E k \in StoreKeys, pc \in {"set", "delete"} : calls'[u] = Store!Writing(pc, k)
    \/ \E k \in StoreKeys :
         /\ calls'[u] = [pc |-> "gc", key |-> k, victim |-> Store!NoKey,
                         todo |-> Store!Present, start |-> clock]
         /\ UNCHANGED store
    \/ \E k \in calls[u].todo :
         /\ calls[u].pc = "gc" /\ UNCHANGED store
         /\ \/ /\ k \in Store!Present /\ Store!Expired(k)
               /\ calls'[u] = Store!GetAt(calls[u], "gcDelete", calls[u].todo \ {k}, k)
            \/ /\ ~ (k \in Store!Present /\ Store!Expired(k))
               /\ calls'[u] = Store!GetAt(calls[u], "gc", calls[u].todo \ {k}, Store!NoKey)
    \/ /\ calls[u].pc = "gc" /\ calls[u].todo = {} /\ UNCHANGED store
       /\ calls'[u] = Store!GetAt(calls[u], "read", {}, Store!NoKey)
    \/ /\ calls[u].pc = "gcDelete" /\ store' = [store EXCEPT ![calls[u].victim] = Store!Absent]
       /\ calls'[u] = Store!GetAt(calls[u], "gc", calls[u].todo, Store!NoKey)

\* What a step writes of the store: entries go, or are set again.
LEMMA StoreWrites ==
  ASSUME Store!TypeOK, [Store!Next]_(Store!vars)
  PROVE  /\ clock' = clock \/ (clock < Ticks /\ clock' = clock + 1)
         /\ mutex' \in Goroutines \cup {Store!Free}
         /\ DOMAIN store' = StoreKeys
         /\ \A k \in StoreKeys : store'[k] \in {store[k], Store!Absent, clock + Lifetime}
         /\ store' = [k \in StoreKeys |-> store'[k]]
<1>0. store = [k \in StoreKeys |-> store[k]] /\ mutex \in Goroutines \cup {Store!Free}
  BY Zenon DEF Store!TypeOK
<1>1. CASE Store!Tick
  BY Zenon, <1>0, <1>1 DEF Store!Tick
<1>2. CASE UNCHANGED Store!vars
  BY Zenon, <1>0, <1>2 DEF Store!vars
<1>3. ASSUME NEW t \in Goroutines, Store!Call(t) \/ Store!Collect(t) \/ Store!Read(t)
      PROVE  clock' = clock /\ mutex' = mutex /\ store' = store
  BY Zenon, <1>3
  DEF Store!Call, Store!CallGet, Store!CallSet, Store!CallDelete, Store!Collect, Store!GcDone,
      Store!GcVisit, Store!Read
<1>4. ASSUME NEW t \in Goroutines, Store!Acquire(t)
      PROVE  clock' = clock /\ mutex' = t /\ store' = store
  BY Zenon, <1>4 DEF Store!Acquire
<1>5. ASSUME NEW t \in Goroutines, Store!Write(t) \/ Store!Crash(t)
      PROVE  /\ clock' = clock /\ mutex' = Store!Free
             /\ store' = [k \in StoreKeys |-> store'[k]]
             /\ \A k \in StoreKeys : store'[k] \in {store[k], Store!Absent, clock + Lifetime}
  <2>1. CASE Store!WriteSet(t)
    BY Zenon, <1>0, <2>1 DEF Store!WriteSet
  <2>2. CASE Store!WriteDelete(t)
    BY Zenon, <1>0, <2>2 DEF Store!WriteDelete
  <2>3. CASE Store!WriteGcDelete(t)
    BY Zenon, <1>0, <2>3 DEF Store!WriteGcDelete
  <2>4. CASE Store!Crash(t)
    BY Zenon, <1>0, <2>4 DEF Store!Crash
  <2> QED BY Zenon, <1>5, <2>1, <2>2, <2>3, <2>4 DEF Store!Write
<1>6. CASE Store!Next
  <2>1. CASE \E t \in Goroutines : Store!Call(t) \/ Store!Collect(t) \/ Store!Read(t)
    BY Zenon, <1>0, <1>3, <2>1
  <2>2. CASE \E t \in Goroutines : Store!Acquire(t)
    BY Zenon, <1>0, <1>4, <2>2
  <2>3. CASE \E t \in Goroutines : Store!Write(t) \/ Store!Crash(t)
    BY Zenon, <1>5, <2>3
  <2> QED BY Zenon, <1>1, <1>6, <2>1, <2>2, <2>3 DEF Store!Next
<1> QED BY Zenon, <1>2, <1>6

\* Every goroutine has a call, or is idle, after each step.
LEMMA CallsOfAll ==
  ASSUME Store!TypeOK, [Store!Next]_(Store!vars)
  PROVE  calls' = [v \in Goroutines |-> calls'[v]]
<1>0. calls = [v \in Goroutines |-> calls[v]]
  BY Zenon DEF Store!TypeOK
<1>1. ASSUME NEW t, NEW m, calls' = [calls EXCEPT ![t] = m]
      PROVE  calls' = [v \in Goroutines |-> calls'[v]]
  BY Zenon, <1>0, <1>1
<1>2. ASSUME NEW t \in Goroutines,
             Store!Call(t) \/ Store!Collect(t) \/ Store!Read(t) \/ Store!Write(t)
      PROVE  \E m : calls' = [calls EXCEPT ![t] = m]
  BY Zenon, <1>2
  DEF Store!Call, Store!CallGet, Store!CallSet, Store!CallDelete, Store!Collect, Store!GcDone,
      Store!GcVisit, Store!Read, Store!Write, Store!WriteSet, Store!WriteDelete, Store!WriteGcDelete
<1>3. ASSUME NEW t \in Goroutines, Store!Crash(t)
      PROVE  calls' = [v \in Goroutines |-> calls'[v]]
  BY Zenon, <1>3 DEF Store!Crash
<1>4. ASSUME NEW t \in Goroutines, Store!Acquire(t)
      PROVE  calls' = calls
  BY Zenon, <1>4 DEF Store!Acquire
<1>5. ASSUME Store!Tick \/ UNCHANGED Store!vars
      PROVE  calls' = calls
  BY Zenon, <1>5 DEF Store!Tick, Store!vars
<1> QED BY Zenon, <1>0, <1>1, <1>2, <1>3, <1>4, <1>5 DEF Store!Next

\* Each step makes one of those moves, in the call of every goroutine.
LEMMA CallStep ==
  ASSUME Store!TypeOK, [Store!Next]_(Store!vars), NEW u \in Goroutines
  PROVE  CallMoves(u)
<1>0. calls = [v \in Goroutines |-> calls[v]]
  BY Zenon DEF Store!TypeOK
<1>c. ASSUME UNCHANGED calls
      PROVE  CallMoves(u)
  BY Zenon, <1>0, <1>c DEF CallMoves
<1>s. ASSUME NEW t \in Goroutines, NEW m, calls' = [calls EXCEPT ![t] = m]
      PROVE  /\ calls'[t] = m
             /\ t # u => calls'[u] = calls[u]
  BY Zenon, <1>0, <1>s
<1>1. ASSUME NEW t \in Goroutines, Store!Call(t)
      PROVE  CallMoves(u)
  <2>1. ASSUME NEW k \in StoreKeys, Store!CallGet(t, k)
        PROVE  CallMoves(u)
    BY Zenon, <1>s, <2>1 DEF Store!CallGet, CallMoves
  <2>2. ASSUME NEW k \in StoreKeys, Store!CallSet(t, k)
        PROVE  CallMoves(u)
    BY Zenon, <1>s, <2>2 DEF Store!CallSet, CallMoves
  <2>3. ASSUME NEW k \in StoreKeys, Store!CallDelete(t, k)
        PROVE  CallMoves(u)
    BY Zenon, <1>s, <2>3 DEF Store!CallDelete, CallMoves
  <2> QED BY Zenon, <1>1, <2>1, <2>2, <2>3 DEF Store!Call
<1>2. ASSUME NEW t \in Goroutines, NEW k \in StoreKeys, Store!GcVisit(t, k)
      PROVE  CallMoves(u)
  BY Zenon, <1>s, <1>2 DEF Store!GcVisit, CallMoves
<1>3. ASSUME NEW t \in Goroutines, Store!GcDone(t)
      PROVE  CallMoves(u)
  BY Zenon, <1>s, <1>3 DEF Store!GcDone, CallMoves
<1>4. ASSUME NEW t \in Goroutines, Store!Read(t) \/ Store!WriteSet(t) \/ Store!WriteDelete(t)
      PROVE  CallMoves(u)
  BY Zenon, <1>s, <1>4 DEF Store!Read, Store!WriteSet, Store!WriteDelete, CallMoves
<1>5. ASSUME NEW t \in Goroutines, Store!WriteGcDelete(t)
      PROVE  CallMoves(u)
  BY Zenon, <1>s, <1>5 DEF Store!WriteGcDelete, CallMoves
<1>6. ASSUME NEW t \in Goroutines, Store!Crash(t)
      PROVE  CallMoves(u)
  BY Zenon, <1>6 DEF Store!Crash, CallMoves
<1>7. ASSUME NEW t \in Goroutines, Store!Acquire(t)
      PROVE  CallMoves(u)
  BY Zenon, <1>c, <1>7 DEF Store!Acquire
<1>8. CASE Store!Tick \/ UNCHANGED Store!vars
  BY Zenon, <1>c, <1>8 DEF Store!Tick, Store!vars
<1> QED BY Zenon, <1>1, <1>2, <1>3, <1>4, <1>5, <1>6, <1>7, <1>8 DEF Store!Next, Store!Collect, Store!Write

\* Each step keeps the types of the store.
LEMMA NextStoreTypes ==
  ASSUME Store!TypeOK, [Store!Next]_(Store!vars)
  PROVE  Store!TypeOK'
<1>1. clock \in 0..Ticks /\ clock' \in 0..Ticks /\ clock + Lifetime \in 0..(Ticks + Lifetime)
  BY StoreWrites, LifetimeAssumption, TicksAssumption DEF Store!TypeOK
<1>2. store' \in [StoreKeys -> {Store!Absent} \cup (0..(Ticks + Lifetime))]
  <2>1. ASSUME NEW k \in StoreKeys PROVE store'[k] \in {Store!Absent} \cup (0..(Ticks + Lifetime))
    BY Zenon, <1>1, StoreWrites DEF Store!TypeOK
  <2> QED BY Zenon, <2>1, StoreWrites
<1>3. ASSUME NEW u \in Goroutines PROVE calls'[u] \in Store!Calls
  <2>1. calls[u] \in Store!Calls
    BY Zenon DEF Store!TypeOK
  <2>2. calls[u].todo \in SUBSET StoreKeys
    BY Zenon, <2>1 DEF Store!Calls
  <2>3. \A k \in calls[u].todo : k \in StoreKeys /\ calls[u].todo \ {k} \in SUBSET StoreKeys
    BY Zenon, <2>2
  <2>4. {} \in SUBSET StoreKeys
    BY Zenon
  <2>5. /\ Store!GetAt(calls[u], "read", {}, Store!NoKey) \in Store!Calls
        /\ Store!GetAt(calls[u], "gc", calls[u].todo, Store!NoKey) \in Store!Calls
    BY Zenon, <2>1, <2>2, <2>4, CallsMade
  <2>6. ASSUME NEW k \in calls[u].todo
        PROVE  /\ Store!GetAt(calls[u], "gcDelete", calls[u].todo \ {k}, k) \in Store!Calls
               /\ Store!GetAt(calls[u], "gc", calls[u].todo \ {k}, Store!NoKey) \in Store!Calls
    BY Zenon, <2>1, <2>3, CallsMade
  <2>7. /\ Store!Idle \in Store!Calls
        /\ \A k \in StoreKeys, pc \in {"set", "delete"} : Store!Writing(pc, k) \in Store!Calls
        /\ \A k \in StoreKeys :
              [pc |-> "gc", key |-> k, victim |-> Store!NoKey, todo |-> Store!Present, start |-> clock]
                  \in Store!Calls
    BY Zenon, CallsMade
  <2>8. CallMoves(u)
    BY Zenon, CallStep
  <2> QED BY Zenon, <2>1, <2>5, <2>6, <2>7, <2>8 DEF CallMoves
<1>4. calls' \in [Goroutines -> Store!Calls]
  BY Zenon, <1>3, CallsOfAll
<1> QED BY Zenon, <1>1, <1>2, <1>4, StoreWrites DEF Store!TypeOK

\* Each step keeps what a Get has collected.
LEMMA NextCollected ==
  ASSUME CollectInv, [Store!Next]_(Store!vars), NEW u \in Goroutines
  PROVE  Collected(u)' /\ StartedBefore(u)'
<1>0. /\ Store!TypeOK /\ Collected(u) /\ StartedBefore(u) /\ clock \in Nat /\ Lifetime \in Nat
      /\ calls[u].start \in Nat /\ calls[u].todo \subseteq StoreKeys
      /\ \A k \in StoreKeys : store[k] = Store!Absent \/ store[k] \in Nat
  BY LifetimeAssumption DEF CollectInv, Store!TypeOK, Store!Calls
<1>1. clock' = clock \/ clock' = clock + 1
  BY Zenon, <1>0, StoreWrites
<1>2. \A k \in StoreKeys : store'[k] = Store!Absent \/ store'[k] = store[k] \/ store'[k] = clock + Lifetime
  BY Zenon, <1>0, StoreWrites
<1> DEFINE old == calls[u].start
           New == calls'[u]
           Clean(k) == store'[k] = Store!Absent \/ store'[k] >= New.start
<1>3. ASSUME New.start \in {0, clock, old} PROVE StartedBefore(u)'
  BY <1>0, <1>1, <1>3 DEF StartedBefore
<1>4. ASSUME NEW k \in StoreKeys, New.start = old, store[k] = Store!Absent \/ store[k] >= old
      PROVE  Clean(k)
  BY <1>0, <1>2, <1>4 DEF StartedBefore
<1>5. CASE New.pc \in {"idle", "set", "delete"} /\ New.start = 0
  BY Zenon, <1>3, <1>5 DEF Collected, Collecting
<1>6. CASE calls'[u] = calls[u]
  BY Zenon, <1>0, <1>3, <1>4, <1>6 DEF Collected
<1>7. ASSUME NEW k \in StoreKeys, UNCHANGED store,
             New = [pc |-> "gc", key |-> k, victim |-> Store!NoKey, todo |-> Store!Present, start |-> clock]
      PROVE  Collected(u)' /\ StartedBefore(u)'
  <2>1. New.pc = "gc" /\ New.todo = Store!Present /\ New.start = clock
    BY <1>7
  <2> QED BY Zenon, <1>3, <1>7, <2>1 DEF Collected, Collecting, Store!Present
<1>8. ASSUME NEW k \in calls[u].todo, calls[u].pc = "gc", UNCHANGED store,
             k \in Store!Present /\ Store!Expired(k),
             New = Store!GetAt(calls[u], "gcDelete", calls[u].todo \ {k}, k)
      PROVE  Collected(u)' /\ StartedBefore(u)'
  <2>1. New.pc = "gcDelete" /\ New.todo = calls[u].todo \ {k} /\ New.victim = k /\ New.start = old
    BY <1>8 DEF Store!GetAt
  <2>2. \A j \in StoreKeys : Clean(j) \/ j \in calls[u].todo
    BY Zenon, <1>0, <1>4, <1>8, <2>1 DEF Collected, Collecting
  <2>3. StartedBefore(u)'
    BY Zenon, <1>3, <2>1
  <2> QED BY Zenon, <2>1, <2>2, <2>3 DEF Collected, Collecting
<1>9. ASSUME NEW k \in calls[u].todo, calls[u].pc = "gc", UNCHANGED store,
              ~ (k \in Store!Present /\ Store!Expired(k)),
              New = Store!GetAt(calls[u], "gc", calls[u].todo \ {k}, Store!NoKey)
       PROVE  Collected(u)' /\ StartedBefore(u)'
  <2>1. New.pc = "gc" /\ New.todo = calls[u].todo \ {k} /\ New.start = old
    BY <1>9 DEF Store!GetAt
  <2>2. store[k] = Store!Absent \/ store[k] >= old
    BY <1>0, <1>9 DEF Store!Present, Store!Expired, StartedBefore
  <2> QED BY Zenon, <1>0, <1>3, <1>4, <1>9, <2>1, <2>2 DEF Collected, Collecting
<1>10. ASSUME calls[u].pc = "gc", calls[u].todo = {}, UNCHANGED store,
              New = Store!GetAt(calls[u], "read", {}, Store!NoKey)
       PROVE  Collected(u)' /\ StartedBefore(u)'
  <2>1. New.pc = "read" /\ New.start = old
    BY <1>10 DEF Store!GetAt
  <2> QED BY Zenon, <1>0, <1>3, <1>4, <1>10, <2>1 DEF Collected, Collecting
<1>11. ASSUME calls[u].pc = "gcDelete", store' = [store EXCEPT ![calls[u].victim] = Store!Absent],
              New = Store!GetAt(calls[u], "gc", calls[u].todo, Store!NoKey)
       PROVE  Collected(u)' /\ StartedBefore(u)'
  <2>1. New.pc = "gc" /\ New.todo = calls[u].todo /\ New.start = old
    BY <1>11 DEF Store!GetAt
  <2>2. \A k \in StoreKeys : k = calls[u].victim => store'[k] = Store!Absent
    BY Zenon, <1>11, <1>0 DEF Store!TypeOK
  <2> QED BY Zenon, <1>0, <1>3, <1>4, <1>11, <2>1, <2>2 DEF Collected, Collecting
<1>12. New = Store!Idle => New.pc \in {"idle", "set", "delete"} /\ New.start = 0
  BY DEF Store!Idle
<1>13. ASSUME NEW k, NEW pc \in {"set", "delete"}, New = Store!Writing(pc, k)
       PROVE  New.pc \in {"idle", "set", "delete"} /\ New.start = 0
  BY <1>13 DEF Store!Writing
<1>14. CallMoves(u)
  BY Zenon, <1>0, CallStep
<1> QED BY Zenon, <1>5, <1>6, <1>7, <1>8, <1>9, <1>10, <1>11, <1>12, <1>13, <1>14 DEF CallMoves

\* Each step preserves the invariant.
LEMMA NextCollect ==
  CollectInv /\ [Store!Next]_(Store!vars) => CollectInv'
<1> SUFFICES ASSUME CollectInv, [Store!Next]_(Store!vars) PROVE CollectInv'
  BY Zenon
<1>1. Store!TypeOK'
  BY Zenon, NextStoreTypes DEF CollectInv
<1>2. ASSUME NEW u \in Goroutines PROVE Collected(u)' /\ StartedBefore(u)'
  BY Zenon, NextCollected
<1> QED BY Zenon, <1>1, <1>2 DEF CollectInv

\* The invariant says more than GetCollects: at the lookup nothing is left to
\* visit or to delete.
LEMMA CollectEnough == CollectInv => Store!TypeOK /\ Store!GetCollects
  BY Zenon DEF CollectInv, Collected, Collecting, Store!GetCollects, Store!Present, Store!TypeOK

\* Get, garbageCollect, Set and Delete keep the types of the store.
THEOREM CacheTypeCorrect == StoreSpec => []Store!TypeOK
  BY InitCollect, NextCollect, CollectEnough, PTL DEF StoreSpec, Store!Spec

\* When Get looks its key up, every entry that had expired when it was called is
\* gone, although garbageCollect walks the map without the lock.
THEOREM NoExpiredLookup == StoreSpec => []GetCollects
  BY InitCollect, NextCollect, CollectEnough, PTL DEF StoreSpec, GetCollects, Store!Spec
=============================================================================
