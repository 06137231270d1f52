--------------------- MODULE CertificateRevocationProofs ---------------------
(***************************************************************************)
(* For any number of requests, kube-apiservers, seconds and faults: what a *)
(* request reports revoked stays out of the bundle, the copy it tests with *)
(* is one of the certificates it revokes, and pruning takes no stored      *)
(* certificate's trust away.                                               *)
(***************************************************************************)
EXTENDS CertificateRevocation, FiniteSetTheorems, TLAPS

Signers == [cert : Seconds, forced : BOOLEAN]
Leaves == [issuer : Seconds, forced : BOOLEAN]
Rotators == [at : {"signer", "bundle", "leaf"}, ca : Maybe(Seconds), lost : BOOLEAN]
Passes == [kind : {"none", "status", "copy", "signer", "leaf", "bundle"}, req : SUBSET Requests,
           status : Status, certs : SUBSET Seconds, read : SUBSET Seconds]

\* The types, with what makes the rotator's certificate current: it holds the
\* signer it minted or found, and no one else replaces the signer.
Types ==
    /\ clock \in Seconds
    /\ signer \in Signers /\ signer.cert <= clock
    /\ bundle \in SUBSET Seconds /\ total \in SUBSET Seconds
    /\ leaf \in Leaves
    /\ kept \in Maybe({0})
    /\ rotator \in Rotators
    /\ rotator.at # "signer" => rotator.ca = signer.cert
    /\ kas \in [Replicas -> SUBSET Seconds]
    /\ crr \in [Requests -> Status]
    /\ copy \in [Requests -> Maybe(Seconds)]
    /\ pass \in Passes
    /\ faults \in 0 .. MaxFaults

\* All certificates of a set are only valid after the cutoff.
AllAfter(certs, cutoff) == \A c \in certs : c > cutoff + 1

\* What makes a request's report of the revocation true, and keeps it so: the
\* rotator can only add a signer that the request does not revoke.
RevokedFor(r) ==
    /\ crr[r].cutoff # None /\ crr[r].previous
    /\ signer.cert > crr[r].cutoff + 1
    /\ AllAfter(bundle, crr[r].cutoff)
    /\ copy[r] \notin total

RequestInv == \A r \in Requests :
    /\ copy[r] # None => crr[r].cutoff # None /\ copy[r] <= crr[r].cutoff + 1
    /\ crr[r].previous => copy[r] # None
    /\ crr[r].root = "True" => crr[r].previous
    /\ crr[r].revoked = "True" => RevokedFor(r)

\* A status that is about to be written: what was read of the request has not
\* changed since, and what it reports is true.
StatusDue(r) ==
    /\ crr[r].cutoff = None \/ pass.status.cutoff = crr[r].cutoff
    /\ crr[r].previous => pass.status.previous
    /\ pass.status.previous => copy[r] # None
    /\ pass.status.root = "True" => pass.status.previous
    /\ pass.status.revoked = "True" => RevokedFor(r)

CopyDue(r) ==
    /\ crr[r].cutoff # None /\ copy[r] = None
    /\ \E c \in Seconds : pass.certs = {c} /\ c <= crr[r].cutoff + 1

\* A bundle that is about to be written: the stored certificates it was computed
\* for keep their trust, and no revoked signer of any request is in it.
BundleDue(r) ==
    /\ crr[r].cutoff # None
    /\ signer.cert > crr[r].cutoff + 1
    /\ pass.certs = OnlyAfter(pass.read, crr[r].cutoff)
    /\ StoredLeaves \cap pass.read \subseteq pass.certs
    /\ \A q \in Requests : crr[q].revoked = "True" => AllAfter(pass.certs, crr[q].cutoff)

PassInv == \A r \in Requests : pass.req = {r} =>
    /\ pass.kind = "status" => StatusDue(r)
    /\ pass.kind = "copy" => CopyDue(r)
    /\ pass.kind = "bundle" => BundleDue(r)

IInv == Types /\ RequestInv /\ PassInv

----------------------------------------------------------------------------
(* Data *)

\* Seconds are numbers, and None is not one of them.
LEMMA SecondsFacts ==
    /\ Seconds \subseteq Nat /\ None \in Nat /\ None \notin Seconds /\ 0 \in Seconds
    /\ Maybe(Seconds) \subseteq Nat
BY RevocationBounds DEF Seconds, None, Maybe

\* A set has only certificates after the cutoff if partitioning it changes nothing.
LEMMA OnlyAfterAll ==
    ASSUME NEW certs, NEW cutoff
    PROVE  OnlyAfter(certs, cutoff) = certs <=> AllAfter(certs, cutoff)
BY DEF OnlyAfter, AllAfter

\* The fields of a request's status.
LEMMA StatusFields ==
    ASSUME NEW n \in Status
    PROVE  /\ n.created \in BOOLEAN /\ n.cutoff \in Maybe(Seconds) /\ n.previous \in BOOLEAN
           /\ n.root \in Conditions /\ n.revoked \in Conditions
BY DEF Status

\* A new request, an idle pass and a rotator at rest have their types.
LEMMA NewTypes == NewRequest \in Status /\ Idle \in Passes /\ AtRest \in Rotators
<1>1. NewRequest \in Status
  BY DEF NewRequest, Status, Conditions, Maybe
<1>2. Idle \in Passes
  BY <1>1 DEF Idle, Passes
<1>3. AtRest \in Rotators
  BY DEF AtRest, Rotators, Maybe
<1> QED
  BY <1>1, <1>2, <1>3

\* What a pass decides to write (Write), with the bundle it read.
LEMMA WriteType ==
    ASSUME NEW k \in {"status", "copy", "signer", "leaf", "bundle"}, NEW r \in Requests,
           NEW n \in Status, NEW certs \in SUBSET Seconds, bundle \in SUBSET Seconds,
           NEW w, w = Write(k, r, n, certs)
    PROVE  /\ w \in Passes
           /\ w.kind = k /\ w.req = {r} /\ w.status = n /\ w.certs = certs /\ w.read = bundle
BY DEF Write, Passes

\* The fields of the secrets.
LEMMA SecretFields ==
    ASSUME Types
    PROVE  /\ signer.cert \in Seconds /\ signer.forced \in BOOLEAN
           /\ leaf.issuer \in Seconds /\ leaf.forced \in BOOLEAN
           /\ rotator.at \in {"signer", "bundle", "leaf"} /\ rotator.ca \in Maybe(Seconds)
BY DEF Types, Signers, Leaves, Rotators

\* The fields of the pass.
LEMMA PassFields ==
    ASSUME Types
    PROVE  /\ pass.kind \in {"none", "status", "copy", "signer", "leaf", "bundle"}
           /\ pass.req \subseteq Requests /\ pass.status \in Status
           /\ pass.certs \in SUBSET Seconds /\ pass.read \in SUBSET Seconds
BY DEF Types, Passes

----------------------------------------------------------------------------
(* What a pass of the revocation controller decides *)

\* A status that may be written for a request: it keeps what is committed, and
\* what it reports is true.
SoundStatus(r, n) ==
    /\ n \in Status
    /\ crr[r].cutoff = None \/ n.cutoff = crr[r].cutoff
    /\ crr[r].previous => n.previous
    /\ n.previous => copy[r] # None
    /\ n.root = "True" => n.previous
    /\ n.revoked = "True" => RevokedFor(r)

\* Committing the timestamp (commitRevocationTimestamp).
LEMMA CommitSound ==
    ASSUME Types, RequestInv, NEW r \in Requests, commitRevocationTimestamp(r)
    PROVE  \E n : SoundStatus(r, n) /\ pass' = Write("status", r, n, {})
<1> DEFINE n == [crr[r] EXCEPT !.cutoff = clock]
<1>1. crr[r] \in Status /\ clock \in Maybe(Seconds) /\ crr[r].cutoff = None
  BY DEF Types, Maybe, commitRevocationTimestamp
<1>2. n \in Status
  BY <1>1 DEF Status
<1>3. n.previous = crr[r].previous /\ n.root = crr[r].root /\ n.revoked = crr[r].revoked
  BY <1>1 DEF Status
<1>4. pass' = Write("status", r, n, {})
  BY DEF commitRevocationTimestamp, WriteStatus
<1> HIDE DEF n
<1>5. SoundStatus(r, n)
  BY <1>1, <1>2, <1>3 DEF SoundStatus, RequestInv
<1> QED
  BY <1>4, <1>5

\* Recording the copied signer, and the new one (generateNewSignerCertificate).
LEMMA RecordSound ==
    ASSUME Types, RequestInv, NEW r \in Requests, RecordCopy(r) \/ RecordNewSigner(r)
    PROVE  \E n : SoundStatus(r, n) /\ pass' = Write("status", r, n, {})
<1>1. crr[r] \in Status
  BY DEF Types
<1>2. CASE RecordCopy(r)
  <2> DEFINE n == [crr[r] EXCEPT !.previous = TRUE, !.root = "False"]
  <2>1. n \in Status
    BY <1>1 DEF Status, Conditions
  <2>2. /\ n.cutoff = crr[r].cutoff /\ n.previous = TRUE /\ n.root = "False"
        /\ n.revoked = crr[r].revoked
    BY <1>1 DEF Status
  <2>3. pass' = Write("status", r, n, {}) /\ copy[r] # None
    BY <1>2 DEF RecordCopy, WriteStatus
  <2> HIDE DEF n
  <2>4. SoundStatus(r, n)
    BY <2>1, <2>2, <2>3 DEF SoundStatus, RequestInv
  <2> QED
    BY <2>3, <2>4
<1>3. CASE RecordNewSigner(r)
  <2> DEFINE n == [crr[r] EXCEPT !.root = "True", !.trusted = "False"]
  <2>1. n \in Status
    BY <1>1 DEF Status, Conditions
  <2>2. n.cutoff = crr[r].cutoff /\ n.previous = crr[r].previous /\ n.revoked = crr[r].revoked
    BY <1>1 DEF Status
  <2>3. pass' = Write("status", r, n, {}) /\ crr[r].previous
    BY <1>3 DEF RecordNewSigner, WriteStatus
  <2> HIDE DEF n
  <2>4. SoundStatus(r, n)
    BY <2>1, <2>2, <2>3 DEF SoundStatus, RequestInv
  <2> QED
    BY <2>3, <2>4
<1> QED
  BY <1>2, <1>3

\* Reporting that the new signer is trusted, and the state of the leaves, leaves the
\* rest of the status alone (ensureNewSignerCertificatePropagated,
\* prunePreviousSignerCertificates).
LEMMA ReportSound ==
    ASSUME Types, RequestInv, NEW r \in Requests, NEW n,
           \/ n = [crr[r] EXCEPT !.trusted = "True"]
           \/ n = [crr[r] EXCEPT !.leaves = "False"]
           \/ n = [crr[r] EXCEPT !.leaves = "True", !.revoked = "False"]
    PROVE  SoundStatus(r, n)
<1>1. crr[r] \in Status
  BY DEF Types
<1>2. n \in Status
  BY <1>1 DEF Status, Conditions
<1>3. n.cutoff = crr[r].cutoff /\ n.previous = crr[r].previous /\ n.root = crr[r].root
  BY <1>1 DEF Status
<1>4. n.revoked = crr[r].revoked \/ n.revoked = "False"
  BY <1>1 DEF Status
<1> QED
  BY <1>2, <1>3, <1>4 DEF SoundStatus, RequestInv

\* What a step has behind it when the request has its new signer.
LEMMA SignerDoneFacts ==
    ASSUME Types, RequestInv, NEW r \in Requests, SignerDone(r)
    PROVE  crr[r].cutoff # None /\ crr[r].previous /\ signer.cert > crr[r].cutoff + 1
BY SecretFields DEF SignerDone, Committed, NeedsRegeneration, OnlyAfter, RequestInv

\* Reporting the previous certificates revoked (ensureOldSignerCertificateRevoked).
LEMMA RevokedSound ==
    ASSUME Types, RequestInv, NEW r \in Requests, NEW k \in Replicas, NEW j \in Replicas,
           ensureOldSignerCertificateRevoked(r, k, j)
    PROVE  \E n : SoundStatus(r, n) /\ pass' = Write("status", r, n, {})
<1> DEFINE n == [crr[r] EXCEPT !.revoked = "True"]
<1>1. crr[r] \in Status
  BY DEF Types
<1>2. n \in Status
  BY <1>1 DEF Status, Conditions
<1>3. n.cutoff = crr[r].cutoff /\ n.previous = crr[r].previous /\ n.root = crr[r].root
  BY <1>1 DEF Status
<1>4. pass' = Write("status", r, n, {})
  BY DEF ensureOldSignerCertificateRevoked, WriteStatus
<1> HIDE DEF n
<1>5. SignerDone(r) /\ Pruned(r)
  BY DEF ensureOldSignerCertificateRevoked, PrunedDone, LeavesDone, PropagatedDone, Propagated
<1>6. AllAfter(bundle, crr[r].cutoff)
  BY <1>5, OnlyAfterAll DEF Pruned
<1>7. copy[r] \notin total
  BY DEF ensureOldSignerCertificateRevoked, Trusted
<1>8. RevokedFor(r)
  BY <1>5, <1>6, <1>7, SignerDoneFacts DEF RevokedFor
<1>9. SoundStatus(r, n)
  BY <1>2, <1>3, <1>8 DEF SoundStatus, RequestInv
<1> QED
  BY <1>4, <1>9

\* A bundle that may be written for a request.
SoundBundle(r, certs) ==
    /\ crr[r].cutoff # None
    /\ signer.cert > crr[r].cutoff + 1
    /\ certs = OnlyAfter(bundle, crr[r].cutoff)
    /\ StoredLeaves \cap bundle \subseteq certs

\* Pruning (prunePreviousSignerCertificates) reports, or decides on a bundle that
\* every stored certificate keeps its trust in.
LEMMA PruneSound ==
    ASSUME Types, RequestInv, NEW r \in Requests, NEW k \in Replicas,
           prunePreviousSignerCertificates(r, k)
    PROVE  \/ \E n : SoundStatus(r, n) /\ pass' = Write("status", r, n, {})
           \/ \E certs : SoundBundle(r, certs) /\ pass' = Write("bundle", r, NewRequest, certs)
<1>1. CASE \E n : /\ \/ n = [crr[r] EXCEPT !.leaves = "False"]
                    \/ n = [crr[r] EXCEPT !.leaves = "True", !.revoked = "False"]
                 /\ pass' = Write("status", r, n, {})
  BY <1>1, ReportSound
<1>2. CASE /\ LosesTrust(r) = {}
           /\ pass' = Write("bundle", r, NewRequest, OnlyAfter(bundle, crr[r].cutoff))
  <2>1. SignerDone(r)
    BY DEF prunePreviousSignerCertificates, LeavesDone, PropagatedDone, Propagated
  <2>2. StoredLeaves \cap bundle \subseteq OnlyAfter(bundle, crr[r].cutoff)
    BY <1>2 DEF LosesTrust, Trusted
  <2>3. SoundBundle(r, OnlyAfter(bundle, crr[r].cutoff))
    BY <2>1, <2>2, SignerDoneFacts DEF SoundBundle
  <2> QED
    BY <1>2, <2>3
<1> QED
  BY <1>1, <1>2 DEF prunePreviousSignerCertificates, WriteStatus

\* Every pass that does something decides on one of these writes
\* (processCertificateRevocationRequest).
LEMMA ProcessSound ==
    ASSUME Types, RequestInv, NEW r \in Requests, ProcessRequest(r)
    PROVE  \/ \E n : SoundStatus(r, n) /\ pass' = Write("status", r, n, {})
           \/ /\ Committed(r) /\ NeedsRegeneration(r) /\ copy[r] = None
              /\ pass' = Write("copy", r, NewRequest, {signer.cert})
           \/ \E kind \in {"signer", "leaf"} : pass' = Write(kind, r, NewRequest, {})
           \/ \E certs : SoundBundle(r, certs) /\ pass' = Write("bundle", r, NewRequest, certs)
<1>1. CASE commitRevocationTimestamp(r)
  BY <1>1, CommitSound
<1>2. CASE RecordCopy(r) \/ RecordNewSigner(r)
  BY <1>2, RecordSound
<1>3. CASE CopySigner(r)
  BY <1>3 DEF CopySigner
<1>4. CASE MarkSigner(r)
  BY <1>4 DEF MarkSigner
<1>5. ASSUME NEW k \in Replicas, ensureNewSignerCertificatePropagated(r, k)
      PROVE  \E n : SoundStatus(r, n) /\ pass' = Write("status", r, n, {})
  BY <1>5, ReportSound DEF ensureNewSignerCertificatePropagated, WriteStatus
<1>6. ASSUME NEW k \in Replicas, generateNewLeafCertificates(r, k)
      PROVE  pass' = Write("leaf", r, NewRequest, {})
  BY <1>6 DEF generateNewLeafCertificates
<1>7. ASSUME NEW k \in Replicas, prunePreviousSignerCertificates(r, k)
      PROVE  \/ \E n : SoundStatus(r, n) /\ pass' = Write("status", r, n, {})
             \/ \E certs : SoundBundle(r, certs) /\ pass' = Write("bundle", r, NewRequest, certs)
  BY <1>7, PruneSound
<1>8. ASSUME NEW k \in Replicas, NEW j \in Replicas, ensureOldSignerCertificateRevoked(r, k, j)
      PROVE  \E n : SoundStatus(r, n) /\ pass' = Write("status", r, n, {})
  BY <1>8, RevokedSound
<1> QED
  BY <1>1, <1>2, <1>3, <1>4, <1>5, <1>6, <1>7, <1>8
     DEF ProcessRequest, generateNewSignerCertificate

----------------------------------------------------------------------------
(* The types *)

\* A request is created (CreateRequest): the rest of its status stays.
LEMMA CreatedFields ==
    ASSUME NEW n \in Status, NEW m, m = [n EXCEPT !.created = TRUE]
    PROVE  /\ m \in Status
           /\ m.cutoff = n.cutoff /\ m.previous = n.previous
           /\ m.root = n.root /\ m.revoked = n.revoked
BY DEF Status

\* A new request changes nothing of what a request has learnt.
LEMMA CreateEffect ==
    ASSUME Types, NEW q \in Requests, CreateRequest(q)
    PROVE  /\ crr' \in [Requests -> Status]
           /\ \A r \in Requests :
                 /\ crr'[r].cutoff = crr[r].cutoff /\ crr'[r].previous = crr[r].previous
                 /\ crr'[r].root = crr[r].root /\ crr'[r].revoked = crr[r].revoked
<1> DEFINE m == [crr[q] EXCEPT !.created = TRUE]
<1>1. crr \in [Requests -> Status] /\ crr[q] \in Status
  BY DEF Types
<1>2. crr' = [crr EXCEPT ![q] = m]
  BY DEF CreateRequest
<1>3. /\ m \in Status
      /\ m.cutoff = crr[q].cutoff /\ m.previous = crr[q].previous
      /\ m.root = crr[q].root /\ m.revoked = crr[q].revoked
  BY <1>1, CreatedFields
<1> HIDE DEF m
<1> QED
  BY <1>1, <1>2, <1>3

\* The write of a pass (ApplyWrite), as what it does to the request of the pass.
LEMMA ApplyEffect ==
    ASSUME IInv, NEW r \in Requests, ApplyWrite(r)
    PROVE  /\ crr' \in [Requests -> Status] /\ copy' \in [Requests -> Maybe(Seconds)]
           /\ \A q \in Requests \ {r} : crr'[q] = crr[q] /\ copy'[q] = copy[q]
           /\ pass.kind = "status" => crr'[r] = pass.status
           /\ pass.kind # "status" => crr'[r] = crr[r]
           /\ pass.kind # "copy" => copy'[r] = copy[r]
           /\ pass.kind = "copy" => copy'[r] \in Seconds /\ copy'[r] <= crr[r].cutoff + 1
<1>1. crr \in [Requests -> Status] /\ copy \in [Requests -> Maybe(Seconds)] /\ pass.status \in Status
  BY PassFields DEF IInv, Types
<1>2. pass.req = {r} /\ Seconds \subseteq Maybe(Seconds)
  BY DEF ApplyWrite, Maybe
<1>3. CASE pass.kind = "copy"
  <2>1. PICK c \in Seconds : pass.certs = {c} /\ c <= crr[r].cutoff + 1
    BY <1>2, <1>3 DEF IInv, PassInv, CopyDue
  <2>2. (CHOOSE d \in pass.certs : TRUE) = c
    BY <2>1
  <2>3. copy' = [copy EXCEPT ![r] = c] /\ crr' = crr
    BY <1>3, <2>2 DEF ApplyWrite
  <2> QED
    BY <1>1, <1>2, <1>3, <2>1, <2>3
<1>4. CASE pass.kind # "copy"
  BY <1>1, <1>4 DEF ApplyWrite
<1> QED
  BY <1>3, <1>4

\* A mark on a secret leaves the certificate in it.
LEMMA MarkEffect ==
    ASSUME Types, NEW r \in Requests, ApplyWrite(r)
    PROVE  /\ signer' \in Signers /\ signer'.cert = signer.cert
           /\ leaf' \in Leaves /\ leaf'.issuer = leaf.issuer
<1>1. signer \in Signers /\ leaf \in Leaves
  BY DEF Types
<1>2. signer' \in Signers /\ signer'.cert = signer.cert
  BY <1>1 DEF ApplyWrite, Signers
<1>3. leaf' \in Leaves /\ leaf'.issuer = leaf.issuer
  BY <1>1 DEF ApplyWrite, Leaves
<1> QED
  BY <1>2, <1>3

\* The rotator's signer step: the signer it holds is the one in the secret, and it
\* is no older than before (EnsureSigningCertKeyPair, RefreshSigner).
LEMMA SignerEffect ==
    ASSUME Types, EnsureSigningCertKeyPair \/ RefreshSigner
    PROVE  /\ signer' \in Signers /\ signer'.cert >= signer.cert /\ signer'.cert <= clock
           /\ rotator' \in Rotators /\ rotator'.ca = signer'.cert
<1>1. signer \in Signers /\ clock \in Seconds /\ signer.cert <= clock
  BY DEF Types
<1> DEFINE fresh == [cert |-> clock, forced |-> FALSE]
<1>2. fresh \in Signers /\ fresh.cert = clock
  BY <1>1 DEF Signers
<1>3. signer' \in Signers /\ (signer'.cert = signer.cert \/ signer'.cert = clock)
  <2>1. signer' = signer \/ signer' = fresh
    <3> HIDE DEF fresh
    <3>1. CASE EnsureSigningCertKeyPair
      <4>1. signer' = IF signer.forced THEN fresh ELSE signer
        BY <3>1 DEF EnsureSigningCertKeyPair, fresh
      <4> QED
        BY <4>1
    <3>2. CASE RefreshSigner
      BY <3>2 DEF RefreshSigner, fresh
    <3> QED
      BY <3>1, <3>2
  <2>2. CASE signer' = signer
    BY <1>1, <2>2
  <2>3. CASE signer' = fresh
    BY <1>2, <2>3
  <2> QED
    BY <2>1, <2>2, <2>3
<1> HIDE DEF fresh
<1>4. signer'.cert >= signer.cert /\ signer'.cert <= clock /\ signer'.cert \in Seconds
  <2>1. signer.cert \in Seconds /\ signer.cert \in Nat /\ clock \in Nat
    BY <1>1, SecretFields, SecondsFacts
  <2>2. CASE signer'.cert = signer.cert
    BY <1>1, <2>1, <2>2
  <2>3. CASE signer'.cert = clock
    BY <1>1, <2>1, <2>3
  <2> QED
    BY <1>3, <2>2, <2>3
<1>5. rotator' = [at |-> "bundle", ca |-> signer'.cert, lost |-> FALSE]
  BY DEF EnsureSigningCertKeyPair, RefreshSigner
<1>6. rotator' \in Rotators /\ rotator'.ca = signer'.cert
  BY <1>4, <1>5 DEF Rotators, Maybe
<1> QED
  BY <1>3, <1>4, <1>6

\* The rotator's bundle step adds the signer (EnsureConfigMapCABundle).
LEMMA BundleEffect ==
    ASSUME Types, EnsureConfigMapCABundle
    PROVE  /\ bundle' = bundle \cup {signer.cert}
           /\ rotator' \in Rotators /\ rotator'.ca = signer.cert
<1>1. rotator \in Rotators /\ rotator.ca = signer.cert
  BY DEF Types, EnsureConfigMapCABundle
<1>2. rotator' \in Rotators /\ rotator'.ca = rotator.ca
  BY <1>1 DEF EnsureConfigMapCABundle, Rotators
<1> QED
  BY <1>1, <1>2 DEF EnsureConfigMapCABundle

\* The rotator's leaf step signs with the signer, or leaves the leaf
\* (EnsureTargetCertKeyPair).
LEMMA LeafEffect ==
    ASSUME Types, EnsureTargetCertKeyPair
    PROVE  leaf' \in Leaves /\ (leaf'.issuer = leaf.issuer \/ leaf'.issuer = signer.cert)
<1>1. leaf \in Leaves /\ rotator.ca = signer.cert /\ signer.cert \in Seconds
  BY SecretFields DEF Types, EnsureTargetCertKeyPair
<1> QED
  BY <1>1 DEF EnsureTargetCertKeyPair, Leaves

\* The write that a pass decides on is of its type.
LEMMA ProcessType ==
    ASSUME Types, RequestInv, NEW r \in Requests, ProcessRequest(r)
    PROVE  pass' \in Passes
<1>1. /\ bundle \in SUBSET Seconds /\ {signer.cert} \in SUBSET Seconds
      /\ {} \in SUBSET Seconds /\ NewRequest \in Status
  BY SecretFields, NewTypes DEF Types
<1>2. ASSUME NEW n, SoundStatus(r, n), pass' = Write("status", r, n, {})
      PROVE  pass' \in Passes
  BY <1>1, <1>2, WriteType DEF SoundStatus
<1>3. CASE pass' = Write("copy", r, NewRequest, {signer.cert})
  BY <1>1, <1>3, WriteType
<1>4. ASSUME NEW kind \in {"signer", "leaf"}, pass' = Write(kind, r, NewRequest, {})
      PROVE  pass' \in Passes
  BY <1>1, <1>4, WriteType
<1>5. ASSUME NEW certs, SoundBundle(r, certs), pass' = Write("bundle", r, NewRequest, certs)
      PROVE  pass' \in Passes
  <2>1. certs \in SUBSET Seconds
    BY <1>1, <1>5 DEF SoundBundle, OnlyAfter
  <2> QED
    BY <1>1, <1>5, <2>1, WriteType
<1> QED
  BY <1>2, <1>3, <1>4, <1>5, ProcessSound

\* The first states have the types.
LEMMA InitTypes == Init => Types
<1> SUFFICES ASSUME Init PROVE Types
  OBVIOUS
<1>1. /\ clock = 0 /\ signer = [cert |-> 0, forced |-> FALSE] /\ bundle = {0} /\ total = {0}
      /\ leaf = [issuer |-> 0, forced |-> FALSE] /\ kept \in Maybe({0}) /\ rotator = AtRest
      /\ kas = [k \in Replicas |-> {0}] /\ crr = [r \in Requests |-> NewRequest]
      /\ copy = [r \in Requests |-> None] /\ pass = Idle /\ faults = 0
  BY DEF Init
<1>2. clock \in Seconds /\ bundle \in SUBSET Seconds /\ total \in SUBSET Seconds
  BY <1>1, SecondsFacts
<1>3. signer \in Signers /\ signer.cert = 0 /\ signer.cert <= clock
  BY <1>1, SecondsFacts DEF Signers
<1>4. leaf \in Leaves
  BY <1>1, SecondsFacts DEF Leaves
<1>5. rotator \in Rotators /\ rotator.at = "signer"
  BY <1>1, NewTypes DEF AtRest
<1>6. kas \in [Replicas -> SUBSET Seconds]
  BY <1>1, SecondsFacts
<1>7. crr \in [Requests -> Status] /\ copy \in [Requests -> Maybe(Seconds)] /\ pass \in Passes
  BY <1>1, NewTypes DEF Maybe
<1>8. faults \in 0 .. MaxFaults
  BY <1>1, RevocationBounds
<1> QED
  BY <1>1, <1>2, <1>3, <1>4, <1>5, <1>6, <1>7, <1>8 DEF Types

\* Every step keeps the types.
LEMMA StepTypes == IInv /\ [Next]_vars => Types'
<1> SUFFICES ASSUME IInv, [Next]_vars PROVE Types'
  OBVIOUS
<1>t. Types /\ RequestInv
  BY DEF IInv
<1>1. CASE UNCHANGED vars
  BY <1>1, <1>t DEF Types, vars
<1>2. CASE Tick
  <2>1. clock \in Nat /\ signer.cert \in Nat /\ clock' \in Seconds /\ clock' = clock + 1
    BY <1>2, <1>t, SecretFields, SecondsFacts, RevocationBounds DEF Types, Tick, Seconds
  <2>2. signer.cert <= clock'
    BY <1>t, <2>1 DEF Types
  <2> QED
    BY <1>2, <1>t, <2>1, <2>2 DEF Types, Tick
<1>3. CASE DeleteKept
  BY <1>3, <1>t DEF Types, DeleteKept, Maybe
<1>4. ASSUME NEW r \in Requests, CreateRequest(r) PROVE Types'
  BY <1>4, <1>t, CreateEffect DEF Types, CreateRequest
<1>5. ASSUME NEW r \in Requests, ProcessRequest(r) PROVE Types'
  BY <1>5, <1>t, ProcessType DEF Types, ProcessRequest
<1>6. ASSUME NEW r \in Requests, ApplyWrite(r) PROVE Types'
  <2>1. bundle' \in SUBSET Seconds
    BY <1>6, <1>t, PassFields DEF Types, ApplyWrite
  <2>2. /\ pass' \in Passes
        /\ UNCHANGED <<clock, kept, rotator, total, kas, faults>>
    BY <1>6, NewTypes DEF ApplyWrite
  <2> QED
    BY <1>6, <1>t, <2>1, <2>2, ApplyEffect, MarkEffect DEF Types
<1>7. CASE \/ Crash \/ WriteFails
           \/ \E r \in Requests : Panic(r)
  <2>1. /\ pass' \in Passes /\ faults' \in 0 .. MaxFaults
        /\ UNCHANGED <<clock, signer, bundle, leaf, kept, total, kas, crr, copy>>
    BY <1>7, <1>t, NewTypes, RevocationBounds DEF Types, Crash, WriteFails, Panic, Restart
  <2>2. rotator' = rotator \/ rotator' = AtRest
    BY <1>7 DEF Crash, WriteFails, Panic, Restart
  <2>3. rotator' \in Rotators /\ (rotator'.at # "signer" => rotator'.ca = signer.cert)
    <3>1. CASE rotator' = rotator
      BY <3>1, <1>t DEF Types
    <3>2. CASE rotator' = AtRest
      BY <3>2, NewTypes DEF AtRest
    <3> QED
      BY <2>2, <3>1, <3>2
  <2> QED
    BY <1>t, <2>1, <2>3 DEF Types
<1>8. CASE EnsureSigningCertKeyPair \/ RefreshSigner
  <2>1. /\ faults' \in 0 .. MaxFaults
        /\ UNCHANGED <<clock, bundle, leaf, kept, total, kas, crr, copy, pass>>
    BY <1>8, <1>t, RevocationBounds DEF Types, EnsureSigningCertKeyPair, RefreshSigner
  <2> QED
    BY <1>8, <1>t, <2>1, SignerEffect DEF Types
<1>9. CASE EnsureConfigMapCABundle
  <2>1. bundle' \in SUBSET Seconds
    BY <1>9, <1>t, BundleEffect, SecretFields DEF Types
  <2> QED
    BY <1>9, <1>t, <2>1, BundleEffect DEF Types, EnsureConfigMapCABundle
<1>10. CASE EnsureTargetCertKeyPair
  <2>1. rotator' \in Rotators /\ rotator'.at = "signer"
    BY <1>10, NewTypes DEF EnsureTargetCertKeyPair, AtRest
  <2> QED
    BY <1>10, <1>t, <2>1, LeafEffect DEF Types, EnsureTargetCertKeyPair
<1>11. CASE ManageClientCABundle
  BY <1>11, <1>t DEF Types, ManageClientCABundle
<1>12. ASSUME NEW k \in Replicas, LoadBundle(k) PROVE Types'
  <2>1. kas' \in [Replicas -> SUBSET Seconds]
    BY <1>12, <1>t DEF Types, LoadBundle
  <2> QED
    BY <1>12, <1>t, <2>1 DEF Types, LoadBundle
<1> QED
  BY <1>1, <1>2, <1>3, <1>4, <1>5, <1>6, <1>7, <1>8, <1>9, <1>10, <1>11, <1>12 DEF Next

----------------------------------------------------------------------------
(* What a request reports stays true *)

\* What every step but the write of a pass does to the state that the invariants
\* are about: only the current signer enters the bundle, only a newer signer replaces it,
\* and only it issues a stored certificate.
Quiet ==
    /\ copy' = copy
    /\ \A r \in Requests :
          /\ crr'[r].cutoff = crr[r].cutoff /\ crr'[r].previous = crr[r].previous
          /\ crr'[r].root = crr[r].root /\ crr'[r].revoked = crr[r].revoked
    /\ signer'.cert >= signer.cert
    /\ bundle \subseteq bundle' /\ bundle' \subseteq bundle \cup {signer.cert}
    /\ total' = total \/ total' = bundle
    /\ StoredLeaves' \subseteq StoredLeaves \cup {signer.cert}

\* A step other than a status write of the controller is such a quiet step.
LEMMA StepQuiet ==
    ASSUME Types, [Next]_vars
    PROVE  Quiet \/ \E r \in Requests : ApplyWrite(r)
<1>0. signer.cert >= signer.cert
  <2>1. signer.cert \in Nat
    BY SecretFields, SecondsFacts
  <2> QED
    BY <2>1
<1>1. CASE UNCHANGED <<signer, bundle, leaf, kept, total, crr, copy>>
  BY <1>0, <1>1 DEF Quiet, StoredLeaves
<1>2. CASE DeleteKept
  BY <1>0, <1>2 DEF Quiet, DeleteKept, StoredLeaves
<1>3. ASSUME NEW q \in Requests, CreateRequest(q) PROVE Quiet
  BY <1>0, <1>3, CreateEffect DEF Quiet, CreateRequest, StoredLeaves
<1>4. CASE EnsureSigningCertKeyPair \/ RefreshSigner
  <2>1. UNCHANGED <<bundle, leaf, kept, total, crr, copy>>
    BY <1>4 DEF EnsureSigningCertKeyPair, RefreshSigner
  <2>2. signer'.cert >= signer.cert
    BY <1>4, SignerEffect
  <2> QED
    BY <2>1, <2>2 DEF Quiet, StoredLeaves
<1>5. CASE EnsureConfigMapCABundle
  BY <1>0, <1>5, BundleEffect DEF Quiet, EnsureConfigMapCABundle, StoredLeaves
<1>6. CASE EnsureTargetCertKeyPair
  BY <1>0, <1>6, LeafEffect DEF Quiet, EnsureTargetCertKeyPair, StoredLeaves
<1>7. CASE ManageClientCABundle
  BY <1>0, <1>7 DEF Quiet, ManageClientCABundle, StoredLeaves
<1>8. CASE \/ UNCHANGED vars \/ Tick \/ Crash \/ WriteFails
           \/ \E r \in Requests : ProcessRequest(r) \/ Panic(r)
           \/ \E k \in Replicas : LoadBundle(k)
  BY <1>1, <1>8 DEF vars, Tick, Crash, WriteFails, ProcessRequest, Panic, Restart, LoadBundle
<1> QED
  BY <1>2, <1>3, <1>4, <1>5, <1>6, <1>7, <1>8 DEF Next

\* The report stays true while the request keeps its timestamp and its copy, the
\* signer only gets newer, and what enters the bundle is not revoked.
LEMMA RevokedKept ==
    ASSUME Types, Types', NEW r \in Requests, RevokedFor(r),
           copy[r] # None, copy[r] <= crr[r].cutoff + 1,
           crr'[r].cutoff = crr[r].cutoff, crr'[r].previous, copy'[r] = copy[r],
           signer'.cert >= signer.cert,
           \A c \in bundle' : c \in bundle \cup {signer.cert} \/ c > crr[r].cutoff + 1,
           total' = total \/ total' = bundle
    PROVE  RevokedFor(r)'
<1>1. /\ signer.cert \in Nat /\ crr[r].cutoff \in Nat /\ copy[r] \in Nat
      /\ bundle \in SUBSET Nat
  BY SecretFields, SecondsFacts, StatusFields DEF Types
<1>2. signer'.cert \in Nat
  <2>1. signer' \in Signers
    BY DEF Types
  <2>2. signer'.cert \in Seconds
    BY <2>1 DEF Signers
  <2> QED
    BY <2>2, SecondsFacts
<1>3. signer.cert > crr[r].cutoff + 1 /\ AllAfter(bundle, crr[r].cutoff) /\ copy[r] \notin total
  BY DEF RevokedFor
<1>4. signer'.cert > crr[r].cutoff + 1
  BY <1>1, <1>2, <1>3
<1>5. AllAfter(bundle', crr[r].cutoff)
  BY <1>3 DEF AllAfter
<1>6. copy[r] \notin bundle
  BY <1>1, <1>3 DEF AllAfter
<1>7. copy[r] \notin total'
  BY <1>3, <1>6
<1>8. crr[r].cutoff # None
  BY DEF RevokedFor
<1> QED
  BY <1>4, <1>5, <1>7, <1>8 DEF RevokedFor

\* Every step keeps what a request records and reports true.
LEMMA StepRequests == IInv /\ Types' /\ [Next]_vars => RequestInv'
<1> SUFFICES ASSUME IInv, Types', [Next]_vars PROVE RequestInv'
  OBVIOUS
<1>t. Types /\ RequestInv /\ PassInv
  BY DEF IInv
<1>1. ASSUME Quiet, NEW r \in Requests
      PROVE  /\ copy'[r] # None => crr'[r].cutoff # None /\ copy'[r] <= crr'[r].cutoff + 1
             /\ crr'[r].previous => copy'[r] # None
             /\ crr'[r].root = "True" => crr'[r].previous
             /\ crr'[r].revoked = "True" => RevokedFor(r)'
  <2>1. /\ copy'[r] # None => crr'[r].cutoff # None /\ copy'[r] <= crr'[r].cutoff + 1
        /\ crr'[r].previous => copy'[r] # None
        /\ crr'[r].root = "True" => crr'[r].previous
    BY <1>1, <1>t DEF Quiet, RequestInv
  <2>2. ASSUME crr'[r].revoked = "True" PROVE RevokedFor(r)'
    <3>1. RevokedFor(r) /\ crr[r].previous /\ copy[r] # None /\ copy[r] <= crr[r].cutoff + 1
      BY <1>1, <1>t, <2>2 DEF Quiet, RequestInv, RevokedFor
    <3> QED
      BY <1>1, <1>t, <3>1, RevokedKept DEF Quiet
  <2> QED
    BY <2>1, <2>2
<1>2. ASSUME NEW q \in Requests, ApplyWrite(q), NEW r \in Requests
      PROVE  /\ copy'[r] # None => crr'[r].cutoff # None /\ copy'[r] <= crr'[r].cutoff + 1
             /\ crr'[r].previous => copy'[r] # None
             /\ crr'[r].root = "True" => crr'[r].previous
             /\ crr'[r].revoked = "True" => RevokedFor(r)'
  <2>1. /\ copy[r] # None => crr[r].cutoff # None /\ copy[r] <= crr[r].cutoff + 1
        /\ crr[r].previous => copy[r] # None
        /\ crr[r].root = "True" => crr[r].previous
        /\ crr[r].revoked = "True" => RevokedFor(r)
    BY <1>t DEF RequestInv
  <2>2. total' = total /\ signer'.cert = signer.cert /\ signer.cert >= signer.cert
    <3>1. signer.cert \in Nat
      BY <1>t, SecretFields, SecondsFacts
    <3> QED
      BY <1>2, <1>t, <3>1, MarkEffect DEF ApplyWrite
  <2>3. /\ pass.req = {q}
        /\ pass.kind # "bundle" => bundle' = bundle
        /\ pass.kind = "bundle" => bundle' = pass.certs
    BY <1>2 DEF ApplyWrite
  <2>4. ASSUME RevokedFor(r), crr[r].revoked = "True" \/ pass.kind # "bundle",
               crr'[r].cutoff = crr[r].cutoff, crr'[r].previous, copy'[r] = copy[r]
        PROVE  RevokedFor(r)'
    <3>1. pass.kind = "bundle" => AllAfter(bundle', crr[r].cutoff)
      BY <2>3, <2>4, <1>t DEF PassInv, BundleDue
    <3>2. \A c \in bundle' : c \in bundle \cup {signer.cert} \/ c > crr[r].cutoff + 1
      BY <2>3, <3>1 DEF AllAfter
    <3>3. copy[r] # None /\ copy[r] <= crr[r].cutoff + 1
      BY <2>1, <2>4 DEF RevokedFor
    <3> QED
      BY <1>t, <2>2, <2>4, <3>2, <3>3, RevokedKept
  <2>5. CASE r # q \/ pass.kind \notin {"status", "copy"}
    <3>1. crr'[r] = crr[r] /\ copy'[r] = copy[r]
      BY <1>2, <2>5, ApplyEffect
    <3>2. crr[r].revoked = "True" => crr[r].previous
      BY <2>1 DEF RevokedFor
    <3> QED
      BY <2>1, <2>4, <3>1, <3>2
  <2>6. CASE r = q /\ pass.kind = "status"
    <3>1. crr'[r] = pass.status /\ copy'[r] = copy[r] /\ StatusDue(r)
      BY <1>2, <1>t, <2>3, <2>6, ApplyEffect DEF PassInv
    <3>2. /\ crr[r].cutoff = None \/ crr'[r].cutoff = crr[r].cutoff
          /\ crr[r].previous => crr'[r].previous
          /\ crr'[r].previous => copy[r] # None
          /\ crr'[r].root = "True" => crr'[r].previous
          /\ crr'[r].revoked = "True" => RevokedFor(r)
      BY <3>1 DEF StatusDue
    <3>3. crr'[r].revoked = "True" => RevokedFor(r)'
      BY <2>4, <2>6, <3>1, <3>2 DEF RevokedFor
    <3> QED
      BY <2>1, <3>1, <3>2, <3>3
  <2>7. CASE r = q /\ pass.kind = "copy"
    <3>1. CopyDue(r) /\ crr'[r] = crr[r] /\ copy'[r] \in Seconds /\ copy'[r] <= crr[r].cutoff + 1
      BY <1>2, <1>t, <2>3, <2>7, ApplyEffect DEF PassInv
    <3>2. copy'[r] # None /\ crr[r].cutoff # None /\ copy[r] = None
      BY <3>1, SecondsFacts DEF CopyDue
    <3>3. crr[r].revoked # "True"
      BY <2>1, <3>2 DEF RevokedFor
    <3> QED
      BY <2>1, <3>1, <3>2, <3>3
  <2> QED
    BY <2>5, <2>6, <2>7
<1> QED
  BY <1>1, <1>2, <1>t, StepQuiet DEF RequestInv

----------------------------------------------------------------------------
(* What a pass has decided on stays right until it is written *)

\* A decision is right when it is made (processCertificateRevocationRequest).
LEMMA DecisionRight ==
    ASSUME Types, RequestInv, NEW r \in Requests, ProcessRequest(r)
    PROVE  PassInv'
<1> SUFFICES ASSUME NEW q \in Requests, pass'.req = {q}
             PROVE  /\ pass'.kind = "status" => StatusDue(q)'
                    /\ pass'.kind = "copy" => CopyDue(q)'
                    /\ pass'.kind = "bundle" => BundleDue(q)'
  BY DEF PassInv
<1>1. UNCHANGED <<signer, bundle, leaf, kept, total, crr, copy>>
  BY DEF ProcessRequest
<1>2. /\ bundle \in SUBSET Seconds /\ {signer.cert} \in SUBSET Seconds /\ signer.cert \in Seconds
      /\ {} \in SUBSET Seconds /\ NewRequest \in Status
  BY SecretFields, NewTypes DEF Types
<1>3. ASSUME NEW n, SoundStatus(r, n), pass' = Write("status", r, n, {})
      PROVE  pass'.kind = "status" /\ q = r /\ StatusDue(q)'
  <2>1. pass'.kind = "status" /\ pass'.req = {r} /\ pass'.status = n
    BY SMTT(30), <1>2, <1>3, WriteType DEF SoundStatus
  <2>2. RevokedFor(r)' <=> RevokedFor(r)
    BY <1>1 DEF RevokedFor, AllAfter
  <2> QED
    BY <1>1, <1>3, <2>1, <2>2 DEF SoundStatus, StatusDue
<1>4. ASSUME Committed(r), NeedsRegeneration(r), copy[r] = None,
             pass' = Write("copy", r, NewRequest, {signer.cert})
      PROVE  pass'.kind = "copy" /\ q = r /\ CopyDue(q)'
  <2>1. pass'.kind = "copy" /\ pass'.req = {r} /\ pass'.certs = {signer.cert}
    BY <1>2, <1>4, WriteType
  <2>2. signer.cert <= crr[r].cutoff + 1
    <3>1. signer.cert \in Nat /\ crr[r].cutoff \in Nat
      BY <1>2, SecondsFacts, StatusFields DEF Types
    <3> QED
      BY <1>4, <3>1 DEF NeedsRegeneration, OnlyAfter
  <2> QED
    BY <1>1, <1>2, <1>4, <2>1, <2>2 DEF CopyDue, Committed
<1>5. ASSUME NEW kind \in {"signer", "leaf"}, pass' = Write(kind, r, NewRequest, {})
      PROVE  pass'.kind = kind
  BY <1>2, <1>5, WriteType
<1>6. ASSUME NEW certs, SoundBundle(r, certs), pass' = Write("bundle", r, NewRequest, certs)
      PROVE  pass'.kind = "bundle" /\ q = r /\ BundleDue(q)'
  <2>1. certs \in SUBSET Seconds /\ certs \subseteq bundle
    BY <1>2, <1>6 DEF SoundBundle, OnlyAfter
  <2>2. pass'.kind = "bundle" /\ pass'.req = {r} /\ pass'.certs = certs /\ pass'.read = bundle
    BY <1>2, <1>6, <2>1, WriteType
  <2>3. \A p \in Requests : crr[p].revoked = "True" => AllAfter(certs, crr[p].cutoff)
    BY <2>1 DEF RequestInv, RevokedFor, AllAfter
  <2>4. StoredLeaves' = StoredLeaves
    BY <1>1 DEF StoredLeaves
  <2>5. \A p \in Requests : crr'[p].revoked = "True" => AllAfter(pass'.certs, crr'[p].cutoff)
    BY <1>1, <2>2, <2>3
  <2> QED
    BY <1>1, <1>6, <2>2, <2>4, <2>5 DEF SoundBundle, BundleDue
<1> QED
  BY <1>3, <1>4, <1>5, <1>6, ProcessSound

\* The other steps leave a decision right, or drop it.
LEMMA DecisionKept ==
    ASSUME IInv, Types', Quiet, pass' = pass
    PROVE  PassInv'
<1>t. Types /\ RequestInv /\ PassInv
  BY DEF IInv
<1> SUFFICES ASSUME NEW r \in Requests, pass.req = {r}
             PROVE  /\ pass.kind = "status" => StatusDue(r)'
                    /\ pass.kind = "copy" => CopyDue(r)'
                    /\ pass.kind = "bundle" => BundleDue(r)'
  BY DEF PassInv
<1>1. /\ copy' = copy
      /\ crr'[r].cutoff = crr[r].cutoff /\ crr'[r].previous = crr[r].previous
  BY DEF Quiet
<1>2. ASSUME pass.kind = "status" PROVE StatusDue(r)'
  <2>1. StatusDue(r)
    BY <1>t, <1>2 DEF PassInv
  <2>2. ASSUME RevokedFor(r) PROVE RevokedFor(r)'
    <3>1. crr[r].previous /\ copy[r] # None /\ copy[r] <= crr[r].cutoff + 1
      BY <1>t, <2>2 DEF RequestInv, RevokedFor
    <3> QED
      BY <1>t, <1>1, <2>2, <3>1, RevokedKept DEF Quiet
  <2> QED
    BY <1>1, <2>1, <2>2 DEF StatusDue
<1>3. ASSUME pass.kind = "copy" PROVE CopyDue(r)'
  BY <1>t, <1>1, <1>3 DEF PassInv, CopyDue
<1>4. ASSUME pass.kind = "bundle" PROVE BundleDue(r)'
  <2>1. BundleDue(r)
    BY <1>t, <1>4 DEF PassInv
  <2>2. signer'.cert > crr[r].cutoff + 1
    <3>1. signer' \in Signers /\ signer.cert \in Nat /\ crr[r].cutoff \in Nat
      BY <1>t, SecretFields, SecondsFacts, StatusFields DEF Types
    <3>2. signer'.cert \in Nat
      BY <3>1, SecondsFacts DEF Signers
    <3> QED
      BY <2>1, <3>1, <3>2 DEF BundleDue, Quiet
  <2>3. StoredLeaves' \cap pass.read \subseteq pass.certs
    <3>1. signer.cert \in pass.read => signer.cert \in pass.certs
      BY <2>1 DEF BundleDue, OnlyAfter
    <3> QED
      BY <2>1, <3>1 DEF BundleDue, Quiet
  <2>4. \A q \in Requests : crr'[q].revoked = "True" => AllAfter(pass.certs, crr'[q].cutoff)
    BY <2>1 DEF BundleDue, Quiet
  <2>5. pass.certs = OnlyAfter(pass.read, crr'[r].cutoff) /\ crr'[r].cutoff # None
    BY <1>1, <2>1 DEF BundleDue
  <2> QED
    BY <1>1, <2>2, <2>3, <2>4, <2>5 DEF BundleDue
<1> QED
  BY <1>2, <1>3, <1>4

\* Every step keeps the decision of the pass right.
LEMMA StepPass == IInv /\ Types' /\ [Next]_vars => PassInv'
<1> SUFFICES ASSUME IInv, Types', [Next]_vars PROVE PassInv'
  OBVIOUS
<1>t. Types /\ RequestInv
  BY DEF IInv
<1>1. CASE pass' = Idle
  BY <1>1 DEF PassInv, Idle
<1>2. CASE \E r \in Requests : ProcessRequest(r)
  BY <1>t, <1>2, DecisionRight
<1>3. CASE pass' = pass /\ ~ \E r \in Requests : ApplyWrite(r)
  BY <1>t, <1>3, StepQuiet, DecisionKept
<1>4. CASE \E r \in Requests : ApplyWrite(r)
  BY <1>1, <1>4 DEF ApplyWrite
<1>5. pass' = pass \/ pass' = Idle \/ \E r \in Requests : ProcessRequest(r) \/ ApplyWrite(r)
  BY DEF Next, vars, Tick, DeleteKept, CreateRequest, Panic, Restart, EnsureSigningCertKeyPair,
         RefreshSigner, EnsureConfigMapCABundle, EnsureTargetCertKeyPair, ManageClientCABundle,
         LoadBundle, Crash, WriteFails
<1> QED
  BY <1>1, <1>2, <1>3, <1>4, <1>5

----------------------------------------------------------------------------
(* The theorems *)

\* IInv holds in the first states and every step keeps it.
LEMMA Inductive == Spec => []IInv
<1>1. Init => IInv
  <2> SUFFICES ASSUME Init PROVE IInv
    OBVIOUS
  <2>1. \A r \in Requests : crr[r] = NewRequest /\ copy[r] = None
    BY DEF Init
  <2>2. RequestInv
    BY <2>1 DEF RequestInv, NewRequest
  <2>3. PassInv
    BY DEF Init, PassInv, Idle
  <2> QED
    BY <2>2, <2>3, InitTypes DEF IInv
<1>2. IInv /\ [Next]_vars => IInv'
  BY StepTypes, StepRequests, StepPass DEF IInv
<1> QED
  BY <1>1, <1>2, PTL DEF Spec

\* The signer that a request keeps a copy of to test the revocation with
\* (generateNewSignerCertificate) is always one that the request revokes, for any
\* number of requests and whatever the rotator mints meanwhile.
THEOREM CopyRevoked == Spec => []CopyIsRevoked
<1>1. IInv => CopyIsRevoked
  <2> SUFFICES ASSUME IInv, NEW r \in Requests, crr[r].previous
               PROVE  OnlyAfter({copy[r]}, crr[r].cutoff) = {}
    BY DEF CopyIsRevoked
  <2>1. copy[r] <= crr[r].cutoff + 1
    BY DEF IInv, RequestInv
  <2>2. copy[r] \in Nat /\ crr[r].cutoff \in Nat
    BY SecondsFacts, StatusFields DEF IInv, Types
  <2> QED
    BY <2>1, <2>2 DEF OnlyAfter
<1> QED
  BY <1>1, Inductive, PTL

\* What a request reports revoked (ensureOldSignerCertificateRevoked) stays out of
\* the class's bundle, and the tested signer out of the total bundle, for any number
\* of requests, through every later rotation, crash and lost write.
THEOREM RevokedForGood == Spec => []RevokedStaysPruned
<1>1. IInv => RevokedStaysPruned
  BY OnlyAfterAll DEF IInv, RequestInv, RevokedFor, RevokedStaysPruned
<1> QED
  BY <1>1, Inductive, PTL

\* Pruning (prunePreviousSignerCertificates) never takes the trust from a stored
\* certificate, unless the bundle has changed since the pass read it: a leaf that is signed
\* between the decision and the write is signed by the new signer.
THEOREM PruneSafe == Spec => PruneKeepsLeaves
<1> DEFINE Kept == \A c \in Trusted(bundle, StoredLeaves) : c \notin bundle' => bundle # pass.read
<1>1. IInv /\ [Next]_vars => [Kept]_vars
  <2> SUFFICES ASSUME IInv, [Next]_vars, NEW c \in Trusted(bundle, StoredLeaves),
                      c \notin bundle', bundle = pass.read
               PROVE  FALSE
    OBVIOUS
  <2>1. c \in StoredLeaves \cap pass.read
    BY DEF Trusted
  <2>2. PICK r \in Requests : ApplyWrite(r)
    BY StepQuiet DEF IInv, Quiet, Trusted
  <2>3. pass.req = {r} /\ pass.kind = "bundle" /\ bundle' = pass.certs
    BY <2>1, <2>2 DEF ApplyWrite
  <2>4. BundleDue(r)
    BY <2>3 DEF IInv, PassInv
  <2> QED
    BY <2>1, <2>3, <2>4 DEF BundleDue
<1> QED
  BY <1>1, Inductive, PTL DEF Spec, PruneKeepsLeaves


----------------------------------------------------------------------------
(* A pass makes one write for one request *)

OneWrite ==
    \/ pass = Idle
    \/ pass.kind # "none" /\ \E r \in Requests : pass.req = {r}

\* Every step starts at most one write, and only when none is due.
LEMMA StepOneWrite ==
    ASSUME IInv, OneWrite, [Next]_vars
    PROVE  OneWrite'
<1>t. Types /\ RequestInv
  BY DEF IInv
<1>1. ASSUME NEW r \in Requests, ProcessRequest(r) PROVE OneWrite'
  <2>1. \/ \E n : pass' = Write("status", r, n, {})
        \/ pass' = Write("copy", r, NewRequest, {signer.cert})
        \/ \E kind \in {"signer", "leaf"} : pass' = Write(kind, r, NewRequest, {})
        \/ \E certs : pass' = Write("bundle", r, NewRequest, certs)
    BY Zenon, <1>t, <1>1, ProcessSound
  <2>2. pass'.kind # "none" /\ pass'.req = {r}
    <3>1. \A kind, n, certs : /\ Write(kind, r, n, certs).kind = kind
                              /\ Write(kind, r, n, certs).req = {r}
      BY DEF Write
    <3> QED
      BY <2>1, <3>1
  <2> QED
    BY Zenon, <2>2 DEF OneWrite
<1>2. CASE pass' = Idle \/ pass' = pass
  BY Zenon, <1>2 DEF OneWrite, Idle
<1>3. CASE \/ Crash \/ WriteFails \/ \E r \in Requests : ApplyWrite(r) \/ Panic(r)
  BY Zenon, <1>2, <1>3 DEF Crash, WriteFails, ApplyWrite, Panic, Restart
<1>4. CASE \/ Tick \/ DeleteKept \/ EnsureSigningCertKeyPair \/ RefreshSigner
           \/ EnsureConfigMapCABundle \/ EnsureTargetCertKeyPair \/ ManageClientCABundle
           \/ \E k \in Replicas : LoadBundle(k)
           \/ \E r \in Requests : CreateRequest(r)
           \/ UNCHANGED vars
  BY Zenon, <1>2, <1>4 DEF Tick, DeleteKept, EnsureSigningCertKeyPair, RefreshSigner,
     EnsureConfigMapCABundle, EnsureTargetCertKeyPair, ManageClientCABundle, LoadBundle,
     CreateRequest, vars
<1> QED
  BY Zenon, <1>1, <1>3, <1>4 DEF Next

\* The four parties keep the types of what they share, and a pass has at most one
\* write, for one request, in flight.
THEOREM RevocationTypes == Spec => []TypeOK
<1>1. Init => OneWrite
  BY DEF Init, OneWrite
<1>2. IInv /\ OneWrite /\ [Next]_vars => OneWrite'
  BY StepOneWrite
<1>3. IInv /\ OneWrite => TypeOK
  <2> SUFFICES ASSUME IInv, OneWrite PROVE TypeOK
    OBVIOUS
  <2>1. Cardinality(pass.req) = IF pass.kind = "none" THEN 0 ELSE 1
    <3>1. CASE pass = Idle
      BY <3>1, FS_EmptySet DEF Idle
    <3>2. CASE pass.kind # "none" /\ \E r \in Requests : pass.req = {r}
      BY <3>2, FS_Singleton
    <3> QED
      BY <3>1, <3>2 DEF OneWrite
  <2> QED
    BY <2>1, PassFields DEF IInv, Types, Signers, Leaves, Rotators, TypeOK
<1> QED
  BY <1>1, <1>2, <1>3, Inductive, PTL DEF Spec
=============================================================================
