------------------------ MODULE CertificateRevocation ------------------------
(***************************************************************************)
(* Revocation of one signer class of break-glass credentials by the        *)
(* control-plane-pki-operator.                                             *)
(*                                                                         *)
(* Four parties share the secrets and config maps of the control plane     *)
(* namespace, and none of them locks the others out: the revocation        *)
(* controller, which walks every CertificateRevocationRequest through its  *)
(* six steps with one write per pass; the certificate rotator of           *)
(* library-go, which mints the signer, adds it to the class's bundle and   *)
(* mints the leaf; the target config controller, which copies the bundle   *)
(* into the bundle the kube-apiservers mount; and the kube-apiservers,     *)
(* which load that bundle when they notice it changed.                     *)
(*                                                                         *)
(* A signer is named by the second it was minted in, as its common name    *)
(* is; two signers minted within one second are not told apart.            *)
(***************************************************************************)
EXTENDS Naturals, FiniteSets

CONSTANTS
    Requests,   \* names of CertificateRevocationRequests of the class
    Replicas,   \* kube-apiserver pods behind the service
    MaxClock,   \* bound: the last second
    MaxFaults   \* bound: routine refreshes, crashes and lost writes, together

ASSUME RevocationBounds == MaxClock \in Nat \ {0, 1} /\ MaxFaults \in Nat

VARIABLES
    clock,    \* seconds
    signer,   \* the signer secret: its certificate, and whether it is marked
    bundle,   \* the class's CA bundle config map
    leaf,     \* the client certificate secret: its issuer, and whether it is marked
    kept,     \* issuer of a credential kept in a secret the rotator does not manage
    rotator,  \* how far the rotator's sync has come, and what it holds
    total,    \* the total client CA bundle config map
    kas,      \* per kube-apiserver, the bundle it has loaded
    crr,      \* per request, its status
    copy,     \* per request, the copied previous signer
    pass,     \* the write that the revocation controller's pass has decided on
    faults

vars == <<clock, signer, bundle, leaf, kept, rotator, total, kas, crr, copy, pass, faults>>

Seconds == 0 .. MaxClock
None == MaxClock + 1
Maybe(S) == S \cup {None}
Conditions == {"Unset", "False", "True"}

Status == [created  : BOOLEAN,
           cutoff   : Maybe(Seconds),   \* revocationTimestamp
           previous : BOOLEAN,          \* previousSigner
           root     : Conditions,       \* RootCertificatesRegenerated
           trusted  : Conditions,       \* NewCertificatesTrusted
           leaves   : Conditions,       \* LeafCertificatesRegenerated
           revoked  : Conditions]       \* PreviousCertificatesRevoked

NewRequest == [created |-> FALSE, cutoff |-> None, previous |-> FALSE, root |-> "Unset",
               trusted |-> "Unset", leaves |-> "Unset", revoked |-> "Unset"]

Write(kind, r, status, certs) ==
    [kind |-> kind, req |-> {r}, status |-> status, certs |-> certs, read |-> bundle]
Idle == [kind |-> "none", req |-> {}, status |-> NewRequest, certs |-> {}, read |-> {}]

AtRest == [at |-> "signer", ca |-> None, lost |-> FALSE]

\* The one type invariant.
TypeOK ==
    /\ clock \in Seconds
    /\ signer \in [cert : Seconds, forced : BOOLEAN]
    /\ bundle \subseteq Seconds
    /\ leaf \in [issuer : Seconds, forced : BOOLEAN]
    /\ kept \in Maybe({0})
    /\ rotator \in [at : {"signer", "bundle", "leaf"}, ca : Maybe(Seconds), lost : BOOLEAN]
    /\ total \subseteq Seconds
    /\ kas \in [Replicas -> SUBSET Seconds]
    /\ crr \in [Requests -> Status]
    /\ copy \in [Requests -> Maybe(Seconds)]
    /\ pass.kind \in {"none", "status", "copy", "signer", "leaf", "bundle"}
    /\ pass.req \subseteq Requests /\ Cardinality(pass.req) = IF pass.kind = "none" THEN 0 ELSE 1
    /\ pass.status \in Status
    /\ pass.certs \subseteq Seconds /\ pass.read \subseteq Seconds
    /\ faults \in 0 .. MaxFaults

Init ==
    /\ clock = 0
    /\ signer = [cert |-> 0, forced |-> FALSE]
    /\ bundle = {0}
    /\ leaf = [issuer |-> 0, forced |-> FALSE]
    /\ kept \in Maybe({0})
    /\ rotator = AtRest
    /\ total = {0}
    /\ kas = [k \in Replicas |-> {0}]
    /\ crr = [r \in Requests |-> NewRequest]
    /\ copy = [r \in Requests |-> None]
    /\ pass = Idle
    /\ faults = 0

---------------------------------------------------------------------------
\* The clock and the administrator.

\* Bound: the last two seconds wait until every request has its timestamp.
Tick ==
    /\ clock < MaxClock
    /\ clock + 2 >= MaxClock => \A r \in Requests : crr[r].created => crr[r].cutoff # None
    /\ clock' = clock + 1
    /\ UNCHANGED <<signer, bundle, leaf, kept, rotator, total, kas, crr, copy, pass, faults>>

\* A request leaves the clock two more seconds, so that its new signer can be minted.
CreateRequest(r) ==
    /\ ~crr[r].created
    /\ clock + 2 <= MaxClock
    /\ crr' = [crr EXCEPT ![r].created = TRUE]
    /\ UNCHANGED <<clock, signer, bundle, leaf, kept, rotator, total, kas, copy, pass, faults>>

DeleteKept ==
    /\ kept # None
    /\ kept' = None
    /\ UNCHANGED <<clock, signer, bundle, leaf, rotator, total, kas, crr, copy, pass, faults>>

---------------------------------------------------------------------------
\* The steps of a pass.  A certificate minted in second c is valid from c - 1 on.

\* partitionCertificatesByValidity: the certificates only valid after the cutoff.
OnlyAfter(certs, cutoff) == {c \in certs : c > cutoff + 1}

\* trustedCertificates: the issuers that a bundle vouches for.
Trusted(trustBundle, issuers) == issuers \cap trustBundle

Committed(r) == crr[r].created /\ crr[r].cutoff # None
NeedsRegeneration(r) == OnlyAfter({signer.cert}, crr[r].cutoff) = {}

\* What each step leaves behind when it hands off to the next one.
SignerDone(r) == Committed(r) /\ ~NeedsRegeneration(r) /\ crr[r].root = "True"
Propagated(r, k) ==
    SignerDone(r) /\ signer.cert \in Trusted(total, {signer.cert}) /\ signer.cert \in kas[k]
PropagatedDone(r, k) == Propagated(r, k) /\ crr[r].trusted = "True"
\* Mutant of LeafStale: the issuer of the leaf is taken to be the current signer.
LeafNeverStale == FALSE

LeafStale == leaf.issuer < signer.cert
LeavesDone(r, k) == PropagatedDone(r, k) /\ ~LeafStale
Pruned(r) == bundle # {} /\ OnlyAfter(bundle, crr[r].cutoff) = bundle
PrunedDone(r, k) == LeavesDone(r, k) /\ Pruned(r) /\ crr[r].leaves = "True"

WriteStatus(r, status) == pass' = Write("status", r, status, {})

commitRevocationTimestamp(r) ==
    /\ crr[r].created
    /\ crr[r].cutoff = None
    /\ WriteStatus(r, [crr[r] EXCEPT !.cutoff = clock])

CopySigner(r) ==
    /\ Committed(r) /\ NeedsRegeneration(r)
    /\ copy[r] = None
    /\ pass' = Write("copy", r, NewRequest, {signer.cert})

\* Mutant of RecordCopy: the reference is recorded before the copy is made.
RecordCopyEarly(r) ==
    /\ Committed(r) /\ NeedsRegeneration(r)
    /\ ~crr[r].previous
    /\ WriteStatus(r, [crr[r] EXCEPT !.previous = TRUE, !.root = "False"])

RecordCopy(r) ==
    /\ Committed(r) /\ NeedsRegeneration(r)
    /\ copy[r] # None
    /\ ~crr[r].previous
    /\ WriteStatus(r, [crr[r] EXCEPT !.previous = TRUE, !.root = "False"])

MarkSigner(r) ==
    /\ Committed(r) /\ NeedsRegeneration(r)
    /\ copy[r] # None
    /\ crr[r].previous
    /\ ~signer.forced
    /\ pass' = Write("signer", r, NewRequest, {})

RecordNewSigner(r) ==
    /\ Committed(r) /\ ~NeedsRegeneration(r)
    /\ crr[r].root # "True"
    /\ crr[r].previous
    /\ WriteStatus(r, [crr[r] EXCEPT !.root = "True", !.trusted = "False"])

generateNewSignerCertificate(r) ==
    \/ CopySigner(r)
    \/ RecordCopy(r)
    \/ MarkSigner(r)
    \/ RecordNewSigner(r)

ensureNewSignerCertificatePropagated(r, k) ==
    /\ Propagated(r, k)
    /\ crr[r].trusted # "True"
    /\ WriteStatus(r, [crr[r] EXCEPT !.trusted = "True"])

generateNewLeafCertificates(r, k) ==
    /\ PropagatedDone(r, k)
    /\ LeafStale
    /\ pass' = Write("leaf", r, NewRequest, {})

StoredLeaves == {leaf.issuer, kept} \ {None}

\* Mutant of LosesTrust: only the leaf that the rotator manages is looked at.
ManagedLosesTrust(r) == {leaf.issuer} \cap (bundle \ OnlyAfter(bundle, crr[r].cutoff))

LosesTrust(r) ==
    Trusted(bundle, StoredLeaves) \ Trusted(OnlyAfter(bundle, crr[r].cutoff), StoredLeaves)

prunePreviousSignerCertificates(r, k) ==
    /\ LeavesDone(r, k)
    /\ bundle # {}
    /\ \/ /\ ~Pruned(r)
          /\ LosesTrust(r) # {}
          /\ crr[r].leaves # "False"   \* written again, it only moves the transition time
          /\ WriteStatus(r, [crr[r] EXCEPT !.leaves = "False"])
       \/ /\ ~Pruned(r)
          /\ LosesTrust(r) = {}
          /\ pass' = Write("bundle", r, NewRequest, OnlyAfter(bundle, crr[r].cutoff))
       \/ /\ Pruned(r)
          /\ crr[r].leaves # "True"
          /\ WriteStatus(r, [crr[r] EXCEPT !.leaves = "True", !.revoked = "False"])

\* Mutant of ensureOldSignerCertificateRevoked: done as soon as the bundle is pruned.
RevokedWhenPruned(r, k, j) ==
    /\ PrunedDone(r, k)
    /\ crr[r].revoked # "True"
    /\ WriteStatus(r, [crr[r] EXCEPT !.revoked = "True"])

\* The second question goes through the service again, perhaps to another pod.
ensureOldSignerCertificateRevoked(r, k, j) ==
    /\ PrunedDone(r, k)
    /\ Trusted(total, {copy[r]}) = {}
    /\ copy[r] \notin kas[j]
    /\ crr[r].revoked # "True"
    /\ WriteStatus(r, [crr[r] EXCEPT !.revoked = "True"])

\* processCertificateRevocationRequest: the first step that has something to do.
ProcessRequest(r) ==
    /\ pass = Idle
    /\ \/ commitRevocationTimestamp(r)
       \/ generateNewSignerCertificate(r)
       \/ \E k \in Replicas : \/ ensureNewSignerCertificatePropagated(r, k)
                              \/ generateNewLeafCertificates(r, k)
                              \/ prunePreviousSignerCertificates(r, k)
                              \/ \E j \in Replicas : ensureOldSignerCertificateRevoked(r, k, j)
    /\ UNCHANGED <<clock, signer, bundle, leaf, kept, rotator, total, kas, crr, copy, faults>>

\* The write of the pass: server-side apply, which overwrites what it finds.
ApplyWrite(r) ==
    /\ pass.req = {r}
    /\ crr' = IF pass.kind = "status" THEN [crr EXCEPT ![r] = pass.status] ELSE crr
    /\ copy' = IF pass.kind = "copy"
                 THEN [copy EXCEPT ![r] = CHOOSE c \in pass.certs : TRUE] ELSE copy
    /\ signer' = IF pass.kind = "signer" THEN [signer EXCEPT !.forced = TRUE] ELSE signer
    /\ leaf' = IF pass.kind = "leaf" THEN [leaf EXCEPT !.forced = TRUE] ELSE leaf
    /\ bundle' = IF pass.kind = "bundle" THEN pass.certs ELSE bundle
    /\ pass' = Idle
    /\ UNCHANGED <<clock, kept, rotator, total, kas, faults>>

\* The signer was minted anew before the request recorded its previous signer, and
\* RecordNewSigner dereferences the missing reference.
SignerLost(r) ==
    Committed(r) /\ ~NeedsRegeneration(r) /\ crr[r].root # "True" /\ ~crr[r].previous

\* The operator's process ends: in that panic, or for a reason of its own.
Restart ==
    /\ pass' = Idle
    /\ rotator' = AtRest
    /\ UNCHANGED <<clock, signer, bundle, leaf, kept, total, kas, crr, copy>>

Panic(r) == pass = Idle /\ SignerLost(r) /\ rotator # AtRest /\ Restart /\ UNCHANGED faults

Crash ==
    /\ faults < MaxFaults
    /\ <<pass, rotator>> # <<Idle, AtRest>>
    /\ faults' = faults + 1
    /\ Restart

\* The API server refuses the pass's write.
WriteFails ==
    /\ faults < MaxFaults
    /\ pass # Idle
    /\ faults' = faults + 1
    /\ pass' = Idle
    /\ UNCHANGED <<clock, signer, bundle, leaf, kept, rotator, total, kas, crr, copy>>

---------------------------------------------------------------------------
\* The rotator of library-go: signer, then bundle, then leaf.

\* A sync with nothing to do changes nothing.
HasWork == signer.forced \/ leaf.forced \/ signer.cert \notin bundle \/ leaf.issuer \notin bundle

EnsureSigningCertKeyPair ==
    /\ rotator = AtRest
    /\ HasWork
    /\ signer' = IF signer.forced THEN [cert |-> clock, forced |-> FALSE] ELSE signer
    /\ rotator' = [at |-> "bundle", ca |-> signer'.cert, lost |-> FALSE]
    /\ UNCHANGED <<clock, bundle, leaf, kept, total, kas, crr, copy, pass, faults>>

\* The signer is past its refresh time.
RefreshSigner ==
    /\ rotator = AtRest
    /\ faults < MaxFaults
    /\ faults' = faults + 1
    /\ signer' = [cert |-> clock, forced |-> FALSE]
    /\ rotator' = [at |-> "bundle", ca |-> clock, lost |-> FALSE]
    /\ UNCHANGED <<clock, bundle, leaf, kept, total, kas, crr, copy, pass>>

EnsureConfigMapCABundle ==
    /\ rotator.at = "bundle"
    /\ bundle' = bundle \cup {rotator.ca}
    /\ rotator' = [rotator EXCEPT !.at = "leaf", !.lost = leaf.issuer \notin bundle']
    /\ UNCHANGED <<clock, signer, leaf, kept, total, kas, crr, copy, pass, faults>>

EnsureTargetCertKeyPair ==
    /\ rotator.at = "leaf"
    /\ leaf' = IF leaf.forced \/ rotator.lost
                 THEN [issuer |-> rotator.ca, forced |-> FALSE] ELSE leaf
    /\ rotator' = AtRest
    /\ UNCHANGED <<clock, signer, bundle, kept, total, kas, crr, copy, pass, faults>>

---------------------------------------------------------------------------
\* The total bundle, and the kube-apiservers that mount it.

ManageClientCABundle ==
    /\ total # bundle
    /\ total' = bundle
    /\ UNCHANGED <<clock, signer, bundle, leaf, kept, rotator, kas, crr, copy, pass, faults>>

LoadBundle(k) ==
    /\ kas[k] # total
    /\ kas' = [kas EXCEPT ![k] = total]
    /\ UNCHANGED <<clock, signer, bundle, leaf, kept, rotator, total, crr, copy, pass, faults>>

---------------------------------------------------------------------------
Controller(r) == ProcessRequest(r) \/ ApplyWrite(r)
Rotate == EnsureSigningCertKeyPair \/ EnsureConfigMapCABundle \/ EnsureTargetCertKeyPair

Next ==
    \/ Tick \/ DeleteKept
    \/ \E r \in Requests : CreateRequest(r) \/ ProcessRequest(r) \/ ApplyWrite(r) \/ Panic(r)
    \/ EnsureSigningCertKeyPair \/ RefreshSigner
    \/ EnsureConfigMapCABundle \/ EnsureTargetCertKeyPair
    \/ ManageClientCABundle
    \/ \E k \in Replicas : LoadBundle(k)
    \/ Crash \/ WriteFails

Spec == Init /\ [][Next]_vars

\* Every controller has a worker of its own, and the informers hand it every object
\* again each ten minutes; the kube-apiserver polls the files it serves from.
Fairness ==
    /\ WF_vars(Tick)
    /\ \A r \in Requests : WF_vars(Controller(r))
    /\ WF_vars(Rotate)
    /\ WF_vars(ManageClientCABundle)
    /\ \A k \in Replicas : WF_vars(LoadBundle(k))

FairSpec == Spec /\ Fairness

---------------------------------------------------------------------------
\* Condition PreviousCertificatesRevoked as documented: no kube-apiserver accepts a
\* certificate that was valid at the request's timestamp.  It does not hold.
RevokedIsRejected ==
    \A r \in Requests : crr[r].revoked = "True" =>
        \A k \in Replicas : OnlyAfter(kas[k], crr[r].cutoff) = kas[k]

\* Once a request reports the previous certificates revoked, neither the signer it
\* tested nor any other it revokes is in the class's bundle or comes back to it, and
\* the tested one is gone from the bundle the kube-apiservers mount.
RevokedStaysPruned ==
    \A r \in Requests : crr[r].revoked = "True" =>
        /\ OnlyAfter(bundle, crr[r].cutoff) = bundle
        /\ copy[r] \notin total

\* The copy that a request keeps to test the revocation with is a certificate the
\* request revokes, whatever was minted while the copy was made and recorded.
CopyIsRevoked ==
    \A r \in Requests : crr[r].previous => OnlyAfter({copy[r]}, crr[r].cutoff) = {}

\* Pruning never takes the trust from a certificate stored in the namespace, the
\* client certificate or another, unless the bundle has changed since the pass read it.
PruneKeepsLeaves ==
    [][\A c \in Trusted(bundle, StoredLeaves) : c \notin bundle' => bundle # pass.read]_vars

\* Every request ends with its previous certificates revoked, and the client
\* certificate and the signer are trusted by every kube-apiserver, unless a stored certificate the
\* rotator does not manage would lose its trust, or a request that lost its signer
\* ends the operator's process again and again.
RevocationSettles ==
    <>[](\/ \E r \in Requests : SignerLost(r)
         \/ /\ {signer.cert, leaf.issuer} \subseteq bundle
            /\ \A k \in Replicas : kas[k] = bundle
            /\ \A r \in Requests : crr[r].created => kept # None \/ crr[r].revoked = "True")
==============================================================================
