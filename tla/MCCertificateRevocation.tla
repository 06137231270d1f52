---------------------- MODULE MCCertificateRevocation ----------------------
EXTENDS CertificateRevocation

OneRequest == {"r1"}
TwoRequests == {"r1", "r2"}
OneReplica == {"kas-0"}
TwoReplicas == {"kas-0", "kas-1"}
=============================================================================
