-------------------------- MODULE MCReleaseRollout --------------------------
EXTENDS ReleaseRollout

\* Four components in the order of registerComponents.  The first one depends on a
\* later one; the CVO's dependency on openshift-apiserver is left out with it.
FourComponents ==
    <<"control-plane-pki-operator", "etcd", "kube-apiserver", "cluster-version-operator">>
FourDeclared == [c \in Range(FourComponents) |-> IF c = "kube-apiserver" THEN {"etcd"} ELSE {}]

\* A release and one of the next minor version.
OneMinorUp == <<1, 2>>
Both == BOOLEAN
Always == {TRUE}
Etcd == {"etcd"}
=============================================================================
