---------------------------- MODULE MCPrivateLink ----------------------------
EXTENDS PrivateLink
CONSTANTS s1, s2   \* subnets
OneSubnet == {{s1}}
TwoSubnets == {{s1}, {s1, s2}}
=============================================================================
