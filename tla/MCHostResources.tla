--------------------------- MODULE MCHostResources ---------------------------
EXTENDS HostResources

CONSTANTS s1, s2, A, B

MCStores == {s1, s2}
MCTypes == {A, B}
=============================================================================
