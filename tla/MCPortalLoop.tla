---------------------------- MODULE MCPortalLoop ----------------------------
\* One sharing session under the portal's three threads.
EXTENDS PortalLoop, TLC
CONSTANT s1
MCSessions == {s1}
=============================================================================
