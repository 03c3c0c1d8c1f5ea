------------------------------ MODULE MCRethink ------------------------------
EXTENDS Rethink

BothContainers == {"sidecar", "database"}
OneEach == [c \in BothContainers |-> 1]
=============================================================================
