---------------------------- MODULE MCProjectStore ----------------------------
\* Small instances of ProjectStore.
EXTENDS ProjectStore
=============================================================================
