---------------------------- MODULE MCEvidenceUse ----------------------------
\* Small instances of EvidenceUse.
EXTENDS EvidenceUse, TLC

CONSTANTS c1, e1, e2, e3

InUse == {<<c1, e1>>}

Interchangeable == Permutations(Operator) \cup Permutations(Request)
                   \cup Permutations(Evidence \ SourcesOf(Used))
=============================================================================
