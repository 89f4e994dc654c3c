--------------------------- MODULE MCEvidenceCapture ---------------------------
\* Small instances of EvidenceCapture.
EXTENDS EvidenceCapture
=============================================================================
