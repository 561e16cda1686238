----------------------------- MODULE MCDownloads -----------------------------
EXTENDS Downloads

\* Two files of one name and one length.
MCFileName == [m \in {"m1", "m2"} |-> "f"]
MCChunks == [m \in {"m1", "m2"} |-> 3]
=============================================================================
