----------------------------- MODULE MCUserFile -----------------------------
(* UserFile for TLC: the longest file is longer than the buffer            *)
EXTENDS UserFile
=============================================================================
