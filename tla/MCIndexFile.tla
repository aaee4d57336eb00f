----------------------------- MODULE MCIndexFile -----------------------------
(* Three saves of two processes, one of which is killed, or a power failure. *)
EXTENDS IndexFile
=============================================================================
