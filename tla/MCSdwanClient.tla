--------------------------- MODULE MCSdwanClient ---------------------------
(* Instances of SdwanClient for TLC. *)
EXTENDS SdwanClient, TLC

\* threads are interchangeable (safety runs only)
ThreadSymmetry == Permutations(Threads)
=============================================================================
