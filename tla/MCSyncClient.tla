---------------------------- MODULE MCSyncClient ----------------------------
(* Small instances of SyncClient for TLC. *)
EXTENDS SyncClient, TLC

\* The clients behave alike, and no safety property names one.
ClientSymmetry == Permutations(Clients)
=============================================================================
