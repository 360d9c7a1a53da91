---------------------------- MODULE MCDurability -----------------------------
(***************************************************************************)
(* Instances of Durability for TLC.                                        *)
(***************************************************************************)
EXTENDS MCEngine, Durability

SyncRequests == Writes \cup {SyncReq, Gc}
GcRequests   == {Put(1, v1), SyncReq, Gc}

\* Crashes anywhere but inside _gc.
CrashesOutsideGc == KillsOutsideSwitch \ {"gc_copy"}
=============================================================================
