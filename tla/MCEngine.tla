------------------------------ MODULE MCEngine -------------------------------
(***************************************************************************)
(* Instances of Engine for TLC.                                            *)
(***************************************************************************)
EXTENDS EngineStore, TLC

CONSTANTS v1, v2

\* Every key takes one byte, v1 one byte and v2 three: lines differ in length.
SmallKeys   == [k \in Keys |-> 1]
SmallValues == [v \in Values |-> IF v = v1 THEN 1 ELSE 3]

\* v2 is longer than a stdio block.
LargeValues == [v \in Values |-> IF v = v1 THEN 1 ELSE 5000]

Put(k, v) == [op |-> "put", key |-> k, val |-> v]
Remove(k) == [op |-> "remove", key |-> k]
Get(k)    == [op |-> "get", key |-> k]
Visit(l, u) == [op |-> "visit", lower |-> l, upper |-> u]
SyncReq   == [op |-> "sync"]
Gc        == [op |-> "gc"]

Writes == {Put(k, v) : k \in Keys, v \in Values} \cup {Remove(k) : k \in Keys}
Reads  == {Get(k) : k \in Keys}

ConcurrentRequests == Writes \cup Reads \cup {Gc}
RecoveryRequests   == {Put(1, v1), Put(1, v2), Put(2, v2), Remove(1), Get(1), Gc,
                       SyncReq, Visit(1, 2)}
VisitRequests      == {Put(1, v1), Put(2, v1), Visit(1, 2)}

\* Kills anywhere except from the moment log(1) is closed until it has
\* replaced the log.
KillsOutsideSwitch ==
    Labels \ {"gc_lock2", "gc_reindex", "gc_remove", "gc_rename"}

Symmetric == Permutations(Threads)
=============================================================================
