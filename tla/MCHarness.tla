----------------------------- MODULE MCHarness -----------------------------
EXTENDS Harness

\* test/bonus_multithread_put_rm_get_visit2.cpp: a prefix for each thread.
TwoPrefixes ==
    [kind |-> "validate", test_nr |-> 4, sync_every |-> 0, batch |-> 0,
     keys |-> [t \in {1, 2} |-> PrefixAllocator(t - 1)],
     op_confs |-> <<OpConfig("kGet", 20, 20, 0), OpConfig("kPut", 50, 30, 0),
                    OpConfig("kDelete", 20, 30, 0), OpConfig("kVisit", 10, 0, 50)>>]

\* test/bonus_gc.cpp, with the visits of test/bonus_put_rm_get_visit.cpp.
OneThread ==
    [kind |-> "validate", test_nr |-> 6, sync_every |-> 0, batch |-> 0,
     keys |-> [t \in {1} |-> PrintableAllocator],
     op_confs |-> <<OpConfig("kGet", 15, 20, 0), OpConfig("kPut", 50, 30, 0),
                    OpConfig("kDelete", 24, 30, 0), OpConfig("kVisit", 10, 0, 50),
                    OpConfig("kGc", 1, 0, 0)>>]

\* test/multithread_put_rm_get3.cpp: one set of keys for all.
SharedKeys ==
    [kind |-> "execute", test_nr |-> 3, sync_every |-> 0, batch |-> 0,
     keys |-> [t \in {1, 2} |-> {0, 2}],
     op_confs |-> <<OpConfig("kGet", 15, 20, 0), OpConfig("kPut", 70, 30, 0),
                    OpConfig("kDelete", 15, 30, 0)>>]

\* bench/bench.cpp
Bench(read_ratio, n, execute_batch) ==
    [kind |-> "bench", test_nr |-> n, sync_every |-> 2, batch |-> execute_batch,
     keys |-> [t \in AllThreads |-> UniformAllocator(1)],
     op_confs |-> bench_confs(read_ratio, 20)]

AllPrograms ==
    {TwoPrefixes, OneThread, SharedKeys, Bench(80, 5, 2), Bench(80, 4, 3), Bench(80, 2, 5)}
ReadsOnly == {Bench(100, 3, 2)}

\* The programs of the repository are such that every CHECK of theirs may hold.
ASSUME Checked == \A p \in AllPrograms \cup ReadsOnly : Checkable(p) /\ OwnKeys(p)
=============================================================================
