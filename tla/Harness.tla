------------------------------- MODULE Harness -------------------------------
(***************************************************************************)
(* The programs that drive an engine: the tests under test/, and the       *)
(* benchmark (bench/bench.cpp).  Each thread runs its own test cases, from *)
(* its own generator, through its own EngineValidator, on one engine.      *)
(*                                                                         *)
(*  - a "validate" program calls validate_execute on all its cases         *)
(*    (test/bonus_multithread_put_rm_get_visit2.cpp, test/bonus_gc.cpp);   *)
(*  - an "execute" program calls execute on all of them                    *)
(*    (test/multithread_put_rm_get3.cpp);                                  *)
(*  - a "bench" program calls execute on batches, and the threads share    *)
(*    the counter task_nr of the cases still to run.                       *)
(*                                                                         *)
(* The engine is what KVStore says of it, each call one step.  A program   *)
(* generates all its cases before the threads start; here a case is        *)
(* generated when it is about to run, which is the same: a generator never *)
(* looks at the engine.                                                    *)
(***************************************************************************)
EXTENDS BenchGenerator

CONSTANTS AllThreads, \* of them, a program starts some
          WarmVal,    \* the value warmup puts
          Programs    \* records: kind, op_confs, keys (by thread, what its
                      \* allocator may return), test_nr, sync_every, batch

ASSUME HarnessAssumption ==
    \A p \in Programs : /\ p.test_nr \in Nat
                        /\ DOMAIN p.keys \subseteq AllThreads
                        /\ IsFiniteSet(DOMAIN p.keys) /\ DOMAIN p.keys # {}
                        /\ p.kind = "bench" => p.batch \in Nat \ {0}

VARIABLES program,    \* the program that runs
          map,        \* acc_prob_to_conf_ of its generators
          store,      \* the engine
          inserted,   \* by thread: inserted_keys_ of its generator
          kv,         \* by thread: kv_ of its validator
          case,       \* by thread: the generated case, << >> when none
          task_nr,    \* the shared counter
          pc,         \* by thread: "load", "run", "sub", "done"
          current,    \* by thread: current_task_nr, the limit of execute
          cur_idx,    \* by thread: where its batch starts
          i,          \* by thread: the index execute has reached
          ran,        \* history, by thread: the cases that were run
          fatal       \* a CHECK has failed and the process has aborted

vars == <<program, map, store, inserted, kv, case, task_nr, pc, current, cur_idx, i,
          ran, fatal>>
batchVars == <<task_nr, pc, current, cur_idx>>

X  == INSTANCE Executor
KV == INSTANCE KVStore WITH Threads <- {}, Requests <- {}, calls <- << >>,
                            Values <- Values \cup {WarmVal}

\* The threads of the program.
Threads == DOMAIN program.keys

-----------------------------------------------------------------------------
(* The engine's side of a case *)

request(c) ==
    CASE c.op = "kPut"    -> [op |-> "put", key |-> c.key, val |-> c.value]
      [] c.op = "kDelete" -> [op |-> "remove", key |-> c.key]
      [] c.op = "kGet"    -> [op |-> "get", key |-> c.key]
      [] c.op = "kVisit"  -> [op |-> "visit", lower |-> c.lower, upper |-> c.upper]
      [] c.op = "kSync"   -> [op |-> "sync"]
      [] c.op = "kGc"     -> [op |-> "gc"]

\* Candidates for the engine's answer, of which Effect takes the right one; the
\* disk does not fail.
Answers(c) ==
    LET pairs == {<<k, store[k]>> : k \in {x \in Keys : /\ store[x] # NoVal
                                                      /\ c.lower <= x /\ x <= c.upper}}
    IN IF c.op = "kVisit" THEN {<<"kSucc", scan>> : scan \in SetToSeqs(pairs)}
       ELSE {<<"kSucc">>, <<"kNotFound">>} \cup
            {<<"kSucc", v>> : v \in Values \cup {WarmVal}}

-----------------------------------------------------------------------------
(* A thread *)

\* end = min(bench.size(), from_idx + limit)
End(t) == Min({program.test_nr, cur_idx[t] + current[t]})

Generate(t) ==
    /\ ~ fatal /\ pc[t] = "run" /\ case[t] = << >> /\ i[t] < End(t)
    /\ \E g \in rand_test(map, i[t], program.sync_every,
                          inserted[t], program.keys[t]) :
          /\ case' = [case EXCEPT ![t] = g.case]
          /\ inserted' = [inserted EXCEPT ![t] = g.inserted_keys]
          /\ fatal' = g.fatal
    /\ UNCHANGED <<program, map, store, kv, batchVars, i, ran>>

\* The loop body of validate_execute, or of execute.
RunCase(t) ==
    /\ ~ fatal /\ pc[t] = "run" /\ case[t] # << >>
    /\ LET c == case[t]
           Checks(res) == LET x == IF program.kind = "validate"
                                   THEN X!validate_execute(kv[t], c, res)
                                   ELSE X!execute(kv[t], c, res)
                          IN /\ kv' = [kv EXCEPT ![t] = x.kv]
                             /\ fatal' = ~ x.ok
       IN IF c.op \in {"kNoOp", "kSnapshot"}
          THEN Checks(<< >>) /\ UNCHANGED store
          ELSE \E res \in Answers(c) : KV!Effect(request(c), res) /\ Checks(res)
    /\ case' = [case EXCEPT ![t] = << >>]
    /\ i' = [i EXCEPT ![t] = @ + 1]
    /\ ran' = [ran EXCEPT ![t] = @ + 1]
    /\ UNCHANGED <<program, map, inserted, batchVars>>

\* execute returns: to the counter in the benchmark, to the join elsewhere.
EndBatch(t) ==
    /\ ~ fatal /\ pc[t] = "run" /\ case[t] = << >> /\ i[t] >= End(t)
    /\ pc' = [pc EXCEPT ![t] = IF program.kind = "bench" THEN "sub" ELSE "done"]
    /\ UNCHANGED <<program, map, store, inserted, kv, case, task_nr, current, cur_idx,
                   i, ran, fatal>>

\* Mutant of more: the last batch is repeated without end.
more_or_none(n) == n >= 0

\* The loop of a thread that has read n in task_nr goes on.
more(n) == n > 0

\* Mutant of batch_of: the last batch is a whole one.
batch_of_whole(n) == program.batch

\* The batch that a thread takes when it has read n in task_nr.
batch_of(n) == Min({n, program.batch})

\* task_nr is read, and on its value alone a batch is begun.
LoadTaskNr(t) ==
    /\ ~ fatal /\ pc[t] = "load"
    /\ IF more(task_nr)
       THEN /\ current' = [current EXCEPT ![t] = batch_of(task_nr)]
            /\ pc' = [pc EXCEPT ![t] = "run"]
            /\ i' = [i EXCEPT ![t] = cur_idx[t]]
       ELSE pc' = [pc EXCEPT ![t] = "done"] /\ UNCHANGED <<current, i>>
    /\ UNCHANGED <<program, map, store, inserted, kv, case, task_nr, cur_idx, ran, fatal>>

\* Mutant of next_idx: the cursor stays.
next_idx_same(t) == cur_idx[t]

next_idx(t) == cur_idx[t] + current[t]

\* The counter and, a local matter, the cursor are advanced.
FetchSub(t) ==
    /\ ~ fatal /\ pc[t] = "sub"
    /\ task_nr' = task_nr - current[t]
    /\ cur_idx' = [cur_idx EXCEPT ![t] = next_idx(t)]
    /\ pc' = [pc EXCEPT ![t] = "load"]
    /\ UNCHANGED <<program, map, store, inserted, kv, case, current, i, ran, fatal>>

-----------------------------------------------------------------------------

\* The mix of the benchmark for a percentage of reads.
bench_confs(read_ratio, overwrite_ratio) ==
    LET ins_ratio == (Scale - read_ratio) \div 2
    IN <<OpConfig("kGet", read_ratio, overwrite_ratio, 0),
         OpConfig("kPut", ins_ratio, overwrite_ratio, 0),
         OpConfig("kDelete", ins_ratio, overwrite_ratio, 0)>>

warmup == [k \in Keys |-> WarmVal]

Init ==
    /\ program \in Programs
    /\ map = acc_prob_to_conf(program.op_confs)
    /\ store = IF program.kind = "bench" THEN warmup ELSE [k \in Keys |-> NoVal]
    /\ inserted = [t \in Threads |-> {}]
    /\ kv = [t \in Threads |-> [k \in Keys |-> NoVal]]
    /\ case = [t \in Threads |-> << >>]
    /\ task_nr = program.test_nr
    /\ pc = [t \in Threads |-> IF program.kind = "bench" THEN "load" ELSE "run"]
    /\ current = [t \in Threads |-> IF program.kind = "bench" THEN 0
                                                              ELSE program.test_nr]
    /\ cur_idx = [t \in Threads |-> 0]
    /\ i = [t \in Threads |-> 0]
    /\ ran = [t \in Threads |-> 0]
    /\ fatal = ~ validate(program.op_confs)

Step(t) == Generate(t) \/ RunCase(t) \/ EndBatch(t) \/ LoadTaskNr(t) \/ FetchSub(t)

\* All threads are joined, or the process has aborted.
Ended == (fatal \/ \A t \in Threads : pc[t] = "done") /\ UNCHANGED vars

Next == Ended \/ \E t \in Threads : Step(t)

\* A thread that can run is scheduled eventually.
Spec == Init /\ [][Next]_vars /\ \A t \in AllThreads : WF_vars(t \in Threads /\ Step(t))

-----------------------------------------------------------------------------
(* Programs *)

Ops == {"kPut", "kDelete", "kGet", "kVisit", "kSync", "kGc", "kSnapshot", "kNoOp"}

WellFormed(p) ==
    /\ p.op_confs \in Seq([op : Ops, op_rate : Nat, found_rate : Nat,
                           visit_range_percent : Nat])
    /\ \A t \in DOMAIN p.keys : p.keys[t] \subseteq Keys

\* A thread that expects an answer has keys of its own.
OwnKeys(p) ==
    p.kind = "validate" =>
        \A t, u \in DOMAIN p.keys : t # u => p.keys[t] \cap p.keys[u] = {}

\* And, if it visits, no key of another thread between two of its own.
OwnRange(p) ==
    p.kind = "validate" =>
        \A t, u \in DOMAIN p.keys : t # u =>
            \A k \in p.keys[u] : ~ \E l, h \in p.keys[t] : l <= k /\ k <= h

\* A program that does none of what is bound to abort: rates that do not add
\* up, a visit of the whole range, a snapshot, a sync that is validated.
Checkable(p) ==
    /\ WellFormed(p) /\ OwnRange(p) /\ validate(p.op_confs)
    /\ \A n \in DOMAIN p.op_confs :
          /\ p.op_confs[n].op # "kSnapshot"
          /\ p.op_confs[n].op = "kVisit" => p.op_confs[n].visit_range_percent < Scale
    /\ p.kind = "validate" =>
          /\ p.sync_every = 0
          /\ \A n \in DOMAIN p.op_confs : p.op_confs[n].op # "kSync"

-----------------------------------------------------------------------------
(* Properties *)

\* No program aborts on an engine that keeps its promise: every CHECK of the
\* validators and of the generator holds, whatever the other threads do to
\* the engine between the generation of a case and its run, and between runs.
NoCheckFails == ~ fatal

\* Between two cases the generator, the validator and the engine agree on a
\* thread's keys: what the generator takes for inserted, what the validator
\* expects and what the engine holds are the same.
OracleAgrees ==
    program.kind = "validate" =>
        \A t \in Threads : case[t] = << >> =>
            /\ inserted[t] = {k \in Keys : kv[t][k] # NoVal}
            /\ \A k \in program.keys[t] : kv[t][k] = store[k]

\* By thread, the cases that were run and not yet taken from the counter.
InFlight == [t \in Threads |-> IF pc[t] \in {"run", "sub"} THEN i[t] - cur_idx[t]
                                                          ELSE 0]

\* The benchmark's counter tells the truth: what was taken from it are cases
\* that were run, none twice and none skipped, and no thread's batch reaches
\* past its last case, where execute would quietly do less than was counted.
CountsWhatRan ==
    program.kind = "bench" =>
        /\ SumFunction(ran) = program.test_nr - task_nr + SumFunction(InFlight)
        /\ \A t \in Threads : /\ pc[t] # "load" => ran[t] = i[t]
                              /\ pc[t] \in {"run", "sub"} =>
                                    cur_idx[t] + current[t] <= program.test_nr

\* Threads that read task_nr before the others have subtracted theirs run more
\* cases than test_nr, by at most a batch for each other thread; the program
\* never ends with fewer.
OvershootBounded ==
    program.kind = "bench" =>
        /\ task_nr >= -(Cardinality(Threads) - 1) * program.batch
        /\ (\A t \in Threads : pc[t] = "done") => SumFunction(ran) >= program.test_nr

\* Every thread comes to its end (the join in main returns).
AllJoined == <>(\A t \in Threads : pc[t] = "done")

\* The flag read_ratio is "the percentage of read": with 100, nothing but
\* reads (and the syncs of sync_every) is generated.
OnlyReads ==
    \A t \in Threads : case[t] # << >> => case[t].op \in {"kGet", "kSync"}
=============================================================================
