---------------------------- MODULE HarnessProofs ----------------------------
(***************************************************************************)
(* The test programs, for every number of threads, every number of cases   *)
(* and every size of a batch: the benchmark's counter task_nr; and the     *)
(* oracle, what the generators and the validators keep beside the engine.  *)
(***************************************************************************)
EXTENDS Harness, SumFacts

-----------------------------------------------------------------------------
(* The counter: its inductive invariant *)

CounterTypes ==
    /\ task_nr \in Int
    /\ pc \in [Threads -> {"load", "run", "sub", "done"}]
    /\ current \in [Threads -> Nat]
    /\ cur_idx \in [Threads -> Nat]
    /\ i \in [Threads -> Nat]
    /\ ran \in [Threads -> Nat]
    /\ DOMAIN case = Threads

\* What was taken from the counter is what the cursors have moved.
Counted == task_nr + SumFunction(cur_idx) = program.test_nr

\* A thread runs its batch from cur_idx on, within its cases, and leaves it
\* when the batch is done.
BatchInv ==
    \A t \in Threads :
        /\ ran[t] = i[t]
        /\ pc[t] \in {"load", "done"} => i[t] = cur_idx[t]
        /\ pc[t] \in {"run", "sub"} =>
              /\ current[t] <= program.batch
              /\ cur_idx[t] + current[t] <= program.test_nr
              /\ cur_idx[t] <= i[t] /\ i[t] <= cur_idx[t] + current[t]
        /\ pc[t] = "sub" => i[t] = cur_idx[t] + current[t]
        /\ case[t] # << >> => pc[t] = "run" /\ i[t] < cur_idx[t] + current[t]

\* Threads stop when nothing is left.
DoneInv == \A t \in Threads : pc[t] = "done" => task_nr <= 0

\* The threads that have read task_nr and not yet subtracted.
Busy == {t \in Threads : pc[t] \in {"run", "sub"}}

Taken(u) == IF u \in Busy THEN current[u] ELSE 0

\* u was the last to find something left: since then every other thread could
\* subtract once, and those in Busy have not yet done so.
LastReader(u) ==
    task_nr - Taken(u) >=
        -((Cardinality(Threads) - 1 - Cardinality(Busy \ {u})) * program.batch)

CounterInv ==
    /\ program \in Programs
    /\ program.kind = "bench" =>
          /\ CounterTypes /\ Counted /\ BatchInv /\ DoneInv
          /\ \E u \in Threads : LastReader(u)

-----------------------------------------------------------------------------

\* The number of threads is a positive natural, and so is that of any of them.
LEMMA ThreadFacts ==
    ASSUME program \in Programs
    PROVE  /\ IsFiniteSet(Threads) /\ Threads # {}
           /\ Cardinality(Threads) \in Nat
           /\ \A S \in SUBSET Threads : /\ IsFiniteSet(S) /\ Cardinality(S) \in Nat
           /\ \A u \in Threads, S \in SUBSET Threads :
                 Cardinality(S \ {u}) <= Cardinality(Threads) - 1
           /\ program.test_nr \in Nat
           /\ program.kind = "bench" => program.batch \in Nat \ {0}
<1>1. /\ IsFiniteSet(Threads) /\ Threads # {} /\ program.test_nr \in Nat
      /\ program.kind = "bench" => program.batch \in Nat \ {0}
  BY HarnessAssumption DEF Threads
<1>2. Cardinality(Threads) \in Nat
  BY <1>1, FS_CardinalityType
<1>3. \A S \in SUBSET Threads : IsFiniteSet(S) /\ Cardinality(S) \in Nat
  BY <1>1, FS_Subset, FS_CardinalityType
<1>4. ASSUME NEW u \in Threads, NEW S \in SUBSET Threads
      PROVE  Cardinality(S \ {u}) <= Cardinality(Threads) - 1
  <2>1. IsFiniteSet(Threads \ {u}) /\ Cardinality(Threads \ {u}) = Cardinality(Threads) - 1
    BY <1>1, FS_RemoveElement
  <2>2. S \ {u} \in SUBSET (Threads \ {u})
    OBVIOUS
  <2> QED BY <2>1, <2>2, FS_Subset
<1> QED BY <1>1, <1>2, <1>3, <1>4

\* The minimum of two numbers, as execute and the benchmark compute it.
LEMMA MinTwo ==
    ASSUME NEW a \in Int, NEW b \in Int
    PROVE  Min({a, b}) = IF a <= b THEN a ELSE b
<1> DEFINE m == IF a <= b THEN a ELSE b
<1>1. m \in {a, b} /\ \A y \in {a, b} : m =< y
  OBVIOUS
<1>2. ASSUME NEW x \in {a, b}, \A y \in {a, b} : x =< y
      PROVE  x = m
  BY <1>2
<1> HIDE DEF m
<1>3. Min({a, b}) = m
  BY <1>1, <1>2 DEF Min
<1> QED BY <1>3 DEF m

\* Before the first batch nothing is counted and nobody is busy.
LEMMA CounterInit == Init => CounterInv
<1> SUFFICES ASSUME Init, program.kind = "bench" PROVE CounterInv
  BY DEF Init, CounterInv
<1>1. program \in Programs
  BY DEF Init
<1>2. /\ IsFiniteSet(Threads) /\ Threads # {} /\ Cardinality(Threads) \in Nat
      /\ program.test_nr \in Nat /\ program.batch \in Nat \ {0}
      /\ \A u \in Threads, S \in SUBSET Threads :
            Cardinality(S \ {u}) <= Cardinality(Threads) - 1
  BY <1>1, ThreadFacts
<1>3. CounterTypes
  BY <1>2 DEF Init, CounterTypes
<1>4. Counted
  <2>1. cur_idx = [t \in Threads |-> 0] /\ task_nr = program.test_nr
    BY DEF Init
  <2>2. PICK t \in Threads : TRUE
    BY <1>2
  <2>3. SumFunction([u \in Threads |-> IF u = t THEN 0 ELSE 0]) = 0
    BY <1>2, SumSingle
  <2>4. [u \in Threads |-> IF u = t THEN 0 ELSE 0] = cur_idx
    BY <2>1
  <2> QED BY <1>2, <2>1, <2>3, <2>4 DEF Counted
<1>5. BatchInv /\ DoneInv
  BY <1>2 DEF Init, BatchInv, DoneInv
<1>6. Busy = {}
  BY DEF Init, Busy
<1>7. \E u \in Threads : LastReader(u)
  <2>1. PICK u \in Threads : TRUE
    BY <1>2
  <2>2. Cardinality(Busy \ {u}) = 0 /\ Taken(u) = 0
    <3>1. Busy \ {u} = {} /\ Taken(u) = 0
      BY <1>6 DEF Taken
    <3> QED BY <3>1, FS_EmptySet, Zenon
  <2>3. Cardinality(Threads) - 1 \in Nat
    <3>1. Cardinality(Threads) # 0
      BY <1>2, FS_EmptySet
    <3> QED BY <1>2, <3>1
  <2>4. (Cardinality(Threads) - 1) * program.batch \in Nat
    BY <1>2, <2>3
  <2>5. task_nr = program.test_nr
    BY DEF Init
  <2> DEFINE room == (Cardinality(Threads) - 1) * program.batch
  <2>6. Cardinality(Threads) - 1 - Cardinality(Busy \ {u}) = Cardinality(Threads) - 1
    <3> HIDE DEF Busy
    <3> QED BY <1>2, <2>2
  <2>7. LastReader(u) <=> task_nr - Taken(u) >= -room
    BY <2>6, Zenon DEF LastReader
  <2>8. room \in Nat
    BY <2>4
  <2> HIDE DEF room
  <2> QED BY <1>2, <2>2, <2>5, <2>7, <2>8
<1> QED BY <1>1, <1>3, <1>4, <1>5, <1>7 DEF CounterInv

-----------------------------------------------------------------------------
(* One lemma per step.  A step of t leaves the other threads' state alone. *)

\* The invariant, spelled out for a thread of the benchmark.
LEMMA BenchFacts ==
    ASSUME CounterInv, program.kind = "bench", NEW t \in Threads
    PROVE  /\ program \in Programs
           /\ CounterTypes /\ Counted /\ BatchInv /\ DoneInv
           /\ program.test_nr \in Nat /\ program.batch \in Nat \ {0}
           /\ task_nr \in Int /\ current[t] \in Nat /\ cur_idx[t] \in Nat
           /\ i[t] \in Nat /\ ran[t] \in Nat /\ ran[t] = i[t]
           /\ pc[t] = "run" => End(t) = cur_idx[t] + current[t]
<1>1. /\ program \in Programs
      /\ CounterTypes /\ Counted /\ BatchInv /\ DoneInv
  BY DEF CounterInv
<1>2. program.test_nr \in Nat /\ program.batch \in Nat \ {0}
  BY <1>1, ThreadFacts
<1>3. /\ task_nr \in Int /\ current[t] \in Nat /\ cur_idx[t] \in Nat
      /\ i[t] \in Nat /\ ran[t] \in Nat
  BY <1>1 DEF CounterTypes
<1>4. ran[t] = i[t]
  BY <1>1 DEF BatchInv
<1>5. ASSUME pc[t] = "run" PROVE End(t) = cur_idx[t] + current[t]
  <2>1. cur_idx[t] + current[t] <= program.test_nr
    BY <1>1, <1>5 DEF BatchInv
  <2>2. End(t) = IF program.test_nr <= cur_idx[t] + current[t]
                 THEN program.test_nr ELSE cur_idx[t] + current[t]
    BY <1>2, <1>3, MinTwo DEF End
  <2> HIDE DEF End
  <2>3. cur_idx[t] + current[t] \in Nat
    BY <1>3
  <2>4. program.test_nr <= cur_idx[t] + current[t] =>
           program.test_nr = cur_idx[t] + current[t]
    BY <1>2, <2>1, <2>3
  <2> QED BY <2>2, <2>4
<1> QED BY <1>1, <1>2, <1>3, <1>4, <1>5

\* A step that leaves the counter, the cursors and who is busy alone.
LEMMA SameReaders ==
    ASSUME CounterInv, program.kind = "bench", UNCHANGED <<program, task_nr, current>>,
           Busy' = Busy
    PROVE  Threads' = Threads /\ \E u \in Threads' : LastReader(u)'
<1>1. Threads' = Threads
  BY DEF Threads
<1>2. PICK u \in Threads : LastReader(u)
  BY DEF CounterInv
<1>3. Taken(u)' = Taken(u)
  BY DEF Taken
<1>4. LastReader(u)'
  BY <1>1, <1>2, <1>3 DEF LastReader
<1> QED BY <1>1, <1>4

\* A generated case lies inside the batch.
LEMMA GenerateStep ==
    ASSUME CounterInv, program.kind = "bench", NEW t \in Threads, Generate(t)
    PROVE  CounterInv'
<1>1. /\ pc[t] = "run" /\ i[t] < End(t)
      /\ \E c : case' = [case EXCEPT ![t] = c]
      /\ UNCHANGED <<program, task_nr, pc, current, cur_idx, i, ran>>
  BY DEF Generate, batchVars
<1>2. /\ CounterTypes /\ Counted /\ BatchInv /\ DoneInv /\ program \in Programs
      /\ End(t) = cur_idx[t] + current[t]
  BY <1>1, BenchFacts
<1>3. Threads' = Threads /\ Busy' = Busy
  BY <1>1 DEF Threads, Busy
<1>4. CounterTypes' /\ Counted' /\ DoneInv'
  BY <1>1, <1>2, <1>3 DEF CounterTypes, Counted, DoneInv
<1>5. BatchInv'
  <2>1. \A u \in Threads : u # t => case'[u] = case[u]
    BY <1>1, <1>2 DEF CounterTypes
  <2> QED BY <1>1, <1>2, <1>3, <2>1 DEF BatchInv
<1>6. \E u \in Threads' : LastReader(u)'
  BY <1>1, <1>3, SameReaders
<1> QED BY <1>1, <1>2, <1>4, <1>5, <1>6 DEF CounterInv

\* A case that is run is one more of the batch.
LEMMA RunCaseStep ==
    ASSUME CounterInv, program.kind = "bench", NEW t \in Threads, RunCase(t)
    PROVE  CounterInv'
<1>1. /\ pc[t] = "run" /\ case[t] # << >>
      /\ case' = [case EXCEPT ![t] = << >>]
      /\ i' = [i EXCEPT ![t] = @ + 1] /\ ran' = [ran EXCEPT ![t] = @ + 1]
      /\ UNCHANGED <<program, task_nr, pc, current, cur_idx>>
  BY DEF RunCase, batchVars
<1>2. /\ CounterTypes /\ Counted /\ BatchInv /\ DoneInv /\ program \in Programs
      /\ current[t] \in Nat /\ cur_idx[t] \in Nat /\ i[t] \in Nat /\ ran[t] = i[t]
  BY <1>1, BenchFacts
<1>3. Threads' = Threads /\ Busy' = Busy
  BY <1>1 DEF Threads, Busy
<1>4. CounterTypes' /\ Counted' /\ DoneInv'
  BY <1>1, <1>2, <1>3 DEF CounterTypes, Counted, DoneInv
<1>5. BatchInv'
  <2>1. \A u \in Threads : u # t => case'[u] = case[u] /\ i'[u] = i[u] /\ ran'[u] = ran[u]
    BY <1>1, <1>2 DEF CounterTypes
  <2>2. case'[t] = << >> /\ i'[t] = i[t] + 1 /\ ran'[t] = ran[t] + 1
    BY <1>1, <1>2 DEF CounterTypes
  <2>3. i[t] < cur_idx[t] + current[t] /\ cur_idx[t] <= i[t]
    BY <1>1, <1>2 DEF BatchInv
  <2>4. i'[t] <= cur_idx[t] + current[t] /\ cur_idx[t] <= i'[t]
    BY <1>2, <2>2, <2>3
  <2>5. ASSUME NEW u \in Threads
        PROVE  /\ ran'[u] = i'[u]
               /\ pc[u] \in {"load", "done"} => i'[u] = cur_idx[u]
               /\ pc[u] \in {"run", "sub"} =>
                     /\ current[u] <= program.batch
                     /\ cur_idx[u] + current[u] <= program.test_nr
                     /\ cur_idx[u] <= i'[u] /\ i'[u] <= cur_idx[u] + current[u]
               /\ pc[u] = "sub" => i'[u] = cur_idx[u] + current[u]
               /\ case'[u] # << >> => pc[u] = "run" /\ i'[u] < cur_idx[u] + current[u]
    <3>1. CASE u = t
      BY <1>1, <1>2, <2>2, <2>4, <3>1 DEF BatchInv
    <3>2. CASE u # t
      BY <1>2, <2>1, <3>2 DEF BatchInv
    <3> QED BY <3>1, <3>2
  <2> QED BY <1>1, <1>3, <2>5 DEF BatchInv
<1>6. \E u \in Threads' : LastReader(u)'
  BY <1>1, <1>3, SameReaders
<1> QED BY <1>1, <1>2, <1>4, <1>5, <1>6 DEF CounterInv

\* execute returns when the whole batch was run.
LEMMA EndBatchStep ==
    ASSUME CounterInv, program.kind = "bench", NEW t \in Threads, EndBatch(t)
    PROVE  CounterInv'
<1>1. /\ pc[t] = "run" /\ case[t] = << >> /\ i[t] >= End(t)
      /\ pc' = [pc EXCEPT ![t] = "sub"]
      /\ UNCHANGED <<program, task_nr, case, current, cur_idx, i, ran>>
  BY DEF EndBatch
<1>2. /\ CounterTypes /\ Counted /\ BatchInv /\ DoneInv /\ program \in Programs
      /\ current[t] \in Nat /\ cur_idx[t] \in Nat /\ i[t] \in Nat
      /\ End(t) = cur_idx[t] + current[t]
  BY <1>1, BenchFacts
<1>3. /\ pc'[t] = "sub" /\ \A u \in Threads : u # t => pc'[u] = pc[u]
  BY <1>1, <1>2 DEF CounterTypes
<1>4. Threads' = Threads
  BY <1>1 DEF Threads
<1>5. Busy' = Busy
  BY <1>1, <1>3, <1>4 DEF Busy
<1>6. CounterTypes' /\ Counted'
  BY <1>1, <1>2, <1>4 DEF CounterTypes, Counted
<1>7. DoneInv'
  BY <1>1, <1>2, <1>3, <1>4 DEF DoneInv
<1>8. BatchInv'
  <2>1. i[t] = cur_idx[t] + current[t]
    BY <1>1, <1>2 DEF BatchInv
  <2> QED BY <1>1, <1>2, <1>3, <1>4, <2>1 DEF BatchInv
<1>9. \E u \in Threads' : LastReader(u)'
  BY <1>1, <1>5, SameReaders
<1> QED BY <1>1, <1>2, <1>6, <1>7, <1>8, <1>9 DEF CounterInv

\* The counter is read, and a batch of what is left is begun: t is the last
\* that has found something.
LEMMA LoadStep ==
    ASSUME CounterInv, program.kind = "bench", NEW t \in Threads, LoadTaskNr(t)
    PROVE  CounterInv'
<1>1. /\ pc[t] = "load"
      /\ UNCHANGED <<program, task_nr, case, cur_idx, ran>>
  BY DEF LoadTaskNr
<1>2. /\ CounterTypes /\ Counted /\ BatchInv /\ DoneInv /\ program \in Programs
      /\ program.test_nr \in Nat /\ program.batch \in Nat \ {0}
      /\ task_nr \in Int /\ cur_idx[t] \in Nat /\ i[t] \in Nat /\ ran[t] = i[t]
  BY BenchFacts
<1>3. Threads' = Threads
  BY <1>1 DEF Threads
<1>4. i[t] = cur_idx[t] /\ case[t] = << >>
  BY <1>1, <1>2 DEF BatchInv
<1>5. CASE task_nr > 0
  <2> DEFINE n == batch_of(task_nr)
  <2>1. /\ current' = [current EXCEPT ![t] = n] /\ pc' = [pc EXCEPT ![t] = "run"]
        /\ i' = [i EXCEPT ![t] = cur_idx[t]]
    BY <1>5 DEF LoadTaskNr, more
  <2>2. n \in Nat /\ n <= task_nr /\ n <= program.batch
    <3>1. n = IF task_nr <= program.batch THEN task_nr ELSE program.batch
      BY <1>2, MinTwo DEF batch_of
    <3> HIDE DEF n
    <3> QED BY <1>2, <1>5, <3>1
  <2> HIDE DEF n
  <2>3. CounterTypes'
    BY <1>1, <1>2, <1>3, <2>1, <2>2 DEF CounterTypes
  <2>4. Counted'
    BY <1>1, <1>2 DEF Counted
  <2>5. /\ pc'[t] = "run" /\ current'[t] = n /\ i'[t] = cur_idx[t]
        /\ \A u \in Threads : u # t => pc'[u] = pc[u] /\ current'[u] = current[u] /\ i'[u] = i[u]
    BY <1>2, <2>1 DEF CounterTypes
  <2>6. DoneInv'
    BY <1>1, <1>2, <1>3, <2>5 DEF DoneInv
  <2>7. cur_idx[t] + n <= program.test_nr
    <3>1. cur_idx[t] <= SumFunction(cur_idx) /\ SumFunction(cur_idx) \in Int
      <4>1. IsFiniteSet(Threads) /\ cur_idx \in [Threads -> Nat] /\ cur_idx \in [Threads -> Int]
        BY <1>2, ThreadFacts DEF CounterTypes
      <4> QED BY <4>1, SumType
    <3>2. task_nr + SumFunction(cur_idx) = program.test_nr
      BY <1>2 DEF Counted
    <3> QED BY <1>2, <2>2, <3>1, <3>2
  <2>8. BatchInv'
    <3>1. ASSUME NEW u \in Threads
          PROVE  /\ ran[u] = i'[u]
                 /\ pc'[u] \in {"load", "done"} => i'[u] = cur_idx[u]
                 /\ pc'[u] \in {"run", "sub"} =>
                       /\ current'[u] <= program.batch
                       /\ cur_idx[u] + current'[u] <= program.test_nr
                       /\ cur_idx[u] <= i'[u] /\ i'[u] <= cur_idx[u] + current'[u]
                 /\ pc'[u] = "sub" => i'[u] = cur_idx[u] + current'[u]
                 /\ case[u] # << >> => pc'[u] = "run" /\ i'[u] < cur_idx[u] + current'[u]
      <4>1. CASE u = t
        BY <1>2, <1>4, <2>2, <2>5, <2>7, <4>1
      <4>2. CASE u # t
        BY <1>2, <2>5, <4>2 DEF BatchInv
      <4> QED BY <4>1, <4>2
    <3> QED BY <1>1, <1>3, <3>1 DEF BatchInv
  <2>9. LastReader(t)'
    <3>1. t \in Busy' /\ Taken(t)' = n
      BY <1>3, <2>5 DEF Busy, Taken
    <3> DEFINE others == Cardinality(Threads) - 1 - Cardinality(Busy' \ {t})
    <3>2. others \in Nat
      <4>1. Busy' \in SUBSET Threads
        BY <1>3 DEF Busy
      <4>2. /\ Cardinality(Busy' \ {t}) \in Nat /\ Cardinality(Threads) \in Nat
            /\ Cardinality(Busy' \ {t}) <= Cardinality(Threads) - 1
        BY <1>2, <4>1, ThreadFacts
      <4> QED BY <4>2
    <3>3. LastReader(t)' <=> task_nr' - Taken(t)' >= -(others * program.batch)
      BY <1>1, <1>3, Zenon DEF LastReader
    <3> HIDE DEF others
    <3>4. others * program.batch \in Nat
      BY <1>2, <3>2
    <3> QED BY <1>1, <1>2, <2>2, <3>1, <3>3, <3>4
  <2> QED BY <1>1, <1>2, <1>3, <2>3, <2>4, <2>6, <2>8, <2>9 DEF CounterInv
<1>6. CASE ~ task_nr > 0
  <2>1. pc' = [pc EXCEPT ![t] = "done"] /\ current' = current /\ i' = i
    BY <1>6 DEF LoadTaskNr, more
  <2>2. pc'[t] = "done" /\ \A u \in Threads : u # t => pc'[u] = pc[u]
    BY <1>2, <2>1 DEF CounterTypes
  <2>3. CounterTypes' /\ Counted'
    BY <1>1, <1>2, <1>3, <2>1 DEF CounterTypes, Counted
  <2>4. DoneInv'
    BY <1>1, <1>2, <1>3, <1>6, <2>2 DEF DoneInv
  <2>5. BatchInv'
    BY <1>1, <1>2, <1>3, <1>4, <2>1, <2>2 DEF BatchInv
  <2>6. Busy' = Busy
    BY <1>1, <1>3, <2>2 DEF Busy
  <2>7. \E u \in Threads' : LastReader(u)'
    BY <1>1, <2>1, <2>6, SameReaders
  <2> QED BY <1>1, <1>2, <2>3, <2>4, <2>5, <2>7 DEF CounterInv
<1> QED BY <1>5, <1>6

\* The counter is advanced: a thread other than the last reader uses up the
\* one batch that it was still allowed.
LEMMA FetchSubStep ==
    ASSUME CounterInv, program.kind = "bench", NEW t \in Threads, FetchSub(t)
    PROVE  CounterInv'
<1>1. /\ pc[t] = "sub" /\ task_nr' = task_nr - current[t]
      /\ cur_idx' = [cur_idx EXCEPT ![t] = cur_idx[t] + current[t]]
      /\ pc' = [pc EXCEPT ![t] = "load"]
      /\ UNCHANGED <<program, case, current, i, ran>>
  BY DEF FetchSub, next_idx
<1>2. /\ CounterTypes /\ Counted /\ BatchInv /\ DoneInv /\ program \in Programs
      /\ program.test_nr \in Nat /\ program.batch \in Nat \ {0}
      /\ task_nr \in Int /\ cur_idx[t] \in Nat /\ current[t] \in Nat /\ i[t] \in Nat
  BY BenchFacts
<1>3. Threads' = Threads
  BY <1>1 DEF Threads
<1>4. i[t] = cur_idx[t] + current[t] /\ current[t] <= program.batch /\ case[t] = << >>
  BY <1>1, <1>2 DEF BatchInv
<1>5. /\ pc'[t] = "load" /\ cur_idx'[t] = cur_idx[t] + current[t]
      /\ \A u \in Threads : u # t => pc'[u] = pc[u] /\ cur_idx'[u] = cur_idx[u]
  BY <1>1, <1>2 DEF CounterTypes
<1>6. CounterTypes'
  BY <1>1, <1>2, <1>3 DEF CounterTypes
<1>7. Counted'
  <2>1. IsFiniteSet(Threads) /\ cur_idx \in [Threads -> Int] /\ cur_idx[t] + current[t] \in Int
    BY <1>2, ThreadFacts DEF CounterTypes
  <2>2. SumFunction(cur_idx') = SumFunction(cur_idx) + (cur_idx[t] + current[t]) - cur_idx[t]
    BY <1>1, <2>1, SumUpdate
  <2>3. SumFunction(cur_idx) \in Int
    BY <2>1, SumType
  <2>4. task_nr + SumFunction(cur_idx) = program.test_nr
    BY <1>2 DEF Counted
  <2>5. task_nr' + SumFunction(cur_idx') = program.test_nr
    BY <1>1, <1>2, <2>2, <2>3, <2>4
  <2> QED BY <1>1, <2>5 DEF Counted
<1>8. BatchInv'
  <2>1. ASSUME NEW u \in Threads
        PROVE  /\ ran[u] = i[u]
               /\ pc'[u] \in {"load", "done"} => i[u] = cur_idx'[u]
               /\ pc'[u] \in {"run", "sub"} =>
                     /\ current[u] <= program.batch
                     /\ cur_idx'[u] + current[u] <= program.test_nr
                     /\ cur_idx'[u] <= i[u] /\ i[u] <= cur_idx'[u] + current[u]
               /\ pc'[u] = "sub" => i[u] = cur_idx'[u] + current[u]
               /\ case[u] # << >> => pc'[u] = "run" /\ i[u] < cur_idx'[u] + current[u]
    <3>1. CASE u = t
      BY <1>2, <1>4, <1>5, <3>1 DEF BatchInv
    <3>2. CASE u # t
      BY <1>2, <1>5, <3>2 DEF BatchInv
    <3> QED BY <3>1, <3>2
  <2> QED BY <1>1, <1>3, <2>1 DEF BatchInv
<1>9. DoneInv'
  BY <1>1, <1>2, <1>3, <1>5 DEF DoneInv
<1>10. t \in Busy /\ Busy' = Busy \ {t}
  BY <1>1, <1>3, <1>5 DEF Busy
<1>11. PICK u \in Threads : LastReader(u)
  BY DEF CounterInv
<1>12. LastReader(u)'
  <2> DEFINE others == Cardinality(Threads) - 1 - Cardinality(Busy \ {u})
             others2 == Cardinality(Threads) - 1 - Cardinality(Busy' \ {u})
  <2>1. Busy \in SUBSET Threads
    BY DEF Busy
  <2>2. Cardinality(Threads) \in Nat /\ IsFiniteSet(Busy \ {u}) /\ Cardinality(Busy \ {u}) \in Nat
    BY <1>2, <2>1, ThreadFacts
  <2>3. task_nr - Taken(u) >= -(others * program.batch)
    BY <1>11 DEF LastReader
  <2>4. LastReader(u)' <=> task_nr' - Taken(u)' >= -(others2 * program.batch)
    BY <1>1, <1>3, Zenon DEF LastReader
  <2>5. others \in Int
    BY <2>2
  <2>6. CASE u = t
    <3>1. Taken(u) = current[t] /\ Taken(u)' = 0
      BY <1>10, <2>6 DEF Taken
    <3>2. Busy' \ {u} = Busy \ {u}
      BY <1>10, <2>6
    <3>3. others2 = others
      BY <3>2
    <3> HIDE DEF others, others2
    <3>4. others * program.batch \in Int
      BY <1>2, <2>5
    <3> QED BY <1>1, <1>2, <2>3, <2>4, <3>1, <3>3, <3>4
  <2>7. CASE u # t
    <3>1. Taken(u)' = Taken(u) /\ Taken(u) \in Nat
      <4>1. u \in Busy' <=> u \in Busy
        BY <1>10, <2>7
      <4>2. current[u] \in Nat
        BY <1>2 DEF CounterTypes
      <4> QED BY <1>1, <4>1, <4>2 DEF Taken
    <3>2. Busy' \ {u} = (Busy \ {u}) \ {t} /\ t \in Busy \ {u}
      BY <1>10, <2>7
    <3>3. Cardinality((Busy \ {u}) \ {t}) = Cardinality(Busy \ {u}) - 1
      <4> HIDE DEF Busy
      <4> QED BY <2>2, <3>2, FS_RemoveElement
    <3>4. Cardinality(Busy' \ {u}) = Cardinality(Busy \ {u}) - 1
      BY <3>2, <3>3, Zenon
    <3>5. others2 = others + 1
      <4> HIDE DEF Busy
      <4> QED BY <2>2, <3>4
    <3> HIDE DEF others, others2
    <3>6. /\ others2 * program.batch = others * program.batch + program.batch
          /\ others * program.batch \in Int
      BY <1>2, <2>5, <3>5
    <3> DEFINE a == others * program.batch
               b == others2 * program.batch
    <3>7. a \in Int /\ b = a + program.batch /\ task_nr - Taken(u) >= -a
      BY <2>3, <3>6
    <3> HIDE DEF a, b
    <3>8. task_nr' - Taken(u)' >= -b
      <4>1. \A n, k, c, m \in Int : n - k >= -a /\ c <= m /\ b = a + m => (n - c) - k >= -b
        BY <3>7
      <4>2. task_nr \in Int /\ Taken(u) \in Int /\ current[t] \in Int /\ program.batch \in Int
        BY <1>2, <3>1
      <4>3. current[t] <= program.batch
        BY <1>1, <1>2, <1>4 DEF BatchInv
      <4>4. (task_nr - current[t]) - Taken(u) >= -b
        BY <3>7, <4>1, <4>2, <4>3
      <4> QED BY <1>1, <3>1, <4>4
    <3>9. task_nr' - Taken(u)' >= -(others2 * program.batch)
      BY <3>8, Zenon DEF b
    <3> QED BY <2>4, <3>9, Zenon
  <2> QED BY <2>6, <2>7
<1> QED BY <1>1, <1>2, <1>3, <1>6, <1>7, <1>8, <1>9, <1>11, <1>12 DEF CounterInv
\* Every step keeps the invariant; a program that does not count in task_nr
\* has nothing to keep.
LEMMA CounterStep == CounterInv /\ [Next]_vars => CounterInv'
<1> SUFFICES ASSUME CounterInv, [Next]_vars PROVE CounterInv'
  OBVIOUS
<1>1. program' = program
  BY DEF Next, Ended, Step, Generate, RunCase, EndBatch, LoadTaskNr, FetchSub, vars
<1>2. CASE program.kind # "bench"
  BY <1>1, <1>2 DEF CounterInv
<1>3. CASE program.kind = "bench" /\ UNCHANGED vars
  BY <1>3 DEF vars, CounterInv, CounterTypes, Counted, BatchInv, DoneInv, LastReader,
              Taken, Busy, Threads
<1>4. ASSUME program.kind = "bench", NEW t \in Threads, Step(t)
      PROVE  CounterInv'
  BY <1>4, GenerateStep, RunCaseStep, EndBatchStep, LoadStep, FetchSubStep DEF Step
<1> QED BY <1>2, <1>3, <1>4 DEF Next, Ended

\* Whatever the order in which the threads read and subtract, the books of the
\* benchmark's counter balance.
THEOREM CounterInvariance == Spec => []CounterInv
BY CounterInit, CounterStep, PTL DEF Spec

\* The sum of what ran is that of the cursors and of what is in flight.
LEMMA RanIsCounted ==
    ASSUME CounterInv, program.kind = "bench"
    PROVE  /\ SumFunction(ran) = program.test_nr - task_nr + SumFunction(InFlight)
           /\ SumFunction(cur_idx) = program.test_nr - task_nr
           /\ SumFunction(InFlight) \in Int /\ task_nr \in Int
<1>1. /\ program \in Programs /\ CounterTypes /\ Counted /\ BatchInv
      /\ IsFiniteSet(Threads) /\ program.test_nr \in Nat
  BY ThreadFacts DEF CounterInv
<1>2. /\ cur_idx \in [Threads -> Int] /\ InFlight \in [Threads -> Int]
      /\ ran \in [Threads -> Int] /\ task_nr \in Int
  BY <1>1 DEF CounterTypes, InFlight
<1>3. ran = [t \in Threads |-> cur_idx[t] + InFlight[t]]
  <2>1. ASSUME NEW t \in Threads PROVE ran[t] = cur_idx[t] + InFlight[t]
    <3>1. /\ pc[t] \in {"load", "run", "sub", "done"} /\ ran[t] = i[t]
          /\ i[t] \in Nat /\ cur_idx[t] \in Nat
          /\ pc[t] \in {"load", "done"} => i[t] = cur_idx[t]
      BY <1>1 DEF CounterTypes, BatchInv
    <3> QED BY <3>1 DEF InFlight
  <2> QED BY <1>2, <2>1
<1>4. SumFunction(ran) = SumFunction(cur_idx) + SumFunction(InFlight)
  <2> HIDE DEF InFlight
  <2> QED BY <1>1, <1>2, <1>3, SumAdd
<1>5. SumFunction(cur_idx) \in Int /\ SumFunction(InFlight) \in Int
  BY <1>1, <1>2, SumType
<1>6. SumFunction(cur_idx) = program.test_nr - task_nr
  BY <1>1, <1>2, <1>5 DEF Counted
<1> QED BY <1>1, <1>2, <1>4, <1>5, <1>6

\* The benchmark's counter tells the truth about what ran: no case is counted
\* twice or skipped, and no batch reaches past the last case.
THEOREM CountsCorrect == Spec => []CountsWhatRan
<1>1. CounterInv => CountsWhatRan
  <2> SUFFICES ASSUME CounterInv, program.kind = "bench" PROVE CountsWhatRan
    BY DEF CountsWhatRan
  <2>1. SumFunction(ran) = program.test_nr - task_nr + SumFunction(InFlight)
    BY RanIsCounted
  <2>2. BatchInv
    BY DEF CounterInv
  <2> QED BY <2>1, <2>2 DEF CountsWhatRan, BatchInv
<1> QED BY <1>1, CounterInvariance, PTL

\* task_nr never falls below zero by more than a batch for each thread but one,
\* and when all threads are joined at least test_nr cases have run.
THEOREM OvershootCorrect == Spec => []OvershootBounded
<1>1. ASSUME CounterInv, program.kind = "bench" PROVE OvershootBounded
  <2>1. /\ program \in Programs /\ CounterTypes /\ BatchInv /\ DoneInv
        /\ IsFiniteSet(Threads) /\ Threads # {} /\ Cardinality(Threads) \in Nat
        /\ program.test_nr \in Nat /\ program.batch \in Nat
    BY <1>1, ThreadFacts DEF CounterInv
  <2>2. task_nr >= -((Cardinality(Threads) - 1) * program.batch)
    <3>1. PICK u \in Threads : LastReader(u)
      BY <1>1 DEF CounterInv
    <3> DEFINE all == Cardinality(Threads) - 1
               busy == Cardinality(Busy \ {u})
    <3>2. Busy \in SUBSET Threads
      BY DEF Busy
    <3>3. busy \in Nat
      BY <2>1, <3>2, ThreadFacts
    <3>4. Taken(u) \in Nat /\ task_nr \in Int
      BY <2>1, <3>2 DEF Taken, CounterTypes
    <3>5. task_nr - Taken(u) >= -((all - busy) * program.batch)
      BY <3>1 DEF LastReader
    <3>6. all \in Int
      BY <2>1
    <3> HIDE DEF all, busy
    <3>7. (all - busy) * program.batch \in Int /\ all * program.batch \in Int
      BY <2>1, <3>3, <3>6
    <3>8. (all - busy) * program.batch <= all * program.batch
      <4>1. (all - busy) * program.batch = all * program.batch - busy * program.batch
        BY <2>1, <3>3, <3>6
      <4>2. busy * program.batch \in Nat
        BY <2>1, <3>3
      <4> QED BY <3>7, <4>1, <4>2
    <3> DEFINE x == (all - busy) * program.batch
               y == all * program.batch
    <3>9. x \in Int /\ y \in Int /\ x <= y /\ task_nr - Taken(u) >= -x
      BY <3>5, <3>7, <3>8
    <3> HIDE DEF x, y
    <3>10. task_nr >= -y
      BY <3>4, <3>9
    <3>11. task_nr >= -(all * program.batch)
      BY <3>10, Zenon DEF y
    <3> QED BY <3>11, Zenon DEF all
  <2>3. ASSUME \A t \in Threads : pc[t] = "done" PROVE SumFunction(ran) >= program.test_nr
    <3>1. task_nr <= 0 /\ task_nr \in Int
      BY <2>1, <2>3 DEF DoneInv, CounterTypes
    <3>2. ran = cur_idx
      <4>1. \A t \in Threads : ran[t] = cur_idx[t]
        BY <2>1, <2>3 DEF BatchInv
      <4> QED BY <2>1, <4>1 DEF CounterTypes
    <3>3. SumFunction(ran) = program.test_nr - task_nr
      BY <1>1, <3>2, RanIsCounted
    <3> QED BY <2>1, <3>1, <3>3
  <2> QED BY <2>2, <2>3 DEF OvershootBounded
<1>2. CounterInv => OvershootBounded
  BY <1>1 DEF OvershootBounded
<1> QED BY <1>2, CounterInvariance, PTL

-----------------------------------------------------------------------------
(* The recursive functions of the generator *)

\* The largest element, where there is one.
LEMMA MaxIs ==
    ASSUME NEW S \in SUBSET Int, NEW m \in S, \A y \in S : m >= y
    PROVE  Max(S) = m
<1>1. ASSUME NEW x \in S, \A y \in S : x >= y PROVE x = m
  BY <1>1
<1> QED BY <1>1 DEF Max

\* A non-empty set of indices has a largest element.
LEMMA MaxIndex ==
    ASSUME NEW n \in Nat, NEW s \in SUBSET (1..n), s # {}
    PROVE  Max(s) \in s /\ \A y \in s : Max(s) >= y
<1> DEFINE D == {n - x : x \in s}
<1>0. \A x \in s : x \in Nat /\ x <= n
  OBVIOUS
<1>1. D \in SUBSET Nat /\ D # {}
  <2>1. \A x \in s : n - x \in Nat
    BY <1>0
  <2> QED BY <2>1
<1>2. PICK d \in D : \A e \in D : d <= e
  <2> HIDE DEF D
  <2> QED BY <1>1, LeastNat
<1>3. PICK m \in s : d = n - m
  BY <1>2
<1>4. \A y \in s : m >= y
  <2> TAKE y \in s
  <2>1. n - y \in D
    OBVIOUS
  <2>2. d <= n - y
    BY <1>2, <2>1
  <2> QED BY <1>0, <1>3, <2>2
<1>5. Max(s) = m
  <2>1. s \in SUBSET Int
    BY <1>0
  <2> QED BY <1>4, <2>1, MaxIs
<1> QED BY <1>4, <1>5

\* h is F applied from base on, along each set of indices up to n.
IsFold(h, n, base, F) ==
    \A s \in SUBSET (1..n) :
        h[s] = IF s = {} THEN base ELSE F[<<Max(s), h[s \ {Max(s)}]>>]

\* A recursion over sets of indices that takes the last one defines a function,
\* by induction on the size of the sets: it is how a fold goes along a sequence.
LEMMA FoldExists ==
    ASSUME NEW n \in Nat, NEW V, NEW base \in V, NEW F \in [(1..n) \X V -> V]
    PROVE  \E h \in [SUBSET (1..n) -> V] : IsFold(h, n, base, F)
<1> DEFINE S == 1..n
           Rec(h, s) == IF s = {} THEN base ELSE F[<<Max(s), h[s \ {Max(s)}]>>]
           Upto(h, k) == \A s \in SUBSET S : Cardinality(s) <= k => h[s] = Rec(h, s)
           Bad == {k \in Nat : ~ \E h \in [SUBSET S -> V] : Upto(h, k)}
<1>5. IsFiniteSet(S)
  BY FS_Interval
<1>6. \A s \in SUBSET S : s # {} => Max(s) \in s
  BY MaxIndex
<1> HIDE DEF S
<1>7. \A s \in SUBSET S : /\ IsFiniteSet(s) /\ Cardinality(s) \in Nat
                          /\ s # {} => Cardinality(s) # 0
  BY <1>5, FS_Subset, FS_CardinalityType, FS_EmptySet
<1>1. Bad = {}
  <2> SUFFICES ASSUME Bad # {} PROVE FALSE
    OBVIOUS
  <2>1. PICK m \in Bad : \A k \in Bad : m <= k
    <3>1. Bad \in SUBSET Nat
      OBVIOUS
    <3> HIDE DEF Bad
    <3> QED BY <3>1, LeastNat
  <2>2. \A s \in SUBSET S : Cardinality(s) <= 0 => s = {}
    BY <1>7
  <2>3. m # 0
    <3> SUFFICES ASSUME m = 0 PROVE FALSE
      OBVIOUS
    <3> DEFINE h == [s \in SUBSET S |-> base]
    <3>1. h \in [SUBSET S -> V] /\ Upto(h, 0)
      BY <2>2
    <3> QED BY <2>1, <3>1
  <2>4. m - 1 \in Nat /\ m - 1 \notin Bad
    <3>1. m \in Nat
      OBVIOUS
    <3> HIDE DEF Bad
    <3> QED BY <2>1, <2>3, <3>1
  <2>5. PICK h \in [SUBSET S -> V] : Upto(h, m - 1)
    BY <2>4
  <2> DEFINE new == [s \in SUBSET S |-> Rec(h, s)]
  <2>6. new \in [SUBSET S -> V]
    <3>1. ASSUME NEW s \in SUBSET S PROVE Rec(h, s) \in V
      <4>1. CASE s = {}
        BY <4>1
      <4>2. CASE s # {}
        <5>1. Max(s) \in S /\ s \ {Max(s)} \in SUBSET S
          BY <1>6, <4>2
        <5>2. <<Max(s), h[s \ {Max(s)}]>> \in S \X V
          BY <5>1
        <5> QED BY <4>2, <5>2 DEF S
      <4> QED BY <4>1, <4>2
    <3> HIDE DEF Rec
    <3> QED BY <3>1
  <2>7. Upto(new, m)
    <3> SUFFICES ASSUME NEW s \in SUBSET S, Cardinality(s) <= m
                 PROVE  new[s] = Rec(new, s)
      OBVIOUS
    <3>1. CASE s = {}
      BY <3>1
    <3>2. CASE s # {}
      <4> DEFINE r == s \ {Max(s)}
      <4>1. r \in SUBSET S /\ Cardinality(s) \in Nat /\ Cardinality(r) = Cardinality(s) - 1
        BY <1>7, <1>6, <3>2, FS_RemoveElement
      <4>2. Cardinality(r) <= m - 1
        BY <2>1, <4>1
      <4>3. h[r] = Rec(h, r)
        BY <2>5, <4>1, <4>2
      <4>4. new[r] = h[r]
        <5> HIDE DEF Rec, r
        <5> QED BY <4>1, <4>3
      <4>5. new[s] = Rec(h, s)
        <5> HIDE DEF Rec
        <5> QED OBVIOUS
      <4>6. Rec(h, s) = F[<<Max(s), h[r]>>] /\ Rec(new, s) = F[<<Max(s), new[r]>>]
        <5> HIDE DEF new
        <5> QED BY <3>2
      <4> HIDE DEF Rec, new, r
      <4> QED BY <4>4, <4>5, <4>6
    <3> QED BY <3>1, <3>2
  <2> HIDE DEF new, Upto
  <2> QED BY <2>1, <2>6, <2>7
<1>2. Cardinality(S) \in Nat
  BY <1>5, FS_CardinalityType
<1>3. PICK h \in [SUBSET S -> V] : Upto(h, Cardinality(S))
  BY <1>1, <1>2
<1>4. \A s \in SUBSET S : h[s] = Rec(h, s)
  <2>1. \A s \in SUBSET S : Cardinality(s) <= Cardinality(S)
    BY <1>5, FS_Subset
  <2> QED BY <1>3, <2>1
<1> QED BY <1>4 DEF S, IsFold

\* Division by the scale keeps the order, and takes less than n times it below n.
LEMMA DivFacts ==
    ASSUME NEW n \in Nat, NEW b \in Nat, NEW c \in Nat, b <= c, c < Scale
    PROVE  /\ (n * b) \div Scale \in Nat
           /\ (n * b) \div Scale <= (n * c) \div Scale
           /\ n > 0 => (n * c) \div Scale < n
<1>1. Scale \in Nat \ {0}
  BY GeneratorAssumption
<1> QED BY <1>1

\* The keys before k in a set of keys.
Before(S, k) == {j \in S : j < k}

\* Every position of a finite set of keys is that of one of them: the number of
\* keys before a key is different for every key.
LEMMA KeyAtFacts ==
    ASSUME NEW S \in SUBSET Int, IsFiniteSet(S), NEW idx \in Nat, idx < Cardinality(S)
    PROVE  KeyAt(S, idx) \in S /\ Cardinality(Before(S, KeyAt(S, idx))) = idx
<1> DEFINE n == Cardinality(S)
           T == 0..(n - 1)
           rank == [k \in S |-> Cardinality(Before(S, k))]
<1>1. n \in Nat
  BY FS_CardinalityType
<1>2. ASSUME NEW k \in S
      PROVE  /\ IsFiniteSet(Before(S, k)) /\ Cardinality(Before(S, k)) \in Nat
             /\ Cardinality(Before(S, k)) < n
  <2>1. Before(S, k) \in SUBSET S /\ k \notin Before(S, k)
    BY DEF Before
  <2>2. /\ IsFiniteSet(Before(S, k)) /\ Cardinality(Before(S, k)) <= n
        /\ Cardinality(Before(S, k)) # n
    BY <2>1, FS_Subset
  <2>3. Cardinality(Before(S, k)) \in Nat
    BY <2>2, FS_CardinalityType
  <2> QED BY <1>1, <2>2, <2>3
<1>3. ASSUME NEW j \in S, NEW k \in S, j < k
      PROVE  Cardinality(Before(S, j)) # Cardinality(Before(S, k))
  <2>1. Before(S, j) \in SUBSET Before(S, k) /\ j \in Before(S, k) /\ j \notin Before(S, j)
    <3>1. \A x \in S : x \in Int
      OBVIOUS
    <3>2. \A x \in S : x < j => x < k
      BY <1>3, <3>1
    <3>3. ~ (j < j)
      BY <3>1
    <3> QED BY <1>3, <3>2, <3>3, Zenon DEF Before
  <2>2. IsFiniteSet(Before(S, k))
    BY <1>2
  <2> QED BY <2>1, <2>2, FS_Subset
<1>4. rank \in [S -> T]
  BY <1>1, <1>2
<1>5. \A j, k \in S : j # k => rank[j] # rank[k]
  <2>1. \A j, k \in S : j # k => j < k \/ k < j
    OBVIOUS
  <2> QED BY <1>3, <2>1
<1>6. IsFiniteSet(T) /\ Cardinality(T) = n
  <2>1. 0 \in Int /\ n - 1 \in Int
    BY <1>1
  <2> HIDE DEF n
  <2>2. /\ IsFiniteSet(0..(n - 1))
        /\ Cardinality(0..(n - 1)) = IF 0 > n - 1 THEN 0 ELSE n - 1 - 0 + 1
    BY <2>1, FS_Interval
  <2> QED BY <1>1, <2>2
<1>7. rank \in Injection(S, T)
  BY <1>4, <1>5 DEF Injection, IsInjective
<1>8. rank \in Surjection(S, T)
  <2> HIDE DEF rank, T
  <2> QED BY <1>6, <1>7, FS_Injection
<1>9. \E k \in S : rank[k] = idx
  <2>1. idx \in T
    BY <1>1
  <2> HIDE DEF T, rank
  <2> QED BY <1>8, <2>1 DEF Surjection
<1>10. \E k \in S : Cardinality({j \in S : j < k}) = idx
  BY <1>9 DEF Before
<1> QED BY <1>10, Zenon DEF KeyAt, Before
-----------------------------------------------------------------------------
(* The construction of a generator *)

OpConfigs == [op : Ops, op_rate : Nat, found_rate : Nat, visit_range_percent : Nat]

\* The sums of the rates, as the loop of validate goes along them.
RateSums(h, op_confs) ==
    h = [s \in SUBSET DOMAIN op_confs |->
            IF s = {} THEN 0 ELSE h[s \ {Max(s)}] + op_confs[Max(s)].op_rate]

\* validate, with the recursion that adds up the rates named.
LEMMA ValidateDef ==
    ASSUME NEW op_confs
    PROVE  validate(op_confs) <=>
              (CHOOSE h : RateSums(h, op_confs))[DOMAIN op_confs] = Scale
BY DEF validate, FoldLeft, MapThenFoldSet, RateSums

\* One round of the loop of the constructor.
AddConf(m, c) ==
    [acc |-> m.acc + c.op_rate,
     map |-> [a \in DOMAIN m.map \cup {m.acc + c.op_rate} |->
                 IF a = m.acc + c.op_rate THEN c ELSE m.map[a]]]

MapSums(h, op_confs) ==
    h = [s \in SUBSET DOMAIN op_confs |->
            IF s = {} THEN [acc |-> 0, map |-> << >>]
                      ELSE AddConf(h[s \ {Max(s)}], op_confs[Max(s)])]

\* The constructor's map, with the recursion that builds it named.
LEMMA MapDef ==
    ASSUME NEW op_confs
    PROVE  acc_prob_to_conf(op_confs) =
              (CHOOSE h : MapSums(h, op_confs))[DOMAIN op_confs].map
BY DEF acc_prob_to_conf, FoldLeft, MapThenFoldSet, MapSums, AddConf

\* The recursion of validate has a solution.
LEMMA RatesSolved ==
    ASSUME NEW op_confs \in Seq(OpConfigs)
    PROVE  \E h : RateSums(h, op_confs)
<1> DEFINE n == Len(op_confs)
           F == [p \in (1..n) \X Nat |-> p[2] + op_confs[p[1]].op_rate]
<1>1. n \in Nat /\ DOMAIN op_confs = 1..n /\ \A k \in 1..n : op_confs[k].op_rate \in Nat
  <2>1. \A k \in 1..n : op_confs[k] \in OpConfigs
    OBVIOUS
  <2>2. \A c \in OpConfigs : c.op_rate \in Nat
    BY DEF OpConfigs
  <2> QED BY <2>1, <2>2
<1> HIDE DEF n
<1>2. F \in [(1..n) \X Nat -> Nat]
  BY <1>1
<1>3. ASSUME NEW k \in 1..n, NEW v \in Nat PROVE F[<<k, v>>] = v + op_confs[k].op_rate
  <2>1. <<k, v>> \in (1..n) \X Nat
    OBVIOUS
  <2> QED BY <2>1
<1> HIDE DEF F
<1>4. PICK h \in [SUBSET (1..n) -> Nat] : IsFold(h, n, 0, F)
  BY <1>1, <1>2, FoldExists
<1>5. ASSUME NEW s \in SUBSET (1..n), s # {}
      PROVE  F[<<Max(s), h[s \ {Max(s)}]>>] = h[s \ {Max(s)}] + op_confs[Max(s)].op_rate
  <2>1. Max(s) \in 1..n
    BY <1>1, <1>5, MaxIndex
  <2>2. s \ {Max(s)} \in SUBSET (1..n)
    OBVIOUS
  <2>3. h[s \ {Max(s)}] \in Nat
    BY <2>2
  <2> QED BY <1>3, <2>1, <2>3
<1>6. \A s \in SUBSET (1..n) :
         h[s] = IF s = {} THEN 0 ELSE h[s \ {Max(s)}] + op_confs[Max(s)].op_rate
  BY <1>4, <1>5 DEF IsFold
<1>7. h = [s \in SUBSET (1..n) |->
              IF s = {} THEN 0 ELSE h[s \ {Max(s)}] + op_confs[Max(s)].op_rate]
  BY <1>6
<1>8. RateSums(h, op_confs)
  BY <1>1, <1>7, Zenon DEF RateSums
<1> QED BY <1>8

\* What the loop of the constructor goes through.
MapStates == [acc : Nat, map : UNION {[D -> OpConfigs] : D \in SUBSET Nat}]

\* A round keeps to it.
LEMMA AddConfType ==
    ASSUME NEW m \in MapStates, NEW c \in OpConfigs
    PROVE  /\ AddConf(m, c) \in MapStates
           /\ m.acc \in Nat /\ c.op_rate \in Nat
           /\ AddConf(m, c).acc = m.acc + c.op_rate
           /\ DOMAIN AddConf(m, c).map = DOMAIN m.map \cup {m.acc + c.op_rate}
           /\ AddConf(m, c).map[m.acc + c.op_rate] = c
           /\ \A a \in DOMAIN m.map : AddConf(m, c).map[a] \in {m.map[a], c}
<1>1. m.acc \in Nat /\ c.op_rate \in Nat
  BY DEF MapStates, OpConfigs
<1>2. PICK D \in SUBSET Nat : m.map \in [D -> OpConfigs]
  BY DEF MapStates
<1> DEFINE acc == m.acc + c.op_rate
           new == [a \in DOMAIN m.map \cup {acc} |-> IF a = acc THEN c ELSE m.map[a]]
<1>3. acc \in Nat
  BY <1>1
<1>4. AddConf(m, c) = [acc |-> acc, map |-> new]
  BY DEF AddConf
<1>5. DOMAIN m.map = D
  BY <1>2
<1>6. new \in [D \cup {acc} -> OpConfigs]
  BY <1>2, <1>5
<1>7. D \cup {acc} \in SUBSET Nat
  BY <1>3
<1>8. DOMAIN new = DOMAIN m.map \cup {acc} /\ new[acc] = c
      /\ \A a \in DOMAIN m.map : new[a] \in {m.map[a], c}
  OBVIOUS
<1> HIDE DEF new, acc
<1>9. AddConf(m, c).acc = acc /\ AddConf(m, c).map = new
  BY <1>4
<1>10. AddConf(m, c) \in MapStates
  BY <1>3, <1>4, <1>6, <1>7 DEF MapStates
<1> QED BY <1>1, <1>8, <1>9, <1>10, Zenon DEF acc

\* The recursion of the constructor has a solution.
LEMMA MapSolved ==
    ASSUME NEW op_confs \in Seq(OpConfigs)
    PROVE  \E h : MapSums(h, op_confs)
<1> DEFINE n == Len(op_confs)
           base == [acc |-> 0, map |-> << >>]
           F == [p \in (1..n) \X MapStates |-> AddConf(p[2], op_confs[p[1]])]
<1>1. n \in Nat /\ DOMAIN op_confs = 1..n /\ \A k \in 1..n : op_confs[k] \in OpConfigs
  OBVIOUS
<1> HIDE DEF n
<1>2. F \in [(1..n) \X MapStates -> MapStates]
  BY <1>1, AddConfType
<1>3. ASSUME NEW k \in 1..n, NEW v \in MapStates
      PROVE  F[<<k, v>>] = AddConf(v, op_confs[k])
  <2>1. <<k, v>> \in (1..n) \X MapStates
    OBVIOUS
  <2> QED BY <2>1
<1>4. base \in MapStates
  <2>1. << >> \in [{} -> OpConfigs]
    OBVIOUS
  <2> QED BY <2>1 DEF MapStates
<1> HIDE DEF F, base
<1>5. PICK h \in [SUBSET (1..n) -> MapStates] : IsFold(h, n, base, F)
  BY <1>1, <1>2, <1>4, FoldExists
<1>6. ASSUME NEW s \in SUBSET (1..n), s # {}
      PROVE  F[<<Max(s), h[s \ {Max(s)}]>>] = AddConf(h[s \ {Max(s)}], op_confs[Max(s)])
  <2>1. Max(s) \in 1..n
    BY <1>1, <1>6, MaxIndex
  <2>2. s \ {Max(s)} \in SUBSET (1..n)
    OBVIOUS
  <2>3. h[s \ {Max(s)}] \in MapStates
    BY <2>2
  <2> QED BY <1>3, <2>1, <2>3
<1>7. \A s \in SUBSET (1..n) :
         h[s] = IF s = {} THEN base ELSE AddConf(h[s \ {Max(s)}], op_confs[Max(s)])
  BY <1>5, <1>6 DEF IsFold
<1>8. h = [s \in SUBSET (1..n) |->
              IF s = {} THEN base ELSE AddConf(h[s \ {Max(s)}], op_confs[Max(s)])]
  BY <1>7
<1>9. MapSums(h, op_confs)
  BY <1>1, <1>8, Zenon DEF MapSums, base
<1> QED BY <1>9

\* A generator whose rates pass validate finds a configuration for every r, and
\* one of those it was given.
LEMMA MapFacts ==
    ASSUME NEW op_confs \in Seq(OpConfigs)
    PROVE  LET m == acc_prob_to_conf(op_confs)
           IN /\ \A a \in DOMAIN m : \E k \in DOMAIN op_confs : m[a] = op_confs[k]
              /\ validate(op_confs) => Max(DOMAIN m) = Scale
<1> DEFINE n == Len(op_confs)
           r == CHOOSE h : RateSums(h, op_confs)
           q == CHOOSE h : MapSums(h, op_confs)
<1>1. n \in Nat /\ DOMAIN op_confs = 1..n /\ \A k \in 1..n : op_confs[k] \in OpConfigs
  OBVIOUS
<1>2. RateSums(r, op_confs) /\ MapSums(q, op_confs)
  BY RatesSolved, MapSolved, Zenon
<1>3. /\ validate(op_confs) <=> r[1..n] = Scale
      /\ acc_prob_to_conf(op_confs) = q[1..n].map
  BY <1>1, ValidateDef, MapDef, Zenon
<1> HIDE DEF r, q, n
<1>4. r[1..0] = 0 /\ q[1..0] = [acc |-> 0, map |-> << >>]
  <2>1. 1..0 = {}
    OBVIOUS
  <2>2. {} \in SUBSET (1..n)
    OBVIOUS
  <2>3. r[{}] = 0
    BY <1>1, <1>2, <2>2 DEF RateSums
  <2>4. q[{}] = [acc |-> 0, map |-> << >>]
    BY <1>1, <1>2, <2>2 DEF MapSums
  <2> QED BY <2>1, <2>3, <2>4
<1>5. ASSUME NEW k \in 1..n
      PROVE  /\ r[1..k] = r[1..(k - 1)] + op_confs[k].op_rate
             /\ q[1..k] = AddConf(q[1..(k - 1)], op_confs[k])
  <2> DEFINE s == 1..k
  <2>1. s \in SUBSET (1..n) /\ s # {} /\ s \in SUBSET Int /\ k \in s /\ \A y \in s : k >= y
    BY <1>1
  <2>2. s \ {k} = 1..(k - 1)
    BY <1>1
  <2> HIDE DEF s
  <2>3. Max(s) = k
    BY <2>1, MaxIs
  <2>4. r[s] = r[s \ {Max(s)}] + op_confs[Max(s)].op_rate
    BY <1>1, <1>2, <2>1 DEF RateSums
  <2>5. q[s] = AddConf(q[s \ {Max(s)}], op_confs[Max(s)])
    BY <1>1, <1>2, <2>1 DEF MapSums
  <2> QED BY <2>2, <2>3, <2>4, <2>5 DEF s
<1> DEFINE Holds(k) ==
              /\ q[1..k] \in MapStates
              /\ q[1..k].acc = r[1..k]
              /\ \A a \in DOMAIN q[1..k].map : /\ a \in Nat /\ a <= r[1..k]
                                               /\ \E j \in 1..n : q[1..k].map[a] = op_confs[j]
              /\ k > 0 => r[1..k] \in DOMAIN q[1..k].map
<1>6. Holds(0)
  <2>1. << >> \in [{} -> OpConfigs]
    OBVIOUS
  <2>2. [acc |-> 0, map |-> << >>] \in MapStates
    BY <2>1 DEF MapStates
  <2> QED BY <1>4, <2>2
<1>7. ASSUME NEW k \in 1..n, Holds(k - 1) PROVE Holds(k)
  <2> DEFINE old == q[1..(k - 1)]
             new == q[1..k]
             c == op_confs[k]
             was == r[1..(k - 1)]
             is == r[1..k]
  <2>1. old \in MapStates /\ old.acc = was /\ c \in OpConfigs
        /\ \A a \in DOMAIN old.map : /\ a \in Nat /\ a <= was
                                     /\ \E j \in 1..n : old.map[a] = op_confs[j]
    BY <1>1, <1>7
  <2>2. new = AddConf(old, c) /\ is = was + c.op_rate
    BY <1>5
  <2> HIDE DEF old, new, was, is
  <2>3. /\ new \in MapStates
        /\ was \in Nat /\ c.op_rate \in Nat
        /\ new.acc = is
        /\ DOMAIN new.map = DOMAIN old.map \cup {is}
        /\ new.map[is] = c
        /\ \A a \in DOMAIN old.map : new.map[a] \in {old.map[a], c}
    BY <2>1, <2>2, AddConfType
  <2>4. \A a \in DOMAIN new.map : /\ a \in Nat /\ a <= is
                                  /\ \E j \in 1..n : new.map[a] = op_confs[j]
    BY <2>1, <2>2, <2>3 DEF c
  <2> QED BY <2>3, <2>4 DEF new, is
<1>8. Holds(n)
  <2> DEFINE Bad == {k \in 0..n : ~ Holds(k)}
  <2> HIDE DEF Holds
  <2> SUFFICES ASSUME Bad # {} PROVE FALSE
    BY <1>1
  <2>1. Bad \in SUBSET Nat
    BY <1>1
  <2>2. PICK m \in Bad : \A k \in Bad : m <= k
    <3> HIDE DEF Bad
    <3> QED BY <2>1, LeastNat
  <2>3. m \in 0..n /\ ~ Holds(m) /\ m # 0
    BY <1>6
  <2>4. m - 1 \in 0..n /\ m \in 1..n
    BY <1>1, <2>3
  <2>5. ~ Holds(m - 1)
    BY <1>7, <2>3, <2>4
  <2>6. m - 1 \in Bad
    BY <2>4, <2>5
  <2> HIDE DEF Bad
  <2> QED BY <1>1, <2>2, <2>3, <2>6
<1>9. ASSUME validate(op_confs) PROVE Max(DOMAIN q[1..n].map) = Scale
  <2>1. r[1..n] = Scale /\ Scale # 0 /\ Scale \in Nat
    BY <1>3, <1>9, GeneratorAssumption
  <2>2. n # 0
    BY <1>4, <2>1
  <2> DEFINE D == DOMAIN q[1..n].map
  <2>3. Scale \in D /\ D \in SUBSET Int /\ \A a \in D : Scale >= a
    BY <1>1, <1>8, <2>1, <2>2
  <2> HIDE DEF D
  <2>4. Max(D) = Scale
    BY <2>3, MaxIs
  <2> QED BY <2>4 DEF D
<1> QED BY <1>1, <1>3, <1>8, <1>9
-----------------------------------------------------------------------------
(* What a generator may hand out *)

\* The engine and the validators understand the case, and its key is one that
\* the thread's allocator returns.
GoodCase(c, keys) ==
    /\ c # << >> /\ c.op \in Ops
    /\ c.op \in {"kPut", "kDelete", "kGet"} => c.key \in keys
    /\ c.op = "kPut" => c.value \in Values

\* The case is not one that a CHECK refuses whatever the engine answers, and a
\* visit runs between two keys of the thread.
FairCase(c, keys, kind) ==
    /\ c.op # "kSnapshot"
    /\ c.op = "kVisit" => c.lower \in keys /\ c.upper \in keys
    /\ kind = "validate" => c.op # "kSync"

\* The keys that a generator believes to be there after case c.
After(c, S) == IF c.op = "kPut" THEN S \cup {c.key}
               ELSE IF c.op = "kDelete" THEN S \ {c.key} ELSE S

\* A case is not the empty tuple.
LEMMA CaseNotEmpty ==
    ASSUME NEW op
    PROVE  /\ TestCase(op) # << >>
           /\ \A k, v : [TestCase(op) EXCEPT !.key = k, !.value = v] # << >>
           /\ \A k : [TestCase(op) EXCEPT !.key = k] # << >>
           /\ \A l, h : [TestCase(op) EXCEPT !.lower = l, !.upper = h] # << >>
<1>1. \A r : "op" \in DOMAIN r => r # << >>
  OBVIOUS
<1>2. /\ "op" \in DOMAIN TestCase(op)
      /\ \A k, v : "op" \in DOMAIN [TestCase(op) EXCEPT !.key = k, !.value = v]
      /\ \A k : "op" \in DOMAIN [TestCase(op) EXCEPT !.key = k]
      /\ \A l, h : "op" \in DOMAIN [TestCase(op) EXCEPT !.lower = l, !.upper = h]
  BY DEF TestCase
<1> QED BY <1>1, <1>2

\* An inserted key or a new one, a generator picks a key of its allocator.
LEMMA PickKey ==
    ASSUME NEW found_rate, NEW keys, NEW ins \in SUBSET keys,
           NEW k \in pick_key(found_rate, ins, keys)
    PROVE  k \in keys
BY DEF pick_key, random_choose

\* The two ends of a visit lie in the inserted keys, the lower one first.
LEMMA VisitIndices ==
    ASSUME NEW n \in Nat \ {0}, NEW percent \in Nat, percent < Scale,
           NEW ix \in visit_indices(n, percent)
    PROVE  ix[1] \in Nat /\ ix[2] \in Nat /\ ix[1] <= ix[2] /\ ix[2] < n
<1>1. Scale \in Nat \ {0}
  BY GeneratorAssumption
<1>2. Max({0, Scale - percent - 1}) = Scale - percent - 1
  <2> DEFINE m == Scale - percent - 1
  <2>1. m \in Int /\ m >= 0
    BY <1>1
  <2> HIDE DEF m
  <2>2. {0, m} \in SUBSET Int /\ m \in {0, m} /\ \A y \in {0, m} : m >= y
    BY <2>1
  <2>3. Max({0, m}) = m
    BY <2>2, MaxIs
  <2> QED BY <2>3 DEF m
<1>3. PICK b \in 0..(Scale - percent - 1) :
         ix = <<(n * b) \div Scale, (n * (b + percent)) \div Scale>>
  BY <1>2 DEF visit_indices
<1>4. b \in Nat /\ b + percent \in Nat /\ b <= b + percent /\ b + percent < Scale
  BY <1>1, <1>3
<1>5. /\ (n * b) \div Scale \in Nat
      /\ (n * b) \div Scale <= (n * (b + percent)) \div Scale
      /\ (n * (b + percent)) \div Scale < n
      /\ (n * (b + percent)) \div Scale \in Nat
  <2> DEFINE c == b + percent
  <2>1. n \in Nat /\ n > 0 /\ c <= c
    BY <1>4
  <2> HIDE DEF c
  <2>2. /\ (n * b) \div Scale \in Nat
        /\ (n * b) \div Scale <= (n * c) \div Scale
        /\ (n * c) \div Scale < n
    BY <1>4, <2>1, DivFacts DEF c
  <2>3. (n * c) \div Scale \in Nat
    BY <1>4, <2>1, DivFacts DEF c
  <2> QED BY <2>2, <2>3 DEF c
<1>6. ix[1] = (n * b) \div Scale /\ ix[2] = (n * (b + percent)) \div Scale
  BY <1>3
<1> QED BY <1>5, <1>6

\* What a generator with the keys ins hands out to a thread with keys.
GoodTest(g, ins, keys) ==
    /\ GoodCase(g.case, keys)
    /\ g.inserted_keys = After(g.case, ins)

FairTest(g, keys, kind) == g.fatal = FALSE /\ FairCase(g.case, keys, kind)

\* One configuration, whichever it is.
LEMMA GenPut ==
    ASSUME NEW conf \in OpConfigs, NEW keys, NEW ins \in SUBSET keys, NEW kind,
           NEW g \in gen_put(conf, ins, keys)
    PROVE  GoodTest(g, ins, keys) /\ FairTest(g, keys, kind)
<1>1. PICK k \in pick_key(conf.found_rate, ins, keys), v \in Values :
         g = Generated([TestCase("kPut") EXCEPT !.key = k, !.value = v], ins \cup {k})
  <2>1. PICK x \in pick_key(conf.found_rate, ins, keys) \X Values :
           g = Generated([TestCase("kPut") EXCEPT !.key = x[1], !.value = x[2]],
                         ins \cup {x[1]})
    BY DEF gen_put
  <2>2. x[1] \in pick_key(conf.found_rate, ins, keys) /\ x[2] \in Values
    OBVIOUS
  <2> QED BY <2>1, <2>2
<1>2. k \in keys
  BY <1>1, PickKey
<1> DEFINE c == [TestCase("kPut") EXCEPT !.key = k, !.value = v]
<1>3. c.op = "kPut" /\ c.key = k /\ c.value = v /\ c # << >>
  BY CaseNotEmpty DEF TestCase
<1> HIDE DEF c
<1>4. g.case = c /\ g.inserted_keys = ins \cup {k} /\ g.fatal = FALSE
  BY <1>1 DEF Generated, c
<1> QED BY <1>2, <1>3, <1>4 DEF GoodTest, FairTest, GoodCase, FairCase, After, Ops

\* A delete is of a key of the thread and takes it out of inserted_keys.
LEMMA GenDelete ==
    ASSUME NEW conf \in OpConfigs, NEW keys, NEW ins \in SUBSET keys, NEW kind,
           NEW g \in gen_delete(conf, ins, keys)
    PROVE  GoodTest(g, ins, keys) /\ FairTest(g, keys, kind)
<1>1. PICK k \in pick_key(conf.found_rate, ins, keys) :
         g = Generated([TestCase("kDelete") EXCEPT !.key = k], ins \ {k})
  BY DEF gen_delete
<1>2. k \in keys
  BY <1>1, PickKey
<1> DEFINE c == [TestCase("kDelete") EXCEPT !.key = k]
<1>3. c.op = "kDelete" /\ c.key = k /\ c # << >>
  BY CaseNotEmpty DEF TestCase
<1> HIDE DEF c
<1>4. g.case = c /\ g.inserted_keys = ins \ {k} /\ g.fatal = FALSE
  BY <1>1 DEF Generated, c
<1> QED BY <1>2, <1>3, <1>4 DEF GoodTest, FairTest, GoodCase, FairCase, After, Ops

\* A get is of a key of the thread and leaves inserted_keys alone.
LEMMA GenGet ==
    ASSUME NEW conf \in OpConfigs, NEW keys, NEW ins \in SUBSET keys, NEW kind,
           NEW g \in gen_get(conf, ins, keys)
    PROVE  GoodTest(g, ins, keys) /\ FairTest(g, keys, kind)
<1>1. PICK k \in pick_key(conf.found_rate, ins, keys) :
         g = Generated([TestCase("kGet") EXCEPT !.key = k], ins)
  BY DEF gen_get
<1>2. k \in keys
  BY <1>1, PickKey
<1> DEFINE c == [TestCase("kGet") EXCEPT !.key = k]
<1>3. c.op = "kGet" /\ c.key = k /\ c # << >>
  BY CaseNotEmpty DEF TestCase
<1> HIDE DEF c
<1>4. g.case = c /\ g.inserted_keys = ins /\ g.fatal = FALSE
  BY <1>1 DEF Generated, c
<1> QED BY <1>2, <1>3, <1>4 DEF GoodTest, FairTest, GoodCase, FairCase, After, Ops

\* The operations without a key.
LEMMA GenOther ==
    ASSUME NEW op \in Ops \ {"kPut", "kDelete", "kGet", "kVisit"}, NEW keys, NEW ins,
           NEW kind
    PROVE  /\ GoodTest(Generated(TestCase(op), ins), ins, keys)
           /\ op # "kSnapshot" /\ (kind = "validate" => op # "kSync") =>
                 FairTest(Generated(TestCase(op), ins), keys, kind)
           /\ GoodTest(Aborted(ins), ins, keys)
<1> DEFINE c == TestCase(op)
           g == Generated(c, ins)
           d == TestCase("kNoOp")
<1>1. c.op = op /\ c # << >> /\ d.op = "kNoOp" /\ d # << >>
  BY CaseNotEmpty DEF TestCase
<1>2. Aborted(ins).case = d /\ Aborted(ins).inserted_keys = ins
  BY DEF Aborted
<1> HIDE DEF c, d
<1>3. g.case = c /\ g.inserted_keys = ins /\ g.fatal = FALSE
  BY DEF Generated
<1> HIDE DEF g
<1>4. GoodTest(g, ins, keys) /\ GoodTest(Aborted(ins), ins, keys)
  BY <1>1, <1>2, <1>3 DEF GoodTest, GoodCase, After, Ops
<1>5. op # "kSnapshot" /\ (kind = "validate" => op # "kSync") => FairTest(g, keys, kind)
  BY <1>1, <1>3 DEF FairTest, FairCase, Ops
<1> QED BY <1>4, <1>5 DEF g, c

\* A visit goes from one inserted key to another; the CHECKs on the two
\* positions hold unless the whole range is asked for.
LEMMA GenVisit ==
    ASSUME NEW conf \in OpConfigs, NEW keys \in SUBSET Int, NEW ins \in SUBSET keys,
           NEW kind, IsFiniteSet(ins), NEW g \in gen_visit(conf, ins)
    PROVE  /\ GoodTest(g, ins, keys)
           /\ conf.visit_range_percent < Scale => FairTest(g, keys, kind)
<1> DEFINE n == Cardinality(ins)
<1>1. n \in Nat /\ conf.visit_range_percent \in Nat
  <2>1. n \in Nat
    BY FS_CardinalityType
  <2> HIDE DEF n
  <2> QED BY <2>1 DEF OpConfigs
<1>2. CASE n = 0
  <2>1. g = Generated(TestCase("kNoOp"), ins)
    BY <1>2 DEF gen_visit
  <2>2. "kNoOp" \in Ops \ {"kPut", "kDelete", "kGet", "kVisit"}
    BY DEF Ops
  <2> QED BY <2>1, <2>2, GenOther
<1>3. CASE n # 0
  <2>1. PICK ix \in visit_indices(n, conf.visit_range_percent) :
           g = IF ix[2] >= ix[1] /\ ix[2] < n
               THEN Generated([TestCase("kVisit") EXCEPT !.lower = KeyAt(ins, ix[1]),
                                                         !.upper = KeyAt(ins, ix[2])], ins)
               ELSE Aborted(ins)
    BY <1>3 DEF gen_visit
  <2> DEFINE c == [TestCase("kVisit") EXCEPT !.lower = KeyAt(ins, ix[1]),
                                             !.upper = KeyAt(ins, ix[2])]
  <2>2. c.op = "kVisit" /\ c # << >> /\ c.lower = KeyAt(ins, ix[1])
        /\ c.upper = KeyAt(ins, ix[2])
    BY CaseNotEmpty DEF TestCase
  <2> HIDE DEF c
  <2>3. /\ Generated(c, ins).case = c /\ Generated(c, ins).inserted_keys = ins
        /\ Generated(c, ins).fatal = FALSE
    BY DEF Generated
  <2>4. g \in {Generated(c, ins), Aborted(ins)}
    BY <2>1 DEF c
  <2>5. GoodTest(Generated(c, ins), ins, keys)
    BY <2>2, <2>3 DEF GoodTest, GoodCase, After, Ops
  <2>6. GoodTest(Aborted(ins), ins, keys)
    <3>1. "kNoOp" \in Ops \ {"kPut", "kDelete", "kGet", "kVisit"}
      BY DEF Ops
    <3> QED BY <3>1, GenOther
  <2>7. ASSUME conf.visit_range_percent < Scale PROVE FairTest(g, keys, kind)
    <3>1. ix[1] \in Nat /\ ix[2] \in Nat /\ ix[1] <= ix[2] /\ ix[2] < n
      <4> HIDE DEF n
      <4> QED BY <1>1, <1>3, <2>1, <2>7, VisitIndices
    <3>2. ix[2] >= ix[1] /\ ix[1] < n
      <4> HIDE DEF n
      <4> QED BY <1>1, <3>1
    <3>3. g = Generated(c, ins)
      BY <2>1, <3>1, <3>2 DEF c
    <3>4. ins \in SUBSET Int
      OBVIOUS
    <3>5. KeyAt(ins, ix[1]) \in ins /\ KeyAt(ins, ix[2]) \in ins
      BY <3>1, <3>2, <3>4, KeyAtFacts
    <3> QED BY <2>2, <2>3, <3>3, <3>5 DEF FairTest, FairCase
  <2> QED BY <2>4, <2>5, <2>6, <2>7
<1> QED BY <1>2, <1>3

\* What a round may draw, and what it does when it draws nothing.
Drawn(m, ins, keys) == UNION {gen_case(conf, ins, keys) : conf \in lower_bound(m)}
Failed(m, ins) == IF Max(DOMAIN m) < Scale THEN {Aborted(ins)} ELSE {}

\* A sync when it is its turn, else a case of some configuration, else none.
LEMMA RandTestCases ==
    ASSUME NEW m, NEW n, NEW every, NEW ins, NEW keys
    PROVE  \A g \in rand_test(m, n, every, ins, keys) :
              \/ every # 0 /\ g = Generated(TestCase("kSync"), ins)
              \/ \E conf \in lower_bound(m) : g \in gen_case(conf, ins, keys)
              \/ Max(DOMAIN m) < Scale /\ g = Aborted(ins)
<1>1. \A g \in Drawn(m, ins, keys) :
         \E conf \in lower_bound(m) : g \in gen_case(conf, ins, keys)
  BY DEF Drawn
<1>2. \A g \in Failed(m, ins) : Max(DOMAIN m) < Scale /\ g = Aborted(ins)
  BY DEF Failed
<1>3. CASE every # 0 /\ n % every = 0
  BY <1>3 DEF rand_test
<1>4. CASE ~ (every # 0 /\ n % every = 0)
  <2>1. rand_test(m, n, every, ins, keys) = Drawn(m, ins, keys) \cup Failed(m, ins)
    BY <1>4, SMT DEF rand_test, Drawn, Failed
  <2> QED BY <1>1, <1>2, <2>1
<1> QED BY <1>3, <1>4

\* A round of rand_tests.
LEMMA RandTest ==
    ASSUME NEW p, WellFormed(p), NEW t \in DOMAIN p.keys, NEW n, NEW ins \in SUBSET p.keys[t],
           IsFiniteSet(ins),
           NEW g \in rand_test(acc_prob_to_conf(p.op_confs), n, p.sync_every, ins, p.keys[t])
    PROVE  /\ GoodTest(g, ins, p.keys[t])
           /\ Checkable(p) => FairTest(g, p.keys[t], p.kind)
<1> DEFINE m == acc_prob_to_conf(p.op_confs)
           keys == p.keys[t]
<1>1. p.op_confs \in Seq(OpConfigs) /\ keys \in SUBSET Int
  BY GeneratorAssumption DEF WellFormed, OpConfigs
<1>2. /\ \A a \in DOMAIN m : \E k \in DOMAIN p.op_confs : m[a] = p.op_confs[k]
      /\ validate(p.op_confs) => Max(DOMAIN m) = Scale
  BY <1>1, MapFacts
<1>3. \A k \in DOMAIN p.op_confs : p.op_confs[k] \in OpConfigs
  BY <1>1
<1>4. \/ p.sync_every # 0 /\ g = Generated(TestCase("kSync"), ins)
      \/ \E conf \in lower_bound(m) : g \in gen_case(conf, ins, keys)
      \/ Max(DOMAIN m) < Scale /\ g = Aborted(ins)
  BY RandTestCases
<1> HIDE DEF m
<1>5. CASE p.sync_every # 0 /\ g = Generated(TestCase("kSync"), ins)
  <2>1. "kSync" \in Ops \ {"kPut", "kDelete", "kGet", "kVisit"}
    BY DEF Ops
  <2>2. Checkable(p) => p.kind # "validate"
    BY <1>5 DEF Checkable
  <2> QED BY <1>5, <2>1, <2>2, GenOther
<1>6. ASSUME NEW conf \in lower_bound(m), g \in gen_case(conf, ins, keys)
      PROVE  /\ GoodTest(g, ins, keys)
             /\ Checkable(p) => FairTest(g, keys, p.kind)
  <2>1. PICK k \in DOMAIN p.op_confs : conf = p.op_confs[k]
    BY <1>2 DEF lower_bound
  <2>2. conf \in OpConfigs /\ conf.op \in Ops
    BY <1>3, <2>1 DEF OpConfigs
  <2>3. Checkable(p) => /\ conf.op # "kSnapshot"
                        /\ conf.op = "kVisit" => conf.visit_range_percent < Scale
                        /\ p.kind = "validate" => conf.op # "kSync"
    BY <2>1 DEF Checkable
  <2> HIDE DEF keys
  <2>4. CASE conf.op = "kPut"
    <3>1. g \in gen_put(conf, ins, keys)
      BY <1>6, <2>4 DEF gen_case
    <3> QED BY <2>2, <3>1, GenPut DEF keys
  <2>5. CASE conf.op = "kDelete"
    <3>1. g \in gen_delete(conf, ins, keys)
      BY <1>6, <2>5 DEF gen_case
    <3> QED BY <2>2, <3>1, GenDelete DEF keys
  <2>6. CASE conf.op = "kGet"
    <3>1. g \in gen_get(conf, ins, keys)
      BY <1>6, <2>6 DEF gen_case
    <3> QED BY <2>2, <3>1, GenGet DEF keys
  <2>7. CASE conf.op = "kVisit"
    <3>1. g \in gen_visit(conf, ins)
      BY <1>6, <2>7 DEF gen_case
    <3> QED BY <1>1, <2>2, <2>3, <2>7, <3>1, GenVisit DEF keys
  <2>8. CASE conf.op \notin {"kPut", "kDelete", "kGet", "kVisit"}
    <3>1. g = Generated(TestCase(conf.op), ins)
      BY <1>6, <2>8 DEF gen_case
    <3> QED BY <2>2, <2>3, <2>8, <3>1, GenOther DEF keys
  <2> QED BY <2>4, <2>5, <2>6, <2>7, <2>8
<1>7. CASE Max(DOMAIN m) < Scale /\ g = Aborted(ins)
  <2>1. "kNoOp" \in Ops \ {"kPut", "kDelete", "kGet", "kVisit"}
    BY DEF Ops
  <2>2. ~ validate(p.op_confs)
    BY <1>2, <1>7, GeneratorAssumption
  <2>3. ~ Checkable(p)
    BY <2>2 DEF Checkable
  <2> QED BY <1>7, <2>1, <2>3, GenOther
<1> QED BY <1>4, <1>5, <1>6, <1>7
-----------------------------------------------------------------------------
(* The oracle: generator, validator and engine *)

\* The keys that a validator expects the engine to hold.
Present(t) == {k \in Keys : kv[t][k] # NoVal}

\* A generator is one case ahead of the validator while that case waits.
Believed(t) == IF case[t] = << >> THEN Present(t) ELSE After(case[t], Present(t))

\* The generators and their cases.
GeneratorInv ==
    /\ map = acc_prob_to_conf(program.op_confs)
    /\ DOMAIN inserted = Threads /\ DOMAIN case = Threads
    /\ \A t \in Threads :
          /\ inserted[t] \in SUBSET program.keys[t] /\ IsFiniteSet(inserted[t])
          /\ case[t] # << >> => /\ GoodCase(case[t], program.keys[t])
                                /\ Checkable(program) =>
                                     FairCase(case[t], program.keys[t], program.kind)

Maps == [Keys -> Values \cup {NoVal}]

\* A thread's validator expects what the engine holds of its keys, and nothing
\* else; and the engine holds nothing but keys of the threads.
OracleInv ==
    /\ store \in Maps
    /\ kv \in [Threads -> Maps]
    /\ \A t \in Threads :
          /\ inserted[t] = Believed(t)
          /\ Present(t) \subseteq program.keys[t]
          /\ \A k \in program.keys[t] : kv[t][k] = store[k]
    /\ \A k \in Keys : store[k] # NoVal => \E u \in Threads : k \in program.keys[u]

HarnessInv ==
    /\ program \in Programs
    /\ WellFormed(program) => GeneratorInv
    /\ WellFormed(program) /\ OwnKeys(program) /\ program.kind = "validate" => OracleInv
    /\ Checkable(program) => fatal = FALSE

\* The effect of a case on the engine, and what a validator expects of it.
Applied(c, m) == IF c.op = "kPut" THEN [m EXCEPT ![c.key] = c.value]
                 ELSE IF c.op = "kDelete" THEN [m EXCEPT ![c.key] = NoVal] ELSE m

\* A range of a thread's own is its own.
LEMMA RangeIsOwn ==
    ASSUME NEW p, WellFormed(p), OwnRange(p)
    PROVE  OwnKeys(p)
<1> SUFFICES ASSUME p.kind = "validate", NEW t \in DOMAIN p.keys, NEW u \in DOMAIN p.keys,
                    t # u, NEW k \in p.keys[t], k \in p.keys[u]
             PROVE  FALSE
  BY DEF OwnKeys
<1>1. k \in Int
  BY GeneratorAssumption DEF WellFormed
<1>2. k <= k
  BY <1>1
<1> QED BY <1>2 DEF OwnRange

\* Nobody has anything, and everybody knows.
LEMMA HarnessInit == Init => HarnessInv
<1> SUFFICES ASSUME Init PROVE HarnessInv
  OBVIOUS
<1>1. program \in Programs
  BY DEF Init
<1>2. ASSUME WellFormed(program) PROVE GeneratorInv
  <2>1. IsFiniteSet({})
    BY FS_EmptySet
  <2> QED BY <2>1 DEF Init, GeneratorInv
<1>3. ASSUME program.kind = "validate" PROVE OracleInv
  <2>1. store = [k \in Keys |-> NoVal] /\ kv = [t \in Threads |-> [k \in Keys |-> NoVal]]
        /\ inserted = [t \in Threads |-> {}] /\ case = [t \in Threads |-> << >>]
    BY <1>3 DEF Init
  <2>2. [k \in Keys |-> NoVal] \in Maps
    BY DEF Maps
  <2>3. store \in Maps /\ kv \in [Threads -> Maps]
    BY <2>1, <2>2
  <2>4. \A t \in Threads : \A k \in Keys : kv[t][k] = NoVal
    BY <2>1
  <2>5. \A t \in Threads : Present(t) = {} /\ Believed(t) = {}
    BY <2>1, <2>4 DEF Present, Believed
  <2>6. ASSUME NEW t \in Threads, NEW k \in program.keys[t] PROVE kv[t][k] = store[k]
    <3>1. CASE k \in Keys
      BY <2>1, <2>4, <3>1
    <3>2. CASE k \notin Keys
      BY <2>1, <3>2
    <3> QED BY <3>1, <3>2
  <2> QED BY <2>1, <2>3, <2>5, <2>6 DEF OracleInv
<1>4. ASSUME Checkable(program) PROVE fatal = FALSE
  <2>1. validate(program.op_confs) /\ fatal = ~ validate(program.op_confs)
    BY <1>4 DEF Checkable, Init
  <2> QED BY <2>1
<1> QED BY <1>1, <1>2, <1>3, <1>4 DEF HarnessInv

\* A case is generated from what the generator believes.
LEMMA HarnessGenerate ==
    ASSUME HarnessInv, NEW t \in Threads, Generate(t)
    PROVE  HarnessInv'
<1>1. PICK g \in rand_test(map, i[t], program.sync_every, inserted[t], program.keys[t]) :
         /\ case' = [case EXCEPT ![t] = g.case]
         /\ inserted' = [inserted EXCEPT ![t] = g.inserted_keys]
         /\ fatal' = g.fatal
  BY DEF Generate
<1>2. UNCHANGED <<program, map, store, kv>> /\ case[t] = << >>
  BY DEF Generate
<1>3. Threads' = Threads
  BY <1>2 DEF Threads
<1>4. WellFormed(program)' <=> WellFormed(program)
  BY <1>2
<1>5. Checkable(program)' <=> Checkable(program)
  BY <1>2
<1>6. ASSUME WellFormed(program)
      PROVE  /\ GeneratorInv
             /\ GoodTest(g, inserted[t], program.keys[t])
             /\ Checkable(program) => FairTest(g, program.keys[t], program.kind)
  <2>1. GeneratorInv
    BY <1>6 DEF HarnessInv
  <2>2. t \in DOMAIN program.keys /\ map = acc_prob_to_conf(program.op_confs)
        /\ inserted[t] \in SUBSET program.keys[t] /\ IsFiniteSet(inserted[t])
    BY <2>1 DEF GeneratorInv, Threads
  <2> QED BY <1>1, <1>6, <2>1, <2>2, RandTest
<1>7. ASSUME WellFormed(program) PROVE GeneratorInv'
  <2> DEFINE c == g.case
             ins == g.inserted_keys
             keys == program.keys[t]
  <2>1. GoodCase(c, keys) /\ ins = After(c, inserted[t])
        /\ (Checkable(program) => FairCase(c, keys, program.kind))
    BY <1>6, <1>7 DEF GoodTest, FairTest
  <2>2. /\ DOMAIN inserted = Threads /\ DOMAIN case = Threads
        /\ map = acc_prob_to_conf(program.op_confs)
        /\ inserted[t] \in SUBSET keys /\ IsFiniteSet(inserted[t])
    BY <1>6, <1>7 DEF GeneratorInv
  <2>3. ins \in SUBSET keys
    BY <2>1, <2>2 DEF After, GoodCase
  <2>4. IsFiniteSet(ins)
    BY <2>1, <2>2, FS_AddElement, FS_RemoveElement DEF After
  <2>5. /\ case'[t] = c /\ inserted'[t] = ins
        /\ DOMAIN case' = Threads /\ DOMAIN inserted' = Threads
        /\ \A u \in Threads : u # t => case'[u] = case[u] /\ inserted'[u] = inserted[u]
    BY <1>1, <2>2
  <2> HIDE DEF c, ins
  <2>6. ASSUME NEW u \in Threads
        PROVE  /\ inserted'[u] \in SUBSET program.keys[u] /\ IsFiniteSet(inserted'[u])
               /\ case'[u] # << >> => /\ GoodCase(case'[u], program.keys[u])
                                      /\ Checkable(program) =>
                                           FairCase(case'[u], program.keys[u], program.kind)
    <3>1. CASE u = t
      BY <2>1, <2>3, <2>4, <2>5, <3>1
    <3>2. CASE u # t
      BY <1>6, <1>7, <2>5, <3>2 DEF GeneratorInv
    <3> QED BY <3>1, <3>2
  <2> QED BY <1>2, <1>3, <1>5, <2>2, <2>5, <2>6 DEF GeneratorInv, GoodCase, FairCase
<1>8. ASSUME WellFormed(program), OwnKeys(program), program.kind = "validate"
      PROVE  OracleInv'
  <2>1. OracleInv /\ GeneratorInv
    BY <1>8 DEF HarnessInv
  <2>2. GoodCase(g.case, program.keys[t]) /\ g.inserted_keys = After(g.case, inserted[t])
    BY <1>6, <1>8 DEF GoodTest
  <2>3. /\ case'[t] = g.case /\ inserted'[t] = g.inserted_keys
        /\ \A u \in Threads : u # t => case'[u] = case[u] /\ inserted'[u] = inserted[u]
    BY <1>1, <2>1 DEF GeneratorInv
  <2>4. inserted[t] = Present(t)
    BY <1>2, <2>1 DEF OracleInv, Believed
  <2>5. \A u \in Threads : Present(u)' = Present(u)
    BY <1>2 DEF Present
  <2>6. case'[t] # << >>
    BY <2>2, <2>3 DEF GoodCase
  <2>7. ASSUME NEW u \in Threads PROVE inserted'[u] = Believed(u)'
    <3>1. CASE u = t
      <4>1. Believed(t)' = After(case'[t], Present(t)')
        BY <2>6 DEF Believed, After
      <4> QED BY <2>2, <2>3, <2>4, <2>5, <3>1, <4>1
    <3>2. CASE u # t
      <4>1. inserted[u] = Believed(u)
        BY <2>1 DEF OracleInv
      <4>2. Believed(u)' = Believed(u)
        BY <2>3, <2>5, <3>2 DEF Believed, After
      <4> QED BY <2>3, <3>2, <4>1, <4>2
    <3> QED BY <3>1, <3>2
  <2> QED BY <1>2, <1>3, <2>1, <2>5, <2>7 DEF OracleInv
<1>9. ASSUME Checkable(program) PROVE fatal' = FALSE
  <2>1. WellFormed(program)
    BY <1>9 DEF Checkable
  <2> QED BY <1>1, <1>6, <1>9, <2>1 DEF FairTest
<1>10. OwnKeys(program)' <=> OwnKeys(program)
  BY <1>2 DEF OwnKeys
<1> QED BY <1>2, <1>4, <1>5, <1>7, <1>8, <1>9, <1>10 DEF HarnessInv

\* What the engine does with a case.
LEMMA EngineEffect ==
    ASSUME NEW c, c.op \in Ops \ {"kNoOp", "kSnapshot"}, NEW res, KV!Effect(request(c), res)
    PROVE  /\ store' = Applied(c, store)
           /\ c.op \in {"kPut", "kGc"} => res = <<"kSucc">>
           /\ c.op = "kDelete" =>
                 res = IF store[c.key] = NoVal THEN <<"kNotFound">> ELSE <<"kSucc">>
           /\ c.op = "kGet" =>
                 res = IF store[c.key] = NoVal THEN <<"kNotFound">>
                                               ELSE <<"kSucc", store[c.key]>>
           /\ c.op = "kVisit" =>
                 res[1] = "kSucc" /\ KV!IsRangeScan(res[2], store, c.lower, c.upper)
           /\ c.op = "kSync" => res \in {<<"kSucc">>, <<"kIOError">>}
<1> DEFINE r == request(c)
<1>1. CASE c.op = "kPut"
  <2>1. r.op = "put" /\ r.key = c.key /\ r.val = c.value
    BY <1>1 DEF request
  <2> HIDE DEF r
  <2>2. store' = [store EXCEPT ![r.key] = r.val] /\ res = <<"kSucc">>
    BY <2>1 DEF KV!Effect, r
  <2> QED BY <1>1, <2>1, <2>2 DEF Applied
<1>2. CASE c.op = "kDelete"
  <2>1. r.op = "remove" /\ r.key = c.key
    BY <1>2 DEF request
  <2> HIDE DEF r
  <2>2. /\ store' = [store EXCEPT ![r.key] = NoVal]
        /\ res = IF store[r.key] = NoVal THEN <<"kNotFound">> ELSE <<"kSucc">>
    BY <2>1 DEF KV!Effect, r
  <2> QED BY <1>2, <2>1, <2>2 DEF Applied
<1>3. CASE c.op = "kGet"
  <2>1. r.op = "get" /\ r.key = c.key
    BY <1>3 DEF request
  <2> HIDE DEF r
  <2>2. /\ store' = store
        /\ res = IF store[r.key] = NoVal THEN <<"kNotFound">> ELSE <<"kSucc", store[r.key]>>
    BY <2>1 DEF KV!Effect, r
  <2> QED BY <1>3, <2>1, <2>2 DEF Applied
<1>4. CASE c.op = "kVisit"
  <2>1. r.op = "visit" /\ r.lower = c.lower /\ r.upper = c.upper
    BY <1>4 DEF request
  <2> HIDE DEF r
  <2>2. /\ store' = store /\ res[1] = "kSucc"
        /\ KV!IsRangeScan(res[2], store, r.lower, r.upper)
    BY <2>1 DEF KV!Effect, r
  <2> QED BY <1>4, <2>1, <2>2 DEF Applied
<1>5. CASE c.op = "kSync"
  <2>1. r.op = "sync"
    BY <1>5 DEF request
  <2> HIDE DEF r
  <2>2. store' = store /\ res \in {<<"kSucc">>, <<"kIOError">>}
    BY <2>1 DEF KV!Effect, r
  <2> QED BY <1>5, <2>2 DEF Applied
<1>6. CASE c.op = "kGc"
  <2>1. r.op = "gc"
    BY <1>6 DEF request
  <2> HIDE DEF r
  <2>2. store' = store /\ res = <<"kSucc">>
    BY <2>1 DEF KV!Effect, r
  <2> QED BY <1>6, <2>2 DEF Applied
<1> QED BY <1>1, <1>2, <1>3, <1>4, <1>5, <1>6 DEF Ops

\* The result x of a validator with map m, for case c and the answer res.
Judged(x, m, c, res) ==
    /\ x.kv = Applied(c, m)
    /\ c.op \in {"kPut", "kGc"} => x.ok = (res = <<"kSucc">>)
    /\ c.op = "kDelete" =>
          x.ok = (res = IF m[c.key] # NoVal THEN <<"kSucc">> ELSE <<"kNotFound">>)
    /\ c.op = "kGet" =>
          x.ok = (res = IF m[c.key] # NoVal THEN <<"kSucc", m[c.key]>> ELSE <<"kNotFound">>)
    /\ c.op = "kVisit" => x = X!validate_visit(m, c, res)
    /\ c.op = "kNoOp" => x.ok = TRUE

\* What a validator does with a case and the engine's answer.
LEMMA ValidatorEffect ==
    ASSUME NEW c, c.op \in Ops, NEW m, NEW res
    PROVE  Judged(X!validate_execute(m, c, res), m, c, res)
<1> DEFINE x == X!validate_execute(m, c, res)
<1> USE DEF Judged
<1>1. CASE c.op = "kPut"
  <2>1. x = X!validate_put(m, c, res)
    BY <1>1 DEF X!validate_execute
  <2> QED BY <1>1, <2>1 DEF X!validate_put, X!Ran, Applied
<1>2. CASE c.op = "kDelete"
  <2>1. x = X!validate_delete(m, c, res)
    BY <1>2 DEF X!validate_execute
  <2> QED BY <1>2, <2>1 DEF X!validate_delete, X!Ran, Applied
<1>3. CASE c.op = "kGet"
  <2>1. x = X!validate_get(m, c, res)
    BY <1>3 DEF X!validate_execute
  <2> QED BY <1>3, <2>1 DEF X!validate_get, X!Ran, Applied
<1>4. CASE c.op = "kVisit"
  <2>1. x = X!validate_visit(m, c, res)
    BY <1>4 DEF X!validate_execute
  <2> QED BY <1>4, <2>1 DEF X!validate_visit, X!Ran, Applied
<1>5. CASE c.op = "kGc"
  <2>1. x = X!Ran(res = <<"kSucc">>, m)
    BY <1>5 DEF X!validate_execute
  <2> QED BY <1>5, <2>1 DEF X!Ran, Applied
<1>6. CASE c.op = "kNoOp"
  <2>1. x = X!Ran(TRUE, m)
    BY <1>6 DEF X!validate_execute
  <2> QED BY <1>6, <2>1 DEF X!Ran, Applied
<1>7. CASE c.op = "kSnapshot"
  <2>1. x = X!Ran(FALSE, m)
    BY <1>7 DEF X!validate_execute
  <2> QED BY <1>7, <2>1 DEF X!Ran, Applied
<1>8. CASE c.op = "kSync"
  <2>1. x = X!Ran(res # <<"kSucc">>, m)
    BY <1>8 DEF X!validate_execute
  <2> QED BY <1>8, <2>1 DEF X!Ran, Applied
<1> QED BY <1>1, <1>2, <1>3, <1>4, <1>5, <1>6, <1>7, <1>8 DEF Ops

\* out lists the pairs of the keys K of m, n of them, in the order of the keys.
IsScan(out, n, pairs, K, m) ==
    /\ n \in Nat /\ K \in SUBSET Int
    /\ \A p \in pairs : \E k \in K : p = <<k, m[k]>>
    /\ \A k \in K : <<k, m[k]>> \in pairs
    /\ out \in [1..n -> pairs]
    /\ \A p \in pairs : \E a \in 1..n : out[a] = p
    /\ \A a, b \in 1..n : a < b => out[a][1] < out[b][1]

\* A scan has as many pairs as there are keys in it.
LEMMA ScanLength ==
    ASSUME NEW n, NEW K, NEW m, NEW pairs, NEW out, IsScan(out, n, pairs, K, m)
    PROVE  IsFiniteSet(K) /\ Cardinality(K) = n
<1> USE DEF IsScan
<1> DEFINE f == [a \in 1..n |-> out[a][1]]
<1>1. \A a \in 1..n : out[a][1] \in K
  OBVIOUS
<1>2. f \in [1..n -> K]
  BY <1>1
<1>3. \A a, b \in 1..n : f[a] = f[b] => a = b
  <2> SUFFICES ASSUME NEW a \in 1..n, NEW b \in 1..n, f[a] = f[b], a # b PROVE FALSE
    OBVIOUS
  <2>1. out[a][1] \in Int /\ out[b][1] \in Int /\ out[a][1] = out[b][1]
    BY <1>1
  <2>2. a < b \/ b < a
    OBVIOUS
  <2> QED BY <2>1, <2>2
<1>4. \A k \in K : \E a \in 1..n : f[a] = k
  <2> TAKE k \in K
  <2>2. PICK a \in 1..n : out[a] = <<k, m[k]>>
    OBVIOUS
  <2>3. f[a] = k
    BY <2>2
  <2> QED BY <2>3
<1> HIDE DEF f
<1>5. f \in Bijection(1..n, K)
  BY <1>2, <1>3, <1>4 DEF Bijection, Injection, Surjection, IsInjective
<1>6. ExistsBijection(1..n, K)
  BY <1>5 DEF ExistsBijection
<1>7. IsFiniteSet(1..n) /\ Cardinality(1..n) = n
  BY FS_Interval
<1> QED BY <1>6, <1>7, FS_Bijection

\* The keys a validator expects of a visit.
Expected(m, c) == {k \in Keys : /\ m[k] # NoVal
                                /\ c.lower = NoVal \/ k >= c.lower
                                /\ c.upper = NoVal \/ k <= c.upper}

\* What validate_visit checks.
VisitOk(m, c, res) ==
    /\ res[1] = "kSucc"
    /\ \A a \in DOMAIN res[2] : /\ m[res[2][a][1]] # NoVal
                                /\ m[res[2][a][1]] = res[2][a][2]
    /\ Len(res[2]) = X!Cardinality(Expected(m, c))

\* It is validate_visit that does.
LEMMA VisitChecks ==
    ASSUME NEW m, NEW c, NEW res
    PROVE  X!validate_visit(m, c, res).ok = VisitOk(m, c, res)
BY SMT DEF X!validate_visit, X!Ran, Expected, VisitOk

\* Executor counts as the other modules do.
LEMMA SameCardinality ==
    ASSUME NEW S
    PROVE  X!Cardinality(S) = Cardinality(S)
BY Zenon DEF X!Cardinality, Cardinality

\* The keys of a visit from lower to upper.
InRange(lower, upper) == {x \in Keys : store[x] # NoVal /\ lower <= x /\ x <= upper}

\* A validated visit between two keys of the thread passes: the engine visits
\* what the validator expects, as nobody else has a key there.
LEMMA VisitPasses ==
    ASSUME WellFormed(program), OwnRange(program), program.kind = "validate",
           GeneratorInv, OracleInv, NEW t \in Threads, NEW c, c = case[t], c # << >>,
           c.op = "kVisit", c.lower \in program.keys[t], c.upper \in program.keys[t],
           NEW res \in Answers(c), KV!IsRangeScan(res[2], store, c.lower, c.upper)
    PROVE  X!validate_visit(kv[t], c, res).ok = TRUE
<1> DEFINE K == InRange(c.lower, c.upper)
           pairs == {<<k, store[k]>> : k \in K}
           n == Cardinality(pairs)
<1>1. /\ c.lower \in Int /\ c.upper \in Int /\ c.lower # NoVal /\ c.upper # NoVal
      /\ K \in SUBSET Int
  BY GeneratorAssumption DEF WellFormed, Threads, InRange
<1>2. ASSUME NEW k \in K PROVE k \in program.keys[t] /\ kv[t][k] = store[k] /\ kv[t][k] # NoVal
  <2>1. k \in Keys /\ store[k] # NoVal /\ c.lower <= k /\ k <= c.upper
    BY <1>2 DEF InRange
  <2>2. PICK u \in Threads : k \in program.keys[u]
    BY <2>1 DEF OracleInv
  <2>3. u = t
    BY <2>1, <2>2 DEF OwnRange, Threads
  <2> QED BY <2>1, <2>2, <2>3 DEF OracleInv
<1>3. IsFiniteSet(K)
  <2>1. inserted[t] = Present(t) /\ IsFiniteSet(inserted[t])
    BY DEF OracleInv, GeneratorInv, Believed, After
  <2>2. K \in SUBSET Present(t)
    BY <1>2 DEF Present, InRange
  <2> QED BY <2>1, <2>2, FS_Subset
<1>4. n \in Nat
  <2> DEFINE f == [k \in K |-> <<k, store[k]>>]
  <2>1. f \in Surjection(K, pairs)
    BY DEF Surjection
  <2> HIDE DEF f, K
  <2>2. IsFiniteSet(pairs)
    BY <1>3, <2>1, FS_Surjection
  <2> QED BY <2>2, FS_CardinalityType
<1>5. PICK scan \in [1..n -> pairs] : res = <<"kSucc", scan>>
  <2>1. pairs = {<<k, store[k]>> : k \in {x \in Keys : /\ store[x] # NoVal
                                                      /\ c.lower <= x /\ x <= c.upper}}
    BY Zenon DEF InRange
  <2>2. Answers(c) = {<<"kSucc", scan>> : scan \in SetToSeqs(pairs)}
    BY <2>1 DEF Answers
  <2>3. SetToSeqs(pairs) \subseteq [1..n -> pairs]
    <3> HIDE DEF pairs
    <3> QED BY DEF SetToSeqs
  <2> HIDE DEF pairs, n
  <2> QED BY <2>2, <2>3
<1>6. /\ res[1] = "kSucc" /\ res[2] = scan /\ DOMAIN scan = 1..n /\ Len(scan) = n
  <2> HIDE DEF n, pairs
  <2>1. scan \in Seq(pairs)
    BY <1>4
  <2> QED BY <1>4, <1>5, <2>1
<1>7. /\ \A a, b \in 1..n : a < b => scan[a][1] < scan[b][1]
      /\ {scan[a] : a \in 1..n} = pairs
  <2> HIDE DEF n
  <2>1. KV!IsRangeScan(scan, store, c.lower, c.upper)
    BY <1>6
  <2> QED BY <1>6, <2>1 DEF KV!IsRangeScan, InRange
<1>8. Cardinality(K) = n
  <2>1. /\ \A p \in pairs : \E k \in K : p = <<k, store[k]>>
        /\ \A k \in K : <<k, store[k]>> \in pairs
    OBVIOUS
  <2>2. \A p \in pairs : \E a \in 1..n : scan[a] = p
    <3> HIDE DEF n, pairs
    <3> QED BY <1>7
  <2> HIDE DEF n, K, pairs
  <2>3. /\ n \in Nat /\ K \in SUBSET Int /\ scan \in [1..n -> pairs]
        /\ \A a, b \in 1..n : a < b => scan[a][1] < scan[b][1]
    BY <1>1, <1>4, <1>7
  <2>4. IsScan(scan, n, pairs, K, store)
    BY <2>1, <2>2, <2>3 DEF IsScan
  <2> QED BY <2>4, ScanLength
<1> DEFINE expected == Expected(kv[t], c)
<1>9. expected = K
  <2>1. ASSUME NEW k \in expected PROVE k \in K
    <3>1. k \in Keys /\ kv[t][k] # NoVal /\ k \in Int /\ k >= c.lower /\ k <= c.upper
      BY <1>1, GeneratorAssumption DEF Expected
    <3>2. k \in program.keys[t]
      BY <3>1 DEF OracleInv, Present
    <3>3. store[k] # NoVal
      BY <3>1, <3>2 DEF OracleInv
    <3> QED BY <1>1, <3>1, <3>3 DEF InRange
  <2>2. ASSUME NEW k \in K PROVE k \in expected
    <3>1. k \in Keys /\ k \in Int /\ c.lower <= k /\ k <= c.upper
      BY GeneratorAssumption DEF InRange
    <3> QED BY <1>1, <1>2, <3>1 DEF Expected
  <2> QED BY <2>1, <2>2
<1>10. \A a \in DOMAIN scan : /\ kv[t][scan[a][1]] # NoVal
                              /\ kv[t][scan[a][1]] = scan[a][2]
  <2> TAKE a \in DOMAIN scan
  <2>1. PICK k \in K : scan[a] = <<k, store[k]>>
    BY <1>6
  <2> QED BY <1>2, <2>1
<1> HIDE DEF K, pairs, n, expected
<1>11. Len(scan) = X!Cardinality(expected)
  BY <1>6, <1>8, <1>9, SameCardinality
<1>12. VisitOk(kv[t], c, res)
  BY <1>6, <1>10, <1>11 DEF VisitOk, expected
<1> QED BY <1>12, VisitChecks

\* The CHECKs of a thread on an answer, and the map after them.
Verdict(t, res) == IF program.kind = "validate"
                   THEN X!validate_execute(kv[t], case[t], res)
                   ELSE X!execute(kv[t], case[t], res)

\* A case is run without the engine, or with its answer.
LEMMA RunCaseFacts ==
    ASSUME NEW t, RunCase(t)
    PROVE  \/ /\ case[t].op \in {"kNoOp", "kSnapshot"} /\ store' = store
              /\ kv' = [kv EXCEPT ![t] = Verdict(t, << >>).kv]
              /\ fatal' = ~ Verdict(t, << >>).ok
           \/ /\ case[t].op \notin {"kNoOp", "kSnapshot"}
              /\ \E res \in Answers(case[t]) :
                    /\ KV!Effect(request(case[t]), res)
                    /\ kv' = [kv EXCEPT ![t] = Verdict(t, res).kv]
                    /\ fatal' = ~ Verdict(t, res).ok
BY DEF RunCase, Verdict

\* execute expects nothing of an answer but its kind, and keeps no map.
LEMMA ExecutePasses ==
    ASSUME NEW c, c.op \in Ops \ {"kNoOp", "kSnapshot"}, NEW m, NEW res \in Answers(c),
           KV!Effect(request(c), res)
    PROVE  X!execute(m, c, res).ok = TRUE
<1>1. CASE c.op \in {"kPut", "kGc"}
  <2>1. res = <<"kSucc">>
    BY <1>1, EngineEffect
  <2> QED BY <1>1, <2>1 DEF X!execute, X!Ran
<1>2. CASE c.op = "kSync"
  <2>1. res \in {<<"kSucc">>, <<"kIOError">>}
    BY <1>2, EngineEffect
  <2>2. res \in {<<"kSucc">>, <<"kNotFound">>} \/ \E v : res = <<"kSucc", v>>
    BY <1>2 DEF Answers
  <2>3. res[1] # "kIOError"
    BY <2>2
  <2>4. res = <<"kSucc">>
    BY <2>1, <2>3
  <2> QED BY <1>2, <2>4 DEF X!execute, X!Ran
<1>3. CASE c.op \in {"kDelete", "kGet"}
  <2>1. res[1] \in {"kSucc", "kNotFound"}
    BY <1>3, EngineEffect
  <2> QED BY <1>3, <2>1 DEF X!execute, X!Ran
<1>4. CASE c.op = "kVisit"
  BY <1>4 DEF X!execute, X!Ran
<1> QED BY <1>1, <1>2, <1>3, <1>4 DEF Ops

\* The CHECKs on a case pass.
LEMMA CheckPasses ==
    ASSUME HarnessInv, Checkable(program), NEW t \in Threads, RunCase(t)
    PROVE  fatal' = FALSE
<1> DEFINE c == case[t]
           keys == program.keys[t]
<1>1. WellFormed(program) /\ OwnRange(program) /\ OwnKeys(program) /\ GeneratorInv
  BY RangeIsOwn DEF Checkable, HarnessInv
<1>2. c # << >>
  BY DEF RunCase
<1>3. GoodCase(c, keys) /\ FairCase(c, keys, program.kind)
  BY <1>1, <1>2 DEF GeneratorInv
<1>4. c.op \in Ops \ {"kSnapshot"}
  BY <1>3 DEF GoodCase, FairCase
<1>5. CASE program.kind # "validate"
  <2>1. CASE c.op = "kNoOp"
    <3>1. fatal' = ~ X!execute(kv[t], c, << >>).ok
      BY <1>5, <2>1, RunCaseFacts DEF Verdict
    <3>2. X!execute(kv[t], c, << >>).ok = TRUE
      BY <2>1 DEF X!execute, X!Ran
    <3> QED BY <3>1, <3>2
  <2>2. CASE c.op # "kNoOp"
    <3>1. PICK res \in Answers(c) : /\ KV!Effect(request(c), res)
                                    /\ fatal' = ~ X!execute(kv[t], c, res).ok
      BY <1>4, <1>5, <2>2, RunCaseFacts DEF Verdict
    <3>2. X!execute(kv[t], c, res).ok = TRUE
      BY <1>4, <2>2, <3>1, ExecutePasses
    <3> QED BY <3>1, <3>2
  <2> QED BY <2>1, <2>2
<1>6. CASE program.kind = "validate"
  <2> DEFINE m == kv[t]
             V(res) == X!validate_execute(m, c, res)
  <2>1. OracleInv
    BY <1>1, <1>6 DEF HarnessInv
  <2>2. c.op # "kSync"
    BY <1>3, <1>6 DEF FairCase
  <2>3. CASE c.op = "kNoOp"
    <3>1. fatal' = ~ V(<< >>).ok
      BY <1>6, <2>3, RunCaseFacts DEF Verdict
    <3>2. V(<< >>).ok = TRUE
      BY <1>4, <2>3, ValidatorEffect DEF Judged
    <3> QED BY <3>1, <3>2
  <2>4. CASE c.op # "kNoOp"
    <3>1. PICK res \in Answers(c) : KV!Effect(request(c), res) /\ fatal' = ~ V(res).ok
      BY <1>4, <1>6, <2>4, RunCaseFacts DEF Verdict
    <3>2. c.op \in Ops \ {"kNoOp", "kSnapshot"}
      BY <1>4, <2>4
    <3> HIDE DEF c
    <3>4. Judged(V(res), m, c, res)
      BY <3>2, ValidatorEffect
    <3> HIDE DEF V
    <3>3. V(res).ok = TRUE
      <4>1. CASE c.op \in {"kPut", "kGc"}
        <5>1. res = <<"kSucc">>
          BY <3>1, <3>2, <4>1, EngineEffect
        <5>2. V(res).ok = (res = <<"kSucc">>)
          BY <3>4, <4>1 DEF Judged
        <5> QED BY <5>1, <5>2
      <4>2. CASE c.op \in {"kDelete", "kGet"}
        <5>1. c.key \in keys
          BY <1>3, <4>2 DEF GoodCase
        <5>2. m[c.key] = store[c.key]
          BY <2>1, <5>1 DEF OracleInv
        <5>3. CASE c.op = "kDelete"
          <6>1. res = IF store[c.key] = NoVal THEN <<"kNotFound">> ELSE <<"kSucc">>
            BY <3>1, <3>2, <5>3, EngineEffect
          <6>2. V(res).ok = (res = IF m[c.key] # NoVal THEN <<"kSucc">> ELSE <<"kNotFound">>)
            BY <3>4, <5>3 DEF Judged
          <6> QED BY <5>2, <6>1, <6>2
        <5>4. CASE c.op = "kGet"
          <6>1. res = IF store[c.key] = NoVal THEN <<"kNotFound">>
                                              ELSE <<"kSucc", store[c.key]>>
            BY <3>1, <3>2, <5>4, EngineEffect
          <6>2. V(res).ok = (res = IF m[c.key] # NoVal THEN <<"kSucc", m[c.key]>>
                                                       ELSE <<"kNotFound">>)
            BY <3>4, <5>4 DEF Judged
          <6> QED BY <5>2, <6>1, <6>2
        <5> QED BY <4>2, <5>3, <5>4
      <4>3. CASE c.op = "kVisit"
        <5>1. c.lower \in keys /\ c.upper \in keys
          BY <1>3, <4>3 DEF FairCase
        <5>2. KV!IsRangeScan(res[2], store, c.lower, c.upper)
          BY <3>1, <3>2, <4>3, EngineEffect
        <5>3. X!validate_visit(m, c, res).ok = TRUE
          BY <1>1, <1>2, <1>6, <2>1, <3>1, <4>3, <5>1, <5>2, VisitPasses DEF c
        <5>4. V(res) = X!validate_visit(m, c, res)
          BY <3>4, <4>3 DEF Judged
        <5> QED BY <5>3, <5>4
      <4> QED BY <2>2, <3>2, <4>1, <4>2, <4>3 DEF Ops
    <3> QED BY <3>1, <3>3
  <2> QED BY <2>3, <2>4
<1> QED BY <1>5, <1>6

\* A case does the same to the engine and to the map of a validated program.
LEMMA RunCaseMaps ==
    ASSUME NEW t, RunCase(t), GoodCase(case[t], program.keys[t]), program.kind = "validate"
    PROVE  /\ store' = Applied(case[t], store)
           /\ kv' = [kv EXCEPT ![t] = Applied(case[t], kv[t])]
<1> DEFINE c == case[t]
<1>1. c.op \in Ops
  BY DEF GoodCase
<1>2. \A res : Verdict(t, res).kv = Applied(c, kv[t])
  <2> TAKE res
  <2>1. Verdict(t, res) = X!validate_execute(kv[t], c, res)
    BY DEF Verdict
  <2>2. Judged(X!validate_execute(kv[t], c, res), kv[t], c, res)
    BY <1>1, ValidatorEffect
  <2> QED BY <2>1, <2>2 DEF Judged
<1>3. CASE c.op \in {"kNoOp", "kSnapshot"}
  <2>1. store' = store /\ kv' = [kv EXCEPT ![t] = Verdict(t, << >>).kv]
    BY <1>3, RunCaseFacts
  <2>2. Applied(c, store) = store
    BY <1>3 DEF Applied
  <2> QED BY <1>2, <2>1, <2>2
<1>4. CASE c.op \notin {"kNoOp", "kSnapshot"}
  <2>1. PICK res \in Answers(c) : /\ KV!Effect(request(c), res)
                                  /\ kv' = [kv EXCEPT ![t] = Verdict(t, res).kv]
    BY <1>4, RunCaseFacts
  <2>2. store' = Applied(c, store)
    BY <1>1, <1>4, <2>1, EngineEffect
  <2> QED BY <1>2, <2>1, <2>2
<1> QED BY <1>3, <1>4

\* A case on a key of the thread, on a map.
LEMMA AppliedFacts ==
    ASSUME NEW c, NEW keys \in SUBSET Keys, GoodCase(c, keys), NEW m \in Maps
    PROVE  /\ Applied(c, m) \in Maps
           /\ \A k \in Keys : k \notin keys => Applied(c, m)[k] = m[k]
           /\ \A o \in Maps, k \in Keys : m[k] = o[k] => Applied(c, m)[k] = Applied(c, o)[k]
           /\ {k \in Keys : Applied(c, m)[k] # NoVal} = After(c, {k \in Keys : m[k] # NoVal})
<1>1. CASE c.op = "kPut"
  <2>1. c.key \in keys /\ c.value \in Values /\ c.value # NoVal
    BY <1>1, GeneratorAssumption DEF GoodCase
  <2>2. \A o \in Maps : Applied(c, o) = [o EXCEPT ![c.key] = c.value]
    BY <1>1 DEF Applied
  <2>3. \A S : After(c, S) = S \cup {c.key}
    BY <1>1 DEF After
  <2> QED BY <2>1, <2>2, <2>3 DEF Maps
<1>2. CASE c.op = "kDelete"
  <2>1. c.key \in keys
    BY <1>2 DEF GoodCase
  <2>2. \A o \in Maps : Applied(c, o) = [o EXCEPT ![c.key] = NoVal]
    BY <1>2 DEF Applied
  <2>3. \A S : After(c, S) = S \ {c.key}
    BY <1>2 DEF After
  <2> QED BY <2>1, <2>2, <2>3 DEF Maps
<1>3. CASE c.op \notin {"kPut", "kDelete"}
  <2>1. (\A o : Applied(c, o) = o) /\ \A S : After(c, S) = S
    BY <1>3 DEF Applied, After
  <2> QED BY <2>1
<1> QED BY <1>1, <1>2, <1>3

\* A case is run, and the validator catches up with the generator; the keys of
\* the other threads are not touched.
LEMMA HarnessRunCase ==
    ASSUME HarnessInv, NEW t \in Threads, RunCase(t)
    PROVE  HarnessInv'
<1>1. UNCHANGED <<program, map, inserted>> /\ case[t] # << >>
      /\ case' = [case EXCEPT ![t] = << >>]
  BY DEF RunCase
<1>2. Threads' = Threads
  BY <1>1 DEF Threads
<1>3. /\ WellFormed(program)' <=> WellFormed(program)
      /\ Checkable(program)' <=> Checkable(program)
      /\ OwnKeys(program)' <=> OwnKeys(program)
  BY <1>1
<1>4. ASSUME WellFormed(program)
      PROVE  /\ GeneratorInv /\ case'[t] = << >>
             /\ \A u \in Threads : u # t => case'[u] = case[u]
             /\ GoodCase(case[t], program.keys[t])
  <2>1. GeneratorInv
    BY <1>4 DEF HarnessInv
  <2> QED BY <1>1, <2>1 DEF GeneratorInv
<1>5. ASSUME WellFormed(program) PROVE GeneratorInv'
  <2>1. ASSUME NEW u \in Threads
        PROVE  case'[u] # << >> => /\ GoodCase(case'[u], program.keys[u])
                                   /\ Checkable(program) =>
                                        FairCase(case'[u], program.keys[u], program.kind)
    <3>1. CASE u = t
      BY <1>4, <1>5, <3>1
    <3>2. CASE u # t
      BY <1>4, <1>5, <3>2 DEF GeneratorInv
    <3> QED BY <3>1, <3>2
  <2>2. DOMAIN case' = Threads
    BY <1>1, <1>4, <1>5 DEF GeneratorInv
  <2> QED BY <1>1, <1>2, <1>3, <1>4, <1>5, <2>1, <2>2 DEF GeneratorInv, GoodCase, FairCase
<1>6. ASSUME WellFormed(program), OwnKeys(program), program.kind = "validate"
      PROVE  OracleInv'
  <2> DEFINE c == case[t]
             keys == program.keys[t]
  <2>1. OracleInv
    BY <1>6 DEF HarnessInv
  <2>2. GoodCase(c, keys) /\ keys \in SUBSET Keys
    BY <1>4, <1>6 DEF WellFormed, Threads
  <2>3. store' = Applied(c, store) /\ kv' = [kv EXCEPT ![t] = Applied(c, kv[t])]
    BY <1>6, <2>2, RunCaseMaps
  <2>4. store \in Maps /\ kv \in [Threads -> Maps] /\ kv[t] \in Maps
    BY <2>1 DEF OracleInv
  <2>5. /\ store' \in Maps
        /\ \A k \in Keys : k \notin keys => store'[k] = store[k]
    BY <2>2, <2>3, <2>4, AppliedFacts
  <2>6. /\ Applied(c, kv[t]) \in Maps
        /\ \A k \in Keys : kv[t][k] = store[k] => Applied(c, kv[t])[k] = Applied(c, store)[k]
        /\ {k \in Keys : Applied(c, kv[t])[k] # NoVal} = After(c, Present(t))
    BY <2>2, <2>4, AppliedFacts DEF Present
  <2>7. /\ kv' \in [Threads -> Maps] /\ kv'[t] = Applied(c, kv[t])
        /\ \A u \in Threads : u # t => kv'[u] = kv[u]
    BY <2>3, <2>4, <2>6
  <2>8. Present(t)' = After(c, Present(t))
    BY <2>6, <2>7 DEF Present
  <2>9. inserted[t] = After(c, Present(t))
    BY <1>1, <2>1 DEF OracleInv, Believed
  <2>10. ASSUME NEW u \in Threads
         PROVE  /\ inserted[u] = Believed(u)'
                /\ Present(u)' \subseteq program.keys[u]
                /\ \A k \in program.keys[u] : kv'[u][k] = store'[k]
    <3>1. CASE u = t
      <4>1. Believed(t)' = Present(t)'
        BY <1>4, <1>6 DEF Believed
      <4>2. Present(t)' \subseteq keys
        BY <2>1, <2>2, <2>8 DEF OracleInv, After, GoodCase
      <4>3. \A k \in keys : kv[t][k] = store[k]
        BY <2>1 DEF OracleInv
      <4>4. \A k \in keys : kv'[t][k] = store'[k]
        BY <2>2, <2>3, <2>6, <2>7, <4>3
      <4> QED BY <2>8, <2>9, <3>1, <4>1, <4>2, <4>4
    <3>2. CASE u # t
      <4>1. kv'[u] = kv[u] /\ case'[u] = case[u]
        BY <1>4, <1>6, <2>7, <3>2
      <4>2. Present(u)' = Present(u)
        BY <4>1 DEF Present
      <4>3. Believed(u)' = Believed(u)
        BY <4>1, <4>2 DEF Believed, After
      <4>4. \A k \in program.keys[u] : k \in Keys /\ k \notin keys
        BY <1>6, <3>2 DEF OwnKeys, WellFormed, Threads
      <4> QED BY <2>1, <2>5, <4>1, <4>2, <4>3, <4>4 DEF OracleInv
    <3> QED BY <3>1, <3>2
  <2>11. ASSUME NEW k \in Keys, store'[k] # NoVal PROVE \E u \in Threads : k \in program.keys[u]
    <3>1. CASE k \in keys
      BY <3>1
    <3>2. CASE k \notin keys
      BY <2>1, <2>5, <2>11, <3>2 DEF OracleInv
    <3> QED BY <3>1, <3>2
  <2> QED BY <1>1, <1>2, <2>5, <2>7, <2>10, <2>11 DEF OracleInv, Maps
<1>7. ASSUME Checkable(program) PROVE fatal' = FALSE
  BY <1>7, CheckPasses
<1>8. program' \in Programs /\ (program.kind = "validate")' = (program.kind = "validate")
  BY <1>1 DEF HarnessInv
<1> QED BY <1>1, <1>3, <1>5, <1>6, <1>7, <1>8 DEF HarnessInv

\* The other steps do not touch what the invariant is about.
LEMMA HarnessStep == HarnessInv /\ [Next]_vars => HarnessInv'
<1> SUFFICES ASSUME HarnessInv, [Next]_vars PROVE HarnessInv'
  OBVIOUS
<1>1. ASSUME UNCHANGED <<program, map, store, inserted, kv, case, fatal>>
      PROVE  HarnessInv'
  <2>1. /\ Threads' = Threads
        /\ \A t : Present(t)' = Present(t) /\ Believed(t)' = Believed(t)
    BY <1>1 DEF Threads, Present, Believed, After
  <2>2. /\ WellFormed(program)' <=> WellFormed(program)
        /\ Checkable(program)' <=> Checkable(program)
        /\ OwnKeys(program)' <=> OwnKeys(program)
    BY <1>1
  <2>3. GeneratorInv' <=> GeneratorInv
    BY <1>1, <2>1, <2>2 DEF GeneratorInv, GoodCase, FairCase
  <2>4. OracleInv' <=> OracleInv
    BY <1>1, <2>1 DEF OracleInv, Maps
  <2> QED BY <1>1, <2>2, <2>3, <2>4 DEF HarnessInv
<1>2. CASE UNCHANGED vars
  BY <1>1, <1>2 DEF vars
<1>3. CASE Ended
  BY <1>1, <1>3 DEF Ended, vars
<1>4. ASSUME NEW t \in Threads, Step(t) PROVE HarnessInv'
  <2>1. CASE Generate(t)
    BY <2>1, HarnessGenerate
  <2>2. CASE RunCase(t)
    BY <2>2, HarnessRunCase
  <2>3. CASE EndBatch(t)
    BY <1>1, <2>3 DEF EndBatch
  <2>4. CASE LoadTaskNr(t)
    BY <1>1, <2>4 DEF LoadTaskNr
  <2>5. CASE FetchSub(t)
    BY <1>1, <2>5 DEF FetchSub
  <2> QED BY <1>4, <2>1, <2>2, <2>3, <2>4, <2>5 DEF Step
<1> QED BY <1>2, <1>3, <1>4 DEF Next

\* The invariant holds for every program, every number of threads and cases.
THEOREM HarnessInvariance == Spec => []HarnessInv
BY HarnessInit, HarnessStep, PTL DEF Spec

\* Between two cases the generator, the validator and the engine agree on the
\* keys of a thread (validate_execute, rand_tests), in every program whose
\* threads have keys of their own.
THEOREM OracleCorrect ==
    Spec => [](WellFormed(program) /\ OwnKeys(program) => OracleAgrees)
<1>1. HarnessInv => (WellFormed(program) /\ OwnKeys(program) => OracleAgrees)
  BY DEF HarnessInv, OracleInv, OracleAgrees, Believed, Present
<1> QED BY <1>1, HarnessInvariance, PTL

\* No CHECK of the validators and of the generators fails in a program that
\* does none of what is bound to abort, whatever the other threads do.
THEOREM ChecksHold == Spec => [](Checkable(program) => NoCheckFails)
<1>1. HarnessInv => (Checkable(program) => NoCheckFails)
  BY DEF HarnessInv, NoCheckFails
<1> QED BY <1>1, HarnessInvariance, PTL
=============================================================================
