--------------------------- MODULE BenchGenerator ---------------------------
(***************************************************************************)
(* The generator of test cases (include/util/bench.h) and the allocators   *)
(* it draws from (include/util/rand_alloc.h, include/util/utils.h).        *)
(*                                                                         *)
(* A generator keeps the set inserted_keys of the keys it believes are in  *)
(* the engine.  Keys are numbers, ordered as the strings they stand for; a *)
(* rate of x/Scale is the number x; a random draw is a choice from the set *)
(* of what can be drawn.                                                   *)
(***************************************************************************)
EXTENDS Integers, FiniteSetsExt, SequencesExt

CONSTANTS Scale,       \* the rate 1.0
          RandLimit,   \* random_choose draws from this many first keys
          Keys,        \* all keys
          SuffixNr,    \* the number of keys with the same prefix
          Values,      \* what alloc_value may return
          NoVal        \* the empty string, as a key or as a value

ASSUME GeneratorAssumption ==
    /\ {Scale, RandLimit, SuffixNr} \subseteq Nat \ {0}
    /\ NoVal \notin Values
    /\ Keys \subseteq Int /\ NoVal \notin Keys

OpConfig(op, op_rate, found_rate, visit_range_percent) ==
    [op |-> op, op_rate |-> op_rate, found_rate |-> found_rate,
     visit_range_percent |-> visit_range_percent]

\* A TestCase whose other fields are empty.
TestCase(op) == [op |-> op, key |-> NoVal, value |-> NoVal,
                 lower |-> NoVal, upper |-> NoVal]

-----------------------------------------------------------------------------
(* Construction *)

\* The sum is a double, and within 0.001 of 1: on this grid, equal to it.
validate(op_confs) ==
    FoldLeft(LAMBDA acc, c : acc + c.op_rate, 0, op_confs) = Scale

\* The map acc_prob_to_conf_: of entries with the same sum the last one stays.
acc_prob_to_conf(op_confs) ==
    FoldLeft(LAMBDA m, c :
                 LET acc == m.acc + c.op_rate
                 IN [acc |-> acc,
                     map |-> [a \in DOMAIN m.map \cup {acc} |->
                                 IF a = acc THEN c ELSE m.map[a]]],
             [acc |-> 0, map |-> << >>], op_confs).map

\* What lower_bound(r) may find for an r of [0, 1): between any two sums there
\* is an r, and r may be 0.
lower_bound(map) == {map[a] : a \in DOMAIN map}

-----------------------------------------------------------------------------
(* Allocators: what alloc_key may return *)

PrintableAllocator == Keys

UniformAllocator(max_key) == 0..(max_key - 1)

\* The keys of one prefix are neighbours in the order of all keys.
PrefixAllocator(prefix) == {prefix * SuffixNr + n : n \in 0..(SuffixNr - 1)}

-----------------------------------------------------------------------------
(* Drawing *)

\* r < okay, for an r of 0..999: only its extremes matter.
probability_yes(prob) == {r < (1000 * prob) \div Scale : r \in {0, 999}}

random_choose(S) == {k \in S : Cardinality({j \in S : j < k}) < RandLimit}

\* Mutant of pick_key: a new key comes without the prefix of its allocator.
pick_key_unprefixed(found_rate, inserted_keys, alloc_key) ==
    UNION {IF yes /\ inserted_keys # {} THEN random_choose(inserted_keys)
                                        ELSE Keys :
           yes \in probability_yes(found_rate)}

\* An inserted key with probability found_rate, else a new one.
pick_key(found_rate, inserted_keys, alloc_key) ==
    UNION {IF yes /\ inserted_keys # {} THEN random_choose(inserted_keys)
                                        ELSE alloc_key :
           yes \in probability_yes(found_rate)}

\* The pairs <<begin_idx, end_idx>> for a range of percent out of n keys, with
\* begin_d uniform in [0, 1 - percent).
visit_indices(n, percent) ==
    {<<(n * b) \div Scale, (n * (b + percent)) \div Scale>> :
        b \in 0..Max({0, Scale - percent - 1})}

\* The key at a position of the ordered set.
KeyAt(S, idx) == CHOOSE k \in S : Cardinality({j \in S : j < k}) = idx

-----------------------------------------------------------------------------
(* One round of the loop of rand_tests: what it may append, and the keys   *)
(* it then believes to be there; "fatal" when a CHECK fails.               *)

Generated(c, keys)   == [case |-> c, inserted_keys |-> keys, fatal |-> FALSE]
Aborted(keys)        == [case |-> TestCase("kNoOp"), inserted_keys |-> keys,
                         fatal |-> TRUE]

gen_put(conf, inserted_keys, alloc_key) ==
    {Generated([TestCase("kPut") EXCEPT !.key = x[1], !.value = x[2]],
               inserted_keys \cup {x[1]}) :
        x \in pick_key(conf.found_rate, inserted_keys, alloc_key) \X Values}

\* Mutant of gen_delete: the deleted key is still believed to be there.
gen_delete_keeping(conf, inserted_keys, alloc_key) ==
    {Generated([TestCase("kDelete") EXCEPT !.key = k], inserted_keys) :
        k \in pick_key(conf.found_rate, inserted_keys, alloc_key)}

gen_delete(conf, inserted_keys, alloc_key) ==
    {Generated([TestCase("kDelete") EXCEPT !.key = k], inserted_keys \ {k}) :
        k \in pick_key(conf.found_rate, inserted_keys, alloc_key)}

gen_get(conf, inserted_keys, alloc_key) ==
    {Generated([TestCase("kGet") EXCEPT !.key = k], inserted_keys) :
        k \in pick_key(conf.found_rate, inserted_keys, alloc_key)}

gen_visit(conf, inserted_keys) ==
    LET n == Cardinality(inserted_keys)
    IN IF n = 0 THEN {Generated(TestCase("kNoOp"), inserted_keys)}
       ELSE {IF ix[2] >= ix[1] /\ ix[2] < n
             THEN Generated([TestCase("kVisit") EXCEPT
                                !.lower = KeyAt(inserted_keys, ix[1]),
                                !.upper = KeyAt(inserted_keys, ix[2])],
                            inserted_keys)
             ELSE Aborted(inserted_keys) :
             ix \in visit_indices(n, conf.visit_range_percent)}

\* The switch on the operation of a configuration.
gen_case(conf, inserted_keys, alloc_key) ==
    CASE conf.op = "kPut"    -> gen_put(conf, inserted_keys, alloc_key)
      [] conf.op = "kDelete" -> gen_delete(conf, inserted_keys, alloc_key)
      [] conf.op = "kGet"    -> gen_get(conf, inserted_keys, alloc_key)
      [] conf.op = "kVisit"  -> gen_visit(conf, inserted_keys)
      [] OTHER -> {Generated(TestCase(conf.op), inserted_keys)}

rand_test(map, i, sync_every, inserted_keys, alloc_key) ==
    IF sync_every # 0 /\ i % sync_every = 0
    THEN {Generated(TestCase("kSync"), inserted_keys)}
    ELSE (UNION {gen_case(conf, inserted_keys, alloc_key) : conf \in lower_bound(map)})
         \cup (IF Max(DOMAIN map) < Scale THEN {Aborted(inserted_keys)} ELSE {})
=============================================================================
