------------------------------ MODULE Executor ------------------------------
(***************************************************************************)
(* EngineValidator (include/util/executor.h): a test case run against an   *)
(* engine, with the CHECKs made on the answer.  res is the answer of the   *)
(* engine, kv the map the validator expects the engine to hold.            *)
(***************************************************************************)
EXTENDS Integers, FiniteSets, Sequences

CONSTANTS Keys, NoVal

\* The result of running a case: did the CHECKs hold, and the map after it.
Ran(ok, kv) == [ok |-> ok, kv |-> kv]

validate_get(kv, c, res) ==
    Ran(res = IF kv[c.key] # NoVal THEN <<"kSucc", kv[c.key]>>
                                   ELSE <<"kNotFound">>, kv)

validate_put(kv, c, res) ==
    Ran(res = <<"kSucc">>, [kv EXCEPT ![c.key] = c.value])

validate_delete(kv, c, res) ==
    Ran(res = IF kv[c.key] # NoVal THEN <<"kSucc">> ELSE <<"kNotFound">>,
        [kv EXCEPT ![c.key] = NoVal])

\* Each visited pair is expected, and as many are visited as kv has in the
\* range, both ends included; an empty lower or upper bound is no bound.
validate_visit(kv, c, res) ==
    LET got == res[2]
        expected == {k \in Keys : /\ kv[k] # NoVal
                                  /\ c.lower = NoVal \/ k >= c.lower
                                  /\ c.upper = NoVal \/ k <= c.upper}
    IN Ran(/\ res[1] = "kSucc"
           /\ \A n \in DOMAIN got : /\ kv[got[n][1]] # NoVal
                                    /\ kv[got[n][1]] = got[n][2]
           /\ Len(got) = Cardinality(expected), kv)

\* A snapshot is nullptr, which CHECK_NOTNULL refuses; CHECK(sync()) wants a
\* code other than kSucc, which is 0.
validate_execute(kv, c, res) ==
    CASE c.op = "kPut"      -> validate_put(kv, c, res)
      [] c.op = "kDelete"   -> validate_delete(kv, c, res)
      [] c.op = "kGet"      -> validate_get(kv, c, res)
      [] c.op = "kGc"       -> Ran(res = <<"kSucc">>, kv)
      [] c.op = "kSnapshot" -> Ran(FALSE, kv)
      [] c.op = "kSync"     -> Ran(res # <<"kSucc">>, kv)
      [] c.op = "kVisit"    -> validate_visit(kv, c, res)
      [] c.op = "kNoOp"     -> Ran(TRUE, kv)

execute(kv, c, res) ==
    Ran(CASE c.op \in {"kPut", "kGc", "kSync"}  -> res = <<"kSucc">>
          [] c.op \in {"kDelete", "kGet"}       -> res[1] \in {"kSucc", "kNotFound"}
          [] c.op = "kSnapshot"                 -> FALSE
          [] c.op \in {"kVisit", "kNoOp"}       -> TRUE,
        kv)
=============================================================================
