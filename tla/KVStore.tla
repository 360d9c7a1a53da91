------------------------------- MODULE KVStore -------------------------------
(***************************************************************************)
(* What an engine promises to its callers (include/interfaces.h and        *)
(* include/engine.h): every call takes effect atomically at some moment    *)
(* between its invocation and its return, on one map from keys to values,  *)
(* and a crash of the process loses no effect that was applied.  The range *)
(* of visit is the one of the code, which is not the one engine.h          *)
(* documents: see VisitsDocumentedRange of EngineStore.                    *)
(*                                                                         *)
(* A call goes from idle to pending (invoked), to done (applied, its       *)
(* result fixed) and back to idle (returned).                              *)
(***************************************************************************)
EXTENDS Integers, Sequences

CONSTANTS Threads, Keys, Values, NoVal,
          Requests       \* the calls clients may make

VARIABLES store,         \* the map: [Keys -> Values \cup {NoVal}]
          calls          \* every thread's current call

vars == <<store, calls>>

Idle         == <<"idle">>
Pending(r)   == <<"pending", r>>
Done(r, res) == <<"done", r, res>>

\* The pairs visit hands to its visitor, in order: the loop of visit stops at
\* the first key > upper, so the range is [lower, upper].
IsRangeScan(out, m, lower, upper) ==
    /\ \A i, j \in 1..Len(out) : i < j => out[i][1] < out[j][1]
    /\ {out[i] : i \in 1..Len(out)} =
         {<<k, m[k]>> : k \in {x \in Keys : /\ m[x] # NoVal
                                            /\ lower <= x /\ x <= upper}}

\* The effect of call r on the map, with res as its result.
Effect(r, res) ==
    CASE r.op = "put" ->
           /\ store' = [store EXCEPT ![r.key] = r.val]
           /\ res = <<"kSucc">>
      [] r.op = "remove" ->
           /\ store' = [store EXCEPT ![r.key] = NoVal]
           /\ res = IF store[r.key] = NoVal THEN <<"kNotFound">> ELSE <<"kSucc">>
      [] r.op = "get" ->
           /\ res = IF store[r.key] = NoVal THEN <<"kNotFound">>
                                            ELSE <<"kSucc", store[r.key]>>
           /\ UNCHANGED store
      [] r.op = "visit" ->
           /\ Len(res) = 2 /\ res[1] = "kSucc"
           /\ IsRangeScan(res[2], store, r.lower, r.upper)
           /\ UNCHANGED store
      [] r.op = "sync" -> res \in {<<"kSucc">>, <<"kIOError">>} /\ UNCHANGED store
      [] r.op = "gc"   -> res = <<"kSucc">> /\ UNCHANGED store

-----------------------------------------------------------------------------

Init == /\ store = [k \in Keys |-> NoVal]
        /\ calls = [t \in Threads |-> Idle]

Invoke(t) ==
    /\ calls[t] = Idle
    /\ \E r \in Requests : calls' = [calls EXCEPT ![t] = Pending(r)]
    /\ UNCHANGED store

Apply(t) ==
    /\ calls[t][1] = "pending"
    /\ calls'[t][1] = "done"
    /\ LET r == calls[t][2]
           res == calls'[t][3]
       IN /\ calls' = [calls EXCEPT ![t] = Done(r, res)]
          /\ Effect(r, res)

Return(t) ==
    /\ calls[t][1] = "done"
    /\ calls' = [calls EXCEPT ![t] = Idle]
    /\ UNCHANGED store

\* The process dies: calls in flight vanish, applied effects stay.
Crash ==
    /\ calls' = [t \in Threads |-> Idle]
    /\ UNCHANGED store

Next == Crash \/ \E t \in Threads : Invoke(t) \/ Apply(t) \/ Return(t)

Spec == Init /\ [][Next]_vars
=============================================================================
