----------------------------- MODULE EngineStore -----------------------------
(***************************************************************************)
(* Engine implements KVStore: the refinement mapping.                      *)
(*                                                                         *)
(* A put takes effect when its line is in the log, a remove when its line  *)
(* is (or when the key is found absent), a get when it reads the line (or  *)
(* finds the key absent), a visit when the scan is over.                   *)
(***************************************************************************)
EXTENDS Engine

KVIdle         == <<"idle">>
KVPending(r)   == <<"pending", r>>
KVDone(r, res) == <<"done", r, res>>

\* The call of thread t as KVStore sees it.
CallOf(t) ==
    CASE pc[t] = "idle"      -> KVIdle
      [] pc[t] = "put_index" -> KVDone(req[t], <<"kSucc">>)
      [] pc[t] = "return"    -> KVDone(req[t], ret[t])
      [] OTHER               -> KVPending(req[t])

KV == INSTANCE KVStore WITH calls <- [t \in Threads |-> CallOf(t)]

\* Calls of the engine are linearizable and a kill loses no applied effect:
\* every step is a step of KVStore or leaves its state unchanged.
ImplementsKVStore == KV!Spec

-----------------------------------------------------------------------------
(* The range of visit *)

\* The range that engine.h gives visit: [lower, upper), where "" (here 0) as
\* upper comes after all the keys.
Documented(k, lower, upper) == lower <= k /\ (upper = 0 \/ k < upper)

\* "visit applies the visitor to all the KV pairs within the range of [lower,
\* upper)" (engine.h), and to no others.
VisitsDocumentedRange ==
    \A t \in Threads :
        pc[t] = "return" /\ req[t].op = "visit" =>
            {out[t][i] : i \in DOMAIN out[t]} =
            {<<k, store[k]>> : k \in {x \in Keys :
                /\ store[x] # NoVal
                /\ Documented(x, req[t].lower, req[t].upper)}}
=============================================================================
