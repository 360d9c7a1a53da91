-------------------------- MODULE EngineStoreProofs --------------------------
(***************************************************************************)
(* Engine implements KVStore, for every set of threads, keys and values:   *)
(* calls are linearizable and a clean kill loses no applied effect.        *)
(*                                                                         *)
(* The steps that take effect rest on CInv: get reads the stored value     *)
(* because its offset is fresh, remove finds exactly the stored keys.      *)
(* visit needs a new invariant: what it has handed to the visitor is the   *)
(* scan of the store up to its cursor, and nobody can change the store     *)
(* while it runs.                                                          *)
(***************************************************************************)
EXTENDS EngineStore, EngineContents

GetPoints   == {"get", "get_lock2", "get_search", "get_read"}
VisitPoints == {"visit", "visit_lock2", "visit_open", "visit_scan"}
SyncPoints  == {"sync", "sync_file"}
GcPoints    == {"gc", "gc_lock", "gc_shared"} \cup CopySection \cup SwitchSection

\* A thread inside the handler of a call executes a call of that kind.
KindInv ==
    \A t \in Threads :
      /\ pc[t] \in GetPoints => req[t].op = "get"
      /\ pc[t] \in VisitPoints => req[t].op = "visit" /\ req[t].upper \in Nat
      /\ pc[t] \in SyncPoints => req[t].op = "sync"
      /\ pc[t] \in GcPoints => req[t].op = "gc"

\* The pairs s are the stored ones with keys from lower to c, in order.
ScannedTo(s, lower, c) ==
    /\ s \in Seq(Keys \X Values)
    /\ \A i, j \in 1..Len(s) : i < j => s[i][1] < s[j][1]
    /\ \A i \in 1..Len(s) : /\ lower <= s[i][1] /\ s[i][1] <= c
                            /\ store[s[i][1]] = s[i][2]
    /\ \A k \in Keys : store[k] # NoVal /\ lower <= k /\ k <= c =>
          \E i \in 1..Len(s) : s[i] = <<k, store[k]>>

\* What visit has handed out; none of it is beyond upper.
VisitInv ==
    \A t \in Threads :
      /\ pc[t] \in {"idle", "visit", "visit_lock2", "visit_open"} =>
            out[t] = << >>
      /\ pc[t] = "visit_scan" =>
            /\ req[t].lower <= cursor[t] + 1
            /\ ScannedTo(out[t], req[t].lower, cursor[t])
            /\ \A i \in 1..Len(out[t]) : out[t][i][1] <= req[t].upper

ResultTypes == /\ ret = [t \in Threads |-> ret[t]]
               /\ out = [t \in Threads |-> out[t]]

SInv == KindInv /\ VisitInv /\ ResultTypes

-----------------------------------------------------------------------------
(* Steps of KVStore *)

\* A step that changes no call and not the store.
LEMMA Stutter ==
    ASSUME \A u \in Threads : CallOf(u)' = CallOf(u), store' = store
    PROVE  UNCHANGED KV!vars
BY DEF KV!vars

\* A step that takes effect.
LEMMA Applies ==
    ASSUME NEW t \in Threads, NEW r, NEW res,
           CallOf(t) = KVPending(r), CallOf(t)' = KVDone(r, res),
           \A u \in Threads : u # t => CallOf(u)' = CallOf(u),
           KV!Effect(r, res)
    PROVE  KV!Apply(t)
  <1>. DEFINE calls == [u \in Threads |-> CallOf(u)]
  <1>1. calls[t] = <<"pending", r>> /\ calls'[t] = <<"done", r, res>>
    BY DEF KVPending, KVDone
  <1>2. calls' = [calls EXCEPT ![t] = <<"done", r, res>>]
    BY DEF KVDone
  <1>3. /\ calls[t][1] = "pending" /\ calls[t][2] = r
        /\ calls'[t][1] = "done" /\ calls'[t][3] = res
    BY <1>1
  <1>. QED BY <1>2, <1>3 DEF KV!Apply, KV!Done

\* What the abstract call of a thread depends on.
LEMMA CallFrame ==
    ASSUME NEW u \in Threads, pc'[u] = pc[u], req'[u] = req[u], ret'[u] = ret[u]
    PROVE  CallOf(u)' = CallOf(u)
BY DEF CallOf, KVIdle, KVPending, KVDone

-----------------------------------------------------------------------------
(* Preservation of the new invariant *)

\* Thread u takes no part in the step.
Rests(u) == /\ pc'[u] = pc[u] /\ req'[u] = req[u] /\ ret'[u] = ret[u]
            /\ out'[u] = out[u] /\ cursor'[u] = cursor[u]

\* Thread t goes on inside the handler of its call, or to its end, and is not
\* in the loop of visit afterwards.
GoesOn(t) ==
    /\ req'[t] = req[t] /\ out'[t] = out[t]
    /\ pc'[t] \notin {"idle", "visit", "visit_scan"}
    /\ pc'[t] \in GetPoints => pc[t] \in GetPoints
    /\ pc'[t] \in VisitPoints => pc[t] \in VisitPoints \ {"visit_scan"}
    /\ pc'[t] \in SyncPoints => pc[t] \in SyncPoints
    /\ pc'[t] \in GcPoints => pc[t] \in GcPoints

\* The loop of visit does not notice a step that leaves the store alone.
LEMMA ScanFrame ==
    ASSUME SInv, NEW u \in Threads, Rests(u), store' = store,
           pc[u] = "visit_scan"
    PROVE  /\ req'[u].lower <= cursor'[u] + 1
           /\ ScannedTo(out[u], req[u].lower, cursor[u])'
           /\ \A i \in 1..Len(out'[u]) : out'[u][i][1] <= req'[u].upper
BY DEF SInv, VisitInv, ScannedTo, Rests

\* Nobody is in the loop of visit when the store changes.
LEMMA ScanUndisturbed ==
    ASSUME IInv, SInv, NEW t \in Threads, GoesOn(t), ResultTypes',
           \A u \in Threads : u # t => Rests(u),
           store' = store \/ pc[t] \in WriteSection
    PROVE  SInv'
  <1>1. KindInv'
    <2>1. \A u \in Threads : req'[u] = req[u]
      BY DEF GoesOn, Rests
    <2>. QED BY <2>1 DEF SInv, KindInv, GoesOn, Rests
  <1>2. \A u \in Threads : u # t /\ pc[u] = "visit_scan" => store' = store
    BY LocksExclude DEF Exclusion, ReadSection
  <1>3. VisitInv'
    <2>1. ASSUME NEW u \in Threads, u # t, pc[u] = "visit_scan"
          PROVE  /\ req'[u].lower <= cursor'[u] + 1
                 /\ ScannedTo(out[u], req[u].lower, cursor[u])'
                 /\ \A i \in 1..Len(out'[u]) : out'[u][i][1] <= req'[u].upper
      BY <1>2, <2>1, ScanFrame
    <2>2. \A u \in Threads : pc'[u] = "visit_scan" => u # t /\ pc[u] = "visit_scan"
      BY DEF GoesOn, Rests
    <2>3. \A u \in Threads :
             pc'[u] \in {"idle", "visit", "visit_lock2", "visit_open"} =>
                out'[u] = << >>
      BY DEF SInv, VisitInv, GoesOn, Rests, VisitPoints
    <2>. QED BY <2>1, <2>2, <2>3 DEF VisitInv
  <1>. QED BY <1>1, <1>3 DEF SInv

\* A step that KVStore does not see.
LEMMA HiddenStep ==
    ASSUME IInv, SInv, NEW t \in Threads, GoesOn(t),
           UNCHANGED <<store, ret, out>>,
           \A u \in Threads : u # t => Rests(u),
           pc[t] \notin {"idle", "put_index", "return"},
           pc'[t] \notin {"put_index", "return"}
    PROVE  SInv' /\ [KV!Next]_(KV!vars)
  <1>1. SInv'
    <2>1. ResultTypes'
      BY DEF SInv, ResultTypes
    <2>. QED BY <2>1, ScanUndisturbed
  <1>2. CallOf(t)' = CallOf(t)
    BY DEF CallOf, GoesOn, KVPending
  <1>3. \A u \in Threads : CallOf(u)' = CallOf(u)
    BY <1>2, CallFrame DEF Rests
  <1>4. UNCHANGED KV!vars
    BY <1>3, Stutter
  <1>. QED BY <1>1, <1>4

\* An abort: only mode changes.
LEMMA AbortStep ==
    ASSUME SInv, UNCHANGED <<store, pc, req, ret, out, cursor>>
    PROVE  SInv' /\ [KV!Next]_(KV!vars)
  <1>1. \A u \in Threads : CallOf(u)' = CallOf(u)
    BY CallFrame
  <1>2. UNCHANGED KV!vars
    BY <1>1, Stutter
  <1>3. SInv'
    BY DEF SInv, KindInv, VisitInv, ScannedTo, ResultTypes
  <1>. QED BY <1>2, <1>3

\* A step that takes effect: the thread goes to its end with its result, or
\* between log and index.
LEMMA EffectStep ==
    ASSUME IInv, SInv, NEW t \in Threads, NEW res,
           pc[t] \notin {"idle", "put_index", "return"},
           \/ /\ pc' = [pc EXCEPT ![t] = "return"]
              /\ ret' = [ret EXCEPT ![t] = res]
           \/ /\ pc' = [pc EXCEPT ![t] = "put_index"]
              /\ ret' = ret /\ res = <<"kSucc">>,
           UNCHANGED <<req, out, cursor>>,
           store' = store \/ pc[t] \in WriteSection,
           KV!Effect(req[t], res)
    PROVE  SInv' /\ [KV!Next]_(KV!vars)
  <1>1. /\ \A u \in Threads : u # t => Rests(u)
        /\ pc'[t] \in {"return", "put_index"}
        /\ pc'[t] = "return" => ret'[t] = res
        /\ pc'[t] = "put_index" => res = <<"kSucc">>
        /\ ResultTypes'
    BY DEF SInv, ResultTypes, IInv, TypeOK, ThreadTypes, Rests
  <1>2. SInv'
    <2>1. GoesOn(t)
      BY <1>1 DEF GoesOn, GetPoints, VisitPoints, SyncPoints, GcPoints,
                  CopySection, SwitchSection
    <2>. QED BY <1>1, <2>1, ScanUndisturbed
  <1>3. \A u \in Threads : u # t => CallOf(u)' = CallOf(u)
    BY <1>1, CallFrame DEF Rests
  <1>4. CallOf(t) = KVPending(req[t])
    BY DEF CallOf
  <1>5. CallOf(t)' = KVDone(req[t], res)
    BY <1>1 DEF CallOf, KVDone
  <1>6. KV!Apply(t)
    BY <1>3, <1>4, <1>5, Applies
  <1>. QED BY <1>2, <1>6 DEF KV!Next

-----------------------------------------------------------------------------
(* Every step of the engine is a step of KVStore *)

\* A call begins.
LEMMA CallRefines ==
    ASSUME IInv, SInv, NEW t \in Threads, NEW r \in Requests, Call(t, r)
    PROVE  SInv' /\ [KV!Next]_(KV!vars)
  <1>1. r \in AllRequests
    BY EngineAssumption
  <1>2. /\ r.op \in {"put", "remove", "get", "visit", "sync", "gc"}
        /\ r.op = "visit" => r.upper \in Nat
    BY <1>1 DEF AllRequests
  <1>3. /\ pc[t] = "idle" /\ pc'[t] = r.op /\ req'[t] = r
        /\ UNCHANGED <<ret, out, cursor, store>>
        /\ \A u \in Threads : u # t => Rests(u)
    BY DEF Call, At, Goto, locals, IInv, TypeOK, ThreadTypes, Rests
  <1>4. KindInv'
    BY <1>2, <1>3 DEF SInv, KindInv, Rests, GetPoints, VisitPoints, SyncPoints,
                      GcPoints, CopySection, SwitchSection
  <1>5. VisitInv'
    <2>1. ASSUME NEW u \in Threads, u # t, pc[u] = "visit_scan"
          PROVE  /\ req'[u].lower <= cursor'[u] + 1
                 /\ ScannedTo(out[u], req[u].lower, cursor[u])'
                 /\ \A i \in 1..Len(out'[u]) : out'[u][i][1] <= req'[u].upper
      BY <1>3, <2>1, ScanFrame
    <2>2. \A u \in Threads : pc'[u] = "visit_scan" => u # t /\ pc[u] = "visit_scan"
      BY <1>2, <1>3 DEF Rests
    <2>3. \A u \in Threads :
             pc'[u] \in {"idle", "visit", "visit_lock2", "visit_open"} =>
                out'[u] = << >>
      BY <1>2, <1>3 DEF SInv, VisitInv, Rests
    <2>. QED BY <2>1, <2>2, <2>3 DEF VisitInv
  <1>6. SInv'
    BY <1>3, <1>4, <1>5 DEF SInv, ResultTypes
  <1>7. CallOf(t) = <<"idle">> /\ CallOf(t)' = <<"pending", r>>
    BY <1>2, <1>3 DEF CallOf, KVIdle, KVPending
  <1>8. \A u \in Threads : u # t => CallOf(u)' = CallOf(u)
    BY <1>3, CallFrame DEF Rests
  <1>9. KV!Invoke(t)
    BY <1>3, <1>7, <1>8 DEF KV!Invoke, KV!Idle, KV!Pending
  <1>. QED BY <1>6, <1>9 DEF KV!Next

\* A call ends.
LEMMA ReturnRefines ==
    ASSUME IInv, SInv, NEW t \in Threads, Return(t)
    PROVE  SInv' /\ [KV!Next]_(KV!vars)
  <1>1. /\ pc[t] = "return" /\ pc'[t] = "idle" /\ out'[t] = << >>
        /\ store' = store
        /\ \A u \in Threads : u # t => Rests(u)
        /\ ResultTypes'
    BY DEF Return, At, Goto, IInv, TypeOK, ThreadTypes, Rests, SInv, ResultTypes
  <1>2. KindInv'
    BY <1>1 DEF SInv, KindInv, Rests, GetPoints, VisitPoints, SyncPoints,
                GcPoints, CopySection, SwitchSection
  <1>3. VisitInv'
    <2>1. ASSUME NEW u \in Threads, u # t, pc[u] = "visit_scan"
          PROVE  /\ req'[u].lower <= cursor'[u] + 1
                 /\ ScannedTo(out[u], req[u].lower, cursor[u])'
                 /\ \A i \in 1..Len(out'[u]) : out'[u][i][1] <= req'[u].upper
      BY <1>1, <2>1, ScanFrame
    <2>. QED BY <1>1, <2>1 DEF SInv, VisitInv, Rests
  <1>4. CallOf(t) = <<"done", req[t], ret[t]>> /\ CallOf(t)' = <<"idle">>
    BY <1>1 DEF CallOf, KVIdle, KVDone
  <1>5. \A u \in Threads : u # t => CallOf(u)' = CallOf(u)
    BY <1>1, CallFrame DEF Rests
  <1>6. KV!Return(t)
    <2>. DEFINE calls == [u \in Threads |-> CallOf(u)]
    <2>1. calls[t][1] = "done"
      BY <1>4
    <2>2. calls' = [calls EXCEPT ![t] = <<"idle">>]
      BY <1>4, <1>5
    <2>. QED BY <1>1, <2>1, <2>2 DEF KV!Return, KV!Idle
  <1>. QED BY <1>1, <1>2, <1>3, <1>6 DEF SInv, KV!Next

\* Lock steps, and the steps of _gc before the rename.
LEMMA HiddenRefines ==
    ASSUME IInv, SInv, NEW t \in Threads,
           \/ WriteLock(t) \/ ReadLock(t) \/ ReadLock2(t)
           \/ GcLaunch(t) \/ GcLock(t) \/ GcShared(t) \/ GcLock2(t)
           \/ GcReindex(t) \/ GcRemove(t)
    PROVE  SInv' /\ [KV!Next]_(KV!vars)
  <1>1. /\ UNCHANGED <<store, ret, out, req, cursor>>
        /\ \E label \in Labels : pc' = [pc EXCEPT ![t] = label]
    BY DEF WriteLock, ReadLock, ReadLock2, GcLaunch, GcLock, GcShared, GcLock2,
           GcReindex, GcRemove, Goto, locals, Labels
  <1>2. \A u \in Threads : u # t => Rests(u)
    BY <1>1 DEF Rests, IInv, TypeOK, ThreadTypes
  <1>3. \/ pc[t] = "put" /\ pc'[t] = "put_log"
        \/ pc[t] = "remove" /\ pc'[t] = "rm_index"
        \/ pc[t] = "sync" /\ pc'[t] = "sync_file"
        \/ pc[t] = "get" /\ pc'[t] = "get_lock2"
        \/ pc[t] = "visit" /\ pc'[t] = "visit_lock2"
        \/ pc[t] = "get_lock2" /\ pc'[t] = "get_search"
        \/ pc[t] = "visit_lock2" /\ pc'[t] = "visit_open"
        \/ pc[t] = "gc" /\ pc'[t] = "gc_lock"
        \/ pc[t] = "gc_lock" /\ pc'[t] = "gc_shared"
        \/ pc[t] = "gc_shared" /\ pc'[t] = "gc_copy"
        \/ pc[t] = "gc_lock2" /\ pc'[t] = "gc_reindex"
        \/ pc[t] = "gc_reindex" /\ pc'[t] = "gc_remove"
        \/ pc[t] = "gc_remove" /\ pc'[t] = "gc_rename"
    BY DEF WriteLock, ReadLock, ReadLock2, GcLaunch, GcLock, GcShared, GcLock2,
           GcReindex, GcRemove, At, Goto, IInv, TypeOK, ThreadTypes
  <1>4. GoesOn(t)
    BY <1>1, <1>3 DEF GoesOn, GetPoints, VisitPoints, SyncPoints, GcPoints,
                      CopySection, SwitchSection
  <1>. QED BY <1>1, <1>2, <1>3, <1>4, HiddenStep

\* The copy loop of _gc is hidden as well.
LEMMA GcCopyRefines ==
    ASSUME IInv, SInv, NEW t \in Threads, GcCopy(t) \/ GcClose(t)
    PROVE  SInv' /\ [KV!Next]_(KV!vars)
  <1>1. CASE UNCHANGED <<store, pc, req, ret, out, cursor>>
    BY <1>1, AbortStep
  <1>2. CASE /\ UNCHANGED <<store, req, ret, out>> /\ pc[t] = "gc_copy"
             /\ pc'[t] \in {"gc_copy", "gc_lock2"}
             /\ \A u \in Threads : u # t => pc'[u] = pc[u] /\ cursor'[u] = cursor[u]
    <2>1. GoesOn(t) /\ \A u \in Threads : u # t => Rests(u)
      BY <1>2 DEF Rests, GoesOn, GetPoints, VisitPoints, SyncPoints, GcPoints,
                  CopySection, SwitchSection
    <2>. QED BY <1>2, <2>1, HiddenStep
  <1>3. CASE GcCopy(t)
    <2>1. \/ cursor' = cursor
          \/ \E k : cursor' = [cursor EXCEPT ![t] = k]
      BY <1>3 DEF GcCopy
    <2>. QED BY <1>1, <1>2, <1>3, <2>1
             DEF GcCopy, At, IInv, TypeOK, ThreadTypes
  <1>4. CASE GcClose(t)
    BY <1>1, <1>2, <1>4
       DEF GcClose, At, Goto, locals, IInv, TypeOK, ThreadTypes
  <1>. QED BY <1>3, <1>4

\* put takes effect with its line; its insert into the index is hidden.
LEMMA PutRefines ==
    ASSUME IInv, CInv, SInv, NEW t \in Threads, PutLog(t) \/ PutIndex(t)
    PROVE  SInv' /\ [KV!Next]_(KV!vars)
  <1>1. CASE PutLog(t)
    <2>1. /\ pc[t] = "put_log" /\ pc' = [pc EXCEPT ![t] = "put_index"]
          /\ store' = [store EXCEPT ![req[t].key] = req[t].val]
          /\ UNCHANGED <<req, ret, out, cursor>>
      BY <1>1 DEF PutLog, At, Goto, locals
    <2>2. req[t].op = "put"
      BY <2>1 DEF IInv, ReqInv
    <2>3. KV!Effect(req[t], <<"kSucc">>)
      BY <2>1, <2>2 DEF KV!Effect
    <2>. QED BY <2>1, <2>3, EffectStep DEF WriteSection
  <1>2. CASE PutIndex(t)
    <2>1. CASE UNCHANGED <<store, pc, req, ret, out, cursor>>
      BY <2>1, AbortStep
    <2>2. CASE /\ pc' = [pc EXCEPT ![t] = "return"]
               /\ ret' = [ret EXCEPT ![t] = <<"kSucc">>]
               /\ UNCHANGED <<store, req, out, cursor>>
      <3>1. /\ pc[t] = "put_index" /\ pc'[t] = "return" /\ ret'[t] = <<"kSucc">>
            /\ \A u \in Threads : u # t => Rests(u)
            /\ ResultTypes'
        BY <1>2, <2>2 DEF PutIndex, At, SInv, ResultTypes, IInv, TypeOK,
                          ThreadTypes, Rests
      <3>2. GoesOn(t)
        BY <2>2, <3>1 DEF GoesOn, GetPoints, VisitPoints, SyncPoints, GcPoints,
                    CopySection, SwitchSection
      <3>3. SInv'
        BY <2>2, <3>1, <3>2, ScanUndisturbed
      <3>4. CallOf(t)' = CallOf(t)
        BY <2>2, <3>1 DEF CallOf, KVDone
      <3>5. \A u \in Threads : CallOf(u)' = CallOf(u)
        BY <3>1, <3>4, CallFrame DEF Rests
      <3>. QED BY <2>2, <3>3, <3>5, Stutter
    <2>. QED BY <1>2, <2>1, <2>2 DEF PutIndex, Finish, Goto, locals
  <1>. QED BY <1>1, <1>2

\* remove takes effect with its line, or when it finds its key absent: the
\* index then holds no entry because the store has none.
LEMMA RemoveRefines ==
    ASSUME IInv, CInv, SInv, NEW t \in Threads, RmIndex(t) \/ RmLog(t)
    PROVE  SInv' /\ [KV!Next]_(KV!vars)
  <1>. DEFINE k == req[t].key
  <1>1. CASE RmIndex(t)
    <2>1. /\ mode = "up" /\ pc[t] = "rm_index" /\ UNCHANGED <<req, out, cursor, store>>
          /\ req[t].op = "remove" /\ k \in Keys
      BY <1>1 DEF RmIndex, At, locals, IInv, ReqInv
    <2>2. CASE Search(k) = -1
      <3>1. /\ pc' = [pc EXCEPT ![t] = "return"]
            /\ ret' = [ret EXCEPT ![t] = <<"kNotFound">>]
        BY <1>1, <2>2 DEF RmIndex, Finish, Goto
      <3>2. ~ BeingWritten(k)
        BY <2>1, WriterAlone DEF BeingWritten, WriteSection, Busy
      <3>3. store[k] = NoVal
        <4>1. ~ Present(k)
          BY <2>1, <2>2 DEF Search, CInv, NatInv
        <4>. QED BY <2>1, <3>2, <4>1 DEF CInv, IndexSound
      <3>4. store' = [store EXCEPT ![k] = NoVal]
        BY <2>1, <3>3 DEF IInv, TypeOK, IndexTypes
      <3>5. KV!Effect(req[t], <<"kNotFound">>)
        BY <2>1, <3>3, <3>4 DEF KV!Effect
      <3>. QED BY <2>1, <3>1, <3>5, EffectStep
    <2>3. CASE Search(k) # -1
      <3>1. pc' = [pc EXCEPT ![t] = "rm_log"] /\ ret' = ret
        BY <1>1, <2>3 DEF RmIndex, Goto
      <3>2. pc'[t] = "rm_log" /\ \A u \in Threads : u # t => Rests(u)
        BY <2>1, <3>1 DEF IInv, TypeOK, ThreadTypes, Rests
      <3>3. GoesOn(t)
        BY <2>1, <3>2 DEF GoesOn, GetPoints, VisitPoints, SyncPoints, GcPoints,
                    CopySection, SwitchSection
      <3>. QED BY <2>1, <3>1, <3>2, <3>3, HiddenStep
    <2>. QED BY <2>2, <2>3
  <1>2. CASE RmLog(t)
    <2>1. /\ mode = "up" /\ pc[t] = "rm_log" /\ UNCHANGED <<req, out, cursor>>
          /\ pc' = [pc EXCEPT ![t] = "return"]
          /\ ret' = [ret EXCEPT ![t] = <<"kSucc">>]
          /\ store' = [store EXCEPT ![k] = NoVal]
      BY <1>2 DEF RmLog, At, Finish, Goto, locals
    <2>2. req[t].op = "remove" /\ store[k] # NoVal
      BY <2>1 DEF IInv, ReqInv, CInv, WriteInv
    <2>3. KV!Effect(req[t], <<"kSucc">>)
      BY <2>1, <2>2 DEF KV!Effect
    <2>. QED BY <2>1, <2>3, EffectStep DEF WriteSection
  <1>. QED BY <1>1, <1>2

\* get takes effect when it reads the line that its fresh offset leads to, or
\* when it finds its key absent.
LEMMA GetRefines ==
    ASSUME IInv, CInv, SInv, NEW t \in Threads, GetSearch(t) \/ GetRead(t)
    PROVE  SInv' /\ [KV!Next]_(KV!vars)
  <1>. DEFINE k == req[t].key
  <1>1. CASE GetSearch(t)
    <2>1. /\ mode = "up" /\ pc[t] = "get_search"
          /\ UNCHANGED <<req, out, cursor, store>>
          /\ req[t].op = "get" /\ k \in Keys
      BY <1>1 DEF GetSearch, At, IInv, ReqInv, SInv, KindInv, GetPoints
    <2>2. CASE Search(k) = -1
      <3>1. /\ pc' = [pc EXCEPT ![t] = "return"]
            /\ ret' = [ret EXCEPT ![t] = <<"kNotFound">>]
        BY <1>1, <2>2 DEF GetSearch, Finish, Goto
      <3>2. ~ BeingWritten(k)
        BY <2>1, LocksExclude
           DEF Exclusion, ReadSection, WriteSection, BeingWritten
      <3>3. ~ Present(k)
        BY <2>1, <2>2 DEF Search, CInv, NatInv
      <3>4. store[k] = NoVal
        BY <2>1, <3>2, <3>3 DEF CInv, IndexSound
      <3>5. KV!Effect(req[t], <<"kNotFound">>)
        BY <2>1, <3>4 DEF KV!Effect
      <3>. QED BY <2>1, <3>1, <3>5, EffectStep
    <2>3. CASE Search(k) # -1
      <3>1. pc' = [pc EXCEPT ![t] = "get_read"] /\ ret' = ret
        BY <1>1, <2>3 DEF GetSearch, Goto
      <3>2. pc'[t] = "get_read" /\ \A u \in Threads : u # t => Rests(u)
        BY <2>1, <3>1 DEF IInv, TypeOK, ThreadTypes, Rests
      <3>3. GoesOn(t)
        BY <2>1, <3>2 DEF GoesOn, GetPoints, VisitPoints, SyncPoints, GcPoints,
                    CopySection, SwitchSection
      <3>. QED BY <2>1, <3>1, <3>2, <3>3, HiddenStep
    <2>. QED BY <2>2, <2>3
  <1>2. CASE GetRead(t)
    <2>1. /\ mode = "up" /\ pc[t] = "get_read"
          /\ UNCHANGED <<req, out, cursor, store>>
          /\ req[t].op = "get" /\ k \in Keys
      BY <1>2 DEF GetRead, At, locals, IInv, ReqInv, SInv, KindInv, GetPoints
    <2>2. CASE UNCHANGED <<pc, ret>>
      BY <2>1, <2>2, AbortStep
    <2>3. CASE ~ UNCHANGED <<pc, ret>>
      <3>1. files["log"] # NoFile
        BY <1>2, <2>3 DEF GetRead
      <3>2. IsFile(files["log"]) /\ Tiled(files["log"])
        <4>1. NotAt({"gc_rename"})
          BY <2>1, LocksExclude
             DEF Exclusion, ReadSection, SwitchSection, NotAt
        <4>. QED BY <3>1, <4>1 DEF CInv, LogInv, IInv, TypeOK, FileTypes
      <3>3. PointsTo(files["log"], offset[t], k, store[k])
        BY <2>1 DEF At, CInv, GetOffsetFresh
      <3>4. /\ offset[t] \in Nat
            /\ ReadKeyValue(files["log"], offset[t]) = {PutRec(k, store[k])}
            /\ PutRec(k, store[k]) \in Records
        BY <3>2, <3>3, ReadLine DEF PointsTo, HasRec
      <3>5. Seek(0, offset[t]) = offset[t]
        BY <3>4 DEF Seek
      <3>6. PutRec(k, store[k]).op = "put" /\ PutRec(k, store[k]).val = store[k]
        BY DEF PutRec
      <3>7. store[k] # NoVal
        BY <3>4, <3>6, RecordFacts
      <3>8. /\ pc' = [pc EXCEPT ![t] = "return"]
            /\ ret' = [ret EXCEPT ![t] = <<"kSucc", store[k]>>]
        BY <1>2, <3>1, <3>4, <3>5, <3>6 DEF GetRead, Finish, Goto
      <3>9. KV!Effect(req[t], <<"kSucc", store[k]>>)
        BY <2>1, <3>7 DEF KV!Effect
      <3>. QED BY <2>1, <3>8, <3>9, EffectStep
    <2>. QED BY <2>2, <2>3
  <1>. QED BY <1>1, <1>2

\* sync and garbage_collect return what KVStore allows.
LEMMA SyncGcRefine ==
    ASSUME IInv, SInv, NEW t \in Threads,
           SyncFile(t) \/ GcDeferred(t) \/ GcRename(t)
    PROVE  SInv' /\ [KV!Next]_(KV!vars)
  <1>1. /\ pc[t] \in {"sync_file", "gc", "gc_rename"}
        /\ pc' = [pc EXCEPT ![t] = "return"]
        /\ UNCHANGED <<req, out, cursor, store>>
    BY DEF SyncFile, GcDeferred, GcRename, At, Finish, Goto, locals
  <1>2. PICK res : ret' = [ret EXCEPT ![t] = res] /\
                   \/ pc[t] = "sync_file" /\ res \in {<<"kSucc">>, <<"kIOError">>}
                   \/ pc[t] \in {"gc", "gc_rename"} /\ res = <<"kSucc">>
    BY DEF SyncFile, GcDeferred, GcRename, At, Finish
  <1>3. /\ pc[t] = "sync_file" => req[t].op = "sync"
        /\ pc[t] \in {"gc", "gc_rename"} => req[t].op = "gc"
    BY DEF SInv, KindInv, SyncPoints, GcPoints, SwitchSection
  <1>4. KV!Effect(req[t], res)
    BY <1>1, <1>2, <1>3 DEF KV!Effect
  <1>. QED BY <1>1, <1>2, <1>4, EffectStep

\* Entering the loop of visit, and one turn of it, are hidden.
LEMMA LoopStep ==
    ASSUME IInv, SInv, NEW t \in Threads,
           pc[t] \in {"visit_open", "visit_scan"}, pc'[t] = "visit_scan",
           UNCHANGED <<store, req, ret>>, ResultTypes',
           \A u \in Threads : u # t => Rests(u),
           req[t].lower <= cursor'[t] + 1,
           ScannedTo(out'[t], req[t].lower, cursor'[t]),
           \A i \in 1..Len(out'[t]) : out'[t][i][1] <= req[t].upper
    PROVE  SInv' /\ [KV!Next]_(KV!vars)
  <1>1. KindInv'
    <2>1. \A u \in Threads : pc'[u] = pc[u] \/ (u = t /\ pc'[u] = "visit_scan")
      BY DEF Rests
    <2>. QED BY <2>1 DEF SInv, KindInv, GetPoints, VisitPoints, SyncPoints,
                         GcPoints, CopySection, SwitchSection
  <1>2. VisitInv'
    <2>1. ASSUME NEW u \in Threads, u # t, pc[u] = "visit_scan"
          PROVE  /\ req'[u].lower <= cursor'[u] + 1
                 /\ ScannedTo(out[u], req[u].lower, cursor[u])'
                 /\ \A i \in 1..Len(out'[u]) : out'[u][i][1] <= req'[u].upper
      BY <2>1, ScanFrame
    <2>2. ScannedTo(out[t], req[t].lower, cursor[t])'
      BY DEF ScannedTo
    <2>3. \A u \in Threads :
             pc'[u] \in {"idle", "visit", "visit_lock2", "visit_open"} =>
                out'[u] = << >>
      BY DEF SInv, VisitInv, Rests
    <2>4. \A u \in Threads : u # t => pc'[u] = pc[u]
      BY DEF Rests
    <2>. QED BY <2>1, <2>2, <2>3, <2>4 DEF VisitInv
  <1>3. CallOf(t)' = CallOf(t)
    BY DEF CallOf, KVPending
  <1>4. \A u \in Threads : CallOf(u)' = CallOf(u)
    BY <1>3, CallFrame DEF Rests
  <1>. QED BY <1>1, <1>2, <1>4, Stutter DEF SInv

\* The scan starts with nothing handed out.
LEMMA VisitOpenRefines ==
    ASSUME IInv, SInv, NEW t \in Threads, VisitOpen(t)
    PROVE  SInv' /\ [KV!Next]_(KV!vars)
  <1>1. /\ pc[t] = "visit_open" /\ pc'[t] = "visit_scan"
        /\ UNCHANGED <<store, req, ret, out>>
        /\ cursor'[t] = req[t].lower - 1
        /\ \A u \in Threads : u # t => Rests(u)
    BY DEF VisitOpen, At, Goto, IInv, TypeOK, ThreadTypes, Rests
  <1>2. ResultTypes'
    BY <1>1 DEF SInv, ResultTypes
  <1>3. out'[t] = << >> /\ req[t].lower \in Nat
    BY <1>1 DEF SInv, VisitInv, IInv, ReqInv
  <1>4. req[t].lower <= cursor'[t] + 1
    BY <1>1, <1>3
  <1>5. ScannedTo(<< >>, req[t].lower, req[t].lower - 1)
    <2>1. << >> \in Seq(Keys \X Values) /\ Len(<< >>) = 0
      OBVIOUS
    <2>2. \A k \in Keys : ~ (req[t].lower <= k /\ k <= req[t].lower - 1)
      BY <1>3, KeysAssumption
    <2>. QED BY <2>1, <2>2 DEF ScannedTo
  <1>6. \A i \in 1..Len(out'[t]) : out'[t][i][1] <= req[t].upper
    BY <1>3
  <1>7. ScannedTo(out'[t], req[t].lower, cursor'[t])
    BY <1>1, <1>3, <1>5
  <1>. QED BY <1>1, <1>2, <1>4, <1>6, <1>7, LoopStep

\* A scan up to c and the next stored key after c make a scan up to that key.
LEMMA ScanGrows ==
    ASSUME NEW s, NEW lower \in Nat, NEW c \in Int, ScannedTo(s, lower, c),
           lower <= c + 1, NEW k \in Keys, k > c, store[k] \in Values,
           \A j \in Keys : store[j] # NoVal /\ j > c => k <= j
    PROVE  ScannedTo(Append(s, <<k, store[k]>>), lower, k)
  <1>. DEFINE n == Len(s)
              x == <<k, store[k]>>
              s2 == Append(s, x)
  <1>1. s \in Seq(Keys \X Values) /\ n \in Nat /\ x \in Keys \X Values
    BY DEF ScannedTo
  <1>2. /\ s2 \in Seq(Keys \X Values) /\ Len(s2) = n + 1 /\ s2[n + 1] = x
        /\ \A i \in 1..n : s2[i] = s[i]
    BY <1>1
  <1>3. k \in Nat /\ \A i \in 1..n : s[i][1] \in Nat
    <2>1. \A i \in 1..n : s[i] \in Keys \X Values
      BY <1>1
    <2>2. \A i \in 1..n : s[i][1] \in Keys
      BY <2>1
    <2>. QED BY <2>2, KeysAssumption
  <1>4. \A i \in 1..n : s[i][1] <= c
    BY DEF ScannedTo
  <1>5. x[1] = k /\ x[2] = store[k]
    OBVIOUS
  <1>. HIDE DEF n, x, s2
  <1>6. \A i, j \in 1..Len(s2) : i < j => s2[i][1] < s2[j][1]
    <2>. SUFFICES ASSUME NEW i \in 1..(n + 1), NEW j \in 1..(n + 1), i < j
                  PROVE  s2[i][1] < s2[j][1]
      BY <1>2
    <2>1. i \in 1..n /\ s2[i] = s[i]
      BY <1>1, <1>2
    <2>2. CASE j = n + 1
      BY <1>2, <1>3, <1>4, <1>5, <2>1, <2>2
    <2>3. CASE j # n + 1
      <3>1. j \in 1..n /\ s2[j] = s[j]
        BY <1>1, <1>2, <2>3
      <3>. QED BY <2>1, <3>1 DEF ScannedTo, n
    <2>. QED BY <2>2, <2>3
  <1>7. \A i \in 1..Len(s2) : /\ lower <= s2[i][1] /\ s2[i][1] <= k
                              /\ store[s2[i][1]] = s2[i][2]
    <2>. SUFFICES ASSUME NEW i \in 1..(n + 1)
                  PROVE  /\ lower <= s2[i][1] /\ s2[i][1] <= k
                         /\ store[s2[i][1]] = s2[i][2]
      BY <1>2
    <2>1. CASE i = n + 1
      BY <1>2, <1>3, <1>5, <2>1
    <2>2. CASE i \in 1..n
      <3>1. /\ lower <= s[i][1] /\ s[i][1] <= c /\ store[s[i][1]] = s[i][2]
        BY <2>2 DEF ScannedTo, n
      <3>. QED BY <1>2, <1>3, <2>2, <3>1
    <2>. QED BY <1>1, <2>1, <2>2
  <1>8. ASSUME NEW j \in Keys, store[j] # NoVal, lower <= j, j <= k
        PROVE  \E i \in 1..Len(s2) : s2[i] = <<j, store[j]>>
    <2>1. CASE j = k
      BY <1>1, <1>2, <2>1 DEF x
    <2>2. CASE j # k
      <3>1. j <= c
        BY <1>3, <1>8, <2>2, KeysAssumption
      <3>2. PICK i \in 1..n : s[i] = <<j, store[j]>>
        BY <1>8, <3>1 DEF ScannedTo, n
      <3>3. i \in 1..Len(s2) /\ s2[i] = s[i]
        BY <1>1, <1>2
      <3>. QED BY <3>2, <3>3
    <2>. QED BY <2>1, <2>2
  <1>9. ScannedTo(s2, lower, k)
    BY <1>2, <1>6, <1>7, <1>8 DEF ScannedTo
  <1>. QED BY <1>9 DEF s2, x

\* One turn of the loop of visit.
LEMMA VisitStepRefines ==
    ASSUME IInv, CInv, SInv, NEW t \in Threads, VisitStep(t)
    PROVE  SInv' /\ [KV!Next]_(KV!vars)
  <1>1. /\ mode = "up" /\ pc[t] = "visit_scan" /\ pc' = pc
        /\ UNCHANGED <<store, req, ret>>
        /\ req[t].lower \in Nat /\ req[t].upper \in Nat /\ cursor[t] \in Int
    BY DEF VisitStep, At, IInv, ReqInv, SInv, KindInv, VisitPoints, TypeOK,
           ThreadTypes
  <1>2. CASE UNCHANGED <<cursor, out>>
    BY <1>1, <1>2, AbortStep
  <1>3. CASE ~ UNCHANGED <<cursor, out>>
    <2>1. PICK k \in NextKey(cursor[t]) :
            /\ ~ (k > req[t].upper)
            /\ \E line \in ReadKeyValue(files["log"], Seek(fpos[t], index[k])) :
                 /\ out' = [out EXCEPT ![t] =
                               Append(@, <<line.key, line.val>>)]
                 /\ cursor' = [cursor EXCEPT ![t] = k]
      BY <1>3 DEF VisitStep
    <2>2. /\ k \in Keys /\ Present(k) /\ k > cursor[t]
          /\ \A j \in Keys : Present(j) /\ j > cursor[t] => k <= j
      BY DEF NextKey
    <2>3. \A j \in Keys : Present(j) => store[j] \in Values
      BY <1>1, KeyReads DEF ReadSection
    <2>4. ReadKeyValue(files["log"], Seek(fpos[t], index[k])) =
             {PutRec(k, store[k])}
      BY <1>1, <2>2, KeyReads DEF ReadSection
    <2>5. /\ out' = [out EXCEPT ![t] = Append(@, <<k, store[k]>>)]
          /\ cursor' = [cursor EXCEPT ![t] = k]
      <3>1. PutRec(k, store[k]).key = k /\ PutRec(k, store[k]).val = store[k]
        BY DEF PutRec
      <3>. QED BY <2>1, <2>4, <3>1
    <2>6. /\ out'[t] = Append(out[t], <<k, store[k]>>) /\ cursor'[t] = k
          /\ ResultTypes'
          /\ \A u \in Threads : u # t => Rests(u)
      BY <1>1, <2>5 DEF SInv, ResultTypes, Rests, IInv, TypeOK, ThreadTypes
    <2>7. \A j \in Keys : store[j] # NoVal => Present(j)
      <3>1. \A j \in Keys : ~ BeingWritten(j)
        BY <1>1, LocksExclude
           DEF Exclusion, ReadSection, WriteSection, BeingWritten
      <3>. QED BY <1>1, <3>1 DEF CInv, IndexSound
    <2>8. /\ ScannedTo(out[t], req[t].lower, cursor[t])
          /\ req[t].lower <= cursor[t] + 1
          /\ \A i \in 1..Len(out[t]) : out[t][i][1] <= req[t].upper
      BY <1>1 DEF SInv, VisitInv
    <2>9. ScannedTo(out'[t], req[t].lower, cursor'[t])
      BY <1>1, <2>2, <2>3, <2>6, <2>7, <2>8, ScanGrows
    <2>10. req[t].lower <= cursor'[t] + 1 /\ k <= req[t].upper
      BY <1>1, <2>1, <2>2, <2>6, <2>8, KeysAssumption
    <2>11. \A i \in 1..Len(out'[t]) : out'[t][i][1] <= req[t].upper
      <3>1. out[t] \in Seq(Keys \X Values) /\ <<k, store[k]>> \in Keys \X Values
        BY <2>2, <2>3, <2>8 DEF ScannedTo
      <3>2. /\ Len(out'[t]) = Len(out[t]) + 1 /\ Len(out[t]) \in Nat
            /\ out'[t][Len(out[t]) + 1] = <<k, store[k]>>
            /\ \A i \in 1..Len(out[t]) : out'[t][i] = out[t][i]
        BY <2>6, <3>1
      <3>3. <<k, store[k]>>[1] = k
        OBVIOUS
      <3>. QED BY <2>8, <2>10, <3>2, <3>3
    <2>. QED BY <1>1, <2>6, <2>9, <2>10, <2>11, LoopStep
  <1>. QED BY <1>2, <1>3

\* visit takes effect when its loop ends: what it handed out is the range scan
\* of the store at that moment.
LEMMA VisitEndRefines ==
    ASSUME IInv, CInv, SInv, NEW t \in Threads, VisitEnd(t)
    PROVE  SInv' /\ [KV!Next]_(KV!vars)
  <1>. DEFINE s == out[t]
              lower == req[t].lower
              upper == req[t].upper
  <1>1. /\ mode = "up" /\ pc[t] = "visit_scan" /\ UNCHANGED <<store, req, out, cursor>>
        /\ req[t].op = "visit"
        /\ lower \in Nat /\ upper \in Nat /\ cursor[t] \in Int
    BY DEF VisitEnd, At, locals, IInv, ReqInv, SInv, KindInv, VisitPoints,
           TypeOK, ThreadTypes
  <1>2. CASE UNCHANGED <<pc, ret>>
    BY <1>1, <1>2, AbortStep
  <1>3. CASE /\ pc' = [pc EXCEPT ![t] = "return"]
             /\ ret' = [ret EXCEPT ![t] = <<"kSucc", s>>]
    <2>1. /\ ScannedTo(s, lower, cursor[t])
          /\ \A i \in 1..Len(s) : s[i][1] <= upper
      BY <1>1 DEF SInv, VisitInv
    <2>2. \A j \in Keys : store[j] # NoVal => Present(j)
      <3>1. \A j \in Keys : ~ BeingWritten(j)
        BY <1>1, LocksExclude
           DEF Exclusion, ReadSection, WriteSection, BeingWritten
      <3>. QED BY <1>1, <3>1 DEF CInv, IndexSound
    <2>. DEFINE range == {x \in Keys : /\ store[x] # NoVal
                                       /\ lower <= x /\ x <= upper}
    <2>3. ASSUME NEW i \in 1..Len(s)
          PROVE  s[i] \in {<<k, store[k]>> : k \in range}
      <3>1. s[i] \in Keys \X Values
        BY <2>1 DEF ScannedTo
      <3>2. /\ s[i] = <<s[i][1], s[i][2]>> /\ s[i][1] \in Keys
            /\ s[i][2] \in Values
        BY <3>1
      <3>3. /\ lower <= s[i][1] /\ s[i][1] <= upper
            /\ store[s[i][1]] = s[i][2]
        BY <2>1 DEF ScannedTo
      <3>. QED BY <3>2, <3>3, NoValAssumption
    <2>4. ASSUME NEW k \in range
          PROVE  \E i \in 1..Len(s) : s[i] = <<k, store[k]>>
      <3>1. /\ k \in Keys /\ k \in Nat /\ store[k] # NoVal
            /\ lower <= k /\ k <= upper
        BY KeysAssumption
      <3>2. ~ (k > cursor[t])
        BY <1>1, <2>2, <3>1 DEF VisitEnd
      <3>3. k <= cursor[t]
        BY <1>1, <3>1, <3>2
      <3>. QED BY <2>1, <3>1, <3>3 DEF ScannedTo
    <2>5. KV!IsRangeScan(s, store, lower, upper)
      <3>1. \A i, j \in 1..Len(s) : i < j => s[i][1] < s[j][1]
        BY <2>1 DEF ScannedTo
      <3>2. {s[i] : i \in 1..Len(s)} = {<<k, store[k]>> : k \in range}
        BY <2>3, <2>4
      <3>. QED BY <3>1, <3>2 DEF KV!IsRangeScan
    <2>6. KV!Effect(req[t], <<"kSucc", s>>)
      <3>1. /\ Len(<<"kSucc", s>>) = 2 /\ <<"kSucc", s>>[1] = "kSucc"
            /\ <<"kSucc", s>>[2] = s
        OBVIOUS
      <3>. QED BY <1>1, <2>5, <3>1 DEF KV!Effect
    <2>. QED BY <1>1, <1>3, <2>6, EffectStep
  <1>. QED BY <1>2, <1>3 DEF VisitEnd, Finish, Goto

\* A kill ends every call; the store stays.
LEMMA CrashRefines ==
    ASSUME Crash
    PROVE  SInv' /\ [KV!Next]_(KV!vars)
  <1>1. /\ store' = store
        /\ \A u \in Threads : pc'[u] = "idle" /\ out'[u] = << >>
        /\ ret' = [u \in Threads |-> << >>] /\ out' = [u \in Threads |-> << >>]
    BY DEF Crash, Kill, MemoryLost, All
  <1>2. SInv'
    BY <1>1 DEF SInv, KindInv, VisitInv, ResultTypes, GetPoints, VisitPoints,
                SyncPoints, GcPoints, CopySection, SwitchSection
  <1>3. \A u \in Threads : CallOf(u)' = <<"idle">>
    BY <1>1 DEF CallOf, KVIdle
  <1>4. KV!Crash
    BY <1>1, <1>3 DEF KV!Crash, KV!Idle
  <1>. QED BY <1>2, <1>4 DEF KV!Next

\* Every step of the engine is a step of KVStore or leaves its state unchanged.
LEMMA NextRefines ==
    ASSUME IInv, CInv, SInv, [Next]_vars
    PROVE  SInv' /\ [KV!Next]_(KV!vars)
  <1>1. CASE \E t \in Threads : \E r \in Requests : Call(t, r)
    BY <1>1, CallRefines
  <1>2. CASE \E t \in Threads : Step(t)
    BY <1>2, ReturnRefines, HiddenRefines, GcCopyRefines, PutRefines,
       RemoveRefines, GetRefines, SyncGcRefine, VisitOpenRefines,
       VisitStepRefines, VisitEndRefines DEF Step
  <1>3. CASE Open \/ RebuildStep \/ UNCHANGED vars
    BY <1>3, AbortStep DEF Open, RebuildStep, vars, locals
  <1>. QED BY <1>1, <1>2, <1>3, CrashRefines DEF Next, Terminated

\* Calls of the engine are linearizable, and a clean kill with the construction
\* after it loses no applied effect, for any number of threads, keys and values.
THEOREM Refinement == Spec /\ Environment => ImplementsKVStore
  <1>1. Init => SInv /\ KV!Init
    <2>. SUFFICES ASSUME Init PROVE SInv /\ KV!Init
      OBVIOUS
    <2>1. \A t \in Threads : pc[t] = "idle" /\ out[t] = << >>
      BY DEF Init, Memory, All
    <2>2. SInv
      BY <2>1 DEF Init, Memory, All, SInv, KindInv, VisitInv, ResultTypes,
                  GetPoints, VisitPoints, SyncPoints, GcPoints, CopySection,
                  SwitchSection
    <2>3. \A t \in Threads : CallOf(t) = <<"idle">>
      BY <2>1 DEF CallOf, KVIdle
    <2>. QED BY <2>2, <2>3 DEF Init, KV!Init, KV!Idle
  <1>2. IInv /\ CInv /\ SInv /\ [Next]_vars => SInv' /\ [KV!Next]_(KV!vars)
    BY NextRefines
  <1>. QED BY <1>1, <1>2, Invariance, ContentInvariance, PTL
           DEF Spec, ImplementsKVStore, KV!Spec
=============================================================================
