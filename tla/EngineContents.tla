--------------------------- MODULE EngineContents ----------------------------
(***************************************************************************)
(* What the files and the index of Engine hold, for every set of threads,  *)
(* keys and values and every size: the log replays to the store, the index *)
(* leads to the stored values, construction rebuilds that index, and the   *)
(* compacted log that _gc puts in place holds one line for each key.       *)
(*                                                                         *)
(* Two hypotheses about the environment are needed and are made explicit   *)
(* in every theorem: Fits and CleanKill.  The runs TornAppend and          *)
(* GcKillWindow show behaviours without the second.                        *)
(***************************************************************************)
EXTENDS EngineProofs

\* The offsets of both files can be represented by an int.
Fits == files["log"].len <= IntMax /\ files["log1"].len <= IntMax

\* A kill tears no line, comes not between std::remove and std::rename, and
\* leaves no bytes in log(1).
CleanKill ==
    mode # "down" /\ mode' = "down" =>
        /\ files'["log"] = files["log"]
        /\ \A t \in Threads : pc[t] # "gc_rename"
        /\ files'["log1"].len <= 0

-----------------------------------------------------------------------------
(* The inductive invariant *)

\* Lines do not overlap.
Disjoint(f) == \A o, p \in DOMAIN f.at : o < p => o + Size(f.at[o].rec) <= p

NotAt(labels) == \A t \in Threads : pc[t] \notin labels

\* Replaying the log yields the store.
LogInv ==
    NotAt({"gc_rename"}) =>
        /\ Tiled(files["log"]) /\ Disjoint(files["log"])
        /\ \A k \in Keys : Denotes(files["log"], k, store[k])

\* Offsets in the index are never mistaken for search's -1.
NatInv ==
    /\ log_offset \in Nat
    /\ \A k \in Keys : Present(k) => index[k] \in Nat

\* Between its append and its insert, put finds its line at log_offset, and
\* the log ends behind it; between its delete and its append, remove has a key
\* that is stored and not indexed.
WriteInv ==
    mode = "up" =>
      \A t \in Threads :
        /\ pc[t] = "put_index" =>
              /\ PointsTo(files["log"], log_offset, req[t].key, req[t].val)
              /\ store[req[t].key] = req[t].val
              /\ files["log"].len = log_offset + Size(PutLine(t))
        /\ pc[t] = "rm_log" =>
              /\ ~ Present(req[t].key)
              /\ store[req[t].key] # NoVal

\* log(1) holds, for every key up to the cursor of _gc, its stored value at the
\* new offset, and nothing else; its length is what _gc counts.
CopyInv ==
    \A t \in Threads :
      /\ pc[t] \in CopySection \cup SwitchSection =>
            /\ Tiled(files["log1"]) /\ Disjoint(files["log1"])
            /\ files["log1"].len = offset[t]
            /\ \A k \in Keys : Present(k) /\ k <= cursor[t] =>
                  PointsTo(files["log1"], moved[t][k], k, store[k])
            /\ \A o \in DOMAIN files["log1"].at :
                  LET k == files["log1"].at[o].rec.key
                  IN Present(k) /\ k <= cursor[t] /\ moved[t][k] = o
      /\ pc[t] \in {"gc_lock2"} \cup SwitchSection =>
            \A k \in Keys : Present(k) => k <= cursor[t]
      /\ pc[t] \in {"gc_remove", "gc_rename"} =>
            \A k \in Keys : Present(k) => index[k] = moved[t][k]
      /\ pc[t] \in {"idle", "gc", "gc_lock", "gc_shared"} => offset[t] = 0

\* No earlier _gc has left lines in log(1).
LeftInv ==
    NotAt(CopySection \cup SwitchSection) =>
        files["log1"].len <= 0 /\ DOMAIN files["log1"].at = {}

\* The index after replaying the lines of f before pos.
Replayed(f, pos, k) ==
    LET lines == {o \in DOMAIN f.at : f.at[o].rec.key = k /\ o < pos}
    IN IF lines = {} THEN ~ Present(k)
       ELSE \E o \in lines :
              /\ \A p \in lines : p <= o
              /\ IF f.at[o].rec.op = "put" THEN index[k] = o ELSE ~ Present(k)

\* rebuild_btree is at the start of a line, or at the end, and has counted
\* the bytes it has read.
ReplayInv ==
    /\ mode = "down" => index = EmptyIndex /\ log_offset = 0 /\ crash_pos = 0
    /\ mode = "rebuild" =>
          /\ files["log"] # NoFile
          /\ log_offset = crash_pos
          /\ crash_pos \in DOMAIN files["log"].at \cup {files["log"].len}
          /\ \A k \in Keys : Replayed(files["log"], crash_pos, k)

CInv == /\ LogInv /\ NatInv /\ WriteInv /\ CopyInv /\ LeftInv /\ ReplayInv
        /\ IndexSound /\ OffsetIsFileEnd /\ GetOffsetFresh
-----------------------------------------------------------------------------
(* Lines and files *)

\* A line is longer than nothing, and a put is told from a remove by its value.
LEMMA RecordFacts ==
    ASSUME NEW r \in Records
    PROVE  /\ Size(r) \in Nat /\ Size(r) > 0
           /\ r.key \in Keys /\ r.val \in Values \cup {NoVal}
           /\ r.op = "put" => r = PutRec(r.key, r.val) /\ r.val # NoVal
           /\ r.op # "put" => r.op = "rm" /\ r.val = NoVal
  <1>1. CASE \E k \in Keys, v \in Values : r = PutRec(k, v)
    BY <1>1, SizeAssumption, NoValAssumption DEF Size, HeaderSize, PutRec
  <1>2. CASE \E k \in Keys : r = RmRec(k)
    BY <1>2, SizeAssumption DEF Size, HeaderSize, RmRec
  <1>. QED BY <1>1, <1>2 DEF Records

\* The lines that put and remove build.
LEMMA LineFacts ==
    ASSUME NEW k \in Keys
    PROVE  /\ \A v \in Values : PutRec(k, v) \in Records
           /\ RmRec(k) \in Records
           /\ \A v : PutRec(k, v).key = k /\ PutRec(k, v).val = v
           /\ \A v : PutRec(k, v).op = "put"
           /\ RmRec(k).key = k /\ RmRec(k).val = NoVal
BY DEF Records, PutRec, RmRec

\* A byte count that an int can represent survives the conversion to int.
LEMMA ToIntExact ==
    ASSUME NEW n \in Nat, n <= IntMax
    PROVE  ToInt(n) = n
  <1>. DEFINE m == IntMax + 1
  <1>1. m \in Nat /\ m > 0 /\ n < m
    BY EngineAssumption
  <1>2. (n + m) % (2 * m) = n + m
    <2>. HIDE DEF m
    <2>. QED BY <1>1
  <1>. QED BY <1>1, <1>2, EngineAssumption DEF ToInt

\* Appending a whole line behind whole lines.
LEMMA AppendFacts ==
    ASSUME NEW f, IsFile(f), Tiled(f), Disjoint(f),
           NEW r \in Records, NEW g, g = AppendRec(f, r, Size(r))
    PROVE  /\ IsFile(g) /\ Tiled(g) /\ Disjoint(g)
           /\ g.len = f.len + Size(r)
           /\ DOMAIN g.at = DOMAIN f.at \cup {f.len}
           /\ f.len \notin DOMAIN f.at
           /\ HasRec(g, f.len) /\ g.at[f.len].rec = r
           /\ \A o \in DOMAIN f.at : o < f.len /\ g.at[o] = f.at[o]
  <1>1. Size(r) \in Nat /\ Size(r) > 0
    BY RecordFacts
  <1>2. /\ g.len = f.len + Size(r)
        /\ DOMAIN g.at = DOMAIN f.at \cup {f.len}
        /\ g.at[f.len] = [rec |-> r, got |-> Size(r)]
        /\ \A o \in DOMAIN f.at : o # f.len => g.at[o] = f.at[o]
    BY DEF AppendRec
  <1>3. \A o \in DOMAIN f.at : /\ o \in Nat
                               /\ f.at[o].rec \in Records
                               /\ Size(f.at[o].rec) \in Nat
                               /\ Size(f.at[o].rec) > 0
    BY RecordFacts DEF IsFile, Entry
  <1>4. f.len \in Nat /\ \A o \in DOMAIN f.at : o < f.len
    BY <1>3 DEF Tiled, IsFile
  <1>5. HasRec(g, f.len) /\ g.at[f.len].rec = r
    BY <1>2 DEF HasRec
  <1>6. IsFile(g)
    BY <1>1, AppendRecType
  <1>7. Tiled(g)
    <2>1. 0 \in DOMAIN g.at
      BY <1>2, <1>4 DEF Tiled
    <2>2. ASSUME NEW o \in DOMAIN g.at
          PROVE  /\ HasRec(g, o)
                 /\ LET end == o + Size(g.at[o].rec)
                    IN end = g.len \/ (end < g.len /\ end \in DOMAIN g.at)
      <3>1. CASE o = f.len
        BY <1>2, <1>5, <3>1
      <3>2. CASE o \in DOMAIN f.at
        <4>1. g.at[o] = f.at[o] /\ HasRec(g, o)
          BY <1>2, <1>4, <3>2 DEF Tiled, HasRec
        <4>. QED BY <1>1, <1>2, <1>3, <1>4, <3>2, <4>1 DEF Tiled
      <3>. QED BY <1>2, <3>1, <3>2
    <2>. QED BY <2>1, <2>2 DEF Tiled
  <1>8. Disjoint(g)
    <2>. SUFFICES ASSUME NEW o \in DOMAIN g.at, NEW p \in DOMAIN g.at, o < p
                  PROVE  o + Size(g.at[o].rec) <= p
      BY DEF Disjoint
    <2>1. o \in DOMAIN f.at /\ g.at[o] = f.at[o]
      BY <1>2, <1>3, <1>4
    <2>2. CASE p = f.len
      BY <1>3, <1>4, <2>1, <2>2 DEF Tiled
    <2>3. CASE p \in DOMAIN f.at
      BY <2>1, <2>3 DEF Disjoint
    <2>. QED BY <1>2, <2>2, <2>3
  <1>. QED BY <1>2, <1>4, <1>5, <1>6, <1>7, <1>8

\* The appended line decides the value of its key, and of no other.
LEMMA AppendDenotes ==
    ASSUME NEW f, IsFile(f), Tiled(f), Disjoint(f), NEW r \in Records,
           NEW k \in Keys, NEW v, Denotes(f, k, v)
    PROVE  Denotes(AppendRec(f, r, Size(r)), k, IF r.key = k THEN r.val ELSE v)
  <1>. DEFINE g == AppendRec(f, r, Size(r))
              old == {o \in DOMAIN f.at : f.at[o].rec.key = k}
              new == {o \in DOMAIN g.at : g.at[o].rec.key = k}
  <1>1. /\ DOMAIN g.at = DOMAIN f.at \cup {f.len}
        /\ f.len \notin DOMAIN f.at /\ g.at[f.len].rec = r
        /\ \A o \in DOMAIN f.at : o < f.len /\ g.at[o] = f.at[o]
    BY AppendFacts
  <1>2. f.len \in Nat /\ \A o \in DOMAIN f.at : o \in Nat
    BY DEF IsFile
  <1>. HIDE DEF g
  <1>3. CASE r.key = k
    <2>1. f.len \in new /\ \A p \in new : p <= f.len
      BY <1>1, <1>2, <1>3
    <2>. QED BY <1>1, <1>3, <2>1 DEF Denotes, g
  <1>4. CASE r.key # k
    <2>1. new = old /\ \A o \in old : g.at[o] = f.at[o]
      BY <1>1, <1>4
    <2>2. CASE old = {}
      BY <1>4, <2>1, <2>2 DEF Denotes, g
    <2>3. CASE old # {}
      <3>1. PICK o \in old : (\A p \in old : p <= o) /\ f.at[o].rec.val = v
        BY <2>3 DEF Denotes
      <3>2. o \in new /\ (\A p \in new : p <= o) /\ g.at[o].rec.val = v
        BY <2>1, <3>1
      <3>. QED BY <1>4, <3>2 DEF Denotes, g
    <2>. QED BY <2>2, <2>3
  <1>. QED BY <1>3, <1>4

\* Whole lines stay where they are.
LEMMA AppendKeeps ==
    ASSUME NEW f, IsFile(f), Tiled(f), Disjoint(f), NEW r \in Records,
           NEW o, NEW k, NEW v, PointsTo(f, o, k, v)
    PROVE  PointsTo(AppendRec(f, r, Size(r)), o, k, v)
  <1>1. o \in DOMAIN f.at
    BY DEF PointsTo, HasRec
  <1>. QED BY <1>1, AppendFacts DEF PointsTo, HasRec

\* Creating a missing file changes nothing of what it holds.
LEMMA OpenAppendFacts ==
    ASSUME NEW f, f = NoFile \/ IsFile(f)
    PROVE  /\ OpenAppend(f).at = f.at
           /\ f # NoFile => OpenAppend(f) = f
           /\ Tiled(f) => Tiled(OpenAppend(f))
           /\ Disjoint(f) => Disjoint(OpenAppend(f))
           /\ \A k, v : Denotes(f, k, v) => Denotes(OpenAppend(f), k, v)
           /\ \A o, k, v : PointsTo(f, o, k, v) => PointsTo(OpenAppend(f), o, k, v)
  <1>1. CASE f # NoFile
    BY <1>1 DEF OpenAppend
  <1>2. CASE f = NoFile
    <2>1. OpenAppend(f) = EmptyFile /\ EmptyFile.at = f.at
      BY <1>2 DEF OpenAppend, EmptyFile, NoFile
    <2>2. DOMAIN f.at = {} /\ EmptyFile.len = 0
      BY <1>2 DEF NoFile, NoLines, EmptyFile
    <2>. QED BY <1>2, <2>1, <2>2 DEF Tiled, Disjoint, Denotes, PointsTo, HasRec
  <1>. QED BY <1>1, <1>2

\* Parsing where a whole line of a tiled file starts yields that line.
LEMMA ReadLine ==
    ASSUME NEW f, IsFile(f), Tiled(f), NEW o \in DOMAIN f.at
    PROVE  /\ ReadKeyValue(f, o) = {f.at[o].rec}
           /\ f.at[o].rec \in Records
           /\ o \in Nat /\ o < f.len /\ o + Size(f.at[o].rec) <= f.len
  <1>1. o \in Nat /\ f.at[o].rec \in Records /\ HasRec(f, o) /\ f.len \in Nat
    BY DEF IsFile, Entry, Tiled
  <1>2. Size(f.at[o].rec) \in Nat /\ Size(f.at[o].rec) > 0
    BY <1>1, RecordFacts
  <1>3. o + Size(f.at[o].rec) <= f.len
    BY <1>1, <1>2 DEF Tiled
  <1>4. o < f.len
    BY <1>1, <1>2, <1>3
  <1>. QED BY <1>1, <1>3, <1>4 DEF ReadKeyValue

-----------------------------------------------------------------------------
(* Steps that change neither files nor index *)

\* Program points at which the invariant says something about the thread.
Busy == {"put_index", "rm_log", "get_read"} \cup CopySection \cup SwitchSection

\* A thread that takes no part in the step.
Stays(u) == /\ pc'[u] = pc[u] /\ req'[u] = req[u] /\ offset'[u] = offset[u]
            /\ cursor'[u] = cursor[u] /\ moved'[u] = moved[u]

\* A thread that moves between other program points, or returns from get.
Moves(u) == /\ pc[u] \notin Busy \ {"get_read"}
            /\ pc'[u] \notin Busy
            /\ pc'[u] \in {"idle", "gc", "gc_lock", "gc_shared"} =>
                  offset'[u] = 0

\* Taking and releasing locks, returning, and aborting preserve the invariant.
LEMMA QuietStep ==
    ASSUME IInv, CInv,
           UNCHANGED <<files, index, log_offset, store, crash_pos>>,
           mode' = mode \/ mode' \in Faults,
           \A u \in Threads : Stays(u) \/ Moves(u)
    PROVE  CInv'
  <1>. USE DEF CInv, Stays, Moves, Busy, CopySection, SwitchSection, Present
  <1>1. LogInv' /\ LeftInv' /\ NatInv'
    BY DEF LogInv, LeftInv, NatInv, NotAt
  <1>2. WriteInv' /\ GetOffsetFresh'
    BY DEF WriteInv, GetOffsetFresh, At, PutLine, Faults
  <1>3. CopyInv'
    BY DEF CopyInv
  <1>4. ReplayInv'
    BY DEF ReplayInv, Replayed, Faults
  <1>5. IndexSound'
    <2>1. CurrentLog' = CurrentLog
      BY DEF CurrentLog
    <2>2. \A k \in Keys : BeingWritten(k) => BeingWritten(k)'
      BY DEF BeingWritten
    <2>. QED BY <2>1, <2>2 DEF IndexSound, Faults
  <1>6. OffsetIsFileEnd'
    BY DEF OffsetIsFileEnd, Faults
  <1>. QED BY <1>1, <1>2, <1>3, <1>4, <1>5, <1>6

\* The steps of calls that only take locks, read, or return.
LEMMA ReadersKeep ==
    ASSUME IInv, CInv, NEW t \in Threads,
           \/ WriteLock(t) \/ ReadLock(t) \/ ReadLock2(t)
           \/ GetRead(t) \/ VisitOpen(t) \/ VisitStep(t) \/ VisitEnd(t)
           \/ GcDeferred(t) \/ GcLaunch(t) \/ GcLock(t) \/ Return(t)
    PROVE  CInv'
  <1>. USE DEF At, Goto, Finish, Abort, locks, locals, steady, Faults,
               Stays, Moves, Busy, CopySection, SwitchSection
  <1>1. ThreadTypes /\ CopyInv
    BY DEF IInv, TypeOK, CInv
  <1>2. CASE WriteLock(t)
    <2>1. \A u \in Threads : Stays(u) \/ Moves(u)
      BY <1>1, <1>2 DEF WriteLock, ThreadTypes
    <2>. QED BY <1>2, <2>1, QuietStep DEF WriteLock
  <1>3. CASE ReadLock(t)
    <2>1. \A u \in Threads : Stays(u) \/ Moves(u)
      BY <1>1, <1>3 DEF ReadLock, ThreadTypes
    <2>. QED BY <1>3, <2>1, QuietStep DEF ReadLock
  <1>4. CASE ReadLock2(t)
    <2>1. \A u \in Threads : Stays(u) \/ Moves(u)
      BY <1>1, <1>4 DEF ReadLock2, ThreadTypes
    <2>. QED BY <1>4, <2>1, QuietStep DEF ReadLock2
  <1>5. CASE GetRead(t)
    <2>1. \A u \in Threads : Stays(u) \/ Moves(u)
      BY <1>1, <1>5 DEF GetRead, ThreadTypes
    <2>2. mode' = mode \/ mode' \in Faults
      BY <1>5 DEF GetRead
    <2>. QED BY <1>5, <2>1, <2>2, QuietStep DEF GetRead
  <1>6. CASE VisitOpen(t)
    <2>1. \A u \in Threads : Stays(u) \/ Moves(u)
      BY <1>1, <1>6 DEF VisitOpen, ThreadTypes
    <2>. QED BY <1>6, <2>1, QuietStep DEF VisitOpen
  <1>7. CASE VisitStep(t)
    <2>1. \A u \in Threads : Stays(u) \/ Moves(u)
      BY <1>1, <1>7 DEF VisitStep, ThreadTypes
    <2>2. mode' = mode \/ mode' \in Faults
      BY <1>7 DEF VisitStep
    <2>. QED BY <1>7, <2>1, <2>2, QuietStep DEF VisitStep
  <1>8. CASE VisitEnd(t)
    <2>1. \A u \in Threads : Stays(u) \/ Moves(u)
      BY <1>1, <1>8 DEF VisitEnd, ThreadTypes
    <2>2. mode' = mode \/ mode' \in Faults
      BY <1>8 DEF VisitEnd
    <2>. QED BY <1>8, <2>1, <2>2, QuietStep DEF VisitEnd
  <1>9. CASE GcDeferred(t) \/ GcLaunch(t) \/ GcLock(t)
    <2>1. \A u \in Threads : Stays(u) \/ Moves(u)
      BY <1>1, <1>9 DEF GcDeferred, GcLaunch, GcLock, ThreadTypes, CopyInv
    <2>. QED BY <1>9, <2>1, QuietStep DEF GcDeferred, GcLaunch, GcLock
  <1>10. CASE Return(t)
    <2>1. \A u \in Threads : Stays(u) \/ Moves(u)
      BY <1>1, <1>10 DEF Return, ThreadTypes
    <2>. QED BY <1>10, <2>1, QuietStep DEF Return
  <1>. QED BY <1>2, <1>3, <1>4, <1>5, <1>6, <1>7, <1>8, <1>9, <1>10

\* A call begins.
LEMMA CallKeeps ==
    ASSUME IInv, CInv, NEW t \in Threads, NEW r \in Requests, Call(t, r)
    PROVE  CInv'
  <1>1. r.op \in {"put", "remove", "get", "visit", "sync", "gc"}
    BY EngineAssumption DEF AllRequests
  <1>2. \A u \in Threads : Stays(u) \/ Moves(u)
    BY <1>1 DEF IInv, TypeOK, ThreadTypes, CInv, CopyInv, Call, At, Goto,
                locals, Stays, Moves, Busy, CopySection, SwitchSection
  <1>. QED BY <1>2, QuietStep DEF Call

-----------------------------------------------------------------------------
(* put, remove and sync *)

\* While put, remove or sync holds _mutex, no other thread is at a point of
\* which the invariant speaks.
LEMMA WriterAlone ==
    ASSUME IInv, NEW t \in Threads, pc[t] \in WriteSection
    PROVE  \A u \in Threads : u # t => pc[u] \notin Busy
BY LocksExclude DEF Exclusion, Busy, WriteSection, ReadSection

\* What a step under the exclusive _mutex leaves alone.
LEMMA WriterFrame ==
    ASSUME IInv, CInv, NEW t \in Threads, mode = "up",
           pc[t] \in WriteSection,
           NEW label \in {"put_index", "rm_log", "return"},
           pc' = [pc EXCEPT ![t] = label],
           UNCHANGED <<mode, req, offset, cursor, moved>>,
           files'["log1"] = files["log1"]
    PROVE  /\ CopyInv' /\ LeftInv' /\ ReplayInv' /\ GetOffsetFresh'
           /\ \A u \in Threads : u # t => pc[u] \notin Busy /\ pc'[u] = pc[u]
           /\ pc'[t] = label
           /\ CurrentLog = files["log"] /\ CurrentLog' = files'["log"]
           /\ NotAt({"gc_rename"}) /\ NotAt({"gc_rename"})'
  <1>. USE DEF Busy, WriteSection, CopySection, SwitchSection
  <1>1. \A u \in Threads : u # t => pc[u] \notin Busy /\ pc'[u] = pc[u]
    BY WriterAlone DEF IInv, TypeOK, ThreadTypes
  <1>2. pc'[t] = label
    BY DEF IInv, TypeOK, ThreadTypes
  <1>3. \A u \in Threads : /\ pc[u] \notin CopySection \cup SwitchSection
                           /\ pc'[u] \notin CopySection \cup SwitchSection
                           /\ pc'[u] # "get_read"
    BY <1>1, <1>2
  <1>4. CopyInv'
    BY <1>1, <1>2, <1>3 DEF CInv, CopyInv
  <1>5. LeftInv'
    BY <1>3 DEF CInv, LeftInv, NotAt
  <1>6. ReplayInv'
    BY DEF ReplayInv
  <1>7. GetOffsetFresh'
    BY <1>3 DEF GetOffsetFresh, At
  <1>8. CurrentLog = files["log"] /\ CurrentLog' = files'["log"]
    BY <1>3 DEF CurrentLog
  <1>9. NotAt({"gc_rename"}) /\ NotAt({"gc_rename"})'
    BY <1>3 DEF NotAt
  <1>. QED BY <1>1, <1>2, <1>4, <1>5, <1>6, <1>7, <1>8, <1>9

\* A line appended to the log: what the log holds afterwards.
LEMMA LogAppend ==
    ASSUME IInv, CInv, NotAt({"gc_rename"}), NEW r \in Records,
           files' = [files EXCEPT !["log"] =
                        AppendRec(OpenAppend(@), r, Size(r))],
           store' = [store EXCEPT ![r.key] = r.val]
    PROVE  /\ LogInv'
           /\ files'["log1"] = files["log1"]
           /\ IsFile(files'["log"])
           /\ files'["log"].len = OpenAppend(files["log"]).len + Size(r)
           /\ HasRec(files'["log"], OpenAppend(files["log"]).len)
           /\ files'["log"].at[OpenAppend(files["log"]).len].rec = r
           /\ \A o, k, v : PointsTo(files["log"], o, k, v) =>
                              PointsTo(files'["log"], o, k, v)
  <1>. DEFINE f == OpenAppend(files["log"])
              g == AppendRec(f, r, Size(r))
  <1>1. files["log"] = NoFile \/ IsFile(files["log"])
    BY DEF IInv, TypeOK, FileTypes
  <1>2. files'["log"] = g /\ files'["log1"] = files["log1"]
    BY DEF IInv, TypeOK, FileTypes
  <1>3. /\ Tiled(files["log"]) /\ Disjoint(files["log"])
        /\ \A k \in Keys : Denotes(files["log"], k, store[k])
    BY DEF CInv, LogInv
  <1>4. /\ IsFile(f) /\ Tiled(f) /\ Disjoint(f)
        /\ \A k \in Keys : Denotes(f, k, store[k])
        /\ \A o, k, v : PointsTo(files["log"], o, k, v) => PointsTo(f, o, k, v)
    BY <1>1, <1>3, OpenAppendFacts, OpenAppendType
  <1>. HIDE DEF f
  <1>5. /\ IsFile(g) /\ Tiled(g) /\ Disjoint(g) /\ g.len = f.len + Size(r)
        /\ HasRec(g, f.len) /\ g.at[f.len].rec = r
    BY <1>4, AppendFacts
  <1>6. \A o, k, v : PointsTo(f, o, k, v) => PointsTo(g, o, k, v)
    BY <1>4, AppendKeeps
  <1>7. ASSUME NEW k \in Keys PROVE Denotes(g, k, store'[k])
    <2>1. Denotes(g, k, IF r.key = k THEN r.val ELSE store[k])
      BY <1>4, AppendDenotes
    <2>2. store'[k] = IF r.key = k THEN r.val ELSE store[k]
      BY DEF IInv, TypeOK, IndexTypes
    <2>. QED BY <2>1, <2>2
  <1>. HIDE DEF g
  <1>8. LogInv'
    BY <1>2, <1>5, <1>7 DEF LogInv
  <1>. QED BY <1>2, <1>4, <1>5, <1>6, <1>8 DEF f

\* put's line is in the log: its key is between log and index.
LEMMA PutLogKeeps ==
    ASSUME IInv, CInv, NEW t \in Threads, PutLog(t)
    PROVE  CInv'
  <1>. DEFINE k == req[t].key
              v == req[t].val
  <1>1. /\ mode = "up" /\ pc[t] = "put_log"
        /\ pc' = [pc EXCEPT ![t] = "put_index"]
        /\ UNCHANGED <<mode, req, offset, cursor, moved, index, log_offset>>
        /\ store' = [store EXCEPT ![k] = v]
        /\ files' = [files EXCEPT !["log"] =
                       AppendRec(OpenAppend(@), PutLine(t), Size(PutLine(t)))]
    BY DEF PutLog, At, Goto, locals
  <1>2. k \in Keys /\ v \in Values
    BY <1>1 DEF IInv, ReqInv
  <1>3. /\ PutLine(t) \in Records /\ PutLine(t) = PutRec(k, v)
        /\ PutLine(t).key = k /\ PutLine(t).val = v
    BY <1>2, LineFacts DEF PutLine
  <1>4. NotAt({"gc_rename"}) /\ files'["log1"] = files["log1"]
    BY <1>1, WriterAlone
       DEF NotAt, Busy, WriteSection, SwitchSection, IInv, TypeOK, FileTypes
  <1>5. /\ CopyInv' /\ LeftInv' /\ ReplayInv' /\ GetOffsetFresh'
        /\ \A u \in Threads : u # t => pc[u] \notin Busy /\ pc'[u] = pc[u]
        /\ pc'[t] = "put_index"
        /\ CurrentLog = files["log"] /\ CurrentLog' = files'["log"]
    BY <1>1, <1>4, WriterFrame DEF WriteSection
  <1>6. /\ LogInv'
        /\ files'["log"].len = OpenAppend(files["log"]).len + Size(PutLine(t))
        /\ HasRec(files'["log"], OpenAppend(files["log"]).len)
        /\ files'["log"].at[OpenAppend(files["log"]).len].rec = PutLine(t)
        /\ \A o, j, w : PointsTo(files["log"], o, j, w) =>
                           PointsTo(files'["log"], o, j, w)
    BY <1>1, <1>3, <1>4, LogAppend
  <1>7. log_offset = OpenAppend(files["log"]).len
    BY <1>1, <1>5 DEF CInv, OffsetIsFileEnd, Busy, SwitchSection
  <1>8. NatInv'
    BY <1>1 DEF CInv, NatInv, Present
  <1>9. WriteInv'
    <2>1. store'[k] = v
      BY <1>1, <1>2 DEF IInv, TypeOK, IndexTypes
    <2>2. PointsTo(files'["log"], log_offset, k, v)
      BY <1>3, <1>6, <1>7 DEF PointsTo
    <2>3. \A u \in Threads : pc'[u] \in {"put_index", "rm_log"} => u = t
      BY <1>5 DEF Busy
    <2>4. req' = req /\ log_offset' = log_offset /\ PutLine(t)' = PutLine(t)
      BY <1>1 DEF PutLine
    <2>. QED BY <1>5, <1>6, <1>7, <2>1, <2>2, <2>3, <2>4 DEF WriteInv
  <1>10. IndexSound'
    <2>. SUFFICES ASSUME NEW j \in Keys, ~ BeingWritten(j)'
                  PROVE  IF store'[j] = NoVal THEN ~ Present(j)'
                         ELSE Present(j)' /\
                              PointsTo(files'["log"], index[j], j, store'[j])
      BY <1>1, <1>5 DEF IndexSound
    <2>1. j # k
      BY <1>1, <1>5 DEF BeingWritten
    <2>2. store'[j] = store[j] /\ (Present(j)' <=> Present(j))
      BY <1>1, <1>2, <2>1 DEF IInv, TypeOK, IndexTypes, Present
    <2>3. ~ BeingWritten(j)
      BY <1>1, <1>5 DEF BeingWritten, Busy
    <2>4. IF store[j] = NoVal THEN ~ Present(j)
          ELSE Present(j) /\ PointsTo(files["log"], index[j], j, store[j])
      BY <1>1, <1>5, <2>3 DEF CInv, IndexSound
    <2>. QED BY <1>6, <2>2, <2>4
  <1>11. OffsetIsFileEnd'
    BY <1>5 DEF OffsetIsFileEnd
  <1>. QED BY <1>5, <1>6, <1>8, <1>9, <1>10, <1>11 DEF CInv

\* put's key takes the offset of its line, and log_offset moves behind it.
LEMMA PutIndexKeeps ==
    ASSUME IInv, CInv, Fits, NEW t \in Threads, PutIndex(t)
    PROVE  CInv'
  <1>. DEFINE k == req[t].key
              v == req[t].val
  <1>1. mode = "up" /\ pc[t] = "put_index"
    BY DEF PutIndex, At
  <1>2. k \in Keys /\ v \in Values /\ PutLine(t) \in Records
    BY <1>1, LineFacts DEF IInv, ReqInv, PutLine
  <1>3. ~ Aliased(k)
    BY <1>2 DEF CInv, NatInv, Aliased, Search
  <1>4. /\ index' = [index EXCEPT ![k] = log_offset]
        /\ log_offset' = ToInt(log_offset + Size(PutLine(t)))
        /\ pc' = [pc EXCEPT ![t] = "return"]
        /\ UNCHANGED <<mode, req, offset, cursor, moved, files, store>>
    BY <1>3 DEF PutIndex, Finish, Goto, locals
  <1>5. /\ CopyInv' /\ LeftInv' /\ ReplayInv' /\ GetOffsetFresh'
        /\ \A u \in Threads : u # t => pc[u] \notin Busy /\ pc'[u] = pc[u]
        /\ pc'[t] = "return"
        /\ CurrentLog = files["log"] /\ CurrentLog' = files'["log"]
        /\ NotAt({"gc_rename"})
    BY <1>1, <1>4, WriterFrame DEF WriteSection
  <1>6. /\ PointsTo(files["log"], log_offset, k, v)
        /\ store[k] = v
        /\ files["log"].len = log_offset + Size(PutLine(t))
    BY <1>1 DEF CInv, WriteInv
  <1>7. log_offset \in Nat /\ Size(PutLine(t)) \in Nat
    BY <1>2, RecordFacts DEF CInv, NatInv
  <1>8. log_offset' = files["log"].len /\ log_offset' \in Nat
    BY <1>4, <1>6, <1>7, ToIntExact DEF Fits
  <1>9. LogInv'
    BY <1>4, <1>5 DEF CInv, LogInv
  <1>10. NatInv'
    BY <1>4, <1>7, <1>8 DEF CInv, NatInv, Present, IInv, TypeOK, IndexTypes
  <1>11. WriteInv'
    BY <1>5 DEF WriteInv, Busy
  <1>12. IndexSound'
    <2>. SUFFICES ASSUME NEW j \in Keys
                  PROVE  IF store[j] = NoVal THEN ~ Present(j)'
                         ELSE Present(j)' /\
                              PointsTo(files["log"], index'[j], j, store[j])
      BY <1>4, <1>5 DEF IndexSound
    <2>1. CASE j = k
      <3>1. index'[j] = log_offset /\ log_offset # Absent
        BY <1>2, <1>4, <1>7, <2>1, EngineAssumption DEF IInv, TypeOK, IndexTypes
      <3>2. store[j] # NoVal
        BY <1>2, <1>6, <2>1, NoValAssumption
      <3>. QED BY <1>6, <2>1, <3>1, <3>2 DEF Present
    <2>2. CASE j # k
      <3>1. index'[j] = index[j]
        BY <1>4, <2>2 DEF IInv, TypeOK, IndexTypes
      <3>2. ~ BeingWritten(j)
        BY <1>5, <2>2 DEF BeingWritten, Busy
      <3>. QED BY <1>1, <1>5, <3>1, <3>2 DEF CInv, IndexSound, Present
    <2>. QED BY <2>1, <2>2
  <1>13. OffsetIsFileEnd'
    <2>1. files["log"] # NoFile
      BY <1>6 DEF PointsTo, HasRec, NoFile, NoLines
    <2>. QED BY <1>4, <1>8, <2>1 DEF OffsetIsFileEnd, OpenAppend
  <1>. QED BY <1>5, <1>9, <1>10, <1>11, <1>12, <1>13 DEF CInv

\* remove takes a stored key out of the index, or finds it absent.
LEMMA RmIndexKeeps ==
    ASSUME IInv, CInv, NEW t \in Threads, RmIndex(t)
    PROVE  CInv'
  <1>. DEFINE k == req[t].key
  <1>1. /\ mode = "up" /\ pc[t] = "rm_index" /\ k \in Keys
        /\ UNCHANGED <<mode, req, offset, cursor, moved, files, store,
                       log_offset, crash_pos>>
    BY DEF RmIndex, At, locals, steady, IInv, ReqInv
  <1>2. CASE Search(k) = -1
    <2>1. \A u \in Threads : Stays(u) \/ Moves(u)
      BY <1>1, <1>2 DEF RmIndex, Finish, Goto, IInv, TypeOK, ThreadTypes,
                        Stays, Moves, Busy, CopySection, SwitchSection
    <2>. QED BY <1>1, <1>2, <2>1, QuietStep DEF RmIndex
  <1>3. CASE Search(k) # -1
    <2>1. /\ index' = [index EXCEPT ![k] = Absent]
          /\ pc' = [pc EXCEPT ![t] = "rm_log"]
      BY <1>3 DEF RmIndex, Goto
    <2>2. /\ CopyInv' /\ LeftInv' /\ ReplayInv' /\ GetOffsetFresh'
          /\ \A u \in Threads : u # t => pc[u] \notin Busy /\ pc'[u] = pc[u]
          /\ pc'[t] = "rm_log"
          /\ CurrentLog = files["log"] /\ CurrentLog' = files'["log"]
          /\ NotAt({"gc_rename"})
      BY <1>1, <2>1, WriterFrame DEF WriteSection
    <2>3. ~ BeingWritten(k) /\ Present(k)
      BY <1>1, <1>3, <2>2 DEF BeingWritten, Busy, Search
    <2>4. store[k] # NoVal
      BY <1>1, <2>3 DEF CInv, IndexSound
    <2>5. LogInv' /\ NatInv'
      BY <1>1, <2>1, <2>2
         DEF CInv, LogInv, NatInv, Present, IInv, TypeOK, IndexTypes
    <2>6. WriteInv'
      BY <1>1, <2>1, <2>2, <2>4
         DEF WriteInv, Busy, Present, IInv, TypeOK, IndexTypes
    <2>7. IndexSound'
      <3>. SUFFICES ASSUME NEW j \in Keys, ~ BeingWritten(j)'
                    PROVE  IF store[j] = NoVal THEN ~ Present(j)'
                           ELSE Present(j)' /\
                                PointsTo(files["log"], index'[j], j, store[j])
        BY <1>1, <2>2 DEF IndexSound
      <3>1. j # k
        BY <1>1, <2>2 DEF BeingWritten
      <3>2. index'[j] = index[j]
        BY <2>1, <3>1 DEF IInv, TypeOK, IndexTypes
      <3>3. ~ BeingWritten(j)
        BY <1>1, <2>2 DEF BeingWritten, Busy
      <3>. QED BY <1>1, <2>2, <3>2, <3>3 DEF CInv, IndexSound, Present
    <2>8. OffsetIsFileEnd'
      BY <1>1, <2>2 DEF CInv, OffsetIsFileEnd, Busy, SwitchSection
    <2>. QED BY <2>2, <2>5, <2>6, <2>7, <2>8 DEF CInv
  <1>. QED BY <1>2, <1>3

\* remove's line is in the log, and log_offset moves behind it.
LEMMA RmLogKeeps ==
    ASSUME IInv, CInv, Fits', NEW t \in Threads, RmLog(t)
    PROVE  CInv'
  <1>. DEFINE k == req[t].key
              r == RmRec(k)
              f == OpenAppend(files["log"])
  <1>1. /\ mode = "up" /\ pc[t] = "rm_log"
        /\ pc' = [pc EXCEPT ![t] = "return"]
        /\ UNCHANGED <<mode, req, offset, cursor, moved, index>>
        /\ store' = [store EXCEPT ![k] = NoVal]
        /\ log_offset' = ToInt(log_offset + Size(r))
        /\ files' = [files EXCEPT !["log"] = AppendRec(OpenAppend(@), r, Size(r))]
    BY DEF RmLog, At, Finish, Goto, locals
  <1>2. k \in Keys /\ r \in Records /\ r.key = k /\ r.val = NoVal
    BY <1>1, LineFacts DEF IInv, ReqInv
  <1>. HIDE DEF r
  <1>3. NotAt({"gc_rename"}) /\ files'["log1"] = files["log1"]
    BY <1>1, WriterAlone
       DEF NotAt, Busy, WriteSection, SwitchSection, IInv, TypeOK, FileTypes
  <1>4. /\ CopyInv' /\ LeftInv' /\ ReplayInv' /\ GetOffsetFresh'
        /\ \A u \in Threads : u # t => pc[u] \notin Busy /\ pc'[u] = pc[u]
        /\ pc'[t] = "return"
        /\ CurrentLog = files["log"] /\ CurrentLog' = files'["log"]
    BY <1>1, <1>3, WriterFrame DEF WriteSection
  <1>5. /\ LogInv' /\ IsFile(files'["log"])
        /\ files'["log"].len = f.len + Size(r)
        /\ HasRec(files'["log"], f.len)
        /\ \A o, j, w : PointsTo(files["log"], o, j, w) =>
                           PointsTo(files'["log"], o, j, w)
    BY <1>1, <1>2, <1>3, LogAppend
  <1>6. log_offset = f.len /\ log_offset \in Nat
    BY <1>1, <1>4 DEF CInv, OffsetIsFileEnd, NatInv, Busy, SwitchSection
  <1>7. Size(r) \in Nat
    BY <1>2, RecordFacts
  <1>8. log_offset' = files'["log"].len /\ log_offset' \in Nat
    BY <1>1, <1>5, <1>6, <1>7, ToIntExact DEF Fits
  <1>9. NatInv'
    BY <1>1, <1>8 DEF CInv, NatInv, Present
  <1>10. WriteInv'
    BY <1>4 DEF WriteInv, Busy
  <1>11. IndexSound'
    <2>. SUFFICES ASSUME NEW j \in Keys
                  PROVE  IF store'[j] = NoVal THEN ~ Present(j)
                         ELSE Present(j) /\
                              PointsTo(files'["log"], index[j], j, store'[j])
      BY <1>1, <1>4 DEF IndexSound, Present
    <2>1. CASE j = k
      BY <1>1, <1>2, <2>1 DEF CInv, WriteInv, IInv, TypeOK, IndexTypes
    <2>2. CASE j # k
      <3>1. store'[j] = store[j] /\ ~ BeingWritten(j)
        BY <1>1, <1>4, <2>2 DEF IInv, TypeOK, IndexTypes, BeingWritten, Busy
      <3>. QED BY <1>1, <1>4, <1>5, <3>1 DEF CInv, IndexSound
    <2>. QED BY <2>1, <2>2
  <1>12. OffsetIsFileEnd'
    <2>1. files'["log"] # NoFile
      BY <1>5 DEF HasRec, NoFile, NoLines
    <2>. QED BY <1>8, <2>1 DEF OffsetIsFileEnd, OpenAppend
  <1>. QED BY <1>4, <1>5, <1>9, <1>10, <1>11, <1>12 DEF CInv

\* sync at most creates an empty log.
LEMMA SyncFileKeeps ==
    ASSUME IInv, CInv, NEW t \in Threads, SyncFile(t)
    PROVE  CInv'
  <1>1. /\ mode = "up" /\ pc[t] = "sync_file"
        /\ pc' = [pc EXCEPT ![t] = "return"]
        /\ UNCHANGED <<mode, req, offset, cursor, moved, index, log_offset,
                       store>>
    BY DEF SyncFile, At, Finish, Goto, locals
  <1>2. /\ files'["log"] = OpenAppend(files["log"])
        /\ files'["log1"] = files["log1"]
        /\ files["log"] = NoFile \/ IsFile(files["log"])
    BY DEF SyncFile, IInv, TypeOK, FileTypes
  <1>3. /\ CopyInv' /\ LeftInv' /\ ReplayInv' /\ GetOffsetFresh'
        /\ \A u \in Threads : u # t => pc[u] \notin Busy /\ pc'[u] = pc[u]
        /\ pc'[t] = "return"
        /\ CurrentLog = files["log"] /\ CurrentLog' = files'["log"]
        /\ NotAt({"gc_rename"})
    BY <1>1, <1>2, WriterFrame DEF WriteSection
  <1>4. LogInv'
    BY <1>1, <1>2, <1>3, OpenAppendFacts DEF CInv, LogInv
  <1>5. NatInv' /\ WriteInv'
    BY <1>1, <1>3 DEF CInv, NatInv, WriteInv, Present, Busy
  <1>6. IndexSound'
    <2>1. \A k \in Keys : ~ BeingWritten(k)
      BY <1>1, <1>3 DEF BeingWritten, Busy
    <2>. QED BY <1>1, <1>2, <1>3, <2>1, OpenAppendFacts
             DEF CInv, IndexSound, Present
  <1>7. OffsetIsFileEnd'
    <2>1. log_offset = OpenAppend(files["log"]).len
      BY <1>1, <1>3 DEF CInv, OffsetIsFileEnd, Busy, SwitchSection
    <2>2. OpenAppend(OpenAppend(files["log"])) = OpenAppend(files["log"])
      BY DEF OpenAppend
    <2>. QED BY <1>1, <1>2, <2>1, <2>2 DEF OffsetIsFileEnd
  <1>. QED BY <1>3, <1>4, <1>5, <1>6, <1>7 DEF CInv

\* get fetches an offset that leads to the value of its key.
LEMMA GetSearchKeeps ==
    ASSUME IInv, CInv, NEW t \in Threads, GetSearch(t)
    PROVE  CInv'
  <1>. DEFINE k == req[t].key
  <1>1. /\ mode = "up" /\ pc[t] = "get_search" /\ k \in Keys
        /\ UNCHANGED <<mode, req, cursor, moved, files, store, index,
                       log_offset, crash_pos>>
    BY DEF GetSearch, At, steady, IInv, ReqInv
  <1>2. CASE Search(k) = -1
    <2>1. \A u \in Threads : Stays(u) \/ Moves(u)
      BY <1>1, <1>2 DEF GetSearch, Finish, Goto, IInv, TypeOK, ThreadTypes,
                        Stays, Moves, Busy, CopySection, SwitchSection
    <2>. QED BY <1>1, <1>2, <2>1, QuietStep DEF GetSearch
  <1>3. CASE Search(k) # -1
    <2>1. /\ offset' = [offset EXCEPT ![t] = Search(k)]
          /\ pc' = [pc EXCEPT ![t] = "get_read"]
      BY <1>3 DEF GetSearch, Goto
    <2>2. /\ \A u \in Threads : u # t => pc'[u] = pc[u] /\ offset'[u] = offset[u]
          /\ pc'[t] = "get_read" /\ offset'[t] = Search(k)
      BY <2>1 DEF IInv, TypeOK, ThreadTypes
    <2>3. \A u \in Threads : pc[u] \notin WriteSection \cup SwitchSection
      BY <1>1, LocksExclude
         DEF Exclusion, WriteSection, ReadSection, SwitchSection
    <2>4. Present(k) /\ Search(k) = index[k] /\ ~ BeingWritten(k)
      BY <1>3, <2>3 DEF Search, BeingWritten, WriteSection
    <2>5. CurrentLog = files["log"]
      BY <2>3 DEF CurrentLog, SwitchSection
    <2>6. PointsTo(files["log"], index[k], k, store[k])
      BY <1>1, <2>4, <2>5 DEF CInv, IndexSound
    <2>7. LogInv' /\ LeftInv' /\ NatInv'
      BY <1>1, <2>2 DEF CInv, LogInv, LeftInv, NatInv, NotAt, Present,
                        CopySection, SwitchSection
    <2>8. WriteInv' /\ GetOffsetFresh'
      BY <1>1, <2>2, <2>4, <2>6
         DEF CInv, WriteInv, GetOffsetFresh, At, PutLine, Present
    <2>9. CopyInv'
      BY <1>1, <2>2 DEF CInv, CopyInv, Present, CopySection, SwitchSection
    <2>10. ReplayInv'
      BY <1>1 DEF ReplayInv
    <2>11. IndexSound'
      <3>1. CurrentLog' = CurrentLog
        BY <1>1, <2>2 DEF CurrentLog
      <3>2. \A j \in Keys : BeingWritten(j)' <=> BeingWritten(j)
        BY <1>1, <2>2 DEF BeingWritten
      <3>. QED BY <1>1, <3>1, <3>2 DEF CInv, IndexSound, Present
    <2>12. OffsetIsFileEnd'
      BY <1>1, <2>2 DEF CInv, OffsetIsFileEnd
    <2>. QED BY <2>7, <2>8, <2>9, <2>10, <2>11, <2>12 DEF CInv
  <1>. QED BY <1>2, <1>3

-----------------------------------------------------------------------------
(* garbage_collect *)

\* What a step of _gc that writes neither the log nor its offset leaves alone.
LEMMA GcFrame ==
    ASSUME IInv, CInv, NEW t \in Threads, mode = "up",
           pc[t] \in {"gc_shared"} \cup CopySection \cup SwitchSection,
           NEW label \in CopySection \cup SwitchSection,
           pc'[t] = label,
           \A u \in Threads : u # t => pc'[u] = pc[u],
           UNCHANGED <<mode, req, index, log_offset, store>>,
           files'["log"] = files["log"],
           \A u \in Threads : u # t => offset'[u] = offset[u],
           pc[t] \notin {"gc_remove", "gc_rename"},
           label \notin {"gc_remove", "gc_rename"}
    PROVE  /\ LogInv' /\ NatInv' /\ WriteInv' /\ LeftInv' /\ ReplayInv'
           /\ IndexSound' /\ OffsetIsFileEnd' /\ GetOffsetFresh'
  <1>. USE DEF CopySection, SwitchSection, CInv, Present
  <1>1. LogInv' /\ NatInv' /\ LeftInv'
    BY DEF LogInv, NatInv, LeftInv, NotAt
  <1>2. WriteInv' /\ GetOffsetFresh'
    BY DEF WriteInv, GetOffsetFresh, At, PutLine
  <1>3. ReplayInv'
    BY DEF ReplayInv
  <1>4. IndexSound'
    <2>1. \A u \in Threads : pc[u] \notin {"gc_remove", "gc_rename"}
      BY DEF IInv, LockInv
    <2>2. CurrentLog = files["log"] /\ CurrentLog' = files'["log"]
      BY <2>1 DEF CurrentLog
    <2>3. \A k \in Keys : BeingWritten(k)' <=> BeingWritten(k)
      BY DEF BeingWritten
    <2>. QED BY <2>2, <2>3 DEF IndexSound
  <1>5. OffsetIsFileEnd'
    BY DEF OffsetIsFileEnd
  <1>. QED BY <1>1, <1>2, <1>3, <1>4, <1>5

\* While one _gc runs, no other thread is in _gc.
LEMMA GcAlone ==
    ASSUME IInv, NEW t \in Threads,
           pc[t] \in {"gc_shared"} \cup CopySection \cup SwitchSection
    PROVE  \A u \in Threads : u # t =>
               pc[u] \notin {"gc_shared"} \cup CopySection \cup SwitchSection
BY DEF IInv, LockInv

\* _gc starts with an empty log(1) and a count of 0.
LEMMA GcSharedKeeps ==
    ASSUME IInv, CInv, NEW t \in Threads, GcShared(t)
    PROVE  CInv'
  <1>1. /\ mode = "up" /\ pc[t] = "gc_shared"
        /\ pc' = [pc EXCEPT ![t] = "gc_copy"]
        /\ UNCHANGED <<mode, req, offset, cursor, moved, index, log_offset,
                       store>>
    BY DEF GcShared, At, Goto, locals
  <1>2. files'["log"] = files["log"] /\ files'["log1"] = OpenAppend(files["log1"])
    BY DEF GcShared, IInv, TypeOK, FileTypes
  <1>3. pc'[t] = "gc_copy" /\ \A u \in Threads : u # t => pc'[u] = pc[u]
    BY <1>1 DEF IInv, TypeOK, ThreadTypes
  <1>4. \A u \in Threads : u # t => pc[u] \notin CopySection \cup SwitchSection
    BY <1>1, GcAlone
  <1>5. /\ LogInv' /\ NatInv' /\ WriteInv' /\ LeftInv' /\ ReplayInv'
        /\ IndexSound' /\ OffsetIsFileEnd' /\ GetOffsetFresh'
    BY <1>1, <1>2, <1>3, GcFrame DEF CopySection
  <1>6. offset[t] = 0 /\ cursor[t] = -1
    BY <1>1 DEF CInv, CopyInv, IInv, GcInv
  <1>7. /\ files'["log1"].len = 0 /\ DOMAIN files'["log1"].at = {}
    <2>1. files["log1"].len <= 0 /\ DOMAIN files["log1"].at = {}
      BY <1>1, <1>4 DEF CInv, LeftInv, NotAt, CopySection, SwitchSection
    <2>2. CASE files["log1"] = NoFile
      BY <1>2, <2>2 DEF OpenAppend, EmptyFile, NoLines
    <2>3. CASE files["log1"] # NoFile
      BY <1>2, <2>1, <2>3 DEF OpenAppend, IInv, TypeOK, FileTypes, IsFile
    <2>. QED BY <2>2, <2>3
  <1>8. Tiled(files'["log1"]) /\ Disjoint(files'["log1"])
    BY <1>7 DEF Tiled, Disjoint
  <1>9. \A k \in Keys : ~ (k <= cursor[t])
    BY <1>6, KeysAssumption
  <1>10. CopyInv'
    BY <1>1, <1>3, <1>4, <1>6, <1>7, <1>8, <1>9
       DEF CInv, CopyInv, Present, CopySection, SwitchSection
  <1>. QED BY <1>5, <1>10 DEF CInv

\* The chain is exhausted, and _mutex2 is taken: log(1) holds every key.
LEMMA GcClosesKeep ==
    ASSUME IInv, CInv, NEW t \in Threads, GcClose(t) \/ GcLock2(t)
    PROVE  CInv'
  <1>1. /\ mode = "up" /\ pc[t] \in CopySection
        /\ UNCHANGED <<req, offset, cursor, moved, index, log_offset, store,
                       files, crash_pos>>
    BY DEF GcClose, GcLock2, At, locals, steady, CopySection
  <1>2. CASE pc' = pc
    BY <1>1, <1>2, QuietStep
       DEF GcClose, GcLock2, Abort, Goto, Stays, Faults, IInv, TypeOK,
           ThreadTypes, CopySection
  <1>3. ASSUME NEW label \in {"gc_lock2", "gc_reindex"},
               pc' = [pc EXCEPT ![t] = label], mode' = mode,
               pc[t] = "gc_copy" => \A k \in Keys : Present(k) => k <= cursor[t]
        PROVE  CInv'
    <2>1. pc'[t] = label /\ \A u \in Threads : u # t => pc'[u] = pc[u]
      BY <1>3 DEF IInv, TypeOK, ThreadTypes
    <2>2. \A u \in Threads : u # t => pc[u] \notin CopySection \cup SwitchSection
      BY <1>1, GcAlone
    <2>3. /\ LogInv' /\ NatInv' /\ WriteInv' /\ LeftInv' /\ ReplayInv'
          /\ IndexSound' /\ OffsetIsFileEnd' /\ GetOffsetFresh'
      BY <1>1, <1>3, <2>1, GcFrame DEF CopySection, SwitchSection
    <2>4. CopyInv'
      BY <1>1, <1>3, <2>1, <2>2, SMTT(20)
         DEF CInv, CopyInv, Present, CopySection, SwitchSection
    <2>. QED BY <2>3, <2>4 DEF CInv
  <1>4. GcClose(t) => \A k \in Keys : Present(k) => k <= cursor[t]
    BY KeysAssumption DEF GcClose, IInv, TypeOK, ThreadTypes
  <1>5. CASE GcClose(t)
    BY <1>2, <1>3, <1>4, <1>5 DEF GcClose, Goto
  <1>6. CASE GcLock2(t)
    BY <1>2, <1>3, <1>6 DEF GcLock2, Goto, At
  <1>. QED BY <1>5, <1>6

\* While get or visit reads, or _gc copies, every key in the index leads to a
\* whole put line of the stored value: writers wait, and the index describes
\* the log.
LEMMA KeyReads ==
    ASSUME IInv, CInv, mode = "up",
           NEW t \in Threads, pc[t] \in ReadSection \cup CopySection,
           NEW k \in Keys, Present(k)
    PROVE  /\ PointsTo(files["log"], index[k], k, store[k])
           /\ store[k] \in Values /\ index[k] \in Nat /\ IsFile(files["log"])
           /\ \A pos : Seek(pos, index[k]) = index[k]
           /\ ReadKeyValue(files["log"], index[k]) = {PutRec(k, store[k])}
  <1>1. \A u \in Threads : /\ pc[u] \notin WriteSection
                           /\ pc[u] \notin SwitchSection
    BY LocksExclude DEF Exclusion, ReadSection, CopySection, WriteSection,
                        SwitchSection
  <1>2. CurrentLog = files["log"] /\ ~ BeingWritten(k)
    BY <1>1 DEF CurrentLog, BeingWritten, WriteSection, SwitchSection
  <1>3. store[k] # NoVal /\ PointsTo(files["log"], index[k], k, store[k])
    BY <1>2 DEF CInv, IndexSound
  <1>4. store[k] \in Values
    BY <1>3 DEF IInv, TypeOK, IndexTypes
  <1>5. index[k] \in Nat
    BY DEF CInv, NatInv
  <1>6. IsFile(files["log"]) /\ Tiled(files["log"])
    BY <1>1, <1>3 DEF PointsTo, HasRec, NoFile, NoLines, IInv, TypeOK,
                      FileTypes, CInv, LogInv, NotAt, SwitchSection
  <1>7. ReadKeyValue(files["log"], index[k]) = {PutRec(k, store[k])}
    BY <1>3, <1>6, ReadLine DEF PointsTo, HasRec
  <1>. QED BY <1>3, <1>4, <1>5, <1>6, <1>7 DEF Seek

\* One turn of the copy loop.
LEMMA GcCopyKeeps ==
    ASSUME IInv, CInv, NEW t \in Threads, GcCopy(t)
    PROVE  CInv'
  <1>1. /\ mode = "up" /\ pc[t] = "gc_copy"
        /\ UNCHANGED <<pc, req, index, log_offset, store, crash_pos>>
    BY DEF GcCopy, At, steady
  <1>2. CASE /\ UNCHANGED <<files, offset, cursor, fpos, moved>>
             /\ mode' \in Faults
    BY <1>1, <1>2, QuietStep DEF Stays
  <1>3. ASSUME NEW k \in NextKey(cursor[t]),
               NEW line \in ReadKeyValue(files["log"], Seek(fpos[t], index[k])),
               files' = [files EXCEPT !["log1"] =
                            AppendRec(@, line, Size(line))],
               moved' = [moved EXCEPT ![t][k] = offset[t]],
               offset' = [offset EXCEPT ![t] = @ + Size(line)],
               cursor' = [cursor EXCEPT ![t] = k],
               mode' = mode
        PROVE  CInv'
    <2>. DEFINE f == files["log1"]
                g == files'["log1"]
    <2>1. /\ k \in Keys /\ Present(k) /\ k > cursor[t]
          /\ \A j \in Keys : Present(j) /\ j > cursor[t] => k <= j
      BY <1>3 DEF NextKey
    <2>2. line = PutRec(k, store[k]) /\ store[k] \in Values
      BY <1>1, <1>3, <2>1, KeyReads DEF CopySection
    <2>3. line \in Records /\ line.key = k
      BY <2>1, <2>2, LineFacts
    <2>4. files'["log"] = files["log"] /\ g = AppendRec(f, line, Size(line))
      BY <1>3 DEF IInv, TypeOK, FileTypes
    <2>5. /\ IsFile(f) /\ Tiled(f) /\ Disjoint(f) /\ f.len = offset[t]
          /\ \A j \in Keys : Present(j) /\ j <= cursor[t] =>
                PointsTo(f, moved[t][j], j, store[j])
          /\ \A o \in DOMAIN f.at :
                LET j == f.at[o].rec.key
                IN Present(j) /\ j <= cursor[t] /\ moved[t][j] = o
      BY <1>1 DEF CInv, CopyInv, IInv, GcInv, CopySection
    <2>6. /\ Tiled(g) /\ Disjoint(g) /\ g.len = f.len + Size(line)
          /\ DOMAIN g.at = DOMAIN f.at \cup {f.len}
          /\ HasRec(g, f.len) /\ g.at[f.len].rec = line
          /\ \A o \in DOMAIN f.at : g.at[o] = f.at[o]
      BY <2>3, <2>4, <2>5, AppendFacts
    <2>7. /\ cursor'[t] = k /\ offset'[t] = offset[t] + Size(line)
          /\ moved'[t][k] = offset[t]
          /\ \A j \in Keys : j # k => moved'[t][j] = moved[t][j]
          /\ \A u \in Threads : u # t => offset'[u] = offset[u]
      BY <1>3, <2>1 DEF IInv, TypeOK, ThreadTypes
    <2>8. \A u \in Threads : u # t => pc[u] \notin CopySection \cup SwitchSection
      BY <1>1, GcAlone DEF CopySection
    <2>9. /\ LogInv' /\ NatInv' /\ WriteInv' /\ LeftInv' /\ ReplayInv'
          /\ IndexSound' /\ OffsetIsFileEnd' /\ GetOffsetFresh'
      BY <1>1, <1>3, <2>4, <2>7, GcFrame DEF CopySection
    <2>10. ASSUME NEW j \in Keys, Present(j), j <= k
           PROVE  PointsTo(g, moved'[t][j], j, store[j])
      <3>1. CASE j = k
        BY <2>2, <2>5, <2>6, <2>7, <3>1 DEF PointsTo
      <3>2. CASE j # k
        <4>1. j <= cursor[t]
          BY <2>1, <2>10, <3>2, KeysAssumption DEF IInv, TypeOK, ThreadTypes
        <4>2. PointsTo(f, moved[t][j], j, store[j])
          BY <2>5, <2>10, <4>1
        <4>. QED BY <2>3, <2>4, <2>5, <2>7, <3>2, <4>2, AppendKeeps
      <3>. QED BY <3>1, <3>2
    <2>11. ASSUME NEW o \in DOMAIN g.at
           PROVE  LET j == g.at[o].rec.key
                  IN Present(j) /\ j <= k /\ moved'[t][j] = o
      <3>1. CASE o = f.len
        BY <2>1, <2>3, <2>5, <2>6, <2>7, <3>1, KeysAssumption, SMTT(20)
      <3>2. CASE o \in DOMAIN f.at
        <4>. DEFINE j == g.at[o].rec.key
        <4>1. j = f.at[o].rec.key /\ j \in Keys
          BY <2>5, <2>6, <3>2, RecordFacts DEF IsFile, Entry
        <4>2. Present(j) /\ j <= cursor[t] /\ moved[t][j] = o
          BY <2>5, <3>2, <4>1
        <4>3. j <= k /\ j # k
          BY <2>1, <4>1, <4>2, KeysAssumption DEF IInv, TypeOK, ThreadTypes
        <4>. QED BY <2>7, <4>1, <4>2, <4>3
      <3>. QED BY <2>6, <3>1, <3>2
    <2>12. CopyInv'
      <3>1. pc' = pc /\ index' = index /\ store' = store
        BY <1>1
      <3>2. /\ Tiled(g) /\ Disjoint(g) /\ g.len = offset'[t]
            /\ \A j \in Keys : Present(j) /\ j <= cursor'[t] =>
                  PointsTo(g, moved'[t][j], j, store[j])
            /\ \A o \in DOMAIN g.at :
                  LET j == g.at[o].rec.key
                  IN Present(j) /\ j <= cursor'[t] /\ moved'[t][j] = o
        BY <2>5, <2>6, <2>7, <2>10, <2>11
      <3>3. \A u \in Threads : pc[u] \in {"idle", "gc", "gc_lock", "gc_shared"} =>
               offset'[u] = 0
        BY <1>1, <2>7 DEF CInv, CopyInv
      <3>. QED BY <1>1, <2>8, <3>1, <3>2, <3>3
               DEF CopyInv, CopySection, SwitchSection, Present
    <2>. QED BY <2>9, <2>12 DEF CInv
  <1>4. PICK k \in NextKey(cursor[t]) :
          \/ /\ UNCHANGED <<files, offset, cursor, fpos, moved>>
             /\ mode' \in Faults
          \/ \E line \in ReadKeyValue(files["log"], Seek(fpos[t], index[k])) :
               /\ files' = [files EXCEPT !["log1"] =
                               AppendRec(@, line, Size(line))]
               /\ moved' = [moved EXCEPT ![t][k] = offset[t]]
               /\ offset' = [offset EXCEPT ![t] = @ + Size(line)]
               /\ cursor' = [cursor EXCEPT ![t] = k]
               /\ mode' = mode
    BY DEF GcCopy, Abort, Faults
  <1>. QED BY <1>2, <1>3, <1>4

\* Under _mutex2 every key takes its offset in log(1).
LEMMA GcReindexKeeps ==
    ASSUME IInv, CInv, Fits, NEW t \in Threads, GcReindex(t)
    PROVE  CInv'
  <1>. DEFINE g == files["log1"]
  <1>1. /\ mode = "up" /\ pc[t] = "gc_reindex"
        /\ UNCHANGED <<mode, req, offset, cursor, moved, files, store,
                       log_offset>>
        /\ index' = [k \in Keys |->
                       IF Present(k) THEN ToInt(moved[t][k]) ELSE Absent]
        /\ pc' = [pc EXCEPT ![t] = "gc_remove"]
    BY DEF GcReindex, At, Goto, locals
  <1>2. pc'[t] = "gc_remove" /\ \A u \in Threads : u # t => pc'[u] = pc[u]
    BY <1>1 DEF IInv, TypeOK, ThreadTypes
  <1>3. \A u \in Threads : u # t =>
           pc[u] \notin WriteSection \cup ReadSection
                        \cup CopySection \cup SwitchSection
    BY <1>1, LocksExclude DEF Exclusion, SwitchSection
  <1>4. /\ IsFile(g) /\ Tiled(g) /\ g.len <= IntMax
        /\ \A k \in Keys : Present(k) =>
              k <= cursor[t] /\ PointsTo(g, moved[t][k], k, store[k])
    BY <1>1 DEF CInv, CopyInv, IInv, GcInv, SwitchSection, Fits
  <1>5. ASSUME NEW k \in Keys, Present(k)
        PROVE  moved[t][k] \in Nat /\ index'[k] = moved[t][k] /\ Present(k)'
    <2>1. moved[t][k] \in DOMAIN g.at
      BY <1>4, <1>5 DEF PointsTo, HasRec
    <2>2. moved[t][k] \in Nat /\ moved[t][k] <= IntMax
      BY <1>4, <2>1, ReadLine, EngineAssumption DEF IsFile
    <2>. QED BY <1>1, <1>5, <2>2, ToIntExact, EngineAssumption DEF Present
  <1>6. \A k \in Keys : ~ Present(k) => ~ Present(k)'
    BY <1>1 DEF Present
  <1>7. LogInv' /\ NatInv' /\ LeftInv'
    BY <1>1, <1>2, <1>5, <1>6
       DEF CInv, LogInv, NatInv, LeftInv, NotAt, SwitchSection
  <1>8. WriteInv' /\ GetOffsetFresh' /\ ReplayInv'
    BY <1>1, <1>2, <1>3 DEF WriteInv, GetOffsetFresh, ReplayInv, At,
                            WriteSection, ReadSection
  <1>9. CopyInv'
    <2>1. \A k \in Keys : Present(k)' <=> Present(k)
      BY <1>5, <1>6
    <2>2. \A o \in DOMAIN g.at : g.at[o].rec.key \in Keys
      BY <1>4, RecordFacts DEF IsFile, Entry
    <2>. QED BY <1>1, <1>2, <1>3, <1>5, <2>1, <2>2
             DEF CInv, CopyInv, CopySection, SwitchSection
  <1>10. IndexSound'
    <2>1. CurrentLog = files["log"] /\ CurrentLog' = files["log1"]
      BY <1>1, <1>2, <1>3 DEF CurrentLog, SwitchSection
    <2>2. \A k \in Keys : ~ BeingWritten(k)
      BY <1>1, <1>3 DEF BeingWritten, WriteSection
    <2>. QED BY <1>1, <1>4, <1>5, <1>6, <2>1, <2>2 DEF CInv, IndexSound
  <1>11. OffsetIsFileEnd'
    BY <1>1, <1>2 DEF CInv, OffsetIsFileEnd
  <1>. QED BY <1>7, <1>8, <1>9, <1>10, <1>11 DEF CInv

\* The old log is gone: the index describes log(1) alone.
LEMMA GcRemoveKeeps ==
    ASSUME IInv, CInv, NEW t \in Threads, GcRemove(t)
    PROVE  CInv'
  <1>1. /\ mode = "up" /\ pc[t] = "gc_remove"
        /\ UNCHANGED <<mode, req, offset, cursor, moved, store, index,
                       log_offset>>
        /\ files'["log1"] = files["log1"]
        /\ pc' = [pc EXCEPT ![t] = "gc_rename"]
    BY DEF GcRemove, At, Goto, locals, IInv, TypeOK, FileTypes
  <1>2. pc'[t] = "gc_rename" /\ \A u \in Threads : u # t => pc'[u] = pc[u]
    BY <1>1 DEF IInv, TypeOK, ThreadTypes
  <1>3. \A u \in Threads : u # t =>
           pc[u] \notin WriteSection \cup ReadSection
                        \cup CopySection \cup SwitchSection
    BY <1>1, LocksExclude DEF Exclusion, SwitchSection
  <1>4. LogInv' /\ NatInv' /\ LeftInv'
    BY <1>1, <1>2
       DEF CInv, LogInv, NatInv, LeftInv, NotAt, SwitchSection, Present
  <1>5. WriteInv' /\ GetOffsetFresh' /\ ReplayInv'
    BY <1>1, <1>2, <1>3 DEF WriteInv, GetOffsetFresh, ReplayInv, At,
                            WriteSection, ReadSection
  <1>6. CopyInv'
    BY <1>1, <1>2, <1>3
       DEF CInv, CopyInv, Present, CopySection, SwitchSection
  <1>7. IndexSound'
    <2>1. CurrentLog = files["log1"] /\ CurrentLog' = files["log1"]
      BY <1>1, <1>2 DEF CurrentLog
    <2>2. \A k \in Keys : ~ BeingWritten(k)
      BY <1>1, <1>3 DEF BeingWritten, WriteSection
    <2>. QED BY <1>1, <2>1, <2>2 DEF CInv, IndexSound, Present
  <1>8. OffsetIsFileEnd'
    BY <1>2 DEF OffsetIsFileEnd
  <1>. QED BY <1>4, <1>5, <1>6, <1>7, <1>8 DEF CInv

\* The rename puts log(1) in place: it replays to the store.
LEMMA GcRenameKeeps ==
    ASSUME IInv, CInv, Fits, NEW t \in Threads, GcRename(t)
    PROVE  CInv'
  <1>. DEFINE g == files["log1"]
  <1>1. /\ mode = "up" /\ pc[t] = "gc_rename"
        /\ UNCHANGED <<mode, req, offset, cursor, moved, store, index>>
        /\ log_offset' = ToInt(offset[t])
        /\ files'["log"] = g /\ files'["log1"] = NoFile
        /\ pc' = [pc EXCEPT ![t] = "return"]
    BY DEF GcRename, At, Finish, Goto, locals, IInv, TypeOK, FileTypes
  <1>2. pc'[t] = "return" /\ \A u \in Threads : u # t => pc'[u] = pc[u]
    BY <1>1 DEF IInv, TypeOK, ThreadTypes
  <1>3. \A u \in Threads : u # t =>
           pc[u] \notin WriteSection \cup ReadSection
                        \cup CopySection \cup SwitchSection
    BY <1>1, LocksExclude DEF Exclusion, SwitchSection
  <1>4. /\ IsFile(g) /\ Tiled(g) /\ Disjoint(g) /\ g.len <= IntMax
        /\ g.len = offset[t]
        /\ \A o \in DOMAIN g.at :
              LET k == g.at[o].rec.key IN Present(k) /\ moved[t][k] = o
        /\ \A k \in Keys : Present(k) => index[k] = moved[t][k]
    BY <1>1 DEF CInv, CopyInv, IInv, GcInv, SwitchSection, Fits
  <1>5. ASSUME NEW k \in Keys
        PROVE  IF store[k] = NoVal THEN ~ Present(k)
               ELSE Present(k) /\ PointsTo(g, index[k], k, store[k])
    <2>1. ~ BeingWritten(k)
      BY <1>1, <1>3 DEF BeingWritten, WriteSection
    <2>2. CurrentLog = g
      BY <1>1 DEF CurrentLog
    <2>. QED BY <1>1, <2>1, <2>2 DEF CInv, IndexSound
  <1>6. ASSUME NEW k \in Keys PROVE Denotes(g, k, store[k])
    <2>. DEFINE lines == {o \in DOMAIN g.at : g.at[o].rec.key = k}
    <2>1. CASE store[k] = NoVal
      <3>1. lines = {}
        BY <1>4, <1>5, <2>1
      <3>. QED BY <2>1, <3>1 DEF Denotes
    <2>2. CASE store[k] # NoVal
      <3>1. /\ index[k] \in lines /\ g.at[index[k]].rec.val = store[k]
            /\ index[k] \in Nat
        BY <1>4, <1>5, <2>2, LineFacts DEF PointsTo, HasRec, IsFile
      <3>2. \A p \in lines : p = index[k]
        BY <1>4
      <3>3. \A p \in lines : p <= index[k]
        BY <3>1, <3>2
      <3>. QED BY <3>1, <3>3 DEF Denotes
    <2>. QED BY <2>1, <2>2
  <1>7. log_offset' = g.len /\ g.len \in Nat
    BY <1>1, <1>4, ToIntExact DEF IsFile
  <1>8. LogInv' /\ NatInv' /\ LeftInv'
    BY <1>1, <1>4, <1>6, <1>7
       DEF CInv, LogInv, NatInv, LeftInv, Present, NoFile, NoLines
  <1>9. WriteInv' /\ GetOffsetFresh' /\ ReplayInv'
    BY <1>1, <1>2, <1>3 DEF WriteInv, GetOffsetFresh, ReplayInv, At,
                            WriteSection, ReadSection
  <1>10. CopyInv'
    BY <1>1, <1>2, <1>3
       DEF CInv, CopyInv, Present, CopySection, SwitchSection
  <1>11. IndexSound'
    <2>1. CurrentLog' = g
      BY <1>1, <1>2, <1>3 DEF CurrentLog, SwitchSection
    <2>. QED BY <1>1, <1>5, <2>1 DEF IndexSound, Present
  <1>12. OffsetIsFileEnd'
    <2>1. g # NoFile
      BY <1>4 DEF IsFile, NoFile
    <2>. QED BY <1>1, <1>7, <2>1 DEF OffsetIsFileEnd, OpenAppend
  <1>. QED BY <1>8, <1>9, <1>10, <1>11, <1>12 DEF CInv

-----------------------------------------------------------------------------
(* Kill and construction *)

\* A file without bytes has no lines.
LEMMA EmptyLog1 ==
    ASSUME IInv, CInv, files["log1"].len <= 0
    PROVE  DOMAIN files["log1"].at = {}
  <1>1. CASE NotAt(CopySection \cup SwitchSection)
    BY <1>1 DEF CInv, LeftInv
  <1>2. CASE \E t \in Threads : pc[t] \in CopySection \cup SwitchSection
    <2>1. IsFile(files["log1"]) /\ Tiled(files["log1"])
      BY <1>2 DEF CInv, CopyInv, IInv, GcInv
    <2>2. ASSUME NEW o \in DOMAIN files["log1"].at PROVE FALSE
      <3>1. o \in Nat /\ o < files["log1"].len /\ files["log1"].len \in Nat
        BY <2>1, ReadLine DEF IsFile
      <3>. QED BY <3>1
    <2>. QED BY <2>2
  <1>. QED BY <1>1, <1>2 DEF NotAt

\* A kill that leaves the log alone and nothing in log(1).
LEMMA CrashKeeps ==
    ASSUME IInv, CInv, Crash, CleanKill
    PROVE  CInv'
  <1>1. /\ mode # "down" /\ mode' = "down" /\ store' = store
        /\ index' = EmptyIndex /\ log_offset' = 0 /\ crash_pos' = 0
        /\ \A t \in Threads : pc'[t] = "idle" /\ offset'[t] = 0
    BY DEF Crash, Kill, MemoryLost, All
  <1>2. /\ files'["log"] = files["log"] /\ files'["log1"].len <= 0
        /\ NotAt({"gc_rename"})
    BY <1>1 DEF CleanKill, NotAt
  <1>3. DOMAIN files'["log1"].at = {}
    <2>1. CASE files'["log1"] = files["log1"]
      BY <1>2, <2>1, EmptyLog1
    <2>2. ASSUME NEW n \in Int, files'["log1"] = Truncate(files["log1"], n),
                 NEW t \in Threads, pc[t] = "gc_copy"
          PROVE  DOMAIN files'["log1"].at = {}
      <3>1. IsFile(files["log1"])
        BY <2>2 DEF IInv, GcInv, CopySection
      <3>2. n <= 0
        BY <1>2, <2>2 DEF Truncate
      <3>. QED BY <2>2, <3>1, <3>2 DEF Truncate, IsFile
    <2>3. CASE files' \in BlocksWritten
      <3>1. CASE ~ \E t \in Threads : pc[t] = "gc_copy"
        BY <2>1, <2>3, <3>1 DEF BlocksWritten
      <3>2. CASE \E t \in Threads : pc[t] = "gc_copy"
        <4>1. PICK t \in Threads : pc[t] = "gc_copy"
          BY <3>2
        <4>2. files["log1"].len \in Nat
          BY <4>1 DEF IInv, GcInv, CopySection, IsFile
        <4>3. PICK blocks \in 0..(files["log1"].len \div StdioBuf) :
                 files' = [files EXCEPT !["log1"] =
                              Truncate(@, blocks * StdioBuf)]
          BY <2>3, <3>2 DEF BlocksWritten
        <4>4. blocks * StdioBuf \in Int
          BY EngineAssumption
        <4>5. files'["log1"] = Truncate(files["log1"], blocks * StdioBuf)
          BY <4>3 DEF IInv, TypeOK, FileTypes
        <4>. QED BY <2>2, <4>1, <4>4, <4>5
      <3>. QED BY <3>1, <3>2
    <2>4. CASE files' \in LineTorn
      <3>1. files'["log1"] = files["log1"]
        BY <2>4 DEF LineTorn, IInv, TypeOK, FileTypes
      <3>. QED BY <2>1, <3>1
    <2>. QED BY <2>3, <2>4 DEF Crash
  <1>4. LogInv' /\ LeftInv'
    BY <1>1, <1>2, <1>3 DEF CInv, LogInv, LeftInv
  <1>5. NatInv' /\ WriteInv' /\ ReplayInv'
    BY <1>1 DEF NatInv, WriteInv, ReplayInv, Present, EmptyIndex
  <1>6. CopyInv'
    BY <1>1 DEF CopyInv, CopySection, SwitchSection
  <1>7. IndexSound' /\ OffsetIsFileEnd' /\ GetOffsetFresh'
    BY <1>1 DEF IndexSound, OffsetIsFileEnd, GetOffsetFresh, At
  <1>. QED BY <1>4, <1>5, <1>6, <1>7 DEF CInv

\* Construction finds no log, hence an empty store, or starts to replay it.
LEMMA OpenKeeps ==
    ASSUME IInv, CInv, Open
    PROVE  CInv'
  <1>1. /\ mode = "down"
        /\ mode' = IF files["log"] = NoFile THEN "up" ELSE "rebuild"
        /\ UNCHANGED <<files, index, log_offset, crash_pos, pc, req, offset,
                       cursor, moved, store>>
        /\ index = EmptyIndex /\ log_offset = 0 /\ crash_pos = 0
        /\ \A t \in Threads : pc[t] = "idle"
    BY DEF Open, locals, steady, CInv, ReplayInv, IInv, BootInv
  <1>2. \A k \in Keys : ~ Present(k)
    BY <1>1 DEF Present, EmptyIndex
  <1>3. Tiled(files["log"]) /\ \A k \in Keys : Denotes(files["log"], k, store[k])
    BY <1>1 DEF CInv, LogInv, NotAt
  <1>4. LogInv' /\ LeftInv' /\ NatInv' /\ CopyInv'
    BY <1>1 DEF CInv, LogInv, LeftInv, NatInv, CopyInv, NotAt, Present
  <1>5. WriteInv' /\ GetOffsetFresh'
    BY <1>1 DEF WriteInv, GetOffsetFresh, At
  <1>6. CASE files["log"] = NoFile
    <2>1. ASSUME NEW k \in Keys PROVE store[k] = NoVal
      <3>1. {o \in DOMAIN files["log"].at : files["log"].at[o].rec.key = k} = {}
        BY <1>6 DEF NoFile, NoLines
      <3>. QED BY <1>3, <3>1 DEF Denotes
    <2>2. IndexSound'
      BY <1>1, <1>2, <2>1 DEF IndexSound, Present
    <2>3. OffsetIsFileEnd' /\ ReplayInv'
      BY <1>1, <1>6 DEF OffsetIsFileEnd, ReplayInv, OpenAppend, EmptyFile
    <2>. QED BY <1>4, <1>5, <2>2, <2>3 DEF CInv
  <1>7. CASE files["log"] # NoFile
    <2>1. IsFile(files["log"])
      BY <1>7 DEF IInv, TypeOK, FileTypes
    <2>2. 0 \in DOMAIN files["log"].at \cup {files["log"].len}
      BY <1>3, <2>1 DEF Tiled, IsFile
    <2>3. ASSUME NEW k \in Keys PROVE Replayed(files["log"], 0, k)
      <3>1. {o \in DOMAIN files["log"].at :
               files["log"].at[o].rec.key = k /\ o < 0} = {}
        BY <2>1 DEF IsFile
      <3>. QED BY <1>2, <3>1 DEF Replayed
    <2>4. ReplayInv'
      BY <1>1, <1>7, <2>2, <2>3 DEF ReplayInv, Replayed, Present
    <2>5. IndexSound' /\ OffsetIsFileEnd'
      BY <1>1, <1>7 DEF IndexSound, OffsetIsFileEnd
    <2>. QED BY <1>4, <1>5, <2>4, <2>5 DEF CInv
  <1>. QED BY <1>6, <1>7

\* What rebuild_btree meets: a whole line where one starts, else the end.
LEMMA RebuildReads ==
    ASSUME IInv, CInv, mode = "rebuild"
    PROVE  /\ IsFile(files["log"]) /\ Tiled(files["log"])
           /\ Disjoint(files["log"])
           /\ \A k \in Keys : Denotes(files["log"], k, store[k])
           /\ crash_pos \in DOMAIN files["log"].at =>
                 ReadKeyValue(files["log"], crash_pos) =
                    {files["log"].at[crash_pos].rec}
           /\ crash_pos \notin DOMAIN files["log"].at =>
                 /\ crash_pos = files["log"].len
                 /\ ReadKeyValue(files["log"], crash_pos) = {Fail}
  <1>1. \A t \in Threads : pc[t] = "idle"
    BY DEF IInv, BootInv
  <1>2. /\ IsFile(files["log"]) /\ Tiled(files["log"])
        /\ Disjoint(files["log"])
        /\ \A k \in Keys : Denotes(files["log"], k, store[k])
    BY <1>1 DEF CInv, ReplayInv, LogInv, NotAt, IInv, TypeOK, FileTypes
  <1>3. crash_pos \in DOMAIN files["log"].at =>
           ReadKeyValue(files["log"], crash_pos) =
              {files["log"].at[crash_pos].rec}
    BY <1>2, ReadLine
  <1>4. crash_pos \notin DOMAIN files["log"].at =>
           /\ crash_pos = files["log"].len
           /\ ReadKeyValue(files["log"], crash_pos) = {Fail}
    BY <1>2 DEF CInv, ReplayInv, ReadKeyValue, IsFile
  <1>. QED BY <1>2, <1>3, <1>4

\* At the end of the log the replayed index holds exactly the store.
LEMMA ReplayComplete ==
    ASSUME IInv, CInv, mode = "rebuild",
           crash_pos \notin DOMAIN files["log"].at, NEW k \in Keys
    PROVE  IF store[k] = NoVal THEN ~ Present(k)
           ELSE Present(k) /\ PointsTo(files["log"], index[k], k, store[k])
  <1>. DEFINE f == files["log"]
              lines == {o \in DOMAIN f.at : f.at[o].rec.key = k}
              before == {o \in DOMAIN f.at : f.at[o].rec.key = k /\ o < crash_pos}
  <1>1. /\ IsFile(f) /\ Tiled(f) /\ Denotes(f, k, store[k])
        /\ crash_pos = f.len
    BY RebuildReads
  <1>2. Replayed(f, crash_pos, k)
    BY DEF CInv, ReplayInv
  <1>3. \A o \in DOMAIN f.at : o < crash_pos /\ o \in Nat
    BY <1>1, ReadLine
  <1>4. before = lines
    BY <1>3
  <1>5. CASE lines = {}
    BY <1>1, <1>2, <1>4, <1>5 DEF Denotes, Replayed
  <1>6. CASE lines # {}
    <2>1. PICK o \in lines : (\A p \in lines : p <= o) /\ f.at[o].rec.val = store[k]
      BY <1>1, <1>6 DEF Denotes
    <2>2. PICK q \in lines :
             /\ \A p \in lines : p <= q
             /\ IF f.at[q].rec.op = "put" THEN index[k] = q ELSE ~ Present(k)
      BY <1>2, <1>4, <1>6 DEF Replayed
    <2>3. o = q /\ q \in Nat
      BY <1>3, <2>1, <2>2
    <2>4. f.at[q].rec \in Records /\ HasRec(f, q)
      BY <1>1, ReadLine DEF Tiled
    <2>5. CASE f.at[q].rec.op = "put"
      <3>1. /\ f.at[q].rec = PutRec(k, store[k]) /\ store[k] # NoVal
        BY <2>1, <2>3, <2>4, <2>5, RecordFacts
      <3>2. Present(k) /\ index[k] = q
        BY <2>2, <2>3, <2>5, EngineAssumption DEF Present
      <3>. QED BY <2>4, <3>1, <3>2 DEF PointsTo
    <2>6. CASE f.at[q].rec.op # "put"
      BY <2>1, <2>2, <2>3, <2>4, <2>6, RecordFacts
    <2>. QED BY <2>5, <2>6
  <1>. QED BY <1>5, <1>6

\* One turn of rebuild_btree replays one line.
LEMMA RebuildLineKeeps ==
    ASSUME IInv, CInv, Fits, RebuildStep,
           NEW line \in ReadKeyValue(files["log"], crash_pos),
           RebuildLine(line)
    PROVE  CInv'
  <1>. DEFINE f == files["log"]
  <1>1. /\ mode = "rebuild" /\ mode' = mode
        /\ UNCHANGED <<files, pc, req, offset, cursor, moved, store>>
        /\ \A t \in Threads : pc[t] = "idle"
    BY DEF RebuildStep, RebuildLine, locals, IInv, BootInv
  <1>2. /\ IsFile(f) /\ Tiled(f) /\ Disjoint(f)
        /\ crash_pos \in DOMAIN f.at /\ line = f.at[crash_pos].rec
    BY <1>1, RebuildReads DEF RebuildLine, Fail
  <1>3. /\ line \in Records /\ crash_pos \in Nat
        /\ crash_pos + Size(line) <= f.len
    BY <1>2, ReadLine
  <1>4. /\ Size(line) \in Nat /\ Size(line) > 0 /\ line.key \in Keys
        /\ line.op # "put" => line.op = "rm"
    BY <1>3, RecordFacts
  <1>5. log_offset = crash_pos /\ f # NoFile /\ f.len <= IntMax
    BY <1>1 DEF CInv, ReplayInv, Fits
  <1>6. crash_pos' = crash_pos + Size(line) /\ log_offset' = crash_pos'
    <2>1. crash_pos + Size(line) \in Nat /\ crash_pos + Size(line) <= IntMax
      BY <1>2, <1>3, <1>4, <1>5, EngineAssumption DEF IsFile
    <2>2. ToInt(crash_pos + Size(line)) = crash_pos + Size(line)
      BY <2>1, ToIntExact
    <2>. QED BY <1>5, <2>2 DEF RebuildLine
  <1>7. index' = [index EXCEPT ![line.key] =
                    IF line.op = "put" THEN crash_pos ELSE Absent]
    <2>1. Search(line.key) = -1 => index[line.key] = Absent
      BY <1>4 DEF Search, Present, CInv, NatInv
    <2>. QED BY <1>5, <2>1 DEF RebuildLine
  <1>8. /\ \A k \in Keys : k # line.key => index'[k] = index[k]
        /\ line.op = "put" => index'[line.key] = crash_pos
        /\ line.op # "put" => index'[line.key] = Absent
    BY <1>4, <1>7 DEF IInv, TypeOK, IndexTypes
  <1>9. crash_pos' \in DOMAIN f.at \cup {f.len}
    BY <1>2, <1>6 DEF Tiled
  <1>10. ASSUME NEW k \in Keys PROVE Replayed(f, crash_pos, k)'
    <2>. DEFINE old == {o \in DOMAIN f.at : f.at[o].rec.key = k /\ o < crash_pos}
                new == {o \in DOMAIN f.at : f.at[o].rec.key = k /\ o < crash_pos'}
    <2>1. \A o \in DOMAIN f.at : o \in Nat
      BY <1>2 DEF IsFile
    <2>2. \A o \in DOMAIN f.at : o < crash_pos' <=> o < crash_pos \/ o = crash_pos
      BY <1>2, <1>3, <1>4, <1>6, <2>1 DEF Disjoint
    <2>3. Replayed(f, crash_pos, k)
      BY <1>1 DEF CInv, ReplayInv
    <2>4. f' = f
      BY <1>1
    <2>5. CASE k = line.key
      <3>1. crash_pos \in new /\ \A p \in new : p <= crash_pos
        BY <1>2, <1>3, <2>1, <2>2, <2>5
      <3>. QED BY <1>2, <1>8, <2>4, <2>5, <3>1 DEF Replayed, Present
    <2>6. CASE k # line.key
      <3>1. new = old /\ index'[k] = index[k]
        BY <1>2, <1>8, <2>2, <2>6
      <3>. QED BY <2>3, <2>4, <3>1 DEF Replayed, Present
    <2>. QED BY <2>5, <2>6
  <1>11. LogInv' /\ LeftInv'
    BY <1>1 DEF CInv, LogInv, LeftInv, NotAt
  <1>12. NatInv'
    BY <1>3, <1>4, <1>6, <1>8 DEF CInv, NatInv, Present
  <1>13. CopyInv'
    BY <1>1 DEF CInv, CopyInv, CopySection, SwitchSection
  <1>14. ReplayInv'
    BY <1>1, <1>5, <1>6, <1>9, <1>10 DEF ReplayInv
  <1>15. WriteInv' /\ IndexSound' /\ OffsetIsFileEnd' /\ GetOffsetFresh'
    BY <1>1 DEF WriteInv, IndexSound, OffsetIsFileEnd, GetOffsetFresh, At
  <1>. QED BY <1>11, <1>12, <1>13, <1>14, <1>15 DEF CInv

\* rebuild_btree goes on, ends at the end of the log, or aborts.
LEMMA RebuildKeeps ==
    ASSUME IInv, CInv, Fits, RebuildStep
    PROVE  CInv'
  <1>1. PICK line \in ReadKeyValue(files["log"], crash_pos) :
          \/ RebuildLine(line)
          \/ /\ \/ line.op = "fail" /\ mode' = "up"
                \/ mode' \in Faults
             /\ UNCHANGED <<index, log_offset, crash_pos>>
    BY DEF RebuildStep, Abort, Faults
  <1>2. CASE RebuildLine(line)
    BY <1>2, RebuildLineKeeps
  <1>3. CASE mode' \in Faults /\ UNCHANGED <<index, log_offset, crash_pos>>
    <2>1. \A u \in Threads : Stays(u)
      BY DEF RebuildStep, locals, Stays
    <2>. QED BY <1>3, <2>1, QuietStep DEF RebuildStep
  <1>4. CASE /\ line.op = "fail" /\ mode' = "up"
             /\ UNCHANGED <<index, log_offset, crash_pos>>
    <2>1. /\ mode = "rebuild"
          /\ UNCHANGED <<files, pc, req, offset, cursor, moved, store>>
          /\ \A t \in Threads : pc[t] = "idle"
      BY DEF RebuildStep, locals, IInv, BootInv
    <2>2. /\ crash_pos \notin DOMAIN files["log"].at
          /\ crash_pos = files["log"].len
      <3>1. CASE crash_pos \in DOMAIN files["log"].at
        <4>1. line \in Records
          BY <1>1, <2>1, <3>1, RebuildReads, ReadLine
        <4>. QED BY <1>4, <4>1, RecordFacts
      <3>. QED BY <2>1, <3>1, RebuildReads
    <2>3. \A k \in Keys :
             IF store[k] = NoVal THEN ~ Present(k)
             ELSE Present(k) /\ PointsTo(files["log"], index[k], k, store[k])
      BY <2>1, <2>2, ReplayComplete
    <2>4. IndexSound'
      <3>1. CurrentLog' = files["log"]
        BY <2>1 DEF CurrentLog
      <3>. QED BY <1>4, <2>1, <2>3, <3>1 DEF IndexSound, Present
    <2>5. OffsetIsFileEnd'
      BY <1>4, <2>1, <2>2 DEF OffsetIsFileEnd, OpenAppend, CInv, ReplayInv
    <2>6. LogInv' /\ LeftInv'
      BY <2>1 DEF CInv, LogInv, LeftInv, NotAt
    <2>7. NatInv'
      BY <1>4 DEF CInv, NatInv, Present
    <2>8. CopyInv'
      BY <2>1 DEF CInv, CopyInv, CopySection, SwitchSection
    <2>9. WriteInv' /\ ReplayInv' /\ GetOffsetFresh'
      BY <1>4, <2>1 DEF WriteInv, ReplayInv, GetOffsetFresh, At
    <2>. QED BY <2>4, <2>5, <2>6, <2>7, <2>8, <2>9 DEF CInv
  <1>. QED BY <1>1, <1>2, <1>3, <1>4

-----------------------------------------------------------------------------
(* The theorems *)

\* Nothing is stored and nothing is written when the first process starts.
LEMMA InitContents ==
    ASSUME Init
    PROVE  CInv
  <1>. USE DEF Init, Memory, All
  <1>1. /\ files["log"] \in {NoFile, EmptyFile} /\ files["log1"] = NoFile
        /\ \A f \in {"log", "log1"} : DOMAIN files[f].at = {}
        /\ files["log"].len <= 0
        /\ \A t \in Threads : pc[t] = "idle"
    BY DEF NoFile, EmptyFile, NoLines
  <1>2. LogInv
    <2>1. Tiled(files["log"]) /\ Disjoint(files["log"])
      BY <1>1 DEF Tiled, Disjoint, EmptyFile, NoFile
    <2>2. ASSUME NEW k \in Keys PROVE Denotes(files["log"], k, store[k])
      <3>1. {o \in DOMAIN files["log"].at : files["log"].at[o].rec.key = k} = {}
        BY <1>1
      <3>. QED BY <3>1 DEF Denotes
    <2>. QED BY <2>1, <2>2 DEF LogInv
  <1>3. LeftInv
    BY <1>1 DEF LeftInv, NoFile
  <1>4. NatInv /\ WriteInv /\ ReplayInv
    BY DEF NatInv, WriteInv, ReplayInv, Present, EmptyIndex
  <1>5. CopyInv
    BY <1>1 DEF CopyInv, CopySection, SwitchSection
  <1>6. IndexSound /\ OffsetIsFileEnd /\ GetOffsetFresh
    BY DEF IndexSound, OffsetIsFileEnd, GetOffsetFresh, At
  <1>. QED BY <1>2, <1>3, <1>4, <1>5, <1>6 DEF CInv

\* Every step preserves the invariant, if offsets fit and kills are clean.
LEMMA NextContents ==
    ASSUME IInv, CInv, Fits, Fits', [Next]_vars, Crash => CleanKill
    PROVE  CInv'
  <1>1. CASE \E t \in Threads : \E r \in Requests : Call(t, r)
    BY <1>1, CallKeeps
  <1>2. ASSUME NEW t \in Threads, Step(t) PROVE CInv'
    BY <1>2, ReadersKeep, PutLogKeeps, PutIndexKeeps, RmIndexKeeps, RmLogKeeps,
       SyncFileKeeps, GetSearchKeeps, GcSharedKeeps, GcClosesKeep,
       GcCopyKeeps, GcReindexKeeps, GcRemoveKeeps, GcRenameKeeps
       DEF Step
  <1>3. CASE UNCHANGED vars
    <2>1. \A u \in Threads : Stays(u)
      BY <1>3 DEF vars, locals, Stays
    <2>2. UNCHANGED <<files, index, log_offset, store, crash_pos, mode>>
      BY <1>3 DEF vars, steady
    <2>. QED BY <2>1, <2>2, QuietStep
  <1>4. CASE Crash
    BY <1>4, CrashKeeps
  <1>5. CASE Open \/ RebuildStep
    BY <1>5, OpenKeeps, RebuildKeeps
  <1>. QED BY <1>1, <1>2, <1>3, <1>4, <1>5 DEF Next, Terminated

\* The environment that the engine needs: offsets that fit an int, and kills
\* that tear no line and spare the last phase of _gc.
Environment == []Fits /\ [][CleanKill]_vars

\* In that environment the contents of files and index agree with the store at
\* every moment.
THEOREM ContentInvariance == Spec /\ Environment => []CInv
  <1>1. Init => CInv
    BY InitContents
  <1>2. IInv /\ CInv /\ Fits /\ Fits' /\ [Next]_vars /\ [CleanKill]_vars => CInv'
    <2>1. Crash => ~ UNCHANGED vars
      BY DEF Crash, Kill, vars
    <2>. QED BY <2>1, NextContents
  <1>. QED BY <1>1, <1>2, Invariance, PTL DEF Spec, Environment

\* The index leads every stored key to a whole line with its value, and no
\* other key is found (BTree search in get, visit, remove and _gc).
THEOREM IndexCorrect == Spec /\ Environment => []IndexSound
  <1>1. CInv => IndexSound
    BY DEF CInv
  <1>. QED BY <1>1, ContentInvariance, PTL

\* log_offset, which put hands to the index, is where fopen("a+") appends.
THEOREM OffsetCorrect == Spec /\ Environment => []OffsetIsFileEnd
  <1>1. CInv => OffsetIsFileEnd
    BY DEF CInv
  <1>. QED BY <1>1, ContentInvariance, PTL

\* The offset that get fetched is never stale when get reads the log.
THEOREM GetReadsFresh == Spec /\ Environment => []GetOffsetFresh
  <1>1. CInv => GetOffsetFresh
    BY DEF CInv
  <1>. QED BY <1>1, ContentInvariance, PTL

\* Outside the remove/rename window of _gc the log replays to the store.
THEOREM LogReplays == Spec /\ Environment => []LogRecoverable
  <1>1. CInv => LogRecoverable
    BY DEF CInv, LogInv, LogRecoverable, NotAt
  <1>. QED BY <1>1, ContentInvariance, PTL

\* Between calls exactly the stored keys are found: the promise of sync() that
\* GcKillWindow refutes holds when no kill falls into the window.
THEOREM StoredKeysFound == Spec /\ Environment => []Persistent
  <1>1. CInv => Persistent
    BY DEF CInv, IndexSound, Persistent, BeingWritten
  <1>. QED BY <1>1, ContentInvariance, PTL

\* rebuild_btree ends with an index of exactly the store.
THEOREM RecoveryCorrect == Spec /\ Environment => RecoveryExact
  <1>. DEFINE Exact ==
         mode = "rebuild" /\ mode' = "up" =>
           \A k \in Keys :
              IF store[k] = NoVal
              THEN index'[k] = Absent
              ELSE /\ index'[k] # Absent
                   /\ PointsTo(files["log"], index'[k], k, store[k])
  <1>1. IInv /\ CInv /\ [Next]_vars => [Exact]_vars
    <2>. SUFFICES ASSUME IInv, CInv, Next, mode = "rebuild", mode' = "up",
                         NEW k \in Keys
                  PROVE  IF store[k] = NoVal
                         THEN index'[k] = Absent
                         ELSE /\ index'[k] # Absent
                              /\ PointsTo(files["log"], index'[k], k, store[k])
      OBVIOUS
    <2>1. RebuildStep
      <3>1. ~ \E t \in Threads : (\E r \in Requests : Call(t, r)) \/ Step(t)
        BY DEF Call, Step, At, WriteLock, ReadLock, ReadLock2, PutLog, PutIndex,
               RmIndex, RmLog, GetSearch, GetRead, VisitOpen, VisitStep,
               VisitEnd, SyncFile, GcDeferred, GcLaunch, GcLock, GcShared,
               GcCopy, GcClose, GcLock2, GcReindex, GcRemove, GcRename, Return
      <3>2. ~ Crash /\ ~ Open
        BY DEF Crash, Kill, Open
      <3>3. ~ Terminated
        BY DEF Terminated, vars
      <3>. QED BY <3>1, <3>2, <3>3 DEF Next
    <2>2. PICK line \in ReadKeyValue(files["log"], crash_pos) :
             line.op = "fail" /\ index' = index
      BY <2>1 DEF RebuildStep, RebuildLine, Abort
    <2>3. crash_pos \notin DOMAIN files["log"].at
      <3>. SUFFICES ASSUME crash_pos \in DOMAIN files["log"].at PROVE FALSE
        OBVIOUS
      <3>1. line \in Records
        BY <2>2, RebuildReads, ReadLine
      <3>. QED BY <2>2, <3>1, RecordFacts
    <2>. QED BY <2>2, <2>3, ReplayComplete DEF Present
  <1>. QED BY <1>1, Invariance, ContentInvariance, PTL DEF Spec, RecoveryExact

\* The log that _gc puts in place has for each stored key exactly one line, with
\* the value stored, and no line of any other key.
THEOREM GcCorrect == Spec /\ Environment => GcCompacts
  <1>. DEFINE Compacts ==
         \A t \in Threads :
           pc[t] = "gc_rename" /\ pc'[t] = "return" => Compact(files'["log"])
  <1>1. IInv /\ CInv /\ [Next]_vars => [Compacts]_vars
    <2>. SUFFICES ASSUME IInv, CInv, Next, NEW t \in Threads,
                         pc[t] = "gc_rename", pc'[t] = "return"
                  PROVE  Compact(files'["log"])
      OBVIOUS
    <2>. DEFINE g == files["log1"]
    <2>1. mode = "up" /\ files'["log"] = g
      <3>1. CASE GcRename(t)
        BY <3>1 DEF GcRename, At, IInv, TypeOK, FileTypes
      <3>2. ~ Crash /\ ~ Open /\ ~ RebuildStep /\ ~ Terminated
        BY DEF Crash, Kill, MemoryLost, All, Open, RebuildStep, Terminated, vars
      <3>3. \A u \in Threads : u # t => ~ Step(u) /\ \A r \in Requests : ~ Call(u, r)
        BY DEF Call, Step, At, Goto, Finish, Abort, IInv, TypeOK, ThreadTypes,
               WriteLock, ReadLock, ReadLock2, PutLog, PutIndex,
               RmIndex, RmLog, GetSearch, GetRead, VisitOpen, VisitStep,
               VisitEnd, SyncFile, GcDeferred, GcLaunch, GcLock, GcShared,
               GcCopy, GcClose, GcLock2, GcReindex, GcRemove, GcRename, Return
      <3>4. Step(t) => GcRename(t)
        BY DEF Step, At, WriteLock, ReadLock, ReadLock2, PutLog, PutIndex,
               RmIndex, RmLog, GetSearch, GetRead, VisitOpen, VisitStep,
               VisitEnd, SyncFile, GcDeferred, GcLaunch, GcLock, GcShared,
               GcCopy, GcClose, GcLock2, GcReindex, GcRemove, Return
      <3>5. \A r \in Requests : ~ Call(t, r)
        BY DEF Call, At
      <3>. QED BY <3>1, <3>2, <3>3, <3>4, <3>5 DEF Next
    <2>2. /\ IsFile(g)
          /\ \A o \in DOMAIN g.at :
                LET k == g.at[o].rec.key IN Present(k) /\ moved[t][k] = o
      BY DEF CInv, CopyInv, IInv, GcInv, SwitchSection
    <2>3. \A o \in DOMAIN g.at : g.at[o].rec.key \in Keys
      BY <2>2, RecordFacts DEF IsFile, Entry
    <2>4. \A k \in Keys : ~ BeingWritten(k)
      BY LocksExclude DEF Exclusion, BeingWritten, SwitchSection, WriteSection
    <2>5. \A k \in Keys : Present(k) <=> store[k] # NoVal
      BY <2>1, <2>4 DEF CInv, IndexSound
    <2>6. \A o \in DOMAIN g.at : store[g.at[o].rec.key] # NoVal
      BY <2>2, <2>3, <2>5
    <2>7. \A o, p \in DOMAIN g.at : g.at[o].rec.key = g.at[p].rec.key => o = p
      BY <2>2
    <2>8. ASSUME NEW k \in Keys, store[k] # NoVal
          PROVE  \E o \in DOMAIN g.at : PointsTo(g, o, k, store[k])
      <3>1. Present(k) /\ k <= cursor[t]
        BY <2>5, <2>8 DEF CInv, CopyInv, SwitchSection
      <3>2. PointsTo(g, moved[t][k], k, store[k])
        BY <3>1 DEF CInv, CopyInv, SwitchSection
      <3>. QED BY <3>2 DEF PointsTo, HasRec
    <2>. QED BY <2>1, <2>6, <2>7, <2>8 DEF Compact
  <1>. QED BY <1>1, Invariance, ContentInvariance, PTL DEF Spec, GcCompacts

-----------------------------------------------------------------------------
(* Aborts *)

\* There is a log except between std::remove and std::rename.
LogThere == NotAt({"gc_rename"}) => files["log"] # NoFile

\* A reader and a copying _gc find a log of whole lines.
LEMMA ReaderSees ==
    ASSUME IInv, CInv, LogThere,
           NEW t \in Threads, pc[t] \in ReadSection \cup CopySection
    PROVE  /\ IsFile(files["log"]) /\ Tiled(files["log"])
           /\ files["log"] # NoFile
  <1>1. NotAt({"gc_rename"})
    BY LocksExclude DEF Exclusion, ReadSection, CopySection, SwitchSection, NotAt
  <1>. QED BY <1>1 DEF LogThere, CInv, LogInv, IInv, TypeOK, FileTypes

\* The log disappears in GcRemove only, and GcRename brings it back.
LEMMA LogThereKept ==
    ASSUME IInv, LogThere, [Next]_vars, Crash => CleanKill
    PROVE  LogThere'
  <1>. USE DEF At, Goto, Finish, Abort, IInv, TypeOK, FileTypes, ThreadTypes,
               LogThere, NotAt
  <1>1. CASE \E t \in Threads : \E r \in Requests : Call(t, r)
    <2>1. PICK t \in Threads, r \in Requests : Call(t, r)
      BY <1>1
    <2>. QED BY <2>1 DEF Call
  <1>2. ASSUME NEW t \in Threads, Step(t) PROVE LogThere'
    <2>1. CASE /\ files'["log"] = files["log"]
               /\ pc[t] # "gc_rename" \/ pc'[t] = "gc_rename"
               /\ \A u \in Threads : u # t => pc'[u] = pc[u]
      BY <2>1
    <2>2. CASE PutLog(t) \/ RmLog(t)
      <3>1. IsFile(OpenAppend(files["log"]))
        BY OpenAppendType
      <3>2. ASSUME NEW r \in Records,
                   files' = [files EXCEPT !["log"] =
                                AppendRec(OpenAppend(@), r, Size(r))]
            PROVE  files'["log"] # NoFile
        <4>1. files'["log"].len = OpenAppend(files["log"]).len + Size(r)
          BY <3>2 DEF AppendRec
        <4>2. OpenAppend(files["log"]).len \in Nat /\ Size(r) \in Nat
          BY <3>1, RecordFacts DEF IsFile
        <4>. QED BY <4>1, <4>2 DEF NoFile
      <3>3. CASE PutLog(t)
        <4>1. PutLine(t) \in Records
          BY <3>3, LineFacts DEF PutLog, PutLine, ReqInv
        <4>. QED BY <3>2, <3>3, <4>1 DEF PutLog
      <3>4. CASE RmLog(t)
        <4>1. RmRec(req[t].key) \in Records
          BY <3>4, LineFacts DEF RmLog, ReqInv
        <4>. QED BY <3>2, <3>4, <4>1 DEF RmLog
      <3>. QED BY <2>2, <3>3, <3>4
    <2>3. CASE SyncFile(t)
      BY <2>3 DEF SyncFile, OpenAppend, EmptyFile, NoFile
    <2>4. CASE GcRemove(t)
      BY <2>4 DEF GcRemove
    <2>5. CASE GcRename(t)
      <3>1. IsFile(files["log1"]) /\ files'["log"] = files["log1"]
        BY <2>5 DEF GcRename, GcInv, SwitchSection
      <3>. QED BY <3>1 DEF IsFile, NoFile
    <2>6. CASE GcShared(t) \/ GcCopy(t)
      <3>1. files'["log"] = files["log"] /\ pc[t] # "gc_rename"
        BY <2>6 DEF GcShared, GcCopy
      <3>2. \A u \in Threads : u # t => pc'[u] = pc[u]
        BY <2>6 DEF GcShared, GcCopy
      <3>. QED BY <2>1, <3>1, <3>2
    <2>7. CASE WriteLock(t) \/ ReadLock(t) \/ ReadLock2(t) \/ PutIndex(t)
               \/ RmIndex(t) \/ GetSearch(t) \/ GetRead(t)
      BY <2>1, <2>7 DEF WriteLock, ReadLock, ReadLock2, PutIndex, RmIndex,
                        GetSearch, GetRead
    <2>8. CASE VisitOpen(t) \/ VisitStep(t) \/ VisitEnd(t) \/ GcDeferred(t)
               \/ GcLaunch(t) \/ GcLock(t) \/ GcClose(t) \/ GcLock2(t)
               \/ GcReindex(t) \/ Return(t)
      BY <2>1, <2>8 DEF VisitOpen, VisitStep, VisitEnd, GcDeferred, GcLaunch,
                        GcLock, GcClose, GcLock2, GcReindex, Return
    <2>. QED BY <1>2, <2>2, <2>3, <2>4, <2>5, <2>6, <2>7, <2>8 DEF Step
  <1>3. CASE Crash
    BY <1>3 DEF Crash, Kill, CleanKill
  <1>4. CASE Open \/ RebuildStep \/ UNCHANGED vars
    BY <1>4 DEF Open, RebuildStep, vars
  <1>. QED BY <1>1, <1>2, <1>3, <1>4 DEF Next, Terminated

\* No step of the running or starting engine aborts.
LEMMA NoStepFaults ==
    ASSUME IInv, CInv, LogThere, NoFault, [Next]_vars
    PROVE  NoFault'
  <1>. USE DEF NoFault, Faults, At, Abort
  <1>1. CASE mode' = mode
    BY <1>1
  <1>2. ASSUME NEW t \in Threads, PutIndex(t) PROVE mode' = mode
    <2>1. ~ Aliased(req[t].key)
      BY <1>2 DEF PutIndex, IInv, ReqInv, CInv, NatInv, Aliased, Search
    <2>. QED BY <1>2, <2>1 DEF PutIndex
  <1>3. ASSUME NEW t \in Threads, GetRead(t) PROVE mode' = mode
    <2>. DEFINE k == req[t].key
    <2>1. IsFile(files["log"]) /\ Tiled(files["log"])
      BY <1>3, ReaderSees DEF GetRead, ReadSection
    <2>2. files["log"] # NoFile
      BY <1>3, ReaderSees DEF GetRead, ReadSection
    <2>3. PointsTo(files["log"], offset[t], k, store[k])
      BY <1>3 DEF GetRead, CInv, GetOffsetFresh
    <2>4. /\ offset[t] \in Nat
          /\ ReadKeyValue(files["log"], offset[t]) = {PutRec(k, store[k])}
      BY <2>1, <2>3, ReadLine DEF PointsTo, HasRec
    <2>5. Seek(0, offset[t]) = offset[t]
      BY <2>4 DEF Seek
    <2>6. PutRec(k, store[k]).op = "put"
      BY DEF PutRec
    <2>. QED BY <1>3, <2>2, <2>4, <2>5, <2>6 DEF GetRead
  <1>4. ASSUME NEW t \in Threads, VisitStep(t) PROVE mode' = mode
    <2>1. mode = "up" /\ pc[t] \in ReadSection
      BY <1>4 DEF VisitStep, ReadSection
    <2>2. files["log"] # NoFile
      BY <2>1, ReaderSees
    <2>3. PICK k \in NextKey(cursor[t]) :
            \E line \in ReadKeyValue(files["log"], Seek(fpos[t], index[k])) :
               line.op = "put" => mode' = mode
      BY <1>4, <2>2 DEF VisitStep
    <2>4. k \in Keys /\ Present(k)
      BY DEF NextKey
    <2>5. ReadKeyValue(files["log"], Seek(fpos[t], index[k])) =
             {PutRec(k, store[k])}
      BY <2>1, <2>4, KeyReads
    <2>. QED BY <2>3, <2>5 DEF PutRec
  <1>5. ASSUME NEW t \in Threads, VisitEnd(t) \/ GcClose(t) PROVE mode' = mode
    <2>1. files["log"] # NoFile
      BY <1>5, ReaderSees DEF VisitEnd, GcClose, ReadSection, CopySection
    <2>. QED BY <1>5, <2>1 DEF VisitEnd, GcClose, Goto
  <1>6. ASSUME NEW t \in Threads, GcCopy(t) PROVE mode' = mode
    <2>1. mode = "up" /\ pc[t] \in CopySection
      BY <1>6 DEF GcCopy, CopySection
    <2>2. files["log"] # NoFile
      BY <2>1, ReaderSees
    <2>3. PICK k \in NextKey(cursor[t]) :
            \E line \in ReadKeyValue(files["log"], Seek(fpos[t], index[k])) :
               line.op = "put" => mode' = mode
      BY <1>6, <2>2 DEF GcCopy
    <2>4. k \in Keys /\ Present(k)
      BY DEF NextKey
    <2>5. ReadKeyValue(files["log"], Seek(fpos[t], index[k])) =
             {PutRec(k, store[k])}
      BY <2>1, <2>4, KeyReads
    <2>. QED BY <2>3, <2>5 DEF PutRec
  <1>7. ASSUME NEW t \in Threads, Step(t) PROVE mode' = mode
    BY <1>2, <1>3, <1>4, <1>5, <1>6, <1>7
       DEF Step, WriteLock, ReadLock, ReadLock2, PutLog, RmIndex, RmLog,
           GetSearch, VisitOpen, SyncFile, GcDeferred, GcLaunch, GcLock,
           GcShared, GcLock2, GcReindex, GcRemove, GcRename, Return
  <1>8. CASE RebuildStep
    <2>1. mode = "rebuild"
      BY <1>8 DEF RebuildStep
    <2>2. ASSUME NEW line \in ReadKeyValue(files["log"], crash_pos)
          PROVE  line.op # "junk" /\ ~ (line.op = "put" /\ Aliased(line.key))
      <3>1. CASE crash_pos \in DOMAIN files["log"].at
        <4>1. line \in Records
          BY <2>1, <3>1, RebuildReads, ReadLine
        <4>2. line.key \in Keys /\ line.op \in {"put", "rm"}
          BY <4>1, RecordFacts
        <4>. QED BY <4>2 DEF CInv, NatInv, Aliased, Search
      <3>2. CASE crash_pos \notin DOMAIN files["log"].at
        BY <2>1, <2>2, <3>2, RebuildReads DEF Fail
      <3>. QED BY <3>1, <3>2
    <2>. QED BY <1>8, <2>1, <2>2 DEF RebuildStep, RebuildLine
  <1>9. CASE Crash \/ Open
    BY <1>9 DEF Crash, Kill, Open
  <1>10. CASE \E t \in Threads : \E r \in Requests : Call(t, r)
    BY <1>10 DEF Call
  <1>11. CASE UNCHANGED vars
    BY <1>11 DEF vars
  <1>. QED BY <1>1, <1>7, <1>8, <1>9, <1>10, <1>11 DEF Next, Terminated

\* An engine that is started over a log (an empty one on the first start) does
\* not abort, calls no stdio function on NULL and takes no stray bytes for a
\* line.  (Started without a log it may: visit and _gc open a missing file.)
THEOREM NeverAborts ==
    ASSUME ~ FreshDir
    PROVE  Spec /\ Environment => []NoFault
  <1>1. Init => LogThere /\ NoFault
    BY DEF Init, LogThere, NoFault, Faults, EmptyFile, NoFile
  <1>2. IInv /\ CInv /\ LogThere /\ NoFault /\ [Next]_vars /\ [CleanKill]_vars
           => LogThere' /\ NoFault'
    <2>1. Crash => ~ UNCHANGED vars
      BY DEF Crash, Kill, vars
    <2>. QED BY <2>1, LogThereKept, NoStepFaults
  <1>. QED BY <1>1, <1>2, Invariance, ContentInvariance, PTL
           DEF Spec, Environment

-----------------------------------------------------------------------------
(* Kills that are clean whatever they meet *)

\* Outside _gc, and with lines that fit a stdio block, a kill is clean.
LEMMA KillsOutsideGc ==
    ASSUME CrashAt \cap (CopySection \cup SwitchSection) = {},
           \A r \in Records : Size(r) <= StdioBuf,
           IInv, CInv, Crash
    PROVE  CleanKill
  <1>1. \A t \in Threads : pc[t] \notin CopySection \cup SwitchSection
    BY DEF Crash, Kill
  <1>2. LineTorn = {}
    <2>. SUFFICES ASSUME NEW f \in LineTorn PROVE FALSE
      OBVIOUS
    <2>1. PICK t \in {u \in Threads : pc[u] \in {"put_log", "rm_log"}} :
             \E n \in 1..(Size(LineOf(t)) \div StdioBuf) :
                n * StdioBuf < Size(LineOf(t))
      BY DEF LineTorn
    <2>2. LineOf(t) \in Records
      BY <2>1 DEF LineOf, IInv, ReqInv, PutLine, Records
    <2>3. Size(LineOf(t)) \in Nat /\ Size(LineOf(t)) <= StdioBuf
      BY <2>2, RecordFacts
    <2>4. PICK n \in Nat : n >= 1 /\ n * StdioBuf < Size(LineOf(t))
      BY <2>1
    <2>5. StdioBuf \in Nat
      BY EngineAssumption
    <2>6. n * StdioBuf >= StdioBuf
      BY <2>4, <2>5
    <2>. QED BY <2>3, <2>4, <2>5, <2>6
  <1>3. files' = files
    BY <1>1, <1>2 DEF Crash, BlocksWritten, CopySection
  <1>4. files["log1"].len <= 0
    BY <1>1 DEF CInv, LeftInv, NotAt
  <1>. QED BY <1>1, <1>3, <1>4 DEF CleanKill, SwitchSection

\* An engine that is never killed inside _gc, and whose lines fit a stdio block,
\* needs no other assumption about kills.
THEOREM SafeOutsideGc ==
    ASSUME CrashAt \cap (CopySection \cup SwitchSection) = {},
           \A r \in Records : Size(r) <= StdioBuf
    PROVE  Spec /\ []Fits => []IndexSound /\ []LogRecoverable
  <1>1. Init => CInv
    BY InitContents
  <1>2. IInv /\ CInv /\ Fits /\ Fits' /\ [Next]_vars => CInv'
    BY KillsOutsideGc, NextContents
  <1>3. CInv => IndexSound /\ LogRecoverable
    BY DEF CInv, LogInv, LogRecoverable, NotAt
  <1>. QED BY <1>1, <1>2, <1>3, Invariance, PTL DEF Spec
=============================================================================
