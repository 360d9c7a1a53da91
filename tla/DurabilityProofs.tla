-------------------------- MODULE DurabilityProofs ---------------------------
(***************************************************************************)
(* What a restart finds after a crash of the process or of the operating   *)
(* system, for every set of threads, keys and values, lines of any length  *)
(* and any number of kills before the crash.                               *)
(*                                                                         *)
(* Up to a crash that tears or loses lines the engine is as EngineContents *)
(* has it, and every cut of the log behind what is on the disk denotes a   *)
(* store since the last sync.  From that crash to the end of the recovery  *)
(* rebuild_btree reads whole lines up to the cut, and nothing behind them. *)
(***************************************************************************)
EXTENDS Durability, EngineContents, NaturalFacts

\* The lines of f before offset e leave key k with value v.
DenotesTo(f, e, k, v) ==
    LET lines == {o \in DOMAIN f.at : f.at[o].rec.key = k /\ o < e}
    IN IF lines = {} THEN v = NoVal
       ELSE \E o \in lines : /\ \A p \in lines : p <= o
                             /\ f.at[o].rec.val = v

\* The lines of f before offset e denote one of the stores in S.
DenotesOneOf(f, e, S) == \E s \in S : \A k \in Keys : DenotesTo(f, e, k, s[k])

\* A line that is not on the disk as a whole follows lines that denote a store
\* since the last sync.
SnapInv ==
    /\ store \in snapshots
    /\ synced \in Nat
    /\ \A t \in Threads : pc[t] = "gc_rename" => replaced
    /\ ~ replaced =>
          LET f == files["log"]
          IN \A e \in DOMAIN f.at :
                e + Size(f.at[e].rec) > synced => DenotesOneOf(f, e, snapshots)

\* No crash has torn a line or lost one.
Intact == CInv /\ SnapInv /\ crashed = "process"

\* Where lines start, and the end of the file.
Ends(f) == DOMAIN f.at \cup {OpenAppend(f).len}

\* The lines of f before e are whole and follow each other, and parsing at e
\* reports the end of the file.
WholeTo(f, e) ==
    /\ e <= OpenAppend(f).len
    /\ e > 0 => 0 \in DOMAIN f.at
    /\ \A o \in DOMAIN f.at :
          o < e => /\ HasRec(f, o)
                   /\ LET end == o + Size(f.at[o].rec)
                      IN end = e \/ (end < e /\ end \in DOMAIN f.at)
    /\ \A o, p \in DOMAIN f.at : o < p /\ p <= e => o + Size(f.at[o].rec) <= p
    /\ ReadKeyValue(f, e) = {Fail}

\* rebuild_btree has replayed the lines before crash_pos, none of them behind e.
Reading(f, e) ==
    /\ log_offset = crash_pos
    /\ crash_pos = e \/ (crash_pos < e /\ crash_pos \in DOMAIN f.at)
    /\ \A k \in Keys : Replayed(f, crash_pos, k)

\* The claim of SyncedSurvives applies.
Claimed == crashed = "system" => ~ replaced

\* After the last crash, until the index is rebuilt.
Recovering ==
    /\ ncrashes = MaxCrashes /\ mode \in {"down", "rebuild"}
    /\ mode = "down" => index = EmptyIndex /\ log_offset = 0 /\ crash_pos = 0
    /\ Claimed => \E e \in Ends(files["log"]) :
                     /\ WholeTo(files["log"], e)
                     /\ DenotesOneOf(files["log"], e, Promised)
                     /\ Reading(files["log"], e)

\* After that: there is no restart any more.
Recovered == ncrashes = MaxCrashes /\ mode \in {"up"} \cup Faults

DInv == IInv /\ (Intact \/ Recovering \/ Recovered)
-----------------------------------------------------------------------------
(* Cuts *)

\* A line appended to the log has the old log before it.
LEMMA AppendSnap ==
    ASSUME NEW f, IsFile(f), Tiled(f), Disjoint(f), NEW r \in Records,
           NEW S, NEW s \in S, \A k \in Keys : Denotes(f, k, s[k]), NEW n \in Nat,
           \A e \in DOMAIN f.at : e + Size(f.at[e].rec) > n => DenotesOneOf(f, e, S),
           NEW g, g = AppendRec(f, r, Size(r))
    PROVE  \A e \in DOMAIN g.at :
              e + Size(g.at[e].rec) > n => DenotesOneOf(g, e, S)
  <1>1. /\ DOMAIN g.at = DOMAIN f.at \cup {f.len} /\ f.len \notin DOMAIN f.at
        /\ \A o \in DOMAIN f.at : o < f.len /\ g.at[o] = f.at[o]
    BY AppendFacts
  <1>2. f.len \in Nat /\ \A o \in DOMAIN f.at : o \in Nat
    BY DEF IsFile
  <1>. SUFFICES ASSUME NEW e \in DOMAIN g.at, e + Size(g.at[e].rec) > n
                PROVE  DenotesOneOf(g, e, S)
    OBVIOUS
  <1>3. ASSUME NEW k \in Keys, NEW v
        PROVE  DenotesTo(g, e, k, v) <=> DenotesTo(f, e, k, v)
    <2>. DEFINE old == {o \in DOMAIN f.at : f.at[o].rec.key = k /\ o < e}
                new == {o \in DOMAIN g.at : g.at[o].rec.key = k /\ o < e}
    <2>1. e <= f.len
      BY <1>1, <1>2
    <2>2. new = old /\ \A o \in old : g.at[o] = f.at[o]
      BY <1>1, <1>2, <2>1
    <2>. QED BY <2>2 DEF DenotesTo
  <1>4. CASE e \in DOMAIN f.at
    <2>1. DenotesOneOf(f, e, S)
      BY <1>1, <1>4
    <2>. QED BY <1>3, <2>1 DEF DenotesOneOf
  <1>5. CASE e = f.len
    <2>1. ASSUME NEW k \in Keys PROVE DenotesTo(f, e, k, s[k])
      <3>1. {o \in DOMAIN f.at : f.at[o].rec.key = k} =
               {o \in DOMAIN f.at : f.at[o].rec.key = k /\ o < e}
        BY <1>1, <1>5
      <3>. QED BY <3>1 DEF Denotes, DenotesTo
    <2>. QED BY <1>3, <2>1 DEF DenotesOneOf
  <1>. QED BY <1>1, <1>4, <1>5

\* Of the lines of a log, the last one that starts at or before n.
LEMMA LastLine ==
    ASSUME NEW f, IsFile(f), Tiled(f), Disjoint(f), NEW n \in Nat, n < f.len
    PROVE  \E e \in DOMAIN f.at : e <= n /\ n < e + Size(f.at[e].rec)
  <1>. DEFINE D == {n - o : o \in {x \in DOMAIN f.at : x <= n}}
  <1>1. /\ f.len \in Nat /\ \A o \in DOMAIN f.at : o \in Nat
    BY DEF IsFile
  <1>2. D \in SUBSET Nat
    BY <1>1
  <1>3. n - 0 \in D
    BY <1>1 DEF Tiled
  <1>4. PICK m \in D : \A d \in D : m <= d
    <2>. HIDE DEF D
    <2>. QED BY <1>2, <1>3, LeastNat
  <1>5. PICK e \in DOMAIN f.at : e <= n /\ m = n - e
    BY <1>4
  <1>6. /\ e \in Nat /\ e < f.len /\ f.at[e].rec \in Records
    BY <1>1, <1>5, ReadLine
  <1>7. Size(f.at[e].rec) \in Nat /\ Size(f.at[e].rec) > 0
    BY <1>6, RecordFacts
  <1>8. n < e + Size(f.at[e].rec)
    <2>. DEFINE end == e + Size(f.at[e].rec)
    <2>. SUFFICES ASSUME end <= n PROVE FALSE
      BY <1>6, <1>7
    <2>1. end \in DOMAIN f.at
      BY <1>1, <1>6, <1>7 DEF Tiled
    <2>2. n - end \in D
      BY <2>1
    <2>3. m <= n - end
      BY <1>4, <2>2
    <2>. QED BY <1>5, <1>6, <1>7, <2>3
  <1>. QED BY <1>5, <1>8

\* What a cut at n leaves: the whole lines before it, and perhaps a torn one that
\* the parser takes for the end of the file.
LEMMA CutWhole ==
    ASSUME NEW f, IsFile(f), Tiled(f), Disjoint(f), NEW n \in Nat, n <= f.len,
           NEW S, NEW s \in S, \A k \in Keys : Denotes(f, k, s[k]),
           \A e \in DOMAIN f.at : e + Size(f.at[e].rec) > n => DenotesOneOf(f, e, S),
           NEW g, g = Truncate(f, n)
    PROVE  \E e \in Ends(g) : WholeTo(g, e) /\ DenotesOneOf(g, e, S)
  <1>1. /\ f.len \in Nat /\ \A o \in DOMAIN f.at : o \in Nat
    BY DEF IsFile
  <1>2. \A o \in DOMAIN f.at :
           /\ f.at[o].rec \in Records /\ f.at[o].got = Size(f.at[o].rec)
           /\ Size(f.at[o].rec) \in Nat /\ Size(f.at[o].rec) > 0
           /\ o < f.len /\ o + Size(f.at[o].rec) <= f.len
    BY ReadLine, RecordFacts DEF Tiled, HasRec
  <1>3. /\ g.len = n /\ DOMAIN g.at = {o \in DOMAIN f.at : o < n}
        /\ \A o \in DOMAIN g.at :
              /\ g.at[o].rec = f.at[o].rec
              /\ g.at[o].got = IF o + f.at[o].got > n THEN n - o ELSE f.at[o].got
    <2>1. \A o \in DOMAIN f.at : f.at[o] \in [rec : Records, got : Nat]
      BY DEF IsFile, Entry
    <2>. QED BY <2>1 DEF Truncate
  <1>4. n \in Ends(g)
    <2>1. g # NoFile
      BY <1>3 DEF NoFile
    <2>. QED BY <1>3, <2>1 DEF Ends, OpenAppend
  <1>5. ASSUME NEW e \in Nat, e <= n, DenotesOneOf(f, e, S)
        PROVE  DenotesOneOf(g, e, S)
    <2>1. ASSUME NEW k \in Keys, NEW v, DenotesTo(f, e, k, v)
          PROVE  DenotesTo(g, e, k, v)
      <3>. DEFINE old == {o \in DOMAIN f.at : f.at[o].rec.key = k /\ o < e}
                  new == {o \in DOMAIN g.at : g.at[o].rec.key = k /\ o < e}
      <3>1. new = old /\ \A o \in old : g.at[o].rec = f.at[o].rec
        BY <1>1, <1>3, <1>5
      <3>. QED BY <2>1, <3>1 DEF DenotesTo
    <2>. QED BY <1>5, <2>1 DEF DenotesOneOf
  <1>6. ASSUME NEW e \in Nat, e <= n, ReadKeyValue(g, e) = {Fail},
               \A o \in DOMAIN f.at : o < e => o + Size(f.at[o].rec) <= e,
               e = f.len \/ e \in DOMAIN f.at
        PROVE  WholeTo(g, e)
    <2>1. e > 0 => 0 \in DOMAIN g.at
      BY <1>1, <1>3, <1>6 DEF Tiled
    <2>2. ASSUME NEW o \in DOMAIN g.at, o < e
          PROVE  /\ HasRec(g, o)
                 /\ LET end == o + Size(g.at[o].rec)
                    IN end = e \/ (end < e /\ end \in DOMAIN g.at)
      <3>. DEFINE end == o + Size(f.at[o].rec)
      <3>1. o \in DOMAIN f.at /\ end <= e /\ end \in Nat
        BY <1>1, <1>2, <1>3, <1>6, <2>2
      <3>2. HasRec(g, o)
        BY <1>1, <1>2, <1>3, <1>6, <3>1 DEF HasRec
      <3>3. end < e => end \in DOMAIN f.at
        BY <1>1, <1>6, <3>1 DEF Tiled
      <3>. QED BY <1>1, <1>3, <1>6, <3>1, <3>2, <3>3
    <2>3. \A o, p \in DOMAIN g.at : o < p /\ p <= e => o + Size(g.at[o].rec) <= p
      BY <1>3 DEF Disjoint
    <2>4. e <= OpenAppend(g).len
      BY <1>3, <1>6 DEF OpenAppend, NoFile
    <2>. QED BY <1>6, <2>1, <2>2, <2>3, <2>4 DEF WholeTo
  <1>7. ReadKeyValue(g, n) = {Fail}
    BY <1>3 DEF ReadKeyValue
  <1>8. CASE n = f.len
    <2>1. DenotesOneOf(f, n, S)
      <3>1. ASSUME NEW k \in Keys PROVE DenotesTo(f, n, k, s[k])
        <4>1. {o \in DOMAIN f.at : f.at[o].rec.key = k} =
                 {o \in DOMAIN f.at : f.at[o].rec.key = k /\ o < n}
          BY <1>2, <1>8
        <4>. QED BY <4>1 DEF Denotes, DenotesTo
      <3>. QED BY <3>1 DEF DenotesOneOf
    <2>2. WholeTo(g, n)
      BY <1>2, <1>6, <1>7, <1>8
    <2>. QED BY <1>4, <1>5, <2>1, <2>2
  <1>9. CASE n < f.len
    <2>1. PICK e \in DOMAIN f.at : e <= n /\ n < e + Size(f.at[e].rec)
      BY <1>9, LastLine
    <2>2. DenotesOneOf(f, e, S) /\ e \in Nat
      BY <1>1, <1>2, <2>1
    <2>3. e \in Ends(g)
      BY <1>3, <1>4, <2>1, <2>2 DEF Ends
    <2>4. ReadKeyValue(g, e) = {Fail}
      <3>1. CASE e = n
        BY <1>7, <3>1
      <3>2. CASE e < n
        <4>1. e \in DOMAIN g.at /\ ~ HasRec(g, e) /\ e + Size(g.at[e].rec) > g.len
          BY <1>2, <1>3, <2>1, <2>2, <3>2 DEF HasRec
        <4>. QED BY <1>3, <2>2, <3>2, <4>1 DEF ReadKeyValue
      <3>. QED BY <2>1, <2>2, <3>1, <3>2
    <2>5. \A o \in DOMAIN f.at : o < e => o + Size(f.at[o].rec) <= e
      BY <2>1 DEF Disjoint
    <2>. QED BY <1>5, <1>6, <2>1, <2>2, <2>3, <2>4, <2>5
  <1>. QED BY <1>1, <1>8, <1>9

\* What a kill inside log_line leaves: the whole lines, and a torn one.
LEMMA TornWhole ==
    ASSUME NEW f, IsFile(f), Tiled(f), Disjoint(f), NEW r \in Records,
           NEW n \in Nat, n < Size(r), NEW s, \A k \in Keys : Denotes(f, k, s[k]),
           NEW g, g = AppendRec(f, r, n)
    PROVE  f.len \in Ends(g) /\ WholeTo(g, f.len) /\ DenotesOneOf(g, f.len, {s})
  <1>1. /\ f.len \in Nat /\ \A o \in DOMAIN f.at : o \in Nat
    BY DEF IsFile
  <1>2. \A o \in DOMAIN f.at : o < f.len /\ HasRec(f, o) /\ f.at[o].rec \in Records
    BY ReadLine DEF Tiled
  <1>3. /\ g.len = f.len + n /\ DOMAIN g.at = DOMAIN f.at \cup {f.len}
        /\ g.at[f.len] = [rec |-> r, got |-> n]
        /\ \A o \in DOMAIN f.at : g.at[o] = f.at[o]
    BY <1>1, <1>2 DEF AppendRec
  <1>4. Size(r) \in Nat
    BY RecordFacts
  <1>5. ReadKeyValue(g, f.len) = {Fail}
    BY <1>1, <1>3, <1>4 DEF ReadKeyValue, HasRec
  <1>6. f.len > 0 => 0 \in DOMAIN g.at
    BY <1>3 DEF Tiled
  <1>7. ASSUME NEW o \in DOMAIN g.at, o < f.len
        PROVE  /\ HasRec(g, o)
               /\ LET end == o + Size(g.at[o].rec)
                  IN end = f.len \/ (end < f.len /\ end \in DOMAIN g.at)
    BY <1>1, <1>2, <1>3, <1>7 DEF HasRec, Tiled
  <1>8. ASSUME NEW o \in DOMAIN g.at, NEW p \in DOMAIN g.at, o < p, p <= f.len
        PROVE  o + Size(g.at[o].rec) <= p
    <2>1. o \in DOMAIN f.at
      BY <1>1, <1>3, <1>8
    <2>2. o + Size(f.at[o].rec) <= f.len
      BY <2>1, ReadLine
    <2>. QED BY <1>1, <1>3, <1>8, <2>1, <2>2 DEF Disjoint
  <1>9. WholeTo(g, f.len)
    <2>1. f.len <= OpenAppend(g).len
      BY <1>1, <1>3 DEF OpenAppend, NoFile
    <2>. QED BY <1>5, <1>6, <1>7, <1>8, <2>1 DEF WholeTo
  <1>10. ASSUME NEW k \in Keys PROVE DenotesTo(g, f.len, k, s[k])
    <2>. DEFINE old == {o \in DOMAIN f.at : f.at[o].rec.key = k}
                new == {o \in DOMAIN g.at : g.at[o].rec.key = k /\ o < f.len}
    <2>1. new = old /\ \A o \in old : g.at[o] = f.at[o]
      BY <1>1, <1>2, <1>3
    <2>. QED BY <2>1 DEF Denotes, DenotesTo
  <1>. QED BY <1>3, <1>9, <1>10 DEF Ends, DenotesOneOf

\* After a kill the log is about to be read from its start.
LEMMA FreshReading ==
    ASSUME files'["log"] = NoFile \/ IsFile(files'["log"]), NEW e \in Nat,
           WholeTo(files'["log"], e),
           index' = EmptyIndex, log_offset' = 0, crash_pos' = 0
    PROVE  Reading(files["log"], e)'
  <1>. DEFINE f == files'["log"]
  <1>1. 0 = e \/ (0 < e /\ 0 \in DOMAIN f.at)
    BY DEF WholeTo
  <1>2. ASSUME NEW k \in Keys PROVE Replayed(files["log"], crash_pos, k)'
    <2>1. \A o \in DOMAIN f.at : o \in Nat
      BY DEF NoFile, NoLines, IsFile
    <2>2. {o \in DOMAIN f.at : f.at[o].rec.key = k /\ o < 0} = {}
      BY <2>1
    <2>3. index'[k] = Absent
      BY DEF EmptyIndex
    <2>. QED BY <2>2, <2>3 DEF Replayed, Present
  <1>. QED BY <1>1, <1>2 DEF Reading

-----------------------------------------------------------------------------
(* The running engine *)

\* The log of an engine that is not between std::remove and std::rename.
LEMMA LogFacts ==
    ASSUME IInv, CInv, NotAt({"gc_rename"}), NEW f, f = OpenAppend(files["log"])
    PROVE  /\ IsFile(f) /\ Tiled(f) /\ Disjoint(f) /\ f.at = files["log"].at
           /\ \A k \in Keys : Denotes(f, k, store[k])
           /\ files["log"] = NoFile \/ f = files["log"]
  <1>1. /\ files["log"] = NoFile \/ IsFile(files["log"])
        /\ Tiled(files["log"]) /\ Disjoint(files["log"])
        /\ \A k \in Keys : Denotes(files["log"], k, store[k])
    BY DEF IInv, TypeOK, FileTypes, CInv, LogInv
  <1>2. IsFile(EmptyFile)
    BY DEF IsFile, EmptyFile, NoLines
  <1>. QED BY <1>1, <1>2, OpenAppendFacts DEF OpenAppend

\* Steps that leave the log and the store alone, or find the log replaced.
LEMMA QuietSnap ==
    ASSUME SnapInv, UNCHANGED <<store, snapshots, synced, replaced>>,
           files'["log"].at = files["log"].at \/ replaced,
           \A u \in Threads : pc'[u] = "gc_rename" => replaced
    PROVE  SnapInv'
  <1>1. CASE replaced
    BY <1>1 DEF SnapInv
  <1>2. CASE ~ replaced
    <2>1. files'["log"].at = files["log"].at
      BY <1>2
    <2>2. ASSUME NEW e, DenotesOneOf(files["log"], e, snapshots)
          PROVE  DenotesOneOf(files'["log"], e, snapshots)
      BY <2>1, <2>2 DEF DenotesOneOf, DenotesTo
    <2>. QED BY <1>2, <2>1, <2>2 DEF SnapInv
  <1>. QED BY <1>1, <1>2

\* The steps of OtherStep do not touch the log, except the rename of _gc.
LEMMA OtherKeeps ==
    ASSUME IInv, NEW t \in Threads, OtherStep(t)
    PROVE  /\ store' = store
           /\ files'["log"] = files["log"] \/ pc[t] = "gc_rename"
           /\ \A u \in Threads : pc'[u] = "gc_rename" => pc[u] = "gc_rename"
  <1>. USE DEF At, Goto, Finish, Abort, IInv, TypeOK, FileTypes, ThreadTypes
  <1>1. CASE \E r \in Requests : Call(t, r)
    BY <1>1, EngineAssumption DEF Call, AllRequests
  <1>2. CASE pc[t] \notin DiskSteps /\ Step(t)
    <2>. USE <1>2
    <2>1. CASE WriteLock(t) \/ ReadLock(t) \/ ReadLock2(t)
      BY <2>1 DEF WriteLock, ReadLock, ReadLock2
    <2>2. CASE PutIndex(t) \/ RmIndex(t)
      BY <2>2 DEF PutIndex, RmIndex
    <2>3. CASE GetSearch(t) \/ GetRead(t)
      BY <2>3 DEF GetSearch, GetRead
    <2>4. CASE VisitOpen(t) \/ VisitStep(t) \/ VisitEnd(t)
      BY <2>4 DEF VisitOpen, VisitStep, VisitEnd
    <2>5. CASE GcDeferred(t) \/ GcLaunch(t) \/ GcLock(t) \/ GcShared(t)
      BY <2>5 DEF GcDeferred, GcLaunch, GcLock, GcShared
    <2>6. CASE GcCopy(t)
      <3>1. pc' = pc /\ store' = store
        BY <2>6 DEF GcCopy
      <3>2. files' = files \/ \E x : files' = [files EXCEPT !["log1"] = x]
        BY <2>6 DEF GcCopy
      <3>. QED BY <3>1, <3>2
    <2>7. CASE GcClose(t) \/ GcLock2(t) \/ GcReindex(t)
      BY <2>7 DEF GcClose, GcLock2, GcReindex
    <2>8. CASE GcRename(t)
      BY <2>8 DEF GcRename
    <2>9. CASE Return(t)
      BY <2>9 DEF Return
    <2>10. ~ (PutLog(t) \/ RmLog(t) \/ SyncFile(t) \/ GcRemove(t))
      BY DEF PutLog, RmLog, SyncFile, GcRemove, DiskSteps
    <2>. QED BY <2>1, <2>2, <2>3, <2>4, <2>5, <2>6, <2>7, <2>8, <2>9, <2>10 DEF Step
  <1>. QED BY <1>1, <1>2 DEF OtherStep

\* A line that is written follows the old store, which snapshots has.
LEMMA WriteLineSnap ==
    ASSUME IInv, CInv, SnapInv, NEW t \in Threads, WriteLine(t)
    PROVE  SnapInv'
  <1>. DEFINE f == OpenAppend(files["log"])
  <1>1. pc[t] \in WriteSection
    BY DEF WriteLine, PutLog, RmLog, At, WriteSection
  <1>2. \A u \in Threads : pc[u] # "gc_rename" /\ pc'[u] # "gc_rename"
    <2>1. \A u \in Threads : u # t => pc[u] \notin Busy
      BY <1>1, WriterAlone
    <2>. QED BY <1>1, <2>1
         DEF Busy, SwitchSection, WriteSection, WriteLine, PutLog, RmLog, Goto, Finish,
             IInv, TypeOK, ThreadTypes
  <1>3. PICK r \in Records :
           files' = [files EXCEPT !["log"] = AppendRec(OpenAppend(@), r, Size(r))]
    <2>1. CASE PutLog(t)
      <3>1. PutLine(t) \in Records
        BY <2>1 DEF PutLog, At, IInv, ReqInv, PutLine, Records
      <3>. QED BY <2>1, <3>1 DEF PutLog
    <2>2. CASE RmLog(t)
      <3>1. RmRec(req[t].key) \in Records
        BY <2>2 DEF RmLog, At, IInv, ReqInv, Records
      <3>. QED BY <2>2, <3>1 DEF RmLog
    <2>. QED BY <2>1, <2>2 DEF WriteLine
  <1>4. files'["log"] = AppendRec(f, r, Size(r))
    BY <1>3 DEF IInv, TypeOK, FileTypes
  <1>5. /\ IsFile(f) /\ Tiled(f) /\ Disjoint(f) /\ f.at = files["log"].at
        /\ \A k \in Keys : Denotes(f, k, store[k])
    BY <1>2, LogFacts DEF NotAt
  <1>6. /\ snapshots' = snapshots \cup {store'} /\ store \in snapshots
        /\ synced' = synced /\ synced \in Nat /\ replaced' = replaced
    BY DEF WriteLine, SnapInv
  <1>. HIDE DEF f
  <1>7. ASSUME ~ replaced
        PROVE  \A e \in DOMAIN files'["log"].at :
                  e + Size(files'["log"].at[e].rec) > synced =>
                     DenotesOneOf(files'["log"], e, snapshots')
    <2>1. \A e \in DOMAIN f.at :
             e + Size(f.at[e].rec) > synced => DenotesOneOf(f, e, snapshots')
      <3>1. ASSUME NEW e, DenotesOneOf(files["log"], e, snapshots)
            PROVE  DenotesOneOf(f, e, snapshots')
        BY <1>5, <1>6, <3>1 DEF DenotesOneOf, DenotesTo
      <3>. QED BY <1>5, <1>7, <3>1 DEF SnapInv
    <2>2. store \in snapshots'
      BY <1>6
    <2>. QED BY <1>4, <1>5, <1>6, <2>1, <2>2, AppendSnap
  <1>. QED BY <1>2, <1>6, <1>7 DEF SnapInv

\* After a sync every line is on the disk.
LEMMA SyncSnap ==
    ASSUME IInv, CInv, SnapInv, NEW t \in Threads, Sync(t)
    PROVE  SnapInv'
  <1>. DEFINE f == OpenAppend(files["log"])
  <1>1. /\ pc[t] \in WriteSection /\ store' = store
        /\ files'["log"] = f
    BY DEF Sync, SyncFile, At, WriteSection, IInv, TypeOK, FileTypes
  <1>2. \A u \in Threads : pc[u] # "gc_rename" /\ pc'[u] # "gc_rename"
    <2>1. \A u \in Threads : u # t => pc[u] \notin Busy
      BY <1>1, WriterAlone
    <2>. QED BY <1>1, <2>1
         DEF Busy, SwitchSection, WriteSection, Sync, SyncFile, Goto, Finish,
             IInv, TypeOK, ThreadTypes
  <1>3. /\ IsFile(f) /\ Tiled(f) /\ Disjoint(f) /\ f.at = files["log"].at
    BY <1>2, LogFacts DEF NotAt
  <1>. HIDE DEF f
  <1>4. CASE ret'[t] = <<"kSucc">>
    <2>1. /\ synced' = f.len /\ snapshots' = {store} /\ f.len \in Nat
      BY <1>1, <1>3, <1>4 DEF Sync, OnDisk, IsFile
    <2>2. \A e \in DOMAIN f.at : ~ (e + Size(f.at[e].rec) > f.len)
      <3>1. ASSUME NEW e \in DOMAIN f.at PROVE ~ (e + Size(f.at[e].rec) > f.len)
        <4>1. /\ e \in Nat /\ f.at[e].rec \in Records /\ e + Size(f.at[e].rec) <= f.len
          BY <1>3, ReadLine
        <4>2. Size(f.at[e].rec) \in Nat
          BY <4>1, RecordFacts
        <4>. QED BY <2>1, <4>1, <4>2
      <3>. QED BY <3>1
    <2>. QED BY <1>1, <1>2, <2>1, <2>2 DEF SnapInv
  <1>5. CASE ret'[t] # <<"kSucc">>
    BY <1>1, <1>2, <1>3, <1>5, QuietSnap DEF Sync
  <1>. QED BY <1>4, <1>5

-----------------------------------------------------------------------------
(* Crashes *)

\* A step of the engine on a disk is one of the engine, or a crash of the system.
LEMMA DNextIsNext ==
    ASSUME [DNext]_dvars
    PROVE  [Next]_vars \/ OSCrash
  <1>1. KillProcess => Crash
    BY DEF KillProcess, Crash
  <1>2. \A t \in Threads : WriteLine(t) \/ Sync(t) \/ DropLog(t) => Step(t)
    BY DEF WriteLine, Sync, DropLog, Step
  <1>. QED BY <1>1, <1>2 DEF DNext, dvars, OtherStep, Restart, Next

\* What a crash of the system leaves are files.
LEMMA OSCrashInv ==
    ASSUME IInv, synced \in Nat, OSCrash
    PROVE  IInv'
  <1>1. PICK n \in Cuts(OpenAppend(files["log"])), log1 \in {files["log1"], NoFile} :
          files' = [log  |-> IF files["log"] = NoFile THEN NoFile
                             ELSE Truncate(files["log"], n),
                    log1 |-> log1]
    BY DEF OSCrash
  <1>2. \A x \in {"log", "log1"} : files[x] = NoFile \/ IsFile(files[x])
    BY DEF IInv, TypeOK, FileTypes
  <1>3. files["log"] # NoFile => IsFile(Truncate(files["log"], n))
    <2>. SUFFICES ASSUME files["log"] # NoFile PROVE IsFile(Truncate(files["log"], n))
      OBVIOUS
    <2>1. IsFile(files["log"]) /\ OpenAppend(files["log"]) = files["log"]
      BY <1>2 DEF OpenAppend
    <2>2. n \in Nat
      BY <2>1, SizeAssumption DEF Cuts, IsFile, HeaderSize
    <2>. QED BY <2>1, <2>2, TruncateType
  <1>4. FileTypes'
    BY <1>1, <1>2, <1>3 DEF FileTypes
  <1>. QED BY <1>4, KillInv DEF OSCrash

\* A crash of the system leaves a log that starts with the lines of a store
\* since the last sync.
LEMMA OSCrashRecovers ==
    ASSUME IInv, Intact, OSCrash
    PROVE  Recovering'
  <1>1. /\ mode' = "down" /\ index' = EmptyIndex /\ log_offset' = 0 /\ crash_pos' = 0
        /\ ncrashes' = MaxCrashes /\ crashed' = "system"
        /\ UNCHANGED <<store, snapshots, replaced>>
    BY DEF OSCrash, Kill, MemoryLost, LastCrash
  <1>2. ASSUME ~ replaced
        PROVE  \E e \in Ends(files'["log"]) : /\ WholeTo(files'["log"], e)
                                              /\ DenotesOneOf(files'["log"], e, snapshots)
    <2>. DEFINE f == OpenAppend(files["log"])
    <2>1. NotAt({"gc_rename"}) /\ store \in snapshots /\ synced \in Nat
      BY <1>2 DEF Intact, SnapInv, NotAt
    <2>2. /\ IsFile(f) /\ Tiled(f) /\ Disjoint(f) /\ f.at = files["log"].at
          /\ \A k \in Keys : Denotes(f, k, store[k])
          /\ files["log"] = NoFile \/ f = files["log"]
      BY <2>1, LogFacts DEF Intact
    <2>3. PICK n \in Cuts(f) :
             files'["log"] = IF files["log"] = NoFile THEN NoFile
                             ELSE Truncate(files["log"], n)
      BY DEF OSCrash
    <2>. HIDE DEF f
    <2>4. n \in Nat /\ synced <= n /\ n <= f.len
      BY <2>1, <2>2, SizeAssumption DEF Cuts, IsFile, HeaderSize
    <2>5. CASE files["log"] = NoFile
      <3>1. files'["log"] = NoFile /\ DOMAIN NoFile.at = {} /\ NoFile.len = -1
        BY <2>3, <2>5 DEF NoFile, NoLines
      <3>2. 0 \in Ends(NoFile)
        BY DEF Ends, OpenAppend, EmptyFile
      <3>3. WholeTo(NoFile, 0)
        BY <3>1 DEF WholeTo, ReadKeyValue, OpenAppend, EmptyFile
      <3>4. ASSUME NEW k \in Keys PROVE DenotesTo(NoFile, 0, k, store[k])
        <4>1. f.at = NoFile.at
          BY <2>2, <2>5
        <4>2. store[k] = NoVal
          BY <2>2, <3>1, <4>1 DEF Denotes
        <4>. QED BY <3>1, <4>2 DEF DenotesTo
      <3>. QED BY <2>1, <3>1, <3>2, <3>3, <3>4 DEF DenotesOneOf
    <2>6. CASE files["log"] # NoFile
      <3>1. files'["log"] = Truncate(f, n)
        BY <2>2, <2>3, <2>6
      <3>2. ASSUME NEW e \in DOMAIN f.at, e + Size(f.at[e].rec) > n
            PROVE  DenotesOneOf(f, e, snapshots)
        <4>1. e \in Nat /\ f.at[e].rec \in Records
          BY <2>2, ReadLine
        <4>2. Size(f.at[e].rec) \in Nat
          BY <4>1, RecordFacts
        <4>3. e + Size(f.at[e].rec) > synced
          BY <2>1, <2>4, <3>2, <4>1, <4>2
        <4>. QED BY <1>2, <2>2, <2>6, <3>2, <4>3 DEF Intact, SnapInv
      <3>. QED BY <2>1, <2>2, <2>4, <3>1, <3>2, CutWhole
    <2>. QED BY <2>5, <2>6
  <1>3. files'["log"] = NoFile \/ IsFile(files'["log"])
    BY OSCrashInv DEF IInv, TypeOK, FileTypes, Intact, SnapInv
  <1>4. ASSUME NEW e \in Ends(files'["log"]), WholeTo(files'["log"], e)
        PROVE  Reading(files["log"], e)'
    <2>1. e \in Nat
      BY <1>3 DEF Ends, OpenAppend, IsFile, EmptyFile, NoFile, NoLines
    <2>. QED BY <1>1, <1>3, <1>4, <2>1, FreshReading
  <1>. QED BY <1>1, <1>2, <1>4 DEF Recovering, Claimed, Promised

\* A kill outside _gc leaves the log, or one line of it torn.
LEMMA KillRecovers ==
    ASSUME CrashAt \cap (CopySection \cup SwitchSection) = {},
           IInv, Intact, KillProcess
    PROVE  Intact' \/ Recovering'
  <1>1. /\ mode' = "down" /\ index' = EmptyIndex /\ log_offset' = 0 /\ crash_pos' = 0
        /\ ncrashes' = ncrashes + 1 /\ crashed' = "process" /\ mode # "down"
        /\ UNCHANGED <<store, snapshots, replaced, synced>>
        /\ \A t \in Threads : pc'[t] = "idle"
    BY DEF KillProcess, Kill, MemoryLost, All
  <1>2. \A t \in Threads : pc[t] \notin CopySection \cup SwitchSection
    BY DEF KillProcess, Kill
  <1>3. NotAt({"gc_rename"}) /\ BlocksWritten = {files}
    BY <1>2 DEF NotAt, BlocksWritten, CopySection, SwitchSection
  <1>4. CASE files' = files
    <2>1. files["log1"].len <= 0
      BY <1>2 DEF Intact, CInv, LeftInv, NotAt
    <2>2. CleanKill
      BY <1>3, <1>4, <2>1 DEF CleanKill, NotAt
    <2>3. Crash
      BY DEF KillProcess, Crash
    <2>4. CInv'
      BY <2>2, <2>3, CrashKeeps DEF Intact
    <2>5. SnapInv'
      BY <1>1, <1>4, QuietSnap DEF Intact
    <2>. QED BY <1>1, <2>4, <2>5 DEF Intact
  <1>5. CASE LastCrash /\ files' \in LineTorn
    <2>1. PICK t \in {u \in Threads : pc[u] \in {"put_log", "rm_log"}} :
            \E n \in {x \in 1..(Size(LineOf(t)) \div StdioBuf) :
                        x * StdioBuf < Size(LineOf(t))} :
               files' = [files EXCEPT !["log"] =
                            AppendRec(OpenAppend(@), LineOf(t), n * StdioBuf)]
      BY <1>5, ZenonT(30) DEF LineTorn
    <2>2. LineOf(t) \in Records
      BY <2>1 DEF LineOf, IInv, ReqInv, PutLine, Records
    <2>3. Size(LineOf(t)) \in Nat /\ StdioBuf \in Nat /\ StdioBuf > 0
      BY <2>2, RecordFacts, EngineAssumption, SizeAssumption DEF HeaderSize
    <2>. DEFINE blocks == {x \in 1..(Size(LineOf(t)) \div StdioBuf) :
                              x * StdioBuf < Size(LineOf(t))}
    <2>4. PICK n \in blocks :
             files' = [files EXCEPT !["log"] =
                          AppendRec(OpenAppend(@), LineOf(t), n * StdioBuf)]
      BY <2>1
    <2>. DEFINE f == OpenAppend(files["log"])
                m == n * StdioBuf
    <2>5. m \in Nat /\ m < Size(LineOf(t))
      <3>1. n \in Nat /\ n * StdioBuf < Size(LineOf(t))
        OBVIOUS
      <3>. QED BY <2>3, <3>1
    <2>6. files'["log"] = AppendRec(f, LineOf(t), m)
      BY <2>4 DEF IInv, TypeOK, FileTypes
    <2>7. /\ IsFile(f) /\ Tiled(f) /\ Disjoint(f)
          /\ \A k \in Keys : Denotes(f, k, store[k])
      BY <1>3, LogFacts DEF Intact
    <2>. HIDE DEF f, m
    <2>8. PICK e \in Ends(files'["log"]) :
             e \in Nat /\ WholeTo(files'["log"], e) /\ DenotesOneOf(files'["log"], e, {store})
      BY <2>2, <2>5, <2>6, <2>7, TornWhole DEF IsFile
    <2>9. IsFile(files'["log"])
      BY <2>2, <2>5, <2>6, <2>7, AppendRecType
    <2>10. Reading(files["log"], e)'
      BY <1>1, <2>8, <2>9, FreshReading
    <2>. QED BY <1>1, <1>5, <2>8, <2>10 DEF Recovering, Claimed, Promised, LastCrash
  <1>. QED BY <1>3, <1>4, <1>5 DEF KillProcess

-----------------------------------------------------------------------------
(* Recovery from what a crash has left *)

\* The crash has left whole lines up to e, and rebuild_btree is among them.
Among(e) == /\ e \in Ends(files["log"]) /\ WholeTo(files["log"], e)
            /\ Reading(files["log"], e)

\* Offsets in the index are those of lines: none is search's -1.
LEMMA RecoverNatural ==
    ASSUME IInv, NEW e, Among(e), NEW k \in Keys
    PROVE  ~ Aliased(k) /\ (Search(k) = -1 => index[k] = Absent)
  <1>. DEFINE f == files["log"]
              lines == {o \in DOMAIN f.at : f.at[o].rec.key = k /\ o < crash_pos}
  <1>1. \A o \in DOMAIN f.at : o \in Nat
    BY DEF IInv, TypeOK, FileTypes, IsFile, NoFile, NoLines
  <1>2. Replayed(f, crash_pos, k)
    BY DEF Among, Reading
  <1>3. Present(k) => index[k] \in Nat
    <2>1. CASE lines = {}
      BY <1>2, <2>1 DEF Replayed
    <2>2. CASE lines # {}
      BY <1>1, <1>2, <2>2 DEF Replayed
    <2>. QED BY <2>1, <2>2
  <1>. QED BY <1>3 DEF Aliased, Search, Present

\* Before e the parser finds the next whole line; at e, the end of the file.
LEMMA RecoverReads ==
    ASSUME IInv, NEW e, Among(e), NEW f, f = files["log"]
    PROVE  /\ crash_pos = e => ReadKeyValue(f, crash_pos) = {Fail}
           /\ crash_pos # e =>
                 /\ IsFile(f) /\ crash_pos \in DOMAIN f.at
                 /\ f.at[crash_pos].rec \in Records
                 /\ crash_pos < e /\ e \in Nat /\ crash_pos \in Nat /\ e <= f.len
                 /\ ReadKeyValue(f, crash_pos) = {f.at[crash_pos].rec}
                 /\ LET end == crash_pos + Size(f.at[crash_pos].rec)
                    IN end = e \/ (end < e /\ end \in DOMAIN f.at)
  <1>1. CASE crash_pos = e
    BY <1>1 DEF Among, WholeTo
  <1>2. CASE crash_pos # e
    <2>1. crash_pos \in DOMAIN f.at /\ crash_pos < e
      BY <1>2 DEF Among, Reading
    <2>2. IsFile(f) /\ f # NoFile
      <3>1. f # NoFile
        BY <2>1 DEF NoFile, NoLines
      <3>. QED BY <3>1 DEF IInv, TypeOK, FileTypes
    <2>3. OpenAppend(f) = f
      BY <2>2 DEF OpenAppend
    <2>4. e \in Nat /\ e <= f.len /\ crash_pos \in Nat /\ f.at[crash_pos].rec \in Records
      BY <2>1, <2>2, <2>3 DEF Among, Ends, WholeTo, IsFile, Entry
    <2>5. /\ HasRec(f, crash_pos)
          /\ LET end == crash_pos + Size(f.at[crash_pos].rec)
             IN end = e \/ (end < e /\ end \in DOMAIN f.at)
      BY <2>1 DEF Among, WholeTo
    <2>6. ~ crash_pos >= f.len
      BY <2>1, <2>2, <2>4 DEF IsFile
    <2>. QED BY <1>2, <2>1, <2>2, <2>4, <2>5, <2>6 DEF ReadKeyValue
  <1>. QED BY <1>1, <1>2

\* Replaying one of the lines.
LEMMA RecoverLine ==
    ASSUME IInv, Fits, NEW e, Among(e), crash_pos # e, files' = files,
           RebuildLine(files["log"].at[crash_pos].rec)
    PROVE  Among(e)'
  <1>. DEFINE f == files["log"]
              line == f.at[crash_pos].rec
  <1>1. /\ IsFile(f) /\ crash_pos \in DOMAIN f.at /\ line \in Records
        /\ crash_pos < e /\ e \in Nat /\ crash_pos \in Nat /\ e <= f.len
        /\ LET end == crash_pos + Size(line)
           IN end = e \/ (end < e /\ end \in DOMAIN f.at)
    BY RecoverReads
  <1>2. /\ Size(line) \in Nat /\ Size(line) > 0 /\ line.key \in Keys
        /\ line.op # "put" => line.op = "rm"
    BY <1>1, RecordFacts
  <1>3. log_offset = crash_pos /\ f.len <= IntMax /\ f.len \in Nat
    BY <1>1 DEF Among, Reading, Fits, IsFile
  <1>4. crash_pos' = crash_pos + Size(line) /\ log_offset' = crash_pos'
    <2>1. crash_pos + Size(line) \in Nat /\ crash_pos + Size(line) <= IntMax
      BY <1>1, <1>2, <1>3, EngineAssumption
    <2>. QED BY <1>3, <2>1, ToIntExact DEF RebuildLine
  <1>5. index' = [index EXCEPT ![line.key] =
                    IF line.op = "put" THEN crash_pos ELSE Absent]
    BY <1>2, <1>3, RecoverNatural DEF RebuildLine
  <1>6. /\ \A k \in Keys : k # line.key => index'[k] = index[k]
        /\ line.op = "put" => index'[line.key] = crash_pos
        /\ line.op # "put" => index'[line.key] = Absent
    BY <1>2, <1>5 DEF IInv, TypeOK, IndexTypes
  <1>7. ASSUME NEW k \in Keys PROVE Replayed(f, crash_pos, k)'
    <2>. DEFINE old == {o \in DOMAIN f.at : f.at[o].rec.key = k /\ o < crash_pos}
                new == {o \in DOMAIN f.at : f.at[o].rec.key = k /\ o < crash_pos'}
    <2>1. \A o \in DOMAIN f.at : o \in Nat
      BY <1>1 DEF IsFile
    <2>2. \A o \in DOMAIN f.at : o < crash_pos' <=> o < crash_pos \/ o = crash_pos
      <3>1. \A o \in DOMAIN f.at : crash_pos < o /\ o <= e => crash_pos + Size(line) <= o
        BY <1>1 DEF Among, WholeTo
      <3>. QED BY <1>1, <1>2, <1>4, <2>1, <3>1
    <2>3. Replayed(f, crash_pos, k)
      BY DEF Among, Reading
    <2>4. f' = f
      OBVIOUS
    <2>5. CASE k = line.key
      <3>1. crash_pos \in new /\ \A p \in new : p <= crash_pos
        BY <1>1, <2>1, <2>2, <2>5
      <3>. QED BY <1>1, <1>6, <2>4, <2>5, <3>1 DEF Replayed, Present
    <2>6. CASE k # line.key
      <3>1. new = old /\ index'[k] = index[k]
        BY <1>1, <1>6, <2>2, <2>6
      <3>. QED BY <2>3, <2>4, <3>1 DEF Replayed, Present
    <2>. QED BY <2>5, <2>6
  <1>8. Reading(f, e)'
    BY <1>1, <1>4, <1>7 DEF Reading
  <1>. QED BY <1>8 DEF Among

\* At e the index is that of the store which the lines before e denote.
LEMMA RecoverComplete ==
    ASSUME IInv, NEW e, Among(e), crash_pos = e, NEW k \in Keys, NEW v,
           DenotesTo(files["log"], e, k, v)
    PROVE  IF v = NoVal THEN index[k] = Absent
           ELSE index[k] # Absent /\ PointsTo(files["log"], index[k], k, v)
  <1>. DEFINE f == files["log"]
              lines == {o \in DOMAIN f.at : f.at[o].rec.key = k /\ o < e}
  <1>1. Replayed(f, e, k)
    BY DEF Among, Reading
  <1>2. CASE lines = {}
    BY <1>1, <1>2 DEF DenotesTo, Replayed, Present
  <1>3. CASE lines # {}
    <2>1. PICK o \in lines : (\A p \in lines : p <= o) /\ f.at[o].rec.val = v
      BY <1>3 DEF DenotesTo
    <2>2. PICK q \in lines :
             /\ \A p \in lines : p <= q
             /\ IF f.at[q].rec.op = "put" THEN index[k] = q ELSE ~ Present(k)
      BY <1>1, <1>3 DEF Replayed
    <2>3. IsFile(f)
      BY <2>1 DEF IInv, TypeOK, FileTypes, NoFile, NoLines
    <2>4. o = q /\ q \in Nat /\ f.at[q].rec \in Records /\ HasRec(f, q)
      BY <2>1, <2>2, <2>3 DEF IsFile, Entry, Among, WholeTo
    <2>5. CASE f.at[q].rec.op = "put"
      <3>1. f.at[q].rec = PutRec(k, v) /\ v # NoVal
        BY <2>1, <2>4, <2>5, RecordFacts
      <3>2. index[k] = q /\ index[k] # Absent
        BY <2>2, <2>4, <2>5, EngineAssumption
      <3>. QED BY <2>4, <3>1, <3>2 DEF PointsTo
    <2>6. CASE f.at[q].rec.op # "put"
      BY <2>1, <2>2, <2>4, <2>6, RecordFacts DEF Present
    <2>. QED BY <2>5, <2>6
  <1>. QED BY <1>2, <1>3

\* A running engine stays up, or aborts.
LEMMA StepMode ==
    ASSUME NEW t \in Threads, (\E r \in Requests : Call(t, r)) \/ Step(t)
    PROVE  /\ mode = "up" /\ mode' \in {"up"} \cup Faults
           /\ ncrashes' = ncrashes
  <1>. USE DEF At, Abort, steady, Faults
  <1>1. CASE \E r \in Requests : Call(t, r)
    BY <1>1 DEF Call
  <1>2. CASE WriteLock(t) \/ ReadLock(t) \/ ReadLock2(t) \/ Return(t)
    BY <1>2 DEF WriteLock, ReadLock, ReadLock2, Return
  <1>3. CASE PutLog(t) \/ PutIndex(t) \/ RmIndex(t) \/ RmLog(t) \/ SyncFile(t)
    BY <1>3 DEF PutLog, PutIndex, RmIndex, RmLog, SyncFile
  <1>4. CASE GetSearch(t) \/ GetRead(t)
    BY <1>4 DEF GetSearch, GetRead
  <1>5. CASE VisitOpen(t) \/ VisitStep(t) \/ VisitEnd(t)
    BY <1>5 DEF VisitOpen, VisitStep, VisitEnd
  <1>6. CASE GcDeferred(t) \/ GcLaunch(t) \/ GcLock(t) \/ GcShared(t)
    BY <1>6 DEF GcDeferred, GcLaunch, GcLock, GcShared
  <1>7. CASE GcCopy(t)
    BY <1>7 DEF GcCopy
  <1>8. CASE GcClose(t) \/ GcLock2(t) \/ GcReindex(t) \/ GcRemove(t) \/ GcRename(t)
    BY <1>8 DEF GcClose, GcLock2, GcReindex, GcRemove, GcRename
  <1>. QED BY <1>1, <1>2, <1>3, <1>4, <1>5, <1>6, <1>7, <1>8 DEF Step

-----------------------------------------------------------------------------
(* The invariant *)

\* Until the crash that tears or loses lines, the cuts behind what is on the disk
\* denote stores since the last sync.
LEMMA RunningSnap ==
    ASSUME IInv, Intact, NEW t \in Threads,
           WriteLine(t) \/ Sync(t) \/ DropLog(t) \/ OtherStep(t)
    PROVE  SnapInv' /\ crashed' = "process"
  <1>. USE DEF Intact
  <1>1. CASE WriteLine(t)
    BY <1>1, WriteLineSnap DEF WriteLine
  <1>2. CASE Sync(t)
    BY <1>2, SyncSnap DEF Sync
  <1>3. CASE DropLog(t)
    BY <1>3 DEF DropLog, GcRemove, SnapInv
  <1>4. CASE OtherStep(t)
    <2>1. /\ store' = store
          /\ files'["log"] = files["log"] \/ pc[t] = "gc_rename"
          /\ \A u \in Threads : pc'[u] = "gc_rename" => pc[u] = "gc_rename"
      BY <1>4, OtherKeeps
    <2>2. UNCHANGED <<synced, snapshots, replaced, crashed>>
      BY <1>4 DEF OtherStep, history
    <2>3. ~ replaced => files'["log"] = files["log"]
      BY <2>1 DEF SnapInv
    <2>4. \A u \in Threads : pc'[u] = "gc_rename" => replaced
      BY <2>1 DEF SnapInv
    <2>5. SnapInv'
      BY <2>1, <2>2, <2>3, <2>4, QuietSnap
    <2>. QED BY <2>2, <2>5
  <1>. QED BY <1>1, <1>2, <1>3, <1>4

\* The engine that runs on an intact log keeps it intact, or a crash begins its
\* recovery.
LEMMA IntactStep ==
    ASSUME CrashAt \cap (CopySection \cup SwitchSection) = {},
           IInv, Intact, Fits, Fits', [DNext]_dvars
    PROVE  Intact' \/ Recovering'
  <1>1. CASE KillProcess
    BY <1>1, KillRecovers
  <1>2. CASE OSCrash
    BY <1>2, OSCrashRecovers
  <1>3. CASE ~ KillProcess /\ ~ OSCrash
    <2>1. [Next]_vars
      BY <1>3, DNextIsNext
    <2>2. CASE mode' = "down" /\ mode # "down"
      <3>1. \A t \in Threads :
               WriteLine(t) \/ Sync(t) \/ DropLog(t) \/ OtherStep(t) =>
                  (\E r \in Requests : Call(t, r)) \/ Step(t)
        BY DEF WriteLine, Sync, DropLog, OtherStep, Step
      <3>2. ~ \E t \in Threads : (\E r \in Requests : Call(t, r)) \/ Step(t)
        BY <2>2, StepMode DEF Faults
      <3>3. ~ (Open \/ RebuildStep)
        BY <2>2 DEF Open, RebuildStep, RebuildLine, Abort
      <3>4. ~ (Terminated \/ UNCHANGED dvars)
        BY <2>2 DEF Terminated, vars, dvars
      <3>. QED BY <1>3, <3>1, <3>2, <3>3, <3>4 DEF DNext, Restart
    <2>3. CASE ~ (mode' = "down" /\ mode # "down")
      <3>1. CInv'
        BY <2>1, <2>3, NextContents DEF CleanKill, Intact
      <3>2. CASE \E t \in Threads :
                    WriteLine(t) \/ Sync(t) \/ DropLog(t) \/ OtherStep(t)
        BY <3>1, <3>2, RunningSnap DEF Intact
      <3>3. CASE UNCHANGED <<files, store, pc, synced, history>>
        <4>1. \A u \in Threads : pc'[u] = "gc_rename" => replaced
          BY <3>3 DEF Intact, SnapInv
        <4>2. SnapInv'
          BY <3>3, <4>1, QuietSnap DEF history, Intact
        <4>. QED BY <3>1, <3>3, <4>2 DEF history, Intact
      <3>. QED BY <1>3, <3>2, <3>3
           DEF DNext, Restart, Open, RebuildStep, Terminated, vars, dvars
    <2>. QED BY <2>2, <2>3
  <1>. QED BY <1>1, <1>2, <1>3

\* After the last crash nothing happens before the engine is constructed.
LEMMA RecoveringNext ==
    ASSUME Recovering, [DNext]_dvars
    PROVE  \/ Open /\ UNCHANGED <<synced, history>>
           \/ RebuildStep /\ UNCHANGED <<synced, history>>
           \/ UNCHANGED dvars
  <1>1. mode # "up" /\ mode \notin Faults /\ ~ (ncrashes < MaxCrashes)
    BY EngineAssumption DEF Recovering, Faults
  <1>2. \A t \in Threads :
           ~ (WriteLine(t) \/ Sync(t) \/ DropLog(t) \/ OtherStep(t))
    <2>1. \A t \in Threads :
             WriteLine(t) \/ Sync(t) \/ DropLog(t) \/ OtherStep(t) =>
                (\E r \in Requests : Call(t, r)) \/ Step(t)
      BY DEF WriteLine, Sync, DropLog, OtherStep, Step
    <2>. QED BY <1>1, <2>1, StepMode
  <1>3. ~ KillProcess /\ ~ OSCrash /\ ~ Terminated
    BY <1>1 DEF KillProcess, OSCrash, Kill, Terminated
  <1>. QED BY <1>2, <1>3 DEF DNext, Restart

\* Where the claim applies, a turn of rebuild_btree replays a line before the cut,
\* or ends there.
LEMMA RecoverTurn ==
    ASSUME IInv, Fits, RebuildStep, NEW e, Among(e)
    PROVE  \/ mode' = "rebuild" /\ Among(e)'
           \/ /\ crash_pos = e /\ mode' = "up" /\ index' = index
  <1>1. PICK line \in ReadKeyValue(files["log"], crash_pos) :
          \/ RebuildLine(line)
          \/ /\ \/ line.op = "fail" /\ mode' = "up"
                \/ line.op = "junk" /\ Abort("junk")
                \/ line.op = "put" /\ Aliased(line.key) /\ Abort("dup_key")
             /\ UNCHANGED <<index, log_offset, crash_pos>>
    BY DEF RebuildStep
  <1>2. files' = files /\ mode = "rebuild"
    BY DEF RebuildStep
  <1>3. CASE crash_pos = e
    <2>1. line = Fail
      BY <1>3, RecoverReads
    <2>. QED BY <1>1, <1>3, <2>1 DEF Fail, RebuildLine
  <1>4. CASE crash_pos # e
    <2>1. line = files["log"].at[crash_pos].rec /\ line \in Records
      BY <1>4, RecoverReads
    <2>2. line.op \in {"put", "rm"} /\ line.key \in Keys
      BY <2>1, RecordFacts
    <2>3. ~ Aliased(line.key)
      BY <2>2, RecoverNatural
    <2>4. RebuildLine(line)
      BY <1>1, <2>2, <2>3
    <2>5. mode' = "rebuild"
      BY <1>2, <2>4 DEF RebuildLine
    <2>. QED BY <1>2, <1>4, <2>1, <2>4, <2>5, RecoverLine
  <1>. QED BY <1>3, <1>4

\* The recovery goes on, or is over.
LEMMA RecoveringStep ==
    ASSUME IInv, IInv', Fits, Recovering, [DNext]_dvars
    PROVE  Recovering' \/ Recovered'
  <1>1. CASE UNCHANGED dvars
    <2>1. UNCHANGED <<files, index, log_offset, crash_pos, ncrashes, mode, store,
                      snapshots, replaced, crashed>>
      BY <1>1 DEF dvars, vars, steady, history
    <2>. QED BY <2>1 DEF Recovering, Claimed, Promised, Reading, Replayed, Present
  <1>2. CASE Open /\ UNCHANGED <<synced, history>>
    <2>1. /\ UNCHANGED <<files, index, log_offset, crash_pos, ncrashes, store,
                         snapshots, replaced, crashed>>
          /\ mode' \in {"up", "rebuild"} /\ ncrashes = MaxCrashes
      BY <1>2 DEF Open, steady, history, Recovering
    <2>2. CASE mode' = "up"
      BY <2>1, <2>2 DEF Recovered
    <2>3. CASE mode' = "rebuild"
      BY <2>1, <2>3 DEF Recovering, Claimed, Promised, Reading, Replayed, Present
    <2>. QED BY <2>1, <2>2, <2>3
  <1>3. CASE RebuildStep /\ UNCHANGED <<synced, history>>
    <2>1. /\ UNCHANGED <<files, ncrashes, store, snapshots, replaced, crashed>>
          /\ ncrashes = MaxCrashes
      BY <1>3 DEF RebuildStep, history, Recovering
    <2>2. mode' \in {"rebuild", "up"} \cup Faults
      BY <1>3 DEF RebuildStep, RebuildLine, Abort, Faults
    <2>3. CASE mode' = "rebuild"
      <3>1. ASSUME Claimed
            PROVE  \E e \in Ends(files'["log"]) :
                      /\ WholeTo(files'["log"], e)
                      /\ DenotesOneOf(files'["log"], e, Promised')
                      /\ Reading(files["log"], e)'
        <4>1. PICK e \in Ends(files["log"]) :
                 /\ WholeTo(files["log"], e)
                 /\ DenotesOneOf(files["log"], e, Promised)
                 /\ Reading(files["log"], e)
          BY <3>1 DEF Recovering
        <4>2. Among(e)'
          BY <1>3, <2>3, <4>1, RecoverTurn DEF Among
        <4>. QED BY <2>1, <4>1, <4>2 DEF Among, Promised
      <3>. QED BY <2>1, <2>3, <3>1 DEF Recovering, Claimed
    <2>4. CASE mode' \in {"up"} \cup Faults
      BY <2>1, <2>4 DEF Recovered
    <2>. QED BY <2>2, <2>3, <2>4
  <1>. QED BY <1>1, <1>2, <1>3, RecoveringNext

\* A recovered engine does not crash or start again.
LEMMA RecoveredStep ==
    ASSUME Recovered, [DNext]_dvars
    PROVE  Recovered' /\ ~ OSCrash /\ (mode' = "up" => mode = "up")
  <1>1. /\ ncrashes = MaxCrashes /\ ~ (ncrashes < MaxCrashes)
        /\ mode \notin {"down", "rebuild"}
    BY EngineAssumption DEF Recovered, Faults
  <1>2. ~ KillProcess /\ ~ OSCrash /\ ~ Restart
    BY <1>1 DEF KillProcess, OSCrash, Kill, Restart, Open, RebuildStep
  <1>3. CASE \E t \in Threads :
               WriteLine(t) \/ Sync(t) \/ DropLog(t) \/ OtherStep(t)
    <2>1. \A t \in Threads :
             WriteLine(t) \/ Sync(t) \/ DropLog(t) \/ OtherStep(t) =>
                (\E r \in Requests : Call(t, r)) \/ Step(t)
      BY DEF WriteLine, Sync, DropLog, OtherStep, Step
    <2>. QED BY <1>1, <1>2, <1>3, <2>1, StepMode DEF Recovered
  <1>4. CASE Terminated \/ UNCHANGED dvars
    BY <1>2, <1>4 DEF Recovered, Terminated, dvars, vars, steady
  <1>. QED BY <1>2, <1>3, <1>4 DEF DNext

-----------------------------------------------------------------------------
(* The theorems *)

\* The log is empty when the first process starts.
LEMMA InitDurable ==
    ASSUME DInit
    PROVE  DInv
  <1>1. IInv /\ CInv
    BY InitInv, InitContents DEF DInit
  <1>2. /\ DOMAIN files["log"].at = {}
        /\ \A t \in Threads : pc[t] = "idle"
    BY DEF DInit, Init, Memory, All, NoFile, EmptyFile, NoLines
  <1>3. SnapInv
    BY <1>2 DEF DInit, SnapInv
  <1>. QED BY <1>1, <1>3 DEF DInit, DInv, Intact

\* Every step preserves the invariant, if offsets fit an int and kills do not come
\* in the middle of _gc.
LEMMA NextDurable ==
    ASSUME CrashAt \cap (CopySection \cup SwitchSection) = {},
           DInv, Fits, Fits', [DNext]_dvars
    PROVE  DInv'
  <1>1. CASE Intact
    <2>1. IInv'
      BY <1>1, DNextIsNext, NextInv, OSCrashInv DEF DInv, Intact, SnapInv
    <2>. QED BY <1>1, <2>1, IntactStep DEF DInv
  <1>2. CASE Recovering
    <2>1. ~ OSCrash
      BY <1>2, EngineAssumption DEF Recovering, OSCrash, Kill
    <2>2. IInv'
      BY <2>1, DNextIsNext, NextInv DEF DInv
    <2>. QED BY <1>2, <2>2, RecoveringStep DEF DInv
  <1>3. CASE Recovered
    <2>1. Recovered' /\ ~ OSCrash
      BY <1>3, RecoveredStep
    <2>2. IInv'
      BY <2>1, DNextIsNext, NextInv DEF DInv
    <2>. QED BY <2>1, <2>2 DEF DInv
  <1>. QED BY <1>1, <1>2, <1>3 DEF DInv

\* A process that starts on an intact log starts with the store.
LEMMA IntactStart ==
    ASSUME IInv, Intact, Intact', [DNext]_dvars, mode # "up", mode' = "up"
    PROVE  StartsWithOneOf(Promised)
  <1>1. Promised = {store}
    BY DEF Intact, Promised
  <1>2. Restart
    <2>1. \A t \in Threads :
             ~ (WriteLine(t) \/ Sync(t) \/ DropLog(t) \/ OtherStep(t))
      <3>1. \A t \in Threads :
               WriteLine(t) \/ Sync(t) \/ DropLog(t) \/ OtherStep(t) =>
                  (\E r \in Requests : Call(t, r)) \/ Step(t)
        BY DEF WriteLine, Sync, DropLog, OtherStep, Step
      <3>. QED BY <3>1, StepMode
    <2>2. ~ KillProcess /\ ~ OSCrash /\ ~ Terminated /\ ~ UNCHANGED dvars
      BY DEF KillProcess, OSCrash, Kill, Terminated, dvars, vars
    <2>. QED BY <2>1, <2>2 DEF DNext
  <1>3. UNCHANGED <<files, store, pc, req>> /\ mode \in {"down", "rebuild"}
    BY <1>2 DEF Restart, Open, RebuildStep
  <1>4. \A t \in Threads : pc'[t] = "idle"
    BY <1>3 DEF IInv, BootInv
  <1>5. CurrentLog' = files["log"] /\ \A k \in Keys : ~ BeingWritten(k)'
    BY <1>3, <1>4 DEF CurrentLog, BeingWritten
  <1>6. ASSUME NEW k \in Keys
        PROVE  IF store[k] = NoVal THEN index'[k] = Absent
               ELSE index'[k] # Absent /\ PointsTo(files["log"], index'[k], k, store[k])
    <2>1. IF store'[k] = NoVal THEN ~ Present(k)'
          ELSE Present(k)' /\ PointsTo(CurrentLog', index'[k], k, store'[k])
      BY <1>5 DEF Intact, CInv, IndexSound
    <2>. QED BY <1>3, <1>5, <2>1 DEF Present
  <1>. QED BY <1>1, <1>6 DEF StartsWithOneOf

\* A process that starts on what the last crash has left starts with a promised
\* store, where SyncedSurvives claims it.
LEMMA RecoveredStart ==
    ASSUME IInv, Fits, Recovering, Claimed, [DNext]_dvars, mode' = "up"
    PROVE  StartsWithOneOf(Promised)
  <1>1. PICK e \in Ends(files["log"]) :
           /\ WholeTo(files["log"], e)
           /\ DenotesOneOf(files["log"], e, Promised)
           /\ Reading(files["log"], e)
    BY DEF Recovering
  <1>2. PICK s \in Promised : \A k \in Keys : DenotesTo(files["log"], e, k, s[k])
    BY <1>1 DEF DenotesOneOf
  <1>3. Among(e)
    BY <1>1 DEF Among
  <1>4. crash_pos = e /\ index' = index
    <2>1. CASE RebuildStep
      BY <1>3, <2>1, RecoverTurn
    <2>2. CASE Open
      <3>1. files["log"] = NoFile /\ index' = index /\ crash_pos = 0
        BY <2>2 DEF Open, Recovering
      <3>2. Ends(NoFile) = {0}
        BY DEF Ends, OpenAppend, NoFile, EmptyFile, NoLines
      <3>. QED BY <3>1, <3>2
    <2>3. ~ UNCHANGED dvars
      BY DEF Recovering, dvars, vars
    <2>. QED BY <2>1, <2>2, <2>3, RecoveringNext
  <1>5. ASSUME NEW k \in Keys
        PROVE  IF s[k] = NoVal THEN index'[k] = Absent
               ELSE index'[k] # Absent /\ PointsTo(files["log"], index'[k], k, s[k])
    BY <1>2, <1>3, <1>4, RecoverComplete
  <1>. QED BY <1>5 DEF StartsWithOneOf

\* If no kill comes in the middle of _gc and offsets fit an int, the engine is
\* intact, recovering from its last crash, or recovered from it.
THEOREM DurabilityInvariance ==
    ASSUME CrashAt \cap (CopySection \cup SwitchSection) = {}
    PROVE  DSpec /\ []Fits => []DInv
  <1>1. DInit => DInv
    BY InitDurable
  <1>2. DInv /\ Fits /\ Fits' /\ [DNext]_dvars => DInv'
    BY NextDurable
  <1>. QED BY <1>1, <1>2, PTL DEF DSpec

\* sync keeps its promise (engine.h): whatever crashes, and wherever the log is cut
\* or torn, the next process starts with a store at or since the last successful
\* sync, as long as no _gc has replaced the log since; after a kill, with all that
\* was written.
THEOREM SyncedCorrect ==
    ASSUME CrashAt \cap (CopySection \cup SwitchSection) = {}
    PROVE  DSpec /\ []Fits => SyncedSurvives
  <1>1. ASSUME DInv, Fits, Fits', [DNext]_dvars
        PROVE  [Claimed => StartsWithOneOf(Promised)]_dvars
    <2>. SUFFICES ASSUME Claimed, mode # "up", mode' = "up"
                  PROVE  StartsWithOneOf(Promised)
      BY DEF StartsWithOneOf
    <2>1. CASE Intact
      <3>1. ~ Recovering'
        BY DEF Recovering
      <3>2. Intact'
        BY <1>1, <2>1, <3>1, IntactStep DEF DInv
      <3>. QED BY <1>1, <2>1, <3>2, IntactStart DEF DInv
    <2>2. CASE Recovering
      BY <1>1, <2>2, RecoveredStart DEF DInv
    <2>3. CASE Recovered
      BY <1>1, <2>3, RecoveredStep
    <2>. QED BY <1>1, <2>1, <2>2, <2>3 DEF DInv
  <1>. QED BY <1>1, DurabilityInvariance, PTL DEF DSpec, SyncedSurvives, Claimed
=============================================================================
