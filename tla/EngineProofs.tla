---------------------------- MODULE EngineProofs -----------------------------
(***************************************************************************)
(* Proofs about Engine, for every set of threads, keys and values, every   *)
(* size of keys and values and every choice of kill points.                *)
(*                                                                         *)
(* TypeOK is not inductive: that _gc finds an offset for every key when it *)
(* rewrites the index depends on nobody changing the index while it copies,*)
(* hence on the locks.  IInv adds which locks each program point holds.    *)
(***************************************************************************)
EXTENDS Engine, TLAPS

\* What each program point implies about the locks of its thread.
LockInv ==
    \A t \in Threads :
      /\ pc[t] \in WriteSection => t \in mutex.ex
      /\ pc[t] \in ReadSection \cup {"get_lock2", "visit_lock2"} =>
            t \in mutex.sh
      /\ pc[t] \in ReadSection => t \in mutex2.sh
      /\ pc[t] \in CopySection \cup SwitchSection => t \in mutex.sh
      /\ pc[t] \in CopySection \cup SwitchSection \cup {"gc_shared"} =>
            mutex_gc = {t}
      /\ pc[t] \in SwitchSection => t \in mutex2.ex

\* A thread inside the handler of a call executes a call of that kind.
ReqInv ==
    \A t \in Threads :
      /\ pc[t] \in {"put", "put_log", "put_index"} =>
            /\ req[t].op = "put"
            /\ req[t].key \in Keys /\ req[t].val \in Values
      /\ pc[t] \in {"remove", "rm_index", "rm_log"} =>
            /\ req[t].op = "remove"
            /\ req[t].key \in Keys
      /\ pc[t] \in {"get", "get_lock2", "get_search", "get_read"} =>
            req[t].key \in Keys
      /\ pc[t] \in {"visit", "visit_lock2", "visit_open", "visit_scan"} =>
            req[t].lower \in Nat

\* _gc has a new offset for every key up to its cursor, at the end for all, and
\* log(1) exists from its creation to the rename.
GcInv ==
    \A t \in Threads :
      /\ pc[t] \in {"idle", "gc", "gc_lock", "gc_shared"} => cursor[t] = -1
      /\ pc[t] = "gc_copy" =>
            \A k \in Keys : Present(k) /\ k <= cursor[t] => moved[t][k] \in Int
      /\ pc[t] \in {"gc_lock2", "gc_reindex"} =>
            \A k \in Keys : Present(k) => moved[t][k] \in Int
      /\ pc[t] \in CopySection \cup SwitchSection => IsFile(files["log1"])

\* No call is in progress while the engine is constructed.
BootInv == mode \in {"down", "rebuild"} => \A t \in Threads : pc[t] = "idle"

IInv == TypeOK /\ LockInv /\ ReqInv /\ GcInv /\ BootInv

-----------------------------------------------------------------------------
(* Lines and files *)

\* A line is at least its two size words long: offsets only move forward.
LEMMA SizeType ==
    ASSUME NEW r \in Records
    PROVE  Size(r) \in Nat
BY SizeAssumption, NoValAssumption
   DEF Size, HeaderSize, Records, PutRec, RmRec

\* Conversion to int yields an integer.
LEMMA ToIntType ==
    ASSUME NEW n \in Int
    PROVE  ToInt(n) \in Int
BY EngineAssumption DEF ToInt

\* Appending bytes of a line to a file yields a file.
LEMMA AppendRecType ==
    ASSUME NEW f, IsFile(f), NEW r \in Records, NEW n \in Nat
    PROVE  IsFile(AppendRec(f, r, n))
BY DEF IsFile, AppendRec, Entry

\* Opening for appending yields a file.
LEMMA OpenAppendType ==
    ASSUME NEW f, f = NoFile \/ IsFile(f)
    PROVE  IsFile(OpenAppend(f))
BY DEF IsFile, OpenAppend, EmptyFile, NoLines

\* A prefix of a file is a file.
LEMMA TruncateType ==
    ASSUME NEW f, IsFile(f), NEW n \in Nat
    PROVE  IsFile(Truncate(f, n))
BY DEF IsFile, Truncate, Entry

\* The parser yields a line, fails, or takes stray bytes for a line.
LEMMA ReadType ==
    ASSUME NEW f, IsFile(f), NEW o \in Int, NEW line \in ReadKeyValue(f, o)
    PROVE  line \in Records \/ line = Fail \/ line = Junk
BY DEF IsFile, ReadKeyValue, HasRec, Entry

\* Locking a free lock, and unlocking, leave a lock in a legal state.
LEMMA MutexType ==
    ASSUME NEW m, IsMutex(m), NEW t \in Threads
    PROVE  /\ CanLock(m) => IsMutex(Lock(m, t))
           /\ CanLockShared(m) => IsMutex(LockShared(m, t))
           /\ IsMutex(Unlock(m, t))
BY DEF IsMutex, CanLock, Lock, CanLockShared, LockShared, Unlock

-----------------------------------------------------------------------------
(* The inductive invariant *)

\* One turn of the copy loop of _gc preserves the invariant.
LEMMA GcCopyInv ==
    ASSUME IInv, NEW t \in Threads, GcCopy(t)
    PROVE  IInv'
  <1>. USE DEF IInv, TypeOK, At, Abort, locks, steady
  <1>1. pc[t] = "gc_copy" /\ IsFile(files["log1"])
    BY DEF GcCopy, GcInv, CopySection
  <1>2. IndexTypes' /\ LockTypes' /\ BoundTypes'
    BY DEF GcCopy, IndexTypes, LockTypes, BoundTypes, Faults
  <1>3. LockInv' /\ ReqInv' /\ BootInv'
    BY DEF GcCopy, LockInv, ReqInv, BootInv, Faults
  <1>4. CASE UNCHANGED <<files, offset, cursor, fpos, moved>>
    <2>1. FileTypes' /\ ThreadTypes'
      BY <1>4 DEF GcCopy, FileTypes, ThreadTypes
    <2>2. GcInv'
      BY <1>4 DEF GcCopy, GcInv, Present
    <2>. QED BY <1>2, <1>3, <2>1, <2>2
  <1>5. ASSUME NEW k \in NextKey(cursor[t]),
               NEW line \in ReadKeyValue(files["log"], Seek(fpos[t], index[k])),
               files["log"] # NoFile,
               line.op \in {"put", "rm"},
               files' = [files EXCEPT !["log1"] =
                            AppendRec(@, line, Size(line))],
               moved' = [moved EXCEPT ![t][k] = offset[t]],
               offset' = [offset EXCEPT ![t] = @ + Size(line)],
               fpos' = [fpos EXCEPT ![t] =
                            Seek(fpos[t], index[k]) + Size(line)],
               cursor' = [cursor EXCEPT ![t] = k]
        PROVE  IInv'
    <2>1. k \in Keys /\ Present(k) /\ k \in Nat /\ index[k] \in Int
      BY KeysAssumption DEF NextKey, IndexTypes, Present
    <2>2. Seek(fpos[t], index[k]) \in Nat
      BY <2>1 DEF Seek, ThreadTypes
    <2>3. line \in Records
      BY <1>5, <2>2, ReadType DEF FileTypes, Fail, Junk
    <2>4. Size(line) \in Nat
      BY <2>3, SizeType
    <2>5. IsFile(AppendRec(files["log1"], line, Size(line)))
      BY <1>1, <2>3, <2>4, AppendRecType
    <2>6. FileTypes'
      BY <1>5, <2>5 DEF FileTypes
    <2>7. ThreadTypes'
      BY <1>5, <2>1, <2>2, <2>4 DEF GcCopy, ThreadTypes
    <2>8. GcInv'
      <3>1. \A u \in Threads : u # t =>
               pc[u] \notin CopySection \cup SwitchSection
        BY <1>1 DEF LockInv, CopySection
      <3>2. \A j \in Keys : Present(j)' /\ j <= k =>
               moved'[t][j] \in Int
        <4>. SUFFICES ASSUME NEW j \in Keys, Present(j), j <= k
                      PROVE  moved'[t][j] \in Int
          BY DEF GcCopy, Present
        <4>1. j \in Nat /\ (j <= cursor[t] \/ j = k)
          BY <2>1, KeysAssumption DEF NextKey, ThreadTypes
        <4>2. CASE j = k
          BY <1>5, <2>1, <4>2 DEF ThreadTypes
        <4>3. CASE j # k
          BY <1>1, <1>5, <4>1, <4>3 DEF ThreadTypes, GcInv
        <4>. QED BY <4>2, <4>3
      <3>3. pc' = pc /\ cursor'[t] = k /\ IsFile(files'["log1"])
        BY <1>5, <2>5 DEF GcCopy, ThreadTypes, FileTypes
      <3>4. \A u \in Threads : u # t => cursor'[u] = cursor[u]
        BY <1>5 DEF ThreadTypes
      <3>. QED BY <1>1, <3>1, <3>2, <3>3, <3>4
               DEF GcInv, CopySection, SwitchSection
    <2>. QED BY <1>2, <1>3, <2>6, <2>7, <2>8
  <1>. QED BY <1>4, <1>5 DEF GcCopy

\* Every step of a thread inside a call preserves the invariant.
LEMMA StepInv ==
    ASSUME IInv, NEW t \in Threads, Step(t)
    PROVE  IInv'
  <1>. USE DEF IInv, TypeOK, At, Goto, Finish, Abort, locks, locals, steady,
              WriteSection, ReadSection, CopySection, SwitchSection
  <1>1. CASE WriteLock(t)
    <2>1. FileTypes' /\ IndexTypes' /\ LockTypes' /\ ThreadTypes' /\ BoundTypes'
      BY <1>1, MutexType
         DEF WriteLock, FileTypes, IndexTypes, LockTypes, ThreadTypes,
             BoundTypes, Labels, Faults
    <2>2. LockInv'
      BY <1>1
         DEF WriteLock, LockTypes, ThreadTypes, IsMutex, LockInv, CanLock,
             Lock
    <2>3. ReqInv' /\ BootInv'
      BY <1>1 DEF WriteLock, ThreadTypes, ReqInv, BootInv, Faults
    <2>4. GcInv'
      BY <1>1
         DEF WriteLock, FileTypes, LockTypes, ThreadTypes, IsMutex, GcInv,
             LockInv, Present
    <2>. QED BY <2>1, <2>2, <2>3, <2>4
  <1>2. CASE ReadLock(t)
    <2>1. FileTypes' /\ IndexTypes' /\ LockTypes' /\ ThreadTypes' /\ BoundTypes'
      BY <1>2, MutexType
         DEF ReadLock, FileTypes, IndexTypes, LockTypes, ThreadTypes,
             BoundTypes, Labels, Faults
    <2>2. LockInv'
      BY <1>2
         DEF ReadLock, LockTypes, ThreadTypes, IsMutex, LockInv,
             CanLockShared, LockShared
    <2>3. ReqInv' /\ BootInv'
      BY <1>2 DEF ReadLock, ThreadTypes, ReqInv, BootInv, Faults
    <2>4. GcInv'
      BY <1>2
         DEF ReadLock, FileTypes, LockTypes, ThreadTypes, IsMutex, GcInv,
             LockInv, Present
    <2>. QED BY <2>1, <2>2, <2>3, <2>4
  <1>3. CASE ReadLock2(t)
    <2>1. FileTypes' /\ IndexTypes' /\ LockTypes' /\ ThreadTypes' /\ BoundTypes'
      BY <1>3, MutexType
         DEF ReadLock2, FileTypes, IndexTypes, LockTypes, ThreadTypes,
             BoundTypes, Labels, Faults
    <2>2. LockInv'
      BY <1>3
         DEF ReadLock2, LockTypes, ThreadTypes, IsMutex, LockInv,
             CanLockShared, LockShared
    <2>3. ReqInv' /\ BootInv'
      BY <1>3 DEF ReadLock2, ThreadTypes, ReqInv, BootInv, Faults
    <2>4. GcInv'
      BY <1>3
         DEF ReadLock2, FileTypes, LockTypes, ThreadTypes, IsMutex, GcInv,
             LockInv, Present
    <2>. QED BY <2>1, <2>2, <2>3, <2>4
  <1>4. CASE PutLog(t)
    <2>1. LockTypes' /\ ThreadTypes' /\ BoundTypes'
      BY <1>4 DEF PutLog, LockTypes, ThreadTypes, BoundTypes, Labels, Faults
    <2>2. FileTypes'
      <3>1. PutLine(t) \in Records /\ Size(PutLine(t)) \in Nat
        BY <1>4, SizeType DEF PutLog, ReqInv, PutLine, Records
      <3>2. IsFile(OpenAppend(files["log"]))
        BY OpenAppendType DEF FileTypes
      <3>3. IsFile(AppendRec(OpenAppend(files["log"]), PutLine(t),
                             Size(PutLine(t))))
        BY <3>1, <3>2, AppendRecType
      <3>. QED BY <1>4, <3>3 DEF PutLog, FileTypes
    <2>3. IndexTypes'
      BY <1>4 DEF PutLog, IndexTypes, ReqInv
    <2>4. LockInv'
      BY <1>4 DEF PutLog, LockTypes, ThreadTypes, IsMutex, LockInv
    <2>5. ReqInv' /\ BootInv'
      BY <1>4 DEF PutLog, ThreadTypes, ReqInv, BootInv, Faults
    <2>6. GcInv'
      BY <1>4
         DEF PutLog, FileTypes, LockTypes, ThreadTypes, IsMutex, GcInv,
             LockInv, Present
    <2>. QED BY <2>1, <2>2, <2>3, <2>4, <2>5, <2>6
  <1>5. CASE PutIndex(t)
    <2>1. FileTypes' /\ LockTypes' /\ ThreadTypes' /\ BoundTypes'
      BY <1>5
         DEF PutIndex, FileTypes, LockTypes, ThreadTypes, BoundTypes, Labels,
             Faults
    <2>2. IndexTypes'
      <3>1. PutLine(t) \in Records /\ Size(PutLine(t)) \in Nat
        BY <1>5, SizeType DEF PutIndex, ReqInv, PutLine, Records
      <3>2. ToInt(log_offset + Size(PutLine(t))) \in Int
        BY <3>1, ToIntType DEF IndexTypes
      <3>. QED BY <1>5, <3>2 DEF PutIndex, IndexTypes
    <2>3. LockInv'
      BY <1>5 DEF PutIndex, LockTypes, ThreadTypes, IsMutex, LockInv
    <2>4. ReqInv' /\ BootInv'
      BY <1>5 DEF PutIndex, ThreadTypes, ReqInv, BootInv, Faults
    <2>5. GcInv'
      BY <1>5
         DEF PutIndex, FileTypes, LockTypes, ThreadTypes, IsMutex, GcInv,
             LockInv, Present
    <2>. QED BY <2>1, <2>2, <2>3, <2>4, <2>5
  <1>6. CASE RmIndex(t)
    <2>1. FileTypes' /\ IndexTypes' /\ LockTypes' /\ ThreadTypes' /\ BoundTypes'
      BY <1>6
         DEF RmIndex, FileTypes, IndexTypes, LockTypes, ThreadTypes,
             BoundTypes, Labels, Faults
    <2>2. LockInv'
      BY <1>6 DEF RmIndex, LockTypes, ThreadTypes, IsMutex, LockInv
    <2>3. ReqInv' /\ BootInv'
      BY <1>6 DEF RmIndex, ThreadTypes, ReqInv, BootInv, Faults
    <2>4. GcInv'
      BY <1>6
         DEF RmIndex, FileTypes, LockTypes, ThreadTypes, IsMutex, GcInv,
             LockInv, Present
    <2>. QED BY <2>1, <2>2, <2>3, <2>4
  <1>7. CASE RmLog(t)
    <2>1. LockTypes' /\ ThreadTypes' /\ BoundTypes'
      BY <1>7 DEF RmLog, LockTypes, ThreadTypes, BoundTypes, Labels, Faults
    <2>2. FileTypes'
      <3>1. RmRec(req[t].key) \in Records /\ Size(RmRec(req[t].key)) \in Nat
        BY <1>7, SizeType DEF RmLog, ReqInv, Records
      <3>2. IsFile(OpenAppend(files["log"]))
        BY OpenAppendType DEF FileTypes
      <3>3. IsFile(AppendRec(OpenAppend(files["log"]), RmRec(req[t].key),
                             Size(RmRec(req[t].key))))
        BY <3>1, <3>2, AppendRecType
      <3>. QED BY <1>7, <3>3 DEF RmLog, FileTypes
    <2>3. IndexTypes'
      <3>1. req[t].key \in Keys /\ Size(RmRec(req[t].key)) \in Nat
        BY <1>7, SizeType DEF RmLog, ReqInv, Records
      <3>2. ToInt(log_offset + Size(RmRec(req[t].key))) \in Int
        BY <3>1, ToIntType DEF IndexTypes
      <3>. QED BY <1>7, <3>1, <3>2 DEF RmLog, IndexTypes
    <2>4. LockInv'
      BY <1>7 DEF RmLog, LockTypes, ThreadTypes, IsMutex, LockInv
    <2>5. ReqInv' /\ BootInv'
      BY <1>7 DEF RmLog, ThreadTypes, ReqInv, BootInv, Faults
    <2>6. GcInv'
      BY <1>7
         DEF RmLog, FileTypes, LockTypes, ThreadTypes, IsMutex, GcInv,
             LockInv, Present
    <2>. QED BY <2>1, <2>2, <2>3, <2>4, <2>5, <2>6
  <1>8. CASE GetSearch(t)
    <2>1. FileTypes' /\ IndexTypes' /\ LockTypes' /\ BoundTypes'
      BY <1>8
         DEF GetSearch, FileTypes, IndexTypes, LockTypes, BoundTypes, Faults
    <2>2. ThreadTypes'
      <3>1. Search(req[t].key) \in Int
        BY <1>8 DEF GetSearch, ReqInv, IndexTypes, Search, Present
      <3>. QED BY <1>8, <3>1 DEF GetSearch, ThreadTypes, Labels
    <2>3. LockInv'
      BY <1>8 DEF GetSearch, LockTypes, ThreadTypes, IsMutex, LockInv
    <2>4. ReqInv' /\ BootInv'
      BY <1>8 DEF GetSearch, ThreadTypes, ReqInv, BootInv, Faults
    <2>5. GcInv'
      BY <1>8
         DEF GetSearch, FileTypes, LockTypes, ThreadTypes, IsMutex, GcInv,
             LockInv, Present
    <2>. QED BY <2>1, <2>2, <2>3, <2>4, <2>5
  <1>9. CASE GetRead(t)
    <2>1. FileTypes' /\ IndexTypes' /\ LockTypes' /\ ThreadTypes' /\ BoundTypes'
      BY <1>9
         DEF GetRead, FileTypes, IndexTypes, LockTypes, ThreadTypes,
             BoundTypes, Labels, Faults
    <2>2. LockInv'
      BY <1>9 DEF GetRead, LockTypes, ThreadTypes, IsMutex, LockInv
    <2>3. ReqInv' /\ BootInv'
      BY <1>9 DEF GetRead, ThreadTypes, ReqInv, BootInv, Faults
    <2>4. GcInv'
      BY <1>9
         DEF GetRead, FileTypes, LockTypes, ThreadTypes, IsMutex, GcInv,
             LockInv, Present
    <2>. QED BY <2>1, <2>2, <2>3, <2>4
  <1>10. CASE VisitOpen(t)
    <2>1. FileTypes' /\ IndexTypes' /\ LockTypes' /\ BoundTypes'
      BY <1>10
         DEF VisitOpen, FileTypes, IndexTypes, LockTypes, BoundTypes, Faults
    <2>2. ThreadTypes'
      <3>1. req[t].lower - 1 \in Int
        BY <1>10 DEF VisitOpen, ReqInv
      <3>. QED BY <1>10, <3>1 DEF VisitOpen, ThreadTypes, Labels
    <2>3. LockInv'
      BY <1>10 DEF VisitOpen, LockTypes, ThreadTypes, IsMutex, LockInv
    <2>4. ReqInv' /\ BootInv'
      BY <1>10 DEF VisitOpen, ThreadTypes, ReqInv, BootInv, Faults
    <2>5. GcInv'
      BY <1>10
         DEF VisitOpen, FileTypes, LockTypes, ThreadTypes, IsMutex, GcInv,
             LockInv, Present
    <2>. QED BY <2>1, <2>2, <2>3, <2>4, <2>5
  <1>11. CASE VisitStep(t)
    <2>1. FileTypes' /\ IndexTypes' /\ LockTypes' /\ BoundTypes'
      BY <1>11
         DEF VisitStep, FileTypes, IndexTypes, LockTypes, BoundTypes, Faults
    <2>2. ThreadTypes'
      <3>1. CASE UNCHANGED <<cursor, fpos, out>>
        BY <1>11, <3>1 DEF VisitStep, ThreadTypes
      <3>2. ASSUME NEW k \in NextKey(cursor[t]), NEW line,
                   files["log"] # NoFile, line.op = "put",
                   line \in ReadKeyValue(files["log"], Seek(fpos[t], index[k])),
                   fpos' = [fpos EXCEPT ![t] =
                              Seek(fpos[t], index[k]) + Size(line)],
                   cursor' = [cursor EXCEPT ![t] = k]
            PROVE  ThreadTypes'
        <4>1. k \in Int /\ Seek(fpos[t], index[k]) \in Nat
          BY KeysAssumption
             DEF NextKey, Seek, ThreadTypes, IndexTypes, Present
        <4>2. Size(line) \in Nat
          BY <3>2, <4>1, ReadType, SizeType DEF FileTypes, Fail, Junk
        <4>. QED BY <1>11, <3>2, <4>1, <4>2 DEF VisitStep, ThreadTypes
      <3>. QED BY <1>11, <3>1, <3>2 DEF VisitStep
    <2>3. LockInv'
      BY <1>11 DEF VisitStep, LockTypes, ThreadTypes, IsMutex, LockInv
    <2>4. ReqInv' /\ BootInv'
      BY <1>11 DEF VisitStep, ThreadTypes, ReqInv, BootInv, Faults
    <2>5. GcInv'
      BY <1>11
         DEF VisitStep, FileTypes, LockTypes, ThreadTypes, IsMutex, GcInv,
             LockInv, Present
    <2>. QED BY <2>1, <2>2, <2>3, <2>4, <2>5
  <1>12. CASE VisitEnd(t)
    <2>1. FileTypes' /\ IndexTypes' /\ LockTypes' /\ ThreadTypes' /\ BoundTypes'
      BY <1>12
         DEF VisitEnd, FileTypes, IndexTypes, LockTypes, ThreadTypes,
             BoundTypes, Labels, Faults
    <2>2. LockInv'
      BY <1>12 DEF VisitEnd, LockTypes, ThreadTypes, IsMutex, LockInv
    <2>3. ReqInv' /\ BootInv'
      BY <1>12 DEF VisitEnd, ThreadTypes, ReqInv, BootInv, Faults
    <2>4. GcInv'
      BY <1>12
         DEF VisitEnd, FileTypes, LockTypes, ThreadTypes, IsMutex, GcInv,
             LockInv, Present
    <2>. QED BY <2>1, <2>2, <2>3, <2>4
  <1>13. CASE SyncFile(t)
    <2>1. IndexTypes' /\ LockTypes' /\ ThreadTypes' /\ BoundTypes'
      BY <1>13
         DEF SyncFile, IndexTypes, LockTypes, ThreadTypes, BoundTypes, Labels,
             Faults
    <2>2. FileTypes'
      <3>1. IsFile(OpenAppend(files["log"]))
        BY OpenAppendType DEF FileTypes
      <3>. QED BY <1>13, <3>1 DEF SyncFile, FileTypes
    <2>3. LockInv'
      BY <1>13 DEF SyncFile, LockTypes, ThreadTypes, IsMutex, LockInv
    <2>4. ReqInv' /\ BootInv'
      BY <1>13 DEF SyncFile, ThreadTypes, ReqInv, BootInv, Faults
    <2>5. GcInv'
      BY <1>13
         DEF SyncFile, FileTypes, LockTypes, ThreadTypes, IsMutex, GcInv,
             LockInv, Present
    <2>. QED BY <2>1, <2>2, <2>3, <2>4, <2>5
  <1>14. CASE GcDeferred(t)
    <2>1. FileTypes' /\ IndexTypes' /\ LockTypes' /\ ThreadTypes' /\ BoundTypes'
      BY <1>14
         DEF GcDeferred, FileTypes, IndexTypes, LockTypes, ThreadTypes,
             BoundTypes, Labels, Faults
    <2>2. LockInv'
      BY <1>14 DEF GcDeferred, LockTypes, ThreadTypes, IsMutex, LockInv
    <2>3. ReqInv' /\ BootInv'
      BY <1>14 DEF GcDeferred, ThreadTypes, ReqInv, BootInv, Faults
    <2>4. GcInv'
      BY <1>14
         DEF GcDeferred, FileTypes, LockTypes, ThreadTypes, IsMutex, GcInv,
             LockInv, Present
    <2>. QED BY <2>1, <2>2, <2>3, <2>4
  <1>15. CASE GcLaunch(t)
    <2>1. FileTypes' /\ IndexTypes' /\ LockTypes' /\ ThreadTypes' /\ BoundTypes'
      BY <1>15
         DEF GcLaunch, FileTypes, IndexTypes, LockTypes, ThreadTypes,
             BoundTypes, Labels, Faults
    <2>2. LockInv'
      BY <1>15 DEF GcLaunch, LockTypes, ThreadTypes, IsMutex, LockInv
    <2>3. ReqInv' /\ BootInv'
      BY <1>15 DEF GcLaunch, ThreadTypes, ReqInv, BootInv, Faults
    <2>4. GcInv'
      BY <1>15
         DEF GcLaunch, FileTypes, LockTypes, ThreadTypes, IsMutex, GcInv,
             LockInv, Present
    <2>. QED BY <2>1, <2>2, <2>3, <2>4
  <1>16. CASE GcLock(t)
    <2>1. FileTypes' /\ IndexTypes' /\ LockTypes' /\ ThreadTypes' /\ BoundTypes'
      BY <1>16
         DEF GcLock, FileTypes, IndexTypes, LockTypes, ThreadTypes,
             BoundTypes, Labels, Faults
    <2>2. LockInv'
      BY <1>16 DEF GcLock, LockTypes, ThreadTypes, IsMutex, LockInv
    <2>3. ReqInv' /\ BootInv'
      BY <1>16 DEF GcLock, ThreadTypes, ReqInv, BootInv, Faults
    <2>4. GcInv'
      BY <1>16
         DEF GcLock, FileTypes, LockTypes, ThreadTypes, IsMutex, GcInv,
             LockInv, Present
    <2>. QED BY <2>1, <2>2, <2>3, <2>4
  <1>17. CASE GcShared(t)
    <2>1. IndexTypes' /\ LockTypes' /\ ThreadTypes' /\ BoundTypes'
      BY <1>17, MutexType
         DEF GcShared, IndexTypes, LockTypes, ThreadTypes, BoundTypes, Labels,
             Faults
    <2>2. FileTypes'
      <3>1. IsFile(OpenAppend(files["log1"]))
        BY OpenAppendType DEF FileTypes
      <3>. QED BY <1>17, <3>1 DEF GcShared, FileTypes
    <2>3. LockInv'
      BY <1>17
         DEF GcShared, LockTypes, ThreadTypes, IsMutex, LockInv,
             CanLockShared, LockShared
    <2>4. ReqInv' /\ BootInv'
      BY <1>17 DEF GcShared, ThreadTypes, ReqInv, BootInv, Faults
    <2>5. GcInv'
      <3>1. IsFile(OpenAppend(files["log1"]))
        BY OpenAppendType DEF FileTypes
      <3>. QED BY <1>17, <3>1, KeysAssumption
               DEF GcShared, FileTypes, ThreadTypes, GcInv, LockInv, Present
    <2>. QED BY <2>1, <2>2, <2>3, <2>4, <2>5
  <1>18. CASE GcClose(t)
    <2>1. FileTypes' /\ IndexTypes' /\ LockTypes' /\ ThreadTypes' /\ BoundTypes'
      BY <1>18
         DEF GcClose, FileTypes, IndexTypes, LockTypes, ThreadTypes,
             BoundTypes, Labels, Faults
    <2>2. LockInv'
      BY <1>18 DEF GcClose, LockTypes, ThreadTypes, IsMutex, LockInv
    <2>3. ReqInv' /\ BootInv'
      BY <1>18 DEF GcClose, ThreadTypes, ReqInv, BootInv, Faults
    <2>4. GcInv'
      <3>1. \A k \in Keys : Present(k) => k <= cursor[t]
        BY <1>18, KeysAssumption DEF GcClose, ThreadTypes
      <3>. QED BY <1>18, <3>1
               DEF GcClose, FileTypes, ThreadTypes, LockTypes, GcInv, LockInv,
                   Present, IsMutex
    <2>. QED BY <2>1, <2>2, <2>3, <2>4
  <1>19. CASE GcLock2(t)
    <2>1. FileTypes' /\ IndexTypes' /\ LockTypes' /\ ThreadTypes' /\ BoundTypes'
      BY <1>19, MutexType
         DEF GcLock2, FileTypes, IndexTypes, LockTypes, ThreadTypes,
             BoundTypes, Labels, Faults
    <2>2. LockInv'
      BY <1>19
         DEF GcLock2, LockTypes, ThreadTypes, IsMutex, LockInv, CanLock, Lock
    <2>3. ReqInv' /\ BootInv'
      BY <1>19 DEF GcLock2, ThreadTypes, ReqInv, BootInv, Faults
    <2>4. GcInv'
      BY <1>19
         DEF GcLock2, FileTypes, LockTypes, ThreadTypes, IsMutex, GcInv,
             LockInv, Present
    <2>. QED BY <2>1, <2>2, <2>3, <2>4
  <1>20. CASE GcReindex(t)
    <2>1. FileTypes' /\ LockTypes' /\ ThreadTypes' /\ BoundTypes'
      BY <1>20
         DEF GcReindex, FileTypes, LockTypes, ThreadTypes, BoundTypes, Labels,
             Faults
    <2>2. IndexTypes'
      <3>1. \A k \in Keys : Present(k) => ToInt(moved[t][k]) \in Int
        BY <1>20, ToIntType DEF GcReindex, GcInv
      <3>. QED BY <1>20, <3>1 DEF GcReindex, IndexTypes
    <2>3. LockInv'
      BY <1>20 DEF GcReindex, LockTypes, ThreadTypes, IsMutex, LockInv
    <2>4. ReqInv' /\ BootInv'
      BY <1>20 DEF GcReindex, ThreadTypes, ReqInv, BootInv, Faults
    <2>5. GcInv'
      BY <1>20
         DEF GcReindex, FileTypes, LockTypes, ThreadTypes, IsMutex, GcInv,
             LockInv, Present
    <2>. QED BY <2>1, <2>2, <2>3, <2>4, <2>5
  <1>21. CASE GcRemove(t)
    <2>1. FileTypes' /\ IndexTypes' /\ LockTypes' /\ ThreadTypes' /\ BoundTypes'
      BY <1>21
         DEF GcRemove, FileTypes, IndexTypes, LockTypes, ThreadTypes,
             BoundTypes, Labels, Faults
    <2>2. LockInv'
      BY <1>21 DEF GcRemove, LockTypes, ThreadTypes, IsMutex, LockInv
    <2>3. ReqInv' /\ BootInv'
      BY <1>21 DEF GcRemove, ThreadTypes, ReqInv, BootInv, Faults
    <2>4. GcInv'
      BY <1>21
         DEF GcRemove, FileTypes, LockTypes, ThreadTypes, IsMutex, GcInv,
             LockInv, Present
    <2>. QED BY <2>1, <2>2, <2>3, <2>4
  <1>22. CASE GcRename(t)
    <2>1. FileTypes' /\ LockTypes' /\ ThreadTypes' /\ BoundTypes'
      BY <1>22
         DEF GcRename, FileTypes, LockTypes, ThreadTypes, BoundTypes, Labels,
             Faults
    <2>2. IndexTypes'
      <3>1. ToInt(offset[t]) \in Int
        BY ToIntType DEF ThreadTypes
      <3>. QED BY <1>22, <3>1 DEF GcRename, IndexTypes
    <2>3. LockInv'
      BY <1>22 DEF GcRename, LockTypes, ThreadTypes, IsMutex, LockInv
    <2>4. ReqInv' /\ BootInv'
      BY <1>22 DEF GcRename, ThreadTypes, ReqInv, BootInv, Faults
    <2>5. GcInv'
      <3>1. /\ pc[t] = "gc_rename" /\ pc' = [pc EXCEPT ![t] = "return"]
            /\ UNCHANGED <<index, cursor, moved>>
        BY <1>22 DEF GcRename
      <3>2. \A u \in Threads : u # t => pc[u] \notin CopySection \cup SwitchSection
        BY <3>1 DEF LockInv, SwitchSection
      <3>3. \A u \in Threads : u # t => pc'[u] = pc[u]
        BY <3>1 DEF ThreadTypes
      <3>4. pc'[t] = "return"
        BY <3>1 DEF ThreadTypes
      <3>. QED BY <3>1, <3>2, <3>3, <3>4
           DEF GcInv, Present, CopySection, SwitchSection
    <2>. QED BY <2>1, <2>2, <2>3, <2>4, <2>5
  <1>23. CASE Return(t)
    <2>1. FileTypes' /\ IndexTypes' /\ LockTypes' /\ BoundTypes'
      BY <1>23, MutexType
         DEF Return, FileTypes, IndexTypes, LockTypes, BoundTypes, Faults
    <2>2. ThreadTypes'
      BY <1>23 DEF Return, ThreadTypes, Labels, EmptyIndex, NoReq
    <2>3. LockInv'
      BY <1>23 DEF Return, LockTypes, ThreadTypes, IsMutex, LockInv, Unlock
    <2>4. ReqInv' /\ BootInv'
      BY <1>23 DEF Return, ThreadTypes, ReqInv, BootInv, Faults
    <2>5. GcInv'
      BY <1>23
         DEF Return, FileTypes, LockTypes, ThreadTypes, IsMutex, GcInv,
             LockInv, Present
    <2>. QED BY <2>1, <2>2, <2>3, <2>4, <2>5
  <1>. QED BY <1>1, <1>2, <1>3, <1>4, <1>5, <1>6, <1>7, <1>8, <1>9, <1>10,
      <1>11, <1>12, <1>13, <1>14, <1>15, <1>16, <1>17, <1>18, <1>19, <1>20,
      <1>21, <1>22, <1>23,
      GcCopyInv DEF Step

\* A call begins: the thread is at the entry of its handler, without a lock.
LEMMA CallInv ==
    ASSUME IInv, NEW t \in Threads, NEW r \in Requests, Call(t, r)
    PROVE  IInv'
  <1>. USE DEF IInv, TypeOK, At, Goto, locks, locals
  <1>1. r \in AllRequests
    BY EngineAssumption
  <1>2. r.op \in {"put", "remove", "get", "visit", "sync", "gc"}
    BY <1>1 DEF AllRequests
  <1>3. /\ r.op = "put" => r.key \in Keys /\ r.val \in Values
        /\ r.op \in {"remove", "get"} => r.key \in Keys
        /\ r.op = "visit" => r.lower \in Nat
    BY <1>1 DEF AllRequests
  <1>4. FileTypes' /\ IndexTypes' /\ LockTypes'
    BY DEF Call, FileTypes, IndexTypes, LockTypes
  <1>5. ThreadTypes' /\ BoundTypes'
    BY <1>2, EngineAssumption DEF Call, ThreadTypes, BoundTypes, Labels
  <1>6. LockInv'
    BY <1>2 DEF Call, ThreadTypes, LockInv,
                WriteSection, ReadSection, CopySection, SwitchSection
  <1>7. ReqInv'
    BY <1>2, <1>3 DEF Call, ThreadTypes, ReqInv
  <1>8. GcInv'
    BY <1>2 DEF Call, ThreadTypes, GcInv, Present, CopySection, SwitchSection
  <1>9. BootInv'
    BY DEF Call, BootInv
  <1>. QED BY <1>4, <1>5, <1>6, <1>7, <1>8, <1>9

\* Files that are files, together with the memory of a new process, satisfy
\* the invariant: nothing of the old process's state is needed.
LEMMA KillInv ==
    ASSUME IInv, Kill, FileTypes'
    PROVE  IInv'
  <1>. USE DEF IInv, TypeOK, Kill, MemoryLost, All
  <1>1. IndexTypes'
    BY DEF IndexTypes, EmptyIndex
  <1>2. LockTypes'
    BY DEF LockTypes, IsMutex, FreeMutex
  <1>3. ThreadTypes'
    BY DEF ThreadTypes, Labels, EmptyIndex
  <1>4. BoundTypes'
    BY EngineAssumption DEF BoundTypes
  <1>5. LockInv' /\ ReqInv' /\ BootInv'
    BY DEF LockInv, ReqInv, BootInv,
           WriteSection, ReadSection, CopySection, SwitchSection
  <1>6. GcInv'
    BY DEF GcInv, CopySection, SwitchSection
  <1>. QED BY <1>1, <1>2, <1>3, <1>4, <1>5, <1>6

\* A kill between two calls leaves files.
LEMMA BlocksWrittenType ==
    ASSUME IInv, files' \in BlocksWritten
    PROVE  FileTypes'
  <1>. USE DEF IInv, TypeOK
  <1>1. CASE \E t \in Threads : pc[t] = "gc_copy"
    <2>1. IsFile(files["log1"])
      BY <1>1 DEF GcInv, CopySection
    <2>2. PICK blocks \in 0..(files["log1"].len \div StdioBuf) :
             files' = [files EXCEPT !["log1"] = Truncate(@, blocks * StdioBuf)]
      BY <1>1 DEF BlocksWritten
    <2>3. blocks \in Nat /\ StdioBuf \in Nat
      BY EngineAssumption
    <2>4. blocks * StdioBuf \in Nat
      BY <2>3
    <2>5. IsFile(Truncate(files["log1"], blocks * StdioBuf))
      BY <2>1, <2>4, TruncateType
    <2>. QED BY <2>2, <2>5 DEF FileTypes
  <1>2. CASE ~ \E t \in Threads : pc[t] = "gc_copy"
    BY <1>2 DEF BlocksWritten, FileTypes
  <1>. QED BY <1>1, <1>2

\* A kill inside log_line leaves files, the log with a torn line at its end.
LEMMA LineTornType ==
    ASSUME IInv, files' \in LineTorn
    PROVE  FileTypes'
  <1>. USE DEF IInv, TypeOK
  <1>1. PICK t \in {u \in Threads : pc[u] \in {"put_log", "rm_log"}} :
          files' \in {[files EXCEPT !["log"] =
                          AppendRec(OpenAppend(@), LineOf(t), blocks * StdioBuf)] :
                        blocks \in {n \in 1..(Size(LineOf(t)) \div StdioBuf) :
                                      n * StdioBuf < Size(LineOf(t))}}
    BY DEF LineTorn
  <1>2. LineOf(t) \in Records
    BY <1>1 DEF LineOf, ReqInv, PutLine, Records
  <1>3. PICK blocks \in 1..(Size(LineOf(t)) \div StdioBuf) :
          files' = [files EXCEPT !["log"] =
                      AppendRec(OpenAppend(@), LineOf(t), blocks * StdioBuf)]
    BY <1>1
  <1>4. blocks \in Nat /\ StdioBuf \in Nat
    BY EngineAssumption
  <1>5. blocks * StdioBuf \in Nat
    BY <1>4
  <1>6. IsFile(OpenAppend(files["log"]))
    BY OpenAppendType DEF FileTypes
  <1>7. IsFile(AppendRec(OpenAppend(files["log"]), LineOf(t), blocks * StdioBuf))
    BY <1>2, <1>5, <1>6, AppendRecType
  <1>. QED BY <1>3, <1>7 DEF FileTypes

\* A kill, whatever it leaves of the files.
LEMMA CrashInv ==
    ASSUME IInv, Crash
    PROVE  IInv'
  <1>1. FileTypes'
    BY BlocksWrittenType, LineTornType DEF Crash
  <1>. QED BY <1>1, KillInv DEF Crash

\* Construction finds a log, or is done.
LEMMA OpenInv ==
    ASSUME IInv, Open
    PROVE  IInv'
  <1>. USE DEF IInv, TypeOK, Open, locks, locals, steady
  <1>1. FileTypes' /\ IndexTypes' /\ LockTypes'
    BY DEF FileTypes, IndexTypes, LockTypes
  <1>2. ThreadTypes' /\ BoundTypes'
    BY DEF ThreadTypes, BoundTypes
  <1>3. LockInv' /\ ReqInv' /\ GcInv' /\ BootInv'
    BY DEF LockInv, ReqInv, GcInv, BootInv, Present
  <1>. QED BY <1>1, <1>2, <1>3

\* One turn of rebuild_btree.
LEMMA RebuildInv ==
    ASSUME IInv, RebuildStep
    PROVE  IInv'
  <1>. USE DEF IInv, TypeOK, locks, locals
  <1>1. FileTypes' /\ LockTypes' /\ ThreadTypes' /\ LockInv' /\ ReqInv'
    BY DEF RebuildStep, FileTypes, LockTypes, ThreadTypes, LockInv, ReqInv
  <1>2. BoundTypes' /\ BootInv'
    BY DEF RebuildStep, RebuildLine, Abort, BoundTypes, BootInv, Faults
  <1>3. \A t \in Threads : pc[t] = "idle"
    BY DEF RebuildStep, BootInv
  <1>4. GcInv'
    BY <1>3 DEF RebuildStep, GcInv, CopySection, SwitchSection
  <1>5. CASE UNCHANGED <<index, log_offset, crash_pos>>
    <2>1. IndexTypes'
      BY <1>5 DEF RebuildStep, IndexTypes
    <2>. QED BY <1>1, <1>2, <1>4, <2>1
  <1>6. ASSUME NEW line \in ReadKeyValue(files["log"], crash_pos),
               RebuildLine(line)
        PROVE  IInv'
    <2>1. CASE files["log"] = NoFile
      BY <1>6, <2>1 DEF NoFile, NoLines, ReadKeyValue, Fail, RebuildLine,
                        IndexTypes
    <2>2. CASE IsFile(files["log"])
      <3>1. line \in Records
        BY <1>6, <2>2, ReadType DEF RebuildLine, IndexTypes, Fail, Junk
      <3>2. Size(line) \in Nat
        BY <3>1, SizeType
      <3>3. line.key \in Keys
        BY <3>1 DEF Records, PutRec, RmRec
      <3>4. ToInt(log_offset + Size(line)) \in Int
        BY <3>2, ToIntType DEF IndexTypes
      <3>5. IndexTypes'
        BY <1>6, <3>2, <3>3, <3>4 DEF RebuildStep, RebuildLine, IndexTypes
      <3>. QED BY <1>1, <1>2, <1>4, <3>5
    <2>. QED BY <2>1, <2>2 DEF FileTypes
  <1>. QED BY <1>5, <1>6 DEF RebuildStep

\* The lock discipline follows from the locks that the program points hold.
LEMMA LocksExclude ==
    ASSUME IInv
    PROVE  Exclusion
BY DEF IInv, TypeOK, LockTypes, IsMutex, LockInv, Exclusion

\* The memory of a new process satisfies IInv.
LEMMA InitInv ==
    ASSUME Init
    PROVE  IInv
  <1>. USE DEF Init, Memory, All
  <1>1. FileTypes
    BY DEF FileTypes, IsFile, EmptyFile, NoLines
  <1>2. IndexTypes
    BY DEF IndexTypes, EmptyIndex
  <1>3. LockTypes
    BY DEF LockTypes, IsMutex, FreeMutex
  <1>4. ThreadTypes
    BY DEF ThreadTypes, Labels, EmptyIndex
  <1>5. BoundTypes
    BY EngineAssumption DEF BoundTypes
  <1>6. LockInv /\ ReqInv /\ GcInv /\ BootInv
    BY DEF LockInv, ReqInv, GcInv, BootInv,
           WriteSection, ReadSection, CopySection, SwitchSection
  <1>. QED BY <1>1, <1>2, <1>3, <1>4, <1>5, <1>6 DEF IInv, TypeOK

\* Every step, kill and construction preserves IInv.
LEMMA NextInv ==
    ASSUME IInv, [Next]_vars
    PROVE  IInv'
  <1>1. CASE \E t \in Threads : \E r \in Requests : Call(t, r)
    BY <1>1, CallInv
  <1>2. CASE \E t \in Threads : Step(t)
    BY <1>2, StepInv
  <1>3. CASE UNCHANGED vars
    <2>. USE <1>3 DEF vars, locks, locals, steady
    <2>1. TypeOK'
      BY DEF IInv, TypeOK, FileTypes, IndexTypes, LockTypes, ThreadTypes,
             BoundTypes
    <2>2. LockInv' /\ ReqInv' /\ GcInv' /\ BootInv'
      BY DEF IInv, LockInv, ReqInv, GcInv, BootInv, Present
    <2>. QED BY <2>1, <2>2 DEF IInv
  <1>. QED BY <1>1, <1>2, <1>3, CrashInv, OpenInv, RebuildInv
           DEF Next, Terminated

\* IInv holds of every behaviour of the engine.
THEOREM Invariance == Spec => []IInv
BY InitInv, NextInv, PTL DEF Spec

\* Every variable keeps its type: in particular _gc has an offset for every
\* key when it rewrites the index, and lock states stay legal.
THEOREM TypeCorrect == Spec => []TypeOK
  <1>1. IInv => TypeOK
    BY DEF IInv
  <1>. QED BY <1>1, Invariance, PTL

\* The lock discipline of engine.cpp holds for every number of threads: writers
\* run alone, one _gc at a time, and no get or visit is between its read of the
\* index and its read of the file while _gc switches both.
THEOREM MutualExclusion == Spec => []Exclusion
  <1>1. IInv => Exclusion
    BY LocksExclude
  <1>. QED BY <1>1, Invariance, PTL
=============================================================================
