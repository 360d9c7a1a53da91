------------------------------- MODULE Engine --------------------------------
(***************************************************************************)
(* kvs::Engine (src/src/engine.cpp): a log-structured key-value store with *)
(* an in-memory index from keys to byte offsets in the log.                *)
(*                                                                         *)
(* Threads call put, remove, get, visit, sync and garbage_collect.  Every  *)
(* handler is cut into the steps another thread, or a kill of the process, *)
(* can fall between: taking a lock, touching a file, touching the index.   *)
(* The process may die and be constructed again from the files it left.    *)
(*                                                                         *)
(* The index is the ordered map that BTree implements (module BTree shows  *)
(* that it does, for keys without NUL bytes).                              *)
(***************************************************************************)
EXTENDS LogFile, Sequences, FiniteSets

CONSTANTS Threads,
          Requests,    \* the calls clients may make
          IntMax,      \* the largest int: log_offset and BNode::data are ints
          StdioBuf,    \* the block size in which stdio hands bytes to write(2)
          CrashAt,     \* program points at which the process may be killed
          FreshDir,    \* TRUE: the first start finds no log file
          MaxOps,      \* bound: calls per thread
          MaxCrashes,  \* bound: kills
          Absent       \* index: key not in the tree

VARIABLES
    files,        \* directory: "log" and "log1", the file named log(1)
    index,        \* BTree: [Keys -> Int \cup {Absent}]
    log_offset,   \* offset the next line is assumed to be appended at
    mutex,        \* _mutex
    mutex2,       \* _mutex2
    mutex_gc,     \* _mutex_gc, as the set of threads that hold it
    mode,         \* the process: down, rebuild, up, or why it aborted
    crash_pos,    \* rebuild_btree: position of crash_fp
    pc,           \* per thread: program point inside the current call
    req,          \* per thread: the current call
    ret,          \* per thread: its result: return code, then what it hands out
    offset,       \* per thread: get: index; _gc: off
    cursor,       \* per thread: visit, _gc: last key handled
    fpos,         \* per thread: visit, _gc: position of r_fp
    out,          \* per thread: visit: pairs handed to the visitor
    moved,        \* per thread: _gc: _offset
    ncalls,       \* bound counter: calls made per thread
    ncrashes,     \* bound counter: kills
    store         \* history: the map that the log lines written so far denote

locks  == <<mutex, mutex2, mutex_gc>>
locals == <<offset, cursor, fpos, out, moved>>
steady == <<ncalls, ncrashes, crash_pos>>   \* fixed while a call runs
vars   == <<files, index, log_offset, locks, mode, pc, req, ret, locals,
            steady, store>>

-----------------------------------------------------------------------------
(* Vocabulary *)

NoReq == [op |-> "none"]

AllRequests ==
         [op : {"put"}, key : Keys, val : Values]
    \cup [op : {"remove", "get"}, key : Keys]
    \cup [op : {"visit"}, lower : Nat, upper : Nat]
    \cup [op : {"sync", "gc"}]

Labels == {"idle", "put", "put_log", "put_index", "remove", "rm_index",
           "rm_log", "get", "get_lock2", "get_search", "get_read", "visit",
           "visit_lock2", "visit_open", "visit_scan", "sync", "sync_file",
           "gc", "gc_lock", "gc_shared", "gc_copy", "gc_lock2",
           "gc_reindex", "gc_remove", "gc_rename", "return"}

Faults == {"fatal",       \* LOG(FATAL)
           "null_file",   \* stdio call on the NULL a failed fopen returned
           "junk",        \* _gc or rebuild_btree took stray bytes for a line
           "dup_key"}     \* insert of a key the tree holds but search denies

ASSUME EngineAssumption ==
    /\ Requests \subseteq AllRequests
    /\ IntMax \in Nat
    /\ StdioBuf \in Nat /\ StdioBuf >= HeaderSize
    /\ CrashAt \subseteq Labels
    /\ FreshDir \in BOOLEAN
    /\ MaxOps \in Nat /\ MaxCrashes \in Nat
    /\ Absent \notin Int

\* Conversion of a byte count to int (two's complement).
ToInt(n) == ((n + IntMax + 1) % (2 * (IntMax + 1))) - (IntMax + 1)

\* std::shared_mutex: sh holds it shared, ex exclusively.
FreeMutex         == [sh |-> {}, ex |-> {}]
CanLockShared(m)  == m.ex = {}
CanLock(m)        == m.ex = {} /\ m.sh = {}
LockShared(m, t)  == [m EXCEPT !.sh = @ \cup {t}]
Lock(m, t)        == [m EXCEPT !.ex = @ \cup {t}]
Unlock(m, t)      == [sh |-> m.sh \ {t}, ex |-> m.ex \ {t}]

\* fopen in mode "a" or "a+": creates the file if it is missing.
OpenAppend(f) == IF f = NoFile THEN EmptyFile ELSE f

\* fseek(fp, off, SEEK_SET) from position pos: a negative offset is refused
\* and leaves the position where it was.
Seek(pos, off) == IF off < 0 THEN pos ELSE off

EmptyIndex == [k \in Keys |-> Absent]
Present(k) == index[k] # Absent

\* BTree::search: the offset, or -1 cast to size_t.
Search(k) == IF Present(k) THEN index[k] ELSE -1

\* A key whose offset is the very value by which search reports absence.
Aliased(k) == Present(k) /\ Search(k) = -1

\* The next key of the leaf chain after key c (a singleton, or empty).
NextKey(c) == {k \in Keys : /\ Present(k) /\ k > c
                            /\ \A j \in Keys : Present(j) /\ j > c => k <= j}

Goto(t, label) == pc' = [pc EXCEPT ![t] = label]
Finish(t, res) == /\ Goto(t, "return")
                  /\ ret' = [ret EXCEPT ![t] = res]
Abort(why)     == mode' = why

At(t, label) == mode = "up" /\ pc[t] = label

-----------------------------------------------------------------------------
(* A call begins and ends.  The lock guards are released when it returns.  *)

Call(t, r) ==
    /\ At(t, "idle")
    /\ ncalls[t] < MaxOps
    /\ ncalls' = [ncalls EXCEPT ![t] = @ + 1]
    /\ req' = [req EXCEPT ![t] = r]
    /\ Goto(t, r.op)
    /\ UNCHANGED <<files, index, log_offset, locks, mode, ret, locals,
                   ncrashes, crash_pos, store>>

\* Mutant of Return: _mutex_gc stays locked.
ReturnKeepingGcLock(t) ==
    /\ At(t, "return")
    /\ Goto(t, "idle")
    /\ mutex' = Unlock(mutex, t)
    /\ mutex2' = Unlock(mutex2, t)
    /\ req' = [req EXCEPT ![t] = NoReq]
    /\ ret' = [ret EXCEPT ![t] = << >>]
    /\ offset' = [offset EXCEPT ![t] = 0]
    /\ cursor' = [cursor EXCEPT ![t] = -1]
    /\ fpos' = [fpos EXCEPT ![t] = 0]
    /\ out' = [out EXCEPT ![t] = << >>]
    /\ moved' = [moved EXCEPT ![t] = EmptyIndex]
    /\ UNCHANGED <<files, index, log_offset, mutex_gc, mode, steady, store>>

Return(t) ==
    /\ At(t, "return")
    /\ Goto(t, "idle")
    /\ mutex' = Unlock(mutex, t)
    /\ mutex2' = Unlock(mutex2, t)
    /\ mutex_gc' = mutex_gc \ {t}
    /\ req' = [req EXCEPT ![t] = NoReq]
    /\ ret' = [ret EXCEPT ![t] = << >>]
    /\ offset' = [offset EXCEPT ![t] = 0]
    /\ cursor' = [cursor EXCEPT ![t] = -1]
    /\ fpos' = [fpos EXCEPT ![t] = 0]
    /\ out' = [out EXCEPT ![t] = << >>]
    /\ moved' = [moved EXCEPT ![t] = EmptyIndex]
    /\ UNCHANGED <<files, index, log_offset, mode, steady, store>>

\* Mutant of WriteLock: a try_lock whose result is not looked at.
WriteLockTried(t) ==
    /\ \/ At(t, "put")    /\ Goto(t, "put_log")
       \/ At(t, "remove") /\ Goto(t, "rm_index")
       \/ At(t, "sync")   /\ Goto(t, "sync_file")
    /\ mutex' = Lock(mutex, t)
    /\ UNCHANGED <<files, index, log_offset, mutex2, mutex_gc, mode, req, ret,
                   locals, steady, store>>

\* put, remove and sync start by locking _mutex exclusively.
WriteLock(t) ==
    /\ \/ At(t, "put")    /\ Goto(t, "put_log")
       \/ At(t, "remove") /\ Goto(t, "rm_index")
       \/ At(t, "sync")   /\ Goto(t, "sync_file")
    /\ CanLock(mutex)
    /\ mutex' = Lock(mutex, t)
    /\ UNCHANGED <<files, index, log_offset, mutex2, mutex_gc, mode, req, ret,
                   locals, steady, store>>

\* get and visit lock _mutex, then _mutex2, both shared.
ReadLock(t) ==
    /\ \/ At(t, "get")   /\ Goto(t, "get_lock2")
       \/ At(t, "visit") /\ Goto(t, "visit_lock2")
    /\ CanLockShared(mutex)
    /\ mutex' = LockShared(mutex, t)
    /\ UNCHANGED <<files, index, log_offset, mutex2, mutex_gc, mode, req, ret,
                   locals, steady, store>>

\* Mutant of ReadLock2: get and visit do without _mutex2.
ReadLock2Skipped(t) ==
    /\ \/ At(t, "get_lock2")   /\ Goto(t, "get_search")
       \/ At(t, "visit_lock2") /\ Goto(t, "visit_open")
    /\ UNCHANGED <<files, index, log_offset, locks, mode, req, ret, locals,
                   steady, store>>

ReadLock2(t) ==
    /\ \/ At(t, "get_lock2")   /\ Goto(t, "get_search")
       \/ At(t, "visit_lock2") /\ Goto(t, "visit_open")
    /\ CanLockShared(mutex2)
    /\ mutex2' = LockShared(mutex2, t)
    /\ UNCHANGED <<files, index, log_offset, mutex, mutex_gc, mode, req, ret,
                   locals, steady, store>>

-----------------------------------------------------------------------------
(* put *)

PutLine(t) == PutRec(req[t].key, req[t].val)

\* Mutant of PutLog: the line stays in a stdio buffer that is never flushed.
PutLogUnflushed(t) ==
    /\ At(t, "put_log")
    /\ files' = [files EXCEPT !["log"] = OpenAppend(@)]
    /\ store' = [store EXCEPT ![req[t].key] = req[t].val]
    /\ Goto(t, "put_index")
    /\ UNCHANGED <<index, log_offset, locks, mode, req, ret, locals, steady>>

\* fopen, log_line, fclose.
PutLog(t) ==
    /\ At(t, "put_log")
    /\ files' = [files EXCEPT !["log"] =
                    AppendRec(OpenAppend(@), PutLine(t), Size(PutLine(t)))]
    /\ store' = [store EXCEPT ![req[t].key] = req[t].val]
    /\ Goto(t, "put_index")
    /\ UNCHANGED <<index, log_offset, locks, mode, req, ret, locals, steady>>

\* Mutant of PutIndex: log_offset is advanced before it is inserted.
PutIndexAfterAdvance(t) ==
    /\ At(t, "put_index")
    /\ log_offset' = ToInt(log_offset + Size(PutLine(t)))
    /\ index' = [index EXCEPT ![req[t].key] = log_offset']
    /\ Finish(t, <<"kSucc">>)
    /\ UNCHANGED <<files, locks, mode, req, locals, steady, store>>

\* btree.insert(key, log_offset); log_offset += line.size().
PutIndex(t) ==
    /\ At(t, "put_index")
    /\ LET k == req[t].key
       IN IF Aliased(k)
          THEN /\ Abort("dup_key")
               /\ UNCHANGED <<index, log_offset, pc, ret>>
          ELSE /\ index' = [index EXCEPT ![k] = log_offset]
               /\ log_offset' = ToInt(log_offset + Size(PutLine(t)))
               /\ Finish(t, <<"kSucc">>)
               /\ UNCHANGED mode
    /\ UNCHANGED <<files, locks, req, locals, steady, store>>

-----------------------------------------------------------------------------
(* remove *)

\* Mutant of RmIndex: removing an absent key succeeds.
RmIndexAlwaysSucc(t) ==
    /\ At(t, "rm_index")
    /\ IF Search(req[t].key) = -1
       THEN Finish(t, <<"kSucc">>) /\ UNCHANGED index
       ELSE /\ index' = [index EXCEPT ![req[t].key] = Absent]
            /\ Goto(t, "rm_log")
            /\ UNCHANGED ret
    /\ UNCHANGED <<files, log_offset, locks, mode, req, locals, steady, store>>

\* btree.remove(key): the index entry goes before the line is logged.
RmIndex(t) ==
    /\ At(t, "rm_index")
    /\ IF Search(req[t].key) = -1
       THEN Finish(t, <<"kNotFound">>) /\ UNCHANGED index
       ELSE /\ index' = [index EXCEPT ![req[t].key] = Absent]
            /\ Goto(t, "rm_log")
            /\ UNCHANGED ret
    /\ UNCHANGED <<files, log_offset, locks, mode, req, locals, steady, store>>

\* Mutant of RmLog: no line is logged.
RmLogNothing(t) ==
    /\ At(t, "rm_log")
    /\ store' = [store EXCEPT ![req[t].key] = NoVal]
    /\ Finish(t, <<"kSucc">>)
    /\ UNCHANGED <<files, index, log_offset, locks, mode, req, locals, steady>>

RmLog(t) ==
    /\ At(t, "rm_log")
    /\ LET line == RmRec(req[t].key)
       IN /\ files' = [files EXCEPT !["log"] =
                          AppendRec(OpenAppend(@), line, Size(line))]
          /\ log_offset' = ToInt(log_offset + Size(line))
    /\ store' = [store EXCEPT ![req[t].key] = NoVal]
    /\ Finish(t, <<"kSucc">>)
    /\ UNCHANGED <<index, locks, mode, req, locals, steady>>

-----------------------------------------------------------------------------
(* get *)

GetSearch(t) ==
    /\ At(t, "get_search")
    /\ IF Search(req[t].key) = -1
       THEN Finish(t, <<"kNotFound">>) /\ UNCHANGED offset
       ELSE /\ offset' = [offset EXCEPT ![t] = Search(req[t].key)]
            /\ Goto(t, "get_read")
            /\ UNCHANGED ret
    /\ UNCHANGED <<files, index, log_offset, locks, mode, req, cursor, fpos,
                   out, moved, steady, store>>

\* fopen, fseek, read_key_value.  The key that is read back is not compared
\* with the one asked for.
GetRead(t) ==
    /\ At(t, "get_read")
    /\ IF files["log"] = NoFile
       THEN Abort("null_file") /\ UNCHANGED <<pc, ret>>
       ELSE \E line \in ReadKeyValue(files["log"], Seek(0, offset[t])) :
              CASE line.op = "put"  -> /\ Finish(t, <<"kSucc", line.val>>)
                                       /\ UNCHANGED mode
                [] line.op = "junk" -> /\ Finish(t, <<"kSucc", NoVal>>)
                                       /\ UNCHANGED mode
                [] OTHER            -> Abort("fatal") /\ UNCHANGED <<pc, ret>>
    /\ UNCHANGED <<files, index, log_offset, locks, req, locals, steady, store>>

-----------------------------------------------------------------------------
(* visit *)

\* Mutant of VisitOpen: the scan starts after lower.
VisitOpenAfterLower(t) ==
    /\ At(t, "visit_open")
    /\ cursor' = [cursor EXCEPT ![t] = req[t].lower]
    /\ Goto(t, "visit_scan")
    /\ UNCHANGED <<files, index, log_offset, locks, mode, req, ret, offset,
                   fpos, out, moved, steady, store>>

\* btree.search(lower): the scan starts at the first key >= lower.
VisitOpen(t) ==
    /\ At(t, "visit_open")
    /\ cursor' = [cursor EXCEPT ![t] = req[t].lower - 1]
    /\ Goto(t, "visit_scan")
    /\ UNCHANGED <<files, index, log_offset, locks, mode, req, ret, offset,
                   fpos, out, moved, steady, store>>

\* One turn of the loop: a key that is not > upper is read and visited.
VisitStep(t) ==
    /\ At(t, "visit_scan")
    /\ \E k \in NextKey(cursor[t]) :
         /\ ~ (k > req[t].upper)
         /\ IF files["log"] = NoFile
            THEN Abort("null_file") /\ UNCHANGED <<cursor, fpos, out>>
            ELSE LET at == Seek(fpos[t], index[k])
                 IN \E line \in ReadKeyValue(files["log"], at) :
                      IF line.op = "put"
                      THEN /\ out' = [out EXCEPT ![t] =
                                        Append(@, <<line.key, line.val>>)]
                           /\ fpos' = [fpos EXCEPT ![t] = at + Size(line)]
                           /\ cursor' = [cursor EXCEPT ![t] = k]
                           /\ UNCHANGED mode
                      ELSE /\ Abort(IF line = Junk THEN "junk" ELSE "fatal")
                           /\ UNCHANGED <<cursor, fpos, out>>
    /\ UNCHANGED <<files, index, log_offset, locks, pc, req, ret, offset,
                   moved, steady, store>>

\* The chain is exhausted or its next key is > upper; fclose(r_fp).
VisitEnd(t) ==
    /\ At(t, "visit_scan")
    /\ \A k \in Keys : Present(k) /\ k > cursor[t] => k > req[t].upper
    /\ IF files["log"] = NoFile
       THEN Abort("null_file") /\ UNCHANGED <<pc, ret>>
       ELSE Finish(t, <<"kSucc", out[t]>>) /\ UNCHANGED mode
    /\ UNCHANGED <<files, index, log_offset, locks, req, locals, steady, store>>

-----------------------------------------------------------------------------
(* sync *)

\* fopen creates the log if it is missing; fsync may report an error.
SyncFile(t) ==
    /\ At(t, "sync_file")
    /\ files' = [files EXCEPT !["log"] = OpenAppend(@)]
    /\ \E code \in {"kSucc", "kIOError"} : Finish(t, <<code>>)
    /\ UNCHANGED <<index, log_offset, locks, mode, req, locals, steady, store>>

-----------------------------------------------------------------------------
(* garbage_collect: the caller launches _gc with std::async and then waits *)
(* in the destructor of the future, so the caller stands for the worker.   *)

\* std::async fell back to a deferred task, which is dropped unexecuted.
GcDeferred(t) ==
    /\ At(t, "gc")
    /\ Finish(t, <<"kSucc">>)
    /\ UNCHANGED <<files, index, log_offset, locks, mode, req, locals, steady,
                   store>>

\* std::async launched a thread.
GcLaunch(t) ==
    /\ At(t, "gc")
    /\ Goto(t, "gc_lock")
    /\ UNCHANGED <<files, index, log_offset, locks, mode, req, ret, locals,
                   steady, store>>

\* Mutant of GcLock: _mutex_gc is not taken.
GcLockSkipped(t) ==
    /\ At(t, "gc_lock")
    /\ Goto(t, "gc_shared")
    /\ UNCHANGED <<files, index, log_offset, locks, mode, req, ret, locals,
                   steady, store>>

GcLock(t) ==
    /\ At(t, "gc_lock")
    /\ mutex_gc = {}
    /\ mutex_gc' = {t}
    /\ Goto(t, "gc_shared")
    /\ UNCHANGED <<files, index, log_offset, mutex, mutex2, mode, req, ret,
                   locals, steady, store>>

\* Lock _mutex shared; open the log for reading and log(1) for appending.
GcShared(t) ==
    /\ At(t, "gc_shared")
    /\ CanLockShared(mutex)
    /\ mutex' = LockShared(mutex, t)
    /\ files' = [files EXCEPT !["log1"] = OpenAppend(@)]
    /\ Goto(t, "gc_copy")
    /\ UNCHANGED <<index, log_offset, mutex2, mutex_gc, mode, req, ret, locals,
                   steady, store>>

\* One turn of the copy loop: read_line from the log, log_line to log(1).
GcCopy(t) ==
    /\ At(t, "gc_copy")
    /\ \E k \in NextKey(cursor[t]) :
         IF files["log"] = NoFile
         THEN /\ Abort("null_file")
              /\ UNCHANGED <<files, offset, cursor, fpos, moved>>
         ELSE LET at == Seek(fpos[t], index[k])
              IN \E line \in ReadKeyValue(files["log"], at) :
                   IF line.op \in {"put", "rm"}
                   THEN /\ files' = [files EXCEPT !["log1"] =
                                        AppendRec(@, line, Size(line))]
                        /\ moved' = [moved EXCEPT ![t][k] = offset[t]]
                        /\ offset' = [offset EXCEPT ![t] = @ + Size(line)]
                        /\ fpos' = [fpos EXCEPT ![t] = at + Size(line)]
                        /\ cursor' = [cursor EXCEPT ![t] = k]
                        /\ UNCHANGED mode
                   ELSE /\ Abort("junk")
                        /\ UNCHANGED <<files, offset, cursor, fpos, moved>>
    /\ UNCHANGED <<index, log_offset, locks, pc, req, ret, out, steady, store>>

\* The chain is exhausted; fclose of both files.
GcClose(t) ==
    /\ At(t, "gc_copy")
    /\ ~ \E k \in Keys : Present(k) /\ k > cursor[t]
    /\ IF files["log"] = NoFile
       THEN Abort("null_file") /\ UNCHANGED pc
       ELSE Goto(t, "gc_lock2") /\ UNCHANGED mode
    /\ UNCHANGED <<files, index, log_offset, locks, req, ret, locals, steady,
                   store>>

\* Mutant of GcLock2: _mutex2 is only locked shared.
GcLock2Shared(t) ==
    /\ At(t, "gc_lock2")
    /\ CanLockShared(mutex2)
    /\ mutex2' = LockShared(mutex2, t)
    /\ Goto(t, "gc_reindex")
    /\ UNCHANGED <<files, index, log_offset, mutex, mutex_gc, mode, req, ret,
                   locals, steady, store>>

GcLock2(t) ==
    /\ At(t, "gc_lock2")
    /\ CanLock(mutex2)
    /\ mutex2' = Lock(mutex2, t)
    /\ Goto(t, "gc_reindex")
    /\ UNCHANGED <<files, index, log_offset, mutex, mutex_gc, mode, req, ret,
                   locals, steady, store>>

\* Mutant of GcReindex: the leaves keep their offsets in the old log.
GcReindexNothing(t) ==
    /\ At(t, "gc_reindex")
    /\ Goto(t, "gc_remove")
    /\ UNCHANGED <<files, index, log_offset, locks, mode, req, ret, locals,
                   steady, store>>

\* Every leaf entry takes its new offset, narrowed to int.
GcReindex(t) ==
    /\ At(t, "gc_reindex")
    /\ index' = [k \in Keys |->
                   IF Present(k) THEN ToInt(moved[t][k]) ELSE Absent]
    /\ Goto(t, "gc_remove")
    /\ UNCHANGED <<files, log_offset, locks, mode, req, ret, locals, steady,
                   store>>

\* std::remove(log).
GcRemove(t) ==
    /\ At(t, "gc_remove")
    /\ files' = [files EXCEPT !["log"] = NoFile]
    /\ Goto(t, "gc_rename")
    /\ UNCHANGED <<index, log_offset, locks, mode, req, ret, locals, steady,
                   store>>

\* Mutant of GcRename: log_offset still counts the old log.
GcRenameKeepingOffset(t) ==
    /\ At(t, "gc_rename")
    /\ files' = [files EXCEPT !["log"] = files["log1"], !["log1"] = NoFile]
    /\ Finish(t, <<"kSucc">>)
    /\ UNCHANGED <<index, log_offset, locks, mode, req, locals, steady, store>>

\* std::rename(log(1), log); log_offset = _offset.back().
GcRename(t) ==
    /\ At(t, "gc_rename")
    /\ files' = [files EXCEPT !["log"] = files["log1"], !["log1"] = NoFile]
    /\ log_offset' = ToInt(offset[t])
    /\ Finish(t, <<"kSucc">>)
    /\ UNCHANGED <<index, locks, mode, req, locals, steady, store>>

-----------------------------------------------------------------------------
(* The process is killed and constructed again. *)

All(x)     == [t \in Threads |-> x]

\* What a process starts with.
Memory ==
    /\ index = EmptyIndex /\ log_offset = 0 /\ crash_pos = 0
    /\ mutex = FreeMutex /\ mutex2 = FreeMutex /\ mutex_gc = {}
    /\ pc = All("idle") /\ req = All(NoReq) /\ ret = All(<< >>)
    /\ offset = All(0) /\ cursor = All(-1) /\ fpos = All(0)
    /\ out = All(<< >>) /\ moved = All(EmptyIndex)

MemoryLost ==
    /\ index' = EmptyIndex /\ log_offset' = 0 /\ crash_pos' = 0
    /\ mutex' = FreeMutex /\ mutex2' = FreeMutex /\ mutex_gc' = {}
    /\ pc' = All("idle") /\ req' = All(NoReq) /\ ret' = All(<< >>)
    /\ offset' = All(0) /\ cursor' = All(-1) /\ fpos' = All(0)
    /\ out' = All(<< >>) /\ moved' = All(EmptyIndex)

Kill ==
    /\ mode \in {"rebuild", "up"}
    /\ \A t \in Threads : pc[t] \in CrashAt
    /\ ncrashes < MaxCrashes
    /\ ncrashes' = ncrashes + 1
    /\ mode' = "down"
    /\ MemoryLost
    /\ UNCHANGED <<ncalls, store>>

\* What a kill between two calls leaves: of a log(1) still open for writing,
\* only whole stdio blocks reached the file.
BlocksWritten ==
    IF \E t \in Threads : pc[t] = "gc_copy"
    THEN {[files EXCEPT !["log1"] = Truncate(@, blocks * StdioBuf)] :
            blocks \in 0..(files["log1"].len \div StdioBuf)}
    ELSE {files}

LineOf(t) == IF pc[t] = "put_log" THEN PutLine(t) ELSE RmRec(req[t].key)

\* What a kill inside log_line leaves: only some of the line's blocks.
LineTorn ==
    UNION {{[files EXCEPT !["log"] =
                AppendRec(OpenAppend(@), LineOf(t), blocks * StdioBuf)] :
              blocks \in {n \in 1..(Size(LineOf(t)) \div StdioBuf) :
                            n * StdioBuf < Size(LineOf(t))}} :
           t \in {u \in Threads : pc[u] \in {"put_log", "rm_log"}}}

Crash == Kill /\ files' \in BlocksWritten \cup LineTorn

\* Mutant of Open: the log is never replayed.
OpenWithoutRebuild ==
    /\ mode = "down"
    /\ mode' = "up"
    /\ UNCHANGED <<files, index, log_offset, locks, pc, req, ret, locals,
                   steady, store>>

\* Engine::Engine: rebuild the index if there is a log.
Open ==
    /\ mode = "down"
    /\ mode' = IF files["log"] = NoFile THEN "up" ELSE "rebuild"
    /\ UNCHANGED <<files, index, log_offset, locks, pc, req, ret, locals,
                   steady, store>>

\* Mutant of RebuildLine: remove lines do not advance log_offset.
RebuildLineSkippingRm(line) ==
    /\ line.op \in {"put", "rm"}
    /\ index' = [index EXCEPT ![line.key] =
                    IF line.op = "put" THEN log_offset ELSE Absent]
    /\ log_offset' = IF line.op = "rm" THEN log_offset
                     ELSE ToInt(log_offset + Size(line))
    /\ crash_pos' = crash_pos + Size(line)
    /\ UNCHANGED mode

\* Mutant of RebuildLine: remove lines are not replayed.
RebuildLineIgnoringRm(line) ==
    /\ line.op \in {"put", "rm"}
    /\ index' = [index EXCEPT ![line.key] =
                    IF line.op = "put" THEN log_offset ELSE @]
    /\ log_offset' = ToInt(log_offset + Size(line))
    /\ crash_pos' = crash_pos + Size(line)
    /\ UNCHANGED mode

\* One turn of the loop of rebuild_btree.  crash_fp is read sequentially;
\* log_offset is counted beside it, in an int.
RebuildLine(line) ==
    /\ line.op \in {"put", "rm"}
    /\ ~ (line.op = "put" /\ Aliased(line.key))
    /\ index' = [index EXCEPT ![line.key] =
                    IF line.op = "put" THEN log_offset
                    ELSE IF Search(line.key) = -1 THEN @ ELSE Absent]
    /\ log_offset' = ToInt(log_offset + Size(line))
    /\ crash_pos' = crash_pos + Size(line)
    /\ UNCHANGED mode

\* Mutant of RebuildStep: the end of the file is not noticed.
RebuildStepForever ==
    /\ mode = "rebuild"
    /\ \E line \in ReadKeyValue(files["log"], crash_pos) :
         \/ RebuildLine(line)
         \/ line = Fail /\ UNCHANGED <<mode, index, log_offset, crash_pos>>
    /\ UNCHANGED <<files, locks, pc, req, ret, locals, ncalls, ncrashes, store>>

RebuildStep ==
    /\ mode = "rebuild"
    /\ \E line \in ReadKeyValue(files["log"], crash_pos) :
         \/ RebuildLine(line)
         \/ /\ \/ line.op = "fail" /\ mode' = "up"
               \/ line.op = "junk" /\ Abort("junk")
               \/ line.op = "put" /\ Aliased(line.key) /\ Abort("dup_key")
            /\ UNCHANGED <<index, log_offset, crash_pos>>
    /\ UNCHANGED <<files, locks, pc, req, ret, locals, ncalls, ncrashes, store>>

-----------------------------------------------------------------------------
(* The specification *)

Init ==
    /\ mode = "down"
    /\ Memory
    /\ files = [log |-> IF FreshDir THEN NoFile ELSE EmptyFile, log1 |-> NoFile]
    /\ store = [k \in Keys |-> NoVal]
    /\ ncalls = [t \in Threads |-> 0]
    /\ ncrashes = 0

\* The steps a thread takes by itself once it has entered the engine.
Step(t) ==
    \/ WriteLock(t) \/ ReadLock(t) \/ ReadLock2(t)
    \/ PutLog(t) \/ PutIndex(t)
    \/ RmIndex(t) \/ RmLog(t)
    \/ GetSearch(t) \/ GetRead(t)
    \/ VisitOpen(t) \/ VisitStep(t) \/ VisitEnd(t)
    \/ SyncFile(t)
    \/ GcDeferred(t) \/ GcLaunch(t) \/ GcLock(t) \/ GcShared(t)
    \/ GcCopy(t) \/ GcClose(t) \/ GcLock2(t) \/ GcReindex(t) \/ GcRemove(t) \/ GcRename(t)
    \/ Return(t)

\* The clients have made all their calls, or the process has aborted.
Terminated ==
    /\ \/ mode = "up" /\ \A t \in Threads : pc[t] = "idle" /\ ncalls[t] = MaxOps
       \/ mode \in Faults
    /\ UNCHANGED vars

Next ==
    \/ \E t \in Threads : (\E r \in Requests : Call(t, r)) \/ Step(t)
    \/ Crash \/ Open \/ RebuildStep
    \/ Terminated

\* The scheduler lets every thread run, and construction proceeds.  A blocked
\* thread gets a lock once it stays free.
Fairness ==
    /\ \A t \in Threads : WF_vars(Step(t))
    /\ WF_vars(Open \/ RebuildStep)

Spec     == Init /\ [][Next]_vars
FairSpec == Spec /\ Fairness

-----------------------------------------------------------------------------
(* Properties *)

\* A std::shared_mutex has sharers, or one owner, or neither.
IsMutex(m) ==
    /\ m \in [sh : SUBSET Threads, ex : SUBSET Threads]
    /\ m.ex = {} \/ (m.sh = {} /\ \E t \in Threads : m.ex = {t})

FileTypes ==
    /\ DOMAIN files = {"log", "log1"}
    /\ \A f \in {"log", "log1"} : files[f] = NoFile \/ IsFile(files[f])
IndexTypes ==
    /\ index \in [Keys -> Int \cup {Absent}]
    /\ log_offset \in Int
    /\ crash_pos \in Nat
    /\ store \in [Keys -> Values \cup {NoVal}]
LockTypes ==
    /\ IsMutex(mutex) /\ IsMutex(mutex2)
    /\ mutex_gc \in SUBSET Threads
ThreadTypes ==
    /\ pc \in [Threads -> Labels]
    /\ req \in [Threads -> Requests \cup {NoReq}]
    /\ offset \in [Threads -> Int]
    /\ cursor \in [Threads -> Int]
    /\ fpos \in [Threads -> Nat]
    /\ moved \in [Threads -> [Keys -> Int \cup {Absent}]]
BoundTypes ==
    /\ mode \in {"down", "rebuild", "up"} \cup Faults
    /\ ncalls \in [Threads -> 0..MaxOps]
    /\ ncrashes \in 0..MaxCrashes

\* Every variable has its type.
TypeOK == FileTypes /\ IndexTypes /\ LockTypes /\ ThreadTypes /\ BoundTypes

WriteSection  == {"put_log", "put_index", "rm_index", "rm_log", "sync_file"}
ReadSection   == {"get_search", "get_read", "visit_open", "visit_scan"}
CopySection   == {"gc_copy", "gc_lock2"}
SwitchSection == {"gc_reindex", "gc_remove", "gc_rename"}

\* Lock discipline of engine.cpp: put, remove and sync (lock_guard on _mutex)
\* run alone; there is one _gc at a time (_mutex_gc); while it switches index
\* and file (_mutex2 exclusive) no get or visit is between its two reads.
Exclusion ==
    \A t, u \in Threads :
        t # u =>
          /\ pc[t] \in WriteSection =>
                pc[u] \notin WriteSection \cup ReadSection
                             \cup CopySection \cup SwitchSection
          /\ pc[t] \in SwitchSection => pc[u] \notin ReadSection
          /\ pc[t] \in CopySection \cup SwitchSection =>
                pc[u] \notin CopySection \cup SwitchSection

\* None of the ways in which the process can abort, call stdio on NULL, or take
\* stray bytes of the log for a line, is reached.
NoFault == mode \notin Faults

\* Offset o of file f holds the whole line "put k v".
PointsTo(f, o, k, v) == HasRec(f, o) /\ f.at[o].rec = PutRec(k, v)

\* The file that the index describes: log(1) from the moment _gc has rewritten
\* the index until the rename.
CurrentLog == IF \E t \in Threads : pc[t] \in {"gc_remove", "gc_rename"}
              THEN files["log1"] ELSE files["log"]

BeingWritten(k) ==
    \E t \in Threads : pc[t] \in {"put_index", "rm_log"} /\ req[t].key = k

\* While the engine is up the index holds exactly the keys of the store, each
\* with the offset of a whole line that carries the stored value.  put and
\* remove may break this between index and log, for their own key only.
IndexSound ==
    mode = "up" =>
      \A k \in Keys :
        ~ BeingWritten(k) =>
            IF store[k] = NoVal
            THEN ~ Present(k)
            ELSE Present(k) /\ PointsTo(CurrentLog, index[k], k, store[k])

\* log_offset, which put hands to the index before the log is looked at, is
\* where fopen("a+") really appends: the end of the log.
OffsetIsFileEnd ==
    (mode = "up" /\ \A t \in Threads : pc[t] \notin {"put_index", "gc_rename"})
       => log_offset = OpenAppend(files["log"]).len

\* An offset that get fetched from the index still leads to the value of its
\* key when get reads the file, whatever _gc did in between.
GetOffsetFresh ==
    \A t \in Threads :
        At(t, "get_read") =>
            PointsTo(files["log"], offset[t], req[t].key, store[req[t].key])

\* The lines of f follow each other without gap or torn line.
Tiled(f) ==
    /\ f.len > 0 => 0 \in DOMAIN f.at
    /\ \A o \in DOMAIN f.at :
         /\ HasRec(f, o)
         /\ LET end == o + Size(f.at[o].rec)
            IN end = f.len \/ (end < f.len /\ end \in DOMAIN f.at)

\* The last line of f about key k leaves it with value v.
Denotes(f, k, v) ==
    LET lines == {o \in DOMAIN f.at : f.at[o].rec.key = k}
    IN IF lines = {} THEN v = NoVal
       ELSE \E o \in lines : /\ \A p \in lines : p <= o
                             /\ f.at[o].rec.val = v

\* At every moment outside the remove/rename window of _gc, replaying the log
\* (what rebuild_btree would do after a kill now) yields the store.
LogRecoverable ==
    (\A t \in Threads : pc[t] # "gc_rename") =>
        /\ Tiled(files["log"])
        /\ \A k \in Keys : Denotes(files["log"], k, store[k])

\* "All the modification operations before calling sync() should be
\* persistent" (engine.h): with no call in flight, the keys of the store, and
\* only those, are found.
Persistent ==
    (mode = "up" /\ \A t \in Threads : pc[t] = "idle") =>
        \A k \in Keys : Present(k) <=> store[k] # NoVal

\* Construction over a log ends with an index that holds exactly the store.
RecoveryExact ==
    [][mode = "rebuild" /\ mode' = "up" =>
         \A k \in Keys :
            IF store[k] = NoVal
            THEN index'[k] = Absent
            ELSE /\ index'[k] # Absent
                 /\ PointsTo(files["log"], index'[k], k, store[k])]_vars

\* The log f is compact: for every stored key it has the put line of the key's
\* value, whole, and it has no second line of a key nor a line of any other.
Compact(f) ==
    /\ \A k \in Keys : store[k] # NoVal =>
          \E o \in DOMAIN f.at : PointsTo(f, o, k, store[k])
    /\ \A o \in DOMAIN f.at : store[f.at[o].rec.key] # NoVal
    /\ \A o, p \in DOMAIN f.at : f.at[o].rec.key = f.at[p].rec.key => o = p

\* garbage_collect leaves in the log exactly one line for each stored key, with
\* the value stored, and no other line.
GcCompacts ==
    [][\A t \in Threads :
         pc[t] = "gc_rename" /\ pc'[t] = "return" => Compact(files'["log"])]_vars

\* Every call returns, if the other threads make finitely many.
EveryCallReturns ==
    \A t \in Threads : pc[t] # "idle" ~> pc[t] = "idle"

\* Construction after a kill terminates and the engine is usable again.
RecoveryEnds == mode = "down" ~> mode = "up"
=============================================================================
