----------------------------- MODULE Durability ------------------------------
(***************************************************************************)
(* The engine on a disk: what survives a crash of the operating system.    *)
(*                                                                         *)
(* A kill of the process loses no byte that was handed to the kernel.  An  *)
(* operating-system crash does: of the log it keeps the bytes that an      *)
(* fsync covered and some of those appended after it.  put and remove do   *)
(* not fsync, sync does, and the log that garbage_collect puts in place of *)
(* the old one was never fsynced.  Directory operations are taken to reach *)
(* the disk in order (a journaling file system).                           *)
(***************************************************************************)
EXTENDS Engine

VARIABLES
    synced,      \* bytes at the start of the log that are on the disk
    snapshots,   \* history: the stores at and since the last successful sync
    replaced,    \* history: _gc has replaced the log since then
    crashed      \* history: what crashed last, the process or the whole system

history == <<snapshots, replaced, crashed>>
dvars   == <<vars, synced, history>>

\* The program points whose step changes what is on the disk or in snapshots.
DiskSteps == {"put_log", "rm_log", "sync_file", "gc_remove"}

DInit ==
    /\ Init
    /\ synced = 0
    /\ snapshots = {store} /\ replaced = FALSE /\ crashed = "process"

-----------------------------------------------------------------------------
(* Steps of the running engine *)

\* put and remove hand their line to the kernel, and to nothing below.
WriteLine(t) ==
    /\ PutLog(t) \/ RmLog(t)
    /\ snapshots' = snapshots \cup {store'}
    /\ UNCHANGED <<synced, replaced, crashed>>

\* Mutant of OnDisk: the file is closed, and not fsynced.
OnDiskNothing(f) == synced

\* fsync: every byte of file f is on the disk.
OnDisk(f) == f.len

\* sync: unless fsync reports an error, the whole log is on the disk.
Sync(t) ==
    /\ SyncFile(t)
    /\ IF ret'[t] = <<"kSucc">>
       THEN /\ synced' = OnDisk(files'["log"])
            /\ snapshots' = {store}
            /\ replaced' = FALSE
       ELSE UNCHANGED <<synced, snapshots, replaced>>
    /\ UNCHANGED crashed

\* _gc deletes the log; the file that replaces it is not on the disk.
DropLog(t) ==
    /\ GcRemove(t)
    /\ synced' = 0
    /\ replaced' = TRUE
    /\ UNCHANGED <<snapshots, crashed>>

OtherStep(t) ==
    /\ \/ \E r \in Requests : Call(t, r)
       \/ pc[t] \notin DiskSteps /\ Step(t)
    /\ UNCHANGED <<synced, history>>

-----------------------------------------------------------------------------
(* Crashes.  A log may be left with a torn line only by the last of the     *)
(* MaxCrashes crashes: what the engine does with it then is another matter. *)

LastCrash == ncrashes + 1 = MaxCrashes

\* The process is killed: nothing that was written is lost.
KillProcess ==
    /\ Kill
    /\ files' \in BlocksWritten \cup (IF LastCrash THEN LineTorn ELSE {})
    /\ crashed' = "process"
    /\ UNCHANGED <<synced, snapshots, replaced>>

\* Where a log may be cut: at or after what is on the disk, between two lines,
\* inside a header, or behind one.
Cuts(f) == {n \in {synced, f.len}
                  \cup {o + d : o \in DOMAIN f.at, d \in {0, 1, HeaderSize}} :
               synced <= n /\ n <= f.len}

\* The operating system crashes.  A log(1) may be left, of any length.
OSCrash ==
    /\ LastCrash
    /\ Kill
    /\ \E n \in Cuts(OpenAppend(files["log"])), log1 \in {files["log1"], NoFile} :
         /\ files' = [log  |-> IF files["log"] = NoFile THEN NoFile
                               ELSE Truncate(files["log"], n),
                      log1 |-> log1]
         /\ synced' = n
    /\ crashed' = "system"
    /\ UNCHANGED <<snapshots, replaced>>

Restart ==
    /\ Open \/ RebuildStep
    /\ UNCHANGED <<synced, history>>

DNext ==
    \/ \E t \in Threads : \/ WriteLine(t) \/ Sync(t) \/ DropLog(t)
                          \/ OtherStep(t)
    \/ KillProcess \/ OSCrash \/ Restart
    \/ Terminated /\ UNCHANGED <<synced, history>>

DSpec == DInit /\ [][DNext]_dvars

-----------------------------------------------------------------------------
(* Properties *)

\* The engine comes up with an index of exactly one of the stores in S.
StartsWithOneOf(S) ==
    mode # "up" /\ mode' = "up" =>
        \E s \in S : \A k \in Keys :
            IF s[k] = NoVal
            THEN index'[k] = Absent
            ELSE /\ index'[k] # Absent
                 /\ PointsTo(files["log"], index'[k], k, s[k])

\* What the files promise: a kill loses nothing, an operating-system crash at
\* most what was written after the last successful sync.
Promised == IF crashed = "system" THEN snapshots ELSE {store}

\* Whatever crashed, rebuild_btree finds a promised store: nothing synced is
\* lost, and no write survives without those before it.  This is claimed only
\* while no _gc has replaced the log since the last successful sync.
SyncedSurvives ==
    [][(crashed = "system" => ~ replaced) => StartsWithOneOf(Promised)]_dvars

\* "All the modification operations before calling sync() should be
\* persistent" (engine.h), whatever _gc did since.
NothingSyncedLost == [][StartsWithOneOf(Promised)]_dvars
=============================================================================
