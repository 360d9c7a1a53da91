---------------------------- MODULE MockPersister ----------------------------
(***************************************************************************)
(* kvs::mock_storage (include/mock_persister.h): a directory of files kept *)
(* in memory, with the image that a crash would leave of each.             *)
(*                                                                         *)
(* An operation is one step: the unit test, the only caller, has a single  *)
(* thread.  With more it would not be one, for open clears a FileStorage   *)
(* without taking its mutex.                                               *)
(***************************************************************************)
EXTENDS Integers, Sequences, FiniteSets

VARIABLES storages,        \* the FileStorage objects, by address
          file_storages,   \* FilePool: path -> address of its FileStorage
          files,           \* the File objects, in the order of open
          result           \* what the last call returned

vars == <<storages, file_storages, files, result>>

Error == [ret |-> -1, data |-> << >>]
Returns(n, bytes) == result' = [ret |-> n, data |-> bytes]

-----------------------------------------------------------------------------
(* FileStorage.  synced and truncated are history: the contents at the last *)
(* fsync, and whether open has truncated the file since.                    *)

NewStorage == [in_memory |-> << >>, on_disk |-> << >>, file_size |-> 0,
               synced |-> << >>, truncated |-> FALSE]

\* FilePool::open with o_trunc: both images are cleared at once.
TruncateStorage(s) ==
    [s EXCEPT !.in_memory = << >>, !.on_disk = << >>, !.file_size = 0,
              !.truncated = TRUE]

\* std::vector<char>::resize: new bytes are zero.
Resize(bytes, n) == [i \in 1..n |-> IF i <= Len(bytes) THEN bytes[i] ELSE 0]

\* Mutant of Grow: the disk image is not resized.
GrowMemoryOnly(s, n) ==
    IF n > s.file_size
    THEN [s EXCEPT !.in_memory = Resize(@, n), !.file_size = n]
    ELSE s

Grow(s, n) ==
    IF n > s.file_size
    THEN [s EXCEPT !.in_memory = Resize(@, n), !.on_disk = Resize(@, n),
                   !.file_size = n]
    ELSE s

do_write(s, position, buf) ==
    LET g == Grow(s, position + Len(buf))
    IN [g EXCEPT !.in_memory =
            [i \in DOMAIN @ |-> IF i \in position + 1 .. position + Len(buf)
                                THEN buf[i - position] ELSE @[i]]]

\* Mutant of do_read: the count is not reduced to what is left of the file.
do_read_whole(s, position, count) ==
    IF position >= s.file_size THEN << >>
    ELSE [i \in 1..count |-> IF position + i <= s.file_size
                             THEN s.in_memory[position + i] ELSE 0]

do_read(s, position, count) ==
    IF position >= s.file_size THEN << >>
    ELSE LET left == s.file_size - position
         IN SubSeq(s.in_memory, position + 1,
                   position + (IF count < left THEN count ELSE left))

SyncStorage(s)  == [s EXCEPT !.on_disk = s.in_memory, !.synced = s.in_memory,
                             !.truncated = FALSE]
CrashStorage(s) == [s EXCEPT !.in_memory = s.on_disk]

fsync(a) ==
    /\ storages' = [storages EXCEPT ![a] = SyncStorage(@)]
    /\ Returns(0, << >>)
    /\ UNCHANGED <<file_storages, files>>

-----------------------------------------------------------------------------
(* File *)

Usable(f) == files[f].fd > 0 /\ ~ files[f].closed

Of(f) == storages[files[f].storage]

write(f, buf) ==
    /\ IF ~ Usable(f)
       THEN result' = Error /\ UNCHANGED <<storages, files>>
       ELSE LET at == IF files[f].append THEN Of(f).file_size
                                         ELSE files[f].cursor
            IN /\ storages' = [storages EXCEPT ![files[f].storage] =
                                  do_write(@, at, buf)]
               /\ files' = IF files[f].append THEN files
                           ELSE [files EXCEPT ![f].cursor = @ + Len(buf)]
               /\ Returns(Len(buf), << >>)
    /\ UNCHANGED file_storages

read(f, count) ==
    /\ IF ~ Usable(f)
       THEN result' = Error /\ UNCHANGED files
       ELSE LET data == IF files[f].append THEN << >>
                        ELSE do_read(Of(f), files[f].cursor, count)
            IN /\ files' = [files EXCEPT ![f].cursor = @ + Len(data)]
               /\ Returns(Len(data), data)
    /\ UNCHANGED <<storages, file_storages>>

lseek(f, off, whence) ==
    LET to == off + CASE whence = "SEEK_SET" -> 0
                      [] whence = "SEEK_CUR" -> files[f].cursor
                      [] whence = "SEEK_END" -> Of(f).file_size
    IN /\ files' = [files EXCEPT ![f].cursor = to]
       /\ Returns(to, << >>)
       /\ UNCHANGED <<storages, file_storages>>

close(f) ==
    /\ files' = [files EXCEPT ![f].closed = TRUE]
    /\ Returns(0, << >>)
    /\ UNCHANGED <<storages, file_storages>>

-----------------------------------------------------------------------------
(* FilePool.  allocated_fd_ starts at 3 and counts successful opens.        *)

NextFd == 3 + Cardinality({f \in DOMAIN files : files[f].fd > 0})

File(fd, path, a, append, cursor) ==
    [fd |-> fd, path |-> path, storage |-> a, closed |-> FALSE,
     append |-> append, cursor |-> cursor]

open(path, o_trunc, o_append, o_creat) ==
    LET exists == path \in DOMAIN file_storages
        a      == IF exists THEN file_storages[path] ELSE Len(storages) + 1
        s      == IF ~ exists THEN NewStorage
                  ELSE IF o_trunc THEN TruncateStorage(storages[a])
                  ELSE storages[a]
    IN IF exists \/ o_creat
       THEN /\ storages' = IF exists THEN [storages EXCEPT ![a] = s]
                                     ELSE Append(storages, s)
            /\ file_storages' = [p \in DOMAIN file_storages \cup {path} |->
                                    IF p = path THEN a ELSE file_storages[p]]
            /\ files' = Append(files, File(NextFd, path, a, o_append,
                                           IF o_append THEN s.file_size ELSE 0))
            /\ Returns(NextFd, << >>)
       ELSE /\ files' = Append(files, File(-1, path, 0, FALSE, 0))
            /\ result' = Error
            /\ UNCHANGED <<storages, file_storages>>

\* Mutant of unlink: the storage itself is emptied.
unlink_clearing(f) ==
    LET path == files[f].path
    IN /\ IF path \in DOMAIN file_storages
          THEN /\ storages' = [storages EXCEPT ![file_storages[path]] = NewStorage]
               /\ file_storages' = [p \in DOMAIN file_storages \ {path} |->
                                       file_storages[p]]
               /\ Returns(0, << >>)
          ELSE result' = Error /\ UNCHANGED <<storages, file_storages>>
       /\ UNCHANGED files

\* The path is forgotten; Files opened before keep the storage.
unlink(f) ==
    LET path == files[f].path
    IN /\ IF path \in DOMAIN file_storages
          THEN /\ file_storages' = [p \in DOMAIN file_storages \ {path} |->
                                       file_storages[p]]
               /\ Returns(0, << >>)
          ELSE result' = Error /\ UNCHANGED file_storages
       /\ UNCHANGED <<storages, files>>

Init ==
    /\ storages = << >>
    /\ file_storages = [p \in {} |-> 0]
    /\ files = << >>
    /\ result = Error

-----------------------------------------------------------------------------
(* Properties *)

\* The bytes that a crash may not lose: those of the last fsync, or none when
\* the file was truncated since, for open clears the disk image without fsync.
Persisted(s) == IF s.truncated THEN << >> ELSE s.synced

\* A crash would leave of every storage what its last fsync saw (nothing, if
\* an open with o_trunc came after it), padded with zero bytes to the current
\* length, however often the file was written to, extended by a write behind
\* its end, truncated or unlinked in between; no byte written since that fsync
\* survives.  Both images have the length that read and write rely on.
CrashLeavesSynced ==
    \A a \in DOMAIN storages :
        LET s == storages[a]
        IN /\ Len(s.in_memory) = s.file_size
           /\ CrashStorage(s).in_memory = Resize(Persisted(s), s.file_size)
=============================================================================
