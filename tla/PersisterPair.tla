---------------------------- MODULE PersisterPair ----------------------------
(***************************************************************************)
(* The two persisters driven in lock step, as unittest/mock_persist.cpp    *)
(* drives them: each call goes to a real and to a mock File, and what they *)
(* return is compared.  The unit test opens one file once; here several    *)
(* handles are opened on several paths, truncated, closed and unlinked.    *)
(*                                                                         *)
(* Next leaves out exactly the calls on which the classes differ:          *)
(*   - open with o_append;                                                 *)
(*   - a write of no bytes behind the end of the file (GrowsByNothing);    *)
(*   - lseek to before the start of the file;                              *)
(*   - lseek and close on a File that is closed or was never opened;       *)
(*   - write and read on a closed File whose descriptor the kernel has     *)
(*     given away again (Dead is what remains).                            *)
(* The second of them the unit test itself may make, for it draws lengths  *)
(* from 0 on.                                                              *)
(***************************************************************************)
EXTENDS Integers, Sequences

CONSTANTS Paths,      \* the file names
          Buffers,    \* what may be written: sequences of bytes
          MaxOpens,   \* bound: calls of open
          MaxSize     \* bound: cursors, and so lengths of files

ASSUME PersisterAssumption ==
    /\ \A buf \in Buffers : buf \in Seq(Nat)
    /\ MaxOpens \in Nat
    /\ MaxSize \in Nat

VARIABLES storages, file_storages, mockFiles, mockResult,
          inodes, directory, fds, realFiles, realResult

Mock == INSTANCE MockPersister WITH files <- mockFiles, result <- mockResult
Real == INSTANCE RealPersister WITH files <- realFiles, result <- realResult

vars == <<storages, file_storages, mockFiles, mockResult,
          inodes, directory, fds, realFiles, realResult>>

-----------------------------------------------------------------------------

\* The handles both sides still hold open.
Handles == {f \in DOMAIN mockFiles : Mock!Usable(f)}

\* The Files that are closed, or were never opened, and whose descriptor is
\* not open either.
Dead == {f \in DOMAIN mockFiles :
            ~ Mock!Usable(f) /\ ~ Real!IsOpen(realFiles[f].fd)}

Open(path, o_trunc, o_creat) ==
    /\ Len(mockFiles) < MaxOpens
    /\ Real!open(path, o_trunc, FALSE, o_creat)
    /\ Mock!open(path, o_trunc, FALSE, o_creat)

\* A write of no bytes behind the end of the file: do_write extends the file to
\* the cursor, the kernel leaves it as it is.
GrowsByNothing(f, buf) ==
    Mock!Usable(f) /\ buf = << >> /\ mockFiles[f].cursor > Mock!Of(f).file_size

\* The real write is repeated until nothing is left of the buffer.
Write(f, buf) ==
    /\ Mock!Usable(f) => mockFiles[f].cursor + Len(buf) <= MaxSize
    /\ ~ GrowsByNothing(f, buf)
    /\ Real!write(f, buf)
    /\ Mock!write(f, buf)

\* The real read is repeated until it returns 0.
Read(f, count) ==
    /\ Real!read(f, count)
    /\ Mock!read(f, count)

Whence == {"SEEK_SET", "SEEK_CUR", "SEEK_END"}

Lseek(f, off, whence) ==
    /\ Real!lseek(f, off, whence)
    /\ Mock!lseek(f, off, whence)
    /\ mockFiles'[f].cursor \in 0..MaxSize

Close(f)  == Real!close(f) /\ Mock!close(f)
Unlink(f) == Real!unlink(f) /\ Mock!unlink(f)

\* No File offers fsync, only the storage behind it.
Fsync(a) ==
    /\ Mock!fsync(a)
    /\ UNCHANGED <<inodes, directory, fds, realFiles, realResult>>

Init == Mock!Init /\ Real!Init

Next ==
    \/ \E p \in Paths, o_trunc, o_creat \in BOOLEAN : Open(p, o_trunc, o_creat)
    \/ \E f \in Handles \cup Dead :
          \/ \E buf \in Buffers : Write(f, buf)
          \/ \E count \in 0..MaxSize : Read(f, count)
    \/ \E f \in Handles :
          \/ \E off \in -MaxSize..MaxSize, whence \in Whence : Lseek(f, off, whence)
          \/ Close(f)
    \/ \E f \in DOMAIN mockFiles : Unlink(f)
    \/ \E a \in DOMAIN storages : Fsync(a)

Spec == Init /\ [][Next]_vars

-----------------------------------------------------------------------------
(* Properties *)

\* The mock and the real call have returned the same count, position and bytes
\* (of open, only whether it succeeded: the mock never reuses a descriptor),
\* and on every open handle both stand at the same offset (assert_offset_same).
SameAnswer ==
    /\ mockResult'.data = realResult'.data
    /\ IF Len(mockFiles') = Len(mockFiles)
       THEN mockResult'.ret = realResult'.ret
       ELSE mockResult'.ret > 0 <=> realResult'.ret > 0
    /\ \A f \in Handles' : fds'[realFiles'[f].fd].offset = mockFiles'[f].cursor

\* What the unit test checks after every call, on every open handle at once:
\* the mock answers as the real persister does.
MockMatchesReal ==
    [][SameAnswer \/ \E a \in DOMAIN storages : Fsync(a)]_vars

\* What a crash would leave: see MockPersister.
CrashLeavesSynced == Mock!CrashLeavesSynced

\* Two handles share their bytes exactly when the kernel's descriptors share
\* an inode, and each path leads to a file with the same bytes, open on the same
\* handles, on both sides: truncation, unlink and creation of the path again
\* leave no handle and no path on the wrong file.
SameFiles ==
    /\ DOMAIN file_storages = DOMAIN directory
    /\ \A p \in DOMAIN directory :
          /\ storages[file_storages[p]].in_memory = inodes[directory[p]]
          /\ \A f \in Handles :
                (file_storages[p] = mockFiles[f].storage) <=>
                (directory[p] = fds[realFiles[f].fd].inode)
    /\ \A f, g \in Handles :
          (mockFiles[f].storage = mockFiles[g].storage) <=>
          (fds[realFiles[f].fd].inode = fds[realFiles[g].fd].inode)
    /\ \A f \in Handles :
          storages[mockFiles[f].storage].in_memory = inodes[fds[realFiles[f].fd].inode]
=============================================================================
