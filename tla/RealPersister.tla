---------------------------- MODULE RealPersister ----------------------------
(***************************************************************************)
(* kvs::real_storage (include/persister.h): thin wrappers around the POSIX *)
(* calls.  The kernel is modelled as far as they use it: inodes, the       *)
(* directory, and the table of open files with their offsets.              *)
(***************************************************************************)
EXTENDS Integers, Sequences

VARIABLES inodes,      \* kernel: contents, by inode
          directory,   \* kernel: path -> inode
          fds,         \* kernel: descriptor -> [inode, offset]
          files,       \* the File objects, in the order of open: fd_, path_name_
          result       \* what the last call returned

vars == <<inodes, directory, fds, files, result>>

Error == [ret |-> -1, data |-> << >>]
Returns(n, bytes) == result' = [ret |-> n, data |-> bytes]

-----------------------------------------------------------------------------
(* The kernel *)

IsOpen(fd) == fd \in DOMAIN fds

Contents(fd) == inodes[fds[fd].inode]

\* The bytes of b overwrite those from offset at on; a gap is filled with zeros.
Overwrite(bytes, at, b) ==
    LET end == at + Len(b)
    IN IF b = << >> THEN bytes
       ELSE [i \in 1..(IF end > Len(bytes) THEN end ELSE Len(bytes)) |->
               CASE i > at /\ i <= end -> b[i - at]
                 [] i <= at /\ i > Len(bytes) -> 0
                 [] OTHER -> bytes[i]]

\* The lowest free descriptor; 0, 1 and 2 are taken.
FreeFd == CHOOSE fd \in 3..(3 + Len(files)) :
             ~ IsOpen(fd) /\ \A e \in 3..(fd - 1) : IsOpen(e)

-----------------------------------------------------------------------------
(* File *)

write(f, buf) ==
    LET fd == files[f].fd
    IN /\ IF ~ IsOpen(fd)
          THEN result' = Error /\ UNCHANGED <<inodes, fds>>
          ELSE /\ inodes' = [inodes EXCEPT ![fds[fd].inode] =
                                Overwrite(@, fds[fd].offset, buf)]
               /\ fds' = [fds EXCEPT ![fd].offset = @ + Len(buf)]
               /\ Returns(Len(buf), << >>)
       /\ UNCHANGED <<directory, files>>

read(f, count) ==
    LET fd == files[f].fd
    IN /\ IF ~ IsOpen(fd)
          THEN result' = Error /\ UNCHANGED fds
          ELSE LET from == fds[fd].offset
                   data == SubSeq(Contents(fd), from + 1, from + count)
                   got  == IF from + count <= Len(Contents(fd)) THEN data
                           ELSE SubSeq(Contents(fd), from + 1, Len(Contents(fd)))
               IN /\ fds' = [fds EXCEPT ![fd].offset = @ + Len(got)]
                  /\ Returns(Len(got), got)
       /\ UNCHANGED <<inodes, directory, files>>

\* A target before the start of the file is refused.
lseek(f, off, whence) ==
    LET fd == files[f].fd
        to == off + CASE whence = "SEEK_SET" -> 0
                      [] whence = "SEEK_CUR" -> fds[fd].offset
                      [] whence = "SEEK_END" -> Len(Contents(fd))
    IN /\ IF IsOpen(fd) /\ to >= 0
          THEN fds' = [fds EXCEPT ![fd].offset = to] /\ Returns(to, << >>)
          ELSE result' = Error /\ UNCHANGED fds
       /\ UNCHANGED <<inodes, directory, files>>

\* The File keeps its fd_, and does not note that it is closed.
close(f) ==
    LET fd == files[f].fd
    IN /\ IF IsOpen(fd)
          THEN /\ fds' = [e \in DOMAIN fds \ {fd} |-> fds[e]]
               /\ Returns(0, << >>)
          ELSE result' = Error /\ UNCHANGED fds
       /\ UNCHANGED <<inodes, directory, files>>

-----------------------------------------------------------------------------
(* FilePool *)

\* o_append makes open create the file; it does not make writes append.
open(path, o_trunc, o_append, o_creat) ==
    LET exists == path \in DOMAIN directory
        ino    == IF exists THEN directory[path] ELSE Len(inodes) + 1
    IN IF exists \/ o_creat \/ o_append
       THEN /\ inodes' = IF ~ exists THEN Append(inodes, << >>)
                         ELSE IF o_trunc THEN [inodes EXCEPT ![ino] = << >>]
                         ELSE inodes
            /\ directory' = [p \in DOMAIN directory \cup {path} |->
                                IF p = path THEN ino ELSE directory[p]]
            /\ fds' = [fd \in DOMAIN fds \cup {FreeFd} |->
                          IF fd = FreeFd THEN [inode |-> ino, offset |-> 0]
                          ELSE fds[fd]]
            /\ files' = Append(files, [fd |-> FreeFd, path |-> path])
            /\ Returns(FreeFd, << >>)
       ELSE /\ files' = Append(files, [fd |-> -1, path |-> path])
            /\ result' = Error
            /\ UNCHANGED <<inodes, directory, fds>>

unlink(f) ==
    LET path == files[f].path
    IN /\ IF path \in DOMAIN directory
          THEN /\ directory' = [p \in DOMAIN directory \ {path} |-> directory[p]]
               /\ Returns(0, << >>)
          ELSE result' = Error /\ UNCHANGED directory
       /\ UNCHANGED <<inodes, fds, files>>

Init ==
    /\ inodes = << >>
    /\ directory = [p \in {} |-> 0]
    /\ fds = [fd \in {} |-> 0]
    /\ files = << >>
    /\ result = Error
=============================================================================
