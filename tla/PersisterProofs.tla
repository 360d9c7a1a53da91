-------------------------- MODULE PersisterProofs ----------------------------
(***************************************************************************)
(* Where PersisterPair makes a call on both sides, the mock persister      *)
(* answers as the real one, and a crash of the mock leaves what was last   *)
(* synced: for every set of paths and buffers, any number of handles and   *)
(* files of every length.                                                  *)
(***************************************************************************)
EXTENDS PersisterPair, NaturalFacts, FiniteSetTheorems

Bytes == Seq(Nat)

Storage == [in_memory : Bytes, on_disk : Bytes, file_size : Nat, synced : Bytes,
            truncated : BOOLEAN]

\* Both images have the length file_size, and the disk has what was synced.
\* Unless it was truncated, the file is not shorter than at its last fsync: else
\* growing it again would bring bytes back on one side only.
Good(s) ==
    /\ s \in Storage
    /\ Len(s.in_memory) = s.file_size
    /\ s.on_disk = Mock!Resize(Mock!Persisted(s), s.file_size)
    /\ Len(Mock!Persisted(s)) <= s.file_size

-----------------------------------------------------------------------------
(* The operators *)

\* std::vector::resize yields a vector of the new length.
LEMMA ResizeType ==
    ASSUME NEW b \in Bytes, NEW n \in Nat
    PROVE  /\ Mock!Resize(b, n) \in Bytes
           /\ Len(Mock!Resize(b, n)) = n
           /\ \A i \in 1..n : Mock!Resize(b, n)[i] = IF i <= Len(b) THEN b[i] ELSE 0
<1>1. \A i \in 1..n : (IF i <= Len(b) THEN b[i] ELSE 0) \in Nat
  BY DEF Bytes
<1> QED BY <1>1 DEF Mock!Resize, Bytes

\* Two sequences of one length with the same elements are equal.
LEMMA SameBytes ==
    ASSUME NEW b \in Bytes, NEW c \in Bytes, Len(b) = Len(c),
           \A i \in 1..Len(b) : b[i] = c[i]
    PROVE  b = c
BY DEF Bytes

\* Growing in two steps is growing in one: FileStorage::write after write.
LEMMA ResizeTwice ==
    ASSUME NEW b \in Bytes, NEW m \in Nat, NEW n \in Nat,
           Len(b) <= m, m <= n
    PROVE  Mock!Resize(Mock!Resize(b, m), n) = Mock!Resize(b, n)
<1> DEFINE c == Mock!Resize(Mock!Resize(b, m), n)
           d == Mock!Resize(b, n)
<1>1. c \in Bytes /\ d \in Bytes /\ Len(c) = n /\ Len(d) = n
  BY ResizeType
<1>2. ASSUME NEW i \in 1..n PROVE c[i] = d[i]
  <2> DEFINE e == Mock!Resize(b, m)
  <2>1. /\ e \in Bytes /\ Len(e) = m
        /\ \A j \in 1..m : e[j] = IF j <= Len(b) THEN b[j] ELSE 0
    BY ResizeType
  <2>2. d[i] = IF i <= Len(b) THEN b[i] ELSE 0
    BY ResizeType
  <2> HIDE DEF e
  <2>3. Mock!Resize(e, n)[i] = IF i <= m THEN e[i] ELSE 0
    BY <2>1, ResizeType
  <2>4. i <= m => e[i] = IF i <= Len(b) THEN b[i] ELSE 0
    BY <2>1
  <2>5. ~ i <= m => d[i] = 0
    BY <2>2 DEF Bytes
  <2> QED BY <2>2, <2>3, <2>4, <2>5 DEF e
<1> QED BY <1>1, <1>2, SameBytes

\* Resizing to the present length changes nothing.
LEMMA ResizeSame ==
    ASSUME NEW b \in Bytes
    PROVE  Mock!Resize(b, Len(b)) = b
<1>1. Len(b) \in Nat
  BY DEF Bytes
<1> QED BY <1>1, ResizeType, SameBytes

\* The bytes that a crash may not lose are bytes.
LEMMA PersistedType ==
    ASSUME NEW s \in Storage
    PROVE  Mock!Persisted(s) \in Bytes /\ Len(Mock!Persisted(s)) \in Nat
BY DEF Mock!Persisted, Storage, Bytes

\* A storage with both images empty, and nothing that a crash may not lose.
LEMMA EmptyGood ==
    ASSUME NEW s \in Storage, s.in_memory = << >>, s.on_disk = << >>,
           s.file_size = 0, Mock!Persisted(s) = << >>
    PROVE  Good(s)
<1>1. << >> \in Bytes /\ Len(<< >>) = 0
  BY DEF Bytes
<1>2. Mock!Resize(<< >>, 0) = << >>
  BY <1>1, ResizeSame
<1> QED BY <1>1, <1>2 DEF Good

\* A new FileStorage is empty, in memory and on disk.
LEMMA NewGood ==
    /\ Good(Mock!NewStorage)
    /\ Mock!NewStorage.in_memory = << >>
<1> DEFINE s == Mock!NewStorage
<1>1. s = [in_memory |-> << >>, on_disk |-> << >>, file_size |-> 0,
           synced |-> << >>, truncated |-> FALSE]
  BY DEF Mock!NewStorage
<1> HIDE DEF s
<1>2. /\ s \in Storage /\ s.in_memory = << >> /\ s.on_disk = << >>
      /\ s.file_size = 0 /\ Mock!Persisted(s) = << >>
  BY <1>1 DEF Storage, Bytes, Mock!Persisted
<1>3. Good(s) /\ s.in_memory = << >>
  BY <1>2, EmptyGood
<1> QED BY <1>3 DEF s

\* open with o_trunc empties both images, whatever was synced.
LEMMA TruncateGood ==
    ASSUME NEW s, Good(s)
    PROVE  /\ Good(Mock!TruncateStorage(s))
           /\ Mock!TruncateStorage(s).in_memory = << >>
<1> DEFINE r == Mock!TruncateStorage(s)
<1>1. r = [s EXCEPT !.in_memory = << >>, !.on_disk = << >>, !.file_size = 0,
                    !.truncated = TRUE]
  BY DEF Mock!TruncateStorage
<1> HIDE DEF r
<1>2. /\ r \in Storage /\ r.in_memory = << >> /\ r.on_disk = << >>
      /\ r.file_size = 0 /\ Mock!Persisted(r) = << >>
  <2>1. s \in Storage /\ << >> \in Bytes
    BY DEF Good, Bytes
  <2>2. r \in Storage /\ r.truncated = TRUE
    BY <1>1, <2>1 DEF Storage
  <2>3. r.in_memory = << >> /\ r.on_disk = << >> /\ r.file_size = 0
    BY <1>1, <2>1 DEF Storage
  <2> QED BY <2>2, <2>3 DEF Mock!Persisted
<1>3. Good(r) /\ r.in_memory = << >>
  BY <1>2, EmptyGood
<1> QED BY <1>3 DEF r

\* fsync makes the disk image the one in memory.
LEMMA SyncGood ==
    ASSUME NEW s, Good(s)
    PROVE  /\ Good(Mock!SyncStorage(s))
           /\ Mock!SyncStorage(s).in_memory = s.in_memory
           /\ Mock!SyncStorage(s).file_size = s.file_size
<1> DEFINE r == Mock!SyncStorage(s)
<1>1. Mock!Resize(s.in_memory, s.file_size) = s.in_memory
  BY ResizeSame DEF Good, Storage
<1>2. s.file_size \in Nat /\ Len(s.in_memory) <= s.file_size
  BY DEF Good, Storage
<1>3. r = [s EXCEPT !.on_disk = s.in_memory, !.synced = s.in_memory,
                    !.truncated = FALSE]
  BY DEF Mock!SyncStorage
<1> HIDE DEF r
<1>4. /\ r \in Storage /\ r.in_memory = s.in_memory /\ r.on_disk = s.in_memory
      /\ r.file_size = s.file_size /\ Mock!Persisted(r) = s.in_memory
  BY <1>3 DEF Good, Storage, Mock!Persisted
<1>5. Good(r) /\ r.in_memory = s.in_memory /\ r.file_size = s.file_size
  BY <1>1, <1>2, <1>4 DEF Good
<1> QED BY <1>5 DEF r

\* FileStorage::write leaves what the kernel's write leaves, and grows both
\* images.
LEMMA WriteGood ==
    ASSUME NEW s, Good(s), NEW at \in Nat, NEW buf \in Bytes, buf # << >>
    PROVE  /\ Good(Mock!do_write(s, at, buf))
           /\ Mock!do_write(s, at, buf).in_memory = Real!Overwrite(s.in_memory, at, buf)
<1> DEFINE end == at + Len(buf)
           g == Mock!Grow(s, end)
           w == Mock!do_write(s, at, buf)
           new == [i \in DOMAIN g.in_memory |->
                      IF i \in at + 1 .. end THEN buf[i - at] ELSE g.in_memory[i]]
           max == IF end > Len(s.in_memory) THEN end ELSE Len(s.in_memory)
<1>1. /\ s \in Storage /\ end \in Nat /\ Len(buf) > 0 /\ s.file_size \in Nat
      /\ s.in_memory \in Bytes /\ Mock!Persisted(s) \in Bytes /\ s.on_disk \in Bytes
      /\ Len(s.in_memory) = s.file_size /\ Len(Mock!Persisted(s)) <= s.file_size
      /\ Len(Mock!Persisted(s)) \in Nat
  BY PersistedType DEF Good, Storage, Bytes
<1>2. /\ Good(g) /\ g.file_size = max
      /\ \A i \in 1..max : g.in_memory[i] = IF i <= Len(s.in_memory)
                                            THEN s.in_memory[i] ELSE 0
  <2>1. CASE end > s.file_size
    <3>1. g = [s EXCEPT !.in_memory = Mock!Resize(@, end),
                        !.on_disk = Mock!Resize(@, end), !.file_size = end]
      BY <2>1 DEF Mock!Grow
    <3> HIDE DEF g
    <3>2. /\ g \in Storage /\ g.file_size = end
          /\ Mock!Persisted(g) = Mock!Persisted(s)
          /\ g.in_memory = Mock!Resize(s.in_memory, end)
          /\ g.on_disk = Mock!Resize(s.on_disk, end)
      BY <1>1, <3>1, ResizeType DEF Storage, Mock!Persisted
    <3>3. g.on_disk = Mock!Resize(Mock!Persisted(g), g.file_size)
      BY <1>1, <2>1, <3>2, ResizeTwice DEF Good
    <3> HIDE DEF end
    <3>4. LET r == Mock!Resize(s.in_memory, end)
          IN /\ Len(r) = end
             /\ \A i \in 1..end : r[i] = IF i <= Len(s.in_memory)
                                         THEN s.in_memory[i] ELSE 0
      BY <1>1, ResizeType
    <3>5. /\ Len(g.in_memory) = g.file_size
          /\ \A i \in 1..end : g.in_memory[i] = IF i <= Len(s.in_memory)
                                                 THEN s.in_memory[i] ELSE 0
      BY <3>2, <3>4
    <3> QED BY <1>1, <2>1, <3>2, <3>3, <3>4, <3>5 DEF Good
  <2>2. CASE ~ end > s.file_size
    <3>1. g = s
      BY <2>2 DEF Mock!Grow
    <3> HIDE DEF g
    <3> QED BY <1>1, <2>2, <3>1 DEF Good
  <2> QED BY <2>1, <2>2
<1>3. w = [g EXCEPT !.in_memory = new]
  BY DEF Mock!do_write
<1> HIDE DEF g, w
<1>4. /\ g \in Storage /\ g.in_memory \in Bytes /\ Len(g.in_memory) = max
      /\ max \in Nat /\ end <= max
  BY <1>1, <1>2 DEF Good, Storage
<1>5. DOMAIN g.in_memory = 1..max
  BY <1>4 DEF Bytes
<1>6. \A i \in 1..max : (IF i \in at + 1 .. end THEN buf[i - at]
                         ELSE g.in_memory[i]) \in Nat
  <2> HIDE DEF max
  <2> TAKE i \in 1..max
  <2>1. CASE i \in at + 1 .. end
    <3>1. i - at \in 1..Len(buf)
      BY <1>1, <2>1
    <3> QED BY <2>1, <3>1 DEF Bytes
  <2>2. CASE i \notin at + 1 .. end
    <3>1. i \in DOMAIN g.in_memory
      BY <1>5
    <3>2. g.in_memory[i] \in Nat
      BY <1>4, <3>1 DEF Bytes
    <3> QED BY <2>2, <3>2
  <2> QED BY <2>1, <2>2
<1>7. new \in Bytes /\ Len(new) = max
  <2> HIDE DEF max
  <2> QED BY <1>4, <1>5, <1>6 DEF Bytes
<1>8. Good(w) /\ w.in_memory = new
  <2> HIDE DEF new, max
  <2>1. /\ w \in Storage /\ w.in_memory = new /\ w.on_disk = g.on_disk
        /\ w.file_size = g.file_size /\ Mock!Persisted(w) = Mock!Persisted(g)
    BY <1>3, <1>4, <1>7 DEF Storage, Mock!Persisted
  <2> QED BY <1>2, <1>7, <2>1 DEF Good
<1>9. Real!Overwrite(s.in_memory, at, buf) =
        [i \in 1..max |-> CASE i > at /\ i <= end -> buf[i - at]
                            [] i <= at /\ i > Len(s.in_memory) -> 0
                            [] OTHER -> s.in_memory[i]]
  BY DEF Real!Overwrite
<1>10. new = [i \in 1..max |-> CASE i > at /\ i <= end -> buf[i - at]
                                 [] i <= at /\ i > Len(s.in_memory) -> 0
                                 [] OTHER -> s.in_memory[i]]
  <2>1. ASSUME NEW i \in 1..max
        PROVE  (IF i \in at + 1 .. end THEN buf[i - at] ELSE g.in_memory[i]) =
               (CASE i > at /\ i <= end -> buf[i - at]
                  [] i <= at /\ i > Len(s.in_memory) -> 0
                  [] OTHER -> s.in_memory[i])
    BY <1>1, <1>2, <1>4
  <2> HIDE DEF max
  <2> QED BY <1>5, <2>1
<1> HIDE DEF new, max, end
<1> QED BY <1>8, <1>9, <1>10 DEF w

\* A write of no bytes within the file leaves it as it is, on both sides.
LEMMA EmptyWrite ==
    ASSUME NEW s, Good(s), NEW at \in Nat, at <= s.file_size
    PROVE  /\ Mock!do_write(s, at, << >>) = s
           /\ Real!Overwrite(s.in_memory, at, << >>) = s.in_memory
<1>1. s \in Storage /\ s.in_memory \in Bytes /\ s.file_size \in Nat
  BY DEF Good, Storage
<1>2. at + Len(<< >>) = at
  OBVIOUS
<1>3. Mock!Grow(s, at) = s
  BY <1>1 DEF Mock!Grow
<1> DEFINE new == [i \in DOMAIN s.in_memory |->
                      IF i \in at + 1 .. at THEN << >>[i - at] ELSE s.in_memory[i]]
<1>4. new = s.in_memory
  <2>1. at + 1 .. at = {}
    OBVIOUS
  <2> QED BY <1>1, <2>1 DEF Bytes
<1>5. Mock!do_write(s, at, << >>) = [s EXCEPT !.in_memory = new]
  BY <1>2, <1>3 DEF Mock!do_write
<1> HIDE DEF new
<1>6. [s EXCEPT !.in_memory = s.in_memory] = s
  BY <1>1 DEF Storage
<1> QED BY <1>4, <1>5, <1>6 DEF Real!Overwrite

\* FileStorage::read returns what the kernel's read returns.
LEMMA ReadSame ==
    ASSUME NEW s, Good(s), NEW at \in Nat, NEW count \in Nat
    PROVE  /\ Mock!do_read(s, at, count) =
                 IF at + count <= Len(s.in_memory)
                 THEN SubSeq(s.in_memory, at + 1, at + count)
                 ELSE SubSeq(s.in_memory, at + 1, Len(s.in_memory))
           /\ Len(Mock!do_read(s, at, count)) \in Nat
<1>1. s.in_memory \in Bytes /\ Len(s.in_memory) = s.file_size /\ s.file_size \in Nat
  BY DEF Good, Storage
<1> DEFINE m == s.in_memory
           left == s.file_size - at
<1>2. CASE at >= s.file_size
  <2>1. Mock!do_read(s, at, count) = << >>
    BY <1>2 DEF Mock!do_read
  <2>2. SubSeq(m, at + 1, Len(m)) = << >>
    BY <1>1, <1>2 DEF Bytes
  <2>3. at + count <= Len(m) => at + count = Len(m)
    BY <1>1, <1>2
  <2> QED BY <2>1, <2>2, <2>3
<1>3. CASE ~ at >= s.file_size
  <2>1. Mock!do_read(s, at, count) =
           SubSeq(m, at + 1, at + (IF count < left THEN count ELSE left))
    BY <1>3 DEF Mock!do_read
  <2>2. CASE at + count <= Len(m)
    <3>1. at + (IF count < left THEN count ELSE left) = at + count
      BY <1>1, <2>2
    <3>2. Len(SubSeq(m, at + 1, at + count)) \in Nat
      BY <1>1, <2>2 DEF Bytes
    <3> QED BY <2>1, <2>2, <3>1, <3>2
  <2>3. CASE ~ at + count <= Len(m)
    <3>1. at + (IF count < left THEN count ELSE left) = Len(m)
      BY <1>1, <2>3
    <3>2. Len(SubSeq(m, at + 1, Len(m))) \in Nat
      BY <1>1, <1>3 DEF Bytes
    <3> QED BY <2>1, <2>3, <3>1, <3>2
  <2> QED BY <2>2, <2>3
<1> QED BY <1>2, <1>3

-----------------------------------------------------------------------------
(* The inductive invariant *)

\* Storages and inodes are allocated in step and hold the same bytes; a path
\* leads to the same one on both sides.
ContentsInv ==
    /\ storages \in Seq(Storage) /\ inodes \in Seq(Bytes)
    /\ Len(storages) = Len(inodes)
    /\ \A a \in DOMAIN storages : /\ Good(storages[a])
                                  /\ storages[a].in_memory = inodes[a]
    /\ file_storages = directory
    /\ directory \in [DOMAIN directory -> DOMAIN inodes]

MockFile == [fd : Int, path : Paths, storage : Nat, closed : BOOLEAN,
             append : {FALSE}, cursor : Nat]

FilesInv ==
    /\ mockFiles \in Seq(MockFile)
    /\ realFiles \in Seq([fd : Int, path : Paths])
    /\ Len(mockFiles) = Len(realFiles)
    /\ \A f \in DOMAIN mockFiles : mockFiles[f].path = realFiles[f].path

\* Descriptors are below the first that has never been needed.
FdsInv ==
    /\ DOMAIN fds \subseteq 3..(2 + Len(realFiles))
    /\ fds \in [DOMAIN fds -> [inode : DOMAIN inodes, offset : Nat]]

\* An open handle has a descriptor of its own, on the inode of its storage and
\* at its cursor.
HandleInv ==
    /\ \A f \in Handles :
          /\ realFiles[f].fd \in DOMAIN fds
          /\ fds[realFiles[f].fd].inode = mockFiles[f].storage
          /\ fds[realFiles[f].fd].offset = mockFiles[f].cursor
    /\ \A f, g \in Handles : realFiles[f].fd = realFiles[g].fd => f = g

PInv == ContentsInv /\ FilesInv /\ FdsInv /\ HandleInv

\* The invariant implies what the runs check.
LEMMA PInvImplies == PInv => SameFiles /\ CrashLeavesSynced
<1> SUFFICES ASSUME PInv PROVE SameFiles /\ CrashLeavesSynced
  OBVIOUS
<1>1. SameFiles
  <2>1. ASSUME NEW f \in Handles
        PROVE  fds[realFiles[f].fd].inode \in DOMAIN storages
    BY DEF PInv, HandleInv, FdsInv, ContentsInv
  <2>2. ASSUME NEW p \in DOMAIN directory
        PROVE  /\ file_storages[p] = directory[p]
               /\ storages[directory[p]].in_memory = inodes[directory[p]]
    <3>1. directory[p] \in DOMAIN storages
      BY DEF PInv, ContentsInv
    <3> QED BY <3>1 DEF PInv, ContentsInv
  <2> QED BY <2>1, <2>2 DEF PInv, ContentsInv, HandleInv, SameFiles
<1>2. CrashLeavesSynced
  <2>1. ASSUME NEW s, Good(s)
        PROVE  /\ Len(s.in_memory) = s.file_size
               /\ Mock!CrashStorage(s).in_memory =
                     Mock!Resize(Mock!Persisted(s), s.file_size)
    BY <2>1 DEF Good, Storage, Mock!CrashStorage
  <2> QED BY <2>1 DEF PInv, ContentsInv, CrashLeavesSynced, Mock!CrashLeavesSynced
<1> QED BY <1>1, <1>2

\* Without files there is nothing to disagree on.
LEMMA PInvInit == Init => PInv
BY DEF Init, Mock!Init, Real!Init, PInv, ContentsInv, FilesInv, FdsInv, HandleInv,
       Handles, Mock!Usable, Storage, Bytes, MockFile

\* A usable handle, spelled out.
LEMMA HandleFacts ==
    ASSUME PInv, NEW f \in Handles
    PROVE  /\ f \in DOMAIN mockFiles /\ f \in DOMAIN realFiles
           /\ DOMAIN mockFiles = DOMAIN realFiles
           /\ mockFiles[f] \in MockFile /\ Mock!Usable(f)
           /\ mockFiles[f].append = FALSE
           /\ realFiles[f].fd \in DOMAIN fds /\ Real!IsOpen(realFiles[f].fd)
           /\ fds[realFiles[f].fd] \in [inode : DOMAIN inodes, offset : Nat]
           /\ fds[realFiles[f].fd].inode = mockFiles[f].storage
           /\ fds[realFiles[f].fd].offset = mockFiles[f].cursor
           /\ mockFiles[f].storage \in DOMAIN storages
           /\ mockFiles[f].storage \in DOMAIN inodes
           /\ mockFiles[f].cursor \in Nat
           /\ realFiles[f].path = mockFiles[f].path
           /\ Good(storages[mockFiles[f].storage])
           /\ storages[mockFiles[f].storage].in_memory = inodes[mockFiles[f].storage]
<1>1. /\ f \in DOMAIN mockFiles /\ DOMAIN mockFiles = DOMAIN realFiles
      /\ Mock!Usable(f)
  BY DEF PInv, FilesInv, Handles
<1>2. mockFiles[f] \in MockFile
  BY <1>1 DEF PInv, FilesInv
<1>3. /\ realFiles[f].fd \in DOMAIN fds
      /\ fds[realFiles[f].fd].inode = mockFiles[f].storage
      /\ fds[realFiles[f].fd].offset = mockFiles[f].cursor
  BY DEF PInv, HandleInv
<1>4. fds[realFiles[f].fd] \in [inode : DOMAIN inodes, offset : Nat]
  BY <1>3 DEF PInv, FdsInv
<1>5. DOMAIN storages = DOMAIN inodes
  BY DEF PInv, ContentsInv
<1> QED
  BY <1>1, <1>2, <1>3, <1>4, <1>5
     DEF PInv, ContentsInv, FilesInv, MockFile, Real!IsOpen

\* A step on handle f that moves its cursor, on both sides to the same place,
\* and leaves the paths, the descriptors and the Files otherwise alone.
LEMMA CursorStep ==
    ASSUME PInv, NEW f \in Handles, NEW to \in Nat,
           mockFiles' = [mockFiles EXCEPT ![f].cursor = to],
           fds' = [fds EXCEPT ![realFiles[f].fd].offset = to],
           realFiles' = realFiles, DOMAIN inodes' = DOMAIN inodes
    PROVE  /\ FilesInv' /\ FdsInv' /\ HandleInv'
           /\ \A g \in Handles' : fds'[realFiles'[g].fd].offset = mockFiles'[g].cursor
<1> DEFINE fd == realFiles[f].fd
<1>1. /\ f \in DOMAIN mockFiles /\ fd \in DOMAIN fds
      /\ mockFiles[f] \in MockFile /\ fds[fd].inode = mockFiles[f].storage
      /\ fds[fd] \in [inode : DOMAIN inodes, offset : Nat]
  BY HandleFacts
<1>2. /\ mockFiles'[f] = [mockFiles[f] EXCEPT !.cursor = to]
      /\ \A g \in DOMAIN mockFiles : g # f => mockFiles'[g] = mockFiles[g]
      /\ DOMAIN mockFiles' = DOMAIN mockFiles
      /\ Len(mockFiles') = Len(mockFiles)
      /\ mockFiles' \in Seq(MockFile)
  <2>1. [mockFiles[f] EXCEPT !.cursor = to] \in MockFile
    BY <1>1 DEF MockFile
  <2> QED BY <1>1, <2>1 DEF PInv, FilesInv
<1>3. /\ fds'[fd] = [fds[fd] EXCEPT !.offset = to] /\ DOMAIN fds' = DOMAIN fds
      /\ \A e \in DOMAIN fds : e # fd => fds'[e] = fds[e]
  BY <1>1 DEF PInv, FdsInv
<1>4. FilesInv'
  <2>1. mockFiles'[f].path = mockFiles[f].path
    BY <1>1, <1>2 DEF MockFile
  <2> QED BY <1>2, <2>1 DEF PInv, FilesInv
<1>5. FdsInv'
  <2>1. fds'[fd] \in [inode : DOMAIN inodes, offset : Nat]
    BY <1>1, <1>3
  <2>2. ASSUME NEW e \in DOMAIN fds
        PROVE  fds'[e] \in [inode : DOMAIN inodes, offset : Nat]
    BY <1>3, <2>1 DEF PInv, FdsInv
  <2> HIDE DEF fd
  <2> QED BY <1>3, <2>2 DEF PInv, FdsInv
<1>6. Handles' = Handles
  <2>1. ASSUME NEW g \in DOMAIN mockFiles
        PROVE  mockFiles'[g].fd = mockFiles[g].fd /\ mockFiles'[g].closed = mockFiles[g].closed
    BY <1>1, <1>2 DEF MockFile
  <2> QED BY <1>2, <2>1 DEF Handles, Mock!Usable
<1>7. HandleInv'
  <2>1. ASSUME NEW g \in Handles
        PROVE  /\ realFiles[g].fd \in DOMAIN fds'
               /\ fds'[realFiles[g].fd].inode = mockFiles'[g].storage
               /\ fds'[realFiles[g].fd].offset = mockFiles'[g].cursor
    <3>1. CASE g = f
      BY <1>1, <1>2, <1>3, <3>1 DEF MockFile
    <3>2. CASE g # f
      <4>1. realFiles[g].fd # fd
        BY <3>2 DEF PInv, HandleInv
      <4>2. g \in DOMAIN mockFiles /\ realFiles[g].fd \in DOMAIN fds
        BY HandleFacts
      <4>3. mockFiles'[g] = mockFiles[g] /\ fds'[realFiles[g].fd] = fds[realFiles[g].fd]
        BY <1>2, <1>3, <3>2, <4>1, <4>2
      <4> QED BY <1>3, <4>2, <4>3 DEF PInv, HandleInv
    <3> QED BY <3>1, <3>2
  <2> QED BY <1>6, <2>1 DEF PInv, HandleInv
<1> QED BY <1>4, <1>5, <1>7 DEF HandleInv

-----------------------------------------------------------------------------
(* The calls *)

\* What a call on a handle has to show: the invariant, and the same answer.
Agrees ==
    /\ PInv'
    /\ mockResult' = realResult'
    /\ Len(mockFiles') = Len(mockFiles)

\* A write moves both cursors and both files alike.
LEMMA WriteAgrees ==
    ASSUME PInv, NEW f \in Handles, NEW buf \in Buffers, Write(f, buf)
    PROVE  Agrees
<1> DEFINE fd == realFiles[f].fd
           a == mockFiles[f].storage
           at == mockFiles[f].cursor
<1>1. /\ f \in DOMAIN mockFiles /\ mockFiles[f] \in MockFile /\ Mock!Usable(f)
      /\ mockFiles[f].append = FALSE
      /\ Real!IsOpen(fd) /\ fds[fd].inode = a /\ fds[fd].offset = at
      /\ a \in DOMAIN storages /\ a \in DOMAIN inodes /\ at \in Nat
      /\ Good(storages[a]) /\ storages[a].in_memory = inodes[a]
      /\ fds[fd] \in [inode : DOMAIN inodes, offset : Nat] /\ fd \in DOMAIN fds
  BY HandleFacts
<1>2. buf \in Bytes /\ Len(buf) \in Nat
  BY PersisterAssumption DEF Bytes
<1>3. /\ storages' = [storages EXCEPT ![a] = Mock!do_write(@, at, buf)]
      /\ mockFiles' = [mockFiles EXCEPT ![f].cursor = @ + Len(buf)]
      /\ mockResult' = [ret |-> Len(buf), data |-> << >>]
      /\ file_storages' = file_storages
  BY <1>1 DEF Write, Mock!write, Mock!Returns
<1>4. /\ inodes' = [inodes EXCEPT ![a] = Real!Overwrite(@, at, buf)]
      /\ fds' = [fds EXCEPT ![fd].offset = @ + Len(buf)]
      /\ realResult' = [ret |-> Len(buf), data |-> << >>]
      /\ directory' = directory /\ realFiles' = realFiles
  BY <1>1 DEF Write, Real!write, Real!Returns
<1>5. /\ Good(Mock!do_write(storages[a], at, buf))
      /\ Mock!do_write(storages[a], at, buf).in_memory = Real!Overwrite(inodes[a], at, buf)
  <2>1. CASE buf # << >>
    <3> HIDE DEF a, at
    <3> QED BY <1>1, <1>2, <2>1, WriteGood
  <2>2. CASE buf = << >>
    <3>1. storages[a].file_size \in Nat
      BY <1>1 DEF Good, Storage
    <3>2. at <= storages[a].file_size
      BY <1>1, <2>2, <3>1 DEF Write, GrowsByNothing, Mock!Of
    <3> HIDE DEF a, at
    <3> QED BY <1>1, <2>2, <3>2, EmptyWrite
  <2> QED BY <2>1, <2>2
<1>6. ContentsInv'
  <2>1. /\ DOMAIN storages' = DOMAIN storages /\ DOMAIN inodes' = DOMAIN inodes
        /\ storages'[a] = Mock!do_write(storages[a], at, buf)
        /\ inodes'[a] = Real!Overwrite(inodes[a], at, buf)
        /\ \A b \in DOMAIN storages : b # a => storages'[b] = storages[b] /\ inodes'[b] = inodes[b]
    BY <1>1, <1>3, <1>4 DEF PInv, ContentsInv
  <2>2. Mock!do_write(storages[a], at, buf) \in Storage
    BY <1>5 DEF Good
  <2>3. Real!Overwrite(inodes[a], at, buf) \in Bytes
    BY <1>5, <2>2 DEF Storage
  <2>4. storages' \in Seq(Storage) /\ inodes' \in Seq(Bytes) /\ Len(storages') = Len(inodes')
    BY <1>1, <1>3, <1>4, <2>2, <2>3 DEF PInv, ContentsInv
  <2>5. ASSUME NEW b \in DOMAIN storages
        PROVE  Good(storages'[b]) /\ storages'[b].in_memory = inodes'[b]
    BY <1>5, <2>1, <2>5 DEF PInv, ContentsInv
  <2> QED BY <1>3, <1>4, <2>1, <2>4, <2>5 DEF PInv, ContentsInv
<1>7. /\ mockFiles' = [mockFiles EXCEPT ![f].cursor = at + Len(buf)]
      /\ fds' = [fds EXCEPT ![fd].offset = at + Len(buf)]
      /\ at + Len(buf) \in Nat
  BY <1>1, <1>2, <1>3, <1>4
<1>8. DOMAIN inodes' = DOMAIN inodes
  BY <1>4
<1>9. FilesInv' /\ FdsInv' /\ HandleInv'
  BY <1>4, <1>7, <1>8, CursorStep
<1>10. Len(mockFiles') = Len(mockFiles)
  BY <1>7 DEF PInv, FilesInv
<1> QED BY <1>3, <1>4, <1>6, <1>9, <1>10 DEF Agrees, PInv

\* A read returns the same bytes on both sides, at the end of the file too.
LEMMA ReadAgrees ==
    ASSUME PInv, NEW f \in Handles, NEW count \in 0..MaxSize, Read(f, count)
    PROVE  Agrees
<1> DEFINE fd == realFiles[f].fd
           a == mockFiles[f].storage
           at == mockFiles[f].cursor
           data == Mock!do_read(storages[a], at, count)
<1>1. /\ f \in DOMAIN mockFiles /\ mockFiles[f] \in MockFile /\ Mock!Usable(f)
      /\ mockFiles[f].append = FALSE
      /\ Real!IsOpen(fd) /\ fds[fd].inode = a /\ fds[fd].offset = at
      /\ a \in DOMAIN storages /\ a \in DOMAIN inodes /\ at \in Nat
      /\ Good(storages[a]) /\ storages[a].in_memory = inodes[a]
      /\ fds[fd] \in [inode : DOMAIN inodes, offset : Nat] /\ fd \in DOMAIN fds
  BY HandleFacts
<1>2. count \in Nat
  BY PersisterAssumption
<1>3. /\ mockFiles' = [mockFiles EXCEPT ![f].cursor = @ + Len(data)]
      /\ mockResult' = [ret |-> Len(data), data |-> data]
      /\ storages' = storages /\ file_storages' = file_storages
  BY <1>1 DEF Read, Mock!read, Mock!Returns, Mock!Of
<1>4. data = IF at + count <= Len(inodes[a])
             THEN SubSeq(inodes[a], at + 1, at + count)
             ELSE SubSeq(inodes[a], at + 1, Len(inodes[a]))
  <2> HIDE DEF a, at
  <2>1. Mock!do_read(storages[a], at, count) =
           IF at + count <= Len(storages[a].in_memory)
           THEN SubSeq(storages[a].in_memory, at + 1, at + count)
           ELSE SubSeq(storages[a].in_memory, at + 1, Len(storages[a].in_memory))
    BY <1>1, <1>2, ReadSame
  <2> QED BY <1>1, <2>1
<1>10. Len(data) \in Nat
  <2> HIDE DEF a, at
  <2> QED BY <1>1, <1>2, ReadSame
<1> HIDE DEF data
<1>5. /\ fds' = [fds EXCEPT ![fd].offset = @ + Len(data)]
      /\ realResult' = [ret |-> Len(data), data |-> data]
      /\ inodes' = inodes /\ directory' = directory /\ realFiles' = realFiles
  BY <1>1, <1>4 DEF Read, Real!read, Real!Returns, Real!Contents
<1>6. ContentsInv'
  BY <1>3, <1>5 DEF PInv, ContentsInv
<1>7. /\ mockFiles' = [mockFiles EXCEPT ![f].cursor = at + Len(data)]
      /\ fds' = [fds EXCEPT ![fd].offset = at + Len(data)]
      /\ at + Len(data) \in Nat
  <2>1. at + Len(data) \in Nat
    BY <1>1, <1>10
  <2>2. mockFiles' = [mockFiles EXCEPT ![f].cursor = at + Len(data)]
    BY <1>3
  <2>3. fds' = [fds EXCEPT ![fd].offset = at + Len(data)]
    BY <1>1, <1>5
  <2> QED BY <2>1, <2>2, <2>3
<1>8. FilesInv' /\ FdsInv' /\ HandleInv'
  BY <1>5, <1>7, CursorStep
<1>9. Len(mockFiles') = Len(mockFiles)
  BY <1>7 DEF PInv, FilesInv
<1> QED BY <1>3, <1>5, <1>6, <1>8, <1>9 DEF Agrees, PInv

\* A File that is open on neither side fails to write and to read on both.
LEMMA DeadAgrees ==
    ASSUME PInv, NEW f \in Dead, NEW buf, NEW count,
           Write(f, buf) \/ Read(f, count)
    PROVE  Agrees
<1>1. ~ Mock!Usable(f) /\ ~ Real!IsOpen(realFiles[f].fd)
  BY DEF Dead
<1>2. /\ mockResult' = Mock!Error /\ realResult' = Real!Error
      /\ UNCHANGED <<storages, file_storages, mockFiles, inodes, directory, fds,
                     realFiles>>
  BY <1>1 DEF Write, Read, Mock!write, Real!write, Mock!read, Real!read
<1>3. PInv'
  BY <1>2 DEF PInv, ContentsInv, FilesInv, FdsInv, HandleInv, Handles, Mock!Usable
<1> QED BY <1>2, <1>3 DEF Agrees, Mock!Error, Real!Error

\* A seek, forward or back, leaves both cursors at the same place.
LEMMA LseekAgrees ==
    ASSUME PInv, NEW f \in Handles, NEW off \in -MaxSize..MaxSize,
           NEW whence \in Whence, Lseek(f, off, whence)
    PROVE  Agrees
<1> DEFINE fd == realFiles[f].fd
           a == mockFiles[f].storage
           to == off + CASE whence = "SEEK_SET" -> 0
                         [] whence = "SEEK_CUR" -> mockFiles[f].cursor
                         [] whence = "SEEK_END" -> Len(inodes[a])
<1>1. /\ Real!IsOpen(fd) /\ fds[fd].inode = a /\ fds[fd].offset = mockFiles[f].cursor
      /\ a \in DOMAIN inodes /\ mockFiles[f].cursor \in Nat
      /\ Good(storages[a]) /\ storages[a].in_memory = inodes[a]
  BY HandleFacts
<1>2. storages[a].file_size = Len(inodes[a]) /\ Len(inodes[a]) \in Nat
  BY <1>1 DEF Good, Storage
<1>3. to \in Nat
  <2>1. f \in DOMAIN mockFiles /\ mockFiles[f] \in MockFile
    BY HandleFacts
  <2>2. mockFiles' = [mockFiles EXCEPT ![f].cursor = to]
    BY <1>2 DEF Lseek, Mock!lseek, Mock!Of
  <2> HIDE DEF to
  <2>3. mockFiles'[f].cursor = to
    BY <2>1, <2>2 DEF MockFile, PInv, FilesInv
  <2> QED BY <2>3, PersisterAssumption DEF Lseek
<1>4. /\ mockFiles' = [mockFiles EXCEPT ![f].cursor = to]
      /\ mockResult' = [ret |-> to, data |-> << >>]
      /\ storages' = storages /\ file_storages' = file_storages
  BY <1>2 DEF Lseek, Mock!lseek, Mock!Returns, Mock!Of
<1>5. /\ fds' = [fds EXCEPT ![fd].offset = to]
      /\ realResult' = [ret |-> to, data |-> << >>]
      /\ inodes' = inodes /\ directory' = directory /\ realFiles' = realFiles
  <2> DEFINE there == off + CASE whence = "SEEK_SET" -> 0
                              [] whence = "SEEK_CUR" -> fds[fd].offset
                              [] whence = "SEEK_END" -> Len(Real!Contents(fd))
  <2>1. there = to
    BY <1>1 DEF Real!Contents
  <2>2. /\ IF Real!IsOpen(fd) /\ there >= 0
           THEN /\ fds' = [fds EXCEPT ![fd].offset = there]
                /\ realResult' = [ret |-> there, data |-> << >>]
           ELSE realResult' = Real!Error /\ UNCHANGED fds
        /\ UNCHANGED <<inodes, directory, realFiles>>
    BY DEF Lseek, Real!lseek, Real!Returns
  <2> HIDE DEF there, to
  <2> QED BY <1>1, <1>3, <2>1, <2>2
<1> HIDE DEF to
<1>6. ContentsInv'
  BY <1>4, <1>5 DEF PInv, ContentsInv
<1>7. FilesInv' /\ FdsInv' /\ HandleInv'
  BY <1>3, <1>4, <1>5, CursorStep
<1>8. Len(mockFiles') = Len(mockFiles)
  BY <1>4 DEF PInv, FilesInv
<1> QED BY <1>4, <1>5, <1>6, <1>7, <1>8 DEF Agrees, PInv

\* close: the descriptor is free, and no other handle has it.
LEMMA CloseAgrees ==
    ASSUME PInv, NEW f \in Handles, Close(f)
    PROVE  Agrees
<1> DEFINE fd == realFiles[f].fd
<1>1. f \in DOMAIN mockFiles /\ mockFiles[f] \in MockFile /\ Real!IsOpen(fd)
  BY HandleFacts
<1>2. /\ mockFiles' = [mockFiles EXCEPT ![f].closed = TRUE]
      /\ mockResult' = [ret |-> 0, data |-> << >>]
      /\ storages' = storages /\ file_storages' = file_storages
  BY DEF Close, Mock!close, Mock!Returns
<1>3. /\ fds' = [e \in DOMAIN fds \ {fd} |-> fds[e]]
      /\ realResult' = [ret |-> 0, data |-> << >>]
      /\ inodes' = inodes /\ directory' = directory /\ realFiles' = realFiles
  BY <1>1 DEF Close, Real!close, Real!Returns
<1>4. ContentsInv'
  BY <1>2, <1>3 DEF PInv, ContentsInv
<1>5. /\ mockFiles'[f] = [mockFiles[f] EXCEPT !.closed = TRUE]
      /\ \A g \in DOMAIN mockFiles : g # f => mockFiles'[g] = mockFiles[g]
      /\ DOMAIN mockFiles' = DOMAIN mockFiles
      /\ Len(mockFiles') = Len(mockFiles)
      /\ mockFiles' \in Seq(MockFile)
  <2>1. [mockFiles[f] EXCEPT !.closed = TRUE] \in MockFile
    BY <1>1 DEF MockFile
  <2> QED BY <1>1, <1>2, <2>1 DEF PInv, FilesInv
<1>6. FilesInv'
  <2>1. mockFiles'[f].path = mockFiles[f].path
    BY <1>1, <1>5 DEF MockFile
  <2> QED BY <1>3, <1>5, <2>1 DEF PInv, FilesInv
<1>7. FdsInv'
  BY <1>3 DEF PInv, FdsInv
<1>8. Handles' = Handles \ {f}
  <2>1. mockFiles'[f].closed
    BY <1>1, <1>5 DEF MockFile
  <2> QED BY <1>5, <2>1 DEF Handles, Mock!Usable
<1>9. HandleInv'
  <2>1. ASSUME NEW g \in Handles, g # f
        PROVE  /\ realFiles[g].fd \in DOMAIN fds'
               /\ fds'[realFiles[g].fd].inode = mockFiles'[g].storage
               /\ fds'[realFiles[g].fd].offset = mockFiles'[g].cursor
    <3>1. realFiles[g].fd # fd
      BY <2>1 DEF PInv, HandleInv
    <3>2. g \in DOMAIN mockFiles /\ realFiles[g].fd \in DOMAIN fds
      BY HandleFacts
    <3>3. /\ mockFiles'[g] = mockFiles[g] /\ realFiles[g].fd \in DOMAIN fds'
          /\ fds'[realFiles[g].fd] = fds[realFiles[g].fd]
      BY <1>3, <1>5, <2>1, <3>1, <3>2
    <3> QED BY <3>2, <3>3 DEF PInv, HandleInv
  <2> QED BY <1>3, <1>8, <2>1 DEF PInv, HandleInv
<1> QED BY <1>2, <1>3, <1>4, <1>5, <1>6, <1>7, <1>9 DEF Agrees, PInv

\* unlink: the path is forgotten on both sides, or on neither.
LEMMA UnlinkAgrees ==
    ASSUME PInv, NEW f \in DOMAIN mockFiles, Unlink(f)
    PROVE  Agrees
<1>1. realFiles[f].path = mockFiles[f].path /\ file_storages = directory
  BY DEF PInv, FilesInv, ContentsInv
<1>2. /\ file_storages' = directory' /\ mockResult' = realResult'
      /\ directory' \in {directory, [p \in DOMAIN directory \ {mockFiles[f].path} |-> directory[p]]}
  BY <1>1 DEF Unlink, Mock!unlink, Real!unlink, Mock!Returns, Real!Returns,
              Mock!Error, Real!Error
<1>3. UNCHANGED <<storages, mockFiles, inodes, fds, realFiles>>
  BY DEF Unlink, Mock!unlink, Real!unlink
<1>4. directory' \in [DOMAIN directory' -> DOMAIN inodes]
  BY <1>2 DEF PInv, ContentsInv
<1>5. ContentsInv'
  BY <1>2, <1>3, <1>4 DEF PInv, ContentsInv
<1>6. FilesInv' /\ FdsInv' /\ HandleInv'
  BY <1>3 DEF PInv, FilesInv, FdsInv, HandleInv, Handles, Mock!Usable
<1> QED BY <1>2, <1>3, <1>5, <1>6 DEF Agrees, PInv

\* fsync changes the mock's second image only.
LEMMA FsyncKeeps ==
    ASSUME PInv, NEW a \in DOMAIN storages, Fsync(a)
    PROVE  PInv'
<1>1. /\ storages' = [storages EXCEPT ![a] = Mock!SyncStorage(@)]
      /\ UNCHANGED <<file_storages, mockFiles, inodes, directory, fds, realFiles>>
  BY DEF Fsync, Mock!fsync
<1>2. /\ Good(Mock!SyncStorage(storages[a]))
      /\ Mock!SyncStorage(storages[a]).in_memory = storages[a].in_memory
  BY SyncGood DEF PInv, ContentsInv
<1>3. Mock!SyncStorage(storages[a]) \in Storage
  BY <1>2 DEF Good
<1>4. ContentsInv'
  <2>1. storages' \in Seq(Storage) /\ Len(storages') = Len(storages)
    BY <1>1, <1>3 DEF PInv, ContentsInv
  <2>2. ASSUME NEW b \in DOMAIN storages
        PROVE  Good(storages'[b]) /\ storages'[b].in_memory = inodes[b]
    BY <1>1, <1>2, <2>2 DEF PInv, ContentsInv
  <2>3. DOMAIN storages' = DOMAIN storages
    BY <1>1
  <2> QED BY <1>1, <2>1, <2>2, <2>3 DEF PInv, ContentsInv
<1>5. FilesInv' /\ FdsInv' /\ HandleInv'
  BY <1>1 DEF PInv, FilesInv, FdsInv, HandleInv, Handles, Mock!Usable
<1> QED BY <1>4, <1>5 DEF PInv

\* The kernel finds a free descriptor.
LEMMA FreeFdFacts ==
    ASSUME PInv
    PROVE  Real!FreeFd \in 3..(3 + Len(realFiles)) /\ Real!FreeFd \notin DOMAIN fds
<1> DEFINE n == Len(realFiles)
           free == {fd \in 3..(3 + n) : fd \notin DOMAIN fds}
<1>1. n \in Nat
  BY DEF PInv, FilesInv
<1>2. 3 + n \in free
  BY <1>1 DEF PInv, FdsInv
<1>3. free \in SUBSET Nat
  BY <1>1
<1>4. PICK m \in free : \A k \in free : m <= k
  BY <1>2, <1>3, LeastNat
<1>5. \A e \in 3..(m - 1) : e \in DOMAIN fds
  BY <1>1, <1>4
<1>6. \E fd \in 3..(3 + n) : ~ Real!IsOpen(fd) /\ \A e \in 3..(fd - 1) : Real!IsOpen(e)
  BY <1>4, <1>5 DEF Real!IsOpen
<1>7. ~ Real!IsOpen(Real!FreeFd) /\ Real!FreeFd \in 3..(3 + n)
  BY <1>6 DEF Real!FreeFd
<1> QED BY <1>7 DEF Real!IsOpen

\* allocated_fd_ is positive.
LEMMA NextFdFacts ==
    ASSUME PInv
    PROVE  Mock!NextFd \in Nat /\ Mock!NextFd > 0
<1> DEFINE S == {f \in DOMAIN mockFiles : mockFiles[f].fd > 0}
<1>1. IsFiniteSet(DOMAIN mockFiles)
  <2>1. DOMAIN mockFiles = 1..Len(mockFiles) /\ Len(mockFiles) \in Nat
    BY DEF PInv, FilesInv
  <2> QED BY <2>1, FS_Interval
<1>2. Cardinality(S) \in Nat
  BY <1>1, FS_Subset, FS_CardinalityType
<1>3. Mock!NextFd = 3 + Cardinality(S)
  BY Zenon DEF Mock!NextFd, Mock!Cardinality, Cardinality
<1> QED BY <1>2, <1>3

\* open, where it fails: no file, and o_creat not given.
LEMMA OpenFails ==
    ASSUME PInv, NEW path \in Paths, NEW o_trunc \in BOOLEAN, NEW o_creat \in BOOLEAN,
           Open(path, o_trunc, o_creat), path \notin DOMAIN directory, ~ o_creat
    PROVE  PInv' /\ mockResult' = realResult'
<1> DEFINE mf == Mock!File(-1, path, 0, FALSE, 0)
           rf == [fd |-> -1, path |-> path]
           n == Len(mockFiles)
<1>1. /\ mockFiles' = Append(mockFiles, mf) /\ realFiles' = Append(realFiles, rf)
      /\ mockResult' = realResult'
      /\ UNCHANGED <<storages, file_storages, inodes, directory, fds>>
  BY DEF Open, Mock!open, Real!open, PInv, ContentsInv, Mock!Error, Real!Error
<1>2. /\ mf \in MockFile /\ mf.path = rf.path /\ mf.fd = -1
      /\ rf \in [fd : Int, path : Paths]
  BY DEF Mock!File, MockFile
<1> HIDE DEF mf, rf
<1>3. /\ mockFiles \in Seq(MockFile) /\ realFiles \in Seq([fd : Int, path : Paths])
      /\ n \in Nat /\ Len(realFiles) = n
  BY DEF PInv, FilesInv
<1>4. /\ mockFiles' \in Seq(MockFile) /\ realFiles' \in Seq([fd : Int, path : Paths])
      /\ Len(mockFiles') = n + 1 /\ Len(realFiles') = n + 1
      /\ mockFiles'[n + 1] = mf /\ realFiles'[n + 1] = rf
      /\ \A g \in 1..n : mockFiles'[g] = mockFiles[g] /\ realFiles'[g] = realFiles[g]
      /\ DOMAIN mockFiles' = 1..(n + 1) /\ DOMAIN mockFiles = 1..n
  BY <1>1, <1>2, <1>3
<1> HIDE DEF n
<1>5. FilesInv'
  <2>1. ASSUME NEW f \in DOMAIN mockFiles' PROVE mockFiles'[f].path = realFiles'[f].path
    <3>1. CASE f = n + 1
      BY <1>2, <1>4, <3>1
    <3>2. CASE f # n + 1
      <4>1. f \in 1..n
        BY <1>3, <1>4, <3>2
      <4> QED BY <1>4, <4>1 DEF PInv, FilesInv
    <3> QED BY <3>1, <3>2
  <2> QED BY <1>4, <2>1 DEF FilesInv
<1>6. Handles' = Handles
  <2>1. n + 1 \notin Handles'
    BY <1>2, <1>4 DEF Handles, Mock!Usable
  <2>2. ASSUME NEW f \in 1..n PROVE f \in Handles' <=> f \in Handles
    BY <1>3, <1>4 DEF Handles, Mock!Usable
  <2> QED BY <1>3, <1>4, <2>1, <2>2 DEF Handles
<1>7. HandleInv'
  <2>1. \A f \in Handles : f \in 1..n
    BY <1>4 DEF Handles
  <2>2. \A f \in Handles : mockFiles'[f] = mockFiles[f] /\ realFiles'[f] = realFiles[f]
    BY <1>4, <2>1
  <2>3. fds' = fds
    BY <1>1
  <2>4. ASSUME NEW f \in Handles
        PROVE  /\ realFiles'[f].fd \in DOMAIN fds
               /\ fds[realFiles'[f].fd].inode = mockFiles'[f].storage
               /\ fds[realFiles'[f].fd].offset = mockFiles'[f].cursor
    BY <2>2 DEF PInv, HandleInv
  <2>5. \A f, g \in Handles : realFiles'[f].fd = realFiles'[g].fd => f = g
    BY <2>2 DEF PInv, HandleInv
  <2> QED BY <1>6, <2>3, <2>4, <2>5 DEF HandleInv
<1>8. FdsInv'
  <2>1. 3..(2 + n) \subseteq 3..(2 + (n + 1))
    BY <1>3
  <2> QED BY <1>1, <1>3, <1>4, <2>1 DEF PInv, FdsInv
<1>9. ContentsInv'
  BY <1>1 DEF PInv, ContentsInv
<1> QED BY <1>1, <1>5, <1>7, <1>8, <1>9 DEF PInv

\* open, where it succeeds: both sides truncate, find or create the same file.
LEMMA OpenSucceeds ==
    ASSUME PInv, NEW path \in Paths, NEW o_trunc \in BOOLEAN, NEW o_creat \in BOOLEAN,
           Open(path, o_trunc, o_creat), path \in DOMAIN directory \/ o_creat
    PROVE  /\ PInv' /\ mockResult'.data = realResult'.data
           /\ mockResult'.ret > 0 /\ realResult'.ret > 0
<1> DEFINE exists == path \in DOMAIN directory
           a == IF exists THEN directory[path] ELSE Len(inodes) + 1
           s == IF ~ exists THEN Mock!NewStorage
                ELSE IF o_trunc THEN Mock!TruncateStorage(storages[a])
                ELSE storages[a]
           fd == Real!FreeFd
           mf == Mock!File(Mock!NextFd, path, a, FALSE, 0)
           rf == [fd |-> fd, path |-> path]
           n == Len(mockFiles)
           m == Len(inodes)
<1>1. file_storages = directory /\ Len(storages) = Len(inodes)
  BY DEF PInv, ContentsInv
<1>2. /\ storages' = IF exists THEN [storages EXCEPT ![a] = s] ELSE Append(storages, s)
      /\ file_storages' = [p \in DOMAIN directory \cup {path} |->
                              IF p = path THEN a ELSE directory[p]]
      /\ mockFiles' = Append(mockFiles, mf)
      /\ mockResult' = [ret |-> Mock!NextFd, data |-> << >>]
  BY <1>1 DEF Open, Mock!open, Mock!Returns
<1>3. /\ inodes' = IF ~ exists THEN Append(inodes, << >>)
                   ELSE IF o_trunc THEN [inodes EXCEPT ![a] = << >>] ELSE inodes
      /\ directory' = [p \in DOMAIN directory \cup {path} |->
                          IF p = path THEN a ELSE directory[p]]
      /\ fds' = [e \in DOMAIN fds \cup {fd} |->
                    IF e = fd THEN [inode |-> a, offset |-> 0] ELSE fds[e]]
      /\ realFiles' = Append(realFiles, rf)
      /\ realResult' = [ret |-> fd, data |-> << >>]
  BY DEF Open, Real!open, Real!Returns
<1>4. fd \in 3..(3 + n) /\ fd \notin DOMAIN fds /\ fd > 0 /\ fd \in Int /\ n \in Nat
  <2>1. Len(realFiles) = n /\ n \in Nat
    BY DEF PInv, FilesInv
  <2> QED BY <2>1, FreeFdFacts
<1>5. Mock!NextFd \in Nat /\ Mock!NextFd > 0
  BY NextFdFacts
<1> HIDE DEF fd
<1>6. a \in Nat /\ (exists => a \in DOMAIN inodes) /\ (~ exists => a = m + 1) /\ m \in Nat
  <2>1. m \in Nat /\ DOMAIN inodes = 1..m
    BY DEF PInv, ContentsInv
  <2>2. CASE exists
    <3>1. directory[path] \in DOMAIN inodes
      BY <2>2 DEF PInv, ContentsInv
    <3> QED BY <2>1, <2>2, <3>1
  <2>3. CASE ~ exists
    BY <2>1, <2>3
  <2> QED BY <2>2, <2>3
<1>7. /\ mf \in MockFile /\ mf.path = path /\ mf.fd > 0 /\ ~ mf.closed
      /\ mf.storage = a /\ mf.cursor = 0
  <2> HIDE DEF a
  <2> QED BY <1>5, <1>6 DEF Mock!File, MockFile
<1>8. rf \in [fd : Int, path : Paths] /\ rf.path = path /\ rf.fd = fd
  BY <1>4
<1> HIDE DEF mf, rf
<1>9. ContentsInv' /\ a \in DOMAIN inodes' /\ DOMAIN inodes \subseteq DOMAIN inodes'
  <2>1. Good(Mock!NewStorage) /\ Mock!NewStorage.in_memory = << >> /\ << >> \in Bytes
    BY NewGood DEF Bytes
  <2>2. Mock!NewStorage \in Storage
    BY <2>1 DEF Good
  <2>3. /\ storages' \in Seq(Storage) /\ inodes' \in Seq(Bytes)
        /\ Len(storages') = Len(inodes') /\ a \in DOMAIN inodes'
        /\ DOMAIN inodes \subseteq DOMAIN inodes'
        /\ \A b \in DOMAIN storages' : /\ Good(storages'[b])
                                       /\ storages'[b].in_memory = inodes'[b]
    <3>0. /\ storages \in Seq(Storage) /\ inodes \in Seq(Bytes)
          /\ Len(storages) = m /\ DOMAIN storages = 1..m /\ DOMAIN inodes = 1..m
          /\ \A b \in 1..m : Good(storages[b]) /\ storages[b].in_memory = inodes[b]
      BY DEF PInv, ContentsInv
    <3>1. CASE ~ exists
      <4>1. storages' = Append(storages, Mock!NewStorage) /\ inodes' = Append(inodes, << >>)
        BY <1>2, <1>3, <3>1
      <4>2. /\ storages' \in Seq(Storage) /\ inodes' \in Seq(Bytes)
            /\ Len(storages') = m + 1 /\ Len(inodes') = m + 1
            /\ storages'[m + 1] = Mock!NewStorage /\ inodes'[m + 1] = << >>
            /\ \A b \in 1..m : storages'[b] = storages[b] /\ inodes'[b] = inodes[b]
            /\ DOMAIN storages' = 1..(m + 1) /\ DOMAIN inodes' = 1..(m + 1)
        <5> HIDE DEF m
        <5> QED BY <1>6, <2>1, <2>2, <3>0, <4>1
      <4>3. ASSUME NEW b \in 1..(m + 1)
            PROVE  Good(storages'[b]) /\ storages'[b].in_memory = inodes'[b]
        <5>1. CASE b = m + 1
          BY <2>1, <4>2, <5>1
        <5>2. CASE b # m + 1
          <6>1. b \in 1..m
            BY <1>6, <5>2
          <6> QED BY <3>0, <4>2, <6>1
        <5> QED BY <5>1, <5>2
      <4>4. a \in DOMAIN inodes' /\ DOMAIN inodes \subseteq DOMAIN inodes'
        BY <1>6, <3>0, <3>1, <4>2
      <4> QED BY <4>2, <4>3, <4>4
    <3>2. CASE exists /\ o_trunc
      <4> DEFINE r == Mock!TruncateStorage(storages[a])
      <4>1. /\ storages' = [storages EXCEPT ![a] = r]
            /\ inodes' = [inodes EXCEPT ![a] = << >>]
        BY <1>2, <1>3, <3>2
      <4> HIDE DEF a, m
      <4>2. a \in 1..m
        BY <1>6, <3>0, <3>2
      <4>6. Good(r) /\ r.in_memory = << >> /\ r \in Storage
        <5>1. Good(storages[a])
          BY <3>0, <4>2
        <5>2. Good(r) /\ r.in_memory = << >>
          BY <5>1, TruncateGood
        <5> QED BY <5>2 DEF Good
      <4> HIDE DEF r
      <4>3. storages' \in Seq(Storage) /\ Len(storages') = m /\ DOMAIN storages' = 1..m
        BY <3>0, <4>1, <4>2, <4>6
      <4>4. inodes' \in Seq(Bytes) /\ Len(inodes') = m /\ DOMAIN inodes' = 1..m
        BY <2>1, <3>0, <4>1, <4>2
      <4>5. ASSUME NEW b \in 1..m
            PROVE  Good(storages'[b]) /\ storages'[b].in_memory = inodes'[b]
        BY <3>0, <4>1, <4>2, <4>6
      <4> QED BY <3>0, <4>2, <4>3, <4>4, <4>5
    <3>3. CASE exists /\ ~ o_trunc
      <4>1. storages' = [storages EXCEPT ![a] = storages[a]] /\ inodes' = inodes
        BY <1>2, <1>3, <3>3
      <4> HIDE DEF a, m
      <4>2. storages' = storages
        BY <3>0, <4>1
      <4> QED BY <1>6, <3>0, <3>3, <4>1, <4>2
    <3> QED BY <3>1, <3>2, <3>3
  <2>4. directory' \in [DOMAIN directory' -> DOMAIN inodes']
    <3> HIDE DEF a
    <3> QED BY <1>3, <2>3 DEF PInv, ContentsInv
  <2> QED BY <1>2, <1>3, <2>3, <2>4 DEF ContentsInv
<1> HIDE DEF a, s, exists, m
<1>10. /\ mockFiles \in Seq(MockFile) /\ realFiles \in Seq([fd : Int, path : Paths])
       /\ Len(realFiles) = n
  BY DEF PInv, FilesInv
<1>11. /\ mockFiles' \in Seq(MockFile) /\ realFiles' \in Seq([fd : Int, path : Paths])
       /\ Len(mockFiles') = n + 1 /\ Len(realFiles') = n + 1
       /\ mockFiles'[n + 1] = mf /\ realFiles'[n + 1] = rf
       /\ \A g \in 1..n : mockFiles'[g] = mockFiles[g] /\ realFiles'[g] = realFiles[g]
       /\ DOMAIN mockFiles' = 1..(n + 1) /\ DOMAIN mockFiles = 1..n
  BY <1>2, <1>3, <1>4, <1>7, <1>8, <1>10
<1> HIDE DEF n
<1>12. FilesInv'
  <2>1. ASSUME NEW f \in DOMAIN mockFiles' PROVE mockFiles'[f].path = realFiles'[f].path
    <3>1. CASE f = n + 1
      BY <1>7, <1>8, <1>11, <3>1
    <3>2. CASE f # n + 1
      <4>1. f \in 1..n
        BY <1>4, <1>11, <3>2
      <4> QED BY <1>11, <4>1 DEF PInv, FilesInv
    <3> QED BY <3>1, <3>2
  <2> QED BY <1>11, <2>1 DEF FilesInv
<1>13. FdsInv'
  <2>1. ASSUME NEW e \in DOMAIN fds'
        PROVE  e \in 3..(2 + (n + 1)) /\ fds'[e] \in [inode : DOMAIN inodes', offset : Nat]
    <3>1. CASE e = fd
      <4>1. fds'[e] = [inode |-> a, offset |-> 0]
        BY <1>3, <3>1
      <4> QED BY <1>4, <1>9, <3>1, <4>1
    <3>2. CASE e # fd
      <4>1. e \in DOMAIN fds /\ fds'[e] = fds[e]
        BY <1>3, <3>2
      <4>2. fds[e] \in [inode : DOMAIN inodes, offset : Nat] /\ e \in 3..(2 + n)
        BY <1>10, <4>1 DEF PInv, FdsInv
      <4> QED BY <1>4, <1>9, <4>1, <4>2
    <3> QED BY <3>1, <3>2
  <2>2. fds' \in [DOMAIN fds' -> [inode : DOMAIN inodes', offset : Nat]]
    BY <1>3, <2>1
  <2> QED BY <1>11, <2>1, <2>2 DEF FdsInv
<1>14. Handles' = Handles \cup {n + 1}
  <2>1. n + 1 \in Handles'
    BY <1>4, <1>7, <1>11 DEF Handles, Mock!Usable
  <2>2. ASSUME NEW f \in 1..n PROVE f \in Handles' <=> f \in Handles
    BY <1>4, <1>11 DEF Handles, Mock!Usable
  <2> QED BY <1>4, <1>11, <2>1, <2>2 DEF Handles
<1>15. HandleInv'
  <2>1. ASSUME NEW f \in Handles
        PROVE  /\ mockFiles'[f] = mockFiles[f] /\ realFiles'[f] = realFiles[f]
               /\ realFiles[f].fd \in DOMAIN fds /\ realFiles[f].fd # fd
               /\ realFiles[f].fd \in DOMAIN fds'
               /\ fds'[realFiles[f].fd] = fds[realFiles[f].fd]
    <3>1. f \in 1..n /\ realFiles[f].fd \in DOMAIN fds
      BY <1>11, HandleFacts
    <3>2. realFiles[f].fd # fd
      BY <1>4, <3>1
    <3>3. realFiles[f].fd \in DOMAIN fds' /\ fds'[realFiles[f].fd] = fds[realFiles[f].fd]
      BY <1>3, <3>1, <3>2
    <3> QED BY <1>11, <3>1, <3>2, <3>3
  <2>2. /\ realFiles'[n + 1].fd = fd /\ fd \in DOMAIN fds'
        /\ fds'[fd] = [inode |-> a, offset |-> 0]
        /\ mockFiles'[n + 1].storage = a /\ mockFiles'[n + 1].cursor = 0
    BY <1>3, <1>7, <1>8, <1>11
  <2>3. ASSUME NEW f \in Handles'
        PROVE  /\ realFiles'[f].fd \in DOMAIN fds'
               /\ fds'[realFiles'[f].fd].inode = mockFiles'[f].storage
               /\ fds'[realFiles'[f].fd].offset = mockFiles'[f].cursor
    <3>1. CASE f = n + 1
      BY <2>2, <3>1
    <3>2. CASE f \in Handles
      BY <2>1, <3>2 DEF PInv, HandleInv
    <3> QED BY <1>14, <3>1, <3>2
  <2>4. ASSUME NEW f \in Handles', NEW g \in Handles', realFiles'[f].fd = realFiles'[g].fd
        PROVE  f = g
    <3>1. CASE f \in Handles /\ g \in Handles
      BY <2>1, <2>4, <3>1 DEF PInv, HandleInv
    <3>2. CASE f = n + 1 /\ g \in Handles
      BY <2>1, <2>2, <2>4, <3>2
    <3>3. CASE f \in Handles /\ g = n + 1
      BY <2>1, <2>2, <2>4, <3>3
    <3> QED BY <1>14, <3>1, <3>2, <3>3
  <2> QED BY <2>3, <2>4 DEF HandleInv
<1>16. /\ mockResult'.data = realResult'.data
       /\ mockResult'.ret > 0 /\ realResult'.ret > 0
  BY <1>2, <1>3, <1>4, <1>5
<1> QED BY <1>9, <1>12, <1>13, <1>15, <1>16 DEF PInv

-----------------------------------------------------------------------------
(* The theorems *)

\* Every call keeps the invariant and is answered alike.
LEMMA StepAgrees ==
    ASSUME PInv, Next
    PROVE  PInv' /\ (SameAnswer \/ \E a \in DOMAIN storages : Fsync(a))
<1>1. CASE \E a \in DOMAIN storages : Fsync(a)
  BY <1>1, FsyncKeeps
<1>2. ASSUME Agrees PROVE PInv' /\ SameAnswer
  <2>1. \A f \in Handles' : fds'[realFiles'[f].fd].offset = mockFiles'[f].cursor
    BY <1>2 DEF Agrees, PInv, HandleInv
  <2> QED BY <1>2, <2>1 DEF Agrees, SameAnswer
<1>3. ASSUME NEW p \in Paths, NEW o_trunc \in BOOLEAN, NEW o_creat \in BOOLEAN,
             Open(p, o_trunc, o_creat)
      PROVE  PInv' /\ SameAnswer
  <2>1. Len(mockFiles') # Len(mockFiles)
    <3>1. mockFiles \in Seq(MockFile)
      BY DEF PInv, FilesInv
    <3>2. \E mf : mockFiles' = Append(mockFiles, mf)
      BY <1>3 DEF Open, Mock!open
    <3> QED BY <3>1, <3>2
  <2>2. CASE p \in DOMAIN directory \/ o_creat
    <3>1. /\ PInv' /\ mockResult'.data = realResult'.data
          /\ mockResult'.ret > 0 /\ realResult'.ret > 0
      BY <1>3, <2>2, OpenSucceeds
    <3> QED BY <2>1, <3>1 DEF SameAnswer, PInv, HandleInv
  <2>3. CASE ~ (p \in DOMAIN directory \/ o_creat)
    <3>1. PInv' /\ mockResult' = realResult'
      BY <1>3, <2>3, OpenFails
    <3> QED BY <2>1, <3>1 DEF SameAnswer, PInv, HandleInv
  <2> QED BY <2>2, <2>3
<1>4. ASSUME NEW f \in Handles, NEW buf \in Buffers, Write(f, buf)
      PROVE  Agrees
  BY <1>4, WriteAgrees
<1>5. ASSUME NEW f \in Handles, NEW count \in 0..MaxSize, Read(f, count)
      PROVE  Agrees
  BY <1>5, ReadAgrees
<1>6. ASSUME NEW f \in Dead,
             \/ \E buf \in Buffers : Write(f, buf)
             \/ \E count \in 0..MaxSize : Read(f, count)
      PROVE  Agrees
  BY <1>6, DeadAgrees
<1>7. ASSUME NEW f \in Handles, NEW off \in -MaxSize..MaxSize,
             NEW whence \in Whence, Lseek(f, off, whence)
      PROVE  Agrees
  BY <1>7, LseekAgrees
<1>8. ASSUME NEW f \in Handles, Close(f)
      PROVE  Agrees
  BY <1>8, CloseAgrees
<1>9. ASSUME NEW f \in DOMAIN mockFiles, Unlink(f)
      PROVE  Agrees
  BY <1>9, UnlinkAgrees
<1> QED BY <1>1, <1>2, <1>3, <1>4, <1>5, <1>6, <1>7, <1>8, <1>9 DEF Next

\* The two sides allocate, share, truncate and forget files alike, whatever
\* calls are made on however many handles.
THEOREM PersisterInvariance == Spec => []PInv
<1>1. Init => PInv
  BY PInvInit
<1>2. PInv /\ [Next]_vars => PInv'
  <2>1. PInv /\ Next => PInv'
    BY StepAgrees
  <2>2. PInv /\ UNCHANGED vars => PInv'
    BY DEF PInv, ContentsInv, FilesInv, FdsInv, HandleInv, Handles, Mock!Usable, vars
  <2> QED BY <2>1, <2>2
<1> QED BY <1>1, <1>2, PTL DEF Spec

\* A crash of the mock (FileStorage::crash) leaves of every file what its last
\* fsync saw, or nothing if open truncated it after that, padded with zeros to
\* its length, for files of every length.
THEOREM CrashCorrect == Spec => []CrashLeavesSynced
<1>1. PInv => CrashLeavesSynced
  BY PInvImplies
<1> QED BY <1>1, PersisterInvariance, PTL

\* Handles and paths share a FileStorage of the mock exactly when they share an
\* inode of the kernel, with the same bytes, after any opens, truncations and
\* unlinks.
THEOREM SameFilesCorrect == Spec => []SameFiles
<1>1. PInv => SameFiles
  BY PInvImplies
<1> QED BY <1>1, PersisterInvariance, PTL

\* Every call of PersisterPair returns on the mock what it returns on the real
\* persister, and leaves every open handle at the same offset.  PersisterPair
\* makes every call of the two classes except those its head lists: o_append,
\* an empty write behind the end, a seek to before the start, lseek and close on
\* a File not open, and write and read on one whose descriptor was reused.
THEOREM MockIsReal == Spec => MockMatchesReal
<1>1. PInv /\ [Next]_vars =>
         [SameAnswer \/ \E a \in DOMAIN storages : Fsync(a)]_vars
  BY StepAgrees
<1>2. Spec => [][SameAnswer \/ \E a \in DOMAIN storages : Fsync(a)]_vars
  BY <1>1, PersisterInvariance, PTL DEF Spec
<1> QED BY <1>2 DEF MockMatchesReal
=============================================================================
