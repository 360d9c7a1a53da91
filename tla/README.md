# Verification of kvs-storage

TLA+ models of the key-value store under `src/`: the engine with its log, its
locks, its garbage collection and its recovery from kills and from crashes of
the operating system; the B+ tree it keeps in memory; the two persisters; and
the programs that drive an engine, with their generator of test cases and their
oracle.  TLC checks the models on small instances.  TLAPS proves, for all
instances, that the engine implements an atomic map and recovers it from its log
(under stated conditions on kills and sizes), that the mock persister answers as
the real one on all but five listed kinds of calls, and that the benchmark's
counter counts what it runs.

## The system

| Part | State | Operations | Modelled in |
|---|---|---|---|
| `Engine` (`src/src/engine.cpp`, `src/include/engine.h`) | `log_offset`, `btree`, `_mutex`, `_mutex2`, `_mutex_gc`; the files `log` and `log(1)` | `put`, `remove`, `get`, `visit`, `sync`, `garbage_collect`/`_gc`, constructor/`rebuild_btree` | `Engine`, `EngineStore`; proofs in `EngineProofs`, `EngineContents`, `EngineStoreProofs` |
| Log format (`log_line`, `read_line`, `read_key_value`, `read_num`) | bytes of the log | append a line, parse at an offset | `LogFile`; proofs in `EngineContents` |
| `BTree` (`src/src/btree.cpp`, `src/include/btree.h`) | nodes with `parent`, `child`, `prev`, `next`; `_size`, `_root` | `search`, `insert`, `remove` with rotations, splits, merges | `BTree` |
| Interface (`src/include/interfaces.h`) | one map | the calls and their return codes | `KVStore`, `OrderedIndex` (abstract) |
| Files on a disk (`sync`, and what no call fsyncs) | what of the log is on the disk | `sync`, `put`, `remove`, `_gc`; crashes of the system | `Durability` |
| `real_storage` (`src/include/persister.h`) | the kernel's inodes, directory, descriptors | `open`, `read`, `write`, `lseek`, `close`, `unlink` | `RealPersister`, `PersisterPair` |
| `mock_storage` (`src/include/mock_persister.h`) | `FileStorage` (memory and disk image), `File` (cursor, flags), `FilePool` (path table) | the same, `fsync`, `crash` | `MockPersister`, `PersisterPair`; proofs in `PersisterProofs` |
| `BenchGenerator` and allocators (`src/include/util/bench.h`, `rand_alloc.h`, `utils.h`) | table of rates, `inserted_keys_` | `rand_tests` | `BenchGenerator` |
| `EngineValidator` (`src/include/util/executor.h`) | `kv_`, the expected contents | `validate_execute`, `execute` | `Executor` |
| Benchmark and test programs (`src/bench/bench.cpp`, `src/test`) | threads, their cursors, the shared counter `task_nr` | `warmup`, `bench_kv`, a thread's loop | `Harness`; proofs in `HarnessProofs` |
| `zipf.h`, scripts, build files | | | no |

Clients call the engine from several threads.  A handler takes its locks, opens
the log by name, uses it, closes it, and uses the tree; nothing is shared
between calls except the tree, `log_offset`, the three mutexes and the two
files.  The process may be killed at any moment; the tests do exactly that
(`test/crash_*.cpp` fork and kill), and the constructor rebuilds the tree from
the log.

What is hard: `put` and `remove` change index and log in different orders;
`get` and `visit` read the index first and the file afterwards, while `_gc`
replaces both; `_gc` works on a second file and swaps it in with two system
calls; the offset that `put` indexes is counted in memory, not taken from the
file; recovery must recompute the very same offsets, from a log that may end in
a torn line; the tree's rotations rely on separators being exact.  The list
with the line of each is under `hazards` in `PROJECT.json`.  Around the engine:
several handles on one file while it is truncated, unlinked and created again;
test cases that are generated from beliefs about an engine which other threads
change; benchmark threads that share one counter and read it before the others
have subtracted.

What makes the parts correct:

* Engine: calls are linearizable and survive kills (`ImplementsKVStore`); the
  index leads to the stored values (`IndexSound`, `GetOffsetFresh`,
  `OffsetIsFileEnd`); the log alone determines the store (`LogRecoverable`,
  `RecoveryExact`); `_gc` leaves exactly one line for each stored key
  (`GcCompacts`); nobody waits for ever.
* Disk: a restart finds the store as it was at some moment not before the last
  `sync` (`SyncedSurvives`).
* B+ tree: it is an ordered map (`ImplementsOrderedIndex`), for which shape,
  pointers and separators have to be kept.
* Persisters: apart from the calls on which they are known to differ, the mock
  answers as the real one (`MockMatchesReal`, `SameFiles`); a crash of it leaves
  what its last `fsync` saw, or nothing of a file truncated since
  (`CrashLeavesSynced`).
* Harness: a test fails only if the engine does (`NoCheckFails`), because
  generator, oracle and engine agree on each thread's keys (`OracleAgrees`); the
  benchmark's counter counts the cases that ran (`CountsWhatRan`), which are
  `test_nr` or up to a batch more for each thread but one (`OvershootBounded`),
  and the benchmark ends (`AllJoined`).  Its summary divides `test_nr` by the
  time (bench.cpp:148-150), so it does not count the cases above `test_nr`.

## Modules

`LogFile` A file is its length and, for every offset where a line was started,
the line and the number of its bytes that reached the file.  Lengths and offsets
are exact byte counts (`Size`), because the engine computes offsets by adding
line sizes; contents are model values.  `ReadKeyValue(f, o)` is the set of
outcomes of parsing at `o`: the line; `Fail` at the end of the file; `Junk` where
the size words are bytes of something else.  It stands for both parsers,
`read_key_value` and `read_line`, and for their chunked loops.

`Engine` One action per step of a handler between which another thread, or a
kill, can come.  `pc[t]` is the program point of thread `t`:

| Code | Program points |
|---|---|
| `put` | `put` -lock-> `put_log` -append-> `put_index` -> `return` |
| `remove` | `remove` -lock-> `rm_index` -> `rm_log` -> `return` |
| `get` | `get` -`_mutex`-> `get_lock2` -`_mutex2`-> `get_search` -> `get_read` -> `return` |
| `visit` | the same two locks, `visit_open`, then one `visit_scan` step per key |
| `sync` | `sync` -lock-> `sync_file` -> `return` |
| `garbage_collect` | `gc` -async-> `gc_lock` -`_mutex_gc`-> `gc_shared` -`_mutex`-> `gc_copy` (one step per key) -> `gc_lock2` -`_mutex2`-> `gc_reindex` -> `gc_remove` -> `gc_rename` -> `return` |

`Return` is the end of the call, where the lock guards are released.  `mutex`
and `mutex2` record who holds the `std::shared_mutex` shared and exclusively.
The caller of `garbage_collect` stands for the worker, because the destructor of
the future returned by `std::async` waits for it; the deferred task that
`std::async` may fall back to is dropped (`GcDeferred`).  The tree is here the
ordered map that `BTree` is shown to implement, from keys to `int` offsets;
`ToInt` is the narrowing of a byte count, and `Search` returns -1 for an absent
key as the code does.  `mode` is the process: `down`, `rebuild` (inside
`rebuild_btree`, one `RebuildStep` per line), `up`, or the way it came to an
end (`Faults`): `LOG(FATAL)`, stdio on a `NULL` stream, stray bytes taken for a
line.  From such a point on nothing is said of the process, except that it must
not get there.

A kill (`Crash`) loses the memory and keeps the files.  What was handed to the
kernel survives: `put` and `remove` close their stream before they return.  Of a
`log(1)` still open, only whole stdio blocks survive (`BlocksWritten`), and of a
long line whose `write` calls are under way, some blocks (`LineTorn`; only
`Durability` and `TornAppend` have lines of several blocks).  `CrashAt` says at
which program points a run allows kills.

`store` is a history variable: the map that the lines written so far denote.
No action reads it.

`KVStore` What callers may rely on: each call takes effect atomically between
invocation and return, on one map; a kill makes calls in flight vanish and keeps
applied effects.  `visit` is specified with the range that the code implements,
`[lower, upper]`, which the test oracle expects too; engine.h documents
`[lower, upper)`, and `VisitRange` shows the difference.

`EngineStore` The refinement mapping.  A put takes effect when its line is in the
log, a remove when its line is, or when the key is found absent, a get when it
reads the line, a visit when its scan is over.  `VisitsDocumentedRange` is the
range of engine.h.

`Durability` extends `Engine`: `synced` is the number of bytes of the log that an
`fsync` covered, and `snapshots` the stores that the log has denoted since.
`OSCrash` cuts the log anywhere behind `synced`, at line boundaries, inside a
header or inside a line.  Directory operations are taken to reach the disk in
order, as on a journaling file system; a `log(1)` may survive or not.  Whether an
engine goes on well after a torn line is the question of `TornAppend`; here only
the last crash may tear one, and the property is about what recovery finds.

`OrderedIndex`, `BTree` The abstract map with the return values that `btree.h`
documents, and the tree itself on a heap of nodes.  The code's element-wise
shifts are written as the vectors they leave behind.  `CStr` is `key.c_str()`:
identity on keys without NUL bytes.  `tree.bad` records an access out of range
(the unsigned `lf_idx - 1`, or the "undefined case" branches).  `last` is the
last call with its return value, so that the refinement speaks of the very call
that was made.  After each call the nodes are renumbered, so that states that
differ only in addresses are one; the runs' `VIEW` leaves out `last`, which no
step reads, and `scan`, which `tree` determines.

`MockPersister`, `RealPersister` One action per call, because the only caller, the
unit test, has one thread.  The mock's mutexes alone would not justify that: `open`
with `o_trunc` clears a `FileStorage` without taking its mutex.  `RealPersister`
models the kernel as far as the wrappers use it.  `synced` and `truncated` are
history variables of a storage: its contents at the last `fsync`, and whether it
was truncated since.  `FileStorage::crash`, which nothing in the repository calls,
is the operator `CrashStorage`.

`PersisterPair` makes each call on both sides and compares the answers, as
`unittest/mock_persist.cpp` does, but with several handles, truncation, `close`,
`unlink`, seeks in both directions, empty reads and writes, and calls on Files that
are closed or were never opened.  It leaves out exactly the calls on which the
classes differ:

* `open` with `o_append` (the real one creates the file and does not append);
* a write of no bytes behind the end of the file (only the mock grows it);
* `lseek` to before the start (only the kernel refuses it);
* `lseek` and `close` on a File that is closed or was never opened (only the kernel
  refuses them);
* `write` and `read` on a closed File whose descriptor the kernel has given to
  another one (the real File, which never notes that it is closed, then works on
  the other file, where the mock answers `EBADF`).

`BenchGenerator` `rand_test` is the set of what one round of the loop of
`rand_tests` may append, with the keys the generator then believes to be in the
engine; a random draw is a choice from what can be drawn.  The table of rates is
built as the code builds it, by summing and overwriting.  Keys are numbers in the
order of the strings; the keys of a prefix are neighbours.

`Executor` What the validator checks of an answer, and how its map changes, for
each kind of case.

`Harness` Threads that run cases through validators, on an engine that is
`KVStore` (each call one step).  A program is a record: validated tests with a
prefix for each thread, a single validated thread, unvalidated threads on shared
keys, and the benchmark, whose `task_nr.load()` and `fetch_sub` are separate steps
with the batch between them.  A case is generated when it is about to run; since
a generator never looks at the engine, that is the same as generating all of them
first.

`MCEngine`, `MCDurability`, `MCBTree`, `MCPersister`, `MCHarness` Instances for
TLC.

`EngineProofs` (types and locks), `EngineContents` (files, index and store),
`EngineStoreProofs` (refinement of `KVStore`), `DurabilityProofs` (what `sync`
promises across crashes), `PersisterProofs`, `HarnessProofs`,
with the general facts `NaturalFacts` (the least number of a set) and `SumFacts`
(sums over finite sets): proofs, see below.

Operators whose comment begins with "Mutant of" are deliberately wrong variants
of the definition after them.  No specification uses them; replacing the
definition by its mutant makes the property named in `PROJECT.json` fail.

## Runs

Engine runs have two keys, two values of different length (so that offsets
differ), and 8-byte size words.

| Run | Instance | Shows |
|---|---|---|
| `EngineConcurrent` | 2 threads, 3 calls each of put, remove, get, gc; no kills | `TypeOK`, `Exclusion`, `NoFault`, `IndexSound`, `OffsetIsFileEnd`, `GetOffsetFresh`, `LogRecoverable`, `ImplementsKVStore`, `GcCompacts` |
| `EngineRecovery` | 2 threads, 2 calls each of all six kinds, 2 kills anywhere outside the file switch of `_gc`, fairness | `NoFault`, `IndexSound`, `OffsetIsFileEnd`, `LogRecoverable`, `ImplementsKVStore` with recovery, visits and sync; `RecoveryExact`; `EveryCallReturns`, `RecoveryEnds` |
| `Durability` | 2 threads, 2 calls each of put, remove, sync, gc, values longer than a stdio block, starting without a log, 2 crashes (kills anywhere outside `_gc`, torn lines, the operating system) | `SyncedSurvives` |
| `BTreeOrder5` | order 5, all sequences of inserts and removes of 11 keys; and chosen keys from a tree of four levels (140 inserts, 70 removes) | shape, pointers, separators, search, scan, `ImplementsOrderedIndex`, with every rotation and merge of leaves and inner nodes |
| `Persister` | one path, 3 opens, files of at most 2 bytes | `SameFiles`, `CrashLeavesSynced`, `MockMatchesReal` |
| `Harness` | three test programs (1 or 2 threads, 3 to 6 cases each), three benchmarks (3 threads; 5 cases in batches of 2, 4 in 3, 2 in 5), fairness | `NoCheckFails`, `OracleAgrees`, `CountsWhatRan`, `OvershootBounded`, `AllJoined` |

These runs find what the code or its documentation says not to happen:

| Run | Property | What happens |
|---|---|---|
| `GcKillWindow` | `Persistent` | kill between `remove(log)` and `rename(log(1), log)`: restart with an empty store |
| `TornAppend` | `IndexSound` | kill inside `log_line`: the next put is indexed short of where it is appended |
| `SyncThenGc` | `NothingSyncedLost` | put, sync, garbage_collect, crash of the operating system: the compacted log was never fsynced |
| `BTreeNulKeys` | `ImplementsOrderedIndex` | keys are cut at a NUL byte when they move between nodes |
| `VisitRange` | `VisitsDocumentedRange` | `put(2)`, `visit(1, 2)`: key 2 is visited, which is not in `[1, 2)` |
| `ReadRatio` | `OnlyReads` | `--read_ratio=100`: three rates share one sum, the last one stays in the table, and every operation is a delete |

`EngineRecovery` leaves out kills between the closing of `log(1)` and the rename:
one of them is `GcKillWindow`'s, the others are the first item below (a shorter
`log(1)` of a kill during the copy stays within one stdio block, so nothing of
it reaches the file).  `Durability` has larger values and leaves out all of `_gc`.

Disagreements without a run of their own, each reached by changing a constant:

* A kill after `log(1)` is written leaves it behind; the next `_gc` appends to it
  (engine.cpp:283) but counts offsets from 0.  `EngineRecovery` with
  one thread, `CrashAt = {"gc_lock2"}` and `MaxOps = 4`: `OffsetIsFileEnd` and
  `IndexSound` fail.
* Offsets are `int` (engine.h:94).  `EngineConcurrent` with `IntMax = 20`, which
  stands for 2^31 - 1: `OffsetIsFileEnd` and `IndexSound` fail.
* In a directory without a log, a `visit` before the first put hands `NULL` to
  stdio (engine.cpp:238).  `EngineRecovery` with `FreshDir = TRUE`: `NoFault`
  fails.
* engine.h:60-61 has `""` as upper bound come after all the keys; the code compares
  it like a key, so that `visit("", "")` reaches none but `""` itself.  `VisitRange`
  with `Visit(0, 0)` in place of `Visit(1, 2)` (0 stands for `""`):
  `VisitsDocumentedRange` fails because a stored key is missing.

The persisters differ on the five kinds of calls that `PersisterPair` leaves out,
listed with that module.  The unit test can make one of them, the empty write behind
the end, since it draws lengths from 0 on: without the conjunct `~ GrowsByNothing` in
`Write`, `MockMatchesReal` fails in `Persister`.  A validated
`kSync` case aborts exactly when `sync` succeeds (executor.h:270); no program
validates one.

### Bounds

`MaxOps` (calls per thread) and `MaxCrashes` bound the behaviours; every other
state component is bounded by them.  Two threads suffice for each pair of
handlers to meet; three calls each make a put, a second put or remove, and a
collection or get around them.  Two kills cover a kill during the recovery from
the first.  `EngineRecovery` has fewer different puts and removes than
`EngineConcurrent` (both values of key 1, one of key 2, and the removal of key 1).  `IntMax` is out of reach.  Symmetry of
threads is used where no liveness is checked.  Eleven keys give
order 5 a root with up to five leaves, minimal ones beside full ones, so that
leaves rotate both ways, split and merge, and the root is lost and regained; the
deep workload starts where inner nodes of two levels are minimal next
to ones that can lend, so that each of the eight rotation and merge cases of
`solve_underflow_innode` (above leaves, above inner nodes) occurs.

`MaxCrashes = 2` in `Durability` gives a kill followed by a crash of the system,
so that what the first recovery wrote is at stake in the second.  Three opens of
one path (`MaxOpens`) give two handles that share a file, and a third after
`unlink` has separated path and file; two bytes (`MaxSize`) give a gap, an
overwrite and an extension, and the empty buffer is among the buffers.  Two paths with two opens, and files of three bytes
with two opens, pass as well.  The view `Live` of that run leaves out the last
results, which no step reads (`MockMatchesReal` is about steps, and is evaluated
on each one), the contents of files that no handle and no path leads to, on
which no call operates, and what was synced before a truncation, which no crash can
bring back.  In `Harness` the batches are smaller than, incommensurable
with and larger than the number of cases; three threads let two of them read the
counter before the third subtracts.  `RandLimit` stands for the limit of
`random_choose`, and four keys make two prefixes of two.

### Fairness

`FairSpec` assumes weak fairness of every thread's steps (the scheduler runs
every thread; a lock that stays free is eventually acquired by a waiting thread)
and of construction.  Clients need not call, and nothing forces a kill.
`std::shared_mutex` promises no more: a writer may be overtaken as long as
readers keep coming, so `EveryCallReturns` rests on finitely many calls.  The
engine runs check for deadlock as well.  `Harness` assumes
weak fairness of each thread's steps (no step of it waits for another thread).
`Persister` has deadlock checking off: no call need be left when `MaxOpens` handles
are used up.

## Proofs

The assumptions on the constants are named where the constants are declared, and
TLC evaluates them in the runs: keys are ranks, sizes are naturals, `NoVal` and
`Absent` are neither values nor offsets (`LogFile`, `Engine`); buffers are
sequences (`PersisterPair`); keys are integers, and `NoVal` is neither a
key nor a value (`BenchGenerator`); a program has finitely many threads, at least
one, and the benchmark a positive batch (`Harness`).  Sets of threads, keys, values, paths and programs, sizes and bounds are otherwise arbitrary.

### Types and locks: `EngineProofs`

* `TypeCorrect`: `Spec => []TypeOK`;
* `MutualExclusion`: `Spec => []Exclusion`: writers run alone, one `_gc` at a
  time, and no reader is between its index lookup and its file access while
  `_gc` switches index and file.

Neither is inductive.  `IInv` adds `LockInv` (which locks each program point
holds), `ReqInv` (a thread inside a handler executes such a call), `GcInv` (`_gc`
has a new offset for every present key up to its cursor, and `log(1)` exists
from its creation to the rename), and `BootInv` (no call runs during
construction).  `GcInv` needs `LockInv`: an insert or remove during the copy
would leave a key without offset, and `GcReindex` would store no offset at all
for it; it is `_mutex`, held shared by `_gc`, that keeps them out.  There is one
lemma per group of actions (`CallInv`, `StepInv` with one case per handler step,
`GcCopyInv`, `KillInv` for everything that a kill resets, `CrashInv`, `OpenInv`,
`RebuildInv`), combined in `InitInv` and `NextInv`; then PTL.  These two theorems hold for every `CrashAt`.

### Contents: `EngineContents`

The properties about contents are false without two conditions, which are the
hypothesis `Environment` of the theorems:

* `[]Fits`: both files have at most `IntMax` bytes.  Beyond that `log_offset`
  wraps and `IndexSound` fails (see the list above).
* `[][CleanKill]_vars`: a kill tears no line of the log (otherwise `TornAppend`),
  does not come between `std::remove` and `std::rename` (otherwise
  `GcKillWindow`), and leaves no bytes in `log(1)` (otherwise the next `_gc`
  appends behind them).  It says nothing about when or how often the process is
  killed: kills inside every handler, inside `_gc` as long as nothing of `log(1)`
  has left its stdio buffer, and during recovery are allowed.

TLC confirms both on `EngineConcurrent` and `EngineRecovery`:
there they exclude nothing.  `SafeOutsideGc` derives `CleanKill` from the
constants instead: if `CrashAt` has no point of `_gc`'s copy and switch, and lines
fit a stdio block, `Spec` and `[]Fits` alone give `IndexSound` and
`LogRecoverable`.

Proved under `Environment`: `IndexCorrect` (`IndexSound`), `OffsetCorrect`
(`OffsetIsFileEnd`), `GetReadsFresh` (`GetOffsetFresh`), `LogReplays`
(`LogRecoverable`), `StoredKeysFound` (`Persistent`), `RecoveryCorrect`
(`RecoveryExact`), `GcCorrect` (`GcCompacts`), and `NeverAborts` (`NoFault`), which
also assumes that the first start finds a log (`~ FreshDir`): without one a visit
before the first put hands `NULL` to stdio.

The invariant `CInv`, proved together with `IInv`, has these parts besides the
properties themselves:

| Part | Says | Needed because |
|---|---|---|
| `LogInv` | lines tile the log without overlap and denote the store | lengths of lines locate the next one; an overlap would let an append change an older line |
| `NatInv` | offsets are not negative | -1 is `search`'s "not found", and `fseek` refuses negative offsets |
| `WriteInv` | between append and insert the new line is at `log_offset`; between delete and append the key is stored and not indexed | `put` and `remove` break `IndexSound` for one key between their two steps |
| `CopyInv` | up to `_gc`'s cursor `log(1)` holds exactly the stored values at the new offsets, and its length is what `_gc` counts | the switch makes `log(1)` the log |
| `LeftInv` | outside `_gc` there are no bytes in `log(1)` | it is opened in mode "a" and offsets are counted from 0 |
| `ReplayInv` | `rebuild_btree` is at a line's start or the end, has counted what it read, and the index is that of the lines before it (`Replayed`) | recovery must end in `IndexSound` and `OffsetIsFileEnd` |

### Refinement: `EngineStoreProofs`

`Refinement`: `Spec /\ Environment => ImplementsKVStore`.  Each step of the engine
is a call, an application or a return of `KVStore`, a kill, or changes none of its
variables.  That `get` applies with the stored value is `GetOffsetFresh`, that
`remove` answers `kNotFound` exactly for absent keys is `IndexSound`.  `visit` takes
many steps and needs `VisitInv`: what it has handed to the visitor is the scan of
the store from `lower` to its cursor, in order, and, by the lock discipline, no
writer can change the store before it is done.

### Crashes of the system: `DurabilityProofs`

`SyncedCorrect`: `DSpec /\ []Fits => SyncedSurvives`, for every `CrashAt` without a
point of `_gc`'s copy and switch (`GcKillWindow` shows why).  There is no
condition on what the last crash does to the log: torn lines of several blocks and
every cut of `Cuts` are covered, and so is any number of kills before it.

The invariant `DInv` is `IInv` with one of three phases; TLC confirms it on the
`Durability` instance.

| Phase | Says |
|---|---|
| `Intact` | `CInv`, and `SnapInv`: unless `_gc` has replaced the log since the last sync, the lines before any line that is not on the disk as a whole denote one of the `snapshots` |
| `Recovering` | the last crash has happened; if the claim applies there is an offset `e` up to which the lines are whole and follow each other, where the parser reports the end of the file (`WholeTo`), whose lines denote a promised store, and `rebuild_btree` has replayed some of them (`Reading`) |
| `Recovered` | the engine is up again, or aborted; there is no crash left |

The argument is about cuts.  `SnapInv` is kept because a line is appended behind
lines that denote the old store, which is in `snapshots` (`AppendSnap`), and because
`sync` leaves no line that is not on the disk.  A cut falls into, or in front of, a
last line (`LastLine`); the lines before it stay whole, and what is left of it is
read as the end of the file (`CutWhole`; `TornWhole` for a kill inside `log_line`).
`rebuild_btree` then replays whole lines up to that offset (`RecoverLine`) and there
holds the index of the promised store (`RecoverComplete`).

### Persisters: `PersisterProofs`

`SameFilesCorrect`, `CrashCorrect` and `MockIsReal`, for any paths, buffers (the
empty one too) and files of any length, and for all calls but those that
`PersisterPair` leaves out.  `PInv`: storages and inodes are allocated in lock-step, hold
the same bytes and are found under the same paths (`ContentsInv`); the two tables of
handles agree (`FilesInv`); descriptors stay below the number of opens (`FdsInv`),
and an open handle has a descriptor of its own, on the inode of its storage and at
its cursor (`HandleInv`).  The kernel's lowest free descriptor exists by `LeastNat`.
For `CrashCorrect` a storage must not be shorter than what its last `fsync` saw
unless it was truncated since (`Good`): `o_trunc` clears both images, and nothing
else shortens a file.  `WriteGood` and `ReadSame` compare the mock's vectors with
the kernel's bytes, `EmptyWrite` the write of no bytes within the file.

### Test programs: `HarnessProofs`

The counter of the benchmark: `CountsCorrect` and `OvershootCorrect`, for any
number of threads and cases and any positive batch.  `CounterInv`: `task_nr` and the sum of the cursors make `test_nr`
(`Counted`); a thread is inside its batch and its batch inside its cases
(`BatchInv`, which rests on `Counted`: what the counter shows and the thread's own
cursor are together at most `test_nr`); a thread that has ended has seen nothing left (`DoneInv`); and
for the thread that was the last to find something left, every other thread
can subtract at most once afterwards (`LastReader`): those that are still running
have not done so yet.  This bounds the overshoot, which no invariant about one
thread does.  Sums of the values of functions over finite sets (`SumFacts`) are reasoned
about by induction on the size of the set, as an argument from the least counterexample
(`LeastNat`), since the provers cannot apply an induction theorem to a predicate.

The oracle of the tests: `OracleCorrect` (generator, validator and engine agree) and
`ChecksHold` (no `CHECK` fails, so a test that aborts has found something wrong with
the engine).  They hold for any number of threads, cases and keys, any mix of
operations and any interleaving, and for a program that satisfies what they assume
of it:

* `WellFormed`: its operations are those of `Op`, and allocators return keys.
* `OwnKeys`, for `OracleCorrect`: in a validated program no two threads share a key.
  The multi-threaded tests give each thread a `PrefixAllocator` for that reason; with
  shared keys a validator compares the engine with a map that misses the other thread's
  writes.
* `Checkable`, for `ChecksHold`: the rates add up (`validate` aborts otherwise); no
  visit is of the whole range (bench.h:274 demands an index below the size, which
  `begin_d + 1` misses); no snapshot (the engine returns none, which the
  `CHECK`s at executor.h:210 and 265 refuse); a validated program has no `kSync` case
  (executor.h:270 aborts when `sync` returns `kSucc`); and `OwnRange`: no key of one
  thread lies between two keys of another, since a visit reports whatever the engine
  holds in its range.  Prefixes give that, too.

TLC evaluates that the programs of the runs are all `Checkable` with `OwnKeys`
(`Checked` in `MCHarness`), so the hypotheses are those of the programs that the
repository has.

`HarnessInv` is the inductive invariant.  `OracleAgrees` is about a thread between two
cases and is not preserved by itself: a case is generated, and `inserted_keys_`
changed, before the validator hears of it.  `OracleInv` says what holds in between: the
generator is ahead of the validator by exactly the case that waits (`Believed`).  And
for the visits it says that a validator expects keys of its own thread only and that
the engine holds no key but those of threads, so that in a range of the thread there is
nothing that another one put.  `GeneratorInv` says of the waiting case that its key is
one the thread's allocator returns, and that a visit runs between two such keys.
The construction of the generator (`acc_prob_to_conf`, `validate`) is a recursive
function; its solution is shown to exist by an argument from the least counterexample
(`FoldExists`), and from it that the last sum of the map is the sum of the rates
(`MapFacts`): this is why no draw falls behind the last entry.  `KeyAtFacts` shows
that every index that a visit computes has a key.  `VisitPasses` is the comparison
of a scan with the map: as many pairs, and each in the map, make the scan complete.

### Only model-checked

* Liveness (`EveryCallReturns`, `RecoveryEnds`, `AllJoined`): the prover does not
  handle fairness.
* The B+ tree: its operations are recursive operators, for which the prover has no
  backend.

## Not modelled

* Full disks and failing writes: `log_line` would loop, errors of `fclose` are
  ignored.  Nothing in the code reacts to them, so there is no behaviour to check
  beyond the loop.
* Visitors that call back into the engine while the locks are held: a `put` from
  a visitor waits for its own caller.
* Concurrent use of one persister: `FilePool::open` with `o_trunc` clears the
  vectors of a storage under a lock that its readers do not hold.
* File systems that reorder directory operations.
* `snapshot()` returns `nullptr`, so `SnapshotValidator` cannot be constructed.
* `zipf.h` (numerical code of third parties), the bytes of random keys, rounding
  of `double` rates; destructors, logging, timing, unused members; scripts and
  build files.

## Plan

Done: all modules, their runs, and the theorems above.

What is left is out of the prover's reach: liveness, and the B+ tree, which would have
to be rewritten without recursive operators before anything is proved about it.
