# SpaceFish: TLA+ models and proofs

SpaceFish keeps files in POSIX shared memory. A preloaded library replaces the
file calls of the C library (`system/lib`), a daemon creates the shared segments
and uploads a directory at start (`system/daemon.c`), and unrelated processes
work on the same segments with spin locks, or with none (`system/util`). This
directory models that shared state, checks it with TLC on small instances, and
proves safety properties of all seven components for every size with TLAPS. All
paths below are relative to `src/`.

## Inventory

| part | source | module | state |
|---|---|---|---|
| read-write lock | `system/util/rwlock.c` | RWLock, RWLockProofs | modelled, proved |
| data buckets, ALLOC_ALL_ methods | `system/util/data_shm.c` 141-307, 682-692 | BucketAlloc, Allocator, BucketAllocProofs | modelled, proved |
| data buckets, ALLOC_STEPS | `data_shm.c` 36-49, 73-139, 566-680 | StepAlloc, StepAllocProofs | modelled without kills, safety proved |
| core registry | `data_shm.c` 694-745 | CoreRegistry, CoreRegistryProofs | modelled, proved |
| metadata table | `system/util/meta_shm.c`; open, unlink, rename, stat | MetaTable, MetaTableViews, Namespace, MCMetaTable, MetaTableSteps, MetaTableProofs | modelled, safety and use of the locks proved |
| file contents | `system/lib/file_syscalls.c` | FileData, FileViews, FileOracle, FileJobs, MCFileData, MCFileOracle, FileDataProofs | internal descriptors; chains proved |
| upload, write-back | `system/util/util.c` 31-194, `daemon.c` 261-289 | FileData; initial lists in MetaTable | modelled |
| process table, fork, exec, exit | `system/util/process.c`, `system/lib/file_proc.c`, `system/lib/ufs.c` | ProcTable, ProcTableProofs | modelled without vfork signalling, proved |
| descriptor table | `system/util/fd.c` | parts of FileData and ProcTable | partly |
| daemon | `system/daemon.c` | initial states; cleanup in FileData | partly |
| paths, hash | `system/util/util.c` 204-424 | | not modelled |
| logging, interposition, profiling | headers | | no state of the file system |

How they interact: a call looks its path up in a row of the hash table under the
row's read-write lock and gets a meta bucket; the meta bucket names the first of
a chain of data buckets; writes that cross the end of a chain take data buckets
from one of five allocation methods; two of those ask the core registry for the
slice of the core the process runs on. A file that is on disk only is uploaded by
the open that asks for it. exec writes the program it starts to disk, saves the
descriptor table under the name of the process, and marks the slot of the process in
`pid_meta`; the library's constructor in the new program finds the mark and restores
the table. The daemon writes changed files to disk when it ends.

## Modules and the code

**RWLock.** The words `num_readers`, `num_writers` and `real_lock`, and a control
point per process. Every access to a shared word is a step. Waiting loops are
guards: a turn that sees the wrong value changes nothing.

**BucketAlloc.** The four walks share one loop. They differ in where they start
(`Call...`), in the position of iteration `i` (`Position`) and in which rough index
they set (`SetRoughIndex`, `Advance`). `method` is fixed in `Init`, as by the daemon's
option. First look, trylock, second look, store and unlock are separate steps. So are
the three of `release_dbucket`, which takes no lock: `ReleaseTest`, `ReleaseClear`,
`ReleaseCount`. Its caller is open with O_TRUNC, in builds with `O_TRUNC_FREE`. It follows
the `next_ix` of a chain that any process may have written, that another one may be
truncating too, and that may be left from an earlier file. `Truncate` therefore releases any
bucket that some call returned, whoever called and whatever happened to it since; `got` is
that history. Nothing in the code says that a process releases only what it holds.
`Kill` stops a process anywhere and
leaves its lock. `rand()` and `get_set_core_index()` may return anything in range.
**Allocator** is the abstract specification: a call marks a free bucket and is given it in
one step, and a release unmarks a bucket in one step.

**StepAlloc.** `bucket_ix_alloc_steps` and `try_create_step`. The walk has the same steps as
in BucketAlloc, with a lock per bucket: `LookInUse` or `LookFree`, `BucketBusy` or
`BucketLock`, `CheckInUse` or `CheckFree`, `Claim`, `UnlockBucket`, `Count`. Releases are as
there; the index to release goes through `get_dbucket_ptr`, and one in a step that does
not exist ends the process (`ReleaseExit`). `segments` is the set of
shm objects that exist, `mapped` what each process has mapped, `got` pairs the index
a call returned with the bucket it claimed. `O_TRUNC_FREE` is a rigid variable: both
builds are checked.

**CoreRegistry.** `get_set_core_index` with migration between calls and kills.

**MetaTable.** Rows are linked lists of meta buckets. Readers walk one bucket per
step, because `rwlock.c` lets a reader and a writer in together; a search under the
write lock is one step. The lock's steps are repeated per row. **MetaTableViews** states
what clients rely on: `RowsFollowRWLock` says that each row refines RWLock, with
`LockState` as the mapping of its control points. `create_new_file` writes
`first_dbucket` and `path` after the row is unlocked, as the code does. **Namespace**
is the abstract specification: a set of names. A *session* is a list of files that
`upload_dir` found and the calls that each process may make; `Init` picks one, so
that one run covers several scenarios.

**ProcTable.** The slots of `pid_meta` (pid, lock, `fds_backed_up`), the shared objects
`ufs_fdbackup_<uid>_<pid>` (`backup`), and per process a control point and the globals
of the library that fork copies: `pid`, `pid_meta_ind`, `pid_meta_ind_set`. `CachedHit`
to `WritePid` are `get_pid_meta_ind` and `get_new_pid_meta_ind`, `NotBackedUp` to
`ClearFlag` the end of `ufs_init`, `Exec` to `RealExecFails` the exec calls,
`exit_intercept` to `Gone` the two functions that exit calls, in either order. Every
access to a slot is a step, and `Kill` stops a process at any of them. A descriptor
table is abstracted to the process that last changed it: that is what a wrong restore
would get wrong. `saved` is history, the table the last exec was called with.

**FileData.** Meta buckets, chains of data buckets, descriptors with the one-entry
offset cache, and the calls. Each pass of a copying loop is a step, so calls of
two processes interleave bucket by bucket. Subtractions of `size_t` wrap. Path
lookup and bucket allocation are single steps here. `disk` is what the files on disk
hold. `OpenUpload` to `UploadDone` are `upload_file`: the size is asked first, the bytes
are read later and go into one bucket per step. `GatherBucket`, `DiskOpen` and
`DiskWrite` are `write_to_disk`, reached from `ExecFile` and from `Cleanup`, whose
`flush_write` goes through the meta buckets while other processes go on. `calm` is
history: no other process was inside a call since cleanup began. **FileViews** reads the
chains as byte sequences (`Content`), for the claims about sizes and about what is on disk.
**FileOracle** adds a
history variable: a byte sequence and a position per file.

Left out everywhere: time stamps, logging, error returns that change nothing, and
exclusive descriptors, which go to the C library.

## Runs

| run | instance | shows |
|---|---|---|
| RWLock | 3 processes | writers exclude each other; counters exact; a reader does not pass a registered writer; some waiting writer gets in |
| AllocWalk | 2 processes, 4 buckets, 2 cores, 4 methods, kills, no releases | no bucket is given twice; `in_use` exact; from a random start, over-use is reported only for an exhausted window; calls end |
| AllocRelease | 2 processes, 2 buckets, 1 core, 4 methods, kills, releases of any bucket ever returned | Allocator implemented: a claim marks a free bucket in one step, only a release unmarks |
| StepGrow | 3 processes, steps of 1 bucket, 2 steps, both builds; two of the processes truncate in the build with O_TRUNC_FREE | mapped steps exist; without releases: indices right and claimed once, growth only when all is in use or locked, calls end |
| CoreRegistry | 3 processes, 2 cores, kills | the cached entry stays that of its core |
| MetaTable | 2 processes, 3 files, 2 rows, 3 buckets; a session of creates, lookups and removals in one row, and one of renames between rows, over existing files too | lists sound and no bucket lost in both; without renames: nobody is locked out, row locks follow RWLock, Namespace implemented |
| ProcTable | 2 processes, 2 slots, one of them perhaps left by a dead process; start, fork, exec, exit and kill at any point | no process has two slots; exit leaves neither slot nor saved table; exec hands over the right descriptors; calls end |
| FileStream | 1 process, 2 descriptors, 3 buckets of 2 bytes; the file is new or uploaded | content and results agree with a byte sequence; cursor and size consistent |
| FileShared | 2 processes, 2 files, 3 buckets of 2 bytes; three sessions: two writers, a writer and the daemon's cleanup, exec against a second upload | chains never cross, cycle or hold a free bucket; what the daemon leaves on disk is the content of the files |
| RWLockOverlap | as RWLock | violation: reader and writer inside together |
| MetaDuplicate | 2 processes, one path | violation: two files with one path |
| StepExit | 2 processes, 2 steps of 2 buckets | violation: exit although buckets are free |

**Bounds.** Two contenders suffice for every race on one word or bucket; three are
used where one must wait while two others race (RWLock, StepGrow, CoreRegistry).
Four buckets and two cores give each core a slice of two, so that walks wrap in the whole
and in a slice. Two buckets suffice for releases: one is released, twice too, while the other is walked to.
In StepGrow `ReturnBound` stops releases once that many different pairs of index and bucket
were returned, because the index grows with each wrap, and `Truncating` names the processes
that take part in the build with O_TRUNC_FREE. Two files on disk
and three meta buckets fill the table with one create, and leave one bucket for a
rename to run against. With two slots, one of them possibly taken for good, two
processes race for the last one and one of them finds the array full; the two are a
parent and its child or strangers, and each can exec again. Buckets of two bytes make a write of three cross a boundary at every offset. `OffBound` and
`SizeBound` stop calls on a file that has grown past them; `CounterMod` is the scaled
width of the unsigned counter `dbuckets_in_use`. FileStream's CONSTRAINT drops a
behaviour once a pread or pwrite begins outside its file.

**Symmetry.** FileStream and FileShared permute bucket and meta bucket names. They
check invariants only.

**Deadlock** is checked in RWLock, RWLockOverlap and MetaDuplicate. In the others the
system may stop: processes exit or are killed, the daemon closes, and opposite
renames block each other. For the sessions of MetaTable without renames the invariant
NoLockout takes the place of the deadlock check.

**Fairness** is weak fairness of each process's steps inside a call: a live process
that can take a step is scheduled. Nothing is assumed of when calls are made, and in
BucketAlloc and ProcTable a killed process is owed nothing. In RWLock the spin lock
promises no order among its waiters, so `WriterGetsIn` says that some waiting writer gets in, not each.

## Proofs

Assumptions: the named ASSUMEs on the constants, which TLC evaluates for each run.

| module | taken as |
|---|---|
| RWLock | any finite set of processes, because its counters are cardinalities |
| BucketAlloc | any set of processes, any number of cores, and at least one bucket per core |
| StepAlloc | any set of processes, number of steps and size of a step |
| CoreRegistry | any sets of processes and of cores |
| ProcTable | any set of processes and number of slots, none included |
| MetaTable | any finite set of processes, any number of rows and meta buckets, any paths, any hash function and any calls |
| FileData | any set of processes and descriptors, finite sets of buckets and meta buckets, any bucket size, any bytes and any calls of the seven file functions, exec and cleanup |

Each proof has one step or one lemma per action. Where processes share little, a frame
lemma says what a step of one process leaves alone of the others, so that only the own
locals remain to be looked at.

**RWLockProofs** proves TypeOK, WriterExclusion, CountersExact and WriterPriority.
Exclusion alone is not inductive: it needs that `real_lock` names exactly the process
inside or leaving as a writer (`HolderIn`), and non-negative counters need that
each counter is the cardinality of the processes registered (`CountersExact`). RWInv
is their conjunction with TypeOK.

**BucketAllocProofs** proves TypeOK, Exclusive, InUseIffHeld, ImplementsAllocator and
OverUseJustified. AllocInv says: a process past its first look stands at a bucket of its
window, and only builds with releases are in the middle of one
(`AtPoint`), a process between trylock and unlock holds the bucket's lock
(`LockHolder`), and the bucket of a process about to store `in_use` is still free
(`ClaimIsFree`). The last is the reason for the second look: only a lock holder sets
`in_use`, and a release, which needs no lock, only clears it. With it go InUseIffHeld and
Exclusive, whose second halves are for builds without releases: there a bucket that was
given stays marked, a claim finds its bucket unmarked, and so it was given to nobody.
Refinement holds with releases too: `Claim` maps to the abstract claim; `ReleaseClear` maps
to the abstract release, or to stuttering when another release of the same bucket came
first; all else to stuttering. For
OverUseJustified, WalkInv says that each position a walk has passed is in use or locked,
and stays so while nothing is released; after `Bound` iterations from a fixed start the
positions are the whole window. The start has to be fixed: the first attempt took all
four methods, and TLC then found, with three processes, walks from either rough index
that pass over a free bucket. The property is stated for the two random starts. A lock
that makes a walk pass on may be that of a process that is about to use the bucket, that will
find it in use, or that was killed and never will.

**StepAllocProofs** proves TypeOK, MappedExist, IndexIsBucket and GrowsWhenFull. For MappedExist,
GrowInv says of a process between `shm_open` and `dbucket_steps++` that it holds the lock
and that the number it read before it took the lock is still the number of steps: an
older number names a segment that exists, and `O_EXCL` turns it away. For
IndexIsBucket, in builds that release nothing, WalkInv calls a bucket busy when it is in use
or locked, and says: every bucket below the rough index and every bucket a walk has passed
is busy, so that a walk that wraps meets only buckets in use and claims none there, and the
missing modulo does not matter (`Below`, `WalkOK`); calls that have marked a bucket and
not returned it yet have different ones, none of which was returned before (`Apart`,
`GotOK`). Busy buckets stay busy although locks are given
back: the holder either marks the bucket or has found it marked. For GrowsWhenFull,
in the same builds, FullInv adds that a busy bucket has only busy buckets before it, that
`dbuckets_in_use` is the number of buckets calls have returned (a finite set smaller than
`CounterMod`, so the counter does not wrap), and that a process on its way to a new step
has seen the steps it knows full: a counter equal to the size of an old number of steps
counts buckets that are in use, and none of them lies behind a free one. "In use" alone
would be wrong: a walk may pass the last bucket while another call has it locked and not
yet marked, and create a step.

**CoreRegistryProofs** proves TypeOK and CachedEntryMine. The invariant adds that an
entry not in use has no core, and that a process between its second test of `in_use` and
the unlock holds the entry's lock and finds it unnamed: an entry is named once.

**ProcTableProofs** proves TypeOK, UniquePid, LeavesNothing and RestoredOwn. IInv says
per process: where its scan has found nothing there is no slot of its own, since nobody
else writes its pid (`SlotsOK`); a saved table belongs to a process whose global `pid` is
its own and whose `ufs_fin` is still to come (`BackupOK`); from exec to `ufs_init` the saved
table is the one exec was called with, if it is there (`SavedOK`), and without other
processes it is there and the slot is marked (`AloneOK`). That two processes may write
one slot does no harm to these facts: the one that loses it has no slot, and gets
another one when it asks again.

**MetaTableSteps** and **MetaTableProofs** prove TypeOK, ListsSound, NoOrphan and
RowsFollowRWLock. ListsSound speaks of walks and is not inductive. TableInv speaks of
links instead: there are sets of buckets, one per row and apart from each other, in which
every link stays, every bucket but the first has exactly one link to it, and a rank grows
along the links (`RowIs`); the buckets in use are those of the rows and those in the hands
of one process each (`HandInv`); what a search under the write lock found, the bucket and
its predecessor, is still so as long as the row is held (`Found`); the lock word of a held
row names the holder (`HolderInv`), and the counters count (`CountInv`), `num_writers` at
least, because a rename that fails never takes itself off. Each action that sets a link is
one way to change such a set (append, unlink, replace). MetaTableSteps has a lemma
per group of actions (`LockKeeps`, `LookupKeeps`, `OpenKeeps`, `ReleaseKeeps`,
`RenameKeeps`) with a step for each; two facts are hypotheses there and proved in
MetaTableProofs: what `get_mb_and_prev` finds (`SearchSound`), and how cardinalities change
(`ProcCounts`). That the
walk along a row meets exactly the set of its list is proved by induction over the
number of links.

RowsFollowRWLock is a refinement of RWLock per row. Its mapping is right only if a lock
word names a process as long as it holds the row and no longer; that is TameInv, an
invariant without renames. Every step of every call is then, on every row, one of nine
steps of RWLock or none (`RowsMove`, in MetaTableSteps). With it the theorems of RWLockProofs hold of each
row. The attempt found an error of the model: `LockState` had cases that overlapped, which TLC
resolves by their order and TLA+ does not.

**FileDataProofs** proves TypeOK and ChainsSound. ChainsSound speaks of the walks along
`next_ix`; FileInv again speaks of links: a bucket has at most one bucket before it, a first
bucket none, no two files have the same first bucket, and a rank grows along the links
(`Linked`). Cursors, the calls under way and the cached offsets only know buckets in use
(`HandInv`), which is what makes the link that a write sets long after it looked harmless: the
bucket it links is free, the one it links to is in use, and if that one got a successor
meanwhile, the successor is cut off and no chain is joined (`LinkAfter`). unlink only takes
a first bucket away, and nothing frees a data bucket. That no walk meets a bucket twice
follows from the rank, and that two walks never meet by walking back from where they
would (`TrailsApart`). The theorem holds also after a process has gone wild, as far as the
model follows it.

**Induction.** The library's induction theorems take an operator and cannot be used.
Where walks need induction, it goes over a set of numbers: `LeastNat` follows from the
well-foundedness of < on the naturals (`WFMin`), and `NatInduct` from `LeastNat`; the set is
that of the numbers for which the claim holds.

Only model-checked:

- liveness, and what uses ENABLED: WriterGetsIn, the three CallEnds, NoLockout;
- ImplementsNamespace: it holds only for sessions in which no two processes create the same
  file, which is no assumption on the constants but on what the calls meet in the table;
- ContentAgrees, ReadsAgree, SizeIsSum and CursorInBounds: they hold for one process and as
  long as its calls stay inside the file, and compare sums and concatenations over chains of any
  length with a byte sequence;
- WrittenBack: it compares the concatenated bytes of a chain with the file on disk.

## Disagreements between code and comments

Kept as runs: a reader registers after a writer looked (`rwlock.c` 19-20); the path is
written after the row is unlocked (`file_syscalls.c` 44), so one path can get two
files; `try_create_step` does not look again under the lock (`data_shm.c` 579-590).

Seen with TLC while the models were built, not kept as runs:

- `meta_shm.c` 285-288 leaves the old path in a freed bucket, so a new bucket can be
  found under its previous name; a reader that overlaps a release loses the rest of
  the list (280).
- `meta_shm.c` 316-318 returns with both rows locked; 305-306 deadlocks on a rename
  inside one row and on two opposite renames.
- `data_shm.c` 732-733: one core can get two entries.
- `data_shm.c` 193, 279: the rough index is read in each pass, so a walk can skip free
  buckets and report over-use. OverUseJustified is stated for the other two methods.
- `data_shm.c` 684-688 with `file_syscalls.c` 126-135, in builds with O_TRUNC_FREE:
  `release_dbucket` tests and clears `in_use` without a lock, so two opens with O_TRUNC of
  one file can both find a bucket in use, and the second clears it after a third call has
  claimed it: the bucket is given again while a file has it, against `data_shm.h` 82-86
  ("Gets a free data bucket, marks it in use"). A bucket's `next_ix` is not reset by the
  release, and of the index methods only `bucket_ix_alloc_steps` (124) resets it, so an
  old link may be followed later. Exclusive is therefore stated for the default
  build, which releases nothing (`config.h` 25).
- `data_shm.c` 118, 126: with O_TRUNC_FREE the index returned is not reduced modulo
  the number of buckets. 582: with three steps, or a holder that only wraps the index,
  a waiting process may spin forever.
- `file_syscalls.c` 618-655: unlink does not free data buckets; 203-204: open rewinds
  the cursor of all users; 481: pread past the bytes of a bucket wraps; 563: pwrite one
  bucket past the end writes nothing; 131 with 319-321: after O_TRUNC of several buckets a read moves the
  cursor into an emptied bucket.
- `util.c` 163: the last bytes of a file of several buckets go to the start of the
  buffer when they do not fill a bucket, so the file on disk is wrong; an exec of such a
  program writes it out even if it was not changed. 166: `st_size` is read again, and may
  have grown past the buffer. WrittenBack leaves such files out (`WritesRight`).
- `util.c` 54: an upload that meets a file which exec is just writing returns and leaves
  the meta bucket in its row, under the path of its last file. 58: a file can be found by
  its path before its buckets are linked, and an open with O_TRUNC then exits.
- `process.c` 73-77 keeps the saved table "for easy access by downstream exec() calls", but
  `file_proc.c` 88 creates it with `O_EXCL`: the second exec of a process exits.
- `ufs.c` 198: a forked child removes the saved table of its parent when it exits; a parent
  between exec and `ufs_init` then exits. `file_proc.c` 103 may mark a slot that another
  process has taken since, whose next program looks for a table that is not there.
- `process.c` 141-148, 131: two processes may take one slot; the slot of a killed process
  is never freed.
- `fd.c` 47, called with `MAX_NUM_FD`, tests one descriptor past the table.
- `file_syscalls.c` 193: `next_ix` is unsigned, so open with O_APPEND walks off the chain.

These shape what is claimed: ImplementsNamespace is for processes that do not create
the same file, RestoredOwn allows that a program gets no table when other processes are
about, SizeIsSum and the comparison of bytes are for one process, because nothing protects
`st_size` and the bytes from a second writer, WrittenBack says nothing once another process
starts a call after the daemon's cleanup began, and
ChainsSound says nothing after a write past a buffer.

## Not modelled

- The vfork signalling (`file_proc.c` 42-70, `process.c` 51-71, 157-174): the Makefile leaves
  `VFORK_SIGNALING` out. Its wake-ups with SIGUSR1 and SIGUSR2 before `pause` can be lost.
- Reuse of process ids: what a killed process leaves would be found by its namesake.
- The allocation functions that return a pointer (`data_shm.c` 309-543): nothing calls
  them, and their loops are those of the index functions.
- `build_abs_path` and the hash functions: pure functions of strings. The models take
  absolute paths and any function from paths to rows.
- Exclusive descriptors and time stamps: they go to the C library or are data that no
  property tells apart. `dup` and `fcntl` are not interposed.
- Mapping of segments, options and signal set-up of the daemon; logging and profiling.

## Plan

1. Kills in StepAlloc; a composition of MetaTable with FileData, in which lookup and
   content interleave.
2. Process ids that are reused, and the vfork signalling as an option of ProcTable.
3. Proofs: SizeIsSum for one process.
   Twelve runs exist; new questions join one as a session or replace the least telling.
