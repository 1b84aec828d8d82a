# A verification of the ext4 filesystem and its journal

The repository is Asterinas, a Rust kernel, with an ext4 filesystem written from
scratch in `kernel/src/fs/fs_impls/ext4`. The filesystem has its own JBD2 journal:
concurrent operations, a commit thread, a lazily reclaimed log, revokes, ordered
data, crash recovery. It is the part where a mistake loses data and where tests
reach least, so it is the core of this project; around it are the parts that rely on
it across crashes, the orphan list and the allocation of blocks and inodes. Paths below are relative to the
ext4 directory.

## The system

| part | state | operations |
|---|---|---|
| handles and credits (`journal/transaction.rs`) | `t_updates`, outstanding credits, per-handle remainder | `journal_start` (admit), `journal_extend`, `journal_restart`, `journal_stop`, `charge_fresh_capture` |
| seats and committer (`journal/mod.rs`) | running, locking, committing; `commit_request`, `committed_tid`, `aborted`, `space_pressure`, `credit_release_epoch` | `commit_thread_loop`, `poll_commit_action`, `advance_pipeline`, `commit_one`, `run_lazy_checkpoint`, `log_wait_commit`, `sync_durability_target`, `stop_commit_thread`, `flush_on_unmount`, the aborts |
| captures (`journal/transaction.rs`, `mod.rs`) | buffers, revokes, ordered data of a transaction; retained images | `get_write_access`, `get_create_access`, `forget`, `read_metadata_block`, `register_ordered_data` |
| commit (`journal/commit.rs`) | the log, the journal superblock | `try_commit_transaction` |
| checkpoint (`journal/checkpoint.rs`) | tail, retained images, revoke table | `checkpoint_advance`, `apply_log_transaction` |
| recovery (`journal/recovery.rs`) | the log, the device | `recover`: SCAN, REVOKE, REPLAY |
| revokes (`journal/revoke.rs`) | `RevokeTable`, duties of a free | `record`, `suppresses`, `retire_through`, `discharge` |
| allocation (`fs.rs`, `block_group.rs`) | bitmaps, counters, pinned frees | `alloc_blocks`, `free_blocks`, `alloc_ino`, `free_inode` |
| orphan list (`fs.rs`) | chain in memory and on disk | `orphan_add`, `orphan_del`, `recover_orphan_list` |
| mount lifecycle (`fs.rs`) | RECOVER flag, journal features | `open`, `shutdown`, `Drop` |
| inodes (`inode/mod.rs`) | page cache, size, extents, `sync_tid` | write, truncate, fallocate, punch, reclaim, fsync |
| extent tree, directories (`inode/extent_manager`, `inode/dir`) | on-disk trees | lookup, insert, split, remove |

How they interact. An operation opens a handle on the running transaction and
captures whole after-images of the metadata blocks it changes; a fresh capture
costs a credit. When a transaction is due (its age, its size, a request) the
committer freezes it: with handles still open it parks in the locking seat, and no
successor may start until it drained. A drained transaction moves to the committing
seat. Its ordered data, revoke records, images and commit block are written with
barriers between them. Its images stay in memory until a checkpoint has written
them to their final place and moved the log's tail. A checkpoint runs only under
space pressure, when the log is low, or inline when a commit does not fit. Blocks
that were freed stay pinned until the freeing transaction is committed.

What is hard here:

* the committer's and the tasks' conditions, flags and wake-ups, in any order;
* waits that depend on each other: room in a transaction, space in the log, the
  commit of a transaction, its last handle;
* blocks that change owner while old images of them are in memory, in the log, in
  a pass under way or in a log that recovery replays;
* a crash between any two device writes, also during recovery;
* a step of several failing: commit, checkpoint, superblock flush, operation.

The properties a correct journal has: a crash never shows a part of a transaction
nor loses a committed one; reads see the newest image; a freed block is not reused
while a crash could give it back; `fsync` and `sync` do not claim what is not
durable; every wait ends; a clean unmount leaves nothing behind. Of what is built on
it: after a crash a mount finishes every deletion and truncation that was cut short,
and bitmaps, counters and files agree. `PROJECT.json` lists the hazards, each with its line.

## Modules

| module | models |
|---|---|
| `AtomicStore` | the promise: a store made durable in whole-transaction steps |
| `JournalStore` | what the journal contains and writes; implements `AtomicStore` |
| `JournalPipeline` | the threads: handles, credits, seats, committer, waits, unmount |
| `JournalPipelineTypes`, `JournalPipelineProofs`, `JournalHandleProofs` | the theorems about `JournalPipeline` |
| `LogRing` | positions on the log's ring, transaction ids that wrap |
| `LogRingProofs` | the theorems about them |
| `JournalLog` | the log block by block, its superblock, the RECOVER flag, mount and unmount |
| `OrphanList` | unlink, restartable truncation, reclaim, the scan at mount |
| `OrphanListInv` | the inductive invariant of `OrphanList` |
| `OrphanStepProofs`, `OrphanTaskProofs`, `OrphanListProofs` | its proof and the theorems |
| `IdBitmap` | a bitmap with its first-free position (`fs/utils/id_bitmap.rs`) |
| `IdBitmapProofs` | the theorems about it |
| `Allocator` | groups, counters, pins, retry, inode numbers |
| `MC...` | symmetry for TLC |

The journal is modelled three times because its difficulties are nearly independent.
`JournalStore` keeps the contents and has one abstract operation at a time through
handles; `JournalPipeline` keeps the threads and reduces contents to counters;
`JournalLog` keeps the blocks on the device and reduces images to serial numbers.
`OrphanList` and `Allocator` use the journal as `AtomicStore` describes it: what is
captured becomes durable at once, at a moment when no handle is open.

### JournalStore

State. `owner`, `cur`, `dirty` are the typed filesystem state and the page cache;
`running`, `locking`, `committing`, `unckpt`, `revoked`, `pinned`, `tail` are
`JournalState`; `ck` is a checkpoint pass under way; `cache` and `may` are the
device: what a read returns, and what may be on the platter until the next barrier;
`log`, `sb` and `sbMay` are the log and the journal superblock. `stable` and
`frozen` are history: the views the last commit and the commit under way stand for.

Data. A block's content is the number of the operation that wrote it. One further
metadata block, `AllocMap`, stands for everything that records ownership; its
content is the ownership function. An update patches a block, so its image is whole
only if it was seeded with the newest one; otherwise it is `Torn`. The log is
addressed by transaction and its capacity counted in transactions; recovery sees a
transaction if its commit block is on the platter, torn if its chain is not.

Actions. Operations: `StartHandle`, `StopHandle`, `AllocMeta`, `UpdateMeta`,
`FreeMeta`, `WriteData`, `FreeData` (by truncation or by the reclaim of an unlinked
inode), `WriteBack`. Commit: `Park`, `Stage`, `BeginFlush`, `FlushOrdered`,
`WriteLog`, `WriteCommit`, `Seal`, `Publish`: the steps of
`try_commit_transaction`, cut at its barriers. Checkpoint: `CkStart`, `CkDefer`,
`CkApply`, `CkIdle`, `CkRetire`, `CkPublish`, the same for `checkpoint_advance`.
Errors: `CommitFail`, `CommitNoSpace`, `CkFail`, `AbortForFsError`. Then `Crash` and
the steps of `recover`.

The refinement maps `live` to what a reader sees, and during recovery to what the
recovery will end with, computed from the log without replaying it. So replay, and
a second crash during it, must be invisible.

### JournalPipeline

A step is what a thread does between two points where another can run: a section
under the state lock, one load or store of an atomic, one wake-up. A sleeping task
is in `asleep`, the sleeping committer has `cAsleep`; both look at their condition
again only when woken. The epoch counter is the set `current` of waiters whose
snapshot is still equal to it. A transaction is a record of counters; the log is
the number of blocks in use. What a checkpoint frees is exact when nothing defers
it and any amount when an unpublished revoke may.

The unmount runs when no operation is in flight, as `Ext4::drop` does, and its flush
uses the committer's own commit steps, as `flush_on_unmount` calls `commit_staged`.

A pinned free always comes with a captured bitmap (`free_blocks`), so
`Committable` needs captures and revokes only.

### LogRing and JournalLog

`mem` is `JournalState` (head, tail, ids, the parsed layout of tags), `disk` what a
read of the device returns and `platter` what is on it for certain; a crash keeps any
part of the writes in between. A log block is its header and, for a descriptor, the
escape flags of its tags. An after-image may look like a commit block of a later
transaction. `Scan`, `Chain` and `Walk` are the readers: recovery's SCAN, the chain of
descriptors both readers follow, and the checkpoint's walk.

One thread mounts (`Open`, `Recover`, `RecoverWrite`, `RecoverEnd`, `Upgrade`,
`Reload`, `SetRecover`, `Mounted`), commits (`Stage`, `WriteChain`, `WriteCommit`,
`Seal`, `TailRead`, `TailWrite`, `TailEnd`, `Publish`), checkpoints (`LazyCheckpoint`,
`DrainTail`, `RetireRead`, `RetireWrite`, `RetireEnd`) and unmounts; another records an
error in the superblock (`ErrnoRead`, `ErrnoWrite`, `ErrnoEnd`). Each step ends where
the other thread can run or a crash makes a difference.

`live` is history, the committed transactions not yet retired. `RecoveryFindsLog` says
of every state and every crash in it that the next mount replays exactly these.

### OrphanList

`head`, `slot`, `bit`, `used` are what is captured: `s_last_orphan`, the inode table,
the two bitmaps; `durable` is the same at the last commit. `chain` is `OrphanChain`,
`mem` the cached descriptors. An inode on the list stores its successor in `dtime`, the
field that is a deletion time in a freed inode. `job` and `step` say what runs under an
inode's lock and how far it is. A truncation is `Truncate`, `Persist`, then `Chunk`,
`Frontier` and `Restart` (a new handle, so a commit may come in between) until
`Unlist` and `Final`; a reclaim ends in `FreeInode`. `Shrink` is the short truncation
in one transaction. After a crash `Scan` walks the durable list, `RecoverNext` starts
the truncation or the reclaim of its members in the order of the code and `RecoverEnd`
clears the head. `lost` is history: members the recovery gave up after an I/O error.

`Unlinked` says whether an open file may be truncated after its unlink. It is `FALSE`
everywhere but in `OrphansOpen`, because the code is wrong there (finding 4).

### IdBitmap and Allocator

`group` has bitmaps, counters and the uninitialized flag of each group, `super` the
superblock's counters, `pins` is `pinned_frees`, `durable` is what a mount finds.
`AllocBlocks` takes the superblock lock and snapshots the pins, `AllocGroup` searches
one group (halving the length, holding candidates that overlap a pin and giving them
back), `Retry`, `Sync` and `Wait` are the loop around a failed write, `FreeGroup` frees
and pins. `AllocIno`, `WriteInode`, `RollBack` and `FreeInode` are the same for inode
numbers. `Lock`, `Stage` and `Commit` are the committer, which takes no lock of the
allocator. `Crash` reloads what is durable; the bitmap of an uninitialized group is
rebuilt from its counter.

## Runs

| run | question | states |
|---|---|---|
| `Store` | are reads new, freed blocks safe and committed metadata intact when a commit, pass or operation fails? | 518 876 |
| `StoreAtomic` | does the journal implement the atomic store, with blocks reused and two crashes? | 210 261 |
| `StoreReclaim` | is ordered data safe when an unlinked inode is reclaimed? No | violation |
| `StoreSuperblock` | does a failed superblock flush leave the log recoverable? No | violation |
| `Pipeline` | seat order, freeze, credits, truthful fsync, sync and unmount, in every interleaving, with failures | 2 410 175 |
| `PipelineLive` | do durability waits, admissions, commits and unmount come about? | 173 027 |
| `PipelineWaiter` | do log-space waits end when a pass fails? Not always | violation |
| `Orphans` | is everything unfinished listed, finished at mount, and nothing else touched? | 414 513 |
| `OrphansOpen` | also when an open, unlinked file is truncated? No | violation |
| `Log` | do recovery and checkpoint find exactly the committed transactions in the ring? | 1 468 838 |
| `Alloc` | do bitmaps, counters and files agree after any crash, and is no block reused early? | 537 958 |
| `AllocRetry` | is every failure that only pins caused retried? No | violation |

Bounds. `JournalStore`: two blocks let one change owner while another keeps the
transaction alive; a ring of two or three transactions wraps within the three
transaction ids and makes the low-water pass, the inline drain and the defer rule
happen. Two crashes (`StoreAtomic`) allow one during recovery. `JournalPipeline`: two
tasks suffice for every race between a task and the committer and for two tasks that
compete for credits or wait for each other; in logs of six and eleven blocks a
transaction fills, the log fills, and a commit does not fit. A third task multiplies
the states beyond use; the proofs cover any number. `JournalLog`: transactions of up to
six blocks in a ring of seven wrap with the second one, ids start at 15 of 16 and wrap
with it, and three stops allow a crash, a crash in the recovery from it, and a third
mount. `OrphanList`: two inodes are neighbours in the list, so that one leaves it
between two steps of the other; a second crash, during the scan, is left to the proofs.
`Allocator`: with two groups of two blocks a run of three spans both, one group starts
uninitialized, and two tasks and three operations allow a free, an allocation around
its pin and another between them. Every bound is a constant `Max...` in a guard.

All runs set `CHECK_DEADLOCK FALSE`: with the bounds used up, or after unmount, the
system stops.

Fairness. `PipelineLive` and `PipelineWaiter`: weak fairness of every task's own steps,
of the committer, and of the age timer: the scheduler runs a ready thread and the
kernel's timers fire. `Orphans`: weak fairness of an operation that has begun, of the
reclaim that the last reference's drop starts, and of the mount's own steps, for the
same reason. What a task may choose to do (begin, capture, sync, close), commits,
crashes and errors are not fair. A handle that is open is closed eventually, since
operations end.

Some changes to the code are invisible in these runs because a second mechanism
covers them: `suppresses` with `>` for `>=`, `retire_through` one earlier, no
defer-prefix, or no eviction of a forgotten block's retained image. Pins keep a freed
block from being reused until the revoke is committed, and re-capturing a block
cancels its revoke.

## Findings

1. The reclaim of an unlinked inode drops pages that a transaction not yet committed
   has registered as ordered data; a crash brings the file back without them
   (`StoreReclaim`).
2. A checkpoint's clean superblock can reach the device while its flush reports an
   error. Later commits believe `s_start` is set, and recovery skips them
   (`StoreSuperblock`).
3. A lazy checkpoint that fails has consumed the demand for space; the waiter is not
   woken again (`PipelineWaiter`).
4. A restartable truncation ends with an unconditional `orphan_del`. If the file was
   unlinked and is still open, it loses the entry its unlink made, and a crash before
   the last close leaks the inode and its blocks (`OrphansOpen`).
5. `should_retry_alloc` asks for pins after the failed attempt. A commit in between
   releases them, and the write fails with ENOSPC although the space is free
   (`AllocRetry`).

`PROJECT.json` quotes the comments these contradict.

Two lesser ones were seen with earlier versions of `JournalPipeline`'s runs and have no
run now: `advance_pipeline` tests the abort flag before it takes the state lock, so a
transaction can still be staged after an abort; and handles without credits capture a
block before they are refused, so two of them can make a transaction that its log
cannot hold, which the commit's fit guard then turns into an abort.

## Proofs

### The pipeline

`JournalPipelineProofs` proves for every set of tasks, log size, descriptor size,
credit set, choice of failures and bounds:

* `TypeCorrect`: types, and the log never exceeds the ring;
* `SeatsOrdered`: the seats are in transaction order;
* `NoFalseDurability`: no success of `fsync` or `sync` without a commit;
* `NothingLeftBehind`: what a clean unmount promises;
* `AdmittedFits`: a transaction that passes the credit test fits the empty log with its
  descriptors, revoke block and commit block (the rounding in `max_credits`).

They rest on `PipelineAssumption` (finite tasks, positive sizes, credits within
`max_credits`, `None` not a transaction) and on one inductive invariant,
`Inv == TypeOK /\ SeatInv /\ WorkInv /\ SyncInv /\ UnmountInv`:

* `SeatInv` adds to the seat order where the committer is. A transaction sits in the
  committing seat exactly during the commit steps. Types alone are not
  inductive: publishing `committed` reads the committing transaction.
* `WorkInv` says where work can be: the newest transaction any work was captured into
  is committed, or in a seat with something to commit, or the journal is aborted.
* `SyncInv` says that the target a waiter chose covers what it wants durable.
* `UnmountInv` ties the unmount's progress to the seats and to idle tasks.

Each action has a lemma of its own or is shown *quiet* (it changes seats only by
growing their contents), and the `Grows` lemmas say what the record updates keep.
TLC checked `Inv` as an invariant under bounds like those of `Pipeline` before it was
proved.

`JournalHandleProofs` adds `HandlesCounted` (`OpenHandlesHoldTransaction`), which is
inductive together with `Inv`. A task that is admitted, stops or restarts changes the set
of its transaction's holders by itself and the count by one. Every other step keeps both.
A transaction reaches the committing seat with a count of zero, so with no holder. The
seat order shows that the transaction joined or left is not the one being committed.

### The orphan list

`OrphanListProofs` proves for every finite set of inodes, every file size and any
number of requests, crashes (also during the scan) and failing chunks, from
`OrphanAssumption` and `Unlinked = FALSE`:

* `ListIsComplete`: a mount after any commit finds everything unfinished on the list;
* `NoBlockLeaks`: durable bitmap and durable extent trees agree;
* `NoStalePointer`: no list pointer is left in the `i_dtime` of a live inode;
* `MirrorIsList`: with no handle open, the list captured is the one in memory;
* `MountKeepsFiles`, `MountFinishes`: what the scan may and must do.

The inductive invariant is `OrphanInv` (theorem `OrphanInvariant`). The properties
speak of what is durable; a commit makes durable whatever is captured when no handle is
open, so the invariant must say of every step of every operation what is captured so
far. `Chained` relates the mirror to the captured pointers, with the one exception the
code has: an inode that is listed and not yet written back. `TaskOK`, `IdleOK`,
`BlocksOK` and `DtimeOK` say of each inode, by its step, whether it is listed and how
its cached descriptor, its slot and its bitmaps differ. `MountOK` covers the time before
and during a scan, and `DurableOK` is the properties themselves, since a crash brings
back the durable state.

An operation touches one inode and the pointers of its neighbours.
`OrphanStepProofs` shows that adding and removing keep `Chained` and that a step of one
inode keeps what is known of the others, `OrphanTaskProofs` has one lemma for each action
of an operation, and `OrphanListProofs` those for commit, crash and scan. The scan needs that a list has one walk: two walks of the same list agree up
to the shorter one, by the least position where they would differ.

### The ring

`LogRingProofs` proves from `RingAssumption`, for every ring and every number of ids:
`AppendKeepsLog`, a transaction no larger than `free_log_blocks`, written from the head
on, touches no live block; `TidOrder`, `Tid::geq` is the order in which transactions
started, across the wrap, within half of the ids.

### The bitmaps

`IdBitmapProofs` proves for every bitmap size: `HintStaysExact`, loading a bitmap,
allocating a run and freeing one keep `first_available_id` at the lowest free id;
`SearchIsExact`, from an exact hint `alloc_consecutive` finds a free run whenever there is
one, and the lowest. The search is a `CHOOSE` of the least start, so both need that a set
of naturals has a least element.

### Only model-checked

The refinement of `AtomicStore` and everything else about `JournalStore`; everything
about `JournalLog`, and about `Allocator` above its bitmaps; `CreditsAccounted`, a sum
over handles; all liveness. Liveness under
fairness and `ENABLED`, what a recursive definition computes for every input
(`JournalLog`'s chains, `Allocator`'s search), and modules with `RECURSIVE` operators
are out of the prover's reach and stay with TLC.

## Not modelled

* On-disk encodings, checksums, hashing, superblock parsing: single-record
  conversions without interleavings. `JournalLog` takes checksums as always right.
* Extent tree and directories: sequential algorithms under the inode's lock on packed
  nodes and entries of hundreds of items; a node small enough for TLC splits where the
  code's does not. What other parts rely on, that blocks are mapped and unmapped in
  one transaction and in chunks, is in `OrphanList` and `JournalStore`.
* Chunked writes and fallocate, beyond what they do to the journal.
* In `JournalPipeline`: `extend_reservation_for_burst`.
* In `JournalLog`: how many revoke records fit a block, and a flush that fails after
  the superblock write; `JournalStore` has the latter (finding 2).
* In `OrphanList`: the error path of create, `link()` of an open unlinked file, inodes
  that cannot be decoded, a clear of the head that itself fails.
* In `Allocator`: checks against the system zone, `INODE_UNINIT` groups and
  `itable_unused`, volumes without a journal, captures that fail in the middle of an
  allocation, aborts.
* The rest of the kernel: upstream Asterinas, reached only through the block device,
  locks and wait queues, whose contracts the models state.
