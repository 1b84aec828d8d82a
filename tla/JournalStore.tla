---------------------------- MODULE JournalStore ----------------------------
(***************************************************************************)
(* The ext4 journal as a store: what operations capture, what a commit     *)
(* writes and in which order, what a checkpoint applies and retires, what  *)
(* a crash may leave on the platter and what recovery makes of it.         *)
(*                                                                         *)
(* Sources: kernel/src/fs/fs_impls/ext4/journal/{mod,transaction,commit,   *)
(* checkpoint,revoke,recovery}.rs and the allocation paths of fs.rs and    *)
(* inode/mod.rs that call them.                                            *)
(*                                                                         *)
(* Data abstraction.  A block's content is the stamp of the operation that *)
(* wrote it.  AllocMap stands for the metadata that says who owns which    *)
(* block (block bitmap, extent roots, inodes); its content is the          *)
(* ownership function itself.  The log is addressed by transaction, and    *)
(* its capacity is counted in transactions.  Transaction ids do not wrap.  *)
(***************************************************************************)
EXTENDS Integers, FiniteSets

CONSTANTS
    Blocks,       \* filesystem blocks that operations allocate and free
    AllocMap,     \* the metadata block recording their ownership
    None,         \* the absent value
    FreePaths,    \* how file data is freed: a subset of {"shrink", "reclaim"}
    FaultKinds,   \* where errors strike: a device error in a "commit", in a
                  \* "checkpoint" pass or at the flush of the pass's "superblock"
                  \* write; a consistency error ("fs") met by an operation
    LogCap,       \* transactions the log ring holds
    LowWater,     \* checkpoint_low_water, in transactions
    MaxOps,       \* bound: operations performed
    MaxTid,       \* bound: transaction ids used
    MaxHandles,   \* bound: handles open at a time
    MaxCrashes,   \* bound: crashes
    MaxFaults     \* bound: errors

ASSUME StoreAssumption ==
    /\ AllocMap \notin Blocks
    /\ FreePaths \subseteq {"shrink", "reclaim"}
    /\ FaultKinds \subseteq {"commit", "checkpoint", "superblock", "fs"}
    /\ {LogCap, LowWater, MaxOps, MaxTid, MaxHandles} \subseteq Nat \ {0}
    /\ MaxCrashes \in Nat /\ MaxFaults \in Nat

VARIABLES
    \* in memory: typed filesystem state and the page cache
    owner,        \* who owns each block
    cur,          \* stamp of each block's newest content
    dirty,        \* data blocks whose page is not yet written back
    ops,          \* operations performed so far
    \* in memory: JournalState
    running, locking, committing, nextTid, committed,
    unckpt,       \* retained images of committed, un-checkpointed captures
    revoked,      \* RevokeTable: block -> newest committed revoking tid
    pinned,       \* pinned_frees: block -> tid of the freeing transaction
    tail,         \* tail_block (dirty or not) and tail_tid
    ck,           \* the checkpoint pass in progress, or None
    aborted,
    \* on the device
    cache,        \* what a device read returns
    may,          \* what the platter may hold: writes since the last barrier
    log,          \* transactions in the log, by tid
    sb, sbMay,    \* the journal superblock: as read, and possibly durable
    \* environment
    replay,       \* None while mounted, else the progress of recovery
    faults, crashes,
    \* history: the views the promise of AtomicStore is stated on
    stable, frozen

memVars  == <<owner, cur, dirty, ops>>
seatVars == <<running, locking, committing, nextTid, committed>>
jnlVars  == <<unckpt, revoked, pinned, tail>>
diskVars == <<cache, may, log, sb, sbMay>>
envVars  == <<replay, faults, crashes>>
histVars == <<stable, frozen>>
vars == <<memVars, seatVars, jnlVars, ck, aborted, diskVars, envVars, histVars>>

Owners == {"free", "meta", "data"}
Meta   == Blocks \cup {AllocMap}
Tids   == 1 .. MaxTid
Torn   == -1      \* content no operation wrote: a lost update or a torn log block

Overlay(f, g) ==
    [x \in DOMAIN f |-> IF g[x] # None THEN g[x] ELSE f[x]]

NoImages == [b \in Meta |-> None]

-----------------------------------------------------------------------------
(* The device: a write lands in the cache and may or may not be on the     *)
(* platter until the next barrier.                                         *)

Writes(images) ==
    /\ cache' = Overlay(cache, images)
    /\ may' = [b \in Meta |-> IF images[b] # None THEN may[b] \cup {images[b]}
                                                  ELSE may[b]]

\* A barrier, then the writes `images'
BarrierThenWrites(images) ==
    /\ cache' = Overlay(cache, images)
    /\ may' = [b \in Meta |-> IF images[b] # None THEN {cache[b], images[b]}
                                                  ELSE {cache[b]}]

Barrier == BarrierThenWrites(NoImages)

\* The log after a barrier: what was written is durable
Durable(entry) ==
    IF entry = None THEN None
    ELSE [entry EXCEPT !.chain  = "durable",
                       !.commit = IF @ = "pending" THEN "durable" ELSE @]

SyncedLog == [t \in Tids |-> Durable(log[t])]

-----------------------------------------------------------------------------
Transaction(tid) ==
    [tid |-> tid, updates |-> 0, caps |-> NoImages,
     revokes |-> {}, ordered |-> {}]

\* read_metadata_block: running, then locking, then retained, then device
ReadMeta(b) ==
    IF running # None /\ running.caps[b] # None THEN running.caps[b]
    ELSE IF locking # None /\ locking.caps[b] # None THEN locking.caps[b]
    ELSE IF unckpt[b] # None THEN unckpt[b].image
    ELSE cache[b]

\* What a reader of the mounted filesystem sees
MountedView ==
    [owner   |-> owner,
     content |-> [b \in Blocks |->
                    CASE owner[b] = "free" -> 0
                      [] owner[b] = "meta" -> ReadMeta(b)
                      [] owner[b] = "data" -> IF b \in dirty THEN cur[b]
                                                             ELSE cache[b]]]

Init ==
    /\ owner \in [Blocks -> Owners]
    /\ cur = [b \in Blocks |-> 0]
    /\ dirty = {}
    /\ ops = 0
    /\ running = None /\ locking = None /\ committing = None
    /\ nextTid = 1
    /\ committed = 0
    /\ unckpt = NoImages
    /\ revoked = [b \in Meta |-> 0]
    /\ pinned = [b \in Blocks |-> 0]
    /\ tail = [dirty |-> FALSE, tid |-> 1]
    /\ ck = None
    /\ aborted = FALSE
    /\ cache = [b \in Meta |-> IF b = AllocMap THEN owner ELSE 0]
    /\ may = [b \in Meta |-> {cache[b]}]
    /\ log = [t \in Tids |-> None]
    /\ sb = [dirty |-> FALSE, seq |-> 1]
    /\ sbMay = {sb}
    /\ replay = None
    /\ faults = 0 /\ crashes = 0
    /\ stable = MountedView
    /\ frozen = None

-----------------------------------------------------------------------------
(* Operations.  A handle keeps its transaction open; every capture made    *)
(* through it lands in that transaction, in the running or the locking     *)
(* seat.                                                                   *)

Mounted == replay = None

Used == IF tail.dirty THEN committed - tail.tid + 1 ELSE 0

\* admit: the locked barrier, then log-space backpressure
StartHandle ==
    /\ Mounted /\ ~aborted
    /\ locking = None
    /\ Used < LogCap
    /\ IF running = None
         THEN /\ nextTid <= MaxTid
              /\ nextTid' = nextTid + 1
              /\ running' = [Transaction(nextTid) EXCEPT !.updates = 1]
         ELSE /\ running.updates < MaxHandles
              /\ running' = [running EXCEPT !.updates = @ + 1]
              /\ UNCHANGED nextTid
    /\ UNCHANGED <<memVars, locking, committing, committed, jnlVars, ck, aborted,
                   diskVars, envVars, histVars>>

\* active_txn_mut: the transaction an open handle captures into
Active == IF running # None THEN running ELSE locking

SetActive(txn) ==
    IF running # None THEN running' = txn /\ UNCHANGED locking
                      ELSE locking' = txn /\ UNCHANGED running

HasHandle == Mounted /\ Active # None /\ Active.updates > 0

\* Mutant: a handle closed twice, by a failed journal_restart and by its drop
StopHandleTwice ==
    /\ HasHandle
    /\ SetActive([Active EXCEPT !.updates = @ - 2])
    /\ UNCHANGED <<memVars, committing, nextTid, committed, jnlVars, ck, aborted,
                   diskVars, envVars, histVars>>

\* journal_stop
StopHandle ==
    /\ HasHandle
    /\ SetActive([Active EXCEPT !.updates = @ - 1])
    /\ UNCHANGED <<memVars, committing, nextTid, committed, jnlVars, ck, aborted,
                   diskVars, envVars, histVars>>

\* An operation gives block b the owner o and stamps what it writes there
Operate(b, o) ==
    /\ HasHandle
    /\ ops < MaxOps
    /\ ops' = ops + 1
    /\ owner' = [owner EXCEPT ![b] = o]
    /\ cur' = [cur EXCEPT ![b] = IF o = "free" THEN 0 ELSE ops + 1]

\* Ext4::alloc_blocks hands out free blocks that are not pinned
Allocatable(b) == owner[b] = "free" /\ pinned[b] = 0

\* capture_create: a fresh image; re-capturing cancels the block's own revoke.
\* Allocation metadata is captured from the in-memory state in the same handle.
Create(txn, b) ==
    [txn EXCEPT !.caps[b] = ops + 1, !.caps[AllocMap] = owner',
                !.revokes = @ \ {b}]

AllocMeta(b) ==
    /\ Allocatable(b)
    /\ Operate(b, "meta")
    /\ SetActive(Create(Active, b))
    /\ UNCHANGED <<dirty, committing, nextTid, committed, jnlVars, ck, aborted,
                   diskVars, envVars, histVars>>

\* get_write_access: where a first capture takes the block's bytes from
Seed(b) ==
    IF running # None /\ locking # None /\ locking.caps[b] # None
      THEN locking.caps[b]
    ELSE IF unckpt[b] # None THEN unckpt[b].image ELSE cache[b]

\* capture_write and patch: the operation rewrites part of the block, so the
\* result is whole only if the bytes under the patch were the newest ones
Patched(txn, b) ==
    LET base == IF txn.caps[b] # None THEN txn.caps[b] ELSE Seed(b)
    IN  [txn EXCEPT !.caps[b] = IF base = cur[b] THEN ops + 1 ELSE Torn,
                    !.revokes = @ \ {b}]

UpdateMeta(b) ==
    /\ owner[b] = "meta"
    /\ Operate(b, "meta")
    /\ SetActive(Patched(Active, b))
    /\ UNCHANGED <<dirty, committing, nextTid, committed, jnlVars, ck, aborted,
                   diskVars, envVars, histVars>>

\* RevokeDuty::discharge (forget_block), then the bitmap clear
Forgotten(txn, b) ==
    [txn EXCEPT !.caps[b] = None, !.caps[AllocMap] = owner',
                !.revokes = @ \cup {b}]

\* Ext4::free_blocks with a revoke duty; pin_freed_run closes it
FreeMeta(b) ==
    /\ owner[b] = "meta"
    /\ Operate(b, "free")
    /\ SetActive(Forgotten(Active, b))
    /\ unckpt' = [unckpt EXCEPT ![b] = None]
    /\ pinned' = [pinned EXCEPT ![b] = Active.tid]
    /\ UNCHANGED <<dirty, committing, nextTid, committed, revoked, tail, ck,
                   aborted, diskVars, envVars, histVars>>

\* An allocating write: the data goes to the page cache, the mapping to the
\* transaction, which registers the pages as its ordered data
WriteData(b) ==
    /\ Allocatable(b)
    /\ Operate(b, "data")
    /\ SetActive([Active EXCEPT !.caps[AllocMap] = owner',
                                !.ordered = @ \cup {b}])
    /\ dirty' = dirty \cup {b}
    /\ UNCHANGED <<committing, nextTid, committed, jnlVars, ck, aborted,
                   diskVars, envVars, histVars>>

Page(b) == [NoImages EXCEPT ![b] = cur[b]]

\* ordered_data skips an inode that no longer exists
Unregistered(txn, b) == [txn EXCEPT !.ordered = @ \ {b}]

\* Freeing file data: no revoke duty, but the run is pinned.  A truncate
\* (prepare_shrink) writes the doomed pages back first; the reclaim of an
\* unlinked inode (try_reclaim_deleted_inode) just drops them.
FreeData(b, path) ==
    /\ owner[b] = "data"
    /\ Operate(b, "free")
    /\ IF path = "shrink" /\ b \in dirty THEN Writes(Page(b))
                                         ELSE UNCHANGED <<cache, may>>
    /\ IF path = "reclaim"
         THEN /\ SetActive([Unregistered(Active, b) EXCEPT !.caps[AllocMap] = owner'])
              /\ committing' = IF committing = None THEN None ELSE
                                 [committing EXCEPT !.txn = Unregistered(@, b)]
         ELSE /\ SetActive([Active EXCEPT !.caps[AllocMap] = owner'])
              /\ UNCHANGED committing
    /\ dirty' = dirty \ {b}
    /\ pinned' = [pinned EXCEPT ![b] = Active.tid]
    /\ UNCHANGED <<nextTid, committed, unckpt, revoked, tail, ck, aborted, log,
                   sb, sbMay, envVars, histVars>>

\* A data page written back outside a commit (fsync, sync, memory pressure)
WriteBack(b) ==
    /\ Mounted
    /\ b \in dirty
    /\ Writes(Page(b))
    /\ dirty' = dirty \ {b}
    /\ UNCHANGED <<owner, cur, ops, seatVars, jnlVars, ck, aborted, log, sb,
                   sbMay, envVars, histVars>>

-----------------------------------------------------------------------------
(* The pipeline (advance_pipeline) and the commit (try_commit_transaction). *)
(* One committer thread runs them and every checkpoint pass, so none of     *)
(* these overlaps a pass `ck' that is not its own inline drain.             *)

\* has_durable_obligation
Committable(txn) ==
    \/ \E b \in Meta : txn.caps[b] # None
    \/ txn.revokes # {}
    \/ \E b \in Blocks : pinned[b] = txn.tid

CommitterFree == Mounted /\ ~aborted /\ committing = None /\ ck = None

\* A due running transaction with open handles parks in the locking seat
Park ==
    /\ CommitterFree
    /\ locking = None
    /\ running # None /\ Committable(running) /\ running.updates > 0
    /\ locking' = running
    /\ running' = None
    /\ UNCHANGED <<memVars, committing, nextTid, committed, jnlVars, ck, aborted,
                   diskVars, envVars, histVars>>

\* Mutant: staging drops the images with the seat
StashedNothing(txn) == unckpt

\* stash_uncheckpointed: the images outlive the seat
Stashed(txn) ==
    [b \in Meta |-> IF txn.caps[b] # None
                      THEN [tid |-> txn.tid, image |-> txn.caps[b]]
                      ELSE unckpt[b]]

\* stage_committing
StageCommitting(txn) ==
    /\ txn # None /\ txn.updates = 0
    /\ committing' = [txn |-> txn, phase |-> "Locked", drained |-> FALSE]
    /\ unckpt' = Stashed(txn)
    /\ frozen' = MountedView
    /\ UNCHANGED <<memVars, nextTid, committed, revoked, pinned, tail, ck,
                   aborted, diskVars, envVars, stable>>

\* A drained locking seat goes first; else a due, idle running transaction
Stage ==
    /\ CommitterFree
    /\ \/ /\ StageCommitting(locking)
          /\ locking' = None
          /\ UNCHANGED running
       \/ /\ locking = None
          /\ running # None /\ Committable(running)
          /\ StageCommitting(running)
          /\ running' = None
          /\ UNCHANGED locking

InPhase(phase) ==
    Mounted /\ ck = None /\ committing # None /\ committing.phase = phase

Advance(phase) == committing' = [committing EXCEPT !.phase = phase]

\* The fit guard passed: nothing is written before it
Fits == Used < LogCap

BeginFlush ==
    /\ InPhase("Locked") /\ Fits
    /\ Advance("Flush")
    /\ UNCHANGED <<memVars, running, locking, nextTid, committed, jnlVars, ck,
                   aborted, diskVars, envVars, histVars>>

\* Step 0, one page of the transaction's ordered data
FlushOrdered(b) ==
    /\ InPhase("Flush")
    /\ b \in committing.txn.ordered \cap dirty
    /\ Writes(Page(b))
    /\ dirty' = dirty \ {b}
    /\ UNCHANGED <<owner, cur, ops, seatVars, jnlVars, ck, aborted, log, sb,
                   sbMay, envVars, histVars>>

\* The log ring with txn's revoke blocks, descriptors and images written over
\* its oldest slot; nothing seals them yet
Logged(txn) ==
    [t \in Tids |->
       CASE t = txn.tid -> [caps |-> txn.caps, revokes |-> txn.revokes,
                            chain |-> "pending", commit |-> "none"]
         [] t <= txn.tid - LogCap -> None
         [] OTHER -> log[t]]

\* Step 0's barrier, issued when some inode was flushed, then step 1
WriteLog ==
    /\ InPhase("Flush")
    /\ committing.txn.ordered \cap dirty = {}
    /\ IF committing.txn.ordered # {} THEN Barrier /\ sbMay' = {sb}
                                      ELSE UNCHANGED <<cache, may, sbMay>>
    /\ log' = Logged(committing.txn)
    /\ Advance("Commit")
    /\ UNCHANGED <<memVars, running, locking, nextTid, committed, jnlVars, ck,
                   aborted, sb, envVars, histVars>>

\* Step 2's barrier, then step 3: the commit block
WriteCommit ==
    /\ InPhase("Commit")
    /\ Barrier
    /\ log' = [SyncedLog EXCEPT ![committing.txn.tid].commit = "pending"]
    /\ Advance("CommitRecord")
    /\ sbMay' = {sb}
    /\ UNCHANGED <<memVars, running, locking, nextTid, committed, jnlVars, ck,
                   aborted, sb, envVars, histVars>>

\* Mutant: a commit onto a clean log does not record s_start
SealedSuperStale == sb

\* update_superblock_tail, needed only on a clean log
SealedSuper ==
    IF tail.dirty THEN sb ELSE [dirty |-> TRUE, seq |-> committing.txn.tid]

\* Step 4's barrier, then step 5's superblock write
Seal ==
    /\ InPhase("CommitRecord")
    /\ Barrier
    /\ log' = SyncedLog
    /\ sb' = SealedSuper
    /\ sbMay' = {sb, sb'}
    /\ Advance("Sealed")
    /\ UNCHANGED <<memVars, running, locking, nextTid, committed, jnlVars, ck,
                   aborted, envVars, histVars>>

\* stash_revokes: the newest revoking transaction wins
PublishedRevokes(txn) ==
    [b \in Meta |-> IF b \in txn.revokes THEN txn.tid ELSE revoked[b]]

\* Mutant: every pin is released, those of the running transaction too
ReleasedAllPins(tid) == [b \in Blocks |-> 0]

\* release_pinned_frees
ReleasedPins(tid) == [b \in Blocks |-> IF pinned[b] <= tid THEN 0 ELSE pinned[b]]

\* Step 5's barrier, then step 6; the slot is cleared
Publish ==
    /\ InPhase("Sealed")
    /\ IF tail.dirty THEN UNCHANGED <<cache, may, sbMay>>
                     ELSE Barrier /\ sbMay' = {sb}
    /\ tail' = IF tail.dirty THEN tail ELSE [dirty |-> TRUE, tid |-> committing.txn.tid]
    /\ revoked' = PublishedRevokes(committing.txn)
    /\ pinned' = ReleasedPins(committing.txn.tid)
    /\ committed' = committing.txn.tid
    /\ committing' = None
    /\ stable' = frozen
    /\ frozen' = None
    /\ UNCHANGED <<memVars, running, locking, nextTid, unckpt, ck, aborted, log,
                   sb, envVars>>

Abort == aborted' = TRUE /\ committing' = None

\* A device error anywhere in the commit loses the transaction: commit_staged
CommitFail ==
    /\ "commit" \in FaultKinds /\ faults < MaxFaults
    /\ Mounted /\ ck = None /\ committing # None
    /\ Abort
    /\ faults' = faults + 1
    /\ UNCHANGED <<memVars, running, locking, nextTid, committed, jnlVars, ck,
                   diskVars, replay, crashes, histVars>>

\* The inline drain did not make room: ENOSPC, the second NeedsLogSpace
CommitNoSpace ==
    /\ InPhase("Locked") /\ ~Fits /\ committing.drained
    /\ Abort
    /\ UNCHANGED <<memVars, running, locking, nextTid, committed, jnlVars, ck,
                   diskVars, envVars, histVars>>

-----------------------------------------------------------------------------
(* Checkpoint: checkpoint_advance, one log transaction at a time.           *)

UnpublishedRevokes ==
    UNION {txn.revokes : txn \in {running, locking} \ {None}}
      \cup (IF committing = None THEN {} ELSE committing.txn.revokes)

Free == LogCap - Used

\* A demanded pass (a reservation of any size may ask for the whole tail), a
\* low-water pass, or the inline drain of a commit that does not fit
CkStart(full) ==
    /\ Mounted /\ ck = None /\ tail.dirty
    /\ \/ /\ committing = None /\ ~aborted
          /\ full \/ Free < LowWater
          /\ UNCHANGED committing
       \/ /\ InPhase("Locked") /\ ~Fits /\ ~committing.drained
          /\ full
          /\ committing' = [committing EXCEPT !.drained = TRUE]
    /\ ck' = [full |-> full, revs |-> revoked, unpub |-> UnpublishedRevokes,
              tid |-> tail.tid, through |-> committed, stopped |-> FALSE,
              phase |-> "apply"]
    /\ UNCHANGED <<memVars, running, locking, nextTid, committed, jnlVars,
                   aborted, diskVars, envVars, histVars>>

Covers(entry, blocks) == \E b \in blocks : entry.caps[b] # None

\* Mutant: the revoke table is not consulted
SuppressesNone(revs, b, tid) == FALSE

\* RevokeTable::suppresses, and the images apply_log_transaction writes
Suppresses(revs, b, tid) == revs[b] >= tid

Unsuppressed(tid, revs) ==
    [b \in Meta |-> IF Suppresses(revs, b, tid) THEN None ELSE log[tid].caps[b]]

CkLoop == Mounted /\ ck # None /\ ck.phase = "apply" /\ ~ck.stopped /\ ck.tid <= ck.through

\* The defer-prefix rule: stop in front of a transaction that touches a block
\* with an unpublished revoke
CkDefer ==
    /\ CkLoop
    /\ Covers(log[ck.tid], ck.unpub)
    /\ ck' = [ck EXCEPT !.stopped = TRUE]
    /\ UNCHANGED <<memVars, seatVars, jnlVars, aborted, diskVars, envVars, histVars>>

\* Enough log is free and more transactions remain
TargetMet(tid) == tid <= ck.through /\ LogCap - (ck.through - tid + 1) >= LowWater

CkApply ==
    /\ CkLoop
    /\ ~Covers(log[ck.tid], ck.unpub)
    /\ Writes(Unsuppressed(ck.tid, ck.revs))
    /\ ck' = [ck EXCEPT !.tid = @ + 1,
                        !.stopped = ~ck.full /\ TargetMet(ck.tid + 1)]
    /\ UNCHANGED <<memVars, seatVars, jnlVars, aborted, log, sb, sbMay, envVars,
                   histVars>>

CkLoopDone == Mounted /\ ck # None /\ ck.phase = "apply"
                /\ (ck.stopped \/ ck.tid > ck.through)

\* Deferred at the very tail: nothing applied, nothing retired
CkIdle ==
    /\ CkLoopDone /\ ck.tid = tail.tid
    /\ ck' = None
    /\ UNCHANGED <<memVars, seatVars, jnlVars, aborted, diskVars, envVars, histVars>>

\* The barrier, then the superblock write
CkRetire ==
    /\ CkLoopDone /\ ck.tid > tail.tid
    /\ Barrier
    /\ log' = SyncedLog
    /\ sb' = [dirty |-> ck.stopped, seq |-> ck.tid]
    /\ sbMay' = {sb, sb'}
    /\ ck' = [ck EXCEPT !.phase = "super"]
    /\ UNCHANGED <<memVars, seatVars, jnlVars, aborted, envVars, histVars>>

\* The superblock's barrier, then the in-memory retirement; the ring may from
\* now on overwrite the retired transactions
CkPublish ==
    /\ Mounted /\ ck # None /\ ck.phase = "super"
    /\ Barrier
    /\ sbMay' = {sb}
    /\ tail' = [dirty |-> ck.stopped, tid |-> ck.tid]
    /\ unckpt' = [b \in Meta |->
                    IF unckpt[b] # None /\ unckpt[b].tid < ck.tid THEN None ELSE unckpt[b]]
    /\ revoked' = [b \in Meta |-> IF revoked[b] < ck.tid THEN 0 ELSE revoked[b]]
    /\ log' = [t \in Tids |-> IF t < ck.tid THEN None ELSE log[t]]
    /\ ck' = None
    /\ UNCHANGED <<memVars, seatVars, pinned, aborted, sb, envVars, histVars>>

\* A device error ends the pass.  On the lazy path that is not fatal; in the
\* inline drain it aborts the journal.
CkFail ==
    /\ Mounted /\ ck # None
    /\ (IF ck.phase = "super" THEN "superblock" ELSE "checkpoint") \in FaultKinds
    /\ faults < MaxFaults
    /\ faults' = faults + 1
    /\ ck' = None
    /\ IF committing # None THEN Abort ELSE UNCHANGED <<committing, aborted>>
    /\ UNCHANGED <<memVars, running, locking, nextTid, committed, jnlVars,
                   diskVars, replay, crashes, histVars>>

\* abort_for_fs_error, abort_for_shutdown: a commit in flight still finishes
AbortForFsError ==
    /\ "fs" \in FaultKinds /\ faults < MaxFaults
    /\ Mounted /\ ~aborted
    /\ aborted' = TRUE
    /\ faults' = faults + 1
    /\ UNCHANGED <<memVars, seatVars, jnlVars, ck, diskVars, replay, crashes,
                   histVars>>

-----------------------------------------------------------------------------
(* Crash and recovery (recover).                                            *)

\* PASS_SCAN: the first tid from s_sequence on without a sealed transaction
Sealed(lg, t) == t \in Tids /\ lg[t] # None

EndTid(lg, s) ==
    IF ~s.dirty THEN s.seq
    ELSE CHOOSE t \in s.seq .. MaxTid + 1 :
           /\ ~Sealed(lg, t)
           /\ \A u \in s.seq .. t - 1 : Sealed(lg, u)

\* PASS_REVOKE: the newest revoking transaction of each block in the region
RevokeTable(lg, from, to) ==
    [b \in Meta |->
       LET by == {t \in from .. to - 1 : b \in lg[t].revokes}
       IN  IF by = {} THEN 0 ELSE CHOOSE t \in by : \A u \in by : u <= t]

\* What the log says survives a crash: sealed transactions, whose chain is torn
\* if no barrier preceded the commit block; `landed' decides a commit block that
\* was still in flight
TornEntry(entry) ==
    [entry EXCEPT !.caps = [b \in Meta |->
                              IF @[b] = None \/ b = AllocMap THEN @[b] ELSE Torn],
                  !.revokes = {}]

Survivor(entry, landed) ==
    IF entry = None THEN None
    ELSE IF ~(entry.commit = "durable" \/ (entry.commit = "pending" /\ landed)) THEN None
    ELSE [(IF entry.chain = "durable" THEN entry ELSE TornEntry(entry))
            EXCEPT !.chain = "durable", !.commit = "durable"]

\* What a mount of this device ends up with, computed without replaying: each
\* block's newest image that no later transaction of the region revokes
RecoveredView ==
    LET from == sb.seq
        to   == EndTid(log, sb)
        revs == RevokeTable(log, from, to)
        Disk(b) == LET imgs == {t \in from .. to - 1 : log[t].caps[b] # None /\ revs[b] < t}
                   IN  IF imgs = {} THEN cache[b]
                       ELSE log[CHOOSE t \in imgs : \A u \in imgs : u <= t].caps[b]
        own  == Disk(AllocMap)
    IN  [owner   |-> own,
         content |-> [b \in Blocks |-> IF own[b] = "free" THEN 0 ELSE Disk(b)]]

\* Power is lost: everything in memory is gone, unbarriered writes may be too
Crash ==
    /\ crashes < MaxCrashes
    /\ crashes' = crashes + 1
    /\ \E alloc \in may[AllocMap], land \in BOOLEAN,
          disk \in [Blocks -> UNION {may[b] : b \in Blocks}] :
         /\ \A b \in Blocks : disk[b] \in may[b]
         /\ cache' = [b \in Meta |-> IF b = AllocMap THEN alloc ELSE disk[b]]
         /\ log' = [t \in Tids |-> Survivor(log[t], land)]
    /\ may' = [b \in Meta |-> {cache'[b]}]
    /\ sb' \in sbMay
    /\ sbMay' = {sb'}
    /\ owner' = [b \in Blocks |-> "free"] /\ cur' = [b \in Blocks |-> 0] /\ dirty' = {}
    /\ running' = None /\ locking' = None /\ committing' = None
    /\ nextTid' = sb'.seq /\ committed' = sb'.seq - 1
    /\ unckpt' = NoImages
    /\ revoked' = [b \in Meta |-> 0] /\ pinned' = [b \in Blocks |-> 0]
    /\ tail' = [dirty |-> sb'.dirty, tid |-> sb'.seq]
    /\ ck' = None /\ aborted' = FALSE
    /\ replay' = [phase |-> "scan", revs |-> revoked', tid |-> sb'.seq, end |-> sb'.seq]
    /\ stable' = IF frozen # None /\ EndTid(log', sb') > committed + 1 THEN frozen
                                                                         ELSE stable
    /\ frozen' = None
    /\ UNCHANGED <<ops, faults>>

\* SCAN and REVOKE read the log and write nothing
RecoverScan ==
    /\ replay # None /\ replay.phase = "scan"
    /\ replay' = LET end == EndTid(log, sb)
                 IN  [phase |-> IF sb.dirty THEN "apply" ELSE "reload",
                      revs |-> RevokeTable(log, sb.seq, end), tid |-> sb.seq, end |-> end]
    /\ UNCHANGED <<memVars, seatVars, jnlVars, ck, aborted, diskVars, faults,
                   crashes, histVars>>

\* PASS_REPLAY, one transaction
RecoverApply ==
    /\ replay # None /\ replay.phase = "apply" /\ replay.tid < replay.end
    /\ Writes(Unsuppressed(replay.tid, replay.revs))
    /\ replay' = [replay EXCEPT !.tid = @ + 1]
    /\ UNCHANGED <<memVars, seatVars, jnlVars, ck, aborted, log, sb, sbMay,
                   faults, crashes, histVars>>

\* The barrier, then the clean superblock
RecoverClean ==
    /\ replay # None /\ replay.phase = "apply" /\ replay.tid = replay.end
    /\ Barrier
    /\ sb' = [dirty |-> FALSE, seq |-> replay.end]
    /\ sbMay' = {sb, sb'}
    /\ replay' = [replay EXCEPT !.phase = "reload"]
    /\ UNCHANGED <<memVars, seatVars, jnlVars, ck, aborted, log, faults, crashes,
                   histVars>>

\* The superblock's barrier; the journal restarts empty at end_tid and the
\* filesystem re-reads its metadata (reload_metadata_after_replay)
RecoverDone ==
    /\ replay # None /\ replay.phase = "reload"
    /\ Barrier
    /\ sbMay' = {sb}
    /\ log' = [t \in Tids |-> None]
    /\ owner' = cache[AllocMap]
    /\ cur' = [b \in Blocks |-> IF owner'[b] = "free" THEN 0 ELSE cache[b]]
    /\ nextTid' = replay.end /\ committed' = replay.end - 1
    /\ tail' = [dirty |-> FALSE, tid |-> replay.end]
    /\ replay' = None
    /\ UNCHANGED <<dirty, ops, running, locking, committing, unckpt, revoked,
                   pinned, ck, aborted, sb, faults, crashes, histVars>>

-----------------------------------------------------------------------------
Next ==
    \/ StartHandle \/ StopHandle
    \/ \E b \in Blocks : \/ AllocMeta(b) \/ UpdateMeta(b) \/ FreeMeta(b)
                         \/ WriteData(b) \/ WriteBack(b) \/ FlushOrdered(b)
                         \/ \E path \in FreePaths : FreeData(b, path)
    \/ Park \/ Stage
    \/ BeginFlush \/ WriteLog \/ WriteCommit \/ Seal \/ Publish
    \/ CommitFail \/ CommitNoSpace \/ AbortForFsError
    \/ \E full \in BOOLEAN : CkStart(full)
    \/ CkDefer \/ CkApply \/ CkIdle \/ CkRetire \/ CkPublish \/ CkFail
    \/ Crash
    \/ RecoverScan \/ RecoverApply \/ RecoverClean \/ RecoverDone

Spec == Init /\ [][Next]_vars

-----------------------------------------------------------------------------
(* Properties                                                               *)

Stamps == Torn .. MaxOps
Maps   == [Blocks -> Owners]

IsImages(f) ==
    /\ \A b \in Blocks : f[b] = None \/ f[b] \in Stamps
    /\ f[AllocMap] = None \/ f[AllocMap] \in Maps

IsTransaction(txn) ==
    /\ txn.tid \in Tids
    /\ txn.updates \in 0 .. MaxHandles
    /\ IsImages(txn.caps)
    /\ txn.revokes \subseteq Blocks
    /\ txn.ordered \subseteq Blocks

IsView(view) == view.owner \in Maps /\ view.content \in [Blocks -> Stamps]

\* The variables keep the shape of Journal, JournalState and the device.
TypeOK ==
    /\ owner \in Maps
    /\ cur \in [Blocks -> Stamps]
    /\ dirty \subseteq Blocks
    /\ ops \in 0 .. MaxOps
    /\ \A txn \in {running, locking} : txn = None \/ IsTransaction(txn)
    /\ committing = None \/
         /\ IsTransaction(committing.txn)
         /\ committing.phase \in {"Locked", "Flush", "Commit", "CommitRecord", "Sealed"}
         /\ committing.drained \in BOOLEAN
    /\ nextTid \in 1 .. MaxTid + 1
    /\ committed \in 0 .. MaxTid
    /\ \A b \in Meta : unckpt[b] = None \/ unckpt[b].tid \in Tids
    /\ IsImages([b \in Meta |-> IF unckpt[b] = None THEN None ELSE unckpt[b].image])
    /\ revoked \in [Meta -> 0 .. MaxTid]
    /\ pinned \in [Blocks -> 0 .. MaxTid]
    /\ tail \in [dirty : BOOLEAN, tid : 1 .. MaxTid + 1]
    /\ aborted \in BOOLEAN
    /\ IsImages(cache)
    /\ \A b \in Blocks : may[b] \subseteq Stamps
    /\ may[AllocMap] \subseteq Maps
    /\ \A b \in Meta : cache[b] \in may[b]
    /\ \A t \in Tids : log[t] = None \/ IsImages(log[t].caps)
    /\ sb \in sbMay
    /\ sbMay \subseteq [dirty : BOOLEAN, seq : 1 .. MaxTid + 1]
    /\ faults \in 0 .. MaxFaults
    /\ crashes \in 0 .. MaxCrashes
    /\ IsView(stable)
    /\ frozen = None \/ IsView(frozen)

\* The view that must behave like AtomicStore: the mounted one, or while
\* recovery runs the one it will end with
LiveView == IF Mounted THEN MountedView ELSE RecoveredView

Store == INSTANCE AtomicStore WITH live <- LiveView

\* The journal implements the atomic store: operations are the only visible
\* changes, commits move whole transactions, a crash falls back to the last
\* commit (or to the one whose record just landed), and log writes, checkpoint
\* passes, evictions and replay (also one cut short by another crash) are
\* invisible.
ImplementsAtomicStore == Store!Spec

\* read_metadata_block returns the newest version of every metadata block,
\* wherever it is: a seat's capture, the retained-image map or the device.
ReadsNewest ==
    Mounted => /\ \A b \in Blocks : owner[b] = "meta" => ReadMeta(b) = cur[b]
               /\ ReadMeta(AllocMap) = owner

\* A block that a crash could still give back to its old owner is not handed
\* to a new one: alloc_blocks skips pinned runs until the free is committed.
NoReuseBeforeDurableFree ==
    Mounted => \A b \in Blocks :
                 stable.owner[b] # "free" => owner[b] \in {"free", stable.owner[b]}

\* "the transaction is committed and recovery will replay it": after a crash
\* the ownership and every metadata block are those of the last commit.
RecoveredMetadataIntact ==
    ~Mounted => /\ RecoveredView.owner = stable.owner
                /\ \A b \in Blocks : stable.owner[b] = "meta" =>
                                       RecoveredView.content[b] = stable.content[b]

\* data=ordered: "recovery never replays metadata that points at blocks whose
\* data missed the platter".
RecoveredDataIntact ==
    ~Mounted => \A b \in Blocks : RecoveredView.owner[b] = "data" =>
                                    RecoveredView.content[b] = stable.content[b]
=============================================================================
