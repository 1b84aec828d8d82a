------------------------------ MODULE Allocator ------------------------------
(***************************************************************************)
(* Allocation of blocks and inodes: bitmaps and counters of the groups and *)
(* of the superblock, the pins on freed runs, the retry of an operation    *)
(* that found only pinned blocks, the commits that release the pins and    *)
(* make the rest durable, and crashes.                                     *)
(*                                                                         *)
(* Sources: kernel/src/fs/fs_impls/ext4/{fs,block_group,super_block}.rs,   *)
(* journal/mod.rs (pins, sync target) and the retry loop of inode/mod.rs.  *)
(*                                                                         *)
(* The superblock lock is held from the snapshot of the pins to the end of *)
(* a search or of a free; the committer runs in between.  A task stands    *)
(* for the file it writes, and an allocated block is mapped by that file   *)
(* in the same transaction.  Everything an operation changes is captured   *)
(* by its transaction; how a transaction reaches the device whole or not   *)
(* at all is the part of JournalStore and JournalLog.                      *)
(***************************************************************************)
EXTENDS Integers, FiniteSets, FiniteSetsExt

CONSTANTS
    Tasks,
    None,           \* the absent value
    NrGroups,       \* block groups
    GroupSize,      \* blocks of a group
    GroupInodes,    \* inodes of a group
    Uninit,         \* groups whose block bitmap mkfs left uninitialized
    Taken,          \* blocks some file has from the start
    Counts,         \* lengths of the runs asked for
    Goals,          \* groups where searches start
    Retries,        \* ALLOC_ENOSPC_RETRIES
    MaxOps,         \* bound: operations
    MaxCrashes,     \* bound: crashes
    MaxFaults       \* bound: inodes that cannot be written

Groups == 0 .. NrGroups - 1
Blocks == 0 .. NrGroups * GroupSize - 1
Inodes == 0 .. NrGroups * GroupInodes - 1
Kinds  == {"file", "dir"}

ASSUME AllocatorAssumption ==
    /\ {NrGroups, GroupSize, GroupInodes} \subseteq Nat \ {0}
    /\ Uninit \subseteq Groups /\ Taken \subseteq Blocks /\ Goals \subseteq Groups
    /\ \A b \in Taken : b \div GroupSize \notin Uninit
    /\ Counts \subseteq Nat \ {0}
    /\ {Retries, MaxOps, MaxCrashes, MaxFaults} \subseteq Nat

BlockMap == INSTANCE IdBitmap WITH NrIds <- GroupSize
InodeMap == INSTANCE IdBitmap WITH NrIds <- GroupInodes

VARIABLES
    group,      \* [Groups -> BlockGroupMetadata]
    super,      \* the free counters of the superblock
    owner,      \* which file maps a block
    inode,      \* what kind of inode a number is
    pins,       \* pinned_frees: [Blocks -> None or a PinnedRun], by start
    sbLock,     \* the task that holds the superblock write lock
    op,         \* what each task is doing
    running,    \* the running transaction: tid, handles, whether it captured
                \* something and whether it is locked
    committing, \* the transaction being committed and its after-images
    committed,  \* j_commit_sequence
    durable,    \* what a mount would find
    failed,     \* history: an operation reported corruption
    ops, crashes, faults

metaVars == <<group, super, owner, inode>>
txnVars  == <<running, committing, committed, durable>>
boundVars == <<ops, crashes, faults>>
vars == <<metaVars, pins, sbLock, op, txnVars, failed, boundVars>>

-----------------------------------------------------------------------------
(* Groups                                                                   *)

GroupOf(b) == b \div GroupSize
BitOf(b)   == b % GroupSize
BlocksAt(g, bits) == {g * GroupSize + i : i \in bits}

\* The bits of group g that a pinned run covers
PinnedBits(pinned, g) ==
    {BitOf(b) : b \in {c \in Blocks : GroupOf(c) = g /\
        \E s \in Blocks : pinned[s] # None /\ c \in s .. s + pinned[s].count - 1}}

\* The search of BlockGroup::alloc_blocks: halve the count until a run fits;
\* hold what overlaps a pin, and give it back at the end
RECURSIVE Search(_, _, _, _)
Search(map, count, pinned, held) ==
    IF count = 0 THEN [run |-> {}, map |-> BlockMap!Released(map, held)]
    ELSE IF ~BlockMap!Fits(map, count) THEN Search(map, count \div 2, pinned, held)
    ELSE LET run == BlockMap!Found(map, count)
             on  == BlockMap!Marked(map, run)
         IN  IF run \cap pinned # {} THEN Search(on, count, pinned, held \cup run)
             ELSE [run |-> run, map |-> BlockMap!Released(on, held)]

Idle == [pc |-> "idle"]

-----------------------------------------------------------------------------
(* Handles                                                                  *)

\* begin_op: a running transaction that is not locked, or a new one
Joins ==
    /\ running # None => ~running.locked
    /\ running' = IF running = None
                    THEN [tid |-> committed + (IF committing = None THEN 1 ELSE 2),
                          handles |-> 1, work |-> FALSE, locked |-> FALSE]
                    ELSE [running EXCEPT !.handles = running.handles + 1]

\* An operation with its inputs starts
Call(t, what) ==
    /\ op[t].pc = "idle" /\ ops < MaxOps
    /\ ops' = ops + 1
    /\ Joins
    /\ op' = [op EXCEPT ![t] = what]
    /\ UNCHANGED <<metaVars, pins, sbLock, committing, committed, durable, failed, crashes, faults>>

\* Mutant: the handle is not given back
CloseLeaks(t) ==
    /\ op[t].pc = "done"
    /\ op' = [op EXCEPT ![t] = Idle]
    /\ UNCHANGED <<metaVars, pins, sbLock, txnVars, failed, boundVars>>

\* The handle is dropped; an allocation that found nothing may come back
Close(t) ==
    /\ op[t].pc = "done"
    /\ running' = [running EXCEPT !.handles = running.handles - 1]
    /\ op' = [op EXCEPT ![t] = IF op[t].what = "alloc" /\ op[t].enospc
                                 THEN [op[t] EXCEPT !.pc = "failed"] ELSE Idle]
    /\ UNCHANGED <<metaVars, pins, sbLock, committing, committed, durable, failed, boundVars>>

-----------------------------------------------------------------------------
(* Block allocation                                                         *)

\* count blocks, from group goal on
Alloc(count, goal) ==
    [pc |-> "begun", what |-> "alloc", count |-> count, goal |-> goal, tries |-> 0,
     enospc |-> FALSE, blocked |-> FALSE, at |-> 0, pinned |-> None, target |-> 0]

\* alloc_blocks: the superblock lock and the snapshot of the pins
AllocBlocks(t) ==
    /\ op[t].pc = "begun" /\ op[t].what = "alloc" /\ sbLock = None
    /\ IF super.blocks = 0
         THEN op' = [op EXCEPT ![t].pc = "done", ![t].enospc = TRUE] /\ UNCHANGED sbLock
         ELSE /\ op' = [op EXCEPT ![t].pc = "search", ![t].at = 0, ![t].pinned = pins]
              /\ sbLock' = t
    /\ UNCHANGED <<metaVars, pins, txnVars, failed, boundVars>>

\* BlockGroup::alloc_blocks up to its result
GroupSearch(t, g) ==
    LET limits == {op[t].count, GroupSize, group[g].blocks, super.blocks}
    IN  Search(group[g].map, Min(limits), PinnedBits(op[t].pinned, g), {})

\* Mutant: the group stays uninitialized
AllocatedUninit(g, found) ==
    [group[g] EXCEPT !.map = found.map, !.blocks = @ - Cardinality(found.run)]

\* The group that gave found.run away; from now on its bitmap counts
Allocated(g, found) ==
    [group[g] EXCEPT !.map = found.map, !.blocks = @ - Cardinality(found.run),
                     !.uninit = FALSE]

\* One group of the ring is searched
AllocGroup(t) ==
    LET g      == (op[t].goal + op[t].at) % NrGroups
        found  == GroupSearch(t, g)
        n      == Cardinality(found.run)
        inPins == PinnedBits(op[t].pinned, g) # {}
        alarm  == group[g].blocks > 0 /\ ~inPins
        leave(pc, blocked, enospc) ==
            op' = [op EXCEPT ![t].pc = pc, ![t].blocked = blocked, ![t].enospc = enospc,
                             ![t].at = op[t].at + 1,
                             ![t].pinned = IF pc = "done" THEN None ELSE op[t].pinned]
    IN  /\ op[t].pc = "search"
        /\ running' = [running EXCEPT !.work = TRUE]
        /\ \/ /\ n > 0
              /\ group' = [group EXCEPT ![g] = Allocated(g, found)]
              /\ super' = [super EXCEPT !.blocks = @ - n]
              /\ owner' = [b \in Blocks |-> IF b \in BlocksAt(g, found.run) THEN t ELSE owner[b]]
              /\ sbLock' = None /\ leave("done", FALSE, FALSE)
              /\ UNCHANGED failed
           \/ /\ n = 0
              /\ failed' = (failed \/ alarm)
              /\ IF ~alarm /\ op[t].at < NrGroups - 1
                   THEN leave("search", op[t].blocked \/ inPins, FALSE) /\ UNCHANGED sbLock
                   ELSE leave("done", op[t].blocked \/ inPins, ~alarm) /\ sbLock' = None
              /\ UNCHANGED <<group, super, owner>>
        /\ UNCHANGED <<inode, pins, committing, committed, durable, boundVars>>

\* should_retry_alloc, or ENOSPC
Retry(t) ==
    /\ op[t].pc = "failed"
    /\ op' = [op EXCEPT ![t] = IF op[t].tries < Retries /\ \E b \in Blocks : pins[b] # None
                                 THEN [op[t] EXCEPT !.pc = "sync"] ELSE Idle]
    /\ UNCHANGED <<metaVars, pins, sbLock, txnVars, failed, boundVars>>

\* has_durable_obligation
Obliged(txn) == txn.work \/ \E b \in Blocks : pins[b] # None /\ pins[b].tid = txn.tid

\* sync_durability_target
Sync(t) ==
    /\ op[t].pc = "sync"
    /\ op' = [op EXCEPT ![t].pc = "wait",
                        ![t].target = IF running # None /\ Obliged(running) THEN running.tid
                                      ELSE IF committing # None THEN committing.tid ELSE 0]
    /\ UNCHANGED <<metaVars, pins, sbLock, txnVars, failed, boundVars>>

\* log_wait_commit, and the next attempt
Wait(t) ==
    /\ op[t].pc = "wait" /\ committed >= op[t].target
    /\ Joins
    /\ op' = [op EXCEPT ![t] = [Alloc(op[t].count, op[t].goal) EXCEPT !.tries = op[t].tries + 1]]
    /\ UNCHANGED <<metaVars, pins, sbLock, committing, committed, durable, failed, boundVars>>

-----------------------------------------------------------------------------
(* Freeing blocks                                                           *)

Free(start, count) == [pc |-> "begun", what |-> "free", start |-> start, count |-> count]

\* pin_freed_run
PinFreedRun(start, count) ==
    [pins EXCEPT ![start] = [count |-> IF pins[start] = None THEN count
                                       ELSE Max({pins[start].count, count}),
                             tid |-> running.tid]]

\* BlockGroup::free_blocks: bits that are clear already do not count
FreedBits(g, bits) ==
    [group EXCEPT ![g].map = BlockMap!Released(@, bits),
                  ![g].blocks = @ + Cardinality(bits \cap group[g].map.used)]

\* free_blocks clears, pins and counts the run, one group at a time, and keeps
\* the superblock lock to the end
FreeGroup(t) ==
    LET start == op[t].start
        g     == GroupOf(start)
        n     == Min({op[t].count, GroupSize - BitOf(start)})
        bits  == BlockMap!Run(BitOf(start), n)
        freed == Cardinality(bits \cap group[g].map.used)
    IN  /\ op[t].pc = "clear" \/ (op[t].pc = "begun" /\ op[t].what = "free" /\ sbLock = None)
        /\ group' = FreedBits(g, bits)
        /\ super' = [super EXCEPT !.blocks = @ + freed]
        /\ owner' = [b \in Blocks |-> IF b \in BlocksAt(g, bits) THEN None ELSE owner[b]]
        /\ pins' = PinFreedRun(start, n)
        /\ running' = [running EXCEPT !.work = TRUE]
        /\ IF n = op[t].count
             THEN sbLock' = None /\ op' = [op EXCEPT ![t].pc = "done"]
             ELSE /\ sbLock' = t
                  /\ op' = [op EXCEPT ![t].pc = "clear", ![t].start = start + n, ![t].count = @ - n]
        /\ UNCHANGED <<inode, committing, committed, durable, failed, boundVars>>

-----------------------------------------------------------------------------
(* Inodes                                                                   *)

\* An inode of a kind, from the parent's group on
Create(kind, goal) == [pc |-> "begun", what |-> "create", kind |-> kind, goal |-> goal, ino |-> None]

Delete(ino) == [pc |-> "begun", what |-> "delete", ino |-> ino]

InodeGroup(ino) == ino \div GroupInodes

\* BlockGroup::alloc_ino, of the one inode in run
AllocatedInode(g, run, kind) ==
    [group EXCEPT ![g].imap = InodeMap!Marked(@, run), ![g].inodes = @ - 1,
                  ![g].dirs = IF kind = "dir" THEN @ + 1 ELSE @]

\* alloc_ino: the first group of the ring with a free inode
AllocIno(t) ==
    LET ring == {k \in 0 .. NrGroups - 1 : group[(op[t].goal + k) % NrGroups].inodes > 0}
        g    == (op[t].goal + Min(ring)) % NrGroups
        some == super.inodes > 0 /\ ring # {}
        fits == some /\ InodeMap!Fits(group[g].imap, 1)
        run  == InodeMap!Found(group[g].imap, 1)
    IN  /\ op[t].pc = "begun" /\ op[t].what = "create" /\ sbLock = None
        /\ \/ /\ ~fits
              /\ failed' = (failed \/ some)
              /\ op' = [op EXCEPT ![t].pc = "done"]
              /\ UNCHANGED <<group, super, running>>
           \/ /\ fits
              /\ group' = AllocatedInode(g, run, op[t].kind)
              /\ super' = [super EXCEPT !.inodes = @ - 1]
              /\ running' = [running EXCEPT !.work = TRUE]
              /\ op' = [op EXCEPT ![t].pc = "write", ![t].ino = g * GroupInodes + Min(run)]
              /\ UNCHANGED failed
        /\ UNCHANGED <<owner, inode, pins, sbLock, committing, committed, durable, boundVars>>

\* free_inode of an inode of that kind, whose bit is set
FreedInode(ino, kind) ==
    LET g == InodeGroup(ino) IN
    [group EXCEPT ![g].imap = InodeMap!Released(@, {ino % GroupInodes}), ![g].inodes = @ + 1,
                  ![g].dirs = IF kind = "dir" THEN @ - 1 ELSE @]

\* create_inode writes the new inode ...
WriteInode(t) ==
    /\ op[t].pc = "write"
    /\ inode' = [inode EXCEPT ![op[t].ino] = op[t].kind]
    /\ op' = [op EXCEPT ![t].pc = "done"]
    /\ UNCHANGED <<group, super, owner, pins, sbLock, txnVars, failed, boundVars>>

\* ... or cannot, and gives the number back
RollBack(t) ==
    /\ op[t].pc = "write" /\ sbLock = None /\ faults < MaxFaults
    /\ faults' = faults + 1
    /\ group' = FreedInode(op[t].ino, op[t].kind)
    /\ super' = [super EXCEPT !.inodes = @ + 1]
    /\ op' = [op EXCEPT ![t].pc = "done"]
    /\ UNCHANGED <<owner, inode, pins, sbLock, txnVars, failed, ops, crashes>>

\* free_inode does nothing to an inode that is free already
FreeInode(t) ==
    /\ op[t].pc = "begun" /\ op[t].what = "delete" /\ sbLock = None
    /\ LET ino == op[t].ino IN
       IF ino % GroupInodes \in group[InodeGroup(ino)].imap.used
         THEN /\ group' = FreedInode(ino, inode[ino])
              /\ super' = [super EXCEPT !.inodes = @ + 1]
              /\ inode' = [inode EXCEPT ![ino] = None]
              /\ running' = [running EXCEPT !.work = TRUE]
         ELSE UNCHANGED <<group, super, inode, running>>
    /\ op' = [op EXCEPT ![t].pc = "done"]
    /\ UNCHANGED <<owner, pins, sbLock, committing, committed, durable, failed, boundVars>>

-----------------------------------------------------------------------------
(* The committer and crashes                                                *)

View == [group |-> group, super |-> super, owner |-> owner, inode |-> inode]

\* Some trigger is met: no new handle is let in
Lock ==
    /\ running # None /\ ~running.locked /\ Obliged(running)
    /\ running' = [running EXCEPT !.locked = TRUE]
    /\ UNCHANGED <<metaVars, pins, sbLock, op, committing, committed, durable, failed, boundVars>>

\* With its last handle closed the transaction has all it will have
Stage ==
    /\ running # None /\ running.locked /\ running.handles = 0 /\ committing = None
    /\ committing' = [tid |-> running.tid, view |-> View]
    /\ running' = None
    /\ UNCHANGED <<metaVars, pins, sbLock, op, committed, durable, failed, boundVars>>

\* Mutant: a commit releases the pins of the running transaction as well
ReleasePinnedFreesAll(tid) == [b \in Blocks |-> None]

\* release_pinned_frees
ReleasePinnedFrees(tid) ==
    [b \in Blocks |-> IF pins[b] # None /\ tid >= pins[b].tid THEN None ELSE pins[b]]

\* The commit record is durable, and published
Commit ==
    /\ committing # None
    /\ durable' = committing.view
    /\ committed' = committing.tid
    /\ pins' = ReleasePinnedFrees(committing.tid)
    /\ committing' = None
    /\ UNCHANGED <<metaVars, sbLock, op, running, failed, boundVars>>

\* load_block_bitmap: of a group that is not initialized, as many blocks from
\* its start on as its counter says are not free
Loaded(g) ==
    IF durable.group[g].uninit
      THEN BlockMap!Run(0, GroupSize - durable.group[g].blocks)
      ELSE durable.group[g].map.used

\* A crash, and the mount that follows
Crash ==
    /\ crashes < MaxCrashes
    /\ crashes' = crashes + 1
    /\ group' = [g \in Groups |->
                   [durable.group[g] EXCEPT
                       !.map = BlockMap!FromBuf(Loaded(g)),
                       !.imap = InodeMap!FromBuf(durable.group[g].imap.used)]]
    /\ super' = durable.super /\ owner' = durable.owner /\ inode' = durable.inode
    /\ pins' = [b \in Blocks |-> None]
    /\ sbLock' = None /\ op' = [t \in Tasks |-> Idle]
    /\ running' = None /\ committing' = None
    /\ UNCHANGED <<committed, durable, failed, ops, faults>>

-----------------------------------------------------------------------------

Init ==
    /\ \E t \in Tasks : owner = [b \in Blocks |-> IF b \in Taken THEN t ELSE None]
    /\ group = [g \in Groups |->
                  LET used == {BitOf(b) : b \in {c \in Taken : GroupOf(c) = g}} IN
                  [map |-> BlockMap!FromBuf(used), blocks |-> GroupSize - Cardinality(used),
                   imap |-> InodeMap!FromBuf({}), inodes |-> GroupInodes, dirs |-> 0,
                   uninit |-> g \in Uninit]]
    /\ super = [blocks |-> Cardinality(Blocks \ Taken), inodes |-> Cardinality(Inodes)]
    /\ inode = [i \in Inodes |-> None]
    /\ pins = [b \in Blocks |-> None]
    /\ sbLock = None /\ op = [t \in Tasks |-> Idle]
    /\ running = None /\ committing = None /\ committed = 0
    /\ durable = View
    /\ failed = FALSE
    /\ ops = 0 /\ crashes = 0 /\ faults = 0

\* Runs of a file's blocks
OwnRuns(t) ==
    {r \in Blocks \X (1 .. Max(Counts)) :
        \A b \in r[1] .. r[1] + r[2] - 1 : b \in Blocks /\ owner[b] = t}

Calls(t) ==
    \/ \E count \in Counts, goal \in Goals : Call(t, Alloc(count, goal))
    \/ \E r \in OwnRuns(t) : Call(t, Free(r[1], r[2]))
    \/ \E kind \in Kinds, goal \in Goals : Call(t, Create(kind, goal))
    \/ \E i \in {j \in Inodes : inode[j] # None} :
          /\ \A u \in Tasks : op[u].pc # "idle" /\ op[u].what = "delete" => op[u].ino # i
          /\ Call(t, Delete(i))

Works(t) ==
    \/ Close(t)
    \/ AllocBlocks(t) \/ AllocGroup(t) \/ Retry(t) \/ Sync(t) \/ Wait(t)
    \/ FreeGroup(t)
    \/ AllocIno(t) \/ WriteInode(t) \/ FreeInode(t)

Committer == Lock \/ Stage \/ Commit

Next == (\E t \in Tasks : Calls(t) \/ Works(t) \/ RollBack(t)) \/ Committer \/ Crash

Spec == Init /\ [][Next]_vars

-----------------------------------------------------------------------------
(* Properties                                                               *)

\* Counters stay in their ranges and the lock has one holder, which is in a
\* search or in a free.
TypeOK ==
    /\ super.blocks \in 0 .. Cardinality(Blocks) /\ super.inodes \in 0 .. Cardinality(Inodes)
    /\ \A g \in Groups : /\ group[g].blocks \in 0 .. GroupSize
                         /\ group[g].inodes \in 0 .. GroupInodes
                         /\ group[g].dirs \in 0 .. GroupInodes
    /\ \A t \in Tasks : op[t].pc \in {"search", "clear"} <=> sbLock = t
    /\ running # None => running.handles \in 0 .. Cardinality(Tasks)

\* A view in which the bitmaps, the counters of groups and superblock and the
\* files say the same; an uninitialized group has nothing in use
Consistent(v) ==
    /\ \A g \in Groups :
         /\ BlocksAt(g, v.group[g].map.used) = {b \in Blocks : GroupOf(b) = g /\ v.owner[b] # None}
         /\ v.group[g].blocks = GroupSize - Cardinality(v.group[g].map.used)
         /\ v.group[g].inodes = GroupInodes - Cardinality(v.group[g].imap.used)
         /\ v.group[g].uninit => v.group[g].map.used = {}
         /\ v.group[g].dirs = Cardinality({i \in Inodes : InodeGroup(i) = g /\ v.inode[i] = "dir"})
         /\ {g * GroupInodes + i : i \in v.group[g].imap.used}
              = {i \in Inodes : InodeGroup(i) = g /\ v.inode[i] # None}
    /\ v.super.blocks = Cardinality({b \in Blocks : v.owner[b] = None})
    /\ v.super.inodes = Cardinality({i \in Inodes : v.inode[i] = None})

\* Whatever a crash leaves is consistent: bitmaps, group descriptors and
\* superblock change in one transaction, half-done operations and rolled back
\* inodes included, and memory agrees when no operation is in the middle.
CountsAgree ==
    /\ Consistent(durable)
    /\ (\A t \in Tasks : op[t].pc \notin {"search", "clear", "write"}) => Consistent(View)

\* No operation takes pinned or held blocks, or a bitmap whose search starts
\* too late, for corruption (the EIO arms of alloc_blocks and alloc_ino).
NoFalseAlarm == ~failed

\* A block that one file maps is not mapped by another in what a crash would
\* bring back: freed runs stay pinned until their transaction is durable, also
\* against a snapshot taken before a commit (pin_freed_run,
\* release_pinned_frees).
NoEarlyReuse ==
    \A b \in Blocks : owner[b] # None => durable.owner[b] \in {None, owner[b]}

\* An allocation that only pins kept from succeeding is not reported as ENOSPC
\* before it was retried Retries times (retry_on_pinned_enospc, write_at).
PinnedIsRetried ==
    [][\A t \in Tasks :
          op[t].pc = "failed" /\ op[t].blocked /\ op[t].tries < Retries /\ crashes' = crashes
            => op'[t].pc # "idle"]_vars
=============================================================================
