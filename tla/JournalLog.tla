----------------------------- MODULE JournalLog -----------------------------
(***************************************************************************)
(* The ext4 journal on the device: the ring of log blocks, the journal     *)
(* superblock and the RECOVER flag, as commits, checkpoint passes,         *)
(* recoveries, mounts and unmounts write them and as a crash leaves them.  *)
(*                                                                         *)
(* Sources: kernel/src/fs/fs_impls/ext4/journal/{commit,checkpoint,        *)
(* recovery,format,mod}.rs and the mount and drop of fs.rs.                *)
(*                                                                         *)
(* Data abstraction.  A log block is its header (magic, type, id) and, for *)
(* a descriptor, the escape flag of each tag.  An after-image is a block   *)
(* with a serial number; its first bytes may look like a journal header.   *)
(* What images mean for the filesystem, and which ones revokes suppress,   *)
(* is JournalStore's part; here a revoke block is a link of the chain.     *)
(* The device caches writes: a crash keeps any part of what no flush       *)
(* covered.                                                                *)
(***************************************************************************)
EXTENDS LogRing, Sequences, FiniteSets

CONSTANTS
    None,           \* the absent value
    Tags,           \* tags_per_descriptor
    LowWater,       \* checkpoint_low_water
    FirstTid,       \* s_sequence of the fresh journal
    Csum,           \* the filesystem has metadata_csum, its journal no feature
    Looks,          \* how after-images look: 0 for plain, k for a commit block
                    \* of the k-th transaction after their own
    MaxCaptures,    \* bound: after-images of a transaction
    MaxRevokes,     \* bound: revoke blocks of a transaction
    MaxCommits,     \* bound: transactions
    MaxStops,       \* bound: crashes and unmounts
    MaxFaults       \* bound: aborts

ASSUME LogAssumption ==
    /\ FirstTid \in Tids /\ Csum \in BOOLEAN
    /\ Looks \subseteq Nat /\ MaxCommits < TidSpan \div 2
    /\ {Tags, MaxCaptures} \subseteq Nat \ {0}
    /\ {LowWater, MaxRevokes, MaxCommits, MaxStops, MaxFaults} \subseteq Nat

VARIABLES
    disk,           \* what a read of the device returns
    platter,        \* what is on it for certain
    mem,            \* JournalState: head, tail, tids, the parsed layout
    aborted,
    pc,             \* the thread that mounts, commits, checkpoints, unmounts
    txn,            \* the transaction it commits
    pass,           \* the checkpoint pass it is in
    raw,            \* the superblock it read
    err,            \* the thread that records an error
    errRaw,         \* the superblock it read
    lock,           \* j_checkpoint
    live,           \* history: committed transactions not yet retired
    unsure,         \* history: a transaction whose commit block may be there
    recorded,       \* history: an error is recorded
    commits, stops, faults

logVars == <<txn, pass, raw>>
errVars == <<err, errRaw, recorded>>
boundVars == <<commits, stops, faults>>
vars == <<disk, platter, mem, aborted, pc, logVars, errVars, lock, live, unsure, boundVars>>

-----------------------------------------------------------------------------
(* Blocks and chains                                                        *)

\* RawJournalHeader, with the tags of a descriptor and the layout they have
Block(type, tid, tags, csum) ==
    [magic |-> TRUE, type |-> type, tid |-> tid, tags |-> tags, csum |-> csum, serial |-> 0]

Blank == [Block("none", 0, <<>>, FALSE) EXCEPT !.magic = FALSE]

\* An after-image captured by the s-th transaction, which bears tid
Image(look, tid, s) ==
    IF look = 0
      THEN [Blank EXCEPT !.serial = s]
      ELSE [Block("commit", (tid + look) % TidSpan, <<>>, FALSE) EXCEPT !.serial = s]

\* The head of an image that starts with the magic is zeroed in the log
Logged(image) == [image EXCEPT !.magic = FALSE]

\* Restoring what a tag says was escaped
Unescaped(block, escaped) == IF escaped THEN [block EXCEPT !.magic = TRUE] ELSE block

Ceil(n, d) == (n + d - 1) \div d

\* build_descriptor_chain: a descriptor before each run of Tags images
RECURSIVE Descriptors(_, _, _)
Descriptors(images, tid, csum) ==
    IF images = <<>> THEN <<>>
    ELSE LET n == IF Len(images) < Tags THEN Len(images) ELSE Tags
             tags == [k \in 1 .. n |-> images[k].magic]
         IN  <<Block("descriptor", tid, tags, csum)>>
             \o [k \in 1 .. n |-> Logged(images[k])]
             \o Descriptors(SubSeq(images, n + 1, Len(images)), tid, csum)

\* The log blocks of a transaction before its commit block
ChainBlocks(t) ==
    [k \in 1 .. t.revokes |-> Block("revoke", t.tid, <<>>, mem.csum)]
    \o Descriptors(t.images, t.tid, mem.csum)

CommitBlock(t) == Block("commit", t.tid, <<>>, mem.csum)

Footprint(t) == t.revokes + Len(t.images) + Ceil(Len(t.images), Tags) + 1

\* The log with blocks written from pos on
WriteLog(log, pos, blocks) ==
    [p \in Ring |->
        IF \E k \in DOMAIN blocks : p = AdvanceLog(pos, k - 1)
          THEN blocks[CHOOSE k \in DOMAIN blocks : p = AdvanceLog(pos, k - 1)]
          ELSE log[p]]

\* One transaction's chain from pos on: sealed by a commit block, with the
\* images its descriptors tag; open, where scan_transaction finds the boundary
\* and apply_log_transaction EUCLEAN; or longer than the log
RECURSIVE Chain(_, _, _, _, _, _)
Chain(log, csum, pos, tid, used, images) ==
    LET b    == log[pos]
        n    == Len(b.tags)
        here == [k \in 1 .. n |-> Unescaped(log[AdvanceLog(pos, k)], b.tags[k])]
        end(e) == [end |-> e, images |-> images, next |-> NextLogBlock(pos)]
    IN  IF ~b.magic \/ b.tid # tid THEN end("open")
        ELSE IF b.type = "commit" THEN end("sealed")
        ELSE IF b.type \notin {"descriptor", "revoke"} \/ b.csum # csum THEN end("open")
        ELSE IF used + n + 1 > Maxlen THEN end("endless")
        ELSE Chain(log, csum, AdvanceLog(pos, n + 1), tid, used + n + 1, images \o here)

ChainAt(log, csum, pos, tid) == Chain(log, csum, pos, tid, 0, <<>>)

\* No transaction: EUCLEAN
Garbage == <<>>

Endless(txns) == \E k \in DOMAIN txns : txns[k] = Garbage

\* PASS_SCAN: sealed transactions with consecutive ids, and what ends them
RECURSIVE Scan(_, _, _, _)
Scan(log, csum, pos, tid) ==
    LET c == ChainAt(log, csum, pos, tid) IN
    IF c.end = "sealed"
      THEN <<c.images>> \o Scan(log, csum, c.next, NextTid(tid))
      ELSE IF c.end = "open" THEN <<>> ELSE <<Garbage>>

\* What a mount of the device d replays (needs_recovery, recover)
Replayed(d) ==
    IF d.recover /\ d.sb.start # Clean
      THEN Scan(d.log, d.sb.csum, d.sb.start, d.sb.seq)
      ELSE <<>>

\* The transactions a checkpoint pass walks, from the tail to committed_tid
RECURSIVE Walk(_, _)
Walk(pos, tid) ==
    IF ~TidGeq(mem.committed, tid) THEN <<>>
    ELSE LET c == ChainAt(disk.log, mem.csum, pos, tid) IN
         IF c.end = "sealed"
           THEN <<c.images>> \o Walk(c.next, NextTid(tid))
           ELSE <<Garbage>>

\* Where the k-th transaction after the one at pos starts
RECURSIVE StartOf(_, _, _)
StartOf(k, pos, tid) ==
    IF k = 0 THEN pos
    ELSE StartOf(k - 1, ChainAt(disk.log, mem.csum, pos, tid).next, NextTid(tid))

-----------------------------------------------------------------------------
(* The device                                                               *)

Flush == platter' = disk

\* A flush, and then a write that leaves the device d
FlushThen(d) == platter' = disk /\ disk' = d

\* What a crash may leave
CrashImages ==
    LET dirty == {p \in Ring : disk.log[p] # platter.log[p]} IN
    {[log |-> [p \in Ring |-> IF p \in S THEN disk.log[p] ELSE platter.log[p]],
      sb |-> sb, recover |-> r] :
        S \in SUBSET dirty, sb \in {disk.sb, platter.sb},
        r \in {disk.recover, platter.recover}}

\* Journal::new over a parsed superblock
Fresh(sb) ==
    [head |-> First, tail |-> sb.start, tailTid |-> sb.seq, next |-> sb.seq,
     committed |-> PrevTid(sb.seq), csum |-> sb.csum]

-----------------------------------------------------------------------------
(* Mount                                                                    *)

Goto(label) == pc' = label

Open ==
    /\ pc = "off"
    /\ mem' = Fresh(disk.sb)
    /\ Goto("opened")
    /\ UNCHANGED <<disk, platter, aborted, logVars, errVars, lock, live, unsure, boundVars>>

\* recover up to the barrier: nothing to do on a clean log, refused on garbage
Recover ==
    /\ pc = "opened"
    /\ raw' = disk.sb
    /\ Goto(IF ~disk.recover \/ disk.sb.start = Clean THEN "upgrade"
            ELSE IF Endless(Replayed(disk)) THEN "refused" ELSE "replay")
    /\ UNCHANGED <<disk, platter, mem, aborted, txn, pass, errVars, lock, live, unsure, boundVars>>

\* The first id after the transactions found
EndTid == (raw.seq + Len(Scan(disk.log, raw.csum, raw.start, raw.seq))) % TidSpan

RecoverWrite ==
    /\ pc = "replay"
    /\ FlushThen([disk EXCEPT !.sb = [raw EXCEPT !.start = Clean, !.seq = EndTid, !.head = First]])
    /\ Goto("replayed")
    /\ UNCHANGED <<mem, aborted, logVars, errVars, lock, live, unsure, boundVars>>

RecoverEnd ==
    /\ pc = "replayed"
    /\ Flush
    /\ mem' = [mem EXCEPT !.head = First, !.tail = Clean, !.tailTid = EndTid,
                          !.next = EndTid, !.committed = PrevTid(EndTid)]
    /\ live' = <<>>
    /\ Goto("upgrade")
    /\ UNCHANGED <<disk, aborted, logVars, errVars, lock, unsure, boundVars>>

\* upgrade_journal_on_mount: a featureless journal, once its log is empty ...
Upgrade ==
    /\ pc = "upgrade"
    /\ IF Csum /\ ~disk.sb.csum /\ disk.sb.start = Clean
         THEN disk' = [disk EXCEPT !.sb.csum = TRUE] /\ Goto("upgraded")
         ELSE UNCHANGED disk /\ Goto("stamp")
    /\ UNCHANGED <<platter, mem, aborted, logVars, errVars, lock, live, unsure, boundVars>>

\* ... and the geometry is loaded again
Reload ==
    /\ pc = "upgraded"
    /\ Flush
    /\ mem' = Fresh(disk.sb)
    /\ Goto("stamp")
    /\ UNCHANGED <<disk, aborted, logVars, errVars, lock, live, unsure, boundVars>>

\* RECOVER is set, and on the device before the commit thread starts
SetRecover ==
    /\ pc = "stamp"
    /\ disk' = [disk EXCEPT !.recover = TRUE]
    /\ Goto("stamped")
    /\ UNCHANGED <<platter, mem, aborted, logVars, errVars, lock, live, unsure, boundVars>>

Mounted ==
    /\ pc = "stamped"
    /\ Flush
    /\ raw' = None
    /\ Goto("idle")
    /\ UNCHANGED <<disk, mem, aborted, txn, pass, errVars, lock, live, unsure, boundVars>>

-----------------------------------------------------------------------------
(* Commit                                                                   *)

\* max_credits, against which captures and revoke blocks are admitted
MaxCredits == (Tags * (Usable - 2)) \div (Tags + 1)

\* n images that look alike
Transaction(n, look, revokes) ==
    [tid |-> mem.next, revokes |-> revokes,
     images |-> [k \in 1 .. n |-> Image(look, mem.next, commits + 1)]]

Stage(n, look, revokes) ==
    /\ pc = "idle" /\ ~aborted /\ commits < MaxCommits
    /\ n <= MaxCredits
    /\ txn' = Transaction(n, look, revokes)
    /\ mem' = [mem EXCEPT !.next = NextTid(mem.next)]
    /\ commits' = commits + 1
    /\ Goto("fit")
    /\ UNCHANGED <<disk, platter, aborted, pass, raw, errVars, lock, live, unsure, stops, faults>>

\* abort_with_error, before it writes
Abort ==
    /\ aborted' = TRUE
    /\ err' = IF err = "none" THEN "read" ELSE err

\* try_commit_transaction: the fit guard, then the chain; commit_or_drain_tail:
\* without room the tail is drained, once
WriteChain ==
    /\ pc \in {"fit", "refit"}
    /\ IF Footprint(txn) <= FreeLogBlocks(mem.head, mem.tail)
         THEN /\ disk' = [disk EXCEPT !.log = WriteLog(disk.log, mem.head, ChainBlocks(txn))]
              /\ Goto("chain") /\ UNCHANGED <<aborted, err>>
         ELSE /\ UNCHANGED disk
              /\ IF pc = "fit" THEN Goto("drain") /\ UNCHANGED <<aborted, err>>
                 ELSE Goto("idle") /\ Abort
    /\ UNCHANGED <<platter, mem, logVars, errRaw, recorded, lock, live, unsure, boundVars>>

\* The chain is flushed and the commit block written
WriteCommit ==
    /\ pc = "chain"
    /\ LET pos == AdvanceLog(mem.head, Footprint(txn) - 1) IN
       FlushThen([disk EXCEPT !.log = WriteLog(disk.log, pos, <<CommitBlock(txn)>>)])
    /\ unsure' = <<txn.images>>
    /\ Goto("sealed")
    /\ UNCHANGED <<mem, aborted, logVars, errVars, lock, live, boundVars>>

\* The new log position, once the commit block is flushed
Publish ==
    /\ mem' = [mem EXCEPT !.head = AdvanceLog(mem.head, Footprint(txn)),
                          !.committed = txn.tid,
                          !.tail = IF mem.tail = Clean THEN mem.head ELSE mem.tail,
                          !.tailTid = IF mem.tail = Clean THEN txn.tid ELSE mem.tailTid]
    /\ live' = Append(live, txn.images)
    /\ unsure' = <<>>
    /\ txn' = None
    /\ Goto("idle")

Seal ==
    /\ pc = "sealed" /\ mem.tail # Clean
    /\ Flush
    /\ Publish
    /\ UNCHANGED <<disk, aborted, pass, raw, errVars, lock, boundVars>>

\* update_superblock_tail, of a log that was clean
TailRead ==
    /\ pc = "sealed" /\ mem.tail = Clean /\ lock = "none"
    /\ Flush
    /\ lock' = "log" /\ raw' = disk.sb
    /\ Goto("tail")
    /\ UNCHANGED <<disk, mem, aborted, txn, pass, errVars, live, unsure, boundVars>>

\* Mutant: the superblock is written afresh
TailWriteAfresh ==
    /\ pc = "tail"
    /\ disk' = [disk EXCEPT !.sb = [raw EXCEPT !.start = mem.head, !.seq = txn.tid,
                                               !.errno = FALSE]]
    /\ Goto("tailed")
    /\ UNCHANGED <<platter, mem, aborted, logVars, errVars, lock, live, unsure, boundVars>>

TailWrite ==
    /\ pc = "tail"
    /\ disk' = [disk EXCEPT !.sb = [raw EXCEPT !.start = mem.head, !.seq = txn.tid]]
    /\ Goto("tailed")
    /\ UNCHANGED <<platter, mem, aborted, logVars, errVars, lock, live, unsure, boundVars>>

TailEnd ==
    /\ pc = "tailed"
    /\ Flush
    /\ lock' = "none" /\ raw' = None
    /\ Publish
    /\ UNCHANGED <<disk, aborted, pass, errVars, boundVars>>

\* A write or a flush of the commit fails
CommitFails ==
    /\ pc \in {"chain", "sealed", "tail", "tailed"} /\ faults < MaxFaults
    /\ faults' = faults + 1
    /\ Abort
    /\ lock' = IF lock = "log" THEN "none" ELSE lock
    /\ txn' = None /\ raw' = None
    /\ Goto("idle")
    /\ UNCHANGED <<disk, platter, mem, pass, errRaw, recorded, live, unsure, commits, stops>>

-----------------------------------------------------------------------------
(* Checkpoint                                                               *)

\* No target: a free segment this long there never is
WholeLog == Maxlen

\* checkpoint_advance up to its barrier, with the transactions it applies: all
\* of them, fewer where want blocks are free, fewer still where a revoke that
\* is not committed covers the next one
Apply(want, n, back) ==
    LET walked == Walk(mem.tail, mem.tailTid)
        at(k)  == StartOf(k, mem.tail, mem.tailTid)
    IN  /\ mem.tail # Clean /\ lock = "none"
        /\ ~Endless(walked)
        /\ n \in 1 .. Len(walked)
        /\ \A k \in 0 .. n - 1 : FreeLogBlocks(mem.head, at(k)) < want
        /\ pass' = [n |-> n, pos |-> at(n), tid |-> (mem.tailTid + n) % TidSpan,
                    early |-> n < Len(walked), back |-> back]
        /\ lock' = "log"
        /\ Goto("apply")
        /\ UNCHANGED <<disk, platter, mem, aborted, txn, raw, errVars, live, unsure, boundVars>>

\* run_lazy_checkpoint: on demand the whole log, else up to the low-water mark
LazyCheckpoint ==
    /\ pc = "idle" /\ ~aborted
    /\ \E want \in {WholeLog, LowWater}, n \in 1 .. MaxCommits : Apply(want, n, "idle")

\* The inline drain of commit_or_drain_tail
DrainTail ==
    /\ pc = "drain"
    /\ \E n \in 1 .. MaxCommits : Apply(WholeLog, n, "refit")

\* The drain is deferred in front of the first transaction, or the log is clean
DrainNothing ==
    /\ pc = "drain"
    /\ Goto("refit")
    /\ UNCHANGED <<disk, platter, mem, aborted, logVars, errVars, lock, live, unsure, boundVars>>

RetireRead ==
    /\ pc = "apply"
    /\ Flush
    /\ raw' = disk.sb
    /\ Goto("retire")
    /\ UNCHANGED <<disk, mem, aborted, txn, pass, errVars, lock, live, unsure, boundVars>>

\* The superblock points at the first transaction not applied, or is clean
Retired ==
    IF pass.early
      THEN [raw EXCEPT !.start = pass.pos, !.seq = pass.tid]
      ELSE [raw EXCEPT !.start = Clean, !.seq = NextTid(mem.committed), !.head = mem.head]

RetireWrite ==
    /\ pc = "retire"
    /\ disk' = [disk EXCEPT !.sb = Retired]
    /\ Goto("retired")
    /\ UNCHANGED <<platter, mem, aborted, logVars, errVars, lock, live, unsure, boundVars>>

RetireEnd ==
    /\ pc = "retired"
    /\ Flush
    /\ mem' = [mem EXCEPT !.tail = IF pass.early THEN pass.pos ELSE Clean,
                          !.tailTid = pass.tid]
    /\ live' = SubSeq(live, pass.n + 1, Len(live))
    /\ lock' = "none" /\ raw' = None /\ pass' = None
    /\ Goto(pass.back)
    /\ UNCHANGED <<disk, aborted, txn, errVars, unsure, boundVars>>

\* The pass fails before it writes the superblock.  The commit thread goes on,
\* unless it drained for a commit (an unmount stops, as in a crash)
PassFails ==
    /\ pc \in {"apply", "retire"} /\ pass.back # "clear" /\ faults < MaxFaults
    /\ faults' = faults + 1
    /\ lock' = "none" /\ pass' = None /\ raw' = None
    /\ IF pass.back = "refit" THEN Abort /\ txn' = None ELSE UNCHANGED <<aborted, err, txn>>
    /\ Goto("idle")
    /\ UNCHANGED <<disk, platter, mem, errRaw, recorded, live, unsure, commits, stops>>

-----------------------------------------------------------------------------
(* Errors, unmount and crashes                                              *)

Running == {"idle", "fit", "refit", "drain", "chain", "sealed", "tail", "tailed",
            "apply", "retire", "retired"}

\* abort_for_fs_error, from an operation's thread
FsError ==
    /\ pc \in Running /\ err = "none" /\ faults < MaxFaults
    /\ faults' = faults + 1
    /\ Abort
    /\ UNCHANGED <<disk, platter, mem, pc, logVars, errRaw, recorded, lock, live, unsure, commits, stops>>

\* abort_for_shutdown
Shutdown ==
    /\ pc \in Running /\ ~aborted /\ faults < MaxFaults
    /\ faults' = faults + 1
    /\ aborted' = TRUE
    /\ UNCHANGED <<disk, platter, mem, pc, logVars, errVars, lock, live, unsure, commits, stops>>

\* Mutant: the superblock is read without j_checkpoint
ErrnoReadUnlocked ==
    /\ err = "read"
    /\ errRaw' = disk.sb
    /\ err' = "write"
    /\ UNCHANGED <<disk, platter, mem, aborted, pc, logVars, recorded, lock, live, unsure, boundVars>>

\* write_errno_to_super
ErrnoRead ==
    /\ err = "read" /\ lock = "none"
    /\ lock' = "errno" /\ errRaw' = disk.sb
    /\ err' = "write"
    /\ UNCHANGED <<disk, platter, mem, aborted, pc, logVars, recorded, live, unsure, boundVars>>

ErrnoWrite ==
    /\ err = "write"
    /\ disk' = [disk EXCEPT !.sb = [errRaw EXCEPT !.errno = TRUE]]
    /\ err' = "flush"
    /\ UNCHANGED <<platter, mem, aborted, pc, logVars, errRaw, recorded, lock, live, unsure, boundVars>>

ErrnoEnd ==
    /\ err = "flush"
    /\ Flush
    /\ lock' = IF lock = "errno" THEN "none" ELSE lock
    /\ err' = "none" /\ recorded' = TRUE /\ errRaw' = None
    /\ UNCHANGED <<disk, mem, aborted, pc, logVars, live, unsure, boundVars>>

\* Everything in memory is gone
Stopped(d) ==
    /\ disk' = d /\ platter' = d
    /\ live' = Replayed(d) /\ unsure' = <<>>
    /\ aborted' = FALSE /\ err' = "none" /\ lock' = "none"
    /\ txn' = None /\ pass' = None /\ raw' = None /\ errRaw' = None /\ mem' = None
    /\ Goto("off")
    /\ UNCHANGED <<recorded, commits, faults>>

Crash ==
    /\ pc # "off" /\ stops < MaxStops
    /\ stops' = stops + 1
    /\ \E d \in CrashImages : Stopped(d)

\* Drop for Ext4: flush_on_unmount refuses an aborted journal; else the log is
\* checkpointed ...
Unmount ==
    /\ pc = "idle" /\ err = "none" /\ stops < MaxStops
    /\ IF aborted
         THEN stops' = stops + 1 /\ Stopped(disk)
         ELSE IF mem.tail # Clean
         THEN UNCHANGED stops /\ Apply(WholeLog, Len(Walk(mem.tail, mem.tailTid)), "clear")
         ELSE /\ Goto("clear")
              /\ UNCHANGED <<disk, platter, mem, aborted, logVars, errVars, lock, live, unsure, boundVars>>

\* ... and RECOVER cleared
ClearRecover ==
    /\ pc = "clear"
    /\ disk' = [disk EXCEPT !.recover = FALSE]
    /\ Goto("cleared")
    /\ UNCHANGED <<platter, mem, aborted, logVars, errVars, lock, live, unsure, boundVars>>

Unmounted ==
    /\ pc = "cleared"
    /\ stops' = stops + 1
    /\ Stopped(disk)

-----------------------------------------------------------------------------

Init ==
    /\ disk = [log |-> [p \in Ring |-> Blank], recover |-> FALSE,
               sb |-> [start |-> Clean, seq |-> FirstTid, head |-> First,
                       errno |-> FALSE, csum |-> FALSE]]
    /\ platter = disk
    /\ mem = None /\ txn = None /\ pass = None /\ raw = None /\ errRaw = None
    /\ aborted = FALSE /\ recorded = FALSE
    /\ pc = "off" /\ err = "none" /\ lock = "none"
    /\ live = <<>> /\ unsure = <<>>
    /\ commits = 0 /\ stops = 0 /\ faults = 0

Next ==
    \/ Open \/ Recover \/ RecoverWrite \/ RecoverEnd \/ Upgrade \/ Reload
    \/ SetRecover \/ Mounted
    \/ \E n \in 1 .. MaxCaptures, look \in Looks, r \in 0 .. MaxRevokes : Stage(n, look, r)
    \/ WriteChain \/ WriteCommit \/ Seal \/ TailRead \/ TailWrite \/ TailEnd
    \/ CommitFails
    \/ LazyCheckpoint \/ DrainTail \/ DrainNothing
    \/ RetireRead \/ RetireWrite \/ RetireEnd \/ PassFails
    \/ FsError \/ Shutdown \/ ErrnoRead \/ ErrnoWrite \/ ErrnoEnd
    \/ Crash \/ Unmount \/ ClearRecover \/ Unmounted

Spec == Init /\ [][Next]_vars

-----------------------------------------------------------------------------
(* Properties                                                               *)

\* Positions and ids stay in their ranges: the head and the tail on the ring,
\* ids below the wrap (JournalState, Tid).
TypeOK ==
    /\ mem # None =>
         /\ mem.head \in Ring /\ mem.tail \in Ring \cup {Clean}
         /\ {mem.tailTid, mem.next, mem.committed} \subseteq Tids
    /\ platter.sb.start \in Ring \cup {Clean} /\ platter.sb.seq \in Tids
    /\ lock \in {"none", "log", "errno"} /\ err \in {"none", "read", "write", "flush"}
    /\ pc \in Running \cup {"off", "opened", "replay", "replayed", "upgrade", "upgraded",
                            "stamp", "stamped", "clear", "cleared", "refused"}

\* Whatever part of the cached writes a crash keeps, the next mount replays
\* exactly the committed transactions not yet retired, with the images they
\* captured.  The transaction being sealed, and those a pass or a recovery is
\* about to retire, may be there or not.  Stale blocks of earlier wraps, ids
\* used again after a recovery and data that looks like a commit block change
\* nothing (scan_transaction, update_superblock_tail, free_log_blocks).
RecoveryFindsLog ==
    LET retired == IF pc = "retired" THEN SubSeq(live, pass.n + 1, Len(live))
                   ELSE IF pc = "replayed" THEN <<>> ELSE live
    IN  \A d \in CrashImages : Replayed(d) \in {live, live \o unsure, retired}

\* A checkpoint pass finds in the log exactly the transactions that are
\* committed and not retired (apply_log_transaction never meets EUCLEAN, and
\* committed_tid.geq(tid) stops it after the last one).
CheckpointFindsLog ==
    pc \in Running =>
        live = IF mem.tail = Clean THEN <<>> ELSE Walk(mem.tail, mem.tailTid)

\* A recorded error stays recorded, whoever rewrites the superblock
\* (write_errno_to_super).
ErrorIsKept == recorded => \A d \in CrashImages : d.sb.errno
=============================================================================
