----------------------------- MODULE OrphanList -----------------------------
(***************************************************************************)
(* The orphan list of the ext4 filesystem: the chain of inodes whose       *)
(* deletion or truncation takes more than one transaction, so that a mount *)
(* after a crash can finish it.                                            *)
(*                                                                         *)
(* Sources: kernel/src/fs/fs_impls/ext4/fs.rs (orphan_add, orphan_del,     *)
(* recover_orphan_list, OrphanChain), inode/mod.rs (shrink_restartable,    *)
(* retruncate_to, try_reclaim_deleted_inode), inode/dir/mod.rs (unlink).   *)
(*                                                                         *)
(* On disk the list is threaded through the superblock's head and the      *)
(* i_dtime fields of its members, a field that is a deletion time in a     *)
(* freed inode and 0 in a live one.  The mirror in memory is authoritative *)
(* while mounted.                                                          *)
(*                                                                         *)
(* The journal is what JournalStore shows it to be: operations capture     *)
(* metadata into the running transaction, and what is captured becomes     *)
(* durable all at once, at a moment when no handle is open.  A step is     *)
(* what an operation does under s_orphan_lock or the superblock's lock;    *)
(* an operation holds its inode's lock, so an inode has one at a time.     *)
(***************************************************************************)
EXTENDS Integers, Sequences, FiniteSets

CONSTANTS
    Inodes,
    None,           \* no inode: 0 on disk
    MaxBlocks,      \* bound: blocks of a file
    Unlinked,       \* whether open files are truncated after their unlink
    MaxRequests,    \* bound: system calls that begin
    MaxCrashes,     \* bound: crashes
    MaxFaults       \* bound: failing truncation chunks

\* The deletion time of a freed inode, which is no inode number
Time == "time"

ASSUME OrphanAssumption ==
    /\ IsFiniteSet(Inodes)
    /\ None \notin Inodes /\ Time \notin Inodes /\ None # Time
    /\ Unlinked \in BOOLEAN
    /\ {MaxBlocks, MaxRequests, MaxCrashes, MaxFaults} \subseteq Nat

VARIABLES
    \* the newest captured metadata
    head,           \* s_last_orphan
    slot,           \* the inode table
    bit,            \* the inode bitmap
    used,           \* the block bitmap: blocks allocated to each inode
    durable,        \* the same as of the last commit
    \* memory
    chain,          \* OrphanChain
    mem,            \* the cached descriptors and extent trees
    open,           \* inodes a file descriptor refers to
    job,            \* what runs under an inode's lock
    step,           \* how far it is
    hold,           \* inodes whose operation has a handle open
    \* the mount
    mode,           \* "mount", "recover" or "run"
    todo,           \* scanned orphans still to finish
    suspect,        \* the scan or a reclaim had a problem
    lost,           \* history: listed inodes the recovery gave up
    \* bounds
    requests, crashes, faults

metaVars  == <<head, slot, bit, used>>
taskVars  == <<job, step, hold>>
mountVars == <<mode, todo, suspect, lost>>
boundVars == <<requests, crashes, faults>>
vars == <<metaVars, durable, chain, mem, open, taskVars, mountVars, boundVars>>

\* RawInode and InodeDesc: link count, i_size and mapped blocks, i_dtime
Desc(links, size, blocks, dtime) ==
    [links |-> links, size |-> size, blocks |-> blocks, dtime |-> dtime]

DescType ==
    [links: {0, 1}, size: 0 .. MaxBlocks, blocks: 0 .. MaxBlocks,
     dtime: Inodes \cup {None, Time}]

Metadata == [head |-> head, slot |-> slot, bit |-> bit, used |-> used]

Jobs  == {"none", "unlink", "truncate", "reclaim", "again"}
Steps == {"idle", "persist", "chunk", "next", "frontier", "restart", "drop",
          "unlist", "final", "free"}

TypeOK ==
    /\ head \in Inodes \cup {None}
    /\ slot \in [Inodes -> DescType] /\ mem \in [Inodes -> DescType]
    /\ bit \in [Inodes -> BOOLEAN] /\ open \in [Inodes -> BOOLEAN]
    /\ used \in [Inodes -> 0 .. MaxBlocks]
    /\ durable \in [head: Inodes \cup {None}, slot: [Inodes -> DescType],
                    bit: [Inodes -> BOOLEAN], used: [Inodes -> 0 .. MaxBlocks]]
    /\ chain \in Seq(Inodes)
    /\ job \in [Inodes -> Jobs] /\ step \in [Inodes -> Steps]
    /\ hold \subseteq Inodes /\ todo \subseteq Inodes /\ lost \subseteq Inodes
    /\ mode \in {"mount", "recover", "run"} /\ suspect \in BOOLEAN
    /\ requests \in Nat /\ crashes \in Nat /\ faults \in Nat

-----------------------------------------------------------------------------
(* OrphanChain                                                              *)

Members(s) == {s[k] : k \in DOMAIN s}

Listed(i) == i \in Members(chain)

Position(i) == CHOOSE k \in DOMAIN chain : chain[k] = i

\* successor_of, for a listed inode
Successor(i) ==
    LET k == Position(i) IN IF k < Len(chain) THEN chain[k + 1] ELSE None

\* orphan_add: capture the new head, then change it and the mirror
OrphanAdd(i) ==
    IF Listed(i)
      THEN UNCHANGED <<head, chain>>
      ELSE /\ head' = i
           /\ chain' = <<i>> \o chain

\* The OrphanLink orphan_add returns
OldHead(i) == IF Listed(i) THEN Successor(i) ELSE head

\* commit_remove: the mirror without its entry k
Without(k) ==
    [n \in 1 .. Len(chain) - 1 |-> IF n < k THEN chain[n] ELSE chain[n + 1]]

\* Mutant: the pointer of the predecessor is not patched
OrphanDelUnpatched(i) ==
    IF ~Listed(i)
      THEN UNCHANGED <<head, slot, chain>>
      ELSE /\ chain' = Without(Position(i))
           /\ head' = IF chain[1] = i THEN Successor(i) ELSE head
           /\ UNCHANGED slot

\* splice_for and commit_remove: the head moves on, or the predecessor's
\* i_dtime is patched in its slot, its cached descriptor left alone
OrphanDel(i) ==
    IF ~Listed(i)
      THEN UNCHANGED <<head, slot, chain>>
      ELSE /\ chain' = Without(Position(i))
           /\ IF chain[1] = i
                THEN head' = Successor(i) /\ UNCHANGED slot
                ELSE LET p == chain[Position(i) - 1] IN
                     /\ slot' = [slot EXCEPT ![p] = Desc(slot[p].links, slot[p].size,
                                                         slot[p].blocks, Successor(i))]
                     /\ UNCHANGED head

\* write_back_inode_desc: the whole descriptor, with the successor of a listed
\* inode taken from the mirror
WriteBack(i, m) ==
    slot' = [slot EXCEPT ![i] = Desc(m.links, m.size, m.blocks,
                                     IF Listed(i) THEN Successor(i) ELSE m.dtime)]

-----------------------------------------------------------------------------
(* Operations of one transaction                                            *)

Advance(i, j, s) ==
    /\ job'  = [job EXCEPT ![i] = j]
    /\ step' = [step EXCEPT ![i] = s]

\* A system call can reach the file: by name or through a descriptor
Reachable(i) ==
    /\ mode = "run" /\ step[i] = "idle" /\ bit[i]
    /\ mem[i].links = 1 \/ open[i]

\* create_inode and the entry for it
Create(i) ==
    /\ mode = "run" /\ ~bit[i] /\ step[i] = "idle"
    /\ bit'  = [bit EXCEPT ![i] = TRUE]
    /\ mem'  = [mem EXCEPT ![i] = Desc(1, 0, 0, None)]
    /\ slot' = [slot EXCEPT ![i] = Desc(1, 0, 0, None)]
    /\ UNCHANGED <<head, used, durable, chain, open, taskVars, mountVars, crashes, faults>>

Open(i) ==
    /\ Reachable(i) /\ ~open[i]
    /\ open' = [open EXCEPT ![i] = TRUE]
    /\ UNCHANGED <<metaVars, durable, chain, mem, taskVars, mountVars, crashes, faults>>

\* Mutant: closing the last descriptor does not reclaim
CloseForgets(i) ==
    /\ Reachable(i) /\ open[i]
    /\ open' = [open EXCEPT ![i] = FALSE]
    /\ UNCHANGED <<metaVars, durable, chain, mem, taskVars, mountVars, crashes, faults>>

\* The last descriptor goes; the drop of an unlinked inode reclaims it
Close(i) ==
    /\ Reachable(i) /\ open[i]
    /\ open' = [open EXCEPT ![i] = FALSE]
    /\ IF mem[i].links = 0 THEN Advance(i, "reclaim", "drop") ELSE UNCHANGED <<job, step>>
    /\ UNCHANGED <<metaVars, durable, chain, mem, hold, mountVars, crashes, faults>>

\* A write up to block n, an attribute change or an fsync when n is the size:
\* the inode is written back in the operation's transaction
Write(i, n) ==
    /\ Reachable(i) /\ n >= mem[i].size
    /\ LET blocks == IF n > mem[i].blocks THEN n ELSE mem[i].blocks
           m == Desc(mem[i].links, n, blocks, mem[i].dtime)
       IN  /\ mem' = [mem EXCEPT ![i] = m]
           /\ used' = [used EXCEPT ![i] = blocks]
           /\ WriteBack(i, m)
    /\ UNCHANGED <<head, bit, durable, chain, open, taskVars, mountVars, crashes, faults>>

\* resize when the whole truncation fits one transaction
Shrink(i, n) ==
    /\ Reachable(i) /\ n < mem[i].size
    /\ LET m == Desc(mem[i].links, n, n, mem[i].dtime)
       IN  /\ mem' = [mem EXCEPT ![i] = m]
           /\ used' = [used EXCEPT ![i] = n]
           /\ WriteBack(i, m)
    /\ UNCHANGED <<head, bit, durable, chain, open, taskVars, mountVars, crashes, faults>>

-----------------------------------------------------------------------------
(* Unlink, truncation and reclaim                                           *)

\* unlink, rmdir, rename over an existing name: the last link goes and the
\* inode is listed ...
Unlink(i) ==
    /\ Reachable(i) /\ mem[i].links = 1
    /\ OrphanAdd(i)
    /\ mem' = [mem EXCEPT ![i] = Desc(0, mem[i].size, mem[i].blocks, OldHead(i))]
    /\ hold' = hold \cup {i}
    /\ Advance(i, "unlink", "persist")
    /\ UNCHANGED <<slot, bit, used, durable, open, mountVars, crashes, faults>>

\* Mutant: a live inode is not listed while it is truncated
TruncateUnlisted(i, n) ==
    /\ Reachable(i) /\ n < mem[i].size
    /\ mem[i].links = 1 \/ Unlinked
    /\ mem' = [mem EXCEPT ![i] = Desc(mem[i].links, n, mem[i].blocks, mem[i].dtime)]
    /\ hold' = hold \cup {i}
    /\ Advance(i, "truncate", "persist")
    /\ UNCHANGED <<metaVars, chain, durable, open, mountVars, crashes, faults>>

\* shrink_restartable: publish the size, then list the live inode ...
Truncate(i, n) ==
    /\ Reachable(i) /\ n < mem[i].size
    /\ mem[i].links = 1 \/ Unlinked
    /\ OrphanAdd(i)
    /\ mem' = [mem EXCEPT ![i] = Desc(mem[i].links, n, mem[i].blocks, mem[i].dtime)]
    /\ hold' = hold \cup {i}
    /\ Advance(i, "truncate", "persist")
    /\ UNCHANGED <<slot, bit, used, durable, open, mountVars, crashes, faults>>

\* ... and write it back in the same transaction (persist_as_orphan for an
\* unlink, whose handle closes here; the drop follows unless it is open)
Persist(i) ==
    /\ step[i] = "persist"
    /\ WriteBack(i, mem[i])
    /\ IF job[i] = "truncate"
         THEN Advance(i, "truncate", "chunk") /\ UNCHANGED hold
         ELSE /\ hold' = hold \ {i}
              /\ IF open[i] THEN Advance(i, "none", "idle") ELSE Advance(i, "reclaim", "drop")
    /\ UNCHANGED <<head, bit, used, durable, chain, mem, open, mountVars, boundVars>>

\* try_reclaim_deleted_inode up to the loop
Reclaim(i) ==
    /\ step[i] = "drop" /\ mem[i].links = 0 /\ bit[i]
    /\ OrphanAdd(i)
    /\ mem' = [mem EXCEPT ![i] = Desc(0, 0, mem[i].blocks, Time)]
    /\ hold' = hold \cup {i}
    /\ Advance(i, job[i], IF mem[i].blocks > 0 THEN "chunk" ELSE "unlist")
    /\ UNCHANGED <<slot, bit, used, durable, open, mountVars, boundVars>>

\* Mutant: a chunk does not stop at the blocks to keep
ChunkUnbounded(i, k) ==
    /\ step[i] \in {"chunk", "next"}
    /\ mem' = [mem EXCEPT ![i] = Desc(mem[i].links, mem[i].size, mem[i].blocks - k, mem[i].dtime)]
    /\ used' = [used EXCEPT ![i] = used[i] - k]
    /\ Advance(i, job[i], IF mem[i].blocks - k <= mem[i].size THEN "unlist" ELSE "frontier")
    /\ UNCHANGED <<head, slot, bit, durable, chain, open, hold, mountVars, boundVars>>

\* truncate_chunk: free k blocks from the end and drop them from the tree.  The
\* first chunk may have no credits left; a restart reserves for at least one
Chunk(i, k) ==
    LET m    == mem[i]
        over == m.blocks - m.size
        rest == m.blocks - k
    IN  /\ step[i] \in {"chunk", "next"}
        /\ over > 0 => k <= over /\ (step[i] = "next" => k > 0)
        /\ over <= 0 => k = 0
        /\ mem' = [mem EXCEPT ![i] = Desc(m.links, m.size, rest, m.dtime)]
        /\ used' = [used EXCEPT ![i] = used[i] - k]
        /\ Advance(i, job[i], IF rest <= m.size THEN "unlist" ELSE "frontier")
        /\ UNCHANGED <<head, slot, bit, durable, chain, open, hold, mountVars, boundVars>>

\* Mutant: the tree is written back by the last chunk only
FrontierUnwritten(i) ==
    /\ step[i] = "frontier"
    /\ hold' = hold \ {i}
    /\ Advance(i, job[i], "restart")
    /\ UNCHANGED <<metaVars, durable, chain, mem, open, mountVars, boundVars>>

\* Not done: write the frontier back with the frees, and close the handle
Frontier(i) ==
    /\ step[i] = "frontier"
    /\ WriteBack(i, mem[i])
    /\ hold' = hold \ {i}
    /\ Advance(i, job[i], "restart")
    /\ UNCHANGED <<head, bit, used, durable, chain, mem, open, mountVars, boundVars>>

\* journal_restart admitted the handle to a new transaction
Restart(i) ==
    /\ step[i] = "restart"
    /\ hold' = hold \cup {i}
    /\ Advance(i, job[i], "next")
    /\ UNCHANGED <<metaVars, durable, chain, mem, open, mountVars, boundVars>>

\* Done: off the list first, so that the last write-back finds it unlisted
Unlist(i) ==
    /\ step[i] = "unlist"
    /\ OrphanDel(i)
    /\ Advance(i, job[i], "final")
    /\ UNCHANGED <<bit, used, durable, mem, open, hold, mountVars, boundVars>>

Final(i) ==
    /\ step[i] = "final"
    /\ WriteBack(i, mem[i])
    /\ IF job[i] = "truncate"
         THEN hold' = hold \ {i} /\ Advance(i, "none", "idle")
         ELSE UNCHANGED hold /\ Advance(i, job[i], "free")
    /\ UNCHANGED <<head, bit, used, durable, chain, mem, open, mountVars, boundVars>>

\* free_inode, still in the transaction that unlisted it
FreeInode(i) ==
    /\ step[i] = "free"
    /\ bit' = [bit EXCEPT ![i] = FALSE]
    /\ hold' = hold \ {i}
    /\ Advance(i, "none", "idle")
    /\ UNCHANGED <<head, slot, used, durable, chain, mem, open, mountVars, boundVars>>

\* truncate_chunk fails before it frees anything.  The inode stays listed; a
\* recovery notes the problem and drops the inode object: that of a deleted one
\* tries the reclaim again, that of a live one is read anew later
ChunkFails(i) ==
    /\ step[i] \in {"chunk", "next"} /\ faults < MaxFaults
    /\ faults' = faults + 1
    /\ hold' = hold \ {i}
    /\ suspect' = (suspect \/ mode = "recover")
    /\ mem' = [mem EXCEPT ![i] = IF mode = "recover" /\ mem[i].links = 1
                                   THEN slot[i] ELSE mem[i]]
    /\ IF mode = "recover" /\ job[i] = "reclaim"
         THEN Advance(i, "again", "drop")
         ELSE Advance(i, "none", "idle")
    /\ UNCHANGED <<metaVars, durable, chain, open, mode, todo, lost, requests, crashes>>

-----------------------------------------------------------------------------
(* The journal, crashes and the scan at mount                               *)

\* The commit of the running transaction, once its handles are closed
Commit ==
    /\ hold = {} /\ durable # Metadata
    /\ durable' = Metadata
    /\ UNCHANGED <<metaVars, chain, mem, open, taskVars, mountVars, boundVars>>

\* walk_orphan_chain: follow the pointers from the head to allocated inodes not
\* seen before, as far as that goes.  Where it stops other than at 0, the list
\* is suspect
Pointer(d, s, k) == IF k = 1 THEN d.head ELSE d.slot[s[k - 1]].dtime

After(d, s) == Pointer(d, s, Len(s) + 1)

Walked(d, s) ==
    /\ \A k \in 1 .. Len(s) : s[k] = Pointer(d, s, k) /\ d.bit[s[k]]
    /\ \A j, k \in 1 .. Len(s) : s[j] = s[k] => j = k
    /\ After(d, s) \in Inodes => After(d, s) \in Members(s) \/ ~d.bit[After(d, s)]

Walks(d) ==
    {s \in UNION {[1 .. n -> Inodes] : n \in 0 .. Cardinality(Inodes)} : Walked(d, s)}

\* The inodes a mount of d finds
Found(d) == UNION {Members(s) : s \in Walks(d)}

\* A crash, or an unmount (a crash after a commit), and the journal's replay
Crash ==
    /\ crashes < MaxCrashes
    /\ crashes' = crashes + 1
    /\ head' = durable.head /\ slot' = durable.slot
    /\ bit' = durable.bit /\ used' = durable.used
    /\ mem' = durable.slot
    /\ chain' = <<>> /\ todo' = {}
    /\ open' = [i \in Inodes |-> FALSE]
    /\ job' = [i \in Inodes |-> "none"] /\ step' = [i \in Inodes |-> "idle"]
    /\ hold' = {}
    /\ mode' = "mount" /\ suspect' = FALSE
    /\ lost' = lost \ Found(durable)
    /\ UNCHANGED <<durable, requests, faults>>

\* recover_orphan_list: prime the mirror with the walk
Scan ==
    /\ mode = "mount"
    /\ IF head = None
         THEN mode' = "run" /\ UNCHANGED <<chain, todo, suspect>>
         ELSE \E s \in Walks(Metadata) :
                /\ mode' = "recover"
                /\ chain' = s
                /\ todo' = Members(s)
                /\ suspect' = (After(Metadata, s) # None)
    /\ UNCHANGED <<metaVars, durable, mem, open, taskVars, lost, boundVars>>

\* Deletions come before truncations, each in the order of the list
Precedes(i, j) ==
    \/ slot[i].links < slot[j].links
    \/ slot[i].links = slot[j].links /\ Position(i) < Position(j)

\* The next scanned orphan, once the one before is finished
Turn(i) ==
    /\ mode = "recover" /\ i \in todo
    /\ \A j \in todo \ {i} : Precedes(i, j)
    /\ \A j \in Inodes : step[j] = "idle"

\* Mutant: every scanned inode is built as a deleted one
RecoverNextFrees(i) ==
    /\ Turn(i)
    /\ todo' = todo \ {i}
    /\ Advance(i, "reclaim", "drop")
    /\ mem' = [mem EXCEPT ![i] = Desc(0, slot[i].size, slot[i].blocks, None)]
    /\ UNCHANGED <<metaVars, durable, chain, open, hold, mode, suspect, lost, boundVars>>

\* Mutant: the i_dtime that was read stays in the descriptor
RecoverNextPointer(i) ==
    /\ Turn(i)
    /\ todo' = todo \ {i}
    /\ IF slot[i].links = 0
         THEN Advance(i, "reclaim", "drop") /\ UNCHANGED <<mem, hold>>
         ELSE /\ Advance(i, "truncate", "chunk")
              /\ hold' = hold \cup {i}
              /\ mem' = [mem EXCEPT ![i] = slot[i]]
    /\ UNCHANGED <<metaVars, durable, chain, open, mode, suspect, lost, boundVars>>

\* reclaim_scanned_orphan, or retruncate_scanned_orphan with the i_dtime it
\* read, a pointer, reset to that of a live inode
RecoverNext(i) ==
    /\ Turn(i)
    /\ todo' = todo \ {i}
    /\ IF slot[i].links = 0
         THEN Advance(i, "reclaim", "drop") /\ UNCHANGED <<mem, hold>>
         ELSE /\ Advance(i, "truncate", "chunk")
              /\ hold' = hold \cup {i}
              /\ mem' = [mem EXCEPT ![i] = Desc(slot[i].links, slot[i].size,
                                                slot[i].blocks, None)]
    /\ UNCHANGED <<metaVars, durable, chain, open, mode, suspect, lost, boundVars>>

\* Mutant: a suspect list is left for the next mount
RecoverEndKeeps ==
    /\ mode = "recover" /\ todo = {}
    /\ \A j \in Inodes : step[j] = "idle"
    /\ mode' = "run"
    /\ UNCHANGED <<metaVars, durable, chain, mem, open, taskVars, todo, suspect, lost, boundVars>>

\* The end of recover_orphan_list; clear_orphan_head gives up what is left
RecoverEnd ==
    /\ mode = "recover" /\ todo = {}
    /\ \A j \in Inodes : step[j] = "idle"
    /\ mode' = "run"
    /\ IF suspect \/ head # None
         THEN /\ head' = None /\ chain' = <<>>
              /\ lost' = lost \cup Members(chain)
         ELSE UNCHANGED <<head, chain, lost>>
    /\ UNCHANGED <<slot, bit, used, durable, mem, open, taskVars, todo, suspect, boundVars>>

-----------------------------------------------------------------------------
(* The specification                                                        *)

\* A mounted filesystem with some files, all of it durable
Init ==
    /\ head = None
    /\ bit \in [Inodes -> BOOLEAN]
    /\ slot = [i \in Inodes |-> IF bit[i] THEN Desc(1, MaxBlocks, MaxBlocks, None)
                                          ELSE Desc(0, 0, 0, None)]
    /\ used = [i \in Inodes |-> slot[i].blocks]
    /\ durable = Metadata
    /\ chain = <<>> /\ todo = {}
    /\ mem = slot
    /\ open = [i \in Inodes |-> FALSE]
    /\ job = [i \in Inodes |-> "none"] /\ step = [i \in Inodes |-> "idle"]
    /\ hold = {} /\ lost = {}
    /\ mode = "run" /\ suspect = FALSE
    /\ requests = 0 /\ crashes = 0 /\ faults = 0

\* What an operation does once it began
Continue(i) ==
    \/ Persist(i)
    \/ Reclaim(i)
    \/ \E k \in 0 .. MaxBlocks : Chunk(i, k)
    \/ Frontier(i)
    \/ Restart(i)
    \/ Unlist(i)
    \/ Final(i)
    \/ FreeInode(i)

Request(i) ==
    /\ requests < MaxRequests
    /\ requests' = requests + 1
    /\ \/ Create(i)
       \/ Open(i)
       \/ Close(i)
       \/ Unlink(i)
       \/ \E n \in 0 .. MaxBlocks : Write(i, n) \/ Shrink(i, n) \/ Truncate(i, n)

Mount == Scan \/ (\E i \in Inodes : RecoverNext(i)) \/ RecoverEnd

Next ==
    \/ \E i \in Inodes : Request(i) \/ Continue(i) \/ ChunkFails(i)
    \/ Mount
    \/ Commit
    \/ Crash

Spec == Init /\ [][Next]_vars

FairSpec ==
    /\ Spec
    /\ \A i \in Inodes : WF_vars(Continue(i))
    /\ WF_vars(Mount)

-----------------------------------------------------------------------------
(* Properties                                                               *)

\* Its deletion or truncation is not finished
Unfinished(d, i) ==
    d.bit[i] /\ (d.slot[i].links = 0 \/ d.slot[i].blocks > d.slot[i].size)

\* After every commit a mount can walk the list to its end, and finds on it
\* every inode whose deletion or truncation is not finished (unlink and
\* shrink_restartable list an inode in the transaction that leaves it so, and
\* every splice commits with the pointer it changes).  Only what a failing
\* recovery gave up may be missing.
UnfinishedIsListed ==
    \E s \in Walks(durable) :
        /\ After(durable, s) = None
        /\ \A i \in Inodes \ lost : Unfinished(durable, i) => i \in Members(s)

\* Whenever no handle is open, the list captured so far is the mirror, in its
\* order: a write-back of a stale descriptor or a splice between two steps of
\* another operation never resurrects a pointer (OrphanChain,
\* write_back_inode_desc).
MirrorAgrees ==
    mode # "mount" /\ hold = {} =>
        Walked(Metadata, chain) /\ After(Metadata, chain) = None

\* What is durable never leaks a block and never frees one twice: each inode's
\* share of the block bitmap is what its extent tree maps, whichever chunk the
\* crash follows (truncate_chunk and the frontier share a transaction).
BlocksAccounted ==
    \A i \in Inodes :
        durable.used[i] = IF durable.bit[i] THEN durable.slot[i].blocks ELSE 0

\* A live inode that is not listed has i_dtime 0 after every commit: no pointer
\* of the list outlives the truncation it served (shrink_restartable and
\* retruncate_to unlist before the last write-back).
LiveHasNoDtime ==
    \A i \in Inodes :
        durable.bit[i] /\ durable.slot[i].links = 1
            /\ i \notin Found(durable) \cup lost
          => durable.slot[i].dtime = None

FilesKept ==
    \A i \in Inodes :
        bit[i] /\ slot[i].links = 1 =>
            bit'[i] /\ slot'[i].links = 1 /\ slot'[i].size = slot[i].size

\* The scan at mount never takes a file that has a name, nor its size: a live
\* member of the list is truncated again, not freed (recover_orphan_list).
RecoveryKeepsFiles == [][mode # "run" => FilesKept]_vars

NothingUnfinished ==
    /\ head' = None /\ chain' = <<>>
    /\ \A i \in Inodes \ lost' :
         bit'[i] => slot'[i].links = 1 /\ slot'[i].blocks <= slot'[i].size

\* When the mount is over the list is empty and nothing is left to finish but
\* what was given up, however often a recovery was itself cut short
\* (recover_orphan_list).
RecoveryFinishes == [][mode # "run" /\ mode' = "run" => NothingUnfinished]_vars

\* An inode without name and without descriptor is freed in the end, unless a
\* crash undoes its unlink or an I/O error makes its deletion fail (Drop for
\* Inode, recover_orphan_list).
DeletedIsFreed ==
    \A i \in Inodes :
        (bit[i] /\ mem[i].links = 0 /\ ~open[i])
            ~> (~bit[i] \/ mem[i].links = 1 \/ faults > 0)
=============================================================================
