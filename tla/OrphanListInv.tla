---------------------------- MODULE OrphanListInv ----------------------------
(***************************************************************************)
(* The inductive invariant behind the safety properties of OrphanList.     *)
(*                                                                         *)
(* It holds for filesystems in which no open file is truncated after its   *)
(* unlink (Unlinked = FALSE).                                              *)
(***************************************************************************)
EXTENDS OrphanList

HandleSteps == {"persist", "chunk", "next", "frontier", "unlist", "final", "free"}
ListedSteps == {"persist", "chunk", "next", "frontier", "restart", "drop", "unlist"}

\* The list in memory and the captured pointers agree, but for the pointer of
\* an inode listed and not yet written back
Chained ==
    /\ \A j, k \in 1 .. Len(chain) : chain[j] = chain[k] => j = k
    /\ head = IF Len(chain) = 0 THEN None ELSE chain[1]
    /\ \A k \in 1 .. Len(chain) :
         /\ bit[chain[k]]
         /\ step[chain[k]] # "persist" =>
              slot[chain[k]].dtime = IF k < Len(chain) THEN chain[k + 1] ELSE None

\* What each step of an operation can rely on
TaskOK(i) ==
    /\ i \in hold <=> step[i] \in HandleSteps
    /\ step[i] \in ListedSteps => Listed(i)
    /\ step[i] \in {"final", "free"} => ~Listed(i) /\ bit[i]
    /\ step[i] = "persist" => mode = "run" /\ job[i] \in {"truncate", "unlink"}
    /\ step[i] \notin {"persist", "idle"} => job[i] \in {"truncate", "reclaim", "again"}
    /\ step[i] \in {"drop", "free"} => job[i] # "truncate"
    /\ step[i] # "idle" =>
         /\ job[i] = "truncate" => mem[i].links = 1 /\ slot[i].links = 1
         /\ job[i] # "truncate" => mem[i].links = 0
    /\ step[i] \notin {"idle", "persist"} =>
         IF job[i] = "truncate" THEN mem[i].size = slot[i].size
         ELSE slot[i].links = 0 /\ (step[i] # "drop" => mem[i].size = 0)
    /\ step[i] \in {"unlist", "final", "free"} => mem[i].blocks <= mem[i].size

\* What is known of an inode no operation runs on
IdleOK(i) ==
    step[i] = "idle" /\ bit[i] =>
        /\ mem[i].links = slot[i].links
        /\ mode # "mount" /\ i \notin lost
             /\ \/ slot[i].links = 0 \/ slot[i].blocks > slot[i].size
                \/ mem[i].blocks > mem[i].size
           => Listed(i)
        /\ open[i] /\ mem[i].links = 0 => Listed(i)

\* The block bitmap and the extent trees, in memory and captured
BlocksOK(i) ==
    /\ ~bit[i] => used[i] = 0
    /\ bit[i] => used[i] = mem[i].blocks
    /\ bit[i] /\ step[i] \in {"idle", "drop", "restart", "persist", "chunk", "next"}
         => slot[i].blocks = mem[i].blocks

\* The i_dtime of live inodes
DtimeOK(i) ==
    bit[i] /\ i \notin lost /\ mode # "mount" =>
        /\ mem[i].links = 1 =>
             mem[i].dtime = None \/ (mode = "recover" /\ step[i] = "idle" /\ Listed(i))
        /\ slot[i].links = 1 /\ i \notin hold /\ ~Listed(i) => slot[i].dtime = None

\* Before and during a recovery
MountOK ==
    /\ mode # "recover" => todo = {}
    /\ mode = "mount" =>
         /\ Metadata = durable /\ mem = slot /\ chain = <<>>
         /\ \A i \in Inodes : step[i] = "idle" /\ ~open[i]
    /\ \A i \in todo : Listed(i) /\ step[i] = "idle"
    /\ mode # "run" =>
         \A i \in Inodes :
            /\ ~open[i]
            /\ bit[i] /\ slot[i].links = 1 =>
                 /\ durable.bit[i]
                 /\ durable.slot[i].links = 1
                 /\ durable.slot[i].size = slot[i].size

LocalOK(i) == TaskOK(i) /\ IdleOK(i) /\ BlocksOK(i) /\ DtimeOK(i)

DurableOK == UnfinishedIsListed /\ BlocksAccounted /\ LiveHasNoDtime

\* In every state the mirror, the captured pointers, the cached descriptors and
\* the block bitmap agree as far as the step each operation is at allows, and
\* what is durable is good: the inductive invariant (orphan_add, orphan_del,
\* shrink_restartable, try_reclaim_deleted_inode, recover_orphan_list)
OrphanInv ==
    /\ TypeOK
    /\ mode # "mount" => Chained
    /\ \A i \in Inodes : LocalOK(i)
    /\ MountOK
    /\ DurableOK
=============================================================================
