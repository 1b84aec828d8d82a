------------------------------ MODULE LogRing ------------------------------
(***************************************************************************)
(* The geometry of the on-disk journal and the arithmetic of transaction   *)
(* ids: what the commit writer, the recovery scanner and the checkpoint    *)
(* reader share.                                                           *)
(*                                                                         *)
(* Source: kernel/src/fs/fs_impls/ext4/journal/mod.rs (Tid,                *)
(* JournalGeometry).                                                       *)
(***************************************************************************)
EXTENDS Integers

CONSTANTS
    First,      \* s_first: the first log block that holds log data
    Maxlen,     \* s_maxlen: log blocks, the superblock's block 0 included
    TidSpan     \* number of transaction ids: 2^32 in the code

ASSUME RingAssumption ==
    /\ First \in Nat \ {0} /\ Maxlen \in Nat /\ First < Maxlen
    /\ TidSpan \in Nat \ {0} /\ TidSpan % 2 = 0

Ring  == First .. Maxlen - 1
Usable == Maxlen - First
Tids  == 0 .. TidSpan - 1

\* A log that awaits no checkpoint; 0 on disk
Clean == 0

-----------------------------------------------------------------------------
(* Positions                                                                *)

\* next_log_block
NextLogBlock(pos) == IF pos + 1 >= Maxlen THEN First ELSE pos + 1

\* Mutant: the block past the end is taken for the last one
AdvanceLogPast(pos, count) ==
    IF pos + count > Maxlen THEN pos + count - Usable ELSE pos + count

\* advance: count steps of next_log_block, count no more than the ring is long
AdvanceLog(pos, count) ==
    IF pos + count >= Maxlen THEN pos + count - Usable ELSE pos + count

\* free_log_blocks: on a dirty ring head = tail means that it is full
FreeLogBlocks(head, tail) ==
    IF tail = Clean
      THEN Usable
      ELSE IF tail >= head THEN tail - head ELSE Usable - (head - tail)

-----------------------------------------------------------------------------
(* Transaction ids                                                          *)

NextTid(t) == (t + 1) % TidSpan

PrevTid(t) == (t + TidSpan - 1) % TidSpan

\* Mutant: ids are compared as plain numbers
TidGeqPlain(a, b) == a >= b

\* Tid::geq: the sign of the wrapping difference
TidGeq(a, b) == (a - b + TidSpan) % TidSpan < TidSpan \div 2
=============================================================================
