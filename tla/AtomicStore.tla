----------------------------- MODULE AtomicStore -----------------------------
(***************************************************************************)
(* What the ext4 journal promises to the rest of the filesystem: a store   *)
(* of blocks whose state is made durable in whole-transaction steps.       *)
(*                                                                         *)
(*   live    what a reader sees now                                        *)
(*   frozen  the view of the transaction being committed, or None          *)
(*   stable  the view the last finished commit made durable                *)
(*   ops     number of operations performed; also the stamp an operation   *)
(*           leaves in the block it writes                                 *)
(*                                                                         *)
(* A crash rolls the store back to `stable', or to `frozen' when the       *)
(* commit record of the transaction in flight reached the platter.         *)
(* Everything else the journal does -- log writes, checkpoint, eviction,   *)
(* replay -- must be invisible here.                                       *)
(***************************************************************************)
EXTENDS Integers

CONSTANTS Blocks, None

VARIABLES live, frozen, stable, ops

storeVars == <<live, frozen, stable, ops>>

Owners == {"free", "meta", "data"}

\* A view: who owns each block, and the stamp of the write its content is from
Formatted(owner) ==
    [owner |-> owner, content |-> [b \in Blocks |-> 0]]

Init ==
    /\ \E owner \in [Blocks -> Owners] : live = Formatted(owner)
    /\ frozen = None
    /\ stable = live
    /\ ops = 0

\* One filesystem operation on block b: it takes the owner o
Operation(b, o) ==
    /\ ops' = ops + 1
    /\ live' = [owner   |-> [live.owner EXCEPT ![b] = o],
                content |-> [live.content EXCEPT
                               ![b] = IF o = "free" THEN 0 ELSE ops + 1]]
    /\ UNCHANGED <<frozen, stable>>

\* The running transaction stops accepting operations and starts committing
Freeze ==
    /\ frozen = None
    /\ frozen' = live
    /\ UNCHANGED <<live, stable, ops>>

\* Its commit finished: from here on no crash may undo it
Commit ==
    /\ frozen # None
    /\ stable' = frozen
    /\ frozen' = None
    /\ UNCHANGED <<live, ops>>

Crash ==
    /\ live' \in {stable} \cup ({frozen} \ {None})
    /\ stable' = live'
    /\ frozen' = None
    /\ UNCHANGED ops

Next ==
    \/ \E b \in Blocks, o \in Owners : Operation(b, o)
    \/ Freeze
    \/ Commit
    \/ Crash

Spec == Init /\ [][Next]_storeVars
==============================================================================
