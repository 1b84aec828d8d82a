------------------------ MODULE JournalPipelineProofs ------------------------
(***************************************************************************)
(* What holds of the journal pipeline for any number of tasks, any log     *)
(* size, any reservation sizes and any bound on faults: its types, the     *)
(* order of its seats, that fsync and sync(2) never report work durable    *)
(* that is not, and that a clean unmount leaves nothing behind.            *)
(*                                                                         *)
(* The safety theorems rest on one inductive invariant, Inv, in four parts:*)
(*   SeatInv     the commit thread's program counter against the seats     *)
(*   WorkInv     where the newest captured work is                         *)
(*   SyncInv     what a waiter waits for against what it wants             *)
(*   UnmountInv  nobody is left once the unmount began                     *)
(***************************************************************************)
EXTENDS JournalPipelineTypes

\* The committing seat is filled exactly while the committer works on it, its
\* transaction is newer than everything committed until committed_tid is
\* stored, and it leaves the seat committed or with the journal aborted.  The
\* seat operations join is always the newest transaction.
SeatInv ==
    /\ SeatOrder
    /\ committing # None <=> cpc \in CommitSteps
    /\ cpc \in CommitSteps \ {"clear"} => committed < committing.tid
    /\ cpc = "clear" => committed = committing.tid \/ aborted
    /\ running # None => running.tid + 1 = nextTid
    /\ locking # None => locking.tid + 1 = nextTid

\* The journal is aborted and nothing can reach the log any more
Dead == aborted /\ cpc \notin CommitSteps \cup {"lock"}

\* The newest captured work is committed, sits in a seat that must be
\* committed, or is lost to an abort
WorkInv ==
    /\ lastWork < nextTid
    /\ running # None /\ lastWork = running.tid => Committable(running)
    /\ locking # None /\ lastWork = locking.tid => Committable(locking)
    /\ \/ lastWork <= committed
       \/ running # None /\ lastWork = running.tid
       \/ locking # None /\ lastWork = locking.tid
       \/ committing # None /\ lastWork <= committing.tid
       \/ Dead

SyncInv ==
    \A t \in Tasks :
        /\ pc[t] \in {"sync", "wait"} => goal[t] <= target[t]
        /\ pc[t] = "durable" => goal[t] <= committed

UnmountInv ==
    /\ upc # "mounted" => \A t \in Tasks : pc[t] = "idle"
    /\ upc = "clean" =>
         /\ cpc = "exit" /\ used = 0 /\ lastWork <= committed
         /\ running = None /\ locking = None /\ committing = None

Inv == TypeOK /\ SeatInv /\ WorkInv /\ SyncInv /\ UnmountInv

-----------------------------------------------------------------------------
(* Steps that move no transaction                                           *)

SeatKept(x, y) == IF x = None THEN y = None ELSE Grows(x, y)

\* Every transaction stays in its seat, and the commit thread stays out of the
\* commit steps, or where it is
Quiet ==
    /\ SeatKept(running, running') /\ SeatKept(locking, locking')
    /\ UNCHANGED <<committing, nextTid, committed>>
    /\ aborted => aborted'
    /\ \/ cpc' = cpc
       \/ /\ cpc \notin CommitSteps /\ cpc' \notin CommitSteps
          /\ cpc' = "lock" => ~aborted

\* Seats that nobody writes are kept
LEMMA SeatsUnchanged ==
    ASSUME TypeOK, UNCHANGED <<running, locking>>
    PROVE  SeatKept(running, running') /\ SeatKept(locking, locking')
BY GrowsReflexive DEF TypeOK, SeatKept

\* A quiet step keeps the order of the seats
LEMMA QuietSeats ==
    ASSUME TypeOK, SeatInv, Quiet
    PROVE  SeatInv'
<1> USE DEF TypeOK, SeatInv, Quiet
<1>1. /\ running = None <=> running' = None
      /\ running # None => running'.tid = running.tid
      /\ locking = None <=> locking' = None
      /\ locking # None => locking'.tid = locking.tid
  BY PipelineAssumption DEF SeatKept, Grows
<1>2. SeatOrder'
  BY <1>1 DEF SeatOrder
<1>3. (committing # None <=> cpc \in CommitSteps)'
  OBVIOUS
<1>4. (cpc \in CommitSteps \ {"clear"} => committed < committing.tid)'
  OBVIOUS
<1>5. (cpc = "clear" => committed = committing.tid \/ aborted)'
  BY DEF CommitSteps
<1>6. QED
  BY <1>1, <1>2, <1>3, <1>4, <1>5

\* A quiet step that captures nothing loses no work
LEMMA QuietWork ==
    ASSUME TypeOK, SeatInv, WorkInv, Quiet, lastWork' = lastWork
    PROVE  WorkInv'
<1> USE DEF TypeOK, WorkInv, Quiet
<1>1. /\ running = None <=> running' = None
      /\ running # None => running'.tid = running.tid
      /\ locking = None <=> locking' = None
      /\ locking # None => locking'.tid = locking.tid
  BY PipelineAssumption DEF SeatKept, Grows
<1>2. /\ running # None /\ Committable(running) => Committable(running')
      /\ locking # None /\ Committable(locking) => Committable(locking')
  BY PipelineAssumption DEF SeatKept, Grows, Committable, TransactionType
<1>3. Dead => Dead'
  BY DEF Dead
<1>4. /\ running' # None /\ lastWork = running'.tid => Committable(running')
      /\ locking' # None /\ lastWork = locking'.tid => Committable(locking')
  BY <1>1, <1>2
<1>5. QED
  BY <1>1, <1>3, <1>4 DEF Committable

\* A task's own step is quiet, an admission apart
LEMMA TaskStepQuiet ==
    ASSUME TypeOK, NEW t \in Tasks, TaskStep(t), ~Admit(t)
    PROVE  Quiet /\ UNCHANGED <<lastWork, used, upc>>
<1> USE DEF Quiet, seatVars, flagVars, threadVars, boundVars, histVars
<1>1. ASSUME UNCHANGED <<running, locking, committing, nextTid, committed, aborted, cpc>>
      PROVE  Quiet
  BY <1>1, SeatsUnchanged
<1>2. CASE AdmitCheck(t)
  BY <1>1, <1>2 DEF AdmitCheck
<1>3. CASE EnterRoom(t)
  BY <1>1, <1>3 DEF EnterRoom
<1>4. CASE EnterSpace(t)
  BY <1>1, <1>4 DEF EnterSpace
<1>5. CASE DemandCommit(t)
  BY <1>1, <1>5 DEF DemandCommit
<1>6. CASE AdmissionWait(t)
  BY <1>1, <1>6 DEF AdmissionWait
<1>7. CASE StopNotify(t)
  BY <1>1, <1>7 DEF StopNotify
<1>8. CASE RestartNotify(t)
  BY <1>1, <1>8 DEF RestartNotify
<1>9. CASE LogWaitCommit(t)
  BY <1>1, <1>9 DEF LogWaitCommit
<1>10. CASE CommitWait(t)
  BY <1>1, <1>10 DEF CommitWait
<1>11. CASE Finish(t)
  BY <1>1, <1>11 DEF Finish
<1>12. CASE Stop(t)
  <2>1. \A x \in TransactionType : Grows(x, x) /\ Grows(x, Released(t, x))
    BY GrowsReflexive, ReleasedGrows
  <2>2. SeatKept(running, running') /\ SeatKept(locking, locking')
    BY <1>12, <2>1 DEF Stop, UpdateSeat, InRunning, InLocking, SeatKept, TypeOK
  <2>3. QED
    BY <1>12, <2>2 DEF Stop
<1>13. CASE Restart(t)
  <2>1. \A x \in TransactionType : Grows(x, x) /\ Grows(x, Released(t, x))
    BY GrowsReflexive, ReleasedGrows
  <2>2. SeatKept(running, running') /\ SeatKept(locking, locking')
    BY <1>13, <2>1 DEF Restart, UpdateSeat, InRunning, InLocking, SeatKept, TypeOK
  <2>3. QED
    BY <1>13, <2>2 DEF Restart
<1>14. QED
  BY <1>2, <1>3, <1>4, <1>5, <1>6, <1>7, <1>8, <1>9, <1>10, <1>11, <1>12, <1>13, Zenon
  DEF TaskStep

\* So is what it may choose to do, a capture apart
LEMMA TaskChoiceQuiet ==
    ASSUME TypeOK, NEW t \in Tasks, TaskChoice(t), \A free \in BOOLEAN : ~Capture(t, free)
    PROVE  Quiet /\ UNCHANGED <<lastWork, used, upc>>
<1> USE DEF Quiet, seatVars, flagVars, threadVars, boundVars, histVars
<1>1. ASSUME UNCHANGED <<running, locking, committing, nextTid, committed, cpc>>,
             aborted => aborted'
      PROVE  Quiet
  BY <1>1, SeatsUnchanged
<1>2. ASSUME NEW n \in Credits, Begin(t, n)
      PROVE  Quiet /\ UNCHANGED <<lastWork, used, upc>>
  BY <1>1, <1>2 DEF Begin
<1>3. ASSUME NEW n \in Credits, Extend(t, n)
      PROVE  Quiet /\ UNCHANGED <<lastWork, used, upc>>
  <2>1. n \in Nat
    BY PipelineAssumption
  <2>2. running # None => running.outstanding + n - left[t] \in Nat
    BY <1>3, <2>1 DEF Extend, TransactionType, TypeOK
  <2>3. SeatKept(running, running') /\ SeatKept(locking, locking')
    BY <1>3, <2>2, ExtendedGrows, GrowsReflexive DEF Extend, InRunning, SeatKept, TypeOK
  <2>4. QED
    BY <1>3, <2>3 DEF Extend
<1>4. CASE FsError(t)
  BY <1>1, <1>4 DEF FsError
<1>5. CASE Fsync(t)
  BY <1>1, <1>5 DEF Fsync
<1>6. CASE Sync(t)
  BY <1>1, <1>6 DEF Sync
<1>7. QED
  BY <1>2, <1>3, <1>4, <1>5, <1>6 DEF TaskChoice

\* An admission may create the transaction it joins
LEMMA AdmitInv ==
    ASSUME TypeOK, SeatInv, WorkInv, NEW t \in Tasks, Admit(t)
    PROVE  SeatInv' /\ WorkInv'
<1> USE DEF seatVars, flagVars, boundVars, histVars
<1>1. /\ Joined \in TransactionType
      /\ running = None => Joined.tid = nextTid
      /\ running # None => Joined = running
  BY JoinedType
<1>2. Grows(Joined, Joined) /\ Grows(Joined, Entered(Joined, need[t]))
  BY <1>1, GrowsReflexive, EnteredGrows DEF TypeOK
<1>3. /\ UNCHANGED <<locking, committing, committed, aborted, cpc, lastWork>>
      /\ \/ UNCHANGED <<running, nextTid>>
         \/ /\ locking = None
            /\ Grows(Joined, running')
            /\ nextTid' = IF running = None THEN nextTid + 1 ELSE nextTid
  BY <1>2 DEF Admit, LockedBarrier
<1>4. CASE UNCHANGED <<running, nextTid>> \/ running # None
  <2>1. nextTid' = nextTid
    BY <1>3, <1>4
  <2>2. SeatKept(running, running') /\ SeatKept(locking, locking')
    BY <1>1, <1>3, <1>4, GrowsReflexive DEF TypeOK, SeatKept
  <2>3. Quiet
    BY <1>3, <2>1, <2>2 DEF Quiet
  <2>4. QED
    BY <1>3, <2>3, QuietSeats, QuietWork
<1>5. CASE running = None /\ ~UNCHANGED <<running, nextTid>>
  <2>1. /\ locking = None
        /\ running' \in TransactionType
        /\ running'.tid = nextTid
        /\ nextTid' = nextTid + 1
    BY <1>1, <1>3, <1>5 DEF Grows
  <2>2. committing # None => committing.tid \in Nat
    BY DEF TypeOK, TransactionType
  <2>3. SeatOrder'
    BY <1>3, <2>1, <2>2 DEF TypeOK, SeatInv, SeatOrder
  <2>4. SeatInv'
    BY <1>3, <2>1, <2>3 DEF TypeOK, SeatInv
  <2>5. WorkInv'
    BY <1>3, <1>5, <2>1 DEF TypeOK, WorkInv, Dead
  <2>6. QED
    BY <2>4, <2>5
<1>6. QED
  BY <1>4, <1>5

\* A capture is the only step that creates work
LEMMA CaptureInv ==
    ASSUME TypeOK, SeatInv, WorkInv, NEW t \in Tasks, NEW free \in BOOLEAN, Capture(t, free)
    PROVE  SeatInv' /\ WorkInv'
<1> USE DEF seatVars, flagVars, threadVars, boundVars, histVars
<1>1. \A x \in TransactionType :
        /\ Grows(x, x) /\ Grows(x, Captured(t, x, free))
        /\ Captured(t, x, free).tid = x.tid
        /\ Committable(Captured(t, x, free))
  <2>1. TAKE x \in TransactionType
  <2>2. Grows(x, x) /\ Grows(x, Captured(t, x, free)) /\ Captured(t, x, free).captured > 0
    BY GrowsReflexive, CapturedGrows
  <2>3. Captured(t, x, free) # None
    BY <2>2, PipelineAssumption DEF Grows
  <2>4. QED
    BY <2>2, <2>3 DEF Grows, Committable
<1>2. SeatKept(running, running') /\ SeatKept(locking, locking')
  BY <1>1 DEF Capture, UpdateSeat, InRunning, InLocking, SeatKept, TypeOK
<1>3. Quiet
  BY <1>2 DEF Capture, Quiet
<1>4. SeatInv'
  BY <1>3, QuietSeats
<1>5. \/ running' # None /\ running'.tid = htid[t] /\ Committable(running')
      \/ locking' # None /\ locking'.tid = htid[t] /\ Committable(locking')
  <2>1. CASE InRunning(htid[t])
    <3>1. running \in TransactionType /\ running' = Captured(t, running, free)
      BY <2>1 DEF Capture, UpdateSeat, InRunning, TypeOK
    <3>2. QED
      BY <1>1, <2>1, <3>1 DEF InRunning, Committable
  <2>2. CASE ~InRunning(htid[t])
    <3>1. InLocking(htid[t])
      BY <2>2 DEF Capture
    <3>2. locking \in TransactionType /\ locking' = Captured(t, locking, free)
      BY <2>2, <3>1 DEF Capture, UpdateSeat, InLocking, TypeOK
    <3>3. QED
      BY <1>1, <3>1, <3>2, Zenon DEF InLocking, Committable
  <2>3. QED
    BY <2>1, <2>2, Zenon
<1>6. lastWork < nextTid /\ htid[t] + 1 = nextTid /\ htid[t] \in Nat
  BY TidTypes DEF Capture, InRunning, InLocking, SeatInv, WorkInv
<1>7. lastWork' = htid[t] /\ nextTid' = nextTid
  BY <1>6, TidTypes DEF Capture, Larger
<1>8. ~(running' # None /\ locking' # None)
  BY <1>4 DEF SeatInv, SeatOrder
<1>9. QED
  BY <1>4, <1>5, <1>6, <1>7, <1>8, TidTypes DEF WorkInv

-----------------------------------------------------------------------------
(* Steps of the commit thread and of the unmount                            *)

\* What the commit thread does between two commits (arm, poll, checkpoint) is quiet
LEMMA ThreadQuiet ==
    ASSUME TypeOK,
           \/ Arm \/ Poll \/ AdvanceCheck \/ AfterCommit \/ LazyCheckpoint \/ Reclaim
           \/ ReclaimNotify \/ ReclaimFail \/ FlushFail \/ StopCommitThread \/ Shutdown
           \/ AgeTimeout
    PROVE  Quiet /\ UNCHANGED lastWork
<1> USE DEF seatVars, flagVars, threadVars, taskVars, boundVars, histVars, LoopOr
<1>1. ASSUME UNCHANGED <<running, locking, committing, nextTid, committed>>,
             aborted => aborted',
             \/ cpc' = cpc
             \/ /\ cpc \notin CommitSteps /\ cpc' \notin CommitSteps
                /\ cpc' = "lock" => ~aborted
      PROVE  Quiet
  BY <1>1, SeatsUnchanged DEF Quiet
<1>2. CASE Arm
  BY <1>1, <1>2 DEF Arm, CommitSteps
<1>3. CASE Poll
  BY <1>1, <1>3 DEF Poll, CommitSteps
<1>4. CASE AdvanceCheck
  BY <1>1, <1>4 DEF AdvanceCheck, CommitSteps
<1>5. CASE AfterCommit
  BY <1>1, <1>5 DEF AfterCommit, CommitSteps
<1>6. CASE LazyCheckpoint
  BY <1>1, <1>6 DEF LazyCheckpoint, CommitSteps
<1>7. CASE Reclaim
  BY <1>1, <1>7 DEF Reclaim, CommitSteps
<1>8. CASE ReclaimNotify
  BY <1>1, <1>8 DEF ReclaimNotify, CommitSteps
<1>9. CASE ReclaimFail
  BY <1>1, <1>9 DEF ReclaimFail, CommitSteps
<1>10. CASE FlushFail
  BY <1>1, <1>10 DEF FlushFail, CommitSteps
<1>11. CASE StopCommitThread
  BY <1>1, <1>11 DEF StopCommitThread, CommitSteps
<1>12. CASE Shutdown
  BY <1>1, <1>12 DEF Shutdown, CommitSteps
<1>13. CASE AgeTimeout
  <2>1. SeatKept(running, running') /\ SeatKept(locking, locking')
    BY <1>13, ExpiredGrows, GrowsReflexive DEF AgeTimeout, InRunning, SeatKept, TypeOK
  <2>2. QED
    BY <1>13, <2>1 DEF AgeTimeout, Quiet, CommitSteps
<1>14. QED
  BY <1>2, <1>3, <1>4, <1>5, <1>6, <1>7, <1>8, <1>9, <1>10, <1>11, <1>12, <1>13

\* The seats move when a transaction is staged or parked ...
LEMMA AdvanceInv ==
    ASSUME TypeOK, SeatInv, WorkInv, AdvancePipeline
    PROVE  SeatInv' /\ WorkInv'
<1> USE DEF flagVars, histVars
<1>0. /\ running # None => running.tid \in Nat
      /\ locking # None => locking.tid \in Nat
      /\ committing # None => committing.tid \in Nat
      /\ nextTid \in Nat /\ committed \in Nat /\ lastWork \in Nat
  BY TidTypes
<1>1. /\ UNCHANGED <<nextTid, committed, aborted, lastWork>>
      /\ cpc = "lock" /\ committing = None
  BY DEF AdvancePipeline, SeatInv, CommitSteps
<1>2. \/ /\ locking # None /\ committing' = locking /\ locking' = None
         /\ running' = running /\ cpc' = "staged"
      \/ /\ locking = None /\ running # None /\ committing' = running
         /\ locking' = None /\ running' = None /\ cpc' = "staged"
      \/ /\ locking = None /\ running # None /\ locking' = running
         /\ running' = None /\ committing' = None /\ cpc' = "after"
      \/ /\ UNCHANGED <<running, locking>> /\ committing' = None /\ cpc' = "after"
  BY <1>1 DEF AdvancePipeline, StageCommitting, Due, Committable
<1>3. SeatInv'
  <2>1. SeatOrder'
    BY <1>0, <1>1, <1>2 DEF SeatInv, SeatOrder
  <2>2. QED
    BY <1>0, <1>1, <1>2, <2>1 DEF SeatInv, SeatOrder, CommitSteps
<1>4. WorkInv'
  BY <1>0, <1>1, <1>2 DEF SeatInv, SeatOrder, WorkInv, Dead, CommitSteps
<1>5. QED
  BY <1>3, <1>4

\* ... the commit of a staged one moves the program counter only, until its tid
\* is stored ...
LEMMA CommitInv ==
    ASSUME TypeOK, SeatInv, WorkInv,
           \/ StagedNotify \/ CommitTransaction \/ DrainTail \/ CommitFail
           \/ StoreCommitted
    PROVE  SeatInv' /\ WorkInv'
<1> USE DEF seatVars, flagVars, threadVars, taskVars, boundVars, histVars
<1>0. /\ running # None => running.tid \in Nat
      /\ locking # None => locking.tid \in Nat
      /\ committing # None => committing.tid \in Nat
      /\ nextTid \in Nat /\ committed \in Nat /\ lastWork \in Nat
  BY TidTypes
<1>1. /\ UNCHANGED <<running, locking, committing, nextTid, lastWork>>
      /\ cpc \in CommitSteps \ {"clear"} /\ cpc' \in CommitSteps
      /\ \/ committed' = committed /\ (cpc' = "clear" => aborted')
         \/ committed' = committing.tid /\ cpc' = "clear"
  BY Zenon DEF StagedNotify, CommitTransaction, DrainTail, CommitFail, StoreCommitted,
         CommitSteps
<1>2. committing # None /\ committed < committing.tid
  BY <1>1 DEF SeatInv
<1>3. SeatOrder'
  BY <1>0, <1>1, <1>2 DEF SeatInv, SeatOrder
<1>4. SeatInv'
  BY <1>0, <1>1, <1>2, <1>3 DEF SeatInv, CommitSteps
<1>5. WorkInv'
  BY <1>0, <1>1, <1>2 DEF WorkInv, Dead, Committable
<1>6. QED
  BY <1>4, <1>5

\* ... and the slot is cleared with the transaction committed, or dead
LEMMA ClearInv ==
    ASSUME TypeOK, SeatInv, WorkInv, ClearCommitting
    PROVE  SeatInv' /\ WorkInv'
<1> USE DEF flagVars, histVars
<1>0. /\ running # None => running.tid \in Nat
      /\ locking # None => locking.tid \in Nat
      /\ committing # None => committing.tid \in Nat
      /\ nextTid \in Nat /\ committed \in Nat /\ lastWork \in Nat
  BY TidTypes
<1>1. /\ UNCHANGED <<running, locking, nextTid, committed, aborted, lastWork>>
      /\ cpc = "clear" /\ committing' = None
      /\ cpc' \notin CommitSteps \cup {"lock"}
  BY DEF ClearCommitting, CommitSteps
<1>2. committing # None /\ (committed = committing.tid \/ aborted)
  BY <1>1 DEF SeatInv, CommitSteps
<1>3. SeatOrder'
  BY <1>0, <1>1, <1>2 DEF SeatInv, SeatOrder
<1>4. SeatInv'
  BY <1>1, <1>3 DEF SeatInv, CommitSteps
<1>5. WorkInv'
  BY <1>0, <1>1, <1>2 DEF WorkInv, Dead, Committable
<1>6. QED
  BY <1>4, <1>5

\* The unmount drops the seats of an aborted journal, and commits those of a
\* healthy one, oldest first
LEMMA FlushInv ==
    ASSUME TypeOK, SeatInv, WorkInv, FlushOnUnmount \/ FlushNext
    PROVE  SeatInv' /\ WorkInv'
<1> USE DEF flagVars, histVars
<1>0. /\ running # None => running.tid \in Nat
      /\ locking # None => locking.tid \in Nat
      /\ committing # None => committing.tid \in Nat
      /\ nextTid \in Nat /\ committed \in Nat /\ lastWork \in Nat
  BY TidTypes
<1>1. /\ UNCHANGED <<nextTid, committed, aborted, lastWork>>
      /\ committing = None
      /\ cpc \in {"exit", "flush"}
  BY Zenon DEF FlushOnUnmount, FlushNext, SeatInv, CommitSteps
<1>2. \/ /\ cpc' \in {"exit", "flush"} /\ UNCHANGED <<running, locking>>
         /\ committing' = None
      \/ /\ cpc' = "exit" /\ aborted /\ committing' = None
         /\ running' = None /\ locking' = None
      \/ /\ cpc' = "flush" /\ committing' = None
         /\ locking # None /\ ~Committable(locking)
         /\ locking' = None /\ running' = running
      \/ /\ cpc' = "flush" /\ committing' = None
         /\ locking = None /\ running # None /\ ~Committable(running)
         /\ locking' = None /\ running' = None
      \/ /\ cpc' = "commit" /\ locking # None /\ committing' = locking
         /\ locking' = None /\ running' = running
      \/ /\ cpc' = "commit" /\ locking = None /\ running # None /\ committing' = running
         /\ locking' = None /\ running' = None
  BY <1>1, Zenon DEF FlushOnUnmount, FlushNext, Leftover, StageCommitting
<1>3. SeatInv'
  <2>1. SeatOrder'
    BY <1>0, <1>1, <1>2 DEF SeatInv, SeatOrder
  <2>2. QED
    BY <1>0, <1>1, <1>2, <2>1 DEF SeatInv, SeatOrder, CommitSteps
<1>4. WorkInv'
  BY <1>0, <1>1, <1>2 DEF SeatInv, SeatOrder, WorkInv, Dead, CommitSteps
<1>5. QED
  BY <1>3, <1>4

-----------------------------------------------------------------------------
(* Waiters and unmount                                                      *)

\* What sync(2) waits for covers all work done, or all of it is committed
LEMMA SyncTargetCovers ==
    ASSUME TypeOK, SeatInv, WorkInv
    PROVE  /\ SyncTarget # 0 => lastWork <= SyncTarget
           /\ SyncTarget = 0 /\ ~aborted => lastWork <= committed
<1>0. /\ running # None => running.tid \in Nat \ {0}
      /\ locking # None => locking.tid \in Nat \ {0}
      /\ committing # None => committing.tid \in Nat \ {0}
      /\ committed \in Nat /\ lastWork \in Nat
  BY TidTypes
<1>1. committing # None => committed <= committing.tid /\ ~Dead
  BY DEF SeatInv, SeatOrder, Dead
<1>2. CASE running # None
  BY <1>0, <1>1, <1>2 DEF SeatInv, SeatOrder, WorkInv, SyncTarget, Dead
<1>3. CASE running = None
  BY <1>0, <1>1, <1>3
  DEF SeatInv, SeatOrder, WorkInv, SyncTarget, Committable, Dead
<1>4. QED
  BY <1>2, <1>3

\* No step of a task makes a waiter (log_wait_commit) believe too much
LEMMA TaskSync ==
    ASSUME TypeOK, SeatInv, WorkInv, SyncInv,
           NEW t \in Tasks, TaskStep(t) \/ TaskChoice(t)
    PROVE  SyncInv'
<1>0. /\ pc \in [Tasks -> TaskStates] /\ committed \in Nat
      /\ target \in [Tasks -> Nat] /\ goal \in [Tasks -> Nat]
  BY DEF TypeOK
<1> USE <1>0 DEF SyncInv, seatVars, flagVars, threadVars, boundVars, histVars
<1>1. CASE AdmitCheck(t)
  BY <1>1 DEF AdmitCheck, Refuse
<1>2. CASE Admit(t)
  BY <1>2 DEF Admit, WaitFor
<1>3. CASE EnterRoom(t)
  BY <1>3 DEF EnterRoom
<1>4. CASE EnterSpace(t)
  BY <1>4 DEF EnterSpace
<1>5. CASE DemandCommit(t)
  BY <1>5 DEF DemandCommit
<1>6. CASE AdmissionWait(t)
  BY <1>6 DEF AdmissionWait, Refuse
<1>7. CASE Stop(t)
  BY <1>7 DEF Stop
<1>8. CASE StopNotify(t)
  BY <1>8 DEF StopNotify
<1>9. CASE Restart(t)
  BY <1>9 DEF Restart
<1>10. CASE RestartNotify(t)
  BY <1>10 DEF RestartNotify
<1>11. CASE LogWaitCommit(t)
  BY <1>11 DEF LogWaitCommit
<1>12. CASE CommitWait(t)
  BY <1>12 DEF CommitWait
<1>13. CASE Finish(t)
  BY <1>13 DEF Finish
<1>14. ASSUME NEW n \in Credits, Begin(t, n)
      PROVE  SyncInv'
  BY <1>14 DEF Begin
<1>15. ASSUME NEW n \in Credits, Extend(t, n)
      PROVE  SyncInv'
  BY <1>15 DEF Extend
<1>16. ASSUME NEW free \in BOOLEAN, Capture(t, free)
      PROVE  SyncInv'
  BY <1>16 DEF Capture
<1>17. CASE FsError(t)
  BY <1>17 DEF FsError
<1>18. CASE Fsync(t)
  BY <1>18 DEF Fsync
<1>19. CASE Sync(t)
  BY <1>19, SyncTargetCovers DEF Sync
<1> HIDE DEF SyncInv, seatVars, flagVars, threadVars, boundVars, histVars
<1>20. QED
  BY <1>1, <1>2, <1>3, <1>4, <1>5, <1>6, <1>7, <1>8, <1>9, <1>10, <1>11, <1>12, <1>13,
     <1>14, <1>15, <1>16, <1>17, <1>18, <1>19
  DEF TaskStep, TaskChoice

\* The committed tid only grows, and the commit thread changes no waiter
LEMMA ThreadSync ==
    ASSUME TypeOK, SeatInv, SyncInv, CommitStep \/ AgeTimeout \/ StopCommitThread \/ Fault
    PROVE  SyncInv'
<1> USE DEF seatVars, flagVars, threadVars, taskVars, boundVars, histVars
<1>1. UNCHANGED <<pc, goal, target>> /\ (committed' = committed \/ StoreCommitted)
  <2>1. CASE Arm \/ Poll \/ AdvanceCheck \/ AdvancePipeline \/ StagedNotify
    BY <2>1, Zenon DEF Arm, Poll, AdvanceCheck, AdvancePipeline, StagedNotify
  <2>2. CASE CommitTransaction \/ DrainTail \/ StoreCommitted \/ ClearCommitting
    BY <2>2, Zenon DEF CommitTransaction, DrainTail, StoreCommitted, ClearCommitting
  <2>3. CASE AfterCommit \/ LazyCheckpoint \/ Reclaim \/ ReclaimNotify \/ AgeTimeout
    BY <2>3 DEF AfterCommit, LazyCheckpoint, Reclaim, ReclaimNotify, AgeTimeout
  <2>4. CASE FlushOnUnmount \/ FlushNext \/ StopCommitThread
    BY <2>4, Zenon DEF FlushOnUnmount, FlushNext, StopCommitThread
  <2>5. CASE Fault
    BY <2>5, Zenon DEF Fault, CommitFail, ReclaimFail, FlushFail, Shutdown
  <2>6. QED
    BY <2>1, <2>2, <2>3, <2>4, <2>5 DEF CommitStep
<1>2. StoreCommitted => committed' = committing.tid /\ committed < committing.tid
  BY DEF StoreCommitted, SeatInv, CommitSteps
<1>3. committed' \in Nat /\ committed <= committed'
  BY <1>1, <1>2, TidTypes DEF StoreCommitted, SeatInv, CommitSteps
<1>4. QED
  BY <1>1, <1>3 DEF SyncInv, TypeOK

\* Once the unmount began no task does anything
LEMMA TaskUnmount ==
    ASSUME TypeOK, SeatInv, WorkInv, UnmountInv, NEW t \in Tasks,
           TaskStep(t) \/ TaskChoice(t)
    PROVE  UnmountInv'
<1>1. upc = "mounted"
  <2>1. pc[t] # "idle" => upc = "mounted"
    BY DEF UnmountInv
  <2>2. pc[t] = "idle" => upc = "mounted"
    BY Zenon DEF TaskStep, TaskChoice, AdmitCheck, Admit, EnterRoom, EnterSpace, DemandCommit,
           AdmissionWait, Stop, StopNotify, Restart, RestartNotify, LogWaitCommit,
           CommitWait, Finish, Begin, Extend, Capture, FsError, Fsync, Sync
  <2>3. QED
    BY <2>1, <2>2
<1>2. upc' = upc
  BY TaskStepQuiet, TaskChoiceQuiet, Zenon DEF Admit, Capture
<1>3. QED
  BY <1>1, <1>2 DEF UnmountInv

\* A clean unmount is the end, reached with the seats empty and the log drained
LEMMA ThreadUnmount ==
    ASSUME TypeOK, SeatInv, WorkInv, UnmountInv,
           CommitStep \/ AgeTimeout \/ StopCommitThread \/ Fault
    PROVE  UnmountInv'
<1> USE DEF seatVars, flagVars, threadVars, taskVars, boundVars, histVars
<1>1. CASE FlushNext
  <2>1. /\ UNCHANGED <<pc, committed, lastWork>>
        /\ upc = "flush" /\ cpc = "flush" /\ committing = None
    BY <1>1 DEF FlushNext, SeatInv, CommitSteps
  <2>2. ASSUME upc' = "clean"
        PROVE  /\ cpc' = "exit" /\ running' = None /\ locking' = None
               /\ committing' = None
               /\ ~aborted /\ running = None /\ locking = None
               /\ used' \in Reclaimed(TRUE)
    BY <1>1, <2>1, <2>2, Zenon DEF FlushNext, Leftover
  <2>3. ASSUME upc' = "clean"
        PROVE  used' = 0
    BY <2>1, <2>2, <2>3 DEF Reclaimed, RevokePending
  <2>4. ASSUME upc' = "clean"
        PROVE  lastWork <= committed
    BY <2>1, <2>2, <2>4 DEF WorkInv, Dead
  <2>5. upc' # "mounted"
    BY <1>1, <2>1, Zenon DEF FlushNext
  <2>6. QED
    BY <2>1, <2>2, <2>3, <2>4, <2>5, Zenon DEF UnmountInv
<1>2. CASE FlushOnUnmount
  BY <1>2 DEF FlushOnUnmount, UnmountInv
<1>3. CASE FlushFail
  BY <1>3 DEF FlushFail, UnmountInv
<1>4. CASE StopCommitThread
  BY <1>4 DEF StopCommitThread, UnmountInv
<1>5. CASE Shutdown
  BY <1>5 DEF Shutdown, UnmountInv
<1>6. ASSUME cpc # "exit", UNCHANGED <<pc, upc>>
      PROVE  UnmountInv'
  BY <1>6 DEF UnmountInv
<1>7. CASE AgeTimeout \/ ReclaimFail \/ CommitFail
  BY <1>6, <1>7 DEF AgeTimeout, ReclaimFail, CommitFail
<1>8. CASE Arm \/ Poll \/ AdvanceCheck \/ AdvancePipeline \/ StagedNotify
  BY <1>6, <1>8, Zenon DEF Arm, Poll, AdvanceCheck, AdvancePipeline, StagedNotify
<1>9. CASE CommitTransaction \/ DrainTail \/ StoreCommitted \/ ClearCommitting
  BY <1>6, <1>9, Zenon DEF CommitTransaction, DrainTail, StoreCommitted, ClearCommitting
<1>10. CASE AfterCommit \/ LazyCheckpoint \/ Reclaim \/ ReclaimNotify
  BY <1>6, <1>10, Zenon DEF AfterCommit, LazyCheckpoint, Reclaim, ReclaimNotify
<1>11. QED
  BY <1>1, <1>2, <1>3, <1>4, <1>5, <1>7, <1>8, <1>9, <1>10 DEF CommitStep, Fault

-----------------------------------------------------------------------------
(* Theorems                                                                 *)

\* A freshly mounted journal satisfies the invariant
LEMMA InvInit == Init => Inv
<1> SUFFICES ASSUME Init PROVE Inv
  OBVIOUS
<1>1. TypeOK
  BY TypeInit
<1>2. SeatInv /\ WorkInv /\ SyncInv /\ UnmountInv
  BY DEF Init, SeatInv, SeatOrder, CommitSteps, WorkInv, SyncInv, UnmountInv
<1>3. QED
  BY <1>1, <1>2 DEF Inv

\* Every step of a task, the commit thread, the unmount or an error keeps it
LEMMA InvNext == Inv /\ [Next]_vars => Inv'
<1> SUFFICES ASSUME TypeOK, SeatInv, WorkInv, SyncInv, UnmountInv, [Next]_vars
             PROVE  Inv'
  BY DEF Inv
<1>1. Flags'
  BY FlagsNext
<1>2. cpc \in CommitSteps => committing # None
  BY DEF SeatInv
<1>3. ASSUME NEW t \in Tasks, TaskStep(t) \/ TaskChoice(t)
      PROVE  Inv'
  <2>1. TypeOK'
    BY <1>1, <1>3, TypeTaskStep, TypeTaskChoice
  <2>2. SeatInv' /\ WorkInv'
    <3>1. CASE Admit(t)
      BY <3>1, AdmitInv
    <3>2. CASE \E free \in BOOLEAN : Capture(t, free)
      BY <3>2, CaptureInv
    <3>3. CASE ~Admit(t) /\ ~(\E free \in BOOLEAN : Capture(t, free))
      BY <1>3, <3>3, TaskStepQuiet, TaskChoiceQuiet, QuietSeats, QuietWork
    <3>4. QED
      BY <3>1, <3>2, <3>3
  <2>3. SyncInv' /\ UnmountInv'
    BY <1>3, TaskSync, TaskUnmount
  <2>4. QED
    BY <2>1, <2>2, <2>3 DEF Inv
<1>4. CASE CommitStep \/ AgeTimeout \/ StopCommitThread \/ Fault
  <2>1. TypeOK'
    BY <1>1, <1>2, <1>4, TypeCommitStep
  <2>2. SeatInv' /\ WorkInv'
    BY <1>4, ThreadQuiet, QuietSeats, QuietWork, AdvanceInv, CommitInv, ClearInv, FlushInv
    DEF CommitStep, Fault
  <2>3. SyncInv' /\ UnmountInv'
    BY <1>4, ThreadSync, ThreadUnmount
  <2>4. QED
    BY <2>1, <2>2, <2>3 DEF Inv
<1>5. CASE UNCHANGED vars
  <2> USE <1>5 DEF vars, seatVars, flagVars, threadVars, taskVars, boundVars, histVars
  <2>1. TypeOK'
    BY <1>1, Zenon DEF TypeOK
  <2>2. SeatInv'
    BY Zenon DEF SeatInv, SeatOrder
  <2>3. WorkInv'
    BY DEF WorkInv, Committable, Dead
  <2>4. SyncInv' /\ UnmountInv'
    BY Zenon DEF SyncInv, UnmountInv
  <2>5. QED
    BY <2>1, <2>2, <2>3, <2>4 DEF Inv
<1>6. QED
  BY <1>3, <1>4, <1>5 DEF Next

\* The inductive invariant holds in every reachable state of the pipeline
THEOREM Invariance == Spec => []Inv
BY InvInit, InvNext, PTL DEF Spec

\* The types hold, and the log never holds more than its ring, whatever the
\* number of tasks and the size of the log
THEOREM TypeCorrect == Spec => []TypeOK
<1>1. Inv => TypeOK
  BY DEF Inv
<1>2. QED
  BY <1>1, Invariance, PTL

\* Transactions reach the log in tid order: a draining transaction has no
\* successor, and the seats are ordered above what is committed
\* (admit's locked barrier, advance_pipeline, flush_on_unmount)
THEOREM SeatsOrdered == Spec => []SeatOrder
<1>1. Inv => SeatOrder
  BY DEF Inv, SeatInv
<1>2. QED
  BY <1>1, Invariance, PTL

\* fsync and sync(2) report success only for committed work, whatever commits
\* fail, whoever aborts the journal, and however many tasks wait
\* (sync_durability_target, log_wait_commit)
THEOREM NoFalseDurability == Spec => []SyncIsDurable
<1>1. Inv => SyncIsDurable
  BY DEF Inv, SyncInv, SyncIsDurable
<1>2. QED
  BY <1>1, Invariance, PTL

\* A clean unmount leaves no captured work uncommitted and no log in use
\* (stop_commit_thread, flush_on_unmount)
THEOREM NothingLeftBehind == Spec => []CleanUnmount
<1>1. Inv => CleanUnmount
  BY DEF Inv, UnmountInv, CleanUnmount, Seats
<1>2. QED
  BY <1>1, Invariance, PTL

-----------------------------------------------------------------------------
(* Capacity                                                                 *)

\* The quotient, multiplied back, does not exceed the dividend
LEMMA Quotient ==
    ASSUME NEW a \in Nat, NEW d \in Nat \ {0}
    PROVE  a \div d \in Nat /\ d * (a \div d) <= a
OBVIOUS

\* A product that is smaller has a smaller factor.
LEMMA Cancel ==
    ASSUME NEW d \in Nat \ {0}, NEW x \in Nat, NEW y \in Nat, d * x < d * (y + 1)
    PROVE  x <= y
<1> SUFFICES ASSUME x >= y + 1 PROVE FALSE
  OBVIOUS
<1>1. PICK k \in Nat : x = y + 1 + k
  <2>1. x - (y + 1) \in Nat
    OBVIOUS
  <2> QED
    BY <2>1
<1>2. d * x = d * (y + 1) + d * k
  BY <1>1
<1>3. d * k \in Nat /\ d * (y + 1) \in Nat
  OBVIOUS
<1> QED
  BY <1>2, <1>3

\* What check_capacity admits fits the ring, with its revoke and descriptor
\* blocks and the commit block (max_credits).
THEOREM AdmittedFits ==
    ASSUME NEW txn \in TransactionType, NEW extra \in Nat, HasRoom(txn, extra)
    PROVE  Footprint(txn, Reserved(txn, extra)) <= LogCap
<1> DEFINE b == Reserved(txn, extra)
           v == RevokeBlocks(txn)
           u == Monus(LogCap, 2)
           q == Descriptors(b)
           m == MaxCredits
<1>1. b \in Nat /\ v \in Nat
  BY DEF Reserved, RevokeBlocks, TransactionType
<1>2. u \in Nat /\ u + 1 <= LogCap /\ Tags \in Nat \ {0} /\ LogCap \in Nat
  BY PipelineAssumption DEF Monus
<1>3. b + v <= m
  BY DEF HasRoom
<1>4. Footprint(txn, b) = b + v + q + 1
  BY DEF Footprint
<1> HIDE DEF b, v, u
<1>5. q \in Nat /\ Tags * q <= b + Tags - 1
  BY <1>1, <1>2, Quotient DEF Descriptors
<1>6. m \in Nat /\ (Tags + 1) * m <= Tags * u
  <2>1. Tags * u \in Nat /\ Tags + 1 \in Nat \ {0}
    BY <1>2
  <2> QED
    BY <2>1, Quotient DEF MaxCredits, u
<1> HIDE DEF q, m
<1>7. PICK r \in Nat : m = b + v + r
  <2>1. m - (b + v) \in Nat
    BY <1>1, <1>3, <1>6
  <2> QED
    BY <1>1, <1>6, <2>1
<1>8. Tags * (b + v + q) = Tags * (b + v) + Tags * q
  BY <1>1, <1>2, <1>5
<1>9. (Tags + 1) * m = Tags * (b + v) + Tags * r + m
  BY <1>1, <1>2, <1>6, <1>7
<1>10. /\ Tags * r \in Nat /\ Tags * (b + v) \in Nat /\ Tags * q \in Nat
       /\ Tags * u \in Nat /\ Tags * (u + 1) = Tags * u + Tags
  BY <1>1, <1>2, <1>5
<1>11. Tags * (b + v + q) < Tags * (u + 1)
  BY <1>1, <1>2, <1>3, <1>5, <1>6, <1>8, <1>9, <1>10
<1>12. b + v + q <= u
  BY <1>1, <1>2, <1>5, <1>11, Cancel
<1> QED
  BY <1>1, <1>2, <1>4, <1>5, <1>12 DEF b
=============================================================================
