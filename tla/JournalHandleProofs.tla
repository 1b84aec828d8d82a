------------------------- MODULE JournalHandleProofs -------------------------
(***************************************************************************)
(* t_updates counts the open handles, for any number of tasks: what lets   *)
(* advance_pipeline take a count of zero for a frozen transaction.         *)
(*                                                                         *)
(* Counts is the property seat by seat.  A task that joins or leaves a     *)
(* transaction changes the set of its holders by one element and its count *)
(* by one; every other step keeps both, and a transaction that moves to    *)
(* the committer has none.  On an aborted journal a refused restart leaves *)
(* open a handle whose place was given back, so the count is claimed of a  *)
(* healthy journal only.                                                   *)
(***************************************************************************)
EXTENDS JournalPipelineProofs, FiniteSetTheorems

\* Task t has an open handle
Holding(t) == pc[t] \in {"open", "full", "failing"}

\* A seat's count is right
Counted(x) == x # None => x.updates = Cardinality(Holders(x.tid))

\* OpenHandlesHoldTransaction of a healthy journal, seat by seat
Counts ==
    /\ Counted(running) /\ Counted(locking) /\ Counted(committing)
    /\ committing # None => committing.updates = 0
    /\ \A t \in Tasks : Holding(t) => InRunning(htid[t]) \/ InLocking(htid[t])

\* The two say the same
LEMMA CountsSeats == OpenHandlesHoldTransaction <=> (~aborted => Counts)
<1>1. (\A txn \in Seats : txn.updates = Cardinality(Holders(txn.tid)))
        <=> Counted(running) /\ Counted(locking) /\ Counted(committing)
  <2>1. \A x : x \in Seats <=> x # None /\ (x = running \/ x = locking \/ x = committing)
    BY DEF Seats
  <2>2. ASSUME Counted(running), Counted(locking), Counted(committing), NEW txn \in Seats
        PROVE  txn.updates = Cardinality(Holders(txn.tid))
    <3>1. txn # None /\ Counted(txn)
      BY <2>1, <2>2
    <3> QED
      BY <3>1, Zenon DEF Counted
  <2>3. ASSUME \A txn \in Seats : txn.updates = Cardinality(Holders(txn.tid)), NEW x,
               x = running \/ x = locking \/ x = committing
        PROVE  Counted(x)
    BY <2>1, <2>3, Zenon DEF Counted
  <2> QED
    BY <2>2, <2>3, Zenon
<1> QED
  BY <1>1, Zenon DEF OpenHandlesHoldTransaction, Counts, Holding

\* An aborted journal stays aborted (abort has no inverse).
LEMMA AbortStays ==
    ASSUME aborted, [Next]_vars
    PROVE  aborted'
<1> USE DEF seatVars, flagVars, threadVars, boundVars
<1>1. ASSUME NEW t \in Tasks, TaskStep(t)
      PROVE  aborted'
  BY <1>1, Zenon DEF TaskStep, AdmitCheck, Admit, EnterRoom, EnterSpace, DemandCommit,
     AdmissionWait, Stop, StopNotify, Restart, RestartNotify, LogWaitCommit, CommitWait, Finish
<1>2. ASSUME NEW t \in Tasks, TaskChoice(t)
      PROVE  aborted'
  BY <1>2, Zenon DEF TaskChoice, Begin, Extend, Capture, FsError, Fsync, Sync
<1>3. CASE CommitStep
  BY <1>3, Zenon DEF CommitStep, Arm, Poll, AdvanceCheck, AdvancePipeline, StagedNotify,
     CommitTransaction, DrainTail, StoreCommitted, ClearCommitting, AfterCommit,
     LazyCheckpoint, Reclaim, ReclaimNotify, FlushOnUnmount, FlushNext
<1>4. CASE AgeTimeout \/ StopCommitThread \/ Fault
  BY <1>4, Zenon DEF AgeTimeout, StopCommitThread, Fault, CommitFail, ReclaimFail, FlushFail,
     Shutdown
<1>5. CASE UNCHANGED vars
  BY <1>5, Zenon DEF vars
<1> QED
  BY <1>1, <1>2, <1>3, <1>4, <1>5, Zenon DEF Next

\* An admission takes one place
LEMMA EnteredCount ==
    ASSUME NEW x \in TransactionType, NEW n \in Nat
    PROVE  Entered(x, n).updates = x.updates + 1
<1> DEFINE y == [x EXCEPT !.updates = @ + 1]
<1>1. y \in TransactionType /\ y.updates = x.updates + 1
  BY DEF TransactionType
<1>2. Entered(x, n) = [y EXCEPT !.outstanding = x.outstanding + n]
  BY DEF Entered
<1> HIDE DEF y
<1> QED
  BY <1>1, <1>2 DEF TransactionType

\* A release gives one place back
LEMMA ReleasedCount ==
    ASSUME TypeOK, NEW t \in Tasks, NEW x \in TransactionType
    PROVE  Released(t, x).updates = Monus(x.updates, 1)
<1> DEFINE m == Monus(x.updates, 1)
           n == Monus(x.outstanding, left[t])
           y == [x EXCEPT !.updates = m]
<1>1. m \in Nat /\ n \in Nat
  BY DEF TypeOK, TransactionType, Monus
<1>2. Released(t, x) = [y EXCEPT !.outstanding = n]
  BY DEF Released
<1> HIDE DEF m, n
<1>3. y \in TransactionType /\ y.updates = m
  BY <1>1 DEF TransactionType
<1> HIDE DEF y
<1>4. Released(t, x).updates = m
  BY <1>1, <1>2, <1>3 DEF TransactionType
<1> QED
  BY <1>4 DEF m

\* A capture keeps the places
LEMMA CapturedCount ==
    ASSUME TypeOK, NEW t \in Tasks, NEW x \in TransactionType, NEW free \in BOOLEAN
    PROVE  Captured(t, x, free).updates = x.updates
<1> DEFINE c == x.captured + 1
           n == IF Affords(t, x) THEN Monus(x.outstanding + Grant(t, x), 1)
                                 ELSE x.outstanding
           r == x.revokes \/ free
           y == [x EXCEPT !.captured = c]
           z == [y EXCEPT !.outstanding = n]
<1>1. c \in Nat
  BY DEF TransactionType
<1>2. Grant(t, x) \in Nat
  BY PipelineAssumption DEF Grant
<1>3. n \in Nat
  BY <1>2 DEF TransactionType, Monus
<1>5. Captured(t, x, free) = [z EXCEPT !.revokes = r]
  BY DEF Captured
<1> HIDE DEF c, n, r
<1>6. y \in TransactionType /\ y.updates = x.updates
  BY <1>1 DEF TransactionType
<1> HIDE DEF y
<1>7. z \in TransactionType /\ z.updates = x.updates
  BY <1>3, <1>6 DEF TransactionType
<1> HIDE DEF z
<1> QED
  BY <1>5, <1>7 DEF TransactionType

\* A seat whose transaction keeps its handles
SameCount(x, y) ==
    IF x = None THEN y = None ELSE y # None /\ y.tid = x.tid /\ y.updates = x.updates

\* The open handles and their transactions stay
HandlesKept ==
    \A t \in Tasks : (Holding(t)' <=> Holding(t)) /\ (Holding(t) => htid'[t] = htid[t])

\* Then so do the sets of holders
LEMMA HoldersKept ==
    ASSUME HandlesKept, NEW tid
    PROVE  Holders(tid)' = Holders(tid)
BY Zenon DEF HandlesKept, Holding, Holders

\* A step that moves no handle
LEMMA CountsFrame ==
    ASSUME Counts, HandlesKept, SameCount(running, running'), SameCount(locking, locking'),
           committing' = committing \/ committing' = None
    PROVE  Counts'
<1>1. Counted(running)' /\ Counted(locking)' /\ Counted(committing)'
  BY HoldersKept DEF Counts, Counted, SameCount
<1>2. (committing # None => committing.updates = 0)'
  BY DEF Counts
<1>3. \A t \in Tasks : Holding(t)' => (InRunning(htid[t]) \/ InLocking(htid[t]))'
  BY Zenon DEF Counts, HandlesKept, SameCount, InRunning, InLocking
<1> QED
  BY <1>1, <1>2, <1>3, Zenon DEF Counts

\* No handle is open when no transaction takes captures.
LEMMA NobodyHolds ==
    ASSUME Counts, running = None, locking = None
    PROVE  \A t \in Tasks : ~Holding(t)
BY Zenon DEF Counts, InRunning, InLocking

\* Holders are tasks, so there are finitely many
LEMMA HoldersFinite ==
    ASSUME NEW tid
    PROVE  /\ IsFiniteSet(Holders(tid)) /\ Cardinality(Holders(tid)) \in Nat
           /\ Cardinality(Holders(tid)) = 0 => Holders(tid) = {}
<1>1. Holders(tid) \in SUBSET Tasks /\ IsFiniteSet(Tasks)
  BY PipelineAssumption DEF Holders
<1>2. IsFiniteSet(Holders(tid))
  BY <1>1, FS_Subset, Zenon
<1> QED
  BY <1>2, FS_CardinalityType, FS_EmptySet, Zenon

\* Task t, and no other, comes to hold a handle on transaction k
LEMMA HolderJoins ==
    ASSUME NEW t \in Tasks, NEW k, ~Holding(t), Holding(t)', htid'[t] = k,
           \A s \in Tasks \ {t} : (Holding(s)' <=> Holding(s)) /\ htid'[s] = htid[s]
    PROVE  /\ Cardinality(Holders(k)') = Cardinality(Holders(k)) + 1
           /\ \A tid : tid # k => Holders(tid)' = Holders(tid)
<1>1. Holders(k)' = Holders(k) \cup {t} /\ t \notin Holders(k)
  BY Zenon DEF Holders, Holding
<1>2. \A tid : tid # k => Holders(tid)' = Holders(tid)
  BY Zenon DEF Holders, Holding
<1>3. Cardinality(Holders(k) \cup {t}) = Cardinality(Holders(k)) + 1
  BY <1>1, HoldersFinite, FS_AddElement
<1> QED
  BY <1>1, <1>2, <1>3

\* Task t, and no other, gives up its handle on transaction k
LEMMA HolderLeaves ==
    ASSUME NEW t \in Tasks, NEW k, Holding(t), htid[t] = k, ~Holding(t)',
           \A s \in Tasks \ {t} : (Holding(s)' <=> Holding(s)) /\ htid'[s] = htid[s]
    PROVE  /\ Cardinality(Holders(k)') = Cardinality(Holders(k)) - 1
           /\ Cardinality(Holders(k)) > 0
           /\ \A tid : tid # k => Holders(tid)' = Holders(tid)
<1>1. Holders(k)' = Holders(k) \ {t} /\ t \in Holders(k)
  BY Zenon DEF Holders, Holding
<1>2. \A tid : tid # k => Holders(tid)' = Holders(tid)
  BY Zenon DEF Holders, Holding
<1>3. Cardinality(Holders(k) \ {t}) = Cardinality(Holders(k)) - 1
  BY <1>1, HoldersFinite, FS_RemoveElement
<1>4. Cardinality(Holders(k)) # 0 /\ Cardinality(Holders(k)) \in Nat
  BY <1>1, HoldersFinite, FS_EmptySet
<1> QED
  BY <1>1, <1>2, <1>3, <1>4

\* journal_stop and journal_restart give a place back
LEMMA LeaveCounts ==
    ASSUME Inv, Counts, NEW t \in Tasks, Holding(t), ~Holding(t)', UNCHANGED <<committing, htid>>,
           UpdateSeat(htid[t], Released(t, running), Released(t, locking)),
           \A s \in Tasks \ {t} : Holding(s)' <=> Holding(s)
    PROVE  Counts'
<1>0. PICK k : k = htid[t]
  OBVIOUS
<1>1. TypeOK /\ SeatOrder
  BY DEF Inv, SeatInv
<1>2. /\ Cardinality(Holders(k)') = Cardinality(Holders(k)) - 1
      /\ Cardinality(Holders(k)) > 0
      /\ \A tid : tid # k => Holders(tid)' = Holders(tid)
  BY <1>0, HolderLeaves
<1>3. \A x \in TransactionType : /\ Released(t, x) # None /\ Released(t, x).tid = x.tid
                                 /\ Released(t, x).updates = Monus(x.updates, 1)
  BY <1>1, ReleasedGrows, ReleasedCount, PipelineAssumption DEF Grows
<1>4. InRunning(k) \/ InLocking(k)
  BY <1>0 DEF Counts
<1>5. Cardinality(Holders(k)) \in Nat
  BY HoldersFinite
<1>6. CASE InRunning(k)
  <2>1. /\ running \in TransactionType /\ running.tid = k /\ locking = None
        /\ running' = Released(t, running) /\ locking' = None
    BY <1>0, <1>1, <1>6 DEF TypeOK, SeatOrder, InRunning, InLocking, UpdateSeat
  <2>2. running'.updates = Cardinality(Holders(k)') /\ running' # None /\ running'.tid = k
    <3>1. running # None /\ running.updates = Cardinality(Holders(k))
      BY <2>1, PipelineAssumption, Zenon DEF Counts, Counted
    <3>2. running' # None /\ running'.tid = k /\ running'.updates = Monus(running.updates, 1)
      BY <1>3, <2>1, Zenon
    <3> QED
      BY <1>2, <1>5, <3>1, <3>2 DEF Monus
  <2>3. committing # None => committing.tid # k
    <3>1. running # None
      BY <2>1, PipelineAssumption
    <3>2. committing # None => committing.tid \in Nat /\ committing.tid < k
      BY <1>1, <2>1, <3>1, TidTypes, Zenon DEF SeatOrder
    <3> QED
      BY <3>2
  <2>4. Counted(running)' /\ Counted(locking)' /\ Counted(committing)'
    BY <1>2, <2>1, <2>2, <2>3 DEF Counts, Counted
  <2>5. \A s \in Tasks : Holding(s)' => (InRunning(htid[s]) \/ InLocking(htid[s]))'
    BY <2>1, <2>2 DEF Counts, InRunning, InLocking
  <2> QED
    BY <2>4, <2>5, Zenon DEF Counts
<1>7. CASE ~InRunning(k)
  <2>1. /\ locking \in TransactionType /\ locking.tid = k /\ running = None
        /\ locking' = Released(t, locking) /\ running' = None /\ committing = None
    BY <1>0, <1>1, <1>4, <1>7, Zenon DEF TypeOK, SeatOrder, InRunning, InLocking, UpdateSeat
  <2>2. locking'.updates = Cardinality(Holders(k)') /\ locking' # None /\ locking'.tid = k
    <3>1. locking # None /\ locking.updates = Cardinality(Holders(k))
      BY <2>1, PipelineAssumption, Zenon DEF Counts, Counted
    <3>2. locking' # None /\ locking'.tid = k /\ locking'.updates = Monus(locking.updates, 1)
      BY <1>3, <2>1, Zenon
    <3> QED
      BY <1>2, <1>5, <3>1, <3>2 DEF Monus
  <2>4. Counted(running)' /\ Counted(locking)' /\ Counted(committing)'
    BY <1>2, <2>1, <2>2 DEF Counts, Counted
  <2>5. \A s \in Tasks : Holding(s)' => (InRunning(htid[s]) \/ InLocking(htid[s]))'
    BY <2>1, <2>2 DEF Counts, InRunning, InLocking
  <2> QED
    BY <2>4, <2>5, Zenon DEF Counts
<1> QED
  BY <1>6, <1>7

\* With no handle open every seat counts none, wherever its transaction goes
LEMMA EmptyCounts ==
    ASSUME Counts, HandlesKept, \A t \in Tasks : ~Holding(t),
           {running', locking', committing'} \subseteq {running, locking, committing, None}
    PROVE  Counts'
<1>1. ASSUME NEW k PROVE Cardinality(Holders(k)) = 0 /\ Cardinality(Holders(k)') = 0
  <2>1. Holders(k) = {} /\ Holders(k)' = {}
    BY HoldersKept, Zenon DEF Holders, Holding
  <2> QED
    BY <2>1, FS_EmptySet
<1>2. \A x \in {running, locking, committing, None} : x # None => x.updates = 0
  BY <1>1 DEF Counts, Counted
<1>3. ASSUME NEW x \in {running, locking, committing, None}, x # None
      PROVE  x.updates = Cardinality(Holders(x.tid)')
  BY <1>1, <1>2, <1>3, Zenon
<1>4. Counted(running)' /\ Counted(locking)' /\ Counted(committing)'
  <2>1. PICK r, l, c : r = running' /\ l = locking' /\ c = committing'
    OBVIOUS
  <2>2. /\ r # None => r.updates = Cardinality(Holders(r.tid)')
        /\ l # None => l.updates = Cardinality(Holders(l.tid)')
        /\ c # None => c.updates = Cardinality(Holders(c.tid)')
    BY <1>3, <2>1
  <2> QED
    BY <2>1, <2>2, Zenon DEF Counted
<1>5. (committing # None => committing.updates = 0)'
  BY <1>2
<1>6. \A t \in Tasks : ~Holding(t)'
  BY Zenon DEF HandlesKept
<1> QED
  BY <1>4, <1>5, <1>6, Zenon DEF Counts

\* admit: a waiter changes no count, a handle that joins is counted
LEMMA AdmitCounts ==
    ASSUME Inv, Counts, NEW t \in Tasks, Admit(t)
    PROVE  Counts'
<1>1. TypeOK /\ SeatOrder
  BY DEF Inv, SeatInv
<1>2. /\ UNCHANGED <<locking, committing>> /\ pc[t] = "lock" /\ ~Holding(t)
      /\ \A s \in Tasks \ {t} : (Holding(s)' <=> Holding(s)) /\ htid'[s] = htid[s]
  BY <1>1, Zenon DEF Admit, Holding, WaitFor, TypeOK
<1>3. CASE LockedBarrier
  <2>1. UNCHANGED <<running, htid>> /\ pc'[t] = "enterRoom"
    BY <1>1, <1>3, Zenon DEF Admit, WaitFor, TypeOK
  <2>2. HandlesKept
    BY <1>2, <2>1 DEF HandlesKept, Holding
  <2> QED
    BY <1>2, <2>1, <2>2, CountsFrame DEF SameCount
<1>4. CASE ~LockedBarrier
  <2>0. locking = None
    BY <1>4 DEF LockedBarrier
  <2>1. PICK k : k = Joined.tid
    OBVIOUS
  <2>2. Joined \in TransactionType
    BY <1>1, JoinedType
  <2>3. Joined.updates = Cardinality(Holders(k))
    <3>1. CASE running # None
      BY <1>1, <2>1, <3>1, JoinedType, Zenon DEF Counts, Counted
    <3>2. CASE running = None
      <4>1. Holders(k) = {}
        BY <2>0, <3>2, NobodyHolds, Zenon DEF Holders, Holding
      <4>2. Joined.updates = 0
        BY <3>2 DEF Joined, Transaction
      <4> QED
        BY <4>1, <4>2, FS_EmptySet
    <3> QED
      BY <3>1, <3>2
  <2>4. committing # None => committing.tid # k
    BY <1>1, <2>1, JoinedType, TidTypes DEF SeatOrder
  <2>5. Cardinality(Holders(k)) \in Nat
    BY HoldersFinite
  <2>6. \A s \in Tasks : Holding(s) => htid[s] = k
    <3>1. CASE running # None
      BY <1>1, <2>0, <2>1, <3>1, JoinedType, Zenon DEF Counts, InRunning, InLocking
    <3>2. CASE running = None
      BY <2>0, <3>2, NobodyHolds
    <3> QED
      BY <3>1, <3>2
  <2>7. ASSUME running' # None, running'.tid = k, running'.updates = Cardinality(Holders(k)'),
               \A tid : tid # k => Holders(tid)' = Holders(tid),
               \A s \in Tasks : Holding(s)' => htid'[s] = k
        PROVE  Counts'
    <3>1. Counted(running)' /\ Counted(locking)' /\ Counted(committing)'
      BY <1>2, <2>0, <2>4, <2>7 DEF Counts, Counted
    <3>2. \A s \in Tasks : Holding(s)' => (InRunning(htid[s]) \/ InLocking(htid[s]))'
      BY <2>7, Zenon DEF InRunning
    <3> QED
      BY <1>2, <3>1, <3>2, Zenon DEF Counts
  <2>8. CASE running' = Joined /\ UNCHANGED htid /\ ~Holding(t)'
    <3>1. HandlesKept
      BY <1>2, <2>8, Zenon DEF HandlesKept
    <3>2. \A tid : Holders(tid)' = Holders(tid)
      BY <3>1, HoldersKept
    <3>3. Joined # None
      BY <2>2, PipelineAssumption
    <3>4. \A s \in Tasks : Holding(s)' => htid'[s] = k
      BY <2>6, <3>1, Zenon DEF HandlesKept
    <3> QED
      BY <2>1, <2>3, <2>7, <2>8, <3>2, <3>3, <3>4, Zenon
  <2>9. CASE running' = Entered(Joined, need[t]) /\ htid'[t] = k /\ Holding(t)'
    <3>1. /\ Cardinality(Holders(k)') = Cardinality(Holders(k)) + 1
          /\ \A tid : tid # k => Holders(tid)' = Holders(tid)
      BY <1>2, <2>9, HolderJoins
    <3>2. /\ Entered(Joined, need[t]) # None /\ Entered(Joined, need[t]).tid = k
          /\ Entered(Joined, need[t]).updates = Joined.updates + 1
      <4>1. need[t] \in Nat
        BY <1>1 DEF TypeOK
      <4> QED
        BY <2>1, <2>2, <4>1, EnteredGrows, EnteredCount, PipelineAssumption DEF Grows
    <3>3. \A s \in Tasks : Holding(s)' => htid'[s] = k
      BY <1>2, <2>6, <2>9, Zenon
    <3>4. running'.updates = Cardinality(Holders(k)')
      BY <2>3, <2>9, <3>1, <3>2
    <3> QED
      BY <2>7, <2>9, <3>1, <3>2, <3>3, <3>4, Zenon
  <2>10. \/ running' = Joined /\ UNCHANGED htid /\ ~Holding(t)'
         \/ running' = Entered(Joined, need[t]) /\ htid'[t] = k /\ Holding(t)'
    BY <1>1, <1>4, <2>1, Zenon DEF Admit, WaitFor, Holding, TypeOK
  <2> QED
    BY <2>8, <2>9, <2>10
<1> QED
  BY <1>3, <1>4

\* advance_pipeline stages drained transactions only, and parks the others
LEMMA AdvanceCounts ==
    ASSUME Inv, Counts, AdvancePipeline
    PROVE  Counts'
<1>1. TypeOK /\ SeatOrder
  BY DEF Inv, SeatInv
<1>2. HandlesKept
  BY Zenon DEF AdvancePipeline, taskVars, HandlesKept, Holding
<1>3. \/ /\ locking # None /\ locking.updates = 0 /\ committing' = locking
         /\ locking' = None /\ running' = running
      \/ /\ locking = None /\ running # None /\ running.updates = 0
         /\ committing' = running /\ running' = None /\ locking' = None
      \/ /\ locking = None /\ committing = None /\ running # None /\ locking' = running
         /\ running' = None /\ committing' = None
      \/ UNCHANGED <<running, locking, committing>>
  BY Zenon DEF AdvancePipeline, StageCommitting, Drained, Due, Committable
<1>4. ASSUME NEW x, x # None, x.updates = 0, Counted(x),
             \A t \in Tasks : Holding(t) => htid[t] = x.tid
      PROVE  \A t \in Tasks : ~Holding(t)
  <2>1. Cardinality(Holders(x.tid)) = 0
    BY <1>4, Zenon DEF Counted
  <2>2. Holders(x.tid) = {}
    BY <2>1, HoldersFinite
  <2> QED
    BY <1>4, <2>2, Zenon DEF Holders, Holding
<1>5. CASE /\ locking # None /\ locking.updates = 0 /\ committing' = locking
           /\ locking' = None /\ running' = running
  <2>1. running = None
    BY <1>1, <1>5 DEF SeatOrder
  <2>2. \A t \in Tasks : Holding(t) => htid[t] = locking.tid
    BY <2>1, Zenon DEF Counts, InRunning, InLocking
  <2>3. \A t \in Tasks : ~Holding(t)
    BY <1>4, <1>5, <2>2, Zenon DEF Counts
  <2> QED
    BY <1>2, <1>5, <2>3, EmptyCounts
<1>6. CASE /\ locking = None /\ running # None /\ running.updates = 0
           /\ committing' = running /\ running' = None /\ locking' = None
  <2>2. \A t \in Tasks : Holding(t) => htid[t] = running.tid
    BY <1>6, Zenon DEF Counts, InRunning, InLocking
  <2>3. \A t \in Tasks : ~Holding(t)
    BY <1>4, <1>6, <2>2, Zenon DEF Counts
  <2> QED
    BY <1>2, <1>6, <2>3, EmptyCounts
<1>7. CASE /\ locking = None /\ committing = None /\ running # None /\ locking' = running
           /\ running' = None /\ committing' = None
  <2>1. Counted(locking)'
    <3>1. PICK k : k = running.tid
      OBVIOUS
    <3>2. Holders(k)' = Holders(k)
      BY <1>2, HoldersKept
    <3> QED
      BY <1>7, <3>1, <3>2, Zenon DEF Counts, Counted
  <2>2. Counted(running)' /\ Counted(committing)'
    BY <1>7, Zenon DEF Counted
  <2>3. \A t \in Tasks : Holding(t)' => (InRunning(htid[t]) \/ InLocking(htid[t]))'
    BY <1>2, <1>7, Zenon DEF Counts, HandlesKept, InRunning, InLocking
  <2> QED
    BY <1>7, <2>1, <2>2, <2>3, Zenon DEF Counts
<1>8. CASE UNCHANGED <<running, locking, committing>>
  BY <1>2, <1>8, CountsFrame DEF SameCount
<1> QED
  BY <1>3, <1>5, <1>6, <1>7, <1>8, Zenon

\* The steps of a task with no handle open, before it has one or after
LEMMA WaiterCounts ==
    ASSUME TypeOK, Counts, ~aborted, NEW t \in Tasks,
           \/ AdmitCheck(t) \/ EnterRoom(t) \/ EnterSpace(t) \/ DemandCommit(t)
           \/ AdmissionWait(t) \/ StopNotify(t) \/ RestartNotify(t) \/ LogWaitCommit(t)
           \/ CommitWait(t) \/ Finish(t) \/ Fsync(t) \/ Sync(t)
           \/ \E n \in Credits : Begin(t, n)
    PROVE  Counts'
<1> USE DEF seatVars
<1>1. UNCHANGED <<running, locking, committing>>
  BY Zenon DEF AdmitCheck, EnterRoom, EnterSpace, DemandCommit, AdmissionWait, StopNotify,
     RestartNotify, LogWaitCommit, CommitWait, Finish, Fsync, Sync, Begin
<1>2. /\ pc[t] \notin {"open", "full", "failing"}
      /\ pc' = pc \/ \E v \in {"lock", "room", "demand", "check", "space", "closed", "durable",
                              "wait", "lost", "idle", "sync"} : pc' = [pc EXCEPT ![t] = v]
      /\ htid' = htid \/ htid' = [htid EXCEPT ![t] = 0]
  BY Zenon DEF AdmitCheck, EnterRoom, EnterSpace, DemandCommit, AdmissionWait, StopNotify,
     RestartNotify, LogWaitCommit, CommitWait, Finish, Fsync, Sync, Begin
<1>3. pc'[t] \notin {"open", "full", "failing"}
  BY <1>2 DEF TypeOK
<1>4. \A s \in Tasks \ {t} : pc'[s] = pc[s] /\ htid'[s] = htid[s]
  BY <1>2, Zenon DEF TypeOK
<1>5. HandlesKept
  BY <1>2, <1>3, <1>4 DEF HandlesKept, Holding
<1> QED
  BY <1>1, <1>5, CountsFrame DEF SameCount

\* A capture and an extension leave the place of their handle alone
LEMMA WriterCounts ==
    ASSUME Inv, Counts, NEW t \in Tasks,
           \/ \E n \in Credits : Extend(t, n)
           \/ \E free \in BOOLEAN : Capture(t, free)
    PROVE  Counts'
<1>0. TypeOK
  BY DEF Inv
<1>1. /\ UNCHANGED <<committing, htid>> /\ pc[t] = "open"
      /\ pc' = pc \/ \E v \in {"open", "full", "failing"} : pc' = [pc EXCEPT ![t] = v]
  BY Zenon DEF Extend, Capture
<1>2. HandlesKept
  <2>1. pc'[t] \in {"open", "full", "failing"}
    BY <1>0, <1>1 DEF TypeOK
  <2>2. \A s \in Tasks \ {t} : pc'[s] = pc[s]
    BY <1>0, <1>1, Zenon DEF TypeOK
  <2> QED
    BY <1>1, <2>1, <2>2 DEF HandlesKept, Holding
<1>3. SameCount(running, running') /\ SameCount(locking, locking')
  <2>1. CASE \E free \in BOOLEAN : Capture(t, free)
    <3>1. PICK free \in BOOLEAN : Capture(t, free)
      BY <2>1
    <3>2. \A x \in TransactionType : SameCount(x, Captured(t, x, free))
      BY <1>0, CapturedGrows, CapturedCount, PipelineAssumption DEF Grows, SameCount
    <3>3. UpdateSeat(htid[t], Captured(t, running, free), Captured(t, locking, free))
      BY <3>1, Zenon DEF Capture
    <3> QED
      BY <1>0, <3>2, <3>3, Zenon DEF TypeOK, UpdateSeat, InRunning, InLocking, SameCount
  <2>2. CASE \E n \in Credits : Extend(t, n)
    <3>1. PICK n \in Credits : Extend(t, n)
      BY <2>2
    <3>2. locking' = locking
      BY <3>1 DEF Extend
    <3>3. CASE running' = running
      BY <3>2, <3>3 DEF SameCount
    <3>4. CASE InRunning(htid[t]) /\ running' = [running EXCEPT !.outstanding = @ + n - left[t]]
      <4>1. running \in TransactionType /\ running # None
        BY <1>0, <3>4 DEF TypeOK, InRunning
      <4>2. n > left[t] /\ n \in Nat /\ left[t] \in Nat /\ running.outstanding \in Nat
        BY <1>0, <3>1, <4>1, PipelineAssumption DEF Extend, TypeOK, TransactionType
      <4> DEFINE m == running.outstanding + n - left[t]
      <4>3. m \in Nat /\ running' = [running EXCEPT !.outstanding = m]
        BY <3>4, <4>1, <4>2
      <4> HIDE DEF m
      <4>4. running' \in TransactionType /\ running'.tid = running.tid
            /\ running'.updates = running.updates
        BY <4>1, <4>3 DEF TransactionType
      <4> QED
        BY <3>2, <4>1, <4>4, PipelineAssumption DEF SameCount
    <3> QED
      BY <3>1, <3>3, <3>4, Zenon DEF Extend
  <2> QED
    BY <2>1, <2>2
<1> QED
  BY <1>1, <1>2, <1>3, CountsFrame

\* The commit thread and the unmount move transactions, not handles
LEMMA ThreadCounts ==
    ASSUME Inv, Counts, ~aborted, CommitStep \/ AgeTimeout \/ StopCommitThread \/ Fault
    PROVE  Counts'
<1> USE DEF seatVars, taskVars
<1>0. TypeOK
  BY DEF Inv
<1>1. UNCHANGED <<pc, htid>>
  BY Zenon DEF CommitStep, AgeTimeout, StopCommitThread, Fault, Arm, Poll, AdvanceCheck,
     AdvancePipeline, StagedNotify, CommitTransaction, DrainTail, StoreCommitted,
     ClearCommitting, AfterCommit, LazyCheckpoint, Reclaim, ReclaimNotify, FlushOnUnmount,
     FlushNext, CommitFail, ReclaimFail, FlushFail, Shutdown
<1>2. HandlesKept
  BY <1>1, Zenon DEF HandlesKept, Holding
<1>3. CASE AdvancePipeline
  BY <1>3, AdvanceCounts
<1>4. CASE AgeTimeout
  <2>1. locking' = locking /\ committing' = committing
    BY <1>4 DEF AgeTimeout
  <2>2. CASE running' = running
    BY <1>2, <2>1, <2>2, CountsFrame DEF SameCount
  <2>3. CASE InRunning(armed) /\ running' = [running EXCEPT !.expired = TRUE]
    <3>1. running \in TransactionType /\ running # None
      BY <1>0, <2>3 DEF TypeOK, InRunning
    <3>2. running' \in TransactionType /\ running'.tid = running.tid
          /\ running'.updates = running.updates
      BY <2>3, <3>1 DEF TransactionType
    <3>3. SameCount(running, running')
      BY <3>1, <3>2, PipelineAssumption DEF SameCount
    <3> QED
      BY <1>2, <2>1, <3>3, CountsFrame DEF SameCount
  <2> QED
    BY <1>4, <2>2, <2>3, Zenon DEF AgeTimeout
<1>5. CASE FlushNext
  <2>1. \A t \in Tasks : ~Holding(t)
    BY <1>5 DEF FlushNext, Inv, UnmountInv, Holding
  <2>2. {running', locking', committing'} \subseteq {running, locking, committing, None}
    BY <1>5, Zenon DEF FlushNext, Leftover, StageCommitting
  <2> QED
    BY <1>2, <2>1, <2>2, EmptyCounts
<1>6. CASE /\ CommitStep \/ StopCommitThread \/ Fault
           /\ ~AdvancePipeline /\ ~FlushNext
  <2>1. /\ UNCHANGED <<running, locking>>
        /\ committing' = committing \/ committing' = None
    BY <1>6, Zenon DEF CommitStep, StopCommitThread, Fault, Arm, Poll, AdvanceCheck,
       StagedNotify, CommitTransaction, DrainTail, StoreCommitted, ClearCommitting,
       AfterCommit, LazyCheckpoint, Reclaim, ReclaimNotify, FlushOnUnmount, CommitFail,
       ReclaimFail, FlushFail, Shutdown
  <2> QED
    BY <1>2, <2>1, CountsFrame DEF SameCount
<1> QED
  BY <1>3, <1>4, <1>5, <1>6, Zenon

\* Every step of a healthy journal keeps the count
LEMMA CountsNext ==
    ASSUME Inv, OpenHandlesHoldTransaction, [Next]_vars
    PROVE  OpenHandlesHoldTransaction'
<1> SUFFICES ASSUME ~aborted' PROVE Counts'
  BY CountsSeats, PTL
<1>1. ~aborted
  BY AbortStays
<1>2. Counts /\ TypeOK
  BY <1>1, CountsSeats DEF Inv
<1>3. ASSUME NEW t \in Tasks, Stop(t) \/ Restart(t)
      PROVE  Counts'
  <2>1. /\ UNCHANGED <<committing, htid>> /\ pc[t] \in {"open", "full", "failing"}
        /\ UpdateSeat(htid[t], Released(t, running), Released(t, locking))
        /\ \E v \in {"closing", "closed", "restart"} : pc' = [pc EXCEPT ![t] = v]
    BY <1>1, <1>3, Zenon DEF Stop, Restart
  <2>2. pc'[t] \notin {"open", "full", "failing"}
    BY <1>2, <2>1 DEF TypeOK
  <2>3. \A s \in Tasks \ {t} : pc'[s] = pc[s]
    BY <1>2, <2>1, Zenon DEF TypeOK
  <2>4. Holding(t) /\ ~Holding(t)' /\ \A s \in Tasks \ {t} : Holding(s)' <=> Holding(s)
    BY <2>1, <2>2, <2>3, Zenon DEF Holding
  <2> QED
    BY <1>2, <2>1, <2>4, LeaveCounts
<1>4. ASSUME NEW t \in Tasks, TaskStep(t) \/ TaskChoice(t)
      PROVE  Counts'
  <2>1. CASE Admit(t)
    BY <1>2, <2>1, AdmitCounts
  <2>2. CASE Stop(t) \/ Restart(t)
    BY <1>3, <2>2
  <2>3. CASE (\E n \in Credits : Extend(t, n)) \/ (\E free \in BOOLEAN : Capture(t, free))
    BY <1>2, <2>3, WriterCounts
  <2>4. ~FsError(t)
    BY Zenon DEF FsError
  <2> QED
    BY <1>1, <1>2, <1>4, <2>1, <2>2, <2>3, <2>4, WaiterCounts, Zenon DEF TaskStep, TaskChoice
<1>5. CASE CommitStep \/ AgeTimeout \/ StopCommitThread \/ Fault
  BY <1>1, <1>2, <1>5, ThreadCounts
<1>6. CASE UNCHANGED vars
  <2>1. UNCHANGED <<running, locking, committing, pc, htid>>
    BY <1>6 DEF vars, seatVars, taskVars
  <2>2. HandlesKept
    BY <2>1, Zenon DEF HandlesKept, Holding
  <2> QED
    BY <1>2, <2>1, <2>2, CountsFrame DEF SameCount
<1> QED
  BY <1>4, <1>5, <1>6, Zenon DEF Next

\* While the journal is healthy t_updates counts exactly the open handles of
\* every seated transaction, the committer's has none, and every open handle is
\* on a transaction that takes its captures, for every number of tasks
\* (admit, journal_stop, journal_restart, advance_pipeline, flush_on_unmount)
THEOREM HandlesCounted == Spec => []OpenHandlesHoldTransaction
<1>1. Init => OpenHandlesHoldTransaction
  BY DEF Init, OpenHandlesHoldTransaction, Seats
<1>2. Inv /\ OpenHandlesHoldTransaction /\ [Next]_vars => OpenHandlesHoldTransaction'
  BY CountsNext
<1> QED
  BY <1>1, <1>2, Invariance, PTL DEF Spec
==============================================================================
