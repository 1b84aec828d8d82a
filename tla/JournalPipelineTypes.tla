------------------------- MODULE JournalPipelineTypes -------------------------
(***************************************************************************)
(* The types of the journal pipeline, step by step: what the updates of a  *)
(* transaction record keep, and that every action keeps TypeOK.  TypeOK is *)
(* not inductive by itself (TypeCommitStep); JournalPipelineProofs supplies*)
(* what is missing.                                                        *)
(***************************************************************************)
EXTENDS JournalPipeline, TLAPS

\* Where the commit thread, or the unmount, owns a transaction
CommitSteps == {"staged", "commit", "drain", "retry", "store", "clear"}

-----------------------------------------------------------------------------
(* The record updates                                                       *)

\* Every transaction the actions build is one, keeps its tid, and never loses
\* what makes it committable
Grows(x, y) ==
    /\ y \in TransactionType
    /\ y.tid = x.tid
    /\ y.captured >= x.captured
    /\ x.revokes => y.revokes

\* A handle that joins (admit)
LEMMA EnteredGrows ==
    ASSUME NEW x \in TransactionType, NEW n \in Nat
    PROVE  Grows(x, Entered(x, n))
<1> DEFINE y == [x EXCEPT !.updates = @ + 1]
<1>1. /\ y \in TransactionType
      /\ y.tid = x.tid /\ y.captured = x.captured /\ y.revokes = x.revokes
  BY DEF TransactionType
<1>2. Entered(x, n) = [y EXCEPT !.outstanding = x.outstanding + n]
  BY DEF Entered
<1> HIDE DEF y
<1>3. /\ Entered(x, n) \in TransactionType
      /\ Entered(x, n).tid = y.tid
      /\ Entered(x, n).captured = y.captured
      /\ Entered(x, n).revokes = y.revokes
  BY <1>1, <1>2 DEF TransactionType
<1>4. y.captured >= y.captured
  BY <1>1 DEF TransactionType
<1>5. QED
  BY <1>1, <1>3, <1>4 DEF Grows

\* A handle that leaves (journal_stop, journal_restart)
LEMMA ReleasedGrows ==
    ASSUME TypeOK, NEW t \in Tasks, NEW x \in TransactionType
    PROVE  Grows(x, Released(t, x))
<1> DEFINE m == Monus(x.updates, 1)
           n == Monus(x.outstanding, left[t])
           y == [x EXCEPT !.updates = m]
<1>1. m \in Nat /\ n \in Nat
  BY DEF TypeOK, TransactionType, Monus
<1>2. Released(t, x) = [y EXCEPT !.outstanding = n]
  BY DEF Released
<1> HIDE DEF m, n
<1>3. /\ y \in TransactionType
      /\ y.tid = x.tid /\ y.captured = x.captured /\ y.revokes = x.revokes
  BY <1>1 DEF TransactionType
<1> HIDE DEF y
<1>4. /\ Released(t, x) \in TransactionType
      /\ Released(t, x).tid = y.tid
      /\ Released(t, x).captured = y.captured
      /\ Released(t, x).revokes = y.revokes
  BY <1>1, <1>2, <1>3 DEF TransactionType
<1>5. y.captured >= y.captured
  BY <1>3 DEF TransactionType
<1>6. QED
  BY <1>3, <1>4, <1>5 DEF Grows

\* A capture (get_write_access with charge_fresh_capture)
LEMMA CapturedGrows ==
    ASSUME TypeOK, NEW t \in Tasks, NEW x \in TransactionType, NEW free \in BOOLEAN
    PROVE  Grows(x, Captured(t, x, free)) /\ Captured(t, x, free).captured > 0
<1> DEFINE c == x.captured + 1
           n == IF Affords(t, x) THEN Monus(x.outstanding + Grant(t, x), 1)
                                 ELSE x.outstanding
           r == x.revokes \/ free
           y == [x EXCEPT !.captured = c]
           z == [y EXCEPT !.outstanding = n]
<1>1. c \in Nat /\ c > 0 /\ c >= x.captured
  BY DEF TransactionType
<1>2. Grant(t, x) \in Nat
  BY PipelineAssumption DEF Grant
<1>3. n \in Nat
  BY <1>2 DEF TransactionType, Monus
<1>4. r \in BOOLEAN /\ (x.revokes => r)
  BY DEF TransactionType
<1>5. Captured(t, x, free) = [z EXCEPT !.revokes = r]
  BY DEF Captured
<1> HIDE DEF c, n, r
<1>6. y \in TransactionType /\ y.tid = x.tid /\ y.captured = c
  BY <1>1 DEF TransactionType
<1> HIDE DEF y
<1>7. z \in TransactionType /\ z.tid = x.tid /\ z.captured = c
  BY <1>3, <1>6 DEF TransactionType
<1> HIDE DEF z
<1>8. /\ Captured(t, x, free) \in TransactionType
      /\ Captured(t, x, free).tid = x.tid
      /\ Captured(t, x, free).captured = c
      /\ Captured(t, x, free).revokes = r
  BY <1>4, <1>5, <1>7 DEF TransactionType
<1>9. QED
  BY <1>1, <1>4, <1>8 DEF Grows

\* A reservation that grows (journal_extend)
LEMMA ExtendedGrows ==
    ASSUME NEW x \in TransactionType, NEW n \in Nat
    PROVE  Grows(x, [x EXCEPT !.outstanding = n])
<1> DEFINE y == [x EXCEPT !.outstanding = n]
<1>1. y \in TransactionType /\ y.tid = x.tid /\ y.captured = x.captured
      /\ y.revokes = x.revokes
  BY DEF TransactionType
<1> HIDE DEF y
<1>2. Grows(x, y)
  BY <1>1 DEF Grows, TransactionType
<1>3. QED
  BY <1>2 DEF y

\* A transaction that expires (the age deadline)
LEMMA ExpiredGrows ==
    ASSUME NEW x \in TransactionType
    PROVE  Grows(x, [x EXCEPT !.expired = TRUE])
<1> DEFINE y == [x EXCEPT !.expired = TRUE]
<1>1. y \in TransactionType /\ y.tid = x.tid /\ y.captured = x.captured
      /\ y.revokes = x.revokes
  BY Zenon DEF TransactionType
<1> HIDE DEF y
<1>2. Grows(x, y)
  BY <1>1 DEF Grows, TransactionType
<1>3. QED
  BY <1>2 DEF y

\* A transaction left alone
LEMMA GrowsReflexive ==
    ASSUME NEW x \in TransactionType
    PROVE  Grows(x, x)
BY DEF Grows, TransactionType

\* The transaction ids are numbers
LEMMA TidTypes ==
    ASSUME TypeOK
    PROVE  /\ running # None => running.tid \in Nat \ {0}
           /\ locking # None => locking.tid \in Nat \ {0}
           /\ committing # None => committing.tid \in Nat \ {0}
           /\ nextTid \in Nat /\ committed \in Nat /\ lastWork \in Nat
BY DEF TypeOK, TransactionType

\* The transaction an admission joins
LEMMA JoinedType ==
    ASSUME TypeOK
    PROVE  /\ Joined \in TransactionType
           /\ Joined.tid \in Nat
           /\ running = None => Joined.tid = nextTid
           /\ running # None => Joined = running
BY DEF TypeOK, Joined, Transaction, TransactionType

-----------------------------------------------------------------------------
(* Types                                                                    *)

\* The Boolean variables, apart from the rest of the types
LEMMA FlagsNext ==
    ASSUME TypeOK, [Next]_vars
    PROVE  Flags'
<1> Flags
  BY DEF TypeOK
<1> USE DEF Flags, seatVars, flagVars, threadVars, boundVars
<1>1. ASSUME NEW t \in Tasks, TaskStep(t) \/ TaskChoice(t)
      PROVE  Flags'
  <2>1. CASE AdmitCheck(t)
    BY <2>1, Zenon DEF AdmitCheck
  <2>2. CASE Admit(t)
    BY <2>2, Zenon DEF Admit, WaitFor
  <2>3. CASE EnterRoom(t)
    BY <2>3, Zenon DEF EnterRoom, RequestCommit
  <2>4. CASE EnterSpace(t)
    BY <2>4, Zenon DEF EnterSpace
  <2>5. CASE DemandCommit(t)
    BY <2>5, Zenon DEF DemandCommit, RequestCommit
  <2>6. CASE AdmissionWait(t)
    BY <2>6, Zenon DEF AdmissionWait
  <2>7. CASE Stop(t)
    BY <2>7, Zenon DEF Stop
  <2>8. CASE StopNotify(t)
    BY <2>8, Zenon DEF StopNotify, RequestCommit
  <2>9. CASE Restart(t)
    BY <2>9, Zenon DEF Restart
  <2>10. CASE RestartNotify(t)
    BY <2>10, Zenon DEF RestartNotify, RequestCommit
  <2>11. CASE LogWaitCommit(t)
    BY <2>11, Zenon DEF LogWaitCommit, RequestCommit
  <2>12. CASE CommitWait(t)
    BY <2>12, Zenon DEF CommitWait
  <2>13. CASE Finish(t)
    BY <2>13, Zenon DEF Finish
  <2>14. CASE FsError(t)
    BY <2>14, Zenon DEF FsError
  <2>15. CASE Fsync(t)
    BY <2>15, Zenon DEF Fsync
  <2>16. CASE Sync(t)
    BY <2>16, Zenon DEF Sync
  <2>17. ASSUME NEW n \in Credits, Begin(t, n)
        PROVE  Flags'
    BY <2>17, Zenon DEF Begin
  <2>18. ASSUME NEW n \in Credits, Extend(t, n)
        PROVE  Flags'
    BY <2>18, Zenon DEF Extend
  <2>19. ASSUME NEW free \in BOOLEAN, Capture(t, free)
        PROVE  Flags'
    BY <2>19, Zenon DEF Capture
  <2> HIDE DEF Flags
  <2>20. QED
    BY <1>1, <2>1, <2>2, <2>3, <2>4, <2>5, <2>6, <2>7, <2>8, <2>9, <2>10, <2>11, <2>12,
       <2>13, <2>14, <2>15, <2>16, <2>17, <2>18, <2>19
    DEF TaskStep, TaskChoice
<1>2. CASE Arm
  BY <1>2, Zenon DEF Arm
<1>3. CASE Poll
  BY <1>3, Zenon DEF Poll
<1>4. CASE AdvanceCheck
  BY <1>4, Zenon DEF AdvanceCheck
<1>5. CASE AdvancePipeline
  BY <1>5, Zenon DEF AdvancePipeline
<1>6. CASE StagedNotify
  BY <1>6, Zenon DEF StagedNotify
<1>7. CASE CommitTransaction
  BY <1>7, Zenon DEF CommitTransaction
<1>8. CASE DrainTail
  BY <1>8, Zenon DEF DrainTail
<1>9. CASE StoreCommitted
  BY <1>9, Zenon DEF StoreCommitted
<1>10. CASE ClearCommitting
  BY <1>10, Zenon DEF ClearCommitting, RequestCommit
<1>11. CASE AfterCommit
  BY <1>11, Zenon DEF AfterCommit
<1>12. CASE LazyCheckpoint
  BY <1>12, Zenon DEF LazyCheckpoint
<1>13. CASE Reclaim
  BY <1>13, Zenon DEF Reclaim
<1>14. CASE ReclaimNotify
  BY <1>14, Zenon DEF ReclaimNotify
<1>15. CASE FlushOnUnmount
  BY <1>15, Zenon DEF FlushOnUnmount
<1>16. CASE FlushNext
  BY <1>16, Zenon DEF FlushNext
<1>17. CASE AgeTimeout
  BY <1>17, Zenon DEF AgeTimeout
<1>18. CASE StopCommitThread
  BY <1>18, Zenon DEF StopCommitThread, RequestCommit
<1>19. CASE CommitFail
  BY <1>19, Zenon DEF CommitFail
<1>20. CASE ReclaimFail
  BY <1>20, Zenon DEF ReclaimFail
<1>21. CASE FlushFail
  BY <1>21, Zenon DEF FlushFail
<1>22. CASE Shutdown
  BY <1>22, Zenon DEF Shutdown
<1>23. CASE UNCHANGED vars
  BY <1>23, Zenon DEF vars
<1> HIDE DEF Flags
<1>24. QED
  BY <1>1, <1>2, <1>3, <1>4, <1>5, <1>6, <1>7, <1>8, <1>9, <1>10, <1>11, <1>12, <1>13,
     <1>14, <1>15, <1>16, <1>17, <1>18, <1>19, <1>20, <1>21, <1>22, <1>23
  DEF Next, CommitStep, Fault

\* A freshly mounted journal has the declared types
LEMMA TypeInit == Init => TypeOK
<1> SUFFICES ASSUME Init PROVE TypeOK
  OBVIOUS
<1>1. Flags
  BY Zenon DEF Init, Flags
<1>2. QED
  BY <1>1, PipelineAssumption DEF Init, TypeOK, TaskStates, CommitterStates

\* A refused admission (admit on an aborted journal) keeps the types
LEMMA RefuseType ==
    ASSUME TypeOK, NEW t \in Tasks, Refuse(t)
    PROVE  /\ pc' \in [Tasks -> TaskStates]
           /\ restarting' \in [Tasks -> BOOLEAN]
           /\ need' \in [Tasks -> Nat]
<1>1. (IF restarting[t] THEN "failing" ELSE "idle") \in TaskStates
  BY DEF TaskStates
<1>2. pc' \in [Tasks -> TaskStates]
  BY <1>1 DEF TypeOK, Refuse
<1>3. restarting' \in [Tasks -> BOOLEAN]
  BY DEF TypeOK, Refuse
<1>4. need' \in [Tasks -> Nat]
  BY DEF TypeOK, Refuse
<1>5. QED
  BY <1>2, <1>3, <1>4

\* Every step of a task (admit, journal_stop, journal_restart, the waits) keeps the
\* types
LEMMA TypeTaskStep ==
    ASSUME TypeOK, Flags', NEW t \in Tasks, TaskStep(t)
    PROVE  TypeOK'
<1> USE DEF TypeOK, TaskStates, seatVars, flagVars, threadVars, boundVars, histVars
<1>0. /\ running # None => running.tid \in Nat
      /\ locking # None => locking.tid \in Nat
  BY DEF TransactionType
<1>1. CASE AdmitCheck(t)
  BY <1>1, RefuseType DEF AdmitCheck
<1>2. CASE Admit(t)
  <2>1. Joined \in TransactionType /\ Joined.tid \in Nat
    BY JoinedType
  <2>2. Entered(Joined, need[t]) \in TransactionType
    BY <2>1, EnteredGrows DEF Grows
  <2>3. running' \in TransactionType \cup {None} /\ nextTid' \in Nat \ {0}
    BY <1>2, <2>1, <2>2 DEF Admit
  <2>4. /\ pc' \in [Tasks -> TaskStates]
        /\ restarting' \in [Tasks -> BOOLEAN]
        /\ current' \subseteq Tasks
    BY <1>2, Zenon DEF Admit, WaitFor
  <2>5. /\ need' \in [Tasks -> Nat] /\ htid' \in [Tasks -> Nat]
        /\ left' \in [Tasks -> Nat] /\ target' \in [Tasks -> Nat]
    BY <1>0, <1>2, <2>1 DEF Admit, WaitFor, LockedBarrier
  <2>6. QED
    BY <1>2, <2>3, <2>4, <2>5 DEF Admit
<1>3. CASE EnterRoom(t)
  BY <1>3 DEF EnterRoom, RequestFor, RequestCommit
<1>4. CASE EnterSpace(t)
  BY <1>4 DEF EnterSpace
<1>5. CASE DemandCommit(t)
  BY <1>0, <1>5 DEF DemandCommit, Committable, RequestFor, RequestCommit
<1>6. CASE AdmissionWait(t)
  BY <1>6, RefuseType DEF AdmissionWait
<1>7. CASE Stop(t)
  <2>1. \A x \in TransactionType : Released(t, x) \in TransactionType
    BY ReleasedGrows DEF Grows
  <2>2. QED
    BY <1>7, <2>1 DEF Stop, UpdateSeat, InRunning, InLocking
<1>8. CASE StopNotify(t)
  BY <1>8 DEF StopNotify, NoteCreditsReleased, WakeWaiters, RequestCommit
<1>9. CASE Restart(t)
  <2>1. \A x \in TransactionType : Released(t, x) \in TransactionType
    BY ReleasedGrows DEF Grows
  <2>2. QED
    BY <1>9, <2>1, ZenonT(30) DEF Restart, UpdateSeat, InRunning, InLocking
<1>10. CASE RestartNotify(t)
  BY <1>10 DEF RestartNotify, NoteCreditsReleased, WakeWaiters, RequestFor, RequestCommit
<1>11. CASE LogWaitCommit(t)
  BY <1>11 DEF LogWaitCommit, RequestFor, RequestCommit
<1>12. CASE CommitWait(t)
  BY <1>12 DEF CommitWait
<1>13. CASE Finish(t)
  BY <1>13 DEF Finish
<1> HIDE DEF TypeOK, TaskStates, seatVars, flagVars, threadVars, boundVars, histVars
<1>14. QED
  BY <1>1, <1>2, <1>3, <1>4, <1>5, <1>6, <1>7, <1>8, <1>9, <1>10, <1>11, <1>12, <1>13
  DEF TaskStep

\* So does everything it may choose to do (captures, extensions, errors, syncs)
LEMMA TypeTaskChoice ==
    ASSUME TypeOK, Flags', NEW t \in Tasks, TaskChoice(t)
    PROVE  TypeOK'
<1> USE DEF TypeOK, TaskStates, seatVars, flagVars, threadVars, boundVars, histVars
<1>1. ASSUME NEW n \in Credits, Begin(t, n)
      PROVE  TypeOK'
  BY <1>1, PipelineAssumption DEF Begin
<1>2. ASSUME NEW n \in Credits, Extend(t, n)
      PROVE  TypeOK'
  <2>1. n \in Nat
    BY PipelineAssumption
  <2>2. running # None => running.outstanding + n - left[t] \in Nat
    BY <1>2, <2>1 DEF Extend, TransactionType
  <2>3. running' \in TransactionType \cup {None}
    BY <1>2, <2>2, ExtendedGrows DEF Extend, InRunning, Grows
  <2>4. QED
    BY <1>2, <2>1, <2>3 DEF Extend
<1>3. ASSUME NEW free \in BOOLEAN, Capture(t, free)
      PROVE  TypeOK'
  <2>1. \A x \in TransactionType : Captured(t, x, free) \in TransactionType
    BY CapturedGrows DEF Grows
  <2>2. running' \in TransactionType \cup {None} /\ locking' \in TransactionType \cup {None}
    BY <1>3, <2>1 DEF Capture, UpdateSeat, InRunning, InLocking
  <2>3. \A x : Grant(t, x) \in Nat
    BY PipelineAssumption DEF Grant
  <2>4. left' \in [Tasks -> Nat]
    BY <1>3, <2>3 DEF Capture, Monus
  <2>5. /\ pc' \in [Tasks -> TaskStates] /\ goal' \in [Tasks -> Nat]
        /\ work' \in Nat /\ lastWork' \in Nat
    BY <1>3 DEF Capture, Larger
  <2>6. QED
    BY <1>3, <2>2, <2>4, <2>5 DEF Capture
<1>4. CASE FsError(t)
  BY <1>4 DEF FsError, WakeWaiters
<1>5. CASE Fsync(t)
  BY <1>5 DEF Fsync
<1>6. CASE Sync(t)
  <2>1. SyncTarget \in Nat
    BY DEF SyncTarget, Committable, TransactionType
  <2>2. QED
    BY <1>6, <2>1 DEF Sync
<1> HIDE DEF TypeOK, TaskStates, seatVars, flagVars, threadVars, boundVars, histVars
<1>7. QED
  BY <1>1, <1>2, <1>3, <1>4, <1>5, <1>6 DEF TaskChoice

\* The size a transaction takes in the log
LEMMA FootprintType ==
    ASSUME NEW x \in TransactionType
    PROVE  Footprint(x, x.captured) \in Nat
<1>1. x.captured \in Nat /\ RevokeBlocks(x) \in Nat
  BY DEF TransactionType, RevokeBlocks
<1>2. Descriptors(x.captured) \in Nat
  BY <1>1, PipelineAssumption DEF Descriptors
<1>3. QED
  BY <1>1, <1>2 DEF Footprint

\* So does the commit thread, if it owns a transaction whenever it works on one: the
\* types are not inductive by themselves, StoreCommitted reads committing.tid
LEMMA TypeCommitStep ==
    ASSUME TypeOK, cpc \in CommitSteps => committing # None, Flags',
           CommitStep \/ AgeTimeout \/ StopCommitThread \/ Fault
    PROVE  TypeOK'
<1> USE DEF TypeOK, CommitterStates, seatVars, flagVars, threadVars, taskVars, boundVars,
            histVars, LoopOr
<1>0. /\ running # None => running.tid \in Nat
      /\ locking # None => locking.tid \in Nat
      /\ committing # None => committing.tid \in Nat
  BY DEF TransactionType
<1>1. CASE Arm
  BY <1>0, <1>1 DEF Arm, AgeKey, Committable
<1>2. CASE Poll
  BY <1>2 DEF Poll
<1>3. CASE AdvanceCheck
  BY <1>3 DEF AdvanceCheck
<1>4. CASE AdvancePipeline
  BY <1>4 DEF AdvancePipeline, StageCommitting
<1>5. CASE StagedNotify
  BY <1>5 DEF StagedNotify, NoteCreditsReleased, WakeWaiters
<1>6. CASE CommitTransaction
  <2>1. Footprint(committing, committing.captured) \in Nat
    BY <1>6, FootprintType DEF CommitTransaction, CommitSteps
  <2>2. QED
    BY <1>6, <2>1, PipelineAssumption DEF CommitTransaction, FitsLog, WakeWaiters
<1>7. CASE DrainTail
  BY <1>7, PipelineAssumption DEF DrainTail, Reclaimed
<1>8. CASE StoreCommitted
  BY <1>0, <1>8 DEF StoreCommitted, CommitSteps
<1>9. CASE ClearCommitting
  BY <1>9 DEF ClearCommitting, WakeWaiters
<1>10. CASE AfterCommit
  BY <1>10 DEF AfterCommit
<1>11. CASE LazyCheckpoint
  BY <1>11 DEF LazyCheckpoint
<1>12. CASE Reclaim
  BY <1>12, PipelineAssumption DEF Reclaim, Reclaimed
<1>13. CASE ReclaimNotify
  BY <1>13 DEF ReclaimNotify, NoteCreditsReleased, WakeWaiters
<1>14. CASE FlushOnUnmount
  BY <1>14 DEF FlushOnUnmount
<1>15. CASE FlushNext
  <2>1. /\ running' \in TransactionType \cup {None}
        /\ locking' \in TransactionType \cup {None}
    BY <1>15, Zenon DEF FlushNext
  <2>2. /\ committing' \in TransactionType \cup {None}
        /\ commitRequest' \in Nat
    <3>1. Leftover \in TransactionType \cup {None}
      BY DEF Leftover
    <3>2. StageCommitting(Leftover) =>
            committing' = Leftover /\ commitRequest' \in {0, commitRequest}
      BY DEF StageCommitting
    <3>3. /\ committing' \in {committing, Leftover}
          /\ commitRequest' \in {0, commitRequest}
      BY <1>15, <3>2, Zenon DEF FlushNext
    <3>4. QED
      BY <3>1, <3>3
  <2>3. used' \in 0 .. LogCap
    BY <1>15, PipelineAssumption DEF FlushNext, Reclaimed
  <2>4. /\ cpc' \in CommitterStates
        /\ upc' \in {"mounted", "join", "flush", "clean", "dirty"}
    BY <1>15, Zenon DEF FlushNext
  <2>5. QED
    BY <1>15, <2>1, <2>2, <2>3, <2>4 DEF FlushNext
<1>16. CASE AgeTimeout
  <2>1. running' \in TransactionType \cup {None}
    BY <1>16, ExpiredGrows DEF AgeTimeout, InRunning, Grows
  <2>2. QED
    BY <1>16, <2>1 DEF AgeTimeout
<1>17. CASE StopCommitThread
  BY <1>17 DEF StopCommitThread, WakeWaiters
<1>18. CASE CommitFail
  BY <1>18 DEF CommitFail, WakeWaiters
<1>19. CASE ReclaimFail
  BY <1>19 DEF ReclaimFail
<1>20. CASE FlushFail
  BY <1>20 DEF FlushFail
<1>21. CASE Shutdown
  BY <1>21 DEF Shutdown, WakeWaiters
<1> HIDE DEF TypeOK, CommitterStates, seatVars, flagVars, threadVars, taskVars, boundVars,
            histVars, LoopOr
<1>22. QED
  BY <1>1, <1>2, <1>3, <1>4, <1>5, <1>6, <1>7, <1>8, <1>9, <1>10, <1>11, <1>12, <1>13,
     <1>14, <1>15, <1>16, <1>17, <1>18, <1>19, <1>20, <1>21
  DEF CommitStep, Fault

=============================================================================
