--------------------------- MODULE JournalPipeline ---------------------------
(***************************************************************************)
(* The threads around the ext4 journal: tasks that open, extend, restart   *)
(* and close handles and wait for durability, the commit thread that moves *)
(* transactions through the running, locking and committing seats, and the *)
(* unmount that stops it.                                                  *)
(*                                                                         *)
(* Sources: kernel/src/fs/fs_impls/ext4/journal/{mod,transaction,commit,   *)
(* checkpoint}.rs.                                                         *)
(*                                                                         *)
(* A step is what a thread does between two points where another one can   *)
(* run: a critical section of the state lock, a load or store of an atomic *)
(* flag, a wake-up.  A sleeper re-evaluates its condition only when it is  *)
(* woken, so a missing or too early wake-up shows as a thread that sleeps  *)
(* for ever.  A transaction is reduced to counters, the log to the amount  *)
(* of space in use; what transactions contain is JournalStore's part.      *)
(***************************************************************************)
EXTENDS Integers, FiniteSets

LOCAL INSTANCE Functions

CONSTANTS
    Tasks,          \* threads performing filesystem operations
    None,           \* the absent value
    LogCap,         \* usable blocks of the log ring
    Tags,           \* tags_per_descriptor
    ExtendBatch,    \* EXTEND_BATCH_BLOCKS
    Credits,        \* the reservations operations ask for
    Failures,       \* which errors may strike: a subset of
                    \* {"commit", "checkpoint", "fs", "shutdown"}
    MaxWork,        \* bound: captures made
    MaxStarts,      \* bound: handles opened
    MaxSyncs,       \* bound: fsync and sync calls
    MaxExtends,     \* bound: reservations extended or restarted
    MaxFaults       \* bound: errors

Monus(m, n) == IF m > n THEN m - n ELSE 0

Larger(m, n) == IF m > n THEN m ELSE n

\* max_credits: the metadata blocks one transaction may hold
MaxCredits == (Tags * Monus(LogCap, 2)) \div (Tags + 1)

\* batch_trigger_credits and checkpoint_low_water: quarters
BatchTrigger == Larger(MaxCredits \div 4, 1)
LowWater     == Larger(LogCap \div 4, 1)

\* The counters of a Transaction, and the commit triggers it has met
TransactionType ==
    [tid: Nat \ {0}, updates: Nat, outstanding: Nat, captured: Nat,
     revokes: BOOLEAN, expired: BOOLEAN]

ASSUME PipelineAssumption ==
    /\ None \notin TransactionType
    /\ IsFiniteSet(Tasks)
    /\ {LogCap, Tags, ExtendBatch} \subseteq Nat \ {0}
    /\ Credits \subseteq 1 .. MaxCredits
    /\ Failures \subseteq {"commit", "checkpoint", "fs", "shutdown"}
    /\ {MaxWork, MaxStarts, MaxSyncs, MaxExtends, MaxFaults} \subseteq Nat

VARIABLES
    \* JournalState, under the state lock
    running, locking, committing,   \* the three seats
    nextTid, commitRequest, used,
    \* atomics of Journal
    committed, aborted, pressure, servicer, stop,
    \* the commit thread
    cpc, cAsleep, armed, did,
    \* tasks
    pc, need, htid, left, restarting, current, target, asleep,
    \* the unmounting owner
    upc,
    \* environment and history
    work, starts, syncs, extends, faults,
    lastWork,       \* the newest transaction any work was captured into
    goal            \* the transaction a task may want durable: the one it last
                    \* captured into (sync_tid), or lastWork when its sync began

seatVars   == <<running, locking, committing, nextTid, commitRequest, used>>
flagVars   == <<committed, aborted, pressure, servicer, stop>>
threadVars == <<cpc, cAsleep, armed, did>>
taskVars   == <<pc, need, htid, left, restarting, current, target, asleep>>
boundVars  == <<work, starts, syncs, extends, faults>>
histVars   == <<lastWork, goal>>
vars == <<seatVars, flagVars, threadVars, taskVars, upc, boundVars, histVars>>

Transaction(tid) ==
    [tid |-> tid, updates |-> 0, outstanding |-> 0, captured |-> 0,
     revokes |-> FALSE, expired |-> FALSE]

Init ==
    /\ running = None /\ locking = None /\ committing = None
    /\ nextTid = 1 /\ commitRequest = 0 /\ used = 0
    /\ committed = 0
    /\ aborted = FALSE /\ pressure = FALSE /\ servicer = TRUE /\ stop = FALSE
    /\ cpc = "arm" /\ cAsleep = FALSE /\ armed = 0 /\ did = FALSE
    /\ pc = [t \in Tasks |-> "idle"]
    /\ need = [t \in Tasks |-> 0]
    /\ htid = [t \in Tasks |-> 0]
    /\ left = [t \in Tasks |-> 0]
    /\ restarting = [t \in Tasks |-> FALSE]
    /\ target = [t \in Tasks |-> 0]
    /\ current = {} /\ asleep = {}
    /\ upc = "mounted"
    /\ work = 0 /\ starts = 0 /\ syncs = 0 /\ extends = 0 /\ faults = 0
    /\ lastWork = 0
    /\ goal = [t \in Tasks |-> 0]

-----------------------------------------------------------------------------
(* Wake-ups and requests                                                    *)

\* Mutant: a wake-up that reaches nobody
WakeNobody == UNCHANGED asleep

\* commit_wait_queue.wake_all
WakeWaiters == asleep' = {}

\* Mutant: waiters are woken but the epoch stays
WakesWithoutEpoch == UNCHANGED current /\ WakeWaiters

\* note_credits_released: bump the epoch every waiter compares its snapshot
\* with (the waiters whose snapshot is current become none), then wake them
NoteCreditsReleased == current' = {} /\ WakeWaiters

\* Mutant: the commit thread is not nudged
NoNudge == UNCHANGED cAsleep

\* request_commit: wake commit_trigger
RequestCommit == cAsleep' = FALSE

\* request_commit_for: tids do not wrap here, so geq is >=; 0 is no request
RequestFor(tid) == IF commitRequest >= tid THEN commitRequest ELSE tid

-----------------------------------------------------------------------------
(* Tasks                                                                    *)

\* active_txn_mut: the seat, if any, in which the transaction still takes
\* captures and closes
InRunning(tid) == running # None /\ running.tid = tid
InLocking(tid) == locking # None /\ locking.tid = tid

\* The transaction in that seat becomes r where it runs, l where it is locked
UpdateSeat(tid, r, l) ==
    /\ running' = IF InRunning(tid) THEN r ELSE running
    /\ locking' = IF ~InRunning(tid) /\ InLocking(tid) THEN l ELSE locking

\* OpHandle::start: a task holds one handle at a time (claim_op_handle)
Begin(t, credits) ==
    /\ pc[t] = "idle" /\ upc = "mounted"
    /\ starts < MaxStarts
    /\ starts' = starts + 1
    /\ pc' = [pc EXCEPT ![t] = "check"]
    /\ need' = [need EXCEPT ![t] = credits]
    /\ UNCHANGED <<seatVars, flagVars, threadVars, htid, left, restarting, current,
                   target, asleep, upc, work, syncs, extends, faults, histVars>>

\* A refused admission: a first start fails, a restart keeps its old handle
Refuse(t) ==
    /\ pc' = [pc EXCEPT ![t] = IF restarting[t] THEN "failing" ELSE "idle"]
    /\ restarting' = [restarting EXCEPT ![t] = FALSE]
    /\ need' = [need EXCEPT ![t] = 0]

\* admit: the abort check comes before the state lock
AdmitCheck(t) ==
    /\ pc[t] = "check"
    /\ IF aborted THEN Refuse(t)
                  ELSE pc' = [pc EXCEPT ![t] = "lock"] /\ UNCHANGED <<restarting, need>>
    /\ UNCHANGED <<seatVars, flagVars, threadVars, htid, left, current, target,
                   asleep, upc, boundVars, histVars>>

Descriptors(n) == (n + Tags - 1) \div Tags

RevokeBlocks(txn) == IF txn.revokes THEN 1 ELSE 0

\* worst_case_footprint: metadata, revokes, descriptors and the commit block
Footprint(txn, blocks) == blocks + RevokeBlocks(txn) + Descriptors(blocks) + 1

\* reserved_metadata_blocks
Reserved(txn, extra) == txn.captured + txn.outstanding + extra

\* check_capacity
HasRoom(txn, extra) == Reserved(txn, extra) + RevokeBlocks(txn) <= MaxCredits

\* Mutant: no fit guard
FitsAnyLog(size) == size > 0

\* The free segment, free_log_blocks, holds `size' blocks
FitsLog(size) == used + size <= LogCap

\* Snapshot the epoch and go to wait for `tid' (0: for log space)
WaitFor(t, where, tid) ==
    /\ pc' = [pc EXCEPT ![t] = where]
    /\ current' = current \cup {t}
    /\ target' = [target EXCEPT ![t] = tid]
    /\ UNCHANGED <<cAsleep, need, htid, left, restarting>>

\* Mutant: a successor may start while its predecessor drains
NoBarrier == FALSE

\* The locked barrier: a predecessor is draining
LockedBarrier == locking # None

\* The transaction an admission joins: the running one, or a new one
Joined == IF running = None THEN Transaction(nextTid) ELSE running

\* A handle with n credits joins it
Entered(txn, n) ==
    [txn EXCEPT !.updates = @ + 1, !.outstanding = @ + n]

\* admit, under the state lock
Admit(t) ==
    /\ pc[t] = "lock"
    /\ \/ /\ LockedBarrier
          /\ WaitFor(t, "enterRoom", locking.tid)
          /\ UNCHANGED <<running, nextTid>>
       \/ /\ ~LockedBarrier
          /\ nextTid' = IF running = None THEN nextTid + 1 ELSE nextTid
          /\ LET room  == HasRoom(Joined, need[t])
                 space == FitsLog(Footprint(Joined, Reserved(Joined, need[t])))
             IN  \/ /\ ~room
                    /\ running' = Joined
                    /\ WaitFor(t, "enterRoom", Joined.tid)
                 \/ /\ room /\ servicer /\ ~space
                    /\ running' = Joined
                    /\ WaitFor(t, "enterSpace", 0)
                 \/ /\ room /\ (servicer => space)
                    /\ running' = Entered(Joined, need[t])
                    /\ pc' = [pc EXCEPT ![t] = "open"]
                    /\ htid' = [htid EXCEPT ![t] = Joined.tid]
                    /\ left' = [left EXCEPT ![t] = need[t]]
                    /\ restarting' = [restarting EXCEPT ![t] = FALSE]
                    /\ need' = [need EXCEPT ![t] = 0]
                    /\ cAsleep' = (cAsleep /\ running # None)
                    /\ UNCHANGED <<current, target>>
    /\ UNCHANGED <<locking, committing, commitRequest, used, flagVars, cpc, armed,
                   did, asleep, upc, boundVars, histVars>>

\* wait_for_transaction_room: force the blocking transaction's commit
EnterRoom(t) ==
    /\ pc[t] = "enterRoom"
    /\ commitRequest' = RequestFor(target[t])
    /\ RequestCommit
    /\ pc' = [pc EXCEPT ![t] = "room"]
    /\ UNCHANGED <<running, locking, committing, nextTid, used, flagVars, cpc, armed,
                   did, need, htid, left, restarting, current, target, asleep, upc,
                   boundVars, histVars>>

\* has_durable_obligation; committable_running
Committable(txn) == txn # None /\ (txn.captured > 0 \/ txn.revokes)

\* wait_for_log_space: demand a full pass (no wait without a commit thread) ...
EnterSpace(t) ==
    /\ pc[t] = "enterSpace"
    /\ pressure' = (pressure \/ servicer)
    /\ pc' = [pc EXCEPT ![t] = IF servicer THEN "demand" ELSE "check"]
    /\ UNCHANGED <<seatVars, committed, aborted, servicer, stop, threadVars, need,
                   htid, left, restarting, current, target, asleep, upc, boundVars,
                   histVars>>

\* ... and the running transaction's commit: request_commit_of_running
DemandCommit(t) ==
    /\ pc[t] = "demand"
    /\ commitRequest' = IF Committable(running) THEN RequestFor(running.tid)
                                                ELSE commitRequest
    /\ RequestCommit
    /\ pc' = [pc EXCEPT ![t] = "space"]
    /\ UNCHANGED <<running, locking, committing, nextTid, used, flagVars, cpc, armed,
                   did, need, htid, left, restarting, current, target, asleep, upc,
                   boundVars, histVars>>

\* The two admission waits: fail on abort, retry once something moved
AdmissionWait(t) ==
    /\ pc[t] \in {"room", "space"} /\ t \notin asleep
    /\ LET ready == \/ t \notin current
                    \/ pc[t] = "room" /\ committed >= target[t]
                    \/ pc[t] = "space" /\ ~servicer
           Leave == /\ current' = current \ {t}
                    /\ target' = [target EXCEPT ![t] = 0]
                    /\ UNCHANGED asleep
       IN  \/ aborted /\ Refuse(t) /\ Leave
           \/ /\ ~aborted /\ ready
              /\ pc' = [pc EXCEPT ![t] = "check"]
              /\ Leave
              /\ UNCHANGED <<restarting, need>>
           \/ /\ ~aborted /\ ~ready
              /\ asleep' = asleep \cup {t}
              /\ UNCHANGED <<pc, restarting, need, current, target>>
    /\ UNCHANGED <<seatVars, flagVars, threadVars, htid, left, upc, boundVars, histVars>>

\* charge_fresh_capture: a dry handle must find room for one more credit, and
\* takes ExtendBatch of them if it can
Affords(t, txn) == left[t] > 0 \/ HasRoom(txn, 2)

Grant(t, txn) ==
    IF left[t] > 0 THEN 0
    ELSE IF HasRoom(txn, 1 + ExtendBatch) THEN ExtendBatch ELSE 1

\* capture_write, then the charge; both subtractions saturate.  `free': the
\* operation also revokes a block that the un-checkpointed log holds
Captured(t, txn, free) ==
    [txn EXCEPT !.captured = @ + 1,
                !.outstanding = IF Affords(t, txn) THEN Monus(@ + Grant(t, txn), 1) ELSE @,
                !.revokes = @ \/ free]

\* get_write_access through an open handle: a fresh capture spends a credit; one
\* that cannot be paid fails the operation, with the block already captured
Capture(t, free) ==
    LET txn == IF InRunning(htid[t]) THEN running ELSE locking
    IN  /\ pc[t] = "open"
        /\ InRunning(htid[t]) \/ InLocking(htid[t])
        /\ work < MaxWork
        /\ work' = work + 1
        /\ UpdateSeat(htid[t], Captured(t, running, free), Captured(t, locking, free))
        /\ left' = [left EXCEPT ![t] = IF Affords(t, txn) THEN Monus(@ + Grant(t, txn), 1)
                                                          ELSE @]
        /\ pc' = [pc EXCEPT ![t] = IF Affords(t, txn) THEN "open" ELSE "failing"]
        /\ lastWork' = Larger(lastWork, htid[t])
        /\ goal' = [goal EXCEPT ![t] = htid[t]]
        /\ UNCHANGED <<committing, nextTid, commitRequest, used, flagVars, threadVars,
                       need, htid, restarting, current, target, asleep, upc, starts,
                       syncs, extends, faults>>

\* Mutant: the unspent credits are not given back
ReleasedPlaceOnly(t, x) == [x EXCEPT !.updates = Monus(@, 1)]

\* Give back a handle's place and unspent credits; both subtractions saturate
Released(t, x) ==
    [x EXCEPT !.updates = Monus(@, 1), !.outstanding = Monus(@, left[t])]

\* journal_stop: release under the lock ...
Stop(t) ==
    /\ pc[t] \in {"open", "failing"}
    /\ UpdateSeat(htid[t], Released(t, running), Released(t, locking))
    /\ left' = [left EXCEPT ![t] = 0]
    /\ pc' = [pc EXCEPT ![t] = IF InRunning(htid[t]) \/ InLocking(htid[t])
                                 THEN "closing" ELSE "closed"]
    /\ UNCHANGED <<committing, nextTid, commitRequest, used, flagVars, threadVars,
                   need, htid, restarting, current, target, asleep, upc, boundVars,
                   histVars>>

\* ... then publish it and let the committer re-evaluate
StopNotify(t) ==
    /\ pc[t] = "closing"
    /\ NoteCreditsReleased
    /\ RequestCommit
    /\ pc' = [pc EXCEPT ![t] = "closed"]
    /\ UNCHANGED <<seatVars, flagVars, cpc, armed, did, need, htid, left, restarting,
                   target, upc, boundVars, histVars>>

\* ensure_chunk_credits: journal_extend grows the reservation to n, unless the
\* transaction is locked or full
Extend(t, n) ==
    /\ pc[t] = "open" /\ n > left[t]
    /\ InRunning(htid[t]) \/ InLocking(htid[t])
    /\ extends < MaxExtends
    /\ extends' = extends + 1
    /\ IF InRunning(htid[t]) /\ HasRoom(running, n - left[t])
         THEN /\ running' = [running EXCEPT !.outstanding = @ + n - left[t]]
              /\ left' = [left EXCEPT ![t] = n]
              /\ UNCHANGED <<pc, need>>
         ELSE /\ pc' = [pc EXCEPT ![t] = "full"]
              /\ need' = [need EXCEPT ![t] = n]
              /\ UNCHANGED <<running, left>>
    /\ UNCHANGED <<locking, committing, nextTid, commitRequest, used, flagVars,
                   threadVars, htid, restarting, current, target, asleep, upc, work,
                   starts, syncs, faults, histVars>>

\* journal_restart: on an aborted journal the handle stays as it is; otherwise
\* release the old reservation without closing the handle ...
Restart(t) ==
    /\ pc[t] = "full"
    /\ IF aborted
         THEN /\ pc' = [pc EXCEPT ![t] = "open"]
              /\ UNCHANGED <<running, locking, restarting>>
         ELSE /\ UpdateSeat(htid[t], Released(t, running), Released(t, locking))
              /\ pc' = [pc EXCEPT ![t] = "restart"]
              /\ restarting' = [restarting EXCEPT ![t] = TRUE]
    /\ UNCHANGED <<committing, nextTid, commitRequest, used, flagVars, threadVars,
                   need, htid, left, current, target, asleep, upc, boundVars, histVars>>

\* ... wake the waiters, request the old transaction's commit, and admit again
RestartNotify(t) ==
    /\ pc[t] = "restart"
    /\ NoteCreditsReleased
    /\ commitRequest' = RequestFor(htid[t])
    /\ RequestCommit
    /\ pc' = [pc EXCEPT ![t] = "check"]
    /\ UNCHANGED <<running, locking, committing, nextTid, used, flagVars, cpc, armed,
                   did, need, htid, left, restarting, target, upc, boundVars, histVars>>

\* abort_for_fs_error, by an operation with an open handle
FsError(t) ==
    /\ "fs" \in Failures /\ faults < MaxFaults
    /\ pc[t] = "open" /\ ~aborted
    /\ faults' = faults + 1
    /\ aborted' = TRUE
    /\ WakeWaiters
    /\ pc' = [pc EXCEPT ![t] = "failing"]
    /\ UNCHANGED <<seatVars, committed, pressure, servicer, stop, threadVars, need,
                   htid, left, restarting, current, target, upc, work, starts, syncs,
                   extends, histVars>>

\* shutdown without a log flush: abort_for_shutdown
Shutdown ==
    /\ "shutdown" \in Failures /\ faults < MaxFaults
    /\ upc = "mounted" /\ ~aborted
    /\ faults' = faults + 1
    /\ aborted' = TRUE
    /\ WakeWaiters
    /\ UNCHANGED <<seatVars, committed, pressure, servicer, stop, threadVars, pc, need,
                   htid, left, restarting, current, target, upc, work, starts, syncs,
                   extends, histVars>>

\* The operation returns, or goes on to fsync the transaction it wrote to
Finish(t) ==
    /\ pc[t] \in {"closed", "durable", "lost"}
    /\ pc' = [pc EXCEPT ![t] = "idle"]
    /\ htid' = [htid EXCEPT ![t] = 0]
    /\ target' = [target EXCEPT ![t] = 0]
    /\ goal' = [goal EXCEPT ![t] = 0]
    /\ UNCHANGED <<seatVars, flagVars, threadVars, need, left, restarting, current,
                   asleep, upc, boundVars, lastWork>>

\* fsync: sync_data_and_meta waits on the tid the inode last joined
Fsync(t) ==
    /\ pc[t] = "closed" /\ goal[t] > 0 /\ goal[t] = htid[t]
    /\ syncs < MaxSyncs
    /\ syncs' = syncs + 1
    /\ pc' = [pc EXCEPT ![t] = "sync"]
    /\ target' = [target EXCEPT ![t] = goal[t]]
    /\ UNCHANGED <<seatVars, flagVars, threadVars, need, htid, left, restarting, current,
                   asleep, upc, work, starts, extends, faults, histVars>>

\* Mutant: the transaction in the middle of its commit is forgotten
SyncTargetSkipsCommitting ==
    LET newest == IF running # None THEN running ELSE locking
    IN  IF Committable(newest) THEN newest.tid ELSE 0

\* sync_durability_target: the newest seat with something to make durable, 0 if none
SyncTarget ==
    LET newest == IF running # None THEN running ELSE locking
    IN  IF Committable(newest) THEN newest.tid
        ELSE IF committing # None THEN committing.tid ELSE 0

\* sync(2): commit_and_wait_running
Sync(t) ==
    /\ pc[t] = "idle" /\ upc = "mounted"
    /\ syncs < MaxSyncs
    /\ syncs' = syncs + 1
    /\ goal' = [goal EXCEPT ![t] = lastWork]
    /\ target' = [target EXCEPT ![t] = SyncTarget]
    /\ pc' = [pc EXCEPT ![t] = IF SyncTarget # 0 THEN "sync"
                                 ELSE IF aborted THEN "lost" ELSE "durable"]
    /\ UNCHANGED <<seatVars, flagVars, threadVars, need, htid, left, restarting, current,
                   asleep, upc, work, starts, extends, faults, lastWork>>

\* log_wait_commit: done already, or request the commit ...
LogWaitCommit(t) ==
    /\ pc[t] = "sync"
    /\ IF committed >= target[t]
         THEN /\ pc' = [pc EXCEPT ![t] = "durable"]
              /\ UNCHANGED <<commitRequest, cAsleep>>
         ELSE /\ pc' = [pc EXCEPT ![t] = "wait"]
              /\ commitRequest' = RequestFor(target[t])
              /\ RequestCommit
    /\ UNCHANGED <<running, locking, committing, nextTid, used, flagVars, cpc, armed,
                   did, need, htid, left, restarting, current, target, asleep, upc,
                   boundVars, histVars>>

\* ... and wait for it
CommitWait(t) ==
    /\ pc[t] = "wait" /\ t \notin asleep
    /\ \/ /\ committed >= target[t]
          /\ pc' = [pc EXCEPT ![t] = "durable"] /\ UNCHANGED asleep
       \/ /\ committed < target[t] /\ aborted
          /\ pc' = [pc EXCEPT ![t] = "lost"] /\ UNCHANGED asleep
       \/ /\ committed < target[t] /\ ~aborted
          /\ asleep' = asleep \cup {t} /\ UNCHANGED pc
    /\ UNCHANGED <<seatVars, flagVars, threadVars, need, htid, left, restarting, current,
                   target, upc, boundVars, histVars>>

-----------------------------------------------------------------------------
(* The commit thread: commit_thread_loop                                    *)

\* commit_triggered: a request, the age, or the batch size
Due(txn) ==
    /\ Committable(txn)
    /\ commitRequest >= txn.tid \/ txn.expired
       \/ txn.captured + RevokeBlocks(txn) >= BatchTrigger

\* Mutant: the age timer is never armed
AgeKeyNone == 0

\* age_key: the transaction the age timer is for, 0 if none
AgeKey == IF Committable(running) THEN running.tid ELSE 0

\* age_deadline
Arm ==
    /\ cpc = "arm"
    /\ armed' = IF aborted THEN 0 ELSE AgeKey
    /\ cpc' = "poll"
    /\ UNCHANGED <<seatVars, flagVars, cAsleep, did, taskVars, upc, boundVars, histVars>>

\* Mutant: one handle may still be open
DrainedButOne(txn) == txn.updates <= 1

\* Every handle of the transaction has closed
Drained(txn) == txn.updates = 0

\* poll_commit_action, evaluated before sleeping and on every wake-up
Poll ==
    /\ cpc = "poll" /\ ~cAsleep
    /\ LET advance == \/ pressure
                      \/ locking # None /\ Drained(locking)
                      \/ locking = None /\ Due(running)
           idle    == aborted \/ committing # None
           rearm   == locking = None /\ AgeKey # armed
       IN  \/ stop /\ cpc' = "exit" /\ UNCHANGED cAsleep
           \/ ~stop /\ ~idle /\ advance /\ cpc' = "advance" /\ UNCHANGED cAsleep
           \/ ~stop /\ ~idle /\ ~advance /\ rearm /\ cpc' = "arm" /\ UNCHANGED cAsleep
           \/ ~stop /\ (idle \/ (~advance /\ ~rearm)) /\ cAsleep' = TRUE /\ UNCHANGED cpc
    /\ UNCHANGED <<seatVars, flagVars, armed, did, taskVars, upc, boundVars, histVars>>

\* The armed deadline passes: the transaction it was armed for is expired
AgeTimeout ==
    /\ cpc = "poll" /\ cAsleep /\ armed # 0
    /\ running' = IF InRunning(armed) THEN [running EXCEPT !.expired = TRUE] ELSE running
    /\ cpc' = "advance"
    /\ cAsleep' = FALSE
    /\ UNCHANGED <<locking, committing, nextTid, commitRequest, used, flagVars, armed,
                   did, taskVars, upc, boundVars, histVars>>

\* advance_pipeline: the abort check comes before the state lock ...
AdvanceCheck ==
    /\ cpc = "advance"
    /\ did' = FALSE /\ armed' = 0
    /\ cpc' = IF aborted THEN "after" ELSE "lock"
    /\ UNCHANGED <<seatVars, flagVars, cAsleep, taskVars, upc, boundVars, histVars>>

\* stage_committing covers every request up to its tid
StageCommitting(txn) ==
    /\ committing' = txn
    /\ commitRequest' = IF txn.tid >= commitRequest THEN 0 ELSE commitRequest

\* ... then one critical section: stage a drained seat, stage or park a due
\* running transaction, or nothing
AdvancePipeline ==
    /\ cpc = "lock"
    /\ LET drained == committing = None /\ locking # None /\ Drained(locking)
           due     == committing = None /\ locking = None /\ Due(running)
       IN  \/ /\ drained
              /\ StageCommitting(locking)
              /\ locking' = None
              /\ cpc' = "staged"
              /\ UNCHANGED running
           \/ /\ due /\ Drained(running)
              /\ StageCommitting(running)
              /\ running' = None
              /\ cpc' = "staged"
              /\ UNCHANGED locking
           \/ /\ due /\ ~Drained(running)
              /\ locking' = running
              /\ running' = None
              /\ cpc' = "after"
              /\ UNCHANGED <<committing, commitRequest>>
           \/ /\ ~drained /\ ~due
              /\ cpc' = "after"
              /\ UNCHANGED <<running, locking, committing, commitRequest>>
    /\ UNCHANGED <<nextTid, used, flagVars, cAsleep, armed, did, taskVars, upc,
                   boundVars, histVars>>

\* commit_one: the seats moved, lift the locked barrier's waiters
StagedNotify ==
    /\ cpc = "staged"
    /\ NoteCreditsReleased
    /\ did' = TRUE
    /\ cpc' = "commit"
    /\ UNCHANGED <<seatVars, flagVars, cAsleep, armed, pc, need, htid, left, restarting,
                   target, upc, boundVars, histVars>>

\* What a checkpoint pass may leave in use: a full pass empties the log, an
\* incremental one stops past the low-water mark, and either stops early, or
\* does nothing, in front of a transaction that an unpublished revoke covers
RevokePending == \E txn \in {running, locking, committing} \ {None} : txn.revokes

Reclaimed(full) ==
    {u \in 0 .. used :
        \/ RevokePending
        \/ IF full THEN u = 0 ELSE u < used /\ LogCap - u >= LowWater}

\* commit_staged: the fit guard, the log writes and the publication of the new
\* head.  A transaction that does not fit is tried again after one inline drain.
CommitTransaction ==
    /\ cpc \in {"commit", "retry"}
    /\ LET size == Footprint(committing, committing.captured)
       IN  \/ /\ FitsLog(size)
              /\ used' = used + size /\ cpc' = "store" /\ UNCHANGED <<aborted, asleep>>
           \/ /\ ~FitsLog(size) /\ cpc = "commit"
              /\ cpc' = "drain" /\ UNCHANGED <<used, aborted, asleep>>
           \/ /\ ~FitsLog(size) /\ cpc = "retry"
              /\ aborted' = TRUE /\ WakeWaiters /\ cpc' = "clear" /\ UNCHANGED used
    /\ UNCHANGED <<running, locking, committing, nextTid, commitRequest, committed,
                   pressure, servicer, stop, cAsleep, armed, did, pc, need, htid, left,
                   restarting, current, target, upc, boundVars, histVars>>

\* commit_or_drain_tail: the inline checkpoint
DrainTail ==
    /\ cpc = "drain"
    /\ used' \in Reclaimed(TRUE)
    /\ cpc' = "retry"
    /\ UNCHANGED <<running, locking, committing, nextTid, commitRequest, flagVars,
                   cAsleep, armed, did, taskVars, upc, boundVars, histVars>>

\* A device error in the commit or in its drain: abort before the slot is cleared
CommitFail ==
    /\ \/ "commit" \in Failures /\ cpc \in {"commit", "retry"}
       \/ "checkpoint" \in Failures /\ cpc = "drain"
    /\ faults < MaxFaults
    /\ faults' = faults + 1
    /\ aborted' = TRUE
    /\ WakeWaiters
    /\ cpc' = "clear"
    /\ UNCHANGED <<seatVars, committed, pressure, servicer, stop, cAsleep, armed, did,
                   pc, need, htid, left, restarting, current, target, upc, work, starts,
                   syncs, extends, histVars>>

\* The last step of try_commit_transaction: committed_tid
StoreCommitted ==
    /\ cpc = "store"
    /\ committed' = committing.tid
    /\ cpc' = "clear"
    /\ UNCHANGED <<seatVars, aborted, pressure, servicer, stop, cAsleep, armed, did,
                   taskVars, upc, boundVars, histVars>>

\* clear_committing
ClearCommitting ==
    /\ cpc = "clear"
    /\ committing' = None
    /\ WakeWaiters
    /\ RequestCommit
    /\ cpc' = IF upc = "flush" THEN "flush" ELSE "after"
    /\ UNCHANGED <<running, locking, nextTid, commitRequest, used, flagVars, armed, did,
                   pc, need, htid, left, restarting, current, target, upc, boundVars,
                   histVars>>

\* The commit loop goes round while it did something, and sleeps otherwise
LoopOr(progress) == IF progress THEN "advance" ELSE "arm"

\* After commit_one: an aborted journal is left alone, any other is checkpointed
AfterCommit ==
    /\ cpc = "after"
    /\ cpc' = IF aborted THEN "arm" ELSE "checkpoint"
    /\ UNCHANGED <<seatVars, flagVars, cAsleep, armed, did, taskVars, upc, boundVars,
                   histVars>>

\* run_lazy_checkpoint: consume the demand, decide on a pass ...
LazyCheckpoint ==
    /\ cpc = "checkpoint"
    /\ pressure' = FALSE
    /\ cpc' = IF used > 0 /\ pressure THEN "reclaimAll"
              ELSE IF used > 0 /\ LogCap - used < LowWater THEN "reclaimLow"
              ELSE LoopOr(did)
    /\ UNCHANGED <<seatVars, committed, aborted, servicer, stop, cAsleep, armed, did,
                   taskVars, upc, boundVars, histVars>>

\* ... run it ...
Reclaim ==
    /\ cpc \in {"reclaimAll", "reclaimLow"}
    /\ used' \in Reclaimed(cpc = "reclaimAll")
    /\ cpc' = IF used' < used THEN "freed" ELSE LoopOr(did)
    /\ UNCHANGED <<running, locking, committing, nextTid, commitRequest, flagVars,
                   cAsleep, armed, did, taskVars, upc, boundVars, histVars>>

\* ... and wake the log-space waiters if the tail advanced
ReclaimNotify ==
    /\ cpc = "freed"
    /\ NoteCreditsReleased
    /\ cpc' = "advance"
    /\ UNCHANGED <<seatVars, flagVars, cAsleep, armed, did, pc, need, htid, left,
                   restarting, target, upc, boundVars, histVars>>

\* A pass that fails is logged and counts as one that freed nothing
ReclaimFail ==
    /\ cpc \in {"reclaimAll", "reclaimLow"}
    /\ "checkpoint" \in Failures /\ faults < MaxFaults
    /\ faults' = faults + 1
    /\ cpc' = LoopOr(did)
    /\ UNCHANGED <<seatVars, flagVars, cAsleep, armed, did, taskVars, upc, work, starts,
                   syncs, extends, histVars>>

-----------------------------------------------------------------------------
(* Unmount: Ext4::drop, which runs when no operation is in flight           *)

\* stop_commit_thread
StopCommitThread ==
    /\ upc = "mounted" /\ \A t \in Tasks : pc[t] = "idle"
    /\ upc' = "join"
    /\ servicer' = FALSE
    /\ stop' = TRUE
    /\ RequestCommit
    /\ WakeWaiters
    /\ UNCHANGED <<seatVars, committed, aborted, pressure, cpc, armed, did, pc, need,
                   htid, left, restarting, current, target, boundVars, histVars>>

\* flush_on_unmount, once the thread is joined: an aborted journal is dropped
FlushOnUnmount ==
    /\ upc = "join" /\ cpc = "exit"
    /\ IF aborted THEN /\ upc' = "dirty"
                       /\ running' = None
                       /\ locking' = None
                       /\ UNCHANGED cpc
                  ELSE /\ upc' = "flush"
                       /\ cpc' = "flush"
                       /\ UNCHANGED <<running, locking>>
    /\ UNCHANGED <<committing, nextTid, commitRequest, used, flagVars, cAsleep, armed,
                   did, taskVars, boundVars, histVars>>

\* Mutant: only the running seat is looked at
LeftoverRunning == running

\* The oldest transaction left in a seat
Leftover == IF locking # None THEN locking ELSE running

\* Its loop: commit or drop the leftover transactions, oldest first; the commit is
\* commit_staged, the same steps as the thread's
FlushNext ==
    /\ upc = "flush" /\ cpc = "flush"
    /\ \/ /\ aborted \/ (Leftover # None /\ ~Drained(Leftover))
          /\ upc' = "dirty" /\ cpc' = "exit"
          /\ UNCHANGED <<running, locking, committing, commitRequest, used>>
       \/ /\ ~aborted /\ Leftover # None /\ Drained(Leftover)
          /\ locking' = IF Leftover = locking THEN None ELSE locking
          /\ running' = IF Leftover = locking THEN running ELSE None
          /\ IF Committable(Leftover)
               THEN StageCommitting(Leftover) /\ cpc' = "commit"
               ELSE UNCHANGED <<committing, commitRequest, cpc>>
          /\ UNCHANGED <<upc, used>>
       \/ /\ ~aborted /\ Leftover = None
          /\ used' \in Reclaimed(TRUE)
          /\ upc' = "clean" /\ cpc' = "exit"
          /\ UNCHANGED <<running, locking, committing, commitRequest>>
    /\ UNCHANGED <<nextTid, flagVars, cAsleep, armed, did, taskVars, boundVars,
                   histVars>>

\* The final checkpoint fails: the log is left for recovery
FlushFail ==
    /\ upc = "flush" /\ cpc = "flush"
    /\ running = None /\ locking = None /\ ~aborted
    /\ "checkpoint" \in Failures /\ faults < MaxFaults
    /\ faults' = faults + 1
    /\ upc' = "dirty" /\ cpc' = "exit"
    /\ UNCHANGED <<seatVars, flagVars, cAsleep, armed, did, taskVars, work, starts,
                   syncs, extends, histVars>>

-----------------------------------------------------------------------------

\* What a task does by itself once its operation began
TaskStep(t) ==
    \/ AdmitCheck(t) \/ Admit(t)
    \/ EnterRoom(t) \/ EnterSpace(t) \/ DemandCommit(t) \/ AdmissionWait(t)
    \/ Stop(t) \/ StopNotify(t)
    \/ Restart(t) \/ RestartNotify(t)
    \/ LogWaitCommit(t) \/ CommitWait(t)
    \/ Finish(t)

\* What it may or may not do
TaskChoice(t) ==
    \/ \E n \in Credits : Begin(t, n) \/ Extend(t, n)
    \/ \E free \in BOOLEAN : Capture(t, free)
    \/ FsError(t)
    \/ Fsync(t) \/ Sync(t)

CommitStep ==
    \/ Arm \/ Poll
    \/ AdvanceCheck \/ AdvancePipeline \/ StagedNotify
    \/ CommitTransaction \/ DrainTail \/ StoreCommitted \/ ClearCommitting
    \/ AfterCommit \/ LazyCheckpoint \/ Reclaim \/ ReclaimNotify
    \/ FlushOnUnmount \/ FlushNext

Fault == CommitFail \/ ReclaimFail \/ FlushFail \/ Shutdown

Next ==
    \/ \E t \in Tasks : TaskStep(t) \/ TaskChoice(t)
    \/ CommitStep
    \/ AgeTimeout
    \/ StopCommitThread
    \/ Fault

Spec == Init /\ [][Next]_vars

\* The scheduler runs every ready thread, and timers fire
Fairness ==
    /\ \A t \in Tasks : WF_vars(TaskStep(t))
    /\ WF_vars(CommitStep)
    /\ WF_vars(AgeTimeout)

FairSpec == Spec /\ Fairness

-----------------------------------------------------------------------------
(* Properties                                                               *)

Seats == {running, locking, committing} \ {None}

TaskStates ==
    {"idle", "check", "lock", "enterRoom", "room", "enterSpace", "demand", "space",
     "open", "full", "failing", "closing", "closed", "restart", "sync", "wait",
     "durable", "lost"}

CommitterStates ==
    {"arm", "poll", "advance", "lock", "staged", "commit", "drain", "retry", "store",
     "clear", "after", "checkpoint", "reclaimAll", "reclaimLow", "freed", "flush",
     "exit"}

Flags ==
    /\ aborted \in BOOLEAN /\ pressure \in BOOLEAN
    /\ servicer \in BOOLEAN /\ stop \in BOOLEAN
    /\ cAsleep \in BOOLEAN /\ did \in BOOLEAN

\* The type invariant: among other things every counter the code subtracts from
\* stays a natural number, and the log never holds more than the ring
TypeOK ==
    /\ running \in TransactionType \cup {None}
    /\ locking \in TransactionType \cup {None}
    /\ committing \in TransactionType \cup {None}
    /\ nextTid \in Nat \ {0} /\ commitRequest \in Nat /\ used \in 0 .. LogCap
    /\ committed \in Nat /\ Flags
    /\ cpc \in CommitterStates /\ armed \in Nat
    /\ pc \in [Tasks -> TaskStates]
    /\ need \in [Tasks -> Nat] /\ htid \in [Tasks -> Nat] /\ left \in [Tasks -> Nat]
    /\ restarting \in [Tasks -> BOOLEAN]
    /\ current \subseteq Tasks /\ target \in [Tasks -> Nat] /\ asleep \subseteq Tasks
    /\ upc \in {"mounted", "join", "flush", "clean", "dirty"}
    /\ work \in Nat /\ starts \in Nat /\ syncs \in Nat /\ extends \in Nat
    /\ faults \in Nat /\ lastWork \in Nat /\ goal \in [Tasks -> Nat]

\* Log order is tid order.  The locked barrier keeps a successor out while a
\* transaction drains, commits are serial, and whatever seat a transaction sits
\* in, it is newer than everything committed and older than the next one
\* (admit, advance_pipeline, flush_on_unmount).
SeatOrder ==
    /\ locking # None => running = None /\ committing = None
    /\ running # None => committed < running.tid /\ running.tid < nextTid
    /\ locking # None => committed < locking.tid /\ locking.tid < nextTid
    /\ committing # None => committed <= committing.tid /\ committing.tid < nextTid
    /\ running # None /\ committing # None => committing.tid < running.tid
    /\ committed < nextTid

Holders(tid) ==
    {t \in Tasks : pc[t] \in {"open", "full", "failing"} /\ htid[t] = tid}

\* The freeze: while the journal is healthy t_updates counts exactly the open
\* handles, so a transaction handed to the committer has none, and no operation
\* holds a handle on a transaction that can no longer take its captures
\* (journal_stop and journal_restart against advance_pipeline's drain test).
OpenHandlesHoldTransaction ==
    ~aborted =>
        /\ \A txn \in Seats : txn.updates = Cardinality(Holders(txn.tid))
        /\ committing # None => committing.updates = 0
        /\ \A t \in Tasks : pc[t] \in {"open", "full", "failing"} =>
              InRunning(htid[t]) \/ InLocking(htid[t])

\* The unspent credits of a transaction's open handles
Unspent(tid) == SumFunctionOnSet(left, Holders(tid))

\* Credit accounting: while the journal is healthy the outstanding credits of a
\* transaction are exactly what its open handles have left
\* (charge_fresh_capture, try_grow_reservation, journal_stop, journal_restart).
CreditsAccounted ==
    ~aborted => \A txn \in Seats : txn.outstanding = Unspent(txn.tid)

\* No false durability: when fsync or sync(2) returns success, the work it was
\* called for is committed (sync_durability_target, log_wait_commit)
SyncIsDurable ==
    \A t \in Tasks : pc[t] = "durable" => goal[t] <= committed

\* A clean unmount leaves nothing behind: all captured work is committed and the
\* log is empty (stop_commit_thread, flush_on_unmount)
CleanUnmount ==
    upc = "clean" => lastWork <= committed /\ used = 0 /\ Seats = {}

\* Every admission ends: a task asking for a handle is admitted or refused
AdmissionEnds ==
    \A t \in Tasks :
        pc[t] \in {"check", "lock", "room", "space"} ~>
        pc[t] \in {"open", "idle", "failing"}

\* Every durability wait ends, in success or in an error
SyncEnds ==
    \A t \in Tasks : pc[t] \in {"sync", "wait"} ~> pc[t] \in {"durable", "lost"}

\* The age trigger: captured work does not stay in memory; nobody has to ask
WorkGetsCommitted ==
    \A n \in 1 .. MaxWork : lastWork >= n ~> (committed >= n \/ aborted)

\* Unmount ends
UnmountEnds == upc = "join" ~> upc \in {"clean", "dirty"}

=============================================================================
