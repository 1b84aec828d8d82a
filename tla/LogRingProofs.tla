--------------------------- MODULE LogRingProofs ---------------------------
(***************************************************************************)
(* What the ring and the ids guarantee for every ring and every number of  *)
(* ids.                                                                    *)
(***************************************************************************)
EXTENDS LogRing, TLAPS

-----------------------------------------------------------------------------
(* Positions                                                                *)

\* The blocks of the live log: what lies between its tail and its head
Live(head, tail) ==
    {AdvanceLog(tail, k) : k \in 0 .. Usable - FreeLogBlocks(head, tail) - 1}

\* advance, a closed form here, takes one step of next_log_block after the
\* other and stays in the ring.
LEMMA AdvanceSteps ==
    ASSUME NEW pos \in Ring, NEW count \in 0 .. Usable - 1
    PROVE  /\ AdvanceLog(pos, 0) = pos
           /\ AdvanceLog(pos, count) \in Ring
           /\ AdvanceLog(pos, count + 1) = NextLogBlock(AdvanceLog(pos, count))
BY RingAssumption DEF AdvanceLog, NextLogBlock, Ring, Usable

\* A transaction no larger than the free part of the ring leaves the live log
\* alone, wherever the ring's end lies (free_log_blocks admits it,
\* try_commit_transaction writes it at the head).
THEOREM AppendKeepsLog ==
    ASSUME NEW head \in Ring, NEW tail \in Ring \cup {Clean},
           NEW k \in 0 .. FreeLogBlocks(head, tail) - 1
    PROVE  /\ AdvanceLog(head, k) \in Ring
           /\ tail # Clean => AdvanceLog(head, k) \notin Live(head, tail)
<1>1. CASE tail = Clean
  BY <1>1, RingAssumption DEF AdvanceLog, FreeLogBlocks, Ring, Usable, Clean
<1>2. CASE tail # Clean
  <2>1. tail \in Ring
    BY <1>2
  <2>2. FreeLogBlocks(head, tail) \in 0 .. Usable - 1
    BY <1>2, <2>1, RingAssumption DEF FreeLogBlocks, Ring, Usable
  <2>3. AdvanceLog(head, k) \in Ring
    BY <2>2, AdvanceSteps, RingAssumption DEF Usable
  <2>4. ASSUME NEW j \in 0 .. Usable - FreeLogBlocks(head, tail) - 1
        PROVE  AdvanceLog(head, k) # AdvanceLog(tail, j)
    BY <1>2, <2>1, <2>2, RingAssumption DEF AdvanceLog, FreeLogBlocks, Ring, Usable
  <2> QED
    BY <2>3, <2>4 DEF Live
<1> QED
  BY <1>1, <1>2

-----------------------------------------------------------------------------
(* Transaction ids                                                          *)

\* The id d commits after t
TidAfter(t, d) == (t + d) % TidSpan

\* Within half of the ids the order of Tid::geq is the order in which the
\* transactions were started, also across the wrap to zero.
THEOREM TidOrder ==
    ASSUME NEW t \in Tids, NEW d \in 0 .. (TidSpan \div 2) - 1
    PROVE  /\ TidGeq(TidAfter(t, d), t)
           /\ d > 0 => ~TidGeq(t, TidAfter(t, d))
<1> DEFINE a == TidAfter(t, d)
           half == TidSpan \div 2
<1>1. \A x \in 0 .. 2 * TidSpan - 1 : x % TidSpan = IF x < TidSpan THEN x ELSE x - TidSpan
  BY RingAssumption
<1>2. half \in Nat /\ half <= TidSpan /\ TidSpan = half + half
  BY RingAssumption
<1>3. t \in 0 .. TidSpan - 1 /\ d \in 0 .. half - 1
  BY DEF Tids
<1>4. a = IF t + d < TidSpan THEN t + d ELSE t + d - TidSpan
  <2>1. t + d \in 0 .. 2 * TidSpan - 1
    BY <1>2, <1>3, RingAssumption
  <2> QED
    BY <1>1, <1>2, <1>3, <2>1, RingAssumption DEF TidAfter
<1> HIDE DEF a, half
<1>5. (a - t + TidSpan) % TidSpan = d
  <2>1. a - t + TidSpan \in {d, d + TidSpan} /\ d \in 0 .. TidSpan - 1
    BY <1>2, <1>3, <1>4, RingAssumption
  <2> QED
    BY <1>1, <2>1, RingAssumption
<1>6. d > 0 => (t - a + TidSpan) % TidSpan = TidSpan - d
  <2>1. t - a + TidSpan \in {TidSpan - d, 2 * TidSpan - d} /\ d \in 0 .. TidSpan - 1
    BY <1>2, <1>3, <1>4, RingAssumption
  <2> QED
    BY <1>1, <2>1, RingAssumption
<1>7. TidGeq(a, t) <=> (a - t + TidSpan) % TidSpan < half
  BY DEF TidGeq, half
<1>8. TidGeq(t, a) <=> (t - a + TidSpan) % TidSpan < half
  BY DEF TidGeq, half
<1>9. TidGeq(a, t) /\ (d > 0 => ~TidGeq(t, a))
  BY <1>2, <1>3, <1>5, <1>6, <1>7, <1>8, RingAssumption
<1> QED
  BY <1>9 DEF a
=============================================================================
