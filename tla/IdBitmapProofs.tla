--------------------------- MODULE IdBitmapProofs ---------------------------
(***************************************************************************)
(* Searches of a bitmap start at first_available_id and do not look at     *)
(* the bit there.  The theorems show, for bitmaps of every size, that the  *)
(* operations keep it where the search needs it and that a search from it  *)
(* misses no run and returns no id in use.                                 *)
(***************************************************************************)
EXTENDS IdBitmap, TLAPS, WellFoundedInduction

\* first_available_id is the first id that is not in use, or the end
HintExact(map) ==
    /\ map.used \in SUBSET Ids /\ map.first \in 0 .. NrIds
    /\ map.first \notin map.used
    /\ \A i \in Ids : i < map.first => i \in map.used

\* A run of ids that nobody uses
FreeRun(map, start, count) ==
    Run(start, count) \subseteq Ids /\ Run(start, count) \cap map.used = {}

-----------------------------------------------------------------------------
(* The least element of a set of ids                                        *)

LEMMA LeastExists ==
    ASSUME NEW S \in SUBSET Nat, S # {}
    PROVE  \E m \in S : \A k \in S : m <= k
<1> DEFINE R == OpToRel(<, Nat)
<1>1. IsWellFoundedOn(R, Nat)
  BY NatLessThanWellFounded, Zenon
<1>2. \A a, b \in Nat : a < b => <<a, b>> \in R
  BY Zenon DEF OpToRel
<1> HIDE DEF R
<1>3. PICK x \in S : \A y \in S : ~ (<<y, x>> \in R)
  BY <1>1, WFMin, Zenon
<1>4. \A y \in S : ~ (y < x)
  BY <1>2, <1>3, Zenon
<1> QED
  BY <1>4

LEMMA LeastIs ==
    ASSUME NEW S \in SUBSET Nat, S # {}
    PROVE  /\ Least(S) \in S
           /\ \A k \in S : Least(S) <= k
BY LeastExists, Zenon DEF Least

\* The end of the bitmap is the answer when every id is in use.
LEMMA FirstFreeIs ==
    ASSUME NrIds \in Nat, NEW used \in SUBSET Ids, NEW from \in 0 .. NrIds
    PROVE  /\ FirstFree(used, from) \in from .. NrIds
           /\ FirstFree(used, from) \notin used
           /\ \A i \in from .. NrIds : i < FirstFree(used, from) => i \in used
<1> DEFINE S == {i \in from .. NrIds : i \notin used}
<1>1. NrIds \in S
  BY DEF Ids
<1>2. S \in SUBSET Nat
  OBVIOUS
<1>3. FirstFree(used, from) = Least(S)
  BY DEF FirstFree
<1> HIDE DEF S
<1>4. PICK m \in S : m = Least(S) /\ \A k \in S : m <= k
  BY <1>1, <1>2, LeastIs, Zenon
<1>5. \A i \in from .. NrIds : i < m => i \notin S
  BY <1>2, <1>4
<1> QED
  BY <1>3, <1>4, <1>5 DEF S

-----------------------------------------------------------------------------
(* The search                                                               *)

\* With an exact hint the candidates are the free runs, although the search
\* starts at the hint and takes the bit there on trust.
LEMMA CandidatesAreFree ==
    ASSUME NrIds \in Nat, NEW map, HintExact(map), NEW count \in Nat \ {0}, NEW s \in Nat
    PROVE  s \in Candidates(map, count) <=> FreeRun(map, s, count)
<1>1. ASSUME s \in Candidates(map, count) PROVE FreeRun(map, s, count)
  BY <1>1 DEF Candidates, FreeRun, HintExact, Run, Ids
<1>2. ASSUME FreeRun(map, s, count) PROVE s \in Candidates(map, count)
  <2>1. s \in Run(s, count) /\ s + count - 1 \in Run(s, count)
    BY DEF Run
  <2>2. s \in Ids /\ s \notin map.used /\ s + count - 1 \in Ids
    BY <1>2, <2>1 DEF FreeRun
  <2>3. s >= map.first /\ s <= NrIds - count
    BY <2>2 DEF HintExact, Ids
  <2> QED
    BY <1>2, <2>3 DEF Candidates, FreeRun, HintExact
<1> QED
  BY <1>1, <1>2

\* alloc_consecutive succeeds exactly when the bitmap has a free run of that
\* length, and returns the lowest one.
THEOREM SearchIsExact ==
    ASSUME NrIds \in Nat, NEW map, HintExact(map), NEW count \in Nat \ {0}
    PROVE  /\ Fits(map, count) <=> \E s \in Nat : FreeRun(map, s, count)
           /\ Fits(map, count) =>
                \E s \in Nat :
                   /\ Found(map, count) = Run(s, count)
                   /\ FreeRun(map, s, count)
                   /\ \A r \in Nat : FreeRun(map, r, count) => s <= r
<1>1. Candidates(map, count) \in SUBSET Nat
  BY DEF Candidates, HintExact
<1>2. Fits(map, count) <=> Candidates(map, count) # {}
  BY DEF Fits
<1>3. \A s \in Nat : s \in Candidates(map, count) <=> FreeRun(map, s, count)
  BY CandidatesAreFree
<1>4. Fits(map, count) <=> \E s \in Nat : FreeRun(map, s, count)
  BY <1>1, <1>2, <1>3, Zenon
<1>5. ASSUME Fits(map, count)
      PROVE  \E s \in Nat :
                /\ Found(map, count) = Run(s, count)
                /\ FreeRun(map, s, count)
                /\ \A r \in Nat : FreeRun(map, r, count) => s <= r
  <2> DEFINE s == Least(Candidates(map, count))
  <2>1. s \in Candidates(map, count) /\ \A r \in Candidates(map, count) : s <= r
    BY <1>1, <1>2, <1>5, LeastIs
  <2>2. Found(map, count) = Run(s, count)
    BY DEF Found
  <2> HIDE DEF s
  <2> QED
    BY <1>1, <1>3, <2>1, <2>2, Zenon
<1> QED
  BY <1>4, <1>5, Zenon

-----------------------------------------------------------------------------
(* The operations keep the hint exact                                       *)

LEMMA FromBufExact ==
    ASSUME NrIds \in Nat, NEW used \in SUBSET Ids
    PROVE  HintExact(FromBuf(used))
<1>1. 0 \in 0 .. NrIds
  OBVIOUS
<1>2. FromBuf(used).used = used /\ FromBuf(used).first = FirstFree(used, 0)
  BY DEF FromBuf
<1>3. /\ FirstFree(used, 0) \in 0 .. NrIds /\ FirstFree(used, 0) \notin used
      /\ \A i \in 0 .. NrIds : i < FirstFree(used, 0) => i \in used
  BY <1>1, FirstFreeIs
<1>4. \A i \in Ids : i \in 0 .. NrIds
  BY DEF Ids
<1> QED
  BY <1>2, <1>3, <1>4 DEF HintExact

LEMMA MarkedExact ==
    ASSUME NrIds \in Nat, NEW map, HintExact(map), NEW count \in Nat \ {0},
           NEW s \in Nat, FreeRun(map, s, count)
    PROVE  HintExact(Marked(map, Run(s, count)))
<1> DEFINE used == map.used \cup Run(s, count)
           last == s + count - 1
           new  == Marked(map, Run(s, count))
           past == CHOOSE i \in Run(s, count) : \A j \in Run(s, count) : j <= i
<1>1. last \in Run(s, count) /\ \A j \in Run(s, count) : j <= last
  BY DEF Run
<1>2. past = last
  <2>1. \A i \in Run(s, count) : (\A j \in Run(s, count) : j <= i) => i = last
    BY DEF Run
  <2> HIDE DEF last
  <2> QED
    BY <1>1, <2>1, Zenon
<1>3. /\ new.used = used
      /\ new.first = IF map.first \in used THEN FirstFree(used, last + 1) ELSE map.first
  <2>1. new = [used |-> used,
               first |-> IF map.first \in used THEN FirstFree(used, past + 1) ELSE map.first]
    BY Zenon DEF Marked
  <2> HIDE DEF new, past, last
  <2>2. new.used = used
    BY <2>1
  <2>3. new.first = IF map.first \in used THEN FirstFree(used, past + 1) ELSE map.first
    BY <2>1
  <2> QED
    BY <1>2, <2>2, <2>3, Zenon
<1>4. used \in SUBSET Ids /\ last \in Ids
  BY <1>1 DEF HintExact, FreeRun
<1> SUFFICES HintExact(new)
  OBVIOUS
<1> HIDE DEF new
<1>5. CASE map.first \notin used
  BY <1>3, <1>4, <1>5 DEF HintExact
<1>6. CASE map.first \in used
  <2>1. last + 1 \in 0 .. NrIds
    BY <1>4 DEF Ids
  <2> DEFINE f == FirstFree(used, last + 1)
  <2>2. /\ f \in last + 1 .. NrIds /\ f \notin used
        /\ \A i \in last + 1 .. NrIds : i < f => i \in used
    BY <1>4, <2>1, FirstFreeIs
  <2>3. s \in Run(s, count)
    BY DEF Run
  <2>4. s \in Ids /\ s \notin map.used
    BY <2>3 DEF FreeRun
  <2>5. map.first = s
    BY <1>6, <2>4 DEF HintExact, Run, Ids
  <2> HIDE DEF f, used
  <2>6. \A i \in Ids : i < f => i \in used
    <3> SUFFICES ASSUME NEW i \in Ids, i < f PROVE i \in used
      OBVIOUS
    <3>1. CASE i < s
      BY <2>5, <3>1 DEF HintExact, used
    <3>2. CASE i >= s /\ i <= last
      BY <3>2 DEF Run, Ids, used
    <3>3. CASE i > last
      BY <2>2, <3>3 DEF Ids
    <3> QED
      BY <3>1, <3>2, <3>3 DEF Ids
  <2>7. f \in 0 .. NrIds
    BY <2>2
  <2> QED
    BY <1>3, <1>4, <1>6, <2>2, <2>6, <2>7 DEF HintExact, f
<1> QED
  BY <1>5, <1>6

LEMMA ReleasedExact ==
    ASSUME NrIds \in Nat, NEW map, HintExact(map), NEW run \in SUBSET Ids
    PROVE  HintExact(Released(map, run))
<1> DEFINE new == Released(map, run)
<1>1. new.used = map.used \ run
  BY DEF Released
<1>2. CASE run = {}
  <2>1. new.first = map.first
    BY <1>2 DEF Released
  <2> HIDE DEF new
  <2> QED
    BY <1>1, <1>2, <2>1 DEF HintExact, new
<1>3. CASE run # {}
  <2> DEFINE r == Least(run)
             f == Least({map.first, r})
  <2>1. new.first = f
    BY <1>3 DEF Released
  <2>2. run \in SUBSET Nat
    BY DEF Ids
  <2>3. r \in run /\ \A k \in run : r <= k
    BY <1>3, <2>2, LeastIs
  <2> HIDE DEF r
  <2>4. {map.first, r} \in SUBSET Nat /\ {map.first, r} # {}
    BY <2>2, <2>3 DEF HintExact
  <2>5. f \in {map.first, r} /\ \A k \in {map.first, r} : f <= k
    BY <2>4, LeastIs
  <2> HIDE DEF f, new
  <2>6. f \in 0 .. NrIds /\ f \notin new.used
    BY <1>1, <2>3, <2>5 DEF HintExact, Ids
  <2>7. \A i \in Ids : i < f => i \in new.used
    BY <1>1, <2>2, <2>3, <2>4, <2>5 DEF HintExact, Ids
  <2> QED
    BY <1>1, <2>1, <2>6, <2>7 DEF HintExact, new
<1> QED
  BY <1>2, <1>3

\* Loading a bitmap, taking the run a search found and giving any ids back all
\* leave first_available_id at the first free id (from_buf, alloc_consecutive,
\* free, free_consecutive).
THEOREM HintStaysExact ==
    ASSUME NrIds \in Nat
    PROVE  /\ \A used \in SUBSET Ids : HintExact(FromBuf(used))
           /\ \A map, count : HintExact(map) /\ count \in Nat /\ Fits(map, count)
                => HintExact(Marked(map, Found(map, count)))
           /\ \A map : \A run \in SUBSET Ids : HintExact(map) => HintExact(Released(map, run))
<1>1. \A used \in SUBSET Ids : HintExact(FromBuf(used))
  BY FromBufExact
<1>2. ASSUME NEW map, NEW count, HintExact(map), count \in Nat, Fits(map, count)
      PROVE  HintExact(Marked(map, Found(map, count)))
  <2>1. count \in Nat \ {0}
    BY <1>2 DEF Fits
  <2>2. PICK s \in Nat : Found(map, count) = Run(s, count) /\ FreeRun(map, s, count)
    BY <1>2, <2>1, SearchIsExact, Zenon
  <2>3. HintExact(Marked(map, Run(s, count)))
    BY <1>2, <2>1, <2>2, MarkedExact, Zenon
  <2> QED
    BY <2>2, <2>3, Zenon
<1>3. \A map : \A run \in SUBSET Ids : HintExact(map) => HintExact(Released(map, run))
  BY ReleasedExact
<1> QED
  BY <1>1, <1>2, <1>3
=============================================================================
