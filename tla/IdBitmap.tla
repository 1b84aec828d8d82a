------------------------------ MODULE IdBitmap ------------------------------
(***************************************************************************)
(* The bitmaps of blocks and inodes: a set of ids in use and the position  *)
(* first_available_id where every search starts.                           *)
(*                                                                         *)
(* Source: kernel/src/fs/utils/id_bitmap.rs.                               *)
(***************************************************************************)
EXTENDS Integers

CONSTANT NrIds   \* the ids are 0 .. NrIds - 1

Ids == 0 .. NrIds - 1

Least(S) == CHOOSE i \in S : \A j \in S : i <= j

Run(start, count) == start .. start + count - 1

\* The first id from on that is not in use, or NrIds
FirstFree(used, from) == Least({i \in from .. NrIds : i \notin used})

\* from_buf
FromBuf(used) == [used |-> used, first |-> FirstFree(used, 0)]

\* The starts of runs that alloc_consecutive takes for free: the id at
\* first_available_id is not looked at
Candidates(map, count) ==
    {s \in map.first .. NrIds - count :
        \A i \in Run(s, count) : i = map.first \/ i \notin map.used}

Fits(map, count) == count > 0 /\ Candidates(map, count) # {}

\* The run alloc_consecutive returns ...
Found(map, count) == Run(Least(Candidates(map, count)), count)

\* ... and the bitmap it leaves
Marked(map, run) ==
    LET used == map.used \cup run
        past == CHOOSE i \in run : \A j \in run : j <= i
    IN  [used |-> used,
         first |-> IF map.first \in used THEN FirstFree(used, past + 1) ELSE map.first]

\* Mutant: freeing does not move the start of the search back
ReleasedBehind(map, run) == [map EXCEPT !.used = map.used \ run]

\* free, free_consecutive
Released(map, run) ==
    [used |-> map.used \ run,
     first |-> IF run = {} THEN map.first ELSE Least({map.first, Least(run)})]
=============================================================================
