-------------------------- MODULE OrphanTaskProofs --------------------------
(***************************************************************************)
(* Every step of a system call, of the operation it begins, and of the     *)
(* recovery of the list preserves the inductive invariant of OrphanList.   *)
(***************************************************************************)
EXTENDS OrphanStepProofs

LEMMA CreateKeeps ==
    ASSUME OrphanInv, NEW i \in Inodes, Create(i), requests' \in Nat
    PROVE  OrphanInv'
<1> DEFINE m == Desc(1, 0, 0, None)
<1>1. TypeOK /\ Chained /\ LocalOK(i) /\ mode = "run" /\ todo = {} /\ ~bit[i] /\ step[i] = "idle"
  BY Zenon DEF OrphanInv, MountOK, Create
<1>2. m \in DescType /\ m.links = 1 /\ m.size = 0 /\ m.blocks = 0 /\ m.dtime = None
  BY OrphanAssumption, DescTyped
<1>3. /\ bit' = [bit EXCEPT ![i] = TRUE] /\ mem' = [mem EXCEPT ![i] = m]
      /\ slot' = [slot EXCEPT ![i] = m]
      /\ UNCHANGED <<head, used, durable, chain, open, job, step, hold, mode, todo,
                     suspect, lost, crashes, faults>>
  BY Zenon DEF Create, taskVars, mountVars
<1> HIDE DEF m
<1>4. TypeOK'
  BY <1>1, <1>2, <1>3, Zenon DEF TypeOK
<1>5. mem'[i] = m /\ slot'[i] = m /\ bit'[i]
  BY <1>1, <1>3, Zenon DEF TypeOK
<1>6. \A j \in Inodes : j # i => mem'[j] = mem[j] /\ slot'[j] = slot[j] /\ bit'[j] = bit[j]
  BY <1>1, <1>3, Zenon DEF TypeOK
<1>7. \A j : Listed(j)' <=> Listed(j)
  BY <1>3, SameListed, Zenon
<1>8. \A k \in 1 .. Len(chain) : chain[k] \in Inodes /\ chain[k] # i
  <2>1. \A k \in 1 .. Len(chain) : chain[k] \in Inodes
    BY <1>1, Indexed, Zenon DEF TypeOK
  <2>2. \A k \in 1 .. Len(chain) : bit[chain[k]]
    BY <1>1, Zenon DEF Chained
  <2> QED
    BY <1>1, <2>1, <2>2, Zenon
<1>9. ~Listed(i)
  BY <1>1, <1>8, Indexed, Zenon DEF TypeOK
<1>10. Chained'
  BY <1>1, <1>3, <1>6, <1>8 DEF Chained
<1>11. \A j \in Inodes : j # i => Same(j)
  BY <1>3, <1>6, <1>7, Zenon DEF Same
<1>12. LocalOK(i)'
  BY <1>1, <1>2, <1>3, <1>5, <1>7, <1>9
     DEF LocalOK, TaskOK, IdleOK, BlocksOK, DtimeOK, HandleSteps, ListedSteps
<1> QED
  BY <1>1, <1>3, <1>4, <1>10, <1>11, <1>12, StepKeeps, Zenon

LEMMA OpenKeeps ==
    ASSUME OrphanInv, NEW i \in Inodes, Open(i), requests' \in Nat
    PROVE  OrphanInv'
<1>1. /\ TypeOK /\ Chained /\ LocalOK(i) /\ mode = "run" /\ todo = {}
      /\ bit[i] /\ step[i] = "idle" /\ mem[i].links = 1
  BY Zenon DEF OrphanInv, MountOK, Open, Reachable
<1>2. /\ open' = [open EXCEPT ![i] = TRUE]
      /\ UNCHANGED <<head, slot, bit, used, durable, chain, mem, job, step, hold, mode, todo,
                     suspect, lost, crashes, faults>>
  BY Zenon DEF Open, metaVars, taskVars, mountVars
<1>3. TypeOK'
  BY <1>1, <1>2, Zenon DEF TypeOK
<1>4. \A j \in Inodes : j # i => open'[j] = open[j]
  BY <1>1, <1>2, Zenon DEF TypeOK
<1>5. \A j : Listed(j)' <=> Listed(j)
  BY <1>2, SameListed, Zenon
<1>6. Chained'
  BY <1>1, <1>2, Zenon DEF Chained
<1>7. \A j \in Inodes : j # i => Same(j)
  BY <1>2, <1>4, <1>5, Zenon DEF Same
<1>8. LocalOK(i)'
  BY <1>1, <1>2, <1>5 DEF LocalOK, TaskOK, IdleOK, BlocksOK, DtimeOK
<1> QED
  BY <1>1, <1>2, <1>3, <1>6, <1>7, <1>8, StepKeeps, Zenon

LEMMA CloseKeeps ==
    ASSUME OrphanInv, NEW i \in Inodes, Close(i), requests' \in Nat
    PROVE  OrphanInv'
<1>1. /\ TypeOK /\ Chained /\ LocalOK(i) /\ mode = "run" /\ todo = {}
      /\ bit[i] /\ step[i] = "idle" /\ open[i]
  BY Zenon DEF OrphanInv, MountOK, Close, Reachable
<1>2. /\ open' = [open EXCEPT ![i] = FALSE]
      /\ UNCHANGED <<head, slot, bit, used, durable, chain, mem, hold, mode, todo,
                     suspect, lost, crashes, faults>>
  BY Zenon DEF Close, metaVars, mountVars
<1>3. /\ job' \in [Inodes -> Jobs] /\ step' \in [Inodes -> Steps]
      /\ \A j \in Inodes : j # i => job'[j] = job[j] /\ step'[j] = step[j]
      /\ IF mem[i].links = 0 THEN job'[i] = "reclaim" /\ step'[i] = "drop"
                             ELSE job'[i] = job[i] /\ step'[i] = step[i]
  <2>1. CASE mem[i].links = 0
    <3>1. Advance(i, "reclaim", "drop")
      BY <2>1, Zenon DEF Close
    <3> QED
      BY <1>1, <2>1, <3>1, Advanced, Zenon DEF Jobs, Steps
  <2>2. CASE mem[i].links # 0
    BY <1>1, <2>2, Zenon DEF Close, TypeOK
  <2> QED
    BY <2>1, <2>2, Zenon
<1>4. TypeOK'
  BY <1>1, <1>2, <1>3, Zenon DEF TypeOK
<1>5. \A j \in Inodes : j # i => open'[j] = open[j]
  BY <1>1, <1>2, Zenon DEF TypeOK
<1>6. \A j : Listed(j)' <=> Listed(j)
  BY <1>2, SameListed, Zenon
<1>7. Chained'
  <2>1. \A j \in Inodes : step'[j] # "persist" => step[j] # "persist"
    BY <1>1, <1>3, Zenon
  <2> QED
    BY <1>1, <1>2, <2>1, SameChained, Zenon
<1>8. \A j \in Inodes : j # i => Same(j)
  BY <1>2, <1>3, <1>5, <1>6, Zenon DEF Same
<1>9. LocalOK(i)'
  BY <1>1, <1>2, <1>3, <1>6, Zenon
     DEF LocalOK, TaskOK, IdleOK, BlocksOK, DtimeOK, HandleSteps, ListedSteps
<1> QED
  BY <1>1, <1>2, <1>4, <1>7, <1>8, <1>9, StepKeeps, Zenon

LEMMA WriteKeeps ==
    ASSUME OrphanInv, NEW i \in Inodes, NEW n \in 0 .. MaxBlocks, Write(i, n), requests' \in Nat
    PROVE  OrphanInv'
<1> DEFINE b == IF n > mem[i].blocks THEN n ELSE mem[i].blocks
<1>1. n >= mem[i].size /\ Reachable(i)
  BY Zenon DEF Write
<1>2. b \in 0 .. MaxBlocks /\ (b > n => mem[i].blocks > mem[i].size)
  BY <1>1, Typed DEF OrphanInv
<1>3. /\ mem' = [mem EXCEPT ![i] = Desc(mem[i].links, n, b, mem[i].dtime)]
      /\ used' = [used EXCEPT ![i] = b]
      /\ WriteBack(i, Desc(mem[i].links, n, b, mem[i].dtime))
      /\ UNCHANGED <<head, bit, durable, chain, open, job, step, hold, mode, todo,
                     suspect, lost, crashes, faults>>
  BY Zenon DEF Write, taskVars, mountVars
<1> HIDE DEF b
<1> QED
  BY <1>1, <1>2, <1>3, SizeKeeps, Zenon DEF SizeStep

LEMMA ShrinkKeeps ==
    ASSUME OrphanInv, NEW i \in Inodes, NEW n \in 0 .. MaxBlocks, Shrink(i, n), requests' \in Nat
    PROVE  OrphanInv'
<1>1. Reachable(i) /\ ~(n > n)
  BY OrphanAssumption DEF Shrink
<1>2. /\ mem' = [mem EXCEPT ![i] = Desc(mem[i].links, n, n, mem[i].dtime)]
      /\ used' = [used EXCEPT ![i] = n]
      /\ WriteBack(i, Desc(mem[i].links, n, n, mem[i].dtime))
      /\ UNCHANGED <<head, bit, durable, chain, open, job, step, hold, mode, todo,
                     suspect, lost, crashes, faults>>
  BY Zenon DEF Shrink, taskVars, mountVars
<1> QED
  BY <1>1, <1>2, SizeKeeps, Zenon DEF SizeStep

LEMMA UnlinkKeeps ==
    ASSUME OrphanInv, NEW i \in Inodes, Unlink(i), requests' \in Nat
    PROVE  OrphanInv'
<1> DEFINE m == Desc(0, mem[i].size, mem[i].blocks, OldHead(i))
<1>1. TypeOK
  BY Zenon DEF OrphanInv
<1>2. m \in DescType /\ m.links = 0 /\ m.blocks = mem[i].blocks
  BY <1>1, Typed, OldHeadType, DescTyped
<1>3. /\ Reachable(i) /\ mem[i].links = 1 /\ OrphanAdd(i)
      /\ mem' = [mem EXCEPT ![i] = m]
      /\ hold' = hold \cup {i} /\ Advance(i, "unlink", "persist")
      /\ UNCHANGED <<slot, bit, used, durable, open, mode, todo, suspect, lost, crashes, faults>>
  BY Zenon DEF Unlink, mountVars
<1> HIDE DEF m
<1> QED
  BY <1>2, <1>3, ListKeeps, Zenon DEF ListStep

LEMMA TruncateKeeps ==
    ASSUME Unlinked = FALSE, OrphanInv, NEW i \in Inodes, NEW n \in 0 .. MaxBlocks,
           Truncate(i, n), requests' \in Nat
    PROVE  OrphanInv'
<1> DEFINE m == Desc(mem[i].links, n, mem[i].blocks, mem[i].dtime)
<1>1. TypeOK /\ mem[i].links = 1
  BY Zenon DEF OrphanInv, Truncate
<1>2. m \in DescType /\ m.links = 1 /\ m.blocks = mem[i].blocks /\ m.dtime = mem[i].dtime
  BY <1>1, Typed, DescTyped
<1>3. /\ Reachable(i) /\ OrphanAdd(i)
      /\ mem' = [mem EXCEPT ![i] = m]
      /\ hold' = hold \cup {i} /\ Advance(i, "truncate", "persist")
      /\ UNCHANGED <<slot, bit, used, durable, open, mode, todo, suspect, lost, crashes, faults>>
  BY Zenon DEF Truncate, mountVars
<1> HIDE DEF m
<1> QED
  BY <1>1, <1>2, <1>3, ListKeeps, Zenon DEF ListStep

LEMMA PersistKeeps ==
    ASSUME OrphanInv, NEW i \in Inodes, Persist(i)
    PROVE  OrphanInv'
<1>1. /\ TypeOK /\ LocalOK(i) /\ bit[i] /\ step[i] = "persist" /\ mode = "run"
      /\ mem[i] \in DescType /\ hold \subseteq Inodes
  BY Running, Typed, Zenon DEF Persist, TypeOK
<1>2. /\ WriteBack(i, mem[i])
      /\ UNCHANGED <<head, bit, used, durable, chain, mem, open, mode, todo, suspect, lost,
                     requests, crashes, faults>>
  BY Zenon DEF Persist, mountVars, boundVars
<1>3. slot'[i].links = mem[i].links /\ slot'[i].size = mem[i].size /\ slot'[i].blocks = mem[i].blocks
  BY <1>1, <1>2, WrittenBack, Zenon
<1>4. \A k : Listed(k)' <=> Listed(k)
  BY <1>2, SameListed, Zenon
<1>5. CASE job[i] = "truncate"
  <2>1. Advance(i, "truncate", "chunk") /\ hold' = hold
    BY <1>5, Zenon DEF Persist
  <2>2. job'[i] = "truncate" /\ step'[i] = "chunk"
    BY <1>1, <2>1, Advanced, Zenon DEF Jobs, Steps
  <2>3. TaskOK(i)' /\ IdleOK(i)'
    BY <1>1, <1>2, <1>3, <1>4, <1>5, <2>1, <2>2, Zenon
       DEF LocalOK, TaskOK, IdleOK, HandleSteps, ListedSteps
  <2> QED
    BY <1>1, <1>2, <2>1, <2>3, WrittenKeeps, Zenon DEF WriteStep, Jobs, Steps
<1>6. CASE job[i] # "truncate" /\ open[i]
  <2>1. Advance(i, "none", "idle") /\ hold' = hold \ {i}
    BY <1>6, Zenon DEF Persist
  <2>2. job'[i] = "none" /\ step'[i] = "idle"
    BY <1>1, <2>1, Advanced, Zenon DEF Jobs, Steps
  <2>3. TaskOK(i)'
    BY <1>1, <1>2, <1>3, <1>4, <1>6, <2>1, <2>2, Zenon DEF LocalOK, TaskOK, HandleSteps, ListedSteps
  <2>4. IdleOK(i)'
    BY <1>1, <1>2, <1>3, <1>4, <1>6, <2>2, Zenon DEF LocalOK, TaskOK, IdleOK, ListedSteps
  <2> QED
    BY <1>1, <1>2, <2>1, <2>3, <2>4, WrittenKeeps, Zenon DEF WriteStep, Jobs, Steps
<1>7. CASE job[i] # "truncate" /\ ~open[i]
  <2>1. Advance(i, "reclaim", "drop") /\ hold' = hold \ {i}
    BY <1>7, Zenon DEF Persist
  <2>2. job'[i] = "reclaim" /\ step'[i] = "drop"
    BY <1>1, <2>1, Advanced, Zenon DEF Jobs, Steps
  <2>3. TaskOK(i)' /\ IdleOK(i)'
    BY <1>1, <1>2, <1>3, <1>4, <1>7, <2>1, <2>2, Zenon
       DEF LocalOK, TaskOK, IdleOK, HandleSteps, ListedSteps
  <2> QED
    BY <1>1, <1>2, <2>1, <2>3, WrittenKeeps, Zenon DEF WriteStep, Jobs, Steps
<1> QED
  BY <1>5, <1>6, <1>7, Zenon

LEMMA FrontierKeeps ==
    ASSUME OrphanInv, NEW i \in Inodes, Frontier(i)
    PROVE  OrphanInv'
<1>1. /\ TypeOK /\ LocalOK(i) /\ bit[i] /\ step[i] = "frontier"
      /\ mem[i] \in DescType /\ hold \subseteq Inodes /\ job[i] \in Jobs
  BY Running, Typed, Zenon DEF Frontier, TypeOK
<1>2. /\ WriteBack(i, mem[i]) /\ hold' = hold \ {i} /\ Advance(i, job[i], "restart")
      /\ UNCHANGED <<head, bit, used, durable, chain, mem, open, mode, todo, suspect, lost,
                     requests, crashes, faults>>
  BY Zenon DEF Frontier, mountVars, boundVars
<1>3. slot'[i].links = mem[i].links /\ slot'[i].size = mem[i].size /\ slot'[i].blocks = mem[i].blocks
  BY <1>1, <1>2, WrittenBack, Zenon
<1>4. \A k : Listed(k)' <=> Listed(k)
  BY <1>2, SameListed, Zenon
<1>5. job'[i] = job[i] /\ step'[i] = "restart"
  BY <1>1, <1>2, Advanced, Zenon DEF Steps
<1>6. TaskOK(i)' /\ IdleOK(i)'
  BY <1>1, <1>2, <1>3, <1>4, <1>5, Zenon DEF LocalOK, TaskOK, IdleOK, HandleSteps, ListedSteps
<1> QED
  BY <1>1, <1>2, <1>6, WrittenKeeps, Zenon DEF WriteStep, Steps

LEMMA FinalKeeps ==
    ASSUME OrphanInv, NEW i \in Inodes, Final(i)
    PROVE  OrphanInv'
<1>1. /\ TypeOK /\ LocalOK(i) /\ bit[i] /\ step[i] = "final"
      /\ mem[i] \in DescType /\ hold \subseteq Inodes /\ job[i] \in Jobs
      /\ mem[i].size \in Nat /\ mem[i].blocks \in Nat
  BY Running, Typed, DescFields, Zenon DEF Final, TypeOK
<1>2. /\ WriteBack(i, mem[i])
      /\ UNCHANGED <<head, bit, used, durable, chain, mem, open, mode, todo, suspect, lost,
                     requests, crashes, faults>>
  BY Zenon DEF Final, mountVars, boundVars
<1>3. slot'[i].links = mem[i].links /\ slot'[i].size = mem[i].size /\ slot'[i].blocks = mem[i].blocks
  BY <1>1, <1>2, WrittenBack, Zenon
<1>4. \A k : Listed(k)' <=> Listed(k)
  BY <1>2, SameListed, Zenon
<1>5. CASE job[i] = "truncate"
  <2>1. hold' = hold \ {i} /\ Advance(i, "none", "idle")
    BY <1>5, Zenon DEF Final
  <2>2. job'[i] = "none" /\ step'[i] = "idle"
    BY <1>1, <2>1, Advanced, Zenon DEF Jobs, Steps
  <2>3. TaskOK(i)'
    BY <1>1, <1>2, <1>3, <1>4, <2>1, <2>2, Zenon DEF LocalOK, TaskOK, HandleSteps, ListedSteps
  <2>4. IdleOK(i)'
    BY <1>1, <1>2, <1>3, <1>5, <2>2 DEF LocalOK, TaskOK, IdleOK
  <2> QED
    BY <1>1, <1>2, <2>1, <2>3, <2>4, WrittenKeeps, Zenon DEF WriteStep, Jobs, Steps
<1>6. CASE job[i] # "truncate"
  <2>1. hold' = hold /\ Advance(i, job[i], "free")
    BY <1>6, Zenon DEF Final
  <2>2. job'[i] = job[i] /\ step'[i] = "free"
    BY <1>1, <2>1, Advanced, Zenon DEF Steps
  <2>3. TaskOK(i)' /\ IdleOK(i)'
    BY <1>1, <1>2, <1>3, <1>4, <1>6, <2>1, <2>2, Zenon
       DEF LocalOK, TaskOK, IdleOK, HandleSteps, ListedSteps
  <2> QED
    BY <1>1, <1>2, <2>1, <2>3, WrittenKeeps, Zenon DEF WriteStep, Steps
<1> QED
  BY <1>5, <1>6, Zenon

LEMMA ReclaimKeeps ==
    ASSUME OrphanInv, NEW i \in Inodes, Reclaim(i)
    PROVE  OrphanInv'
<1> DEFINE m == Desc(0, 0, mem[i].blocks, Time)
           s == IF mem[i].blocks > 0 THEN "chunk" ELSE "unlist"
<1>1. /\ TypeOK /\ LocalOK(i) /\ bit[i] /\ step[i] = "drop" /\ mem[i].links = 0
      /\ hold \subseteq Inodes /\ job[i] \in Jobs /\ suspect \in BOOLEAN /\ faults \in Nat
      /\ mem[i].blocks \in 0 .. MaxBlocks /\ MaxBlocks \in Nat
  BY Running, Typed, Zenon DEF Reclaim, TypeOK
<1>2. /\ m \in DescType /\ m.links = 0 /\ m.size = 0 /\ m.blocks = mem[i].blocks
      /\ s \in Steps /\ s \in {"chunk", "unlist"} /\ (s = "unlist" => mem[i].blocks = 0)
  BY <1>1, DescTyped DEF Steps
<1>3. Listed(i) /\ used[i] = mem[i].blocks /\ slot[i].blocks = mem[i].blocks
  BY <1>1, Zenon DEF LocalOK, TaskOK, BlocksOK, ListedSteps
<1>4. /\ mem' = [mem EXCEPT ![i] = m] /\ hold' = hold \cup {i} /\ Advance(i, job[i], s)
      /\ UNCHANGED <<head, chain>>
      /\ UNCHANGED <<slot, bit, used, durable, open, mode, todo, suspect, lost,
                     requests, crashes, faults>>
  BY <1>3, Zenon DEF Reclaim, OrphanAdd, mountVars, boundVars
<1> HIDE DEF m, s
<1>5. job'[i] = job[i] /\ step'[i] = s /\ mem'[i] = m
  BY <1>1, <1>2, <1>4, Advanced DEF TypeOK
<1>6. \A k : Listed(k)' <=> Listed(k)
  BY <1>4, SameListed, Zenon
<1>7. TaskOK(i)' /\ IdleOK(i)'
  BY <1>1, <1>2, <1>3, <1>4, <1>5, <1>6
     DEF LocalOK, TaskOK, IdleOK, HandleSteps, ListedSteps
<1>8. used' = [used EXCEPT ![i] = mem[i].blocks]
  BY <1>1, <1>3, <1>4, Zenon DEF TypeOK
<1> QED
  BY <1>1, <1>2, <1>3, <1>4, <1>7, <1>8, InnerKeeps, Zenon DEF InnerStep

LEMMA ChunkKeeps ==
    ASSUME OrphanInv, NEW i \in Inodes, NEW k \in 0 .. MaxBlocks, Chunk(i, k)
    PROVE  OrphanInv'
<1> DEFINE rest == mem[i].blocks - k
           m == Desc(mem[i].links, mem[i].size, rest, mem[i].dtime)
           s == IF rest <= mem[i].size THEN "unlist" ELSE "frontier"
<1>1. /\ TypeOK /\ LocalOK(i) /\ bit[i] /\ step[i] \in {"chunk", "next"}
      /\ hold \subseteq Inodes /\ job[i] \in Jobs /\ suspect \in BOOLEAN /\ faults \in Nat
      /\ MaxBlocks \in Nat
  <2>1. step[i] \in {"chunk", "next"}
    BY Zenon DEF Chunk
  <2> QED
    BY <2>1, Running, Typed, Zenon DEF TypeOK
<1>2. rest \in 0 .. MaxBlocks
  BY <1>1, Typed DEF Chunk
<1>3. /\ m \in DescType /\ m.links = mem[i].links /\ m.size = mem[i].size
      /\ m.blocks = rest /\ m.dtime = mem[i].dtime
  <2>1. /\ mem[i].links \in {0, 1} /\ mem[i].size \in 0 .. MaxBlocks
        /\ mem[i].dtime \in Inodes \cup {None, Time}
    BY <1>1, Typed, Zenon
  <2> HIDE DEF rest
  <2> QED
    BY <1>2, <2>1, DescTyped
<1>4. s \in Steps /\ s \in {"unlist", "frontier"} /\ (s = "unlist" => rest <= mem[i].size)
  BY Zenon DEF Steps
<1>5. Listed(i) /\ used[i] = mem[i].blocks
  BY <1>1, Zenon DEF LocalOK, TaskOK, BlocksOK, ListedSteps
<1>6. /\ mem' = [mem EXCEPT ![i] = m] /\ used' = [used EXCEPT ![i] = rest]
      /\ Advance(i, job[i], s)
      /\ UNCHANGED <<head, slot, bit, durable, chain, open, hold, mode, todo, suspect, lost,
                     requests, crashes, faults>>
  BY <1>5, Zenon DEF Chunk, mountVars, boundVars
<1> HIDE DEF m, s, rest
<1>7. job'[i] = job[i] /\ step'[i] = s /\ mem'[i] = m
  BY <1>1, <1>4, <1>6, Advanced, Zenon DEF TypeOK
<1>8. \A j : Listed(j)' <=> Listed(j)
  BY <1>6, SameListed, Zenon
<1>9. TaskOK(i)' /\ IdleOK(i)'
  BY <1>1, <1>3, <1>4, <1>5, <1>6, <1>7, <1>8, Zenon
     DEF LocalOK, TaskOK, IdleOK, HandleSteps, ListedSteps
<1> QED
  BY <1>1, <1>2, <1>3, <1>4, <1>5, <1>6, <1>9, InnerKeeps, Zenon DEF InnerStep

LEMMA RestartKeeps ==
    ASSUME OrphanInv, NEW i \in Inodes, Restart(i)
    PROVE  OrphanInv'
<1>1. /\ TypeOK /\ LocalOK(i) /\ bit[i] /\ step[i] = "restart" /\ mem[i] \in DescType
      /\ hold \subseteq Inodes /\ job[i] \in Jobs /\ suspect \in BOOLEAN /\ faults \in Nat
      /\ mem[i].blocks \in 0 .. MaxBlocks
  BY Running, Typed, Zenon DEF Restart, TypeOK
<1>2. Listed(i) /\ used[i] = mem[i].blocks /\ slot[i].blocks = mem[i].blocks
  BY <1>1, Zenon DEF LocalOK, TaskOK, BlocksOK, ListedSteps
<1>3. /\ hold' = hold \cup {i} /\ Advance(i, job[i], "next")
      /\ UNCHANGED <<head, slot, bit, used, durable, chain, mem, open, mode, todo, suspect, lost,
                     requests, crashes, faults>>
  BY Zenon DEF Restart, metaVars, mountVars, boundVars
<1>4. job'[i] = job[i] /\ step'[i] = "next"
  BY <1>1, <1>3, Advanced, Zenon DEF Steps
<1>5. \A j : Listed(j)' <=> Listed(j)
  BY <1>3, SameListed, Zenon
<1>6. TaskOK(i)' /\ IdleOK(i)'
  BY <1>1, <1>2, <1>3, <1>4, <1>5, Zenon
     DEF LocalOK, TaskOK, IdleOK, HandleSteps, ListedSteps
<1>7. mem' = [mem EXCEPT ![i] = mem[i]] /\ used' = [used EXCEPT ![i] = mem[i].blocks]
  BY <1>1, <1>2, <1>3, Zenon DEF TypeOK
<1>8. InnerStep(i, job[i], "next", mem[i], mem[i].blocks)
  BY <1>1, <1>2, <1>3, <1>7, Zenon DEF InnerStep
<1>9. "next" \in Steps
  BY Zenon DEF Steps
<1> QED
  BY <1>1, <1>6, <1>8, <1>9, InnerKeeps, Zenon

LEMMA ChunkFailsKeeps ==
    ASSUME OrphanInv, NEW i \in Inodes, ChunkFails(i)
    PROVE  OrphanInv'
<1> DEFINE m == IF mode = "recover" /\ mem[i].links = 1 THEN slot[i] ELSE mem[i]
           again == mode = "recover" /\ job[i] = "reclaim"
           j == IF again THEN "again" ELSE "none"
           s == IF again THEN "drop" ELSE "idle"
<1>1. /\ TypeOK /\ LocalOK(i) /\ bit[i] /\ step[i] \in {"chunk", "next"}
      /\ hold \subseteq Inodes /\ job[i] \in Jobs /\ suspect \in BOOLEAN /\ faults \in Nat
      /\ mem[i] \in DescType /\ slot[i] \in DescType /\ mem[i].blocks \in 0 .. MaxBlocks
  <2>1. step[i] \in {"chunk", "next"}
    BY Zenon DEF ChunkFails
  <2> QED
    BY <2>1, Running, Typed, Zenon DEF TypeOK
<1>2. /\ Listed(i) /\ used[i] = mem[i].blocks /\ slot[i].blocks = mem[i].blocks
      /\ mem[i].links = slot[i].links
  BY <1>1, Zenon DEF LocalOK, TaskOK, BlocksOK, ListedSteps
<1>3. /\ m \in DescType /\ m.links = mem[i].links /\ m.blocks = mem[i].blocks
      /\ (m.dtime = mem[i].dtime \/ (mode = "recover" /\ m.links = 1))
  <2>1. CASE mode = "recover" /\ mem[i].links = 1
    <3>1. m = slot[i]
      BY <2>1, Zenon
    <3> HIDE DEF m
    <3> QED
      BY <1>1, <1>2, <2>1, <3>1, Zenon
  <2>2. CASE ~(mode = "recover" /\ mem[i].links = 1)
    <3>1. m = mem[i]
      BY <2>2, Zenon
    <3> HIDE DEF m
    <3> QED
      BY <1>1, <3>1, Zenon
  <2> QED
    BY <2>1, <2>2, Zenon
<1>4. j \in Jobs /\ s \in Steps
  BY Zenon DEF Jobs, Steps
<1>5. /\ mem' = [mem EXCEPT ![i] = m] /\ hold' = hold \ {i} /\ Advance(i, j, s)
      /\ UNCHANGED <<head, slot, bit, used, durable, chain, open, mode, todo, lost,
                     requests, crashes>>
      /\ suspect' \in BOOLEAN /\ faults' \in Nat
  BY <1>1 DEF ChunkFails, metaVars
<1>6. m.links = 1 => s = "idle"
  BY <1>1, <1>3 DEF LocalOK, TaskOK
<1>7. s \in {"idle", "drop"} /\ (s = "drop" => again /\ j = "again")
  OBVIOUS
<1> HIDE DEF m, j, s
<1>8. job'[i] = j /\ step'[i] = s /\ mem'[i] = m
  BY <1>1, <1>4, <1>5, Advanced, Zenon DEF TypeOK
<1>9. \A k : Listed(k)' <=> Listed(k)
  BY <1>5, SameListed, Zenon
<1>10. TaskOK(i)'
  BY <1>1, <1>2, <1>3, <1>5, <1>7, <1>8, <1>9, Zenon
     DEF LocalOK, TaskOK, HandleSteps, ListedSteps
<1>11. IdleOK(i)'
  BY <1>2, <1>3, <1>5, <1>8, <1>9, Zenon DEF IdleOK
<1>12. used' = [used EXCEPT ![i] = mem[i].blocks]
  BY <1>1, <1>2, <1>5, Zenon DEF TypeOK
<1>13. m.links = 0 \/ m.dtime = mem[i].dtime \/ (mode = "recover" /\ s = "idle")
  BY <1>3, <1>6, Zenon
<1> QED
  BY <1>1, <1>2, <1>3, <1>4, <1>5, <1>7, <1>10, <1>11, <1>12, <1>13, InnerKeeps, Zenon DEF InnerStep

LEMMA UnlistKeeps ==
    ASSUME OrphanInv, NEW i \in Inodes, Unlist(i)
    PROVE  OrphanInv'
<1>1. /\ TypeOK /\ Chained /\ LocalOK(i) /\ bit[i] /\ step[i] = "unlist"
      /\ mode # "mount" /\ i \notin todo /\ (mode = "recover" => ~open[i]) /\ job[i] \in Jobs
  BY Running, Zenon DEF Unlist, TypeOK
<1>2. /\ OrphanDel(i) /\ Advance(i, job[i], "final")
      /\ UNCHANGED <<bit, used, durable, mem, open, hold, mode, todo, suspect, lost,
                     requests, crashes, faults>>
  BY Zenon DEF Unlist, mountVars, boundVars
<1>3. /\ job' \in [Inodes -> Jobs] /\ step' \in [Inodes -> Steps]
      /\ job'[i] = job[i] /\ step'[i] = "final"
      /\ \A k \in Inodes : k # i => job'[k] = job[k] /\ step'[k] = step[k]
  BY <1>1, <1>2, Advanced, Zenon DEF Steps
<1>4. Listed(i)
  BY <1>1, Zenon DEF LocalOK, TaskOK, ListedSteps
<1>5. /\ chain' \in Seq(Inodes) /\ head' \in Inodes \cup {None}
      /\ slot' \in [Inodes -> DescType]
      /\ Chained'
      /\ \A k : Listed(k)' <=> (Listed(k) /\ k # i)
      /\ \A k \in Inodes :
           /\ slot'[k].links = slot[k].links /\ slot'[k].size = slot[k].size
           /\ slot'[k].blocks = slot[k].blocks
           /\ ~Listed(k)' => slot'[k].dtime = slot[k].dtime
  BY <1>1, <1>2, <1>3, <1>4, DelChained, Zenon
<1>6. TypeOK'
  BY <1>1, <1>2, <1>3, <1>5, Zenon DEF TypeOK
<1>7. \A k \in Inodes : k # i => Same(k)
  BY <1>2, <1>3, <1>5, Zenon DEF Same
<1>8. LocalOK(i)'
  <2>1. TaskOK(i)'
    BY <1>1, <1>2, <1>3, <1>5, Zenon DEF LocalOK, TaskOK, HandleSteps, ListedSteps
  <2>2. IdleOK(i)' /\ BlocksOK(i)'
    BY <1>1, <1>2, <1>3, Zenon DEF LocalOK, IdleOK, BlocksOK
  <2>3. DtimeOK(i)'
    BY <1>1, <1>2, <1>3, Zenon DEF LocalOK, TaskOK, DtimeOK, HandleSteps
  <2> QED
    BY <2>1, <2>2, <2>3, Zenon DEF LocalOK
<1>9. mode = "recover" => Keeps(i)
  BY <1>1, <1>2, <1>5, Zenon DEF Keeps
<1> QED
  BY <1>1, <1>2, <1>5, <1>6, <1>7, <1>8, <1>9, StepKeeps, Zenon

LEMMA FreeInodeKeeps ==
    ASSUME OrphanInv, NEW i \in Inodes, FreeInode(i)
    PROVE  OrphanInv'
<1>1. /\ TypeOK /\ Chained /\ LocalOK(i) /\ bit[i] /\ step[i] = "free"
      /\ mode # "mount" /\ i \notin todo /\ (mode = "recover" => ~open[i])
      /\ mem[i].blocks \in 0 .. MaxBlocks /\ MaxBlocks \in Nat
  BY Running, Typed, Zenon DEF FreeInode
<1>2. /\ bit' = [bit EXCEPT ![i] = FALSE] /\ hold' = hold \ {i} /\ Advance(i, "none", "idle")
      /\ UNCHANGED <<head, slot, used, durable, chain, mem, open, mode, todo, suspect, lost,
                     requests, crashes, faults>>
  BY Zenon DEF FreeInode, mountVars, boundVars
<1>3. /\ job' \in [Inodes -> Jobs] /\ step' \in [Inodes -> Steps]
      /\ job'[i] = "none" /\ step'[i] = "idle"
      /\ \A k \in Inodes : k # i => job'[k] = job[k] /\ step'[k] = step[k]
  BY <1>1, <1>2, Advanced, Zenon DEF Jobs, Steps
<1>4. ~Listed(i) /\ used[i] = 0
  BY <1>1 DEF LocalOK, TaskOK, BlocksOK
<1>5. TypeOK'
  BY <1>1, <1>2, <1>3, Zenon DEF TypeOK
<1>6. ~bit'[i] /\ \A k \in Inodes : k # i => bit'[k] = bit[k]
  BY <1>1, <1>2, Zenon DEF TypeOK
<1>7. \A k : Listed(k)' <=> Listed(k)
  BY <1>2, SameListed, Zenon
<1>8. \A k \in 1 .. Len(chain) : chain[k] \in Inodes /\ chain[k] # i
  BY <1>1, <1>4, Indexed, Zenon DEF TypeOK
<1>9. Chained'
  BY <1>1, <1>2, <1>3, <1>6, <1>8 DEF Chained
<1>10. \A k \in Inodes : k # i => Same(k)
  BY <1>2, <1>3, <1>6, <1>7, Zenon DEF Same
<1>11. LocalOK(i)'
  BY <1>1, <1>2, <1>3, <1>4, <1>6, <1>7, Zenon
     DEF LocalOK, TaskOK, IdleOK, BlocksOK, DtimeOK, HandleSteps, ListedSteps
<1>12. mode = "recover" => Keeps(i)
  BY <1>1, <1>2, <1>6, Zenon DEF Keeps
<1> QED
  BY <1>1, <1>2, <1>5, <1>9, <1>10, <1>11, <1>12, StepKeeps, Zenon

LEMMA RecoverNextKeeps ==
    ASSUME OrphanInv, NEW i \in Inodes, RecoverNext(i)
    PROVE  OrphanInv'
<1>1. /\ mode = "recover" /\ i \in todo /\ TypeOK /\ Chained /\ LocalOK(i)
      /\ Listed(i) /\ step[i] = "idle" /\ ~open[i]
  BY Zenon DEF OrphanInv, MountOK, RecoverNext, Turn
<1>u. /\ todo' = todo \ {i}
      /\ UNCHANGED <<head, slot, bit, used, durable, chain, open, mode, suspect, lost,
                     requests, crashes, faults>>
  BY DEF RecoverNext, metaVars, boundVars
<1>2. bit[i]
  <2>1. PICK k \in 1 .. Len(chain) : chain[k] = i
    BY <1>1, Indexed, Zenon DEF TypeOK
  <2> QED
    BY <1>1, <2>1, Zenon DEF Chained
<1>3. mem[i].links = slot[i].links /\ slot[i].blocks = mem[i].blocks /\ i \notin hold
  BY <1>1, <1>2 DEF LocalOK, IdleOK, BlocksOK, TaskOK, HandleSteps
<1>4. \A k : Listed(k)' <=> Listed(k)
  BY <1>u, SameListed, Zenon
<1>5. CASE slot[i].links = 0
  <2>1. Advance(i, "reclaim", "drop") /\ UNCHANGED <<mem, hold>>
    BY <1>5, Zenon DEF RecoverNext
  <2>2. "reclaim" \in Jobs /\ "drop" \in Steps
    BY DEF Jobs, Steps
  <2>3. /\ job' \in [Inodes -> Jobs] /\ step' \in [Inodes -> Steps]
        /\ job'[i] = "reclaim" /\ step'[i] = "drop"
        /\ \A k \in Inodes : k # i => job'[k] = job[k] /\ step'[k] = step[k]
    BY <1>1, <2>1, <2>2, Advanced, Zenon
  <2>4. TypeOK'
    BY <1>1, <1>u, <2>1, <2>3, Zenon DEF TypeOK
  <2>5. Chained'
    <3>1. \A k \in Inodes : step'[k] # "persist" => step[k] # "persist"
      BY <1>1, <2>3
    <3> QED
      BY <1>1, <1>u, <3>1, SameChained, Zenon
  <2>6. \A k \in Inodes : k # i => Same(k)
    BY <1>4, <1>u, <2>1, <2>3, Zenon DEF Same
  <2>7. TaskOK(i)' /\ IdleOK(i)'
    BY <1>1, <1>3, <1>4, <1>5, <1>u, <2>1, <2>3
       DEF LocalOK, TaskOK, IdleOK, HandleSteps, ListedSteps
  <2>8. BlocksOK(i)' /\ DtimeOK(i)'
    BY <1>1, <1>2, <1>3, <1>5, <1>u, <2>1 DEF LocalOK, BlocksOK, DtimeOK
  <2>9. LocalOK(i)' /\ Keeps(i)
    BY <1>1, <1>2, <1>5, <1>u, <2>7, <2>8, Zenon DEF LocalOK, Keeps
  <2> QED
    BY <1>1, <1>u, <2>4, <2>5, <2>6, <2>9, TurnKeeps, Zenon
<1>6. CASE slot[i].links # 0
  <2> DEFINE m == Desc(slot[i].links, slot[i].size, slot[i].blocks, None)
  <2>1. /\ Advance(i, "truncate", "chunk") /\ hold' = hold \cup {i}
        /\ mem' = [mem EXCEPT ![i] = m]
    BY <1>6, Zenon DEF RecoverNext
  <2>2. "truncate" \in Jobs /\ "chunk" \in Steps
    BY DEF Jobs, Steps
  <2>3. /\ job' \in [Inodes -> Jobs] /\ step' \in [Inodes -> Steps]
        /\ job'[i] = "truncate" /\ step'[i] = "chunk"
        /\ \A k \in Inodes : k # i => job'[k] = job[k] /\ step'[k] = step[k]
    BY <1>1, <2>1, <2>2, Advanced, Zenon
  <2>4. /\ m \in DescType /\ m.links = 1 /\ slot[i].links = 1 /\ m.size = slot[i].size
        /\ m.blocks = slot[i].blocks /\ m.dtime = None
    BY <1>1, <1>6, Typed, DescTyped
  <2> HIDE DEF m
  <2>5. mem'[i] = m /\ \A k \in Inodes : k # i => mem'[k] = mem[k]
    BY <1>1, <2>1, Zenon DEF TypeOK
  <2>6. TypeOK'
    <3>1. mem' \in [Inodes -> DescType] /\ hold' \subseteq Inodes
      BY <1>1, <2>1, <2>4 DEF TypeOK
    <3> QED
      BY <1>1, <1>u, <2>3, <3>1, Zenon DEF TypeOK
  <2>7. Chained'
    <3>1. \A k \in Inodes : step'[k] # "persist" => step[k] # "persist"
      BY <1>1, <2>3
    <3> QED
      BY <1>1, <1>u, <3>1, SameChained, Zenon
  <2>8. \A k \in Inodes : k # i => Same(k)
    BY <1>4, <1>u, <2>1, <2>3, <2>5, Zenon DEF Same
  <2>9. TaskOK(i)' /\ IdleOK(i)'
    BY <1>1, <1>4, <1>u, <2>1, <2>3, <2>4, <2>5
       DEF TaskOK, IdleOK, HandleSteps, ListedSteps
  <2>10. BlocksOK(i)' /\ DtimeOK(i)'
    BY <1>1, <1>2, <1>3, <1>4, <1>u, <2>4, <2>5 DEF LocalOK, BlocksOK, DtimeOK
  <2>11. LocalOK(i)' /\ Keeps(i)
    BY <1>1, <1>2, <1>u, <2>4, <2>9, <2>10, Zenon DEF LocalOK, Keeps
  <2> QED
    BY <1>1, <1>u, <2>6, <2>7, <2>8, <2>11, TurnKeeps, Zenon
<1> QED
  BY <1>5, <1>6, Zenon

LEMMA RecoverEndKeepsInv ==
    ASSUME OrphanInv, RecoverEnd
    PROVE  OrphanInv'
<1>1. /\ mode = "recover" /\ todo = {} /\ mode' = "run" /\ TypeOK /\ Chained
      /\ \A i \in Inodes : step[i] = "idle" /\ ~open[i] /\ LocalOK(i)
  BY Zenon DEF OrphanInv, MountOK, RecoverEnd
<1>u. UNCHANGED <<slot, bit, used, durable, mem, open, job, step, hold, todo, suspect, requests,
                  crashes, faults>>
  BY DEF RecoverEnd, taskVars, boundVars
<1>2. /\ head' = None /\ chain' = <<>> /\ lost' = lost \cup Members(chain)
  <2>1. CASE suspect \/ head # None
    BY <2>1, Zenon DEF RecoverEnd
  <2>2. CASE ~(suspect \/ head # None)
    <3>1. UNCHANGED <<head, chain, lost>> /\ head = None
      BY <2>2, Zenon DEF RecoverEnd
    <3>2. chain = <<>>
      <4>1. chain \in Seq(Inodes) /\ None \notin Inodes
        BY <1>1, OrphanAssumption, Zenon DEF TypeOK
      <4>2. Len(chain) # 0 => chain[1] \in Inodes
        BY <4>1
      <4>3. Len(chain) = 0
        BY <1>1, <3>1, <4>1, <4>2, Zenon DEF Chained
      <4> QED
        BY <4>1, <4>3
    <3>3. Members(chain) = {}
      BY <3>2 DEF Members
    <3> QED
      BY <3>1, <3>2, <3>3, Zenon
  <2> QED
    BY <2>1, <2>2, Zenon
<1>3. Len(chain') = 0 /\ chain' \in Seq(Inodes) /\ 1 .. Len(chain') = {} /\ DOMAIN chain' = {}
  BY <1>2
<1>4. \A i : ~Listed(i)'
  BY <1>3, Zenon DEF Listed, Members
<1>5. \A i \in Inodes : i \notin lost' => i \notin lost /\ ~Listed(i)
  BY <1>2, Zenon DEF Listed
<1>6. TypeOK'
  <2>1. Members(chain) \subseteq Inodes
    BY <1>1 DEF TypeOK, Members
  <2>2. lost' \subseteq Inodes /\ head' \in Inodes \cup {None} /\ mode' \in {"mount", "recover", "run"}
    BY <1>1, <1>2, <2>1, Zenon DEF TypeOK
  <2> QED
    BY <1>1, <1>3, <1>u, <2>2, Zenon DEF TypeOK
<1>7. Chained'
  BY <1>2, <1>3, Zenon DEF Chained
<1>8. \A i \in Inodes : LocalOK(i)'
  <2> SUFFICES ASSUME NEW i \in Inodes
               PROVE  LocalOK(i)'
    BY Zenon
  <2>1. step[i] = "idle" /\ ~open[i] /\ LocalOK(i) /\ (i \notin lost' => i \notin lost /\ ~Listed(i))
    BY <1>1, <1>5, Zenon
  <2>2. TaskOK(i)'
    BY <1>u, <2>1 DEF LocalOK, TaskOK, HandleSteps, ListedSteps
  <2>3. IdleOK(i)'
    BY <1>1, <1>u, <2>1, Zenon DEF LocalOK, IdleOK
  <2>4. BlocksOK(i)'
    BY <1>u, <2>1, Zenon DEF LocalOK, BlocksOK
  <2>5. DtimeOK(i)'
    BY <1>1, <1>u, <2>1, Zenon DEF LocalOK, DtimeOK
  <2> QED
    BY <2>2, <2>3, <2>4, <2>5, Zenon DEF LocalOK
<1>9. MountOK'
  BY <1>1, <1>u, Zenon DEF MountOK
<1>10. DurableOK'
  BY <1>2, <1>u, Zenon DEF OrphanInv, DurableOK, UnfinishedIsListed, BlocksAccounted, LiveHasNoDtime
<1> QED
  BY <1>6, <1>7, <1>8, <1>9, <1>10, Zenon DEF OrphanInv
=============================================================================
