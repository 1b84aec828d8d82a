-------------------------- MODULE OrphanStepProofs --------------------------
(***************************************************************************)
(* What orphan_add, orphan_del and write_back_inode_desc do to the orphan  *)
(* list, as a sequence in memory and as a chain of pointers; and that the  *)
(* step of an operation on one inode keeps what is known of the others.    *)
(***************************************************************************)
EXTENDS OrphanListInv, TLAPS

-----------------------------------------------------------------------------
(* The list                                                                 *)

LEMMA Indexed ==
    ASSUME chain \in Seq(Inodes), NEW i
    PROVE  /\ Len(chain) \in Nat
           /\ Listed(i) <=> \E k \in 1 .. Len(chain) : chain[k] = i
           /\ \A k \in 1 .. Len(chain) : chain[k] \in Inodes
BY DEF Listed, Members

LEMMA IndexedNext ==
    ASSUME chain' \in Seq(Inodes), NEW i
    PROVE  /\ Len(chain') \in Nat
           /\ Listed(i)' <=> \E k \in 1 .. Len(chain') : chain'[k] = i
           /\ \A k \in 1 .. Len(chain') : chain'[k] \in Inodes
BY DEF Listed, Members

\* Position finds a listed inode.
LEMMA Positioned ==
    ASSUME chain \in Seq(Inodes), NEW i, Listed(i)
    PROVE  Position(i) \in 1 .. Len(chain) /\ chain[Position(i)] = i
<1>1. \E k \in DOMAIN chain : chain[k] = i
  BY Zenon DEF Listed, Members
<1>2. Position(i) \in DOMAIN chain /\ chain[Position(i)] = i
  BY <1>1, Zenon DEF Position
<1> QED
  BY <1>2

\* The successor of the inode at k is at k + 1.
LEMMA Succeeds ==
    ASSUME chain \in Seq(Inodes), Chained, NEW k \in 1 .. Len(chain)
    PROVE  /\ Position(chain[k]) = k
           /\ Successor(chain[k]) = IF k < Len(chain) THEN chain[k + 1] ELSE None
<1>1. Listed(chain[k])
  BY Indexed, Zenon
<1>2. Position(chain[k]) \in 1 .. Len(chain) /\ chain[Position(chain[k])] = chain[k]
  BY <1>1, Positioned, Zenon
<1>3. Position(chain[k]) = k
  BY <1>2, Zenon DEF Chained
<1> QED
  BY <1>3, Zenon DEF Successor

\* A write-back keeps the chain, whatever the descriptor says of the pointer.
LEMMA WriteBackChained ==
    ASSUME TypeOK, Chained, NEW i \in Inodes, NEW m, WriteBack(i, m),
           UNCHANGED <<head, chain, bit>>,
           \A j \in Inodes : j # i => step'[j] = step[j]
    PROVE  Chained'
<1>1. chain \in Seq(Inodes) /\ slot \in [Inodes -> DescType] /\ Len(chain) \in Nat
  BY DEF TypeOK
<1>2. \A k \in 1 .. Len(chain) : chain[k] \in Inodes
  BY <1>1, Indexed, Zenon
<1>3. ASSUME NEW k \in 1 .. Len(chain), step'[chain[k]] # "persist"
      PROVE  slot'[chain[k]].dtime = IF k < Len(chain) THEN chain[k + 1] ELSE None
  <2>1. CASE chain[k] = i
    <3>1. Listed(i)
      BY <1>1, <2>1, Indexed, Zenon
    <3>2. slot'[i].dtime = Successor(i)
      BY <1>1, <3>1, Zenon DEF WriteBack, Desc
    <3> QED
      BY <1>1, <2>1, <3>2, Succeeds, Zenon
  <2>2. CASE chain[k] # i
    <3>1. slot'[chain[k]] = slot[chain[k]] /\ step'[chain[k]] = step[chain[k]]
      BY <1>1, <1>2, <2>2, Zenon DEF WriteBack
    <3> QED
      BY <1>3, <3>1, Zenon DEF Chained
  <2> QED
    BY <2>1, <2>2, Zenon
<1> QED
  BY <1>3, Zenon DEF Chained

\* An operation that changes neither the list nor the pointers keeps the chain.
LEMMA SameChained ==
    ASSUME TypeOK, Chained, UNCHANGED <<head, chain, bit>>,
           \A j \in Inodes : slot'[j].dtime = slot[j].dtime,
           \A j \in Inodes : step'[j] # "persist" => step[j] # "persist"
    PROVE  Chained'
<1>1. \A k \in 1 .. Len(chain) : chain[k] \in Inodes
  BY Indexed, Zenon DEF TypeOK
<1> QED
  BY <1>1, Zenon DEF Chained

\* orphan_add puts an inode at the head, its pointer still to be written.
LEMMA AddChained ==
    ASSUME TypeOK, Chained, NEW i \in Inodes, bit[i], OrphanAdd(i),
           UNCHANGED <<slot, bit>>,
           step' = [step EXCEPT ![i] = "persist"]
    PROVE  /\ chain' \in Seq(Inodes) /\ head' \in Inodes \cup {None}
           /\ Chained'
           /\ \A j : Listed(j)' <=> (Listed(j) \/ j = i)
<1>1. /\ chain \in Seq(Inodes) /\ Len(chain) \in Nat /\ head \in Inodes \cup {None}
      /\ step \in [Inodes -> Steps]
  BY DEF TypeOK
<1>2. \A k \in 1 .. Len(chain) : chain[k] \in Inodes
  BY <1>1, Indexed, Zenon
<1>3. CASE Listed(i)
  <2>1. chain' = chain /\ head' = head
    BY <1>3, Zenon DEF OrphanAdd
  <2>2. \A j : Listed(j)' <=> Listed(j)
    BY <2>1, Zenon DEF Listed
  <2>3. Chained'
    BY <1>1, <1>2, <2>1, Zenon DEF Chained
  <2> QED
    BY <1>1, <1>3, <2>1, <2>2, <2>3, Zenon
<1>4. CASE ~Listed(i)
  <2>1. chain' = <<i>> \o chain /\ head' = i
    BY <1>4, Zenon DEF OrphanAdd
  <2>2. /\ chain' \in Seq(Inodes) /\ Len(chain') = Len(chain) + 1 /\ chain'[1] = i
        /\ \A k \in 1 .. Len(chain) : chain'[k + 1] = chain[k]
    BY <1>1, <2>1
  <2>3. \A k \in 2 .. Len(chain') : k - 1 \in 1 .. Len(chain) /\ chain'[k] = chain[k - 1]
    BY <1>1, <2>2
  <2>4. \A k \in 1 .. Len(chain) : chain[k] # i
    BY <1>1, <1>4, Indexed, Zenon
  <2>5. \A j : Listed(j)' <=> (Listed(j) \/ j = i)
    <3> SUFFICES ASSUME NEW j
                 PROVE  Listed(j)' <=> (Listed(j) \/ j = i)
      OBVIOUS
    <3>1. Listed(j) <=> \E k \in 1 .. Len(chain) : chain[k] = j
      BY <1>1, Indexed, Zenon
    <3>2. Listed(j)' <=> \E k \in 1 .. Len(chain') : chain'[k] = j
      BY <2>2, IndexedNext, Zenon
    <3>3. ASSUME Listed(j)' PROVE Listed(j) \/ j = i
      BY <1>1, <2>2, <2>3, <3>1, <3>2, <3>3
    <3>4. ASSUME Listed(j) PROVE Listed(j)'
      <4>1. PICK k \in 1 .. Len(chain) : chain[k] = j
        BY <3>1, <3>4, Zenon
      <4>2. k + 1 \in 1 .. Len(chain') /\ chain'[k + 1] = j
        BY <1>1, <2>2, <4>1
      <4> QED
        BY <3>2, <4>2, Zenon
    <3>5. ASSUME j = i PROVE Listed(j)'
      BY <1>1, <2>2, <3>2, <3>5
    <3> QED
      BY <3>3, <3>4, <3>5, Zenon
  <2>6. ASSUME NEW j \in 1 .. Len(chain'), NEW k \in 1 .. Len(chain'), chain'[j] = chain'[k]
        PROVE  j = k
    <3>0. \A l \in 1 .. Len(chain') : l # 1 => chain'[l] # i
      <4>1. \A l \in 1 .. Len(chain') : l # 1 => l \in 2 .. Len(chain')
        BY <1>1, <2>2
      <4> QED
        BY <2>3, <2>4, <4>1, Zenon
    <3>1. CASE j = 1 \/ k = 1
      BY <2>2, <2>6, <3>0, <3>1, Zenon
    <3>2. CASE j # 1 /\ k # 1
      <4>1. j \in 2 .. Len(chain') /\ k \in 2 .. Len(chain')
        BY <1>1, <2>2, <3>2
      <4>2. chain[j - 1] = chain[k - 1] /\ j - 1 \in 1 .. Len(chain) /\ k - 1 \in 1 .. Len(chain)
        BY <2>3, <2>6, <4>1, Zenon
      <4>3. j - 1 = k - 1
        BY <4>2, Zenon DEF Chained
      <4> QED
        BY <4>1, <4>3
    <3> QED
      BY <3>1, <3>2, Zenon
  <2>7. ASSUME NEW k \in 1 .. Len(chain')
        PROVE  /\ bit'[chain'[k]]
               /\ step'[chain'[k]] # "persist" =>
                    slot'[chain'[k]].dtime
                      = IF k < Len(chain') THEN chain'[k + 1] ELSE None
    <3>1. CASE k = 1
      BY <1>1, <2>2, <3>1, Zenon
    <3>2. CASE k # 1
      <4>1. k - 1 \in 1 .. Len(chain) /\ chain'[k] = chain[k - 1]
        BY <1>1, <2>2, <2>3, <3>2
      <4>2. step'[chain'[k]] = step[chain[k - 1]]
        BY <1>1, <1>2, <2>4, <4>1, Zenon
      <4>3. k < Len(chain') => k \in 1 .. Len(chain) /\ chain'[k + 1] = chain[k]
        BY <1>1, <2>2, <3>2
      <4>4. k < Len(chain') <=> k - 1 < Len(chain)
        BY <1>1, <2>2
      <4>5. /\ bit[chain[k - 1]]
            /\ step[chain[k - 1]] # "persist" =>
                 slot[chain[k - 1]].dtime
                   = IF k - 1 < Len(chain) THEN chain[(k - 1) + 1] ELSE None
        BY <4>1, Zenon DEF Chained
      <4>6. (k - 1) + 1 = k
        OBVIOUS
      <4> QED
        BY <4>1, <4>2, <4>3, <4>4, <4>5, <4>6, Zenon
    <3> QED
      BY <3>1, <3>2, Zenon
  <2>8. Len(chain') # 0
    BY <1>1, <2>2
  <2> QED
    BY <2>1, <2>2, <2>5, <2>6, <2>7, <2>8, Zenon DEF Chained
<1> QED
  BY <1>3, <1>4, Zenon

\* orphan_del takes an inode out, and patches the pointer to it.
LEMMA DelChained ==
    ASSUME TypeOK, Chained, NEW i \in Inodes, Listed(i), OrphanDel(i), UNCHANGED bit,
           \A j \in Inodes : j # i => step'[j] = step[j]
    PROVE  /\ chain' \in Seq(Inodes) /\ head' \in Inodes \cup {None}
           /\ slot' \in [Inodes -> DescType]
           /\ Chained'
           /\ \A j : Listed(j)' <=> (Listed(j) /\ j # i)
           /\ \A j \in Inodes :
                /\ slot'[j].links = slot[j].links /\ slot'[j].size = slot[j].size
                /\ slot'[j].blocks = slot[j].blocks
                /\ ~Listed(j)' => slot'[j].dtime = slot[j].dtime
<1> DEFINE p == Position(i)
           n == Len(chain)
<1>1. /\ chain \in Seq(Inodes) /\ n \in Nat /\ head \in Inodes \cup {None}
      /\ slot \in [Inodes -> DescType] /\ None \notin Inodes
  BY OrphanAssumption DEF TypeOK
<1>2. \A k \in 1 .. n : chain[k] \in Inodes
  BY <1>1, Indexed, Zenon
<1>3. p \in 1 .. n /\ chain[p] = i
  BY <1>1, Positioned, Zenon
<1>4. chain' = Without(p)
  BY Zenon DEF OrphanDel
<1>5. Successor(i) = IF p < n THEN chain[p + 1] ELSE None
  BY Zenon DEF Successor
<1> HIDE DEF p
<1>6. /\ chain' \in Seq(Inodes) /\ Len(chain') = n - 1 /\ n - 1 \in Nat
      /\ \A k \in 1 .. n - 1 : chain'[k] = IF k < p THEN chain[k] ELSE chain[k + 1]
  <2>1. \A k \in 1 .. n - 1 : (IF k < p THEN chain[k] ELSE chain[k + 1]) \in Inodes
    BY <1>1, <1>2, <1>3
  <2>2. chain' \in [1 .. n - 1 -> Inodes] /\ n - 1 \in Nat
    BY <1>1, <1>3, <1>4, <2>1 DEF Without
  <2>3. chain' \in Seq(Inodes) /\ Len(chain') = n - 1
    BY <2>2
  <2> QED
    BY <1>4, <2>2, <2>3, Zenon DEF Without
<1>7. \A k \in 1 .. n : chain[k] = i => k = p
  BY <1>3, Zenon DEF Chained
<1>8. \A j : Listed(j)' <=> (Listed(j) /\ j # i)
  <2> SUFFICES ASSUME NEW j
               PROVE  Listed(j)' <=> (Listed(j) /\ j # i)
    OBVIOUS
  <2>1. Listed(j) <=> \E k \in 1 .. n : chain[k] = j
    BY <1>1, Indexed, Zenon
  <2>2. Listed(j)' <=> \E k \in 1 .. n - 1 : chain'[k] = j
    BY <1>6, IndexedNext, Zenon
  <2>3. ASSUME Listed(j)' PROVE Listed(j) /\ j # i
    <3>1. PICK k \in 1 .. n - 1 : chain'[k] = j
      BY <2>2, <2>3, Zenon
    <3>2. CASE k < p
      <4>1. k \in 1 .. n /\ chain[k] = j
        BY <1>1, <1>6, <3>1, <3>2
      <4> QED
        BY <1>3, <1>7, <2>1, <3>2, <4>1
    <3>3. CASE ~(k < p)
      <4>1. k + 1 \in 1 .. n /\ chain[k + 1] = j /\ k + 1 # p
        BY <1>1, <1>3, <1>6, <3>1, <3>3
      <4> QED
        BY <1>7, <2>1, <4>1, Zenon
    <3> QED
      BY <3>2, <3>3, Zenon
  <2>4. ASSUME Listed(j), j # i PROVE Listed(j)'
    <3>1. PICK k \in 1 .. n : chain[k] = j
      BY <2>1, <2>4, Zenon
    <3>2. CASE k < p
      <4>1. k \in 1 .. n - 1 /\ chain'[k] = j
        BY <1>1, <1>3, <1>6, <3>1, <3>2
      <4> QED
        BY <2>2, <4>1, Zenon
    <3>3. CASE ~(k < p)
      <4>1. k # p
        BY <1>3, <2>4, <3>1, Zenon
      <4>2. k - 1 \in 1 .. n - 1 /\ ~(k - 1 < p) /\ (k - 1) + 1 = k
        BY <1>1, <1>3, <3>1, <3>3, <4>1
      <4>3. chain'[k - 1] = j
        BY <1>6, <3>1, <4>2, Zenon
      <4> QED
        BY <2>2, <4>2, <4>3, Zenon
    <3> QED
      BY <3>2, <3>3, Zenon
  <2> QED
    BY <2>3, <2>4, Zenon
<1>9. ASSUME NEW j \in 1 .. n - 1, NEW k \in 1 .. n - 1, chain'[j] = chain'[k]
      PROVE  j = k
  <2> DEFINE a == IF j < p THEN j ELSE j + 1
             b == IF k < p THEN k ELSE k + 1
  <2>1. a \in 1 .. n /\ b \in 1 .. n /\ (a = b => j = k)
    BY <1>1, <1>3
  <2>2. chain'[j] = chain[a] /\ chain'[k] = chain[b]
    BY <1>6, Zenon
  <2> HIDE DEF a, b
  <2>3. \A c, e \in 1 .. n : chain[c] = chain[e] => c = e
    BY Zenon DEF Chained
  <2>4. chain[a] = chain[b]
    BY <1>9, <2>2, Zenon
  <2>5. a = b
    BY <2>1, <2>3, <2>4, Zenon
  <2> QED
    BY <2>1, <2>5, Zenon
<1>10. /\ slot' \in [Inodes -> DescType]
       /\ \A j \in Inodes :
            /\ slot'[j].links = slot[j].links /\ slot'[j].size = slot[j].size
            /\ slot'[j].blocks = slot[j].blocks
            /\ IF p # 1 /\ j = chain[p - 1] THEN slot'[j].dtime = Successor(i)
                                            ELSE slot'[j].dtime = slot[j].dtime
       /\ head' = IF p = 1 THEN Successor(i) ELSE head
  <2>1. CASE p = 1
    <3>1. slot' = slot /\ head' = Successor(i)
      BY <1>3, <2>1, Zenon DEF OrphanDel
    <3> QED
      BY <1>1, <2>1, <3>1, Zenon
  <2>2. CASE p # 1
    <3>1. chain[1] # i /\ 1 \in 1 .. n
      BY <1>1, <1>3, <1>7, <2>2
    <3> DEFINE q == chain[p - 1]
    <3>2. /\ head' = head
          /\ slot' = [slot EXCEPT ![q] = Desc(slot[q].links, slot[q].size,
                                              slot[q].blocks, Successor(i))]
      BY <3>1, Zenon DEF OrphanDel, p
    <3>3. q \in Inodes
      BY <1>1, <1>2, <1>3, <2>2
    <3> HIDE DEF q
    <3>4. Successor(i) \in Inodes \cup {None}
      BY <1>1, <1>2, <1>3, <1>5
    <3>5. Desc(slot[q].links, slot[q].size, slot[q].blocks, Successor(i)) \in DescType
      BY <1>1, <3>3, <3>4, Zenon DEF Desc, DescType
    <3>6. /\ slot' \in [Inodes -> DescType]
          /\ \A j \in Inodes : j # q => slot'[j] = slot[j]
          /\ slot'[q] = Desc(slot[q].links, slot[q].size, slot[q].blocks, Successor(i))
      BY <1>1, <3>2, <3>3, <3>5, Zenon
    <3> QED
      BY <2>2, <3>2, <3>3, <3>6, Zenon DEF Desc, q
  <2> QED
    BY <2>1, <2>2, Zenon
<1>11. \A j \in Inodes : ~Listed(j)' => slot'[j].dtime = slot[j].dtime
  <2> SUFFICES ASSUME NEW j \in Inodes, ~Listed(j)', p # 1, j = chain[p - 1]
               PROVE  FALSE
    BY <1>10, Zenon
  <2>1. p - 1 \in 1 .. n /\ p - 1 # p
    BY <1>1, <1>3
  <2>2. Listed(j) /\ j # i
    BY <1>1, <1>7, <2>1, Indexed, Zenon
  <2> QED
    BY <1>8, <2>2, Zenon
<1>12. head' = IF Len(chain') = 0 THEN None ELSE chain'[1]
  BY <1>1, <1>3, <1>5, <1>6, <1>10 DEF Chained
<1>13. ASSUME NEW k \in 1 .. n - 1
       PROVE  /\ bit[chain'[k]]
              /\ step'[chain'[k]] # "persist" =>
                   slot'[chain'[k]].dtime = IF k < n - 1 THEN chain'[k + 1] ELSE None
  <2> DEFINE l == IF k < p THEN k ELSE k + 1
  <2>1. l \in 1 .. n /\ l # p /\ chain'[k] = chain[l]
    BY <1>1, <1>3, <1>6
  <2>2. chain[l] \in Inodes /\ chain[l] # i
    BY <1>2, <1>7, <2>1, Zenon
  <2>3. /\ bit[chain[l]]
        /\ step[chain[l]] # "persist" =>
             slot[chain[l]].dtime = IF l < n THEN chain[l + 1] ELSE None
    BY <2>1, Zenon DEF Chained
  <2>4. step'[chain[l]] = step[chain[l]]
    BY <2>2, Zenon
  <2>5. CASE k = p - 1
    <3>1. chain[l] = chain[p - 1] /\ p # 1
      BY <1>1, <1>3, <2>5
    <3>2. slot'[chain[l]].dtime = Successor(i)
      BY <1>10, <2>2, <3>1, Zenon
    <3>3. (IF k < n - 1 THEN chain'[k + 1] ELSE None) = Successor(i)
      BY <1>1, <1>3, <1>5, <1>6, <2>5
    <3> QED
      BY <2>1, <2>3, <3>2, <3>3, Zenon
  <2>6. CASE k # p - 1
    <3>1. ~(p # 1 /\ chain[l] = chain[p - 1])
      <4>1. l # p - 1
        BY <1>1, <1>3, <2>6
      <4>2. p # 1 => p - 1 \in 1 .. n
        BY <1>1, <1>3
      <4> QED
        BY <2>1, <4>1, <4>2, Zenon DEF Chained
    <3>2. slot'[chain[l]].dtime = slot[chain[l]].dtime
      BY <1>10, <2>2, <3>1, Zenon
    <3>3. (IF k < n - 1 THEN chain'[k + 1] ELSE None) = IF l < n THEN chain[l + 1] ELSE None
      <4>1. CASE k < p
        BY <1>1, <1>3, <1>6, <2>6, <4>1
      <4>2. CASE ~(k < p)
        BY <1>1, <1>3, <1>6, <2>6, <4>2
      <4> QED
        BY <4>1, <4>2, Zenon
    <3> QED
      BY <2>1, <2>3, <2>4, <3>2, <3>3, Zenon
  <2> QED
    BY <2>5, <2>6, Zenon
<1>14. Chained'
  BY <1>6, <1>9, <1>12, <1>13 DEF Chained
<1>15. head' \in Inodes \cup {None}
  BY <1>1, <1>2, <1>3, <1>5, <1>10
<1> QED
  BY <1>6, <1>8, <1>10, <1>11, <1>14, <1>15, Zenon

-----------------------------------------------------------------------------
(* A step of an operation                                                   *)

\* No step concerns inode j, but for a patch of its pointer while it is listed
Same(j) ==
    /\ mem'[j] = mem[j] /\ bit'[j] = bit[j] /\ used'[j] = used[j]
    /\ open'[j] = open[j] /\ step'[j] = step[j] /\ job'[j] = job[j]
    /\ j \in hold' <=> j \in hold
    /\ Listed(j)' <=> Listed(j)
    /\ slot'[j].links = slot[j].links /\ slot'[j].size = slot[j].size
    /\ slot'[j].blocks = slot[j].blocks
    /\ Listed(j) \/ slot'[j].dtime = slot[j].dtime

LEMMA Frame ==
    ASSUME NEW j \in Inodes, Same(j), LocalOK(j), mode' = mode, j \in lost' <=> j \in lost
    PROVE  LocalOK(j)'
<1>1. TaskOK(j)'
  BY Zenon DEF Same, LocalOK, TaskOK
<1>2. IdleOK(j)'
  BY Zenon DEF Same, LocalOK, IdleOK
<1>3. BlocksOK(j)'
  BY Zenon DEF Same, LocalOK, BlocksOK
<1>4. DtimeOK(j)'
  BY Zenon DEF Same, LocalOK, DtimeOK
<1> QED
  BY <1>1, <1>2, <1>3, <1>4, Zenon DEF LocalOK

LEMMA SameListed ==
    ASSUME chain' = chain
    PROVE  \A j : Listed(j)' <=> Listed(j)
BY Zenon DEF Listed

LEMMA SameDurable ==
    ASSUME DurableOK, UNCHANGED <<durable, lost>>
    PROVE  DurableOK'
BY Zenon DEF DurableOK, UnfinishedIsListed, BlocksAccounted, LiveHasNoDtime

\* What a recovery may do to an inode
Keeps(i) ==
    /\ ~open'[i]
    /\ bit'[i] /\ slot'[i].links = 1 =>
         bit[i] /\ slot[i].links = 1 /\ slot'[i].size = slot[i].size

\* The invariant after a step of inode i, from what it does to i
LEMMA TurnKeeps ==
    ASSUME OrphanInv, NEW i \in Inodes, mode # "mount",
           todo' \subseteq todo, i \notin todo',
           UNCHANGED <<durable, mode, lost>>,
           TypeOK', Chained', LocalOK(i)',
           \A j \in Inodes : j # i => Same(j),
           mode = "recover" => Keeps(i)
    PROVE  OrphanInv'
<1>1. \A j \in Inodes : LocalOK(j)'
  BY Frame, Zenon DEF OrphanInv
<1>2. MountOK'
  <2>1. mode \in {"recover", "run"} /\ todo \subseteq Inodes
    BY Zenon DEF OrphanInv, TypeOK
  <2>2. \A j \in todo' : Listed(j)' /\ step'[j] = "idle"
    BY <2>1 DEF OrphanInv, MountOK, Same
  <2>3. ASSUME mode # "run", NEW j \in Inodes
        PROVE  /\ ~open'[j]
               /\ bit'[j] /\ slot'[j].links = 1 =>
                    /\ durable.bit[j]
                    /\ durable.slot[j].links = 1
                    /\ durable.slot[j].size = slot'[j].size
    BY <2>1, <2>3 DEF OrphanInv, MountOK, Same, Keeps
  <2>4. mode # "recover" => todo' = {}
    BY Zenon DEF OrphanInv, MountOK
  <2> QED
    BY <2>1, <2>2, <2>3, <2>4, Zenon DEF MountOK
<1>3. DurableOK'
  BY SameDurable, Zenon DEF OrphanInv
<1> QED
  BY <1>1, <1>2, <1>3, Zenon DEF OrphanInv

LEMMA StepKeeps ==
    ASSUME OrphanInv, NEW i \in Inodes, mode # "mount", i \notin todo,
           UNCHANGED <<durable, mode, todo, lost>>,
           TypeOK', Chained', LocalOK(i)',
           \A j \in Inodes : j # i => Same(j),
           mode = "recover" => Keeps(i)
    PROVE  OrphanInv'
BY TurnKeeps, Zenon

-----------------------------------------------------------------------------
(* Effects of the pieces of an action                                       *)

LEMMA DescTyped ==
    ASSUME NEW l \in {0, 1}, NEW s \in 0 .. MaxBlocks, NEW b \in 0 .. MaxBlocks,
           NEW t \in Inodes \cup {None, Time}
    PROVE  /\ Desc(l, s, b, t) \in DescType
           /\ Desc(l, s, b, t).links = l /\ Desc(l, s, b, t).size = s
           /\ Desc(l, s, b, t).blocks = b /\ Desc(l, s, b, t).dtime = t
BY Zenon DEF Desc, DescType

LEMMA DescFields ==
    ASSUME NEW m \in DescType
    PROVE  /\ m.links \in {0, 1} /\ m.size \in 0 .. MaxBlocks /\ m.blocks \in 0 .. MaxBlocks
           /\ m.dtime \in Inodes \cup {None, Time}
           /\ m.size \in Nat /\ m.blocks \in Nat /\ MaxBlocks \in Nat
BY OrphanAssumption DEF DescType

LEMMA Advanced ==
    ASSUME TypeOK, NEW i \in Inodes, NEW j \in Jobs, NEW s \in Steps, Advance(i, j, s)
    PROVE  /\ job' \in [Inodes -> Jobs] /\ step' \in [Inodes -> Steps]
           /\ job'[i] = j /\ step'[i] = s
           /\ \A k \in Inodes : k # i => job'[k] = job[k] /\ step'[k] = step[k]
BY Zenon DEF TypeOK, Advance

LEMMA OldHeadType ==
    ASSUME TypeOK, NEW i \in Inodes
    PROVE  /\ Listed(i) => Successor(i) \in Inodes \cup {None}
           /\ OldHead(i) \in Inodes \cup {None}
<1>1. chain \in Seq(Inodes) /\ head \in Inodes \cup {None} /\ Len(chain) \in Nat
  BY DEF TypeOK
<1>2. \A k \in 1 .. Len(chain) : chain[k] \in Inodes
  BY <1>1, Indexed, Zenon
<1>3. ASSUME Listed(i) PROVE Successor(i) \in Inodes \cup {None}
  <2>1. Position(i) \in 1 .. Len(chain)
    BY <1>1, <1>3, Positioned, Zenon
  <2>2. Position(i) < Len(chain) => Position(i) + 1 \in 1 .. Len(chain)
    BY <1>1, <2>1
  <2> QED
    BY <1>2, <2>1, <2>2, Zenon DEF Successor
<1> QED
  BY <1>1, <1>3, Zenon DEF OldHead

LEMMA WrittenBack ==
    ASSUME TypeOK, NEW i \in Inodes, NEW m \in DescType, WriteBack(i, m)
    PROVE  /\ slot' \in [Inodes -> DescType]
           /\ \A j \in Inodes : j # i => slot'[j] = slot[j]
           /\ slot'[i].links = m.links /\ slot'[i].size = m.size
           /\ slot'[i].blocks = m.blocks
           /\ ~Listed(i) => slot'[i].dtime = m.dtime
<1> DEFINE t == IF Listed(i) THEN Successor(i) ELSE m.dtime
<1>1. t \in Inodes \cup {None, Time} /\ (~Listed(i) => t = m.dtime)
  BY OldHeadType, DescFields, Zenon
<1>2. slot' = [slot EXCEPT ![i] = Desc(m.links, m.size, m.blocks, t)]
  BY Zenon DEF WriteBack
<1> HIDE DEF t
<1>3. /\ Desc(m.links, m.size, m.blocks, t) \in DescType
      /\ Desc(m.links, m.size, m.blocks, t).links = m.links
      /\ Desc(m.links, m.size, m.blocks, t).size = m.size
      /\ Desc(m.links, m.size, m.blocks, t).blocks = m.blocks
      /\ Desc(m.links, m.size, m.blocks, t).dtime = t
  <2>1. m.links \in {0, 1} /\ m.size \in 0 .. MaxBlocks /\ m.blocks \in 0 .. MaxBlocks
    BY DescFields, Zenon
  <2> QED
    BY <1>1, <2>1 DEF Desc, DescType
<1>4. slot'[i] = Desc(m.links, m.size, m.blocks, t) /\ slot \in [Inodes -> DescType]
  BY <1>2, Zenon DEF TypeOK
<1> QED
  BY <1>1, <1>2, <1>3, <1>4, Zenon

\* The types of the state of one inode
LEMMA Typed ==
    ASSUME TypeOK, NEW i \in Inodes
    PROVE  /\ mem[i] \in DescType /\ slot[i] \in DescType
           /\ mem[i].links \in {0, 1} /\ mem[i].size \in 0 .. MaxBlocks
           /\ mem[i].blocks \in 0 .. MaxBlocks
           /\ mem[i].dtime \in Inodes \cup {None, Time}
           /\ slot[i].links \in {0, 1} /\ slot[i].size \in 0 .. MaxBlocks
           /\ slot[i].blocks \in 0 .. MaxBlocks
           /\ used[i] \in 0 .. MaxBlocks /\ MaxBlocks \in Nat
BY OrphanAssumption, DescFields, Zenon DEF TypeOK

-----------------------------------------------------------------------------
(* The shapes of the steps                                                  *)

\* Write and Shrink: the inode is written back with size n and b blocks
SizeStep(i, n, b) ==
    /\ Reachable(i)
    /\ b > n => mem[i].blocks > mem[i].size
    /\ mem' = [mem EXCEPT ![i] = Desc(mem[i].links, n, b, mem[i].dtime)]
    /\ used' = [used EXCEPT ![i] = b]
    /\ WriteBack(i, Desc(mem[i].links, n, b, mem[i].dtime))
    /\ UNCHANGED <<head, bit, durable, chain, open, job, step, hold, mode, todo,
                   suspect, lost, crashes, faults>>
    /\ requests' \in Nat

LEMMA SizeKeeps ==
    ASSUME OrphanInv, NEW i \in Inodes, NEW n \in 0 .. MaxBlocks, NEW b \in 0 .. MaxBlocks,
           SizeStep(i, n, b)
    PROVE  OrphanInv'
<1> DEFINE m == Desc(mem[i].links, n, b, mem[i].dtime)
<1>1. /\ TypeOK /\ Chained /\ LocalOK(i) /\ mode = "run" /\ todo = {}
      /\ bit[i] /\ step[i] = "idle" /\ (mem[i].links = 1 \/ open[i])
  BY Zenon DEF SizeStep, OrphanInv, MountOK, Reachable
<1>2. /\ m \in DescType /\ m.links = mem[i].links /\ m.size = n
      /\ m.blocks = b /\ m.dtime = mem[i].dtime
  BY <1>1, Typed, DescTyped
<1>3. /\ WriteBack(i, m) /\ mem' = [mem EXCEPT ![i] = m] /\ used' = [used EXCEPT ![i] = b]
      /\ b > n => mem[i].blocks > mem[i].size
  BY Zenon DEF SizeStep
<1>u. UNCHANGED <<head, bit, durable, chain, open, job, step, hold, mode, todo, lost>>
  BY Zenon DEF SizeStep
<1> HIDE DEF m
<1>4. /\ slot' \in [Inodes -> DescType]
      /\ \A j \in Inodes : j # i => slot'[j] = slot[j]
      /\ slot'[i].links = m.links /\ slot'[i].size = m.size /\ slot'[i].blocks = m.blocks
      /\ ~Listed(i) => slot'[i].dtime = m.dtime
  BY <1>1, <1>2, <1>3, WrittenBack, Zenon
<1>5. TypeOK'
  <2>1. used' \in [Inodes -> 0 .. MaxBlocks] /\ mem' \in [Inodes -> DescType]
    BY <1>1, <1>2, <1>3, Zenon DEF TypeOK
  <2> QED
    BY <1>1, <1>4, <2>1, Zenon DEF TypeOK, SizeStep
<1>6. /\ mem'[i] = m /\ used'[i] = b
      /\ \A j \in Inodes : j # i => mem'[j] = mem[j] /\ used'[j] = used[j]
  BY <1>1, <1>3, Zenon DEF TypeOK
<1>7. \A j : Listed(j)' <=> Listed(j)
  BY <1>u, SameListed, Zenon
<1>8. Chained'
  BY <1>1, <1>3, <1>u, WriteBackChained, Zenon
<1>9. \A j \in Inodes : j # i => Same(j)
  BY <1>4, <1>6, <1>7, <1>u, Zenon DEF Same
<1>10. LocalOK(i)'
  <2>1. TaskOK(i)'
    BY <1>1, <1>7, <1>u, Zenon DEF LocalOK, TaskOK, HandleSteps, ListedSteps
  <2>2. IdleOK(i)'
    BY <1>1, <1>2, <1>3, <1>4, <1>6, <1>7, <1>u, Typed, Zenon DEF LocalOK, IdleOK
  <2>3. BlocksOK(i)'
    BY <1>1, <1>2, <1>4, <1>6, <1>u, Zenon DEF LocalOK, BlocksOK
  <2>4. DtimeOK(i)'
    BY <1>1, <1>2, <1>4, <1>6, <1>7, <1>u, Zenon DEF LocalOK, DtimeOK
  <2> QED
    BY <2>1, <2>2, <2>3, <2>4, Zenon DEF LocalOK
<1> QED
  BY <1>1, <1>5, <1>8, <1>9, <1>10, <1>u, StepKeeps, Zenon

\* Unlink and Truncate: the inode is listed, its descriptor m not yet captured
ListStep(i, j, m) ==
    /\ Reachable(i) /\ mem[i].links = 1 /\ OrphanAdd(i)
    /\ m.blocks = mem[i].blocks
    /\ j = "unlink" => m.links = 0
    /\ j = "truncate" => m.links = 1 /\ m.dtime = mem[i].dtime
    /\ mem' = [mem EXCEPT ![i] = m] /\ hold' = hold \cup {i}
    /\ Advance(i, j, "persist")
    /\ UNCHANGED <<slot, bit, used, durable, open, mode, todo, suspect, lost, crashes, faults>>
    /\ requests' \in Nat

LEMMA ListKeeps ==
    ASSUME OrphanInv, NEW i \in Inodes, NEW j \in {"truncate", "unlink"}, NEW m \in DescType,
           ListStep(i, j, m)
    PROVE  OrphanInv'
<1>1. /\ TypeOK /\ Chained /\ LocalOK(i) /\ mode = "run" /\ todo = {}
      /\ bit[i] /\ step[i] = "idle"
  BY Zenon DEF ListStep, OrphanInv, MountOK, Reachable
<1>a. OrphanAdd(i) /\ Advance(i, j, "persist")
  BY Zenon DEF ListStep
<1>m. /\ mem[i].links = 1 /\ m.blocks = mem[i].blocks
      /\ j = "unlink" => m.links = 0
      /\ j = "truncate" => m.links = 1 /\ m.dtime = mem[i].dtime
      /\ mem' = [mem EXCEPT ![i] = m] /\ hold' = hold \cup {i}
  BY Zenon DEF ListStep
<1>u. UNCHANGED <<slot, bit, used, durable, open, mode, todo, lost>>
  BY Zenon DEF ListStep
<1>2. /\ job' \in [Inodes -> Jobs] /\ step' \in [Inodes -> Steps]
      /\ job'[i] = j /\ step'[i] = "persist"
      /\ \A k \in Inodes : k # i => job'[k] = job[k] /\ step'[k] = step[k]
  <2>1. j \in Jobs /\ "persist" \in Steps
    BY Zenon DEF Jobs, Steps
  <2> QED
    BY <1>1, <1>a, <2>1, Advanced, Zenon
<1>3. /\ chain' \in Seq(Inodes) /\ head' \in Inodes \cup {None}
      /\ Chained'
      /\ \A k : Listed(k)' <=> (Listed(k) \/ k = i)
  <2>1. step' = [step EXCEPT ![i] = "persist"]
    BY <1>a, Zenon DEF Advance
  <2> QED
    BY <1>1, <1>a, <1>u, <2>1, AddChained, Zenon
<1>4. TypeOK'
  <2>1. mem' \in [Inodes -> DescType] /\ hold' \subseteq Inodes
    BY <1>1, <1>m, Zenon DEF TypeOK
  <2> QED
    BY <1>1, <1>2, <1>3, <2>1, Zenon DEF TypeOK, ListStep
<1>5. mem'[i] = m /\ \A k \in Inodes : k # i => mem'[k] = mem[k]
  BY <1>1, <1>m, Zenon DEF TypeOK
<1>6. \A k \in Inodes : k # i => Same(k)
  BY <1>2, <1>3, <1>5, <1>m, <1>u, Zenon DEF Same
<1>7. LocalOK(i)'
  <2>1. slot[i].links = 1
    BY <1>1, <1>m, Zenon DEF LocalOK, IdleOK
  <2>2. TaskOK(i)'
    <3>1. i \in hold' /\ Listed(i)'
      BY <1>m, <1>3, Zenon
    <3>2. job'[i] = j /\ step'[i] = "persist" /\ mode' = "run" /\ mem'[i] = m /\ slot'[i] = slot[i]
      BY <1>1, <1>2, <1>5, <1>u, Zenon
    <3>3. j = "truncate" \/ j = "unlink"
      OBVIOUS
    <3> QED
      BY <1>m, <2>1, <3>1, <3>2, <3>3, Zenon DEF TaskOK, HandleSteps, ListedSteps
  <2>3. IdleOK(i)'
    BY <1>2, Zenon DEF IdleOK
  <2>4. BlocksOK(i)'
    BY <1>1, <1>2, <1>5, <1>m, <1>u, Zenon DEF LocalOK, BlocksOK
  <2>5. DtimeOK(i)'
    BY <1>1, <1>2, <1>3, <1>5, <1>m, <1>u DEF LocalOK, DtimeOK
  <2> QED
    BY <2>2, <2>3, <2>4, <2>5, Zenon DEF LocalOK
<1> QED
  BY <1>1, <1>3, <1>4, <1>6, <1>7, <1>u, StepKeeps, Zenon

\* An inode whose operation runs is allocated, and no mount waits for it
LEMMA Running ==
    ASSUME OrphanInv, NEW i \in Inodes, step[i] # "idle"
    PROVE  /\ TypeOK /\ Chained /\ LocalOK(i) /\ mode # "mount" /\ i \notin todo /\ bit[i]
           /\ mode = "recover" => ~open[i]
           /\ step[i] = "persist" => mode = "run"
<1>1. TypeOK /\ LocalOK(i) /\ mode # "mount" /\ i \notin todo /\ Chained
  BY Zenon DEF OrphanInv, MountOK
<1>2. Listed(i) => bit[i]
  <2>1. \A k \in 1 .. Len(chain) : bit[chain[k]]
    BY <1>1, Zenon DEF Chained
  <2>2. Listed(i) => \E k \in 1 .. Len(chain) : chain[k] = i
    BY <1>1, Indexed, Zenon DEF TypeOK
  <2> QED
    BY <2>1, <2>2, Zenon
<1>3. step[i] \in Steps
  BY <1>1, Zenon DEF TypeOK
<1>4. Listed(i) \/ bit[i]
  BY <1>1, <1>3, Zenon DEF LocalOK, TaskOK, Steps, ListedSteps
<1> QED
  BY <1>1, <1>2, <1>4, Zenon DEF OrphanInv, MountOK, LocalOK, TaskOK

\* Steps that only write the inode back and go on to the step s of the job j
WriteStep(i, j, s) ==
    /\ step[i] # "idle" /\ s # "persist"
    /\ WriteBack(i, mem[i])
    /\ Advance(i, j, s)
    /\ hold' \subseteq Inodes /\ \A k \in Inodes : k # i => (k \in hold' <=> k \in hold)
    /\ UNCHANGED <<head, bit, used, durable, chain, mem, open, mode, todo, suspect, lost,
                   requests, crashes, faults>>

LEMMA WrittenKeeps ==
    ASSUME OrphanInv, NEW i \in Inodes, NEW j \in Jobs, NEW s \in Steps, WriteStep(i, j, s),
           TaskOK(i)', IdleOK(i)'
    PROVE  OrphanInv'
<1>1. /\ TypeOK /\ Chained /\ LocalOK(i) /\ mode # "mount" /\ i \notin todo /\ bit[i]
      /\ mode = "recover" => ~open[i]
      /\ step[i] = "persist" => mode = "run"
  BY Running, Zenon DEF WriteStep
<1>a. /\ WriteBack(i, mem[i]) /\ Advance(i, j, s) /\ step[i] # "idle" /\ s # "persist"
      /\ \A k \in Inodes : k # i => (k \in hold' <=> k \in hold)
  BY Zenon DEF WriteStep
<1>u. UNCHANGED <<head, bit, used, durable, chain, mem, open, mode, todo, lost>>
  BY Zenon DEF WriteStep
<1>2. mem[i] \in DescType
  BY <1>1, Typed, Zenon
<1>3. /\ job' \in [Inodes -> Jobs] /\ step' \in [Inodes -> Steps]
      /\ job'[i] = j /\ step'[i] = s
      /\ \A k \in Inodes : k # i => job'[k] = job[k] /\ step'[k] = step[k]
  BY <1>1, <1>a, Advanced, Zenon
<1>4. /\ slot' \in [Inodes -> DescType]
      /\ \A k \in Inodes : k # i => slot'[k] = slot[k]
      /\ slot'[i].links = mem[i].links /\ slot'[i].size = mem[i].size
      /\ slot'[i].blocks = mem[i].blocks
      /\ ~Listed(i) => slot'[i].dtime = mem[i].dtime
  BY <1>1, <1>2, <1>a, WrittenBack, Zenon
<1>5. TypeOK'
  BY <1>1, <1>3, <1>4, Zenon DEF TypeOK, WriteStep
<1>6. \A k : Listed(k)' <=> Listed(k)
  BY <1>u, SameListed, Zenon
<1>7. Chained'
  BY <1>1, <1>3, <1>a, <1>u, WriteBackChained, Zenon
<1>8. \A k \in Inodes : k # i => Same(k)
  BY <1>3, <1>4, <1>6, <1>a, <1>u, Zenon DEF Same
<1>9. BlocksOK(i)'
  BY <1>1, <1>4, <1>u, Zenon DEF LocalOK, BlocksOK
<1>10. DtimeOK(i)'
  BY <1>1, <1>3, <1>4, <1>6, <1>a, <1>u, Zenon DEF LocalOK, DtimeOK
<1>11. mode = "recover" => Keeps(i)
  BY <1>1, <1>4, <1>a, <1>u DEF LocalOK, TaskOK, Keeps
<1>12. LocalOK(i)'
  BY <1>9, <1>10, Zenon DEF LocalOK
<1> QED
  BY <1>1, <1>5, <1>7, <1>8, <1>11, <1>12, <1>u, StepKeeps, Zenon

\* Steps that leave the list and the inode table alone
InnerStep(i, j, s, m, u) ==
    /\ step[i] \notin {"idle", "persist"} /\ s # "persist" /\ Listed(i)
    /\ Advance(i, j, s)
    /\ mem' = [mem EXCEPT ![i] = m] /\ used' = [used EXCEPT ![i] = u]
    /\ hold' \subseteq Inodes /\ \A k \in Inodes : k # i => (k \in hold' <=> k \in hold)
    /\ suspect' \in BOOLEAN /\ faults' \in Nat
    /\ UNCHANGED <<head, slot, bit, durable, chain, open, mode, todo, lost, requests, crashes>>
    /\ m.links = mem[i].links /\ u = m.blocks
    /\ m.links = 0 \/ m.dtime = mem[i].dtime \/ (mode = "recover" /\ s = "idle")
    /\ s \in {"idle", "drop", "restart", "chunk", "next"} => slot[i].blocks = u

LEMMA InnerKeeps ==
    ASSUME OrphanInv, NEW i \in Inodes, NEW j \in Jobs, NEW s \in Steps, NEW m \in DescType,
           NEW u \in 0 .. MaxBlocks, InnerStep(i, j, s, m, u),
           TaskOK(i)', IdleOK(i)'
    PROVE  OrphanInv'
<1>1. /\ TypeOK /\ Chained /\ LocalOK(i) /\ mode # "mount" /\ i \notin todo /\ bit[i]
      /\ mode = "recover" => ~open[i]
  BY Running, Zenon DEF InnerStep
<1>a. /\ step[i] \notin {"idle", "persist"} /\ s # "persist" /\ Listed(i) /\ Advance(i, j, s)
      /\ \A k \in Inodes : k # i => (k \in hold' <=> k \in hold)
  BY Zenon DEF InnerStep
<1>m. /\ mem' = [mem EXCEPT ![i] = m] /\ used' = [used EXCEPT ![i] = u]
      /\ m.links = mem[i].links /\ u = m.blocks
      /\ m.links = 0 \/ m.dtime = mem[i].dtime \/ (mode = "recover" /\ s = "idle")
      /\ s \in {"idle", "drop", "restart", "chunk", "next"} => slot[i].blocks = u
  BY Zenon DEF InnerStep
<1>u. UNCHANGED <<head, slot, bit, durable, chain, open, mode, todo, lost>>
  BY Zenon DEF InnerStep
<1>2. /\ job' \in [Inodes -> Jobs] /\ step' \in [Inodes -> Steps]
      /\ job'[i] = j /\ step'[i] = s
      /\ \A k \in Inodes : k # i => job'[k] = job[k] /\ step'[k] = step[k]
  BY <1>1, <1>a, Advanced, Zenon
<1>3. TypeOK'
  <2>1. mem' \in [Inodes -> DescType] /\ used' \in [Inodes -> 0 .. MaxBlocks]
    BY <1>1, <1>m, Zenon DEF TypeOK
  <2> QED
    BY <1>1, <1>2, <2>1, Zenon DEF TypeOK, InnerStep
<1>4. /\ mem'[i] = m /\ used'[i] = u
      /\ \A k \in Inodes : k # i => mem'[k] = mem[k] /\ used'[k] = used[k]
  BY <1>1, <1>m, Zenon DEF TypeOK
<1>5. \A k : Listed(k)' <=> Listed(k)
  BY <1>u, SameListed, Zenon
<1>6. Chained'
  <2>1. \A k \in Inodes : step'[k] # "persist" => step[k] # "persist"
    BY <1>2, <1>a, Zenon
  <2> QED
    BY <1>1, <1>u, <2>1, SameChained, Zenon
<1>7. \A k \in Inodes : k # i => Same(k)
  BY <1>2, <1>4, <1>5, <1>a, <1>u, Zenon DEF Same
<1>8. BlocksOK(i)'
  BY <1>1, <1>2, <1>4, <1>a, <1>m, <1>u, Zenon DEF BlocksOK
<1>9. DtimeOK(i)'
  BY <1>1, <1>2, <1>4, <1>5, <1>a, <1>m, <1>u DEF LocalOK, DtimeOK
<1>10. mode = "recover" => Keeps(i)
  BY <1>1, <1>u, Zenon DEF Keeps
<1>11. LocalOK(i)'
  BY <1>8, <1>9, Zenon DEF LocalOK
<1> QED
  BY <1>1, <1>3, <1>6, <1>7, <1>10, <1>11, <1>u, StepKeeps, Zenon
=============================================================================
