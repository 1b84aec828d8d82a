-------------------------- MODULE OrphanListProofs --------------------------
(***************************************************************************)
(* The orphan list is correct for every set of inodes and every bound, as  *)
(* long as no open file is truncated after its unlink.                     *)
(***************************************************************************)
EXTENDS OrphanTaskProofs, FiniteSetTheorems, WellFoundedInduction

-----------------------------------------------------------------------------
(* Commit, crash and mount                                                  *)

\* A set of naturals has a least element: the induction principle of the walk.
LEMMA Least ==
    ASSUME NEW S \in SUBSET Nat, S # {}
    PROVE  \E m \in S : \A k \in S : m <= k
<1> DEFINE R == OpToRel(<, Nat)
<1>1. IsWellFoundedOn(R, Nat)
  BY NatLessThanWellFounded, Zenon
<1>2. \A a, b \in Nat : a < b => <<a, b>> \in R
  BY Zenon DEF OpToRel
<1> HIDE DEF R
<1>3. \E x \in S : \A y \in S : ~ (<<y, x>> \in R)
  BY <1>1, WFMin, Zenon
<1>4. PICK x \in S : \A y \in S : ~ (<<y, x>> \in R)
  BY <1>3, Zenon
<1>5. \A y \in S : ~ (y < x)
  BY <1>2, <1>4, Zenon
<1> QED
  BY <1>5

\* A walk is a sequence of inodes.
LEMMA WalkType ==
    ASSUME NEW d, NEW s \in Walks(d)
    PROVE  /\ s \in Seq(Inodes) /\ Len(s) \in Nat
           /\ s \in [1 .. Len(s) -> Inodes]
           /\ Walked(d, s)
<1>1. PICK n \in 0 .. Cardinality(Inodes) : s \in [1 .. n -> Inodes]
  BY Zenon DEF Walks
<1>2. Cardinality(Inodes) \in Nat
  BY OrphanAssumption, FS_CardinalityType, Zenon
<1>3. n \in Nat
  BY <1>1, <1>2
<1>4. s \in Seq(Inodes) /\ Len(s) = n
  BY <1>1, <1>3
<1> QED
  BY <1>1, <1>3, <1>4, Zenon DEF Walks

\* Two walks agree as far as both go: their pointers are those of the same inodes.
LEMMA WalksAgree ==
    ASSUME NEW d, NEW s \in Walks(d), NEW t \in Walks(d),
           NEW k \in 1 .. Len(s), k <= Len(t)
    PROVE  s[k] = t[k]
<1> DEFINE Bad == {n \in Nat : n \in 1 .. Len(s) /\ n \in 1 .. Len(t) /\ s[n] # t[n]}
<1>1. SUFFICES ASSUME Bad # {}
               PROVE  FALSE
  <2>1. Len(s) \in Nat /\ Len(t) \in Nat
    BY WalkType, Zenon
  <2> QED
    BY <1>1, <2>1
<1>2. PICK m \in Bad : \A n \in Bad : m <= n
  <2>1. Bad \in SUBSET Nat
    OBVIOUS
  <2> HIDE DEF Bad
  <2> QED
    BY <1>1, <2>1, Least, Zenon
<1>3. m \in 1 .. Len(s) /\ m \in 1 .. Len(t) /\ s[m] # t[m] /\ m \in Nat
  BY <1>2, Zenon
<1>4. Len(s) \in Nat /\ Len(t) \in Nat /\ Walked(d, s) /\ Walked(d, t)
  BY WalkType, Zenon
<1>5. m # 1 => s[m - 1] = t[m - 1]
  BY <1>2, <1>3, <1>4
<1>6. Pointer(d, s, m) = Pointer(d, t, m)
  BY <1>5, Zenon DEF Pointer
<1> QED
  BY <1>3, <1>4, <1>6, Zenon DEF Walked

\* No walk stops where a longer one goes on.
LEMMA WalkNotShorter ==
    ASSUME NEW d, NEW s \in Walks(d), NEW t \in Walks(d), Len(s) < Len(t)
    PROVE  FALSE
<1> DEFINE n == Len(s)
<1>1. /\ n \in Nat /\ Len(t) \in Nat /\ Walked(d, s) /\ Walked(d, t)
      /\ t \in [1 .. Len(t) -> Inodes] /\ s \in [1 .. n -> Inodes]
  BY WalkType, Zenon
<1>2. n + 1 \in 1 .. Len(t) /\ t[n + 1] \in Inodes
  BY <1>1
<1>3. n # 0 => s[n] = t[n]
  BY <1>1, WalksAgree
<1>4. After(d, s) = Pointer(d, t, n + 1)
  BY <1>1, <1>3 DEF After, Pointer
<1>5. After(d, s) = t[n + 1] /\ d.bit[t[n + 1]]
  BY <1>1, <1>2, <1>4, Zenon DEF Walked
<1>6. t[n + 1] \in Members(s)
  BY <1>1, <1>2, <1>5, Zenon DEF Walked
<1>7. PICK k \in 1 .. n : s[k] = t[n + 1]
  BY <1>1, <1>6, Zenon DEF Members
<1>8. t[k] = t[n + 1] /\ k \in 1 .. Len(t)
  BY <1>1, <1>7, WalksAgree
<1>9. k = n + 1
  BY <1>1, <1>2, <1>8, Zenon DEF Walked
<1> QED
  BY <1>1, <1>7, <1>9

\* walk_orphan_chain has one outcome.
LEMMA WalkUnique ==
    ASSUME NEW d, NEW s \in Walks(d), NEW t \in Walks(d)
    PROVE  s = t
<1>1. /\ Len(s) \in Nat /\ Len(t) \in Nat
      /\ t \in [1 .. Len(t) -> Inodes] /\ s \in [1 .. Len(s) -> Inodes]
  BY WalkType, Zenon
<1>2. Len(s) = Len(t)
  <2>1. ~(Len(s) < Len(t))
    BY WalkNotShorter, Zenon
  <2>2. ~(Len(t) < Len(s))
    BY WalkNotShorter, Zenon
  <2>3. \A a, b \in Nat : ~(a < b) /\ ~(b < a) => a = b
    OBVIOUS
  <2> QED
    BY <1>1, <2>1, <2>2, <2>3, Zenon
<1>3. \A k \in 1 .. Len(s) : s[k] = t[k]
  BY <1>1, <1>2, WalksAgree
<1> QED
  BY <1>1, <1>2, <1>3

\* What a mount finds are the members of its walk.
LEMMA FoundWalk ==
    ASSUME NEW d, NEW s \in Walks(d)
    PROVE  Found(d) = Members(s)
<1>1. \A t \in Walks(d) : t = s
  BY WalkUnique, Zenon
<1> QED
  BY <1>1, Zenon DEF Found

-----------------------------------------------------------------------------
(* The list in memory and the walk                                          *)

\* When no pointer is still to be written, the captured list is the mirror.
LEMMA ChainWalk ==
    ASSUME TypeOK, Chained, \A j \in Inodes : step[j] # "persist"
    PROVE  /\ chain \in Walks(Metadata) /\ Walked(Metadata, chain)
           /\ After(Metadata, chain) = None
<1> DEFINE n == Len(chain)
<1>1. /\ chain \in Seq(Inodes) /\ n \in Nat /\ None \notin Inodes /\ IsFiniteSet(Inodes)
      /\ chain \in [1 .. n -> Inodes]
  BY OrphanAssumption DEF TypeOK
<1>2. \A j, k \in 1 .. n : chain[j] = chain[k] => j = k
  BY Zenon DEF Chained
<1>3. \A k \in 1 .. n : bit[chain[k]] /\ chain[k] \in Inodes
  BY <1>1, Zenon DEF Chained
<1>4. \A k \in 1 .. n : slot[chain[k]].dtime = IF k < n THEN chain[k + 1] ELSE None
  BY <1>3, Zenon DEF Chained
<1>5. head = IF n = 0 THEN None ELSE chain[1]
  BY Zenon DEF Chained
<1>6. Metadata.head = head /\ Metadata.slot = slot /\ Metadata.bit = bit
  BY DEF Metadata
<1>7. ASSUME NEW k \in 1 .. n
      PROVE  chain[k] = Pointer(Metadata, chain, k)
  <2>1. CASE k = 1
    <3>1. n # 0
      BY <1>1
    <3> QED
      BY <1>5, <1>6, <2>1, <3>1, Zenon DEF Pointer
  <2>2. CASE k # 1
    <3>1. k - 1 \in 1 .. n /\ k - 1 < n /\ (k - 1) + 1 = k
      BY <1>1, <2>2
    <3>2. slot[chain[k - 1]].dtime = chain[k]
      BY <1>4, <3>1, Zenon
    <3> QED
      BY <1>6, <2>2, <3>2, Zenon DEF Pointer
  <2> QED
    BY <2>1, <2>2, Zenon
<1>8. After(Metadata, chain) = None
  <2>1. CASE n = 0
    <3>1. n + 1 = 1
      BY <2>1
    <3> QED
      BY <1>5, <1>6, <2>1, <3>1, Zenon DEF After, Pointer
  <2>2. CASE n # 0
    <3>1. n \in 1 .. n /\ ~(n < n) /\ n + 1 # 1 /\ (n + 1) - 1 = n
      BY <1>1, <2>2
    <3>2. slot[chain[n]].dtime = None
      BY <1>4, <3>1, Zenon
    <3> QED
      BY <1>6, <3>1, <3>2, Zenon DEF After, Pointer
  <2> QED
    BY <2>1, <2>2, Zenon
<1>9. Walked(Metadata, chain)
  BY <1>1, <1>2, <1>3, <1>6, <1>7, <1>8, Zenon DEF Walked
<1>10. n \in 0 .. Cardinality(Inodes)
  <2>1. chain \in Injection(1 .. n, Inodes)
    BY <1>1, <1>2, Zenon DEF Injection, IsInjective
  <2>2. Cardinality(1 .. n) <= Cardinality(Inodes)
    BY <1>1, <2>1, FS_Injection, Zenon
  <2>3. Cardinality(1 .. n) = n
    BY <1>1, FS_Interval
  <2>4. Cardinality(Inodes) \in Nat
    BY <1>1, FS_CardinalityType, Zenon
  <2> QED
    BY <1>1, <2>2, <2>3, <2>4
<1> QED
  BY <1>1, <1>8, <1>9, <1>10, Zenon DEF Walks

\* An inode the walk passes is one of the sequence's members.
LEMMA WalkMembers ==
    ASSUME NEW d, NEW s \in Walks(d), NEW i
    PROVE  i \in Members(s) <=> \E k \in 1 .. Len(s) : s[k] = i
BY WalkType DEF Members

\* A walk from an empty head is empty.
LEMMA EmptyWalk ==
    ASSUME NEW d, NEW s \in Walks(d), d.head = None
    PROVE  Members(s) = {}
<1>1. Len(s) \in Nat /\ s \in [1 .. Len(s) -> Inodes] /\ Walked(d, s) /\ None \notin Inodes
  BY WalkType, OrphanAssumption, Zenon
<1>2. ASSUME 1 \in 1 .. Len(s) PROVE FALSE
  BY <1>1, <1>2, Zenon DEF Walked, Pointer
<1>3. Len(s) = 0
  BY <1>1, <1>2
<1>4. \A k \in 1 .. Len(s) : FALSE
  BY <1>3
<1> QED
  BY <1>4, WalkMembers, Zenon

-----------------------------------------------------------------------------
(* The initial states                                                       *)

LEMMA InitInv ==
    Init => OrphanInv
<1> SUFFICES ASSUME Init
             PROVE  OrphanInv
  OBVIOUS
<1>1. /\ MaxBlocks \in Nat /\ None \notin Inodes /\ IsFiniteSet(Inodes)
      /\ MaxBlocks \in 0 .. MaxBlocks /\ 0 \in 0 .. MaxBlocks /\ ~(MaxBlocks > MaxBlocks)
      /\ ~(0 > 0)
  BY OrphanAssumption
<1>2. /\ Desc(1, MaxBlocks, MaxBlocks, None) \in DescType
      /\ Desc(1, MaxBlocks, MaxBlocks, None).links = 1
      /\ Desc(1, MaxBlocks, MaxBlocks, None).size = MaxBlocks
      /\ Desc(1, MaxBlocks, MaxBlocks, None).blocks = MaxBlocks
      /\ Desc(1, MaxBlocks, MaxBlocks, None).dtime = None
      /\ Desc(0, 0, 0, None) \in DescType /\ Desc(0, 0, 0, None).blocks = 0
  BY <1>1 DEF Desc, DescType
<1>3. ASSUME NEW i \in Inodes
      PROVE  /\ slot[i] \in DescType /\ used[i] = slot[i].blocks /\ mem[i] = slot[i]
             /\ bit[i] => /\ slot[i].links = 1 /\ slot[i].size = MaxBlocks
                          /\ slot[i].blocks = MaxBlocks /\ slot[i].dtime = None
             /\ ~bit[i] => slot[i].blocks = 0
             /\ step[i] = "idle" /\ job[i] = "none" /\ ~open[i] /\ i \notin hold
  BY <1>2, Zenon DEF Init
<1>4. TypeOK
  <2>1. slot \in [Inodes -> DescType] /\ mem \in [Inodes -> DescType]
    <3>1. slot = [i \in Inodes |-> slot[i]]
      BY Zenon DEF Init
    <3> QED
      BY <1>3, <3>1, Zenon DEF Init
  <2>2. used \in [Inodes -> 0 .. MaxBlocks]
    <3>1. used = [i \in Inodes |-> used[i]]
      BY Zenon DEF Init
    <3>2. \A i \in Inodes : used[i] \in 0 .. MaxBlocks
      BY <1>1, <1>3, Zenon
    <3> QED
      BY <3>1, <3>2, Zenon
  <2>3. /\ open \in [Inodes -> BOOLEAN] /\ job \in [Inodes -> Jobs] /\ step \in [Inodes -> Steps]
        /\ bit \in [Inodes -> BOOLEAN] /\ head \in Inodes \cup {None}
    BY DEF Init, Jobs, Steps
  <2>4. durable \in [head: Inodes \cup {None}, slot: [Inodes -> DescType],
                     bit: [Inodes -> BOOLEAN], used: [Inodes -> 0 .. MaxBlocks]]
    BY <2>1, <2>2, <2>3 DEF Init, Metadata
  <2>5. chain \in Seq(Inodes) /\ hold \subseteq Inodes /\ todo \subseteq Inodes
        /\ lost \subseteq Inodes /\ mode \in {"mount", "recover", "run"} /\ suspect \in BOOLEAN
        /\ requests \in Nat /\ crashes \in Nat /\ faults \in Nat
    <3>1. /\ chain = <<>> /\ hold = {} /\ todo = {} /\ lost = {} /\ mode = "run"
          /\ suspect = FALSE /\ requests = 0 /\ crashes = 0 /\ faults = 0
      BY Zenon DEF Init
    <3>2. suspect \in BOOLEAN
      BY <3>1, Zenon
    <3>3. 0 \in Nat /\ chain \in Seq(Inodes)
      BY <3>1
    <3> QED
      BY <3>1, <3>2, <3>3, Zenon
  <2> QED
    BY <2>1, <2>2, <2>3, <2>4, <2>5, Zenon DEF TypeOK
<1>5. Chained /\ ~(\E i : Listed(i))
  <2>1. chain = <<>> /\ head = None
    BY Zenon DEF Init
  <2>2. Len(chain) = 0 /\ DOMAIN chain = {} /\ 1 .. Len(chain) = {}
    BY <2>1
  <2> QED
    BY <2>1, <2>2, Zenon DEF Chained, Listed, Members
<1>6. \A i \in Inodes : LocalOK(i)
  BY <1>1, <1>3
     DEF Init, LocalOK, TaskOK, IdleOK, BlocksOK, DtimeOK, HandleSteps, ListedSteps
<1>7. MountOK
  BY Zenon DEF Init, MountOK
<1>8. chain \in Walks(Metadata) /\ After(Metadata, chain) = None
  BY <1>3, <1>4, <1>5, ChainWalk
<1>9. DurableOK
  <2>1. durable = Metadata /\ durable.bit = bit /\ durable.slot = slot /\ durable.used = used
    BY DEF Init, Metadata
  <2>2. \A i \in Inodes : ~Unfinished(durable, i)
    BY <1>1, <1>3, <2>1 DEF Unfinished
  <2>3. UnfinishedIsListed
    BY <1>8, <2>1, <2>2, Zenon DEF UnfinishedIsListed
  <2>4. BlocksAccounted
    BY <1>3, <2>1, Zenon DEF BlocksAccounted
  <2>5. LiveHasNoDtime
    BY <1>3, <2>1, Zenon DEF LiveHasNoDtime
  <2> QED
    BY <2>3, <2>4, <2>5 DEF DurableOK
<1> QED
  BY <1>4, <1>5, <1>6, <1>7, <1>9 DEF OrphanInv

-----------------------------------------------------------------------------
(* Commit and crash                                                         *)

LEMMA CommitKeeps ==
    ASSUME OrphanInv, Commit
    PROVE  OrphanInv'
<1>1. /\ TypeOK /\ mode # "mount" /\ Chained /\ hold = {} /\ durable' = Metadata
      /\ \A i \in Inodes : LocalOK(i)
  BY Zenon DEF OrphanInv, Commit, MountOK
<1>u. UNCHANGED <<head, slot, bit, used, chain, mem, open, job, step, hold, mode, todo,
                  suspect, lost, requests, crashes, faults>>
  BY DEF Commit, metaVars, taskVars, mountVars, boundVars
<1>2. /\ durable'.bit = bit /\ durable'.slot = slot /\ durable'.used = used
      /\ durable'.head = head
  BY <1>1 DEF Metadata
<1>3. \A i \in Inodes : step[i] \notin HandleSteps
  BY <1>1, Zenon DEF LocalOK, TaskOK
<1>4. \A i \in Inodes : step[i] \in {"idle", "restart", "drop"}
  BY <1>1, <1>3 DEF TypeOK, Steps, HandleSteps
<1>5. chain \in Walks(Metadata) /\ After(Metadata, chain) = None /\ Found(Metadata) = Members(chain)
  BY <1>1, <1>4, ChainWalk, FoundWalk
<1>6. TypeOK'
  <2>1. durable' \in [head: Inodes \cup {None}, slot: [Inodes -> DescType],
                      bit: [Inodes -> BOOLEAN], used: [Inodes -> 0 .. MaxBlocks]]
    BY <1>1 DEF TypeOK, Metadata
  <2> QED
    BY <1>1, <1>u, <2>1 DEF TypeOK
<1>7. Chained' /\ \A i \in Inodes : LocalOK(i)'
  <2>1. Chained'
    BY <1>1, <1>u, Zenon DEF Chained
  <2>2. \A i \in Inodes : Same(i)
    BY <1>u, Zenon DEF Same, Listed
  <2> QED
    BY <1>1, <1>u, <2>1, <2>2, Frame, Zenon
<1>8. MountOK'
  BY <1>1, <1>2, <1>u, Zenon DEF OrphanInv, MountOK, Listed
<1>9. UnfinishedIsListed'
  <2>1. ASSUME NEW i \in Inodes \ lost, Unfinished(Metadata, i)
        PROVE  i \in Members(chain)
    <3>1. /\ bit[i] /\ LocalOK(i) /\ step[i] \in {"idle", "restart", "drop"}
          /\ slot[i].links = 0 \/ slot[i].blocks > slot[i].size
      BY <1>1, <1>2, <1>4, <2>1, Zenon DEF Unfinished
    <3> QED
      BY <1>1, <2>1, <3>1, Zenon DEF LocalOK, TaskOK, IdleOK, ListedSteps, Listed
  <2> QED
    BY <1>1, <1>5, <1>u, <2>1, Zenon DEF UnfinishedIsListed
<1>10. BlocksAccounted'
  BY <1>1, <1>2, <1>4, Zenon DEF BlocksAccounted, LocalOK, BlocksOK
<1>11. LiveHasNoDtime'
  BY <1>1, <1>2, <1>5, <1>u, Zenon DEF LiveHasNoDtime, LocalOK, DtimeOK, Listed
<1> QED
  BY <1>6, <1>7, <1>8, <1>9, <1>10, <1>11, Zenon DEF OrphanInv, DurableOK

LEMMA CrashKeeps ==
    ASSUME OrphanInv, Crash
    PROVE  OrphanInv'
<1>1. /\ head' = durable.head /\ slot' = durable.slot /\ bit' = durable.bit
      /\ used' = durable.used /\ mem' = durable.slot /\ durable' = durable
      /\ chain' = <<>> /\ todo' = {} /\ hold' = {} /\ mode' = "mount"
      /\ lost' = lost \ Found(durable)
  BY Zenon DEF Crash
<1>2. \A i \in Inodes : ~open'[i] /\ step'[i] = "idle" /\ job'[i] = "none"
  BY DEF Crash
<1>3. TypeOK /\ DurableOK
  BY DEF OrphanInv
<1>4. /\ durable.head \in Inodes \cup {None} /\ durable.slot \in [Inodes -> DescType]
      /\ durable.bit \in [Inodes -> BOOLEAN] /\ durable.used \in [Inodes -> 0 .. MaxBlocks]
  BY <1>3 DEF TypeOK
<1>5. TypeOK'
  <2>1. /\ open' \in [Inodes -> BOOLEAN] /\ job' \in [Inodes -> Jobs]
        /\ step' \in [Inodes -> Steps]
    <3>1. /\ open' = [i \in Inodes |-> FALSE] /\ job' = [i \in Inodes |-> "none"]
          /\ step' = [i \in Inodes |-> "idle"]
      BY Zenon DEF Crash
    <3> QED
      BY <3>1 DEF Jobs, Steps
  <2>2. suspect' \in BOOLEAN /\ requests' \in Nat /\ crashes' \in Nat /\ faults' \in Nat
    <3>1. /\ suspect' = FALSE /\ requests' = requests /\ crashes' = crashes + 1
          /\ faults' = faults
      BY Zenon DEF Crash
    <3>2. suspect' \in BOOLEAN
      BY <3>1, Zenon
    <3>3. requests \in Nat /\ crashes + 1 \in Nat /\ faults \in Nat
      BY <1>3 DEF TypeOK
    <3> QED
      BY <3>1, <3>2, <3>3, Zenon
  <2>3. chain' \in Seq(Inodes) /\ lost' \subseteq Inodes
    BY <1>1, <1>3 DEF TypeOK
  <2> QED
    BY <1>1, <1>3, <1>4, <2>1, <2>2, <2>3 DEF TypeOK
<1>6. \A i \in Inodes : LocalOK(i)'
  <2> SUFFICES ASSUME NEW i \in Inodes
               PROVE  LocalOK(i)'
    OBVIOUS
  <2>1. TaskOK(i)' /\ IdleOK(i)' /\ DtimeOK(i)'
    BY <1>1, <1>2 DEF TaskOK, IdleOK, DtimeOK, HandleSteps, ListedSteps
  <2>2. BlocksOK(i)'
    BY <1>1, <1>3, Zenon DEF BlocksOK, DurableOK, BlocksAccounted
  <2> QED
    BY <2>1, <2>2 DEF LocalOK
<1>7. MountOK'
  <2>1. Metadata' = durable'
    BY <1>1, <1>3 DEF TypeOK, Metadata
  <2> QED
    BY <1>1, <1>2, <2>1, Zenon DEF MountOK
<1>8. DurableOK'
  <2>1. PICK s \in Walks(durable) :
          /\ After(durable, s) = None
          /\ \A i \in Inodes \ lost : Unfinished(durable, i) => i \in Members(s)
    BY <1>3, Zenon DEF DurableOK, UnfinishedIsListed
  <2>2. Found(durable) = Members(s)
    BY FoundWalk, Zenon
  <2>3. \A i \in Inodes \ lost' : Unfinished(durable, i) => i \in Members(s)
    BY <1>1, <2>1, <2>2, Zenon
  <2>4. UnfinishedIsListed'
    BY <1>1, <2>1, <2>3, Zenon DEF UnfinishedIsListed
  <2>5. BlocksAccounted' /\ LiveHasNoDtime'
    BY <1>1, <1>3, Zenon DEF DurableOK, BlocksAccounted, LiveHasNoDtime
  <2> QED
    BY <2>4, <2>5 DEF DurableOK
<1> QED
  BY <1>1, <1>5, <1>6, <1>7, <1>8 DEF OrphanInv

-----------------------------------------------------------------------------
(* The scan at mount                                                        *)

\* What the walk at mount found is a chain.
LEMMA WalkChained ==
    ASSUME NEW s \in Walks(Metadata), After(Metadata, s) = None, chain' = s,
           UNCHANGED <<head, slot, bit>>
    PROVE  Chained'
<1>1. Len(s) \in Nat /\ Walked(Metadata, s)
  BY WalkType, Zenon
<1>2. Metadata.head = head /\ Metadata.slot = slot /\ Metadata.bit = bit
  BY DEF Metadata
<1>3. head = IF Len(s) = 0 THEN None ELSE s[1]
  <2>1. CASE Len(s) = 0
    <3>1. Len(s) + 1 = 1
      BY <2>1
    <3> QED
      BY <1>2, <2>1, <3>1, Zenon DEF After, Pointer
  <2>2. CASE Len(s) # 0
    <3>1. 1 \in 1 .. Len(s)
      BY <1>1, <2>2
    <3> QED
      BY <1>1, <1>2, <2>2, <3>1, Zenon DEF Walked, Pointer
  <2> QED
    BY <2>1, <2>2, Zenon
<1>4. ASSUME NEW k \in 1 .. Len(s)
      PROVE  slot[s[k]].dtime = IF k < Len(s) THEN s[k + 1] ELSE None
  <2>1. k + 1 # 1 /\ (k + 1) - 1 = k
    BY <1>1
  <2>2. Pointer(Metadata, s, k + 1) = slot[s[k]].dtime
    BY <1>2, <2>1, Zenon DEF Pointer
  <2>3. CASE k < Len(s)
    <3>1. k + 1 \in 1 .. Len(s)
      BY <1>1, <2>3
    <3> QED
      BY <1>1, <2>2, <2>3, <3>1, Zenon DEF Walked
  <2>4. CASE ~(k < Len(s))
    <3>1. k = Len(s)
      BY <1>1, <2>4
    <3> QED
      BY <2>2, <2>4, <3>1, Zenon DEF After
  <2> QED
    BY <2>3, <2>4, Zenon
<1>5. \A k \in 1 .. Len(s) : bit[s[k]]
  BY <1>1, <1>2, Zenon DEF Walked
<1>6. \A j, k \in 1 .. Len(s) : s[j] = s[k] => j = k
  BY <1>1, Zenon DEF Walked
<1> QED
  BY <1>3, <1>4, <1>5, <1>6, Zenon DEF Chained

LEMMA ScanKeeps ==
    ASSUME OrphanInv, Scan
    PROVE  OrphanInv'
<1>1. /\ TypeOK /\ mode = "mount" /\ Metadata = durable /\ mem = slot /\ chain = <<>>
      /\ todo = {} /\ DurableOK
      /\ \A i \in Inodes : LocalOK(i) /\ step[i] = "idle" /\ ~open[i]
  BY Zenon DEF OrphanInv, MountOK, Scan
<1>u. UNCHANGED <<head, slot, bit, used, durable, mem, open, job, step, hold, lost, requests,
                  crashes, faults>>
  BY DEF Scan, metaVars, taskVars, boundVars
<1>2. durable.head = head /\ durable.slot = slot /\ durable.bit = bit
  BY <1>1 DEF Metadata
<1>3. PICK s \in Walks(durable) :
        /\ After(durable, s) = None
        /\ \A i \in Inodes \ lost : Unfinished(durable, i) => i \in Members(s)
  BY <1>1, Zenon DEF DurableOK, UnfinishedIsListed
<1>4. Found(durable) = Members(s) /\ s \in Seq(Inodes)
  BY FoundWalk, WalkType, Zenon
<1>5. /\ chain' = s
      /\ \/ mode' = "run" /\ todo' = {} /\ suspect' = suspect /\ Members(s) = {}
         \/ mode' = "recover" /\ todo' = Members(s) /\ suspect' = (After(durable, s) # None)
  <2>1. CASE head = None
    <3>1. Members(s) = {}
      BY <1>2, <2>1, EmptyWalk, Zenon
    <3>2. s = <<>>
      <4>1. Len(s) = 0
        BY <1>4, <3>1 DEF Members
      <4> QED
        BY <1>4, <4>1
    <3>3. mode' = "run" /\ UNCHANGED <<chain, todo, suspect>>
      BY <2>1, Zenon DEF Scan
    <3> QED
      BY <1>1, <3>1, <3>2, <3>3, Zenon
  <2>2. CASE head # None
    <3>1. PICK t \in Walks(Metadata) :
            /\ mode' = "recover" /\ chain' = t /\ todo' = Members(t)
            /\ suspect' = (After(Metadata, t) # None)
      BY <2>2, Zenon DEF Scan
    <3>2. t = s
      BY <1>1, <3>1, WalkUnique, Zenon
    <3> QED
      BY <1>1, <3>1, <3>2, Zenon
  <2> QED
    BY <2>1, <2>2, Zenon
<1>6. \A i : Listed(i)' <=> i \in Members(s)
  BY <1>5, Zenon DEF Listed
<1>7. Members(s) \subseteq Inodes
  BY <1>4 DEF Members
<1>8. TypeOK'
  <2>1. suspect' \in BOOLEAN
    BY <1>1, <1>5, Zenon DEF TypeOK
  <2>2. mode' \in {"mount", "recover", "run"} /\ todo' \subseteq Inodes /\ chain' \in Seq(Inodes)
    BY <1>4, <1>5, <1>7, Zenon
  <2> QED
    BY <1>1, <1>u, <2>1, <2>2, Zenon DEF TypeOK
<1>9. Chained'
  BY <1>1, <1>3, <1>5, <1>u, WalkChained, Zenon
<1>10. \A i \in Inodes : LocalOK(i)'
  <2> SUFFICES ASSUME NEW i \in Inodes
               PROVE  LocalOK(i)'
    BY Zenon
  <2>1. /\ step'[i] = "idle" /\ ~open'[i] /\ mem'[i] = slot'[i] /\ slot'[i] = slot[i]
        /\ bit'[i] = bit[i] /\ used'[i] = used[i] /\ mem[i] = slot[i] /\ step[i] = "idle"
        /\ LocalOK(i)
    BY <1>1, <1>u, Zenon
  <2>2. TaskOK(i)'
    BY <1>u, <2>1 DEF LocalOK, TaskOK, HandleSteps, ListedSteps
  <2>3. IdleOK(i)'
    BY <1>2, <1>3, <1>6, <1>u, <2>1, Zenon DEF IdleOK, Unfinished
  <2>4. BlocksOK(i)'
    BY <1>u, <2>1, Zenon DEF LocalOK, BlocksOK
  <2>5. DtimeOK(i)'
    <3>1. slot[i].links = 1 /\ bit[i] /\ i \notin lost /\ i \notin Members(s) =>
            slot[i].dtime = None
      BY <1>1, <1>2, <1>4, Zenon DEF DurableOK, LiveHasNoDtime
    <3> QED
      BY <1>5, <1>6, <1>u, <2>1, <3>1, Zenon DEF DtimeOK
  <2> QED
    BY <2>2, <2>3, <2>4, <2>5 DEF LocalOK
<1>11. MountOK'
  <2>1. \A i \in todo' : Listed(i)' /\ step'[i] = "idle"
    BY <1>1, <1>5, <1>6, <1>7, <1>u, Zenon
  <2>2. \A i \in Inodes : ~open'[i]
    BY <1>1, <1>u, Zenon
  <2>3. mode' # "mount" /\ (mode' # "recover" => todo' = {})
    BY <1>5
  <2> QED
    BY <1>2, <1>u, <2>1, <2>2, <2>3, Zenon DEF MountOK
<1>12. DurableOK'
  BY <1>1, <1>u, SameDurable, Zenon
<1> QED
  BY <1>8, <1>9, <1>10, <1>11, <1>12 DEF OrphanInv

-----------------------------------------------------------------------------
(* The whole                                                                *)

LEMMA RequestKeeps ==
    ASSUME Unlinked = FALSE, OrphanInv, NEW i \in Inodes, Request(i)
    PROVE  OrphanInv'
<1>1. requests' \in Nat
  <2>1. requests \in Nat /\ requests' = requests + 1
    BY Zenon DEF OrphanInv, TypeOK, Request
  <2> QED
    BY <2>1
<1>2. \/ Create(i) \/ Open(i) \/ Close(i) \/ Unlink(i)
      \/ \E n \in 0 .. MaxBlocks : Write(i, n) \/ Shrink(i, n) \/ Truncate(i, n)
  BY Zenon DEF Request
<1> QED
  BY <1>1, <1>2, CreateKeeps, OpenKeeps, CloseKeeps, UnlinkKeeps, WriteKeeps, ShrinkKeeps,
     TruncateKeeps, Zenon

LEMMA ContinueKeeps ==
    ASSUME OrphanInv, NEW i \in Inodes, Continue(i)
    PROVE  OrphanInv'
BY PersistKeeps, ReclaimKeeps, ChunkKeeps, FrontierKeeps, RestartKeeps, UnlistKeeps, FinalKeeps,
   FreeInodeKeeps, Zenon DEF Continue

LEMMA StutterKeeps ==
    ASSUME OrphanInv, UNCHANGED vars
    PROVE  OrphanInv'
<1>u. UNCHANGED <<head, slot, bit, used, durable, chain, mem, open, job, step, hold, mode, todo,
                  suspect, lost, requests, crashes, faults>>
  BY Zenon DEF vars, metaVars, taskVars, mountVars, boundVars
<1>1. TypeOK' /\ (mode' # "mount" => Chained')
  BY <1>u, Zenon DEF OrphanInv, TypeOK, Chained
<1>2. \A i \in Inodes : Same(i)
  BY <1>u, Zenon DEF Same, Listed
<1>3. \A i \in Inodes : LocalOK(i)'
  BY <1>2, <1>u, Frame, Zenon DEF OrphanInv
<1>4. MountOK'
  BY <1>u, Zenon DEF OrphanInv, MountOK, Metadata, Listed
<1>5. DurableOK'
  BY <1>u, SameDurable, Zenon DEF OrphanInv
<1> QED
  BY <1>1, <1>3, <1>4, <1>5, Zenon DEF OrphanInv

LEMMA NextKeeps ==
    ASSUME Unlinked = FALSE, OrphanInv, [Next]_vars
    PROVE  OrphanInv'
<1>1. CASE Next
  BY <1>1, RequestKeeps, ContinueKeeps, ChunkFailsKeeps, ScanKeeps, RecoverNextKeeps,
     RecoverEndKeepsInv, CommitKeeps, CrashKeeps, Zenon DEF Next, Mount
<1>2. CASE UNCHANGED vars
  BY <1>2, StutterKeeps, Zenon
<1> QED
  BY <1>1, <1>2, Zenon

\* The inductive invariant, with it the types of the state, holds in every run
\* of the filesystem in which no open file is truncated after its unlink.
THEOREM OrphanInvariant ==
    ASSUME Unlinked = FALSE
    PROVE  Spec => []OrphanInv
<1>1. Init => OrphanInv
  BY InitInv
<1>2. OrphanInv /\ [Next]_vars => OrphanInv'
  BY NextKeeps, Zenon
<1> QED
  BY <1>1, <1>2, PTL DEF Spec

\* After every commit a mount finds on the list every inode whose deletion or
\* truncation is not finished (unlink, shrink_restartable, orphan_add and
\* orphan_del): for any number of inodes, operations, crashes and failures.
THEOREM ListIsComplete ==
    ASSUME Unlinked = FALSE
    PROVE  Spec => []UnfinishedIsListed
<1>1. OrphanInv => UnfinishedIsListed
  BY Zenon DEF OrphanInv, DurableOK
<1> QED
  BY <1>1, OrphanInvariant, PTL

\* Every inode's share of the durable block bitmap is what its durable extent
\* tree maps (truncate_chunk and the write-back of the frontier).
THEOREM NoBlockLeaks ==
    ASSUME Unlinked = FALSE
    PROVE  Spec => []BlocksAccounted
<1>1. OrphanInv => BlocksAccounted
  BY Zenon DEF OrphanInv, DurableOK
<1> QED
  BY <1>1, OrphanInvariant, PTL

\* No pointer of the list outlives the truncation it served
\* (shrink_restartable, retruncate_to).
THEOREM NoStalePointer ==
    ASSUME Unlinked = FALSE
    PROVE  Spec => []LiveHasNoDtime
<1>1. OrphanInv => LiveHasNoDtime
  BY Zenon DEF OrphanInv, DurableOK
<1> QED
  BY <1>1, OrphanInvariant, PTL

\* Whenever no handle is open, the captured list is the mirror in memory
\* (OrphanChain, write_back_inode_desc).
THEOREM MirrorIsList ==
    ASSUME Unlinked = FALSE
    PROVE  Spec => []MirrorAgrees
<1>1. OrphanInv => MirrorAgrees
  <2> SUFFICES ASSUME OrphanInv, mode # "mount", hold = {}
               PROVE  Walked(Metadata, chain) /\ After(Metadata, chain) = None
    BY Zenon DEF MirrorAgrees
  <2>1. TypeOK /\ Chained /\ \A i \in Inodes : TaskOK(i)
    BY Zenon DEF OrphanInv, LocalOK
  <2>2. "persist" \in HandleSteps
    BY DEF HandleSteps
  <2>3. \A i \in Inodes : step[i] # "persist"
    BY <2>1, <2>2, Zenon DEF TaskOK
  <2> QED
    BY <2>1, <2>3, ChainWalk, Zenon
<1> QED
  BY <1>1, OrphanInvariant, PTL

-----------------------------------------------------------------------------
(* What a recovery may do                                                   *)

\* A write-back of an operation on a live inode keeps its link and its size.
LEMMA WriteBackKeepsFiles ==
    ASSUME OrphanInv, NEW i \in Inodes, step[i] \notin {"idle", "persist"},
           WriteBack(i, mem[i]), UNCHANGED bit
    PROVE  FilesKept
<1>1. TypeOK /\ LocalOK(i)
  BY Zenon DEF OrphanInv
<1>2. /\ \A j \in Inodes : j # i => slot'[j] = slot[j]
      /\ slot'[i].links = mem[i].links /\ slot'[i].size = mem[i].size
  <2>1. mem[i] \in DescType
    BY <1>1, Typed, Zenon
  <2> QED
    BY <1>1, <2>1, WrittenBack, Zenon
<1>3. slot[i].links = 1 => mem[i].links = 1 /\ mem[i].size = slot[i].size
  BY <1>1 DEF LocalOK, TaskOK
<1> QED
  BY <1>2, <1>3, Zenon DEF FilesKept

LEMMA NextKeepsFiles ==
    ASSUME OrphanInv, Next, mode # "run"
    PROVE  FilesKept
<1>1. ASSUME UNCHANGED <<slot, bit>> PROVE FilesKept
  BY <1>1, Zenon DEF FilesKept
<1>2. ASSUME NEW i \in Inodes, Request(i) PROVE FALSE
  BY <1>2, Zenon DEF Request, Create, Open, Close, Unlink, Write, Shrink, Truncate, Reachable
<1>3. ASSUME NEW i \in Inodes, Continue(i) PROVE FilesKept
  <2>1. CASE Persist(i)
    <3>1. step[i] = "persist" /\ LocalOK(i)
      BY <2>1, Zenon DEF Persist, OrphanInv
    <3> QED
      BY <3>1, Zenon DEF LocalOK, TaskOK
  <2>2. CASE Reclaim(i) \/ Restart(i) \/ \E k \in 0 .. MaxBlocks : Chunk(i, k)
    BY <1>1, <2>2, Zenon DEF Reclaim, Restart, Chunk, metaVars
  <2>3. CASE Frontier(i) \/ Final(i)
    <3>1. step[i] \notin {"idle", "persist"}
      BY <2>3 DEF Frontier, Final
    <3>2. WriteBack(i, mem[i]) /\ UNCHANGED bit
      BY <2>3, Zenon DEF Frontier, Final
    <3> QED
      BY <3>1, <3>2, WriteBackKeepsFiles, Zenon
  <2>4. CASE Unlist(i)
    <3>1. step[i] = "unlist" /\ OrphanDel(i) /\ Advance(i, job[i], "final") /\ UNCHANGED bit
      BY <2>4, Zenon DEF Unlist
    <3>2. TypeOK /\ Chained /\ LocalOK(i)
      BY <3>1, Running
    <3>3. Listed(i)
      BY <3>1, <3>2 DEF LocalOK, TaskOK, ListedSteps
    <3>4. \A j \in Inodes : j # i => step'[j] = step[j]
      BY <3>1, <3>2, Zenon DEF TypeOK, Advance
    <3>5. \A j \in Inodes : slot'[j].links = slot[j].links /\ slot'[j].size = slot[j].size
      BY <3>1, <3>2, <3>3, <3>4, DelChained, Zenon
    <3> QED
      BY <3>1, <3>5, Zenon DEF FilesKept
  <2>5. CASE FreeInode(i)
    <3>1. step[i] = "free" /\ bit' = [bit EXCEPT ![i] = FALSE] /\ UNCHANGED slot
      BY <2>5, Zenon DEF FreeInode
    <3>2. TypeOK /\ LocalOK(i)
      BY Zenon DEF OrphanInv
    <3>3. slot[i].links = 0
      BY <3>1, <3>2 DEF LocalOK, TaskOK
    <3>4. \A j \in Inodes : j # i => bit'[j] = bit[j]
      BY <3>1, <3>2, Zenon DEF TypeOK
    <3>5. 0 # 1
      OBVIOUS
    <3> QED
      BY <3>1, <3>3, <3>4, <3>5, Zenon DEF FilesKept
  <2> QED
    BY <1>3, <2>1, <2>2, <2>3, <2>4, <2>5, Zenon DEF Continue
<1>4. ASSUME NEW i \in Inodes, ChunkFails(i) \/ RecoverNext(i) PROVE FilesKept
  BY <1>1, <1>4, Zenon DEF ChunkFails, RecoverNext, metaVars
<1>5. ASSUME Scan \/ RecoverEnd \/ Commit PROVE FilesKept
  BY <1>1, <1>5, Zenon DEF Scan, RecoverEnd, Commit, metaVars
<1>6. ASSUME Crash PROVE FilesKept
  <2>1. slot' = durable.slot /\ bit' = durable.bit
    BY <1>6, Zenon DEF Crash
  <2>2. \A i \in Inodes : bit[i] /\ slot[i].links = 1 =>
          /\ durable.bit[i] /\ durable.slot[i].links = 1
          /\ durable.slot[i].size = slot[i].size
    BY Zenon DEF OrphanInv, MountOK
  <2> QED
    BY <2>1, <2>2, Zenon DEF FilesKept
<1> QED
  BY <1>2, <1>3, <1>4, <1>5, <1>6, Zenon DEF Next, Mount

\* No step before the end of a mount, a crash included, takes a file that has a
\* name, nor its size (recover_orphan_list, reclaim_scanned_orphan,
\* retruncate_scanned_orphan).
THEOREM MountKeepsFiles ==
    ASSUME Unlinked = FALSE
    PROVE  Spec => RecoveryKeepsFiles
<1>1. OrphanInv /\ [Next]_vars => [mode # "run" => FilesKept]_vars
  BY NextKeepsFiles, Zenon
<1> QED
  BY <1>1, OrphanInvariant, PTL DEF Spec, RecoveryKeepsFiles

LEMMA NextFinishes ==
    ASSUME Unlinked = FALSE, OrphanInv, Next, mode # "run", mode' = "run"
    PROVE  NothingUnfinished
<1>1. OrphanInv'
  BY NextKeeps, Zenon
<1>2. Scan \/ RecoverEnd
  <2>1. ASSUME mode' = mode PROVE FALSE
    BY <2>1, Zenon
  <2>2. ASSUME NEW i \in Inodes, Request(i) PROVE FALSE
    BY <2>2, Zenon DEF Request, Create, Open, Close, Unlink, Write, Shrink, Truncate, Reachable
  <2>3. ASSUME NEW i \in Inodes, Continue(i) PROVE FALSE
    BY <2>1, <2>3, Zenon DEF Continue, Persist, Reclaim, Chunk, Frontier, Restart, Unlist, Final,
                             FreeInode, mountVars
  <2>4. ASSUME NEW i \in Inodes, ChunkFails(i) \/ RecoverNext(i) PROVE FALSE
    BY <2>1, <2>4, Zenon DEF ChunkFails, RecoverNext
  <2>5. ASSUME Commit PROVE FALSE
    BY <2>1, <2>5, Zenon DEF Commit, mountVars
  <2>6. ASSUME Crash PROVE FALSE
    <3>1. mode' = "mount"
      BY <2>6, Zenon DEF Crash
    <3> QED
      BY <3>1
  <2> QED
    BY <2>2, <2>3, <2>4, <2>5, <2>6, Zenon DEF Next, Mount
<1>3. head' = None /\ \A i \in Inodes : step'[i] = "idle"
  <2>1. CASE Scan
    <3>1. mode = "mount" /\ step' = step /\ head' = head
      BY <2>1, Zenon DEF Scan, taskVars, metaVars
    <3>2. head = None
      <4>1. head # None => mode' = "recover"
        BY <2>1, Zenon DEF Scan
      <4> QED
        BY <4>1
    <3> QED
      BY <3>1, <3>2, Zenon DEF OrphanInv, MountOK
  <2>2. CASE RecoverEnd
    BY <2>2, Zenon DEF RecoverEnd, taskVars
  <2> QED
    BY <1>2, <2>1, <2>2, Zenon
<1>4. chain' = <<>> /\ \A i : ~Listed(i)'
  <2>1. chain' \in Seq(Inodes) /\ None \notin Inodes
    BY <1>1, OrphanAssumption, Zenon DEF OrphanInv, TypeOK
  <2>2. Len(chain') # 0 => chain'[1] \in Inodes
    BY <2>1
  <2>3. mode' # "mount"
    OBVIOUS
  <2>4. Len(chain') = 0
    BY <1>1, <1>3, <2>1, <2>2, <2>3, Zenon DEF OrphanInv, Chained
  <2>5. chain' = <<>> /\ DOMAIN chain' = {}
    BY <2>1, <2>4
  <2> QED
    BY <2>5, Zenon DEF Listed, Members
<1>5. ASSUME NEW i \in Inodes \ lost', bit'[i]
      PROVE  slot'[i].links = 1 /\ slot'[i].blocks <= slot'[i].size
  <2>1. /\ slot'[i].links \in {0, 1} /\ slot'[i].blocks \in Nat /\ slot'[i].size \in Nat
    <3>1. slot'[i] \in DescType
      BY <1>1, Zenon DEF OrphanInv, TypeOK
    <3> QED
      BY <3>1, DescFields
  <2>2. mode' # "mount"
    OBVIOUS
  <2>3. ~(slot'[i].links = 0 \/ slot'[i].blocks > slot'[i].size)
    BY <1>1, <1>3, <1>4, <1>5, <2>2, Zenon DEF OrphanInv, LocalOK, IdleOK
  <2> QED
    BY <2>1, <2>3
<1> QED
  BY <1>3, <1>4, <1>5, Zenon DEF NothingUnfinished

\* When a mount is over, the list is empty and nothing is left to finish but
\* what was given up, however often a recovery was itself cut short
\* (recover_orphan_list).
THEOREM MountFinishes ==
    ASSUME Unlinked = FALSE
    PROVE  Spec => RecoveryFinishes
<1>1. OrphanInv /\ [Next]_vars => [mode # "run" /\ mode' = "run" => NothingUnfinished]_vars
  BY NextFinishes, Zenon
<1> QED
  BY <1>1, OrphanInvariant, PTL DEF Spec, RecoveryFinishes
=============================================================================
