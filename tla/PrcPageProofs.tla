---------------------------- MODULE PrcPageProofs ----------------------------
(***************************************************************************)
(* Proofs about PrcPage, for any number of pages, blocks and nodes and     *)
(* whatever the compressor makes of a page: who owns the delta nodes while *)
(* lists move from page to page, what a page's size counts, what a call    *)
(* answers, and that the pages are a store of what the calls wrote.        *)
(***************************************************************************)
EXTENDS PrcPage, Iteration, SequenceTheorems

(* Nodes, with any contents in F.                                          *)
Nodes(F) == [slot : Nat, id : Blocks, flips : F]

(* Ownership as an inductive invariant: only pages have lists, the slots   *)
(* in use are those of the nodes, and no two nodes share one.              *)
MemoryInv ==
    /\ \E F : deltas \in [Pages -> Seq(Nodes(F))]
    /\ status \in [Pages -> {"raw", "live", "moved", "torn"}]
    /\ pool \in SUBSET Nat /\ IsFiniteSet(pool)
    /\ \A p \in Pages : p \notin Live => deltas[p] = <<>>
    /\ pool = UNION {SlotsOf(deltas[p]) : p \in Pages}
    /\ \A p, q \in Pages : \A j \in DOMAIN deltas[p], k \in DOMAIN deltas[q] :
           deltas[p][j].slot = deltas[q][k].slot => p = q /\ j = k
    /\ OneDeltaPerBlock

-----------------------------------------------------------------------------
(* Lists *)

(* The slots of a list without nodes.                                      *)
LEMMA NoSlots == SlotsOf(<<>>) = {}
BY DEF SlotsOf

(* The pool always has a free slot among its first Cardinality + 1, and    *)
(* debug_malloc finds one.                                                 *)
LEMMA FreshSlotIsFree ==
  ASSUME NEW used \in SUBSET Nat, IsFiniteSet(used)
  PROVE  FreshSlot(used) \in Nat /\ FreshSlot(used) \notin used
<1> DEFINE c == Cardinality(used)
           S == 0..c \ used
<1>1. c \in Nat
  BY FS_CardinalityType
<1>2. S # {}
  <2> SUFFICES ASSUME 0..c \subseteq used PROVE FALSE
    OBVIOUS
  <2>1. Cardinality(0..c) <= c
    BY FS_Subset
  <2>2. Cardinality(0..c) = c + 1
    BY <1>1, FS_Interval
  <2> QED BY <1>1, <2>1, <2>2
<1>3. S \in SUBSET Nat
  BY <1>1
<1> HIDE DEF S
<1>4. \E s \in S : \A r \in S : s <= r
  BY <1>2, <1>3, LeastNatural
<1>5. Min(S) \in S
  BY <1>4 DEF Min
<1>6. FreshSlot(used) \in S
  BY <1>5 DEF FreshSlot, S
<1> QED BY <1>3, <1>6 DEF S

(* If a list has a node of the block, the first of them is one.            *)
LEMMA FirstHit ==
  ASSUME NEW T, NEW list \in Seq(T), NEW b, Hits(list, b) # {}
  PROVE  Min(Hits(list, b)) \in DOMAIN list /\ list[Min(Hits(list, b))].id = b
<1> DEFINE S == Hits(list, b)
<1>1. S \in SUBSET Nat /\ S # {}
  BY LenProperties DEF Hits
<1> HIDE DEF S
<1>2. \E s \in S : \A r \in S : s <= r
  BY <1>1, LeastNatural
<1>3. Min(S) \in S
  BY <1>2 DEF Min
<1> QED BY <1>3 DEF S, Hits

(* K is made of nodes of list, none twice.                                 *)
Selects(K, list, m) ==
    /\ m \in [DOMAIN K -> DOMAIN list]
    /\ \A i \in DOMAIN K : K[i] = list[m[i]]
    /\ \A i, j \in DOMAIN K : m[i] = m[j] => i = j

(* The lists move_deltas goes through: `after[k]' is what it keeps of the  *)
(* first k nodes of D.                                                     *)
KeepStep(K, nd, first) == IF nd.id < first THEN Append(K, nd) ELSE K
KeepSteps(after, D, first) ==
    /\ after[0] = <<>>
    /\ \A k \in 1..Len(D) : after[k] = KeepStep(after[k - 1], D[k], first)

(* The recursive function of Kept is those lists.                          *)
LEMMA KeptLoop ==
  ASSUME NEW F, NEW p, NEW first, deltas[p] \in Seq(Nodes(F))
  PROVE  \E after : KeepSteps(after, deltas[p], first) /\ Kept(p, first) = after[Len(deltas[p])]
<1> DEFINE D == deltas[p]
           n == Len(D)
           Body(a) == [k \in 0..n |-> IF k = 0 THEN <<>>
                                      ELSE IF D[k].id < first THEN Append(a[k - 1], D[k])
                                      ELSE a[k - 1]]
           T == Seq(Nodes(F))
           step == [x \in T \X Nat |->
                       IF x[2] \in 1..n THEN KeepStep(x[1], D[x[2]], first) ELSE x[1]]
<1>1. n \in Nat /\ DOMAIN D = 1..n /\ \A k \in 1..n : D[k] \in Nodes(F)
  BY LenProperties, ElementOfSeq
<1>2. \A K \in T : \A k \in 1..n : KeepStep(K, D[k], first) \in T
  BY <1>1, AppendProperties DEF KeepStep
<1> DEFINE none == <<>>
<1>3. none \in T
  OBVIOUS
<1> DEFINE after == CHOOSE a : a = Body(a)
<1>4. Kept(p, first) = after[n]
  BY DEF Kept
<1> HIDE DEF T, D, n, none
<1>5. PICK f : IsLoop(f, T, none, step, n)
  <2>1. step \in LoopBodies(T)
    BY <1>2 DEF LoopBodies
  <2> HIDE DEF step
  <2> QED BY <1>1, <1>3, <2>1, LoopExists
<1>6. f = Body(f)
  <2>1. f \in [0..n -> T]
    BY <1>5 DEF IsLoop
  <2>2. ASSUME NEW k \in 0..n PROVE f[k] = Body(f)[k]
    <3>1. CASE k = 0
      BY <3>1, <1>5 DEF IsLoop, none
    <3>2. CASE k # 0
      <4>1. k \in 1..n /\ k - 1 \in 0..n /\ k \in Nat
        BY <1>1, <3>2
      <4>2. f[k - 1] \in T /\ f[k] = step[<<f[k - 1], k>>]
        BY <4>1, <1>5 DEF IsLoop
      <4>3. step[<<f[k - 1], k>>] = KeepStep(f[k - 1], D[k], first)
        BY <4>1, <4>2
      <4> QED BY <4>1, <4>2, <4>3, <3>2 DEF KeepStep
    <3> QED BY <3>1, <3>2
  <2> QED BY <2>1, <2>2
<1>7. after = Body(after)
  <2> HIDE DEF Body
  <2> QED BY <1>6
<1> HIDE DEF after
<1>8. /\ after[0] = <<>>
      /\ \A k \in 1..n : after[k] = KeepStep(after[k - 1], D[k], first)
  <2> DEFINE b == Body(after)
  <2>1. /\ b[0] = <<>>
        /\ \A k \in 1..n : b[k] = KeepStep(after[k - 1], D[k], first)
    <3>1. 0 \in 0..n /\ \A k \in 1..n : k \in 0..n /\ k # 0
      BY <1>1
    <3> QED BY <3>1 DEF KeepStep
  <2>2. after = b
    <3> HIDE DEF Body
    <3> QED BY <1>7
  <2> HIDE DEF b
  <2> QED BY <2>1, <2>2
<1>9. KeepSteps(after, D, first)
  BY <1>8 DEF KeepSteps, n
<1> QED BY <1>4, <1>9 DEF D, n

(* What move_deltas keeps of a list is made of its nodes, none twice.      *)
LEMMA KeptSelects ==
  ASSUME NEW F, NEW p, NEW first, deltas[p] \in Seq(Nodes(F))
  PROVE  Kept(p, first) \in Seq(Nodes(F)) /\ \E m : Selects(Kept(p, first), deltas[p], m)
<1> DEFINE D == deltas[p]
           n == Len(D)
           Step(K, k) == KeepStep(K, D[k], first)
           T == Seq(Nodes(F))
<1>1. n \in Nat /\ DOMAIN D = 1..n /\ \A k \in 1..n : D[k] \in Nodes(F)
  BY LenProperties, ElementOfSeq
<1>2. \A K \in T : \A k \in 1..n : Step(K, k) \in T
  BY <1>1, AppendProperties DEF KeepStep
<1>3. <<>> \in T
  OBVIOUS
<1>a. PICK after : KeepSteps(after, D, first) /\ Kept(p, first) = after[n]
  BY KeptLoop
<1>4. Kept(p, first) = after[n]
  BY <1>a
<1>8. /\ after[0] = <<>>
      /\ \A k \in 1..n : after[k] = Step(after[k - 1], k)
  BY <1>a DEF KeepSteps
<1> HIDE DEF T, Step, D, n
(* The nodes kept after k rounds are made of the first k.                  *)
<1> DEFINE Good(k) == /\ after[k] \in T
                      /\ \E m : /\ Selects(after[k], D, m)
                                /\ \A i \in DOMAIN after[k] : m[i] <= k
<1>9. \A k \in 0..n : Good(k)
  <2> DEFINE Bad == {k \in 0..n : ~Good(k)}
  <2> SUFFICES ASSUME Bad # {} PROVE FALSE
    OBVIOUS
  <2>1. Bad \in SUBSET Nat
    BY <1>1
  <2>2. PICK k \in Bad : \A j \in Bad : k <= j
    <3> HIDE DEF Bad
    <3> QED BY <2>1, LeastNatural
  <2>3. Good(0)
    <3>1. Selects(<<>>, D, <<>>)
      BY DEF Selects
    <3> QED BY <1>3, <1>8, <3>1
  <2>4. k \in 0..n /\ ~Good(k)
    BY <2>2
  <2>5. k \in 1..n /\ k - 1 \in 0..n /\ k - 1 \notin Bad
    <3> HIDE DEF Good
    <3>1. k # 0
      BY <2>3, <2>4
    <3>2. k - 1 \in Bad => k <= k - 1
      BY <2>2
    <3> QED BY <1>1, <2>4, <3>1, <3>2
  <2> DEFINE K == after[k - 1]
  <2>6. K \in T
    BY <2>5
  <2>7. PICK m : Selects(K, D, m) /\ \A i \in DOMAIN K : m[i] <= k - 1
    BY <2>5
  <2>8. after[k] = Step(K, k)
    BY <1>8, <2>5
  <2> HIDE DEF K
  <2>9. CASE D[k].id < first
    <3> DEFINE l == Len(K)
               m1 == [i \in 1..(l + 1) |-> IF i = l + 1 THEN k ELSE m[i]]
    <3>1. l \in Nat /\ DOMAIN K = 1..l
      BY <2>6, LenProperties DEF T
    <3>2. after[k] = Append(K, D[k])
      BY <2>8, <2>9 DEF Step, KeepStep
    <3>3. /\ DOMAIN after[k] = 1..(l + 1) /\ after[k][l + 1] = D[k]
          /\ \A i \in 1..l : after[k][i] = K[i]
      BY <1>1, <2>5, <2>6, <3>1, <3>2, AppendProperties, LenProperties DEF T
    <3> HIDE DEF l
    <3>4. \A i \in 1..l : m[i] \in 1..n /\ m[i] <= k - 1 /\ K[i] = D[m[i]]
      BY <1>1, <2>7, <3>1 DEF Selects
    <3>5. /\ \A i \in 1..l : i \in 1..(l + 1) /\ i # l + 1 /\ m1[i] = m[i]
          /\ l + 1 \in 1..(l + 1) /\ m1[l + 1] = k
          /\ \A i \in 1..(l + 1) : i \in 1..l \/ i = l + 1
      BY <3>1
    <3> HIDE DEF m1
    <3>6. m1 \in [1..(l + 1) -> 1..n]
      <4>1. \A i \in 1..(l + 1) : (IF i = l + 1 THEN k ELSE m[i]) \in 1..n
        BY <2>5, <3>4, <3>5
      <4> QED BY <4>1 DEF m1
    <3>7. \A i \in 1..(l + 1) : after[k][i] = D[m1[i]] /\ m1[i] <= k
      BY <1>1, <2>5, <3>3, <3>4, <3>5
    <3>8. \A i, j \in 1..(l + 1) : m1[i] = m1[j] => i = j
      <4>1. \A i, j \in 1..l : m[i] = m[j] => i = j
        BY <2>7, <3>1 DEF Selects
      <4>2. \A i \in 1..l : m[i] # k
        BY <2>5, <3>4
      <4> QED BY <3>5, <4>1, <4>2
    <3>9. after[k] \in T
      BY <1>2, <2>5, <2>6, <2>8
    <3>10. Selects(after[k], D, m1) /\ \A i \in DOMAIN after[k] : m1[i] <= k
      <4>1. DOMAIN after[k] = 1..(l + 1) /\ DOMAIN D = 1..n
        BY <1>1, <3>3
      <4> QED BY <3>6, <3>7, <3>8, <4>1 DEF Selects
    <3> QED BY <2>4, <3>9, <3>10
  <2>10. CASE ~(D[k].id < first)
    <3>1. after[k] = K
      BY <2>8, <2>10 DEF Step, KeepStep
    <3>2. \A i \in DOMAIN K : m[i] <= k
      BY <1>1, <2>5, <2>7 DEF Selects
    <3> QED BY <2>4, <2>6, <2>7, <3>1, <3>2
  <2> QED BY <2>9, <2>10
<1>10. Good(n)
  BY <1>1, <1>9
<1> QED BY <1>4, <1>10 DEF T, D

-----------------------------------------------------------------------------
(* Ownership *)

(* Whoever holds a slot of the pool.                                       *)
LEMMA Owner ==
  ASSUME MemoryInv
  PROVE  /\ \A x \in pool : \E p \in Pages : \E k \in DOMAIN deltas[p] : deltas[p][k].slot = x
         /\ \A p \in Pages : \A k \in DOMAIN deltas[p] : deltas[p][k].slot \in pool
         /\ \A p \in Pages : \A x : x \in SlotsOf(deltas[p]) =>
                \E k \in DOMAIN deltas[p] : deltas[p][k].slot = x
BY DEF MemoryInv, SlotsOf

(* A list in which node k is new and the others are as before, their ids   *)
(* another's, while the slot of a node that was at k is freed.             *)
OneNew(L, L1, k, new) ==
    /\ DOMAIN L1 = DOMAIN L \cup {k} /\ L1[k] = new
    /\ \A i \in DOMAIN L \ {k} : L1[i] = L[i] /\ L[i].id # new.id

(* Such a list keeps the nodes with their owners.                          *)
LEMMA OneNewKeeps ==
  ASSUME MemoryInv, NEW p \in Live, NEW L1, NEW k, NEW new, NEW F,
         OneNew(deltas[p], L1, k, new),
         deltas' = [deltas EXCEPT ![p] = L1], deltas' \in [Pages -> Seq(Nodes(F))],
         new.slot \in Nat \ pool,
         pool' = (pool \cup {new.slot}) \ {deltas[p][j].slot : j \in DOMAIN deltas[p] \cap {k}},
         status' = status
  PROVE  MemoryInv'
<1> DEFINE L == deltas[p]
           s == new.slot
<1>1. p \in Pages /\ Live' = Live
  BY DEF Live
<1>2. /\ DOMAIN L1 = DOMAIN L \cup {k} /\ L1[k] = new /\ k \in DOMAIN L1
      /\ \A i \in DOMAIN L \ {k} : L1[i] = L[i] /\ L[i].id # new.id
  BY DEF OneNew
<1>3. deltas'[p] = L1 /\ \A q \in Pages \ {p} : deltas'[q] = deltas[q]
  BY <1>1 DEF MemoryInv
<1>4. /\ \A q \in Pages : \A j \in DOMAIN deltas[q] : deltas[q][j].slot \in pool /\ deltas[q][j].slot # s
      /\ \A x \in pool : \E q \in Pages : \E j \in DOMAIN deltas[q] : deltas[q][j].slot = x
  BY Owner
<1>5. \A q, r \in Pages : \A i \in DOMAIN deltas[q], j \in DOMAIN deltas[r] :
          deltas[q][i].slot = deltas[r][j].slot => q = r /\ i = j
  BY DEF MemoryInv
<1>6. \A x : x \in pool' <=> /\ x \in pool \/ x = s
                             /\ k \in DOMAIN L => x # L[k].slot
  OBVIOUS
<1> HIDE DEF L, s
<1>7. ASSUME NEW q \in Pages, NEW i \in DOMAIN deltas'[q]
      PROVE  deltas'[q][i].slot \in pool'
  <2>1. CASE q # p
    BY <1>1, <1>3, <1>4, <1>5, <1>6, <2>1 DEF L
  <2>2. CASE q = p /\ i = k
    <3>1. deltas'[q][i].slot = s
      BY <1>2, <1>3, <2>2 DEF s
    <3>2. k \in DOMAIN L => L[k].slot # s
      BY <1>1, <1>4 DEF L
    <3> QED BY <1>6, <3>1, <3>2
  <2>3. CASE q = p /\ i # k
    <3>1. i \in DOMAIN L /\ deltas'[q][i] = L[i]
      BY <1>2, <1>3, <2>3
    <3>2. k \in DOMAIN L => L[k].slot # L[i].slot
      BY <1>1, <1>5, <2>3, <3>1 DEF L
    <3> QED BY <1>1, <1>4, <1>6, <3>1, <3>2 DEF L
  <2> QED BY <2>1, <2>2, <2>3
<1>8. ASSUME NEW x \in pool'
      PROVE  \E q \in Pages : \E i \in DOMAIN deltas'[q] : deltas'[q][i].slot = x
  <2>1. CASE x = s
    BY <1>1, <1>2, <1>3, <2>1 DEF s
  <2>2. CASE x # s
    <3>1. x \in pool /\ (k \in DOMAIN L => x # L[k].slot)
      BY <1>6, <2>2
    <3>2. PICK q \in Pages : \E j \in DOMAIN deltas[q] : deltas[q][j].slot = x
      BY <1>4, <3>1
    <3>3. PICK j \in DOMAIN deltas[q] : deltas[q][j].slot = x
      BY <3>2
    <3>4. CASE q # p
      BY <1>3, <3>3, <3>4
    <3>5. CASE q = p
      <4>1. j \in DOMAIN L \ {k} /\ L[j].slot = x
        BY <3>1, <3>3, <3>5 DEF L
      <4>2. j \in DOMAIN L1 /\ L1[j].slot = x
        BY <1>2, <4>1
      <4> QED BY <1>1, <1>3, <4>2
    <3> QED BY <3>4, <3>5
  <2> QED BY <2>1, <2>2
<1>9. pool' = UNION {SlotsOf(deltas'[q]) : q \in Pages}
  <2>1. ASSUME NEW x \in pool' PROVE x \in UNION {SlotsOf(deltas'[q]) : q \in Pages}
    BY <1>8 DEF SlotsOf
  <2>2. ASSUME NEW q \in Pages, NEW x \in SlotsOf(deltas'[q]) PROVE x \in pool'
    BY <1>7 DEF SlotsOf
  <2> QED BY <2>1, <2>2
<1>10. ASSUME NEW i \in DOMAIN L1, NEW q \in Pages, NEW j \in DOMAIN deltas'[q],
              L1[i].slot = deltas'[q][j].slot
       PROVE  q = p /\ i = j
  <2>1. \A h \in DOMAIN L1 : \/ h = k /\ L1[h].slot = s
                             \/ h \in DOMAIN L /\ h # k /\ L1[h] = L[h] /\ L[h].slot # s
    BY <1>1, <1>2, <1>4 DEF L, s
  <2>2. CASE q = p
    <3>1. j \in DOMAIN L1 /\ L1[i].slot = L1[j].slot
      BY <1>3, <1>10, <2>2
    <3>2. \A h, g \in DOMAIN L : L[h].slot = L[g].slot => h = g
      BY <1>1, <1>5 DEF L
    <3> QED BY <2>1, <2>2, <3>1, <3>2
  <2>3. CASE q # p
    <3>1. j \in DOMAIN deltas[q] /\ L1[i].slot = deltas[q][j].slot /\ deltas[q][j].slot # s
      BY <1>3, <1>4, <1>10, <2>3
    <3>2. i \in DOMAIN L /\ L[i].slot = deltas[q][j].slot
      BY <2>1, <3>1
    <3> QED BY <1>1, <1>5, <2>3, <3>1, <3>2 DEF L
  <2> QED BY <2>2, <2>3
<1>11. ASSUME NEW q \in Pages, NEW r \in Pages,
              NEW i \in DOMAIN deltas'[q], NEW j \in DOMAIN deltas'[r],
              deltas'[q][i].slot = deltas'[r][j].slot
       PROVE  q = r /\ i = j
  <2>1. CASE q = p
    BY <1>3, <1>10, <1>11, <2>1
  <2>2. CASE r = p
    BY <1>3, <1>10, <1>11, <2>2
  <2>3. CASE q # p /\ r # p
    BY <1>3, <1>5, <1>11, <2>3
  <2> QED BY <2>1, <2>2, <2>3
<1>12. ASSUME NEW q \in Pages, NEW i \in DOMAIN deltas'[q], NEW j \in DOMAIN deltas'[q],
              deltas'[q][i].id = deltas'[q][j].id
       PROVE  i = j
  <2>1. CASE q # p
    BY <1>3, <1>12, <2>1 DEF MemoryInv, OneDeltaPerBlock
  <2>2. CASE q = p
    <3>1. i \in DOMAIN L1 /\ j \in DOMAIN L1 /\ L1[i].id = L1[j].id
      BY <1>3, <1>12, <2>2
    <3>2. \A h \in DOMAIN L1 : \/ h = k /\ L1[h].id = new.id
                               \/ h \in DOMAIN L /\ h # k /\ L1[h] = L[h] /\ L[h].id # new.id
      BY <1>2
    <3>3. \A h, g \in DOMAIN L : L[h].id = L[g].id => h = g
      BY <1>1 DEF MemoryInv, OneDeltaPerBlock, L
    <3> QED BY <3>1, <3>2, <3>3
  <2> QED BY <2>1, <2>2
<1>13. pool' \in SUBSET Nat /\ IsFiniteSet(pool')
  <2> DEFINE S == pool \cup {s}
  <2>1. pool' \subseteq S
    BY <1>6
  <2>2. S \in SUBSET Nat
    BY DEF MemoryInv, s
  <2>3. IsFiniteSet(S)
    BY FS_AddElement DEF MemoryInv
  <2> HIDE DEF S
  <2> QED BY <2>1, <2>2, <2>3, FS_Subset
<1>14. \A q \in Pages : q \notin Live' => deltas'[q] = <<>>
  BY <1>1, <1>3 DEF MemoryInv
<1>15. status' \in [Pages -> {"raw", "live", "moved", "torn"}]
  BY DEF MemoryInv
<1>16. OneDeltaPerBlock'
  BY <1>12 DEF OneDeltaPerBlock
<1> QED BY <1>9, <1>11, <1>13, <1>14, <1>15, <1>16 DEF MemoryInv

(* update_delta_llist keeps ownership, whether it replaces a node or       *)
(* appends one.                                                            *)
LEMMA UpdateDeltaListKeeps ==
  ASSUME MemoryInv, NEW p \in Live, NEW b \in Blocks, NEW flips,
         UpdateDeltaList(p, b, flips), status' = status
  PROVE  MemoryInv'
<1> DEFINE L == deltas[p]
           new == Node(FreshSlot(pool), b, flips)
           hit == Hits(L, b)
<1>0. p \in Pages
  BY DEF Live
<1>1. PICK F : deltas \in [Pages -> Seq(Nodes(F))]
  BY DEF MemoryInv
<1> DEFINE G == F \cup {flips}
<1>2. FreshSlot(pool) \in Nat \ pool
  BY FreshSlotIsFree DEF MemoryInv
<1>3. new \in Nodes(G) /\ new.slot = FreshSlot(pool) /\ new.id = b
  BY <1>2 DEF Node, Nodes
<1>4. /\ deltas \in [Pages -> Seq(Nodes(G))] /\ L \in Seq(Nodes(G))
      /\ Len(L) \in Nat /\ DOMAIN L = 1..Len(L)
  <2>1. Nodes(F) \subseteq Nodes(G)
    BY DEF Nodes
  <2>2. Seq(Nodes(F)) \subseteq Seq(Nodes(G))
    <3>1. ASSUME NEW q \in Seq(Nodes(F)) PROVE q \in Seq(Nodes(G))
      <4>1. Len(q) \in Nat /\ q \in [1..Len(q) -> Nodes(F)]
        BY LenProperties
      <4>2. q \in [1..Len(q) -> Nodes(G)]
        BY <2>1, <4>1
      <4>3. Seq(Nodes(G)) = UNION {[1..n -> Nodes(G)] : n \in Nat}
        BY SeqDef, Zenon
      <4> QED BY <4>1, <4>2, <4>3, Zenon
    <3> QED BY <3>1
  <2> HIDE DEF G
  <2>3. deltas \in [Pages -> Seq(Nodes(G))]
    BY <1>1, <2>2
  <2> QED BY <1>0, <2>3, LenProperties
<1> HIDE DEF G, new
<1>5. CASE hit = {}
  <2> DEFINE k == Len(L) + 1
             L1 == Append(L, new)
  <2>1. deltas' = [deltas EXCEPT ![p] = L1] /\ pool' = pool \cup {new.slot}
    BY <1>3, <1>5 DEF UpdateDeltaList, new
  <2>2. L1 \in Seq(Nodes(G))
    BY <1>3, <1>4, AppendProperties
  <2>3. OneNew(L, L1, k, new)
    <3>1. /\ DOMAIN L1 = 1..k /\ L1[k] = new
          /\ \A i \in 1..Len(L) : L1[i] = L[i]
      BY <1>3, <1>4, AppendProperties, LenProperties
    <3>2. \A i \in DOMAIN L : L[i].id # new.id
      BY <1>3, <1>5 DEF Hits
    <3>3. 1..k = 1..Len(L) \cup {k}
      BY <1>4
    <3> HIDE DEF L1, k, L
    <3> QED BY <1>4, <3>1, <3>2, <3>3 DEF OneNew
  <2>4. pool' = (pool \cup {new.slot}) \ {L[j].slot : j \in DOMAIN L \cap {k}}
    <3>1. k \notin DOMAIN L
      BY <1>4
    <3> HIDE DEF k
    <3> QED BY <2>1, <3>1
  <2>5. deltas' \in [Pages -> Seq(Nodes(G))]
    <3> HIDE DEF L1
    <3> QED BY <1>4, <2>1, <2>2
  <2> HIDE DEF k, L1
  <2> QED BY <1>2, <1>3, <2>1, <2>3, <2>4, <2>5, OneNewKeeps
<1>6. CASE hit # {}
  <2> DEFINE k == Min(hit)
             L1 == [L EXCEPT ![k] = new]
  <2>1. /\ deltas' = [deltas EXCEPT ![p][k] = new]
        /\ pool' = (pool \cup {new.slot}) \ {L[k].slot}
    BY <1>3, <1>6 DEF UpdateDeltaList, new
  <2>2. k \in DOMAIN L /\ L[k].id = b
    BY <1>4, <1>6, FirstHit
  <2> HIDE DEF k
  <2>3. deltas' = [deltas EXCEPT ![p] = L1]
    BY <1>0, <1>4, <2>1
  <2>4. L1 \in Seq(Nodes(G))
    BY <1>3, <1>4, <2>2, ExceptSeq
  <2>5. OneNew(L, L1, k, new)
    <3>1. /\ DOMAIN L1 = DOMAIN L /\ L1[k] = new
          /\ \A i \in DOMAIN L \ {k} : L1[i] = L[i]
      BY <1>4, <2>2
    <3>2. \A i \in DOMAIN L \ {k} : L[i].id # new.id
      BY <1>0, <1>3, <2>2 DEF MemoryInv, OneDeltaPerBlock
    <3> HIDE DEF L1, L
    <3> QED BY <2>2, <3>1, <3>2 DEF OneNew
  <2>6. pool' = (pool \cup {new.slot}) \ {L[j].slot : j \in DOMAIN L \cap {k}}
    <3>1. DOMAIN L \cap {k} = {k}
      BY <2>2
    <3> QED BY <2>1, <3>1
  <2>7. deltas' \in [Pages -> Seq(Nodes(G))]
    <3> HIDE DEF L1
    <3> QED BY <1>4, <2>3, <2>4
  <2> HIDE DEF L1
  <2> QED BY <1>2, <1>3, <2>3, <2>5, <2>6, <2>7, OneNewKeeps
<1> QED BY <1>5, <1>6

(* move_deltas keeps ownership: the new page takes over the nodes it       *)
(* keeps, the others are freed, and the old page is left without any.      *)
LEMMA MoveKeeps ==
  ASSUME MemoryInv, NEW p \in Live, NEW q \in Pages \ Live, NEW K, NEW m, NEW F,
         deltas' \in [Pages -> Seq(Nodes(F))],
         Selects(K, deltas[p], m),
         deltas' = [deltas EXCEPT ![p] = <<>>, ![q] = K],
         pool' = pool \ (SlotsOf(deltas[p]) \ SlotsOf(K)),
         status' \in [Pages -> {"raw", "live", "moved", "torn"}],
         \A r \in Pages : r \notin Live' => r = p \/ r \notin Live \cup {q}
  PROVE  MemoryInv'
<1> DEFINE L == deltas[p]
<1>1. p \in Pages /\ q \in Pages /\ p # q /\ deltas[q] = <<>>
  BY DEF Live, MemoryInv
<1>2. deltas'[p] = <<>> /\ deltas'[q] = K /\ \A r \in Pages \ {p, q} : deltas'[r] = deltas[r]
  BY <1>1 DEF MemoryInv
<1>3. /\ \A r \in Pages : \A j \in DOMAIN deltas[r] : deltas[r][j].slot \in pool
      /\ \A x \in pool : \E r \in Pages : \E j \in DOMAIN deltas[r] : deltas[r][j].slot = x
  BY Owner
<1>4. \A r, t \in Pages : \A i \in DOMAIN deltas[r], j \in DOMAIN deltas[t] :
          deltas[r][i].slot = deltas[t][j].slot => r = t /\ i = j
  BY DEF MemoryInv
<1>5. /\ \A i \in DOMAIN K : m[i] \in DOMAIN L /\ K[i] = L[m[i]]
      /\ \A i, j \in DOMAIN K : m[i] = m[j] => i = j
  BY DEF Selects
<1>6. \A x : x \in SlotsOf(L) <=> \E i \in DOMAIN L : L[i].slot = x
  BY DEF SlotsOf
<1>7. \A x : x \in SlotsOf(K) <=> \E i \in DOMAIN K : K[i].slot = x
  BY DEF SlotsOf
(* Every node of the new lists has its owner in the old ones.              *)
<1>8. ASSUME NEW r \in Pages, NEW i \in DOMAIN deltas'[r]
      PROVE  r # p /\ (r # q => (i \in DOMAIN deltas[r] /\ deltas'[r][i] = deltas[r][i]))
  <2>1. r # p
    <3> SUFFICES ASSUME r = p PROVE FALSE
      OBVIOUS
    <3>1. i \in DOMAIN deltas'[p] /\ deltas'[p] = <<>>
      BY <1>2
    <3>2. DOMAIN deltas'[p] = {}
      BY <3>1
    <3> QED BY <3>1, <3>2
  <2> QED BY <1>2, <2>1
<1>9. ASSUME NEW r \in Pages, NEW i \in DOMAIN deltas'[r]
      PROVE  deltas'[r][i].slot \in pool'
  <2>1. CASE r = q
    <3>1. i \in DOMAIN K /\ deltas'[r][i] = K[i]
      BY <1>2, <2>1
    <3>2. K[i].slot \in pool
      BY <1>1, <1>3, <1>5, <3>1
    <3>3. K[i].slot \in SlotsOf(K)
      BY <1>7, <3>1
    <3> QED BY <3>1, <3>2, <3>3
  <2>2. CASE r # q
    <3>1. r # p /\ i \in DOMAIN deltas[r] /\ deltas'[r][i] = deltas[r][i]
      BY <1>8, <2>2
    <3>2. deltas[r][i].slot \notin SlotsOf(L)
      BY <1>1, <1>4, <1>6, <3>1
    <3> QED BY <1>3, <3>1, <3>2
  <2> QED BY <2>1, <2>2
<1>10. ASSUME NEW x \in pool'
       PROVE  \E r \in Pages : \E i \in DOMAIN deltas'[r] : deltas'[r][i].slot = x
  <2>1. x \in pool /\ (x \in SlotsOf(L) => x \in SlotsOf(K))
    OBVIOUS
  <2>2. CASE x \in SlotsOf(L)
    <3>1. PICK i \in DOMAIN K : K[i].slot = x
      BY <1>7, <2>1, <2>2
    <3> QED BY <1>1, <1>2, <3>1
  <2>3. CASE x \notin SlotsOf(L)
    <3>1. PICK r \in Pages : \E j \in DOMAIN deltas[r] : deltas[r][j].slot = x
      BY <1>3, <2>1
    <3>2. PICK j \in DOMAIN deltas[r] : deltas[r][j].slot = x
      BY <3>1
    <3>3. r # p
      BY <1>6, <2>3, <3>2
    <3>4. r # q
      BY <1>1, <3>2
    <3> QED BY <1>2, <3>2, <3>3, <3>4
  <2> QED BY <2>2, <2>3
<1>11. pool' = UNION {SlotsOf(deltas'[r]) : r \in Pages}
  <2>1. ASSUME NEW x \in pool' PROVE x \in UNION {SlotsOf(deltas'[r]) : r \in Pages}
    BY <1>10 DEF SlotsOf
  <2>2. ASSUME NEW r \in Pages, NEW x \in SlotsOf(deltas'[r]) PROVE x \in pool'
    <3>1. PICK i \in DOMAIN deltas'[r] : x = deltas'[r][i].slot
      BY DEF SlotsOf
    <3> QED BY <1>9, <3>1
  <2> QED BY <2>1, <2>2
<1>12. ASSUME NEW i \in DOMAIN K, NEW r \in Pages, NEW j \in DOMAIN deltas'[r],
              K[i].slot = deltas'[r][j].slot
       PROVE  r = q /\ i = j
  <2>1. m[i] \in DOMAIN L /\ K[i].slot = L[m[i]].slot
    BY <1>5
  <2>2. CASE r = q
    <3>1. j \in DOMAIN K /\ m[j] \in DOMAIN L /\ L[m[i]].slot = L[m[j]].slot
      BY <1>2, <1>5, <1>12, <2>1, <2>2
    <3>2. m[i] = m[j]
      BY <1>1, <1>4, <2>1, <3>1
    <3> QED BY <1>5, <2>2, <3>1, <3>2
  <2>3. CASE r # q
    <3>1. r # p /\ j \in DOMAIN deltas[r] /\ L[m[i]].slot = deltas[r][j].slot
      BY <1>8, <1>12, <2>1, <2>3
    <3> QED BY <1>1, <1>4, <2>1, <3>1
  <2> QED BY <2>2, <2>3
<1>13. ASSUME NEW r \in Pages, NEW t \in Pages,
              NEW i \in DOMAIN deltas'[r], NEW j \in DOMAIN deltas'[t],
              deltas'[r][i].slot = deltas'[t][j].slot
       PROVE  r = t /\ i = j
  <2>1. CASE r = q
    BY <1>2, <1>12, <1>13, <2>1, SMTT(30)
  <2>2. CASE t = q
    BY <1>2, <1>12, <1>13, <2>2
  <2>3. CASE r # q /\ t # q
    <3>1. /\ i \in DOMAIN deltas[r] /\ deltas'[r][i] = deltas[r][i]
          /\ j \in DOMAIN deltas[t] /\ deltas'[t][j] = deltas[t][j]
      BY <1>8, <2>3
    <3> QED BY <1>4, <1>13, <3>1
  <2> QED BY <2>1, <2>2, <2>3
<1>14. ASSUME NEW r \in Pages, NEW i \in DOMAIN deltas'[r], NEW j \in DOMAIN deltas'[r],
              deltas'[r][i].id = deltas'[r][j].id
       PROVE  i = j
  <2>1. CASE r # q
    <3>1. /\ i \in DOMAIN deltas[r] /\ deltas'[r][i] = deltas[r][i]
          /\ j \in DOMAIN deltas[r] /\ deltas'[r][j] = deltas[r][j]
      BY <1>8, <2>1
    <3> QED BY <1>14, <3>1 DEF MemoryInv, OneDeltaPerBlock
  <2>2. CASE r = q
    <3>1. i \in DOMAIN K /\ j \in DOMAIN K /\ K[i].id = K[j].id
      BY <1>2, <1>14, <2>2
    <3>2. m[i] \in DOMAIN L /\ m[j] \in DOMAIN L /\ L[m[i]].id = L[m[j]].id
      BY <1>5, <3>1
    <3>3. m[i] = m[j]
      BY <1>1, <3>2 DEF MemoryInv, OneDeltaPerBlock
    <3> QED BY <1>5, <3>1, <3>3
  <2> QED BY <2>1, <2>2
<1>15. pool' \in SUBSET Nat /\ IsFiniteSet(pool')
  <2>1. pool' \subseteq pool
    OBVIOUS
  <2>2. pool \in SUBSET Nat /\ IsFiniteSet(pool)
    BY DEF MemoryInv
  <2> QED BY <2>1, <2>2, FS_Subset
<1>16. \A r \in Pages : r \notin Live' => deltas'[r] = <<>>
  <2> SUFFICES ASSUME NEW r \in Pages, r \notin Live', r # p PROVE deltas'[r] = <<>>
    BY <1>2
  <2>1. r # q /\ r \notin Live
    OBVIOUS
  <2> QED BY <1>2, <2>1 DEF MemoryInv
<1>17. OneDeltaPerBlock'
  BY <1>14 DEF OneDeltaPerBlock
<1> QED BY <1>11, <1>13, <1>15, <1>16, <1>17 DEF MemoryInv

(* A step that changes neither lists nor pool keeps ownership, as long as  *)
(* no page is given up that has a list.                                    *)
LEMMA SameListsKeep ==
  ASSUME MemoryInv, deltas' = deltas, pool' = pool,
         status' \in [Pages -> {"raw", "live", "moved", "torn"}],
         \A p \in Pages : p \notin Live' => deltas[p] = <<>>
  PROVE  MemoryInv'
BY DEF MemoryInv, OneDeltaPerBlock

-----------------------------------------------------------------------------
(* Operations *)

(* A page is written into a buffer without one, or cannot be.              *)
LEMMA CompressKeeps ==
  ASSUME MemoryInv, NEW q \in Pages, Writable(q), NEW enc, NEW thres,
         Compress(q, enc, thres), pool' = pool
  PROVE  MemoryInv'
<1>1. q \notin Live /\ deltas[q] = <<>>
  BY DEF Writable, Live, MemoryInv
<1>2. deltas' = deltas
  BY <1>1 DEF Compress, MemoryInv
<1>3. /\ status' \in [Pages -> {"raw", "live", "moved", "torn"}]
      /\ \A p \in Pages : p \notin Live' => deltas[p] = <<>>
  <2>1. CASE status' = status
    BY <2>1 DEF MemoryInv, Live
  <2>2. CASE \E x \in {"live", "torn"} : status' = [status EXCEPT ![q] = x]
    <3>1. \A p \in Pages : p # q => status'[p] = status[p]
      BY <2>2 DEF MemoryInv
    <3>2. status' \in [Pages -> {"raw", "live", "moved", "torn"}]
      BY <2>2 DEF MemoryInv
    <3> QED BY <1>1, <3>1, <3>2 DEF MemoryInv, Live
  <2> QED BY <2>1, <2>2 DEF Compress
<1> QED BY <1>2, <1>3, SameListsKeep

(* A recompression moves the list with the page; one that fails leaves     *)
(* everything where it was.                                                *)
LEMMA RecompressKeeps ==
  ASSUME MemoryInv, NEW p \in Live, NEW q \in Pages, Writable(q), NEW first,
         NEW enc, NEW thres, Recompress(p, q, first, enc, thres)
  PROVE  MemoryInv'
<1> DEFINE K == Kept(p, first)
<1>1. p \in Pages /\ q \in Pages \ Live /\ p # q
  BY DEF Writable, Live
<1>2. CASE Fits(enc, HeadSize(p, first), thres)
  <2>1. /\ status' = [status EXCEPT ![p] = "moved", ![q] = "live"]
        /\ deltas' = [deltas EXCEPT ![p] = <<>>, ![q] = K]
        /\ pool' = pool \ (SlotsOf(deltas[p]) \ SlotsOf(K))
    BY <1>2 DEF Recompress, MoveDeltas
  <2>2. PICK F : deltas \in [Pages -> Seq(Nodes(F))]
    BY DEF MemoryInv
  <2>3. PICK m : Selects(K, deltas[p], m)
    BY <1>1, <2>2, KeptSelects
  <2>4. K \in Seq(Nodes(F))
    BY <1>1, <2>2, KeptSelects
  <2> HIDE DEF K
  <2>5. deltas' \in [Pages -> Seq(Nodes(F))]
    <3>1. <<>> \in Seq(Nodes(F))
      OBVIOUS
    <3> QED BY <1>1, <2>1, <2>2, <2>4, <3>1
  <2>6. /\ status' \in [Pages -> {"raw", "live", "moved", "torn"}]
        /\ \A r \in Pages : r \notin Live' => r = p \/ r \notin Live \cup {q}
    <3>1. status \in [Pages -> {"raw", "live", "moved", "torn"}]
      BY DEF MemoryInv
    <3>2. status' \in [Pages -> {"raw", "live", "moved", "torn"}]
      BY <2>1, <3>1
    <3>3. status'[q] = "live" /\ \A r \in Pages : r # p /\ r # q => status'[r] = status[r]
      BY <1>1, <2>1, <3>1
    <3> QED BY <3>2, <3>3 DEF Live
  <2> QED BY <1>1, <2>1, <2>3, <2>5, <2>6, MoveKeeps
<1>3. CASE ~Fits(enc, HeadSize(p, first), thres)
  <2>1. status' = [status EXCEPT ![q] = "torn"] /\ deltas' = deltas /\ pool' = pool
    BY <1>3 DEF Recompress
  <2>2. \A r \in Pages : r # q => status'[r] = status[r]
    BY <2>1 DEF MemoryInv
  <2>3. status' \in [Pages -> {"raw", "live", "moved", "torn"}]
    BY <2>1 DEF MemoryInv
  <2>4. \A r \in Pages : r \notin Live' => deltas[r] = <<>>
    BY <1>1, <2>2 DEF MemoryInv, Live
  <2> QED BY <2>1, <2>3, <2>4, SameListsKeep
<1> QED BY <1>2, <1>3

(* zapi_free_page frees the nodes of its page, and no others.              *)
LEMMA FreeKeeps ==
  ASSUME MemoryInv, NEW p \in Pages, Free(p)
  PROVE  MemoryInv'
<1>1. /\ status' = [status EXCEPT ![p] = "raw"] /\ deltas' = [deltas EXCEPT ![p] = <<>>]
      /\ pool' = pool \ SlotsOf(deltas[p])
  BY DEF Free
<1>2. /\ deltas'[p] = <<>> /\ \A r \in Pages \ {p} : deltas'[r] = deltas[r]
      /\ status'[p] = "raw" /\ \A r \in Pages \ {p} : status'[r] = status[r]
      /\ status' \in [Pages -> {"raw", "live", "moved", "torn"}]
  BY <1>1 DEF MemoryInv
<1>3. \A r \in Pages \ {p} : SlotsOf(deltas'[r]) = SlotsOf(deltas[r])
  BY <1>2 DEF SlotsOf
<1>4. SlotsOf(deltas'[p]) = {}
  BY <1>2, NoSlots
<1>5. pool = UNION {SlotsOf(deltas[r]) : r \in Pages}
  BY DEF MemoryInv
<1>6. \A r \in Pages \ {p} : SlotsOf(deltas[r]) \cap SlotsOf(deltas[p]) = {}
  BY DEF MemoryInv, SlotsOf
<1>7. pool' = UNION {SlotsOf(deltas'[r]) : r \in Pages}
  <2>1. ASSUME NEW x \in pool' PROVE x \in UNION {SlotsOf(deltas'[r]) : r \in Pages}
    <3>1. PICK r \in Pages : x \in SlotsOf(deltas[r])
      BY <1>1, <1>5, <2>1
    <3>2. r # p
      BY <1>1, <3>1
    <3> QED BY <1>3, <3>1, <3>2
  <2>2. ASSUME NEW r \in Pages, NEW x \in SlotsOf(deltas'[r]) PROVE x \in pool'
    <3>1. r # p /\ x \in SlotsOf(deltas[r])
      BY <1>3, <1>4
    <3> QED BY <1>1, <1>5, <1>6, <3>1
  <2> QED BY <2>1, <2>2
<1>8. \A r \in Pages : r \notin Live' => deltas'[r] = <<>>
  BY <1>2 DEF MemoryInv, Live
<1>9. \E F : deltas' \in [Pages -> Seq(Nodes(F))]
  <2>1. PICK F : deltas \in [Pages -> Seq(Nodes(F))]
    BY DEF MemoryInv
  <2>2. <<>> \in Seq(Nodes(F))
    OBVIOUS
  <2>3. deltas' \in [Pages -> Seq(Nodes(F))]
    BY <1>1, <2>1, <2>2
  <2> QED BY <2>3
<1>10. pool' \in SUBSET Nat /\ IsFiniteSet(pool')
  <2>1. pool' \subseteq pool
    BY <1>1
  <2>2. pool \in SUBSET Nat /\ IsFiniteSet(pool)
    BY DEF MemoryInv
  <2> QED BY <2>1, <2>2, FS_Subset
(* What holds of the lists still holds with one of them empty.             *)
<1>11. ASSUME NEW r \in Pages, NEW i \in DOMAIN deltas'[r]
       PROVE  i \in DOMAIN deltas[r] /\ deltas'[r][i] = deltas[r][i]
  <2>1. CASE r = p
    <3>1. DOMAIN <<>> = {}
      OBVIOUS
    <3> QED BY <1>2, <1>11, <2>1, <3>1, Zenon
  <2>2. CASE r # p
    BY <1>2, <2>2
  <2> QED BY <2>1, <2>2
<1>12. \A r, t \in Pages : \A i \in DOMAIN deltas'[r], j \in DOMAIN deltas'[t] :
           deltas'[r][i].slot = deltas'[t][j].slot => r = t /\ i = j
  <2> SUFFICES ASSUME NEW r \in Pages, NEW t \in Pages,
                      NEW i \in DOMAIN deltas'[r], NEW j \in DOMAIN deltas'[t],
                      deltas'[r][i].slot = deltas'[t][j].slot
               PROVE  r = t /\ i = j
    OBVIOUS
  <2>1. /\ i \in DOMAIN deltas[r] /\ j \in DOMAIN deltas[t]
        /\ deltas[r][i].slot = deltas[t][j].slot
    BY <1>11
  <2> QED BY <2>1 DEF MemoryInv
<1>13. OneDeltaPerBlock'
  <2> SUFFICES ASSUME NEW r \in Pages, NEW i \in DOMAIN deltas'[r], NEW j \in DOMAIN deltas'[r],
                      deltas'[r][i].id = deltas'[r][j].id
               PROVE  i = j
    BY DEF OneDeltaPerBlock
  <2>1. i \in DOMAIN deltas[r] /\ j \in DOMAIN deltas[r] /\ deltas[r][i].id = deltas[r][j].id
    BY <1>11
  <2> QED BY <2>1 DEF MemoryInv, OneDeltaPerBlock
<1> QED BY <1>2, <1>7, <1>8, <1>9, <1>10, <1>12, <1>13 DEF MemoryInv

(* Calls that only answer keep everything.                                 *)
LEMMA StutterKeeps ==
  ASSUME MemoryInv, UNCHANGED <<status, deltas, pool>>
  PROVE  MemoryInv'
<1>1. Live' = Live
  BY DEF Live
<1> QED BY <1>1, SameListsKeep DEF MemoryInv

-----------------------------------------------------------------------------
(* At first there are no nodes.                                            *)
LEMMA InitOwned ==
  ASSUME Init
  PROVE  MemoryInv
<1>1. /\ deltas = [p \in Pages |-> <<>>] /\ pool = {} /\ status = [p \in Pages |-> "raw"]
  BY DEF Init
<1>2. \E F : deltas \in [Pages -> Seq(Nodes(F))]
  <2>1. <<>> \in Seq(Nodes({}))
    OBVIOUS
  <2>2. deltas \in [Pages -> Seq(Nodes({}))]
    BY <1>1, <2>1
  <2> QED BY <2>2
<1>3. \A p \in Pages : deltas[p] = <<>> /\ SlotsOf(deltas[p]) = {}
  BY <1>1, NoSlots
<1>4. pool = UNION {SlotsOf(deltas[p]) : p \in Pages}
  BY <1>1, <1>3
<1>5. \A p \in Pages : DOMAIN deltas[p] = {}
  <2>1. DOMAIN <<>> = {}
    OBVIOUS
  <2> QED BY <1>3, <2>1, Zenon
<1>6. OneDeltaPerBlock
  BY <1>5 DEF OneDeltaPerBlock
<1> QED BY <1>1, <1>2, <1>3, <1>4, <1>5, <1>6, FS_EmptySet DEF MemoryInv

(* Nodes have one owner each in every reachable state.                     *)
THEOREM Ownership == Spec => []MemoryInv
<1>1. Init => MemoryInv
  BY InitOwned
<1>2. MemoryInv /\ [Next]_vars => MemoryInv'
  <2> SUFFICES ASSUME MemoryInv, [Next]_vars PROVE MemoryInv'
    OBVIOUS
  <2>1. ASSUME NEW p \in Pages, NEW src, NEW thres, NEW enc, Generate(p, src, enc, thres)
        PROVE  MemoryInv'
    BY <2>1, CompressKeeps DEF Generate
  <2>2. ASSUME NEW p \in Pages, Free(p) PROVE MemoryInv'
    BY <2>2, FreeKeeps
  <2>3. ASSUME NEW p \in Live, NEW b \in Blocks, NEW v, NEW lim, NEW disable,
               UpdateDelta(p, b, v, lim, disable)
        PROVE  MemoryInv'
    <3>1. \/ UpdateDeltaList(p, b, XOR(v, Base(p)[b])) /\ status' = status
          \/ UNCHANGED <<status, deltas, pool>>
      BY <2>3 DEF UpdateDelta
    <3> QED BY <3>1, UpdateDeltaListKeeps, StutterKeeps
  <2>4. ASSUME NEW p \in Live, NEW b \in Blocks, NEW v, NEW lim, UpdateScratch(p, b, v, lim)
        PROVE  MemoryInv'
    BY <2>4, StutterKeeps DEF UpdateScratch
  <2>5. ASSUME NEW p \in Live, NEW n, Decompress(p, n) PROVE MemoryInv'
    BY <2>5, StutterKeeps DEF Decompress
  <2>6. ASSUME NEW p \in Live, NEW b, NEW old, ApplyDelta(p, b, old) PROVE MemoryInv'
    BY <2>6, StutterKeeps DEF ApplyDelta
  <2>7. ASSUME NEW p \in Live, NEW q \in Pages \ Live, NEW thres, NEW b \in Blocks,
               NEW v, NEW lim, NEW enc, UpdateRecompress(p, q, b, v, lim, enc, thres)
        PROVE  MemoryInv'
    BY <2>7, RecompressKeeps DEF UpdateRecompress
  <2>8. ASSUME NEW p \in Live, NEW q \in Pages \ Live, NEW thres, NEW first \in Blocks,
               NEW n, NEW enc, Delete(p, q, first, n, enc, thres)
        PROVE  MemoryInv'
    BY <2>8, RecompressKeeps DEF Delete
  <2>9. ASSUME NEW p \in Live, NEW q \in Pages \ Live, NEW thres, NEW force, NEW enc,
               Pack(p, q, force, enc, thres)
        PROVE  MemoryInv'
    <3>1. \/ UNCHANGED <<status, deltas, pool>>
          \/ Writable(q) /\ Compress(q, enc, thres) /\ pool' = pool
      BY <2>9 DEF Pack
    <3> QED BY <3>1, CompressKeeps, StutterKeeps
  <2>10. CASE UNCHANGED vars
    BY <2>10, StutterKeeps DEF vars
  <2>11. CASE Next
    BY <2>1, <2>2, <2>3, <2>4, <2>5, <2>6, <2>7, <2>8, <2>9, <2>11 DEF Next
  <2> QED BY <2>10, <2>11
<1> QED BY <1>1, <1>2, PTL DEF Spec

(* The slots in use are those of the live pages' nodes, none shared by two *)
(* nodes, in one page or in two (move_deltas, update_delta_llist).         *)
THEOREM PoolOwnership == Spec => []PoolIsOwned
<1>1. MemoryInv => PoolIsOwned
  <2> SUFFICES ASSUME MemoryInv PROVE PoolIsOwned
    OBVIOUS
  <2>1. \A p \in Pages : p \notin Live => SlotsOf(deltas[p]) = {}
    BY NoSlots DEF MemoryInv
  <2>2. pool = UNION {SlotsOf(deltas[p]) : p \in Pages} /\ Live \subseteq Pages
    BY DEF MemoryInv, Live
  <2>3. pool = UNION {SlotsOf(deltas[p]) : p \in Live}
    BY <2>1, <2>2
  <2> QED BY <2>3 DEF MemoryInv, PoolIsOwned
<1> QED BY <1>1, Ownership, PTL

(* No list has two deltas of a block, whichever page it came from.         *)
THEOREM SingleDelta == Spec => []OneDeltaPerBlock
<1>1. MemoryInv => OneDeltaPerBlock
  BY DEF MemoryInv
<1> QED BY <1>1, Ownership, PTL


-----------------------------------------------------------------------------
(* Streams *)

(* The constants a proof does arithmetic with.                             *)
LEMMA ConstantTypes ==
  /\ NumBlocks \in Nat /\ NumBlocks >= 1
  /\ \A b : b \in Blocks <=> b \in Nat /\ b < NumBlocks
  /\ LiteralSize \in Nat /\ CopySize \in Nat
  /\ PageHeader \in Nat /\ NodeHeader \in Nat
<1>1. NumBlocks \in Nat /\ NumBlocks >= 1
  BY PrcPageAssumption
<1> QED BY <1>1, PrcPageAssumption DEF Blocks, PageHeader, NodeHeader

(* Streams as TypeOK has them: a copy refers to an earlier block.          *)
Streams == {s \in [Blocks -> EncodingType] : \A b \in Blocks : s[b].from < b}

(* The greatest element of a finite set of naturals.                       *)
LEMMA MaxIsGreatest ==
  ASSUME NEW b \in Nat, NEW S \in SUBSET (0..(b - 1)), S # {}
  PROVE  Max(S) \in S
<1> DEFINE R == {b - j : j \in S}
<1>1. R \in SUBSET Nat /\ R # {}
  OBVIOUS
<1>2. PICK m \in R : \A n \in R : m <= n
  <2> HIDE DEF R
  <2> QED BY <1>1, LeastNatural
<1>3. PICK j \in S : m = b - j
  BY <1>2
<1>4. \A n \in S : j >= n
  <2> TAKE n \in S
  <2>1. b - n \in R
    OBVIOUS
  <2>2. b - j <= b - n
    BY <1>2, <1>3, <2>1
  <2> QED BY <2>2
<1> QED BY <1>4 DEF Max

(* What the compressor makes of data from a block on: each block is there  *)
(* or refers to an equal one before it.                                    *)
LEMMA EncodingFacts ==
  ASSUME NEW data \in PageContent, NEW first \in Blocks,
         NEW enc \in Encodings(data, first)
  PROVE  /\ enc \in [first..(NumBlocks - 1) -> EncodingType]
         /\ \A b \in first..(NumBlocks - 1) :
                /\ enc[b].from < b
                /\ IF enc[b].from = NoCopy THEN enc[b].val = data[b]
                   ELSE data[enc[b].from] = data[b]
<1> DEFINE tail == first..(NumBlocks - 1)
           may == {b \in tail : Equals(data, b) # {}}
<1>1. PICK copied \in SUBSET may :
         enc = [b \in tail |-> IF b \in copied THEN Copy(Max(Equals(data, b)))
                               ELSE Literal(data[b])]
  BY DEF Encodings
<1>2. \A b \in tail : b \in Blocks /\ b \in Nat
  BY ConstantTypes
<1>3. ASSUME NEW b \in tail
      PROVE  /\ enc[b] \in EncodingType /\ enc[b].from < b
             /\ IF enc[b].from = NoCopy THEN enc[b].val = data[b]
                ELSE data[enc[b].from] = data[b]
  <2>1. CASE b \in copied
    <3> DEFINE S == Equals(data, b)
               j == Max(S)
    <3>1. S # {} /\ S \in SUBSET (0..(b - 1)) /\ \A i \in S : data[i] = data[b]
      BY <2>1 DEF Equals
    <3> HIDE DEF S
    <3>2. j \in S
      BY <1>2, <3>1, MaxIsGreatest
    <3>3. j \in 0..(b - 1) /\ data[j] = data[b]
      BY <3>1, <3>2
    <3>4. enc[b] = Copy(j)
      BY <1>1, <2>1 DEF S
    <3> HIDE DEF j
    <3>5. j \in Blocks /\ j < b /\ j # NoCopy
      BY <1>2, <3>3, ConstantTypes DEF NoCopy
    <3>6. enc[b].from = j /\ enc[b].val = {} /\ enc[b] = [val |-> {}, from |-> j]
      BY <3>4 DEF Copy
    <3> QED BY <3>3, <3>5, <3>6 DEF EncodingType, Content
  <2>2. CASE b \notin copied
    <3>1. enc[b] = Literal(data[b])
      BY <1>1, <2>2
    <3>2. data[b] \in Content
      BY <1>2 DEF PageContent
    <3>3. NoCopy < b
      BY <1>2 DEF NoCopy
    <3> QED BY <3>1, <3>2, <3>3 DEF Literal, EncodingType
  <2> QED BY <2>1, <2>2
<1>4. enc = [b \in tail |-> enc[b]]
  BY <1>1
<1> HIDE DEF tail
<1>5. enc \in [tail -> EncodingType]
  BY <1>3, <1>4
<1> QED BY <1>3, <1>5 DEF tail

(* What the decoder makes of a block, given what it made of the others.    *)
BlockFrom(s, f, b) == IF s[b].from = NoCopy THEN s[b].val ELSE f[s[b].from]

(* Blocks can be decoded one after the other.                              *)
LEMMA DecodingExists ==
  ASSUME NEW s \in Streams
  PROVE  \E f \in PageContent : \A b \in Blocks : f[b] = BlockFrom(s, f, b)
<1> DEFINE Good(k, f) == \A b \in Blocks : b < k => f[b] = BlockFrom(s, f, b)
           Bad == {k \in 0..NumBlocks : \A f \in PageContent : ~Good(k, f)}
<1>0. /\ NumBlocks \in Nat /\ \A b : b \in Blocks <=> b \in Nat /\ b < NumBlocks
  BY ConstantTypes
<1>1. \A b \in Blocks : /\ s[b].from = NoCopy \/ s[b].from \in Blocks
                        /\ s[b].from < b /\ s[b].val \in Content
  BY DEF Streams, EncodingType
<1>2. Bad = {}
  <2> SUFFICES ASSUME Bad # {} PROVE FALSE
    OBVIOUS
  <2>1. Bad \in SUBSET Nat
    BY <1>0
  <2>2. PICK k \in Bad : \A j \in Bad : k <= j
    <3> HIDE DEF Bad
    <3> QED BY <2>1, LeastNatural
  <2>3. k # 0
    <3>1. Zero \in PageContent
      BY DEF Zero, PageContent, Content
    <3>2. Good(0, Zero)
      BY <1>0
    <3> QED BY <2>2, <3>1, <3>2
  <2>4. k \in 1..NumBlocks /\ k - 1 \in 0..NumBlocks /\ k - 1 \in Blocks /\ k - 1 \notin Bad
    BY <1>0, <2>2, <2>3
  <2>5. PICK f \in PageContent : Good(k - 1, f)
    BY <2>4
  <2> DEFINE c == k - 1
             x == BlockFrom(s, f, c)
             g == [f EXCEPT ![c] = x]
  <2>6. x \in Content
    BY <1>1, <2>4 DEF PageContent, BlockFrom
  <2> HIDE DEF x
  <2>7. g \in PageContent
    BY <2>4, <2>6 DEF PageContent
  <2>8. /\ \A b \in Blocks : b # c => g[b] = f[b]
        /\ g[c] = x
    BY <2>4 DEF PageContent
  <2> HIDE DEF g
  <2>9. ASSUME NEW b \in Blocks, b < k PROVE g[b] = BlockFrom(s, g, b)
    <3>1. b \in Nat /\ c \in Nat /\ (b < c \/ b = c)
      BY <1>0, <2>4, <2>9
    <3>2. s[b].from # NoCopy => s[b].from \in Blocks /\ s[b].from # c
      BY <1>0, <1>1, <3>1
    <3>3. BlockFrom(s, g, b) = BlockFrom(s, f, b)
      BY <2>8, <3>2 DEF BlockFrom
    <3>4. CASE b = c
      BY <2>8, <3>3, <3>4 DEF x
    <3>5. CASE b # c
      BY <2>5, <2>8, <3>1, <3>3, <3>5
    <3> QED BY <3>4, <3>5
  <2> QED BY <2>2, <2>7, <2>9
<1>3. NumBlocks \in 0..NumBlocks
  BY <1>0
<1>4. PICK f \in PageContent : Good(NumBlocks, f)
  BY <1>2, <1>3
<1> QED BY <1>0, <1>4

(* decompress_page_internal decodes them so.                               *)
LEMMA DecodedFacts ==
  ASSUME NEW s \in Streams
  PROVE  /\ Decoded(s) \in PageContent
         /\ \A b \in Blocks : Decoded(s)[b] = BlockFrom(s, Decoded(s), b)
<1> DEFINE Body(a) == [b \in Blocks |-> IF s[b].from = NoCopy THEN s[b].val ELSE a[s[b].from]]
           block == CHOOSE a : a = Body(a)
           d == Decoded(s)
<1>1. PICK f \in PageContent : \A b \in Blocks : f[b] = BlockFrom(s, f, b)
  BY DecodingExists
<1>2. f = Body(f)
  BY <1>1 DEF PageContent, BlockFrom
<1>3. block = Body(block)
  <2> HIDE DEF Body
  <2> QED BY <1>2
<1>4. d = [b \in Blocks |-> block[b]]
  BY DEF Decoded
<1> HIDE DEF block
<1>5. \A b \in Blocks : block[b] = BlockFrom(s, block, b)
  BY <1>3 DEF BlockFrom
<1>6. \A b \in Blocks : /\ s[b].from = NoCopy \/ s[b].from \in Blocks
                        /\ s[b].from < b /\ s[b].val \in Content
  BY DEF Streams, EncodingType
<1>7. \A b \in Blocks : d[b] = BlockFrom(s, d, b)
  <2> TAKE b \in Blocks
  <2>1. d[b] = block[b]
    BY <1>4
  <2>2. s[b].from # NoCopy => d[s[b].from] = block[s[b].from]
    BY <1>4, <1>6
  <2> HIDE DEF d
  <2> QED BY <1>5, <2>1, <2>2 DEF BlockFrom
<1> HIDE DEF d
<1> DEFINE Bad == {b \in Blocks : d[b] \notin Content}
<1>8. Bad = {}
  <2> SUFFICES ASSUME Bad # {} PROVE FALSE
    OBVIOUS
  <2>1. Bad \in SUBSET Nat
    BY ConstantTypes
  <2>2. PICK b \in Bad : \A j \in Bad : b <= j
    <3> HIDE DEF Bad
    <3> QED BY <2>1, LeastNatural
  <2>3. b \in Blocks /\ b \in Nat /\ d[b] \notin Content
    BY <2>1, <2>2
  <2>4. s[b].from # NoCopy /\ d[b] = d[s[b].from]
    BY <1>6, <1>7, <2>3 DEF BlockFrom
  <2>5. s[b].from \in Blocks /\ s[b].from < b /\ s[b].from \in Nat
    BY <1>6, <2>3, <2>4, ConstantTypes
  <2>6. s[b].from \in Bad
    BY <2>3, <2>4, <2>5
  <2> QED BY <2>2, <2>3, <2>5, <2>6
<1>9. d \in PageContent
  BY <1>4, <1>8 DEF PageContent, d
<1> QED BY <1>7, <1>9 DEF d


-----------------------------------------------------------------------------
(* Deltas *)

(* Nodes as TypeOK has them.                                               *)
DeltaNodes == Nodes(Content)

(* XOR of two block contents is one.                                       *)
LEMMA XORType == \A x, y \in Content : XOR(x, y) \in Content
BY DEF XOR, Content

(* And so is what the decoder leaves in a buffer that held one.            *)
LEMMA DecodeType ==
  \A x, flips, old \in Content : DecodePacked(x, flips, old) \in Content
<1> SUFFICES ASSUME NEW x \in Content, NEW flips \in Content, NEW old \in Content
             PROVE  DecodePacked(x, flips, old) \in Content
  OBVIOUS
<1>1. Reached[flips] \in SUBSET Cells
  BY PrcPageAssumption
<1>2. XOR(x, flips) \in Content
  BY XORType
<1> QED BY <1>1, <1>2 DEF DecodePacked, Content

(* A delta applied to the block in place, as apply_delta does.             *)
InPlace(x, flips) == DecodePacked(x, flips, x)

(* One node applied to a page gives a page.                                *)
LEMMA ApplyNodeType ==
  ASSUME NEW nd \in DeltaNodes, NEW S, NEW page \in PageContent
  PROVE  ApplyNode(nd, S, page) \in PageContent
<1>1. nd.id \in Blocks /\ nd.flips \in Content /\ page[nd.id] \in Content
  BY DEF DeltaNodes, Nodes, PageContent
<1> DEFINE new == InPlace(page[nd.id], nd.flips)
<1>2. new \in Content
  BY <1>1, DecodeType DEF InPlace
<1>3. ApplyNode(nd, S, page) = IF nd.id \in S THEN [page EXCEPT ![nd.id] = new] ELSE page
  BY DEF ApplyNode, InPlace
<1> HIDE DEF new
<1> QED BY <1>1, <1>2, <1>3 DEF PageContent

(* The pages apply_delta goes through: `after[k]' has the first k nodes of *)
(* the list applied.                                                       *)
ApplySteps(after, list, S, page) ==
    /\ after[0] = page
    /\ \A k \in 1..Len(list) : after[k] = ApplyNode(list[k], S, after[k - 1])
    /\ after[Len(list)] = ApplyDeltas(list, S, page)

(* Each node of a list applied to a page gives a page again.               *)
LEMMA ApplyDeltasLoop ==
  ASSUME NEW list \in Seq(DeltaNodes), NEW S, NEW page \in PageContent
  PROVE  \E after \in [0..Len(list) -> PageContent] : ApplySteps(after, list, S, page)
<1> DEFINE n == Len(list)
           T == PageContent
           Body(a) == [k \in 0..n |-> IF k = 0 THEN page ELSE ApplyNode(list[k], S, a[k - 1])]
           step == [x \in T \X Nat |->
                      IF x[2] \in 1..n THEN ApplyNode(list[x[2]], S, x[1]) ELSE x[1]]
<1>1. n \in Nat /\ \A i \in 1..n : list[i] \in DeltaNodes
  BY LenProperties, ElementOfSeq
<1> HIDE DEF n
<1>2. \A h \in T : \A i \in 1..n : ApplyNode(list[i], S, h) \in T
  BY <1>1, ApplyNodeType
<1> HIDE DEF T
<1>3. PICK f : IsLoop(f, T, page, step, n)
  <2>1. step \in LoopBodies(T)
    BY <1>2 DEF LoopBodies
  <2>2. page \in T
    BY DEF T
  <2> HIDE DEF step
  <2> QED BY <1>1, <2>1, <2>2, LoopExists
<1>4. f = Body(f)
  <2>1. f \in [0..n -> T]
    BY <1>3 DEF IsLoop
  <2>2. ASSUME NEW i \in 0..n PROVE f[i] = Body(f)[i]
    <3>1. CASE i = 0
      BY <3>1, <1>3 DEF IsLoop
    <3>2. CASE i # 0
      <4>1. i \in 1..n /\ i - 1 \in 0..n /\ i \in Nat
        BY <1>1, <3>2
      <4>2. f[i - 1] \in T /\ f[i] = step[<<f[i - 1], i>>]
        BY <4>1, <1>3 DEF IsLoop
      <4>3. step[<<f[i - 1], i>>] = ApplyNode(list[i], S, f[i - 1])
        BY <4>1, <4>2
      <4> QED BY <4>1, <4>2, <4>3, <3>2
    <3> QED BY <3>1, <3>2
  <2> QED BY <2>1, <2>2
<1> DEFINE after == CHOOSE a : a = Body(a)
<1>5. after = Body(after)
  <2> HIDE DEF Body
  <2> QED BY <1>4
<1>6. ApplyDeltas(list, S, page) = after[n]
  BY DEF ApplyDeltas, n
<1> HIDE DEF after
<1>7. \A i \in 0..n : after[i] \in T
  <2> DEFINE Bad == {i \in 0..n : after[i] \notin T}
  <2> SUFFICES ASSUME Bad # {} PROVE FALSE
    OBVIOUS
  <2>1. Bad \in SUBSET Nat
    BY <1>1
  <2>2. PICK i \in Bad : \A j \in Bad : i <= j
    <3> HIDE DEF Bad
    <3> QED BY <2>1, LeastNatural
  <2>3. i \in 0..n /\ after[i] \notin T
    BY <2>2
  <2>4. i # 0
    BY <2>3, <1>5 DEF T
  <2>5. i \in 1..n /\ i - 1 \in 0..n /\ i - 1 \notin Bad
    BY <1>1, <2>2, <2>3, <2>4
  <2>6. after[i - 1] \in T
    BY <2>5
  <2>7. after[i] = ApplyNode(list[i], S, after[i - 1])
    BY <1>5, <2>3, <2>4
  <2> QED BY <1>2, <2>3, <2>5, <2>6, <2>7
<1>8. after \in [0..n -> T]
  <2> DEFINE b == Body(after)
  <2>1. b \in [0..n -> T]
    <3>1. \A i \in 0..n : b[i] = after[i]
      BY <1>5
    <3> QED BY <3>1, <1>7
  <2> HIDE DEF b
  <2> QED BY <2>1, <1>5 DEF b
<1>9. ApplySteps(after, list, S, page)
  <2>1. after[0] = page
    BY <1>1, <1>5
  <2>2. ASSUME NEW k \in 1..n PROVE after[k] = ApplyNode(list[k], S, after[k - 1])
    <3>1. k \in 0..n /\ k # 0
      BY <1>1
    <3> QED BY <1>5, <3>1
  <2> QED BY <2>1, <2>2, <1>6 DEF ApplySteps, n
<1> QED BY <1>8, <1>9 DEF T, n

(* Applying a list of deltas to a page gives a page.                       *)
LEMMA ApplyDeltasType ==
  ASSUME NEW list \in Seq(DeltaNodes), NEW S, NEW page \in PageContent
  PROVE  ApplyDeltas(list, S, page) \in PageContent
<1>1. PICK after \in [0..Len(list) -> PageContent] : ApplySteps(after, list, S, page)
  BY ApplyDeltasLoop
<1>2. Len(list) \in 0..Len(list)
  BY LenProperties
<1> QED BY <1>1, <1>2 DEF ApplySteps

(* No two nodes of the list are for one block.                             *)
Distinct(list) == \A j, k \in DOMAIN list : list[j].id = list[k].id => j = k

(* What a list makes of a block that holds x: only the first node of the   *)
(* block counts, as in zapi_apply_delta.                                   *)
BlockOf(list, b, x) ==
    IF Hits(list, b) = {} THEN x ELSE InPlace(x, list[Min(Hits(list, b))].flips)

(* In a list without duplicates the only node of a block is the first.     *)
LEMMA OnlyHit ==
  ASSUME NEW T, NEW list \in Seq(T), Distinct(list), NEW k \in DOMAIN list
  PROVE  Hits(list, list[k].id) = {k} /\ Min(Hits(list, list[k].id)) = k
<1>1. Hits(list, list[k].id) = {k}
  BY DEF Hits, Distinct
<1>2. \E j \in {k} : \A i \in {k} : j <= i
  <2>1. k \in Nat
    BY LenProperties
  <2> QED BY <2>1
<1> QED BY <1>1, <1>2 DEF Min

(* apply_delta, which applies every node of the list in turn, makes of     *)
(* each block what zapi_apply_delta makes of it with the one node it looks *)
(* up, when the list has no duplicates.                                    *)
LEMMA ReadOfBlock ==
  ASSUME NEW list \in Seq(DeltaNodes), Distinct(list), NEW S, NEW page \in PageContent,
         NEW b \in Blocks
  PROVE  ApplyDeltas(list, S, page)[b] = IF b \in S THEN BlockOf(list, b, page[b]) ELSE page[b]
<1>1. PICK after \in [0..Len(list) -> PageContent] : ApplySteps(after, list, S, page)
  BY ApplyDeltasLoop
<1> DEFINE n == Len(list)
           Hit(j) == list[j].id = b /\ b \in S
<1>2. n \in Nat /\ DOMAIN list = 1..n /\ \A j \in 1..n : list[j] \in DeltaNodes
  BY LenProperties, ElementOfSeq
<1>3. \A j \in 1..n : after[j][b] = IF Hit(j) THEN InPlace(after[j - 1][b], list[j].flips)
                                    ELSE after[j - 1][b]
  <2> TAKE j \in 1..n
  <2>1. /\ j - 1 \in 0..n /\ after[j - 1] \in PageContent
        /\ after[j] = ApplyNode(list[j], S, after[j - 1])
    BY <1>1, <1>2 DEF ApplySteps
  <2>2. DOMAIN after[j - 1] = Blocks
    BY <2>1 DEF PageContent
  <2> QED BY <2>1, <2>2 DEF ApplyNode, InPlace
<1>4. after[0] = page /\ after[n] = ApplyDeltas(list, S, page)
  BY <1>1 DEF ApplySteps
<1> HIDE DEF n, Hit
<1>5. ASSUME NEW h \in 1..(n + 1), \A j \in 1..n : Hit(j) <=> j = h
      PROVE  \A k \in 0..n : after[k][b] = IF k < h THEN page[b]
                                           ELSE InPlace(page[b], list[h].flips)
  <2> DEFINE P(k) == after[k][b] = IF k < h THEN page[b] ELSE InPlace(page[b], list[h].flips)
             Bad == {k \in 0..n : ~ P(k)}
  <2> SUFFICES ASSUME Bad # {} PROVE FALSE
    <3>1. SUFFICES \A k \in 0..n : P(k)
      OBVIOUS
    <3> HIDE DEF P
    <3> QED OBVIOUS
  <2>1. Bad \in SUBSET Nat
    BY <1>2
  <2>2. PICK k \in Bad : \A j \in Bad : k <= j
    <3> HIDE DEF Bad
    <3> QED BY <2>1, LeastNatural
  <2>3. k # 0
    BY <1>2, <1>4, <2>2
  <2>4. k \in 1..n /\ k - 1 \in 0..n /\ k - 1 \notin Bad
    BY <1>2, <2>2, <2>3
  <2>5. after[k - 1][b] = IF k - 1 < h THEN page[b] ELSE InPlace(page[b], list[h].flips)
    BY <2>4
  <2>6. after[k][b] = IF k = h THEN InPlace(after[k - 1][b], list[k].flips) ELSE after[k - 1][b]
    BY <1>3, <1>5, <2>4
  <2> QED BY <1>2, <2>2, <2>4, <2>5, <2>6
<1>6. CASE Hits(list, b) = {} \/ b \notin S
  <2>1. \A j \in 1..n : Hit(j) <=> j = n + 1
    BY <1>2, <1>6 DEF Hits, Hit
  <2>2. after[n][b] = page[b]
    BY <1>2, <1>5, <2>1
  <2> QED BY <1>4, <1>6, <2>2 DEF BlockOf
<1>7. CASE Hits(list, b) # {} /\ b \in S
  <2>1. PICK h \in DOMAIN list : list[h].id = b
    BY <1>7 DEF Hits
  <2>2. Min(Hits(list, b)) = h
    BY <2>1, OnlyHit
  <2>3. \A j \in 1..n : Hit(j) <=> j = h
    BY <1>2, <1>7, <2>1 DEF Distinct, Hit
  <2>4. after[n][b] = InPlace(page[b], list[h].flips)
    BY <1>2, <1>5, <2>1, <2>3
  <2> QED BY <1>4, <1>7, <2>2, <2>4 DEF BlockOf
<1> QED BY <1>6, <1>7

-----------------------------------------------------------------------------
(* Types *)

(* Assigning to a short gives a short, a value that fits is kept, and a    *)
(* sum may be brought into range once or at every step.                    *)
LEMMA Int16Facts ==
  /\ \A x \in Shorts : x \in Int
  /\ \A x \in Int : Int16(x) \in Shorts
  /\ \A x \in Int : MinShort <= x /\ x <= MaxShort => Int16(x) = x
  /\ \A x, y \in Int : Int16(Int16(x) + y) = Int16(x + y)
<1>0. /\ \A x : x \in Shorts <=> x \in Int /\ MinShort <= x /\ x <= MaxShort
      /\ \A y \in Int : y % 65536 \in Int /\ y % 65536 >= 0 /\ y % 65536 < 65536
  <2> DEFINE lo == MinShort
             hi == MaxShort
  <2>1. lo \in Int /\ hi \in Int
    BY DEF MinShort, MaxShort
  <2> HIDE DEF lo, hi
  <2>2. \A x : x \in lo..hi <=> x \in Int /\ lo <= x /\ x <= hi
    BY <2>1
  <2>3. \A y \in Int : y % 65536 \in Int /\ y % 65536 >= 0 /\ y % 65536 < 65536
    OBVIOUS
  <2>4. \A x : x \in Shorts <=> x \in Int /\ MinShort <= x /\ x <= MaxShort
    BY <2>2 DEF Shorts, lo, hi
  <2> QED BY <2>3, <2>4
<1>1. ASSUME NEW x \in Int PROVE Int16(x) \in Shorts
  <2> DEFINE r == (x + 32768) % 65536
  <2>1. r \in Int /\ 0 <= r /\ r < 65536
    BY <1>0
  <2>2. Int16(x) = r - 32768
    BY DEF Int16
  <2> HIDE DEF r
  <2>3. Int16(x) \in Int /\ MinShort <= Int16(x) /\ Int16(x) <= MaxShort
    BY <2>1, <2>2 DEF MinShort, MaxShort
  <2> QED BY <1>0, <2>3
<1>2. ASSUME NEW x \in Int, MinShort <= x, x <= MaxShort PROVE Int16(x) = x
  <2> DEFINE y == x + 32768
  <2>1. y \in Int /\ 0 <= y /\ y < 65536
    BY <1>2 DEF MinShort, MaxShort
  <2>2. \A z \in Int : 0 <= z /\ z < 65536 => z % 65536 = z
    OBVIOUS
  <2>3. y % 65536 = y
    BY <2>1, <2>2
  <2>4. y - 32768 = x
    OBVIOUS
  <2> QED BY <2>3, <2>4 DEF Int16
<1>3. ASSUME NEW x \in Int, NEW y \in Int PROVE Int16(Int16(x) + y) = Int16(x + y)
  <2>1. \A u, v \in Int : ((u % 65536) + v) % 65536 = (u + v) % 65536
    OBVIOUS
  <2> DEFINE u == x + 32768
             r == u % 65536
  <2>2. u \in Int /\ r \in Int
    OBVIOUS
  <2>3. (r + y) % 65536 = (u + y) % 65536
    BY <2>1, <2>2
  <2>4. Int16(x) = r - 32768
    BY DEF Int16
  <2> HIDE DEF r
  <2>5. Int16(x) + y + 32768 = r + y /\ x + y + 32768 = u + y
    BY <2>2, <2>4
  <2> QED BY <2>3, <2>5 DEF Int16
<1>4. \A x \in Shorts : x \in Int
  BY <1>0
<1> QED BY <1>1, <1>2, <1>3, <1>4

(* A stream has a size.                                                    *)
LEMMA StreamSizeType ==
  ASSUME NEW s, NEW S
  PROVE  StreamSize(s, S) \in Int
<1> DEFINE f == [n \in 1..NumBlocks |-> IF n - 1 \in S THEN EncodedSize(s[n - 1]) ELSE 0]
<1>1. \A n \in 1..NumBlocks : f[n] \in Int
  BY ConstantTypes DEF EncodedSize
<1>2. StreamSize(s, S) = SumUpTo(NumBlocks, f)
  BY DEF StreamSize
<1> HIDE DEF f
<1> QED BY <1>1, <1>2, ConstantTypes, SumStep

(* What a node takes is its header, a length byte and at most 255 more.    *)
LEMMA NodeBytesType ==
  ASSUME NEW nd \in DeltaNodes
  PROVE  Payload(nd) \in Nat /\ Payload(nd) <= 256
<1>1. \A n \in 0..255 : n \in Nat /\ n <= 255
  OBVIOUS
<1>2. nd.flips \in Content
  BY DEF DeltaNodes, Nodes
<1>3. PackedLen[nd.flips] \in 0..255
  BY <1>2, PrcPageAssumption
<1>4. PackedLen[nd.flips] \in Nat /\ PackedLen[nd.flips] <= 255
  BY <1>1, <1>3
<1> QED BY <1>4 DEF Payload

(* A list of nodes has a size.                                             *)
LEMMA ListBytesType ==
  ASSUME NEW list \in Seq(DeltaNodes)
  PROVE  ListBytes(list) \in Int
<1> DEFINE n == Len(list)
           f == [k \in DOMAIN list |-> Payload(list[k]) + NodeHeader]
<1>1. n \in Nat /\ DOMAIN list = 1..n /\ \A k \in 1..n : list[k] \in DeltaNodes
  BY LenProperties, ElementOfSeq
<1>2. \A k \in 1..n : f[k] \in Int
  BY <1>1, NodeBytesType, ConstantTypes
<1>3. ListBytes(list) = SumUpTo(n, f)
  BY DEF ListBytes
<1> HIDE DEF f, n
<1> QED BY <1>1, <1>2, <1>3, SumStep

(* What a buffer holds decodes to a page.                                  *)
LEMMA BaseType ==
  ASSUME TypeOK, NEW p \in Pages
  PROVE  /\ Base(p) \in PageContent /\ stream[p] \in Streams
         /\ deltas[p] \in Seq(DeltaNodes) /\ t_size[p] \in Int
<1>1. stream[p] \in Streams
  BY DEF TypeOK, Streams
<1>2. deltas[p] \in Seq(DeltaNodes)
  BY DEF TypeOK, DeltaNodes, Nodes
<1>3. t_size[p] \in Int
  BY Int16Facts DEF TypeOK
<1> QED BY <1>1, <1>2, <1>3, DecodedFacts DEF Base

(* The stream partial_recompression writes: the old one up to `first', the *)
(* compressor's from there on.                                             *)
Stitch(s, enc, first) == [b \in Blocks |-> IF b < first THEN s[b] ELSE enc[b]]

(* It is a stream again, of the size of its two parts.                     *)
LEMMA Stitched ==
  ASSUME NEW s \in Streams, NEW data \in PageContent, NEW first \in Blocks,
         NEW enc \in Encodings(data, first)
  PROVE  /\ Stitch(s, enc, first) \in Streams
         /\ StreamSize(Stitch(s, enc, first), Blocks) =
                StreamSize(s, Before(first)) + StreamSize(enc, DOMAIN enc)
<1> DEFINE s1 == Stitch(s, enc, first)
<1>1. /\ NumBlocks \in Nat /\ first \in Nat /\ first < NumBlocks
      /\ \A b : b \in Blocks <=> b \in Nat /\ b < NumBlocks
  BY ConstantTypes
<1>2. /\ \A b \in Blocks : b \in first..(NumBlocks - 1) <=> ~(b < first)
      /\ \A b : b \in Before(first) <=> b \in Blocks /\ b < first
  BY <1>1 DEF Before
<1>3. /\ DOMAIN enc = first..(NumBlocks - 1)
      /\ \A b \in first..(NumBlocks - 1) : enc[b] \in EncodingType /\ enc[b].from < b
  BY EncodingFacts, ZenonT(60)
<1>4. \A b \in Blocks : /\ b < first => s1[b] = s[b]
                        /\ ~(b < first) => s1[b] = enc[b]
  BY DEF Stitch
<1>5. s1 \in Streams
  <2>1. \A b \in Blocks : s1[b] \in EncodingType /\ s1[b].from < b
    BY <1>2, <1>3, <1>4 DEF Streams
  <2>2. s1 = [b \in Blocks |-> s1[b]]
    BY DEF Stitch
  <2> HIDE DEF s1
  <2>3. s1 \in [Blocks -> EncodingType]
    BY <2>1, <2>2
  <2> QED BY <2>1, <2>3 DEF Streams
<1> HIDE DEF s1
<1> DEFINE f == [n \in 1..NumBlocks |-> IF n - 1 \in Before(first) THEN EncodedSize(s[n - 1]) ELSE 0]
           g == [n \in 1..NumBlocks |-> IF n - 1 \in DOMAIN enc THEN EncodedSize(enc[n - 1]) ELSE 0]
           h == [n \in 1..NumBlocks |-> IF n - 1 \in Blocks THEN EncodedSize(s1[n - 1]) ELSE 0]
<1>6. \A e : EncodedSize(e) \in Int
  BY ConstantTypes DEF EncodedSize
<1>7. ASSUME NEW n \in 1..NumBlocks PROVE f[n] \in Int /\ g[n] \in Int /\ h[n] = f[n] + g[n]
  <2> DEFINE b == n - 1
  <2>1. b \in Blocks
    BY <1>1
  <2>2. /\ f[n] = IF b \in Before(first) THEN EncodedSize(s[b]) ELSE 0
        /\ g[n] = IF b \in DOMAIN enc THEN EncodedSize(enc[b]) ELSE 0
        /\ h[n] = EncodedSize(s1[b])
    BY <2>1
  <2> HIDE DEF b, f, g, h
  <2>3. f[n] \in Int /\ g[n] \in Int
    BY <1>6, <2>2
  <2>4. CASE b < first
    <3>1. f[n] = EncodedSize(s[b]) /\ g[n] = 0 /\ h[n] = EncodedSize(s[b])
      BY <1>2, <1>3, <1>4, <2>1, <2>2, <2>4
    <3> QED BY <1>6, <3>1
  <2>5. CASE ~(b < first)
    <3>1. f[n] = 0 /\ g[n] = EncodedSize(enc[b]) /\ h[n] = EncodedSize(enc[b])
      BY <1>2, <1>3, <1>4, <2>1, <2>2, <2>5
    <3> QED BY <1>6, <3>1
  <2> QED BY <2>3, <2>4, <2>5
<1>8. /\ StreamSize(s, Before(first)) = SumUpTo(NumBlocks, f)
      /\ StreamSize(enc, DOMAIN enc) = SumUpTo(NumBlocks, g)
      /\ StreamSize(s1, Blocks) = SumUpTo(NumBlocks, h)
  BY DEF StreamSize
<1> HIDE DEF f, g, h
<1>9. SumUpTo(NumBlocks, h) = SumUpTo(NumBlocks, f) + SumUpTo(NumBlocks, g)
  BY <1>1, <1>7, SumAdds
<1> QED BY <1>5, <1>8, <1>9 DEF s1

(* What the compressor makes of a whole page is a stream.                  *)
LEMMA WholeEncoding ==
  ASSUME NEW data \in PageContent, NEW enc \in Encodings(data, 0)
  PROVE  enc \in Streams /\ DOMAIN enc = Blocks
<1> DEFINE none == 0
<1>1. none \in Blocks
  BY ConstantTypes
<1>2. enc \in Encodings(data, none)
  OBVIOUS
<1>3. Blocks = none..(NumBlocks - 1)
  BY DEF Blocks
<1> HIDE DEF none
<1> QED BY <1>1, <1>2, <1>3, EncodingFacts DEF Streams

(* What a compression that fits has made is an encoding.                   *)
LEMMA FitsEncodes ==
  ASSUME NEW data, NEW first, NEW enc \in Attempts(data, first), NEW head, NEW thres,
         Fits(enc, head, thres)
  PROVE  enc \in Encodings(data, first)
BY DEF Attempts, Fits

(* The variables a client's page is made of have their types; the others   *)
(* have them by MemoryInv.                                                 *)
PageTypes ==
    /\ stream \in [Pages -> Streams]
    /\ t_size \in [Pages -> Shorts]
    /\ deltas \in [Pages -> Seq(DeltaNodes)]

(* Together they are TypeOK.                                               *)
LEMMA TypesAre == TypeOK <=> /\ PageTypes /\ IsFiniteSet(pool) /\ pool \subseteq Nat
                             /\ status \in [Pages -> {"raw", "live", "moved", "torn"}]
<1>1. stream \in [Pages -> Streams] <=> /\ stream \in [Pages -> [Blocks -> EncodingType]]
                                        /\ \A p \in Pages, b \in Blocks : stream[p][b].from < b
  <2>1. ASSUME stream \in [Pages -> Streams]
        PROVE  /\ stream \in [Pages -> [Blocks -> EncodingType]]
               /\ \A p \in Pages, b \in Blocks : stream[p][b].from < b
    <3>1. Streams \subseteq [Blocks -> EncodingType]
      BY DEF Streams
    <3>2. \A p \in Pages : stream[p] \in Streams
      BY <2>1
    <3>3. stream \in [Pages -> [Blocks -> EncodingType]]
      BY <2>1, <3>1, <3>2
    <3> QED BY <3>2, <3>3 DEF Streams
  <2>2. ASSUME stream \in [Pages -> [Blocks -> EncodingType]],
               \A p \in Pages, b \in Blocks : stream[p][b].from < b
        PROVE  stream \in [Pages -> Streams]
    <3>1. \A p \in Pages : stream[p] \in Streams
      BY <2>2 DEF Streams
    <3> QED BY <2>2, <3>1
  <2> QED BY <2>1, <2>2
<1>2. DeltaNodes = [slot : Nat, id : Blocks, flips : Content]
  BY DEF DeltaNodes, Nodes
<1> QED BY <1>1, <1>2, Zenon DEF TypeOK, PageTypes

(* A raw buffer is a stream of zero blocks.                                *)
LEMMA EmptyType == Empty \in Streams
<1>1. \A b \in Blocks : Empty[b] = Literal({}) /\ NoCopy < b
  BY ConstantTypes DEF Empty, NoCopy
<1>2. Literal({}) \in EncodingType /\ Literal({}).from = NoCopy
  BY DEF Literal, EncodingType, Content
<1>3. Empty \in [Blocks -> EncodingType]
  BY <1>2 DEF Empty
<1> QED BY <1>1, <1>2, <1>3 DEF Streams

(* The new node is at the end of the list, or in the place of the one of   *)
(* its block.                                                              *)
Appended(p, b, new) ==
    /\ Hits(deltas[p], b) = {}
    /\ deltas'[p] = Append(deltas[p], new)
    /\ t_size' = [t_size EXCEPT ![p] = Int16(@ + Payload(new) + NodeHeader)]

Replaced(p, b, k, new) ==
    /\ Hits(deltas[p], b) # {} /\ k = Min(Hits(deltas[p], b))
    /\ deltas[p][k].id = b
    /\ deltas'[p] = [deltas[p] EXCEPT ![k] = new]
    /\ t_size' = [t_size EXCEPT ![p] = Int16(@ + Payload(new) - Payload(deltas[p][k]))]

(* update_delta_llist changes the list and the size of its page only.      *)
LEMMA UpdateDeltaListEffect ==
  ASSUME TypeOK, NEW p \in Pages, NEW b \in Blocks, NEW flips \in Content,
         UpdateDeltaList(p, b, flips)
  PROVE  \E new \in DeltaNodes :
            /\ new.id = b /\ new.flips = flips
            /\ deltas' \in [Pages -> Seq(DeltaNodes)]
            /\ \A r \in Pages \ {p} : deltas'[r] = deltas[r]
            /\ \/ Appended(p, b, new)
               \/ \E k \in DOMAIN deltas[p] : Replaced(p, b, k, new)
<1> DEFINE L == deltas[p]
           new == Node(FreshSlot(pool), b, flips)
<1>1. FreshSlot(pool) \in Nat
  BY FreshSlotIsFree DEF TypeOK
<1>2. new \in DeltaNodes /\ new.id = b /\ new.flips = flips
  BY <1>1 DEF Node, DeltaNodes, Nodes
<1>3. /\ deltas \in [Pages -> Seq(DeltaNodes)] /\ L \in Seq(DeltaNodes)
      /\ DOMAIN L = 1..Len(L)
  <2>1. deltas \in [Pages -> Seq(DeltaNodes)]
    BY TypesAre DEF PageTypes
  <2> QED BY <2>1, LenProperties
<1>4. CASE Hits(L, b) = {}
  <2> DEFINE L1 == Append(L, new)
  <2>1. /\ deltas' = [deltas EXCEPT ![p] = L1]
        /\ t_size' = [t_size EXCEPT ![p] = Int16(@ + Payload(new) + NodeHeader)]
    BY <1>4 DEF UpdateDeltaList
  <2> HIDE DEF new, L
  <2>2. L1 \in Seq(DeltaNodes)
    BY <1>2, <1>3, AppendProperties
  <2> HIDE DEF L1
  <2>3. /\ deltas' \in [Pages -> Seq(DeltaNodes)] /\ deltas'[p] = L1
        /\ \A r \in Pages \ {p} : deltas'[r] = deltas[r]
    BY <1>3, <2>1, <2>2
  <2>4. Appended(p, b, new)
    BY <1>4, <2>1, <2>3 DEF L1, L, Appended
  <2> QED BY <1>2, <2>3, <2>4
<1>5. CASE Hits(L, b) # {}
  <2> DEFINE k == Min(Hits(L, b))
             L1 == [L EXCEPT ![k] = new]
  <2>1. /\ deltas' = [deltas EXCEPT ![p][k] = new]
        /\ t_size' = [t_size EXCEPT ![p] = Int16(@ + Payload(new) - Payload(L[k]))]
    BY <1>5 DEF UpdateDeltaList
  <2>2. k \in DOMAIN L /\ L[k].id = b /\ k = Min(Hits(L, b))
    BY <1>3, <1>5, FirstHit
  <2> HIDE DEF new, k
  <2>3. deltas' = [deltas EXCEPT ![p] = L1]
    BY <1>3, <2>1
  <2>4. L1 \in Seq(DeltaNodes)
    BY <1>2, <1>3, <2>2, ExceptSeq
  <2> HIDE DEF L1
  <2>5. /\ deltas' \in [Pages -> Seq(DeltaNodes)] /\ deltas'[p] = L1
        /\ \A r \in Pages \ {p} : deltas'[r] = deltas[r]
    BY <1>3, <2>3, <2>4
  <2>6. L1 = [L EXCEPT ![k] = new]
    BY DEF L1
  <2>7. Replaced(p, b, k, new)
    BY <1>5, <2>1, <2>2, <2>5, <2>6 DEF Replaced
  <2> QED BY <1>2, <2>2, <2>5, <2>7
<1> QED BY <1>4, <1>5

(* The pages a call compresses or hands back are pages.                    *)
LEMMA CompressedPages ==
  ASSUME TypeOK, NEW p \in Pages, NEW b \in Blocks
  PROVE  /\ PageReads(p) \in PageContent
         /\ \A v \in Content : UpdatedTail(p, b, v) \in PageContent
         /\ \A n : DeletedPage(p, b, n) \in PageContent
         /\ \A n : DecompressInto(p, n) \in PageContent
<1>1. Base(p) \in PageContent /\ deltas[p] \in Seq(DeltaNodes)
  BY BaseType
<1>2. PageReads(p) \in PageContent
  BY <1>1, ApplyDeltasType DEF PageReads
<1>3. ASSUME NEW v \in Content PROVE UpdatedTail(p, b, v) \in PageContent
  <2>1. ApplyDeltas(deltas[p], From(b), Base(p)) \in PageContent
    BY <1>1, ApplyDeltasType
  <2> QED BY <2>1 DEF UpdatedTail, PageContent
<1>4. ASSUME NEW n PROVE DeletedPage(p, b, n) \in PageContent
  <2> HIDE DEF PageContent
  <2>1. \A j \in Blocks : PageReads(p)[j] \in Content
    BY <1>2 DEF PageContent
  <2> QED BY <2>1 DEF DeletedPage, PageContent, Content
<1>5. ASSUME NEW n PROVE DecompressInto(p, n) \in PageContent
  <2>1. \A j \in Blocks : Base(p)[j] \in Content
    BY <1>1 DEF PageContent
  <2> QED BY <2>1 DEF DecompressInto, PageContent, Content
<1> QED BY <1>2, <1>3, <1>4, <1>5

-----------------------------------------------------------------------------
(* Sizes *)

(* A list without nodes takes nothing.                                     *)
LEMMA NoBytes == ListBytes(<<>>) = 0
<1> DEFINE n == Len(<<>>)
           f == [k \in DOMAIN <<>> |-> Payload(<<>>[k]) + NodeHeader]
<1>1. n \in Nat /\ n = 0 /\ \A k \in 1..n : f[k] \in Int
  OBVIOUS
<1>2. ListBytes(<<>>) = SumUpTo(n, f)
  BY DEF ListBytes
<1> HIDE DEF n, f
<1> QED BY <1>1, <1>2, SumStep

(* One more node takes what it takes itself.                               *)
LEMMA AppendedBytes ==
  ASSUME NEW L \in Seq(DeltaNodes), NEW new \in DeltaNodes
  PROVE  ListBytes(Append(L, new)) = ListBytes(L) + Payload(new) + NodeHeader
<1> DEFINE n == Len(L)
           m == n + 1
           L1 == Append(L, new)
           f == [k \in DOMAIN L |-> Payload(L[k]) + NodeHeader]
           g == [k \in DOMAIN L1 |-> Payload(L1[k]) + NodeHeader]
<1>1. n \in Nat /\ DOMAIN L = 1..n /\ \A k \in 1..n : L[k] \in DeltaNodes
  BY LenProperties, ElementOfSeq
<1>2. /\ L1 \in Seq(DeltaNodes) /\ Len(L1) = m /\ DOMAIN L1 = 1..m /\ L1[m] = new
      /\ \A k \in 1..n : L1[k] = L[k]
  BY <1>1, AppendProperties, LenProperties
<1>3. ListBytes(L) = SumUpTo(n, f) /\ ListBytes(L1) = SumUpTo(m, g)
  BY <1>2 DEF ListBytes
<1> HIDE DEF L1
<1>4. m \in Nat /\ m # 0 /\ m - 1 = n /\ m \in 1..m /\ \A k \in 1..n : k \in 1..m
  BY <1>1
<1>5. \A k \in 1..n : f[k] \in Int /\ g[k] = f[k]
  BY <1>1, <1>2, <1>4, NodeBytesType, ConstantTypes
<1>6. g[m] = Payload(new) + NodeHeader
  BY <1>2, <1>4
<1>7. \A k \in 1..m : g[k] \in Int
  <2>1. Payload(new) + NodeHeader \in Int
    BY NodeBytesType, ConstantTypes
  <2>2. \A k \in 1..m : k \in 1..n \/ k = m
    BY <1>1
  <2> HIDE DEF f, g
  <2> QED BY <1>5, <1>6, <2>1, <2>2
<1> HIDE DEF n, f, g
<1>8. SumUpTo(m, g) = SumUpTo(m - 1, g) + g[m]
  <2> HIDE DEF m
  <2> QED BY <1>4, <1>7, SumStep
<1>9. SumUpTo(n, g) = SumUpTo(n, f)
  BY <1>1, <1>5, SumSame
<1>10. ListBytes(L) \in Int /\ Payload(new) \in Int /\ NodeHeader \in Int
  BY ListBytesType, NodeBytesType, ConstantTypes
<1>11. SumUpTo(m, g) = ListBytes(L) + (Payload(new) + NodeHeader)
  BY <1>3, <1>4, <1>6, <1>8, <1>9
<1> QED BY <1>3, <1>10, <1>11 DEF L1

(* A node in the place of another makes up for the difference.             *)
LEMMA ReplacedBytes ==
  ASSUME NEW L \in Seq(DeltaNodes), NEW new \in DeltaNodes, NEW m \in DOMAIN L
  PROVE  ListBytes([L EXCEPT ![m] = new]) = ListBytes(L) + Payload(new) - Payload(L[m])
<1> DEFINE n == Len(L)
           L1 == [L EXCEPT ![m] = new]
           f == [k \in DOMAIN L |-> Payload(L[k]) + NodeHeader]
           g == [k \in DOMAIN L1 |-> Payload(L1[k]) + NodeHeader]
           d == Payload(new) - Payload(L[m])
<1>1. n \in Nat /\ DOMAIN L = 1..n /\ \A k \in 1..n : L[k] \in DeltaNodes
  BY LenProperties, ElementOfSeq
<1>2. L1 \in Seq(DeltaNodes) /\ DOMAIN L1 = 1..n /\ \A k \in 1..n : L1[k] = IF k = m THEN new ELSE L[k]
  <2>1. L1 \in Seq(DeltaNodes)
    BY ExceptSeq
  <2> QED BY <1>1, <2>1
<1>3. Len(L1) = n
  <2> HIDE DEF L1, n
  <2>1. Len(L1) \in Nat /\ DOMAIN L1 = 1..Len(L1)
    BY <1>2, LenProperties
  <2> QED BY <1>1, <1>2, <2>1
<1>4. ListBytes(L) = SumUpTo(n, f) /\ ListBytes(L1) = SumUpTo(n, g)
  BY <1>3 DEF ListBytes
<1>5. /\ \A k \in 1..n : Payload(L[k]) \in Int
      /\ Payload(new) \in Int /\ NodeHeader \in Int /\ d \in Int
  <2>1. /\ \A k \in 1..n : Payload(L[k]) \in Int
        /\ Payload(new) \in Int /\ NodeHeader \in Int
    BY <1>1, NodeBytesType, ConstantTypes
  <2>2. Payload(L[m]) \in Int
    BY <1>1, <2>1
  <2> QED BY <2>1, <2>2
<1>6. /\ \A k \in 1..n : f[k] = Payload(L[k]) + NodeHeader
      /\ \A k \in 1..n : g[k] = Payload(L1[k]) + NodeHeader
  BY <1>1, <1>2
<1> HIDE DEF L1, f, g
<1>7. \A k \in 1..n : f[k] \in Int
  <2> TAKE k \in 1..n
  <2>1. f[k] = Payload(L[k]) + NodeHeader /\ Payload(L[k]) \in Int /\ NodeHeader \in Int
    BY <1>5, <1>6
  <2> QED BY <2>1
<1>8. m \in 1..n
  BY <1>1
<1>a. g[m] = f[m] + d
  <2>1. g[m] = Payload(new) + NodeHeader /\ f[m] = Payload(L[m]) + NodeHeader
    BY <1>2, <1>6, <1>8
  <2>2. Payload(L[m]) \in Int
    BY <1>5, <1>8
  <2> QED BY <1>5, <2>1, <2>2
<1>b. \A k \in 1..n : k # m => g[k] = f[k]
  BY <1>2, <1>6
<1> HIDE DEF n, d
<1>9. SumUpTo(n, g) = SumUpTo(n, f) + d
  <2>1. n \in Nat /\ d \in Int
    BY <1>1, <1>5
  <2> QED BY <2>1, <1>7, <1>8, <1>a, <1>b, SumDiffers
<1>10. ListBytes(L) \in Int /\ Payload(L[m]) \in Int
  BY <1>5, <1>8, ListBytesType
<1>11. ListBytes(L1) = ListBytes(L) + d
  BY <1>4, <1>9
<1> QED BY <1>5, <1>10, <1>11 DEF L1, d

(* The header always holds what the page occupies, modulo 2^16.            *)
SizeInv == \A p \in Live : t_size[p] = Int16(OccupiedBytes(p))

(* update_delta_llist keeps count of the page it changes.                  *)
LEMMA CountedUpdate ==
  ASSUME TypeOK, NEW p \in Pages, NEW b \in Blocks, NEW flips \in Content,
         t_size[p] = Int16(OccupiedBytes(p)), UpdateDeltaList(p, b, flips)
  PROVE  /\ deltas' \in [Pages -> Seq(DeltaNodes)]
         /\ t_size' \in [Pages -> Shorts]
         /\ \A r \in Pages \ {p} : deltas'[r] = deltas[r] /\ t_size'[r] = t_size[r]
         /\ t_size'[p] =
                Int16(PageHeader + StreamSize(stream[p], Blocks) + ListBytes(deltas'[p]))
<1> DEFINE L == deltas[p]
           L1 == deltas'[p]
           x == PageHeader + StreamSize(stream[p], Blocks)
<1>1. PICK new \in DeltaNodes :
         /\ new.id = b /\ new.flips = flips
         /\ deltas' \in [Pages -> Seq(DeltaNodes)]
         /\ \A r \in Pages \ {p} : deltas'[r] = deltas[r]
         /\ \/ Appended(p, b, new)
            \/ \E k \in DOMAIN L : Replaced(p, b, k, new)
  BY UpdateDeltaListEffect
<1>2. /\ L \in Seq(DeltaNodes) /\ t_size \in [Pages -> Shorts]
      /\ L1 \in Seq(DeltaNodes) /\ t_size[p] \in Int
  <2>1. t_size \in [Pages -> Shorts]
    BY TypesAre DEF PageTypes
  <2>2. t_size[p] \in Int
    BY <2>1, Int16Facts
  <2> QED BY <1>1, <2>1, <2>2, TypesAre DEF PageTypes
<1>3. x \in Int /\ ListBytes(L) \in Int /\ t_size[p] = Int16(x + ListBytes(L))
  BY <1>2, StreamSizeType, ListBytesType, ConstantTypes DEF OccupiedBytes
<1> HIDE DEF x
<1>4. \E d \in Int : /\ t_size' = [t_size EXCEPT ![p] = Int16(@ + d)]
                     /\ ListBytes(L1) = ListBytes(L) + d
  <2>1. CASE Appended(p, b, new)
    <3> DEFINE d == Payload(new) + NodeHeader
    <3>1. ListBytes(L1) = ListBytes(L) + Payload(new) + NodeHeader
      BY <1>2, <2>1, AppendedBytes DEF Appended
    <3>2. Payload(new) \in Int /\ NodeHeader \in Int /\ t_size[p] \in Int
      BY <1>2, NodeBytesType, ConstantTypes
    <3>3. /\ ListBytes(L1) = ListBytes(L) + d /\ d \in Int
          /\ t_size[p] + Payload(new) + NodeHeader = t_size[p] + d
      BY <1>3, <3>1, <3>2
    <3>4. t_size' = [t_size EXCEPT ![p] = Int16(t_size[p] + d)]
      BY <2>1, <3>3 DEF Appended
    <3> HIDE DEF d
    <3> QED BY <3>3, <3>4
  <2>2. ASSUME NEW k \in DOMAIN L, Replaced(p, b, k, new)
        PROVE  \E d \in Int : /\ t_size' = [t_size EXCEPT ![p] = Int16(@ + d)]
                              /\ ListBytes(L1) = ListBytes(L) + d
    <3> DEFINE d == Payload(new) - Payload(L[k])
    <3>1. ListBytes(L1) = ListBytes(L) + Payload(new) - Payload(L[k])
      BY <1>2, <2>2, ReplacedBytes DEF Replaced
    <3>2. L[k] \in DeltaNodes
      BY <1>2, LenProperties, ElementOfSeq
    <3>3. Payload(new) \in Int /\ Payload(L[k]) \in Int /\ t_size[p] \in Int
      BY <1>2, <3>2, NodeBytesType
    <3>4. /\ ListBytes(L1) = ListBytes(L) + d /\ d \in Int
          /\ t_size[p] + Payload(new) - Payload(L[k]) = t_size[p] + d
      BY <1>3, <3>1, <3>3
    <3>5. t_size' = [t_size EXCEPT ![p] = Int16(t_size[p] + d)]
      BY <2>2, <3>4 DEF Replaced
    <3> HIDE DEF d
    <3> QED BY <3>4, <3>5
  <2> QED BY <1>1, <2>1, <2>2
<1>5. PICK d \in Int : /\ t_size' = [t_size EXCEPT ![p] = Int16(@ + d)]
                       /\ ListBytes(L1) = ListBytes(L) + d
  BY <1>4
<1>6. /\ t_size'[p] = Int16(Int16(x + ListBytes(L)) + d)
      /\ \A r \in Pages \ {p} : t_size'[r] = t_size[r]
  BY <1>2, <1>3, <1>5
<1> HIDE DEF L, L1
<1>7. t_size'[p] = Int16(x + ListBytes(L) + d)
  BY <1>3, <1>6, Int16Facts
<1>8. x + ListBytes(L) + d = x + ListBytes(L1)
  BY <1>3, <1>5
<1>9. t_size' \in [Pages -> Shorts]
  <2>1. Int16(t_size[p] + d) \in Shorts
    <3>1. t_size[p] + d \in Int
      BY <1>2, <1>5
    <3> QED BY <3>1, Int16Facts
  <2> HIDE DEF Shorts
  <2> QED BY <1>2, <1>5, <2>1
<1> QED BY <1>1, <1>6, <1>7, <1>8, <1>9 DEF x, L1

(* A buffer that changes is counted anew; one that does not stays as it    *)
(* was, and one that holds no page does not matter.                        *)
LEMMA CountedPages ==
  ASSUME SizeInv,
         \A r \in Pages : r \in Live' =>
            \/ /\ r \in Live /\ stream'[r] = stream[r]
               /\ deltas'[r] = deltas[r] /\ t_size'[r] = t_size[r]
            \/ t_size'[r] = Int16(PageHeader + StreamSize(stream'[r], Blocks)
                                             + ListBytes(deltas'[r]))
  PROVE  SizeInv'
<1> SUFFICES ASSUME NEW r \in Live'
             PROVE  t_size'[r] = Int16(PageHeader + StreamSize(stream'[r], Blocks)
                                                  + ListBytes(deltas'[r]))
  BY DEF SizeInv, OccupiedBytes
<1>1. r \in Pages
  BY DEF Live
<1>2. CASE /\ r \in Live /\ stream'[r] = stream[r]
           /\ deltas'[r] = deltas[r] /\ t_size'[r] = t_size[r]
  BY <1>2 DEF SizeInv, OccupiedBytes
<1> QED BY <1>1, <1>2

(* zapi_generate_page sets the size of what it writes.                     *)
LEMMA CountedCompress ==
  ASSUME PageTypes, SizeInv, status \in [Pages -> {"raw", "live", "moved", "torn"}],
         NEW q \in Pages, NEW data \in PageContent, NEW enc \in Attempts(data, 0), NEW thres,
         Compress(q, enc, thres)
  PROVE  PageTypes' /\ SizeInv'
<1>1. /\ stream \in [Pages -> Streams] /\ t_size \in [Pages -> Shorts]
      /\ deltas \in [Pages -> Seq(DeltaNodes)]
  BY DEF PageTypes
<1> DEFINE none == <<>>
<1>2. none \in Seq(DeltaNodes) /\ ListBytes(none) = 0
  BY NoBytes
<1>3. PageHeader \in Int /\ PageHeader \in Shorts
  <2>1. PageHeader \in Int /\ Int16(PageHeader) = PageHeader
    BY DEF PageHeader, Int16
  <2> QED BY <2>1, Int16Facts
<1>4. CASE thres < PageHeader
  <2>1. UNCHANGED <<status, stream, t_size, deltas>>
    BY <1>4 DEF Compress
  <2>2. PageTypes'
    BY <1>1, <2>1 DEF PageTypes
  <2>3. Live' = Live
    BY <2>1 DEF Live
  <2> QED BY <2>1, <2>2, <2>3, CountedPages
<1>5. CASE ~(thres < PageHeader) /\ Fits(enc, 0, thres)
  <2> DEFINE x == NewSize(enc, 0)
  <2>1. /\ deltas' = [deltas EXCEPT ![q] = none] /\ status' = [status EXCEPT ![q] = "live"]
        /\ stream' = [stream EXCEPT ![q] = enc] /\ t_size' = [t_size EXCEPT ![q] = x]
    BY <1>5 DEF Compress
  <2>2. enc \in Encodings(data, 0)
    BY <1>5 DEF Attempts, Fits
  <2>3. enc \in Streams /\ DOMAIN enc = Blocks
    BY <2>2, WholeEncoding
  <2>4. StreamSize(enc, Blocks) \in Int
    BY StreamSizeType
  <2>5. x = Int16(PageHeader + StreamSize(enc, Blocks) + ListBytes(none)) /\ x \in Shorts
    <3>1. PageHeader + 0 + StreamSize(enc, Blocks) = PageHeader + StreamSize(enc, Blocks) + 0
      BY <1>3, <2>4
    <3>2. x = Int16(PageHeader + StreamSize(enc, Blocks) + ListBytes(none))
      BY <1>2, <2>3, <3>1 DEF NewSize
    <3>3. PageHeader + StreamSize(enc, Blocks) + ListBytes(none) \in Int
      BY <1>2, <1>3, <2>4
    <3> QED BY <3>2, <3>3, Int16Facts
  <2> HIDE DEF x, none
  <2>6. /\ stream'[q] = enc /\ t_size'[q] = x /\ deltas'[q] = none
        /\ \A r \in Pages \ {q} : /\ stream'[r] = stream[r] /\ t_size'[r] = t_size[r]
                                  /\ deltas'[r] = deltas[r] /\ status'[r] = status[r]
    BY <1>1, <2>1
  <2>7. PageTypes'
    BY <1>1, <1>2, <2>1, <2>3, <2>5 DEF PageTypes
  <2> QED BY <2>5, <2>6, <2>7, CountedPages DEF Live
<1>6. CASE ~(thres < PageHeader) /\ ~Fits(enc, 0, thres)
  <2>1. /\ deltas' = [deltas EXCEPT ![q] = none] /\ status' = [status EXCEPT ![q] = "torn"]
        /\ stream' = stream /\ t_size' = [t_size EXCEPT ![q] = PageHeader]
    BY <1>6 DEF Compress
  <2> HIDE DEF none
  <2>2. /\ status'[q] = "torn"
        /\ \A r \in Pages \ {q} : /\ stream'[r] = stream[r] /\ t_size'[r] = t_size[r]
                                  /\ deltas'[r] = deltas[r] /\ status'[r] = status[r]
    BY <1>1, <2>1
  <2>3. PageTypes'
    BY <1>1, <1>2, <1>3, <2>1 DEF PageTypes
  <2>4. q \notin Live'
    BY <2>2 DEF Live
  <2> QED BY <2>2, <2>3, <2>4, CountedPages DEF Live
<1> QED BY <1>4, <1>5, <1>6

(* partial_recompression sets the size of the stream it writes, and        *)
(* move_deltas adds the nodes it keeps.                                    *)
LEMMA CountedRecompress ==
  ASSUME TypeOK, SizeInv, NEW p \in Pages, NEW q \in Pages, p # q, NEW first \in Blocks,
         NEW data \in PageContent, NEW enc \in Attempts(data, first), NEW thres,
         Recompress(p, q, first, enc, thres)
  PROVE  PageTypes' /\ SizeInv'
<1>1. /\ stream \in [Pages -> Streams] /\ t_size \in [Pages -> Shorts]
      /\ deltas \in [Pages -> Seq(DeltaNodes)]
      /\ status \in [Pages -> {"raw", "live", "moved", "torn"}]
  BY TypesAre DEF PageTypes
<1>2. p \in Pages /\ p # q
  OBVIOUS
<1> DEFINE none == <<>>
           K == Kept(p, first)
           head == HeadSize(p, first)
<1>3. none \in Seq(DeltaNodes) /\ K \in Seq(DeltaNodes) /\ head \in Int /\ PageHeader \in Int
  <2>1. deltas[p] \in Seq(DeltaNodes)
    BY <1>1, <1>2
  <2>2. K \in Seq(DeltaNodes)
    BY <2>1, KeptSelects DEF DeltaNodes
  <2>3. none \in Seq(DeltaNodes)
    OBVIOUS
  <2> QED BY <2>2, <2>3, StreamSizeType, ConstantTypes DEF HeadSize
<1>4. CASE Fits(enc, head, thres)
  <2> DEFINE s1 == Stitch(stream[p], enc, first)
             size == PageHeader + head + StreamSize(enc, DOMAIN enc)
             x == Int16(Int16(size) + ListBytes(K))
  <2>1. /\ deltas' = [deltas EXCEPT ![p] = none, ![q] = K]
        /\ status' = [status EXCEPT ![p] = "moved", ![q] = "live"]
        /\ stream' = [stream EXCEPT ![q] = s1]
        /\ t_size' = [t_size EXCEPT ![q] = x]
    BY <1>4 DEF Recompress, MoveDeltas, Stitch, NewSize, KeptBytes
  <2>2. enc \in Encodings(data, first)
    BY <1>4, FitsEncodes
  <2>3. s1 \in Streams /\ StreamSize(s1, Blocks) = head + StreamSize(enc, DOMAIN enc)
    BY <1>1, <1>2, <2>2, Stitched DEF HeadSize
  <2>4. StreamSize(enc, DOMAIN enc) \in Int /\ ListBytes(K) \in Int
    BY <1>3, StreamSizeType, ListBytesType
  <2>5. x = Int16(PageHeader + StreamSize(s1, Blocks) + ListBytes(K)) /\ x \in Shorts
    <3>1. size \in Int
      BY <1>3, <2>4
    <3>2. size + ListBytes(K) = PageHeader + StreamSize(s1, Blocks) + ListBytes(K)
      BY <1>3, <2>3, <2>4
    <3> DEFINE kept == ListBytes(K)
    <3>a. kept \in Int /\ x = Int16(Int16(size) + kept)
      BY <2>4
    <3> HIDE DEF size, kept, x
    <3>b. x = Int16(size + kept) /\ size + kept \in Int
      BY <3>1, <3>a, Int16Facts
    <3>3. x = Int16(size + ListBytes(K)) /\ size + ListBytes(K) \in Int
      BY <3>b DEF kept
    <3>4. x \in Shorts
      BY <3>3, Int16Facts
    <3> QED BY <3>2, <3>3, <3>4
  <2> HIDE DEF x, none, K, s1
  <2>6. /\ stream'[q] = s1 /\ t_size'[q] = x /\ deltas'[q] = K /\ status'[p] = "moved"
        /\ \A r \in Pages \ {p, q} : /\ stream'[r] = stream[r] /\ t_size'[r] = t_size[r]
                                     /\ deltas'[r] = deltas[r] /\ status'[r] = status[r]
    BY <1>1, <1>2, <2>1
  <2>7. PageTypes'
    BY <1>1, <1>3, <2>1, <2>3, <2>5 DEF PageTypes
  <2>8. p \notin Live'
    BY <2>6 DEF Live
  <2> QED BY <2>5, <2>6, <2>7, <2>8, CountedPages DEF Live
<1>5. CASE ~Fits(enc, head, thres)
  <2> DEFINE x == Int16(PageHeader + head)
  <2>1. /\ deltas' = deltas /\ status' = [status EXCEPT ![q] = "torn"]
        /\ stream' = stream /\ t_size' = [t_size EXCEPT ![q] = x]
    BY <1>5 DEF Recompress
  <2>2. x \in Shorts
    BY <1>3, Int16Facts
  <2> HIDE DEF x
  <2>3. /\ status'[q] = "torn"
        /\ \A r \in Pages \ {q} : t_size'[r] = t_size[r] /\ status'[r] = status[r]
    BY <1>1, <2>1
  <2>4. PageTypes'
    BY <1>1, <2>1, <2>2 DEF PageTypes
  <2>5. q \notin Live'
    BY <2>3 DEF Live
  <2> QED BY <2>1, <2>3, <2>4, <2>5, CountedPages DEF Live
<1> QED BY <1>4, <1>5

(* A step that leaves the pages alone leaves their sizes right.            *)
LEMMA CountedStutter ==
  ASSUME PageTypes, SizeInv, UNCHANGED <<status, stream, t_size, deltas>>
  PROVE  PageTypes' /\ SizeInv'
<1>1. PageTypes'
  BY DEF PageTypes
<1>2. Live' = Live
  BY DEF Live
<1> QED BY <1>1, <1>2, CountedPages

(* zapi_free_page leaves a buffer without a page.                          *)
LEMMA CountedFree ==
  ASSUME TypeOK, SizeInv, NEW p \in Pages, Free(p)
  PROVE  PageTypes' /\ SizeInv'
<1>1. /\ stream \in [Pages -> Streams] /\ t_size \in [Pages -> Shorts]
      /\ deltas \in [Pages -> Seq(DeltaNodes)]
      /\ status \in [Pages -> {"raw", "live", "moved", "torn"}]
  BY TypesAre DEF PageTypes
<1> DEFINE none == <<>>
           zero == 0
<1>2. none \in Seq(DeltaNodes) /\ zero \in Shorts
  <2>1. zero \in Int /\ Int16(zero) = zero
    BY DEF Int16
  <2>2. none \in Seq(DeltaNodes)
    OBVIOUS
  <2> QED BY <2>1, <2>2, Int16Facts
<1>3. /\ status' = [status EXCEPT ![p] = "raw"] /\ stream' = [stream EXCEPT ![p] = Empty]
      /\ t_size' = [t_size EXCEPT ![p] = zero] /\ deltas' = [deltas EXCEPT ![p] = none]
  BY DEF Free
<1> HIDE DEF none, zero
<1>4. /\ status'[p] = "raw"
      /\ \A r \in Pages \ {p} : /\ stream'[r] = stream[r] /\ t_size'[r] = t_size[r]
                                /\ deltas'[r] = deltas[r] /\ status'[r] = status[r]
  BY <1>1, <1>3
<1>5. PageTypes'
  BY <1>1, <1>2, <1>3, EmptyType DEF PageTypes
<1>6. p \notin Live'
  BY <1>4 DEF Live
<1> QED BY <1>4, <1>5, <1>6, CountedPages DEF Live

(* An update with a delta counts what it stores.                           *)
LEMMA CountedDelta ==
  ASSUME TypeOK, SizeInv, NEW p \in Pages, NEW b \in Blocks, NEW v \in Content,
         NEW lim, NEW disable, UpdateDelta(p, b, v, lim, disable)
  PROVE  PageTypes' /\ SizeInv'
<1>1. PageTypes
  BY TypesAre
<1>2. p \in Live /\ status' = status /\ stream' = stream
  BY DEF UpdateDelta, Live
<1>3. CASE UNCHANGED <<t_size, deltas, pool>>
  BY <1>1, <1>2, <1>3, CountedStutter
<1>4. CASE UpdateDeltaList(p, b, XOR(v, Base(p)[b]))
  <2> DEFINE flips == XOR(v, Base(p)[b])
  <2>1. flips \in Content
    BY BaseType, XORType DEF PageContent
  <2> HIDE DEF flips
  <2>2. t_size[p] = Int16(OccupiedBytes(p))
    BY <1>2 DEF SizeInv
  <2>3. UpdateDeltaList(p, b, flips)
    BY <1>4 DEF flips
  <2>4. /\ deltas' \in [Pages -> Seq(DeltaNodes)]
        /\ t_size' \in [Pages -> Shorts]
        /\ \A r \in Pages \ {p} : deltas'[r] = deltas[r] /\ t_size'[r] = t_size[r]
        /\ t_size'[p] =
               Int16(PageHeader + StreamSize(stream[p], Blocks) + ListBytes(deltas'[p]))
    BY <2>1, <2>2, <2>3, CountedUpdate
  <2>5. PageTypes'
    BY <1>1, <1>2, <2>4 DEF PageTypes
  <2> QED BY <1>2, <2>4, <2>5, CountedPages DEF Live
<1> QED BY <1>3, <1>4 DEF UpdateDelta

(* Every page's variables have their types and its size counts what it     *)
(* occupies, in every reachable state; the pool and the buffers' states    *)
(* have theirs by MemoryInv.                                               *)
PageInv == PageTypes /\ SizeInv

(* With MemoryInv they are TypeOK.                                         *)
LEMMA InvariantsType == MemoryInv /\ PageTypes => TypeOK
BY TypesAre DEF MemoryInv

(* At first no buffer holds a page.                                        *)
LEMMA InitCounted ==
  ASSUME Init
  PROVE  PageInv
<1> DEFINE none == <<>>
           zero == 0
<1>1. none \in Seq(DeltaNodes) /\ zero \in Shorts
  <2>1. zero \in Int /\ Int16(zero) = zero
    BY DEF Int16
  <2>2. none \in Seq(DeltaNodes)
    OBVIOUS
  <2> QED BY <2>1, <2>2, Int16Facts
<1>2. /\ status = [p \in Pages |-> "raw"] /\ stream = [p \in Pages |-> Empty]
      /\ t_size = [p \in Pages |-> zero] /\ deltas = [p \in Pages |-> none]
  BY DEF Init
<1> HIDE DEF none, zero
<1>3. PageTypes
  BY <1>1, <1>2, EmptyType DEF PageTypes
<1>4. SizeInv
  BY <1>2 DEF SizeInv, Live
<1> QED BY <1>3, <1>4 DEF PageInv

(* Every call keeps the nodes owned, the variables typed and the sizes     *)
(* those of what the pages occupy, C's 16 bit arithmetic included.         *)
THEOREM PageInvariant == Spec => [](MemoryInv /\ PageInv)
<1>1. Init => PageInv
  BY InitCounted
<1>2. MemoryInv /\ PageInv /\ [Next]_vars => PageInv'
  <2> SUFFICES ASSUME MemoryInv, PageInv, [Next]_vars PROVE PageTypes' /\ SizeInv'
    BY DEF PageInv
  <2>1. /\ TypeOK /\ PageTypes /\ SizeInv
        /\ status \in [Pages -> {"raw", "live", "moved", "torn"}]
    BY InvariantsType DEF PageInv, MemoryInv
  <2>2. \A p \in Live : p \in Pages
    BY DEF Live
  <2>3. ASSUME NEW p \in Pages, NEW src \in Sources, NEW thres, NEW enc \in Attempts(src, 0),
               Generate(p, src, enc, thres)
        PROVE  PageTypes' /\ SizeInv'
    <3>1. src \in PageContent /\ Compress(p, enc, thres)
      BY <2>3, PrcPageAssumption DEF Generate
    <3> QED BY <2>1, <2>3, <3>1, CountedCompress
  <2>4. ASSUME NEW p \in Pages, Free(p) PROVE PageTypes' /\ SizeInv'
    BY <2>1, <2>4, CountedFree
  <2>5. ASSUME NEW p \in Live, NEW b \in Blocks, NEW v \in Content, NEW lim, NEW disable,
               UpdateDelta(p, b, v, lim, disable)
        PROVE  PageTypes' /\ SizeInv'
    BY <2>1, <2>2, <2>5, CountedDelta
  <2>6. ASSUME NEW p \in Live, NEW b \in Blocks, NEW v, NEW lim, UpdateScratch(p, b, v, lim)
        PROVE  PageTypes' /\ SizeInv'
    BY <2>1, <2>6, CountedStutter DEF UpdateScratch
  <2>7. ASSUME NEW p \in Live, NEW n, Decompress(p, n) PROVE PageTypes' /\ SizeInv'
    BY <2>1, <2>7, CountedStutter DEF Decompress
  <2>8. ASSUME NEW p \in Live, NEW b, NEW old, ApplyDelta(p, b, old) PROVE PageTypes' /\ SizeInv'
    BY <2>1, <2>8, CountedStutter DEF ApplyDelta
  <2>9. ASSUME NEW p \in Live, NEW q \in Pages \ Live, NEW thres, NEW b \in Blocks,
               NEW v \in Content, NEW lim, NEW enc \in Attempts(UpdatedTail(p, b, v), b),
               UpdateRecompress(p, q, b, v, lim, enc, thres)
        PROVE  PageTypes' /\ SizeInv'
    <3> DEFINE data == UpdatedTail(p, b, v)
    <3>1. data \in PageContent
      BY <2>1, <2>2, CompressedPages
    <3>2. p \in Pages /\ p # q /\ Recompress(p, q, b, enc, thres)
      BY <2>9 DEF UpdateRecompress, Live
    <3>3. enc \in Attempts(data, b)
      OBVIOUS
    <3> HIDE DEF data
    <3> QED BY <2>1, <3>1, <3>2, <3>3, CountedRecompress
  <2>10. ASSUME NEW p \in Live, NEW q \in Pages \ Live, NEW thres, NEW first \in Blocks,
                NEW n, NEW enc \in Attempts(DeletedPage(p, first, n), first),
                Delete(p, q, first, n, enc, thres)
         PROVE  PageTypes' /\ SizeInv'
    <3> DEFINE data == DeletedPage(p, first, n)
    <3>1. data \in PageContent
      BY <2>1, <2>2, CompressedPages
    <3>2. p \in Pages /\ p # q /\ Recompress(p, q, first, enc, thres)
      BY <2>10 DEF Delete, Live
    <3>3. enc \in Attempts(data, first)
      OBVIOUS
    <3> HIDE DEF data
    <3> QED BY <2>1, <3>1, <3>2, <3>3, CountedRecompress
  <2>11. ASSUME NEW p \in Live, NEW q \in Pages \ Live, NEW thres, NEW force,
                NEW enc \in Attempts(PageReads(p), 0), Pack(p, q, force, enc, thres)
         PROVE  PageTypes' /\ SizeInv'
    <3> DEFINE data == PageReads(p)
               none == 0
    <3>1. data \in PageContent
      BY <2>1, <2>2, CompressedPages, ConstantTypes
    <3>2. \/ UNCHANGED <<status, stream, t_size, deltas>>
          \/ Compress(q, enc, thres)
      BY <2>11 DEF Pack
    <3>3. enc \in Attempts(data, 0)
      OBVIOUS
    <3> HIDE DEF data
    <3> QED BY <2>1, <3>1, <3>2, <3>3, CountedStutter, CountedCompress
  <2>12. CASE UNCHANGED vars
    BY <2>1, <2>12, CountedStutter DEF vars
  <2>13. CASE Next
    BY <2>3, <2>4, <2>5, <2>6, <2>7, <2>8, <2>9, <2>10, <2>11, <2>13 DEF Next
  <2> QED BY <2>12, <2>13
<1> QED BY <1>1, <1>2, Ownership, PTL DEF Spec

(* Every variable keeps its type (TypeOK).                                 *)
THEOREM TypeCorrect == Spec => []TypeOK
<1>1. MemoryInv /\ PageInv => TypeOK
  BY InvariantsType DEF PageInv
<1> QED BY <1>1, PageInvariant, PTL

(* zapi_page_size is what the page occupies as long as a short can hold    *)
(* that: the count is never off but by a multiple of 2^16.                 *)
ExactUpToOverflow ==
    \A p \in Live : OccupiedBytes(p) <= MaxShort => t_size[p] = OccupiedBytes(p)

(* A stream has no more than NumBlocks encodings.                          *)
LEMMA StreamBounded ==
  ASSUME NEW s, NEW S, NEW c \in Nat, LiteralSize <= c, CopySize <= c
  PROVE  StreamSize(s, S) \in 0..(NumBlocks * c)
<1> DEFINE f == [n \in 1..NumBlocks |-> IF n - 1 \in S THEN EncodedSize(s[n - 1]) ELSE 0]
<1>1. \A e : EncodedSize(e) \in Nat /\ EncodedSize(e) <= c
  BY ConstantTypes DEF EncodedSize
<1>2. \A n \in 1..NumBlocks : f[n] \in 0..c
  <2> TAKE n \in 1..NumBlocks
  <2>1. f[n] = IF n - 1 \in S THEN EncodedSize(s[n - 1]) ELSE 0
    OBVIOUS
  <2> HIDE DEF f
  <2> QED BY <1>1, <2>1
<1>3. StreamSize(s, S) = SumUpTo(NumBlocks, f)
  BY DEF StreamSize
<1> HIDE DEF f
<1> QED BY <1>2, <1>3, ConstantTypes, SumBounded

(* A list with one node per block has no more nodes than blocks, and no    *)
(* node is larger than its header, a length byte and 255 bytes.            *)
LEMMA ListBounded ==
  ASSUME NEW list \in Seq(DeltaNodes), Distinct(list)
  PROVE  ListBytes(list) \in Nat /\ ListBytes(list) <= NumBlocks * 266
<1> DEFINE n == Len(list)
           f == [k \in DOMAIN list |-> Payload(list[k]) + NodeHeader]
           c == 266
<1>1. n \in Nat /\ DOMAIN list = 1..n /\ \A k \in 1..n : list[k] \in DeltaNodes
  BY LenProperties, ElementOfSeq
<1>2. \A k \in 1..n : Payload(list[k]) \in Nat /\ Payload(list[k]) <= 256
  BY <1>1, NodeBytesType
<1>3. \A k \in 1..n : f[k] = Payload(list[k]) + NodeHeader
  BY <1>1
<1>4. ListBytes(list) = SumUpTo(n, f)
  BY DEF ListBytes
<1> HIDE DEF f, n
<1>5. \A k \in 1..n : f[k] \in 0..c
  <2> TAKE k \in 1..n
  <2>1. f[k] \in Nat /\ f[k] <= 266
    <3> DEFINE y == Payload(list[k])
    <3>1. y \in Nat /\ y <= 256 /\ f[k] = y + NodeHeader
      BY <1>2, <1>3
    <3> HIDE DEF y
    <3> QED BY <3>1 DEF NodeHeader
  <2>2. f[k] \in Nat /\ c \in Nat /\ f[k] <= c
    BY <2>1
  <2> HIDE DEF c
  <2> QED BY <2>2
<1>6. c \in Nat
  OBVIOUS
<1>7. SumUpTo(n, f) \in Nat /\ SumUpTo(n, f) <= n * 266
  <2> HIDE DEF c
  <2>1. SumUpTo(n, f) \in 0..(n * c)
    BY <1>1, <1>5, <1>6, SumBounded
  <2>2. n * c \in Nat
    BY <1>1, <1>6
  <2>3. SumUpTo(n, f) \in Nat /\ SumUpTo(n, f) <= n * c
    BY <2>1, <2>2
  <2> QED BY <2>3 DEF c
<1>8. n <= NumBlocks
  <2> SUFFICES ASSUME NumBlocks < n PROVE FALSE
    BY <1>1, ConstantTypes
  <2> DEFINE id == [k \in 1..n |-> list[k].id]
  <2>1. id \in [1..n -> Blocks]
    BY <1>1 DEF DeltaNodes, Nodes
  <2>2. IsFiniteSet(1..n) /\ Cardinality(1..n) = n
    BY <1>1, FS_Interval
  <2>3. IsFiniteSet(Blocks) /\ Cardinality(Blocks) = NumBlocks
    <3>1. NumBlocks - 1 \in Int /\ 0 <= NumBlocks - 1 /\ (NumBlocks - 1) - 0 + 1 = NumBlocks
      BY ConstantTypes
    <3>2. IsFiniteSet(0..(NumBlocks - 1))
          /\ Cardinality(0..(NumBlocks - 1)) = NumBlocks
      BY <3>1, FS_Interval
    <3> QED BY <3>2 DEF Blocks
  <2> HIDE DEF id
  <2>4. \E j, k \in 1..n : j # k /\ id[j] = id[k]
    BY <2>1, <2>2, <2>3, FS_PigeonHole
  <2> QED BY <1>1, <2>4 DEF id, Distinct
<1>9. n * 266 <= NumBlocks * 266
  BY <1>1, <1>8, ConstantTypes
<1> QED BY <1>1, <1>4, <1>7, <1>9, ConstantTypes

(* What a page occupies is bounded by its blocks, each with a delta.       *)
LEMMA OccupiedType ==
  ASSUME MemoryInv, PageInv, NEW p \in Live
  PROVE  /\ OccupiedBytes(p) \in Nat
         /\ \A c \in Nat : LiteralSize <= c /\ CopySize <= c =>
                OccupiedBytes(p) <= PageHeader + NumBlocks * c + NumBlocks * 266
<1>1. p \in Pages /\ deltas[p] \in Seq(DeltaNodes) /\ Distinct(deltas[p])
  BY DEF Live, PageInv, PageTypes, MemoryInv, OneDeltaPerBlock, Distinct
<1> DEFINE x == StreamSize(stream[p], Blocks)
           y == ListBytes(deltas[p])
           z == NumBlocks * 266
<1>2. y \in Nat /\ y <= z
  BY <1>1, ListBounded
<1>3. \A c \in Nat : LiteralSize <= c /\ CopySize <= c => x \in 0..(NumBlocks * c)
  BY StreamBounded
<1>4. OccupiedBytes(p) = PageHeader + x + y /\ PageHeader \in Nat
  BY ConstantTypes DEF OccupiedBytes
<1>5. z \in Nat /\ \A c \in Nat : NumBlocks * c \in Nat
  BY ConstantTypes
<1> HIDE DEF x, y, z
<1>6. \A c \in Nat : LiteralSize <= c /\ CopySize <= c => x \in Nat /\ x <= NumBlocks * c
  BY <1>3, <1>5
<1>7. \A c \in Nat : LiteralSize <= c /\ CopySize <= c =>
          OccupiedBytes(p) <= PageHeader + NumBlocks * c + z
  BY <1>2, <1>4, <1>5, <1>6
<1>8. LiteralSize + CopySize \in Nat /\ LiteralSize <= LiteralSize + CopySize
      /\ CopySize <= LiteralSize + CopySize
  BY ConstantTypes
<1>9. x \in Nat
  BY <1>6, <1>8
<1>10. OccupiedBytes(p) \in Nat
  BY <1>2, <1>4, <1>9
<1> QED BY <1>7, <1>10 DEF z

(* The size in the header is exact until it overflows, with no assumption  *)
(* on the sizes of blocks, nodes and pages.                                *)
THEOREM SizeExactUpToOverflow == Spec => []ExactUpToOverflow
<1>1. MemoryInv /\ PageInv => ExactUpToOverflow
  <2> SUFFICES ASSUME MemoryInv, PageInv, NEW p \in Live, OccupiedBytes(p) <= MaxShort
               PROVE  t_size[p] = OccupiedBytes(p)
    BY DEF ExactUpToOverflow
  <2>1. t_size[p] = Int16(OccupiedBytes(p))
    BY DEF PageInv, SizeInv
  <2>2. OccupiedBytes(p) \in Nat
    BY OccupiedType
  <2>3. OccupiedBytes(p) \in Int /\ MinShort <= OccupiedBytes(p)
    BY <2>2 DEF MinShort
  <2> QED BY <2>1, <2>3, Int16Facts
<1> QED BY <1>1, PageInvariant, PTL

(* Pages of NumBlocks blocks, each with a delta, fit a short.              *)
ShortPages ==
    \A c \in {LiteralSize, CopySize} :
        PageHeader + NumBlocks * c + NumBlocks * 266 <= MaxShort

(* zapi_page_size is what a page occupies, if pages fit a short at all,    *)
(* also after move_deltas counted its nodes anew in another page.          *)
THEOREM SizeExact ==
  ASSUME ShortPages
  PROVE  Spec => []SizeIsExact
<1>1. MemoryInv /\ PageInv /\ ExactUpToOverflow => SizeIsExact
  <2> SUFFICES ASSUME MemoryInv, PageInv, ExactUpToOverflow, NEW p \in Live
               PROVE  t_size[p] = OccupiedBytes(p)
    BY DEF SizeIsExact
  <2>1. PICK c \in {LiteralSize, CopySize} : LiteralSize <= c /\ CopySize <= c
    BY ConstantTypes
  <2>2. c \in Nat
    BY <2>1, ConstantTypes
  <2>3. /\ OccupiedBytes(p) <= PageHeader + NumBlocks * c + NumBlocks * 266
        /\ PageHeader + NumBlocks * c + NumBlocks * 266 <= MaxShort
    BY <2>1, <2>2, OccupiedType DEF ShortPages
  <2>4. /\ OccupiedBytes(p) \in Int /\ MaxShort \in Int
        /\ PageHeader + NumBlocks * c + NumBlocks * 266 \in Int
    BY <2>2, OccupiedType, ConstantTypes DEF MaxShort
  <2>5. OccupiedBytes(p) <= MaxShort
    BY <2>3, <2>4
  <2> QED BY <2>5 DEF ExactUpToOverflow
<1> QED BY <1>1, PageInvariant, SizeExactUpToOverflow, PTL

-----------------------------------------------------------------------------
(* Answers *)

(* The budgets a client passes fit a short, as the sizes it is answered do. *)
ShortBudgets == \A thres \in Thresholds : thres <= MaxShort

(* The two outcomes of a recompression.                                    *)
Moved(p, q, first, enc, code) ==
    /\ code > 0
    /\ code = PageHeader + StreamSize(Stitch(stream[p], enc, first), Blocks)
    /\ status' = [status EXCEPT ![p] = "moved", ![q] = "live"]
    /\ stream' = [stream EXCEPT ![q] = Stitch(stream[p], enc, first)]
    /\ deltas' = [deltas EXCEPT ![p] = <<>>, ![q] = Kept(p, first)]

NotMoved(q, code) ==
    /\ code = 0
    /\ status' = [status EXCEPT ![q] = "torn"]
    /\ UNCHANGED <<stream, deltas>>

(* A recompression that succeeds answers the size of the stream it wrote,  *)
(* moves the page and the list; one that fails answers 0 and moves nothing. *)
LEMMA RecompressEffect ==
  ASSUME ShortBudgets, TypeOK, NEW p \in Live, NEW q \in Pages, NEW first \in Blocks,
         NEW data \in PageContent, NEW enc \in Attempts(data, first),
         NEW thres \in Thresholds, Recompress(p, q, first, enc, thres)
  PROVE  LET code == RecompressCode(p, first, enc, thres)
         IN  \/ enc \in Encodings(data, first) /\ Moved(p, q, first, enc, code)
             \/ NotMoved(q, code)
<1> DEFINE code == RecompressCode(p, first, enc, thres)
           head == HeadSize(p, first)
<1>1. p \in Pages /\ stream[p] \in Streams
  BY BaseType DEF Live
<1>2. CASE Fits(enc, head, thres)
  <2> DEFINE tail == StreamSize(enc, DOMAIN enc)
             s1 == Stitch(stream[p], enc, first)
  <2>1. enc \in Encodings(data, first)
    BY <1>2, FitsEncodes
  <2>2. StreamSize(s1, Blocks) = head + tail
    BY <1>1, <2>1, Stitched DEF HeadSize
  <2>3. head \in Nat /\ tail \in Nat
    <3> DEFINE c == LiteralSize + CopySize
    <3>1. c \in Nat /\ LiteralSize <= c /\ CopySize <= c /\ NumBlocks * c \in Nat
      BY ConstantTypes
    <3> HIDE DEF c
    <3>2. head \in 0..(NumBlocks * c) /\ tail \in 0..(NumBlocks * c)
      BY <3>1, StreamBounded DEF HeadSize
    <3> HIDE DEF head, tail
    <3> QED BY <3>1, <3>2
  <2>4. PageHeader + head + tail <= thres
    BY <1>2 DEF Fits
  <2>5. code = Int16(PageHeader + head + tail)
    BY <1>2 DEF RecompressCode, NewSize
  <2>6. /\ status' = [status EXCEPT ![p] = "moved", ![q] = "live"]
        /\ stream' = [stream EXCEPT ![q] = s1]
        /\ deltas' = [deltas EXCEPT ![p] = <<>>, ![q] = Kept(p, first)]
    BY <1>2 DEF Recompress, MoveDeltas, Stitch
  <2>7. thres \in Nat /\ thres <= MaxShort
    BY PrcPageAssumption DEF ShortBudgets
  <2> HIDE DEF head, tail, code, s1
  <2>8. code = PageHeader + StreamSize(s1, Blocks) /\ code > 0
    <3> DEFINE x == PageHeader + head + tail
    <3>1. x \in Nat /\ x <= thres /\ x > 0
      BY <2>3, <2>4 DEF PageHeader
    <3>2. x = PageHeader + StreamSize(s1, Blocks)
      BY <2>2, <2>3, ConstantTypes
    <3> HIDE DEF x
    <3>3. x \in Int /\ MinShort <= x /\ x <= MaxShort
      BY <2>7, <3>1 DEF MinShort, MaxShort
    <3>4. code = x
      BY <2>5, <3>3, Int16Facts DEF x
    <3> QED BY <3>1, <3>2, <3>4
  <2>9. Moved(p, q, first, enc, code)
    BY <2>6, <2>8 DEF Moved, s1
  <2> QED BY <2>1, <2>9 DEF code
<1>3. CASE ~Fits(enc, head, thres)
  <2>1. NotMoved(q, code)
    BY <1>3 DEF Recompress, RecompressCode, NotMoved
  <2> QED BY <2>1
<1> QED BY <1>2, <1>3

(* What a call answers as the new page's size is what the client must copy *)
(* out of the new buffer, and 0 only when there is no new page.            *)
THEOREM AnswerExact ==
  ASSUME ShortBudgets
  PROVE  Spec => []AnswerIsBufferSize
<1>1. Init => AnswerIsBufferSize
  BY DEF Init, AnswerIsBufferSize
<1>2. TypeOK /\ AnswerIsBufferSize /\ [Next]_vars => AnswerIsBufferSize'
  <2> SUFFICES ASSUME TypeOK, AnswerIsBufferSize, [Next]_vars PROVE AnswerIsBufferSize'
    OBVIOUS
  <2>1. \A p \in Live : p \in Pages
    BY DEF Live
(* Where a call moves a page, or fails to.                                 *)
  <2>2. ASSUME NEW p \in Live, NEW q \in Pages \ Live, NEW first \in Blocks,
               NEW data \in PageContent, NEW enc \in Attempts(data, first),
               NEW thres \in Thresholds, Recompress(p, q, first, enc, thres)
        PROVE  LET code == RecompressCode(p, first, enc, thres)
               IN  IF status'[q] = "live"
                   THEN code = PageHeader + StreamSize(stream'[q], Blocks)
                   ELSE code = 0
    <3> DEFINE code == RecompressCode(p, first, enc, thres)
    <3>1. \/ Moved(p, q, first, enc, code)
          \/ NotMoved(q, code)
      BY <2>2, RecompressEffect
    <3> HIDE DEF code
    <3>2. status \in [Pages -> {"raw", "live", "moved", "torn"}] /\ stream \in [Pages -> Streams]
      BY TypesAre DEF PageTypes
    <3>3. ASSUME Moved(p, q, first, enc, code)
          PROVE  status'[q] = "live" /\ code = PageHeader + StreamSize(stream'[q], Blocks)
      <4> DEFINE s1 == Stitch(stream[p], enc, first)
      <4>1. /\ code = PageHeader + StreamSize(s1, Blocks)
            /\ status' = [status EXCEPT ![p] = "moved", ![q] = "live"]
            /\ stream' = [stream EXCEPT ![q] = s1]
        BY <3>3 DEF Moved
      <4> HIDE DEF s1
      <4>2. status'[q] = "live" /\ stream'[q] = s1
        BY <2>1, <3>2, <4>1
      <4> QED BY <4>1, <4>2
    <3>4. ASSUME NotMoved(q, code) PROVE status'[q] # "live" /\ code = 0
      BY <3>2, <3>4 DEF NotMoved
    <3> QED BY <3>1, <3>3, <3>4 DEF code
  <2>3. ASSUME NEW p \in Live, NEW q \in Pages \ Live, NEW thres \in Thresholds,
               NEW b \in Blocks, NEW v \in Content, NEW lim,
               NEW enc \in Attempts(UpdatedTail(p, b, v), b),
               UpdateRecompress(p, q, b, v, lim, enc, thres)
        PROVE  AnswerIsBufferSize'
    <3> DEFINE data == UpdatedTail(p, b, v)
               code == RecompressCode(p, b, enc, thres)
    <3>1. data \in PageContent /\ Recompress(p, q, b, enc, thres)
      BY <2>1, <2>3, CompressedPages DEF UpdateRecompress
    <3>2. enc \in Attempts(data, b)
      OBVIOUS
    <3>3. ret'.op = "update" /\ ret'.new = q /\ ret'.size = code
      BY <2>3 DEF UpdateRecompress, Answer
    <3> HIDE DEF data, code
    <3>4. IF status'[q] = "live" THEN code = PageHeader + StreamSize(stream'[q], Blocks)
          ELSE code = 0
      BY <2>2, <3>1, <3>2 DEF code
    <3> QED BY <3>3, <3>4 DEF AnswerIsBufferSize
  <2>4. ASSUME NEW p \in Live, NEW q \in Pages \ Live, NEW thres \in Thresholds,
               NEW first \in Blocks, NEW n,
               NEW enc \in Attempts(DeletedPage(p, first, n), first),
               Delete(p, q, first, n, enc, thres)
        PROVE  AnswerIsBufferSize'
    <3> DEFINE data == DeletedPage(p, first, n)
               code == RecompressCode(p, first, enc, thres)
    <3>1. data \in PageContent /\ Recompress(p, q, first, enc, thres)
      BY <2>1, <2>4, CompressedPages DEF Delete
    <3>2. enc \in Attempts(data, first)
      OBVIOUS
    <3>3. ret'.op = "delete" /\ ret'.new = q /\ ret'.code = code
      BY <2>4 DEF Delete, Answer
    <3> HIDE DEF data, code
    <3>4. IF status'[q] = "live" THEN code = PageHeader + StreamSize(stream'[q], Blocks)
          ELSE code = 0
      BY <2>2, <3>1, <3>2 DEF code
    <3> QED BY <3>3, <3>4 DEF AnswerIsBufferSize
(* The other calls answer about one page.                                  *)
  <2>5. ASSUME NEW p \in Pages, NEW src, NEW thres, NEW enc, Generate(p, src, enc, thres)
        PROVE  AnswerIsBufferSize'
    BY <2>5 DEF Generate, Answer, AnswerIsBufferSize
  <2>6. ASSUME NEW p \in Pages, Free(p) PROVE AnswerIsBufferSize'
    BY <2>6 DEF Free, Answer, AnswerIsBufferSize
  <2>7. ASSUME NEW p \in Live, NEW b, NEW v, NEW lim, NEW disable,
               UpdateDelta(p, b, v, lim, disable)
        PROVE  AnswerIsBufferSize'
    BY <2>7 DEF UpdateDelta, Answer, AnswerIsBufferSize
  <2>8. ASSUME NEW p \in Live, NEW b, NEW v, NEW lim, UpdateScratch(p, b, v, lim)
        PROVE  AnswerIsBufferSize'
    BY <2>8 DEF UpdateScratch, Answer, AnswerIsBufferSize
  <2>9. ASSUME NEW p \in Live, NEW n, Decompress(p, n) PROVE AnswerIsBufferSize'
    BY <2>9 DEF Decompress, Answer, AnswerIsBufferSize
  <2>10. ASSUME NEW p \in Live, NEW b, NEW old, ApplyDelta(p, b, old) PROVE AnswerIsBufferSize'
    BY <2>10 DEF ApplyDelta, Answer, AnswerIsBufferSize
  <2>11. ASSUME NEW p \in Live, NEW q, NEW thres, NEW force, NEW enc,
                Pack(p, q, force, enc, thres)
         PROVE  AnswerIsBufferSize'
    <3>1. ret'.op = "pack"
      BY <2>11 DEF Pack, Answer
    <3> QED BY <3>1 DEF AnswerIsBufferSize
  <2>12. CASE UNCHANGED vars
    BY <2>12 DEF vars, AnswerIsBufferSize
  <2>13. CASE Next
    BY <2>3, <2>4, <2>5, <2>6, <2>7, <2>8, <2>9, <2>10, <2>11, <2>13 DEF Next
  <2> QED BY <2>12, <2>13
<1> QED BY <1>1, <1>2, TypeCorrect, PTL DEF Spec

-----------------------------------------------------------------------------
(* What move_deltas keeps *)

(* All the nodes of blocks before `first' and no others.                   *)
KeepsBelow(K, D, n, first) ==
    /\ \A i \in DOMAIN K : K[i].id < first
    /\ \A j \in 1..n : D[j].id < first => \E i \in DOMAIN K : K[i] = D[j]

(* move_deltas keeps them.                                                 *)
LEMMA KeptAreBelow ==
  ASSUME NEW F, NEW p, NEW first, deltas[p] \in Seq(Nodes(F))
  PROVE  KeepsBelow(Kept(p, first), deltas[p], Len(deltas[p]), first)
<1> DEFINE D == deltas[p]
           n == Len(D)
           T == Seq(Nodes(F))
<1>1. n \in Nat /\ DOMAIN D = 1..n /\ \A k \in 1..n : D[k] \in Nodes(F)
  BY LenProperties, ElementOfSeq
<1>2. PICK after : KeepSteps(after, D, first) /\ Kept(p, first) = after[n]
  BY KeptLoop
<1>3. /\ after[0] = <<>>
      /\ \A k \in 1..n : after[k] = KeepStep(after[k - 1], D[k], first)
  BY <1>2 DEF KeepSteps
<1>4. <<>> \in T
  OBVIOUS
<1> HIDE DEF D, n, T
<1> DEFINE Good(k) == after[k] \in T /\ KeepsBelow(after[k], D, k, first)
           Bad == {k \in 0..n : ~Good(k)}
<1>5. Bad = {}
  <2> SUFFICES ASSUME Bad # {} PROVE FALSE
    OBVIOUS
  <2>1. Bad \in SUBSET Nat
    BY <1>1
  <2>2. PICK k \in Bad : \A j \in Bad : k <= j
    <3> HIDE DEF Bad
    <3> QED BY <2>1, LeastNatural
  <2>3. Good(0)
    <3>1. KeepsBelow(<<>>, D, 0, first)
      BY DEF KeepsBelow
    <3> QED BY <1>3, <1>4, <3>1
  <2>4. k \in 0..n /\ ~Good(k)
    BY <2>2
  <2>5. k \in 1..n /\ k - 1 \in 0..n /\ k - 1 \notin Bad
    <3> HIDE DEF Good
    <3>1. k # 0
      BY <2>3, <2>4
    <3>2. k - 1 \in Bad => k <= k - 1
      BY <2>2
    <3> QED BY <1>1, <2>4, <3>1, <3>2
  <2> DEFINE K == after[k - 1]
             K1 == after[k]
  <2>6. K \in T /\ KeepsBelow(K, D, k - 1, first)
    BY <2>5
  <2>7. K1 = KeepStep(K, D[k], first) /\ D[k] \in Nodes(F)
    BY <1>1, <1>3, <2>5
  <2>8. \A j \in 1..k : j \in 1..(k - 1) \/ j = k
    BY <1>1, <2>5
  <2> HIDE DEF K, K1
  <2>9. CASE D[k].id < first
    <3> DEFINE l == Len(K)
    <3>1. l \in Nat /\ DOMAIN K = 1..l /\ K1 = Append(K, D[k])
      BY <2>6, <2>7, <2>9, LenProperties DEF T, KeepStep
    <3>2. /\ K1 \in T /\ DOMAIN K1 = 1..(l + 1) /\ K1[l + 1] = D[k]
          /\ \A i \in 1..l : K1[i] = K[i]
      BY <2>6, <2>7, <3>1, AppendProperties, LenProperties DEF T
    <3> HIDE DEF l
    <3>3. \A i \in 1..(l + 1) : i \in 1..l \/ i = l + 1
      BY <3>1
    <3>4. l + 1 \in 1..(l + 1) /\ \A i \in 1..l : i \in 1..(l + 1)
      BY <3>1
    <3>5. KeepsBelow(K1, D, k, first)
      <4>1. \A i \in DOMAIN K1 : K1[i].id < first
        BY <2>6, <2>9, <3>1, <3>2, <3>3 DEF KeepsBelow
      <4>2. ASSUME NEW j \in 1..k, D[j].id < first
            PROVE  \E i \in DOMAIN K1 : K1[i] = D[j]
        <5>1. CASE j = k
          BY <3>2, <3>4, <5>1
        <5>2. CASE j \in 1..(k - 1)
          <6>1. PICK i \in DOMAIN K : K[i] = D[j]
            BY <2>6, <4>2, <5>2 DEF KeepsBelow
          <6> QED BY <3>1, <3>2, <3>4, <6>1
        <5> QED BY <2>8, <5>1, <5>2
      <4> QED BY <4>1, <4>2 DEF KeepsBelow
    <3> QED BY <2>4, <3>2, <3>5 DEF K1
  <2>10. CASE ~(D[k].id < first)
    <3>1. K1 = K
      BY <2>7, <2>10 DEF KeepStep
    <3>2. KeepsBelow(K1, D, k, first)
      BY <2>6, <2>8, <2>10, <3>1 DEF KeepsBelow
    <3> QED BY <2>4, <2>6, <3>1, <3>2 DEF K1
  <2> QED BY <2>9, <2>10
<1>6. Good(n)
  BY <1>1, <1>5
<1> QED BY <1>2, <1>6 DEF D, n

(* So the kept list makes of a block before `first' what the whole list    *)
(* makes of it, and leaves the blocks from there on alone.                 *)
LEMMA KeptReads ==
  ASSUME NEW p, NEW first \in Nat, deltas[p] \in Seq(DeltaNodes), Distinct(deltas[p])
  PROVE  /\ Kept(p, first) \in Seq(DeltaNodes) /\ Distinct(Kept(p, first))
         /\ \A b \in Blocks : \A x :
               BlockOf(Kept(p, first), b, x) = IF b < first THEN BlockOf(deltas[p], b, x) ELSE x
<1> DEFINE D == deltas[p]
           K == Kept(p, first)
<1>1. D \in Seq(Nodes(Content))
  BY DEF DeltaNodes
<1>2. K \in Seq(DeltaNodes)
  BY <1>1, KeptSelects DEF DeltaNodes
<1>3. PICK m : Selects(K, D, m)
  BY <1>1, KeptSelects
<1>4. KeepsBelow(K, D, Len(D), first) /\ DOMAIN D = 1..Len(D)
  BY <1>1, KeptAreBelow, LenProperties
<1> HIDE DEF K, D
<1>5. Distinct(K)
  <2> SUFFICES ASSUME NEW i \in DOMAIN K, NEW j \in DOMAIN K, K[i].id = K[j].id
               PROVE  i = j
    BY DEF Distinct
  <2>1. /\ m[i] \in DOMAIN D /\ m[j] \in DOMAIN D /\ K[i] = D[m[i]] /\ K[j] = D[m[j]]
    BY <1>3 DEF Selects
  <2>2. m[i] = m[j]
    BY <2>1 DEF Distinct, D
  <2> QED BY <1>3, <2>2 DEF Selects
<1>6. ASSUME NEW b \in Blocks, NEW x
      PROVE  BlockOf(K, b, x) = IF b < first THEN BlockOf(D, b, x) ELSE x
  <2>1. CASE \E i \in DOMAIN K : K[i].id = b
    <3>1. PICK i \in DOMAIN K : K[i].id = b
      BY <2>1
    <3>2. m[i] \in DOMAIN D /\ K[i] = D[m[i]] /\ D[m[i]].id = b /\ b < first
      BY <1>3, <1>4, <3>1 DEF Selects, KeepsBelow
    <3>3. Hits(K, b) = {i} /\ Min(Hits(K, b)) = i
      BY <1>2, <1>5, <3>1, OnlyHit
    <3>4. Hits(D, b) = {m[i]} /\ Min(Hits(D, b)) = m[i]
      BY <1>1, <3>2, OnlyHit DEF D
    <3>5. BlockOf(K, b, x) = InPlace(x, K[i].flips) /\ BlockOf(D, b, x) = InPlace(x, D[m[i]].flips)
      BY <3>3, <3>4 DEF BlockOf
    <3> QED BY <3>2, <3>5
  <2>2. CASE ~ \E i \in DOMAIN K : K[i].id = b
    <3>1. BlockOf(K, b, x) = x
      BY <2>2 DEF BlockOf, Hits
    <3>2. b < first => Hits(D, b) = {}
      BY <1>4, <2>2 DEF Hits, KeepsBelow
    <3> QED BY <3>1, <3>2 DEF BlockOf
  <2> QED BY <2>1, <2>2
<1> QED BY <1>2, <1>5, <1>6 DEF K, D

(* Two streams that agree on the first blocks decode to the same there.    *)
LEMMA SamePrefixDecodes ==
  ASSUME NEW s \in Streams, NEW s1 \in Streams, NEW first \in Nat,
         \A b \in Blocks : b < first => s1[b] = s[b]
  PROVE  \A b \in Blocks : b < first => Decoded(s1)[b] = Decoded(s)[b]
<1> DEFINE d == Decoded(s)
           d1 == Decoded(s1)
           Bad == {b \in Blocks : b < first /\ d1[b] # d[b]}
<1>1. \A b \in Blocks : d[b] = BlockFrom(s, d, b) /\ d1[b] = BlockFrom(s1, d1, b)
  BY DecodedFacts
<1>2. \A b \in Blocks : /\ s[b].from = NoCopy \/ s[b].from \in Blocks
                        /\ s[b].from < b
  BY DEF Streams, EncodingType
<1> HIDE DEF d, d1
<1>3. Bad = {}
  <2> SUFFICES ASSUME Bad # {} PROVE FALSE
    OBVIOUS
  <2>1. Bad \in SUBSET Nat
    BY ConstantTypes
  <2>2. PICK b \in Bad : \A j \in Bad : b <= j
    <3> HIDE DEF Bad
    <3> QED BY <2>1, LeastNatural
  <2>3. b \in Blocks /\ b \in Nat /\ b < first /\ d1[b] # d[b] /\ s1[b] = s[b]
    BY <2>1, <2>2
  <2>4. s[b].from # NoCopy /\ d[b] = d[s[b].from] /\ d1[b] = d1[s[b].from]
    BY <1>1, <2>3 DEF BlockFrom
  <2>5. s[b].from \in Blocks /\ s[b].from < b /\ s[b].from \in Nat
    BY <1>2, <2>3, <2>4, ConstantTypes
  <2>6. s[b].from \in Bad
    BY <2>3, <2>4, <2>5
  <2> QED BY <2>2, <2>3, <2>5, <2>6
<1> QED BY <1>3 DEF d, d1

(* What partial_recompression writes decodes, before `first', to what the  *)
(* old stream does, and if that is the data it compressed, to all of it.   *)
LEMMA StitchedDecodes ==
  ASSUME NEW s \in Streams, NEW data \in PageContent, NEW first \in Blocks,
         NEW enc \in Encodings(data, first)
  PROVE  /\ \A b \in Blocks : b < first =>
                Decoded(Stitch(s, enc, first))[b] = Decoded(s)[b]
         /\ (\A b \in Blocks : b < first => data[b] = Decoded(s)[b]) =>
                Decoded(Stitch(s, enc, first)) = data
<1> DEFINE s1 == Stitch(s, enc, first)
           d == Decoded(s)
           d1 == Decoded(s1)
<1>1. s1 \in Streams /\ first \in Nat /\ first < NumBlocks
  BY Stitched, ConstantTypes
<1>2. \A b \in Blocks : /\ b < first => s1[b] = s[b]
                        /\ ~(b < first) => s1[b] = enc[b]
  BY DEF Stitch
<1> HIDE DEF s1
<1>3. \A b \in Blocks : b < first => d1[b] = d[b]
  BY <1>1, <1>2, SamePrefixDecodes
<1>4. ASSUME \A b \in Blocks : b < first => data[b] = d[b]
      PROVE  d1 = data
  <2> DEFINE Bad == {b \in Blocks : d1[b] # data[b]}
  <2>1. d1 \in PageContent /\ \A b \in Blocks : d1[b] = BlockFrom(s1, d1, b)
    BY <1>1, DecodedFacts
  <2>2. \A b \in Blocks : ~(b < first) =>
            /\ enc[b].from < b /\ (enc[b].from = NoCopy \/ enc[b].from \in Blocks)
            /\ IF enc[b].from = NoCopy THEN enc[b].val = data[b]
               ELSE data[enc[b].from] = data[b]
    <3> SUFFICES ASSUME NEW b \in Blocks, ~(b < first)
                 PROVE  /\ enc[b].from < b /\ (enc[b].from = NoCopy \/ enc[b].from \in Blocks)
                        /\ IF enc[b].from = NoCopy THEN enc[b].val = data[b]
                           ELSE data[enc[b].from] = data[b]
      OBVIOUS
    <3>1. b \in first..(NumBlocks - 1)
      BY <1>1, ConstantTypes
    <3>a. enc \in [first..(NumBlocks - 1) -> EncodingType]
      BY EncodingFacts
    <3>2. enc[b] \in EncodingType
      BY <3>1, <3>a
    <3>3. enc[b].from = NoCopy \/ enc[b].from \in Blocks
      BY <3>2 DEF EncodingType
    <3>4. /\ enc[b].from < b
          /\ IF enc[b].from = NoCopy THEN enc[b].val = data[b]
             ELSE data[enc[b].from] = data[b]
      BY <3>1, EncodingFacts
    <3> QED BY <3>3, <3>4
  <2> HIDE DEF d, d1
  <2>3. Bad = {}
    <3> SUFFICES ASSUME Bad # {} PROVE FALSE
      OBVIOUS
    <3>1. Bad \in SUBSET Nat
      BY ConstantTypes
    <3>2. PICK b \in Bad : \A j \in Bad : b <= j
      <4> HIDE DEF Bad
      <4> QED BY <3>1, LeastNatural
    <3>3. b \in Blocks /\ b \in Nat /\ d1[b] # data[b]
      BY <3>1, <3>2
    <3>4. ~(b < first)
      BY <1>3, <1>4, <3>3
    <3>5. d1[b] = IF enc[b].from = NoCopy THEN enc[b].val ELSE d1[enc[b].from]
      BY <1>2, <2>1, <3>3, <3>4 DEF BlockFrom
    <3>6. /\ enc[b].from # NoCopy /\ enc[b].from \in Blocks /\ enc[b].from < b
          /\ data[enc[b].from] = data[b] /\ d1[b] = d1[enc[b].from]
      BY <2>2, <3>3, <3>4, <3>5
    <3>7. enc[b].from \in Bad /\ enc[b].from \in Nat
      BY <3>3, <3>6, ConstantTypes
    <3> QED BY <3>2, <3>3, <3>6, <3>7
  <2>4. \A b \in Blocks : d1[b] = data[b]
    BY <2>3
  <2> QED BY <2>1, <2>4 DEF PageContent
<1> QED BY <1>3, <1>4 DEF s1

-----------------------------------------------------------------------------
(* The page store *)

(* The invariant the steps are mapped under.                               *)
StoreInv == TypeOK /\ OneDeltaPerBlock

(* The buffers in which a page comes, goes or changes, and the others.     *)
Untouched(S) ==
    \A r \in S : /\ status'[r] = status[r] /\ stream'[r] = stream[r]
                 /\ deltas'[r] = deltas[r]

(* A call that touches one buffer moves one page of the store.             *)
LEMMA OnePageMoves ==
  ASSUME NEW p \in Pages, Untouched(Pages \ {p})
  PROVE  /\ UsableBar' = [UsableBar EXCEPT ![p] = (status'[p] = "live")]
         /\ ContentBar' = [ContentBar EXCEPT ![p] = Seen(p, PageReads(p))']
         /\ OrigBar' = [OrigBar EXCEPT ![p] = Seen(p, Base(p))']
<1>1. UsableBar' = [UsableBar EXCEPT ![p] = (status'[p] = "live")]
  BY DEF UsableBar, Untouched
<1>2. \A q \in Pages \ {p} : Seen(q, PageReads(q))' = Seen(q, PageReads(q))
  BY DEF Seen, PageReads, Base, Untouched
<1>3. ContentBar' = [ContentBar EXCEPT ![p] = Seen(p, PageReads(p))']
  BY <1>2 DEF ContentBar
<1>4. \A q \in Pages \ {p} : Seen(q, Base(q))' = Seen(q, Base(q))
  BY DEF Seen, Base, Untouched
<1>5. OrigBar' = [OrigBar EXCEPT ![p] = Seen(p, Base(p))']
  BY <1>4 DEF OrigBar
<1> QED BY <1>1, <1>3, <1>5

(* One that touches two moves two.                                         *)
LEMMA TwoPagesMove ==
  ASSUME NEW p \in Pages, NEW q \in Pages, p # q, Untouched(Pages \ {p, q})
  PROVE  /\ UsableBar' = [UsableBar EXCEPT ![p] = (status'[p] = "live"),
                                           ![q] = (status'[q] = "live")]
         /\ ContentBar' = [ContentBar EXCEPT ![p] = Seen(p, PageReads(p))',
                                             ![q] = Seen(q, PageReads(q))']
         /\ OrigBar' = [OrigBar EXCEPT ![p] = Seen(p, Base(p))', ![q] = Seen(q, Base(q))']
<1>1. UsableBar' = [UsableBar EXCEPT ![p] = (status'[p] = "live"),
                                     ![q] = (status'[q] = "live")]
  BY DEF UsableBar, Untouched
<1>2. \A r \in Pages \ {p, q} : Seen(r, PageReads(r))' = Seen(r, PageReads(r))
  BY DEF Seen, PageReads, Base, Untouched
<1>3. ContentBar' = [ContentBar EXCEPT ![p] = Seen(p, PageReads(p))',
                                       ![q] = Seen(q, PageReads(q))']
  BY <1>2 DEF ContentBar
<1>4. \A r \in Pages \ {p, q} : Seen(r, Base(r))' = Seen(r, Base(r))
  BY DEF Seen, Base, Untouched
<1>5. OrigBar' = [OrigBar EXCEPT ![p] = Seen(p, Base(p))', ![q] = Seen(q, Base(q))']
  BY <1>4 DEF OrigBar
<1> QED BY <1>1, <1>3, <1>5

(* A call that leaves the streams and the lists alone moves no page.       *)
LEMMA NoPageMoves ==
  ASSUME UNCHANGED <<status, stream, deltas>>
  PROVE  UNCHANGED <<UsableBar, ContentBar, OrigBar>>
BY DEF UsableBar, ContentBar, OrigBar, Seen, PageReads, Base

(* What a page of the store is in the code.                                *)
LEMMA PageSeen ==
  ASSUME NEW p \in Live
  PROVE  /\ p \in Pages /\ UsableBar[p] = TRUE
         /\ ContentBar[p] = PageReads(p) /\ OrigBar[p] = Base(p)
BY DEF Live, UsableBar, ContentBar, OrigBar, Seen

(* The blocks a full read returns.                                         *)
LEMMA PageReadsBlock ==
  ASSUME StoreInv, NEW p \in Pages
  PROVE  /\ PageReads(p) \in PageContent /\ Base(p) \in PageContent
         /\ deltas[p] \in Seq(DeltaNodes) /\ Distinct(deltas[p])
         /\ \A b \in Blocks : PageReads(p)[b] = BlockOf(deltas[p], b, Base(p)[b])
<1>1. /\ Base(p) \in PageContent /\ deltas[p] \in Seq(DeltaNodes) /\ Distinct(deltas[p])
  BY BaseType DEF StoreInv, OneDeltaPerBlock, Distinct
<1>2. PageReads(p) \in PageContent
  BY <1>1, ApplyDeltasType DEF PageReads
<1>3. \A b \in Blocks : PageReads(p)[b] = BlockOf(deltas[p], b, Base(p)[b])
  BY <1>1, ReadOfBlock DEF PageReads
<1> QED BY <1>1, <1>2, <1>3

(* What an update recompresses and what it hands back when that fails: the *)
(* page with the new block in it, before the block without or with its     *)
(* deltas.                                                                 *)
LEMMA UpdatedBlocks ==
  ASSUME StoreInv, NEW p \in Pages, NEW b \in Blocks, NEW v \in Content
  PROVE  /\ UpdatedTail(p, b, v) \in PageContent
         /\ \A c \in Blocks : UpdatedTail(p, b, v)[c] =
                IF c < b THEN Base(p)[c] ELSE IF c = b THEN v ELSE PageReads(p)[c]
         /\ UpdatedPage(p, b, v) = [PageReads(p) EXCEPT ![b] = v]
<1> DEFINE base == Base(p)
           was == PageReads(p)
           x == ApplyDeltas(deltas[p], From(b), base)
           tail == UpdatedTail(p, b, v)
           new == UpdatedPage(p, b, v)
<1>1. /\ was \in PageContent /\ base \in PageContent
      /\ deltas[p] \in Seq(DeltaNodes) /\ Distinct(deltas[p])
      /\ \A c \in Blocks : was[c] = BlockOf(deltas[p], c, base[c])
  BY PageReadsBlock
<1>2. \A c \in Blocks : (c \in From(b) <=> ~(c < b)) /\ (c \in Before(b) <=> c < b)
  BY ConstantTypes DEF From, Before
<1>3. x \in PageContent /\ \A c \in Blocks : x[c] = IF c < b THEN base[c] ELSE was[c]
  <2>1. x \in PageContent
    BY <1>1, ApplyDeltasType
  <2>2. \A c \in Blocks : x[c] = IF c \in From(b) THEN BlockOf(deltas[p], c, base[c]) ELSE base[c]
    BY <1>1, ReadOfBlock
  <2> HIDE DEF x, was, base
  <2> QED BY <1>1, <1>2, <2>1, <2>2
<1>4. tail = [x EXCEPT ![b] = v]
  BY DEF UpdatedTail
<1> HIDE DEF x, was, base, tail
<1>5. /\ tail \in PageContent
      /\ \A c \in Blocks : tail[c] = IF c < b THEN base[c] ELSE IF c = b THEN v ELSE was[c]
  <2>1. tail \in PageContent
    BY <1>3, <1>4 DEF PageContent
  <2>2. \A c \in Blocks : tail[c] = IF c = b THEN v ELSE x[c]
    BY <1>3, <1>4 DEF PageContent
  <2>3. ~(b < b)
    BY ConstantTypes
  <2> QED BY <1>3, <2>1, <2>2, <2>3
<1>6. new = ApplyDeltas(deltas[p], Before(b), tail)
  BY DEF UpdatedPage, tail
<1> HIDE DEF new
<1>7. new = [was EXCEPT ![b] = v]
  <2>1. new \in PageContent
    BY <1>1, <1>5, <1>6, ApplyDeltasType
  <2>2. \A c \in Blocks : new[c] = IF c \in Before(b) THEN BlockOf(deltas[p], c, tail[c]) ELSE tail[c]
    BY <1>1, <1>5, <1>6, ReadOfBlock
  <2>3. ~(b < b)
    BY ConstantTypes
  <2>4. \A c \in Blocks : new[c] = IF c = b THEN v ELSE was[c]
    BY <1>1, <1>2, <1>5, <2>2, <2>3
  <2> QED BY <1>1, <2>1, <2>4 DEF PageContent
<1> QED BY <1>5, <1>7 DEF tail, new, was, base

(* A recompression that succeeds moves the page: before `first' it reads   *)
(* as before, its stream is the old one there and what it reads as from    *)
(* there on; and that is the data it was given if the data before `first'  *)
(* is what the old stream holds.                                           *)
LEMMA MovedReads ==
  ASSUME StoreInv, NEW p \in Live, NEW q \in Pages \ Live, NEW first \in Blocks,
         NEW data \in PageContent, NEW enc \in Encodings(data, first), NEW code,
         Moved(p, q, first, enc, code)
  PROVE  \E pc \in PageContent :
            /\ Store!MovesTo(p, q, first, pc)
            /\ \A b \in Blocks : b < first => pc[b] = PageReads(p)[b]
            /\ (\A b \in Blocks : b < first => data[b] = Base(p)[b]) =>
                   \A b \in Blocks : ~(b < first) => pc[b] = data[b]
<1> DEFINE s1 == Stitch(stream[p], enc, first)
           K == Kept(p, first)
           base == Base(p)
           was == PageReads(p)
           new == Decoded(s1)
           pc == ApplyDeltas(K, Blocks, new)
           none == <<>>
<1>1. /\ p \in Pages /\ q \in Pages /\ p # q /\ stream[p] \in Streams /\ first \in Nat
      /\ OrigBar[p] = base
  BY BaseType, PageSeen, ConstantTypes DEF Live, StoreInv
<1>2. /\ was \in PageContent /\ base \in PageContent
      /\ deltas[p] \in Seq(DeltaNodes) /\ Distinct(deltas[p])
      /\ \A b \in Blocks : was[b] = BlockOf(deltas[p], b, base[b])
  BY <1>1, PageReadsBlock
<1>3. /\ K \in Seq(DeltaNodes) /\ Distinct(K)
      /\ \A b \in Blocks : \A x :
             BlockOf(K, b, x) = IF b < first THEN BlockOf(deltas[p], b, x) ELSE x
  BY <1>1, <1>2, KeptReads
<1>4. /\ s1 \in Streams /\ new \in PageContent
      /\ \A b \in Blocks : b < first => new[b] = base[b]
      /\ (\A b \in Blocks : b < first => data[b] = base[b]) => new = data
  <2>1. s1 \in Streams
    BY <1>1, Stitched
  <2>2. new \in PageContent
    BY <2>1, DecodedFacts
  <2>3. /\ \A b \in Blocks : b < first => new[b] = base[b]
        /\ (\A b \in Blocks : b < first => data[b] = base[b]) => new = data
    BY <1>1, StitchedDecodes, ZenonT(60) DEF Base
  <2> QED BY <2>1, <2>2, <2>3
<1>5. /\ status' = [status EXCEPT ![p] = "moved", ![q] = "live"]
      /\ stream' = [stream EXCEPT ![q] = s1]
      /\ deltas' = [deltas EXCEPT ![p] = none, ![q] = K]
  BY DEF Moved
<1>6. /\ status \in [Pages -> {"raw", "live", "moved", "torn"}]
      /\ stream \in [Pages -> Streams] /\ deltas \in [Pages -> Seq(DeltaNodes)]
  BY TypesAre DEF PageTypes, StoreInv
<1>7. PageReads(q)' = ApplyDeltas(deltas'[q], Blocks, Decoded(stream'[q])) /\ Base(q)' = Decoded(stream'[q])
  BY DEF PageReads, Base
<1> HIDE DEF s1, K, base, was, none
<1>8. /\ status'[p] = "moved" /\ status'[q] = "live" /\ stream'[q] = s1 /\ deltas'[q] = K
      /\ Untouched(Pages \ {p, q})
  BY <1>1, <1>5, <1>6 DEF Untouched
<1>9. /\ Seen(p, PageReads(p))' = Zero /\ Seen(p, Base(p))' = Zero
      /\ Seen(q, PageReads(q))' = pc /\ Seen(q, Base(q))' = new
  BY <1>7, <1>8 DEF Seen
<1> HIDE DEF new
<1>10. /\ pc \in PageContent
       /\ \A b \in Blocks : pc[b] = BlockOf(K, b, new[b])
  BY <1>3, <1>4, ApplyDeltasType, ReadOfBlock
<1> HIDE DEF pc
<1>11. \A b \in Blocks : /\ b < first => pc[b] = was[b] /\ new[b] = base[b]
                         /\ ~(b < first) => pc[b] = new[b]
  BY <1>2, <1>3, <1>4, <1>10
<1>12. new = [b \in Blocks |-> IF b < first THEN OrigBar[p][b] ELSE pc[b]]
  BY <1>1, <1>4, <1>11 DEF PageContent
<1>13. Store!MovesTo(p, q, first, pc)
  <2>1. /\ UsableBar' = [UsableBar EXCEPT ![p] = (status'[p] = "live"),
                                           ![q] = (status'[q] = "live")]
        /\ ContentBar' = [ContentBar EXCEPT ![p] = Seen(p, PageReads(p))',
                                             ![q] = Seen(q, PageReads(q))']
        /\ OrigBar' = [OrigBar EXCEPT ![p] = Seen(p, Base(p))', ![q] = Seen(q, Base(q))']
    BY <1>1, <1>8, TwoPagesMove
  <2>2. UsableBar' = [UsableBar EXCEPT ![p] = FALSE, ![q] = TRUE]
    BY <1>8, <2>1
  <2>3. /\ ContentBar' = [ContentBar EXCEPT ![p] = Zero, ![q] = pc]
        /\ OrigBar' = [OrigBar EXCEPT ![p] = Zero, ![q] = new]
    BY <1>9, <2>1
  <2> QED BY <1>12, <2>2, <2>3 DEF Store!MovesTo, Store!Nothing, Store!Blocks, Zero, Blocks
<1> QED BY <1>4, <1>10, <1>11, <1>13 DEF was, base

(* No run of the delta code is mistaken for an end mark or cut short: its  *)
(* decoder gets to every cell.                                             *)
Lossless == \A flips \in Content : Reached[flips] = Cells

(* Then a delta gives the block it was made for, whatever is in the buffer *)
(* it is decoded into.                                                     *)
LEMMA LosslessDelta ==
  ASSUME Lossless, NEW orig \in Content, NEW v \in Content, NEW old \in Content
  PROVE  DecodePacked(orig, XOR(v, orig), old) = v
<1>1. XOR(v, orig) \in Content
  BY XORType
<1>2. Reached[XOR(v, orig)] = Cells
  BY <1>1 DEF Lossless
<1>3. XOR(orig, XOR(v, orig)) = v
  BY DEF XOR
<1> QED BY <1>2, <1>3 DEF DecodePacked, Content

(* And what a buffer holds makes no difference to any delta.               *)
LEMMA LosslessDecode ==
  ASSUME Lossless, NEW orig \in Content, NEW flips \in Content, NEW old \in Content
  PROVE  DecodePacked(orig, flips, old) = InPlace(orig, flips)
BY DEF Lossless, DecodePacked, InPlace, Content

(* An update whose delta replaces or joins those of the page: the block    *)
(* reads as what the one node that stands for it makes of the base.        *)
LEMMA NewNodeReads ==
  ASSUME StoreInv, NEW p \in Live, NEW b \in Blocks, NEW v \in Content,
         UpdateDeltaList(p, b, XOR(v, Base(p)[b])), UNCHANGED <<status, stream>>
  PROVE  LET made == InPlace(Base(p)[b], XOR(v, Base(p)[b]))
         IN  /\ ContentBar' = [ContentBar EXCEPT ![p] = [ContentBar[p] EXCEPT ![b] = made]]
             /\ UNCHANGED <<UsableBar, OrigBar>>
<1> DEFINE base == Base(p)
           flips == XOR(v, base[b])
           made == InPlace(base[b], flips)
           was == PageReads(p)
           L == deltas[p]
           L1 == deltas'[p]
           after == ApplyDeltas(L1, Blocks, base)
<1>1. /\ p \in Pages /\ status[p] = "live" /\ ContentBar[p] = was
      /\ was \in PageContent /\ base \in PageContent
      /\ L \in Seq(DeltaNodes) /\ Distinct(L)
      /\ \A c \in Blocks : was[c] = BlockOf(L, c, base[c])
  BY PageSeen, PageReadsBlock DEF Live
<1>2. base[b] \in Content /\ flips \in Content
  BY <1>1, XORType DEF PageContent
<1>3. made \in Content
  BY <1>2, DecodeType DEF InPlace
<1>4. UpdateDeltaList(p, b, flips)
  OBVIOUS
<1> HIDE DEF base, flips, was
<1>5. PICK new \in DeltaNodes :
         /\ new.id = b /\ new.flips = flips
         /\ deltas' \in [Pages -> Seq(DeltaNodes)]
         /\ \A r \in Pages \ {p} : deltas'[r] = deltas[r]
         /\ \/ Appended(p, b, new)
            \/ \E k \in DOMAIN deltas[p] : Replaced(p, b, k, new)
  BY <1>1, <1>2, <1>4, UpdateDeltaListEffect DEF StoreInv
<1>6. PICK k : OneNew(L, L1, k, new)
  <2>1. CASE Appended(p, b, new)
    <3> DEFINE n == Len(L)
               k == n + 1
    <3>1. /\ n \in Nat /\ DOMAIN L = 1..n /\ L1 = Append(L, new) /\ Hits(L, b) = {}
      BY <1>1, <2>1, LenProperties DEF Appended
    <3>2. /\ DOMAIN L1 = 1..k /\ L1[k] = new
          /\ \A i \in 1..n : L1[i] = L[i]
      BY <1>1, <3>1, AppendProperties, LenProperties
    <3>3. \A i \in DOMAIN L : L[i].id # new.id
      BY <1>5, <3>1 DEF Hits
    <3>4. 1..k = 1..n \cup {k}
      BY <3>1
    <3> HIDE DEF n, k, L, L1
    <3>5. OneNew(L, L1, k, new)
      BY <3>1, <3>2, <3>3, <3>4 DEF OneNew
    <3> QED BY <3>5 DEF L, L1
  <2>2. ASSUME NEW k \in DOMAIN L, Replaced(p, b, k, new)
        PROVE  OneNew(L, L1, k, new)
    <3>1. L1 = [L EXCEPT ![k] = new] /\ L[k].id = b
      BY <2>2 DEF Replaced
    <3>2. \A i \in DOMAIN L \ {k} : L[i].id # new.id
      BY <1>1, <1>5, <3>1 DEF Distinct
    <3>3. /\ DOMAIN L1 = DOMAIN L \cup {k} /\ L1[k] = new
          /\ \A i \in DOMAIN L \ {k} : L1[i] = L[i]
      BY <3>1
    <3> HIDE DEF L, L1
    <3> QED BY <3>2, <3>3 DEF OneNew
  <2> QED BY <1>5, <2>1, <2>2
<1>7. L1 \in Seq(DeltaNodes)
  BY <1>1, <1>5
<1>8. \A r \in Pages \ {p} : deltas'[r] = deltas[r]
  BY <1>5
<1>9. PageReads(p)' = after
  <2>1. Base(p)' = base
    BY DEF Base, base
  <2> QED BY <2>1 DEF PageReads
<1> HIDE DEF L, L1
<1>10. /\ DOMAIN L1 = DOMAIN L \cup {k} /\ L1[k] = new /\ k \in DOMAIN L1
       /\ \A i \in DOMAIN L \ {k} : L1[i] = L[i] /\ L[i].id # b
  BY <1>5, <1>6 DEF OneNew
<1>11. k \in DOMAIN L => L[k].id = b
  <2>1. CASE Appended(p, b, new)
    <3> DEFINE n == Len(L)
    <3>1. n \in Nat /\ DOMAIN L = 1..n /\ L1 = Append(L, new)
      BY <1>1, <2>1, LenProperties DEF Appended, L, L1
    <3>2. DOMAIN L1 = 1..(n + 1) /\ \A i \in 1..n : L1[i] = L[i]
      BY <1>1, <3>1, AppendProperties, LenProperties
    <3>3. ASSUME k \in DOMAIN L PROVE FALSE
      <4>1. n + 1 \in DOMAIN L1 /\ n + 1 \notin DOMAIN L /\ n + 1 # k
        BY <3>1, <3>2, <3>3
      <4> QED BY <1>10, <4>1
    <3> QED BY <3>3
  <2>2. CASE \E j \in DOMAIN deltas[p] : Replaced(p, b, j, new)
    <3>1. PICK j \in DOMAIN L : L[j].id = b
      BY <2>2 DEF Replaced, L
    <3> QED BY <1>10, <3>1
  <2> QED BY <1>5, <2>1, <2>2
<1>12. Distinct(L1)
  <2> SUFFICES ASSUME NEW i \in DOMAIN L1, NEW j \in DOMAIN L1, L1[i].id = L1[j].id
               PROVE  i = j
    BY DEF Distinct
  <2>1. CASE i = k \/ j = k
    BY <1>5, <1>10, <2>1
  <2>2. CASE i # k /\ j # k
    BY <1>1, <1>10, <2>2 DEF Distinct
  <2> QED BY <2>1, <2>2
<1>13. ASSUME NEW c \in Blocks, NEW x
       PROVE  BlockOf(L1, c, x) = IF c = b THEN InPlace(x, flips) ELSE BlockOf(L, c, x)
  <2>1. CASE c = b
    <3>1. Hits(L1, c) = {k} /\ Min(Hits(L1, c)) = k
      BY <1>5, <1>7, <1>10, <1>12, <2>1, OnlyHit
    <3> QED BY <1>5, <1>10, <2>1, <3>1 DEF BlockOf
  <2>2. CASE c # b
    <3>1. Hits(L1, c) = Hits(L, c)
      BY <1>5, <1>10, <1>11, <2>2 DEF Hits
    <3>2. \A i \in Hits(L, c) : L1[i] = L[i]
      BY <1>10, <1>11, <2>2 DEF Hits
    <3>3. Hits(L, c) # {} => Min(Hits(L, c)) \in Hits(L, c)
      BY <1>1, FirstHit, ZenonT(60) DEF Hits
    <3> QED BY <2>2, <3>1, <3>2, <3>3 DEF BlockOf
  <2> QED BY <2>1, <2>2
<1>14. after = [was EXCEPT ![b] = made]
  <2>1. after \in PageContent /\ \A c \in Blocks : after[c] = BlockOf(L1, c, base[c])
    BY <1>1, <1>7, <1>12, ApplyDeltasType, ReadOfBlock
  <2> HIDE DEF after
  <2>2. \A c \in Blocks : after[c] = IF c = b THEN made ELSE was[c]
    BY <1>1, <1>13, <2>1
  <2> HIDE DEF made
  <2> QED BY <1>1, <2>1, <2>2 DEF PageContent
<1> HIDE DEF after
<1>15. Seen(p, PageReads(p))' = [ContentBar[p] EXCEPT ![b] = made]
  BY <1>1, <1>9, <1>14 DEF Seen
<1>16. Untouched(Pages \ {p})
  BY <1>8 DEF Untouched
<1>17. ContentBar' = [ContentBar EXCEPT ![p] = [ContentBar[p] EXCEPT ![b] = made]]
  BY <1>1, <1>15, <1>16, OnePageMoves
<1>18. UNCHANGED <<UsableBar, OrigBar>>
  BY DEF UsableBar, OrigBar, Seen, Base
<1> QED BY <1>17, <1>18 DEF base, flips

(* An update with a delta, or without a change.                            *)
LEMMA UpdateDeltaRefines ==
  ASSUME Lossless, StoreInv, NEW p \in Live, NEW b \in Blocks, NEW v \in Content, NEW lim, NEW disable,
         UpdateDelta(p, b, v, lim, disable)
  PROVE  Store!Update(p, p)
<1> DEFINE flips == XOR(v, Base(p)[b])
           d == DeltaSize(p, b, v, lim)
<1>1. /\ p \in Pages /\ UsableBar[p] = TRUE /\ OrigBar[p] = Base(p)
      /\ Base(p) \in PageContent /\ Base(p)[b] \in Content
  BY PageSeen, PageReadsBlock DEF PageContent
<1>2. /\ ret'.op = "update" /\ ret'.page = p /\ ret'.new = p /\ ret'.block = b
      /\ ret'.src = v /\ ret'.code = IF d > 0 THEN 0 ELSE 1
  BY DEF UpdateDelta, Answer
<1>3. UNCHANGED <<status, stream>> /\ d # 0
  BY DEF UpdateDelta
<1>4. CASE d > 0
  <2>1. UpdateDeltaList(p, b, XOR(v, Base(p)[b]))
    BY <1>4 DEF UpdateDelta
  <2>2. InPlace(Base(p)[b], flips) = v
    BY <1>1, LosslessDelta DEF InPlace
  <2>3. /\ ContentBar' = [ContentBar EXCEPT ![p] =
               [ContentBar[p] EXCEPT ![b] = InPlace(Base(p)[b], flips)]]
        /\ UNCHANGED <<UsableBar, OrigBar>>
    BY <1>3, <2>1, NewNodeReads
  <2> HIDE DEF flips
  <2> QED BY <1>1, <1>2, <1>4, <2>2, <2>3 DEF Store!Update
<1>5. CASE ~(d > 0)
  <2>1. UNCHANGED <<UsableBar, ContentBar, OrigBar>>
    BY <1>3, <1>5, NoPageMoves DEF UpdateDelta
  <2>2. flips = {}
    <3>1. flips \in Content
      BY <1>1, XORType
    <3> HIDE DEF flips
    <3>2. d = DeltaPacked(flips, lim)
      BY DEF DeltaSize, flips
    <3>3. \A n \in 0..255 : n \in Nat
      OBVIOUS
    <3>4. PackedLen[flips] \in Nat
      BY <3>1, <3>3, PrcPageAssumption
    <3> QED BY <1>3, <1>5, <3>2, <3>4 DEF DeltaPacked
  <2>3. v = Base(p)[b]
    BY <1>1, <2>2 DEF XOR, Content
  <2> QED BY <1>1, <1>2, <1>5, <2>1, <2>3 DEF Store!Update
<1> QED BY <1>4, <1>5

(* An update without a delta or a new page.                                *)
LEMMA UpdateScratchRefines ==
  ASSUME StoreInv, NEW p \in Live, NEW b \in Blocks, NEW v \in Content, NEW lim,
         UpdateScratch(p, b, v, lim)
  PROVE  Store!Update(p, p)
<1>1. p \in Pages /\ UsableBar[p] = TRUE /\ ContentBar[p] = PageReads(p)
  BY PageSeen
<1>2. UpdatedPage(p, b, v) = [ContentBar[p] EXCEPT ![b] = v]
  BY <1>1, UpdatedBlocks
<1>3. /\ ret'.op = "update" /\ ret'.page = p /\ ret'.new = p /\ ret'.block = b
      /\ ret'.src = v /\ ret'.code = 3 /\ ret'.out = UpdatedPage(p, b, v)
  BY DEF UpdateScratch, Answer
<1>4. UNCHANGED <<UsableBar, ContentBar, OrigBar>>
  BY NoPageMoves DEF UpdateScratch
<1> QED BY <1>1, <1>2, <1>3, <1>4 DEF Store!Update

(* A failed attempt leaves the store alone: the new buffer holds no page   *)
(* before and after.                                                       *)
LEMMA NotMovedReads ==
  ASSUME StoreInv, NEW q \in Pages \ Live, NEW code, NotMoved(q, code)
  PROVE  UNCHANGED <<UsableBar, ContentBar, OrigBar>>
<1>1. /\ status \in [Pages -> {"raw", "live", "moved", "torn"}] /\ status[q] # "live"
      /\ status' = [status EXCEPT ![q] = "torn"] /\ UNCHANGED <<stream, deltas>>
  BY TypesAre DEF StoreInv, Live, NotMoved
<1>2. \A r \in Pages : status'[r] = "live" <=> status[r] = "live"
  BY <1>1
<1>3. \A r \in Pages : /\ Seen(r, PageReads(r))' = Seen(r, PageReads(r))
                       /\ Seen(r, Base(r))' = Seen(r, Base(r))
  BY <1>1, <1>2 DEF Seen, PageReads, Base
<1>4. \A r \in Pages : (status'[r] = "live") = (status[r] = "live")
  BY <1>2
<1> QED BY <1>3, <1>4 DEF UsableBar, ContentBar, OrigBar

(* An update that recompresses: the new page reads as the old one with the *)
(* change in it, or the client gets that page.                             *)
LEMMA UpdateRecompressRefines ==
  ASSUME ShortBudgets, StoreInv, NEW p \in Live, NEW q \in Pages \ Live,
         NEW b \in Blocks, NEW v \in Content, NEW lim,
         NEW thres \in Thresholds, NEW enc \in Attempts(UpdatedTail(p, b, v), b),
         UpdateRecompress(p, q, b, v, lim, enc, thres)
  PROVE  Store!Update(p, q)
<1> DEFINE data == UpdatedTail(p, b, v)
           code == RecompressCode(p, b, enc, thres)
           was == PageReads(p)
           after == [was EXCEPT ![b] = v]
<1>1. /\ p \in Pages /\ UsableBar[p] = TRUE /\ UsableBar[q] = FALSE
      /\ ContentBar[p] = was /\ was \in PageContent
  BY PageSeen, PageReadsBlock DEF UsableBar, Live
<1>2. /\ data \in PageContent /\ UpdatedPage(p, b, v) = after
      /\ \A c \in Blocks : data[c] = IF c < b THEN Base(p)[c] ELSE IF c = b THEN v ELSE was[c]
  BY <1>1, UpdatedBlocks
<1>3. /\ ret'.op = "update" /\ ret'.page = p /\ ret'.new = q /\ ret'.block = b /\ ret'.src = v
      /\ code = 0 => ret'.code = 3 /\ ret'.out = UpdatedPage(p, b, v)
      /\ code # 0 => ret'.code = 2
  BY DEF UpdateRecompress, Answer
<1>4. Recompress(p, q, b, enc, thres) /\ enc \in Attempts(data, b)
  BY DEF UpdateRecompress
<1> HIDE DEF data, code, was
<1>5. \/ enc \in Encodings(data, b) /\ Moved(p, q, b, enc, code)
      \/ NotMoved(q, code)
  BY <1>2, <1>4, RecompressEffect DEF code, StoreInv
<1>6. CASE NotMoved(q, code)
  <2>1. UNCHANGED <<UsableBar, ContentBar, OrigBar>>
    BY <1>6, NotMovedReads
  <2>2. ret'.code = 3 /\ ret'.out = after
    BY <1>2, <1>3, <1>6 DEF NotMoved
  <2> QED BY <1>1, <1>3, <2>1, <2>2 DEF Store!Update
<1>7. CASE enc \in Encodings(data, b) /\ Moved(p, q, b, enc, code)
  <2>1. PICK pc \in PageContent :
            /\ Store!MovesTo(p, q, b, pc)
            /\ \A c \in Blocks : c < b => pc[c] = PageReads(p)[c]
            /\ (\A c \in Blocks : c < b => data[c] = Base(p)[c]) =>
                   \A c \in Blocks : ~(c < b) => pc[c] = data[c]
    BY <1>2, <1>7, MovedReads
  <2>2. \A c \in Blocks : pc[c] = IF c = b THEN v ELSE was[c]
    <3>1. ~(b < b)
      BY ConstantTypes
    <3> QED BY <1>2, <2>1, <3>1 DEF was
  <2>3. pc = after
    BY <1>1, <2>2 DEF PageContent
  <2>4. ret'.code = 2
    <3>1. code # 0
      BY <1>7 DEF Moved
    <3> QED BY <1>3, <3>1
  <2>5. Store!MovesTo(p, q, b, after)
    BY <2>1, <2>3
  <2> QED BY <1>1, <1>3, <2>4, <2>5 DEF Store!Update
<1> QED BY <1>5, <1>6, <1>7

(* A deletion: what it hands back is the page with the blocks cleared, and *)
(* the new page is that if the blocks before the first one are what they   *)
(* were compressed from.                                                   *)
LEMMA DeleteRefines ==
  ASSUME ShortBudgets, StoreInv, NEW p \in Live, NEW q \in Pages \ Live,
         NEW first \in Blocks, NEW n,
         NEW thres \in Thresholds, NEW enc \in Attempts(DeletedPage(p, first, n), first),
         Delete(p, q, first, n, enc, thres)
  PROVE  Store!Delete(p, q)
<1> DEFINE data == DeletedPage(p, first, n)
           code == RecompressCode(p, first, enc, thres)
           was == PageReads(p)
           Same(pc) == \A b \in Blocks : b < first => pc[b] = was[b]
<1>1. /\ p \in Pages /\ UsableBar[p] = TRUE /\ UsableBar[q] = FALSE
      /\ ContentBar[p] = was /\ was \in PageContent /\ OrigBar[p] = Base(p)
  BY PageSeen, PageReadsBlock DEF UsableBar, Live
<1>2. data \in PageContent
  BY <1>1, CompressedPages DEF StoreInv
<1>3. data = [b \in Blocks |-> IF b \in first..(first + n - 1) THEN {} ELSE ContentBar[p][b]]
  BY <1>1 DEF DeletedPage
<1>4. /\ ret'.op = "delete" /\ ret'.page = p /\ ret'.new = q /\ ret'.block = first
      /\ ret'.n = n /\ ret'.code = code /\ ret'.out = data
  BY DEF Delete, Answer
<1>5. Recompress(p, q, first, enc, thres) /\ enc \in Attempts(data, first)
  BY DEF Delete
<1>6. \A b \in Blocks : b < first => data[b] = was[b]
  <2> TAKE b \in Blocks
  <2>1. b < first => b \notin first..(first + n - 1)
    BY ConstantTypes
  <2> QED BY <2>1 DEF DeletedPage
<1> HIDE DEF data, code, was
<1>7. \/ enc \in Encodings(data, first) /\ Moved(p, q, first, enc, code)
      \/ NotMoved(q, code)
  BY <1>2, <1>5, RecompressEffect DEF code, StoreInv
<1>8. /\ Store!Blocks = Blocks /\ Store!PageContent = PageContent
  BY DEF Store!Blocks, Blocks, Store!PageContent, PageContent, Store!Content, Content
<1>9. CASE NotMoved(q, code)
  <2>1. UNCHANGED <<UsableBar, ContentBar, OrigBar>>
    BY <1>9, NotMovedReads
  <2>2. code = 0
    BY <1>9 DEF NotMoved
  <2> QED BY <1>1, <1>3, <1>4, <1>8, <2>1, <2>2 DEF Store!Delete
<1>10. CASE enc \in Encodings(data, first) /\ Moved(p, q, first, enc, code)
  <2>1. PICK pc \in PageContent :
            /\ Store!MovesTo(p, q, first, pc)
            /\ \A b \in Blocks : b < first => pc[b] = PageReads(p)[b]
            /\ (\A b \in Blocks : b < first => data[b] = Base(p)[b]) =>
                   \A b \in Blocks : ~(b < first) => pc[b] = data[b]
    BY <1>2, <1>10, MovedReads
  <2>2. Same(pc)
    BY <2>1 DEF was
  <2>3. ASSUME Same(OrigBar[p]) PROVE pc = data
    <3>1. \A b \in Blocks : b < first => data[b] = Base(p)[b]
      BY <1>1, <1>6, <2>3
    <3>2. \A b \in Blocks : pc[b] = data[b]
      BY <1>6, <2>1, <2>2, <3>1
    <3> QED BY <1>2, <3>2 DEF PageContent
  <2>4. code > 0
    BY <1>10 DEF Moved
  <2>5. pc \in IF Same(OrigBar[p]) THEN {data} ELSE PageContent
    BY <2>3
  <2>6. \E x \in IF Same(OrigBar[p]) THEN {data} ELSE PageContent :
            Same(x) /\ Store!MovesTo(p, q, first, x)
    BY <2>1, <2>2, <2>5
  <2>7. \E x \in IF \A b \in Blocks : b < first => OrigBar[p][b] = ContentBar[p][b]
                 THEN {data} ELSE PageContent :
            /\ \A b \in Blocks : b < first => x[b] = ContentBar[p][b]
            /\ Store!MovesTo(p, q, first, x)
    BY <1>1, <2>6
  <2> QED BY <1>1, <1>3, <1>4, <1>8, <2>4, <2>7 DEF Store!Delete
<1> QED BY <1>7, <1>9, <1>10

(* zapi_decompress_page reads the store.                                   *)
LEMMA DecompressRefines ==
  ASSUME StoreInv, NEW p \in Live, NEW n \in 1..NumBlocks, Decompress(p, n)
  PROVE  Store!Decompress(p)
<1> DEFINE x == DecompressInto(p, n)
           out == ApplyDeltas(deltas[p], Blocks, x)
<1>1. UsableBar[p] = TRUE /\ ContentBar[p] = PageReads(p) /\ p \in Pages
  BY PageSeen
<1>2. /\ ret'.op = "decompress" /\ ret'.page = p /\ ret'.n = n /\ ret'.out = out
  BY DEF Decompress, Answer
<1>3. /\ deltas[p] \in Seq(DeltaNodes) /\ Distinct(deltas[p])
      /\ \A b \in Blocks : PageReads(p)[b] = BlockOf(deltas[p], b, Base(p)[b])
  BY <1>1, PageReadsBlock
<1>4. x \in PageContent /\ \A b \in Blocks : b < n => x[b] = Base(p)[b]
  <2>1. x \in PageContent
    <3> DEFINE b == 0
    <3>1. b \in Blocks
      BY ConstantTypes
    <3> HIDE DEF b
    <3> QED BY <1>1, <3>1, CompressedPages DEF StoreInv
  <2> QED BY <2>1 DEF DecompressInto
<1> HIDE DEF x
<1>5. \A b \in Blocks : b < n => out[b] = PageReads(p)[b]
  BY <1>3, <1>4, ReadOfBlock
<1>6. UNCHANGED <<UsableBar, ContentBar, OrigBar>>
  BY NoPageMoves DEF Decompress
<1> HIDE DEF out
<1> QED BY <1>1, <1>2, <1>5, <1>6 DEF Store!Decompress, Store!Blocks, Blocks

(* zapi_apply_delta reads one block of the store.                          *)
LEMMA ApplyDeltaRefines ==
  ASSUME Lossless, StoreInv, NEW p \in Live, NEW b \in Blocks, NEW old \in Content,
         ApplyDelta(p, b, old)
  PROVE  Store!ApplyDelta(p)
<1>1. UsableBar[p] = TRUE /\ ContentBar[p] = PageReads(p) /\ p \in Pages
  BY PageSeen
<1>2. /\ ret'.op = "apply" /\ ret'.page = p /\ ret'.block = b
      /\ ret'.out[b] = BlockOf(deltas[p], b, Base(p)[b])
  <2> DEFINE D == deltas[p]
             x == Base(p)[b]
             k == Min(Hits(D, b))
  <2>1. D \in Seq(DeltaNodes) /\ x \in Content
    BY <1>1, PageReadsBlock DEF StoreInv, PageTypes, PageContent
  <2>2. /\ ret'.op = "apply" /\ ret'.page = p /\ ret'.block = b
        /\ ret'.out[b] = IF Hits(D, b) = {} THEN x ELSE DecodePacked(x, D[k].flips, old)
    BY DEF ApplyDelta, Answer, Zero
  <2>3. Hits(D, b) # {} => D[k].flips \in Content
    <3> HIDE DEF D
    <3>1. Hits(D, b) # {} => k \in DOMAIN D
      BY <2>1, FirstHit, ZenonT(60)
    <3>2. \A j \in DOMAIN D : D[j] \in DeltaNodes
      BY <2>1, LenProperties, ElementOfSeq
    <3>3. \A nd \in DeltaNodes : nd.flips \in Content
      BY DEF DeltaNodes, Nodes
    <3> HIDE DEF k
    <3> QED BY <3>1, <3>2, <3>3
  <2> HIDE DEF D, x, k
  <2>4. Hits(D, b) # {} => DecodePacked(x, D[k].flips, old) = InPlace(x, D[k].flips)
    BY <2>1, <2>3, LosslessDecode
  <2>5. BlockOf(D, b, x) = IF Hits(D, b) = {} THEN x ELSE InPlace(x, D[k].flips)
    BY DEF BlockOf, k
  <2> QED BY <2>2, <2>4, <2>5 DEF D, x
<1>3. PageReads(p)[b] = BlockOf(deltas[p], b, Base(p)[b])
  BY <1>1, PageReadsBlock
<1>4. UNCHANGED <<UsableBar, ContentBar, OrigBar>>
  BY NoPageMoves DEF ApplyDelta
<1> QED BY <1>1, <1>2, <1>3, <1>4 DEF Store!ApplyDelta

(* What the compressor makes of a whole page decodes to it.                *)
LEMMA WholeDecodes ==
  ASSUME NEW data \in PageContent, NEW enc \in Encodings(data, 0)
  PROVE  enc \in Streams /\ Decoded(enc) = data
<1> DEFINE none == 0
<1>1. enc \in Streams /\ DOMAIN enc = Blocks
  BY WholeEncoding
<1>2. none \in Blocks /\ enc \in Encodings(data, none)
  BY ConstantTypes
<1>3. \A b \in Blocks : ~(b < none)
  BY ConstantTypes
<1> HIDE DEF none
<1>4. Stitch(enc, enc, none) = enc
  <2>1. Stitch(enc, enc, none) = [b \in Blocks |-> enc[b]]
    BY DEF Stitch
  <2> QED BY <1>1, <2>1 DEF Streams
<1>5. (\A b \in Blocks : b < none => data[b] = Decoded(enc)[b]) =>
          Decoded(Stitch(enc, enc, none)) = data
  BY <1>1, <1>2, StitchedDecodes
<1> QED BY <1>1, <1>3, <1>4, <1>5

(* Without deltas a page reads as its stream.                              *)
LEMMA NoDeltasRead ==
  ASSUME NEW page \in PageContent
  PROVE  ApplyDeltas(<<>>, Blocks, page) = page
<1> DEFINE none == <<>>
<1>1. none \in Seq(DeltaNodes) /\ Len(none) = 0
  OBVIOUS
<1> HIDE DEF none
<1>2. PICK after \in [0..Len(none) -> PageContent] : ApplySteps(after, none, Blocks, page)
  BY <1>1, ApplyDeltasLoop
<1>3. after[0] = page /\ after[Len(none)] = ApplyDeltas(none, Blocks, page)
  BY <1>2 DEF ApplySteps
<1>4. ApplyDeltas(none, Blocks, page) = page
  BY <1>1, <1>3
<1> QED BY <1>4 DEF none

(* zapi_generate_page and zapi_pack_page: the buffer becomes a page that   *)
(* reads as its source, or nothing is seen of the attempt.                 *)
LEMMA CompressRefines ==
  ASSUME StoreInv, MemoryInv, NEW q \in Pages \ Live, NEW data \in PageContent,
         NEW enc \in Attempts(data, 0), NEW thres \in Nat, Compress(q, enc, thres)
  PROVE  Store!Becomes(q, data) \/ /\ CompressCode(enc, thres) = 0
                                   /\ UNCHANGED <<UsableBar, ContentBar, OrigBar>>
<1> DEFINE code == CompressCode(enc, thres)
           none == <<>>
<1>1. /\ deltas[q] = none /\ status \in [Pages -> {"raw", "live", "moved", "torn"}]
      /\ stream \in [Pages -> Streams] /\ deltas \in [Pages -> Seq(DeltaNodes)]
  BY TypesAre DEF MemoryInv, StoreInv, PageTypes
<1>2. CASE ~Fits(enc, 0, thres)
  <2>1. code = 0
    BY <1>2 DEF CompressCode
  <2>2. CASE thres < PageHeader
    BY <2>1, <2>2, NoPageMoves DEF Compress
  <2>3. CASE ~(thres < PageHeader)
    <3>1. deltas' = [deltas EXCEPT ![q] = none] /\ status' = [status EXCEPT ![q] = "torn"]
          /\ stream' = stream
      BY <1>2, <2>3 DEF Compress
    <3> HIDE DEF none, code
    <3>2. deltas' = deltas
      BY <1>1, <3>1
    <3>3. NotMoved(q, code)
      BY <2>1, <3>1, <3>2 DEF NotMoved
    <3> QED BY <2>1, <3>3, NotMovedReads DEF code
  <2> QED BY <2>2, <2>3
<1>3. CASE Fits(enc, 0, thres)
  <2>1. enc \in Encodings(data, 0)
    BY <1>3 DEF Attempts, Fits
  <2>2. Decoded(enc) = data /\ enc \in Streams
    BY <2>1, WholeDecodes
  <2>3. ASSUME thres < PageHeader PROVE FALSE
    <3> DEFINE size == StreamSize(enc, DOMAIN enc)
               c == LiteralSize + CopySize
    <3>1. c \in Nat /\ LiteralSize <= c /\ CopySize <= c /\ NumBlocks * c \in Nat
      BY ConstantTypes
    <3> HIDE DEF c
    <3>2. size \in 0..(NumBlocks * c)
      BY <3>1, StreamBounded
    <3>3. PageHeader + 0 + size <= thres
      BY <1>3 DEF Fits
    <3> HIDE DEF size
    <3>4. size \in Nat /\ PageHeader \in Nat
      BY <3>1, <3>2, ConstantTypes
    <3> QED BY <2>3, <3>3, <3>4
  <2>4. /\ deltas' = [deltas EXCEPT ![q] = none] /\ status' = [status EXCEPT ![q] = "live"]
        /\ stream' = [stream EXCEPT ![q] = enc]
    BY <1>3, <2>3 DEF Compress
  <2>5. /\ status'[q] = "live" /\ stream'[q] = enc /\ deltas'[q] = none
        /\ Untouched(Pages \ {q})
    BY <1>1, <2>4 DEF Untouched
  <2>6. Base(q)' = data /\ PageReads(q)' = data
    <3>1. Base(q)' = data
      BY <2>2, <2>5 DEF Base
    <3>2. PageReads(q)' = ApplyDeltas(none, Blocks, data)
      BY <2>5, <3>1 DEF PageReads
    <3> QED BY <3>1, <3>2, NoDeltasRead
  <2>7. Seen(q, PageReads(q))' = data /\ Seen(q, Base(q))' = data
    BY <2>5, <2>6 DEF Seen
  <2>8. /\ UsableBar' = [UsableBar EXCEPT ![q] = TRUE]
        /\ ContentBar' = [ContentBar EXCEPT ![q] = data]
        /\ OrigBar' = [OrigBar EXCEPT ![q] = data]
    BY <2>5, <2>7, OnePageMoves
  <2> QED BY <2>8 DEF Store!Becomes
<1> QED BY <1>2, <1>3

(* zapi_generate_page writes a page of the store.                          *)
LEMMA GenerateRefines ==
  ASSUME StoreInv, MemoryInv, NEW p \in Pages, NEW src \in Sources,
         NEW enc \in Attempts(src, 0), NEW thres \in Thresholds, Generate(p, src, enc, thres)
  PROVE  Store!Generate(p)
<1>1. /\ p \in Pages \ Live /\ src \in PageContent /\ thres \in Nat
      /\ Compress(p, enc, thres) /\ UsableBar[p] = FALSE
  BY PrcPageAssumption DEF Generate, Writable, Live, UsableBar
<1>2. /\ ret'.op = "generate" /\ ret'.page = p
      /\ ret'.out = src /\ ret'.code = CompressCode(enc, thres)
  BY DEF Generate, Answer
<1>3. Store!Becomes(p, src) \/ /\ CompressCode(enc, thres) = 0
                               /\ UNCHANGED <<UsableBar, ContentBar, OrigBar>>
  BY <1>1, CompressRefines
<1> QED BY <1>1, <1>2, <1>3 DEF Store!Generate

(* zapi_pack_page copies a page of the store, and leaves the old one.      *)
LEMMA PackRefines ==
  ASSUME StoreInv, MemoryInv, NEW p \in Live, NEW q \in Pages \ Live,
         NEW thres \in Thresholds, NEW force \in BOOLEAN,
         NEW enc \in Attempts(PageReads(p), 0), Pack(p, q, force, enc, thres)
  PROVE  Store!Pack(p, q)
<1> DEFINE data == PageReads(p)
<1>1. /\ UsableBar[p] = TRUE /\ UsableBar[q] = FALSE /\ ContentBar[p] = data
      /\ data \in PageContent /\ thres \in Nat
  BY PageSeen, PageReadsBlock, PrcPageAssumption DEF UsableBar, Live
<1>2. enc \in Attempts(data, 0) /\ ret'.op = "pack" /\ ret'.page = p /\ ret'.new = q
  BY DEF Pack, Answer
<1>3. CASE deltas[p] = <<>> /\ ~force
  <2>1. ret'.code = -1
    BY <1>3 DEF Pack, Answer
  <2>2. UNCHANGED <<UsableBar, ContentBar, OrigBar>>
    BY <1>3, NoPageMoves DEF Pack
  <2> QED BY <1>1, <1>2, <2>1, <2>2 DEF Store!Pack
<1>4. CASE ~(deltas[p] = <<>> /\ ~force)
  <2>1. /\ ret'.code = CompressCode(enc, thres) /\ ret'.out = data
        /\ Compress(q, enc, thres)
    BY <1>4 DEF Pack, Answer
  <2> HIDE DEF data
  <2>2. Store!Becomes(q, data) \/ /\ CompressCode(enc, thres) = 0
                                  /\ UNCHANGED <<UsableBar, ContentBar, OrigBar>>
    BY <1>1, <1>2, <2>1, CompressRefines
  <2> QED BY <1>1, <1>2, <2>1, <2>2 DEF Store!Pack
<1> QED BY <1>3, <1>4

(* zapi_free_page takes the page out of the store.                         *)
LEMMA FreeRefines ==
  ASSUME StoreInv, NEW p \in Pages, Free(p)
  PROVE  Store!Free(p)
<1>1. ret'.op = "free" /\ ret'.page = p
  BY DEF Free, Answer
<1>2. status'[p] = "raw" /\ Untouched(Pages \ {p})
  BY TypesAre DEF Free, StoreInv, PageTypes, Untouched
<1>3. Seen(p, PageReads(p))' = Zero /\ Seen(p, Base(p))' = Zero
  BY <1>2 DEF Seen
<1>4. /\ UsableBar' = [UsableBar EXCEPT ![p] = FALSE]
      /\ ContentBar' = [ContentBar EXCEPT ![p] = Zero]
      /\ OrigBar' = [OrigBar EXCEPT ![p] = Zero]
  BY <1>2, <1>3, OnePageMoves
<1> QED BY <1>1, <1>4 DEF Store!Free, Store!Nothing, Store!Blocks, Zero, Blocks

(* With such a delta code the engine implements the page store, call by    *)
(* call: where a list or a page is, which stream a block comes from and *)
(* how often a page has moved show in no answer and in no block but the    *)
(* ones the call is about.  The liberties the store grants are the update  *)
(* that goes unnoticed and the deletion behind blocks with deltas.         *)
THEOREM StoreImplemented ==
  ASSUME Lossless, ShortBudgets
  PROVE  Spec => StoreSpec
<1>1. Init => Store!Init
  <2> SUFFICES ASSUME Init PROVE Store!Init
    OBVIOUS
  <2>1. \A p \in Pages : status[p] # "live"
    BY DEF Init
  <2>2. /\ UsableBar = [p \in Pages |-> FALSE]
        /\ ContentBar = [p \in Pages |-> Zero]
        /\ OrigBar = [p \in Pages |-> Zero]
    BY <2>1 DEF UsableBar, ContentBar, OrigBar, Seen
  <2>3. ret.op = "none"
    BY DEF Init
  <2> QED BY <2>2, <2>3 DEF Store!Init, Store!Nothing, Store!Blocks, Zero, Blocks
<1>2. TypeOK /\ MemoryInv /\ [Next]_vars => [Store!Next]_(Store!vars)
  <2> SUFFICES ASSUME TypeOK, MemoryInv, [Next]_vars PROVE [Store!Next]_(Store!vars)
    OBVIOUS
  <2>a. StoreInv /\ \A p \in Live : p \in Pages
    BY DEF StoreInv, MemoryInv, Live
  <2>1. ASSUME NEW p \in Pages, NEW src \in Sources, NEW thres \in Thresholds,
               NEW enc \in Attempts(src, 0), Generate(p, src, enc, thres)
        PROVE  Store!Next
    BY <2>a, <2>1, GenerateRefines DEF Store!Next
  <2>2. ASSUME NEW p \in Pages, Free(p) PROVE Store!Next
    BY <2>a, <2>2, FreeRefines DEF Store!Next
  <2>3. ASSUME NEW p \in Live, NEW b \in Blocks, NEW v \in Content, NEW lim, NEW disable,
               UpdateDelta(p, b, v, lim, disable)
        PROVE  Store!Next
    BY <2>a, <2>3, UpdateDeltaRefines DEF Store!Next
  <2>4. ASSUME NEW p \in Live, NEW b \in Blocks, NEW v \in Content, NEW lim,
               UpdateScratch(p, b, v, lim)
        PROVE  Store!Next
    BY <2>a, <2>4, UpdateScratchRefines DEF Store!Next
  <2>5. ASSUME NEW p \in Live, NEW n \in 1..NumBlocks, Decompress(p, n) PROVE Store!Next
    BY <2>a, <2>5, DecompressRefines DEF Store!Next
  <2>6. ASSUME NEW p \in Live, NEW b \in Blocks, NEW old \in Content, ApplyDelta(p, b, old)
        PROVE  Store!Next
    BY <2>a, <2>6, ApplyDeltaRefines DEF Store!Next
  <2>7. ASSUME NEW p \in Live, NEW q \in Pages \ Live, NEW thres \in Thresholds,
               NEW b \in Blocks, NEW v \in Content, NEW lim,
               NEW enc \in Attempts(UpdatedTail(p, b, v), b),
               UpdateRecompress(p, q, b, v, lim, enc, thres)
        PROVE  Store!Next
    <3>1. Store!Update(p, q)
      BY <2>a, <2>7, UpdateRecompressRefines
    <3> QED BY <2>a, <3>1 DEF Store!Next
  <2>8. ASSUME NEW p \in Live, NEW q \in Pages \ Live, NEW thres \in Thresholds,
               NEW first \in Blocks, NEW n,
               NEW enc \in Attempts(DeletedPage(p, first, n), first),
               Delete(p, q, first, n, enc, thres)
        PROVE  Store!Next
    <3>1. Store!Delete(p, q)
      BY <2>a, <2>8, DeleteRefines
    <3> QED BY <2>a, <3>1 DEF Store!Next
  <2>9. ASSUME NEW p \in Live, NEW q \in Pages \ Live, NEW thres \in Thresholds,
               NEW force \in BOOLEAN, NEW enc \in Attempts(PageReads(p), 0),
               Pack(p, q, force, enc, thres)
        PROVE  Store!Next
    <3>1. Store!Pack(p, q)
      BY <2>a, <2>9, PackRefines
    <3> QED BY <2>a, <3>1 DEF Store!Next
  <2>10. CASE UNCHANGED vars
    <3>1. UNCHANGED <<UsableBar, ContentBar, OrigBar, ret>>
      BY <2>10, NoPageMoves DEF vars
    <3> QED BY <3>1 DEF Store!vars
  <2>11. CASE Next
    BY <2>1, <2>2, <2>3, <2>4, <2>5, <2>6, <2>7, <2>8, <2>9, <2>11 DEF Next
  <2> QED BY <2>10, <2>11
<1> QED BY <1>1, <1>2, TypeCorrect, Ownership, PTL DEF Spec, StoreSpec, Store!Spec
=============================================================================
