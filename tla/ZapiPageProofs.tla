---------------------------- MODULE ZapiPageProofs ----------------------------
(***************************************************************************)
(* Proofs about ZapiPage, for every number of pages, blocks and delta      *)
(* nodes: its types, its memory discipline, the two ways of reading, the   *)
(* page store it implements, and what t_size says of a page's size.        *)
(***************************************************************************)
EXTENDS ZapiPage, Iteration, SequenceTheorems

(* What update_delta_llist works on: a list of nodes, the short t_size and *)
(* a finite pool.                                                          *)
Headers == [list : Seq(DeltaNodes), size : Shorts,
            pool : {s \in SUBSET Nat : IsFiniteSet(s)}]

(* Assigning to a short gives a short.                                     *)
LEMMA Int16IsShort == \A x \in Int : Int16(x) \in Shorts
<1>1. ASSUME NEW x \in Int
      PROVE  /\ Int16(x) \in Int
             /\ MinShort <= Int16(x)
             /\ Int16(x) <= MaxShort
  <2>1. \A y \in Int : y % 65536 \in Int /\ y % 65536 >= 0 /\ y % 65536 < 65536
    OBVIOUS
  <2>2. x + 32768 \in Int
    OBVIOUS
  <2> QED BY <2>1, <2>2 DEF Int16, MinShort, MaxShort
<1>2. MinShort \in Int /\ MaxShort \in Int
  BY DEF MinShort, MaxShort
<1> QED BY <1>1, <1>2 DEF Shorts

(* The constants a proof does arithmetic with are integers.                *)
LEMMA ConstantTypes ==
  /\ NumBlocks \in Nat /\ NumBlocks > 0
  /\ MinShort \in Int /\ MaxShort \in Int /\ Shorts \subseteq Int
  /\ StaleBytes \subseteq Nat
<1>1. MinShort \in Int /\ MaxShort \in Nat /\ MaxByte \in Nat
  BY DEF MinShort, MaxShort, MaxByte
<1> QED BY <1>1, ZapiPageAssumption DEF Shorts

(* The pool always has a free slot among its first Cardinality + 1, and    *)
(* debug_malloc finds one.                                                 *)
LEMMA FreshSlotIsFree ==
  ASSUME NEW used \in SUBSET Nat, IsFiniteSet(used)
  PROVE  FreshSlot(used) \in Nat /\ FreshSlot(used) \notin used
<1> DEFINE c == Cardinality(used)
           FreeSlots == {s \in 0..c : s \notin used}
<1>1. c \in Nat
  BY FS_CardinalityType
<1>2. FreeSlots # {}
  <2> SUFFICES ASSUME 0..c \subseteq used PROVE FALSE
    OBVIOUS
  <2>1. Cardinality(0..c) <= c
    BY FS_Subset
  <2>2. Cardinality(0..c) = c + 1
    BY <1>1, FS_Interval
  <2> QED BY <1>1, <2>1, <2>2
<1>3. PICK s \in FreeSlots : \A r \in FreeSlots : s <= r
  <2>1. FreeSlots \in SUBSET Nat
    BY <1>1
  <2> HIDE DEF FreeSlots
  <2> QED BY <1>2, <2>1, LeastNatural
<1>4. s \in 0..c /\ s \notin used /\ \A r \in 0..(s - 1) : r \in used
  BY <1>1, <1>3
<1>5. FreshSlot(used) \in 0..c /\ FreshSlot(used) \notin used
  BY <1>4 DEF FreshSlot
<1> QED BY <1>5, <1>1

(* If the list has a node of the block, the first of them is one.          *)
LEMMA FirstHitIsHit ==
  ASSUME NEW list \in Seq(DeltaNodes), NEW b, Hits(list, b) # {}
  PROVE  /\ FirstHit(list, b) \in 1..Len(list)
         /\ list[FirstHit(list, b)].id = b
<1>1. Hits(list, b) \in SUBSET Nat /\ Hits(list, b) \subseteq 1..Len(list)
  BY DEF Hits
<1>2. PICK k \in Hits(list, b) : \A j \in Hits(list, b) : k <= j
  BY <1>1, LeastNatural
<1>3. FirstHit(list, b) \in Hits(list, b)
  BY <1>2 DEF FirstHit
<1> QED BY <1>1, <1>3 DEF Hits

(* update_delta_llist keeps the header well typed.                         *)
LEMMA UpdateDeltaListType ==
  ASSUME NEW h \in Headers, NEW nd \in DeltaNodes, NEW g \in Nat
  PROVE  UpdateDeltaList(h, nd, g) \in Headers
<1> DEFINE s == FreshSlot(h.pool)
           new == [nd EXCEPT !.slot = s]
           k == FirstHit(h.list, nd.id)
<1>1. h.list \in Seq(DeltaNodes) /\ h.size \in Shorts
      /\ h.pool \in SUBSET Nat /\ IsFiniteSet(h.pool)
  BY DEF Headers
<1>2. s \in Nat
  BY <1>1, FreshSlotIsFree
<1>3. new \in DeltaNodes
  BY <1>2 DEF DeltaNodes
<1>4. Hits(h.list, nd.id) # {} => k \in 1..Len(h.list) /\ h.list[k] \in DeltaNodes
  BY <1>1, FirstHitIsHit
<1>5. ListAfter(h, nd) \in Seq(DeltaNodes)
  <2> HIDE DEF new, k
  <2>1. Append(h.list, new) \in Seq(DeltaNodes)
    BY <1>1, <1>3
  <2>2. Hits(h.list, nd.id) # {} => [h.list EXCEPT ![k] = new] \in Seq(DeltaNodes)
    BY <1>1, <1>3, <1>4, ExceptSeq
  <2> QED BY <2>1, <2>2 DEF ListAfter, new, k
<1>6. SizeAfter(h, nd, g) \in Shorts
  <2>1. Payload(nd) \in Int /\ h.size \in Int /\ NodeHeader \in Int
    <3>1. nd.bytes \in Nat
      BY DEF DeltaNodes
    <3>2. h.size \in Int
      BY <1>1, ConstantTypes
    <3> QED BY <3>1, <3>2 DEF Payload, NodeHeader
  <2>2. Hits(h.list, nd.id) # {} => LengthByte(h.list[k], g) \in Int
    BY <1>4 DEF LengthByte, DeltaNodes
  <2> QED BY <2>1, <2>2, Int16IsShort DEF SizeAfter
<1>7. PoolAfter(h, nd) \in SUBSET Nat /\ IsFiniteSet(PoolAfter(h, nd))
  BY <1>1, <1>2, FS_AddElement, FS_RemoveElement DEF PoolAfter
<1> QED BY <1>5, <1>6, <1>7 DEF UpdateDeltaList, Headers

(* The headers zapi_delete_block goes through: `after[i]' is the one with  *)
(* i tombstones put in.                                                    *)
DeleteSteps(after, p, start, n, g) ==
    /\ after[0] = Header(p)
    /\ \A i \in 1..n :
           after[i] = UpdateDeltaList(after[i - 1], Node(0, start + i - 1, TRUE, {}, 0), g[i])
    /\ after[n] = DeleteHeader(p, start, n, g)

(* The loop of zapi_delete_block stays in every set of headers that one    *)
(* tombstone more does not leave.                                          *)
LEMMA DeleteLoop ==
  ASSUME NEW T, NEW p, Header(p) \in T,
         NEW start \in Blocks, NEW n \in 1..(NumBlocks - start),
         NEW g \in [1..n -> StaleBytes],
         \A h \in T : \A b \in Blocks, x \in StaleBytes :
             UpdateDeltaList(h, Node(0, b, TRUE, {}, 0), x) \in T
  PROVE  \E after \in [0..n -> T] : DeleteSteps(after, p, start, n, g)
<1> DEFINE Next1(h, i) == UpdateDeltaList(h, Node(0, start + i - 1, TRUE, {}, 0), g[i])
           Body(a) == [i \in 0..n |-> IF i = 0 THEN Header(p) ELSE Next1(a[i - 1], i)]
           step == [x \in T \X Nat |-> IF x[2] \in 1..n THEN Next1(x[1], x[2]) ELSE x[1]]
<1>0. NumBlocks \in Nat /\ StaleBytes \subseteq Nat
  BY ConstantTypes
<1>1. \A h \in T : \A i \in 1..n : Next1(h, i) \in T
  <2>1. \A i \in 1..n : start + i - 1 \in Blocks /\ g[i] \in StaleBytes
    BY <1>0 DEF Blocks
  <2> QED BY <2>1
<1>2. PICK f : IsLoop(f, T, Header(p), step, n)
  <2>1. step \in LoopBodies(T)
    <3> HIDE DEF Next1
    <3> QED BY <1>1 DEF LoopBodies
  <2>2. n \in Nat
    BY <1>0 DEF Blocks
  <2> HIDE DEF step
  <2> QED BY <2>1, <2>2, LoopExists
<1>3. f = Body(f)
  <2> HIDE DEF Next1
  <2>1. \A i \in 0..n : f[i] = Body(f)[i]
    <3> TAKE i \in 0..n
    <3>1. CASE i = 0
      BY <3>1, <1>2 DEF IsLoop
    <3>2. CASE i # 0
      <4>1. n \in Nat /\ i \in 1..n /\ i - 1 \in 0..n /\ i \in Nat
        BY <1>0, <3>2 DEF Blocks
      <4>2. f[i - 1] \in T /\ f[i] = step[<<f[i - 1], i>>]
        BY <4>1, <1>2, ZenonT(60) DEF IsLoop
      <4>3. step[<<f[i - 1], i>>] = Next1(f[i - 1], i)
        BY <4>1, <4>2
      <4> QED BY <4>1, <4>2, <4>3, <3>2
    <3> QED BY <3>1, <3>2
  <2>2. f \in [0..n -> T]
    BY <1>2 DEF IsLoop
  <2> QED BY <2>1, <2>2
<1> DEFINE after == CHOOSE a : a = Body(a)
<1>4. after = Body(after)
  <2> HIDE DEF Body
  <2> QED BY <1>3
<1>5. DeleteHeader(p, start, n, g) = after[n]
  BY DEF DeleteHeader
<1> HIDE DEF after
<1>6. \A i \in 0..n : after[i] \in T
  <2> DEFINE Bad == {i \in 0..n : after[i] \notin T}
  <2> SUFFICES ASSUME Bad # {} PROVE FALSE
    OBVIOUS
  <2>1. Bad \in SUBSET Nat /\ n \in Nat
    BY <1>0 DEF Blocks
  <2>2. PICK i \in Bad : \A j \in Bad : i <= j
    <3> HIDE DEF Bad
    <3> QED BY <2>1, LeastNatural
  <2>3. i \in 0..n /\ after[i] \notin T
    BY <2>2
  <2>4. i # 0
    BY <2>3, <1>4
  <2>5. i \in 1..n /\ i - 1 \in 0..n /\ i - 1 \notin Bad
    BY <2>1, <2>2, <2>3, <2>4
  <2>6. after[i - 1] \in T
    BY <2>5
  <2>7. after[i] = Next1(after[i - 1], i)
    <3> HIDE DEF Next1
    <3> QED BY <1>4, <2>3, <2>4
  <2> QED BY <1>1, <2>3, <2>5, <2>6, <2>7
<1>7. after \in [0..n -> T]
  <2> DEFINE b == Body(after)
  <2>1. b \in [0..n -> T]
    <3> HIDE DEF Next1
    <3>1. \A i \in 0..n : b[i] = after[i]
      BY <1>4
    <3> QED BY <3>1, <1>6
  <2> HIDE DEF b
  <2> QED BY <2>1, <1>4 DEF b
<1>8. DeleteSteps(after, p, start, n, g)
  <2>1. after[0] = Header(p)
    <3>1. 0 \in 0..n
      BY <1>0 DEF Blocks
    <3> HIDE DEF Next1
    <3> QED BY <1>4, <3>1
  <2>2. ASSUME NEW i \in 1..n PROVE after[i] = Next1(after[i - 1], i)
    <3>1. i \in 0..n /\ i # 0
      BY <1>0 DEF Blocks
    <3> HIDE DEF Next1
    <3> QED BY <1>4, <3>1
  <2> QED BY <2>1, <2>2, <1>5 DEF DeleteSteps
<1> QED BY <1>7, <1>8

(* So does the header it ends with.                                        *)
LEMMA DeleteStaysIn ==
  ASSUME NEW T, NEW p, Header(p) \in T,
         NEW start \in Blocks, NEW n \in 1..(NumBlocks - start),
         NEW g \in [1..n -> StaleBytes],
         \A h \in T : \A b \in Blocks, x \in StaleBytes :
             UpdateDeltaList(h, Node(0, b, TRUE, {}, 0), x) \in T
  PROVE  DeleteHeader(p, start, n, g) \in T
<1>1. PICK after \in [0..n -> T] : DeleteSteps(after, p, start, n, g)
  BY DeleteLoop
<1>2. n \in 0..n
  BY ConstantTypes DEF Blocks
<1> QED BY <1>1, <1>2 DEF DeleteSteps

-----------------------------------------------------------------------------
(* Types *)

(* What a page's header and the pool hold is something to work on.         *)
LEMMA HeaderType ==
  ASSUME TypeOK, NEW p \in Pages
  PROVE  Header(p) \in Headers
BY DEF TypeOK, Header, Headers

(* XOR of two block contents is one.                                       *)
LEMMA XORType == \A x, y \in Content : XOR(x, y) \in Content
BY DEF XOR, Content

(* A tombstone is a node.                                                  *)
LEMMA TombstoneType == \A b \in Blocks : Node(0, b, TRUE, {}, 0) \in DeltaNodes
BY DEF Node, DeltaNodes, Content

(* An encoding that succeeds has a length.                                 *)
LEMMA DeltaPackedType ==
  ASSUME NEW flips \in Content, NEW lim, DeltaPacked(flips, lim) > 0
  PROVE  DeltaPacked(flips, lim) - 1 = PackedLen[flips] /\ PackedLen[flips] \in Nat
BY ZapiPageAssumption DEF DeltaPacked

(* What an update puts in the list is a node.                              *)
LEMMA UpdateNodeType ==
  ASSUME TypeOK, NEW p \in Pages, NEW b \in Blocks, NEW v \in Content, NEW lim,
         DeltaPacked(XOR(v, base[p][b]), lim) > 0
  PROVE  Node(0, b, FALSE, XOR(v, base[p][b]),
              DeltaPacked(XOR(v, base[p][b]), lim) - 1) \in DeltaNodes
<1>1. base[p][b] \in Content
  BY DEF TypeOK, PageContent
<1>2. XOR(v, base[p][b]) \in Content
  BY <1>1, XORType
<1> QED BY <1>2, DeltaPackedType DEF Node, DeltaNodes

(* A whole deletion keeps the header well typed.                           *)
LEMMA DeleteHeaderType ==
  ASSUME TypeOK, NEW p \in Pages, NEW start \in Blocks,
         NEW n \in 1..(NumBlocks - start), NEW g \in [1..n -> StaleBytes]
  PROVE  DeleteHeader(p, start, n, g) \in Headers
<1>1. \A h \in Headers : \A b \in Blocks, x \in StaleBytes :
          UpdateDeltaList(h, Node(0, b, TRUE, {}, 0), x) \in Headers
  BY UpdateDeltaListType, TombstoneType, ConstantTypes
<1> QED BY <1>1, HeaderType, DeleteStaysIn

(* ApplyDeltas of nodes to a page: only Pack stores its result, so that it *)
(* is a page is all the types need of it.                                  *)
LEMMA ApplyNodeType ==
  ASSUME NEW nd \in DeltaNodes, NEW page \in PageContent
  PROVE  ApplyNode(nd, page) \in PageContent
<1>1. nd.id \in Blocks /\ nd.flips \in Content /\ page[nd.id] \in Content
  BY DEF DeltaNodes, PageContent
<1>2. Reached[nd.flips] \in SUBSET Cells
  BY <1>1, ZapiPageAssumption
<1>3. DecodePacked(page[nd.id], nd.flips, page[nd.id]) \in Content
  <2>1. XOR(page[nd.id], nd.flips) \in Content
    BY <1>1, XORType
  <2> QED BY <1>1, <2>1 DEF DecodePacked, Content
<1> DEFINE new == IF nd.tomb THEN {} ELSE DecodePacked(page[nd.id], nd.flips, page[nd.id])
<1>4. new \in Content
  BY <1>3 DEF Content
<1>5. ApplyNode(nd, page) = [page EXCEPT ![nd.id] = new]
  BY DEF ApplyNode
<1> HIDE DEF new
<1> QED BY <1>4, <1>5 DEF PageContent

(* The pages apply_delta goes through: `after[k]' has the first k nodes of *)
(* the list applied.                                                       *)
ApplySteps(after, list, page) ==
    /\ after[0] = page
    /\ \A k \in 1..Len(list) : after[k] = ApplyNode(list[k], after[k - 1])
    /\ after[Len(list)] = ApplyDeltas(list, page)

(* Each node of a list applied to a page gives a page again.               *)
LEMMA ApplyDeltasLoop ==
  ASSUME NEW list \in Seq(DeltaNodes), NEW page \in PageContent
  PROVE  \E after \in [0..Len(list) -> PageContent] : ApplySteps(after, list, page)
<1> DEFINE n == Len(list)
           T == PageContent
           Body(a) == [k \in 0..n |-> IF k = 0 THEN page ELSE ApplyNode(list[k], a[k - 1])]
           step == [x \in T \X Nat |->
                      IF x[2] \in 1..n THEN ApplyNode(list[x[2]], x[1]) ELSE x[1]]
<1>1. n \in Nat /\ \A i \in 1..n : list[i] \in DeltaNodes
  BY LenProperties, ElementOfSeq
<1> HIDE DEF n
<1>2. \A h \in T : \A i \in 1..n : ApplyNode(list[i], h) \in T
  BY <1>1, ApplyNodeType
<1> HIDE DEF T
<1>3. PICK f : IsLoop(f, T, page, step, n)
  <2>1. step \in LoopBodies(T)
    BY <1>2 DEF LoopBodies
  <2>2. page \in T
    BY DEF T
  <2> HIDE DEF step
  <2> QED BY <1>1, <2>1, <2>2, LoopExists
<1>4. f = Body(f)
  <2>1. f \in [0..n -> T]
    BY <1>3 DEF IsLoop
  <2>2. ASSUME NEW i \in 0..n PROVE f[i] = Body(f)[i]
    <3>1. CASE i = 0
      BY <3>1, <1>3 DEF IsLoop
    <3>2. CASE i # 0
      <4>1. i \in 1..n /\ i - 1 \in 0..n /\ i \in Nat
        BY <1>1, <3>2
      <4>2. f[i - 1] \in T /\ f[i] = step[<<f[i - 1], i>>]
        BY <4>1, <1>3 DEF IsLoop
      <4>3. step[<<f[i - 1], i>>] = ApplyNode(list[i], f[i - 1])
        BY <4>1, <4>2
      <4> QED BY <4>1, <4>2, <4>3, <3>2
    <3> QED BY <3>1, <3>2
  <2> QED BY <2>1, <2>2
<1> DEFINE after == CHOOSE a : a = Body(a)
<1>5. after = Body(after)
  <2> HIDE DEF Body
  <2> QED BY <1>4
<1>6. ApplyDeltas(list, page) = after[n]
  BY DEF ApplyDeltas, n
<1> HIDE DEF after
<1>7. \A i \in 0..n : after[i] \in T
  <2> DEFINE Bad == {i \in 0..n : after[i] \notin T}
  <2> SUFFICES ASSUME Bad # {} PROVE FALSE
    OBVIOUS
  <2>1. Bad \in SUBSET Nat
    BY <1>1
  <2>2. PICK i \in Bad : \A j \in Bad : i <= j
    <3> HIDE DEF Bad
    <3> QED BY <2>1, LeastNatural
  <2>3. i \in 0..n /\ after[i] \notin T
    BY <2>2
  <2>4. i # 0
    BY <2>3, <1>5 DEF T
  <2>5. i \in 1..n /\ i - 1 \in 0..n /\ i - 1 \notin Bad
    BY <1>1, <2>2, <2>3, <2>4
  <2>6. after[i - 1] \in T
    BY <2>5
  <2>7. after[i] = ApplyNode(list[i], after[i - 1])
    BY <1>5, <2>3, <2>4
  <2> QED BY <1>2, <2>3, <2>5, <2>6, <2>7
<1>8. after \in [0..n -> T]
  <2> DEFINE b == Body(after)
  <2>1. b \in [0..n -> T]
    <3>1. \A i \in 0..n : b[i] = after[i]
      BY <1>5
    <3> QED BY <3>1, <1>7
  <2> HIDE DEF b
  <2> QED BY <2>1, <1>5 DEF b
<1>9. ApplySteps(after, list, page)
  <2>1. after[0] = page
    BY <1>1, <1>5
  <2>2. ASSUME NEW k \in 1..n PROVE after[k] = ApplyNode(list[k], after[k - 1])
    <3>1. k \in 0..n /\ k # 0
      BY <1>1
    <3> QED BY <1>5, <3>1
  <2> QED BY <2>1, <2>2, <1>6 DEF ApplySteps, n
<1> QED BY <1>8, <1>9 DEF T, n

(* Applying a list of deltas to a page gives a page.                       *)
LEMMA ApplyDeltasType ==
  ASSUME NEW list \in Seq(DeltaNodes), NEW page \in PageContent
  PROVE  ApplyDeltas(list, page) \in PageContent
<1>1. PICK after \in [0..Len(list) -> PageContent] : ApplySteps(after, list, page)
  BY ApplyDeltasLoop
<1>2. Len(list) \in 0..Len(list)
  BY LenProperties
<1> QED BY <1>1, <1>2 DEF ApplySteps

(* A generated page, or the remains of a failed generation, is well typed. *)
LEMMA CompressType ==
  ASSUME TypeOK, NEW p \in Pages, NEW src \in PageContent, NEW thres,
         NEW c \in CompSizes \cup {-1}, Compress(p, src, thres, c), pool' = pool
  PROVE  TypeOK'
<1>1. CASE UNCHANGED <<status, base, comp, t_size, deltas>>
  BY <1>1 DEF TypeOK
<1>2. CASE /\ deltas' = [deltas EXCEPT ![p] = <<>>]
           /\ c = -1
           /\ t_size' = [t_size EXCEPT ![p] = PageHeader]
           /\ UNCHANGED <<status, base, comp>>
  <2>1. PageHeader \in Shorts /\ <<>> \in Seq(DeltaNodes)
    BY DEF PageHeader, Shorts, MinShort, MaxShort
  <2> QED BY <1>2, <2>1 DEF TypeOK
<1>3. CASE /\ deltas' = [deltas EXCEPT ![p] = <<>>]
           /\ c # -1
           /\ t_size' = [t_size EXCEPT ![p] = Int16(PageHeader + c)]
           /\ status' = [status EXCEPT ![p] = "live"]
           /\ base' = [base EXCEPT ![p] = src]
           /\ comp' = [comp EXCEPT ![p] = c]
  <2>1. c \in Nat
    BY <1>3, ZapiPageAssumption
  <2>2. Int16(PageHeader + c) \in Shorts /\ <<>> \in Seq(DeltaNodes)
    BY <2>1, Int16IsShort DEF PageHeader
  <2> QED BY <1>3, <2>1, <2>2 DEF TypeOK
<1> QED BY <1>1, <1>2, <1>3 DEF Compress

(* Every reachable state is well typed: t_size is always a short, and a    *)
(* node in a list always names a block of the page.                        *)
THEOREM TypeCorrect == Spec => []TypeOK
<1>1. Init => TypeOK
  <2>1. Zero \in PageContent /\ 0 \in Shorts /\ <<>> \in Seq(DeltaNodes)
    BY DEF Zero, PageContent, Content, Shorts, MinShort, MaxShort
  <2> QED BY <2>1, FS_EmptySet DEF Init, TypeOK
<1>2. TypeOK /\ [Next]_vars => TypeOK'
  <2> SUFFICES ASSUME TypeOK, [Next]_vars PROVE TypeOK'
    OBVIOUS
  <2>1. ASSUME NEW p \in Pages, NEW src \in Sources, NEW thres \in Thresholds,
               NEW c \in CompSizes \cup {-1}, Generate(p, src, thres, c)
        PROVE  TypeOK'
    BY <2>1, CompressType, ZapiPageAssumption DEF Generate
  <2>2. ASSUME NEW p \in Pages, NEW b \in Blocks, NEW v \in Content,
               NEW lim \in DeltaThres, NEW g \in StaleBytes, NEW old \in OldBuffers,
               Update(p, b, v, lim, g, old)
        PROVE  TypeOK'
    <3> DEFINE flips == XOR(v, base[p][b])
               d == DeltaPacked(flips, lim)
               h == UpdateDeltaList(Header(p), Node(0, b, FALSE, flips, d - 1), g)
    <3>1. CASE d > 0
      <4>1. h \in Headers
        BY <3>1, UpdateNodeType, HeaderType, UpdateDeltaListType, ConstantTypes
      <4>2. /\ deltas' = [deltas EXCEPT ![p] = h.list]
            /\ t_size' = [t_size EXCEPT ![p] = h.size]
            /\ pool' = h.pool
            /\ UNCHANGED <<status, base, comp>>
        BY <2>2, <3>1 DEF Update
      <4> HIDE DEF h
      <4> QED BY <4>1, <4>2 DEF TypeOK, Headers
    <3>2. CASE ~(d > 0)
      BY <2>2, <3>2 DEF Update, TypeOK
    <3> QED BY <3>1, <3>2
  <2>3. ASSUME NEW p \in Pages, NEW start \in Blocks, NEW n \in 1..(NumBlocks - start),
               NEW g \in [1..n -> StaleBytes], Delete(p, start, n, g)
        PROVE  TypeOK'
    <3>1. DeleteHeader(p, start, n, g) \in Headers
      BY DeleteHeaderType
    <3> QED BY <2>3, <3>1 DEF Delete, TypeOK, Headers
  <2>4. ASSUME NEW p \in Pages, NEW n \in 0..NumBlocks, NEW old \in OldBuffers,
               Decompress(p, n, old)
        PROVE  TypeOK'
    BY <2>4 DEF Decompress, TypeOK
  <2>5. ASSUME NEW p \in Pages, NEW b \in Blocks, NEW old \in OldBuffers,
               ApplyDelta(p, b, old)
        PROVE  TypeOK'
    BY <2>5 DEF ApplyDelta, TypeOK
  <2>6. ASSUME NEW p \in Pages, NEW q \in Pages, NEW thres \in Thresholds,
               NEW force \in BOOLEAN, NEW c \in CompSizes \cup {-1},
               Pack(p, q, thres, force, c)
        PROVE  TypeOK'
    <3>1. CASE UNCHANGED <<status, base, comp, t_size, deltas, pool>>
      BY <3>1 DEF TypeOK
    <3>2. CASE Compress(q, Decompressed(p, NumBlocks, Zero), thres, c) /\ pool' = pool
      <4>1. DecompressInto(p, NumBlocks, Zero) \in PageContent
        BY DEF TypeOK, DecompressInto, Zero, PageContent, Content
      <4>2. Decompressed(p, NumBlocks, Zero) \in PageContent
        BY <4>1, ApplyDeltasType DEF Decompressed, TypeOK
      <4> QED BY <3>2, <4>2, CompressType
    <3> QED BY <2>6, <3>1, <3>2 DEF Pack
  <2>7. ASSUME NEW p \in Pages, Free(p)
        PROVE  TypeOK'
    <3>1. Zero \in PageContent /\ 0 \in Shorts /\ <<>> \in Seq(DeltaNodes)
      BY DEF Zero, PageContent, Content, Shorts, MinShort, MaxShort
    <3>2. pool' \in SUBSET Nat /\ IsFiniteSet(pool')
      BY <2>7, FS_Subset DEF Free, TypeOK
    <3> QED BY <2>7, <3>1, <3>2 DEF Free, TypeOK
  <2>8. CASE UNCHANGED vars
    BY <2>8 DEF vars, TypeOK
  <2> QED BY <2>1, <2>2, <2>3, <2>4, <2>5, <2>6, <2>7, <2>8 DEF Next
<1> QED BY <1>1, <1>2, PTL DEF Spec

-----------------------------------------------------------------------------
(* Memory discipline *)

(* A header whose list owns the pool but for the slots in `rest', each     *)
(* node with a slot and a block of its own.                                *)
Owns(h, rest) ==
    /\ h \in Headers
    /\ h.pool = rest \cup SlotsOf(h.list)
    /\ rest \cap SlotsOf(h.list) = {}
    /\ \A j, k \in DOMAIN h.list : h.list[j].slot = h.list[k].slot => j = k
    /\ \A j, k \in DOMAIN h.list : h.list[j].id = h.list[k].id => j = k

(* update_delta_llist keeps that: the slot it allocates is free, the node  *)
(* it replaces is freed, and the new node's block has no other node.       *)
LEMMA UpdateDeltaListOwns ==
  ASSUME NEW h, NEW rest, Owns(h, rest), NEW nd \in DeltaNodes, NEW g \in Nat
  PROVE  Owns(UpdateDeltaList(h, nd, g), rest)
<1> DEFINE s == FreshSlot(h.pool)
           new == [nd EXCEPT !.slot = s]
           k == FirstHit(h.list, nd.id)
           u == UpdateDeltaList(h, nd, g)
<1>1. h \in Headers /\ h.list \in Seq(DeltaNodes)
      /\ h.pool \in SUBSET Nat /\ IsFiniteSet(h.pool)
  BY DEF Owns, Headers
<1>2. s \in Nat /\ s \notin h.pool
  BY <1>1, FreshSlotIsFree
<1>3. new.slot = s /\ new.id = nd.id /\ new \in DeltaNodes
  BY <1>2 DEF DeltaNodes
<1>4. u \in Headers
  BY <1>1, UpdateDeltaListType
<1>5. u.list = ListAfter(h, nd) /\ u.pool = PoolAfter(h, nd)
  BY DEF UpdateDeltaList
<1>6. s \notin rest /\ s \notin SlotsOf(h.list)
  BY <1>2 DEF Owns
<1> HIDE DEF s, new, u
<1>7. CASE Hits(h.list, nd.id) = {}
  <2> DEFINE n == Len(h.list)
  <2>1. u.list = Append(h.list, new)
    BY <1>5, <1>7 DEF ListAfter, new, s
  <2>2. u.pool = h.pool \cup {s}
    BY <1>5, <1>7 DEF PoolAfter, s
  <2>3. /\ n \in Nat /\ DOMAIN h.list = 1..n /\ DOMAIN u.list = 1..(n + 1)
        /\ \A i \in 1..n : u.list[i] = h.list[i]
        /\ u.list[n + 1] = new
    BY <1>1, <1>3, <2>1, AppendProperties, LenProperties
  <2> HIDE DEF n
  <2>4. SlotsOf(u.list) = SlotsOf(h.list) \cup {s}
    <3>1. ASSUME NEW x \in SlotsOf(u.list) PROVE x \in SlotsOf(h.list) \cup {s}
      BY <3>1, <2>3, <1>3 DEF SlotsOf
    <3>2. ASSUME NEW x \in SlotsOf(h.list) PROVE x \in SlotsOf(u.list)
      BY <3>2, <2>3 DEF SlotsOf
    <3>3. s \in SlotsOf(u.list)
      <4>1. n + 1 \in DOMAIN u.list /\ u.list[n + 1].slot = s
        BY <2>3, <1>3
      <4> QED BY <4>1 DEF SlotsOf
    <3> QED BY <3>1, <3>2, <3>3
  <2>5. \A i \in 1..n : h.list[i].id # nd.id /\ h.list[i].slot # s
    BY <1>6, <1>7, <2>3 DEF Hits, SlotsOf
  <2>6. \A i, j \in DOMAIN u.list : u.list[i].slot = u.list[j].slot => i = j
    <3>1. \A i, j \in 1..n : h.list[i].slot = h.list[j].slot => i = j
      BY <2>3 DEF Owns
    <3>2. \A i \in 1..(n + 1) : i \in 1..n \/ i = n + 1
      BY <2>3
    <3>3. \A i \in 1..n : u.list[i].slot = h.list[i].slot
      BY <2>3
    <3>4. u.list[n + 1].slot = s
      BY <1>3, <2>3
    <3>5. DOMAIN u.list = 1..(n + 1)
      BY <2>3
    <3> QED BY <2>5, <3>1, <3>2, <3>3, <3>4, <3>5
  <2>7. \A i, j \in DOMAIN u.list : u.list[i].id = u.list[j].id => i = j
    BY <1>3, <2>3, <2>5, SMTT(30) DEF Owns
  <2> QED BY <1>4, <1>6, <2>2, <2>4, <2>6, <2>7 DEF Owns, u
<1>8. CASE Hits(h.list, nd.id) # {}
  <2>1. k \in 1..Len(h.list) /\ h.list[k].id = nd.id
    BY <1>1, <1>8, FirstHitIsHit
  <2>2. u.list = [h.list EXCEPT ![k] = new]
    BY <1>5, <1>8 DEF ListAfter, new, s
  <2>3. u.pool = (h.pool \cup {s}) \ {h.list[k].slot}
    BY <1>5, <1>8 DEF PoolAfter, s
  <2> HIDE DEF k
  <2>4. /\ DOMAIN h.list = 1..Len(h.list) /\ DOMAIN u.list = DOMAIN h.list
        /\ \A i \in DOMAIN h.list : u.list[i] = IF i = k THEN new ELSE h.list[i]
    BY <1>1, <2>1, <2>2, LenProperties
  <2>5. k \in DOMAIN h.list
    BY <2>1, <2>4
  <2>6. SlotsOf(u.list) = (SlotsOf(h.list) \ {h.list[k].slot}) \cup {s}
    <3>1. ASSUME NEW x \in SlotsOf(u.list)
          PROVE  x \in (SlotsOf(h.list) \ {h.list[k].slot}) \cup {s}
      <4>1. PICK i \in DOMAIN h.list : x = u.list[i].slot
        BY <3>1, <2>4 DEF SlotsOf
      <4>2. CASE i = k
        BY <4>1, <4>2, <2>4, <1>3
      <4>3. CASE i # k
        <5>1. x = h.list[i].slot
          BY <4>1, <4>3, <2>4
        <5>2. h.list[i].slot # h.list[k].slot
          BY <4>3, <2>5 DEF Owns
        <5> QED BY <5>1, <5>2 DEF SlotsOf
      <4> QED BY <4>2, <4>3
    <3>2. ASSUME NEW x \in SlotsOf(h.list), x # h.list[k].slot
          PROVE  x \in SlotsOf(u.list)
      <4>1. PICK i \in DOMAIN h.list : x = h.list[i].slot
        BY <3>2 DEF SlotsOf
      <4>2. i # k
        BY <3>2, <4>1
      <4>3. u.list[i] = h.list[i] /\ i \in DOMAIN u.list
        BY <4>2, <2>4
      <4> QED BY <4>1, <4>3 DEF SlotsOf
    <3>3. s \in SlotsOf(u.list)
      <4>1. u.list[k].slot = s /\ k \in DOMAIN u.list
        BY <2>4, <2>5, <1>3
      <4> QED BY <4>1 DEF SlotsOf
    <3> QED BY <3>1, <3>2, <3>3
  <2>7. h.list[k].slot \in SlotsOf(h.list)
    BY <2>5 DEF SlotsOf
  <2>8. h.list[k].slot # s /\ h.list[k].slot \notin rest
    BY <1>6, <2>7 DEF Owns
  <2>9. u.pool = rest \cup SlotsOf(u.list) /\ rest \cap SlotsOf(u.list) = {}
    BY <1>6, <2>3, <2>6, <2>8 DEF Owns
  <2>10. \A i \in DOMAIN h.list : h.list[i].slot # s
    BY <1>6 DEF SlotsOf
  <2>11. \A i, j \in DOMAIN u.list : u.list[i].slot = u.list[j].slot => i = j
    BY <1>3, <2>4, <2>10 DEF Owns
  <2>12. \A i, j \in DOMAIN u.list : u.list[i].id = u.list[j].id => i = j
    <3>1. \A i \in DOMAIN u.list : u.list[i].id = h.list[i].id
      BY <1>3, <2>1, <2>4
    <3> QED BY <3>1, <2>4 DEF Owns
  <2> QED BY <1>4, <2>9, <2>11, <2>12 DEF Owns, u
<1> QED BY <1>7, <1>8 DEF u

(* The memory discipline as an inductive invariant: a buffer without a     *)
(* page has no list.                                                       *)
MemoryInv ==
    /\ TypeOK
    /\ PoolIsOwned
    /\ OneDeltaPerBlock
    /\ \A p \in Pages : p \notin Live => deltas[p] = <<>>

(* The slots of the other pages.                                           *)
Others(p) == UNION {SlotsOf(deltas[q]) : q \in Live \ {p}}

(* A page's header owns the pool but for the other pages' slots.           *)
LEMMA HeaderOwns ==
  ASSUME MemoryInv, NEW p \in Live
  PROVE  Owns(Header(p), Others(p))
<1> p \in Pages
  BY DEF Live
<1>1. Header(p) \in Headers
  BY HeaderType DEF MemoryInv
<1>2. Header(p).list = deltas[p] /\ Header(p).pool = pool
  BY DEF Header
<1>3. pool = Others(p) \cup SlotsOf(deltas[p])
  BY DEF MemoryInv, PoolIsOwned, Others
<1>4. Others(p) \cap SlotsOf(deltas[p]) = {}
  <2> SUFFICES ASSUME NEW x \in Others(p), x \in SlotsOf(deltas[p]) PROVE FALSE
    OBVIOUS
  <2>1. PICK q \in Live \ {p} : x \in SlotsOf(deltas[q])
    BY DEF Others
  <2>2. PICK j \in DOMAIN deltas[q] : x = deltas[q][j].slot
    BY <2>1 DEF SlotsOf
  <2>3. PICK k \in DOMAIN deltas[p] : x = deltas[p][k].slot
    BY DEF SlotsOf
  <2> QED BY <2>1, <2>2, <2>3, ZenonT(60) DEF MemoryInv, PoolIsOwned
<1>5. \A j, k \in DOMAIN deltas[p] : deltas[p][j].slot = deltas[p][k].slot => j = k
  BY DEF MemoryInv, PoolIsOwned
<1>6. \A j, k \in DOMAIN deltas[p] : deltas[p][j].id = deltas[p][k].id => j = k
  BY DEF MemoryInv, OneDeltaPerBlock
<1> QED BY <1>1, <1>2, <1>3, <1>4, <1>5, <1>6 DEF Owns

(* A call that leaves a page's new header owning what the old one did      *)
(* keeps the discipline of the whole pool.                                 *)
LEMMA NewHeaderKeepsDiscipline ==
  ASSUME MemoryInv, TypeOK', NEW p \in Live, NEW h, Owns(h, Others(p)),
         deltas' = [deltas EXCEPT ![p] = h.list], pool' = h.pool, status' = status
  PROVE  MemoryInv'
<1>1. p \in Pages /\ Live' = Live
  BY DEF Live
<1>2. deltas'[p] = h.list /\ \A q \in Live \ {p} : deltas'[q] = deltas[q]
  BY <1>1 DEF MemoryInv, TypeOK, Live
<1>3. pool' = UNION {SlotsOf(deltas'[q]) : q \in Live}
  <2>1. pool' = Others(p) \cup SlotsOf(h.list)
    BY DEF Owns
  <2>2. UNION {SlotsOf(deltas'[q]) : q \in Live \ {p}} = Others(p)
    BY <1>2 DEF Others
  <2> QED BY <1>2, <2>1, <2>2
<1>4. ASSUME NEW q \in Live, NEW r \in Live,
             NEW j \in DOMAIN deltas'[q], NEW k \in DOMAIN deltas'[r],
             deltas'[q][j].slot = deltas'[r][k].slot
      PROVE  q = r /\ j = k
  <2>1. CASE q = p /\ r = p
    BY <1>2, <1>4, <2>1 DEF Owns
  <2>2. CASE q # p /\ r # p
    BY <1>2, <1>4, <2>2 DEF MemoryInv, PoolIsOwned
  <2>3. CASE q = p /\ r # p
    <3>1. deltas'[r][k].slot \in Others(p)
      BY <1>2, <2>3 DEF Others, SlotsOf
    <3>2. deltas'[q][j].slot \in SlotsOf(h.list)
      BY <1>2, <2>3 DEF SlotsOf
    <3> QED BY <1>4, <3>1, <3>2 DEF Owns
  <2>4. CASE q # p /\ r = p
    <3>1. deltas'[q][j].slot \in Others(p)
      BY <1>2, <2>4 DEF Others, SlotsOf
    <3>2. deltas'[r][k].slot \in SlotsOf(h.list)
      BY <1>2, <2>4 DEF SlotsOf
    <3> QED BY <1>4, <3>1, <3>2 DEF Owns
  <2> QED BY <2>1, <2>2, <2>3, <2>4
<1>5. PoolIsOwned'
  BY <1>1, <1>3, <1>4 DEF PoolIsOwned
<1>6. OneDeltaPerBlock'
  <2>1. \A q \in Pages : q # p => deltas'[q] = deltas[q]
    BY DEF MemoryInv, TypeOK
  <2> QED BY <1>1, <1>2, <2>1 DEF Owns, MemoryInv, OneDeltaPerBlock
<1>7. \A q \in Pages : q \notin Live' => deltas'[q] = <<>>
  BY <1>1 DEF MemoryInv
<1> QED BY <1>5, <1>6, <1>7 DEF MemoryInv

(* Generating into a buffer that holds no page, and so has no list, leaves *)
(* every list as it was.                                                   *)
LEMMA CompressKeepsDiscipline ==
  ASSUME MemoryInv, TypeOK', NEW p \in Pages, p \notin Live, NEW src, NEW thres, NEW c,
         Compress(p, src, thres, c), pool' = pool
  PROVE  MemoryInv'
<1>1. deltas[p] = <<>>
  BY DEF MemoryInv
<1>2. deltas' = deltas
  BY <1>1 DEF Compress, MemoryInv, TypeOK
<1>3. Live \subseteq Live' /\ Live' \subseteq Live \cup {p}
  BY DEF Compress, Live, MemoryInv, TypeOK
<1>4. SlotsOf(deltas[p]) = {} /\ DOMAIN deltas[p] = {}
  BY <1>1 DEF SlotsOf
<1>5. UNION {SlotsOf(deltas[q]) : q \in Live'} = UNION {SlotsOf(deltas[q]) : q \in Live}
  BY <1>3, <1>4
<1>6. PoolIsOwned'
  <2>1. pool' = UNION {SlotsOf(deltas'[q]) : q \in Live'}
    BY <1>2, <1>5 DEF MemoryInv, PoolIsOwned
  <2>2. ASSUME NEW q \in Live', NEW r \in Live', NEW j \in DOMAIN deltas'[q],
               NEW k \in DOMAIN deltas'[r], deltas'[q][j].slot = deltas'[r][k].slot
        PROVE  q = r /\ j = k
    <3>1. q \in Live /\ r \in Live
      BY <1>2, <1>3, <1>4
    <3> QED BY <1>2, <2>2, <3>1 DEF MemoryInv, PoolIsOwned
  <2> QED BY <2>1, <2>2 DEF PoolIsOwned
<1>7. OneDeltaPerBlock'
  BY <1>2 DEF MemoryInv, OneDeltaPerBlock
<1>8. \A q \in Pages : q \notin Live' => deltas'[q] = <<>>
  BY <1>2, <1>3 DEF MemoryInv
<1> QED BY <1>6, <1>7, <1>8 DEF MemoryInv

(* Freeing a page frees its slots and no others.                           *)
LEMMA FreeKeepsDiscipline ==
  ASSUME MemoryInv, TypeOK', NEW p \in Pages, Free(p)
  PROVE  MemoryInv'
<1>1. p \in Live /\ Live' = Live \ {p}
  BY DEF Free, Live, MemoryInv, TypeOK
<1>2. deltas' = [deltas EXCEPT ![p] = <<>>] /\ pool' = pool \ SlotsOf(deltas[p])
  BY DEF Free
<1>3. deltas'[p] = <<>> /\ \A q \in Pages : q # p => deltas'[q] = deltas[q]
  BY <1>2 DEF MemoryInv, TypeOK
<1>4. /\ pool = Others(p) \cup SlotsOf(deltas[p])
      /\ Others(p) \cap SlotsOf(deltas[p]) = {}
  BY <1>1, HeaderOwns DEF Owns, Header
<1>5. UNION {SlotsOf(deltas'[q]) : q \in Live'} = Others(p)
  BY <1>1, <1>3 DEF Others, Live
<1>6. PoolIsOwned'
  <2>1. pool' = UNION {SlotsOf(deltas'[q]) : q \in Live'}
    BY <1>2, <1>4, <1>5
  <2>2. \A q, r \in Live' : deltas'[q] = deltas[q] /\ deltas'[r] = deltas[r]
    BY <1>1, <1>3 DEF Live
  <2> QED BY <1>1, <2>1, <2>2 DEF MemoryInv, PoolIsOwned
<1>7. OneDeltaPerBlock'
  <2>1. DOMAIN deltas'[p] = {}
    BY <1>3
  <2> QED BY <1>3, <2>1 DEF MemoryInv, OneDeltaPerBlock
<1>8. \A q \in Pages : q \notin Live' => deltas'[q] = <<>>
  BY <1>1, <1>3 DEF MemoryInv
<1> QED BY <1>6, <1>7, <1>8 DEF MemoryInv

(* Every reachable state keeps the memory discipline.                      *)
THEOREM MemoryInvariant == Spec => []MemoryInv
<1>1. Init => MemoryInv
  <2> SUFFICES ASSUME Init PROVE MemoryInv
    OBVIOUS
  <2>1. TypeOK
    <3>1. Zero \in PageContent /\ 0 \in Shorts /\ <<>> \in Seq(DeltaNodes)
      BY DEF Zero, PageContent, Content, Shorts, MinShort, MaxShort
    <3> QED BY <3>1, FS_EmptySet DEF Init, TypeOK
  <2>2. Live = {} /\ pool = {} /\ \A p \in Pages : deltas[p] = <<>>
    BY DEF Init, Live
  <2>3. \A p \in Pages : DOMAIN deltas[p] = {}
    BY <2>2
  <2> QED BY <2>1, <2>2, <2>3 DEF MemoryInv, PoolIsOwned, OneDeltaPerBlock
<1>2. MemoryInv /\ TypeOK' /\ [Next]_vars => MemoryInv'
  <2> SUFFICES ASSUME MemoryInv, TypeOK', [Next]_vars PROVE MemoryInv'
    OBVIOUS
  <2>0. ASSUME UNCHANGED <<status, deltas, pool>> PROVE MemoryInv'
    BY <2>0 DEF MemoryInv, PoolIsOwned, OneDeltaPerBlock, Live
  <2>1. ASSUME NEW p \in Pages, NEW src \in Sources, NEW thres \in Thresholds,
               NEW c \in CompSizes \cup {-1}, Generate(p, src, thres, c)
        PROVE  MemoryInv'
    BY <2>1, CompressKeepsDiscipline DEF Generate, Live
  <2>2. ASSUME NEW p \in Pages, NEW b \in Blocks, NEW v \in Content,
               NEW lim \in DeltaThres, NEW g \in StaleBytes, NEW old \in OldBuffers,
               Update(p, b, v, lim, g, old)
        PROVE  MemoryInv'
    <3> DEFINE flips == XOR(v, base[p][b])
               d == DeltaPacked(flips, lim)
               h == UpdateDeltaList(Header(p), Node(0, b, FALSE, flips, d - 1), g)
    <3>1. CASE d > 0
      <4>1. p \in Live /\ TypeOK /\ g \in Nat
        BY <2>2, ConstantTypes DEF Update, Live, MemoryInv
      <4>2. Owns(h, Others(p))
        BY <3>1, <4>1, UpdateNodeType, HeaderOwns, UpdateDeltaListOwns
      <4>3. /\ deltas' = [deltas EXCEPT ![p] = h.list]
            /\ pool' = h.pool
            /\ status' = status
        BY <2>2, <3>1 DEF Update
      <4> HIDE DEF h
      <4> QED BY <4>1, <4>2, <4>3, NewHeaderKeepsDiscipline
    <3>2. CASE ~(d > 0)
      BY <2>0, <2>2, <3>2 DEF Update
    <3> QED BY <3>1, <3>2
  <2>3. ASSUME NEW p \in Pages, NEW start \in Blocks, NEW n \in 1..(NumBlocks - start),
               NEW g \in [1..n -> StaleBytes], Delete(p, start, n, g)
        PROVE  MemoryInv'
    <3> DEFINE h == DeleteHeader(p, start, n, g)
    <3>1. p \in Live
      BY <2>3 DEF Delete, Live
    <3>2. Owns(h, Others(p))
      <4> DEFINE T == {x \in Headers : Owns(x, Others(p))}
      <4>1. Header(p) \in T
        BY <3>1, HeaderOwns DEF Owns
      <4>2. \A x \in T : \A b \in Blocks, y \in StaleBytes :
               UpdateDeltaList(x, Node(0, b, TRUE, {}, 0), y) \in T
        <5>1. \A x : Owns(x, Others(p)) => x \in Headers
          BY DEF Owns
        <5> QED BY <5>1, UpdateDeltaListOwns, TombstoneType, ConstantTypes
      <4>3. h \in T
        <5> HIDE DEF T
        <5> QED BY <4>1, <4>2, DeleteStaysIn
      <4> QED BY <4>3
    <3>3. /\ deltas' = [deltas EXCEPT ![p] = h.list]
          /\ pool' = h.pool
          /\ status' = status
      BY <2>3 DEF Delete
    <3> HIDE DEF h
    <3> QED BY <3>1, <3>2, <3>3, NewHeaderKeepsDiscipline
  <2>4. ASSUME NEW p \in Pages, NEW n \in 0..NumBlocks, NEW old \in OldBuffers,
               Decompress(p, n, old)
        PROVE  MemoryInv'
    BY <2>0, <2>4 DEF Decompress
  <2>5. ASSUME NEW p \in Pages, NEW b \in Blocks, NEW old \in OldBuffers,
               ApplyDelta(p, b, old)
        PROVE  MemoryInv'
    BY <2>0, <2>5 DEF ApplyDelta
  <2>6. ASSUME NEW p \in Pages, NEW q \in Pages, NEW thres \in Thresholds,
               NEW force \in BOOLEAN, NEW c \in CompSizes \cup {-1},
               Pack(p, q, thres, force, c)
        PROVE  MemoryInv'
    <3>1. CASE UNCHANGED <<status, deltas, pool>>
      BY <2>0, <3>1
    <3>2. CASE Compress(q, Decompressed(p, NumBlocks, Zero), thres, c) /\ pool' = pool
      <4>1. q \notin Live
        BY <2>6 DEF Pack, Live
      <4> QED BY <3>2, <4>1, CompressKeepsDiscipline
    <3> QED BY <2>6, <3>1, <3>2 DEF Pack
  <2>7. ASSUME NEW p \in Pages, Free(p)
        PROVE  MemoryInv'
    BY <2>7, FreeKeepsDiscipline
  <2>8. CASE UNCHANGED vars
    BY <2>0, <2>8 DEF vars
  <2> QED BY <2>1, <2>2, <2>3, <2>4, <2>5, <2>6, <2>7, <2>8 DEF Next
<1> QED BY <1>1, <1>2, TypeCorrect, PTL DEF Spec

(* In every reachable state the slots in use are those of the live pages'  *)
(* nodes, each in one place of one list: update_delta_llist, the loop of   *)
(* zapi_delete_block and zapi_free_page leak nothing and free nothing that *)
(* is still linked.                                                        *)
THEOREM PoolOwnership == Spec => []PoolIsOwned
<1>1. MemoryInv => PoolIsOwned
  BY DEF MemoryInv
<1> QED BY <1>1, MemoryInvariant, PTL

(* No reachable page has two deltas for one block, however many updates    *)
(* and deletions it went through.                                          *)
THEOREM SingleDelta == Spec => []OneDeltaPerBlock
<1>1. MemoryInv => OneDeltaPerBlock
  BY DEF MemoryInv
<1> QED BY <1>1, MemoryInvariant, PTL
-----------------------------------------------------------------------------
(* Contents *)

(* No two nodes of the list are for one block.                             *)
Distinct(list) == \A j, k \in DOMAIN list : list[j].id = list[k].id => j = k

(* What a node makes of a block that holds x.                              *)
NodeMakes(nd, x) == IF nd.tomb THEN {} ELSE DecodePacked(x, nd.flips, x)

(* What a list makes of a block that holds x: only the first node of the   *)
(* block counts.                                                           *)
BlockOf(list, b, x) ==
    IF Hits(list, b) = {} THEN x ELSE NodeMakes(list[FirstHit(list, b)], x)

(* In a list without duplicates the only node of a block is the first.     *)
LEMMA OnlyHit ==
  ASSUME NEW list \in Seq(DeltaNodes), Distinct(list), NEW k \in DOMAIN list
  PROVE  Hits(list, list[k].id) = {k} /\ FirstHit(list, list[k].id) = k
<1>1. Hits(list, list[k].id) = {k}
  BY DEF Hits, Distinct
<1>2. \E j \in {k} : \A i \in {k} : j <= i
  <2>1. k \in Nat
    BY LenProperties
  <2> QED BY <2>1
<1> QED BY <1>1, <1>2 DEF FirstHit

(* apply_delta, which applies every node of the list in turn, makes of     *)
(* each block what zapi_apply_delta makes of it with the one node it looks *)
(* up, when the list has no duplicates.                                    *)
LEMMA ReadOfBlock ==
  ASSUME NEW list \in Seq(DeltaNodes), Distinct(list), NEW page \in PageContent,
         NEW b \in Blocks
  PROVE  ApplyDeltas(list, page)[b] = BlockOf(list, b, page[b])
<1>1. PICK after \in [0..Len(list) -> PageContent] : ApplySteps(after, list, page)
  BY ApplyDeltasLoop
<1> DEFINE n == Len(list)
           Hit(j) == list[j].id = b
<1>2. n \in Nat /\ DOMAIN list = 1..n /\ \A j \in 1..n : list[j] \in DeltaNodes
  BY LenProperties, ElementOfSeq
<1>3. \A j \in 1..n : after[j][b] = IF Hit(j) THEN NodeMakes(list[j], after[j - 1][b])
                                    ELSE after[j - 1][b]
  <2> TAKE j \in 1..n
  <2>1. j - 1 \in 0..n /\ after[j - 1] \in PageContent /\ after[j] = ApplyNode(list[j], after[j - 1])
    BY <1>1, <1>2 DEF ApplySteps
  <2>2. DOMAIN after[j - 1] = Blocks
    BY <2>1 DEF PageContent
  <2> QED BY <2>1, <2>2 DEF ApplyNode, NodeMakes
<1>4. after[0] = page /\ after[n] = ApplyDeltas(list, page)
  BY <1>1 DEF ApplySteps
<1> HIDE DEF n, Hit
<1>5. ASSUME NEW h \in 1..(n + 1), \A j \in 1..n : Hit(j) <=> j = h
      PROVE  \A k \in 0..n : after[k][b] = IF k < h THEN page[b]
                                           ELSE NodeMakes(list[h], page[b])
  <2> DEFINE P(k) == after[k][b] = IF k < h THEN page[b] ELSE NodeMakes(list[h], page[b])
             Bad == {k \in 0..n : ~ P(k)}
  <2> SUFFICES ASSUME Bad # {} PROVE FALSE
    <3>1. SUFFICES \A k \in 0..n : P(k)
      OBVIOUS
    <3> HIDE DEF P
    <3> QED OBVIOUS
  <2>1. Bad \in SUBSET Nat
    BY <1>2
  <2>2. PICK k \in Bad : \A j \in Bad : k <= j
    <3> HIDE DEF Bad
    <3> QED BY <2>1, LeastNatural
  <2>3. k # 0
    BY <1>2, <1>4, <2>2
  <2>4. k \in 1..n /\ k - 1 \in 0..n /\ k - 1 \notin Bad
    BY <1>2, <2>2, <2>3
  <2>5. after[k - 1][b] = IF k - 1 < h THEN page[b] ELSE NodeMakes(list[h], page[b])
    BY <2>4
  <2>6. after[k][b] = IF k = h THEN NodeMakes(list[k], after[k - 1][b]) ELSE after[k - 1][b]
    BY <1>3, <1>5, <2>4
  <2> QED BY <1>2, <2>2, <2>4, <2>5, <2>6
<1>6. CASE Hits(list, b) = {}
  <2>1. \A j \in 1..n : Hit(j) <=> j = n + 1
    BY <1>2, <1>6 DEF Hits, Hit
  <2>2. after[n][b] = page[b]
    BY <1>2, <1>5, <2>1
  <2> QED BY <1>4, <1>6, <2>2 DEF BlockOf
<1>7. CASE Hits(list, b) # {}
  <2>1. PICK h \in DOMAIN list : list[h].id = b
    BY <1>7 DEF Hits
  <2>2. FirstHit(list, b) = h
    BY <2>1, OnlyHit
  <2>3. \A j \in 1..n : Hit(j) <=> j = h
    BY <1>2, <2>1 DEF Distinct, Hit
  <2>4. after[n][b] = NodeMakes(list[h], page[b])
    BY <1>2, <1>5, <2>1, <2>3
  <2> QED BY <1>4, <1>7, <2>2, <2>4 DEF BlockOf
<1> QED BY <1>6, <1>7

(* update_delta_llist makes the new node's block read as that node makes   *)
(* it, whatever was there, and no other block read otherwise.              *)
LEMMA NewNodeReads ==
  ASSUME NEW h, NEW rest, Owns(h, rest), NEW nd \in DeltaNodes, NEW g \in Nat,
         NEW b \in Blocks, NEW x
  PROVE  BlockOf(UpdateDeltaList(h, nd, g).list, b, x) =
             IF b = nd.id THEN NodeMakes(nd, x) ELSE BlockOf(h.list, b, x)
<1> DEFINE new == [nd EXCEPT !.slot = FreshSlot(h.pool)]
           n == Len(h.list)
           k == FirstHit(h.list, nd.id)
           u == UpdateDeltaList(h, nd, g).list
<1>1. Owns(UpdateDeltaList(h, nd, g), rest)
  BY UpdateDeltaListOwns
<1>2. /\ h.list \in Seq(DeltaNodes) /\ Distinct(h.list)
      /\ u \in Seq(DeltaNodes) /\ Distinct(u)
  BY <1>1 DEF Owns, Headers, Distinct
<1>3. new.id = nd.id /\ \A y : NodeMakes(new, y) = NodeMakes(nd, y)
  BY DEF DeltaNodes, NodeMakes
<1>4. u = ListAfter(h, nd)
  BY DEF UpdateDeltaList
<1>5. n \in Nat /\ DOMAIN h.list = 1..n
  BY <1>2, LenProperties
<1>6. ASSUME NEW m \in Nat, m > 0, \A i \in DOMAIN h.list : i # m => i \in DOMAIN u /\ u[i] = h.list[i],
             \A i \in DOMAIN u : i = m \/ i \in DOMAIN h.list,
             m \in DOMAIN u, u[m] = new, m \in DOMAIN h.list => h.list[m].id = nd.id
      PROVE  BlockOf(u, b, x) = IF b = nd.id THEN NodeMakes(nd, x) ELSE BlockOf(h.list, b, x)
  <2> HIDE DEF u, new
  <2>1. CASE b = nd.id
    <3>1. Hits(u, b) = {m} /\ FirstHit(u, b) = m
      BY <1>2, <1>3, <1>6, <2>1, OnlyHit
    <3> QED BY <1>3, <1>6, <2>1, <3>1 DEF BlockOf
  <2>2. CASE b # nd.id
    <3>1. Hits(u, b) = Hits(h.list, b)
      BY <1>3, <1>6, <2>2 DEF Hits
    <3>2. CASE Hits(h.list, b) = {}
      BY <2>2, <3>1, <3>2 DEF BlockOf
    <3>3. CASE Hits(h.list, b) # {}
      <4>1. PICK i \in DOMAIN h.list : h.list[i].id = b
        BY <3>3 DEF Hits
      <4>2. i # m /\ i \in DOMAIN u /\ u[i] = h.list[i]
        BY <1>6, <2>2, <4>1
      <4>3. FirstHit(h.list, b) = i /\ FirstHit(u, b) = i
        BY <1>2, <4>1, <4>2, OnlyHit
      <4> QED BY <2>2, <3>1, <3>3, <4>2, <4>3 DEF BlockOf
    <3> QED BY <3>2, <3>3
  <2> QED BY <2>1, <2>2
<1>7. CASE Hits(h.list, nd.id) = {}
  <2>1. u = Append(h.list, new)
    BY <1>4, <1>7 DEF ListAfter
  <2>2. new \in DeltaNodes
    <3>1. FreshSlot(h.pool) \in Nat
      BY FreshSlotIsFree DEF Owns, Headers
    <3> QED BY <3>1 DEF DeltaNodes
  <2> HIDE DEF n, u, new
  <2>3. /\ DOMAIN u = 1..(n + 1) /\ u[n + 1] = new
        /\ \A i \in 1..n : u[i] = h.list[i]
    BY <1>2, <1>5, <2>1, <2>2, AppendProperties, LenProperties DEF n
  <2> DEFINE m == n + 1
  <2>4. m \in Nat /\ m > 0 /\ m \notin 1..n /\ m \in 1..m /\ \A i \in 1..m : i = m \/ i \in 1..n
    BY <1>5
  <2>4a. \A i \in 1..n : i \in 1..m
    BY <1>5
  <2>5. DOMAIN u = 1..m /\ u[m] = new
    BY <2>3
  <2> HIDE DEF m
  <2>6. BlockOf(u, b, x) = IF b = nd.id THEN NodeMakes(nd, x) ELSE BlockOf(h.list, b, x)
    BY <1>5, <1>6, <2>3, <2>4, <2>4a, <2>5
  <2> QED BY <2>6 DEF u
<1>8. CASE Hits(h.list, nd.id) # {}
  <2>1. k \in 1..n /\ h.list[k].id = nd.id
    BY <1>2, <1>8, FirstHitIsHit
  <2>2. u = [h.list EXCEPT ![k] = new]
    BY <1>4, <1>8 DEF ListAfter
  <2> HIDE DEF n, u, new, k
  <2>3. DOMAIN u = DOMAIN h.list /\ u[k] = new /\ \A i \in 1..n : i # k => u[i] = h.list[i]
    BY <1>5, <2>1, <2>2
  <2>4. k \in Nat /\ k > 0
    BY <1>5, <2>1
  <2>5. BlockOf(u, b, x) = IF b = nd.id THEN NodeMakes(nd, x) ELSE BlockOf(h.list, b, x)
    BY <1>5, <1>6, <2>1, <2>3, <2>4
  <2> QED BY <2>5 DEF u
<1> QED BY <1>7, <1>8

(* What a page reads as, block by block.                                   *)
LEMMA PageReadsBlock ==
  ASSUME MemoryInv, NEW p \in Pages
  PROVE  /\ PageReads(p) \in PageContent
         /\ \A b \in Blocks : PageReads(p)[b] = BlockOf(deltas[p], b, base[p][b])
<1>1. deltas[p] \in Seq(DeltaNodes) /\ base[p] \in PageContent /\ Distinct(deltas[p])
  BY DEF MemoryInv, TypeOK, OneDeltaPerBlock, Distinct
<1> QED BY <1>1, ApplyDeltasType, ReadOfBlock DEF PageReads

(* A page without deltas reads as its base.                                *)
LEMMA NoDeltasRead ==
  ASSUME NEW page \in PageContent
  PROVE  ApplyDeltas(<<>>, page) = page
<1>1. <<>> \in Seq(DeltaNodes) /\ Len(<<>>) = 0
  OBVIOUS
<1>2. PICK after \in [0..Len(<<>>) -> PageContent] : ApplySteps(after, <<>>, page)
  BY <1>1, ApplyDeltasLoop
<1> QED BY <1>1, <1>2 DEF ApplySteps

(* Reading into a buffer that holds anything: a block of the base that was *)
(* decompressed reads as in a read of the whole page.                      *)
LEMMA DecompressedBlock ==
  ASSUME MemoryInv, NEW p \in Pages, NEW n \in 0..NumBlocks, NEW old \in PageContent,
         NEW b \in Blocks, b < n
  PROVE  Decompressed(p, n, old)[b] = PageReads(p)[b]
<1> DEFINE page == DecompressInto(p, n, old)
<1>1. deltas[p] \in Seq(DeltaNodes) /\ base[p] \in PageContent /\ Distinct(deltas[p])
  BY DEF MemoryInv, TypeOK, OneDeltaPerBlock, Distinct
<1>2. page \in PageContent /\ page[b] = base[p][b]
  BY <1>1 DEF DecompressInto, PageContent
<1> HIDE DEF page
<1>3. ApplyDeltas(deltas[p], page)[b] = BlockOf(deltas[p], b, base[p][b])
  BY <1>1, <1>2, ReadOfBlock
<1> QED BY <1>3, PageReadsBlock DEF Decompressed, page

(* zapi_pack_page compresses what a read of the page returns.              *)
LEMMA DecompressedPage ==
  ASSUME TypeOK, NEW p \in Pages, NEW old
  PROVE  Decompressed(p, NumBlocks, old) = PageReads(p)
<1>1. base[p] \in PageContent
  BY DEF TypeOK
<1>2. \A b \in Blocks : b < NumBlocks
  BY ConstantTypes DEF Blocks
<1>3. DecompressInto(p, NumBlocks, old) = base[p]
  BY <1>1, <1>2 DEF DecompressInto, PageContent
<1> QED BY <1>3 DEF Decompressed, PageReads

(* A deletion makes its blocks read as zero and no other block read        *)
(* otherwise, wherever in the list the tombstones end up.                  *)
LEMMA DeletedBlocksRead ==
  ASSUME MemoryInv, NEW p \in Live, NEW start \in Blocks,
         NEW n \in 1..(NumBlocks - start), NEW g \in [1..n -> StaleBytes],
         NEW b \in Blocks, NEW x
  PROVE  BlockOf(DeleteHeader(p, start, n, g).list, b, x) =
             IF b \in start..(start + n - 1) THEN {} ELSE BlockOf(deltas[p], b, x)
<1> DEFINE T == {h \in Headers : Owns(h, Others(p))}
           tomb(i) == Node(0, start + i - 1, TRUE, {}, 0)
           P(h, i) == BlockOf(h.list, b, x) =
                          IF b \in start..(start + i - 1) THEN {} ELSE BlockOf(deltas[p], b, x)
<1>1. PICK after \in [0..n -> T] : DeleteSteps(after, p, start, n, g)
  <2>1. Header(p) \in T
    BY HeaderOwns DEF Owns
  <2>2. \A h \in T : \A c \in Blocks, y \in StaleBytes :
            UpdateDeltaList(h, Node(0, c, TRUE, {}, 0), y) \in T
    <3>1. \A h : Owns(h, Others(p)) => h \in Headers
      BY DEF Owns
    <3> QED BY <3>1, UpdateDeltaListOwns, TombstoneType, ConstantTypes
  <2> HIDE DEF T
  <2> QED BY <2>1, <2>2, DeleteLoop
<1>2. n \in Nat /\ start \in Nat /\ start + n <= NumBlocks /\ b \in Nat
  BY ConstantTypes DEF Blocks
<1>3. P(after[0], 0)
  <2>1. after[0].list = deltas[p]
    BY <1>1 DEF DeleteSteps, Header
  <2>2. start..(start + 0 - 1) = {}
    BY <1>2
  <2> QED BY <2>1, <2>2
<1>4. ASSUME NEW i \in 1..n, P(after[i - 1], i - 1) PROVE P(after[i], i)
  <2>1. i - 1 \in 0..n /\ start + i - 1 \in Blocks
    BY <1>2, ConstantTypes DEF Blocks
  <2>1a. g[i] \in Nat
    BY ConstantTypes
  <2>2. Owns(after[i - 1], Others(p)) /\ tomb(i) \in DeltaNodes
    BY <1>1, <2>1, TombstoneType
  <2>3. after[i] = UpdateDeltaList(after[i - 1], tomb(i), g[i])
    BY <1>1 DEF DeleteSteps
  <2>4. tomb(i).id = start + i - 1 /\ NodeMakes(tomb(i), x) = {}
    BY DEF Node, NodeMakes
  <2> HIDE DEF tomb
  <2>5. BlockOf(after[i].list, b, x) =
            IF b = start + i - 1 THEN {} ELSE BlockOf(after[i - 1].list, b, x)
    <3> DEFINE h == after[i - 1]
               t == tomb(i)
               y == g[i]
    <3>1. /\ Owns(h, Others(p)) /\ t \in DeltaNodes /\ y \in Nat
          /\ t.id = start + i - 1 /\ NodeMakes(t, x) = {}
      BY <2>1a, <2>2, <2>4
    <3>2. after[i] = UpdateDeltaList(h, t, y)
      BY <2>3
    <3> HIDE DEF h, t, y
    <3>3. BlockOf(UpdateDeltaList(h, t, y).list, b, x) =
              IF b = t.id THEN NodeMakes(t, x) ELSE BlockOf(h.list, b, x)
      <4> HIDE DEF T, P
      <4> DEFINE r == Others(p)
      <4>1. Owns(h, r)
        BY <3>1
      <4>2. t \in DeltaNodes /\ y \in Nat
        BY <3>1
      <4> HIDE DEF r
      <4> QED BY <4>1, <4>2, NewNodeReads
    <3>4. BlockOf(after[i].list, b, x) =
              IF b = start + i - 1 THEN {} ELSE BlockOf(h.list, b, x)
      <4>1. BlockOf(after[i].list, b, x) =
                IF b = t.id THEN NodeMakes(t, x) ELSE BlockOf(h.list, b, x)
        BY <3>2, <3>3
      <4> QED BY <3>1, <4>1
    <3> QED BY <3>4 DEF h
  <2>6. b \in start..(start + i - 1) <=> b \in start..(start + (i - 1) - 1) \/ b = start + i - 1
    BY <1>2
  <2> QED BY <1>4, <2>5, <2>6
<1>5. \A i \in 0..n : P(after[i], i)
  <2> HIDE DEF P
  <2> DEFINE Bad == {i \in 0..n : ~ P(after[i], i)}
  <2> SUFFICES ASSUME Bad # {} PROVE FALSE
    OBVIOUS
  <2>1. Bad \in SUBSET Nat
    BY <1>2
  <2>2. PICK i \in Bad : \A j \in Bad : i <= j
    <3> HIDE DEF Bad
    <3> QED BY <2>1, LeastNatural
  <2>3. i # 0
    BY <1>3, <2>2
  <2>4. i \in 1..n /\ i - 1 \in 0..n /\ i - 1 \notin Bad
    BY <1>2, <2>2, <2>3
  <2> QED BY <1>4, <2>2, <2>4
<1> QED
  <2>1. n \in 0..n
    BY <1>2
  <2> QED BY <1>1, <1>5, <2>1 DEF DeleteSteps

-----------------------------------------------------------------------------
(* The two ways of reading *)

(* No run of the delta code is mistaken for an end mark or cut short: its  *)
(* decoder gets to every cell.                                             *)
Lossless == \A flips \in Content : Reached[flips] = Cells

(* Then a delta decoded onto the block it was made against gives the new   *)
(* block, whatever the output buffer held.                                 *)
LEMMA LosslessDelta ==
  ASSUME Lossless, NEW orig \in Content, NEW v \in Content, NEW old \in Content
  PROVE  DecodePacked(orig, XOR(v, orig), old) = v
<1>1. XOR(v, orig) \in Content
  BY XORType
<1>2. Reached[XOR(v, orig)] = Cells
  BY <1>1 DEF Lossless
<1>3. XOR(orig, XOR(v, orig)) = v
  BY DEF XOR
<1> QED BY <1>2, <1>3 DEF DecodePacked, Content

(* And the output buffer makes no difference.                              *)
LEMMA LosslessDecode ==
  ASSUME Lossless, NEW orig \in Content, NEW flips \in Content, NEW old \in Content
  PROVE  DecodePacked(orig, flips, old) = DecodePacked(orig, flips, orig)
BY DEF Lossless, DecodePacked, Content

(* What zapi_apply_delta gives for a block is what a read of the page      *)
(* gives, unless the block is deleted; a deleted block reads as zero.      *)
LEMMA BlockReadsAgree ==
  ASSUME Lossless, MemoryInv, NEW p \in Pages, NEW b \in Blocks, NEW old \in PageContent,
         NEW out \in BlockReads(p, b, old)
  PROVE  \/ out = PageReads(p)[b]
         \/ PageReads(p)[b] = {} /\ \E k \in Tombstones(p) : deltas[p][k].id = b
<1>1. /\ deltas[p] \in Seq(DeltaNodes) /\ Distinct(deltas[p])
      /\ base[p][b] \in Content /\ old[b] \in Content
  BY DEF MemoryInv, TypeOK, OneDeltaPerBlock, Distinct, PageContent
<1>2. PageReads(p)[b] = BlockOf(deltas[p], b, base[p][b])
  BY PageReadsBlock
<1>3. CASE Hits(deltas[p], b) = {}
  BY <1>2, <1>3 DEF BlockOf, BlockReads
<1>4. CASE Hits(deltas[p], b) # {}
  <2>1. PICK k \in DOMAIN deltas[p] : deltas[p][k].id = b
    BY <1>4 DEF Hits
  <2> DEFINE nd == deltas[p][k]
  <2>2. FirstHit(deltas[p], b) = k
    BY <1>1, <2>1, OnlyHit
  <2>3. PageReads(p)[b] = NodeMakes(nd, base[p][b])
    BY <1>2, <1>4, <2>2 DEF BlockOf
  <2>4. nd.flips \in Content
    <3>1. nd \in DeltaNodes
      BY <1>1, <2>1, ElementOfSeq, LenProperties
    <3> HIDE DEF nd
    <3> QED BY <3>1 DEF DeltaNodes
  <2>5. CASE nd.tomb
    BY <2>1, <2>3, <2>5 DEF NodeMakes, Tombstones
  <2>6. CASE ~nd.tomb
    <3>1. out = DecodePacked(base[p][b], nd.flips, old[b])
      BY <1>4, <2>2, <2>6 DEF BlockReads
    <3>2. PageReads(p)[b] = DecodePacked(base[p][b], nd.flips, base[p][b])
      BY <2>3, <2>6 DEF NodeMakes
    <3> QED BY <1>1, <2>4, <3>1, <3>2, LosslessDecode
  <2> QED BY <2>5, <2>6
<1> QED BY <1>3, <1>4

(* With a delta code that loses nothing, zapi_apply_delta on the original  *)
(* of a block gives what zapi_decompress_page gives for it, in every       *)
(* reachable state and into any buffer: the two pieces of code walk the    *)
(* list differently and decode into different buffers.                     *)
THEOREM ReadsAlwaysAgree ==
  ASSUME Lossless
  PROVE  Spec => []ReadsAgree
<1>1. Init => ReadsAgree
  BY DEF Init, ReadsAgree
<1>2. MemoryInv /\ ReadsAgree /\ [Next]_vars => ReadsAgree'
  <2> SUFFICES ASSUME MemoryInv, ReadsAgree, [Next]_vars PROVE ReadsAgree'
    OBVIOUS
  <2>1. ASSUME NEW p \in Pages, NEW b \in Blocks, NEW old \in OldBuffers,
               ApplyDelta(p, b, old)
        PROVE  ReadsAgree'
    <3>1. PICK out \in BlockReads(p, b, old) :
              ret' = Answer("apply", p, b, 1, base[p][b], old, [old EXCEPT ![b] = out])
      BY <2>1 DEF ApplyDelta
    <3>2. old \in PageContent
      BY ZapiPageAssumption
    <3>3. /\ ret'.page = p /\ ret'.block = b
          /\ ret'.out[b] = out
      BY <3>1, <3>2 DEF Answer, PageContent
    <3>4. PageReads(p)' = PageReads(p) /\ Tombstones(p)' = Tombstones(p) /\ deltas' = deltas
      BY <2>1 DEF ApplyDelta, PageReads, Tombstones
    <3>5. \/ out = PageReads(p)[b]
          \/ \E k \in Tombstones(p) : deltas[p][k].id = b
      BY <3>2, BlockReadsAgree
    <3> QED BY <3>3, <3>4, <3>5 DEF ReadsAgree
  <2>2. CASE ret'.op # "apply"
    BY <2>2 DEF ReadsAgree
  <2>3. CASE UNCHANGED vars
    BY <2>3 DEF vars, ReadsAgree, PageReads, Tombstones
  <2>4. ASSUME Next PROVE ret'.op # "apply" \/ ReadsAgree'
    <3>1. \A p, src, thres, c : Generate(p, src, thres, c) => ret'.op # "apply"
      BY DEF Generate, Answer
    <3>2. \A p, b, v, lim, g, old : Update(p, b, v, lim, g, old) => ret'.op # "apply"
      BY DEF Update, Answer
    <3>3. \A p, start, n, g : Delete(p, start, n, g) => ret'.op # "apply"
      BY DEF Delete, Answer
    <3>4. \A p, n, old : Decompress(p, n, old) => ret'.op # "apply"
      BY DEF Decompress, Answer
    <3>5. \A p, q, thres, force, c : Pack(p, q, thres, force, c) => ret'.op # "apply"
      BY DEF Pack, Answer
    <3>6. \A p : Free(p) => ret'.op # "apply"
      BY DEF Free, Answer
    <3> QED BY <2>1, <2>4, <3>1, <3>2, <3>3, <3>4, <3>5, <3>6, Zenon DEF Next
  <2> QED BY <2>2, <2>3, <2>4
<1> QED BY <1>1, <1>2, MemoryInvariant, PTL DEF Spec

-----------------------------------------------------------------------------
(* The page store *)

(* A call that touches one page moves one page of the store.               *)
LEMMA OnePageMoves ==
  ASSUME NEW p \in Pages,
         \A q \in Pages \ {p} : /\ status'[q] = status[q] /\ base'[q] = base[q]
                                /\ deltas'[q] = deltas[q]
  PROVE  /\ UsableBar' = [UsableBar EXCEPT ![p] = (status'[p] = "live")]
         /\ ContentBar' = [ContentBar EXCEPT ![p] = Seen(p, PageReads(p))']
         /\ OrigBar' = [OrigBar EXCEPT ![p] = Seen(p, base[p])']
<1>1. UsableBar' = [UsableBar EXCEPT ![p] = (status'[p] = "live")]
  BY DEF UsableBar
<1>2. \A q \in Pages \ {p} : Seen(q, PageReads(q))' = Seen(q, PageReads(q))
  BY DEF Seen, PageReads
<1>3. ContentBar' = [ContentBar EXCEPT ![p] = Seen(p, PageReads(p))']
  BY <1>2 DEF ContentBar
<1>4. \A q \in Pages \ {p} : Seen(q, base[q])' = Seen(q, base[q])
  BY DEF Seen
<1>5. OrigBar' = [OrigBar EXCEPT ![p] = Seen(p, base[p])']
  BY <1>4 DEF OrigBar
<1> QED BY <1>1, <1>3, <1>5

(* A call that leaves the streams and the lists alone moves no page.       *)
LEMMA NoPageMoves ==
  ASSUME UNCHANGED <<status, base, deltas>>
  PROVE  UNCHANGED <<UsableBar, ContentBar, OrigBar>>
BY DEF UsableBar, ContentBar, OrigBar, Seen, PageReads

(* zapi_generate_page and zapi_pack_page: the buffer becomes a page that   *)
(* reads as its source, or nothing is seen of the attempt.                 *)
LEMMA CompressRefines ==
  ASSUME MemoryInv, NEW p \in Pages, p \notin Live, NEW src \in PageContent,
         NEW thres, NEW c \in CompSizes \cup {-1}, Compress(p, src, thres, c)
  PROVE  \/ /\ UsableBar' = [UsableBar EXCEPT ![p] = TRUE]
            /\ ContentBar' = [ContentBar EXCEPT ![p] = src]
            /\ OrigBar' = [OrigBar EXCEPT ![p] = src]
         \/ /\ CompressCode(thres, c) = 0
            /\ UNCHANGED <<UsableBar, ContentBar, OrigBar>>
<1>1. deltas[p] = <<>>
  BY DEF MemoryInv
<1>2. CASE UNCHANGED <<status, base, deltas>> /\ CompressCode(thres, c) = 0
  BY <1>2, NoPageMoves
<1>3. CASE /\ deltas' = [deltas EXCEPT ![p] = <<>>]
           /\ status' = [status EXCEPT ![p] = "live"]
           /\ base' = [base EXCEPT ![p] = src]
  <2>1. /\ deltas'[p] = <<>> /\ status'[p] = "live" /\ base'[p] = src
        /\ \A q \in Pages \ {p} : /\ status'[q] = status[q] /\ base'[q] = base[q]
                                  /\ deltas'[q] = deltas[q]
    BY <1>3 DEF MemoryInv, TypeOK
  <2>2. PageReads(p)' = src
    BY <2>1, NoDeltasRead DEF PageReads
  <2>3. Seen(p, PageReads(p))' = src /\ Seen(p, base[p])' = src
    BY <2>1, <2>2 DEF Seen
  <2> QED BY <2>1, <2>3, OnePageMoves
<1>4. CASE thres < PageHeader
  BY <1>2, <1>4 DEF Compress, CompressCode
<1>5. CASE ~(thres < PageHeader) /\ c = -1
  <2>1. deltas' = [deltas EXCEPT ![p] = <<>>] /\ UNCHANGED <<status, base>>
    BY <1>5 DEF Compress
  <2>2. deltas' = deltas
    BY <1>1, <2>1 DEF MemoryInv, TypeOK
  <2> QED BY <1>2, <1>5, <2>1, <2>2 DEF CompressCode
<1>6. CASE ~(thres < PageHeader) /\ c # -1
  BY <1>3, <1>6 DEF Compress
<1> QED BY <1>4, <1>5, <1>6

(* zapi_generate_page writes a page of the store.                          *)
LEMMA GenerateRefines ==
  ASSUME MemoryInv, NEW p \in Pages, NEW src \in Sources, NEW thres \in Thresholds,
         NEW c \in CompSizes \cup {-1}, Generate(p, src, thres, c)
  PROVE  Store!Generate(p)
<1>1. p \notin Live /\ src \in PageContent
  BY ZapiPageAssumption DEF Generate, Live
<1>2. /\ ret'.op = "generate" /\ ret'.page = p
      /\ ret'.in = src /\ ret'.code = CompressCode(thres, c)
  BY DEF Generate, Answer
<1>3. UsableBar[p] = FALSE
  BY <1>1 DEF UsableBar, Live
<1>4. Compress(p, src, thres, c)
  BY DEF Generate
<1> QED
  BY <1>1, <1>2, <1>3, <1>4, CompressRefines
     DEF Store!Generate, Store!Becomes

(* Updates are where the mapping has to look through the list: the block   *)
(* updated reads as the new value by the one node that stands for it, and  *)
(* the other blocks as before although nodes may have moved.               *)
LEMMA UpdateRefines ==
  ASSUME Lossless, MemoryInv, NEW p \in Pages, NEW b \in Blocks, NEW v \in Content,
         NEW lim \in DeltaThres, NEW g \in StaleBytes, NEW old \in OldBuffers,
         Update(p, b, v, lim, g, old)
  PROVE  Store!Update(p)
<1> DEFINE flips == XOR(v, base[p][b])
           d == DeltaPacked(flips, lim)
           nd == Node(0, b, FALSE, flips, d - 1)
           h == UpdateDeltaList(Header(p), nd, g)
<1>1. /\ p \in Live /\ UsableBar[p] = TRUE /\ TypeOK
      /\ base[p] \in PageContent /\ base[p][b] \in Content /\ g \in Nat
  BY ConstantTypes DEF Update, Live, UsableBar, MemoryInv, TypeOK, PageContent
<1>2. /\ ret'.op = "update" /\ ret'.page = p /\ ret'.block = b /\ ret'.src = v
      /\ ret'.code = IF d = 0 THEN 0 ELSE 1
  BY DEF Update, Answer
<1>3. UNCHANGED <<status, base>>
  BY DEF Update
<1>4. OrigBar[p] = base[p]
  BY <1>1 DEF OrigBar, Seen, Live
<1>5. CASE d > 0
  <2>1. deltas' = [deltas EXCEPT ![p] = h.list]
    BY <1>5 DEF Update
  <2>2. nd \in DeltaNodes /\ nd.id = b /\ nd.tomb = FALSE /\ nd.flips = flips
    BY <1>1, <1>5, UpdateNodeType DEF Node
  <2>3. Owns(Header(p), Others(p)) /\ Header(p).list = deltas[p]
    BY <1>1, HeaderOwns DEF Header
  <2>4. Owns(h, Others(p))
    BY <1>1, <2>2, <2>3, UpdateDeltaListOwns
  <2>5. NodeMakes(nd, base[p][b]) = v
    <3>1. DecodePacked(base[p][b], flips, base[p][b]) = v
      BY <1>1, LosslessDelta
    <3> HIDE DEF flips, nd
    <3> QED BY <2>2, <3>1 DEF NodeMakes
  <2> HIDE DEF nd
  <2>6. \A c \in Blocks : BlockOf(h.list, c, base[p][c]) =
                              IF c = b THEN v ELSE BlockOf(deltas[p], c, base[p][c])
    <3> TAKE c \in Blocks
    <3> DEFINE x == base[p][c]
               e == Header(p)
    <3>1. BlockOf(h.list, c, x) = IF c = nd.id THEN NodeMakes(nd, x) ELSE BlockOf(e.list, c, x)
      <4> HIDE DEF x, e
      <4> QED BY <1>1, <2>2, <2>3, NewNodeReads DEF e
    <3> QED BY <2>2, <2>3, <2>5, <3>1
  <2> HIDE DEF h
  <2>7. h.list \in Seq(DeltaNodes) /\ Distinct(h.list)
    BY <2>4 DEF Owns, Headers, Distinct
  <2>8. ApplyDeltas(h.list, base[p]) = [PageReads(p) EXCEPT ![b] = v]
    <3> DEFINE new == ApplyDeltas(h.list, base[p])
               was == PageReads(p)
    <3>1. new \in PageContent /\ \A c \in Blocks : new[c] = BlockOf(h.list, c, base[p][c])
      BY <1>1, <2>7, ApplyDeltasType, ReadOfBlock
    <3>2. was \in PageContent /\ \A c \in Blocks : was[c] = BlockOf(deltas[p], c, base[p][c])
      BY PageReadsBlock
    <3> HIDE DEF new, was
    <3>3. \A c \in Blocks : new[c] = IF c = b THEN v ELSE was[c]
      BY <2>6, <3>1, <3>2
    <3>4. new = [was EXCEPT ![b] = v]
      BY <3>1, <3>2, <3>3 DEF PageContent
    <3> QED BY <3>4 DEF new, was
  <2>9. /\ \A q \in Pages \ {p} : deltas'[q] = deltas[q]
        /\ deltas'[p] = h.list
    BY <1>1, <2>1 DEF TypeOK
  <2>10. PageReads(p)' = [PageReads(p) EXCEPT ![b] = v]
    BY <1>3, <2>8, <2>9 DEF PageReads
  <2>11. Seen(p, PageReads(p))' = [ContentBar[p] EXCEPT ![b] = v] /\ status'[p] = "live"
    BY <1>1, <1>3, <2>10 DEF Seen, ContentBar, Live
  <2>12. ContentBar' = [ContentBar EXCEPT ![p][b] = v]
    BY <1>3, <2>9, <2>11, OnePageMoves
  <2>13. UNCHANGED <<UsableBar, OrigBar>>
    BY <1>3 DEF UsableBar, OrigBar, Seen
  <2> QED
    BY <1>1, <1>2, <1>5, <2>12, <2>13
       DEF Store!Update
<1>6. CASE ~(d > 0)
  <2>1. UNCHANGED <<status, base, deltas>>
    BY <1>3, <1>6 DEF Update
  <2>2. d = 0 \/ (d = -1 /\ v = base[p][b])
    <3>1. flips \in Content /\ PackedLen[flips] \in Nat
      BY <1>1, XORType, ZapiPageAssumption
    <3>2. flips = {} => v = base[p][b]
      BY DEF XOR
    <3> QED BY <1>6, <3>1, <3>2 DEF DeltaPacked
  <2>3. UNCHANGED <<UsableBar, ContentBar, OrigBar>>
    BY <2>1, NoPageMoves
  <2> QED
    BY <1>1, <1>2, <1>4, <2>2, <2>3
       DEF Store!Update
<1>7. d \in Int
  <2>1. flips \in Content /\ PackedLen[flips] \in Nat
    BY <1>1, XORType, ZapiPageAssumption
  <2> QED BY <2>1 DEF DeltaPacked
<1> QED BY <1>5, <1>6

(* zapi_delete_block zeroes blocks of the store, by tombstones alone.      *)
LEMMA DeleteRefines ==
  ASSUME MemoryInv, NEW p \in Pages, NEW start \in Blocks,
         NEW n \in 1..(NumBlocks - start), NEW g \in [1..n -> StaleBytes],
         Delete(p, start, n, g)
  PROVE  Store!Delete(p)
<1> DEFINE h == DeleteHeader(p, start, n, g)
           new == ApplyDeltas(h.list, base[p])
           was == PageReads(p)
           cleared == [b \in Blocks |-> IF b \in start..(start + n - 1) THEN {} ELSE was[b]]
<1>1. /\ p \in Live /\ UsableBar[p] = TRUE /\ TypeOK /\ base[p] \in PageContent
      /\ deltas' = [deltas EXCEPT ![p] = h.list] /\ UNCHANGED <<status, base>>
  BY DEF Delete, Live, UsableBar, MemoryInv, TypeOK
<1>2. /\ ret'.op = "delete" /\ ret'.page = p
      /\ ret'.block = start /\ ret'.code = n
  BY DEF Delete, Answer
<1>3. h.list \in Seq(DeltaNodes) /\ Distinct(h.list)
  <2> DEFINE T == {x \in Headers : Owns(x, Others(p))}
  <2>1. Header(p) \in T
    BY <1>1, HeaderOwns DEF Owns
  <2>2. \A x \in T : \A b \in Blocks, y \in StaleBytes :
           UpdateDeltaList(x, Node(0, b, TRUE, {}, 0), y) \in T
    <3>1. \A x : Owns(x, Others(p)) => x \in Headers
      BY DEF Owns
    <3> QED BY <3>1, UpdateDeltaListOwns, TombstoneType, ConstantTypes
  <2>3. h \in T
    <3> HIDE DEF T
    <3> QED BY <2>1, <2>2, DeleteStaysIn
  <2> HIDE DEF h
  <2> QED BY <2>3 DEF Owns, Headers, Distinct
<1>4. \A b \in Blocks : BlockOf(h.list, b, base[p][b]) =
          IF b \in start..(start + n - 1) THEN {} ELSE BlockOf(deltas[p], b, base[p][b])
  BY <1>1, DeletedBlocksRead
<1> HIDE DEF h
<1>5. new = cleared
  <2>1. new \in PageContent /\ \A b \in Blocks : new[b] = BlockOf(h.list, b, base[p][b])
    BY <1>1, <1>3, ApplyDeltasType, ReadOfBlock
  <2>2. \A b \in Blocks : was[b] = BlockOf(deltas[p], b, base[p][b])
    BY PageReadsBlock
  <2> HIDE DEF new, was
  <2>3. \A b \in Blocks : new[b] = cleared[b]
    BY <1>4, <2>1, <2>2
  <2> QED BY <2>1, <2>3 DEF PageContent
<1>6. /\ \A q \in Pages \ {p} : deltas'[q] = deltas[q]
      /\ deltas'[p] = h.list
  BY <1>1 DEF TypeOK
<1>7. Seen(p, PageReads(p))' = cleared /\ ContentBar[p] = was
  <2>1. PageReads(p)' = new
    BY <1>1, <1>6 DEF PageReads
  <2> HIDE DEF new, cleared
  <2> QED BY <1>1, <1>5, <2>1 DEF Seen, ContentBar, Live
<1>8. ContentBar' = [ContentBar EXCEPT ![p] = cleared]
  <2> HIDE DEF cleared
  <2> QED BY <1>1, <1>6, <1>7, OnePageMoves
<1>9. UNCHANGED <<UsableBar, OrigBar>>
  BY <1>1 DEF UsableBar, OrigBar, Seen
<1>10. cleared = [b \in Blocks |-> IF b \in start..(start + n - 1) THEN {} ELSE ContentBar[p][b]]
  BY <1>7
<1> HIDE DEF cleared
<1> QED BY <1>1, <1>2, <1>8, <1>9, <1>10 DEF Store!Delete, Store!Blocks, Blocks

(* zapi_decompress_page reads the store, into a buffer that holds anything. *)
LEMMA DecompressRefines ==
  ASSUME MemoryInv, NEW p \in Pages, NEW n \in 0..NumBlocks, NEW old \in OldBuffers,
         Decompress(p, n, old)
  PROVE  Store!Decompress(p)
<1>1. UsableBar[p] = TRUE /\ ContentBar[p] = PageReads(p)
  BY DEF Decompress, UsableBar, ContentBar, Seen
<1>2. /\ ret'.op = "decompress" /\ ret'.page = p
      /\ ret'.block = n /\ ret'.out = Decompressed(p, n, old)
  BY DEF Decompress, Answer
<1>3. \A b \in Blocks : b < n => Decompressed(p, n, old)[b] = PageReads(p)[b]
  BY DecompressedBlock, ZapiPageAssumption
<1>4. UNCHANGED <<UsableBar, ContentBar, OrigBar>>
  BY NoPageMoves DEF Decompress
<1> QED BY <1>1, <1>2, <1>3, <1>4 DEF Store!Decompress, Store!Blocks, Blocks

(* zapi_apply_delta reads one block of the store.                          *)
LEMMA ApplyDeltaRefines ==
  ASSUME Lossless, MemoryInv, NEW p \in Pages, NEW b \in Blocks, NEW old \in OldBuffers,
         ApplyDelta(p, b, old)
  PROVE  Store!ApplyDelta(p)
<1>1. UsableBar[p] = TRUE /\ ContentBar[p] = PageReads(p)
  BY DEF ApplyDelta, UsableBar, ContentBar, Seen
<1>2. PICK out \in BlockReads(p, b, old) :
          ret' = Answer("apply", p, b, 1, base[p][b], old, [old EXCEPT ![b] = out])
  BY DEF ApplyDelta
<1>3. old \in PageContent
  BY ZapiPageAssumption
<1>4. /\ ret'.op = "apply" /\ ret'.page = p
      /\ ret'.block = b /\ ret'.out[b] = out
  BY <1>2, <1>3 DEF Answer, PageContent
<1>5. out = PageReads(p)[b] \/ PageReads(p)[b] = {}
  BY <1>3, BlockReadsAgree
<1>6. UNCHANGED <<UsableBar, ContentBar, OrigBar>>
  BY NoPageMoves DEF ApplyDelta
<1> QED BY <1>1, <1>4, <1>5, <1>6 DEF Store!ApplyDelta

(* zapi_pack_page copies a page of the store, and leaves the old one.      *)
LEMMA PackRefines ==
  ASSUME MemoryInv, NEW p \in Pages, NEW q \in Pages, NEW thres \in Thresholds,
         NEW force \in BOOLEAN, NEW c \in CompSizes \cup {-1},
         Pack(p, q, thres, force, c)
  PROVE  Store!Pack(p, q)
<1> DEFINE out == Decompressed(p, NumBlocks, Zero)
<1>1. q \notin Live /\ UsableBar[p] = TRUE /\ UsableBar[q] = FALSE
      /\ ContentBar[p] = PageReads(p)
  BY DEF Pack, Live, UsableBar, ContentBar, Seen
<1>2. out = PageReads(p) /\ out \in PageContent
  BY DecompressedPage, PageReadsBlock DEF MemoryInv
<1>3. CASE deltas[p] = <<>> /\ ~force
  <2>1. ret'.op = "pack" /\ ret'.page = p /\ ret'.code = -1
    BY <1>3 DEF Pack, Answer
  <2>2. UNCHANGED <<UsableBar, ContentBar, OrigBar>>
    BY <1>3, NoPageMoves DEF Pack
  <2> QED BY <1>1, <2>1, <2>2 DEF Store!Pack
<1>4. CASE ~(deltas[p] = <<>> /\ ~force)
  <2>1. /\ ret'.op = "pack" /\ ret'.page = p
        /\ ret'.code = CompressCode(thres, c)
    BY <1>4 DEF Pack, Answer
  <2>2. Compress(q, out, thres, c)
    BY <1>4 DEF Pack
  <2> HIDE DEF out
  <2>3. \/ /\ UsableBar' = [UsableBar EXCEPT ![q] = TRUE]
           /\ ContentBar' = [ContentBar EXCEPT ![q] = out]
           /\ OrigBar' = [OrigBar EXCEPT ![q] = out]
        \/ /\ CompressCode(thres, c) = 0
           /\ UNCHANGED <<UsableBar, ContentBar, OrigBar>>
    BY <1>1, <1>2, <2>2, CompressRefines
  <2>4. CASE Store!Becomes(q, out)
    BY <1>1, <1>2, <2>1, <2>4 DEF Store!Pack
  <2>5. CASE CompressCode(thres, c) = 0 /\ UNCHANGED <<UsableBar, ContentBar, OrigBar>>
    BY <1>1, <2>1, <2>5 DEF Store!Pack
  <2> QED BY <2>3, <2>4, <2>5 DEF Store!Becomes
<1> QED BY <1>3, <1>4

(* zapi_free_page takes the page out of the store.                         *)
LEMMA FreeRefines ==
  ASSUME MemoryInv, NEW p \in Pages, Free(p)
  PROVE  Store!Free(p)
<1>1. UsableBar[p] = TRUE /\ ret'.op = "free" /\ ret'.page = p
  BY DEF Free, UsableBar, Answer
<1>2. /\ status'[p] = "raw"
      /\ \A q \in Pages \ {p} : /\ status'[q] = status[q] /\ base'[q] = base[q]
                                /\ deltas'[q] = deltas[q]
  BY DEF Free, MemoryInv, TypeOK
<1>3. Seen(p, PageReads(p))' = Zero /\ Seen(p, base[p])' = Zero
  BY <1>2 DEF Seen
<1>4. /\ UsableBar' = [UsableBar EXCEPT ![p] = FALSE]
      /\ ContentBar' = [ContentBar EXCEPT ![p] = Zero]
      /\ OrigBar' = [OrigBar EXCEPT ![p] = Zero]
  BY <1>2, <1>3, OnePageMoves
<1> QED BY <1>1, <1>4 DEF Store!Free, Store!Blocks, Zero, Blocks

(* With a delta code that loses nothing, the page engine implements the    *)
(* page store, call by call: compression, the delta list, the order and    *)
(* the replacement of its nodes, tombstones and packing show in no answer  *)
(* and in no block but the ones the call is about.  The one liberty the    *)
(* store grants is the update that goes unnoticed.                         *)
THEOREM StoreImplemented ==
  ASSUME Lossless
  PROVE  Spec => StoreSpec
<1>1. Init => Store!Init
  <2> SUFFICES ASSUME Init PROVE Store!Init
    OBVIOUS
  <2>1. \A p \in Pages : status[p] # "live"
    BY DEF Init
  <2>2. /\ UsableBar = [p \in Pages |-> FALSE]
        /\ ContentBar = [p \in Pages |-> Zero]
        /\ OrigBar = [p \in Pages |-> Zero]
    BY <2>1 DEF UsableBar, ContentBar, OrigBar, Seen
  <2>3. ret.op = "none"
    BY DEF Init
  <2> QED BY <2>2, <2>3 DEF Store!Init, Store!Blocks, Zero, Blocks
<1>2. MemoryInv /\ [Next]_vars => [Store!Next]_(Store!vars)
  <2> SUFFICES ASSUME MemoryInv, [Next]_vars PROVE [Store!Next]_(Store!vars)
    OBVIOUS
  <2>1. ASSUME NEW p \in Pages, NEW src \in Sources, NEW thres \in Thresholds,
               NEW c \in CompSizes \cup {-1}, Generate(p, src, thres, c)
        PROVE  Store!Next
    BY <2>1, GenerateRefines DEF Store!Next
  <2>2. ASSUME NEW p \in Pages, NEW b \in Blocks, NEW v \in Content,
               NEW lim \in DeltaThres, NEW g \in StaleBytes, NEW old \in OldBuffers,
               Update(p, b, v, lim, g, old)
        PROVE  Store!Next
    BY <2>2, UpdateRefines DEF Store!Next
  <2>3. ASSUME NEW p \in Pages, NEW start \in Blocks, NEW n \in 1..(NumBlocks - start),
               NEW g \in [1..n -> StaleBytes], Delete(p, start, n, g)
        PROVE  Store!Next
    BY <2>3, DeleteRefines DEF Store!Next
  <2>4. ASSUME NEW p \in Pages, NEW n \in 0..NumBlocks, NEW old \in OldBuffers,
               Decompress(p, n, old)
        PROVE  Store!Next
    BY <2>4, DecompressRefines DEF Store!Next
  <2>5. ASSUME NEW p \in Pages, NEW b \in Blocks, NEW old \in OldBuffers,
               ApplyDelta(p, b, old)
        PROVE  Store!Next
    BY <2>5, ApplyDeltaRefines DEF Store!Next
  <2>6. ASSUME NEW p \in Pages, NEW q \in Pages, NEW thres \in Thresholds,
               NEW force \in BOOLEAN, NEW c \in CompSizes \cup {-1},
               Pack(p, q, thres, force, c)
        PROVE  Store!Next
    BY <2>6, PackRefines DEF Store!Next
  <2>7. ASSUME NEW p \in Pages, Free(p)
        PROVE  Store!Next
    BY <2>7, FreeRefines DEF Store!Next
  <2>8. CASE UNCHANGED vars
    <3>1. UNCHANGED <<UsableBar, ContentBar, OrigBar, ret>>
      BY <2>8, NoPageMoves DEF vars
    <3> QED BY <3>1 DEF Store!vars
  <2> QED BY <2>1, <2>2, <2>3, <2>4, <2>5, <2>6, <2>7, <2>8 DEF Next
<1> QED BY <1>1, <1>2, MemoryInvariant, PTL DEF Spec, StoreSpec, Store!Spec

-----------------------------------------------------------------------------
(* Sizes *)

(* A value a short can hold survives the assignment, a larger one gets     *)
(* smaller, and a sum may be brought into range once or at every step.     *)
LEMMA Int16Facts ==
  /\ \A x \in Shorts : Int16(x) = x
  /\ \A x \in Int : MinShort <= x => Int16(x) <= x
  /\ \A x, y \in Int : Int16(Int16(x) + y) = Int16(x + y)
<1>1. ASSUME NEW x \in Int, MinShort <= x PROVE Int16(x) <= x
  <2> DEFINE y == x + 32768
  <2>1. y \in Nat
    BY <1>1 DEF MinShort
  <2>2. \A z \in Nat : z % 65536 <= z
    OBVIOUS
  <2>3. y % 65536 <= y /\ y % 65536 \in Int
    BY <2>1, <2>2
  <2> QED BY <2>3 DEF Int16
<1>2. ASSUME NEW x \in Shorts PROVE Int16(x) = x
  <2> DEFINE y == x + 32768
  <2>1. x \in Int /\ MinShort <= x /\ x <= MaxShort
    BY <1>2, ConstantTypes DEF Shorts
  <2>2. y \in Int /\ 0 <= y /\ y < 65536
    BY <2>1 DEF MinShort, MaxShort
  <2>3. \A z \in Int : 0 <= z /\ z < 65536 => z % 65536 = z
    OBVIOUS
  <2>4. y % 65536 = y
    BY <2>2, <2>3
  <2>5. y - 32768 = x
    BY <2>1
  <2> QED BY <2>4, <2>5 DEF Int16
<1>3. ASSUME NEW x \in Int, NEW y \in Int PROVE Int16(Int16(x) + y) = Int16(x + y)
  <2>1. \A u, v \in Int : ((u % 65536) + v) % 65536 = (u + v) % 65536
    OBVIOUS
  <2> DEFINE u == x + 32768
             r == u % 65536
  <2>2. u \in Int /\ r \in Int
    OBVIOUS
  <2>3. (r + y) % 65536 = (u + y) % 65536
    BY <2>1, <2>2
  <2>4. Int16(x) = r - 32768
    BY DEF Int16
  <2> HIDE DEF r
  <2>5. Int16(x) + y + 32768 = r + y /\ x + y + 32768 = u + y
    BY <2>2, <2>4
  <2> QED BY <2>3, <2>5 DEF Int16
<1> QED BY <1>1, <1>2, <1>3

(* The bytes of one node.                                                  *)
NodeBytes(nd) == NodeHeader + Payload(nd)

(* They are a number.                                                      *)
LEMMA NodeBytesType ==
  ASSUME NEW nd \in DeltaNodes
  PROVE  Payload(nd) \in Nat /\ NodeBytes(nd) \in Nat
BY DEF NodeBytes, Payload, NodeHeader, DeltaNodes

(* The sums of a list's bytes: `upto[k]' is that of its first k nodes.     *)
BytesSteps(upto, list) ==
    /\ upto[0] = 0
    /\ \A k \in 1..Len(list) : upto[k] = upto[k - 1] + NodeBytes(list[k])
    /\ upto[Len(list)] = ListBytes(list)

(* Those sums exist: the recursive function of ListBytes is them.          *)
LEMMA BytesLoop ==
  ASSUME NEW list \in Seq(DeltaNodes)
  PROVE  \E upto \in [0..Len(list) -> Nat] : BytesSteps(upto, list)
<1> DEFINE n == Len(list)
           add(a, k) == a + NodeHeader + Payload(list[k])
           Body(a) == [k \in 0..n |-> IF k = 0 THEN 0 ELSE add(a[k - 1], k)]
           step == [x \in Nat \X Nat |-> IF x[2] \in 1..n THEN add(x[1], x[2]) ELSE x[1]]
<1>1. n \in Nat /\ \A i \in 1..n : list[i] \in DeltaNodes
  BY LenProperties, ElementOfSeq
<1> HIDE DEF n
<1>2. \A a \in Nat : \A i \in 1..n : /\ add(a, i) \in Nat
                                     /\ add(a, i) = a + NodeBytes(list[i])
  <2> TAKE a \in Nat
  <2> TAKE i \in 1..n
  <2>1. Payload(list[i]) \in Nat
    BY <1>1, NodeBytesType
  <2> QED BY <2>1 DEF NodeBytes, NodeHeader
<1> HIDE DEF add
<1>3. PICK f : IsLoop(f, Nat, 0, step, n)
  <2>1. step \in LoopBodies(Nat)
    BY <1>2 DEF LoopBodies
  <2> HIDE DEF step
  <2> QED BY <1>1, <2>1, LoopExists
<1>4. f = Body(f)
  <2>1. f \in [0..n -> Nat]
    BY <1>3 DEF IsLoop
  <2>2. ASSUME NEW i \in 0..n PROVE f[i] = Body(f)[i]
    <3>1. CASE i = 0
      BY <3>1, <1>3 DEF IsLoop
    <3>2. CASE i # 0
      <4>1. i \in 1..n /\ i - 1 \in 0..n /\ i \in Nat
        BY <1>1, <3>2
      <4>2. f[i - 1] \in Nat /\ f[i] = step[<<f[i - 1], i>>]
        BY <4>1, <1>3 DEF IsLoop
      <4>3. step[<<f[i - 1], i>>] = add(f[i - 1], i)
        BY <4>1, <4>2
      <4> QED BY <4>1, <4>2, <4>3, <3>2
    <3> QED BY <3>1, <3>2
  <2> QED BY <2>1, <2>2
<1> DEFINE after == CHOOSE a : a = Body(a)
<1>5. after = Body(after)
  <2> HIDE DEF Body
  <2> QED BY <1>4
<1>6. ListBytes(list) = after[n]
  BY DEF ListBytes, n, add
<1> HIDE DEF after
<1>7. after[0] = 0 /\ \A k \in 1..n : after[k] = add(after[k - 1], k)
  <2>1. after[0] = 0
    BY <1>1, <1>5
  <2>2. ASSUME NEW k \in 1..n PROVE after[k] = add(after[k - 1], k)
    <3>1. k \in 0..n /\ k # 0
      BY <1>1
    <3> QED BY <1>5, <3>1
  <2> QED BY <2>1, <2>2
<1>8. \A i \in 0..n : after[i] \in Nat
  <2> DEFINE Bad == {i \in 0..n : after[i] \notin Nat}
  <2> SUFFICES ASSUME Bad # {} PROVE FALSE
    OBVIOUS
  <2>1. Bad \in SUBSET Nat
    BY <1>1
  <2>2. PICK i \in Bad : \A j \in Bad : i <= j
    <3> HIDE DEF Bad
    <3> QED BY <2>1, LeastNatural
  <2>3. i # 0
    BY <2>2, <1>7
  <2>4. i \in 1..n /\ i - 1 \in 0..n /\ i - 1 \notin Bad
    BY <1>1, <2>2, <2>3
  <2> QED BY <1>2, <1>7, <2>2, <2>4
<1>9. after \in [0..n -> Nat]
  <2> DEFINE b == Body(after)
  <2>1. b \in [0..n -> Nat]
    <3>1. \A i \in 0..n : b[i] = after[i]
      BY <1>5
    <3> QED BY <3>1, <1>8
  <2> HIDE DEF b
  <2> QED BY <2>1, <1>5 DEF b
<1>10. BytesSteps(after, list)
  <2>1. ASSUME NEW k \in 1..n PROVE after[k] = after[k - 1] + NodeBytes(list[k])
    <3>1. k - 1 \in 0..n
      BY <1>1
    <3> QED BY <1>2, <1>7, <1>8, <3>1
  <2> QED BY <1>6, <1>7, <2>1 DEF BytesSteps, n
<1> QED BY <1>9, <1>10 DEF n

(* Two lists whose sums are taken side by side differ by what their nodes  *)
(* differ by: nothing up to the m-th node, d from there on.                *)
LEMMA SumsDiffer ==
  ASSUME NEW n \in Nat, NEW f \in [0..n -> Nat], NEW g \in [0..n -> Nat],
         NEW m \in 1..(n + 1), NEW d \in Int, NEW v \in [1..n -> Nat], f[0] = g[0],
         \A k \in 1..n : f[k] = f[k - 1] + v[k],
         \A k \in 1..n : g[k] = IF k = m THEN g[k - 1] + v[k] + d ELSE g[k - 1] + v[k]
  PROVE  g[n] = IF m = n + 1 THEN f[n] ELSE f[n] + d
<1> DEFINE P(k) == g[k] = IF k < m THEN f[k] ELSE f[k] + d
           Bad == {k \in 0..n : ~ P(k)}
<1>1. Bad = {}
  <2> SUFFICES ASSUME Bad # {} PROVE FALSE
    OBVIOUS
  <2>1. Bad \in SUBSET Nat
    OBVIOUS
  <2>2. PICK k \in Bad : \A j \in Bad : k <= j
    <3> HIDE DEF Bad
    <3> QED BY <2>1, LeastNatural
  <2>3. k \in 0..n /\ ~ P(k)
    OBVIOUS
  <2>3a. P(0)
    OBVIOUS
  <2> HIDE DEF P
  <2>4. k \in 1..n /\ k - 1 \in 0..n /\ P(k - 1)
    <3>1. k # 0
      BY <2>3, <2>3a
    <3>2. k \in 1..n /\ k - 1 \in 0..n
      BY <2>3, <3>1
    <3>3. k - 1 \notin Bad
      BY <2>2, <3>2
    <3> QED BY <3>2, <3>3
  <2>5. g[k - 1] = IF k - 1 < m THEN f[k - 1] ELSE f[k - 1] + d
    BY <2>4 DEF P
  <2>6. f[k] = f[k - 1] + v[k] /\ f[k - 1] \in Nat /\ v[k] \in Nat
    BY <2>4
  <2>7. g[k] = IF k = m THEN g[k - 1] + v[k] + d ELSE g[k - 1] + v[k]
    BY <2>4
  <2>8. P(k)
    <3>1. CASE k < m
      BY <2>4, <2>5, <2>6, <2>7, <3>1 DEF P
    <3>2. CASE k = m
      BY <2>4, <2>5, <2>6, <2>7, <3>2, SMTT(30) DEF P
    <3>3. CASE k > m
      BY <2>4, <2>5, <2>6, <2>7, <3>3, SMTT(30) DEF P
    <3> QED BY <2>4, <3>1, <3>2, <3>3
  <2> QED BY <2>3, <2>8, SMTT(30)
<1> QED
  <2>1. P(n)
    <3> HIDE DEF P
    <3> QED BY <1>1
  <2>2. n < m <=> m = n + 1
    OBVIOUS
  <2> QED BY <2>1, <2>2

(* A node at the end of the list adds its bytes.                           *)
LEMMA AppendBytes ==
  ASSUME NEW list \in Seq(DeltaNodes), NEW nd \in DeltaNodes
  PROVE  ListBytes(Append(list, nd)) = ListBytes(list) + NodeBytes(nd)
<1> DEFINE n == Len(list)
           longer == Append(list, nd)
           v == [k \in 1..n |-> NodeBytes(list[k])]
<1>1. /\ n \in Nat /\ longer \in Seq(DeltaNodes) /\ Len(longer) = n + 1
      /\ \A k \in 1..n : longer[k] = list[k] /\ list[k] \in DeltaNodes
      /\ longer[n + 1] = nd
  BY AppendProperties, LenProperties, ElementOfSeq
<1>2. PICK f \in [0..n -> Nat] : BytesSteps(f, list)
  BY BytesLoop
<1> HIDE DEF longer
<1>3. PICK g \in [0..(n + 1) -> Nat] : BytesSteps(g, longer)
  BY <1>1, BytesLoop
<1> HIDE DEF n
<1>4. v \in [1..n -> Nat]
  BY <1>1, NodeBytesType
<1> DEFINE g0 == [k \in 0..n |-> g[k]]
<1>5. g0 \in [0..n -> Nat] /\ g0[0] = f[0] /\ g0[n] = g[n]
  BY <1>1, <1>2, <1>3 DEF BytesSteps
<1>6. \A k \in 1..n : f[k] = f[k - 1] + v[k]
  BY <1>2 DEF BytesSteps, n
<1>7. ASSUME NEW k \in 1..n PROVE g0[k] = g0[k - 1] + v[k]
  <2>1. k \in 1..(n + 1) /\ k \in 0..n /\ k - 1 \in 0..n
    BY <1>1
  <2>2. g[k] = g[k - 1] + NodeBytes(list[k])
    BY <1>1, <1>3, <2>1 DEF BytesSteps
  <2> QED BY <2>1, <2>2
<1> HIDE DEF v, g0
<1>8. g0[n] = f[n]
  <2>1. \A k \in 1..n : k # n + 1
    BY <1>1
  <2>2. n + 1 \in 1..(n + 1) /\ 0 \in Int
    BY <1>1
  <2>3. \A k \in 1..n : g0[k] = IF k = n + 1 THEN g0[k - 1] + v[k] + 0 ELSE g0[k - 1] + v[k]
    BY <1>7, <2>1
  <2> QED BY <1>1, <1>2, <1>4, <1>5, <1>6, <2>2, <2>3, SumsDiffer
<1>9. g[n + 1] = g[n] + NodeBytes(nd)
  <2>1. n + 1 \in 1..(n + 1) /\ n + 1 - 1 = n
    BY <1>1
  <2> QED BY <1>1, <1>3, <2>1 DEF BytesSteps
<1>10. f[n] = ListBytes(list) /\ g[n + 1] = ListBytes(longer)
  BY <1>1, <1>2, <1>3 DEF BytesSteps, n
<1> QED BY <1>5, <1>8, <1>9, <1>10 DEF longer

(* A node in the place of another changes the bytes by the difference of   *)
(* their payloads.                                                         *)
LEMMA ReplaceBytes ==
  ASSUME NEW list \in Seq(DeltaNodes), NEW nd \in DeltaNodes, NEW k \in 1..Len(list)
  PROVE  ListBytes([list EXCEPT ![k] = nd]) =
             ListBytes(list) + (Payload(nd) - Payload(list[k]))
<1> DEFINE n == Len(list)
           new == [list EXCEPT ![k] = nd]
           v == [j \in 1..n |-> NodeBytes(list[j])]
           d == Payload(nd) - Payload(list[k])
<1>1. /\ n \in Nat /\ new \in Seq(DeltaNodes) /\ Len(new) = n
      /\ \A j \in 1..n : new[j] = (IF j = k THEN nd ELSE list[j]) /\ list[j] \in DeltaNodes
  BY LenProperties, ElementOfSeq, ExceptSeq
<1>2. PICK f \in [0..n -> Nat] : BytesSteps(f, list)
  BY BytesLoop
<1> HIDE DEF new
<1>3. PICK g \in [0..n -> Nat] : BytesSteps(g, new)
  BY <1>1, BytesLoop
<1>3a. k \in 1..n
  OBVIOUS
<1> HIDE DEF n
<1>4. v \in [1..n -> Nat] /\ d \in Int
  <2>1. Payload(nd) \in Nat /\ Payload(list[k]) \in Nat
    BY <1>1, <1>3a, NodeBytesType
  <2>2. v \in [1..n -> Nat]
    BY <1>1, NodeBytesType
  <2>3. d \in Int
    BY <2>1
  <2> QED BY <2>2, <2>3
<1>5. f[0] = g[0] /\ f[n] = ListBytes(list) /\ g[n] = ListBytes(new)
  BY <1>1, <1>2, <1>3 DEF BytesSteps, n
<1>6. \A j \in 1..n : f[j] = f[j - 1] + v[j]
  BY <1>2 DEF BytesSteps, n
<1>7. ASSUME NEW j \in 1..n
      PROVE  g[j] = IF j = k THEN g[j - 1] + v[j] + d ELSE g[j - 1] + v[j]
  <2>1. g[j] = g[j - 1] + NodeBytes(new[j])
    BY <1>1, <1>3 DEF BytesSteps
  <2>2. CASE j # k
    BY <1>1, <2>1, <2>2
  <2>3. CASE j = k
    <3>1. /\ Payload(nd) \in Nat /\ Payload(list[k]) \in Nat
          /\ j - 1 \in 0..n /\ g[j - 1] \in Nat /\ new[j] = nd
      <4>1. Payload(nd) \in Nat /\ Payload(list[k]) \in Nat
        BY <1>1, <1>3a, NodeBytesType
      <4>2. j - 1 \in 0..n
        BY <1>1
      <4> QED BY <1>1, <2>3, <4>1, <4>2
    <3>2. v[j] = NodeHeader + Payload(list[k])
      BY <2>3 DEF NodeBytes
    <3>3. NodeBytes(new[j]) = NodeHeader + Payload(nd)
      BY <3>1 DEF NodeBytes
    <3>4. v[j] \in Nat /\ NodeHeader \in Int
      BY <1>4 DEF NodeHeader
    <3>5. NodeBytes(new[j]) = v[j] + d
      <4> DEFINE a == Payload(nd)
                 b == Payload(list[k])
      <4>1. a \in Nat /\ b \in Nat /\ v[j] = NodeHeader + b /\ NodeBytes(new[j]) = NodeHeader + a
        BY <3>1, <3>2, <3>3
      <4>2. d = a - b
        OBVIOUS
      <4> HIDE DEF a, b, v, d
      <4> QED BY <3>4, <4>1, <4>2
    <3> HIDE DEF v, d
    <3> QED BY <1>4, <2>1, <2>3, <3>1, <3>4, <3>5
  <2> QED BY <2>2, <2>3
<1> HIDE DEF v, d
<1>8. k \in 1..(n + 1) /\ k # n + 1
  BY <1>1, <1>3a
<1>9. g[n] = f[n] + d
  <2>0. n \in Nat /\ v \in [1..n -> Nat] /\ d \in Int /\ k \in 1..(n + 1) /\ f[0] = g[0]
    BY <1>1, <1>4, <1>5, <1>8
  <2>1. g[n] = IF k = n + 1 THEN f[n] ELSE f[n] + d
    <3> USE <1>6, <1>7, <2>0
    <3> QED BY SumsDiffer
  <2> QED BY <1>8, <2>1
<1> QED BY <1>5, <1>9 DEF new, d

(* What t_size loses when nd goes into the list: a node of its block that  *)
(* is a tombstone is taken to hold the stale byte g, and that many bytes   *)
(* more.                                                                   *)
Lost(h, nd, g) == IF \E k \in Hits(h.list, nd.id) : h.list[k].tomb THEN g + 1 ELSE 0

(* update_delta_llist changes t_size by what it changes the page by, but   *)
(* for what it loses, as long as length bytes hold the lengths; and t_size *)
(* shrinks only where a node is replaced, by 256 at most.                  *)
LEMMA UpdateBytes ==
  ASSUME NEW h \in Headers, Distinct(h.list), NEW nd \in DeltaNodes, NEW g \in 0..MaxByte,
         \A k \in DOMAIN h.list : h.list[k].bytes <= MaxByte
  PROVE  \E x \in Int :
             /\ UpdateDeltaList(h, nd, g).size = Int16(h.size + x)
             /\ ListBytes(UpdateDeltaList(h, nd, g).list) =
                    ListBytes(h.list) + x + Lost(h, nd, g)
             /\ x >= -256 /\ (Hits(h.list, nd.id) = {} => x >= 0)
<1> DEFINE new == [nd EXCEPT !.slot = FreshSlot(h.pool)]
           u == UpdateDeltaList(h, nd, g)
           k == FirstHit(h.list, nd.id)
           old == h.list[k]
<1>1. /\ h.list \in Seq(DeltaNodes) /\ h.size \in Int
      /\ h.pool \in SUBSET Nat /\ IsFiniteSet(h.pool)
  BY ConstantTypes DEF Headers
<1>2. new \in DeltaNodes /\ Payload(new) = Payload(nd)
  <2>1. FreshSlot(h.pool) \in Nat
    BY <1>1, FreshSlotIsFree
  <2> QED BY <2>1 DEF DeltaNodes, Payload
<1>3. u.list = ListAfter(h, nd) /\ u.size = SizeAfter(h, nd, g)
  BY DEF UpdateDeltaList
<1>4. Payload(nd) \in Nat
  BY NodeBytesType
<1>5. ListBytes(h.list) \in Nat
  <2>1. PICK f \in [0..Len(h.list) -> Nat] : BytesSteps(f, h.list)
    BY <1>1, BytesLoop
  <2> QED BY <1>1, <2>1, LenProperties DEF BytesSteps
<1>5a. MaxByte = 255 /\ g \in Nat /\ g <= 255
  BY DEF MaxByte
<1>6. CASE Hits(h.list, nd.id) = {}
  <2> DEFINE x == Payload(nd) + NodeHeader
  <2>1. x \in Int /\ x >= 0
    BY <1>4 DEF NodeHeader
  <2>2. u.size = Int16(h.size + x)
    <3>1. h.size + Payload(nd) + NodeHeader = h.size + x
      BY <1>1, <1>4 DEF NodeHeader
    <3> QED BY <1>3, <1>6, <3>1 DEF SizeAfter
  <2>3. Lost(h, nd, g) = 0
    BY <1>6 DEF Lost
  <2>4. ListBytes(u.list) = ListBytes(h.list) + x
    <3>1. u.list = Append(h.list, new)
      BY <1>3, <1>6 DEF ListAfter
    <3>2. NodeBytes(new) = x
      BY <1>2, <1>4 DEF NodeBytes, NodeHeader
    <3> HIDE DEF new, u, x
    <3> QED BY <1>1, <1>2, <3>1, <3>2, AppendBytes
  <2> HIDE DEF x
  <2>5. ListBytes(u.list) = ListBytes(h.list) + x + Lost(h, nd, g) /\ x >= -256
    BY <1>5, <2>1, <2>3, <2>4
  <2> QED BY <2>1, <2>2, <2>5
<1>7. CASE Hits(h.list, nd.id) # {}
  <2> DEFINE x == Payload(nd) - (LengthByte(old, g) + 1)
             n == Len(h.list)
  <2>1. k \in 1..n /\ old.id = nd.id /\ old \in DeltaNodes
    BY <1>1, <1>7, FirstHitIsHit, ElementOfSeq
  <2>2. old.bytes \in Nat /\ old.bytes <= 255 /\ old.tomb \in BOOLEAN
    <3>1. k \in DOMAIN h.list
      BY <1>1, <2>1, LenProperties
    <3> HIDE DEF k
    <3> QED BY <2>1, <3>1, <1>5a DEF DeltaNodes
  <2>3. Hits(h.list, nd.id) = {k}
    <3>1. k \in DOMAIN h.list
      BY <1>1, <2>1, LenProperties
    <3> HIDE DEF k
    <3> QED BY <1>1, <2>1, <3>1, OnlyHit
  <2>4. u.list = [h.list EXCEPT ![k] = new]
    BY <1>3, <1>7 DEF ListAfter
  <2>5. u.size = Int16(h.size + Payload(nd) - (LengthByte(old, g) + 1))
    BY <1>3, <1>7 DEF SizeAfter
  <2>6. ListBytes(u.list) = ListBytes(h.list) + (Payload(nd) - Payload(old))
    <3> DEFINE b == Payload(new) - Payload(old)
    <3>1. ListBytes([h.list EXCEPT ![k] = new]) = ListBytes(h.list) + b
      <4> HIDE DEF new, k
      <4> QED BY <1>1, <1>2, <2>1, ReplaceBytes
    <3> QED BY <1>2, <2>4, <3>1
  <2>7. /\ LengthByte(old, g) \in Nat /\ LengthByte(old, g) <= 255
        /\ Payload(old) \in Nat
        /\ Payload(nd) - Payload(old) = x + Lost(h, nd, g)
    <3>1. CASE old.tomb
      <4>1. LengthByte(old, g) = g /\ Payload(old) = 0 /\ Lost(h, nd, g) = g + 1
        <5> HIDE DEF k
        <5> QED BY <2>3, <3>1 DEF LengthByte, Payload, Lost
      <4> HIDE DEF old
      <4> QED BY <1>4, <1>5a, <4>1
    <3>2. CASE ~old.tomb
      <4>1. old.bytes % 256 = old.bytes
        BY <2>2
      <4>2. Lost(h, nd, g) = 0
        <5> HIDE DEF k
        <5> QED BY <2>3, <3>2 DEF Lost
      <4>3. LengthByte(old, g) = old.bytes /\ Payload(old) = old.bytes + 1
        BY <3>2, <4>1 DEF LengthByte, Payload
      <4> HIDE DEF old
      <4> QED BY <1>4, <2>2, <4>2, <4>3
    <3> QED BY <3>1, <3>2
  <2>8. Lost(h, nd, g) \in Nat
    BY <1>5a DEF Lost
  <2> DEFINE l == LengthByte(old, g)
  <2> HIDE DEF u, old
  <2>9. x \in Int /\ x >= -256 /\ u.size = Int16(h.size + x)
    <3>1. l \in Nat /\ l <= 255
      BY <2>7
    <3>2. u.size = Int16(h.size + Payload(nd) - (l + 1))
      BY <2>5
    <3>3. x = Payload(nd) - (l + 1)
      OBVIOUS
    <3> HIDE DEF l, x
    <3>4. h.size + Payload(nd) - (l + 1) = h.size + x
      BY <1>1, <1>4, <3>1, <3>3
    <3> QED BY <1>4, <3>1, <3>2, <3>3, <3>4
  <2>10. ListBytes(u.list) = ListBytes(h.list) + x + Lost(h, nd, g)
    BY <1>5, <2>6, <2>7, <2>8, <2>9
  <2> HIDE DEF x
  <2> QED BY <1>7, <2>9, <2>10 DEF u
<1> QED BY <1>6, <1>7

(* A byte is at most 255.                                                  *)
LEMMA MaxByteIs == MaxByte = 255
BY DEF MaxByte

(* The list u is that of h with the node nd, in a slot that was free, at   *)
(* place m: the place of its block's node if there is one, else the end.   *)
Placed(h, nd, u, m) ==
    /\ DOMAIN u = DOMAIN h.list \cup {m}
    /\ u[m] = [nd EXCEPT !.slot = FreshSlot(h.pool)]
    /\ \A i \in DOMAIN h.list : i # m => u[i] = h.list[i]
    /\ Hits(h.list, nd.id) = IF m \in DOMAIN h.list THEN {m} ELSE {}
    /\ FreshSlot(h.pool) \notin SlotsOf(h.list)

(* Where update_delta_llist puts a node, and that its slot was free.       *)
LEMMA ListShape ==
  ASSUME NEW h, NEW rest, Owns(h, rest), NEW nd \in DeltaNodes, NEW g
  PROVE  \E m \in Nat : Placed(h, nd, UpdateDeltaList(h, nd, g).list, m)
<1> DEFINE u == UpdateDeltaList(h, nd, g).list
           new == [nd EXCEPT !.slot = FreshSlot(h.pool)]
           n == Len(h.list)
           k == FirstHit(h.list, nd.id)
<1>1. /\ h.list \in Seq(DeltaNodes) /\ Distinct(h.list)
      /\ h.pool \in SUBSET Nat /\ IsFiniteSet(h.pool)
  BY DEF Owns, Headers, Distinct
<1>2. FreshSlot(h.pool) \in Nat /\ FreshSlot(h.pool) \notin SlotsOf(h.list)
  BY <1>1, FreshSlotIsFree DEF Owns
<1>3. new \in DeltaNodes
  BY <1>2 DEF DeltaNodes
<1>4. u = ListAfter(h, nd)
  BY DEF UpdateDeltaList
<1>5. n \in Nat /\ DOMAIN h.list = 1..n
  BY <1>1, LenProperties
<1>6. CASE Hits(h.list, nd.id) = {}
  <2>1. u = Append(h.list, new)
    BY <1>4, <1>6 DEF ListAfter
  <2> HIDE DEF n, u, new
  <2>2. /\ DOMAIN u = 1..(n + 1) /\ u[n + 1] = new
        /\ \A i \in 1..n : u[i] = h.list[i]
    BY <1>1, <1>3, <1>5, <2>1, AppendProperties, LenProperties DEF n
  <2>3. n + 1 \in Nat /\ 1..(n + 1) = (1..n) \cup {n + 1} /\ n + 1 \notin 1..n
    BY <1>5
  <2>4. Placed(h, nd, u, n + 1)
    BY <1>2, <1>5, <1>6, <2>2, <2>3 DEF new, Placed
  <2> QED BY <2>3, <2>4 DEF u
<1>7. CASE Hits(h.list, nd.id) # {}
  <2>1. k \in 1..n /\ h.list[k].id = nd.id
    BY <1>1, <1>7, FirstHitIsHit
  <2>2. u = [h.list EXCEPT ![k] = new]
    BY <1>4, <1>7 DEF ListAfter
  <2> HIDE DEF n, u, new, k
  <2>3. Hits(h.list, nd.id) = {k}
    <3>1. Hits(h.list, h.list[k].id) = {k}
      BY <1>1, <1>5, <2>1, OnlyHit
    <3> QED BY <2>1, <3>1
  <2>4. DOMAIN u = DOMAIN h.list /\ u[k] = new /\ \A i \in 1..n : i # k => u[i] = h.list[i]
    BY <1>5, <2>1, <2>2
  <2>5. k \in Nat /\ DOMAIN h.list = (DOMAIN h.list) \cup {k}
    BY <1>5, <2>1
  <2>6. Placed(h, nd, u, k)
    BY <1>2, <1>5, <2>1, <2>3, <2>4, <2>5 DEF new, Placed
  <2> QED BY <2>5, <2>6 DEF u
<1> QED BY <1>6, <1>7

(* The tombstones in a page's list for the blocks in D.                    *)
Replaced(p, D) == {k \in Tombstones(p) : deltas[p][k].id \in D}

(* A header on the way from that of page p to the one a call leaves: the   *)
(* nodes of the blocks in D, m in number, are new, and t_size has gone     *)
(* along but for 1 to 256 bytes for each tombstone replaced.               *)
Rewritten(h, p, D, m) ==
    /\ Owns(h, Others(p))
    /\ DOMAIN deltas[p] \subseteq DOMAIN h.list
    /\ \A k \in DOMAIN h.list : h.list[k].bytes <= MaxByte
    /\ \A k \in DOMAIN deltas[p] :
           IF deltas[p][k].id \in D
           THEN h.list[k].id = deltas[p][k].id /\ h.list[k].slot # deltas[p][k].slot
           ELSE h.list[k] = deltas[p][k]
    /\ \A k \in DOMAIN h.list \ DOMAIN deltas[p] : h.list[k].id \in D
    /\ IsFiniteSet(Replaced(p, D))
    /\ \E x, lost \in Int :
           /\ h.size = Int16(t_size[p] + x)
           /\ ListBytes(h.list) = ListBytes(deltas[p]) + x + lost
           /\ Cardinality(Replaced(p, D)) <= lost
           /\ lost <= 256 * Cardinality(Replaced(p, D))
           /\ x >= -(256 * m)
           /\ deltas[p] = <<>> => x >= 0

(* The header of a page whose nodes are no longer than a length byte says. *)
LEMMA HeaderRewritten ==
  ASSUME MemoryInv, NEW p \in Live, \A k \in DOMAIN deltas[p] : deltas[p][k].bytes <= MaxByte
  PROVE  Rewritten(Header(p), p, {}, 0)
<1>1. /\ Header(p).list = deltas[p] /\ Header(p).size = t_size[p]
      /\ t_size[p] \in Shorts /\ deltas[p] \in Seq(DeltaNodes)
  BY DEF Header, MemoryInv, TypeOK, Live
<1>2. Owns(Header(p), Others(p))
  BY HeaderOwns
<1>3. Replaced(p, {}) = {} /\ IsFiniteSet({}) /\ Cardinality({}) = 0
  BY FS_EmptySet DEF Replaced
<1>4. ListBytes(deltas[p]) \in Nat
  <2>1. PICK f \in [0..Len(deltas[p]) -> Nat] : BytesSteps(f, deltas[p])
    BY <1>1, BytesLoop
  <2> QED BY <1>1, <2>1, LenProperties DEF BytesSteps
<1>5. \E x, lost \in Int :
          /\ Header(p).size = Int16(t_size[p] + x)
          /\ ListBytes(deltas[p]) = ListBytes(deltas[p]) + x + lost
          /\ 0 <= lost /\ lost <= 256 * 0 /\ x >= -(256 * 0) /\ x >= 0
  <2>1. t_size[p] \in Int
    BY <1>1, ConstantTypes
  <2>2. Int16(t_size[p] + 0) = t_size[p]
    <3>1. t_size[p] + 0 = t_size[p]
      BY <2>1
    <3>2. Int16(t_size[p]) = t_size[p]
      BY <1>1, Int16Facts
    <3> QED BY <3>1, <3>2
  <2>3. ListBytes(deltas[p]) = ListBytes(deltas[p]) + 0 + 0
    BY <1>4, SMTT(30)
  <2> WITNESS 0 \in Int, 0 \in Int
  <2> QED BY <1>1, <2>2, <2>3
<1> QED BY <1>1, <1>2, <1>3, <1>5, ZenonT(60) DEF Rewritten

(* A new node for a block not yet in D is such a step.                     *)
LEMMA NodeRewrites ==
  ASSUME MemoryInv, NEW p \in Live, NEW D, NEW m \in Nat, NEW h, Rewritten(h, p, D, m),
         NEW nd \in DeltaNodes, nd.id \notin D, nd.bytes <= MaxByte, NEW g \in 0..MaxByte
  PROVE  Rewritten(UpdateDeltaList(h, nd, g), p, D \cup {nd.id}, m + 1)
<1> DEFINE u == UpdateDeltaList(h, nd, g)
           b == nd.id
           E == D \cup {b}
           list == deltas[p]
           s == FreshSlot(h.pool)
<1>1. /\ Owns(h, Others(p)) /\ h \in Headers /\ Distinct(h.list)
      /\ g \in Nat /\ list \in Seq(DeltaNodes) /\ Distinct(list)
  BY ConstantTypes
     DEF Rewritten, Owns, Distinct, MemoryInv, TypeOK, OneDeltaPerBlock, Live, MaxByte
<1>2. Owns(u, Others(p))
  BY <1>1, UpdateDeltaListOwns
<1>3a. PICK j \in Nat : Placed(h, nd, u.list, j)
  BY <1>1, ListShape, Zenon
<1>3. /\ DOMAIN u.list = DOMAIN h.list \cup {j} /\ u.list[j] = [nd EXCEPT !.slot = s]
      /\ \A i \in DOMAIN h.list : i # j => u.list[i] = h.list[i]
      /\ Hits(h.list, b) = IF j \in DOMAIN h.list THEN {j} ELSE {}
      /\ s \notin SlotsOf(h.list)
  BY <1>3a DEF Placed
<1>4. u.list[j].id = b /\ u.list[j].bytes = nd.bytes /\ u.list[j].slot = s
  BY <1>3 DEF DeltaNodes
<1> HIDE DEF u
<1>5. \A k \in DOMAIN h.list : h.list[k].id = b => k = j /\ k \in DOMAIN list /\ h.list[k] = list[k]
  BY <1>3 DEF Rewritten, Hits
<1>6. j \in DOMAIN h.list => j \in DOMAIN list /\ h.list[j] = list[j] /\ list[j].id = b
  BY <1>3, <1>5 DEF Hits
<1>7. \A k \in DOMAIN list : list[k].id = b => k = j /\ j \in DOMAIN h.list
  BY <1>5 DEF Rewritten
<1>8. DOMAIN list \subseteq DOMAIN u.list
  BY <1>3 DEF Rewritten
<1>9. \A k \in DOMAIN u.list : u.list[k].bytes <= MaxByte
  BY <1>3, <1>4 DEF Rewritten
<1>10. ASSUME NEW k \in DOMAIN list
       PROVE  IF list[k].id \in E
              THEN u.list[k].id = list[k].id /\ u.list[k].slot # list[k].slot
              ELSE u.list[k] = list[k]
  <2>1. k \in DOMAIN h.list
    BY DEF Rewritten
  <2>2. CASE list[k].id = b
    <3>1. k = j /\ h.list[j] = list[j]
      BY <1>6, <1>7, <2>2
    <3>2. list[j].slot \in SlotsOf(h.list)
      BY <2>1, <3>1 DEF SlotsOf
    <3> QED BY <1>3, <1>4, <2>2, <3>1, <3>2
  <2>3. CASE list[k].id # b
    <3>1. k # j
      BY <1>6, <2>1, <2>3
    <3>2. u.list[k] = h.list[k]
      BY <1>3, <2>1, <3>1
    <3> QED BY <2>3, <3>2 DEF Rewritten
  <2> QED BY <2>2, <2>3
<1>11. ASSUME NEW k \in DOMAIN u.list \ DOMAIN list PROVE u.list[k].id \in E
  <2>1. CASE k = j
    BY <1>4, <2>1
  <2>2. CASE k # j
    BY <1>3, <2>2 DEF Rewritten
  <2> QED BY <2>1, <2>2
<1>12. Lost(h, nd, g) = IF \E k \in Tombstones(p) : list[k].id = b THEN g + 1 ELSE 0
  <2>1. (\E k \in Hits(h.list, b) : h.list[k].tomb) <=> \E k \in Tombstones(p) : list[k].id = b
    BY <1>5, <1>6, <1>7 DEF Hits, Tombstones
  <2> QED BY <2>1 DEF Lost
<1>13. /\ IsFiniteSet(Replaced(p, E))
       /\ Cardinality(Replaced(p, E)) = IF \E k \in Tombstones(p) : list[k].id = b
                                        THEN Cardinality(Replaced(p, D)) + 1
                                        ELSE Cardinality(Replaced(p, D))
  <2>0. IsFiniteSet(Replaced(p, D))
    BY DEF Rewritten
  <2>1. CASE ~ \E k \in Tombstones(p) : list[k].id = b
    <3>1. Replaced(p, E) = Replaced(p, D)
      BY <2>1 DEF Replaced
    <3> QED BY <2>0, <2>1, <3>1
  <2>2. CASE \E k \in Tombstones(p) : list[k].id = b
    <3>1. PICK k \in Tombstones(p) : list[k].id = b
      BY <2>2
    <3>2. \A i \in Tombstones(p) : list[i].id = b => i = k
      BY <3>1, <1>7 DEF Tombstones
    <3>3. Replaced(p, E) = Replaced(p, D) \cup {k} /\ k \notin Replaced(p, D)
      BY <3>1, <3>2 DEF Replaced
    <3> HIDE DEF E
    <3> QED BY <2>0, <2>2, <3>3, FS_AddElement
  <2> QED BY <2>1, <2>2
<1>14. PICK x, lost \in Int :
           /\ h.size = Int16(t_size[p] + x)
           /\ ListBytes(h.list) = ListBytes(list) + x + lost
           /\ Cardinality(Replaced(p, D)) <= lost
           /\ lost <= 256 * Cardinality(Replaced(p, D))
           /\ x >= -(256 * m)
           /\ list = <<>> => x >= 0
  BY DEF Rewritten
<1>15. PICK y \in Int :
           /\ u.size = Int16(h.size + y)
           /\ ListBytes(u.list) = ListBytes(h.list) + y + Lost(h, nd, g)
           /\ y >= -256 /\ (Hits(h.list, b) = {} => y >= 0)
  BY <1>1, UpdateBytes DEF Rewritten, u
<1>16. t_size[p] \in Int /\ ListBytes(list) \in Nat /\ g <= 255
       /\ Cardinality(Replaced(p, D)) \in Nat
  <2>1. t_size[p] \in Int
    BY ConstantTypes DEF MemoryInv, TypeOK, Live
  <2>2. PICK f \in [0..Len(list) -> Nat] : BytesSteps(f, list)
    BY <1>1, BytesLoop
  <2>3. ListBytes(list) \in Nat
    BY <1>1, <2>2, LenProperties DEF BytesSteps
  <2>4. Cardinality(Replaced(p, D)) \in Nat
    BY FS_CardinalityType DEF Rewritten
  <2>5. g <= MaxByte
    BY ConstantTypes
  <2> QED BY <2>1, <2>3, <2>4, <2>5, MaxByteIs
<1>17. list = <<>> => Hits(h.list, b) = {}
  BY <1>5 DEF Hits
<1>18. \E z, l \in Int :
           /\ u.size = Int16(t_size[p] + z)
           /\ ListBytes(u.list) = ListBytes(list) + z + l
           /\ Cardinality(Replaced(p, E)) <= l
           /\ l <= 256 * Cardinality(Replaced(p, E))
           /\ z >= -(256 * (m + 1))
           /\ list = <<>> => z >= 0
  <2> DEFINE z == x + y
             l == lost + Lost(h, nd, g)
             c == Cardinality(Replaced(p, D))
             e == Cardinality(Replaced(p, E))
  <2>1. z \in Int /\ l \in Int
    BY <1>1, <1>12
  <2>2. u.size = Int16(t_size[p] + z)
    <3>1. Int16(Int16(t_size[p] + x) + y) = Int16((t_size[p] + x) + y)
      <4> DEFINE w == t_size[p] + x
      <4>1. w \in Int
        BY <1>16
      <4> HIDE DEF w
      <4>2. Int16(Int16(w) + y) = Int16(w + y)
        BY <4>1, Int16Facts
      <4> QED BY <4>2 DEF w
    <3>2. (t_size[p] + x) + y = t_size[p] + z
      BY <1>16
    <3> QED BY <1>14, <1>15, <3>1, <3>2
  <2>3. ListBytes(u.list) = ListBytes(list) + z + l
    BY <1>1, <1>12, <1>14, <1>15, <1>16, SMTT(30)
  <2>4. e <= l /\ l <= 256 * e
    <3> HIDE DEF E
    <3>1. CASE \E k \in Tombstones(p) : list[k].id = b
      <4>1. e = c + 1 /\ l = lost + (g + 1)
        BY <1>12, <1>13, <3>1
      <4>2. c <= lost /\ lost <= 256 * c /\ c \in Nat
        BY <1>14, <1>16
      <4> HIDE DEF c, e, l
      <4> QED BY <1>1, <1>16, <4>1, <4>2
    <3>2. CASE ~ \E k \in Tombstones(p) : list[k].id = b
      BY <1>12, <1>13, <1>14, <3>2
    <3> QED BY <3>1, <3>2
  <2>5. z >= -(256 * (m + 1)) /\ (list = <<>> => z >= 0)
    BY <1>14, <1>15, <1>17
  <2> HIDE DEF z, l
  <2> QED BY <2>1, <2>2, <2>3, <2>4, <2>5
<1> QED BY <1>2, <1>8, <1>9, <1>10, <1>11, <1>13, <1>18 DEF Rewritten, u

(* zapi_delete_block makes such steps only, one for each block deleted.    *)
LEMMA DeleteRewrites ==
  ASSUME MemoryInv, NEW p \in Live, NEW start \in Blocks,
         NEW n \in 1..(NumBlocks - start), NEW g \in [1..n -> StaleBytes],
         \A k \in DOMAIN deltas[p] : deltas[p][k].bytes <= MaxByte
  PROVE  Rewritten(DeleteHeader(p, start, n, g), p, start..(start + n - 1), n)
<1> DEFINE T == {h \in Headers : Owns(h, Others(p))}
           tomb(i) == Node(0, start + i - 1, TRUE, {}, 0)
           D(i) == start..(start + i - 1)
           P(h, i) == Rewritten(h, p, D(i), i)
<1>1. PICK after \in [0..n -> T] : DeleteSteps(after, p, start, n, g)
  <2>1. Header(p) \in T
    BY HeaderOwns DEF Owns
  <2>2. \A h \in T : \A c \in Blocks, y \in StaleBytes :
            UpdateDeltaList(h, Node(0, c, TRUE, {}, 0), y) \in T
    <3>1. \A h : Owns(h, Others(p)) => h \in Headers
      BY DEF Owns
    <3> QED BY <3>1, UpdateDeltaListOwns, TombstoneType, ConstantTypes
  <2> HIDE DEF T
  <2> QED BY <2>1, <2>2, DeleteLoop
<1>2. n \in Nat /\ start \in Nat /\ start + n <= NumBlocks
  BY ConstantTypes DEF Blocks
<1>3. P(after[0], 0)
  <2>1. after[0] = Header(p)
    BY <1>1 DEF DeleteSteps
  <2>2. D(0) = {}
    BY <1>2
  <2> HIDE DEF D
  <2> QED BY <2>1, <2>2, HeaderRewritten
<1>4. ASSUME NEW i \in 1..n, P(after[i - 1], i - 1) PROVE P(after[i], i)
  <2>1. i \in Nat /\ i - 1 \in Nat /\ start + i - 1 \in Blocks
    BY <1>2, ConstantTypes DEF Blocks
  <2>2. after[i] = UpdateDeltaList(after[i - 1], tomb(i), g[i])
    BY <1>1 DEF DeleteSteps
  <2>3. tomb(i) \in DeltaNodes
    BY <2>1, TombstoneType
  <2>4. tomb(i).id = start + i - 1 /\ tomb(i).bytes <= MaxByte
    BY MaxByteIs DEF Node
  <2>5. g[i] \in 0..MaxByte
    BY ZapiPageAssumption
  <2>6. D(i) = D(i - 1) \cup {start + i - 1} /\ start + i - 1 \notin D(i - 1)
    BY <1>2, <2>1
  <2> DEFINE h == after[i - 1]
             t == tomb(i)
             y == g[i]
             E == D(i - 1)
             m == i - 1
  <2>7. Rewritten(h, p, E, m) /\ m \in Nat /\ m + 1 = i /\ y \in 0..MaxByte
    BY <1>4, <2>1, <2>5
  <2>8. t \in DeltaNodes /\ t.id \notin E /\ t.bytes <= MaxByte
    BY <2>3, <2>4, <2>6
  <2>9. after[i] = UpdateDeltaList(h, t, y) /\ D(i) = E \cup {t.id}
    BY <2>2, <2>4, <2>6
  <2> HIDE DEF D, tomb, h, t, y, E, m
  <2>10. Rewritten(UpdateDeltaList(h, t, y), p, E \cup {t.id}, m + 1)
    BY <2>7, <2>8, NodeRewrites
  <2> QED BY <2>7, <2>9, <2>10
<1>5. \A i \in 0..n : P(after[i], i)
  <2> HIDE DEF P
  <2> DEFINE Bad == {i \in 0..n : ~ P(after[i], i)}
  <2> SUFFICES ASSUME Bad # {} PROVE FALSE
    OBVIOUS
  <2>1. Bad \in SUBSET Nat
    BY <1>2
  <2>2. PICK i \in Bad : \A j \in Bad : i <= j
    <3> HIDE DEF Bad
    <3> QED BY <2>1, LeastNatural
  <2>3. i # 0
    BY <1>3, <2>2
  <2>4. i \in 1..n /\ i - 1 \in 0..n /\ i - 1 \notin Bad
    BY <1>2, <2>2, <2>3
  <2> QED BY <1>4, <2>2, <2>4
<1> QED
  <2>1. n \in 0..n
    BY <1>2
  <2>2. P(after[n], n)
    BY <1>5, <2>1
  <2>3. after[n] = DeleteHeader(p, start, n, g)
    BY <1>1 DEF DeleteSteps
  <2> QED BY <2>2, <2>3

(* No encoding that update keeps is longer than its length byte can say.   *)
ShortEncodings ==
    \A f \in Content, lim \in DeltaThres : WithinLimit(f, lim) => PackedLen[f] <= MaxByte

(* t_size stays so far from the least short that no call takes it below,   *)
(* whatever it finds in the length bytes of the nodes it replaces.         *)
RoomForDrift == SizeFloor >= MinShort + 256 * NumBlocks

(* A page with a delta of the largest size for every block fits a short.   *)
PageFits == \A c \in CompSizes : PageHeader + c + 266 * NumBlocks <= MaxShort

(* What the size of a page relies on.                                      *)
SizeInv ==
    /\ SizeNeverOverstated
    /\ \A p \in Pages : \A k \in DOMAIN deltas[p] : deltas[p][k].bytes <= MaxByte
    /\ \A p \in Live : deltas[p] = <<>> \/ t_size[p] >= SizeFloor
    /\ \A p \in Live : comp[p] \in CompSizes

(* What update and delete do to the list and t_size of the page p.         *)
ListRewritten(p, h, D) ==
    /\ \E m \in 0..NumBlocks : Rewritten(h, p, D, m)
    /\ h.size >= SizeFloor
    /\ deltas' = [deltas EXCEPT ![p] = h.list]
    /\ t_size' = [t_size EXCEPT ![p] = h.size]
    /\ UNCHANGED <<status, comp>>

(* zapi_update_block rewrites one node, or leaves list and size alone.     *)
LEMMA UpdateRewrites ==
  ASSUME ShortEncodings, MemoryInv, SizeInv, NEW p \in Pages, NEW b \in Blocks,
         NEW v \in Content, NEW lim \in DeltaThres, NEW g \in StaleBytes,
         NEW old \in OldBuffers, Update(p, b, v, lim, g, old)
  PROVE  \/ UNCHANGED <<status, comp, t_size, deltas>>
         \/ \E h, D : ListRewritten(p, h, D)
<1> DEFINE flips == XOR(v, base[p][b])
           d == DeltaPacked(flips, lim)
           nd == Node(0, b, FALSE, flips, d - 1)
           h == UpdateDeltaList(Header(p), nd, g)
<1>1. /\ p \in Live /\ TypeOK /\ base[p][b] \in Content /\ g \in 0..MaxByte
  BY ZapiPageAssumption DEF Update, Live, MemoryInv, TypeOK, PageContent
<1>2. CASE ~(d > 0)
  BY <1>2 DEF Update
<1>3. CASE d > 0
  <2>1. nd \in DeltaNodes /\ nd.id = b /\ nd.bytes = d - 1
    BY <1>1, <1>3, UpdateNodeType DEF Node
  <2>2. d - 1 <= MaxByte
    <3>1. flips \in Content /\ PackedLen[flips] \in Nat /\ lim \in Nat
      BY <1>1, XORType, ZapiPageAssumption
    <3> HIDE DEF flips
    <3>2. WithinLimit(flips, lim) /\ d = PackedLen[flips] + 1
      BY <1>3, <3>1 DEF DeltaPacked
    <3>3. d - 1 = PackedLen[flips]
      BY <3>1, <3>2
    <3> QED BY <3>1, <3>2, <3>3 DEF ShortEncodings
  <2> DEFINE H == Header(p)
  <2>3. Rewritten(H, p, {}, 0)
    BY <1>1, HeaderRewritten DEF SizeInv
  <2>4. b \notin {} /\ 0 \in Nat
    OBVIOUS
  <2> HIDE DEF nd, H
  <2>5. Rewritten(UpdateDeltaList(H, nd, g), p, {} \cup {nd.id}, 0 + 1)
    BY <1>1, <2>1, <2>2, <2>3, <2>4, NodeRewrites
  <2>6. Rewritten(h, p, {b}, 1)
    BY <2>1, <2>5 DEF H
  <2>7. /\ h.size >= SizeFloor
        /\ deltas' = [deltas EXCEPT ![p] = h.list]
        /\ t_size' = [t_size EXCEPT ![p] = h.size]
        /\ UNCHANGED <<status, comp>>
    BY <1>3 DEF Update, nd
  <2>8. 1 \in 0..NumBlocks
    BY ConstantTypes
  <2> HIDE DEF h
  <2> QED BY <2>6, <2>7, <2>8 DEF ListRewritten
<1> QED BY <1>2, <1>3

(* A rewritten page is not said to be larger than it is, and what t_size   *)
(* loses is what the tombstones replaced account for.                      *)
LEMMA RewrittenSize ==
  ASSUME RoomForDrift, MemoryInv, SizeInv, NEW p \in Live, NEW h, NEW D,
         NEW m \in 0..NumBlocks, Rewritten(h, p, D, m)
  PROVE  /\ ListBytes(h.list) \in Nat
         /\ h.size <= PageHeader + comp[p] + ListBytes(h.list)
         /\ PageHeader + comp[p] + ListBytes(h.list) <= MaxShort =>
                LET c == Cardinality(Replaced(p, D))
                    lost == (ListBytes(h.list) - ListBytes(deltas[p])) - (h.size - t_size[p])
                IN  c \in Nat /\ c <= lost /\ lost <= 256 * c
<1>1. /\ t_size[p] \in Shorts /\ deltas[p] \in Seq(DeltaNodes) /\ comp[p] \in Nat
      /\ h.list \in Seq(DeltaNodes)
  BY DEF MemoryInv, TypeOK, Live, Rewritten, Owns, Headers
<1>2. ListBytes(deltas[p]) \in Nat
  <2>1. PICK f \in [0..Len(deltas[p]) -> Nat] : BytesSteps(f, deltas[p])
    BY <1>1, BytesLoop
  <2> QED BY <1>1, <2>1, LenProperties DEF BytesSteps
<1>3. ListBytes(h.list) \in Nat
  <2>1. PICK f \in [0..Len(h.list) -> Nat] : BytesSteps(f, h.list)
    BY <1>1, BytesLoop
  <2> QED BY <1>1, <2>1, LenProperties DEF BytesSteps
<1>4. PICK x, lost \in Int :
          /\ h.size = Int16(t_size[p] + x)
          /\ ListBytes(h.list) = ListBytes(deltas[p]) + x + lost
          /\ Cardinality(Replaced(p, D)) <= lost
          /\ lost <= 256 * Cardinality(Replaced(p, D))
          /\ x >= -(256 * m)
          /\ deltas[p] = <<>> => x >= 0
  BY DEF Rewritten
<1>5. Cardinality(Replaced(p, D)) \in Nat
  BY FS_CardinalityType DEF Rewritten
<1>6. /\ t_size[p] \in Int /\ MinShort <= t_size[p]
      /\ t_size[p] <= PageHeader + comp[p] + ListBytes(deltas[p])
  BY <1>1, ConstantTypes DEF SizeInv, SizeNeverOverstated, OccupiedBytes, Shorts
<1>7. MinShort <= t_size[p] + x
  <2>1. CASE deltas[p] = <<>>
    BY <1>4, <1>6, <2>1, ConstantTypes
  <2>2. CASE deltas[p] # <<>>
    <3>1. t_size[p] >= SizeFloor
      BY <2>2 DEF SizeInv
    <3>2. x >= -(256 * NumBlocks)
      BY <1>4, ConstantTypes
    <3>3. SizeFloor \in Int
      BY ZapiPageAssumption
    <3> QED BY <1>6, <3>1, <3>2, <3>3, ConstantTypes DEF RoomForDrift
  <2> QED BY <2>1, <2>2
<1> DEFINE y == t_size[p] + x
           c == Cardinality(Replaced(p, D))
<1>8. y \in Int /\ MinShort <= y /\ h.size = Int16(y)
  BY <1>4, <1>6, <1>7
<1>9. PageHeader \in Nat
  BY DEF PageHeader
<1>10. y <= PageHeader + comp[p] + ListBytes(h.list)
  <2> DEFINE a == PageHeader + comp[p]
             z == ListBytes(deltas[p])
             w == ListBytes(h.list)
             t == t_size[p]
  <2>1. a \in Int /\ z \in Int /\ t \in Int /\ t <= a + z
    BY <1>1, <1>2, <1>6, <1>9
  <2>2. w = z + x + lost /\ lost >= 0
    BY <1>4, <1>5
  <2> HIDE DEF a, z, w, t
  <2>3. t + x <= a + w
    BY <2>1, <2>2
  <2> QED BY <2>3 DEF a, w, t
<1>11. Int16(y) <= y /\ Int16(y) \in Int
  <2> HIDE DEF y
  <2> QED BY <1>8, Int16Facts, Int16IsShort, ConstantTypes
<1>12. ASSUME PageHeader + comp[p] + ListBytes(h.list) <= MaxShort
       PROVE  /\ c <= (ListBytes(h.list) - ListBytes(deltas[p])) - (h.size - t_size[p])
              /\ (ListBytes(h.list) - ListBytes(deltas[p])) - (h.size - t_size[p]) <= 256 * c
  <2>1. y <= MaxShort
    BY <1>1, <1>3, <1>8, <1>9, <1>10, <1>12, ConstantTypes
  <2>2. Int16(y) = y
    <3> HIDE DEF y
    <3> QED BY <1>8, <2>1, Int16Facts, ConstantTypes DEF Shorts
  <2>3. (ListBytes(h.list) - ListBytes(deltas[p])) - (h.size - t_size[p]) = lost
    BY <1>2, <1>3, <1>4, <1>6, <1>8, <2>2, SMTT(30)
  <2> QED BY <1>4, <2>3
<1>13. h.size <= PageHeader + comp[p] + ListBytes(h.list)
  <2> HIDE DEF y
  <2> QED BY <1>1, <1>3, <1>8, <1>9, <1>10, <1>11
<1> HIDE DEF y
<1> QED BY <1>3, <1>5, <1>12, <1>13

(* A list with one node per block has no more nodes than blocks, and no    *)
(* node is larger than its header, a length byte and 255 bytes.            *)
LEMMA ListBounded ==
  ASSUME NEW list \in Seq(DeltaNodes), Distinct(list),
         \A k \in DOMAIN list : list[k].bytes <= MaxByte
  PROVE  ListBytes(list) <= 266 * NumBlocks
<1> DEFINE n == Len(list)
<1>1. n \in Nat /\ DOMAIN list = 1..n /\ \A k \in 1..n : list[k] \in DeltaNodes
  BY LenProperties, ElementOfSeq
<1>2. PICK f \in [0..n -> Nat] : BytesSteps(f, list)
  BY BytesLoop
<1>3. f[0] = 0 /\ (\A k \in 1..n : f[k] = f[k - 1] + NodeBytes(list[k])) /\ f[n] = ListBytes(list)
  BY <1>2 DEF BytesSteps
<1> HIDE DEF n
<1>4. \A k \in 1..n : NodeBytes(list[k]) \in Nat /\ NodeBytes(list[k]) <= 266
  <2> TAKE k \in 1..n
  <2>1. list[k] \in DeltaNodes /\ list[k].bytes \in Nat /\ list[k].bytes <= 255
    BY <1>1, MaxByteIs DEF DeltaNodes
  <2> QED BY <2>1 DEF NodeBytes, Payload, NodeHeader
<1>5. \A k \in 0..n : f[k] <= 266 * k
  <2> DEFINE Bad == {k \in 0..n : ~(f[k] <= 266 * k)}
  <2> SUFFICES ASSUME Bad # {} PROVE FALSE
    OBVIOUS
  <2>1. Bad \in SUBSET Nat
    BY <1>1
  <2>2. PICK k \in Bad : \A j \in Bad : k <= j
    <3> HIDE DEF Bad
    <3> QED BY <2>1, LeastNatural
  <2>3. k \in 1..n /\ k - 1 \in 0..n /\ k - 1 \notin Bad
    BY <1>1, <1>3, <2>2
  <2>4. f[k - 1] <= 266 * (k - 1) /\ f[k - 1] \in Nat
    BY <1>2, <2>3
  <2>5. f[k] = f[k - 1] + NodeBytes(list[k])
    BY <1>3, <2>3
  <2>6. f[k] <= 266 * k
    BY <1>1, <1>4, <2>3, <2>4, <2>5
  <2> QED BY <2>2, <2>6
<1>6. n <= NumBlocks
  <2> SUFFICES ASSUME NumBlocks < n PROVE FALSE
    BY <1>1, ConstantTypes
  <2> DEFINE id == [k \in 1..n |-> list[k].id]
  <2>1. id \in [1..n -> Blocks]
    BY <1>1 DEF DeltaNodes
  <2>2. IsFiniteSet(1..n) /\ Cardinality(1..n) = n
    BY <1>1, FS_Interval
  <2>3. IsFiniteSet(Blocks) /\ Cardinality(Blocks) = NumBlocks
    <3>1. NumBlocks - 1 \in Int /\ 0 <= NumBlocks - 1 /\ (NumBlocks - 1) - 0 + 1 = NumBlocks
      BY ConstantTypes
    <3>2. IsFiniteSet(0..(NumBlocks - 1))
          /\ Cardinality(0..(NumBlocks - 1)) = NumBlocks
      BY <3>1, FS_Interval
    <3> QED BY <3>2 DEF Blocks
  <2> HIDE DEF id
  <2>4. \E j, k \in 1..n : j # k /\ id[j] = id[k]
    BY <2>1, <2>2, <2>3, FS_PigeonHole
  <2> QED BY <1>1, <2>4 DEF id, Distinct
<1>7. f[n] <= 266 * n
  BY <1>1, <1>5
<1>8. 266 * n <= 266 * NumBlocks
  BY <1>1, <1>6, ConstantTypes
<1> QED BY <1>1, <1>2, <1>3, <1>7, <1>8, ConstantTypes

(* The size of a page that a call does not touch stays as it was.          *)
LEMMA PageUntouched ==
  ASSUME NEW p \in Live, SizeInv, comp'[p] = comp[p], deltas'[p] = deltas[p],
         t_size'[p] = t_size[p]
  PROVE  /\ OccupiedBytes(p)' = OccupiedBytes(p)
         /\ (t_size[p] <= OccupiedBytes(p))'
         /\ \A k \in DOMAIN deltas'[p] : deltas'[p][k].bytes <= MaxByte
         /\ deltas'[p] = <<>> \/ t_size'[p] >= SizeFloor
         /\ comp'[p] \in CompSizes
<1>1. p \in Pages
  BY DEF Live
<1>2. OccupiedBytes(p)' = OccupiedBytes(p)
  BY DEF OccupiedBytes
<1> QED BY <1>1, <1>2 DEF SizeInv, SizeNeverOverstated

(* A rewritten list keeps what sizes rely on.                              *)
LEMMA RewrittenKeepsSizes ==
  ASSUME RoomForDrift, MemoryInv, SizeInv, NEW p \in Live, NEW h, NEW D,
         ListRewritten(p, h, D)
  PROVE  SizeInv'
<1>1. PICK m \in 0..NumBlocks : Rewritten(h, p, D, m)
  BY DEF ListRewritten
<1>2. /\ p \in Pages /\ Live' = Live
      /\ deltas'[p] = h.list /\ t_size'[p] = h.size
      /\ \A q \in Pages : q # p => deltas'[q] = deltas[q] /\ t_size'[q] = t_size[q]
      /\ comp' = comp /\ h.size >= SizeFloor
  BY DEF ListRewritten, Live, MemoryInv, TypeOK
<1>3. h.size <= PageHeader + comp[p] + ListBytes(h.list)
  BY <1>1, RewrittenSize
<1>4. (t_size[p] <= OccupiedBytes(p))'
  BY <1>2, <1>3 DEF OccupiedBytes
<1>5. \A k \in DOMAIN h.list : h.list[k].bytes <= MaxByte
  BY <1>1 DEF Rewritten
<1>6. SizeNeverOverstated'
  <2>1. \A q \in Live : q # p => (t_size[q] <= OccupiedBytes(q))'
    <3> SUFFICES ASSUME NEW q \in Live, q # p PROVE (t_size[q] <= OccupiedBytes(q))'
      OBVIOUS
    <3>1. q \in Pages
      BY DEF Live
    <3>2. comp'[q] = comp[q] /\ deltas'[q] = deltas[q] /\ t_size'[q] = t_size[q]
      BY <1>2, <3>1
    <3> QED BY <3>2, PageUntouched
  <2>2. \A q \in Live : (t_size[q] <= OccupiedBytes(q))'
    BY <1>4, <2>1, Zenon
  <2> QED BY <1>2, <2>2 DEF SizeNeverOverstated
<1>7. \A q \in Pages : \A k \in DOMAIN deltas'[q] : deltas'[q][k].bytes <= MaxByte
  BY <1>2, <1>5 DEF SizeInv
<1>8. \A q \in Live : deltas'[q] = <<>> \/ t_size'[q] >= SizeFloor
  BY <1>2 DEF SizeInv, Live
<1>9. \A q \in Live : comp'[q] \in CompSizes
  BY <1>2 DEF SizeInv
<1> QED BY <1>2, <1>6, <1>7, <1>8, <1>9 DEF SizeInv

(* So does generating into a buffer that holds no page.                    *)
LEMMA CompressKeepsSizes ==
  ASSUME MemoryInv, SizeInv, NEW p \in Pages, p \notin Live, NEW src, NEW thres,
         NEW c \in CompSizes \cup {-1}, Compress(p, src, thres, c)
  PROVE  /\ SizeInv'
         /\ \A q \in Live : deltas'[q] = deltas[q] /\ t_size'[q] = t_size[q] /\ comp'[q] = comp[q]
<1>1. deltas[p] = <<>> /\ DOMAIN << >> = {}
  BY DEF MemoryInv
<1>2. /\ deltas' = deltas
      /\ \A q \in Pages : q # p => t_size'[q] = t_size[q] /\ comp'[q] = comp[q]
      /\ Live' \subseteq Live \cup {p}
  BY <1>1 DEF Compress, MemoryInv, TypeOK, Live
<1>3. p \in Live' => /\ c \in CompSizes /\ comp'[p] = c /\ t_size'[p] = Int16(PageHeader + c)
  BY DEF Compress, MemoryInv, TypeOK, Live
<1>4. p \in Live' => (t_size[p] <= OccupiedBytes(p))'
  <2> SUFFICES ASSUME p \in Live' PROVE (t_size[p] <= OccupiedBytes(p))'
    OBVIOUS
  <2>1. c \in Nat /\ comp'[p] = c /\ t_size'[p] = Int16(PageHeader + c)
    BY <1>3, ZapiPageAssumption
  <2> DEFINE y == PageHeader + c
  <2>2. y \in Nat /\ MinShort <= y
    BY <2>1 DEF PageHeader, MinShort
  <2>3. ListBytes(deltas'[p]) \in Nat
    <3>1. deltas[p] \in Seq(DeltaNodes)
      BY DEF MemoryInv, TypeOK
    <3>2. PICK f \in [0..Len(deltas[p]) -> Nat] : BytesSteps(f, deltas[p])
      BY <3>1, BytesLoop
    <3> QED BY <1>2, <3>1, <3>2, LenProperties DEF BytesSteps
  <2>4. OccupiedBytes(p)' = y + ListBytes(deltas'[p])
    BY <2>1 DEF OccupiedBytes
  <2>5. Int16(y) <= y /\ Int16(y) \in Int
    <3> HIDE DEF y
    <3>1. y \in Int
      BY <2>2
    <3>2. Int16(y) <= y
      BY <2>2, <3>1, Int16Facts
    <3>3. Int16(y) \in Shorts
      BY <3>1, Int16IsShort
    <3> QED BY <3>2, <3>3, ConstantTypes
  <2>6. t_size'[p] = Int16(y)
    BY <2>1
  <2> HIDE DEF y
  <2> QED BY <2>2, <2>3, <2>4, <2>5, <2>6
<1>5. SizeNeverOverstated'
  <2>1. \A q \in Live : (t_size[q] <= OccupiedBytes(q))'
    <3> TAKE q \in Live
    <3>1. q \in Pages /\ q # p
      BY DEF Live
    <3>2. comp'[q] = comp[q] /\ deltas'[q] = deltas[q] /\ t_size'[q] = t_size[q]
      BY <1>2, <3>1
    <3> QED BY <3>2, PageUntouched
  <2> QED BY <1>2, <1>4, <2>1 DEF SizeNeverOverstated
<1>6. \A q \in Live : q \in Pages /\ q # p
  BY DEF Live
<1>7. \A q \in Pages : \A k \in DOMAIN deltas'[q] : deltas'[q][k].bytes <= MaxByte
  BY <1>2 DEF SizeInv
<1>8. \A q \in Live' : deltas'[q] = <<>> \/ t_size'[q] >= SizeFloor
  BY <1>1, <1>2, <1>6 DEF SizeInv
<1>9. \A q \in Live' : comp'[q] \in CompSizes
  BY <1>2, <1>3, <1>6 DEF SizeInv
<1> QED BY <1>2, <1>5, <1>6, <1>7, <1>8, <1>9 DEF SizeInv

(* What each call does to the lists and sizes of the live pages: nothing,  *)
(* the rewriting of one, or the end of one.                                *)
LEMMA SizeSteps ==
  ASSUME ShortEncodings, RoomForDrift, MemoryInv, SizeInv, [Next]_vars
  PROVE  /\ SizeInv'
         /\ \/ \A q \in Live : \/ q \notin Live'
                               \/ /\ deltas'[q] = deltas[q] /\ t_size'[q] = t_size[q]
                                  /\ comp'[q] = comp[q]
            \/ \E p \in Live : \E h, D : ListRewritten(p, h, D)
<1> DEFINE Goal == /\ SizeInv'
                   /\ \/ \A q \in Live : \/ q \notin Live'
                                         \/ /\ deltas'[q] = deltas[q] /\ t_size'[q] = t_size[q]
                                            /\ comp'[q] = comp[q]
                      \/ \E p \in Live : \E h, D : ListRewritten(p, h, D)
<1>1. ASSUME UNCHANGED <<status, comp, t_size, deltas>> PROVE Goal
  <2>1. Live' = Live /\ \A q \in Pages : OccupiedBytes(q)' = OccupiedBytes(q)
    BY <1>1 DEF Live, OccupiedBytes
  <2>2. \A q \in Live : q \in Pages
    BY DEF Live
  <2> QED BY <1>1, <2>1, <2>2 DEF SizeInv, SizeNeverOverstated
<1>2. ASSUME NEW p \in Live, NEW h, NEW D, ListRewritten(p, h, D) PROVE Goal
  BY <1>2, RewrittenKeepsSizes
<1>3. ASSUME NEW p \in Pages, p \notin Live, NEW src, NEW thres,
             NEW c \in CompSizes \cup {-1}, Compress(p, src, thres, c)
      PROVE  Goal
  BY <1>3, CompressKeepsSizes
<1>4. ASSUME NEW p \in Pages, Free(p) PROVE Goal
  <2>1. /\ Live' = Live \ {p}
        /\ deltas'[p] = <<>>
        /\ \A q \in Pages : q # p => /\ deltas'[q] = deltas[q] /\ t_size'[q] = t_size[q]
                                     /\ comp'[q] = comp[q]
    BY <1>4 DEF Free, Live, MemoryInv, TypeOK
  <2>2. \A q \in Live : q \in Pages
    BY DEF Live
  <2>3. SizeNeverOverstated'
    <3>1. \A q \in Live : q # p => (t_size[q] <= OccupiedBytes(q))'
      <4> SUFFICES ASSUME NEW q \in Live, q # p PROVE (t_size[q] <= OccupiedBytes(q))'
        OBVIOUS
      <4>1. comp'[q] = comp[q] /\ deltas'[q] = deltas[q] /\ t_size'[q] = t_size[q]
        BY <2>1, <2>2
      <4> QED BY <4>1, PageUntouched
    <3> QED BY <2>1, <3>1 DEF SizeNeverOverstated
  <2>4. DOMAIN << >> = {}
    OBVIOUS
  <2>5. \A q \in Pages : \A k \in DOMAIN deltas'[q] : deltas'[q][k].bytes <= MaxByte
    BY <2>1, <2>4 DEF SizeInv
  <2>6. \A q \in Live' : deltas'[q] = <<>> \/ t_size'[q] >= SizeFloor
    BY <2>1, <2>2 DEF SizeInv
  <2>7. \A q \in Live' : comp'[q] \in CompSizes
    BY <2>1, <2>2 DEF SizeInv
  <2> QED BY <2>1, <2>2, <2>3, <2>5, <2>6, <2>7 DEF SizeInv
<1> HIDE DEF Goal
<1>5. ASSUME NEW p \in Pages, NEW src \in Sources, NEW thres \in Thresholds,
             NEW c \in CompSizes \cup {-1}, Generate(p, src, thres, c)
      PROVE  Goal
  <2>1. p \notin Live /\ Compress(p, src, thres, c)
    BY <1>5 DEF Generate, Live
  <2> QED BY <1>3, <2>1
<1>6. ASSUME NEW p \in Pages, NEW b \in Blocks, NEW v \in Content,
             NEW lim \in DeltaThres, NEW g \in StaleBytes, NEW old \in OldBuffers,
             Update(p, b, v, lim, g, old)
      PROVE  Goal
  <2>1. p \in Live
    BY <1>6 DEF Update, Live
  <2>2. \/ UNCHANGED <<status, comp, t_size, deltas>>
        \/ \E h, D : ListRewritten(p, h, D)
    BY <1>6, UpdateRewrites
  <2> QED BY <1>1, <1>2, <2>1, <2>2
<1>7. ASSUME NEW p \in Pages, NEW start \in Blocks, NEW n \in 1..(NumBlocks - start),
             NEW g \in [1..n -> StaleBytes], Delete(p, start, n, g)
      PROVE  Goal
  <2> DEFINE h == DeleteHeader(p, start, n, g)
             D == start..(start + n - 1)
  <2>1. p \in Live
    BY <1>7 DEF Delete, Live
  <2>2. Rewritten(h, p, D, n)
    BY <2>1, DeleteRewrites DEF SizeInv, Live
  <2>3. n \in 0..NumBlocks
    BY ConstantTypes DEF Blocks
  <2>4. /\ h.size >= SizeFloor
        /\ deltas' = [deltas EXCEPT ![p] = h.list]
        /\ t_size' = [t_size EXCEPT ![p] = h.size]
        /\ UNCHANGED <<status, comp>>
    BY <1>7 DEF Delete
  <2> HIDE DEF h, D
  <2>5. ListRewritten(p, h, D)
    BY <2>2, <2>3, <2>4 DEF ListRewritten
  <2> QED BY <1>2, <2>1, <2>5
<1>8. ASSUME NEW p \in Pages, NEW q \in Pages, NEW thres \in Thresholds,
             NEW force \in BOOLEAN, NEW c \in CompSizes \cup {-1},
             Pack(p, q, thres, force, c)
      PROVE  Goal
  <2> DEFINE out == Decompressed(p, NumBlocks, Zero)
  <2>1. q \notin Live
    BY <1>8 DEF Pack, Live
  <2>2. UNCHANGED <<status, comp, t_size, deltas>> \/ Compress(q, out, thres, c)
    BY <1>8 DEF Pack
  <2> HIDE DEF out
  <2> QED BY <1>1, <1>3, <2>1, <2>2
<1>9. ASSUME NEW p \in Pages, NEW n, NEW old, Decompress(p, n, old) PROVE Goal
  BY <1>1, <1>9 DEF Decompress
<1>10. ASSUME NEW p \in Pages, NEW b, NEW old, ApplyDelta(p, b, old) PROVE Goal
  BY <1>1, <1>10 DEF ApplyDelta
<1>11. ASSUME UNCHANGED vars PROVE Goal
  BY <1>1, <1>11 DEF vars
<1>12. Next => Goal
  BY <1>4, <1>5, <1>6, <1>7, <1>8, <1>9, <1>10, Zenon DEF Next
<1>13. Goal
  BY <1>11, <1>12
<1> QED BY <1>13 DEF Goal

(* The size of every page stays within its bounds through every call: the  *)
(* invariant behind the next two theorems.                                 *)
THEOREM SizeInvariant ==
  ASSUME ShortEncodings, RoomForDrift
  PROVE  Spec => [](MemoryInv /\ SizeInv)
<1>1. Init => SizeInv
  <2> SUFFICES ASSUME Init PROVE SizeInv
    OBVIOUS
  <2>1. Live = {} /\ DOMAIN << >> = {} /\ \A p \in Pages : deltas[p] = <<>>
    BY DEF Init, Live
  <2> QED BY <2>1 DEF SizeInv, SizeNeverOverstated
<1>2. MemoryInv /\ SizeInv /\ [Next]_vars => SizeInv'
  BY SizeSteps
<1> QED BY <1>1, <1>2, MemoryInvariant, PTL DEF Spec

(* The page size the program reports (zapi_page_size) is never more than   *)
(* the page occupies.                                                      *)
THEOREM SizeIsLowerBound ==
  ASSUME ShortEncodings, RoomForDrift
  PROVE  Spec => []SizeNeverOverstated
<1>1. SizeInv => SizeNeverOverstated
  BY DEF SizeInv
<1> QED BY <1>1, SizeInvariant, PTL

(* The bytes t_size falls behind are those of the tombstones replaced, 1   *)
(* to 256 for each: every other step of update_delta_llist is exact.       *)
THEOREM DriftIsTombstones ==
  ASSUME ShortEncodings, RoomForDrift, PageFits
  PROVE  Spec => SizeDriftsOnlyAtTombstones
<1> DEFINE Drift(p) ==
               LET replaced == Cardinality({k \in Tombstones(p) :
                                    deltas'[p][k].slot # deltas[p][k].slot})
                   lost == (OccupiedBytes(p)' - OccupiedBytes(p)) - (t_size'[p] - t_size[p])
               IN  lost \in replaced..(256 * replaced)
<1>1. MemoryInv /\ SizeInv /\ [Next]_vars =>
          [\A p \in Live : status'[p] = "live" => Drift(p)]_vars
  <2> SUFFICES ASSUME MemoryInv, SizeInv, [Next]_vars, NEW q \in Live, status'[q] = "live"
               PROVE  Drift(q)
    OBVIOUS
  <2>1. q \in Pages /\ q \in Live' /\ TypeOK
    BY DEF Live, MemoryInv
  <2>2. t_size[q] \in Int /\ comp[q] \in Nat /\ deltas[q] \in Seq(DeltaNodes)
    BY <2>1, ConstantTypes DEF TypeOK
  <2>3. ListBytes(deltas[q]) \in Nat
    <3>1. PICK f \in [0..Len(deltas[q]) -> Nat] : BytesSteps(f, deltas[q])
      BY <2>2, BytesLoop
    <3> QED BY <2>2, <3>1, LenProperties DEF BytesSteps
  <2>4. ASSUME deltas'[q] = deltas[q], t_size'[q] = t_size[q], comp'[q] = comp[q]
        PROVE  Drift(q)
    <3>1. {k \in Tombstones(q) : deltas'[q][k].slot # deltas[q][k].slot} = {}
      BY <2>4
    <3>2. OccupiedBytes(q)' = OccupiedBytes(q) /\ OccupiedBytes(q) \in Int
      BY <2>2, <2>3, <2>4 DEF OccupiedBytes, PageHeader
    <3>3. Cardinality({}) = 0
      BY FS_EmptySet
    <3> DEFINE lost == (OccupiedBytes(q)' - OccupiedBytes(q)) - (t_size'[q] - t_size[q])
    <3>4. lost = 0
      BY <2>2, <2>4, <3>2
    <3>5. 0 \in 0..(256 * 0)
      OBVIOUS
    <3> HIDE DEF lost
    <3>6. lost \in 0..(256 * 0)
      BY <3>4, <3>5
    <3> QED BY <3>1, <3>3, <3>6 DEF lost
  <2>5. ASSUME NEW p \in Live, NEW h, NEW D, ListRewritten(p, h, D), p # q
        PROVE  Drift(q)
    <3>1. deltas'[q] = deltas[q] /\ t_size'[q] = t_size[q] /\ comp'[q] = comp[q]
      BY <2>1, <2>5 DEF ListRewritten, TypeOK
    <3> QED BY <2>4, <3>1
  <2>6. ASSUME NEW h, NEW D, ListRewritten(q, h, D)
        PROVE  Drift(q)
    <3>1. PICK m \in 0..NumBlocks : Rewritten(h, q, D, m)
      BY <2>6 DEF ListRewritten
    <3>2. deltas'[q] = h.list /\ t_size'[q] = h.size /\ comp'[q] = comp[q]
      BY <2>1, <2>6 DEF ListRewritten, TypeOK
    <3>3. {k \in Tombstones(q) : deltas'[q][k].slot # deltas[q][k].slot} = Replaced(q, D)
      BY <3>1, <3>2 DEF Rewritten, Replaced, Tombstones
    <3>4. /\ h.list \in Seq(DeltaNodes) /\ Distinct(h.list) /\ h.size \in Int
          /\ \A k \in DOMAIN h.list : h.list[k].bytes <= MaxByte
      BY <3>1, ConstantTypes DEF Rewritten, Owns, Headers, Distinct
    <3>5. ListBytes(h.list) <= 266 * NumBlocks
      BY <3>4, ListBounded
    <3>6. comp[q] \in CompSizes /\ PageHeader + comp[q] + 266 * NumBlocks <= MaxShort
      BY DEF SizeInv, PageFits
    <3> DEFINE c == Cardinality(Replaced(q, D))
               x == ListBytes(h.list)
               lost == (x - ListBytes(deltas[q])) - (h.size - t_size[q])
    <3>7. x \in Nat
      BY <3>1, RewrittenSize
    <3>8. PageHeader + comp[q] + x <= MaxShort
      <4>1. PageHeader \in Nat /\ MaxShort \in Nat
        BY DEF PageHeader, MaxShort
      <4>2. NumBlocks \in Nat
        BY ConstantTypes
      <4> HIDE DEF x
      <4>3. x <= 266 * NumBlocks
        BY <3>5 DEF x
      <4> QED BY <2>2, <3>6, <3>7, <4>1, <4>2, <4>3
    <3>9. c \in Nat /\ c <= lost /\ lost <= 256 * c
      BY <3>1, <3>8, RewrittenSize
    <3>10. (OccupiedBytes(q)' - OccupiedBytes(q)) - (t_size'[q] - t_size[q]) = lost
      <4>1. PageHeader \in Nat
        BY DEF PageHeader
      <4>2. OccupiedBytes(q)' = PageHeader + comp[q] + x
        BY <3>2 DEF OccupiedBytes
      <4>3. OccupiedBytes(q) = PageHeader + comp[q] + ListBytes(deltas[q])
        BY DEF OccupiedBytes
      <4> HIDE DEF x
      <4> QED BY <2>2, <2>3, <3>2, <3>4, <3>7, <4>1, <4>2, <4>3
    <3>11. lost \in Int
      BY <2>2, <2>3, <3>4, <3>7
    <3> HIDE DEF c, lost
    <3>12. lost \in c..(256 * c)
      BY <3>9, <3>11
    <3> QED BY <3>3, <3>10, <3>12 DEF c
  <2> HIDE DEF Drift
  <2>7. \/ deltas'[q] = deltas[q] /\ t_size'[q] = t_size[q] /\ comp'[q] = comp[q]
        \/ \E p \in Live : \E h, D : ListRewritten(p, h, D)
    BY <2>1, SizeSteps
  <2> QED BY <2>4, <2>5, <2>6, <2>7
<1> QED BY <1>1, SizeInvariant, PTL DEF Spec, SizeDriftsOnlyAtTombstones
=============================================================================
