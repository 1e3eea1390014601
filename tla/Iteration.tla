------------------------------ MODULE Iteration ------------------------------
(***************************************************************************)
(* Facts about counted loops, for the proofs about the C code's `for'      *)
(* loops: a set of naturals has a least element, so a property of a loop   *)
(* can be proved by looking at the first iteration that breaks it; and a   *)
(* loop that steps through a set defines a function of the iteration.      *)
(***************************************************************************)
EXTENDS PartialSums, TLAPS, FiniteSetTheorems

(* Every set of naturals that is not empty has a least element.            *)
THEOREM LeastNatural ==
  ASSUME NEW S \in SUBSET Nat, S # {}
  PROVE  \E n \in S : \A m \in S : n <= m
<1> DEFINE R == StrictSubsetOrdering(Nat)
           T == {0..i : i \in S}
<1>1. IsWellFoundedOn(R, FiniteSubsetsOf(Nat))
  BY FS_StrictSubsetOrderingWellFounded
<1>2. T # {} /\ T \subseteq FiniteSubsetsOf(Nat)
  <2>1. \A i \in S : 0..i \in SUBSET Nat /\ IsFiniteSet(0..i)
    BY FS_Interval
  <2> QED BY <2>1 DEF FiniteSubsetsOf
<1>3. \E x \in T : \A y \in T : ~ (<<y, x>> \in R)
  <2> HIDE DEF R, T
  <2> QED BY <1>1, <1>2, WFMin
<1>4. PICK n \in S : \A m \in S : ~ (<<0..m, 0..n>> \in R)
  BY <1>3
<1>5. ASSUME NEW m \in S, m < n PROVE FALSE
  <2>1. 0..m \subseteq 0..n /\ n \in 0..n /\ n \notin 0..m
    BY <1>5
  <2>2. <<0..m, 0..n>> \in R
    BY <2>1 DEF StrictSubsetOrdering
  <2> QED BY <2>2, <1>4
<1> QED BY <1>5

(* What a loop body makes of a value in T in each iteration.               *)
LoopBodies(T) == [T \X Nat -> T]

(* The values of a loop of n iterations that starts with e.                *)
IsLoop(f, T, e, step, n) ==
    /\ f \in [0..n -> T]
    /\ f[0] = e
    /\ \A i \in 1..n : f[i] = step[<<f[i - 1], i>>]

(* A loop whose body stays in T has values in T, whatever the body is.     *)
THEOREM LoopExists ==
  ASSUME NEW T, NEW e \in T, NEW step \in LoopBodies(T), NEW n \in Nat
  PROVE  \E f : IsLoop(f, T, e, step, n)
<1>0. step \in [T \X Nat -> T]
  BY DEF LoopBodies
<1> DEFINE Loop(f, k) == /\ f[0] = e
                         /\ \A i \in 1..k : f[i] = step[<<f[i - 1], i>>]
           Bad == {k \in Nat : \A f \in [0..k -> T] : ~ Loop(f, k)}
<1>1. SUFFICES Bad = {}
  BY ZenonT(60) DEF IsLoop
<1>2. SUFFICES ASSUME Bad # {} PROVE FALSE
  OBVIOUS
<1>3. PICK k \in Bad : \A m \in Bad : k <= m
  <2> HIDE DEF Bad
  <2>1. Bad \in SUBSET Nat
    BY DEF Bad
  <2> QED BY <1>2, <2>1, LeastNatural
<1>4. CASE k = 0
  <2> DEFINE f == [i \in 0..0 |-> e]
  <2>1. f \in [0..0 -> T] /\ Loop(f, 0)
    OBVIOUS
  <2> QED BY <1>4, <1>3, <2>1
<1>5. CASE k # 0
  <2>1. k \in Nat /\ k - 1 \in Nat /\ k - 1 \notin Bad
    <3> HIDE DEF Loop
    <3>1. k \in Nat
      OBVIOUS
    <3>2. k - 1 \in Bad => k <= k - 1
      BY <1>3
    <3> QED BY <3>1, <3>2, <1>5
  <2>2. PICK f \in [0..(k - 1) -> T] : Loop(f, k - 1)
    BY <2>1
  <2> DEFINE g == [i \in 0..k |-> IF i = k THEN step[<<f[k - 1], k>>] ELSE f[i]]
  <2>3. f[k - 1] \in T /\ step[<<f[k - 1], k>>] \in T
    BY <1>0, <2>1, <2>2
  <2>4. g \in [0..k -> T]
    BY <2>1, <2>2, <2>3
  <2>5. g[0] = e
    BY <2>1, <2>2, <1>5
  <2>6. ASSUME NEW i \in 1..k PROVE g[i] = step[<<g[i - 1], i>>]
    <3>1. CASE i = k
      <4>1. g[k] = step[<<f[k - 1], k>>] /\ g[k - 1] = f[k - 1]
        BY <2>1
      <4> QED BY <4>1, <3>1
    <3>2. CASE i # k
      <4>1. i \in 1..(k - 1) /\ i - 1 \in 0..(k - 1) /\ i - 1 # k
        BY <3>2, <2>1
      <4>2. g[i] = f[i] /\ g[i - 1] = f[i - 1]
        BY <4>1, <3>2
      <4> QED BY <4>1, <4>2, <2>2
    <3> QED BY <3>1, <3>2
  <2>7. Loop(g, k)
    BY <2>5, <2>6
  <2> QED BY <2>4, <2>7, <1>3
<1> QED BY <1>4, <1>5

(* The partial sums of f: `upto[k]' is that of the first k numbers.        *)
IsSums(upto, n, f) ==
    /\ upto \in [0..n -> Int]
    /\ upto[0] = 0
    /\ \A k \in 1..n : upto[k] = upto[k - 1] + f[k]

(* SumUpTo is made of partial sums.                                        *)
LEMMA SumsExist ==
  ASSUME NEW n \in Nat, NEW f, \A k \in 1..n : f[k] \in Int
  PROVE  \E upto : IsSums(upto, n, f) /\ SumUpTo(n, f) = upto[n]
<1> DEFINE Body(a) == [k \in 0..n |-> IF k = 0 THEN 0 ELSE a[k - 1] + f[k]]
           step == [x \in Int \X Nat |-> IF x[2] \in 1..n THEN x[1] + f[x[2]] ELSE x[1]]
           after == CHOOSE a : a = Body(a)
           zero == 0
<1>1. PICK h : IsLoop(h, Int, zero, step, n)
  <2>1. step \in LoopBodies(Int) /\ zero \in Int
    BY DEF LoopBodies
  <2> HIDE DEF step, zero
  <2> QED BY <2>1, LoopExists
<1>2. IsSums(h, n, f)
  <2>1. h \in [0..n -> Int] /\ h[0] = 0
    BY <1>1 DEF IsLoop
  <2>2. ASSUME NEW k \in 1..n PROVE h[k] = h[k - 1] + f[k]
    <3>1. k \in Nat /\ k - 1 \in 0..n
      OBVIOUS
    <3>2. h[k - 1] \in Int /\ h[k] = step[<<h[k - 1], k>>]
      BY <3>1, <1>1, ZenonT(60) DEF IsLoop
    <3>3. step[<<h[k - 1], k>>] = h[k - 1] + f[k]
      BY <3>1, <3>2
    <3> QED BY <3>2, <3>3
  <2> QED BY <2>1, <2>2 DEF IsSums
<1>3. h = Body(h)
  <2>1. ASSUME NEW k \in 0..n PROVE h[k] = Body(h)[k]
    BY <1>2 DEF IsSums
  <2>2. h \in [0..n -> Int]
    BY <1>2 DEF IsSums
  <2> QED BY <2>1, <2>2
<1>4. after = Body(after)
  <2> HIDE DEF Body
  <2> QED BY <1>3
<1>5. SumUpTo(n, f) = after[n]
  BY DEF SumUpTo
<1> HIDE DEF after
<1>6. after[0] = 0 /\ \A k \in 1..n : after[k] = after[k - 1] + f[k]
  BY <1>4
<1>7. \A k \in 0..n : after[k] = h[k]
  <2> DEFINE Bad == {k \in 0..n : after[k] # h[k]}
  <2> SUFFICES ASSUME Bad # {} PROVE FALSE
    OBVIOUS
  <2>1. Bad \in SUBSET Nat
    OBVIOUS
  <2>2. PICK k \in Bad : \A j \in Bad : k <= j
    <3> HIDE DEF Bad
    <3> QED BY <2>1, LeastNatural
  <2>3. k # 0
    BY <1>2, <1>6, <2>2 DEF IsSums
  <2>4. k \in 1..n /\ k - 1 \in 0..n /\ k - 1 \notin Bad
    BY <2>2, <2>3
  <2> QED BY <1>2, <1>6, <2>2, <2>4 DEF IsSums
<1>8. n \in 0..n
  OBVIOUS
<1> QED BY <1>2, <1>5, <1>7, <1>8

(* There is one way to sum.                                                *)
LEMMA SumsAreUnique ==
  ASSUME NEW m \in Nat, NEW n \in Nat, m <= n,
         NEW f, \A k \in 1..n : f[k] \in Int,
         NEW a, IsSums(a, n, f), NEW g, \A k \in 1..m : g[k] = f[k]
  PROVE  SumUpTo(m, g) = a[m]
<1>1. \A k \in 1..m : g[k] \in Int
  OBVIOUS
<1>2. PICK b : IsSums(b, m, g) /\ SumUpTo(m, g) = b[m]
  BY <1>1, SumsExist
<1> DEFINE Bad == {k \in 0..m : a[k] # b[k]}
<1>3. Bad = {}
  <2> SUFFICES ASSUME Bad # {} PROVE FALSE
    OBVIOUS
  <2>1. Bad \in SUBSET Nat
    OBVIOUS
  <2>2. PICK k \in Bad : \A j \in Bad : k <= j
    <3> HIDE DEF Bad
    <3> QED BY <2>1, LeastNatural
  <2>3. k # 0
    BY <1>2, <2>2 DEF IsSums
  <2>4. k \in 1..m /\ k \in 1..n /\ k - 1 \in 0..m /\ k - 1 \notin Bad
    BY <2>2, <2>3
  <2>5. a[k] = a[k - 1] + f[k] /\ b[k] = b[k - 1] + g[k]
    BY <1>2, <2>4 DEF IsSums
  <2> QED BY <2>2, <2>4, <2>5
<1>4. m \in 0..m
  OBVIOUS
<1> QED BY <1>2, <1>3, <1>4

(* A sum grows by the last number.                                         *)
THEOREM SumStep ==
  ASSUME NEW n \in Nat, NEW f, \A k \in 1..n : f[k] \in Int
  PROVE  /\ SumUpTo(n, f) \in Int
         /\ n = 0 => SumUpTo(n, f) = 0
         /\ n # 0 => SumUpTo(n, f) = SumUpTo(n - 1, f) + f[n]
<1>1. PICK a : IsSums(a, n, f) /\ SumUpTo(n, f) = a[n]
  BY SumsExist
<1>2. n \in 0..n
  OBVIOUS
<1>3. n # 0 => a[n] = a[n - 1] + f[n]
  BY <1>1 DEF IsSums
<1>4. ASSUME n # 0 PROVE SumUpTo(n - 1, f) = a[n - 1]
  <2> DEFINE m == n - 1
  <2>1. m \in Nat /\ m <= n /\ \A k \in 1..m : f[k] = f[k]
    BY <1>4
  <2> HIDE DEF m
  <2>2. SumUpTo(m, f) = a[m]
    BY <1>1, <2>1, SumsAreUnique
  <2> QED BY <2>2 DEF m
<1> QED BY <1>1, <1>2, <1>3, <1>4 DEF IsSums

(* It depends on the numbers alone.                                        *)
THEOREM SumSame ==
  ASSUME NEW n \in Nat, NEW f, \A k \in 1..n : f[k] \in Int,
         NEW g, \A k \in 1..n : g[k] = f[k]
  PROVE  SumUpTo(n, g) = SumUpTo(n, f)
<1>1. PICK a : IsSums(a, n, f) /\ SumUpTo(n, f) = a[n]
  BY SumsExist
<1> QED BY <1>1, SumsAreUnique

(* Two lists of numbers are summed together.                               *)
THEOREM SumAdds ==
  ASSUME NEW n \in Nat, NEW f, NEW g, NEW h,
         \A k \in 1..n : f[k] \in Int /\ g[k] \in Int /\ h[k] = f[k] + g[k]
  PROVE  SumUpTo(n, h) = SumUpTo(n, f) + SumUpTo(n, g)
<1>1. /\ \A k \in 1..n : f[k] \in Int
      /\ \A k \in 1..n : g[k] \in Int
      /\ \A k \in 1..n : h[k] \in Int
  OBVIOUS
<1>2. PICK a : IsSums(a, n, f) /\ SumUpTo(n, f) = a[n]
  BY <1>1, SumsExist
<1>3. PICK b : IsSums(b, n, g) /\ SumUpTo(n, g) = b[n]
  BY <1>1, SumsExist
<1> DEFINE c == [k \in 0..n |-> a[k] + b[k]]
<1>4. IsSums(c, n, h)
  <2>1. c \in [0..n -> Int] /\ c[0] = 0
    BY <1>2, <1>3 DEF IsSums
  <2>2. ASSUME NEW k \in 1..n PROVE c[k] = c[k - 1] + h[k]
    <3>1. k \in 0..n /\ k - 1 \in 0..n
      OBVIOUS
    <3>2. /\ a[k] = a[k - 1] + f[k] /\ b[k] = b[k - 1] + g[k]
          /\ a[k - 1] \in Int /\ b[k - 1] \in Int
      BY <1>2, <1>3, <3>1 DEF IsSums
    <3> QED BY <3>1, <3>2
  <2> HIDE DEF c
  <2> QED BY <2>1, <2>2 DEF IsSums
<1>5. c[n] = a[n] + b[n]
  OBVIOUS
<1> HIDE DEF c
<1>6. SumUpTo(n, h) = c[n]
  <2>1. n <= n /\ \A k \in 1..n : h[k] = h[k] /\ h[k] \in Int
    OBVIOUS
  <2> QED BY <1>4, <2>1, SumsAreUnique, ZenonT(60)
<1> QED BY <1>2, <1>3, <1>5, <1>6

(* No sum is more than its largest number as often as there are numbers.   *)
THEOREM SumBounded ==
  ASSUME NEW n \in Nat, NEW c \in Nat, NEW f,
         \A k \in 1..n : f[k] \in 0..c
  PROVE  SumUpTo(n, f) \in 0..(n * c)
<1>1. \A k \in 1..n : f[k] \in Int
  OBVIOUS
<1>2. PICK a : IsSums(a, n, f) /\ SumUpTo(n, f) = a[n]
  BY <1>1, SumsExist
<1> DEFINE Bad == {k \in 0..n : ~(0 <= a[k] /\ a[k] <= k * c)}
<1>3. Bad = {}
  <2> SUFFICES ASSUME Bad # {} PROVE FALSE
    OBVIOUS
  <2>1. Bad \in SUBSET Nat
    OBVIOUS
  <2>2. PICK k \in Bad : \A j \in Bad : k <= j
    <3> HIDE DEF Bad
    <3> QED BY <2>1, LeastNatural
  <2>3. k # 0
    BY <1>2, <2>2 DEF IsSums
  <2>4. k \in 1..n /\ k - 1 \in 0..n /\ k - 1 \notin Bad
    BY <2>2, <2>3
  <2>5. a[k] = a[k - 1] + f[k] /\ a[k - 1] \in Int
    BY <1>2, <2>4 DEF IsSums
  <2>6. k * c = (k - 1) * c + c
    BY <2>4
  <2>7. 0 <= a[k - 1] /\ a[k - 1] <= (k - 1) * c /\ (k - 1) * c \in Int
    BY <2>4
  <2> DEFINE p == (k - 1) * c
  <2>8. 0 <= a[k] /\ a[k] <= p + c
    <3> HIDE DEF p
    <3> QED BY <2>4, <2>5, <2>7 DEF p
  <2> QED BY <2>2, <2>6, <2>8
<1>4. n \in 0..n
  OBVIOUS
<1>5. a[n] \in Int /\ 0 <= a[n] /\ a[n] <= n * c
  BY <1>2, <1>3, <1>4 DEF IsSums
<1> QED BY <1>2, <1>5

(* Numbers that differ in one place give sums that differ by as much.      *)
THEOREM SumDiffers ==
  ASSUME NEW n \in Nat, NEW m \in 1..n, NEW f, NEW g, NEW d \in Int,
         \A k \in 1..n : f[k] \in Int,
         g[m] = f[m] + d, \A k \in 1..n : k # m => g[k] = f[k]
  PROVE  SumUpTo(n, g) = SumUpTo(n, f) + d
<1>1. /\ \A k \in 1..n : f[k] \in Int
      /\ \A k \in 1..n : g[k] \in Int
  OBVIOUS
<1>2. PICK a : IsSums(a, n, f) /\ SumUpTo(n, f) = a[n]
  BY <1>1, SumsExist
<1> DEFINE c == [k \in 0..n |-> a[k] + (IF k >= m THEN d ELSE 0)]
<1>4. IsSums(c, n, g)
  <2>1. c \in [0..n -> Int] /\ c[0] = 0
    BY <1>2, SMTT(30) DEF IsSums
  <2>2. ASSUME NEW k \in 1..n PROVE c[k] = c[k - 1] + g[k]
    <3>1. k \in 0..n /\ k - 1 \in 0..n
      OBVIOUS
    <3>2. a[k] = a[k - 1] + f[k] /\ a[k - 1] \in Int /\ f[k] \in Int
      BY <1>2, <3>1 DEF IsSums
    <3> QED BY <3>1, <3>2
  <2> HIDE DEF c
  <2> QED BY <2>1, <2>2 DEF IsSums
<1>5. c[n] = a[n] + d
  OBVIOUS
<1> HIDE DEF c
<1>6. SumUpTo(n, g) = c[n]
  BY <1>1, <1>4, SumsAreUnique
<1> QED BY <1>2, <1>5, <1>6
=============================================================================
