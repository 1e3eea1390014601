--------------------------- MODULE MemPoolProofs ---------------------------
(***************************************************************************)
(* Proofs about MemPool, for any set of pointers and any capacity.         *)
(*                                                                         *)
(* The invariant is TypeOK with the three facts the code of debug_malloc   *)
(* lives on: the table is what the page engine holds (TableIsHeld), which  *)
(* makes `size' the number of entries and so leaves a free slot whenever   *)
(* size < cap; a set that was dropped is not in any table; and the program *)
(* stops only on a missing table.                                          *)
(***************************************************************************)
EXTENDS MemPool, FiniteSetTheorems, Iteration

IInv ==
    /\ TypeOK
    /\ IsFiniteSet(held)
    /\ TableIsHeld
    /\ dropped # {} => table = NoTable /\ size > 0
    /\ FaultsOnlyAfterDrop

(* Min of a set of naturals is its least element: the first hit of a       *)
(* search from slot 0 upwards.                                             *)
LEMMA MinIsLeast ==
  ASSUME NEW S \in SUBSET Nat, S # {}
  PROVE  Min(S) \in S /\ \A x \in S : Min(S) <= x
BY LeastNatural DEF Min

(* The table without an index.                                             *)
LEMMA NoTableFacts ==
  /\ DOMAIN NoTable = {}
  /\ FreeSlots(NoTable) = {}
  /\ {NoTable[s] : s \in DOMAIN NoTable \ FreeSlots(NoTable)} = {}
BY DEF NoTable, FreeSlots

(* The numbers of a state.                                                 *)
LEMMA Numbers ==
  ASSUME TypeOK
  PROVE  /\ size \in Nat /\ cap \in Nat /\ size <= cap /\ 1 <= cap
         /\ table # NoTable => table \in [0..(cap - 1) -> Pointers \cup {NULL}]
<1>1. size \in 0..cap /\ cap \in 1..MaxCap
  BY DEF TypeOK
<1>2. MaxCap \in Nat
  BY MemPoolAssumption
<1>3. table # NoTable => table \in [0..(cap - 1) -> Pointers \cup {NULL}]
  BY DEF TypeOK
<1> QED BY <1>1, <1>2, <1>3

(* A table that is not full by its count has a free slot: otherwise it     *)
(* would map its slots one to one onto the pointers held.                  *)
LEMMA FreeSlotLeft ==
  ASSUME IInv, dropped = {}, table # NoTable, size < cap
  PROVE  FreeSlots(table) # {}
<1> SUFFICES ASSUME FreeSlots(table) = {} PROVE FALSE
  OBVIOUS
<1>0. TypeOK /\ IsFiniteSet(held) /\ TableIsHeld
  BY DEF IInv
<1>1. DOMAIN table = 0..(cap - 1) /\ cap \in Nat /\ size \in Nat
  BY <1>0, Numbers
<1>2. /\ held = {table[s] : s \in 0..(cap - 1)}
      /\ \A r, s \in 0..(cap - 1) : table[r] = table[s] => r = s
      /\ size = Cardinality(held)
  BY <1>0, <1>1 DEF TableIsHeld, FreeSlots
<1>3. table \in Injection(0..(cap - 1), held)
  <2>1. table \in [0..(cap - 1) -> held]
    <3>1. table \in [0..(cap - 1) -> Pointers \cup {NULL}]
      BY <1>0, Numbers
    <3> QED BY <3>1, <1>2
  <2> QED BY <2>1, <1>2 DEF Injection, IsInjective
<1>4. Cardinality(0..(cap - 1)) <= Cardinality(held)
  BY <1>0, <1>3, FS_Injection
<1>5. Cardinality(0..(cap - 1)) = cap
  BY <1>1, FS_Interval
<1> QED BY <1>1, <1>2, <1>4, <1>5

(* The table a slot is looked for in: it has one to spare, it keeps every  *)
(* entry where it was, and it has no others.                               *)
LEMMA GrownFacts ==
  ASSUME IInv, ~(table = NoTable /\ size > 0),
         NEW c, c = IF MustGrow THEN 2 * cap ELSE cap
  PROVE  /\ dropped = {}
         /\ c \in Nat /\ size \in Nat /\ size + 1 <= c /\ 1 <= c
         /\ Grown \in [0..(c - 1) -> Pointers \cup {NULL}]
         /\ \A r \in DOMAIN table : r \in DOMAIN Grown /\ Grown[r] = table[r]
         /\ \A r \in DOMAIN Grown :
               Grown[r] # NULL => r \in DOMAIN table /\ Grown[r] = table[r]
         /\ FreeSlots(Grown) \in SUBSET Nat /\ FreeSlots(Grown) # {}
<1>1. /\ size \in Nat /\ cap \in Nat /\ size <= cap /\ 1 <= cap
      /\ table # NoTable => table \in [0..(cap - 1) -> Pointers \cup {NULL}]
  BY Numbers DEF IInv
<1>2. dropped = {}
  BY <1>1 DEF IInv
<1>3. table = NoTable => size = 0 /\ DOMAIN table = {}
  BY <1>1, NoTableFacts
<1>4. CASE MustGrow
  <2>1. Grown = [s \in 0..(2 * cap - 1) |-> IF s < size THEN table[s] ELSE NULL]
    BY <1>4 DEF Grown
  <2>2. c = 2 * cap
    BY <1>4
  <2>3. table = NoTable \/ size = cap
    BY <1>1, <1>4 DEF MustGrow
  <2>4. \A s \in 0..(2 * cap - 1) : s < size <=> s \in DOMAIN table
    BY <1>1, <1>3, <2>3
  <2>5. \A s \in DOMAIN table : s \in 0..(2 * cap - 1)
    BY <1>1, <1>3, <2>3
  <2>6. Grown \in [0..(c - 1) -> Pointers \cup {NULL}]
    <3>1. \A s \in 0..(2 * cap - 1) : s < size => table[s] \in Pointers \cup {NULL}
      BY <1>1, <1>3, <2>3
    <3> QED BY <2>1, <2>2, <3>1
  <2>7. /\ \A r \in DOMAIN table : r \in DOMAIN Grown /\ Grown[r] = table[r]
        /\ \A r \in DOMAIN Grown :
              Grown[r] # NULL => r \in DOMAIN table /\ Grown[r] = table[r]
    BY <2>1, <2>4, <2>5
  <2>8. 2 * cap - 1 \in FreeSlots(Grown)
    BY <1>1, <2>1 DEF FreeSlots
  <2>9. FreeSlots(Grown) \in SUBSET Nat
    BY <1>1, <2>1 DEF FreeSlots
  <2> QED BY <1>1, <1>2, <2>2, <2>6, <2>7, <2>8, <2>9
<1>5. CASE ~ MustGrow
  <2>1. Grown = table /\ c = cap /\ table # NoTable /\ size < cap
    BY <1>1, <1>5 DEF Grown, MustGrow
  <2>2. FreeSlots(table) # {}
    BY <1>2, <2>1, FreeSlotLeft
  <2>3. FreeSlots(table) \in SUBSET Nat
    BY <1>1, <2>1 DEF FreeSlots
  <2> QED BY <1>1, <1>2, <2>1, <2>2, <2>3
<1> QED BY <1>4, <1>5

(* TableIsHeld slot by slot.                                               *)
LEMMA EntriesOf ==
  ASSUME NEW t, NEW h
  PROVE  {t[s] : s \in DOMAIN t \ FreeSlots(t)} = h
         <=> /\ \A s \in DOMAIN t : t[s] # NULL => t[s] \in h
             /\ \A p \in h : \E s \in DOMAIN t : t[s] # NULL /\ t[s] = p
BY DEF FreeSlots

(* What an allocation does when the table can be reached: the lowest free  *)
(* slot gets the new pointer, the other slots keep theirs.                 *)
LEMMA MallocEffect ==
  ASSUME IInv, Malloc, ~(table = NoTable /\ size > 0)
  PROVE  /\ dropped = {} /\ dropped' = {} /\ UNCHANGED fault
         /\ size' = size + 1 /\ size \in Nat
         /\ size' <= cap' /\ 1 <= cap' /\ cap' \in Nat /\ cap' <= MaxCap
         /\ \E p \in Pointers \ heap :
              /\ heap' = heap \cup {p} /\ held' = held \cup {p}
              /\ \E s \in DOMAIN Grown :
                    /\ table' = [Grown EXCEPT ![s] = p]
                    /\ Grown[s] = NULL
                    /\ \A r \in DOMAIN Grown : r < s => Grown[r] # NULL
<1> DEFINE c == IF MustGrow THEN 2 * cap ELSE cap
<1>1. /\ dropped = {}
      /\ c \in Nat /\ size \in Nat /\ size + 1 <= c /\ 1 <= c
      /\ Grown \in [0..(c - 1) -> Pointers \cup {NULL}]
      /\ FreeSlots(Grown) \in SUBSET Nat /\ FreeSlots(Grown) # {}
  BY GrownFacts
<1>2. cap' = c /\ cap' <= MaxCap /\ dropped' = dropped
  BY DEF Malloc
<1>3. PICK p \in Pointers \ heap :
         /\ table' = [Grown EXCEPT ![SlotFor(Grown)] = p]
         /\ size' = size + 1 /\ heap' = heap \cup {p} /\ held' = held \cup {p}
         /\ UNCHANGED fault
  BY <1>1 DEF Malloc
<1> DEFINE s == SlotFor(Grown)
<1>4. s \in FreeSlots(Grown) /\ \A r \in FreeSlots(Grown) : s <= r
  BY <1>1, MinIsLeast DEF SlotFor
<1> HIDE DEF c, s
<1>5. /\ s \in DOMAIN Grown /\ Grown[s] = NULL
      /\ \A r \in DOMAIN Grown : r < s => Grown[r] # NULL
  <2>1. \A r \in DOMAIN Grown : r \in Nat
    BY <1>1
  <2> QED BY <1>4, <2>1 DEF FreeSlots
<1>6. table' = [Grown EXCEPT ![s] = p]
  BY <1>3 DEF s
<1> QED BY <1>1, <1>2, <1>3, <1>5, <1>6

(* An allocation keeps the invariant, also when it grows the table.        *)
LEMMA MallocKeeps ==
  ASSUME IInv, Malloc
  PROVE  IInv'
<1>1. CASE table = NoTable /\ size > 0
  <2>1. UNCHANGED <<size, cap, table, heap, held, dropped>> /\ fault' = "null table"
    BY <1>1 DEF Malloc
  <2>2. dropped # {}
    <3> SUFFICES ASSUME dropped = {} PROVE FALSE
      OBVIOUS
    <3>1. held = {} /\ size = Cardinality(held)
      BY <1>1, NoTableFacts DEF IInv, TableIsHeld
    <3> QED BY <1>1, <3>1, FS_EmptySet
  <2> QED BY <2>1, <2>2 DEF IInv, TypeOK, TableIsHeld, FaultsOnlyAfterDrop, FreeSlots
<1>2. CASE ~(table = NoTable /\ size > 0)
  <2>1. PICK p \in Pointers \ heap :
           /\ heap' = heap \cup {p} /\ held' = held \cup {p}
           /\ \E s \in DOMAIN Grown :
                 table' = [Grown EXCEPT ![s] = p] /\ Grown[s] = NULL
    BY <1>2, MallocEffect
  <2>2. PICK s \in DOMAIN Grown :
           table' = [Grown EXCEPT ![s] = p] /\ Grown[s] = NULL
    BY <2>1
  <2>3. /\ dropped = {} /\ dropped' = {} /\ UNCHANGED fault
        /\ size' = size + 1 /\ size \in Nat
        /\ size' <= cap' /\ 1 <= cap' /\ cap' \in Nat /\ cap' <= MaxCap
    BY <1>2, MallocEffect
  <2>4. /\ Grown \in [0..(cap' - 1) -> Pointers \cup {NULL}]
        /\ \A r \in DOMAIN table : r \in DOMAIN Grown /\ Grown[r] = table[r]
        /\ \A r \in DOMAIN Grown :
              Grown[r] # NULL => r \in DOMAIN table /\ Grown[r] = table[r]
    <3>1. cap' = IF MustGrow THEN 2 * cap ELSE cap
      BY <1>2 DEF Malloc
    <3> QED BY <1>2, <3>1, GrownFacts
  <2>5. /\ table' \in [0..(cap' - 1) -> Pointers \cup {NULL}]
        /\ DOMAIN table' = DOMAIN Grown /\ table'[s] = p
        /\ \A r \in DOMAIN Grown \ {s} : table'[r] = Grown[r]
    BY <2>2, <2>4
  <2>6. p # NULL
    BY MemPoolAssumption
  <2>7. p \notin held /\ heap \subseteq Pointers /\ held \subseteq heap
    BY DEF IInv, TypeOK
  <2>8. /\ \A r \in DOMAIN table : table[r] # NULL => table[r] \in held
        /\ \A q \in held : \E r \in DOMAIN table : table[r] # NULL /\ table[r] = q
    BY <2>3, EntriesOf DEF IInv, TableIsHeld
  <2>9. TypeOK'
    <3>1. MaxCap \in Nat
      BY MemPoolAssumption
    <3>2. size' \in 0..cap' /\ cap' \in 1..MaxCap
      BY <2>3, <3>1
    <3>3. heap' \subseteq Pointers /\ held' \subseteq heap' /\ dropped' \subseteq heap'
      BY <2>1, <2>3, <2>7
    <3>4. fault' \in {"none", "null table", "no value"}
      BY <2>3 DEF IInv, TypeOK
    <3> QED BY <2>5, <3>2, <3>3, <3>4 DEF TypeOK
  <2>10. IsFiniteSet(held') /\ Cardinality(held') = Cardinality(held) + 1
    BY <2>1, <2>7, FS_AddElement DEF IInv
  <2>11. TableIsHeld'
    <3>1. size' = Cardinality(held')
      BY <2>3, <2>10 DEF IInv, TableIsHeld
    <3>2. \A r \in DOMAIN table' : table'[r] # NULL => table'[r] \in held'
      BY <2>1, <2>4, <2>5, <2>8
    <3>3. \A q \in held' : \E r \in DOMAIN table' : table'[r] # NULL /\ table'[r] = q
      <4>1. ASSUME NEW q \in held
            PROVE  \E r \in DOMAIN table' : table'[r] # NULL /\ table'[r] = q
        <5>1. PICK r \in DOMAIN table : table[r] # NULL /\ table[r] = q
          BY <2>8
        <5>2. r \in DOMAIN Grown \ {s} /\ Grown[r] = q
          BY <2>2, <2>4, <5>1
        <5> QED BY <2>5, <5>1, <5>2
      <4> QED BY <2>1, <2>5, <2>6, <4>1
    <3>4. \A r, t \in DOMAIN table' :
             table'[r] = table'[t] /\ table'[r] # NULL => r = t
      <4>1. \A r, t \in DOMAIN table :
               table[r] = table[t] /\ table[r] # NULL => r = t
        BY <2>3 DEF IInv, TableIsHeld
      <4>2. \A r \in DOMAIN Grown \ {s} : table'[r] # NULL =>
               r \in DOMAIN table /\ table'[r] = table[r] /\ table'[r] # p
        BY <2>4, <2>5, <2>7, <2>8
      <4> QED BY <2>5, <4>1, <4>2
    <3>5. {table'[r] : r \in DOMAIN table' \ FreeSlots(table')} = held'
      BY <3>2, <3>3, EntriesOf
    <3> QED BY <3>1, <3>4, <3>5 DEF TableIsHeld
  <2>12. fault' = "none"
    BY <2>3 DEF Malloc
  <2> QED BY <2>3, <2>9, <2>10, <2>11, <2>12 DEF IInv, FaultsOnlyAfterDrop
<1> QED BY <1>1, <1>2

(* A step that changes nothing keeps the invariant.                        *)
LEMMA Unmoved ==
  ASSUME IInv, UNCHANGED vars
  PROVE  IInv'
<1> USE DEF vars
<1>1. TypeOK'
  BY DEF IInv, TypeOK
<1>2. TableIsHeld'
  BY DEF IInv, TableIsHeld, FreeSlots
<1> QED BY <1>1, <1>2 DEF IInv, FaultsOnlyAfterDrop

(* Handing back a pointer clears the one slot that holds it.               *)
LEMMA FreeKeeps ==
  ASSUME IInv, NEW p \in held \cup {NULL}, Free(p)
  PROVE  IInv'
<1>1. /\ NULL \notin Pointers /\ held \subseteq heap /\ heap \subseteq Pointers
  BY MemPoolAssumption DEF IInv, TypeOK
<1>2. held' = held \ {p} /\ UNCHANGED <<cap, heap, dropped>> /\ fault = "none"
  BY DEF Free
<1>3. CASE p = NULL
  <2>1. held' = held /\ UNCHANGED <<table, size, fault>>
    BY <1>1, <1>2, <1>3 DEF Free
  <2> QED BY <1>2, <2>1, Unmoved DEF vars
<1>4. CASE p # NULL /\ dropped # {}
  <2>1. table = NoTable /\ size > 0
    BY <1>4 DEF IInv
  <2>2. UNCHANGED <<table, size>> /\ fault' = "null table"
    BY <1>4, <2>1, NoTableFacts DEF Free
  <2>3. TypeOK'
    BY <1>2, <2>2 DEF IInv, TypeOK
  <2>4. IsFiniteSet(held')
    BY <1>2, FS_RemoveElement DEF IInv
  <2> QED BY <1>2, <1>4, <2>1, <2>2, <2>3, <2>4 DEF IInv, TableIsHeld, FaultsOnlyAfterDrop
<1>5. CASE p # NULL /\ dropped = {}
  <2>1. p \in held
    BY <1>5
  <2>2. /\ \A r \in DOMAIN table : table[r] # NULL => table[r] \in held
        /\ \A q \in held : \E r \in DOMAIN table : table[r] # NULL /\ table[r] = q
        /\ \A r, t \in DOMAIN table : table[r] = table[t] /\ table[r] # NULL => r = t
        /\ size = Cardinality(held)
    BY <1>5, EntriesOf DEF IInv, TableIsHeld
  <2>3. PICK s \in DOMAIN table : table[s] = p
    BY <2>1, <2>2
  <2>4. {r \in DOMAIN table : table[r] = p} = {s}
    BY <1>5, <2>2, <2>3
  <2>5. table # NoTable
    BY <2>3, NoTableFacts
  <2>6. /\ size \in Nat /\ cap \in Nat /\ size <= cap /\ 1 <= cap
        /\ table \in [0..(cap - 1) -> Pointers \cup {NULL}]
    BY <2>5, Numbers DEF IInv
  <2>7. Min({s}) = s
    <3>1. {s} \in SUBSET Nat /\ {s} # {}
      BY <2>3, <2>6
    <3> QED BY <3>1, MinIsLeast
  <2>8. table' = [table EXCEPT ![s] = NULL] /\ size' = size - 1
    BY <1>5, <2>3, <2>4, <2>7 DEF Free
  <2>9. fault' = fault
    BY <1>5, <2>5 DEF Free
  <2>10. /\ IsFiniteSet(held') /\ Cardinality(held') = Cardinality(held) - 1
         /\ Cardinality(held') \in Nat
    BY <1>2, <2>1, FS_RemoveElement, FS_CardinalityType DEF IInv
  <2>11. /\ DOMAIN table' = DOMAIN table /\ table'[s] = NULL
         /\ \A r \in DOMAIN table \ {s} : table'[r] = table[r]
         /\ table' \in [0..(cap' - 1) -> Pointers \cup {NULL}]
    BY <1>2, <2>3, <2>6, <2>8
  <2>12. TypeOK'
    <3>1. size' \in 0..cap' /\ cap' \in 1..MaxCap
      <4>1. size' \in Nat /\ size' <= cap
        BY <2>2, <2>6, <2>8, <2>10
      <4> QED BY <1>2, <2>6, <4>1 DEF IInv, TypeOK
    <3> QED BY <1>1, <1>2, <2>9, <2>11, <3>1 DEF IInv, TypeOK
  <2>13. TableIsHeld'
    <3>1. \A r \in DOMAIN table' : table'[r] # NULL => table'[r] \in held'
      BY <1>2, <2>2, <2>3, <2>4, <2>11
    <3>2. \A q \in held' : \E r \in DOMAIN table' : table'[r] # NULL /\ table'[r] = q
      <4>1. ASSUME NEW q \in held, q # p
            PROVE  \E r \in DOMAIN table' : table'[r] # NULL /\ table'[r] = q
        <5>1. PICK r \in DOMAIN table : table[r] # NULL /\ table[r] = q
          BY <2>2, <4>1
        <5>2. r # s
          BY <2>3, <4>1, <5>1
        <5> QED BY <2>11, <5>1, <5>2
      <4> QED BY <1>2, <4>1
    <3>3. \A r, t \in DOMAIN table' : table'[r] = table'[t] /\ table'[r] # NULL => r = t
      BY <2>2, <2>11
    <3>4. {table'[r] : r \in DOMAIN table' \ FreeSlots(table')} = held'
      BY <3>1, <3>2, EntriesOf
    <3>5. size' = Cardinality(held')
      BY <2>2, <2>8, <2>10
    <3> QED BY <3>3, <3>4, <3>5 DEF TableIsHeld
  <2> QED BY <1>2, <1>5, <2>9, <2>10, <2>12, <2>13 DEF IInv, FaultsOnlyAfterDrop
<1> QED BY <1>3, <1>4, <1>5

(* The statistics take the table: what they drop is what the table held,   *)
(* so the count they leave behind is 0 exactly when nothing is dropped.    *)
LEMMA StatsKeeps ==
  ASSUME IInv, Stats
  PROVE  IInv'
<1>1. table' = NoTable /\ UNCHANGED <<size, cap, heap, held, fault>> /\ fault = "none"
  BY DEF Stats
<1> DEFINE entries == {table[s] : s \in DOMAIN table \ FreeSlots(table)}
<1>2. dropped' = dropped \cup entries
  BY DEF Stats
<1>3. CASE dropped # {}
  <2>1. entries = {} /\ table = NoTable /\ size > 0
    BY <1>3, NoTableFacts DEF IInv
  <2>2. dropped' = dropped /\ table' = table
    BY <1>1, <1>2, <2>1
  <2> QED BY <1>1, <2>2 DEF IInv, TypeOK, TableIsHeld, FaultsOnlyAfterDrop, FreeSlots
<1>4. CASE dropped = {}
  <2>1. entries = held /\ size = Cardinality(held) /\ dropped' = held
    BY <1>2, <1>4 DEF IInv, TableIsHeld
  <2>2. TypeOK'
    BY <1>1, <2>1 DEF IInv, TypeOK
  <2>3. TableIsHeld'
    <3>1. SUFFICES ASSUME held = {} PROVE TableIsHeld'
      BY <2>1 DEF TableIsHeld
    <3>2. DOMAIN table' = {} /\ {table'[s] : s \in DOMAIN table' \ FreeSlots(table')} = {}
      BY <1>1, NoTableFacts
    <3> QED BY <1>1, <2>1, <3>1, <3>2 DEF TableIsHeld
  <2>4. dropped' # {} => size' > 0
    <3>1. size \in Nat
      BY Numbers DEF IInv
    <3> QED BY <1>1, <2>1, <3>1, FS_EmptySet DEF IInv
  <2> QED BY <1>1, <2>2, <2>3, <2>4 DEF IInv, FaultsOnlyAfterDrop
<1> QED BY <1>3, <1>4

(* The pool starts without a table and without entries.                    *)
LEMMA InitIInv == Init => IInv
<1> SUFFICES ASSUME Init PROVE IInv
  OBVIOUS
<1>1. MaxCap \in Nat /\ 1 <= MaxCap
  BY MemPoolAssumption
<1>2. TypeOK
  BY <1>1 DEF Init, TypeOK
<1>3. IsFiniteSet(held) /\ Cardinality(held) = 0
  BY FS_EmptySet DEF Init
<1>4. TableIsHeld
  BY <1>3, NoTableFacts DEF Init, TableIsHeld
<1> QED BY <1>2, <1>3, <1>4 DEF Init, IInv, FaultsOnlyAfterDrop

(* Every step keeps the invariant.                                         *)
LEMMA NextIInv == IInv /\ [Next]_vars => IInv'
<1> SUFFICES ASSUME IInv, [Next]_vars PROVE IInv'
  OBVIOUS
<1>1. CASE Malloc
  BY <1>1, MallocKeeps
<1>2. CASE \E p \in held \cup {NULL} : Free(p)
  BY <1>2, FreeKeeps
<1>3. CASE Stats
  BY <1>3, StatsKeeps
<1>4. CASE Stopped \/ UNCHANGED vars
  BY <1>4, Unmoved DEF Stopped, vars
<1> QED BY <1>1, <1>2, <1>3, <1>4 DEF Next

(* The pool's variables keep their types, and a table has `cap' entries.   *)
THEOREM TypeCorrect == Spec => []TypeOK
<1>1. IInv => TypeOK
  BY DEF IInv
<1> QED BY <1>1, InitIInv, NextIInv, PTL DEF Spec

(* For every capacity the table may reach and any pointers, the table is   *)
(* what the page engine holds, through growth and holes.                   *)
THEOREM TableKept == Spec => []TableIsHeld
<1>1. Init => IInv
  BY InitIInv
<1>2. IInv /\ [Next]_vars => IInv'
  BY NextIInv
<1>3. IInv => TableIsHeld
  BY DEF IInv
<1> QED BY <1>1, <1>2, <1>3, PTL DEF Spec

(* debug_malloc always finds a slot, and no call goes through a missing    *)
(* table, as long as the statistics find the table empty.                  *)
THEOREM NoFault == Spec => []FaultsOnlyAfterDrop
<1>1. Init => IInv
  BY InitIInv
<1>2. IInv /\ [Next]_vars => IInv'
  BY NextIInv
<1>3. IInv => FaultsOnlyAfterDrop
  BY DEF IInv
<1> QED BY <1>1, <1>2, <1>3, PTL DEF Spec

(* A call that hands out memory takes the lowest free slot and leaves the  *)
(* other entries where they were.                                          *)
LEMMA StepTakesLowest ==
  ASSUME IInv, [Next]_vars
  PROVE  LowestSlotStep
<1>1. CASE Malloc
  <2>1. CASE table = NoTable /\ size > 0
    BY <1>1, <2>1 DEF Malloc, LowestSlotStep
  <2>2. CASE ~(table = NoTable /\ size > 0)
    <3>1. PICK p \in Pointers \ heap :
             /\ held' = held \cup {p}
             /\ \E s \in DOMAIN Grown :
                   /\ table' = [Grown EXCEPT ![s] = p]
                   /\ Grown[s] = NULL
                   /\ \A r \in DOMAIN Grown : r < s => Grown[r] # NULL
      BY <1>1, <2>2, MallocEffect
    <3>2. PICK s \in DOMAIN Grown :
             /\ table' = [Grown EXCEPT ![s] = p]
             /\ \A r \in DOMAIN Grown : r < s => Grown[r] # NULL
      BY <3>1
    <3>3. /\ \A r \in DOMAIN Grown : r \in Int
          /\ \A r \in DOMAIN Grown :
                Grown[r] # NULL => r \in DOMAIN table /\ Grown[r] = table[r]
          /\ Grown \in [DOMAIN Grown -> Pointers \cup {NULL}]
      <4> DEFINE c == IF MustGrow THEN 2 * cap ELSE cap
      <4>1. /\ c \in Nat /\ Grown \in [0..(c - 1) -> Pointers \cup {NULL}]
            /\ \A r \in DOMAIN Grown :
                  Grown[r] # NULL => r \in DOMAIN table /\ Grown[r] = table[r]
        BY <2>2, GrownFacts
      <4> HIDE DEF c
      <4> QED BY <4>1
    <3>4. /\ DOMAIN table' = DOMAIN Grown /\ table'[s] = p
          /\ \A r \in DOMAIN Grown \ {s} : table'[r] = Grown[r]
      BY <3>2, <3>3
    <3>5. p \notin held
      BY DEF IInv, TypeOK
    <3>6. ASSUME NEW r \in DOMAIN table'
          PROVE  /\ r < s => table'[r] # NULL
                 /\ r # s /\ table'[r] # NULL => r \in DOMAIN table /\ table'[r] = table[r]
      <4>1. r < s => r # s
        BY <3>3, <3>4
      <4> QED BY <3>2, <3>3, <3>4, <3>6, <4>1
    <3> QED BY <3>1, <3>4, <3>5, <3>6 DEF LowestSlotStep
  <2> QED BY <2>1, <2>2
<1>2. CASE \E p \in held \cup {NULL} : Free(p)
  BY <1>2 DEF Free, LowestSlotStep
<1>3. CASE Stats
  BY <1>3 DEF Stats, LowestSlotStep
<1>4. CASE Stopped \/ UNCHANGED vars
  BY <1>4 DEF Stopped, vars, LowestSlotStep
<1> QED BY <1>1, <1>2, <1>3, <1>4 DEF Next

(* debug_malloc names slots the way ZapiPage's FreshSlot does.             *)
THEOREM LowestSlot == Spec => TakesLowestSlot
<1>1. IInv /\ [Next]_vars => [LowestSlotStep]_vars
  BY StepTakesLowest
<1> QED BY <1>1, InitIInv, NextIInv, PTL DEF Spec, TakesLowestSlot
=============================================================================
