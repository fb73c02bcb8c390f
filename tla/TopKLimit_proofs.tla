------------------------- MODULE TopKLimit_proofs -------------------------
(* The bounded heap of the TopKOperator keeps, for every limit, every input  *)
(* and every list of sort keys, the first rows of the ORDER BY; and LIMIT    *)
(* and OFFSET return exactly their window of the child's rows, for every     *)
(* limit, every offset and every way of cutting the rows into batches.       *)
EXTENDS LimitOp, SequenceTheorems, TopK, FiniteSetTheorems, WellFoundedInduction, TLAPS


-----------------------------------------------------------------------------
(* RowComesBefore is a strict weak order, which is what the heap and         *)
(* std::sort require of a comparison.                                        *)

LEMMA SortColumnTypes ==
    ASSUME NEW l \in Row, NEW k \in DOMAIN sort_columns
    PROVE  /\ l[sort_columns[k].column] \in Int
           /\ sort_columns[k].order \in {"ASC", "DESC"}
<1>1. /\ sort_columns[k].column \in Column
      /\ sort_columns[k].order \in {"ASC", "DESC"}
  <2> DEFINE Key == [column : Column, order : {"ASC", "DESC"}]
  <2>1. sort_columns[k] \in Key
    <3> HIDE DEF Key
    <3>1. sort_columns \in Seq(Key)
      BY SortKeysAssumption DEF Key
    <3> QED
      BY <3>1
  <2> QED
    BY <2>1
<1> QED
  BY <1>1, RowsAssumption

LEMMA SortColumnsNat == DOMAIN sort_columns \subseteq Nat
BY SortKeysAssumption

LEMMA BeforeIsAsymmetric ==
    ASSUME NEW l \in Row, NEW r \in Row, RowComesBefore(l, r)
    PROVE  ~RowComesBefore(r, l)
<1> SUFFICES ASSUME RowComesBefore(r, l) PROVE FALSE
  OBVIOUS
<1> DEFINE Decides(a, b, k) ==
        IF sort_columns[k].order = "ASC" THEN CompareAt(a, b, k) < 0
                                         ELSE CompareAt(a, b, k) > 0
<1>1. PICK k \in DOMAIN sort_columns :
          Decides(l, r, k) /\ \A j \in 1 .. k - 1 : CompareAt(l, r, j) = 0
  BY DEF RowComesBefore
<1>2. PICK m \in DOMAIN sort_columns :
          Decides(r, l, m) /\ \A j \in 1 .. m - 1 : CompareAt(r, l, j) = 0
  BY DEF RowComesBefore
<1>3. k \in Nat /\ m \in Nat /\ k >= 1 /\ m >= 1
  BY SortKeysAssumption
<1>4. CASE k = m
  BY <1>1, <1>2, <1>4, SortColumnTypes DEF CompareAt, Compare
<1>5. CASE k < m
  <2>1. CompareAt(r, l, k) = 0
    BY <1>2, <1>3, <1>5
  <2> QED
    BY <2>1, <1>1, SortColumnTypes DEF CompareAt, Compare
<1>6. CASE m < k
  <2>1. CompareAt(l, r, m) = 0
    BY <1>1, <1>3, <1>6
  <2> QED
    BY <2>1, <1>2, SortColumnTypes DEF CompareAt, Compare
<1> QED
  BY <1>3, <1>4, <1>5, <1>6

LEMMA BeforeIsWeakOrder ==
    ASSUME NEW l \in Row, NEW m \in Row, NEW r \in Row, RowComesBefore(l, r)
    PROVE  RowComesBefore(l, m) \/ RowComesBefore(m, r)
<1> DEFINE Decides(a, b, k) ==
        IF sort_columns[k].order = "ASC" THEN CompareAt(a, b, k) < 0
                                         ELSE CompareAt(a, b, k) > 0
           T == {j \in DOMAIN sort_columns :
                    CompareAt(l, m, j) # 0 \/ CompareAt(m, r, j) # 0}
<1>1. PICK k \in DOMAIN sort_columns :
          Decides(l, r, k) /\ \A j \in 1 .. k - 1 : CompareAt(l, r, j) = 0
  BY DEF RowComesBefore
<1>2. k \in T
  BY <1>1, SortColumnTypes DEF CompareAt, Compare
<1>3. PICK d \in T : \A j \in T : ~(j < d)
  <2>1. T \subseteq Nat /\ T # {}
    BY <1>2, SortColumnsNat
  <2> HIDE DEF T
  <2>2. \E x \in T : \A y \in T : ~(<<y, x>> \in OpToRel(<, Nat))
    BY <2>1, NatLessThanWellFounded, WFMin
  <2> QED
    BY <2>1, <2>2 DEF OpToRel
<1>4. d \in DOMAIN sort_columns /\ d \in Nat /\ k \in Nat /\ d <= k /\ d >= 1
  BY <1>2, <1>3, SortKeysAssumption
<1>5. \A j \in 1 .. d - 1 : j \in DOMAIN sort_columns /\ j \notin T
  BY <1>3, <1>4, SortKeysAssumption
<1>6. \A j \in 1 .. d - 1 : CompareAt(l, m, j) = 0 /\ CompareAt(m, r, j) = 0
  BY <1>5
<1>7. Decides(l, m, d) \/ Decides(m, r, d)
  <2>1. CASE d = k
    BY <1>1, <1>4, <2>1, SortColumnTypes DEF CompareAt, Compare
  <2>2. CASE d < k
    <3>1. CompareAt(l, r, d) = 0
      BY <1>1, <1>4, <2>2
    <3> QED
      BY <3>1, <1>3, <1>4, SortColumnTypes DEF CompareAt, Compare
  <2> QED
    BY <1>4, <2>1, <2>2
<1> QED
  BY <1>4, <1>6, <1>7 DEF RowComesBefore

-----------------------------------------------------------------------------
(* What the steps of the loop share.                                         *)

LEMMA BeforeOnInput ==
    TopKTypeOK =>
        \A i, j \in 1 .. Len(input) : Before(i, j) =>
            /\ ~Before(j, i)
            /\ \A m \in 1 .. Len(input) : Before(i, m) \/ Before(m, j)
<1> SUFFICES ASSUME TopKTypeOK,
                    NEW i \in 1 .. Len(input), NEW j \in 1 .. Len(input),
                    Before(i, j)
             PROVE  /\ ~Before(j, i)
                    /\ \A m \in 1 .. Len(input) : Before(i, m) \/ Before(m, j)
  OBVIOUS
<1>1. \A n \in 1 .. Len(input) : input[n] \in Row
  BY DEF TopKTypeOK
<1> QED
  BY <1>1, BeforeIsAsymmetric, BeforeIsWeakOrder DEF Before

LEMMA HeapIsFinite ==
    ASSUME TopKTypeOK
    PROVE  /\ IsFiniteSet(heap) /\ Cardinality(heap) \in Nat
           /\ cursor \in Nat /\ cursor + 1 \notin heap
           /\ heap = 1 .. cursor \/ Cardinality(heap) < cursor
<1>1. cursor \in Nat /\ heap \in SUBSET (1 .. cursor)
  BY DEF TopKTypeOK
<1>2. IsFiniteSet(1 .. cursor) /\ Cardinality(1 .. cursor) = cursor
  BY <1>1, FS_Interval
<1>3. /\ IsFiniteSet(heap) /\ Cardinality(heap) <= cursor
      /\ cursor = Cardinality(heap) => 1 .. cursor = heap
  BY <1>1, <1>2, FS_Subset
<1>4. Cardinality(heap) \in Nat
  BY <1>3, FS_CardinalityType
<1> QED
  BY <1>1, <1>3, <1>4

-----------------------------------------------------------------------------
(* One lemma per step of the loop that touches the heap.                     *)

LEMMA PushKeeps == TopKInv /\ Push => TopKInv'
<1> SUFFICES ASSUME TopKInv, Push PROVE TopKInv'
  OBVIOUS
<1>0. TopKTypeOK /\ LoopStartsFresh /\ HeapHoldsFirst /\ k_limit \in Nat
  BY DEF TopKInv, TopKTypeOK
<1>1. /\ tpc = "rows" /\ cursor < Len(input) /\ Cardinality(heap) < k_limit
      /\ heap' = heap \cup {cursor + 1} /\ cursor' = cursor + 1
      /\ UNCHANGED <<k_limit, done, tpc, input, result>>
  BY DEF Push
<1>2. (TopKTypeOK /\ LoopStartsFresh /\ ResultIsFirstRows)'
  BY <1>0, <1>1 DEF TopKTypeOK, LoopStartsFresh, ResultIsFirstRows
<1>3. Cardinality(heap') = Cardinality(heap) + 1
  BY <1>0, <1>1, HeapIsFinite, FS_AddElement
<1>4. heap = 1 .. cursor /\ Cardinality(heap) = cursor
  BY <1>0, <1>1, HeapIsFinite DEF HeapHoldsFirst, Kept
<1>5. HeapHoldsFirst'
  <2>1. heap' = 1 .. cursor'
    BY <1>0, <1>1, <1>4, HeapIsFinite
  <2>2. Cardinality(heap') = Kept'
    BY <1>0, <1>1, <1>3, <1>4, HeapIsFinite DEF Kept
  <2> QED
    BY <2>1, <2>2 DEF HeapHoldsFirst
<1> QED
  BY <1>2, <1>5 DEF TopKInv

LEMMA ReplaceKeeps == TopKInv /\ Replace => TopKInv'
<1> SUFFICES ASSUME TopKInv, Replace PROVE TopKInv'
  OBVIOUS
<1>0. TopKTypeOK /\ LoopStartsFresh /\ HeapHoldsFirst /\ k_limit \in Nat
  BY DEF TopKInv, TopKTypeOK
<1>1. /\ tpc = "rows" /\ cursor < Len(input) /\ Cardinality(heap) >= k_limit
      /\ cursor' = cursor + 1
      /\ UNCHANGED <<k_limit, done, tpc, input, result>>
  BY DEF Replace
<1>2. PICK top \in heap :
          /\ \A h \in heap : ~Before(top, h)
          /\ Before(cursor + 1, top)
          /\ heap' = (heap \ {top}) \cup {cursor + 1}
  BY DEF Replace, IsTop
<1>3. (TopKTypeOK /\ LoopStartsFresh /\ ResultIsFirstRows)'
  BY <1>0, <1>1, <1>2 DEF TopKTypeOK, LoopStartsFresh, ResultIsFirstRows
<1>4. Cardinality(heap') = Cardinality(heap)
  <2> DEFINE others == heap \ {top}
  <2>1. IsFiniteSet(others) /\ Cardinality(others) = Cardinality(heap) - 1
    BY <1>0, HeapIsFinite, FS_RemoveElement
  <2>2. cursor + 1 \notin others
    BY <1>0, HeapIsFinite
  <2>3. heap' = others \cup {cursor + 1}
    BY <1>2
  <2> HIDE DEF others
  <2>4. Cardinality(others \cup {cursor + 1}) = Cardinality(others) + 1
    BY <2>1, <2>2, FS_AddElement
  <2> QED
    BY <1>0, <2>1, <2>3, <2>4, HeapIsFinite
<1>5. Cardinality(heap') = Kept'
  BY <1>0, <1>1, <1>4, HeapIsFinite DEF HeapHoldsFirst, Kept
<1>6. ASSUME NEW h \in heap', NEW j \in (1 .. cursor') \ heap'
      PROVE  ~Before(j, h)
  <2>1. /\ heap \subseteq 1 .. Len(input) /\ cursor + 1 \in 1 .. Len(input)
        /\ j \in 1 .. Len(input)
        /\ j = top \/ j \in (1 .. cursor) \ heap
    BY <1>0, <1>1, <1>2 DEF TopKTypeOK
  <2>2. \A n \in (1 .. cursor) \ heap : \A m \in heap : ~Before(n, m)
    BY <1>0, <1>1 DEF HeapHoldsFirst
  <2>3. ~Before(j, top)
    BY <1>0, <1>2, <2>1, <2>2
  <2>4. CASE h = cursor + 1
    <3>1. top \in 1 .. Len(input) /\ ~Before(top, cursor + 1)
      BY <1>0, <1>2, <2>1, BeforeOnInput
    <3>2. SUFFICES ASSUME Before(j, cursor + 1) PROVE FALSE
      BY <2>4
    <3>3. Before(j, top) \/ Before(top, cursor + 1)
      <4>1. cursor \in Nat /\ Len(input) \in Nat
        BY <1>0 DEF TopKTypeOK
      <4> QED
        BY <4>1, <1>0, <2>1, <3>1, <3>2, BeforeOnInput
    <3> QED
      BY <2>3, <3>1, <3>3
  <2>5. CASE h \in heap
    BY <1>2, <2>1, <2>2, <2>5
  <2> QED
    BY <1>2, <2>4, <2>5
<1>7. HeapHoldsFirst'
  BY <1>1, <1>5, <1>6 DEF HeapHoldsFirst, Before
<1> QED
  BY <1>3, <1>7 DEF TopKInv

LEMMA PassOverKeeps == TopKInv /\ PassOver => TopKInv'
<1> SUFFICES ASSUME TopKInv, PassOver PROVE TopKInv'
  OBVIOUS
<1>0. TopKTypeOK /\ LoopStartsFresh /\ HeapHoldsFirst /\ k_limit \in Nat
  BY DEF TopKInv, TopKTypeOK
<1>1. /\ tpc = "rows" /\ cursor < Len(input) /\ Cardinality(heap) >= k_limit
      /\ cursor' = cursor + 1
      /\ UNCHANGED <<k_limit, done, tpc, input, heap, result>>
  BY DEF PassOver
<1>2. PICK top \in heap :
          (\A h \in heap : ~Before(top, h)) /\ ~Before(cursor + 1, top)
  BY DEF PassOver, IsTop
<1>3. (TopKTypeOK /\ LoopStartsFresh /\ ResultIsFirstRows)'
  BY <1>0, <1>1 DEF TopKTypeOK, LoopStartsFresh, ResultIsFirstRows
<1>4. Cardinality(heap) = Kept'
  BY <1>0, <1>1, HeapIsFinite DEF HeapHoldsFirst, Kept
<1>5. ASSUME NEW h \in heap, NEW j \in (1 .. cursor') \ heap
      PROVE  ~Before(j, h)
  <2>1. /\ heap \subseteq 1 .. Len(input) /\ cursor + 1 \in 1 .. Len(input)
        /\ j = cursor + 1 \/ j \in (1 .. cursor) \ heap
    BY <1>0, <1>1 DEF TopKTypeOK
  <2>2. CASE j = cursor + 1
    BY <1>0, <1>2, <2>1, <2>2, BeforeOnInput
  <2>3. CASE j \in (1 .. cursor) \ heap
    BY <1>0, <1>1, <2>3 DEF HeapHoldsFirst
  <2> QED
    BY <2>1, <2>2, <2>3
<1>6. HeapHoldsFirst'
  BY <1>1, <1>4, <1>5 DEF HeapHoldsFirst, Before
<1> QED
  BY <1>3, <1>6 DEF TopKInv

LEMMA SortKeeps == TopKInv /\ TopKChildEnds => TopKInv'
<1> SUFFICES ASSUME TopKInv, TopKChildEnds PROVE TopKInv'
  OBVIOUS
<1>0. /\ TopKTypeOK /\ LoopStartsFresh /\ HeapHoldsFirst
      /\ k_limit \in Nat /\ cursor \in Nat
  BY DEF TopKInv, TopKTypeOK
<1>1. CASE tpc = "first" /\ tpc' = "none"
           /\ UNCHANGED <<k_limit, done, input, cursor, heap, result>>
  BY <1>0, <1>1 DEF TopKInv, TopKTypeOK, LoopStartsFresh, HeapHoldsFirst,
                    ResultIsFirstRows
<1>2. CASE /\ tpc = "more" /\ tpc' = "sorted"
           /\ result' \in SortedOrders(heap) /\ heap' = {}
           /\ UNCHANGED <<k_limit, done, input, cursor>>
  <2>1. /\ Cardinality(heap) = Kept /\ cursor = Len(input) /\ Kept \in Nat
        /\ \A h \in heap : \A j \in (1 .. cursor) \ heap : ~Before(j, h)
    BY <1>0, <1>2 DEF HeapHoldsFirst, LoopStartsFresh, Kept
  <2>2. /\ result' \in [1 .. Kept -> heap]
        /\ \A n \in heap : \E i \in 1 .. Kept : result'[i] = n
        /\ \A i, j \in 1 .. Kept : i < j => ~Before(result'[j], result'[i])
    BY <1>2, <2>1 DEF SortedOrders
  <2>3. /\ result' \in Seq(heap) /\ DOMAIN result' = 1 .. Kept
        /\ Len(result') = Kept
    BY <2>1, <2>2
  <2>4. \A i, j \in 1 .. Kept : result'[i] = result'[j] => i = j
    <3>1. IsFiniteSet(1 .. Kept) /\ Cardinality(1 .. Kept) = Cardinality(heap)
      BY <2>1, FS_Interval
    <3>2. result' \in Surjection(1 .. Kept, heap)
      BY <2>2 DEF Surjection
    <3>3. result' \in Injection(1 .. Kept, heap)
      BY <3>1, <3>2, FS_SurjSameCardinalityImpliesInj
    <3> QED
      BY <3>3 DEF Injection, IsInjective
  <2>5. {result'[n] : n \in DOMAIN result'} = heap
    BY <2>2, <2>3
  <2>6. Kept' = Kept
    BY <1>2 DEF Kept
  <2>7. ResultIsFirstRows'
    BY <1>2, <2>1, <2>2, <2>3, <2>4, <2>5, <2>6 DEF ResultIsFirstRows, Before
  <2>8. (TopKTypeOK /\ LoopStartsFresh /\ HeapHoldsFirst)'
    <3>0. heap \subseteq Nat
      BY <1>0 DEF TopKTypeOK
    <3>1. result' \in Seq(Nat)
      <4>1. Kept \in Nat /\ result' \in [1 .. Kept -> Nat]
        BY <2>1, <2>2, <3>0
      <4> QED
        BY <4>1
    <3> QED
      BY <1>0, <1>2, <3>1 DEF TopKTypeOK, LoopStartsFresh, HeapHoldsFirst
  <2> QED
    BY <2>7, <2>8 DEF TopKInv
<1> QED
  BY <1>1, <1>2 DEF TopKChildEnds

LEMMA BatchKeeps ==
    ASSUME TopKInv, NEW rows \in Seq(Row), TopKBatch(rows)
    PROVE  TopKInv'
<1>0. /\ TopKTypeOK /\ LoopStartsFresh /\ HeapHoldsFirst
      /\ k_limit \in Nat /\ cursor \in Nat /\ input \in Seq(Row)
      /\ cursor <= Len(input) /\ heap \subseteq 1 .. cursor
  BY DEF TopKInv, TopKTypeOK
<1>1. /\ tpc \in {"first", "more"} /\ tpc' = "rows" /\ input' = input \o rows
      /\ UNCHANGED <<k_limit, done, cursor, heap, result>>
  BY DEF TopKBatch
<1>2. /\ input' \in Seq(Row) /\ Len(input) <= Len(input')
      /\ \A i \in 1 .. cursor : input'[i] = input[i]
  BY <1>0, <1>1
<1>3. (TopKTypeOK /\ LoopStartsFresh /\ ResultIsFirstRows)'
  BY <1>0, <1>1, <1>2 DEF TopKTypeOK, LoopStartsFresh, ResultIsFirstRows
<1>4. HeapHoldsFirst'
  <2>1. CASE tpc = "first"
    <3>1. cursor = 0 /\ heap = {} /\ Cardinality(heap) = 0
      BY <1>0, <2>1, FS_EmptySet DEF LoopStartsFresh
    <3> QED
      BY <1>0, <1>1, <3>1 DEF HeapHoldsFirst, Kept
  <2>2. CASE tpc = "more"
    <3>1. \A i, j \in 1 .. cursor : Before(i, j)' <=> Before(i, j)
      BY <1>2 DEF Before, RowComesBefore, CompareAt
    <3> QED
      BY <1>0, <1>1, <2>2, <3>1 DEF HeapHoldsFirst, Kept
  <2> QED
    BY <1>1, <2>1, <2>2
<1> QED
  BY <1>3, <1>4 DEF TopKInv

LEMMA TopKInitInv == TopKInit /\ k_limit \in Nat => TopKInv
<1> SUFFICES ASSUME TopKInit, k_limit \in Nat PROVE TopKInv
  OBVIOUS
<1>1. TopKTypeOK
  <2>1. input \in Seq(Row) /\ Len(input) = 0 /\ result \in Seq(Nat)
    BY DEF TopKInit
  <2> QED
    BY <2>1, 0 \in 0 .. 0 DEF TopKInit, TopKTypeOK
<1>2. LoopStartsFresh /\ HeapHoldsFirst /\ ResultIsFirstRows
  BY DEF TopKInit, LoopStartsFresh, HeapHoldsFirst, ResultIsFirstRows
<1> QED
  BY <1>1, <1>2 DEF TopKInv

LEMMA TopKNextInv == TopKInv /\ [TopKOpNext]_topkVars => TopKInv'
<1> SUFFICES ASSUME TopKInv, [TopKOpNext]_topkVars PROVE TopKInv'
  OBVIOUS
<1>1. CASE TopKNext
  <2>1. TopKTypeOK'
    BY <1>1 DEF TopKInv, TopKTypeOK, TopKNext
  <2>2. (LoopStartsFresh /\ HeapHoldsFirst /\ ResultIsFirstRows)'
    BY <1>1 DEF TopKInv, TopKTypeOK, TopKNext, LoopStartsFresh,
                HeapHoldsFirst, ResultIsFirstRows
  <2> QED
    BY <2>1, <2>2 DEF TopKInv
<1>2. CASE BatchDone
  BY <1>2 DEF TopKInv, TopKTypeOK, LoopStartsFresh, HeapHoldsFirst,
              ResultIsFirstRows, BatchDone, Kept, Before
<1>3. CASE TopKReturns
  BY <1>3 DEF TopKInv, TopKTypeOK, LoopStartsFresh, HeapHoldsFirst,
              ResultIsFirstRows, TopKReturns
<1>4. CASE UNCHANGED topkVars
  BY <1>4 DEF TopKInv, TopKTypeOK, LoopStartsFresh, HeapHoldsFirst,
              ResultIsFirstRows, topkVars, Kept, Before
<1> QED
  BY <1>1, <1>2, <1>3, <1>4, PushKeeps, ReplaceKeeps, PassOverKeeps,
     SortKeeps, BatchKeeps DEF TopKOpNext, TopKStep

-----------------------------------------------------------------------------
(* A set of rows can be sorted: there is always a result for std::sort.      *)

\* The rows val gives the elements of the order are in the order of the keys.
Sorted(val, order) ==
    \A i, j \in DOMAIN order :
        i < j => ~RowComesBefore(val[order[j]], val[order[i]])

\* A set that is not empty and whose smaller subsets can be sorted has a last
\* element: the one left out of a sorted rest, or the last of that rest.
LEMMA LastExists ==
    ASSUME NEW A, NEW val \in [A -> Row], NEW x \in A, NEW n \in Nat,
           NEW order \in Bijection(1 .. n, A \ {x}), Sorted(val, order)
    PROVE  \E m \in A : \A a \in A : ~RowComesBefore(val[m], val[a])
<1>0. \A a \in A : val[a] \in Row
  OBVIOUS
<1>1. /\ order \in [1 .. n -> A \ {x}]
      /\ \A a \in A \ {x} : \E i \in 1 .. n : order[i] = a
  BY DEF Bijection, Injection, Surjection
<1>2. CASE n = 0 \/ (n > 0 /\ ~RowComesBefore(val[x], val[order[n]]))
  <2>1. \A a \in A \ {x} : n > 0 /\ \E i \in 1 .. n : order[i] = a
    BY <1>1
  <2>2. ASSUME NEW a \in A, RowComesBefore(val[x], val[a]) PROVE FALSE
    <3>1. a # x
      BY <1>0, <2>2, BeforeIsAsymmetric
    <3>2. PICK i \in 1 .. n : order[i] = a
      BY <1>1, <3>1
    <3>3. order[n] \in A /\ ~RowComesBefore(val[x], val[order[n]])
      BY <1>1, <1>2, <3>2
    <3>4. RowComesBefore(val[order[n]], val[a])
      BY <1>0, <2>2, <3>3, BeforeIsWeakOrder
    <3>5. i # n
      BY <3>2, <3>3, <2>2
    <3> QED
      BY <1>1, <3>2, <3>4, <3>5 DEF Sorted
  <2> QED
    BY <2>2
<1>3. CASE n > 0 /\ RowComesBefore(val[x], val[order[n]])
  <2>1. order[n] \in A /\ order[n] # x
    BY <1>1, <1>3
  <2>2. ASSUME NEW a \in A, RowComesBefore(val[order[n]], val[a]) PROVE FALSE
    <3>1. a # x
      BY <1>0, <1>3, <2>1, <2>2, BeforeIsAsymmetric
    <3>2. PICK i \in 1 .. n : order[i] = a
      BY <1>1, <3>1
    <3>3. i # n
      BY <1>0, <2>1, <2>2, <3>2, BeforeIsAsymmetric
    <3> QED
      BY <1>1, <1>3, <2>2, <3>2, <3>3 DEF Sorted
  <2> QED
    BY <2>1, <2>2
<1> QED
  BY <1>2, <1>3

LEMMA RowsCanBeSorted ==
    ASSUME NEW S, IsFiniteSet(S), NEW val \in [S -> Row]
    PROVE  \E order \in Bijection(1 .. Cardinality(S), S) : Sorted(val, order)
<1> DEFINE Sortable(A) ==
        \E order \in Bijection(1 .. Cardinality(A), A) : Sorted(val, order)
           Bad == {n \in Nat : \E A \in SUBSET S : Cardinality(A) = n /\ ~Sortable(A)}
<1>1. SUFFICES Bad = {}
  <2>1. Cardinality(S) \in Nat
    BY FS_CardinalityType
  <2> QED
    BY <2>1
<1>2. SUFFICES ASSUME Bad # {} PROVE FALSE
  OBVIOUS
<1>3. PICK n \in Bad : \A k \in Bad : ~(k < n)
  <2>1. Bad \subseteq Nat
    OBVIOUS
  <2> HIDE DEF Bad
  <2>2. \E x \in Bad : \A y \in Bad : ~(<<y, x>> \in OpToRel(<, Nat))
    BY <1>2, <2>1, NatLessThanWellFounded, WFMin
  <2> QED
    BY <2>1, <2>2 DEF OpToRel
<1>4. PICK A \in SUBSET S : Cardinality(A) = n /\ ~Sortable(A)
  BY <1>3
<1>5. /\ n \in Nat /\ IsFiniteSet(A) /\ val \in [S -> Row]
      /\ \A a \in A : val[a] \in Row
  BY <1>3, <1>4, FS_Subset
<1>6. \A x \in A : /\ Sortable(A \ {x})
                   /\ Cardinality(A \ {x}) = n - 1 /\ n - 1 \in Nat
  <2> SUFFICES ASSUME NEW x \in A
               PROVE  /\ Sortable(A \ {x})
                      /\ Cardinality(A \ {x}) = n - 1 /\ n - 1 \in Nat
    OBVIOUS
  <2>1. IsFiniteSet(A \ {x}) /\ Cardinality(A \ {x}) = n - 1
    BY <1>4, <1>5, FS_RemoveElement
  <2>2. n - 1 \in Nat
    BY <2>1, FS_CardinalityType
  <2>3. n - 1 \notin Bad
    BY <1>3, <2>2
  <2> QED
    BY <2>1, <2>2, <2>3
<1>7. CASE A = {}
  <2>1. n = 0
    BY <1>4, <1>7, FS_EmptySet
  <2>2. <<>> \in Bijection(1 .. 0, {})
    BY DEF Bijection, Injection, Surjection, IsInjective
  <2>3. Sorted(val, <<>>)
    BY DEF Sorted
  <2> QED
    BY <1>4, <1>7, <2>1, <2>2, <2>3
<1>8. CASE A # {}
  <2>1. PICK x \in A : TRUE
    BY <1>8
  <2>2. PICK m \in A : \A a \in A : ~RowComesBefore(val[m], val[a])
    <3>1. PICK o \in Bijection(1 .. n - 1, A \ {x}) : Sorted(val, o)
      BY <1>6
    <3> DEFINE v == [a \in A |-> val[a]]
    <3>2. v \in [A -> Row] /\ \A a \in A : v[a] = val[a]
      BY <1>5
    <3>3. Sorted(v, o)
      <4>1. \A i \in DOMAIN o : o[i] \in A
        BY <3>1 DEF Bijection, Injection
      <4> QED
        BY <3>1, <3>2, <4>1 DEF Sorted
    <3> HIDE DEF v
    <3>4. n - 1 \in Nat
      BY <1>6
    <3>5. \E m \in A : \A a \in A : ~RowComesBefore(v[m], v[a])
      BY <3>1, <3>2, <3>3, <3>4, LastExists
    <3> QED
      BY <3>2, <3>5
  <2>3. PICK o \in Bijection(1 .. n - 1, A \ {m}) : Sorted(val, o)
    BY <1>6
  <2>4. /\ o \in [1 .. n - 1 -> A \ {m}]
        /\ \A i, j \in 1 .. n - 1 : o[i] = o[j] => i = j
        /\ \A a \in A \ {m} : \E i \in 1 .. n - 1 : o[i] = a
    BY <2>3 DEF Bijection, Injection, Surjection, IsInjective
  <2> DEFINE order == [i \in 1 .. n |-> IF i = n THEN m ELSE o[i]]
  <2>5. /\ n \in 1 .. n /\ order[n] = m
        /\ \A i \in 1 .. n : i # n => i \in 1 .. n - 1 /\ order[i] = o[i]
    <3>1. n - 1 \in Nat /\ n \in Nat
      BY <1>5, <1>6
    <3> QED
      BY <3>1
  <2>6. order \in [1 .. n -> A]
    BY <2>4, <2>5
  <2>7. DOMAIN order = 1 .. n
    OBVIOUS
  <2> HIDE DEF order
  <2>8. \A i, j \in 1 .. n : order[i] = order[j] => i = j
    BY <2>4, <2>5
  <2>9. \A a \in A : \E i \in 1 .. n : order[i] = a
    BY <2>4, <2>5, <1>5
  <2>10. order \in Bijection(1 .. n, A)
    BY <2>6, <2>8, <2>9 DEF Bijection, Injection, Surjection, IsInjective
  <2>11. Sorted(val, order)
    <3> SUFFICES ASSUME NEW i \in 1 .. n, NEW j \in 1 .. n, i < j
                 PROVE  ~RowComesBefore(val[order[j]], val[order[i]])
      BY <2>7 DEF Sorted
    <3>1. i # n /\ order[i] = o[i] /\ i \in 1 .. n - 1 /\ o[i] \in A
      BY <1>5, <2>4, <2>5
    <3>2. CASE j = n
      BY <2>2, <2>5, <3>1, <3>2
    <3>3. CASE j # n
      BY <2>3, <2>4, <2>5, <3>1, <3>3 DEF Sorted
    <3> QED
      BY <3>2, <3>3
  <2> QED
    BY <1>4, <2>10, <2>11
<1> QED
  BY <1>7, <1>8

\* Two disjoint enumerations, one after the other, enumerate the union.
LEMMA BijectionsJoin ==
    ASSUME NEW n \in Nat, NEW m \in Nat, NEW A, NEW B, A \cap B = {},
           NEW f \in Bijection(1 .. n, A), NEW g \in Bijection(1 .. m, B),
           NEW h, h = [i \in 1 .. n + m |-> IF i <= n THEN f[i] ELSE g[i - n]]
    PROVE  h \in Bijection(1 .. n + m, A \cup B)
<1>1. /\ f \in [1 .. n -> A] /\ g \in [1 .. m -> B]
      /\ \A i, j \in 1 .. n : f[i] = f[j] => i = j
      /\ \A i, j \in 1 .. m : g[i] = g[j] => i = j
      /\ \A a \in A : \E i \in 1 .. n : f[i] = a
      /\ \A b \in B : \E i \in 1 .. m : g[i] = b
  BY DEF Bijection, Injection, Surjection, IsInjective
<1>2. /\ \A i \in 1 .. n : i \in 1 .. n + m /\ h[i] = f[i]
      /\ \A i \in 1 .. m : i + n \in 1 .. n + m /\ h[i + n] = g[i]
      /\ \A i \in 1 .. n + m :
             i \in 1 .. n \/ (i - n \in 1 .. m /\ h[i] = g[i - n])
  OBVIOUS
<1>3. h = [i \in 1 .. n + m |-> h[i]]
  OBVIOUS
<1>4. \A i \in 1 .. n + m : /\ i \in 1 .. n => h[i] \in A
                            /\ i \notin 1 .. n => h[i] \in B
  BY <1>1, <1>2
<1>5. ASSUME NEW i \in 1 .. n + m, NEW j \in 1 .. n + m, h[i] = h[j]
      PROVE  i = j
  <2>1. i \in 1 .. n <=> j \in 1 .. n
    BY <1>4, <1>5
  <2>2. CASE i \in 1 .. n
    BY <1>1, <1>2, <1>5, <2>1, <2>2
  <2>3. CASE i \notin 1 .. n
    <3>1. g[i - n] = g[j - n] /\ i - n \in 1 .. m /\ j - n \in 1 .. m
      BY <1>2, <1>5, <2>1, <2>3
    <3>2. i - n = j - n
      BY <1>1, <3>1
    <3> QED
      BY <3>2
  <2> QED
    BY <2>2, <2>3
<1>6. ASSUME NEW a \in A \cup B PROVE \E i \in 1 .. n + m : h[i] = a
  <2>1. CASE a \in A
    BY <1>1, <1>2, <2>1
  <2>2. CASE a \in B
    <3>1. PICK i \in 1 .. m : g[i] = a
      BY <1>1, <2>2
    <3> QED
      BY <1>2, <3>1
  <2> QED
    BY <2>1, <2>2
<1>7. h \in [1 .. n + m -> A \cup B]
  BY <1>3, <1>4
<1> QED
  BY <1>5, <1>6, <1>7 DEF Bijection, Injection, Surjection, IsInjective

\* A sorted choice of rows that no other row comes before can be completed to a
\* sorted order of all of them.
LEMMA FirstRowsExtend ==
    ASSUME NEW n \in Nat, NEW k \in Nat, NEW val \in [1 .. n -> Row],
           NEW first \in Injection(1 .. k, 1 .. n), Sorted(val, first),
           \A i \in 1 .. k : \A j \in 1 .. n :
               \/ \E m \in 1 .. k : first[m] = j
               \/ ~RowComesBefore(val[j], val[first[i]])
    PROVE  \E order \in Bijection(1 .. n, 1 .. n) :
               Sorted(val, order) /\ \A i \in 1 .. k : order[i] = first[i]
<1> DEFINE Chosen == {first[m] : m \in 1 .. k}
           Rest == (1 .. n) \ Chosen
<1>1. /\ first \in [1 .. k -> 1 .. n]
      /\ \A i, j \in 1 .. k : first[i] = first[j] => i = j
  BY DEF Injection, IsInjective
<1>2. IsFiniteSet(1 .. n) /\ Cardinality(1 .. n) = n
  BY FS_Interval
<1>3. first \in Bijection(1 .. k, Chosen) /\ Cardinality(Chosen) = k
  <2>1. first \in [1 .. k -> Chosen]
    BY <1>1
  <2>2. first \in Bijection(1 .. k, Chosen)
    BY <1>1, <2>1 DEF Bijection, Injection, Surjection, IsInjective
  <2> HIDE DEF Chosen
  <2> QED
    BY <2>2, FS_CountingElements DEF ExistsBijection
<1>4. Chosen \subseteq 1 .. n
  BY <1>1
<1>5. IsFiniteSet(Rest) /\ Cardinality(Rest) = n - k
  <2>1. (1 .. n) \cap Chosen = Chosen
    BY <1>4
  <2> HIDE DEF Chosen
  <2>2. Cardinality(Rest) = Cardinality(1 .. n) - Cardinality((1 .. n) \cap Chosen)
    BY <1>2, FS_Difference
  <2>3. IsFiniteSet(Rest)
    BY <1>2, FS_Difference
  <2> QED
    BY <1>2, <1>3, <2>1, <2>2, <2>3
<1>6. n - k \in Nat
  BY <1>5, FS_CardinalityType
<1>7. PICK rest \in Bijection(1 .. n - k, Rest) : Sorted(val, rest)
  <2> DEFINE v == [j \in Rest |-> val[j]]
  <2>1. v \in [Rest -> Row] /\ \A j \in Rest : v[j] = val[j]
    OBVIOUS
  <2> HIDE DEF v, Rest
  <2>2. PICK r \in Bijection(1 .. n - k, Rest) : Sorted(v, r)
    BY <1>5, <2>1, RowsCanBeSorted
  <2>3. \A i \in DOMAIN r : r[i] \in Rest
    BY <2>2 DEF Bijection, Injection
  <2>4. Sorted(val, r)
    BY <2>1, <2>2, <2>3 DEF Sorted
  <2> QED
    BY <2>2, <2>4
<1> DEFINE order == [i \in 1 .. n |-> IF i <= k THEN first[i] ELSE rest[i - k]]
<1>8. order \in Bijection(1 .. n, 1 .. n)
  <2> DEFINE m == n - k
  <2>1. /\ Chosen \cap Rest = {} /\ Chosen \cup Rest = 1 .. n
        /\ m \in Nat /\ k + m = n /\ rest \in Bijection(1 .. m, Rest)
    BY <1>4, <1>6, <1>7
  <2>2. order = [i \in 1 .. k + m |-> IF i <= k THEN first[i] ELSE rest[i - k]]
    BY <2>1
  <2> HIDE DEF Chosen, Rest, order, m
  <2>3. order \in Bijection(1 .. k + m, Chosen \cup Rest)
    BY <1>3, <2>1, <2>2, BijectionsJoin
  <2> QED
    BY <2>1, <2>3
<1>9. /\ DOMAIN order = 1 .. n /\ DOMAIN rest = 1 .. n - k
      /\ \A i \in 1 .. k : i \in 1 .. n /\ order[i] = first[i]
      /\ \A i \in (1 .. n) \ (1 .. k) :
             /\ i - k \in 1 .. n - k /\ order[i] = rest[i - k]
             /\ rest[i - k] \in Rest
  <2>1. rest \in [1 .. n - k -> Rest]
    BY <1>7 DEF Bijection, Injection
  <2> HIDE DEF Rest
  <2> QED
    BY <1>6, <2>1
<1> HIDE DEF order
<1>10. Sorted(val, order)
  <2> SUFFICES ASSUME NEW i \in 1 .. n, NEW j \in 1 .. n, i < j
               PROVE  ~RowComesBefore(val[order[j]], val[order[i]])
    BY <1>9 DEF Sorted
  <2>1. CASE j \in 1 .. k
    <3>1. i \in 1 .. k
      BY <2>1
    <3> QED
      BY <1>1, <1>9, <2>1, <3>1 DEF Sorted
  <2>2. CASE i \in 1 .. k /\ j \notin 1 .. k
    <3>1. order[i] = first[i] /\ order[j] \in Rest
      BY <1>9, <2>2
    <3> QED
      BY <2>2, <3>1
  <2>3. CASE i \notin 1 .. k
    <3>1. j \notin 1 .. k
      BY <2>3
    <3>2. i - k \in DOMAIN rest /\ j - k \in DOMAIN rest /\ i - k < j - k
      BY <1>9, <2>3, <3>1
    <3>3. ~RowComesBefore(val[rest[j - k]], val[rest[i - k]])
      BY <1>7, <3>2 DEF Sorted
    <3>4. order[i] = rest[i - k] /\ order[j] = rest[j - k]
      BY <1>9, <2>3, <3>1
    <3> QED
      BY <3>3, <3>4
  <2> QED
    BY <2>1, <2>2, <2>3
<1> QED
  BY <1>8, <1>9, <1>10

-----------------------------------------------------------------------------
(* The theorems.                                                             *)

\* TopKInv is inductive: the heap and the batch returned are right after every
\* step of the TopKOperator, for every limit, every list of sort keys, every
\* input and every way of cutting it into batches.
THEOREM TopKInvariant == TopKSpec => []TopKInv
<1> QED
  BY TopKInitInv, TopKNextInv, PTL DEF TopKSpec

\* No row the operator has let go of comes before a row it still holds.
THEOREM TopKHoldsFirst == TopKSpec => []HeapHoldsFirst
<1>1. TopKInv => HeapHoldsFirst
  BY DEF TopKInv
<1> QED
  BY <1>1, TopKInvariant, PTL

\* The batch it returns is sorted and holds the first rows of the whole input.
THEOREM TopKReturnsFirst == TopKSpec => []ResultIsFirstRows
<1>1. TopKInv => ResultIsFirstRows
  BY DEF TopKInv
<1> QED
  BY <1>1, TopKInvariant, PTL

-----------------------------------------------------------------------------
(* LIMIT and OFFSET.                                                         *)


\* A window grows by the rows that follow it.
LEMMA WindowGrows ==
    ASSUME NEW n \in Nat, NEW m \in Nat, NEW from \in Nat
    PROVE  [i \in 1 .. n |-> from + i] \o [i \in 1 .. m |-> from + n + i]
               = [i \in 1 .. n + m |-> from + i]
<1> DEFINE s == [i \in 1 .. n |-> from + i]
           t == [i \in 1 .. m |-> from + n + i]
           u == [i \in 1 .. n + m |-> from + i]
<1>1. s \in Seq(Nat) /\ Len(s) = n
  OBVIOUS
<1>2. t \in Seq(Nat) /\ Len(t) = m
  OBVIOUS
<1>3. u \in Seq(Nat) /\ Len(u) = n + m
  OBVIOUS
<1>4. s \o t \in Seq(Nat) /\ Len(s \o t) = n + m
  BY <1>1, <1>2
<1>5. \A i \in 1 .. n + m : (s \o t)[i] = u[i]
  BY <1>1, <1>2
<1> HIDE DEF s, t, u
<1>6. s \o t = u
  BY <1>3, <1>4, <1>5, SeqEqual
<1> QED
  BY <1>6 DEF s, t, u

LEMMA LimitInitInv == LimitInit => LimitInv
<1> SUFFICES ASSUME LimitInit PROVE LimitInv
  OBVIOUS
<1>1. <<>> = [i \in 1 .. 0 |-> offset + i]
  OBVIOUS
<1> QED
  BY <1>1, LimitAssumption
     DEF LimitInit, LimitInv, LimitTypeOK, SkippedCounts, OutputIsWindow,
         EndedMeansAll, PullingBelowLimit

\* One step of the operator, over a child that may return any number of rows.
LEMMA LimitStepInv ==
    ASSUME LimitInv, NEW n \in Nat,
           \/ LimitNext \/ SkipBatch(n) \/ ReturnRows(n) \/ LimitChildEnds
           \/ UNCHANGED limitVars
    PROVE  LimitInv'
<1> USE LimitAssumption
<1>0. /\ limit \in Nat /\ offset \in Nat /\ seen \in Nat
      /\ skipped \in Nat /\ returned \in Nat
  BY DEF LimitInv, LimitTypeOK
<1>1. CASE LimitNext
  BY <1>1, <1>0 DEF LimitNext, LimitInv, LimitTypeOK, SkippedCounts,
                    OutputIsWindow, EndedMeansAll, PullingBelowLimit
<1>2. CASE SkipBatch(n)
  BY <1>2, <1>0 DEF SkipBatch, LimitInv, LimitTypeOK, SkippedCounts,
                    OutputIsWindow, EndedMeansAll, PullingBelowLimit
<1>3. CASE ReturnRows(n)
  <2> DEFINE m == RowsToReturn(n - Start)
  <2>1. /\ lpc = "pulling" /\ lpc' = "idle"
        /\ skipped + n > offset /\ skipped' = offset
        /\ seen' = seen + n /\ returned' = returned + m
        /\ output' = output \o [i \in 1 .. m |-> seen + Start + i]
        /\ limit' = limit /\ offset' = offset
    BY <1>3, <1>0 DEF ReturnRows
  <2>2. /\ skipped <= offset /\ returned <= limit
        /\ skipped = IF seen < offset THEN seen ELSE offset
        /\ returned < limit => returned + skipped = seen
    BY DEF LimitInv, LimitTypeOK, SkippedCounts
  <2>3. returned < limit
    BY <2>1 DEF LimitInv, PullingBelowLimit
  <2>4. /\ m \in Nat /\ returned + m <= limit
        /\ returned + m < limit => m = n - (offset - skipped)
    BY <2>1, <2>2, <2>3, <1>0 DEF RowsToReturn, Start
  <2>5. seen + Start = offset + returned
    BY <2>2, <2>3, <1>0 DEF Start
  <2>6. output' = [i \in 1 .. returned + m |-> offset + i]
    <3>1. output' = [i \in 1 .. returned |-> offset + i]
                        \o [i \in 1 .. m |-> offset + returned + i]
      BY <2>1, <2>5 DEF LimitInv, OutputIsWindow
    <3> HIDE DEF m
    <3> QED
      BY <3>1, <2>4, <1>0, WindowGrows
  <2> HIDE DEF m
  <2>7. output' \in Seq(Nat)
    BY <2>6, <2>4, <1>0
  <2>8. (LimitTypeOK /\ OutputIsWindow)'
    BY <2>1, <2>4, <2>6, <2>7, <1>0 DEF LimitTypeOK, OutputIsWindow, LimitInv
  <2>9. (SkippedCounts /\ EndedMeansAll /\ PullingBelowLimit)'
    BY <2>1, <2>2, <2>3, <2>4, <1>0
       DEF SkippedCounts, EndedMeansAll, PullingBelowLimit
  <2> QED
    BY <2>8, <2>9 DEF LimitInv
<1>4. CASE LimitChildEnds
  BY <1>4, <1>0 DEF LimitChildEnds, LimitInv, LimitTypeOK, SkippedCounts,
                    OutputIsWindow, EndedMeansAll, PullingBelowLimit
<1>5. CASE UNCHANGED limitVars
  BY <1>5 DEF limitVars, LimitInv, LimitTypeOK, SkippedCounts,
              OutputIsWindow, EndedMeansAll, PullingBelowLimit
<1> QED
  BY <1>1, <1>2, <1>3, <1>4, <1>5

LEMMA LimitNextInv == LimitInv /\ [LimitOpNext]_limitVars => LimitInv'
<1> SUFFICES ASSUME LimitInv, [LimitOpNext]_limitVars PROVE LimitInv'
  OBVIOUS
<1>1. \A n \in 0 .. MaxRows - seen : n \in Nat
  BY DEF LimitInv, LimitTypeOK
<1>2. 0 \in Nat
  OBVIOUS
<1> QED
  BY <1>1, <1>2, LimitStepInv DEF LimitOpNext

\* LIMIT and OFFSET hand up exactly their window of the child's rows, in order.
THEOREM LimitInvariant == LimitOpSpec => []LimitInv
<1> QED
  BY LimitInitInv, LimitNextInv, PTL DEF LimitOpSpec

\* The rows handed up are those after the offset, none twice and none missing.
THEOREM LimitReturnsWindow == LimitOpSpec => []OutputIsWindow
<1>1. LimitInv => OutputIsWindow
  BY DEF LimitInv
<1> QED
  BY <1>1, LimitInvariant, PTL

\* The operator reports its end only when the window is full or the child's
\* rows end before it.
THEOREM LimitEndsInTime == LimitOpSpec => []EndedMeansAll
<1>1. LimitInv => EndedMeansAll
  BY DEF LimitInv
<1> QED
  BY <1>1, LimitInvariant, PTL

\* The child is pulled for no row once the limit is reached.
THEOREM LimitStopsPulling == LimitOpSpec => StopsPulling
<1>1. LimitInv /\ [LimitOpNext]_limitVars
          => [seen' # seen => returned < limit]_limitVars
  BY DEF LimitInv, PullingBelowLimit, LimitOpNext, LimitNext, SkipBatch,
         ReturnRows, LimitChildEnds, limitVars
<1> QED
  BY <1>1, LimitInvariant, PTL DEF LimitOpSpec, StopsPulling
=============================================================================
