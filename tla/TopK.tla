------------------------------- MODULE TopK -------------------------------
(***************************************************************************)
(* TopKOperator: ORDER BY with a limit.  One call drains the child,        *)
(* keeping the best limit_ rows seen so far in a heap whose top is the     *)
(* worst of them, and returns them sorted in one batch.                    *)
(*                                                                         *)
(* Rows are numbered in the order the child returns them.  Among rows that *)
(* neither comes before the other, the top of the heap and the place in    *)
(* the sorted result are the standard library's choice.                    *)
(***************************************************************************)
EXTENDS Table, FiniteSets

CONSTANT sort_columns  \* the sort keys: a column and an order each

ASSUME SortKeysAssumption ==
    sort_columns \in Seq([column : Column, order : {"ASC", "DESC"}])

-----------------------------------------------------------------------------
(* ORDER BY's comparison of two rows: the first sort column in which they    *)
(* differ decides.                                                           *)

\* scalar::Compare
Compare(l, r) == IF l = r THEN 0 ELSE IF l < r THEN -1 ELSE 1

CompareAt(lhs, rhs, k) ==
    Compare(lhs[sort_columns[k].column], rhs[sort_columns[k].column])

RowComesBefore(lhs, rhs) ==
    \E k \in DOMAIN sort_columns :
        /\ \A j \in 1 .. k - 1 : CompareAt(lhs, rhs, j) = 0
        /\ IF sort_columns[k].order = "ASC" THEN CompareAt(lhs, rhs, k) < 0
                                            ELSE CompareAt(lhs, rhs, k) > 0

-----------------------------------------------------------------------------
(* The operator.                                                             *)

VARIABLES
    k_limit,  \* limit_
    done,     \* done_
    tpc,      \* "idle"; in Next: "first" (the child is asked for its first
              \* batch), "rows", "more" (asked again); back from Next:
              \* "sorted" (a batch) or "none" (nullopt)
    input,    \* history: the rows the child has returned
    cursor,   \* how many of them the loop has looked at
    heap,     \* top_k: numbers of rows
    result    \* the numbers of the rows of the batch returned

topkVars == <<k_limit, done, tpc, input, cursor, heap, result>>

TopKInit ==
    /\ done = FALSE /\ tpc = "idle"
    /\ input = <<>> /\ cursor = 0 /\ heap = {}
    /\ result = <<>>

Before(i, j) == RowComesBefore(input[i], input[j])

TopKNext ==
    /\ tpc = "idle"
    /\ IF done \/ k_limit = 0
       THEN tpc' = "none" /\ UNCHANGED done
       ELSE tpc' = "first" /\ done' = TRUE
    /\ UNCHANGED <<k_limit, input, cursor, heap, result>>

TopKBatch(rows) ==
    /\ tpc \in {"first", "more"}
    /\ input' = input \o rows
    /\ tpc' = "rows"
    /\ UNCHANGED <<k_limit, done, cursor, heap, result>>

\* Mutant: the loop over the rows of a batch runs once too often.
PushPastEnd ==
    /\ tpc = "rows" /\ cursor <= Len(input)
    /\ Cardinality(heap) < k_limit
    /\ heap' = heap \cup {cursor + 1}
    /\ cursor' = cursor + 1
    /\ UNCHANGED <<k_limit, done, tpc, input, result>>

\* The heap is not full: the row is pushed.
Push ==
    /\ tpc = "rows" /\ cursor < Len(input)
    /\ Cardinality(heap) < k_limit
    /\ heap' = heap \cup {cursor + 1}
    /\ cursor' = cursor + 1
    /\ UNCHANGED <<k_limit, done, tpc, input, result>>

\* Mutant: the top of the heap is the best row kept.
BestOnTop(t) == t \in heap /\ \A h \in heap : ~Before(h, t)

\* top_k.top(): no row kept comes after it.
IsTop(t) == t \in heap /\ \A h \in heap : ~Before(t, h)

\* The heap is full and the row comes before its top, which it replaces.
Replace ==
    /\ tpc = "rows" /\ cursor < Len(input)
    /\ Cardinality(heap) >= k_limit
    /\ \E top \in heap :
           /\ IsTop(top)
           /\ Before(cursor + 1, top)
           /\ heap' = (heap \ {top}) \cup {cursor + 1}
    /\ cursor' = cursor + 1
    /\ UNCHANGED <<k_limit, done, tpc, input, result>>

PassOver ==
    /\ tpc = "rows" /\ cursor < Len(input)
    /\ Cardinality(heap) >= k_limit
    /\ \E top \in heap : IsTop(top) /\ ~Before(cursor + 1, top)
    /\ cursor' = cursor + 1
    /\ UNCHANGED <<k_limit, done, tpc, input, heap, result>>

BatchDone ==
    /\ tpc = "rows" /\ cursor = Len(input)
    /\ tpc' = "more"
    /\ UNCHANGED <<k_limit, done, input, cursor, heap, result>>

\* Mutant: the drained heap is not sorted.
UnsortedOrders(S) ==
    {s \in [1 .. Cardinality(S) -> S] : \A n \in S : \E i \in DOMAIN s : s[i] = n}

\* The orders std::sort may leave the rows of the heap in.
SortedOrders(S) ==
    {s \in [1 .. Cardinality(S) -> S] :
        /\ \A n \in S : \E i \in DOMAIN s : s[i] = n
        /\ \A i, j \in DOMAIN s : i < j => ~Before(s[j], s[i])}

TopKChildEnds ==
    \/ /\ tpc = "first"
       /\ tpc' = "none"
       /\ UNCHANGED <<k_limit, done, input, cursor, heap, result>>
    \/ /\ tpc = "more"
       /\ tpc' = "sorted"
       /\ result' \in SortedOrders(heap)
       /\ heap' = {}
       /\ UNCHANGED <<k_limit, done, input, cursor>>

\* The caller takes the batch, or the nullopt.
TopKReturns ==
    /\ tpc \in {"sorted", "none"}
    /\ tpc' = "idle"
    /\ UNCHANGED <<k_limit, done, input, cursor, heap, result>>

TopKStep == Push \/ Replace \/ PassOver \/ BatchDone

\* The operator under any parent and over any child.
TopKOpNext ==
    \/ TopKNext \/ TopKStep \/ TopKChildEnds \/ TopKReturns
    \/ \E rows \in Seq(Row) : TopKBatch(rows)

TopKSpec == TopKInit /\ k_limit \in Nat /\ [][TopKOpNext]_topkVars

-----------------------------------------------------------------------------
(* Correctness.                                                              *)

TopKTypeOK ==
    /\ k_limit \in Nat /\ done \in BOOLEAN
    /\ tpc \in {"idle", "first", "rows", "more", "sorted", "none"}
    /\ input \in Seq(Row)
    /\ cursor \in 0 .. Len(input)
    /\ heap \subseteq 1 .. cursor
    /\ result \in Seq(Nat)

Kept == IF k_limit < cursor THEN k_limit ELSE cursor

\* The heap holds as many rows as it may, and no row seen and let go comes
\* before one that is kept: a row is judged against the top alone.
HeapHoldsFirst ==
    tpc \in {"rows", "more"} =>
        /\ Cardinality(heap) = Kept
        /\ \A h \in heap : \A j \in (1 .. cursor) \ heap : ~Before(j, h)

\* The batch is sorted, has the limit's number of rows if there are as many,
\* repeats none, and no row left out comes before one of it.
ResultIsFirstRows ==
    tpc = "sorted" =>
        /\ cursor = Len(input) /\ Len(result) = Kept
        /\ \A i, j \in DOMAIN result :
               /\ result[i] = result[j] => i = j
               /\ i < j => ~Before(result[j], result[i])
        /\ \A i \in DOMAIN result :
               \A j \in (1 .. cursor) \ {result[n] : n \in DOMAIN result} :
                   ~Before(j, result[i])

\* The loop runs once, over a heap that was empty, and only for a limit.
LoopStartsFresh ==
    /\ ~done \/ tpc = "first" => input = <<>> /\ cursor = 0 /\ heap = {}
    /\ tpc \in {"first", "rows", "more"} => done /\ k_limit > 0
    /\ tpc = "more" => cursor = Len(input)

\* The inductive invariant.
TopKInv ==
    /\ TopKTypeOK
    /\ LoopStartsFresh
    /\ HeapHoldsFirst
    /\ ResultIsFirstRows
=============================================================================
