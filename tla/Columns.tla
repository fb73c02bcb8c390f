------------------------------ MODULE Columns ------------------------------
(***************************************************************************)
(* Values of columns and the batches operators hand each other: a schema,  *)
(* a sequence of values per column and a row count that is kept apart from *)
(* the columns.                                                            *)
(*                                                                         *)
(* Integers, dates and timestamps are integers; a DOUBLE is the exact      *)
(* quotient [num, den] of a positive den, as AVG makes it.  A text is a    *)
(* sequence of pieces, of which none is a prefix of another: two texts are *)
(* equal when their pieces are, and the first different piece decides      *)
(* their lexicographic order.  Sizes are those of the strings.  A scheme   *)
(* ("http://") stands at the start of a text only, and no two pieces make  *)
(* up a needle between them.                                               *)
(***************************************************************************)
EXTENDS Schema

LOCAL INSTANCE FiniteSetsExt

CONSTANTS
    Piece,       \* the pieces of the texts
    PieceSize,   \* characters of a piece
    PieceRank,   \* place in the lexicographic order of the pieces
    PieceHolds   \* the needles a piece contains

ASSUME PieceAssumption ==
    /\ PieceSize \in [Piece -> Nat \ {0}]
    /\ PieceRank \in [Piece -> Nat]
    /\ \A p, q \in Piece : PieceRank[p] = PieceRank[q] => p = q
    /\ DOMAIN PieceHolds = Piece

\* std::string::size, and the comparison of two strings.
TextSize(t) == MapThenSumSet(LAMBDA i : PieceSize[t[i]], DOMAIN t)

TextLess(s, t) ==
    \/ Len(s) < Len(t) /\ s = SubSeq(t, 1, Len(s))
    \/ \E i \in DOMAIN s \cap DOMAIN t :
           /\ SubSeq(s, 1, i - 1) = SubSeq(t, 1, i - 1)
           /\ PieceRank[s[i]] < PieceRank[t[i]]

\* value.find(needle) != npos
TextHolds(t, needle) == \E i \in DOMAIN t : needle \in PieceHolds[t[i]]

StartsWith(t, piece) == t # <<>> /\ Head(t) = piece

\* RefererDomain: pos is behind the scheme and a "www.", slash the first one
\* from there.
RefererDomain(t) ==
    LET scheme == StartsWith(t, "http://") \/ StartsWith(t, "https://")
        pos == IF Len(t) > 1 /\ t[2] = "www." THEN 3 ELSE 2
        slashes == {i \in pos .. Len(t) : t[i] = "/"}
    IN  IF scheme /\ slashes # {} THEN SubSeq(t, pos, Min(slashes) - 1) ELSE t

-----------------------------------------------------------------------------
(* Rows and batches.                                                         *)

NoBatch == [schema |-> <<>>, columns |-> <<>>, row_count |-> -1]

\* scalar::Compare(l, r) < 0 for values of one type.
Less(type, l, r) ==
    CASE CppType[type] = "string" -> TextLess(l, r)
      [] type = "DOUBLE" -> l.num * r.den < r.num * l.den
      [] OTHER -> l < r

\* The first sort key in which the rows differ decides.
RowComesBefore(schema, keys, l, r) ==
    LET Before(k, a, b) ==
            LET c == ColumnIndex(schema, keys[k].column_name)
            IN  Less(schema[c].type, a[c], b[c])
    IN  \E k \in DOMAIN keys :
            /\ \A j \in 1 .. k - 1 : ~Before(j, l, r) /\ ~Before(j, r, l)
            /\ IF keys[k].order = "ASC" THEN Before(k, l, r)
                                        ELSE Before(k, r, l)

RowsOf(batch) ==
    [i \in 1 .. batch.row_count |->
        [c \in DOMAIN batch.columns |-> batch.columns[c][i]]]

\* The batch of an operator that builds its columns value by value.
BatchOf(schema, rows) ==
    [schema |-> schema,
     columns |-> [c \in DOMAIN schema |-> [i \in DOMAIN rows |-> rows[i][c]]],
     row_count |-> Len(rows)]

GatherRows(columns, row_ids) ==
    [c \in DOMAIN columns |-> [i \in DOMAIN row_ids |-> columns[c][row_ids[i]]]]

\* The orders of n rows that agree with a strict weak order on their numbers,
\* given as its pairs: std::sort leaves equal rows in any.
SortedOrders(n, precedes) ==
    {p \in [1 .. n -> 1 .. n] :
        \A i, j \in 1 .. n : i < j => p[i] # p[j] /\ <<p[j], p[i]>> \notin precedes}
=============================================================================
