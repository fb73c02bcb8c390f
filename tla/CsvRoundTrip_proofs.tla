------------------------ MODULE CsvRoundTrip_proofs ------------------------
(***************************************************************************)
(* The round trip of a table through CSV, for every table, every list of   *)
(* column types and every block size: the text the exporter writes parses  *)
(* to the columns it was written from.  What the import makes of a file,   *)
(* whatever the blocks, is in Convert_proofs.                              *)
(*                                                                         *)
(* The text is taken apart from the outside in - batches, rows, cells,     *)
(* characters - and the two loops of the parser are followed from the      *)
(* start of each piece to its end.                                         *)
(***************************************************************************)
EXTENDS CsvRoundTrip, Convert_proofs

-----------------------------------------------------------------------------
(* Pieces of a text.                                                         *)

\* The sequence s lies behind the first n characters of a text.
Lies(text, n, s) ==
    /\ n + Len(s) <= Len(text)
    /\ \A j \in 1 .. Len(s) : text[n + j] = s[j]

\* Where two sequences lie, each of them does.
LEMMA LieBoth ==
    ASSUME NEW S, NEW text \in Seq(S), NEW n \in Nat, NEW s \in Seq(S), NEW t \in Seq(S),
           Lies(text, n, s \o t)
    PROVE  /\ Lies(text, n, s) /\ Lies(text, n + Len(s), t)
           /\ Len(s \o t) = Len(s) + Len(t)
<1>1. /\ Len(s) \in Nat /\ Len(t) \in Nat /\ Len(text) \in Nat
      /\ Len(s \o t) = Len(s) + Len(t)
      /\ \A j \in 1 .. Len(s) : (s \o t)[j] = s[j]
      /\ \A j \in 1 .. Len(t) : (s \o t)[Len(s) + j] = t[j]
  <2>1. /\ Len(s) \in Nat /\ Len(t) \in Nat /\ Len(text) \in Nat
        /\ Len(s \o t) = Len(s) + Len(t)
    OBVIOUS
  <2>2. ASSUME NEW j \in 1 .. Len(s) PROVE (s \o t)[j] = s[j]
    OBVIOUS
  <2>3. ASSUME NEW j \in 1 .. Len(t) PROVE (s \o t)[Len(s) + j] = t[j]
    <3>1. Len(s) + j \in 1 .. Len(s) + Len(t) /\ ~(Len(s) + j <= Len(s))
          /\ (Len(s) + j) - Len(s) = j
      BY <2>1
    <3> QED
      BY <2>1, <3>1
  <2> QED
    BY <2>1, <2>2, <2>3
<1> DEFINE both == s \o t
<1>2. n + Len(both) <= Len(text) /\ \A j \in 1 .. Len(both) : text[n + j] = both[j]
  BY DEF Lies
<1>3. /\ Len(both) = Len(s) + Len(t)
      /\ \A j \in 1 .. Len(s) : both[j] = s[j]
      /\ \A j \in 1 .. Len(t) : both[Len(s) + j] = t[j]
  BY <1>1
<1> HIDE DEF both
<1>4. Lies(text, n, s)
  <2>1. n + Len(s) <= Len(text)
    BY <1>1, <1>2, <1>3
  <2>2. ASSUME NEW j \in 1 .. Len(s) PROVE text[n + j] = s[j]
    <3>1. j \in 1 .. Len(both)
      BY <1>1, <1>3
    <3> QED
      BY <1>2, <1>3, <3>1
  <2> QED
    BY <2>1, <2>2 DEF Lies
<1>5. Lies(text, n + Len(s), t)
  <2>1. (n + Len(s)) + Len(t) <= Len(text)
    BY <1>1, <1>2, <1>3
  <2>2. ASSUME NEW j \in 1 .. Len(t) PROVE text[(n + Len(s)) + j] = t[j]
    <3>1. Len(s) + j \in 1 .. Len(both) /\ (n + Len(s)) + j = n + (Len(s) + j)
      BY <1>1, <1>3
    <3> QED
      BY <1>2, <1>3, <3>1
  <2> QED
    BY <2>1, <2>2 DEF Lies
<1> QED
  BY <1>1, <1>4, <1>5

\* Where the pieces of a sequence begin and end: behind L[k] characters the
\* k-th piece is over.
Places(text, n, seqs, L) ==
    /\ L \in [0 .. Len(seqs) -> Nat]
    /\ L[0] = n
    /\ \A k \in 1 .. Len(seqs) :
           L[k] = L[k - 1] + Len(seqs[k]) /\ Lies(text, L[k - 1], seqs[k])

\* Where a concatenation lies, its pieces do, one behind the other.
LEMMA Pieces ==
    ASSUME NEW S, NEW text \in Seq(S), NEW n \in Nat, NEW seqs \in Seq(Seq(S)),
           Lies(text, n, FlattenSeq(seqs))
    PROVE  \E L : /\ Places(text, n, seqs, L)
                  /\ L[Len(seqs)] = n + Len(FlattenSeq(seqs))
<1> DEFINE m == Len(seqs)
<1>1. m \in Nat /\ \A k \in 1 .. m : seqs[k] \in Seq(S)
  OBVIOUS
<1>2. PICK f : Concatenates(f, seqs, S)
  BY FlattenLoop
<1>3. FlattenSeq(seqs) = f[m]
  BY <1>2, Flattened
<1>4. /\ f \in [0 .. m -> Seq(S)] /\ f[0] = <<>>
      /\ \A k \in 1 .. m : f[k] = f[k - 1] \o seqs[k]
  BY <1>2 DEF Concatenates
<1> HIDE DEF m
<1> DEFINE T == {k \in 0 .. m : Lies(text, n, f[m - k])}
<1>5. ASSUME NEW k \in 0 .. m - 1, k \in T PROVE k + 1 \in T
  <2> DEFINE j == m - k
  <2>1. j \in 1 .. m /\ j - 1 = m - (k + 1) /\ j - 1 \in 0 .. m /\ k + 1 \in 0 .. m
    BY <1>1
  <2>2. Lies(text, n, f[j]) /\ f[j] = f[j - 1] \o seqs[j]
    BY <1>4, <1>5, <2>1
  <2>3. f[j - 1] \in Seq(S) /\ seqs[j] \in Seq(S)
    BY <1>1, <1>4, <2>1
  <2> HIDE DEF j
  <2>4. Lies(text, n, f[j - 1])
    BY <2>2, <2>3, LieBoth
  <2> QED
    BY <2>1, <2>4
<1>6. \A k \in 0 .. m : Lies(text, n, f[k])
  <2>1. m - 0 = m /\ 0 \in 0 .. m
    BY <1>1
  <2>2. 0 \in T
    BY <1>3, <2>1
  <2>3. \A k \in 0 .. m - 1 : k \in T => k + 1 \in T
    BY <1>5
  <2> HIDE DEF T
  <2>4. 0 .. m \subseteq T
    BY <1>1, <2>2, <2>3, UpTo
  <2> SUFFICES ASSUME NEW k \in 0 .. m PROVE Lies(text, n, f[k])
    OBVIOUS
  <2>5. m - k \in 0 .. m /\ m - (m - k) = k
    BY <1>1
  <2>6. m - k \in T
    BY <2>4, <2>5
  <2> QED
    BY <2>5, <2>6 DEF T
<1> DEFINE L == [k \in 0 .. m |-> n + Len(f[k])]
<1>7. L \in [0 .. m -> Nat]
  BY <1>4
<1>8. L[0] = n /\ L[m] = n + Len(f[m])
  <2>1. 0 \in 0 .. m /\ m \in 0 .. m
    BY <1>1
  <2>2. L[0] = n + Len(f[0]) /\ L[m] = n + Len(f[m])
    BY <2>1
  <2>3. n + Len(<<>>) = n
    OBVIOUS
  <2> QED
    BY <1>4, <2>2, <2>3
<1>9. ASSUME NEW k \in 1 .. m
      PROVE  L[k] = L[k - 1] + Len(seqs[k]) /\ Lies(text, L[k - 1], seqs[k])
  <2>1. k - 1 \in 0 .. m /\ k \in 0 .. m
    BY <1>1
  <2>2. f[k - 1] \in Seq(S) /\ seqs[k] \in Seq(S) /\ f[k] = f[k - 1] \o seqs[k]
        /\ Lies(text, n, f[k])
    BY <1>1, <1>4, <1>6, <2>1
  <2> DEFINE before == f[k - 1]
             piece == seqs[k]
  <2>3. L[k - 1] = n + Len(before) /\ L[k] = n + Len(f[k])
    BY <2>1
  <2> HIDE DEF before, piece, L
  <2>4. /\ before \in Seq(S) /\ piece \in Seq(S) /\ f[k] = before \o piece
        /\ Lies(text, n, before \o piece)
    BY <2>2 DEF before, piece
  <2>5. /\ Lies(text, n + Len(before), piece)
        /\ Len(f[k]) = Len(before) + Len(piece)
    BY <2>4, LieBoth
  <2>6. Len(before) \in Nat /\ Len(piece) \in Nat
    BY <2>4
  <2>7. L[k] = L[k - 1] + Len(piece) /\ Lies(text, L[k - 1], piece)
    BY <2>3, <2>5, <2>6
  <2> QED
    BY <2>7 DEF piece
<1> HIDE DEF L
<1>10. Places(text, n, seqs, L)
  BY <1>7, <1>8, <1>9 DEF Places, m
<1> QED
  BY <1>3, <1>8, <1>10 DEF m

-----------------------------------------------------------------------------
(* The parser, from piece to piece.                                          *)

\* Behind n characters the parse is p and has not thrown, and the loops are
\* at no second quote of two.
At(text, n, p) ==
    /\ n \in 0 .. Len(text)
    /\ QuoteStates(text)[n].jump = FALSE
    /\ ParseStates(text)[n] = p
    /\ p.thrown = FALSE

\* Outside quotes, and inside.
Outside(text, n, p) == At(text, n, p) /\ QuoteStates(text)[n].in_quote = FALSE

Inside(text, n, p) == At(text, n, p) /\ QuoteStates(text)[n].in_quote = TRUE

\* The next turn of the two loops.
LEMMA NextTurn ==
    ASSUME NEW text \in Seq(STRING), NEW n, NEW p, At(text, n, p), n + 1 <= Len(text)
    PROVE  /\ n \in Nat /\ n + 1 \in 1 .. Len(text) /\ n + 1 \in 0 .. Len(text)
           /\ text[n + 1] \in STRING
           /\ QuoteStates(text)[n] \in QuoteState /\ p \in ParseState
           /\ QuoteStates(text)[n + 1] = QuoteStep(text, n + 1)[QuoteStates(text)[n]]
           /\ ParseStates(text)[n + 1] = ParseStep(text, n + 1, QuoteStates(text)[n])[p]
<1>1. /\ n \in Nat /\ n + 1 \in 1 .. Len(text) /\ n + 1 \in 0 .. Len(text)
      /\ (n + 1) - 1 = n
  BY DEF At
<1>2. text[n + 1] \in STRING
  BY <1>1
<1> DEFINE i == n + 1
<1> HIDE DEF i
<1>3. i \in 1 .. Len(text) /\ i - 1 = n
  BY <1>1 DEF i
<1>4. /\ QuoteStates(text)[i - 1] \in QuoteState
      /\ ParseStates(text)[i - 1] \in ParseState
      /\ QuoteStates(text)[i] = QuoteStep(text, i)[QuoteStates(text)[i - 1]]
      /\ ParseStates(text)[i] =
             ParseStep(text, i, QuoteStates(text)[i - 1])[ParseStates(text)[i - 1]]
  BY <1>3, OneTurn
<1>5. ParseStates(text)[n] = p
  BY DEF At
<1> QED
  BY <1>1, <1>2, <1>3, <1>4, <1>5 DEF i

\* A character that means nothing where it stands goes to the field.
LEMMA TakenInside ==
    ASSUME NEW text \in Seq(STRING), NEW n, NEW p,
           Inside(text, n, p), n + 1 <= Len(text), text[n + 1] # Quote
    PROVE  Inside(text, n + 1, Taken(p, text[n + 1]))
<1> DEFINE q == QuoteStates(text)[n]
           i == n + 1
<1>1. /\ i \in 0 .. Len(text) /\ q \in QuoteState /\ p \in ParseState
      /\ QuoteStates(text)[i] = QuoteStep(text, i)[q]
      /\ ParseStates(text)[i] = ParseStep(text, i, q)[p]
  BY NextTurn DEF Inside
<1>2. q.in_quote = TRUE /\ q.jump = FALSE /\ p.thrown = FALSE
  BY DEF Inside, At
<1> HIDE DEF q, i
<1>3. text[i] # Quote
  BY DEF i
<1>4. QuoteStep(text, i)[q].in_quote = TRUE /\ QuoteStep(text, i)[q].jump = FALSE
  BY <1>1, <1>2, <1>3, QuoteStays
<1>5. ParseStep(text, i, q)[p] = Taken(p, text[i])
  BY <1>1, <1>2, <1>3, ParseTurnIs
<1>6. Taken(p, text[i]).thrown = FALSE
  BY <1>1, <1>2 DEF Taken, ParseState
<1> QED
  BY <1>1, <1>4, <1>5, <1>6 DEF Inside, At, i

\* And outside them.
LEMMA TakenOutside ==
    ASSUME NEW text \in Seq(STRING), NEW n, NEW p,
           Outside(text, n, p), n + 1 <= Len(text), text[n + 1] # Quote,
           text[n + 1] # Comma, text[n + 1] # Newline
    PROVE  Outside(text, n + 1, Taken(p, text[n + 1]))
<1> DEFINE q == QuoteStates(text)[n]
           i == n + 1
<1>1. /\ i \in 0 .. Len(text) /\ q \in QuoteState /\ p \in ParseState
      /\ QuoteStates(text)[i] = QuoteStep(text, i)[q]
      /\ ParseStates(text)[i] = ParseStep(text, i, q)[p]
  BY NextTurn DEF Outside
<1>2. q.in_quote = FALSE /\ q.jump = FALSE /\ p.thrown = FALSE
  BY DEF Outside, At
<1> HIDE DEF q, i
<1>3. text[i] # Quote /\ text[i] # Comma /\ text[i] # Newline
  BY DEF i
<1>4. QuoteStep(text, i)[q].in_quote = FALSE /\ QuoteStep(text, i)[q].jump = FALSE
  BY <1>1, <1>2, <1>3, QuoteStays
<1>5. ParseStep(text, i, q)[p] = Taken(p, text[i])
  BY <1>1, <1>2, <1>3, ParseTurnIs
<1>6. Taken(p, text[i]).thrown = FALSE
  BY <1>1, <1>2 DEF Taken, ParseState
<1> QED
  BY <1>1, <1>4, <1>5, <1>6 DEF Outside, At, i

\* A quote opens them.
LEMMA QuoteOpened ==
    ASSUME NEW text \in Seq(STRING), NEW n, NEW p,
           Outside(text, n, p), n + 1 <= Len(text), text[n + 1] = Quote
    PROVE  Inside(text, n + 1, Opened(p))
<1> DEFINE q == QuoteStates(text)[n]
           i == n + 1
<1>1. /\ i \in 0 .. Len(text) /\ q \in QuoteState /\ p \in ParseState
      /\ QuoteStates(text)[i] = QuoteStep(text, i)[q]
      /\ ParseStates(text)[i] = ParseStep(text, i, q)[p]
  BY NextTurn DEF Outside
<1>2. q.in_quote = FALSE /\ q.jump = FALSE /\ p.thrown = FALSE
  BY DEF Outside, At
<1> HIDE DEF q, i
<1>3. text[i] = Quote
  BY DEF i
<1>4. QuoteStep(text, i)[q].in_quote = TRUE /\ QuoteStep(text, i)[q].jump = FALSE
  BY <1>1, <1>2, <1>3, QuoteOpens
<1>5. ParseStep(text, i, q)[p] = Opened(p)
  BY <1>1, <1>2, <1>3, ParseTurnIs DEF Doubled
<1>6. Opened(p).thrown = FALSE
  BY <1>1, <1>2 DEF Opened, ParseState
<1> QED
  BY <1>1, <1>4, <1>5, <1>6 DEF Inside, At, i

\* A quote that is not the first of two closes them.
LEMMA QuoteClosed ==
    ASSUME NEW text \in Seq(STRING), NEW n, NEW p,
           Inside(text, n, p), n + 1 <= Len(text), text[n + 1] = Quote,
           ~Twice(text, n + 1)
    PROVE  Outside(text, n + 1, Opened(p))
<1> DEFINE q == QuoteStates(text)[n]
           i == n + 1
<1>1. /\ i \in 0 .. Len(text) /\ q \in QuoteState /\ p \in ParseState
      /\ QuoteStates(text)[i] = QuoteStep(text, i)[q]
      /\ ParseStates(text)[i] = ParseStep(text, i, q)[p]
  BY NextTurn DEF Inside
<1>2. q.in_quote = TRUE /\ q.jump = FALSE /\ p.thrown = FALSE
  BY DEF Inside, At
<1> HIDE DEF q, i
<1>3. text[i] = Quote /\ ~Twice(text, i)
  BY DEF i
<1>4. QuoteStep(text, i)[q].in_quote = FALSE /\ QuoteStep(text, i)[q].jump = FALSE
  BY <1>1, <1>2, <1>3, QuoteCloses
<1>5. ParseStep(text, i, q)[p] = Opened(p)
  BY <1>1, <1>2, <1>3, ParseTurnIs DEF Doubled, Twice
<1>6. Opened(p).thrown = FALSE
  BY <1>1, <1>2 DEF Opened, ParseState
<1> QED
  BY <1>1, <1>4, <1>5, <1>6 DEF Outside, At, i

\* Two quotes inside quotes are one of the field.
LEMMA QuoteDoubled ==
    ASSUME NEW text \in Seq(STRING), NEW n, NEW p,
           Inside(text, n, p), n + 2 <= Len(text),
           text[n + 1] = Quote, text[n + 2] = Quote
    PROVE  Inside(text, n + 2, Taken(p, Quote))
<1> DEFINE q == QuoteStates(text)[n]
           i == n + 1
           j == n + 2
<1>1. /\ n \in Nat /\ Len(text) \in Nat /\ n + 1 <= Len(text) /\ i + 1 = j
      /\ i \in Nat /\ j \in 1 .. Len(text) /\ j - 1 = i /\ j \in 0 .. Len(text)
      /\ i < Len(text)
  BY DEF Inside, At
<1>2. /\ q \in QuoteState /\ p \in ParseState
      /\ QuoteStates(text)[i] = QuoteStep(text, i)[q]
      /\ ParseStates(text)[i] = ParseStep(text, i, q)[p]
  BY <1>1, NextTurn DEF Inside
<1>3. q.in_quote = TRUE /\ q.jump = FALSE /\ p.thrown = FALSE
  BY DEF Inside, At
<1>4. text[i] = Quote /\ text[j] = Quote
  OBVIOUS
<1> HIDE DEF q, i, j
<1>5. Twice(text, i)
  BY <1>1, <1>4 DEF Twice
<1> DEFINE r == QuoteStates(text)[i]
           middle == ParseStates(text)[i]
<1>6. /\ r \in QuoteState /\ middle \in ParseState
      /\ QuoteStates(text)[j] = QuoteStep(text, j)[r]
      /\ ParseStates(text)[j] = ParseStep(text, j, r)[middle]
  BY <1>1, OneTurn
<1>7. r.in_quote = TRUE /\ r.jump = TRUE
  BY <1>2, <1>3, <1>5, QuoteDoubles
<1>8. middle = Taken(p, Quote)
  BY <1>2, <1>3, <1>4, <1>5, ParseTurnIs DEF Doubled, Twice
<1> HIDE DEF r, middle
<1>9. QuoteStep(text, j)[r].in_quote = TRUE /\ QuoteStep(text, j)[r].jump = FALSE
  BY <1>6, <1>7, QuoteStays
<1>10. ParseStep(text, j, r)[middle] = middle
  BY <1>6, <1>7, ParseTurnIs
<1>11. Taken(p, Quote).thrown = FALSE
  BY <1>2, <1>3 DEF Taken, ParseState
<1> QED
  BY <1>1, <1>6, <1>8, <1>9, <1>10, <1>11 DEF Inside, At, j

\* A comma ends a field, a newline a row.
LEMMA CommaEnds ==
    ASSUME NEW text \in Seq(STRING), NEW n, NEW p,
           Outside(text, n, p), n + 1 <= Len(text), text[n + 1] = Comma,
           ~FieldRejected(p.col, p.field)
    PROVE  Outside(text, n + 1, EndOfField(p))
<1> DEFINE q == QuoteStates(text)[n]
           i == n + 1
<1>1. /\ i \in 0 .. Len(text) /\ q \in QuoteState /\ p \in ParseState
      /\ QuoteStates(text)[i] = QuoteStep(text, i)[q]
      /\ ParseStates(text)[i] = ParseStep(text, i, q)[p]
  BY NextTurn DEF Outside
<1>2. q.in_quote = FALSE /\ q.jump = FALSE /\ p.thrown = FALSE
  BY DEF Outside, At
<1> HIDE DEF q, i
<1>3. text[i] = Comma /\ text[i] # Quote
  BY CharactersDiffer DEF i
<1>4. QuoteStep(text, i)[q].in_quote = FALSE /\ QuoteStep(text, i)[q].jump = FALSE
  BY <1>1, <1>2, <1>3, QuoteStays
<1>5. ParseStep(text, i, q)[p] = EndOfField(p)
  BY <1>1, <1>2, <1>3, ParseTurnIs
<1>6. EndOfField(p).thrown = FALSE
  BY <1>1, <1>2 DEF EndOfField, AppendField, ParseState
<1> QED
  BY <1>1, <1>4, <1>5, <1>6 DEF Outside, At, i

\* A newline outside quotes ends the row.
LEMMA NewlineEnds ==
    ASSUME NEW text \in Seq(STRING), NEW n, NEW p,
           Outside(text, n, p), n + 1 <= Len(text), text[n + 1] = Newline,
           ~FieldRejected(p.col, DropCR(p.field))
    PROVE  Outside(text, n + 1, EndOfRow(p))
<1> DEFINE q == QuoteStates(text)[n]
           i == n + 1
<1>1. /\ i \in 0 .. Len(text) /\ q \in QuoteState /\ p \in ParseState
      /\ QuoteStates(text)[i] = QuoteStep(text, i)[q]
      /\ ParseStates(text)[i] = ParseStep(text, i, q)[p]
  BY NextTurn DEF Outside
<1>2. q.in_quote = FALSE /\ q.jump = FALSE /\ p.thrown = FALSE
  BY DEF Outside, At
<1> HIDE DEF q, i
<1>3. text[i] = Newline /\ text[i] # Quote /\ text[i] # Comma
  BY CharactersDiffer DEF i
<1>4. QuoteStep(text, i)[q].in_quote = FALSE /\ QuoteStep(text, i)[q].jump = FALSE
  BY <1>1, <1>2, <1>3, QuoteStays
<1>5. ParseStep(text, i, q)[p] = EndOfRow(p)
  BY <1>1, <1>2, <1>3, ParseTurnIs
<1>6. EndOfRow(p).thrown = FALSE
  BY <1>1, <1>2 DEF EndOfRow, AppendField, ParseState
<1> QED
  BY <1>1, <1>4, <1>5, <1>6 DEF Outside, At, i

-----------------------------------------------------------------------------
(* The values of a cell.                                                     *)

\* One element more of a sequence.
LEMMA OneMore ==
    ASSUME NEW S, NEW v \in Seq(S)
    PROVE  /\ SubSeq(v, 1, 0) = <<>> /\ SubSeq(v, 1, Len(v)) = v
           /\ \A k \in 0 .. Len(v) - 1 :
                  /\ k + 1 \in 1 .. Len(v) /\ v[k + 1] \in S
                  /\ SubSeq(v, 1, k) \in Seq(S)
                  /\ SubSeq(v, 1, k + 1) = Append(SubSeq(v, 1, k), v[k + 1])
<1>1. SubSeq(v, 1, 0) = <<>>
  OBVIOUS
<1>2. SubSeq(v, 1, Len(v)) = v
  OBVIOUS
<1>3. ASSUME NEW k \in 0 .. Len(v) - 1
      PROVE  /\ k + 1 \in 1 .. Len(v) /\ v[k + 1] \in S
             /\ SubSeq(v, 1, k) \in Seq(S)
             /\ SubSeq(v, 1, k + 1) = Append(SubSeq(v, 1, k), v[k + 1])
  <2>1. k + 1 \in 1 .. Len(v) /\ k \in Nat /\ k + 1 <= Len(v)
    OBVIOUS
  <2>2. v[k + 1] \in S
    BY <2>1
  <2>3. SubSeq(v, 1, k) \in Seq(S) /\ Len(SubSeq(v, 1, k)) = k
        /\ \A i \in 1 .. k : SubSeq(v, 1, k)[i] = v[i]
    BY <2>1
  <2>4. SubSeq(v, 1, k + 1) \in Seq(S) /\ Len(SubSeq(v, 1, k + 1)) = k + 1
        /\ \A i \in 1 .. k + 1 : SubSeq(v, 1, k + 1)[i] = v[i]
    BY <2>1
  <2> DEFINE s == SubSeq(v, 1, k)
             t == SubSeq(v, 1, k + 1)
             u == Append(s, v[k + 1])
  <2>5. /\ s \in Seq(S) /\ Len(s) = k /\ \A i \in 1 .. k : s[i] = v[i]
        /\ t \in Seq(S) /\ Len(t) = k + 1 /\ \A i \in 1 .. k + 1 : t[i] = v[i]
    BY <2>3, <2>4
  <2> HIDE DEF s, t
  <2>6. u \in Seq(S) /\ Len(u) = k + 1 /\ \A i \in 1 .. k + 1 : u[i] = v[i]
    BY <2>1, <2>2, <2>5
  <2> HIDE DEF u
  <2>7. t = u
    BY <2>1, <2>5, <2>6
  <2> QED
    BY <2>1, <2>2, <2>3, <2>7 DEF s, t, u
<1> QED
  BY <1>1, <1>2, <1>3

\* A parse in a row: the cells it has, the column it is at and the characters
\* of its field.
Reads(p, cells, col, field) ==
    /\ p \in ParseState
    /\ p.cells = cells /\ p.col = col /\ p.field = field /\ p.thrown = FALSE

\* A quote leaves the field as it is, a character is appended to it.
LEMMA ReadsOn ==
    ASSUME NEW p, NEW cells, NEW col, NEW field, Reads(p, cells, col, field),
           NEW char \in STRING
    PROVE  /\ Reads(Opened(p), cells, col, field)
           /\ Reads(Taken(p, char), cells, col, Append(field, char))
<1>1. /\ p \in ParseState /\ p.thrown = FALSE
      /\ p.cells = cells /\ p.col = col /\ p.field = field
  BY DEF Reads
<1>2. Opened(p) \in ParseState /\ Taken(p, char) \in ParseState
  BY <1>1, BranchesTyped
<1>3. /\ Opened(p).cells = p.cells /\ Opened(p).col = p.col /\ Opened(p).field = p.field
      /\ Opened(p).thrown = p.thrown
  BY <1>1 DEF Opened, ParseState
<1>4. /\ Taken(p, char).cells = p.cells /\ Taken(p, char).col = p.col
      /\ Taken(p, char).field = Append(p.field, char) /\ Taken(p, char).thrown = p.thrown
  BY <1>1 DEF Taken, ParseState
<1> QED
  BY <1>1, <1>2, <1>3, <1>4 DEF Reads

\* The loops are there behind n characters, inside quotes or outside.
Quoted(text, n, cells, col, field) ==
    \E p : Inside(text, n, p) /\ Reads(p, cells, col, field)

Bare(text, n, cells, col, field) ==
    \E p : Outside(text, n, p) /\ Reads(p, cells, col, field)

\* Where one or two characters lie.
LEMMA LieOne ==
    ASSUME NEW text \in Seq(STRING), NEW n \in Nat, NEW char, Lies(text, n, <<char>>)
    PROVE  n + 1 <= Len(text) /\ text[n + 1] = char
<1>1. Len(<<char>>) = 1 /\ 1 \in 1 .. 1 /\ <<char>>[1] = char
  OBVIOUS
<1> QED
  BY <1>1 DEF Lies

\* Where two characters lie.
LEMMA LieTwo ==
    ASSUME NEW text \in Seq(STRING), NEW n \in Nat, NEW char, NEW other,
           Lies(text, n, <<char, other>>)
    PROVE  n + 2 <= Len(text) /\ text[n + 1] = char /\ text[n + 2] = other
<1>1. /\ Len(<<char, other>>) = 2 /\ 1 \in 1 .. 2 /\ 2 \in 1 .. 2
      /\ <<char, other>>[1] = char /\ <<char, other>>[2] = other
  OBVIOUS
<1> QED
  BY <1>1 DEF Lies

\* A value with its quotes doubled, character by character.
Doubles(value) ==
    [i \in DOMAIN value |-> IF value[i] = Quote THEN <<Quote, Quote>> ELSE <<value[i]>>]

\* A value with its quotes doubled is a text.
LEMMA DoublesTyped ==
    ASSUME NEW value \in Seq(STRING)
    PROVE  /\ Doubles(value) \in Seq(Seq(STRING)) /\ Len(Doubles(value)) = Len(value)
           /\ \A k \in 1 .. Len(value) :
                  Doubles(value)[k] = IF value[k] = Quote THEN <<Quote, Quote>> ELSE <<value[k]>>
           /\ Escaped(value) = FlattenSeq(Doubles(value)) /\ Escaped(value) \in Seq(STRING)
<1>1. DOMAIN value = 1 .. Len(value) /\ Len(value) \in Nat
      /\ \A i \in 1 .. Len(value) : value[i] \in STRING
  OBVIOUS
<1>2. Quote \in STRING
  BY CharactersAssumption
<1>3. ASSUME NEW i \in 1 .. Len(value)
      PROVE  (IF value[i] = Quote THEN <<Quote, Quote>> ELSE <<value[i]>>) \in Seq(STRING)
  <2>1. <<Quote, Quote>> \in Seq(STRING)
    <3>1. \A S : \A char \in S : <<char, char>> \in Seq(S)
      OBVIOUS
    <3> QED
      BY <1>2, <3>1
  <2>2. <<value[i]>> \in Seq(STRING)
    BY <1>1
  <2> QED
    BY <2>1, <2>2
<1>4. Doubles(value) \in [1 .. Len(value) -> Seq(STRING)]
  BY <1>1, <1>3 DEF Doubles
<1>5. Doubles(value) \in Seq(Seq(STRING)) /\ Len(Doubles(value)) = Len(value)
  BY <1>1, <1>4
<1>6. \A k \in 1 .. Len(value) :
          Doubles(value)[k] = IF value[k] = Quote THEN <<Quote, Quote>> ELSE <<value[k]>>
  BY <1>1 DEF Doubles
<1>7. Escaped(value) = FlattenSeq(Doubles(value))
  BY DEF Escaped, Doubles
<1>8. FlattenSeq(Doubles(value)) \in Seq(STRING)
  <2>1. <<>> \in Seq(STRING)
    OBVIOUS
  <2> QED
    BY <1>5, <2>1, FlattenAppend
<1> QED
  BY <1>5, <1>6, <1>7, <1>8

\* Inside quotes, a value whose quotes are doubled is read as it is.
LEMMA EscapedRead ==
    ASSUME NEW text \in Seq(STRING), NEW n \in Nat, NEW value \in Seq(STRING),
           NEW cells, NEW col, Lies(text, n, Escaped(value)),
           Quoted(text, n, cells, col, <<>>)
    PROVE  Quoted(text, n + Len(Escaped(value)), cells, col, value)
<1> DEFINE seqs == Doubles(value)
           m == Len(value)
<1>1. /\ seqs \in Seq(Seq(STRING)) /\ Len(seqs) = m
      /\ \A k \in 1 .. m :
             seqs[k] = IF value[k] = Quote THEN <<Quote, Quote>> ELSE <<value[k]>>
      /\ Escaped(value) = FlattenSeq(seqs)
  BY DoublesTyped
<1>2. m \in Nat
  OBVIOUS
<1> HIDE DEF seqs
<1>3. Lies(text, n, FlattenSeq(seqs))
  BY <1>1
<1>4. PICK L : Places(text, n, seqs, L) /\ L[Len(seqs)] = n + Len(FlattenSeq(seqs))
  BY <1>1, <1>3, Pieces
<1>5. /\ L \in [0 .. m -> Nat] /\ L[0] = n /\ L[m] = n + Len(Escaped(value))
      /\ \A k \in 1 .. m : L[k] = L[k - 1] + Len(seqs[k]) /\ Lies(text, L[k - 1], seqs[k])
  BY <1>1, <1>4 DEF Places
<1> DEFINE T == {k \in 0 .. m : Quoted(text, L[k], cells, col, SubSeq(value, 1, k))}
<1>6. 0 \in T
  <2>1. SubSeq(value, 1, 0) = <<>> /\ 0 \in 0 .. m
    BY <1>2, OneMore
  <2> QED
    BY <1>5, <2>1
<1>7. ASSUME NEW k \in 0 .. m - 1, k \in T PROVE k + 1 \in T
  <2> DEFINE char == value[k + 1]
             here == L[k]
             field == SubSeq(value, 1, k)
             piece == seqs[k + 1]
  <2>1. /\ k + 1 \in 1 .. m /\ k + 1 \in 0 .. m /\ (k + 1) - 1 = k /\ k \in 0 .. m
        /\ char \in STRING /\ SubSeq(value, 1, k + 1) = Append(field, char)
    BY <1>2, OneMore
  <2>2. PICK p : Inside(text, here, p) /\ Reads(p, cells, col, field)
    BY <1>7 DEF Quoted
  <2>3. /\ here \in Nat /\ L[k + 1] = here + Len(piece) /\ Lies(text, here, piece)
        /\ piece = IF char = Quote THEN <<Quote, Quote>> ELSE <<char>>
    BY <1>1, <1>5, <2>1
  <2> HIDE DEF char, here, field, piece
  <2>4. Reads(Taken(p, char), cells, col, Append(field, char))
    BY <2>1, <2>2, ReadsOn
  <2>5. Inside(text, L[k + 1], Taken(p, char))
    <3>1. CASE char = Quote
      <4>1. piece = <<Quote, Quote>>
        BY <2>3, <3>1
      <4>2. Len(piece) = 2
        BY <4>1
      <4>3. Lies(text, here, <<Quote, Quote>>)
        BY <2>3, <4>1
      <4>4. here + 2 <= Len(text) /\ text[here + 1] = Quote /\ text[here + 2] = Quote
        BY <2>3, <4>3, LieTwo
      <4>5. Inside(text, here + 2, Taken(p, Quote))
        BY <2>2, <4>4, QuoteDoubled
      <4> QED
        BY <2>3, <3>1, <4>2, <4>5
    <3>2. CASE char # Quote
      <4>1. piece = <<char>>
        BY <2>3, <3>2
      <4>2. Len(piece) = 1
        BY <4>1
      <4>3. Lies(text, here, <<char>>)
        BY <2>3, <4>1
      <4>4. here + 1 <= Len(text) /\ text[here + 1] = char
        BY <2>3, <4>3, LieOne
      <4>5. Inside(text, here + 1, Taken(p, text[here + 1]))
        BY <2>2, <3>2, <4>4, TakenInside
      <4> QED
        BY <2>3, <4>2, <4>4, <4>5
    <3> QED
      BY <3>1, <3>2
  <2> QED
    BY <2>1, <2>4, <2>5 DEF Quoted
<1>8. m \in T
  <2>1. \A k \in 0 .. m - 1 : k \in T => k + 1 \in T
    BY <1>7
  <2> HIDE DEF T
  <2>2. 0 .. m \subseteq T
    BY <1>2, <1>6, <2>1, UpTo
  <2> QED
    BY <1>2, <2>2
<1>9. SubSeq(value, 1, m) = value
  BY OneMore
<1> QED
  BY <1>5, <1>8, <1>9

\* A value without characters that mean anything is read as it is, outside
\* quotes.
Plain(char) == char # Quote /\ char # Comma /\ char # Newline

\* Plain characters are read as they are.
LEMMA PlainRead ==
    ASSUME NEW text \in Seq(STRING), NEW n \in Nat, NEW value \in Seq(STRING),
           \A i \in 1 .. Len(value) : Plain(value[i]),
           NEW cells, NEW col, Lies(text, n, value), Bare(text, n, cells, col, <<>>)
    PROVE  Bare(text, n + Len(value), cells, col, value)
<1> DEFINE m == Len(value)
           T == {k \in 0 .. m : Bare(text, n + k, cells, col, SubSeq(value, 1, k))}
<1>1. /\ m \in Nat /\ Len(text) \in Nat /\ n + m <= Len(text)
      /\ \A i \in 1 .. m : text[n + i] = value[i] /\ Plain(value[i])
  BY DEF Lies
<1>2. 0 \in T
  <2>1. 0 \in 0 .. m /\ n + 0 = n /\ SubSeq(value, 1, 0) = <<>>
    BY <1>1, OneMore
  <2> QED
    BY <2>1
<1>3. ASSUME NEW k \in 0 .. m - 1, k \in T PROVE k + 1 \in T
  <2> DEFINE i == k + 1
             char == value[i]
             here == n + k
             field == SubSeq(value, 1, k)
  <2>1. /\ i \in 1 .. m /\ i \in 0 .. m /\ n + i = here + 1 /\ here + 1 <= Len(text)
        /\ SubSeq(value, 1, i) = Append(field, char) /\ char \in STRING
    BY <1>1, OneMore
  <2>2. text[here + 1] = char /\ Plain(char)
    BY <1>1, <2>1
  <2>3. PICK p : Outside(text, here, p) /\ Reads(p, cells, col, field)
    BY <1>3 DEF Bare
  <2> HIDE DEF i, char, here, field
  <2>4. Outside(text, here + 1, Taken(p, text[here + 1]))
    BY <2>1, <2>2, <2>3, TakenOutside DEF Plain
  <2>5. Reads(Taken(p, char), cells, col, Append(field, char))
    BY <2>1, <2>3, ReadsOn
  <2>6. Bare(text, n + i, cells, col, SubSeq(value, 1, i))
    BY <2>1, <2>2, <2>4, <2>5 DEF Bare
  <2> QED
    BY <2>1, <2>6 DEF i
<1>4. m \in T
  <2>1. \A k \in 0 .. m - 1 : k \in T => k + 1 \in T
    BY <1>3
  <2> HIDE DEF T
  <2>2. 0 .. m \subseteq T
    BY <1>1, <1>2, <2>1, UpTo
  <2> QED
    BY <1>1, <2>2
<1>5. SubSeq(value, 1, m) = value
  BY OneMore
<1> QED
  BY <1>4, <1>5

-----------------------------------------------------------------------------
(* Numbers in decimal.                                                       *)

\* The digits are ten characters, none of which means anything else.
LEMMA DigitsDiffer ==
    /\ Digit \in [1 .. 10 -> STRING]
    /\ \A d \in 0 .. 9 : Plain(Digit[d + 1]) /\ Digit[d + 1] # CR
    /\ \A d, e \in 0 .. 9 : Digit[d + 1] = Digit[e + 1] => d = e
<1>1. /\ DOMAIN Digit = 1 .. 10
      /\ Digit[1] = "0" /\ Digit[2] = "1" /\ Digit[3] = "2" /\ Digit[4] = "3"
      /\ Digit[5] = "4" /\ Digit[6] = "5" /\ Digit[7] = "6" /\ Digit[8] = "7"
      /\ Digit[9] = "8" /\ Digit[10] = "9" /\ Digit = [i \in 1 .. 10 |-> Digit[i]]
  BY DEF Digit
<1>2. \A d \in 0 .. 9 :
          \/ d = 0 \/ d = 1 \/ d = 2 \/ d = 3 \/ d = 4
          \/ d = 5 \/ d = 6 \/ d = 7 \/ d = 8 \/ d = 9
  OBVIOUS
<1>3. ASSUME NEW d \in 0 .. 9 PROVE Plain(Digit[d + 1]) /\ Digit[d + 1] # CR
  <2>1. Digit[d + 1] \in {"0", "1", "2", "3", "4", "5", "6", "7", "8", "9"}
    BY <1>1, <1>2
  <2>2. \A char \in {"0", "1", "2", "3", "4", "5", "6", "7", "8", "9"} :
            char # "\"" /\ char # "," /\ char # "\n" /\ char # "\r"
    OBVIOUS
  <2> QED
    BY <2>1, <2>2 DEF Plain, Quote, Comma, Newline, CR
<1>4. \A d, e \in 0 .. 9 : Digit[d + 1] = Digit[e + 1] => d = e
  BY <1>1, <1>2
<1>5. \A i \in 1 .. 10 : Digit[i] \in STRING
  BY <1>1, CharactersAssumption DEF Range
<1> QED
  BY <1>1, <1>3, <1>4, <1>5

\* A digit is where its value says.
LEMMA DigitIs ==
    ASSUME NEW d \in 0 .. 9
    PROVE  DigitValue(Digit[d + 1]) = d
BY DigitsDiffer DEF DigitValue

\* A text of digits.
Digits == Range(Digit)

\* The values of digits are the numbers up to nine.
LEMMA DigitTyped ==
    ASSUME NEW char \in Digits
    PROVE  DigitValue(char) \in 0 .. 9 /\ char \in STRING /\ Plain(char) /\ char # CR
<1>1. PICK i \in 1 .. 10 : char = Digit[i]
  BY DigitsDiffer DEF Digits, Range
<1>2. i - 1 \in 0 .. 9 /\ (i - 1) + 1 = i
  OBVIOUS
<1>3. DigitValue(Digit[(i - 1) + 1]) = i - 1
  BY <1>2, DigitIs
<1> QED
  BY <1>1, <1>2, <1>3, DigitsDiffer

\* What ParseNum makes of one.
NumberTurn(char) == [x \in Nat |-> 10 * x + DigitValue(char)]

NumberLoop(field, f) ==
    IsLoop(f, Len(field), Nat, 0, [i \in 1 .. Len(field) |-> NumberTurn(field[i])])

\* The loop of ParseNum.
LEMMA NumberIs ==
    ASSUME NEW field \in Seq(Digits)
    PROVE  \E f : NumberLoop(field, f) /\ ParseNum(field) = f[Len(field)]
<1> DEFINE n == Len(field)
           turn == [i \in 1 .. n |-> NumberTurn(field[i])]
           next(g, i) == 10 * g[i - 1] + DigitValue(field[i])
           h == CHOOSE g : g = [i \in 0 .. n |-> IF i = 0 THEN 0 ELSE next(g, i)]
<1>1. n \in Nat /\ \A i \in 1 .. n : DigitValue(field[i]) \in Nat
  BY DigitTyped
<1>2. turn \in [1 .. n -> [Nat -> Nat]]
  BY <1>1 DEF NumberTurn
<1> DEFINE Loop(g) == g = [i \in 0 .. n |-> IF i = 0 THEN 0 ELSE turn[i][g[i - 1]]]
           Def(g) == g = [i \in 0 .. n |-> IF i = 0 THEN 0 ELSE next(g, i)]
<1>3. \A i \in 1 .. n, x \in Nat : turn[i][x] = 10 * x + DigitValue(field[i])
  BY DEF NumberTurn
<1> HIDE DEF turn, n
<1>4. PICK f : IsLoop(f, n, Nat, 0, turn)
  BY <1>1, <1>2, LoopExists
<1>5. /\ f \in [0 .. n -> Nat] /\ f[0] = 0
      /\ \A i \in 1 .. n : f[i] = turn[i][f[i - 1]]
  BY <1>4 DEF IsLoop
<1>6. Def(f)
  <2>1. ASSUME NEW i \in 1 .. n PROVE f[i] = next(f, i)
    <3>1. f[i - 1] \in Nat /\ f[i] = turn[i][f[i - 1]]
      BY <1>1, <1>5
    <3> QED
      BY <1>3, <3>1
  <2> QED
    BY <1>1, <1>5, <2>1
<1>7. Def(h)
  BY <1>6
<1> HIDE DEF h
<1>8. IsLoop(h, n, Nat, 0, turn)
  <2>1. h[0] = 0 /\ \A i \in 1 .. n : h[i] = next(h, i)
    BY <1>1, <1>7
  <2> DEFINE U == {k \in 0 .. n : h[k] \in Nat}
  <2>2. 0 \in U
    BY <1>1, <2>1
  <2>3. ASSUME NEW k \in 0 .. n - 1, k \in U PROVE k + 1 \in U
    <3>1. k + 1 \in 1 .. n /\ (k + 1) - 1 = k /\ k + 1 \in 0 .. n
      BY <1>1
    <3>2. h[k + 1] = 10 * h[k] + DigitValue(field[k + 1])
      BY <2>1, <3>1
    <3> QED
      BY <1>1, <2>3, <3>1, <3>2
  <2>4. \A k \in 0 .. n : h[k] \in Nat
    <3>1. \A k \in 0 .. n - 1 : k \in U => k + 1 \in U
      BY <2>3
    <3> HIDE DEF U
    <3>2. 0 .. n \subseteq U
      BY <1>1, <2>2, <3>1, UpTo
    <3> QED
      BY <3>2 DEF U
  <2>5. h \in [0 .. n -> Nat]
    BY <1>7, <2>4
  <2>6. ASSUME NEW i \in 1 .. n PROVE h[i] = turn[i][h[i - 1]]
    <3>1. h[i - 1] \in Nat
      BY <1>1, <2>4
    <3> QED
      BY <1>3, <2>1, <3>1
  <2> QED
    BY <2>1, <2>5, <2>6 DEF IsLoop
<1>9. ParseNum(field) = h[n]
  BY DEF ParseNum, h, n
<1> QED
  BY <1>8, <1>9 DEF NumberLoop, turn, n

\* A digit more.
LEMMA NumberAppend ==
    ASSUME NEW field \in Seq(Digits), NEW char \in Digits
    PROVE  /\ ParseNum(field) \in Nat
           /\ ParseNum(Append(field, char)) = 10 * ParseNum(field) + DigitValue(char)
<1> DEFINE more == Append(field, char)
           n == Len(field)
           other == [i \in 1 .. n |-> NumberTurn(field[i])]
           turn == [i \in 1 .. n + 1 |-> NumberTurn(more[i])]
<1>1. /\ more \in Seq(Digits) /\ Len(more) = n + 1 /\ n \in Nat /\ more[n + 1] = char
      /\ \A i \in 1 .. n : more[i] = field[i]
  OBVIOUS
<1>2. PICK f : NumberLoop(more, f) /\ ParseNum(more) = f[n + 1]
  <2> HIDE DEF more
  <2> QED
    BY <1>1, NumberIs
<1>3. PICK g : NumberLoop(field, g) /\ ParseNum(field) = g[n]
  BY NumberIs
<1> HIDE DEF more
<1>4. IsLoop(f, n + 1, Nat, 0, turn) /\ IsLoop(g, n, Nat, 0, other)
  BY <1>1, <1>2, <1>3 DEF NumberLoop
<1>5. \A i \in 1 .. n : other[i] = turn[i]
  BY <1>1
<1>6. turn[n + 1] = NumberTurn(char)
  BY <1>1
<1> HIDE DEF n, turn, other
<1>7. n \in 0 .. n + 1 /\ n + 1 \in Nat /\ n + 1 \in 1 .. n + 1 /\ (n + 1) - 1 = n
  BY <1>1
<1>8. g[n] = f[n]
  BY <1>4, <1>5, <1>7, LoopsAgree
<1>9. f[n] \in Nat /\ f[n + 1] = turn[n + 1][f[n]]
  BY <1>4, <1>7 DEF IsLoop
<1>10. f[n + 1] = 10 * f[n] + DigitValue(char)
  BY <1>6, <1>9 DEF NumberTurn
<1> QED
  BY <1>2, <1>3, <1>8, <1>9, <1>10 DEF more

\* The last digit of a number, and the others.
LEMMA Divided ==
    ASSUME NEW n \in Nat
    PROVE  /\ n \div 10 \in Nat /\ n % 10 \in 0 .. 9 /\ n = 10 * (n \div 10) + (n % 10)
           /\ n >= 10 => n \div 10 < n
OBVIOUS

\* Decimal, as far as a number needs it.
DigitsOf(f, n) ==
    IF n < 10 THEN <<Digit[n + 1]>> ELSE Append(f[n \div 10], Digit[(n % 10) + 1])

DecimalsTo(f, n) ==
    f \in [0 .. n -> Seq(Digits)] /\ \A k \in 0 .. n : f[k] = DigitsOf(f, k)

\* They are digits.
LEMMA DigitsOfTyped ==
    ASSUME NEW f, NEW n \in Nat, n >= 10 => f[n \div 10] \in Seq(Digits)
    PROVE  DigitsOf(f, n) \in Seq(Digits)
<1>1. \A d \in 0 .. 9 : Digit[d + 1] \in Digits
  BY DigitsDiffer DEF Digits, Range
<1>2. CASE n < 10
  <2>1. n \in 0 .. 9
    BY <1>2
  <2>2. Digit[n + 1] \in Digits
    BY <1>1, <2>1
  <2>3. <<Digit[n + 1]>> \in Seq(Digits)
    BY <2>2
  <2> QED
    BY <1>2, <2>3 DEF DigitsOf
<1>3. CASE ~(n < 10)
  <2>1. n >= 10 /\ n % 10 \in 0 .. 9
    BY <1>3, Divided
  <2>2. f[n \div 10] \in Seq(Digits) /\ Digit[(n % 10) + 1] \in Digits
    BY <1>1, <2>1
  <2>3. Append(f[n \div 10], Digit[(n % 10) + 1]) \in Seq(Digits)
    BY <2>2
  <2> QED
    BY <1>3, <2>3 DEF DigitsOf
<1> QED
  BY <1>2, <1>3

\* There is such a function for every n.
LEMMA DecimalsExist ==
    ASSUME NEW n \in Nat
    PROVE  \E f : DecimalsTo(f, n)
<1> DEFINE T == {k \in 0 .. n : \E f : DecimalsTo(f, k)}
<1>1. 0 \in T
  <2> DEFINE f == [k \in 0 .. 0 |-> <<Digit[1]>>]
  <2>1. <<Digit[1]>> \in Seq(Digits)
    <3>1. 1 \in DOMAIN Digit
      BY DigitsDiffer
    <3>2. Digit[1] \in Digits
      BY <3>1 DEF Digits, Range
    <3> QED
      BY <3>2
  <2>2. f \in [0 .. 0 -> Seq(Digits)]
    BY <2>1
  <2>3. ASSUME NEW k \in 0 .. 0 PROVE f[k] = DigitsOf(f, k)
    <3>1. k = 0 /\ k < 10 /\ k + 1 = 1
      OBVIOUS
    <3> QED
      BY <3>1 DEF DigitsOf
  <2> HIDE DEF f
  <2>4. DecimalsTo(f, 0)
    BY <2>2, <2>3 DEF DecimalsTo
  <2> QED
    BY <2>4
<1>2. ASSUME NEW k \in 0 .. n - 1, k \in T PROVE k + 1 \in T
  <2>1. PICK f : DecimalsTo(f, k)
    BY <1>2
  <2>2. f \in [0 .. k -> Seq(Digits)] /\ \A i \in 0 .. k : f[i] = DigitsOf(f, i)
    BY <2>1 DEF DecimalsTo
  <2> DEFINE m == k + 1
             g == [i \in 0 .. m |-> IF i = m THEN DigitsOf(f, m) ELSE f[i]]
  <2>3. m \in 0 .. n /\ m \in Nat /\ k \in Nat
    OBVIOUS
  <2>4. ASSUME NEW i \in 0 .. m, i >= 10 PROVE i \div 10 \in 0 .. k
    BY <2>4, Divided
  <2>5. DigitsOf(f, m) \in Seq(Digits)
    <3>1. m >= 10 => f[m \div 10] \in Seq(Digits)
      BY <2>2, <2>3, <2>4
    <3> HIDE DEF m
    <3> QED
      BY <2>3, <3>1, DigitsOfTyped
  <2>6. /\ g \in [0 .. m -> Seq(Digits)] /\ g[m] = DigitsOf(f, m)
        /\ \A i \in 0 .. k : g[i] = f[i]
    <3>1. \A i \in 0 .. m : i = m \/ i \in 0 .. k
      OBVIOUS
    <3>2. \A i \in 0 .. k : i \in 0 .. m /\ i # m
      OBVIOUS
    <3> HIDE DEF m
    <3> QED
      BY <2>2, <2>3, <2>5, <3>1, <3>2
  <2> HIDE DEF g
  <2>7. ASSUME NEW i \in 0 .. m PROVE g[i] = DigitsOf(g, i)
    <3>1. i >= 10 => g[i \div 10] = f[i \div 10]
      BY <2>4, <2>6
    <3>2. DigitsOf(g, i) = DigitsOf(f, i)
      BY <3>1 DEF DigitsOf
    <3>3. i = m \/ i \in 0 .. k
      OBVIOUS
    <3> QED
      BY <2>2, <2>6, <3>2, <3>3
  <2>8. DecimalsTo(g, m)
    BY <2>6, <2>7 DEF DecimalsTo
  <2> QED
    BY <2>3, <2>8
<1>3. n \in T
  <2>1. \A k \in 0 .. n - 1 : k \in T => k + 1 \in T
    BY <1>2
  <2> HIDE DEF T
  <2>2. 0 .. n \subseteq T
    BY <1>1, <2>1, UpTo
  <2> QED
    BY <2>2
<1> QED
  BY <1>3

\* Two of them agree where both are defined.
LEMMA DecimalsAgree ==
    ASSUME NEW n \in Nat, NEW m \in 0 .. n, NEW f, NEW g, DecimalsTo(f, n), DecimalsTo(g, m)
    PROVE  \A k \in 0 .. m : f[k] = g[k]
<1> DEFINE U == {k \in 0 .. m : \A j \in 0 .. k : f[j] = g[j]}
<1>1. /\ \A k \in 0 .. n : f[k] = DigitsOf(f, k)
      /\ \A k \in 0 .. m : g[k] = DigitsOf(g, k)
  BY DEF DecimalsTo
<1>2. ASSUME NEW k \in 0 .. m, \A j \in 0 .. k - 1 : f[j] = g[j] PROVE f[k] = g[k]
  <2>1. k \in 0 .. n /\ k \in Nat
    OBVIOUS
  <2>2. k >= 10 => k \div 10 \in 0 .. k - 1
    BY Divided
  <2>3. DigitsOf(f, k) = DigitsOf(g, k)
    BY <1>2, <2>1, <2>2 DEF DigitsOf
  <2> QED
    BY <1>1, <2>1, <2>3
<1>3. 0 \in U
  <2>1. 0 \in 0 .. m /\ \A j \in 0 .. 0 - 1 : f[j] = g[j]
    OBVIOUS
  <2>2. f[0] = g[0]
    BY <1>2, <2>1
  <2>3. \A j \in 0 .. 0 : j = 0
    OBVIOUS
  <2> QED
    BY <2>1, <2>2, <2>3
<1>4. ASSUME NEW k \in 0 .. m - 1, k \in U PROVE k + 1 \in U
  <2> DEFINE l == k + 1
  <2>1. l \in 0 .. m /\ l - 1 = k /\ \A j \in 0 .. l : j = l \/ j \in 0 .. k
    OBVIOUS
  <2>2. \A j \in 0 .. k : f[j] = g[j]
    BY <1>4
  <2> HIDE DEF l
  <2>3. f[l] = g[l]
    BY <1>2, <2>1, <2>2
  <2>4. l \in U
    BY <2>1, <2>2, <2>3
  <2> QED
    BY <2>4 DEF l
<1>5. m \in U
  <2>1. \A k \in 0 .. m - 1 : k \in U => k + 1 \in U
    BY <1>4
  <2> HIDE DEF U
  <2>2. 0 .. m \subseteq U
    BY <1>3, <2>1, UpTo
  <2> QED
    BY <2>2
<1> QED
  BY <1>5

\* Decimal is what its definition says.
LEMMA DecimalIs ==
    /\ Decimal \in [Nat -> Seq(Digits)]
    /\ \A n \in Nat : Decimal[n] = DigitsOf(Decimal, n)
<1> DEFINE Def(h) == h = [n \in Nat |->
                             IF n < 10 THEN <<Digit[n + 1]>>
                             ELSE Append(h[n \div 10], Digit[(n % 10) + 1])]
           F(n) == CHOOSE f : DecimalsTo(f, n)
           D == [n \in Nat |-> F(n)[n]]
<1>1. \A n \in Nat : DecimalsTo(F(n), n)
  BY DecimalsExist
<1> HIDE DEF F
<1>2. D \in [Nat -> Seq(Digits)]
  <2>1. \A n \in Nat : F(n) \in [0 .. n -> Seq(Digits)] /\ n \in 0 .. n
    BY <1>1 DEF DecimalsTo
  <2> QED
    BY <2>1
<1>3. ASSUME NEW n \in Nat PROVE D[n] = DigitsOf(D, n)
  <2>1. D[n] = F(n)[n] /\ n \in 0 .. n
    OBVIOUS
  <2>2. F(n)[n] = DigitsOf(F(n), n)
    BY <1>1, <2>1 DEF DecimalsTo
  <2>3. ASSUME n >= 10 PROVE F(n)[n \div 10] = D[n \div 10]
    <3> DEFINE k == n \div 10
    <3>1. k \in 0 .. n /\ k \in 0 .. k /\ k \in Nat
      BY <2>3, Divided
    <3> HIDE DEF k
    <3>2. F(n)[k] = F(k)[k]
      BY <1>1, <3>1, DecimalsAgree
    <3>3. D[k] = F(k)[k]
      BY <3>1
    <3> QED
      BY <3>2, <3>3 DEF k
  <2> HIDE DEF D
  <2>4. DigitsOf(F(n), n) = DigitsOf(D, n)
    BY <2>3 DEF DigitsOf
  <2> QED
    BY <2>1, <2>2, <2>4
<1> HIDE DEF D
<1>4. Def(D)
  BY <1>2, <1>3 DEF DigitsOf
<1> DEFINE h == CHOOSE g : Def(g)
<1>5. Def(h)
  BY <1>4
<1>6. Decimal = h
  BY DEF Decimal
<1> HIDE DEF h
<1>7. \A n \in Nat : h[n] = DigitsOf(h, n)
  BY <1>5 DEF DigitsOf
<1>8. \A n \in Nat : h[n] \in Seq(Digits)
  <2> SUFFICES ASSUME NEW n \in Nat PROVE h[n] \in Seq(Digits)
    OBVIOUS
  <2> DEFINE U == {k \in 0 .. n : \A j \in 0 .. k : h[j] \in Seq(Digits)}
  <2>1. ASSUME NEW k \in Nat, \A j \in 0 .. k - 1 : h[j] \in Seq(Digits)
        PROVE  h[k] \in Seq(Digits)
    <3>1. k >= 10 => k \div 10 \in 0 .. k - 1
      BY Divided
    <3>2. DigitsOf(h, k) \in Seq(Digits)
      BY <2>1, <3>1, DigitsOfTyped
    <3> QED
      BY <1>7, <3>2
  <2>2. 0 \in U
    <3>1. h[0] \in Seq(Digits)
      BY <2>1
    <3>2. \A j \in 0 .. 0 : j = 0
      OBVIOUS
    <3> QED
      BY <3>1, <3>2
  <2>3. ASSUME NEW k \in 0 .. n - 1, k \in U PROVE k + 1 \in U
    <3> DEFINE l == k + 1
    <3>1. l \in 0 .. n /\ l \in Nat /\ l - 1 = k /\ \A j \in 0 .. l : j = l \/ j \in 0 .. k
      OBVIOUS
    <3>2. \A j \in 0 .. k : h[j] \in Seq(Digits)
      BY <2>3
    <3> HIDE DEF l
    <3>3. h[l] \in Seq(Digits)
      BY <2>1, <3>1, <3>2
    <3>4. l \in U
      BY <3>1, <3>2, <3>3
    <3> QED
      BY <3>4 DEF l
  <2>4. n \in U
    <3>1. \A k \in 0 .. n - 1 : k \in U => k + 1 \in U
      BY <2>3
    <3> HIDE DEF U
    <3>2. 0 .. n \subseteq U
      BY <2>2, <3>1, UpTo
    <3> QED
      BY <3>2
  <2> QED
    BY <2>4
<1>9. h \in [Nat -> Seq(Digits)]
  BY <1>5, <1>8
<1> QED
  BY <1>6, <1>7, <1>9

\* A number in decimal is read back.
LEMMA DecimalReads ==
    ASSUME NEW n \in Nat
    PROVE  /\ Decimal[n] \in Seq(Digits) /\ Decimal[n] # <<>>
           /\ ParseNum(Decimal[n]) = n
<1>1. \A k \in Nat : Decimal[k] \in Seq(Digits) /\ Decimal[k] = DigitsOf(Decimal, k)
  BY DecimalIs
<1>2. \A d \in 0 .. 9 : Digit[d + 1] \in Digits /\ DigitValue(Digit[d + 1]) = d
  BY DigitsDiffer, DigitIs DEF Digits, Range
<1>3. ParseNum(<<>>) = 0 /\ <<>> \in Seq(Digits)
  <2>1. <<>> \in Seq(Digits) /\ Len(<<>>) = 0
    OBVIOUS
  <2>2. PICK f : NumberLoop(<<>>, f) /\ ParseNum(<<>>) = f[0]
    BY <2>1, NumberIs
  <2> QED
    BY <2>1, <2>2 DEF NumberLoop, IsLoop
<1> DEFINE U == {k \in 0 .. n : \A j \in 0 .. k : ParseNum(Decimal[j]) = j}
<1>4. ASSUME NEW k \in Nat, \A j \in 0 .. k - 1 : ParseNum(Decimal[j]) = j
      PROVE  ParseNum(Decimal[k]) = k
  <2>1. CASE k < 10
    <3>1. k \in 0 .. 9
      BY <2>1
    <3> DEFINE char == Digit[k + 1]
    <3>2. char \in Digits /\ DigitValue(char) = k /\ Decimal[k] = <<char>>
      BY <1>1, <1>2, <2>1, <3>1 DEF DigitsOf
    <3> HIDE DEF char
    <3>3. Append(<<>>, char) = <<char>>
      OBVIOUS
    <3>4. ParseNum(Append(<<>>, char)) = 10 * ParseNum(<<>>) + DigitValue(char)
      BY <1>3, <3>2, NumberAppend
    <3> QED
      BY <1>3, <3>2, <3>3, <3>4
  <2>2. CASE ~(k < 10)
    <3> DEFINE q == k \div 10
               d == k % 10
               char == Digit[d + 1]
    <3>1. q \in Nat /\ d \in 0 .. 9 /\ k = 10 * q + d /\ q \in 0 .. k - 1
      BY <2>2, Divided
    <3>2. Decimal[k] = Append(Decimal[q], char)
      BY <1>1, <2>2 DEF DigitsOf
    <3> HIDE DEF q, d
    <3>3. char \in Digits /\ DigitValue(char) = d
      BY <1>2, <3>1
    <3> HIDE DEF char
    <3>4. Decimal[q] \in Seq(Digits) /\ ParseNum(Decimal[q]) = q
      BY <1>1, <1>4, <3>1
    <3>5. ParseNum(Append(Decimal[q], char)) = 10 * ParseNum(Decimal[q]) + DigitValue(char)
      BY <3>3, <3>4, NumberAppend
    <3> QED
      BY <3>1, <3>2, <3>3, <3>4, <3>5
  <2> QED
    BY <2>1, <2>2
<1>5. 0 \in U
  <2>1. ParseNum(Decimal[0]) = 0
    BY <1>4
  <2>2. \A j \in 0 .. 0 : j = 0
    OBVIOUS
  <2> QED
    BY <2>1, <2>2
<1>6. ASSUME NEW k \in 0 .. n - 1, k \in U PROVE k + 1 \in U
  <2> DEFINE l == k + 1
  <2>1. l \in 0 .. n /\ l \in Nat /\ l - 1 = k /\ \A j \in 0 .. l : j = l \/ j \in 0 .. k
    OBVIOUS
  <2>2. \A j \in 0 .. k : ParseNum(Decimal[j]) = j
    BY <1>6
  <2> HIDE DEF l
  <2>3. ParseNum(Decimal[l]) = l
    BY <1>4, <2>1, <2>2
  <2>4. l \in U
    BY <2>1, <2>2, <2>3
  <2> QED
    BY <2>4 DEF l
<1>7. ParseNum(Decimal[n]) = n
  <2>1. \A k \in 0 .. n - 1 : k \in U => k + 1 \in U
    BY <1>6
  <2> HIDE DEF U
  <2>2. 0 .. n \subseteq U
    BY <1>5, <2>1, UpTo
  <2>3. n \in U /\ n \in 0 .. n
    BY <2>2
  <2> QED
    BY <2>3 DEF U
<1>8. Decimal[n] # <<>>
  <2>1. CASE n < 10
    <3>1. Decimal[n] = <<Digit[n + 1]>>
      BY <1>1, <2>1 DEF DigitsOf
    <3> QED
      BY <3>1
  <2>2. CASE ~(n < 10)
    <3>1. n \div 10 \in Nat /\ n % 10 \in 0 .. 9
      BY Divided
    <3>2. /\ Decimal[n \div 10] \in Seq(Digits) /\ Digit[(n % 10) + 1] \in Digits
          /\ Decimal[n] = Append(Decimal[n \div 10], Digit[(n % 10) + 1])
      BY <1>1, <1>2, <2>2, <3>1 DEF DigitsOf
    <3>3. \A s \in Seq(Digits), char \in Digits : Len(Append(s, char)) = Len(s) + 1
      OBVIOUS
    <3>4. \A s \in Seq(Digits) : Len(s) + 1 # Len(<<>>)
      OBVIOUS
    <3> QED
      BY <3>2, <3>3, <3>4
  <2> QED
    BY <2>1, <2>2
<1> QED
  BY <1>1, <1>7, <1>8

-----------------------------------------------------------------------------
(* Cells.                                                                    *)

\* The field a value is written as and read from.
FieldOf(c, value) ==
    CASE ColumnTypes[c] = "TEXT" -> value
      [] ColumnTypes[c] = "CHAR" -> <<value>>
      [] ColumnTypes[c] = "INTEGER" -> Decimal[value]

\* The columns are numbered, and there are three types of them.
LEMMA ColumnsAre ==
    /\ Len(ColumnTypes) \in Nat \ {0} /\ Columns = 1 .. Len(ColumnTypes)
    /\ \A c \in Columns : \/ ColumnTypes[c] = "TEXT"
                          \/ ColumnTypes[c] = "CHAR"
                          \/ ColumnTypes[c] = "INTEGER"
<1>1. ColumnTypes \in Seq({"TEXT", "CHAR", "INTEGER"}) /\ ColumnTypes # <<>>
  BY ColumnTypeAssumption
<1>2. Len(ColumnTypes) \in Nat /\ DOMAIN ColumnTypes = 1 .. Len(ColumnTypes)
      /\ Len(ColumnTypes) # 0
  BY <1>1
<1>3. \A c \in 1 .. Len(ColumnTypes) : ColumnTypes[c] \in {"TEXT", "CHAR", "INTEGER"}
  BY <1>1
<1> QED
  BY <1>2, <1>3 DEF Columns

\* A sequence of one.
LEMMA Singleton ==
    ASSUME NEW S, NEW x \in S
    PROVE  /\ <<x>> \in Seq(S) /\ Len(<<x>>) = 1 /\ <<x>> # <<>> /\ <<x>>[1] = x
           /\ Last(<<x>>) = x
BY DEF Last

\* Digits are characters that mean nothing to the parser.
LEMMA DigitsTyped ==
    ASSUME NEW field \in Seq(Digits)
    PROVE  /\ field \in Seq(STRING)
           /\ \A i \in 1 .. Len(field) : Plain(field[i]) /\ field[i] # CR
           /\ field # <<>> => ParsesAsNumber(field)
<1>1. \A i \in 1 .. Len(field) : field[i] \in Digits
  OBVIOUS
<1>2. \A i \in 1 .. Len(field) :
          field[i] \in STRING /\ Plain(field[i]) /\ field[i] # CR
  BY <1>1, DigitTyped
<1>3. field \in Seq(STRING)
  <2>1. field \in [1 .. Len(field) -> STRING] /\ Len(field) \in Nat
    BY <1>2
  <2> QED
    BY <2>1
<1>4. Range(field) \subseteq Range(Digit)
  <2>1. DOMAIN field = 1 .. Len(field)
    OBVIOUS
  <2> QED
    BY <1>1, <2>1 DEF Range, Digits
<1> QED
  BY <1>2, <1>3, <1>4 DEF ParsesAsNumber

\* The parser takes the field and gets the value back.
LEMMA FieldBack ==
    ASSUME NEW c \in Columns, NEW value \in ValuesOf(c)
    PROVE  /\ FieldOf(c, value) \in Seq(STRING) /\ <<c, FieldOf(c, value)>> \in CellOf
           /\ ~FieldRejected(c, FieldOf(c, value))
           /\ Value(c, FieldOf(c, value)) = value
<1> DEFINE field == FieldOf(c, value)
<1>1. field \in Seq(STRING) /\ ~FieldRejected(c, field) /\ Value(c, field) = value
  <2>1. CASE ColumnTypes[c] = "TEXT"
    <3>1. field = value /\ value \in Seq(STRING)
      BY <2>1 DEF FieldOf, ValuesOf
    <3> QED
      BY <2>1, <3>1 DEF FieldRejected, Value
  <2>2. CASE ColumnTypes[c] = "CHAR"
    <3>1. field = <<value>> /\ value \in STRING
      BY <2>2 DEF FieldOf, ValuesOf
    <3>2. <<value>> \in Seq(STRING) /\ <<value>> # <<>> /\ <<value>>[1] = value
      BY <3>1, Singleton
    <3> QED
      BY <2>2, <3>1, <3>2 DEF FieldRejected, Value
  <2>3. CASE ColumnTypes[c] = "INTEGER"
    <3>1. field = Decimal[value] /\ value \in Nat
      BY <2>3 DEF FieldOf, ValuesOf
    <3>2. /\ Decimal[value] \in Seq(Digits) /\ Decimal[value] # <<>>
          /\ ParseNum(Decimal[value]) = value
      BY <3>1, DecimalReads
    <3>3. Decimal[value] \in Seq(STRING) /\ ParsesAsNumber(Decimal[value])
      BY <3>2, DigitsTyped
    <3> QED
      BY <2>3, <3>1, <3>2, <3>3 DEF FieldRejected, Value
  <2> QED
    BY <2>1, <2>2, <2>3, ColumnsAre
<1>2. c \in Nat
  BY ColumnsAre
<1> QED
  BY <1>1, <1>2 DEF CellOf

\* A text made of two.
MadeOf(both, s, t) ==
    s \in Seq(STRING) /\ t \in Seq(STRING) /\ both = s \o t

\* Where the two lie that a text is made of.
LEMMA MadeLies ==
    ASSUME NEW text \in Seq(STRING), NEW n \in Nat, NEW both, NEW s, NEW t,
           MadeOf(both, s, t), Lies(text, n, both)
    PROVE  /\ Lies(text, n, s) /\ Lies(text, n + Len(s), t)
           /\ Len(both) = Len(s) + Len(t) /\ Len(s) \in Nat /\ Len(t) \in Nat
<1>1. s \in Seq(STRING) /\ t \in Seq(STRING) /\ both = s \o t
  BY DEF MadeOf
<1>2. Lies(text, n, s \o t)
  BY <1>1
<1>3. /\ Lies(text, n, s) /\ Lies(text, n + Len(s), t)
      /\ Len(s \o t) = Len(s) + Len(t)
  BY <1>1, <1>2, LieBoth
<1> QED
  BY <1>1, <1>3

\* A value in quotes.
InQuotes(cell, value) == cell = <<Quote>> \o Escaped(value) \o <<Quote>>

\* A quoted value is read up to its closing quote.
LEMMA QuotedRead ==
    ASSUME NEW text \in Seq(STRING), NEW n \in Nat, NEW value \in Seq(STRING),
           NEW cells, NEW col, Bare(text, n, cells, col, <<>>),
           NEW cell, InQuotes(cell, value),
           Lies(text, n, cell), text[(n + Len(cell)) + 1] # Quote
    PROVE  Bare(text, n + Len(cell), cells, col, value)
<1> DEFINE quote == <<Quote>>
           e == Escaped(value)
           m == n + 1
           o == m + Len(e)
<1>1. quote \in Seq(STRING) /\ Len(quote) = 1 /\ e \in Seq(STRING) /\ Len(e) \in Nat
  BY CharactersAssumption, DoublesTyped
<1> HIDE DEF e, quote
<1> DEFINE front == quote \o e
<1>2. MadeOf(front, quote, e) /\ MadeOf(cell, front, quote)
  BY <1>1 DEF InQuotes, MadeOf, e, quote
<1> HIDE DEF front
<1>3. Lies(text, n, cell)
  OBVIOUS
<1>4. /\ Lies(text, n, front) /\ Lies(text, n + Len(front), quote)
      /\ Len(cell) = Len(front) + Len(quote)
  BY <1>2, <1>3, MadeLies
<1>5. /\ Lies(text, n, quote) /\ Lies(text, n + Len(quote), e)
      /\ Len(front) = Len(quote) + Len(e)
  BY <1>2, <1>4, MadeLies
<1>6. /\ m \in Nat /\ o \in Nat /\ n + Len(cell) = o + 1
      /\ n + Len(front) = o /\ n + Len(quote) = m
  BY <1>1, <1>4, <1>5
<1>7. Lies(text, o, quote) /\ Lies(text, m, e)
  BY <1>4, <1>5, <1>6
<1>8. n + 1 <= Len(text) /\ text[n + 1] = Quote
  BY <1>5, LieOne DEF quote
<1>9. o + 1 <= Len(text) /\ text[o + 1] = Quote /\ text[(o + 1) + 1] # Quote
  BY <1>6, <1>7, LieOne DEF quote
<1>10. PICK p : Outside(text, n, p) /\ Reads(p, cells, col, <<>>)
  BY DEF Bare
<1>11. Quoted(text, m, cells, col, <<>>)
  BY <1>8, <1>10, CharactersAssumption, QuoteOpened, ReadsOn DEF Quoted
<1> HIDE DEF m
<1>12. Quoted(text, o, cells, col, value)
  <2>1. Quoted(text, m + Len(e), cells, col, value)
    BY <1>6, <1>7, <1>11, EscapedRead DEF e
  <2> QED
    BY <2>1
<1>13. PICK q : Inside(text, o, q) /\ Reads(q, cells, col, value)
  BY <1>12 DEF Quoted
<1> HIDE DEF o
<1>14. Outside(text, o + 1, Opened(q)) /\ Reads(Opened(q), cells, col, value)
  BY <1>9, <1>13, CharactersAssumption, QuoteClosed, ReadsOn DEF Twice
<1> QED
  BY <1>6, <1>14 DEF Bare

\* A cell is read as its field, up to the separator.
LEMMA CellRead ==
    ASSUME NEW text \in Seq(STRING), NEW n \in Nat, NEW c \in Columns,
           NEW value \in ValuesOf(c), NEW cells, NEW col,
           Bare(text, n, cells, col, <<>>), Lies(text, n, CellText(c, value)),
           text[(n + Len(CellText(c, value))) + 1] # Quote
    PROVE  Bare(text, n + Len(CellText(c, value)), cells, col, FieldOf(c, value))
<1> DEFINE cell == CellText(c, value)
<1>1. Lies(text, n, cell) /\ text[(n + Len(cell)) + 1] # Quote
  OBVIOUS
<1>2. CASE ColumnTypes[c] = "TEXT"
  <2>1. /\ InQuotes(cell, value)
        /\ FieldOf(c, value) = value /\ value \in Seq(STRING)
    BY <1>2 DEF CellText, FieldOf, InQuotes, ValuesOf
  <2> HIDE DEF cell
  <2>2. Bare(text, n + Len(cell), cells, col, value)
    BY <1>1, <2>1, QuotedRead
  <2> QED
    BY <2>1, <2>2 DEF cell
<1>3. CASE ColumnTypes[c] = "CHAR"
  <2> DEFINE field == <<value>>
  <2>1. /\ InQuotes(cell, field)
        /\ FieldOf(c, value) = field /\ value \in STRING
    BY <1>3 DEF CellText, FieldOf, InQuotes, ValuesOf
  <2>2. field \in Seq(STRING)
    BY <2>1, Singleton
  <2> HIDE DEF cell, field
  <2>3. Bare(text, n + Len(cell), cells, col, field)
    BY <1>1, <2>1, <2>2, QuotedRead
  <2> QED
    BY <2>1, <2>3 DEF cell
<1>4. CASE ColumnTypes[c] = "INTEGER"
  <2>1. cell = Decimal[value] /\ FieldOf(c, value) = Decimal[value] /\ value \in Nat
    BY <1>4 DEF CellText, FieldOf, ValuesOf
  <2>2. Decimal[value] \in Seq(Digits)
    BY <2>1, DecimalReads
  <2>3. Decimal[value] \in Seq(STRING) /\ \A i \in 1 .. Len(Decimal[value]) :
                                             Plain(Decimal[value][i])
    BY <2>2, DigitsTyped
  <2> HIDE DEF cell
  <2>4. Bare(text, n + Len(cell), cells, col, cell)
    BY <1>1, <2>1, <2>3, PlainRead
  <2> QED
    BY <2>1, <2>4 DEF cell
<1> QED
  BY <1>2, <1>3, <1>4, ColumnsAre

\* What is written for a value is a text.
LEMMA CellTextTyped ==
    ASSUME NEW c \in Columns, NEW value \in ValuesOf(c)
    PROVE  CellText(c, value) \in Seq(STRING)
<1>1. ASSUME NEW field \in Seq(STRING)
      PROVE  <<Quote>> \o Escaped(field) \o <<Quote>> \in Seq(STRING)
  <2>1. <<Quote>> \in Seq(STRING) /\ Escaped(field) \in Seq(STRING)
    BY CharactersAssumption, DoublesTyped
  <2> QED
    BY <2>1
<1>2. CASE ColumnTypes[c] = "TEXT"
  BY <1>1, <1>2 DEF CellText, ValuesOf
<1>3. CASE ColumnTypes[c] = "CHAR"
  <2>1. value \in STRING /\ CellText(c, value) = <<Quote>> \o Escaped(<<value>>) \o <<Quote>>
    BY <1>3 DEF CellText, ValuesOf
  <2>2. <<value>> \in Seq(STRING)
    BY <2>1, Singleton
  <2> QED
    BY <1>1, <2>1, <2>2
<1>4. CASE ColumnTypes[c] = "INTEGER"
  <2>1. value \in Nat /\ CellText(c, value) = Decimal[value]
    BY <1>4 DEF CellText, ValuesOf
  <2> QED
    BY <2>1, DecimalReads, DigitsTyped
<1> QED
  BY <1>2, <1>3, <1>4, ColumnsAre

-----------------------------------------------------------------------------
(* Rows.                                                                     *)

\* Behind a field, and behind a row.
LEMMA EndsRead ==
    ASSUME NEW p, NEW cells, NEW c \in Columns, NEW field \in Seq(STRING),
           Reads(p, cells, c, field), ~FieldRejected(c, field)
    PROVE  /\ Reads(EndOfField(p), Append(cells, <<c, field>>), c + 1, <<>>)
           /\ DropCR(field) = field =>
                  /\ Reads(EndOfRow(p), Append(cells, <<c, field>>), 1, <<>>)
                  /\ EndOfRow(p).row_started = FALSE
<1>1. /\ p \in ParseState /\ p.thrown = FALSE
      /\ p.cells = cells /\ p.col = c /\ p.field = field
  BY DEF Reads
<1>2. EndOfField(p) \in ParseState /\ EndOfRow(p) \in ParseState
  <2>1. Quote \in STRING
    BY CharactersAssumption
  <2> QED
    BY <1>1, <2>1, BranchesTyped
<1> DEFINE all == Append(p.cells, <<c, field>>)
           q == [p EXCEPT !.cells = all, !.field = <<>>]
<1>3. AppendField(p, field) = q
  BY <1>1 DEF AppendField
<1> HIDE DEF all
<1>4. q \in ParseState
  BY <1>1, <1>3, AppendFieldTyped
<1>5. q.cells = all /\ q.field = <<>> /\ q.col = c /\ q.thrown = FALSE
  BY <1>1 DEF ParseState
<1> HIDE DEF q
<1>6. /\ EndOfField(p).cells = all /\ EndOfField(p).field = <<>>
      /\ EndOfField(p).col = c + 1 /\ EndOfField(p).thrown = FALSE
  BY <1>1, <1>3, <1>4, <1>5 DEF EndOfField, ParseState
<1>7. ASSUME DropCR(field) = field
      PROVE  /\ EndOfRow(p).cells = all /\ EndOfRow(p).field = <<>>
             /\ EndOfRow(p).col = 1 /\ EndOfRow(p).thrown = FALSE
             /\ EndOfRow(p).row_started = FALSE
  BY <1>1, <1>3, <1>4, <1>5, <1>7 DEF EndOfRow, ParseState
<1>8. all = Append(cells, <<c, field>>)
  BY <1>1 DEF all
<1> QED
  BY <1>2, <1>6, <1>7, <1>8 DEF Reads

\* The loops are between two rows.
Between(text, n, cells) ==
    \E p : /\ Outside(text, n, p) /\ Reads(p, cells, 1, <<>>)
           /\ p.row_started = FALSE

\* A cell and its separator.
LEMMA FieldRead ==
    ASSUME NEW text \in Seq(STRING), NEW n \in Nat, NEW c \in Columns,
           NEW value \in ValuesOf(c), NEW cells, Bare(text, n, cells, c, <<>>),
           NEW piece, NEW mark, MadeOf(piece, CellText(c, value), <<mark>>),
           Lies(text, n, piece)
    PROVE  LET all == Append(cells, <<c, FieldOf(c, value)>>)
               end == n + Len(piece)
           IN  /\ end \in Nat
               /\ mark = Comma => Bare(text, end, all, c + 1, <<>>)
               /\ mark = Newline /\ DropCR(FieldOf(c, value)) = FieldOf(c, value)
                      => Between(text, end, all)
<1> DEFINE cell == CellText(c, value)
           field == FieldOf(c, value)
           all == Append(cells, <<c, field>>)
           m == n + Len(cell)
<1> DEFINE sep == <<mark>>
<1>1. MadeOf(piece, cell, sep) /\ Lies(text, n, piece)
  OBVIOUS
<1> HIDE DEF cell, sep
<1>2. /\ Lies(text, n, cell) /\ Lies(text, m, sep)
      /\ Len(piece) = Len(cell) + Len(sep) /\ Len(cell) \in Nat
  BY <1>1, MadeLies
<1>3. m \in Nat /\ n + Len(piece) = m + 1
  <2>1. Len(sep) = 1
    BY DEF sep
  <2> QED
    BY <1>2, <2>1
<1>4. m + 1 <= Len(text) /\ text[m + 1] = mark
  BY <1>2, <1>3, LieOne DEF sep
<1>5. field \in Seq(STRING) /\ ~FieldRejected(c, field)
  BY FieldBack
<1>6. ASSUME mark # Quote PROVE Bare(text, m, cells, c, field)
  BY <1>2, <1>4, <1>6, CellRead DEF cell
<1> HIDE DEF field, m
<1>7. ASSUME mark = Comma PROVE Bare(text, m + 1, all, c + 1, <<>>)
  <2>1. PICK p : Outside(text, m, p) /\ Reads(p, cells, c, field)
    BY <1>6, <1>7, CharactersDiffer DEF Bare
  <2>2. ~FieldRejected(p.col, p.field)
    BY <1>5, <2>1 DEF Reads
  <2>3. Outside(text, m + 1, EndOfField(p))
    BY <1>4, <1>7, <2>1, <2>2, CommaEnds
  <2>4. Reads(EndOfField(p), all, c + 1, <<>>)
    BY <1>5, <2>1, EndsRead
  <2> QED
    BY <2>3, <2>4 DEF Bare
<1>8. ASSUME mark = Newline, DropCR(field) = field PROVE Between(text, m + 1, all)
  <2>1. PICK p : Outside(text, m, p) /\ Reads(p, cells, c, field)
    BY <1>6, <1>8, CharactersDiffer DEF Bare
  <2>2. ~FieldRejected(p.col, DropCR(p.field))
    BY <1>5, <1>8, <2>1 DEF Reads
  <2>3. Outside(text, m + 1, EndOfRow(p))
    BY <1>4, <1>8, <2>1, <2>2, NewlineEnds
  <2>4. Reads(EndOfRow(p), all, 1, <<>>) /\ EndOfRow(p).row_started = FALSE
    BY <1>5, <1>8, <2>1, EndsRead
  <2> QED
    BY <2>3, <2>4 DEF Between
<1> QED
  BY <1>3, <1>7, <1>8 DEF field

\* A batch whose first columns have a value more, of row r.
RowPart(before, batch, r, k) ==
    [c \in Columns |-> IF c <= k THEN Append(before[c], batch[c][r]) ELSE before[c]]

\* A field more is a value more in its column.
LEMMA RowPartGrows ==
    ASSUME NEW before, NEW batch, NEW r, NEW cells \in Seq(CellOf), NEW c \in Columns,
           BatchOf(cells) = RowPart(before, batch, r, c - 1), batch[c][r] \in ValuesOf(c)
    PROVE  /\ Append(cells, <<c, FieldOf(c, batch[c][r])>>) \in Seq(CellOf)
           /\ BatchOf(Append(cells, <<c, FieldOf(c, batch[c][r])>>))
                  = RowPart(before, batch, r, c)
<1> DEFINE value == batch[c][r]
           cell == <<c, FieldOf(c, value)>>
           all == Append(cells, cell)
           one == BatchOf(cells)
<1>1. cell \in CellOf /\ cell[1] = c /\ Value(cell[1], cell[2]) = value
  BY FieldBack
<1> HIDE DEF cell, value
<1>2. one \in Batches /\ BatchOf(all) = BatchTurn(cell)[one]
  BY <1>1, BatchAppend
<1>3. /\ BatchTurn(cell)[one] \in Batches
      /\ \A d \in Columns : BatchTurn(cell)[one][d] =
             IF d = c THEN Append(one[d], value) ELSE one[d]
  BY <1>1, <1>2, BatchTurnIs
<1>4. c \in Nat /\ \A d \in Columns : d \in Nat
  BY ColumnsAre
<1>5. \A d \in Columns : one[d] = IF d <= c - 1 THEN Append(before[d], batch[d][r]) ELSE before[d]
  BY DEF RowPart
<1> HIDE DEF one
<1>6. ASSUME NEW d \in Columns
      PROVE  BatchTurn(cell)[one][d]
                 = IF d <= c THEN Append(before[d], batch[d][r]) ELSE before[d]
  <2>1. CASE d = c
    <3>1. ~(d <= c - 1) /\ d <= c
      BY <1>4, <2>1
    <3> QED
      BY <1>3, <1>5, <2>1, <3>1 DEF value
  <2>2. CASE d # c
    <3>1. d <= c - 1 <=> d <= c
      BY <1>4, <2>2
    <3> QED
      BY <1>3, <1>5, <2>2, <3>1
  <2> QED
    BY <2>1, <2>2
<1>7. BatchTurn(cell)[one] = RowPart(before, batch, r, c)
  BY <1>3, <1>6 DEF Batches, RowPart
<1>8. all \in Seq(CellOf)
  BY <1>1
<1> QED
  BY <1>2, <1>7, <1>8 DEF cell, value

\* The cells of a row, each with its separator.
Separator(c) == IF c < Len(ColumnTypes) THEN Comma ELSE Newline

RowPieces(batch, r) ==
    [c \in Columns |-> CellText(c, batch[c][r])
                         \o IF c < Len(ColumnTypes) THEN <<Comma>> ELSE <<Newline>>]

\* They are texts, and the text of the row is made of them.
LEMMA RowPiecesAre ==
    ASSUME NEW batch, NEW r, \A c \in Columns : batch[c][r] \in ValuesOf(c)
    PROVE  /\ RowPieces(batch, r) \in Seq(Seq(STRING))
           /\ Len(RowPieces(batch, r)) = Len(ColumnTypes)
           /\ \A c \in Columns : MadeOf(RowPieces(batch, r)[c], CellText(c, batch[c][r]),
                                        <<Separator(c)>>)
           /\ RowText(batch, r) = FlattenSeq(RowPieces(batch, r))
           /\ RowText(batch, r) \in Seq(STRING)
<1> DEFINE seqs == RowPieces(batch, r)
<1>1. ASSUME NEW c \in Columns
      PROVE  /\ MadeOf(seqs[c], CellText(c, batch[c][r]), <<Separator(c)>>)
             /\ seqs[c] \in Seq(STRING)
  <2> DEFINE cell == CellText(c, batch[c][r])
             sep == <<Separator(c)>>
  <2>1. cell \in Seq(STRING)
    BY CellTextTyped
  <2>2. seqs[c] = cell \o IF c < Len(ColumnTypes) THEN <<Comma>> ELSE <<Newline>>
    BY DEF RowPieces
  <2>3. (IF c < Len(ColumnTypes) THEN <<Comma>> ELSE <<Newline>>) = sep
    BY DEF Separator
  <2>4. sep \in Seq(STRING)
    <3>1. Separator(c) \in STRING
      BY CharactersAssumption DEF Separator
    <3> QED
      BY <3>1, Singleton
  <2> HIDE DEF cell, sep, seqs
  <2>5. seqs[c] = cell \o sep
    BY <2>2, <2>3
  <2>6. MadeOf(seqs[c], cell, sep) /\ seqs[c] \in Seq(STRING)
    BY <2>1, <2>4, <2>5 DEF MadeOf
  <2> QED
    BY <2>6 DEF cell, sep
<1>2. seqs \in [1 .. Len(ColumnTypes) -> Seq(STRING)] /\ Len(ColumnTypes) \in Nat
  <2>1. seqs = [c \in Columns |-> seqs[c]]
    BY DEF RowPieces
  <2> HIDE DEF seqs
  <2> QED
    BY <1>1, <2>1, ColumnsAre
<1> HIDE DEF seqs
<1>3. seqs \in Seq(Seq(STRING)) /\ Len(seqs) = Len(ColumnTypes)
  BY <1>2
<1>4. RowText(batch, r) = FlattenSeq(seqs)
  BY DEF RowText, RowPieces, seqs
<1>5. FlattenSeq(seqs) \in Seq(STRING)
  <2>1. <<>> \in Seq(STRING)
    OBVIOUS
  <2> QED
    BY <1>3, <2>1, FlattenAppend
<1> QED
  BY <1>1, <1>3, <1>4, <1>5 DEF seqs

\* Between two rows, with the columns read so far.
BetweenWith(text, n, before) ==
    \E cells \in Seq(CellOf) : Between(text, n, cells) /\ BatchOf(cells) = before

\* The last value of a row does not end in a carriage return.
KeptRow(batch, r) ==
    LET last == FieldOf(Len(ColumnTypes), batch[Len(ColumnTypes)][r])
    IN  DropCR(last) = last

\* A row is read as a value more for every column.
LEMMA RowRead ==
    ASSUME NEW text \in Seq(STRING), NEW n \in Nat, NEW batch, NEW r,
           \A c \in Columns : batch[c][r] \in ValuesOf(c), KeptRow(batch, r),
           NEW before, BetweenWith(text, n, before), Lies(text, n, RowText(batch, r))
    PROVE  BetweenWith(text, n + Len(RowText(batch, r)),
                       [c \in Columns |-> Append(before[c], batch[c][r])])
<1> DEFINE m == Len(ColumnTypes)
           seqs == RowPieces(batch, r)
           part(k) == RowPart(before, batch, r, k)
<1>1. /\ m \in Nat /\ m >= 1 /\ Columns = 1 .. m
  BY ColumnsAre
<1>2. /\ seqs \in Seq(Seq(STRING)) /\ Len(seqs) = m
      /\ \A c \in Columns :
             MadeOf(seqs[c], CellText(c, batch[c][r]), <<Separator(c)>>)
      /\ RowText(batch, r) = FlattenSeq(seqs)
  BY RowPiecesAre
<1> HIDE DEF m, seqs
<1>3. Lies(text, n, FlattenSeq(seqs))
  BY <1>2
<1>4. PICK L : Places(text, n, seqs, L) /\ L[Len(seqs)] = n + Len(FlattenSeq(seqs))
  BY <1>2, <1>3, Pieces
<1>5. /\ L \in [0 .. m -> Nat] /\ L[0] = n /\ L[m] = n + Len(RowText(batch, r))
      /\ \A k \in 1 .. m : L[k] = L[k - 1] + Len(seqs[k]) /\ Lies(text, L[k - 1], seqs[k])
  BY <1>2, <1>4 DEF Places
<1>6. PICK start \in Seq(CellOf) : Between(text, n, start) /\ BatchOf(start) = before
  BY DEF BetweenWith
<1> DEFINE Good(k, cells) ==
               Bare(text, L[k], cells, k + 1, <<>>) /\ BatchOf(cells) = part(k)
           T == {k \in 0 .. m - 1 : \E cells \in Seq(CellOf) : Good(k, cells)}
\* One column further.
<1>7. ASSUME NEW k \in 0 .. m - 1, NEW cells \in Seq(CellOf), Good(k, cells)
      PROVE  LET c == k + 1
                 all == Append(cells, <<c, FieldOf(c, batch[c][r])>>)
             IN  /\ all \in Seq(CellOf) /\ BatchOf(all) = part(c)
                 /\ c < m => Bare(text, L[c], all, c + 1, <<>>)
                 /\ c = m => Between(text, L[c], all)
  <2> DEFINE c == k + 1
             value == batch[c][r]
             all == Append(cells, <<c, FieldOf(c, value)>>)
             here == L[k]
             piece == seqs[c]
  <2>1. c \in Columns /\ c - 1 = k /\ k \in 0 .. m /\ c \in 1 .. m
    BY <1>1
  <2>2. value \in ValuesOf(c)
    BY <2>1
  <2>3. BatchOf(cells) = RowPart(before, batch, r, c - 1)
    BY <1>7, <2>1
  <2>4. here \in Nat /\ L[c] = here + Len(piece) /\ Lies(text, here, piece)
    BY <1>5, <2>1
  <2>5. Bare(text, here, cells, c, <<>>)
    BY <1>7
  <2>6. MadeOf(piece, CellText(c, value), <<Separator(c)>>)
    BY <1>2, <2>1
  <2> HIDE DEF c, piece, here
  <2>7. all \in Seq(CellOf) /\ BatchOf(all) = part(c)
    BY <2>1, <2>2, <2>3, RowPartGrows
  <2> HIDE DEF value
  <2>8. /\ Separator(c) = Comma => Bare(text, here + Len(piece), all, c + 1, <<>>)
        /\ Separator(c) = Newline /\ DropCR(FieldOf(c, value)) = FieldOf(c, value)
               => Between(text, here + Len(piece), all)
    BY <2>1, <2>2, <2>4, <2>5, <2>6, FieldRead
  <2>9. c < m => Separator(c) = Comma
    BY DEF Separator, m
  <2>10. c = m => Separator(c) = Newline /\ DropCR(FieldOf(c, value)) = FieldOf(c, value)
    BY <1>1 DEF Separator, KeptRow, m, value
  <2> HIDE DEF all, part
  <2> QED
    BY <2>4, <2>7, <2>8, <2>9, <2>10 DEF all, value, c
<1>8. 0 \in T
  <2>1. 0 \in 0 .. m - 1 /\ 0 + 1 = 1
    BY <1>1
  <2>2. Bare(text, L[0], start, 1, <<>>)
    BY <1>5, <1>6 DEF Between, Bare
  <2>3. before \in Batches
    BY <1>6, BatchOfNone, BatchOfBoth
  <2>4. part(0) = before
    <3>1. \A c \in Columns : ~(c <= 0)
      BY <1>1
    <3>2. before = [c \in Columns |-> before[c]]
      BY <2>3 DEF Batches
    <3> QED
      BY <3>1, <3>2 DEF RowPart
  <2> HIDE DEF part
  <2>5. Good(0, start)
    BY <1>6, <2>1, <2>2, <2>4
  <2> QED
    BY <1>6, <2>1, <2>5
<1>9. ASSUME NEW k \in 0 .. m - 2, k \in T PROVE k + 1 \in T
  <2>1. PICK cells \in Seq(CellOf) : Good(k, cells)
    BY <1>9
  <2>2. k \in 0 .. m - 1 /\ k + 1 \in 0 .. m - 1 /\ k + 1 < m
    BY <1>1
  <2> HIDE DEF Good
  <2> DEFINE all == Append(cells, <<k + 1, FieldOf(k + 1, batch[k + 1][r])>>)
  <2>3. /\ all \in Seq(CellOf) /\ BatchOf(all) = part(k + 1)
        /\ Bare(text, L[k + 1], all, (k + 1) + 1, <<>>)
    BY <1>7, <2>1, <2>2
  <2> HIDE DEF all, part
  <2>4. Good(k + 1, all)
    BY <2>3 DEF Good
  <2> QED
    BY <2>2, <2>3, <2>4
<1>10. PICK cells \in Seq(CellOf) : Good(m - 1, cells)
  <2> DEFINE l == m - 1
  <2>1. \A k \in 0 .. l - 1 : k \in T => k + 1 \in T
    <3>1. l - 1 = m - 2
      BY <1>1
    <3> HIDE DEF T, l
    <3> QED
      BY <1>9, <3>1
  <2>2. l \in Nat
    BY <1>1
  <2> HIDE DEF T, l
  <2>3. 0 .. l \subseteq T
    BY <1>8, <2>1, <2>2, UpTo
  <2>4. l \in T
    BY <2>2, <2>3
  <2> HIDE DEF Good
  <2> QED
    BY <2>4 DEF T, l
<1> DEFINE all == Append(cells, <<m, FieldOf(m, batch[m][r])>>)
<1>11. all \in Seq(CellOf) /\ BatchOf(all) = part(m) /\ Between(text, L[m], all)
  <2>1. m - 1 \in 0 .. m - 1 /\ (m - 1) + 1 = m
    BY <1>1
  <2> HIDE DEF Good
  <2> QED
    BY <1>7, <1>10, <2>1
<1>12. part(m) = [c \in Columns |-> Append(before[c], batch[c][r])]
  <2>1. \A c \in Columns : c <= m
    BY <1>1
  <2> QED
    BY <2>1 DEF RowPart
<1> HIDE DEF all, part
<1> QED
  BY <1>5, <1>11, <1>12 DEF BetweenWith

-----------------------------------------------------------------------------
(* Batches.                                                                  *)

\* A batch of the table is a batch of the importer.
LEMMA BatchTyped ==
    ASSUME NEW batch, IsBatch(batch)
    PROVE  /\ batch \in Batches
           /\ Len(batch[1]) \in Nat /\ DOMAIN batch[1] = 1 .. Len(batch[1])
           /\ \A c \in Columns : Len(batch[c]) = Len(batch[1])
           /\ \A r \in 1 .. Len(batch[1]) : \A c \in Columns : batch[c][r] \in ValuesOf(c)
<1>1. 1 \in Columns
  BY ColumnsAre
<1>2. /\ batch = [c \in Columns |-> batch[c]]
      /\ \A c \in Columns : batch[c] \in Seq(ValuesOf(c)) /\ Len(batch[c]) = Len(batch[1])
  BY DEF IsBatch
<1>3. batch[1] \in Seq(ValuesOf(1))
  BY <1>1, <1>2
<1>4. ASSUME NEW c \in Columns PROVE batch[c] \in Seq(Values)
  <2>1. \A value \in ValuesOf(c) : value \in Values
    <3> SUFFICES ASSUME NEW value \in ValuesOf(c) PROVE value \in Values
      OBVIOUS
    <3> DEFINE field == FieldOf(c, value)
    <3>1. field \in Seq(STRING) /\ Value(c, field) = value
      BY FieldBack
    <3> HIDE DEF field
    <3> QED
      BY <3>1 DEF Values
  <2>2. batch[c] \in Seq(ValuesOf(c))
    BY <1>2
  <2> DEFINE column == batch[c]
             S == ValuesOf(c)
  <2> HIDE DEF column, S
  <2>3. column \in Seq(S) /\ \A value \in S : value \in Values
    BY <2>1, <2>2 DEF column, S
  <2>4. column \in Seq(Values)
    BY <2>3
  <2> QED
    BY <2>4 DEF column
<1>5. batch \in Batches
  BY <1>2, <1>4 DEF Batches
<1>6. ASSUME NEW r \in 1 .. Len(batch[1]), NEW c \in Columns
      PROVE  batch[c][r] \in ValuesOf(c)
  <2>1. batch[c] \in Seq(ValuesOf(c)) /\ r \in 1 .. Len(batch[c])
    BY <1>2
  <2> QED
    BY <2>1
<1>7. Len(batch[1]) \in Nat /\ DOMAIN batch[1] = 1 .. Len(batch[1])
  <2> DEFINE first == batch[1]
  <2> HIDE DEF first
  <2>1. Len(first) \in Nat /\ DOMAIN first = 1 .. Len(first)
    BY <1>3 DEF first
  <2> QED
    BY <2>1 DEF first
<1> QED
  BY <1>2, <1>5, <1>6, <1>7

\* One value more behind two sequences.
LEMMA AppendBehind ==
    ASSUME NEW s \in Seq(Values), NEW t \in Seq(Values), NEW x \in Values
    PROVE  Append(s \o t, x) = s \o Append(t, x)
<1> DEFINE u == Append(s \o t, x)
           v == s \o Append(t, x)
<1>1. u \in Seq(Values) /\ v \in Seq(Values) /\ Len(u) = Len(v)
  OBVIOUS
<1>2. \A i \in 1 .. Len(u) : u[i] = v[i]
  OBVIOUS
<1> HIDE DEF u, v
<1>3. u = v
  BY <1>1, <1>2, SeqEqual
<1> QED
  BY <1>3 DEF u, v

\* A batch with the first rows of another one behind it.
RowsOn(before, batch, r) == [c \in Columns |-> before[c] \o SubSeq(batch[c], 1, r)]

Both(before, batch) == [c \in Columns |-> before[c] \o batch[c]]

RowOn(before, batch, r) == [c \in Columns |-> Append(before[c], batch[c][r])]

\* It grows by a row at a time, up to the whole of the other one.
LEMMA RowsOnGrow ==
    ASSUME NEW before \in Batches, NEW batch, IsBatch(batch)
    PROVE  /\ RowsOn(before, batch, 0) = before
           /\ RowsOn(before, batch, Len(batch[1])) = Both(before, batch)
           /\ \A r \in 0 .. Len(batch[1]) - 1 :
                  RowsOn(before, batch, r + 1) =
                      RowOn(RowsOn(before, batch, r), batch, r + 1)
<1>1. /\ batch \in Batches /\ \A c \in Columns : Len(batch[c]) = Len(batch[1])
  BY BatchTyped
<1>2. /\ \A c \in Columns : batch[c] \in Seq(Values) /\ before[c] \in Seq(Values)
      /\ before = [c \in Columns |-> before[c]]
  BY <1>1 DEF Batches
<1> DEFINE m == Len(batch[1])
<1>3. ASSUME NEW c \in Columns
      PROVE  /\ before[c] \o SubSeq(batch[c], 1, 0) = before[c]
             /\ before[c] \o SubSeq(batch[c], 1, m) = before[c] \o batch[c]
             /\ \A r \in 0 .. m - 1 :
                    before[c] \o SubSeq(batch[c], 1, r + 1) =
                        Append(before[c] \o SubSeq(batch[c], 1, r), batch[c][r + 1])
  <2> DEFINE s == before[c]
             v == batch[c]
  <2>1. s \in Seq(Values) /\ v \in Seq(Values) /\ Len(v) = m
    BY <1>1, <1>2
  <2> HIDE DEF s, v, m
  <2>2. /\ SubSeq(v, 1, 0) = <<>> /\ SubSeq(v, 1, m) = v
        /\ \A k \in 0 .. m - 1 :
               /\ v[k + 1] \in Values /\ SubSeq(v, 1, k) \in Seq(Values)
               /\ SubSeq(v, 1, k + 1) = Append(SubSeq(v, 1, k), v[k + 1])
    BY <2>1, OneMore
  <2>3. s \o <<>> = s
    BY <2>1
  <2>4. ASSUME NEW r \in 0 .. m - 1
        PROVE  s \o SubSeq(v, 1, r + 1) = Append(s \o SubSeq(v, 1, r), v[r + 1])
    <3> DEFINE t == SubSeq(v, 1, r)
               x == v[r + 1]
    <3>1. x \in Values /\ t \in Seq(Values) /\ SubSeq(v, 1, r + 1) = Append(t, x)
      BY <2>2
    <3> HIDE DEF t, x
    <3>2. Append(s \o t, x) = s \o Append(t, x)
      BY <2>1, <3>1, AppendBehind
    <3> QED
      BY <3>1, <3>2 DEF t, x
  <2>5. s \o SubSeq(v, 1, 0) = s /\ s \o SubSeq(v, 1, m) = s \o v
    BY <2>2, <2>3
  <2> QED
    BY <2>4, <2>5 DEF s, v
<1> HIDE DEF m
<1>4. RowsOn(before, batch, 0) = before
  BY <1>2, <1>3 DEF RowsOn
<1>5. RowsOn(before, batch, m) = Both(before, batch)
  BY <1>3 DEF RowsOn, Both
<1>6. ASSUME NEW r \in 0 .. m - 1
      PROVE  RowsOn(before, batch, r + 1) = RowOn(RowsOn(before, batch, r), batch, r + 1)
  <2>1. \A c \in Columns : RowsOn(before, batch, r)[c] = before[c] \o SubSeq(batch[c], 1, r)
    BY DEF RowsOn
  <2>2. RowsOn(before, batch, r + 1) = [c \in Columns |-> before[c] \o SubSeq(batch[c], 1, r + 1)]
    BY DEF RowsOn
  <2> QED
    BY <1>3, <2>1, <2>2 DEF RowOn
<1> QED
  BY <1>4, <1>5, <1>6 DEF m

\* The rows of a batch, as text.
RowTexts(batch) == [r \in DOMAIN batch[1] |-> RowText(batch, r)]

\* They are texts, and the text of the batch is made of them.
LEMMA RowTextsAre ==
    ASSUME NEW batch, IsBatch(batch)
    PROVE  /\ RowTexts(batch) \in Seq(Seq(STRING))
           /\ Len(RowTexts(batch)) = Len(batch[1])
           /\ \A r \in 1 .. Len(batch[1]) : RowTexts(batch)[r] = RowText(batch, r)
           /\ BatchText(batch) = FlattenSeq(RowTexts(batch))
           /\ BatchText(batch) \in Seq(STRING)
<1> DEFINE m == Len(batch[1])
           seqs == RowTexts(batch)
<1>1. /\ m \in Nat /\ DOMAIN batch[1] = 1 .. m
      /\ \A r \in 1 .. m : \A c \in Columns : batch[c][r] \in ValuesOf(c)
  BY BatchTyped
<1> HIDE DEF m
<1>2. \A r \in 1 .. m : RowText(batch, r) \in Seq(STRING)
  BY <1>1, RowPiecesAre
<1>3. seqs = [r \in 1 .. m |-> RowText(batch, r)]
  BY <1>1 DEF RowTexts
<1>4. BatchText(batch) = FlattenSeq(seqs)
  BY DEF BatchText, RowTexts
<1> HIDE DEF seqs
<1>5. seqs \in [1 .. m -> Seq(STRING)]
  BY <1>2, <1>3
<1>6. seqs \in Seq(Seq(STRING)) /\ Len(seqs) = m
  BY <1>1, <1>5
<1>7. FlattenSeq(seqs) \in Seq(STRING)
  <2>1. <<>> \in Seq(STRING)
    OBVIOUS
  <2> QED
    BY <1>6, <2>1, FlattenAppend
<1>8. \A r \in 1 .. m : seqs[r] = RowText(batch, r)
  BY <1>3
<1> QED
  BY <1>4, <1>6, <1>7, <1>8 DEF m, seqs

\* No value of the last column ends in a carriage return.
KeptBatch(batch) == \A r \in DOMAIN batch[1] : KeptRow(batch, r)

\* A batch is read as its columns, behind those read before.
LEMMA BatchRead ==
    ASSUME NEW text \in Seq(STRING), NEW n \in Nat, NEW batch, IsBatch(batch),
           KeptBatch(batch), NEW before \in Batches, BetweenWith(text, n, before),
           Lies(text, n, BatchText(batch))
    PROVE  BetweenWith(text, n + Len(BatchText(batch)), Both(before, batch))
<1> DEFINE m == Len(batch[1])
           seqs == RowTexts(batch)
           on(r) == RowsOn(before, batch, r)
<1>1. /\ m \in Nat /\ DOMAIN batch[1] = 1 .. m
      /\ \A r \in 1 .. m : \A c \in Columns : batch[c][r] \in ValuesOf(c)
  BY BatchTyped
<1>2. /\ seqs \in Seq(Seq(STRING)) /\ Len(seqs) = m
      /\ \A r \in 1 .. m : seqs[r] = RowText(batch, r)
      /\ BatchText(batch) = FlattenSeq(seqs)
  BY RowTextsAre
<1>3. /\ on(0) = before /\ on(m) = Both(before, batch)
      /\ \A r \in 0 .. m - 1 : on(r + 1) = RowOn(on(r), batch, r + 1)
  BY RowsOnGrow
<1>4. \A r \in 1 .. m : KeptRow(batch, r)
  BY <1>1 DEF KeptBatch
<1> HIDE DEF m, seqs, on
<1>5. Lies(text, n, FlattenSeq(seqs))
  BY <1>2
<1>6. PICK L : Places(text, n, seqs, L) /\ L[Len(seqs)] = n + Len(FlattenSeq(seqs))
  BY <1>2, <1>5, Pieces
<1>7. /\ L \in [0 .. m -> Nat] /\ L[0] = n /\ L[m] = n + Len(BatchText(batch))
      /\ \A k \in 1 .. m : L[k] = L[k - 1] + Len(seqs[k]) /\ Lies(text, L[k - 1], seqs[k])
  BY <1>2, <1>6 DEF Places
<1> DEFINE T == {r \in 0 .. m : BetweenWith(text, L[r], on(r))}
<1>8. 0 \in T
  <2>1. 0 \in 0 .. m
    BY <1>1
  <2> QED
    BY <1>3, <1>7, <2>1
<1>9. ASSUME NEW k \in 0 .. m - 1, k \in T PROVE k + 1 \in T
  <2> DEFINE r == k + 1
             here == L[k]
  <2>1. r \in 1 .. m /\ r - 1 = k /\ r \in 0 .. m /\ k \in 0 .. m
    BY <1>1
  <2>2. on(r) = RowOn(on(k), batch, r)
    BY <1>3
  <2>3. /\ here \in Nat /\ L[r] = here + Len(RowText(batch, r))
        /\ Lies(text, here, RowText(batch, r))
    BY <1>2, <1>7, <2>1
  <2>4. BetweenWith(text, here, on(k))
    BY <1>9
  <2>5. KeptRow(batch, r) /\ \A c \in Columns : batch[c][r] \in ValuesOf(c)
    BY <1>1, <1>4, <2>1
  <2> HIDE DEF r, here
  <2>6. BetweenWith(text, here + Len(RowText(batch, r)), RowOn(on(k), batch, r))
    BY <2>3, <2>4, <2>5, RowRead DEF RowOn
  <2>7. BetweenWith(text, L[r], on(r))
    BY <2>2, <2>3, <2>6
  <2> QED
    BY <2>1, <2>7 DEF r
<1>10. m \in T
  <2> HIDE DEF T
  <2>1. 0 .. m \subseteq T
    BY <1>1, <1>8, <1>9, UpTo
  <2>2. m \in 0 .. m
    BY <1>1
  <2> QED
    BY <2>1, <2>2
<1> QED
  BY <1>3, <1>7, <1>10

-----------------------------------------------------------------------------
(* Tables.                                                                   *)

\* A table is a list of batches.
LEMMA TableTyped ==
    ASSUME NEW t \in Tables
    PROVE  /\ Len(t) \in Nat /\ DOMAIN t = 1 .. Len(t) /\ t \in Seq(Batches)
           /\ \A k \in 1 .. Len(t) : IsBatch(t[k]) /\ BatchText(t[k]) \in Seq(STRING)
<1> DEFINE S == Range(t)
<1>1. t \in Seq(S) /\ \A k \in DOMAIN t : IsBatch(t[k])
  BY TablesAssumption
<1> HIDE DEF S
<1>2. Len(t) \in Nat /\ DOMAIN t = 1 .. Len(t)
  BY <1>1
<1>3. \A k \in 1 .. Len(t) :
          /\ IsBatch(t[k]) /\ t[k] \in Batches
          /\ BatchText(t[k]) \in Seq(STRING)
  BY <1>1, <1>2, BatchTyped, RowTextsAre
<1>4. t \in Seq(Batches)
  BY <1>1, <1>2, <1>3
<1> QED
  BY <1>2, <1>3, <1>4

\* The text of the first n batches of a table.
TextOf(t, n) == FlattenSeq([k \in 1 .. n |-> BatchText(t[k])])

\* It grows by the text of a batch.
LEMMA TextGrows ==
    ASSUME NEW t \in Tables, NEW n \in 0 .. Len(t)
    PROVE  /\ TextOf(t, n) \in Seq(STRING)
           /\ TextOf(t, 0) = <<>>
           /\ n < Len(t) => TextOf(t, n + 1) = TextOf(t, n) \o BatchText(t[n + 1])
<1> DEFINE texts(k) == [i \in 1 .. k |-> BatchText(t[i])]
<1>1. Len(t) \in Nat /\ \A k \in 1 .. Len(t) : BatchText(t[k]) \in Seq(STRING)
  BY TableTyped
<1>2. ASSUME NEW k \in 0 .. Len(t)
      PROVE  texts(k) \in Seq(Seq(STRING)) /\ Len(texts(k)) = k
  <2>1. k \in Nat /\ \A i \in 1 .. k : i \in 1 .. Len(t)
    BY <1>1
  <2> DEFINE seqs == texts(k)
  <2>2. seqs \in [1 .. k -> Seq(STRING)]
    BY <1>1, <2>1
  <2> HIDE DEF seqs
  <2>3. seqs \in Seq(Seq(STRING)) /\ Len(seqs) = k
    BY <2>1, <2>2
  <2> QED
    BY <2>3 DEF seqs
<1>3. TextOf(t, n) = FlattenSeq(texts(n)) /\ TextOf(t, n + 1) = FlattenSeq(texts(n + 1))
  BY DEF TextOf
<1>4. <<>> \in Seq(STRING)
  OBVIOUS
<1>5. TextOf(t, n) \in Seq(STRING)
  <2> DEFINE seqs == texts(n)
  <2>1. seqs \in Seq(Seq(STRING))
    BY <1>2
  <2> HIDE DEF seqs
  <2>2. FlattenSeq(seqs) \in Seq(STRING)
    BY <1>4, <2>1, FlattenAppend
  <2> QED
    BY <1>3, <2>2 DEF seqs
<1>6. TextOf(t, 0) = <<>>
  <2>1. [k \in 1 .. 0 |-> BatchText(t[k])] = <<>>
    OBVIOUS
  <2>2. FlattenSeq(<<>>) = <<>>
    BY DEF FlattenSeq
  <2> QED
    BY <2>1, <2>2 DEF TextOf
<1>7. ASSUME n < Len(t)
      PROVE  TextOf(t, n + 1) = TextOf(t, n) \o BatchText(t[n + 1])
  <2> DEFINE seqs == texts(n)
             more == texts(n + 1)
             last == BatchText(t[n + 1])
  <2>1. /\ n \in Nat /\ n + 1 \in 0 .. Len(t) /\ n + 1 \in 1 .. Len(t)
        /\ n + 1 \in 1 .. n + 1
        /\ \A k \in 1 .. n : k \in 1 .. n + 1 /\ k # n + 1
        /\ \A k \in 1 .. n + 1 : k \in 1 .. n \/ k = n + 1
    BY <1>1, <1>7
  <2>2. /\ seqs \in Seq(Seq(STRING)) /\ Len(seqs) = n /\ more \in Seq(Seq(STRING))
        /\ Len(more) = n + 1 /\ last \in Seq(STRING)
    BY <1>1, <1>2, <2>1
  <2>3. more[n + 1] = last /\ \A k \in 1 .. n : more[k] = seqs[k]
    BY <2>1
  <2> HIDE DEF seqs, more, last
  <2>4. Append(seqs, last) = more
    <3> DEFINE u == Append(seqs, last)
    <3>1. /\ u \in Seq(Seq(STRING)) /\ Len(u) = n + 1 /\ u[n + 1] = last
          /\ \A k \in 1 .. n : u[k] = seqs[k]
      BY <2>2
    <3> HIDE DEF u
    <3>2. \A k \in 1 .. n + 1 : u[k] = more[k]
      BY <2>1, <2>3, <3>1
    <3>3. u = more
      BY <2>2, <3>1, <3>2, SeqEqual
    <3> QED
      BY <3>3 DEF u
  <2>5. FlattenSeq(Append(seqs, last)) = FlattenSeq(seqs) \o last
    BY <2>2, FlattenAppend
  <2> QED
    BY <1>3, <2>4, <2>5 DEF seqs, more, last
<1> QED
  BY <1>5, <1>6, <1>7

\* The first batches of a table, joined.
LEMMA JoinedGrows ==
    ASSUME NEW t \in Tables, NEW k \in 0 .. Len(t) - 1
    PROVE  /\ Joined(SubSeq(t, 1, k)) \in Batches
           /\ Joined(SubSeq(t, 1, k + 1)) = Both(Joined(SubSeq(t, 1, k)), t[k + 1])
<1>1. Len(t) \in Nat /\ t \in Seq(Batches)
  BY TableTyped
<1> DEFINE s == SubSeq(t, 1, k)
           x == t[k + 1]
<1>2. x \in Batches /\ s \in Seq(Batches) /\ SubSeq(t, 1, k + 1) = Append(s, x)
  BY <1>1, OneMore
<1> HIDE DEF s, x
<1>3. /\ Joined(s) \in Batches
      /\ Joined(Append(s, x)) = [c \in Columns |-> Joined(s)[c] \o x[c]]
  BY <1>2, JoinedAppend
<1>4. Joined(Append(s, x)) = Both(Joined(s), x)
  BY <1>3 DEF Both
<1> QED
  BY <1>2, <1>3, <1>4 DEF s, x

\* The start of a text lies between two rows.
LEMMA StartsBetween ==
    ASSUME NEW text \in Seq(STRING)
    PROVE  BetweenWith(text, 0, NoBatch)
<1>1. /\ 0 \in 0 .. Len(text) /\ QuoteStates(text)[0] = QuoteStart
      /\ ParseStates(text)[0] = ParseStart
  BY QuotesAre, ParsesAre
<1>2. QuoteStart.jump = FALSE /\ QuoteStart.in_quote = FALSE
  BY DEF QuoteStart
<1>3. /\ ParseStart.thrown = FALSE /\ ParseStart.cells = <<>> /\ ParseStart.col = 1
      /\ ParseStart.field = <<>> /\ ParseStart.row_started = FALSE
  BY DEF ParseStart
<1>4. Outside(text, 0, ParseStart)
  BY <1>1, <1>2, <1>3 DEF Outside, At
<1>5. Reads(ParseStart, <<>>, 1, <<>>)
  BY <1>3, ParseStartTyped DEF Reads
<1>6. Between(text, 0, <<>>)
  BY <1>3, <1>4, <1>5 DEF Between
<1> QED
  BY <1>6, BatchOfNone DEF BetweenWith

\* A text that ends between two rows parses to what was read.
LEMMA EndsBetween ==
    ASSUME NEW text \in Seq(STRING), NEW batch, BetweenWith(text, Len(text), batch)
    PROVE  ParseBuffer(text).thrown = FALSE /\ BatchOf(ParseBuffer(text).cells) = batch
<1>1. PICK cells \in Seq(CellOf) : Between(text, Len(text), cells) /\ BatchOf(cells) = batch
  BY DEF BetweenWith
<1>2. PICK p : /\ Outside(text, Len(text), p) /\ Reads(p, cells, 1, <<>>)
               /\ p.row_started = FALSE
  BY <1>1 DEF Between
<1> DEFINE q == QuoteStates(text)[Len(text)]
<1>3. q.in_quote = FALSE /\ ParseStates(text)[Len(text)] = p
  BY <1>2 DEF Outside, At
<1>4. /\ p \in ParseState /\ p.cells = cells /\ p.col = 1 /\ p.field = <<>>
      /\ p.thrown = FALSE
  BY <1>2 DEF Reads
<1>5. ParseBuffer(text) = ParseEnd(q)[p]
  BY <1>3 DEF ParseBuffer
<1> HIDE DEF q
<1>6. ParseEnd(q)[p] = p
  BY <1>2, <1>3, <1>4, EndBetweenRows
<1> QED
  BY <1>1, <1>4, <1>5, <1>6

\* The text of a table parses, to the columns of the table.
LEMMA TableRead ==
    ASSUME NEW t \in Tables, \A k \in 1 .. Len(t) : KeptBatch(t[k])
    PROVE  /\ ParseBuffer(TextOf(t, Len(t))).thrown = FALSE
           /\ BatchOf(ParseBuffer(TextOf(t, Len(t))).cells) = Joined(t)
<1> DEFINE m == Len(t)
           text == TextOf(t, m)
           seqs == [k \in 1 .. m |-> BatchText(t[k])]
<1>1. /\ m \in Nat /\ t \in Seq(Batches)
      /\ \A k \in 1 .. m : IsBatch(t[k]) /\ BatchText(t[k]) \in Seq(STRING)
  BY TableTyped
<1>2. text \in Seq(STRING)
  <2>1. m \in 0 .. m
    BY <1>1
  <2> QED
    BY <2>1, TextGrows
<1>3. text = FlattenSeq(seqs) /\ \A k \in 1 .. m : seqs[k] = BatchText(t[k])
  BY DEF TextOf
<1>4. seqs \in Seq(Seq(STRING)) /\ Len(seqs) = m
  <2>1. seqs \in [1 .. m -> Seq(STRING)]
    BY <1>1
  <2> HIDE DEF seqs
  <2> QED
    BY <1>1, <2>1
<1> HIDE DEF text, seqs
<1>5. Lies(text, 0, FlattenSeq(seqs))
  <2>1. Lies(text, 0, text)
    BY <1>2 DEF Lies
  <2> QED
    BY <1>3, <2>1
<1>6. 0 \in Nat
  OBVIOUS
<1>7. PICK L : Places(text, 0, seqs, L) /\ L[Len(seqs)] = 0 + Len(FlattenSeq(seqs))
  BY <1>2, <1>4, <1>5, <1>6, Pieces
<1>8. /\ L \in [0 .. m -> Nat] /\ L[0] = 0 /\ L[m] = Len(text)
      /\ \A k \in 1 .. m : L[k] = L[k - 1] + Len(seqs[k]) /\ Lies(text, L[k - 1], seqs[k])
  <2>1. Len(text) \in Nat
    BY <1>2
  <2>2. L[m] = Len(text)
    BY <1>3, <1>4, <1>7, <2>1
  <2> QED
    BY <1>4, <1>7, <2>2 DEF Places
<1> DEFINE first(k) == Joined(SubSeq(t, 1, k))
           T == {k \in 0 .. m : BetweenWith(text, L[k], first(k))}
<1>9. first(0) = NoBatch /\ first(m) = Joined(t)
  BY <1>1, OneMore, JoinedNone
<1>10. \A k \in 0 .. m - 1 : first(k) \in Batches /\ first(k + 1) = Both(first(k), t[k + 1])
  BY JoinedGrows
<1> HIDE DEF first
<1>11. 0 \in T
  <2>1. 0 \in 0 .. m
    BY <1>1
  <2> QED
    BY <1>2, <1>8, <1>9, <2>1, StartsBetween
<1>12. ASSUME NEW k \in 0 .. m - 1, k \in T PROVE k + 1 \in T
  <2> DEFINE j == k + 1
             here == L[k]
             batch == t[j]
  <2>1. j \in 1 .. m /\ j - 1 = k /\ j \in 0 .. m /\ k \in 0 .. m
    BY <1>1
  <2>2. first(j) = Both(first(k), batch) /\ first(k) \in Batches
    BY <1>10
  <2>3. here \in Nat /\ L[j] = here + Len(BatchText(batch)) /\ Lies(text, here, BatchText(batch))
    BY <1>3, <1>8, <2>1
  <2>4. BetweenWith(text, here, first(k)) /\ IsBatch(batch) /\ KeptBatch(batch)
    BY <1>1, <1>12, <2>1
  <2> HIDE DEF j, here, batch
  <2>5. BetweenWith(text, here + Len(BatchText(batch)), Both(first(k), batch))
    BY <1>2, <2>2, <2>3, <2>4, BatchRead
  <2>6. BetweenWith(text, L[j], first(j))
    BY <2>2, <2>3, <2>5
  <2> QED
    BY <2>1, <2>6 DEF j
<1>13. BetweenWith(text, Len(text), Joined(t))
  <2> HIDE DEF T, m
  <2>1. 0 .. m \subseteq T
    BY <1>1, <1>11, <1>12, UpTo
  <2>2. m \in T
    BY <1>1, <2>1
  <2> QED
    BY <1>8, <1>9, <2>2 DEF T
<1>14. ParseBuffer(text).thrown = FALSE /\ BatchOf(ParseBuffer(text).cells) = Joined(t)
  BY <1>2, <1>13, EndsBetween
<1> QED
  BY <1>14 DEF text

-----------------------------------------------------------------------------
(* The export and the import.                                                *)

\* The inductive invariant: the file holds the batches exported so far, and
\* once it is closed it stays, under an import whose device does not fail.
RoundInv ==
    /\ table \in Tables /\ exported \in 0 .. Len(table)
    /\ epc \in {"exporting", "closed"} /\ broken = FALSE
    /\ file = TextOf(table, exported)
    /\ epc = "exporting" => ReaderInit
    /\ epc = "closed" => exported = Len(table) /\ ImportInv

\* An empty file holds no batch.
LEMMA RoundStarts ==
    ASSUME RoundInit
    PROVE  RoundInv
<1>1. /\ table \in Tables /\ exported = 0 /\ epc = "exporting" /\ file = <<>> /\ ReaderInit
  BY DEF RoundInit
<1>2. 0 \in 0 .. Len(table)
  BY <1>1, TableTyped
<1>3. TextOf(table, 0) = <<>>
  BY <1>1, <1>2, TextGrows
<1>4. broken = FALSE
  BY <1>1 DEF ReaderInit
<1> QED
  BY <1>1, <1>2, <1>3, <1>4 DEF RoundInv

\* A batch is appended to the file.
LEMMA ExportBatchKeeps ==
    ASSUME RoundInv, ExportBatch
    PROVE  RoundInv'
<1>1. /\ table \in Tables /\ exported \in 0 .. Len(table) /\ broken = FALSE
      /\ file = TextOf(table, exported) /\ ReaderInit /\ epc = "exporting"
  BY DEF RoundInv, ExportBatch
<1>2. /\ exported < Len(table) /\ file' = file \o BatchText(table[exported + 1])
      /\ exported' = exported + 1
      /\ table' = table /\ epc' = epc
      /\ position' = position /\ pending' = pending /\ eof_reached' = eof_reached
      /\ buffer' = buffer /\ ipc' = ipc /\ broken' = broken /\ delivered' = delivered
  BY DEF ExportBatch, readerVars
<1>3. Len(table) \in Nat
  BY <1>1, TableTyped
<1>4. exported' \in 0 .. Len(table)
  BY <1>1, <1>2, <1>3
<1>5. TextOf(table, exported + 1) = TextOf(table, exported) \o BatchText(table[exported + 1])
  BY <1>1, <1>2, TextGrows
<1>6. file' = TextOf(table, exported + 1)
  BY <1>1, <1>2, <1>5
<1>7. ReaderInit'
  BY <1>1, <1>2 DEF ReaderInit
<1>8. file' = TextOf(table', exported')
  BY <1>2, <1>6
<1>9. /\ table' \in Tables /\ exported' \in 0 .. Len(table') /\ epc' = "exporting"
      /\ broken' = FALSE
  BY <1>1, <1>2, <1>4
<1> QED
  BY <1>7, <1>8, <1>9 DEF RoundInv

\* What is written stays: the export's variables and the file do not change.
LEMMA FileStays ==
    ASSUME RoundInv, table' = table, exported' = exported, file' = file,
           broken' = FALSE, epc' = "closed", exported = Len(table), ImportInv'
    PROVE  RoundInv'
<1>1. /\ table \in Tables /\ exported \in 0 .. Len(table) /\ file = TextOf(table, exported)
  BY DEF RoundInv
<1>2. file' = TextOf(table', exported')
  BY <1>1
<1> QED
  BY <1>1, <1>2 DEF RoundInv

\* The importer starts on the whole text.
LEMMA CloseExportKeeps ==
    ASSUME RoundInv, CloseExport
    PROVE  RoundInv'
<1>1. /\ table \in Tables /\ exported \in 0 .. Len(table) /\ broken = FALSE
      /\ file = TextOf(table, exported) /\ ReaderInit
  BY DEF RoundInv, CloseExport
<1>2. /\ exported = Len(table) /\ epc' = "closed" /\ table' = table /\ exported' = exported
      /\ UNCHANGED importVars
  BY DEF CloseExport
<1>3. file \in Seq(STRING)
  BY <1>1, TextGrows
<1>4. ImportInv'
  BY <1>1, <1>2, <1>3, FreshImport, ImportUnchanged
<1>5. file' = file /\ broken' = broken
  BY <1>2 DEF importVars, readerVars
<1> QED
  BY <1>1, <1>2, <1>4, <1>5, FileStays

\* A step of the import.
LEMMA ReimportKeeps ==
    ASSUME RoundInv, Reimport
    PROVE  RoundInv'
<1>1. /\ epc = "closed" /\ exported = Len(table) /\ ImportInv /\ broken = FALSE
      /\ ImportStep /\ UNCHANGED exportVars
  BY DEF RoundInv, Reimport
<1>2. file' = file
  BY <1>1, Delivers
<1>3. ImportInv'
  BY <1>1, ImportKeeps
<1>4. broken' = broken
  BY <1>1 DEF ImportStep, StartBuffer, EndImport, ReadEnd, ReadOn, ReadRows, Parse
<1>5. table' = table /\ exported' = exported /\ epc' = epc
  BY <1>1 DEF exportVars
<1> QED
  BY <1>1, <1>2, <1>3, <1>4, <1>5, FileStays

\* A step of nothing.
LEMMA RoundStutters ==
    ASSUME RoundInv, UNCHANGED roundVars
    PROVE  RoundInv'
<1>1. /\ table' = table /\ exported' = exported /\ epc' = epc /\ file' = file
      /\ UNCHANGED importVars
      /\ position' = position /\ pending' = pending /\ eof_reached' = eof_reached
      /\ buffer' = buffer /\ ipc' = ipc /\ broken' = broken /\ delivered' = delivered
  BY DEF roundVars, exportVars, importVars, readerVars
<1>2. CASE epc = "closed"
  <2>1. exported = Len(table) /\ ImportInv /\ broken = FALSE
    BY <1>2 DEF RoundInv
  <2>2. ImportInv'
    BY <1>1, <2>1, ImportUnchanged
  <2> QED
    BY <1>1, <1>2, <2>1, <2>2, FileStays
<1>3. CASE epc = "exporting"
  <2>1. /\ table \in Tables /\ exported \in 0 .. Len(table) /\ broken = FALSE
        /\ file = TextOf(table, exported) /\ ReaderInit
    BY <1>3 DEF RoundInv
  <2>2. ReaderInit'
    BY <1>1, <2>1 DEF ReaderInit
  <2>3. file' = TextOf(table', exported')
    BY <1>1, <2>1
  <2>4. /\ table' \in Tables /\ exported' \in 0 .. Len(table') /\ epc' = "exporting"
        /\ broken' = FALSE
    BY <1>1, <1>3, <2>1
  <2> QED
    BY <2>2, <2>3, <2>4 DEF RoundInv
<1> QED
  BY <1>2, <1>3 DEF RoundInv

\* RoundInv holds in every state of the export and of the import after it.
THEOREM RoundInvariant == RoundSpec => []RoundInv
<1>1. RoundInit => RoundInv
  BY RoundStarts
<1>2. RoundInv /\ [RoundNext]_roundVars => RoundInv'
  <2> SUFFICES ASSUME RoundInv, [RoundNext]_roundVars PROVE RoundInv'
    OBVIOUS
  <2>1. CASE ExportBatch
    BY <2>1, ExportBatchKeeps
  <2>2. CASE CloseExport
    BY <2>2, CloseExportKeeps
  <2>3. CASE Reimport
    BY <2>3, ReimportKeeps
  <2>4. CASE UNCHANGED roundVars
    BY <2>4, RoundStutters
  <2> QED
    BY <2>1, <2>2, <2>3, <2>4 DEF RoundNext
<1> QED
  BY <1>1, <1>2, PTL DEF RoundSpec

\* No value of the last column of a table ends in a carriage return.
KeptTable(t) == \A k \in 1 .. Len(t) : KeptBatch(t[k])

\* What the invariant says of such a table at the end of the import.
LEMMA BackAtEnd ==
    ASSUME RoundInv, KeptTable(table)
    PROVE  ComesBack
<1>1. table \in Tables /\ broken = FALSE /\ file = TextOf(table, exported)
  BY DEF RoundInv
<1>2. CASE epc = "exporting"
  <2>1. ipc = "idle"
    BY <1>2 DEF RoundInv, ReaderInit
  <2> QED
    BY <2>1 DEF ComesBack
<1>3. CASE epc = "closed"
  <2>1. file = TextOf(table, Len(table)) /\ ImportInv
    BY <1>1, <1>3 DEF RoundInv
  <2>2. /\ ParseBuffer(file).thrown = FALSE
        /\ BatchOf(ParseBuffer(file).cells) = Joined(table)
    BY <1>1, <2>1, TableRead DEF KeptTable
  <2>3. file \in Seq(STRING) /\ InPlace /\ Done /\ Failed
    BY <2>1 DEF ImportInv, ReaderTyped
  <2>4. ipc # "failed"
    BY <1>1, <2>2, <2>3 DEF Failed
  <2>5. ASSUME ipc = "done" PROVE Joined(delivered) = Joined(table)
    <3>1. buffer = <<>> /\ pending = <<>> /\ position = Len(file) /\ DeliveredTo(Passed)
      BY <2>3, <2>4, <2>5 DEF Done, InPlace
    <3>2. Len(file) \in Nat /\ Len(<<>>) = 0
      BY <2>3
    <3>3. Passed = Len(file)
      BY <3>1, <3>2 DEF Passed
    <3>4. FirstRows(file, Passed) = ParseBuffer(file)
      BY <2>3, <3>3, AllRows
    <3> QED
      BY <2>2, <3>1, <3>4 DEF DeliveredTo
  <2>6. Delivered = Joined(delivered) /\ Table = Joined(table)
    BY DEF Delivered, Table, Joined
  <2> QED
    BY <2>4, <2>5, <2>6 DEF ComesBack
<1> QED
  BY <1>2, <1>3 DEF RoundInv

\* Every table comes back from CSV value by value, whatever quotes, commas and
\* newlines its values hold and wherever the blocks of the importer fall, if no
\* value of its last column ends in a carriage return, which the parser takes
\* for a part of the end of the row (csv_columnar_reader.cpp:127).
THEOREM TablesComeBack == RoundSpec => [](KeptTable(table) => ComesBack)
<1>1. RoundInv => (KeptTable(table) => ComesBack)
  BY BackAtEnd
<1> QED
  BY <1>1, RoundInvariant, PTL

==============================================================================
