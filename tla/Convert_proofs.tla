--------------------------- MODULE Convert_proofs ---------------------------
(***************************************************************************)
(* The conversion of a CSV file, for every file, every block size and      *)
(* every list of column types: blocks leave no trace, what is sealed is    *)
(* the table of the first rows, the two parsers agree, and only rows that  *)
(* are too short put columns out of step.                                  *)
(*                                                                         *)
(* A loop over the characters of a buffer is a function of how many of     *)
(* them it has taken.  The inductions are over sets of numbers, with UpTo. *)
(***************************************************************************)
EXTENDS Convert, SequenceTheorems, WellFoundedInduction, TLAPS

\* Induction up to n, for a set of numbers.
LEMMA UpTo ==
    ASSUME NEW n \in Nat, NEW T, 0 \in T,
           \A k \in 0 .. n - 1 : k \in T => k + 1 \in T
    PROVE  0 .. n \subseteq T
<1> DEFINE Missing == (0 .. n) \ T
<1>1. SUFFICES ASSUME Missing # {} PROVE FALSE
  OBVIOUS
<1>2. PICK k \in Missing : \A j \in Missing : ~(j < k)
  <2>1. Missing \subseteq Nat
    OBVIOUS
  <2> HIDE DEF Missing
  <2>2. \E k \in Missing : \A j \in Missing : ~(<<j, k>> \in OpToRel(<, Nat))
    BY <1>1, <2>1, NatLessThanWellFounded, WFMin
  <2> QED
    BY <2>1, <2>2 DEF OpToRel
<1>3. k \in 1 .. n /\ k - 1 \in 0 .. n - 1
  OBVIOUS
<1>4. k - 1 \in T
  BY <1>2, <1>3
<1> QED
  BY <1>3, <1>4

-----------------------------------------------------------------------------
(* Loops.                                                                    *)

\* The states of a loop over n elements.
IsLoop(f, n, S, start, turn) ==
    /\ f \in [0 .. n -> S]
    /\ f[0] = start
    /\ \A i \in 1 .. n : f[i] = turn[i][f[i - 1]]

\* Every loop has its states.
LEMMA LoopExists ==
    ASSUME NEW n \in Nat, NEW S, NEW start \in S, NEW turn \in [1 .. n -> [S -> S]]
    PROVE  \E f : IsLoop(f, n, S, start, turn)
<1> DEFINE T == {k \in 0 .. n : \E f : IsLoop(f, k, S, start, turn)}
<1>1. 0 \in T
  <2>1. IsLoop([i \in 0 .. 0 |-> start], 0, S, start, turn)
    BY DEF IsLoop
  <2> QED
    BY <2>1
<1>2. ASSUME NEW k \in 0 .. n - 1, k \in T PROVE k + 1 \in T
  <2>1. PICK f : IsLoop(f, k, S, start, turn)
    BY <1>2
  <2> DEFINE last == turn[k + 1][f[k]]
             g == [i \in 0 .. k + 1 |-> IF i = k + 1 THEN last ELSE f[i]]
  <2>2. k \in Nat /\ k + 1 \in 1 .. n
    OBVIOUS
  <2>3. last \in S
    <3>1. f[k] \in S /\ turn[k + 1] \in [S -> S]
      BY <2>1, <2>2 DEF IsLoop
    <3> QED
      BY <3>1
  <2> HIDE DEF last
  <2>4. /\ g \in [0 .. k + 1 -> S]
        /\ g[0] = start
        /\ g[k + 1] = last
        /\ \A i \in 0 .. k : g[i] = f[i]
    BY <2>1, <2>2, <2>3 DEF IsLoop
  <2> HIDE DEF g
  <2>5. \A i \in 1 .. k : g[i] = turn[i][g[i - 1]]
    BY <2>1, <2>2, <2>4 DEF IsLoop
  <2>6. g[k + 1] = turn[k + 1][g[k]]
    BY <2>2, <2>4 DEF last
  <2>7. IsLoop(g, k + 1, S, start, turn)
    BY <2>2, <2>4, <2>5, <2>6 DEF IsLoop
  <2> QED
    BY <2>2, <2>7
<1>3. n \in T
  <2>1. \A k \in 0 .. n - 1 : k \in T => k + 1 \in T
    BY <1>2
  <2> HIDE DEF T
  <2>2. 0 .. n \subseteq T
    BY <1>1, <2>1, UpTo
  <2> QED
    BY <2>2
<1> QED
  BY <1>3

\* What a recursive equation says of the states.
LEMMA LoopIs ==
    ASSUME NEW n \in Nat, NEW S, NEW start \in S, NEW turn \in [1 .. n -> [S -> S]],
           NEW h,
           h = [i \in 0 .. n |-> IF i = 0 THEN start ELSE turn[i][h[i - 1]]]
    PROVE  IsLoop(h, n, S, start, turn)
<1>1. \A i \in 1 .. n : h[i] = turn[i][h[i - 1]]
  <2> SUFFICES ASSUME NEW i \in 1 .. n PROVE h[i] = turn[i][h[i - 1]]
    OBVIOUS
  <2>1. i \in 0 .. n /\ i # 0
    OBVIOUS
  <2> QED
    BY <2>1
<1>2. h[0] = start
  <2>1. 0 \in 0 .. n
    OBVIOUS
  <2> QED
    BY <2>1
<1> DEFINE U == {k \in 0 .. n : h[k] \in S}
<1>3. ASSUME NEW k \in 0 .. n - 1, k \in U PROVE k + 1 \in U
  <2>1. k + 1 \in 1 .. n /\ (k + 1) - 1 = k
    OBVIOUS
  <2>2. h[k + 1] = turn[k + 1][h[k]]
    BY <1>1, <2>1
  <2>3. turn[k + 1] \in [S -> S] /\ h[k] \in S
    BY <1>3, <2>1
  <2>4. h[k + 1] \in S
    BY <2>2, <2>3
  <2> QED
    BY <2>1, <2>4
<1>4. \A k \in 0 .. n : h[k] \in S
  <2>1. 0 \in U
    BY <1>2
  <2>2. \A k \in 0 .. n - 1 : k \in U => k + 1 \in U
    BY <1>3
  <2> HIDE DEF U
  <2>3. 0 .. n \subseteq U
    BY <2>1, <2>2, UpTo
  <2> QED
    BY <2>3 DEF U
<1>5. h \in [0 .. n -> S]
  BY <1>4
<1> QED
  BY <1>1, <1>2, <1>5 DEF IsLoop

\* A recursive definition denotes them.
LEMMA LoopChosen ==
    ASSUME NEW n \in Nat, NEW S, NEW start \in S, NEW turn \in [1 .. n -> [S -> S]]
    PROVE  IsLoop(CHOOSE h : h = [i \in 0 .. n |->
                                     IF i = 0 THEN start ELSE turn[i][h[i - 1]]],
                  n, S, start, turn)
<1> DEFINE Def(g) == g = [i \in 0 .. n |-> IF i = 0 THEN start ELSE turn[i][g[i - 1]]]
           h == CHOOSE g : Def(g)
<1>1. PICK f : IsLoop(f, n, S, start, turn)
  BY LoopExists
<1>2. Def(f)
  BY <1>1 DEF IsLoop
<1>3. Def(h)
  BY <1>2
<1> HIDE DEF h
<1>4. IsLoop(h, n, S, start, turn)
  BY <1>3, LoopIs
<1> QED
  BY <1>4 DEF h

-----------------------------------------------------------------------------
(* Quotes.                                                                   *)

\* The characters that mean something differ.
LEMMA CharactersDiffer ==
    /\ Quote # Comma /\ Quote # Newline /\ Comma # Newline /\ CR # Newline
BY DEF Quote, Comma, Newline, CR

\* A turn of the quote loop stays among its states.
LEMMA QuoteTurn ==
    ASSUME NEW text \in Seq(STRING), NEW i \in 1 .. Len(text)
    PROVE  QuoteStep(text, i) \in [QuoteState -> QuoteState]
BY DEF QuoteStep, QuoteState

\* QuoteStates is the loop of its turns.
LEMMA QuoteLoop ==
    ASSUME NEW text \in Seq(STRING)
    PROVE  IsLoop(QuoteStates(text), Len(text), QuoteState, QuoteStart,
                  [i \in 1 .. Len(text) |-> QuoteStep(text, i)])
<1> DEFINE n == Len(text)
           turn == [i \in 1 .. n |-> QuoteStep(text, i)]
           h == QuoteStates(text)
<1>1. n \in Nat /\ QuoteStart \in QuoteState
  BY DEF QuoteStart, QuoteState
<1>2. turn \in [1 .. n -> [QuoteState -> QuoteState]]
  BY QuoteTurn
<1>3. h = CHOOSE g : g = [i \in 0 .. n |->
                             IF i = 0 THEN QuoteStart ELSE QuoteStep(text, i)[g[i - 1]]]
  BY DEF QuoteStates
<1>4. h = CHOOSE g : g = [i \in 0 .. n |->
                             IF i = 0 THEN QuoteStart ELSE turn[i][g[i - 1]]]
  <2>1. ASSUME NEW g, NEW i \in 0 .. n
        PROVE  (IF i = 0 THEN QuoteStart ELSE QuoteStep(text, i)[g[i - 1]])
                   = IF i = 0 THEN QuoteStart ELSE turn[i][g[i - 1]]
    BY <1>1
  <2>2. \A g : [i \in 0 .. n |->
                             IF i = 0 THEN QuoteStart ELSE QuoteStep(text, i)[g[i - 1]]]
               = [i \in 0 .. n |->
                             IF i = 0 THEN QuoteStart ELSE turn[i][g[i - 1]]]
    BY <2>1
  <2> HIDE DEF turn, h
  <2> QED
    BY <1>3, <2>2
<1> HIDE DEF turn, h, n
<1>5. IsLoop(h, n, QuoteState, QuoteStart, turn)
  BY <1>1, <1>2, <1>4, LoopChosen
<1> QED
  BY <1>5 DEF turn, h, n

\* The states, without the turns.
LEMMA QuotesAre ==
    ASSUME NEW text \in Seq(STRING)
    PROVE  /\ QuoteStates(text) \in [0 .. Len(text) -> QuoteState]
           /\ QuoteStates(text)[0] = QuoteStart
           /\ \A i \in 1 .. Len(text) :
                  QuoteStates(text)[i] = QuoteStep(text, i)[QuoteStates(text)[i - 1]]
BY QuoteLoop DEF IsLoop

\* Character i is the first of two quotes.
Twice(text, i) == text[i] = Quote /\ i < Len(text) /\ text[i + 1] = Quote

\* One turn, from one state.
LEMMA QuoteTyped ==
    ASSUME NEW text, NEW i, NEW q \in QuoteState
    PROVE  /\ QuoteStep(text, i)[q] \in QuoteState
           /\ q.jump \in BOOLEAN /\ q.in_quote \in BOOLEAN
BY DEF QuoteStep, QuoteState

\* A character that is no quote, or is jumped over.
LEMMA QuoteStays ==
    ASSUME NEW text, NEW i, NEW q \in QuoteState, q.jump = TRUE \/ text[i] # Quote
    PROVE  /\ QuoteStep(text, i)[q].in_quote = q.in_quote
           /\ QuoteStep(text, i)[q].jump = FALSE
<1>1. QuoteStep(text, i)[q] = [q EXCEPT !.jump = FALSE]
  BY DEF QuoteStep
<1> QED
  BY <1>1 DEF QuoteState

\* The first of two quotes.
LEMMA QuoteDoubles ==
    ASSUME NEW text, NEW i, NEW q \in QuoteState,
           q.jump = FALSE, q.in_quote = TRUE, Twice(text, i)
    PROVE  /\ QuoteStep(text, i)[q].in_quote = TRUE
           /\ QuoteStep(text, i)[q].jump = TRUE
<1>1. text[i] = Quote /\ Doubled(text, i, q.in_quote)
  BY DEF Twice, Doubled
<1>2. QuoteStep(text, i)[q] = [q EXCEPT !.jump = TRUE]
  BY <1>1 DEF QuoteStep
<1> QED
  BY <1>2 DEF QuoteState

\* Any other quote.
LEMMA QuoteOpens ==
    ASSUME NEW text, NEW i, NEW q \in QuoteState,
           q.jump = FALSE, text[i] = Quote, q.in_quote = FALSE
    PROVE  /\ QuoteStep(text, i)[q].in_quote = TRUE
           /\ QuoteStep(text, i)[q].jump = FALSE
<1> DEFINE b == ~q.in_quote
<1>1. ~Doubled(text, i, q.in_quote) /\ b = TRUE
  BY DEF Doubled
<1>2. QuoteStep(text, i)[q] = [q EXCEPT !.in_quote = b]
  BY <1>1 DEF QuoteStep
<1> HIDE DEF b
<1> QED
  BY <1>1, <1>2 DEF QuoteState

\* A single quote inside quotes ends them.
LEMMA QuoteCloses ==
    ASSUME NEW text, NEW i, NEW q \in QuoteState,
           q.jump = FALSE, text[i] = Quote, q.in_quote = TRUE, ~Twice(text, i)
    PROVE  /\ QuoteStep(text, i)[q].in_quote = FALSE
           /\ QuoteStep(text, i)[q].jump = FALSE
<1> DEFINE b == ~q.in_quote
<1>1. ~Doubled(text, i, q.in_quote) /\ b = FALSE
  BY DEF Twice, Doubled
<1>2. QuoteStep(text, i)[q] = [q EXCEPT !.in_quote = b]
  BY <1>1 DEF QuoteStep
<1> HIDE DEF b
<1> QED
  BY <1>1, <1>2 DEF QuoteState

\* A state of the loop is its two fields.
LEMMA SameQuotes ==
    ASSUME NEW q \in QuoteState, NEW r \in QuoteState,
           q.in_quote = r.in_quote, q.jump = r.jump
    PROVE  q = r
BY DEF QuoteState

\* What is jumped over is the second quote of two.
LEMMA JumpedIsQuote ==
    ASSUME NEW text \in Seq(STRING), NEW i \in 0 .. Len(text),
           QuoteStates(text)[i].jump
    PROVE  i < Len(text) /\ text[i + 1] = Quote
<1> DEFINE f == QuoteStates(text)
<1> HIDE DEF f
<1>1. /\ f \in [0 .. Len(text) -> QuoteState]
      /\ f[0] = QuoteStart /\ f[i].jump
      /\ \A j \in 1 .. Len(text) : f[j] = QuoteStep(text, j)[f[j - 1]]
  BY QuotesAre DEF f
<1>2. i \in 1 .. Len(text) /\ i - 1 \in 0 .. Len(text)
  BY <1>1 DEF QuoteStart
<1>3. f[i - 1] \in QuoteState /\ f[i] = QuoteStep(text, i)[f[i - 1]]
  BY <1>1, <1>2
<1> DEFINE q == f[i - 1]
<1> HIDE DEF q
<1>4. q \in QuoteState /\ f[i] = QuoteStep(text, i)[q]
  BY <1>3 DEF q
<1>5. q.jump \in BOOLEAN /\ q.in_quote \in BOOLEAN /\ f[i].jump = TRUE
  BY <1>1, <1>4 DEF QuoteState
<1>6. q.jump = FALSE /\ text[i] = Quote
  BY <1>4, <1>5, QuoteStays
<1>7. Twice(text, i)
  BY <1>4, <1>5, <1>6, QuoteOpens, QuoteCloses
<1> QED
  BY <1>7 DEF Twice

\* Where a row begins: at the start of a text and behind the end of a row.
Starts(text) == {0} \union RowEnds(text)

\* Where a row starts, the loop is as at the start of the text.
LEMMA StartState ==
    ASSUME NEW text \in Seq(STRING), NEW b \in Starts(text)
    PROVE  b \in 0 .. Len(text) /\ QuoteStates(text)[b] = QuoteStart
<1> DEFINE f == QuoteStates(text)
<1> HIDE DEF f
<1>1. /\ f \in [0 .. Len(text) -> QuoteState]
      /\ f[0] = QuoteStart
      /\ \A j \in 1 .. Len(text) : f[j] = QuoteStep(text, j)[f[j - 1]]
  BY QuotesAre DEF f
<1>2. CASE b = 0
  BY <1>1, <1>2 DEF f
<1>3. CASE b \in RowEnds(text)
  <2>1. b \in 1 .. Len(text) /\ text[b] = Newline /\ ~f[b].in_quote
    BY <1>3 DEF RowEnds, EndsRow, f
  <2>2. f[b] \in QuoteState /\ f[b].jump = FALSE
    <3>1. b - 1 \in 0 .. Len(text) /\ text[b] # Quote
      BY <2>1, CharactersDiffer
    <3> DEFINE q == f[b - 1]
    <3>2. q \in QuoteState /\ f[b] = QuoteStep(text, b)[q]
      BY <1>1, <2>1, <3>1
    <3> HIDE DEF q
    <3>3. QuoteStep(text, b)[q] \in QuoteState /\ QuoteStep(text, b)[q].jump = FALSE
      BY <3>1, <3>2, QuoteTyped, QuoteStays
    <3> QED
      BY <3>2, <3>3
  <2>3. f[b] = QuoteStart
    BY <2>1, <2>2, SameQuotes DEF QuoteState, QuoteStart
  <2> QED
    BY <2>1, <2>3 DEF f
<1> QED
  BY <1>2, <1>3 DEF Starts

\* The characters b + 1 to e of a text.
Part(text, b, e) == SubSeq(text, b + 1, e)

\* What a part of a text is, character by character.
LEMMA PartIs ==
    ASSUME NEW S, NEW text \in Seq(S), NEW e \in 0 .. Len(text), NEW b \in 0 .. e
    PROVE  /\ Part(text, b, e) \in Seq(S)
           /\ Len(Part(text, b, e)) = e - b
           /\ \A i \in 1 .. e - b : Part(text, b, e)[i] = text[b + i]
<1>1. b + 1 \in 1 .. Len(text) + 1 /\ e \in b .. Len(text)
  OBVIOUS
<1>2. \A i \in b + 1 .. e : text[i] \in S
  OBVIOUS
<1> QED
  BY <1>1, <1>2 DEF Part

\* The first i characters of a part are read as they are in the text: the
\* loops look one character ahead, from a quote.
Alike(text, b, e, i) == i = 0 \/ i < e - b \/ e = Len(text) \/ text[e] # Quote

\* A doubled quote is one in the part as in the text.
LEMMA TwiceInPart ==
    ASSUME NEW text \in Seq(STRING), NEW e \in 0 .. Len(text), NEW b \in 0 .. e,
           NEW i \in 1 .. e - b, Alike(text, b, e, i), text[b + i] = Quote
    PROVE  Twice(Part(text, b, e), i) <=> Twice(text, b + i)
<1> DEFINE part == Part(text, b, e)
<1>1. b \in Nat /\ e \in Nat /\ i \in Nat
  OBVIOUS
<1>2. /\ Len(part) = e - b
      /\ \A k \in 1 .. e - b : part[k] = text[b + k]
  BY PartIs
<1> HIDE DEF part
<1>3. CASE i < e - b
  <2>1. i \in 1 .. e - b /\ i + 1 \in 1 .. e - b /\ b + (i + 1) = (b + i) + 1
    BY <1>1, <1>3
  <2>2. part[i + 1] = text[b + (i + 1)] /\ part[i] = text[b + i]
    BY <1>2, <2>1
  <2>3. part[i + 1] = text[(b + i) + 1]
    BY <2>1, <2>2
  <2>4. b + i < Len(text)
    BY <1>1, <1>3
  <2> QED
    BY <1>2, <1>3, <2>2, <2>3, <2>4 DEF Twice, part
<1>4. CASE i = e - b
  <2>1. b + i = e
    BY <1>1, <1>4
  <2>2. e = Len(text)
    BY <1>1, <1>4, <2>1 DEF Alike
  <2>3. ~(i < Len(part)) /\ ~(b + i < Len(text))
    BY <1>1, <1>2, <1>4, <2>1, <2>2
  <2> QED
    BY <2>3 DEF Twice, part
<1> QED
  BY <1>1, <1>3, <1>4

\* A part that starts with a row reads its quotes as the text does.
LEMMA QuotesOfPart ==
    ASSUME NEW text \in Seq(STRING), NEW e \in 0 .. Len(text), NEW b \in Starts(text),
           b <= e, NEW i \in 0 .. e - b, Alike(text, b, e, i)
    PROVE  QuoteStates(Part(text, b, e))[i] = QuoteStates(text)[b + i]
<1> DEFINE part == Part(text, b, e)
           f == QuoteStates(text)
           g == QuoteStates(part)
           T == {k \in 0 .. i : g[k] = f[b + k]}
<1>1. b \in 0 .. e /\ b \in Nat /\ e \in Nat
  BY StartState
<1>2. /\ part \in Seq(STRING) /\ Len(part) = e - b
      /\ \A k \in 1 .. e - b : part[k] = text[b + k]
  BY <1>1, PartIs
<1>3. /\ f[b] = QuoteStart
      /\ f \in [0 .. Len(text) -> QuoteState]
      /\ \A j \in 1 .. Len(text) : f[j] = QuoteStep(text, j)[f[j - 1]]
  BY QuotesAre, StartState
<1>4. /\ g[0] = QuoteStart
      /\ \A j \in 1 .. e - b : g[j] = QuoteStep(part, j)[g[j - 1]]
  BY <1>2, QuotesAre
<1> HIDE DEF f, g, part
<1>5. ASSUME NEW k \in 0 .. i - 1, g[k] = f[b + k] PROVE g[k + 1] = f[b + (k + 1)]
  <2>1. /\ k \in Nat /\ k + 1 \in 1 .. e - b /\ (k + 1) - 1 = k
        /\ b + (k + 1) \in 1 .. Len(text) /\ (b + (k + 1)) - 1 = b + k
        /\ b + k \in 0 .. Len(text)
    BY <1>1
  <2> DEFINE j == b + (k + 1)
             q == f[b + k]
  <2>2. /\ g[k + 1] = QuoteStep(part, k + 1)[q]
        /\ f[j] = QuoteStep(text, j)[q]
        /\ q \in QuoteState
        /\ part[k + 1] = text[j]
    BY <1>2, <1>3, <1>4, <1>5, <2>1
  <2>3. text[j] = Quote =>
            (Twice(part, k + 1) <=> Twice(text, j))
    <3>1. Alike(text, b, e, k + 1)
      BY <1>1, <2>1 DEF Alike
    <3> QED
      BY <1>1, <2>1, <3>1, TwiceInPart DEF part
  <2> HIDE DEF j, q
  <2>4. QuoteStep(part, k + 1)[q] = QuoteStep(text, j)[q]
    <3>1. /\ q.jump \in BOOLEAN /\ q.in_quote \in BOOLEAN
          /\ QuoteStep(part, k + 1)[q] \in QuoteState
          /\ QuoteStep(text, j)[q] \in QuoteState
      BY <2>2, QuoteTyped
    <3>2. /\ QuoteStep(part, k + 1)[q].in_quote = QuoteStep(text, j)[q].in_quote
          /\ QuoteStep(part, k + 1)[q].jump = QuoteStep(text, j)[q].jump
      <4> DEFINE r == QuoteStep(part, k + 1)[q]
                 s == QuoteStep(text, j)[q]
      <4>1. CASE q.jump = TRUE \/ text[j] # Quote
        <5>1. q.jump = TRUE \/ part[k + 1] # Quote
          BY <2>2, <4>1
        <5>2. r.in_quote = q.in_quote /\ r.jump = FALSE
          BY <2>2, <5>1, QuoteStays
        <5>3. s.in_quote = q.in_quote /\ s.jump = FALSE
          BY <2>2, <4>1, QuoteStays
        <5> QED
          BY <5>2, <5>3
      <4>2. CASE q.jump = FALSE /\ text[j] = Quote /\ q.in_quote = FALSE
        <5>1. q \in QuoteState /\ part[k + 1] = Quote
          BY <2>2, <4>2
        <5>2. r.in_quote = TRUE /\ r.jump = FALSE
          BY <4>2, <5>1, QuoteOpens
        <5>3. s.in_quote = TRUE /\ s.jump = FALSE
          BY <4>2, <5>1, QuoteOpens
        <5> QED
          BY <5>2, <5>3
      <4>3. CASE q.jump = FALSE /\ text[j] = Quote /\ q.in_quote = TRUE
        <5>1. q \in QuoteState /\ part[k + 1] = Quote
          BY <2>2, <4>3
        <5>2. CASE Twice(text, j)
          <6>1. Twice(part, k + 1)
            BY <2>3, <4>3, <5>2
          <6>2. r.in_quote = TRUE /\ r.jump = TRUE
            BY <4>3, <5>1, <6>1, QuoteDoubles
          <6>3. s.in_quote = TRUE /\ s.jump = TRUE
            BY <4>3, <5>1, <5>2, QuoteDoubles
          <6> QED
            BY <6>2, <6>3
        <5>3. CASE ~Twice(text, j)
          <6>1. ~Twice(part, k + 1)
            BY <2>3, <4>3, <5>3
          <6>2. r.in_quote = FALSE /\ r.jump = FALSE
            BY <4>3, <5>1, <6>1, QuoteCloses
          <6>3. s.in_quote = FALSE /\ s.jump = FALSE
            BY <4>3, <5>1, <5>3, QuoteCloses
          <6> QED
            BY <6>2, <6>3
        <5> QED
          BY <5>2, <5>3
      <4> QED
        BY <3>1, <4>1, <4>2, <4>3
    <3> QED
      BY <3>1, <3>2, SameQuotes
  <2> QED
    BY <2>2, <2>4 DEF j
<1>6. 0 \in T
  BY <1>1, <1>3, <1>4
<1>7. \A k \in 0 .. i - 1 : k \in T => k + 1 \in T
  BY <1>5
<1>8. i \in T
  <2> HIDE DEF T
  <2>1. i \in Nat /\ 0 .. i \subseteq T
    BY <1>1, <1>6, <1>7, UpTo
  <2> QED
    BY <2>1
<1> QED
  BY <1>8 DEF f, g, part

\* The rows of a part end where they end in the text.
LEMMA RowEndsOfPart ==
    ASSUME NEW text \in Seq(STRING), NEW e \in 0 .. Len(text), NEW b \in Starts(text),
           b <= e
    PROVE  RowEnds(Part(text, b, e)) = {i \in 1 .. e - b : b + i \in RowEnds(text)}
<1> DEFINE part == Part(text, b, e)
<1>1. b \in 0 .. e /\ b \in Nat /\ e \in Nat
  BY StartState
<1>2. /\ part \in Seq(STRING) /\ Len(part) = e - b
      /\ \A k \in 1 .. e - b : part[k] = text[b + k]
  BY <1>1, PartIs
<1>3. ASSUME NEW i \in 1 .. e - b
      PROVE  i \in RowEnds(part) <=> b + i \in RowEnds(text)
  <2>1. part[i] = text[b + i] /\ b + i \in 1 .. Len(text) /\ i \in 1 .. Len(part)
    BY <1>1, <1>2
  <2>2. CASE text[b + i] # Newline
    BY <2>1, <2>2 DEF RowEnds, EndsRow
  <2>3. CASE text[b + i] = Newline
    <3>1. Alike(text, b, e, i)
      BY <1>1, <2>3, CharactersDiffer DEF Alike
    <3>2. QuoteStates(part)[i] = QuoteStates(text)[b + i]
      BY <3>1, QuotesOfPart
    <3> HIDE DEF part
    <3> QED
      BY <2>1, <3>2 DEF RowEnds, EndsRow
  <2> QED
    BY <2>2, <2>3
<1>4. RowEnds(part) \subseteq 1 .. e - b
  BY <1>2 DEF RowEnds
<1> HIDE DEF part
<1>5. RowEnds(part) = {i \in 1 .. e - b : b + i \in RowEnds(text)}
  BY <1>3, <1>4
<1> QED
  BY <1>5 DEF part

-----------------------------------------------------------------------------
(* The parser of a batch.                                                    *)

CellOf == Nat \X Seq(STRING)

\* A state of the parser is its five fields.
LEMMA ParseFields ==
    ASSUME NEW p \in ParseState
    PROVE  /\ p.cells \in Seq(CellOf) /\ p.field \in Seq(STRING) /\ p.col \in Nat
           /\ p.row_started \in BOOLEAN /\ p.thrown \in BOOLEAN
           /\ p = [cells |-> p.cells, field |-> p.field, col |-> p.col,
                   row_started |-> p.row_started, thrown |-> p.thrown]
BY DEF ParseState, CellOf

\* States that agree on them are one.
LEMMA SameParse ==
    ASSUME NEW p \in ParseState, NEW r \in ParseState,
           p.cells = r.cells, p.field = r.field, p.col = r.col,
           p.row_started = r.row_started, p.thrown = r.thrown
    PROVE  p = r
<1> DEFINE Fields(x) == [cells |-> x.cells, field |-> x.field, col |-> x.col,
                         row_started |-> x.row_started, thrown |-> x.thrown]
<1>1. p = Fields(p) /\ r = Fields(r)
  BY ParseFields
<1>2. Fields(p) = Fields(r)
  OBVIOUS
<1> HIDE DEF Fields
<1> QED
  BY <1>1, <1>2

\* The parser starts in one of its states.
LEMMA ParseStartTyped == ParseStart \in ParseState
<1>1. <<>> \in Seq(CellOf) /\ <<>> \in Seq(STRING)
  OBVIOUS
<1> QED
  BY <1>1 DEF ParseStart, ParseState, CellOf

\* What the parser does with a field and a character leads to a state.
LEMMA AppendFieldTyped ==
    ASSUME NEW p \in ParseState, NEW field \in Seq(STRING)
    PROVE  AppendField(p, field) \in ParseState
<1>1. <<p.col, field>> \in CellOf
  BY ParseFields DEF CellOf
<1>2. Append(p.cells, <<p.col, field>>) \in Seq(CellOf)
  BY <1>1, ParseFields
<1>3. CASE FieldRejected(p.col, field)
  <2>1. AppendField(p, field) = [p EXCEPT !.thrown = TRUE]
    BY <1>3 DEF AppendField
  <2> QED
    BY <2>1 DEF ParseState
<1>4. CASE ~FieldRejected(p.col, field)
  <2>1. AppendField(p, field) =
            [p EXCEPT !.cells = Append(p.cells, <<p.col, field>>), !.field = <<>>]
    BY <1>4 DEF AppendField
  <2>2. <<>> \in Seq(STRING)
    OBVIOUS
  <2> QED
    BY <1>2, <2>1, <2>2 DEF ParseState, CellOf
<1> QED
  BY <1>3, <1>4

\* A field without its '\r' is a field.
LEMMA DropCRTyped ==
    ASSUME NEW field \in Seq(STRING)
    PROVE  DropCR(field) \in Seq(STRING)
<1>1. CASE field = <<>>
  BY <1>1 DEF DropCR
<1>2. CASE field # <<>>
  <2>1. Front(field) \in Seq(STRING)
    BY <1>2 DEF Front
  <2> QED
    BY <1>2, <2>1 DEF DropCR
<1> QED
  BY <1>1, <1>2

\* The states of a row's first and later characters.
EndOfRow(p) == [AppendField(p, DropCR(p.field)) EXCEPT !.col = 1, !.row_started = FALSE]

EndOfField(p) == [AppendField(p, p.field) EXCEPT !.col = @ + 1, !.row_started = TRUE]

Taken(p, char) == [p EXCEPT !.field = Append(@, char), !.row_started = TRUE]

Opened(p) == [p EXCEPT !.row_started = TRUE]

\* The branches of the loop.
LEMMA ParseTurnIs ==
    ASSUME NEW text, NEW i, NEW q, NEW p \in ParseState
    PROVE  ParseStep(text, i, q)[p] =
               IF p.thrown \/ q.jump THEN p
               ELSE IF text[i] = Quote THEN
                   IF Doubled(text, i, q.in_quote) THEN Taken(p, Quote) ELSE Opened(p)
               ELSE IF text[i] = Comma /\ ~q.in_quote THEN EndOfField(p)
               ELSE IF text[i] = Newline /\ ~q.in_quote THEN EndOfRow(p)
               ELSE Taken(p, text[i])
BY DEF ParseStep, Taken, Opened, EndOfField, EndOfRow

\* Each branch of a turn leads to a state.
LEMMA BranchesTyped ==
    ASSUME NEW p \in ParseState, NEW char \in STRING
    PROVE  /\ EndOfRow(p) \in ParseState
           /\ EndOfField(p) \in ParseState
           /\ Taken(p, char) \in ParseState
           /\ Opened(p) \in ParseState
<1>1. ASSUME NEW r \in ParseState
      PROVE  /\ [r EXCEPT !.col = 1, !.row_started = FALSE] \in ParseState
             /\ [r EXCEPT !.col = @ + 1, !.row_started = TRUE] \in ParseState
             /\ [r EXCEPT !.row_started = TRUE] \in ParseState
  <2>1. r.col + 1 \in Nat
    BY ParseFields
  <2> QED
    BY <2>1 DEF ParseState
<1>2. EndOfRow(p) \in ParseState
  <2>1. AppendField(p, DropCR(p.field)) \in ParseState
    BY AppendFieldTyped, DropCRTyped, ParseFields
  <2> QED
    BY <1>1, <2>1 DEF EndOfRow
<1>3. EndOfField(p) \in ParseState
  <2>1. AppendField(p, p.field) \in ParseState
    BY AppendFieldTyped, ParseFields
  <2> QED
    BY <1>1, <2>1 DEF EndOfField
<1>4. Taken(p, char) \in ParseState
  <2>1. Append(p.field, char) \in Seq(STRING)
    BY ParseFields
  <2>2. Taken(p, char) = [p EXCEPT !.field = Append(p.field, char), !.row_started = TRUE]
    BY DEF Taken
  <2> QED
    BY <2>1, <2>2 DEF ParseState
<1> QED
  BY <1>1, <1>2, <1>3, <1>4 DEF Opened

\* A turn of the parser stays among its states.
LEMMA ParseTurn ==
    ASSUME NEW text \in Seq(STRING), NEW i \in 1 .. Len(text), NEW q \in QuoteState
    PROVE  ParseStep(text, i, q) \in [ParseState -> ParseState]
<1>1. text[i] \in STRING
  OBVIOUS
<1>2. DOMAIN ParseStep(text, i, q) = ParseState
  BY DEF ParseStep
<1>3. ASSUME NEW p \in ParseState PROVE ParseStep(text, i, q)[p] \in ParseState
  <2>1. /\ EndOfRow(p) \in ParseState /\ EndOfField(p) \in ParseState
        /\ Taken(p, text[i]) \in ParseState /\ Opened(p) \in ParseState
    BY <1>1, BranchesTyped
  <2> QED
    BY <2>1, ParseTurnIs
<1>4. ParseStep(text, i, q) = [p \in ParseState |-> ParseStep(text, i, q)[p]]
  BY DEF ParseStep
<1> QED
  BY <1>3, <1>4

\* ParseStates is the loop of its turns.
LEMMA ParseLoop ==
    ASSUME NEW text \in Seq(STRING)
    PROVE  IsLoop(ParseStates(text), Len(text), ParseState, ParseStart,
                  [i \in 1 .. Len(text) |->
                      ParseStep(text, i, QuoteStates(text)[i - 1])])
<1> DEFINE n == Len(text)
           turn == [i \in 1 .. n |-> ParseStep(text, i, QuoteStates(text)[i - 1])]
           h == ParseStates(text)
<1>1. n \in Nat /\ ParseStart \in ParseState
  BY ParseStartTyped
<1>2. turn \in [1 .. n -> [ParseState -> ParseState]]
  <2> SUFFICES ASSUME NEW i \in 1 .. n
               PROVE  ParseStep(text, i, QuoteStates(text)[i - 1])
                          \in [ParseState -> ParseState]
    OBVIOUS
  <2>1. i - 1 \in 0 .. Len(text)
    OBVIOUS
  <2>2. QuoteStates(text)[i - 1] \in QuoteState
    BY <2>1, QuotesAre
  <2> QED
    BY <2>2, ParseTurn
<1>3. h = CHOOSE g : g = [i \in 0 .. n |->
              IF i = 0 THEN ParseStart
              ELSE ParseStep(text, i, QuoteStates(text)[i - 1])[g[i - 1]]]
  BY DEF ParseStates
<1>4. h = CHOOSE g : g = [i \in 0 .. n |->
                             IF i = 0 THEN ParseStart ELSE turn[i][g[i - 1]]]
  <2>1. ASSUME NEW g, NEW i \in 0 .. n
        PROVE  (IF i = 0 THEN ParseStart
                ELSE ParseStep(text, i, QuoteStates(text)[i - 1])[g[i - 1]])
                   = IF i = 0 THEN ParseStart ELSE turn[i][g[i - 1]]
    BY <1>1
  <2>2. \A g : [i \in 0 .. n |->
                   IF i = 0 THEN ParseStart
                   ELSE ParseStep(text, i, QuoteStates(text)[i - 1])[g[i - 1]]]
               = [i \in 0 .. n |-> IF i = 0 THEN ParseStart ELSE turn[i][g[i - 1]]]
    BY <2>1
  <2> HIDE DEF turn, h
  <2> QED
    BY <1>3, <2>2
<1> HIDE DEF turn, h, n
<1>5. IsLoop(h, n, ParseState, ParseStart, turn)
  BY <1>1, <1>2, <1>4, LoopChosen
<1> QED
  BY <1>5 DEF turn, h, n

\* What the states of the parser are.
LEMMA ParsesAre ==
    ASSUME NEW text \in Seq(STRING)
    PROVE  /\ ParseStates(text) \in [0 .. Len(text) -> ParseState]
           /\ ParseStates(text)[0] = ParseStart
           /\ \A i \in 1 .. Len(text) :
                  ParseStates(text)[i] =
                      ParseStep(text, i, QuoteStates(text)[i - 1])[ParseStates(text)[i - 1]]
BY ParseLoop DEF IsLoop

\* One turn, with the states before and after it.
LEMMA OneTurn ==
    ASSUME NEW text \in Seq(STRING), NEW i \in 1 .. Len(text)
    PROVE  /\ QuoteStates(text)[i - 1] \in QuoteState
           /\ QuoteStates(text)[i] \in QuoteState
           /\ ParseStates(text)[i - 1] \in ParseState
           /\ ParseStates(text)[i] \in ParseState
           /\ QuoteStates(text)[i] = QuoteStep(text, i)[QuoteStates(text)[i - 1]]
           /\ ParseStates(text)[i] =
                  ParseStep(text, i, QuoteStates(text)[i - 1])[ParseStates(text)[i - 1]]
<1>1. i - 1 \in 0 .. Len(text) /\ i \in 0 .. Len(text)
  OBVIOUS
<1> QED
  BY <1>1, QuotesAre, ParsesAre

\* An exception ends the parse.
LEMMA ThrownStays ==
    ASSUME NEW text \in Seq(STRING), NEW e \in 0 .. Len(text), NEW b \in 0 .. e,
           ParseStates(text)[b].thrown = TRUE
    PROVE  ParseStates(text)[e].thrown = TRUE
<1> DEFINE T == {k \in 0 .. e - b : ParseStates(text)[b + k].thrown = TRUE}
<1>1. ASSUME NEW k \in 0 .. (e - b) - 1, k \in T PROVE k + 1 \in T
  <2> DEFINE i == b + (k + 1)
             p == ParseStates(text)[i - 1]
             q == QuoteStates(text)[i - 1]
  <2>1. i \in 1 .. Len(text) /\ i - 1 = b + k /\ k + 1 \in 0 .. e - b
    OBVIOUS
  <2>2. p.thrown = TRUE
    BY <1>1, <2>1
  <2>3. p \in ParseState /\ ParseStates(text)[i] = ParseStep(text, i, q)[p]
    BY <2>1, OneTurn
  <2> HIDE DEF p, q
  <2>4. ParseStep(text, i, q)[p] = p
    BY <2>2, <2>3, ParseTurnIs
  <2> QED
    BY <2>1, <2>2, <2>3, <2>4
<1>2. 0 \in T
  OBVIOUS
<1>3. e - b \in T
  <2>1. \A k \in 0 .. (e - b) - 1 : k \in T => k + 1 \in T
    BY <1>1
  <2>2. e - b \in Nat
    OBVIOUS
  <2> HIDE DEF T
  <2>3. 0 .. e - b \subseteq T
    BY <1>2, <2>1, <2>2, UpTo
  <2> QED
    BY <2>2, <2>3
<1> QED
  BY <1>3

\* At the end of a row nothing is left but the cells.
LEMMA ParseAtStart ==
    ASSUME NEW text \in Seq(STRING), NEW b \in Starts(text),
           ParseStates(text)[b].thrown = FALSE
    PROVE  /\ ParseStates(text)[b].field = <<>>
           /\ ParseStates(text)[b].col = 1
           /\ ParseStates(text)[b].row_started = FALSE
<1>1. CASE b = 0
  BY <1>1, ParsesAre DEF ParseStart
<1>2. CASE b \in RowEnds(text)
  <2> DEFINE p == ParseStates(text)[b - 1]
             q == QuoteStates(text)[b - 1]
  <2>1. /\ b \in 1 .. Len(text) /\ b - 1 \in 0 .. Len(text)
        /\ text[b] = Newline /\ ~QuoteStates(text)[b].in_quote
    BY <1>2 DEF RowEnds, EndsRow
  <2>2. /\ q \in QuoteState /\ QuoteStates(text)[b] = QuoteStep(text, b)[q]
        /\ p \in ParseState /\ ParseStates(text)[b] = ParseStep(text, b, q)[p]
    BY <2>1, OneTurn
  <2>3. ~q.jump
    <3> SUFFICES ASSUME q.jump PROVE FALSE
      OBVIOUS
    <3>1. text[(b - 1) + 1] = Quote
      BY <2>1, JumpedIsQuote
    <3> QED
      BY <2>1, <3>1, CharactersDiffer
  <2> HIDE DEF p, q
  <2>4. ~q.in_quote
    <3>1. QuoteStep(text, b)[q].in_quote = q.in_quote
      BY <2>1, <2>2, CharactersDiffer, QuoteStays
    <3> QED
      BY <2>1, <2>2, <3>1
  <2>5. ~p.thrown
    <3> SUFFICES ASSUME p.thrown PROVE FALSE
      OBVIOUS
    <3>1. ParseStates(text)[b] = p
      BY <2>2, ParseTurnIs
    <3> QED
      BY <3>1
  <2>6. ParseStates(text)[b] = EndOfRow(p)
    BY <2>1, <2>2, <2>3, <2>4, <2>5, ParseTurnIs, CharactersDiffer
  <2> DEFINE field == DropCR(p.field)
             r == AppendField(p, field)
  <2>7. field \in Seq(STRING) /\ r \in ParseState
    BY <2>2, AppendFieldTyped, DropCRTyped, ParseFields
  <2>8. EndOfRow(p) = [r EXCEPT !.col = 1, !.row_started = FALSE]
    BY DEF EndOfRow
  <2> HIDE DEF r
  <2>9. /\ EndOfRow(p).col = 1 /\ EndOfRow(p).row_started = FALSE
        /\ EndOfRow(p).field = r.field /\ EndOfRow(p).thrown = r.thrown
    BY <2>7, <2>8 DEF ParseState
  <2> HIDE DEF field
  <2>10. ~FieldRejected(p.col, field)
    <3> SUFFICES ASSUME FieldRejected(p.col, field) PROVE FALSE
      OBVIOUS
    <3>1. r = [p EXCEPT !.thrown = TRUE]
      BY DEF r, AppendField
    <3>2. r.thrown = TRUE
      BY <2>2, <3>1 DEF ParseState
    <3> QED
      BY <2>6, <2>9, <3>2
  <2>11. r = [p EXCEPT !.cells = Append(p.cells, <<p.col, field>>), !.field = <<>>]
    BY <2>10 DEF r, AppendField
  <2>12. r.field = <<>>
    BY <2>2, <2>11 DEF ParseState
  <2> QED
    BY <2>6, <2>9, <2>12
<1> QED
  BY <1>1, <1>2 DEF Starts

\* A parse that goes on behind other cells.
Behind(cells, p) == [p EXCEPT !.cells = cells \o p.cells]

\* A state behind cells differs in its cells only.
LEMMA BehindIs ==
    ASSUME NEW cells \in Seq(CellOf), NEW p \in ParseState
    PROVE  /\ Behind(cells, p) \in ParseState
           /\ Behind(cells, p).cells = cells \o p.cells
           /\ Behind(cells, p).field = p.field
           /\ Behind(cells, p).col = p.col
           /\ Behind(cells, p).row_started = p.row_started
           /\ Behind(cells, p).thrown = p.thrown
<1>1. cells \o p.cells \in Seq(CellOf)
  BY ParseFields
<1> DEFINE c == cells \o p.cells
<1> HIDE DEF c
<1>2. c \in Seq(Nat \X Seq(STRING)) /\ Behind(cells, p) = [p EXCEPT !.cells = c]
  BY <1>1 DEF Behind, CellOf, c
<1>3. /\ [p EXCEPT !.cells = c] \in ParseState
      /\ [p EXCEPT !.cells = c].cells = c
      /\ [p EXCEPT !.cells = c].field = p.field
      /\ [p EXCEPT !.cells = c].col = p.col
      /\ [p EXCEPT !.cells = c].row_started = p.row_started
      /\ [p EXCEPT !.cells = c].thrown = p.thrown
  BY <1>2 DEF ParseState
<1> QED
  BY <1>2, <1>3 DEF c

\* One cell more, behind others.
LEMMA AppendBehindCells ==
    ASSUME NEW cells \in Seq(CellOf), NEW own \in Seq(CellOf), NEW cell \in CellOf
    PROVE  Append(cells \o own, cell) = cells \o Append(own, cell)
<1>1. cells \o own \in Seq(CellOf) /\ <<cell>> \in Seq(CellOf)
  OBVIOUS
<1>2. Append(cells \o own, cell) = (cells \o own) \o <<cell>>
  BY <1>1, AppendIsConcat
<1>3. Append(own, cell) = own \o <<cell>>
  BY AppendIsConcat
<1>4. (cells \o own) \o <<cell>> = cells \o (own \o <<cell>>)
  BY <1>1, ConcatAssociative
<1> QED
  BY <1>2, <1>3, <1>4

\* Cells in front do not change what is done with a field.
LEMMA BehindAppendField ==
    ASSUME NEW cells \in Seq(CellOf), NEW p \in ParseState, NEW field \in Seq(STRING)
    PROVE  AppendField(Behind(cells, p), field) = Behind(cells, AppendField(p, field))
<1> DEFINE s == Behind(cells, p)
           r == AppendField(p, field)
<1>1. /\ s \in ParseState /\ s.cells = cells \o p.cells /\ s.field = p.field
      /\ s.col = p.col /\ s.row_started = p.row_started /\ s.thrown = p.thrown
  BY BehindIs
<1>2. r \in ParseState
  BY AppendFieldTyped
<1>3. /\ Behind(cells, r) \in ParseState /\ Behind(cells, r).cells = cells \o r.cells
      /\ Behind(cells, r).field = r.field
      /\ Behind(cells, r).col = r.col /\ Behind(cells, r).row_started = r.row_started
      /\ Behind(cells, r).thrown = r.thrown
  BY <1>2, BehindIs
<1> HIDE DEF s
<1>4. CASE FieldRejected(p.col, field)
  <2>1. r = [p EXCEPT !.thrown = TRUE]
    BY <1>4 DEF AppendField
  <2>2. AppendField(s, field) = [s EXCEPT !.thrown = TRUE]
    BY <1>1, <1>4 DEF AppendField
  <2>3. /\ r.cells = p.cells /\ r.field = p.field /\ r.col = p.col
        /\ r.row_started = p.row_started /\ r.thrown = TRUE
    BY <2>1 DEF ParseState
  <2> HIDE DEF r
  <2>4. [s EXCEPT !.thrown = TRUE] = Behind(cells, r)
    BY <1>1, <1>3, <2>3 DEF ParseState
  <2> QED
    BY <2>2, <2>4 DEF r, s
<1>5. CASE ~FieldRejected(p.col, field)
  <2> DEFINE cell == <<p.col, field>>
  <2>1. cell \in CellOf /\ p.cells \in Seq(CellOf)
    BY ParseFields DEF CellOf
  <2> HIDE DEF cell
  <2>2. r = [p EXCEPT !.cells = Append(p.cells, cell), !.field = <<>>]
    BY <1>5 DEF AppendField, cell
  <2>3. AppendField(s, field) = [s EXCEPT !.cells = Append(s.cells, cell), !.field = <<>>]
    BY <1>1, <1>5 DEF AppendField, cell
  <2>4. /\ r.cells = Append(p.cells, cell) /\ r.field = <<>> /\ r.col = p.col
        /\ r.row_started = p.row_started /\ r.thrown = p.thrown
    BY <2>2 DEF ParseState
  <2>5. Append(s.cells, cell) = cells \o Append(p.cells, cell)
    <3> DEFINE own == p.cells
    <3>1. cell \in CellOf /\ own \in Seq(CellOf)
      BY <2>1
    <3> HIDE DEF own
    <3>2. Append(cells \o own, cell) = cells \o Append(own, cell)
      BY <3>1, AppendBehindCells
    <3> QED
      BY <1>1, <3>2 DEF own
  <2> DEFINE all == Append(s.cells, cell)
  <2> HIDE DEF r, all
  <2>6. [s EXCEPT !.cells = all, !.field = <<>>] = Behind(cells, r)
    BY <1>1, <1>3, <2>4, <2>5 DEF ParseState, all
  <2> QED
    BY <2>3, <2>6 DEF r, s, all
<1> QED
  BY <1>4, <1>5

\* Nor what any branch of a turn does.
LEMMA BehindBranches ==
    ASSUME NEW cells \in Seq(CellOf), NEW p \in ParseState, NEW char \in STRING
    PROVE  /\ EndOfRow(Behind(cells, p)) = Behind(cells, EndOfRow(p))
           /\ EndOfField(Behind(cells, p)) = Behind(cells, EndOfField(p))
           /\ Taken(Behind(cells, p), char) = Behind(cells, Taken(p, char))
           /\ Opened(Behind(cells, p)) = Behind(cells, Opened(p))
<1>1. /\ Behind(cells, p) \in ParseState
      /\ Behind(cells, p).field = p.field
  BY BehindIs
<1>2. ASSUME NEW r \in ParseState
      PROVE  /\ [Behind(cells, r) EXCEPT !.col = 1, !.row_started = FALSE]
                     = Behind(cells, [r EXCEPT !.col = 1, !.row_started = FALSE])
             /\ [Behind(cells, r) EXCEPT !.col = @ + 1, !.row_started = TRUE]
                     = Behind(cells, [r EXCEPT !.col = @ + 1, !.row_started = TRUE])
             /\ [Behind(cells, r) EXCEPT !.row_started = TRUE]
                     = Behind(cells, [r EXCEPT !.row_started = TRUE])
  <2>1. cells \o r.cells \in Seq(CellOf) /\ r.col + 1 \in Nat
    BY ParseFields
  <2> DEFINE all == cells \o r.cells
  <2> HIDE DEF all
  <2>2. all \in Seq(Nat \X Seq(STRING)) /\ Behind(cells, r) = [r EXCEPT !.cells = all]
    BY <2>1 DEF Behind, CellOf, all
  <2>3. [Behind(cells, r) EXCEPT !.col = 1, !.row_started = FALSE]
            = Behind(cells, [r EXCEPT !.col = 1, !.row_started = FALSE])
    <3> DEFINE t == [r EXCEPT !.col = 1, !.row_started = FALSE]
    <3>1. t.cells = r.cells
      BY DEF ParseState
    <3>2. Behind(cells, t) = [t EXCEPT !.cells = all]
      BY <3>1 DEF Behind, all
    <3> QED
      BY <2>2, <3>2 DEF ParseState
  <2>4. [Behind(cells, r) EXCEPT !.col = @ + 1, !.row_started = TRUE]
            = Behind(cells, [r EXCEPT !.col = @ + 1, !.row_started = TRUE])
    <3> DEFINE t == [r EXCEPT !.col = @ + 1, !.row_started = TRUE]
    <3>1. t.cells = r.cells
      BY DEF ParseState
    <3>2. Behind(cells, t) = [t EXCEPT !.cells = all]
      BY <3>1 DEF Behind, all
    <3> QED
      BY <2>1, <2>2, <3>2 DEF ParseState
  <2>5. [Behind(cells, r) EXCEPT !.row_started = TRUE]
            = Behind(cells, [r EXCEPT !.row_started = TRUE])
    <3> DEFINE t == [r EXCEPT !.row_started = TRUE]
    <3>1. t.cells = r.cells
      BY DEF ParseState
    <3>2. Behind(cells, t) = [t EXCEPT !.cells = all]
      BY <3>1 DEF Behind, all
    <3> QED
      BY <2>2, <3>2 DEF ParseState
  <2> QED
    BY <2>3, <2>4, <2>5
<1>3. EndOfRow(Behind(cells, p)) = Behind(cells, EndOfRow(p))
  <2> DEFINE r == AppendField(p, DropCR(p.field))
  <2>1. r \in ParseState /\ AppendField(Behind(cells, p), DropCR(p.field)) = Behind(cells, r)
    BY AppendFieldTyped, BehindAppendField, DropCRTyped, ParseFields
  <2>2. /\ EndOfRow(Behind(cells, p)) = [Behind(cells, r) EXCEPT !.col = 1, !.row_started = FALSE]
        /\ EndOfRow(p) = [r EXCEPT !.col = 1, !.row_started = FALSE]
    BY <1>1, <2>1 DEF EndOfRow
  <2> HIDE DEF r
  <2> QED
    BY <1>2, <2>1, <2>2
<1>4. EndOfField(Behind(cells, p)) = Behind(cells, EndOfField(p))
  <2> DEFINE r == AppendField(p, p.field)
  <2>1. r \in ParseState /\ AppendField(Behind(cells, p), p.field) = Behind(cells, r)
    BY AppendFieldTyped, BehindAppendField, ParseFields
  <2>2. /\ EndOfField(Behind(cells, p))
               = [Behind(cells, r) EXCEPT !.col = @ + 1, !.row_started = TRUE]
        /\ EndOfField(p) = [r EXCEPT !.col = @ + 1, !.row_started = TRUE]
    BY <1>1, <2>1 DEF EndOfField
  <2> HIDE DEF r
  <2> QED
    BY <1>2, <2>1, <2>2
<1>5. Taken(Behind(cells, p), char) = Behind(cells, Taken(p, char))
  <2>1. cells \o p.cells \in Seq(CellOf) /\ Append(p.field, char) \in Seq(STRING)
    BY ParseFields
  <2> DEFINE all == cells \o p.cells
             field == Append(p.field, char)
             t == [p EXCEPT !.field = field, !.row_started = TRUE]
  <2> HIDE DEF all, field
  <2>2. all \in Seq(Nat \X Seq(STRING)) /\ Behind(cells, p) = [p EXCEPT !.cells = all]
    BY <2>1 DEF Behind, CellOf, all
  <2>3. /\ Taken(p, char) = t
        /\ Taken(Behind(cells, p), char)
               = [Behind(cells, p) EXCEPT !.field = field, !.row_started = TRUE]
    BY <1>1 DEF Taken, field
  <2>4. t.cells = p.cells
    BY DEF ParseState
  <2>5. Behind(cells, t) = [t EXCEPT !.cells = all]
    BY <2>4 DEF Behind, all
  <2>6. [Behind(cells, p) EXCEPT !.field = field, !.row_started = TRUE] = Behind(cells, t)
    BY <2>2, <2>5 DEF ParseState
  <2> QED
    BY <2>3, <2>6
<1> QED
  BY <1>2, <1>3, <1>4, <1>5 DEF Opened

\* A turn takes no account of the cells there are.
LEMMA BehindTurn ==
    ASSUME NEW text \in Seq(STRING), NEW j \in 1 .. Len(text), NEW part, NEW i,
           part[i] = text[j], text[j] = Quote => (Twice(part, i) <=> Twice(text, j)),
           NEW q \in QuoteState, NEW cells \in Seq(CellOf), NEW p \in ParseState
    PROVE  ParseStep(text, j, q)[Behind(cells, p)] = Behind(cells, ParseStep(part, i, q)[p])
<1> DEFINE s == Behind(cells, p)
           char == text[j]
<1>1. char \in STRING
  OBVIOUS
<1>2. s \in ParseState /\ s.thrown = p.thrown
  BY BehindIs
<1>3. /\ EndOfRow(s) = Behind(cells, EndOfRow(p))
      /\ EndOfField(s) = Behind(cells, EndOfField(p))
      /\ Taken(s, char) = Behind(cells, Taken(p, char))
      /\ Opened(s) = Behind(cells, Opened(p))
  BY <1>1, BehindBranches
<1>4. char = Quote => (Doubled(part, i, q.in_quote) <=> Doubled(text, j, q.in_quote))
  BY DEF Doubled, Twice
<1> HIDE DEF s
<1> DEFINE r == ParseStep(text, j, q)[s]
           t == ParseStep(part, i, q)[p]
<1>5. r = IF s.thrown \/ q.jump THEN s
          ELSE IF text[j] = Quote THEN
              IF Doubled(text, j, q.in_quote) THEN Taken(s, Quote) ELSE Opened(s)
          ELSE IF text[j] = Comma /\ ~q.in_quote THEN EndOfField(s)
          ELSE IF text[j] = Newline /\ ~q.in_quote THEN EndOfRow(s)
          ELSE Taken(s, text[j])
  BY <1>2, ParseTurnIs
<1>6. t = IF p.thrown \/ q.jump THEN p
          ELSE IF part[i] = Quote THEN
              IF Doubled(part, i, q.in_quote) THEN Taken(p, Quote) ELSE Opened(p)
          ELSE IF part[i] = Comma /\ ~q.in_quote THEN EndOfField(p)
          ELSE IF part[i] = Newline /\ ~q.in_quote THEN EndOfRow(p)
          ELSE Taken(p, part[i])
  BY ParseTurnIs
<1> HIDE DEF r, t
<1>7. CASE p.thrown \/ q.jump
  <2>1. r = s /\ t = p
    BY <1>2, <1>5, <1>6, <1>7
  <2> QED
    BY <2>1 DEF r, s, t
<1>8. CASE ~(p.thrown \/ q.jump) /\ text[j] = Quote
  <2>1. CASE Doubled(text, j, q.in_quote)
    <3>1. r = Taken(s, char) /\ t = Taken(p, char)
      BY <1>2, <1>4, <1>5, <1>6, <1>8, <2>1
    <3> QED
      BY <1>3, <3>1 DEF r, s, t
  <2>2. CASE ~Doubled(text, j, q.in_quote)
    <3>1. r = Opened(s) /\ t = Opened(p)
      BY <1>2, <1>4, <1>5, <1>6, <1>8, <2>2
    <3> QED
      BY <1>3, <3>1 DEF r, s, t
  <2> QED
    BY <2>1, <2>2
<1>9. CASE ~(p.thrown \/ q.jump) /\ text[j] = Comma /\ ~q.in_quote
  <2>1. r = EndOfField(s) /\ t = EndOfField(p)
    BY <1>2, <1>5, <1>6, <1>9, CharactersDiffer
  <2> QED
    BY <1>3, <2>1 DEF r, s, t
<1>10. CASE ~(p.thrown \/ q.jump) /\ text[j] = Newline /\ ~q.in_quote
  <2>1. r = EndOfRow(s) /\ t = EndOfRow(p)
    BY <1>2, <1>5, <1>6, <1>10, CharactersDiffer
  <2> QED
    BY <1>3, <2>1 DEF r, s, t
<1>11. CASE /\ ~(p.thrown \/ q.jump) /\ text[j] # Quote
            /\ ~(text[j] = Comma /\ ~q.in_quote) /\ ~(text[j] = Newline /\ ~q.in_quote)
  <2>1. r = Taken(s, char) /\ t = Taken(p, char)
    BY <1>2, <1>5, <1>6, <1>11
  <2> QED
    BY <1>3, <2>1 DEF r, s, t
<1> QED
  BY <1>7, <1>8, <1>9, <1>10, <1>11

\* The characters of a part are parsed as they are in the text.
LEMMA ParseOfPart ==
    ASSUME NEW text \in Seq(STRING), NEW e \in 0 .. Len(text), NEW b \in Starts(text),
           b <= e, NEW i \in 0 .. e - b, Alike(text, b, e, i),
           ParseStates(text)[b].thrown = FALSE
    PROVE  ParseStates(text)[b + i] =
               Behind(ParseStates(text)[b].cells, ParseStates(Part(text, b, e))[i])
<1> DEFINE part == Part(text, b, e)
           f == ParseStates(text)
           g == ParseStates(part)
           cells == f[b].cells
           T == {k \in 0 .. i : f[b + k] = Behind(cells, g[k])}
<1>1. b \in 0 .. e /\ b \in Nat /\ e \in Nat
  BY StartState
<1>2. /\ part \in Seq(STRING) /\ Len(part) = e - b
      /\ \A k \in 1 .. e - b : part[k] = text[b + k]
  BY <1>1, PartIs
<1>3. f[b] \in ParseState /\ cells \in Seq(CellOf)
  BY <1>1, ParsesAre, ParseFields
<1> HIDE DEF part, cells
<1>4. ASSUME NEW k \in 0 .. i - 1, f[b + k] = Behind(cells, g[k])
      PROVE  f[b + (k + 1)] = Behind(cells, g[k + 1])
  <2> DEFINE j == b + (k + 1)
             q == QuoteStates(text)[j - 1]
             p == g[k]
  <2>1. /\ k \in Nat /\ k + 1 \in 1 .. e - b /\ (k + 1) - 1 = k /\ k \in 0 .. e - b
        /\ j \in 1 .. Len(text) /\ j - 1 = b + k
    BY <1>1
  <2>2. /\ q \in QuoteState /\ f[j] = ParseStep(text, j, q)[f[j - 1]]
    BY <2>1, OneTurn
  <2>3. q = QuoteStates(part)[k]
    <3>1. Alike(text, b, e, k)
      BY <1>1, <2>1 DEF Alike
    <3>2. QuoteStates(part)[k] = QuoteStates(text)[b + k]
      BY <2>1, <3>1, QuotesOfPart DEF part
    <3> QED
      BY <2>1, <3>2
  <2>4. p \in ParseState /\ g[k + 1] = ParseStep(part, k + 1, q)[p]
    <3>1. k + 1 \in 1 .. Len(part)
      BY <1>2, <2>1
    <3>2. /\ ParseStates(part)[(k + 1) - 1] \in ParseState
          /\ ParseStates(part)[k + 1] =
                 ParseStep(part, k + 1, QuoteStates(part)[(k + 1) - 1])
                     [ParseStates(part)[(k + 1) - 1]]
      BY <1>2, <3>1, OneTurn
    <3> QED
      BY <2>1, <2>3, <3>2
  <2>5. part[k + 1] = text[j]
    BY <1>2, <2>1
  <2>6. text[j] = Quote => (Twice(part, k + 1) <=> Twice(text, j))
    <3>1. Alike(text, b, e, k + 1)
      BY <1>1, <2>1 DEF Alike
    <3> QED
      BY <1>1, <2>1, <3>1, TwiceInPart DEF part
  <2>7. f[j - 1] = Behind(cells, p)
    BY <1>4, <2>1
  <2> HIDE DEF q, p, f, g, j
  <2>8. ParseStep(text, j, q)[Behind(cells, p)] = Behind(cells, ParseStep(part, k + 1, q)[p])
    BY <1>3, <2>1, <2>2, <2>4, <2>5, <2>6, BehindTurn
  <2>9. f[j] = Behind(cells, g[k + 1])
    BY <2>2, <2>4, <2>7, <2>8
  <2> QED
    BY <2>9 DEF j
<1>5. f[b + 0] = Behind(cells, g[0])
  <2>1. g[0] = ParseStart /\ b + 0 = b
    BY <1>1, <1>2, ParsesAre
  <2>2. /\ f[b].field = <<>> /\ f[b].col = 1 /\ f[b].row_started = FALSE
        /\ f[b].thrown = FALSE /\ f[b].cells = cells
    BY ParseAtStart DEF cells
  <2>3. /\ ParseStart \in ParseState /\ ParseStart.cells = <<>>
        /\ ParseStart.field = <<>> /\ ParseStart.col = 1
        /\ ParseStart.row_started = FALSE /\ ParseStart.thrown = FALSE
    BY ParseStartTyped DEF ParseStart
  <2> DEFINE s == Behind(cells, ParseStart)
             p == f[b]
  <2>4. /\ s \in ParseState /\ s.cells = cells \o <<>> /\ s.field = <<>>
        /\ s.col = 1 /\ s.row_started = FALSE /\ s.thrown = FALSE
    BY <1>3, <2>3, BehindIs
  <2>5. cells \o <<>> = cells
    BY <1>3, ConcatEmptySeq
  <2> HIDE DEF s, p
  <2>6. p \in ParseState /\ p.cells = cells /\ p.field = <<>> /\ p.col = 1
        /\ p.row_started = FALSE /\ p.thrown = FALSE
    BY <1>3, <2>2 DEF p
  <2>7. p = s
    BY <2>4, <2>5, <2>6, SameParse
  <2> QED
    BY <2>1, <2>7 DEF p, s
<1>6. 0 \in T
  BY <1>5
<1>7. \A k \in 0 .. i - 1 : k \in T => k + 1 \in T
  BY <1>4
<1>8. i \in T
  <2> HIDE DEF T
  <2>1. i \in Nat
    BY <1>1
  <2>2. 0 .. i \subseteq T
    BY <1>6, <1>7, <2>1, UpTo
  <2> QED
    BY <2>1, <2>2
<1> QED
  BY <1>8 DEF part, cells

\* What follows the loop: a quote left open, a row left open, neither.
LEMMA EndInQuotes ==
    ASSUME NEW q, q.in_quote = TRUE, NEW p \in ParseState
    PROVE  ParseEnd(q)[p] = [p EXCEPT !.thrown = TRUE]
BY DEF ParseEnd

\* The text ends in a row: its last field is taken.
LEMMA EndInRow ==
    ASSUME NEW q, q.in_quote = FALSE, NEW p \in ParseState, p.thrown = FALSE,
           p.field # <<>> \/ p.col # 1 \/ p.row_started = TRUE
    PROVE  ParseEnd(q)[p] = AppendField(p, DropCR(p.field))
<1>1. ~p.thrown /\ (p.field # <<>> \/ p.col # 1 \/ p.row_started)
  OBVIOUS
<1> QED
  BY <1>1 DEF ParseEnd

\* The text ends between rows, or the parse has failed.
LEMMA EndBetweenRows ==
    ASSUME NEW q, q.in_quote = FALSE, NEW p \in ParseState,
           p.thrown = TRUE \/ (p.field = <<>> /\ p.col = 1 /\ p.row_started = FALSE)
    PROVE  ParseEnd(q)[p] = p
<1>1. ~(~p.thrown /\ (p.field # <<>> \/ p.col # 1 \/ p.row_started))
  OBVIOUS
<1> QED
  BY <1>1 DEF ParseEnd

\* There is no other way to end.
LEMMA EndCases ==
    ASSUME NEW q \in QuoteState, NEW p \in ParseState
    PROVE  \/ q.in_quote = TRUE
           \/ /\ q.in_quote = FALSE /\ p.thrown = FALSE
              /\ p.field # <<>> \/ p.col # 1 \/ p.row_started = TRUE
           \/ /\ q.in_quote = FALSE
              /\ p.thrown = TRUE \/ (p.field = <<>> /\ p.col = 1 /\ p.row_started = FALSE)
BY ParseFields DEF QuoteState

\* Cells in front do not change how a parse ends.
LEMMA BehindEnd ==
    ASSUME NEW q \in QuoteState, NEW cells \in Seq(CellOf), NEW p \in ParseState
    PROVE  ParseEnd(q)[Behind(cells, p)] = Behind(cells, ParseEnd(q)[p])
<1> DEFINE s == Behind(cells, p)
<1>1. /\ s \in ParseState /\ s.cells = cells \o p.cells /\ s.field = p.field
      /\ s.col = p.col /\ s.row_started = p.row_started /\ s.thrown = p.thrown
  BY BehindIs
<1>2. AppendField(s, DropCR(p.field)) = Behind(cells, AppendField(p, DropCR(p.field)))
  BY BehindAppendField, DropCRTyped, ParseFields
<1>3. CASE q.in_quote = TRUE
  <2> DEFINE r == [p EXCEPT !.thrown = TRUE]
             t == [s EXCEPT !.thrown = TRUE]
  <2>1. s \in ParseState
    BY <1>1
  <2>2. ParseEnd(q)[p] = r /\ ParseEnd(q)[s] = t
    <3>1. ParseEnd(q)[p] = r
      BY <1>3, EndInQuotes
    <3> HIDE DEF s
    <3>2. ParseEnd(q)[s] = t
      BY <1>3, <2>1, EndInQuotes
    <3> QED
      BY <3>1, <3>2
  <2>3. /\ r \in ParseState /\ r.cells = p.cells /\ r.field = p.field /\ r.col = p.col
        /\ r.row_started = p.row_started /\ r.thrown = TRUE
    BY DEF ParseState
  <2> HIDE DEF s
  <2>4. /\ t \in ParseState /\ t.cells = s.cells /\ t.field = s.field /\ t.col = s.col
        /\ t.row_started = s.row_started /\ t.thrown = TRUE
    BY <1>1 DEF ParseState
  <2> HIDE DEF r, t
  <2> DEFINE u == Behind(cells, r)
  <2>5. /\ u \in ParseState /\ u.cells = cells \o r.cells /\ u.field = r.field
        /\ u.col = r.col /\ u.row_started = r.row_started /\ u.thrown = r.thrown
    BY <2>3, BehindIs
  <2> HIDE DEF u
  <2>6. t = u
    BY <1>1, <2>3, <2>4, <2>5, SameParse
  <2> QED
    BY <2>2, <2>6 DEF u, s
<1>4. CASE /\ q.in_quote = FALSE /\ p.thrown = FALSE
           /\ p.field # <<>> \/ p.col # 1 \/ p.row_started = TRUE
  <2>1. ParseEnd(q)[p] = AppendField(p, DropCR(p.field))
    BY <1>4, EndInRow
  <2> HIDE DEF s
  <2>2. s.thrown = FALSE /\ (s.field # <<>> \/ s.col # 1 \/ s.row_started = TRUE)
    BY <1>1, <1>4
  <2>3. ParseEnd(q)[s] = AppendField(s, DropCR(s.field))
    BY <1>1, <1>4, <2>2, EndInRow
  <2> QED
    BY <1>1, <1>2, <2>1, <2>3 DEF s
<1>5. CASE /\ q.in_quote = FALSE
           /\ p.thrown = TRUE \/ (p.field = <<>> /\ p.col = 1 /\ p.row_started = FALSE)
  <2>1. ParseEnd(q)[p] = p
    BY <1>5, EndBetweenRows
  <2> HIDE DEF s
  <2>2. s.thrown = TRUE \/ (s.field = <<>> /\ s.col = 1 /\ s.row_started = FALSE)
    BY <1>1, <1>5
  <2>3. ParseEnd(q)[s] = s
    BY <1>1, <1>5, <2>2, EndBetweenRows
  <2> QED
    BY <2>1, <2>3 DEF s
<1> QED
  BY <1>3, <1>4, <1>5, EndCases

\* A parse ends in one of its states.
LEMMA EndTyped ==
    ASSUME NEW q \in QuoteState, NEW p \in ParseState
    PROVE  ParseEnd(q)[p] \in ParseState
<1>1. [p EXCEPT !.thrown = TRUE] \in ParseState
  BY DEF ParseState
<1>2. AppendField(p, DropCR(p.field)) \in ParseState
  BY AppendFieldTyped, DropCRTyped, ParseFields
<1> DEFINE r == ParseEnd(q)[p]
<1> HIDE DEF r
<1>3. r = [p EXCEPT !.thrown = TRUE] \/ r = AppendField(p, DropCR(p.field)) \/ r = p
  <2>1. CASE q.in_quote = TRUE
    BY <2>1, EndInQuotes DEF r
  <2>2. CASE /\ q.in_quote = FALSE /\ p.thrown = FALSE
             /\ p.field # <<>> \/ p.col # 1 \/ p.row_started = TRUE
    BY <2>2, EndInRow DEF r
  <2>3. CASE /\ q.in_quote = FALSE
             /\ \/ p.thrown = TRUE
                \/ p.field = <<>> /\ p.col = 1 /\ p.row_started = FALSE
    BY <2>3, EndBetweenRows DEF r
  <2> QED
    BY <2>1, <2>2, <2>3, EndCases
<1> QED
  BY <1>1, <1>2, <1>3 DEF r

\* An exception in the loop is one of the parse.
LEMMA EndThrown ==
    ASSUME NEW q \in QuoteState, NEW p \in ParseState, p.thrown = TRUE
    PROVE  ParseEnd(q)[p].thrown = TRUE
<1>1. q.in_quote \in BOOLEAN
  BY DEF QuoteState
<1>2. CASE q.in_quote = TRUE
  <2>1. ParseEnd(q)[p] = [p EXCEPT !.thrown = TRUE]
    BY <1>2, EndInQuotes
  <2> QED
    BY <2>1 DEF ParseState
<1>3. CASE q.in_quote = FALSE
  <2>1. ParseEnd(q)[p] = p
    BY <1>3, EndBetweenRows
  <2> QED
    BY <2>1
<1> QED
  BY <1>1, <1>2, <1>3

-----------------------------------------------------------------------------
(* The first rows of a text.                                                 *)

\* Where a buffer may be cut.
Marks(text) == Starts(text) \union {Len(text)}

\* The parse of the characters before a mark.
FirstRows(text, e) == ParseBuffer(SubSeq(text, 1, e))

\* The loop over the whole text, stopped after e characters.
Stopped(text, e) == ParseEnd(QuoteStates(text)[e])[ParseStates(text)[e]]

\* Up to a mark, a part of the text is like the text.
LEMMA MarkIs ==
    ASSUME NEW text \in Seq(STRING), NEW e \in Marks(text)
    PROVE  /\ e \in 0 .. Len(text) /\ Len(text) \in Nat
           /\ \A b \in 0 .. e : Alike(text, b, e, e - b)
<1>1. CASE e = 0
  <2>1. ASSUME NEW b \in 0 .. e PROVE e - b = 0
    <3>1. b \in Int /\ 0 <= b /\ b <= 0
      BY <1>1
    <3>2. e = b /\ b - b = 0
      BY <1>1, <3>1
    <3> QED
      BY <3>2
  <2> QED
    BY <1>1, <2>1 DEF Alike
<1>2. CASE e \in RowEnds(text)
  <2>1. e \in DOMAIN text /\ text[e] = Newline
    BY <1>2 DEF RowEnds, EndsRow
  <2> QED
    BY <2>1, CharactersDiffer DEF Alike
<1>3. CASE e = Len(text)
  BY <1>3 DEF Alike
<1> QED
  BY <1>1, <1>2, <1>3 DEF Marks, Starts

\* What is parsed up to a mark is what was parsed up to an earlier start
\* of a row, and in front of it the parse of the part between.
LEMMA PartBehind ==
    ASSUME NEW text \in Seq(STRING), NEW b \in Starts(text), NEW e \in Marks(text),
           b <= e, ParseStates(text)[b].thrown = FALSE
    PROVE  Stopped(text, e) =
               Behind(ParseStates(text)[b].cells, ParseBuffer(Part(text, b, e)))
<1> DEFINE part == Part(text, b, e)
           cells == ParseStates(text)[b].cells
           n == e - b
           p == ParseStates(part)[n]
           q == QuoteStates(text)[e]
<1>1. /\ e \in 0 .. Len(text) /\ b \in 0 .. e /\ n \in 0 .. e - b /\ b + n = e
      /\ Alike(text, b, e, n)
  BY MarkIs, StartState
<1>2. part \in Seq(STRING) /\ Len(part) = n
  BY <1>1, PartIs
<1>3. q \in QuoteState /\ p \in ParseState /\ cells \in Seq(CellOf)
  <2>1. b \in 0 .. Len(text) /\ n \in 0 .. Len(part)
    BY <1>1, <1>2
  <2>2. ParseStates(text)[b] \in ParseState
    BY <2>1, ParsesAre
  <2> QED
    BY <1>1, <1>2, <2>1, <2>2, QuotesAre, ParsesAre, ParseFields
<1>4. QuoteStates(part)[n] = q
  BY <1>1, QuotesOfPart
<1>5. ParseStates(text)[e] = Behind(cells, p)
  BY <1>1, ParseOfPart
<1>6. ParseBuffer(part) = ParseEnd(q)[p]
  BY <1>2, <1>4 DEF ParseBuffer
<1> HIDE DEF q, p, cells, part
<1>7. Stopped(text, e) = ParseEnd(q)[Behind(cells, p)]
  BY <1>5 DEF Stopped, q
<1> QED
  BY <1>3, <1>6, <1>7, BehindEnd DEF cells, part

\* No cells in front change nothing.
LEMMA BehindNone ==
    ASSUME NEW p \in ParseState
    PROVE  Behind(<<>>, p) = p
<1> DEFINE r == Behind(<<>>, p)
<1>1. <<>> \in Seq(CellOf)
  OBVIOUS
<1>2. /\ r \in ParseState /\ r.cells = <<>> \o p.cells /\ r.field = p.field
      /\ r.col = p.col /\ r.row_started = p.row_started /\ r.thrown = p.thrown
  BY <1>1, BehindIs
<1>3. <<>> \o p.cells = p.cells
  BY ParseFields, ConcatEmptySeq
<1> HIDE DEF r
<1>4. r = p
  BY <1>2, <1>3, SameParse
<1> QED
  BY <1>4 DEF r

\* The parse of a text is a state of the parser.
LEMMA ParseBufferTyped ==
    ASSUME NEW text \in Seq(STRING)
    PROVE  ParseBuffer(text) \in ParseState
<1>1. Len(text) \in 0 .. Len(text)
  OBVIOUS
<1>2. QuoteStates(text)[Len(text)] \in QuoteState /\ ParseStates(text)[Len(text)] \in ParseState
  BY <1>1, QuotesAre, ParsesAre
<1> QED
  BY <1>2, EndTyped DEF ParseBuffer

\* The first rows, parsed by themselves, are what the parse of the text has
\* at their end.
LEMMA FirstRowsAre ==
    ASSUME NEW text \in Seq(STRING), NEW e \in Marks(text)
    PROVE  FirstRows(text, e) = Stopped(text, e) /\ FirstRows(text, e) \in ParseState
<1> DEFINE part == Part(text, 0, e)
<1>1. e \in 0 .. Len(text) /\ 0 \in 0 .. e /\ 0 \in Starts(text) /\ 0 <= e
  BY MarkIs DEF Starts
<1>2. part = SubSeq(text, 1, e)
  BY DEF Part
<1>3. part \in Seq(STRING)
  BY <1>1, PartIs
<1>4. ParseStates(text)[0].thrown = FALSE /\ ParseStates(text)[0].cells = <<>>
  BY ParsesAre DEF ParseStart
<1> HIDE DEF part
<1>5. ParseBuffer(part) \in ParseState
  BY <1>3, ParseBufferTyped
<1>6. Stopped(text, e) = Behind(<<>>, ParseBuffer(part))
  BY <1>1, <1>4, PartBehind DEF part
<1>7. Stopped(text, e) = ParseBuffer(part)
  BY <1>5, <1>6, BehindNone
<1> QED
  BY <1>2, <1>5, <1>7 DEF FirstRows

\* Where a row starts, there is nothing left to end.
LEMMA FirstRowsAtStart ==
    ASSUME NEW text \in Seq(STRING), NEW b \in Starts(text)
    PROVE  FirstRows(text, b) = ParseStates(text)[b]
<1> DEFINE p == ParseStates(text)[b]
           q == QuoteStates(text)[b]
<1>1. b \in 0 .. Len(text) /\ q = QuoteStart
  BY StartState
<1>2. p \in ParseState
  BY <1>1, ParsesAre
<1>3. q.in_quote = FALSE
  BY <1>1 DEF QuoteStart
<1>4. p.thrown = TRUE \/ (p.field = <<>> /\ p.col = 1 /\ p.row_started = FALSE)
  <2>1. p.thrown \in BOOLEAN
    BY <1>2, ParseFields
  <2>2. CASE p.thrown = FALSE
    BY <2>2, ParseAtStart
  <2> QED
    BY <2>1, <2>2
<1> HIDE DEF p, q
<1>5. ParseEnd(q)[p] = p
  BY <1>2, <1>3, <1>4, EndBetweenRows
<1>6. FirstRows(text, b) = Stopped(text, b)
  BY FirstRowsAre DEF Marks
<1> QED
  BY <1>5, <1>6 DEF Stopped, p, q

\* The first rows and the ones behind them: what a cut at the end of a row
\* costs is nothing.
LEMMA FirstRowsGoOn ==
    ASSUME NEW text \in Seq(STRING), NEW b \in Starts(text), NEW e \in Marks(text),
           b <= e, FirstRows(text, b).thrown = FALSE
    PROVE  /\ ParseBuffer(Part(text, b, e)) \in ParseState
           /\ FirstRows(text, e).thrown = ParseBuffer(Part(text, b, e)).thrown
           /\ FirstRows(text, e).cells =
                  FirstRows(text, b).cells \o ParseBuffer(Part(text, b, e)).cells
<1> DEFINE part == Part(text, b, e)
           cells == FirstRows(text, b).cells
<1>1. e \in 0 .. Len(text) /\ b \in 0 .. e
  BY MarkIs, StartState
<1>2. part \in Seq(STRING)
  BY <1>1, PartIs
<1> HIDE DEF part
<1>3. ParseBuffer(part) \in ParseState
  BY <1>2, ParseBufferTyped
<1>4. FirstRows(text, b) = ParseStates(text)[b] /\ FirstRows(text, b) \in ParseState
  BY FirstRowsAtStart, FirstRowsAre DEF Marks
<1>5. cells \in Seq(CellOf)
  BY <1>4, ParseFields
<1>6. FirstRows(text, e) = Behind(cells, ParseBuffer(part))
  BY <1>4, FirstRowsAre, PartBehind DEF part
<1> HIDE DEF cells
<1>7. /\ FirstRows(text, e).thrown = ParseBuffer(part).thrown
      /\ FirstRows(text, e).cells = cells \o ParseBuffer(part).cells
  BY <1>3, <1>5, <1>6, BehindIs
<1> QED
  BY <1>3, <1>7 DEF part, cells

\* All rows are the text.
LEMMA AllRows ==
    ASSUME NEW text \in Seq(STRING)
    PROVE  FirstRows(text, Len(text)) = ParseBuffer(text)
<1>1. SubSeq(text, 1, Len(text)) = text
  BY SubSeqFull
<1> QED
  BY <1>1 DEF FirstRows

\* No rows hold nothing.
LEMMA NoRows ==
    ASSUME NEW text \in Seq(STRING)
    PROVE  FirstRows(text, 0).thrown = FALSE /\ FirstRows(text, 0).cells = <<>>
<1>1. FirstRows(text, 0) = ParseStart
  BY FirstRowsAtStart, ParsesAre DEF Starts
<1> QED
  BY <1>1 DEF ParseStart

\* An exception in the first rows is one of the whole file.
LEMMA FirstRowsThrown ==
    ASSUME NEW text \in Seq(STRING), NEW e \in Marks(text), FirstRows(text, e).thrown = TRUE
    PROVE  ParseBuffer(text).thrown = TRUE
<1>1. CASE e = Len(text)
  BY <1>1, AllRows
<1>2. CASE e \in Starts(text)
  <2> DEFINE n == Len(text)
  <2>1. n \in 0 .. Len(text) /\ e \in 0 .. n
    BY MarkIs
  <2>2. ParseStates(text)[e].thrown = TRUE
    BY <1>2, FirstRowsAtStart
  <2>3. ParseStates(text)[n].thrown = TRUE
    BY <2>1, <2>2, ThrownStays
  <2>4. QuoteStates(text)[n] \in QuoteState /\ ParseStates(text)[n] \in ParseState
    BY <2>1, QuotesAre, ParsesAre
  <2> QED
    BY <2>3, <2>4, EndThrown DEF ParseBuffer
<1> QED
  BY <1>1, <1>2 DEF Marks

-----------------------------------------------------------------------------
(* Batches.                                                                  *)

\* Two loops that begin alike.
LEMMA LoopsAgree ==
    ASSUME NEW n \in Nat, NEW m \in 0 .. n, NEW S, NEW start, NEW turn, NEW other,
           NEW f, NEW g, IsLoop(f, n, S, start, turn), IsLoop(g, m, S, start, other),
           \A i \in 1 .. m : other[i] = turn[i]
    PROVE  g[m] = f[m]
<1> DEFINE T == {k \in 0 .. m : g[k] = f[k]}
<1>1. 0 \in T
  BY DEF IsLoop
<1>2. ASSUME NEW k \in 0 .. m - 1, k \in T PROVE k + 1 \in T
  <2>1. k + 1 \in 1 .. m /\ k + 1 \in 1 .. n /\ (k + 1) - 1 = k /\ k + 1 \in 0 .. m
    OBVIOUS
  <2>2. g[k + 1] = other[k + 1][g[k]] /\ f[k + 1] = turn[k + 1][f[k]]
    BY <2>1 DEF IsLoop
  <2> QED
    BY <1>2, <2>1, <2>2
<1>3. \A k \in 0 .. m - 1 : k \in T => k + 1 \in T
  BY <1>2
<1> HIDE DEF T
<1>4. m \in Nat
  OBVIOUS
<1>5. 0 .. m \subseteq T
  BY <1>1, <1>3, <1>4, UpTo
<1>6. m \in T
  BY <1>4, <1>5
<1> QED
  BY <1>6 DEF T

\* The values of the fields there may be, and the batches of them.
Values == {Value(c, field) : c \in Columns, field \in Seq(STRING)}

Batches == [Columns -> Seq(Values)]

NoBatch == [c \in Columns |-> <<>>]

\* A cell more.
BatchTurn(cell) == [batch \in Batches |->
    [batch EXCEPT ![cell[1]] = Append(@, Value(cell[1], cell[2]))]]

\* A cell goes to the end of its column.
LEMMA BatchTurnIs ==
    ASSUME NEW cell \in CellOf, NEW batch \in Batches
    PROVE  /\ BatchTurn(cell)[batch] \in Batches
           /\ \A c \in Columns : BatchTurn(cell)[batch][c] =
                  IF c = cell[1] THEN Append(batch[c], Value(cell[1], cell[2])) ELSE batch[c]
<1> DEFINE col == cell[1]
           value == Value(cell[1], cell[2])
           next == [batch EXCEPT ![col] = Append(batch[col], value)]
<1>1. BatchTurn(cell)[batch] = next
  BY DEF BatchTurn
<1>2. col \in Columns => value \in Values
  BY DEF Values, CellOf
<1> HIDE DEF value, col
<1>3. col \in Columns => Append(batch[col], value) \in Seq(Values)
  <2>1. col \in Columns => batch[col] \in Seq(Values)
    BY DEF Batches
  <2> QED
    BY <1>2, <2>1
<1>4. next \in Batches
  BY <1>3 DEF Batches
<1>5. \A c \in Columns : next[c] = IF c = col THEN Append(batch[c], value) ELSE batch[c]
  BY DEF Batches
<1> QED
  BY <1>1, <1>4, <1>5 DEF value, col

\* A turn of the batch loop leads to a batch.
LEMMA BatchTurnTyped ==
    ASSUME NEW cell \in CellOf
    PROVE  BatchTurn(cell) \in [Batches -> Batches]
<1>1. DOMAIN BatchTurn(cell) = Batches
  BY DEF BatchTurn
<1>2. \A batch \in Batches : BatchTurn(cell)[batch] \in Batches
  BY BatchTurnIs
<1>3. BatchTurn(cell) = [batch \in Batches |-> BatchTurn(cell)[batch]]
  BY DEF BatchTurn
<1> QED
  BY <1>2, <1>3

\* The batch the loop starts with is one.
LEMMA NoBatchTyped == NoBatch \in Batches
<1>1. <<>> \in Seq(Values)
  OBVIOUS
<1> QED
  BY <1>1 DEF NoBatch, Batches

\* The batches after the first cells.
BatchLoop(cells, f) ==
    IsLoop(f, Len(cells), Batches, NoBatch, [i \in 1 .. Len(cells) |-> BatchTurn(cells[i])])

\* BatchOf is the end of its loop.
LEMMA BatchIs ==
    ASSUME NEW cells \in Seq(CellOf)
    PROVE  \E f : BatchLoop(cells, f) /\ BatchOf(cells) = f[Len(cells)]
<1> DEFINE n == Len(cells)
           turn == [i \in 1 .. n |-> BatchTurn(cells[i])]
<1>1. n \in Nat /\ NoBatch \in Batches
  BY NoBatchTyped
<1>2. turn \in [1 .. n -> [Batches -> Batches]]
  <2> SUFFICES ASSUME NEW i \in 1 .. n PROVE BatchTurn(cells[i]) \in [Batches -> Batches]
    OBVIOUS
  <2>1. cells[i] \in CellOf
    OBVIOUS
  <2> QED
    BY <2>1, BatchTurnTyped
<1>3. PICK f : IsLoop(f, n, Batches, NoBatch, turn)
  BY <1>1, <1>2, LoopExists
<1> DEFINE With(batch, cell) ==
               [batch EXCEPT ![cell[1]] = Append(@, Value(cell[1], cell[2]))]
           Def(g) == g = [i \in 0 .. n |->
                             IF i = 0 THEN NoBatch ELSE With(g[i - 1], cells[i])]
           h == CHOOSE g : Def(g)
<1>4. \A i \in 1 .. n : f[i] = With(f[i - 1], cells[i])
  <2> SUFFICES ASSUME NEW i \in 1 .. n PROVE f[i] = With(f[i - 1], cells[i])
    OBVIOUS
  <2>1. i - 1 \in 0 .. n
    BY <1>1
  <2>2. f[i - 1] \in Batches /\ f[i] = BatchTurn(cells[i])[f[i - 1]]
    BY <1>3, <2>1 DEF IsLoop
  <2> QED
    BY <2>2 DEF BatchTurn
<1>5. Def(f)
  <2> HIDE DEF With, turn, n
  <2>1. f = [i \in 0 .. n |-> f[i]] /\ f[0] = NoBatch
    BY <1>3 DEF IsLoop
  <2>2. \A i \in 0 .. n : i # 0 => i \in 1 .. n
    BY <1>1
  <2> QED
    BY <1>4, <2>1, <2>2
<1>6. Def(h)
  BY <1>5
<1> HIDE DEF h, With, turn, n
<1>7. h[0] = NoBatch /\ \A i \in 1 .. n : h[i] = With(h[i - 1], cells[i])
  <2>1. 0 \in 0 .. n /\ \A i \in 1 .. n : i \in 0 .. n /\ i # 0
    BY <1>1
  <2> QED
    BY <1>6, <2>1
<1> DEFINE T == {k \in 0 .. n : h[k] = f[k]}
<1>8. ASSUME NEW k \in 0 .. n - 1, k \in T PROVE k + 1 \in T
  <2>1. k + 1 \in 1 .. n /\ (k + 1) - 1 = k /\ k + 1 \in 0 .. n
    BY <1>1
  <2>2. h[k + 1] = With(h[k], cells[k + 1]) /\ f[k + 1] = With(f[k], cells[k + 1])
    BY <1>4, <1>7, <2>1
  <2> QED
    BY <1>8, <2>1, <2>2
<1>9. h[n] = f[n]
  <2>1. 0 \in T
    BY <1>1, <1>3, <1>7 DEF IsLoop
  <2>2. \A k \in 0 .. n - 1 : k \in T => k + 1 \in T
    BY <1>8
  <2> HIDE DEF T
  <2>3. 0 .. n \subseteq T
    BY <1>1, <2>1, <2>2, UpTo
  <2>4. n \in T
    BY <1>1, <2>3
  <2> QED
    BY <2>4 DEF T
<1>10. BatchOf(cells) = h[n]
  BY DEF BatchOf, h, With, NoBatch, n
<1> QED
  BY <1>3, <1>9, <1>10 DEF BatchLoop, turn, n

\* No cells give the empty batch.
LEMMA BatchOfNone ==
    /\ <<>> \in Seq(CellOf) /\ BatchOf(<<>>) = NoBatch
<1>1. <<>> \in Seq(CellOf) /\ Len(<<>>) = 0
  OBVIOUS
<1> DEFINE cells == <<>>
<1>2. PICK f : BatchLoop(cells, f) /\ BatchOf(cells) = f[Len(cells)]
  BY <1>1, BatchIs
<1>3. f[0] = NoBatch
  BY <1>2 DEF BatchLoop, IsLoop
<1> QED
  BY <1>1, <1>2, <1>3

\* One cell more is one turn more.
LEMMA BatchAppend ==
    ASSUME NEW cells \in Seq(CellOf), NEW cell \in CellOf
    PROVE  /\ BatchOf(cells) \in Batches
           /\ BatchOf(Append(cells, cell)) = BatchTurn(cell)[BatchOf(cells)]
<1> DEFINE more == Append(cells, cell)
           n == Len(cells)
<1>1. /\ more \in Seq(CellOf) /\ n \in Nat /\ Len(more) = n + 1 /\ more[n + 1] = cell
      /\ \A i \in 1 .. n : more[i] = cells[i]
  OBVIOUS
<1>2. PICK g : BatchLoop(cells, g) /\ BatchOf(cells) = g[n]
  BY BatchIs
<1> HIDE DEF more, n
<1>3. PICK f : BatchLoop(more, f) /\ BatchOf(more) = f[n + 1]
  BY <1>1, BatchIs
<1> DEFINE turn == [i \in 1 .. n + 1 |-> BatchTurn(more[i])]
           other == [i \in 1 .. n |-> BatchTurn(cells[i])]
<1>4. IsLoop(f, n + 1, Batches, NoBatch, turn) /\ IsLoop(g, n, Batches, NoBatch, other)
  BY <1>1, <1>2, <1>3 DEF BatchLoop, n
<1>5. n + 1 \in Nat /\ n \in 0 .. n + 1 /\ n + 1 \in 1 .. n + 1 /\ (n + 1) - 1 = n
      /\ n \in 0 .. n
  BY <1>1
<1>6. \A i \in 1 .. n : other[i] = turn[i]
  BY <1>1
<1>7. turn[n + 1] = BatchTurn(cell)
  BY <1>1, <1>5
<1> HIDE DEF turn, other
<1>8. g[n] = f[n]
  BY <1>4, <1>5, <1>6, LoopsAgree
<1>9. f[n + 1] = turn[n + 1][f[n]] /\ g[n] \in Batches
  BY <1>4, <1>5 DEF IsLoop
<1> QED
  BY <1>2, <1>3, <1>7, <1>8, <1>9 DEF more

\* The batch of more cells holds each column of the first ones, and behind it
\* the one of the others.
LEMMA BatchOfBoth ==
    ASSUME NEW s \in Seq(CellOf), NEW t \in Seq(CellOf)
    PROVE  /\ BatchOf(s \o t) \in Batches /\ BatchOf(s) \in Batches /\ BatchOf(t) \in Batches
           /\ \A c \in Columns : BatchOf(s \o t)[c] = BatchOf(s)[c] \o BatchOf(t)[c]
<1> DEFINE n == Len(t)
           u(k) == SubSeq(t, 1, k)
           T == {k \in 0 .. n : \A c \in Columns :
                    BatchOf(s \o u(k))[c] = BatchOf(s)[c] \o BatchOf(u(k))[c]}
<1>1. \A cells \in Seq(CellOf) : BatchOf(cells) \in Batches
  <2> SUFFICES ASSUME NEW cells \in Seq(CellOf) PROVE BatchOf(cells) \in Batches
    OBVIOUS
  <2>1. 0 \in Nat /\ <<>> \in Seq(STRING)
    OBVIOUS
  <2>2. <<0, <<>>>> \in CellOf
    BY <2>1 DEF CellOf
  <2> QED
    BY <2>2, BatchAppend
<1>2. n \in Nat /\ u(n) = t /\ \A k \in 0 .. n : u(k) \in Seq(CellOf)
  <2>1. u(n) = t
    BY SubSeqFull
  <2> QED
    BY <2>1
<1>3. \A k \in 0 .. n - 1 : u(k + 1) = Append(u(k), t[k + 1]) /\ t[k + 1] \in CellOf
  OBVIOUS
<1>4. 0 \in T
  <2>1. u(0) = <<>>
    OBVIOUS
  <2>2. s \o <<>> = s
    BY ConcatEmptySeq
  <2>3. \A c \in Columns : BatchOf(<<>>)[c] = <<>> /\ BatchOf(s)[c] \in Seq(Values)
    BY <1>1, BatchOfNone DEF NoBatch, Batches
  <2>4. \A c \in Columns : BatchOf(s)[c] \o <<>> = BatchOf(s)[c]
    BY <2>3, ConcatEmptySeq
  <2>5. 0 \in 0 .. n
    BY <1>2
  <2> HIDE DEF u
  <2>6. \A c \in Columns : BatchOf(s \o u(0))[c] = BatchOf(s)[c] \o BatchOf(u(0))[c]
    BY <2>1, <2>2, <2>3, <2>4
  <2> QED
    BY <2>5, <2>6
<1>5. ASSUME NEW k \in 0 .. n - 1, k \in T PROVE k + 1 \in T
  <2> DEFINE own == u(k)
             cell == t[k + 1]
             x == Value(cell[1], cell[2])
  <2>1. k \in 0 .. n /\ k + 1 \in 0 .. n
    BY <1>2
  <2>2. own \in Seq(CellOf) /\ cell \in CellOf /\ u(k + 1) = Append(own, cell)
    BY <1>2, <1>3, <2>1
  <2> HIDE DEF own, cell, u
  <2>3. s \o own \in Seq(CellOf)
    BY <2>2
  <2>4. s \o Append(own, cell) = Append(s \o own, cell)
    BY <2>2, AppendBehindCells
  <2> SUFFICES ASSUME NEW c \in Columns
               PROVE  BatchOf(s \o u(k + 1))[c] = BatchOf(s)[c] \o BatchOf(u(k + 1))[c]
    BY <2>1
  <2>5. BatchOf(s \o own)[c] = BatchOf(s)[c] \o BatchOf(own)[c]
    BY <1>5 DEF own
  <2>6. /\ BatchOf(s \o u(k + 1)) = BatchTurn(cell)[BatchOf(s \o own)]
        /\ BatchOf(u(k + 1)) = BatchTurn(cell)[BatchOf(own)]
    BY <2>2, <2>3, <2>4, BatchAppend
  <2>7. BatchOf(s \o own) \in Batches /\ BatchOf(own) \in Batches /\ BatchOf(s) \in Batches
    BY <1>1, <2>2, <2>3
  <2> HIDE DEF x
  <2>8. /\ BatchOf(s \o u(k + 1))[c] =
               IF c = cell[1] THEN Append(BatchOf(s \o own)[c], x) ELSE BatchOf(s \o own)[c]
        /\ BatchOf(u(k + 1))[c] =
               IF c = cell[1] THEN Append(BatchOf(own)[c], x) ELSE BatchOf(own)[c]
    BY <2>2, <2>6, <2>7, BatchTurnIs DEF x
  <2> DEFINE a == BatchOf(s)[c]
             b == BatchOf(own)[c]
  <2>9. a \in Seq(Values) /\ b \in Seq(Values)
    BY <2>7 DEF Batches
  <2>10. c = cell[1] => x \in Values
    BY <2>2 DEF x, Values, CellOf
  <2> HIDE DEF a, b
  <2>11. c = cell[1] => Append(a \o b, x) = a \o Append(b, x)
    <3> SUFFICES ASSUME x \in Values PROVE Append(a \o b, x) = a \o Append(b, x)
      BY <2>10
    <3>1. a \o b \in Seq(Values) /\ <<x>> \in Seq(Values)
      BY <2>9
    <3>2. Append(a \o b, x) = (a \o b) \o <<x>> /\ Append(b, x) = b \o <<x>>
      BY <2>9, <3>1, AppendIsConcat
    <3>3. (a \o b) \o <<x>> = a \o (b \o <<x>>)
      BY <2>9, <3>1, ConcatAssociative
    <3> QED
      BY <3>2, <3>3
  <2> QED
    BY <2>5, <2>8, <2>11 DEF a, b
<1>6. n \in T
  <2>1. \A k \in 0 .. n - 1 : k \in T => k + 1 \in T
    BY <1>5
  <2> HIDE DEF T, u
  <2>2. 0 .. n \subseteq T
    BY <1>2, <1>4, <2>1, UpTo
  <2> QED
    BY <1>2, <2>2
<1>7. \A c \in Columns : BatchOf(s \o t)[c] = BatchOf(s)[c] \o BatchOf(t)[c]
  BY <1>2, <1>6
<1>8. s \o t \in Seq(CellOf)
  OBVIOUS
<1> QED
  BY <1>1, <1>7, <1>8

\* The first sequences, one after the other.
Concatenates(f, seqs, S) ==
    /\ f \in [0 .. Len(seqs) -> Seq(S)]
    /\ f[0] = <<>>
    /\ \A i \in 1 .. Len(seqs) : f[i] = f[i - 1] \o seqs[i]

\* FlattenSeq is the loop its definition says.
LEMMA Flattened ==
    ASSUME NEW S, NEW seqs \in Seq(Seq(S)), NEW f, Concatenates(f, seqs, S)
    PROVE  FlattenSeq(seqs) = f[Len(seqs)]
<1> DEFINE n == Len(seqs)
           Def(g) == g = [i \in 1 .. n |-> IF i = 1 THEN seqs[i] ELSE g[i - 1] \o seqs[i]]
           h == CHOOSE g : Def(g)
           own == [i \in 1 .. n |-> f[i]]
<1>1. /\ f \in [0 .. n -> Seq(S)] /\ f[0] = <<>>
      /\ \A i \in 1 .. n : f[i] = f[i - 1] \o seqs[i]
  BY DEF Concatenates
<1>2. n \in Nat /\ \A i \in 1 .. n : seqs[i] \in Seq(S)
  OBVIOUS
<1>3. CASE n = 0
  <2>1. seqs = <<>>
    BY <1>3
  <2> QED
    BY <1>1, <1>3, <2>1 DEF FlattenSeq
<1>4. CASE n # 0
  <2> HIDE DEF n
  <2>1. \A i \in 1 .. n : own[i] = IF i = 1 THEN seqs[i] ELSE own[i - 1] \o seqs[i]
    <3> SUFFICES ASSUME NEW i \in 1 .. n
                 PROVE  own[i] = IF i = 1 THEN seqs[i] ELSE own[i - 1] \o seqs[i]
      OBVIOUS
    <3>1. own[i] = f[i] /\ f[i] = f[i - 1] \o seqs[i] /\ seqs[i] \in Seq(S)
      BY <1>1, <1>2
    <3>2. CASE i = 1
      <4>1. <<>> \o seqs[i] = seqs[i]
        BY <3>1, ConcatEmptySeq
      <4>2. f[i - 1] = <<>>
        BY <1>1, <3>2
      <4> QED
        BY <3>1, <3>2, <4>1, <4>2
    <3>3. CASE i # 1
      <4>1. i - 1 \in 1 .. n
        BY <1>2, <3>3
      <4> QED
        BY <3>1, <3>3, <4>1
    <3> QED
      BY <3>2, <3>3
  <2>2. Def(own)
    <3>1. own = [i \in 1 .. n |-> own[i]]
      OBVIOUS
    <3> HIDE DEF own
    <3> QED
      BY <2>1, <3>1
  <2>3. Def(h)
    <3> HIDE DEF own, Def
    <3> QED
      BY <2>2
  <2> DEFINE T == {k \in 0 .. n - 1 : h[k + 1] = f[k + 1]}
  <2> HIDE DEF h
  <2>4. 0 \in T
    <3>1. 1 \in 1 .. n /\ 0 \in 0 .. n - 1 /\ 0 + 1 = 1
      BY <1>2, <1>4
    <3>2. h[1] = seqs[1] /\ own[1] = seqs[1] /\ own[1] = f[1]
      BY <2>1, <2>3, <3>1
    <3> QED
      BY <3>1, <3>2
  <2>5. ASSUME NEW k \in 0 .. (n - 1) - 1, k \in T PROVE k + 1 \in T
    <3> DEFINE i == (k + 1) + 1
    <3>1. /\ i \in 1 .. n /\ i # 1 /\ i - 1 = k + 1 /\ k + 1 \in 1 .. n /\ k + 1 \in 0 .. n - 1
      BY <1>2
    <3>2. h[i] = h[i - 1] \o seqs[i] /\ own[i] = own[i - 1] \o seqs[i]
      BY <2>1, <2>3, <3>1
    <3>3. own[i] = f[i] /\ own[i - 1] = f[k + 1] /\ h[i - 1] = f[k + 1]
      BY <2>5, <3>1
    <3> QED
      BY <3>1, <3>2, <3>3
  <2>6. n - 1 \in T
    <3>1. \A k \in 0 .. (n - 1) - 1 : k \in T => k + 1 \in T
      BY <2>5
    <3>2. n - 1 \in Nat
      BY <1>2, <1>4
    <3> HIDE DEF T
    <3>3. 0 .. n - 1 \subseteq T
      BY <2>4, <3>1, <3>2, UpTo
    <3> QED
      BY <3>2, <3>3
  <2>7. h[n] = f[n]
    <3>1. (n - 1) + 1 = n
      BY <1>2
    <3> QED
      BY <2>6, <3>1
  <2>8. FlattenSeq(seqs) = h[n]
    BY <1>4 DEF FlattenSeq, n, h
  <2> QED
    BY <2>7, <2>8 DEF n
<1> QED
  BY <1>3, <1>4

\* Every sequence of sequences can be concatenated step by step.
LEMMA FlattenLoop ==
    ASSUME NEW S, NEW seqs \in Seq(Seq(S))
    PROVE  \E f : Concatenates(f, seqs, S)
<1> DEFINE n == Len(seqs)
           turn == [i \in 1 .. n |-> [s \in Seq(S) |-> s \o seqs[i]]]
           start == <<>>
<1>1. n \in Nat /\ start \in Seq(S)
  OBVIOUS
<1>2. turn \in [1 .. n -> [Seq(S) -> Seq(S)]]
  OBVIOUS
<1>3. \A i \in 1 .. n, s \in Seq(S) : turn[i][s] = s \o seqs[i]
  OBVIOUS
<1> HIDE DEF turn, start, n
<1>4. PICK f : IsLoop(f, n, Seq(S), start, turn)
  BY <1>1, <1>2, LoopExists
<1>5. f \in [0 .. n -> Seq(S)] /\ f[0] = start
  BY <1>4 DEF IsLoop
<1>6. ASSUME NEW i \in 1 .. n PROVE f[i] = f[i - 1] \o seqs[i]
  <2>1. i - 1 \in 0 .. n
    BY <1>1
  <2>2. f[i - 1] \in Seq(S) /\ f[i] = turn[i][f[i - 1]]
    BY <1>4, <2>1 DEF IsLoop
  <2> QED
    BY <1>3, <2>2
<1> QED
  BY <1>5, <1>6 DEF Concatenates, start, n

\* A sequence more.
LEMMA FlattenAppend ==
    ASSUME NEW S, NEW seqs \in Seq(Seq(S)), NEW last \in Seq(S)
    PROVE  /\ FlattenSeq(seqs) \in Seq(S)
           /\ FlattenSeq(Append(seqs, last)) = FlattenSeq(seqs) \o last
           /\ FlattenSeq(<<>>) = <<>>
<1> DEFINE n == Len(seqs)
           more == Append(seqs, last)
<1>1. /\ n \in Nat /\ more \in Seq(Seq(S)) /\ Len(more) = n + 1 /\ more[n + 1] = last
      /\ \A i \in 1 .. n : more[i] = seqs[i]
  OBVIOUS
<1> HIDE DEF more, n
<1>2. PICK f : Concatenates(f, more, S)
  BY <1>1, FlattenLoop
<1>3. FlattenSeq(more) = f[n + 1]
  BY <1>1, <1>2, Flattened
<1> DEFINE g == [i \in 0 .. n |-> f[i]]
<1>4. n \in Nat
  BY <1>1
<1>5. /\ f \in [0 .. n + 1 -> Seq(S)] /\ f[0] = <<>>
      /\ \A i \in 1 .. n + 1 : f[i] = f[i - 1] \o more[i]
  BY <1>1, <1>2 DEF Concatenates
<1>6. /\ g \in [0 .. n -> Seq(S)] /\ g[0] = <<>> /\ g[n] = f[n]
      /\ \A i \in 1 .. n : g[i] = g[i - 1] \o seqs[i]
  <2>1. n \in 0 .. n /\ 0 \in 0 .. n /\ \A i \in 0 .. n : i \in 0 .. n + 1
    BY <1>4
  <2>2. \A i \in 1 .. n : i \in 0 .. n /\ i - 1 \in 0 .. n /\ i \in 1 .. n + 1
    BY <1>4
  <2> QED
    BY <1>1, <1>5, <2>1, <2>2
<1> HIDE DEF g
<1>7. FlattenSeq(seqs) = g[n]
  BY <1>6, Flattened DEF Concatenates, n
<1>8. f[n + 1] = f[n] \o last /\ n \in 0 .. n
  <2>1. n + 1 \in 1 .. n + 1 /\ (n + 1) - 1 = n /\ n \in 0 .. n
    BY <1>4
  <2>2. f[n + 1] = f[(n + 1) - 1] \o more[n + 1]
    BY <1>5, <2>1
  <2> QED
    BY <1>1, <2>1, <2>2
<1>9. FlattenSeq(<<>>) = <<>>
  BY DEF FlattenSeq
<1> QED
  BY <1>3, <1>6, <1>7, <1>8, <1>9 DEF more

\* The columns of batches, one after the other.
Joined(batches) ==
    [c \in Columns |-> FlattenSeq([k \in DOMAIN batches |-> batches[k][c]])]

\* One batch more extends every column.
LEMMA JoinedAppend ==
    ASSUME NEW batches \in Seq(Batches), NEW batch \in Batches
    PROVE  /\ Joined(batches) \in Batches
           /\ Joined(Append(batches, batch)) =
                  [c \in Columns |-> Joined(batches)[c] \o batch[c]]
<1> DEFINE more == Append(batches, batch)
           n == Len(batches)
           ColumnOf(all, c) == [k \in DOMAIN all |-> all[k][c]]
<1>1. /\ n \in Nat /\ DOMAIN batches = 1 .. n /\ DOMAIN more = 1 .. n + 1
      /\ more[n + 1] = batch /\ \A k \in 1 .. n : more[k] = batches[k] /\ batches[k] \in Batches
  OBVIOUS
<1> HIDE DEF more, n
<1>2. ASSUME NEW c \in Columns
      PROVE  /\ FlattenSeq(ColumnOf(batches, c)) \in Seq(Values)
             /\ FlattenSeq(ColumnOf(more, c)) = FlattenSeq(ColumnOf(batches, c)) \o batch[c]
  <2> DEFINE seqs == ColumnOf(batches, c)
             last == batch[c]
  <2>1. last \in Seq(Values) /\ \A k \in 1 .. n : batches[k][c] \in Seq(Values)
    BY <1>1 DEF Batches
  <2>2. seqs = [k \in 1 .. n |-> batches[k][c]]
    BY <1>1
  <2>3. seqs \in Seq(Seq(Values))
    BY <1>1, <2>1, <2>2
  <2>4. Len(seqs) = n
    BY <1>1, <2>2, <2>3
  <2>5. Append(seqs, last) = ColumnOf(more, c)
    <3> DEFINE u == Append(seqs, last)
               v == ColumnOf(more, c)
    <3>1. v = [k \in 1 .. n + 1 |-> more[k][c]]
      BY <1>1
    <3>2. \A k \in 1 .. n : more[k][c] = batches[k][c]
      BY <1>1
    <3>3. more[n + 1][c] = last
      BY <1>1
    <3>4. \A k \in 1 .. n + 1 : k \in 1 .. n \/ k = n + 1
      BY <1>1
    <3>5. \A k \in 1 .. n + 1 : v[k] \in Seq(Values)
      BY <2>1, <3>1, <3>2, <3>3, <3>4
    <3>6. v \in Seq(Seq(Values)) /\ Len(v) = n + 1
      BY <1>1, <3>1, <3>5
    <3>7. u \in Seq(Seq(Values)) /\ Len(u) = n + 1 /\ u[n + 1] = last
          /\ \A k \in 1 .. n : u[k] = seqs[k]
      <4> HIDE DEF seqs, last
      <4> QED
        BY <1>1, <2>1, <2>3, <2>4
    <3>8. \A k \in 1 .. n : u[k] = v[k]
      BY <1>1, <2>2, <3>1, <3>2, <3>7
    <3>9. n + 1 \in 1 .. n + 1
      BY <1>1
    <3>10. u[n + 1] = v[n + 1]
      BY <3>1, <3>3, <3>7, <3>9
    <3> HIDE DEF u, v
    <3>11. \A k \in 1 .. n + 1 : u[k] = v[k]
      BY <3>4, <3>8, <3>10
    <3>12. u = v
      BY <3>6, <3>7, <3>11, SeqEqual
    <3> QED
      BY <3>12 DEF u, v
  <2> HIDE DEF seqs, last
  <2>6. /\ FlattenSeq(seqs) \in Seq(Values)
        /\ FlattenSeq(Append(seqs, last)) = FlattenSeq(seqs) \o last
    BY <2>1, <2>3, FlattenAppend
  <2> QED
    BY <2>5, <2>6 DEF seqs, last
<1>3. \A c \in Columns : Joined(batches)[c] = FlattenSeq(ColumnOf(batches, c))
  BY DEF Joined
<1>4. Joined(batches) \in Batches
  <2> HIDE DEF ColumnOf
  <2>1. \A c \in Columns : Joined(batches)[c] \in Seq(Values)
    BY <1>2, <1>3
  <2>2. Joined(batches) = [c \in Columns |-> Joined(batches)[c]]
    BY DEF Joined
  <2> QED
    BY <2>1, <2>2 DEF Batches
<1>5. Joined(more) = [c \in Columns |-> Joined(batches)[c] \o batch[c]]
  <2>1. Joined(more) = [c \in Columns |-> FlattenSeq(ColumnOf(more, c))]
    BY DEF Joined
  <2> HIDE DEF ColumnOf
  <2> QED
    BY <1>2, <1>3, <2>1
<1> QED
  BY <1>4, <1>5 DEF more

\* No batches join to the empty one.
LEMMA JoinedNone == Joined(<<>>) = NoBatch
<1>1. ASSUME NEW c PROVE [k \in DOMAIN <<>> |-> <<>>[k][c]] = <<>>
  OBVIOUS
<1>2. FlattenSeq(<<>>) = <<>>
  BY DEF FlattenSeq
<1> QED
  BY <1>1, <1>2 DEF Joined, NoBatch

\* Batches of cells, joined.
LEMMA JoinedCells ==
    ASSUME NEW batches \in Seq(Batches), NEW s \in Seq(CellOf), NEW t \in Seq(CellOf),
           Joined(batches) = BatchOf(s)
    PROVE  /\ BatchOf(t) \in Batches
           /\ Joined(Append(batches, BatchOf(t))) = BatchOf(s \o t)
<1>1. /\ BatchOf(s \o t) \in Batches /\ BatchOf(t) \in Batches
      /\ \A c \in Columns : BatchOf(s \o t)[c] = BatchOf(s)[c] \o BatchOf(t)[c]
  BY BatchOfBoth
<1> DEFINE both == BatchOf(s \o t)
           last == BatchOf(t)
           first == BatchOf(s)
<1> HIDE DEF both, last, first
<1>2. Joined(Append(batches, last)) = [c \in Columns |-> first[c] \o last[c]]
  BY <1>1, JoinedAppend DEF first, last
<1>3. both = [c \in Columns |-> both[c]]
  BY <1>1 DEF Batches, both
<1>4. both = [c \in Columns |-> first[c] \o last[c]]
  BY <1>1, <1>3 DEF both, first, last
<1> QED
  BY <1>1, <1>2, <1>4 DEF both, last

-----------------------------------------------------------------------------
(* Blocks of a file.                                                         *)

\* The largest of some numbers.
LEMMA LargestOf ==
    ASSUME NEW n \in Nat, NEW S \in SUBSET (0 .. n), S # {}
    PROVE  Max(S) \in S /\ \A i \in S : i <= Max(S)
<1> DEFINE D == {n - i : i \in S}
<1>1. \A i \in S : i \in 0 .. n
  OBVIOUS
<1>2. D \subseteq Nat /\ D # {}
  <2>1. \A i \in S : n - i \in Nat
    BY <1>1
  <2> QED
    BY <2>1
<1> HIDE DEF D
<1>3. PICK d \in D : \A e \in D : ~(e < d)
  <2>1. \E d \in D : \A e \in D : ~(<<e, d>> \in OpToRel(<, Nat))
    BY <1>2, NatLessThanWellFounded, WFMin
  <2> QED
    BY <1>2, <2>1 DEF OpToRel
<1>4. PICK m \in S : d = n - m
  BY DEF D
<1>5. \A i \in S : m >= i
  <2> SUFFICES ASSUME NEW i \in S PROVE m >= i
    OBVIOUS
  <2>1. n - i \in D
    BY DEF D
  <2>2. ~(n - i < n - m) /\ i \in Int /\ m \in Int
    BY <1>3, <1>4, <2>1
  <2> QED
    BY <2>2
<1>6. \E x \in S : \A y \in S : x >= y
  BY <1>5
<1>7. Max(S) \in S /\ \A y \in S : Max(S) >= y
  BY <1>6 DEF Max
<1> DEFINE max == Max(S)
<1> HIDE DEF max
<1>8. max \in S /\ \A y \in S : max >= y
  BY <1>7 DEF max
<1>9. \A i \in S : i \in Int
  BY <1>1
<1>10. \A i \in S : i <= max
  BY <1>8, <1>9
<1> QED
  BY <1>8, <1>10 DEF max

\* The end of the last whole row.
LEMMA CutIs ==
    ASSUME NEW text \in Seq(STRING)
    PROVE  /\ CutBatchToNewLine(text) \in Starts(text)
           /\ \A i \in RowEnds(text) : i <= CutBatchToNewLine(text)
<1> DEFINE n == Len(text)
           S == {0} \union RowEnds(text)
<1>1. n \in Nat /\ S \in SUBSET (0 .. n) /\ S # {}
  BY DEF RowEnds
<1> HIDE DEF S, n
<1>2. Max(S) \in S /\ \A i \in S : i <= Max(S)
  BY <1>1, LargestOf
<1> QED
  BY <1>2 DEF CutBatchToNewLine, Starts, S

\* Two parts that follow one another, and a part in two.
LEMMA PartsJoin ==
    ASSUME NEW S, NEW text \in Seq(S), NEW e \in 0 .. Len(text), NEW p \in 0 .. e,
           NEW b \in 0 .. p
    PROVE  Part(text, b, p) \o Part(text, p, e) = Part(text, b, e)
<1>1. b + 1 \in 1 .. Len(text) + 1 /\ p \in (b + 1) - 1 .. Len(text) /\ e \in p .. Len(text)
  OBVIOUS
<1> QED
  BY <1>1, ConcatAdjacentSubSeq DEF Part

Halves(text, b, e, s, t) ==
    /\ text \in Seq(STRING) /\ e \in 0 .. Len(text) /\ b \in 0 .. e
    /\ s \in Seq(STRING) /\ t \in Seq(STRING) /\ s \o t = Part(text, b, e)

\* Two sequences that make up a part of a text are parts of it.
LEMMA PartOfTwo ==
    ASSUME NEW text, NEW b, NEW e, NEW s, NEW t, Halves(text, b, e, s, t)
    PROVE  /\ Len(s) \in Nat /\ Len(t) \in Nat /\ b + Len(s) \in b .. e
           /\ Len(s) + Len(t) = e - b
           /\ s = Part(text, b, b + Len(s))
           /\ t = Part(text, b + Len(s), e)
<1>1. /\ text \in Seq(STRING) /\ e \in 0 .. Len(text) /\ b \in 0 .. e
       /\ s \in Seq(STRING) /\ t \in Seq(STRING) /\ s \o t = Part(text, b, e)
  BY DEF Halves
<1> DEFINE m == b + Len(s)
           w == Part(text, b, e)
           u == Part(text, b, m)
           v == Part(text, m, e)
<1>2. w \in Seq(STRING) /\ Len(w) = e - b /\ \A i \in 1 .. e - b : w[i] = text[b + i]
  BY <1>1, PartIs
<1> HIDE DEF w
<1>3. Len(s) \in Nat /\ Len(t) \in Nat /\ Len(w) = Len(s) + Len(t)
  BY <1>1 DEF w
<1>4. /\ \A i \in 1 .. Len(s) : w[i] = s[i]
      /\ \A i \in 1 .. Len(t) : w[Len(s) + i] = t[i]
  BY <1>1 DEF w
<1>5. b \in Nat /\ e \in Nat /\ m \in b .. e /\ m \in 0 .. Len(text) /\ b \in 0 .. m
      /\ m \in 0 .. e
  BY <1>2, <1>3, <1>1
<1>6. u \in Seq(STRING) /\ Len(u) = m - b /\ \A i \in 1 .. m - b : u[i] = text[b + i]
  BY <1>5, <1>1, PartIs
<1>7. v \in Seq(STRING) /\ Len(v) = e - m /\ \A i \in 1 .. e - m : v[i] = text[m + i]
  BY <1>5, <1>1, PartIs
<1>8. m - b = Len(s) /\ e - m = Len(t)
  <2>1. b \in Nat /\ e \in Nat /\ Len(s) \in Nat /\ Len(t) \in Nat
    BY <1>5, <1>3
  <2>2. Len(s) + Len(t) = e - b
    BY <1>2, <1>3
  <2> QED
    BY <2>1, <2>2
<1> HIDE DEF u, v
<1>9. ASSUME NEW i \in 1 .. Len(s) PROVE u[i] = s[i]
  <2>1. i \in 1 .. e - b
    BY <1>5, <1>2, <1>3
  <2> QED
    BY <1>2, <1>4, <1>6, <1>8, <2>1
<1>10. ASSUME NEW i \in 1 .. Len(t) PROVE v[i] = t[i]
  <2>1. Len(s) + i \in 1 .. e - b /\ m + i = b + (Len(s) + i)
    BY <1>5, <1>2, <1>3
  <2>2. w[Len(s) + i] = text[m + i]
    BY <1>2, <2>1
  <2> QED
    BY <1>4, <1>7, <1>8, <2>2
<1>11. u = s
  BY <1>6, <1>8, <1>9, <1>1, SeqEqual
<1>12. v = t
  BY <1>7, <1>8, <1>10, <1>1, SeqEqual
<1> QED
  BY <1>5, <1>2, <1>3, <1>11, <1>12 DEF u, v

\* The next block ends where the file does, or is full.
LEMMA BlockIs ==
    ASSUME file \in Seq(STRING), position \in 0 .. Len(file)
    PROVE  \E e \in position .. Len(file) :
               /\ Block = Part(file, position, e) /\ Block \in Seq(STRING)
               /\ Len(Block) = e - position /\ Len(Block) <= BlockSize
               /\ Len(Block) # BlockSize => e = Len(file)
<1>1. BlockSize \in Nat \ {0}
  BY ImportAssumption
<1> DEFINE e == IF position + BlockSize <= Len(file) THEN position + BlockSize ELSE Len(file)
<1>2. /\ e \in position .. Len(file) /\ e \in 0 .. Len(file) /\ position \in 0 .. e
      /\ e - position <= BlockSize
      /\ e - position # BlockSize => e = Len(file)
  BY <1>1
<1>3. Block = Part(file, position, e)
  BY DEF Block, Part
<1> HIDE DEF e
<1>4. Part(file, position, e) \in Seq(STRING) /\ Len(Part(file, position, e)) = e - position
  BY <1>2, PartIs
<1> QED
  BY <1>2, <1>3, <1>4

\* No row ends among these characters of the file.
NoRowEnd(from, to) == \A i \in RowEnds(file) : ~(from < i /\ i <= to)

\* The row, or what is left of the file, that begins at b.
LEMMA SpanFrom ==
    ASSUME file \in Seq(STRING), NEW b \in Starts(file), b < Len(file),
           NEW p \in b .. Len(file), NoRowEnd(b, p)
    PROVE  \E span \in RowSpans, m \in Nat :
               /\ span[1] = b /\ span[2] = m
               /\ p <= m /\ (p < Len(file) => p < m)
<1> DEFINE S == {i \in Marks(file) : b < i}
<1>1. \A i \in Marks(file) : i \in 0 .. Len(file)
  BY MarkIs
<1>2. b \in Marks(file) /\ Len(file) \in Marks(file) /\ b \in Nat /\ Len(file) \in Nat
  BY StartState DEF Marks
<1>3. S \subseteq Nat /\ S # {}
  <2>1. \A i \in S : i \in Nat
    BY <1>1
  <2>2. Len(file) \in S
    BY <1>2
  <2> QED
    BY <2>1, <2>2
<1> HIDE DEF S
<1>4. PICK m \in S : \A i \in S : ~(i < m)
  <2>1. \E m \in S : \A i \in S : ~(<<i, m>> \in OpToRel(<, Nat))
    BY <1>3, NatLessThanWellFounded, WFMin
  <2> QED
    BY <1>3, <2>1 DEF OpToRel
<1>5. m \in Marks(file) /\ b < m /\ \A i \in Marks(file) : ~(b < i /\ i < m)
  BY <1>4 DEF S
<1> DEFINE span == <<b, m>>
<1>6. span \in RowSpans /\ span[1] = b /\ span[2] = m
  <2> DEFINE marks == {0, Len(file)} \union RowEnds(file)
  <2>1. marks = Marks(file)
    BY DEF Marks, Starts
  <2>2. span \in marks \X marks /\ span[1] = b /\ span[2] = m
    BY <1>2, <1>5, <2>1
  <2> HIDE DEF span
  <2>3. span \in RowSpans
    BY <1>5, <2>1, <2>2 DEF RowSpans
  <2> QED
    BY <2>2, <2>3
<1>7. m = Len(file) \/ m \in RowEnds(file)
  BY <1>1, <1>2, <1>5 DEF Marks, Starts
<1>8. p <= m /\ (p < Len(file) => p < m)
  <2>1. m \in Nat /\ p \in Nat /\ p <= Len(file)
    BY <1>1, <1>2, <1>5
  <2>2. CASE m = Len(file)
    BY <2>1, <2>2
  <2>3. CASE m \in RowEnds(file)
    BY <1>5, <2>1, <2>3 DEF NoRowEnd
  <2> QED
    BY <1>7, <2>2, <2>3
<1>9. m \in Nat
  BY <1>1, <1>5
<1> HIDE DEF span
<1> QED
  BY <1>6, <1>8, <1>9

-----------------------------------------------------------------------------
(* The import.                                                               *)

ReaderTyped ==
    /\ file \in Seq(STRING) /\ pending \in Seq(STRING) /\ buffer \in Seq(STRING)
    /\ position \in 0 .. Len(file)
    /\ ipc \in {"idle", "filling", "parsing", "done", "failed"}
    /\ eof_reached \in BOOLEAN /\ broken \in BOOLEAN
    /\ delivered \in Seq(Batches)

\* The characters whose rows have been handed over.
Passed == position - Len(pending) - Len(buffer)

\* The batches delivered are those of the first rows.
DeliveredTo(cut) ==
    /\ FirstRows(file, cut).thrown = FALSE
    /\ Joined(delivered) = BatchOf(FirstRows(file, cut).cells)

\* What is held follows them in the file.
InPlace ==
    ipc # "failed" =>
        /\ Passed \in 0 .. position /\ Passed \in Marks(file)
        /\ buffer \o pending = Part(file, Passed, position)
        /\ DeliveredTo(Passed)

Idle ==
    ipc = "idle" =>
        /\ buffer = <<>>
        /\ eof_reached = FALSE => Passed \in Starts(file) /\ NoRowEnd(Passed, position)
        /\ eof_reached = TRUE => pending = <<>> /\ position = Len(file)

Filling ==
    ipc = "filling" =>
        /\ pending = <<>> /\ eof_reached = FALSE
        /\ Passed \in Starts(file) /\ NoRowEnd(Passed, position)

Parsing ==
    ipc = "parsing" =>
        /\ Passed \in Starts(file)
        /\ eof_reached = FALSE => /\ Passed + Len(buffer) \in Starts(file)
                                  /\ NoRowEnd(Passed + Len(buffer), position)
        /\ eof_reached = TRUE => pending = <<>> /\ position = Len(file)

Done == ipc = "done" => buffer = <<>> /\ pending = <<>> /\ position = Len(file)

Failed ==
    ipc = "failed" =>
        /\ broken = TRUE \/ ParseBuffer(file).thrown = TRUE
        /\ \E cut \in Marks(file) : DeliveredTo(cut)

ImportInv ==
    /\ ReaderTyped /\ BufferBounded
    /\ InPlace /\ Idle /\ Filling /\ Parsing /\ Done /\ Failed

\* One step of the import each.
LEMMA StartBufferKeeps ==
    ASSUME ImportInv, StartBuffer
    PROVE  ImportInv'
<1>1. /\ ReaderTyped /\ BufferBounded /\ InPlace /\ Idle
      /\ ipc = "idle" /\ eof_reached = FALSE
      /\ ipc' = "filling" /\ buffer' = pending /\ pending' = <<>>
      /\ UNCHANGED <<file, position, eof_reached, broken, delivered>>
  BY DEF ImportInv, StartBuffer, ReaderTyped
<1>2. /\ buffer = <<>> /\ Passed \in Starts(file) /\ NoRowEnd(Passed, position)
      /\ Passed \in 0 .. position /\ Passed \in Marks(file)
      /\ buffer \o pending = Part(file, Passed, position) /\ DeliveredTo(Passed)
  BY <1>1 DEF Idle, InPlace
<1>3. ReaderTyped'
  BY <1>1 DEF ReaderTyped
<1>4. Passed' = Passed
  BY <1>1, <1>2 DEF Passed, ReaderTyped
<1>5. buffer' \o pending' = Part(file, Passed, position)
  <2>1. pending \o <<>> = pending /\ <<>> \o pending = pending
    BY <1>1, ConcatEmptySeq DEF ReaderTyped
  <2> QED
    BY <1>1, <1>2, <2>1
<1>6. InPlace' /\ Filling'
  BY <1>1, <1>2, <1>4, <1>5 DEF InPlace, Filling, DeliveredTo, NoRowEnd
<1>7. Idle' /\ Parsing' /\ Done' /\ Failed'
  BY <1>1 DEF Idle, Parsing, Done, Failed
<1>8. BufferBounded'
  <2>1. Len(pending) < BlockSize /\ BlockSize \in Nat \ {0} /\ Len(pending) \in Nat
    BY <1>1, ImportAssumption DEF BufferBounded, ReaderTyped
  <2>2. Len(pending') < BlockSize /\ Len(buffer') < BlockSize
    BY <1>1, <2>1
  <2>3. ~(Len(buffer') >= BlockSize)
    BY <1>1, <2>1, <2>2
  <2> QED
    BY <2>2, <2>3 DEF BufferBounded
<1> QED
  BY <1>3, <1>6, <1>7, <1>8 DEF ImportInv

LEMMA EndImportKeeps ==
    ASSUME ImportInv, EndImport
    PROVE  ImportInv'
<1>1. /\ ReaderTyped /\ BufferBounded /\ InPlace /\ Idle
      /\ ipc = "idle" /\ eof_reached = TRUE /\ ipc' = "done"
      /\ UNCHANGED <<file, position, pending, eof_reached, buffer, broken, delivered>>
  BY DEF ImportInv, EndImport, ReaderTyped
<1>2. ReaderTyped'
  BY <1>1 DEF ReaderTyped
<1>3. Passed' = Passed
  BY <1>1 DEF Passed
<1>4. InPlace'
  BY <1>1, <1>3 DEF InPlace, DeliveredTo
<1>5. Done'
  BY <1>1 DEF Idle, Done
<1>6. Idle' /\ Filling' /\ Parsing' /\ Failed'
  BY <1>1 DEF Idle, Filling, Parsing, Failed
<1>7. BufferBounded'
  BY <1>1 DEF BufferBounded, RowSpans
<1> QED
  BY <1>2, <1>4, <1>5, <1>6, <1>7 DEF ImportInv

LEMMA ReadFailsKeeps ==
    ASSUME ImportInv, ReadFails
    PROVE  ImportInv'
<1>1. /\ ReaderTyped /\ BufferBounded /\ InPlace
      /\ ipc = "filling" /\ ipc' = "failed" /\ broken' = TRUE
      /\ UNCHANGED <<file, position, pending, eof_reached, buffer, delivered>>
  BY DEF ImportInv, ReadFails
<1>2. ReaderTyped'
  BY <1>1 DEF ReaderTyped
<1>3. Passed \in Marks(file) /\ DeliveredTo(Passed)
  BY <1>1 DEF InPlace
<1>4. Failed'
  BY <1>1, <1>3 DEF Failed, DeliveredTo
<1>5. InPlace' /\ Idle' /\ Filling' /\ Parsing' /\ Done'
  BY <1>1 DEF InPlace, Idle, Filling, Parsing, Done
<1>6. BufferBounded'
  BY <1>1 DEF BufferBounded, RowSpans
<1> QED
  BY <1>2, <1>4, <1>5, <1>6 DEF ImportInv

\* A block is read: what is held is a part of the file, from the start of a
\* row on.
LEMMA BlockBehind ==
    ASSUME ReaderTyped, InPlace, Filling, ipc = "filling"
    PROVE  \E e \in position .. Len(file) :
               /\ Block \in Seq(STRING) /\ Len(Block) = e - position
               /\ Len(Block) <= BlockSize /\ (Len(Block) # BlockSize => e = Len(file))
               /\ buffer \o Block = Part(file, Passed, e)
               /\ buffer \o Block \in Seq(STRING)
               /\ Len(buffer) = position - Passed /\ Len(buffer \o Block) = e - Passed
<1>1. /\ file \in Seq(STRING) /\ buffer \in Seq(STRING) /\ position \in 0 .. Len(file)
      /\ pending = <<>> /\ Passed \in 0 .. position
      /\ buffer \o pending = Part(file, Passed, position)
  BY DEF ReaderTyped, InPlace, Filling
<1>2. PICK e \in position .. Len(file) :
          /\ Block = Part(file, position, e) /\ Block \in Seq(STRING)
          /\ Len(Block) = e - position /\ Len(Block) <= BlockSize
          /\ Len(Block) # BlockSize => e = Len(file)
  BY <1>1, BlockIs
<1> DEFINE b == Passed
<1>3. /\ buffer = Part(file, b, position) /\ Len(buffer) = position - b
  <2>1. buffer \o <<>> = buffer
    BY <1>1, ConcatEmptySeq
  <2>2. buffer = Part(file, b, position)
    BY <1>1, <2>1
  <2>3. Len(Part(file, b, position)) = position - b
    BY <1>1, PartIs
  <2> QED
    BY <2>2, <2>3
<1>4. e \in 0 .. Len(file) /\ position \in 0 .. e /\ b \in 0 .. position
  BY <1>1
<1> HIDE DEF b
<1>5. buffer \o Block = Part(file, b, e)
  BY <1>1, <1>2, <1>3, <1>4, PartsJoin
<1>6. b \in 0 .. e
  BY <1>4
<1>7. Part(file, b, e) \in Seq(STRING) /\ Len(Part(file, b, e)) = e - b
  BY <1>1, <1>4, <1>6, PartIs
<1> QED
  BY <1>2, <1>3, <1>5, <1>7 DEF b

\* What is held has outgrown a block: the row it begins with is as long.
LEMMA Outgrown ==
    ASSUME ReaderTyped, NEW b \in Starts(file), NEW p \in b .. Len(file), NoRowEnd(b, p),
           NEW n \in Nat, b + n <= Len(file), n >= BlockSize,
           n <= (p - b) + BlockSize, n = (p - b) + BlockSize => p < Len(file)
    PROVE  \E span \in RowSpans : n < BlockSize + (span[2] - span[1])
<1>1. /\ BlockSize \in Nat \ {0} /\ file \in Seq(STRING) /\ b \in 0 .. Len(file)
      /\ Len(file) \in Nat
  BY ImportAssumption, StartState DEF ReaderTyped
<1>2. b < Len(file)
  BY <1>1
<1>3. PICK span \in RowSpans, m \in Nat :
          /\ span[1] = b /\ span[2] = m
          /\ p <= m /\ (p < Len(file) => p < m)
  BY <1>1, <1>2, SpanFrom
<1>4. p \in Nat /\ b \in Nat /\ p <= m /\ (p < Len(file) => p < m)
  BY <1>1, <1>3
<1>5. n < BlockSize + (m - b)
  <2>1. CASE n = (p - b) + BlockSize
    BY <1>1, <1>4, <2>1
  <2>2. CASE n # (p - b) + BlockSize
    BY <1>1, <1>4, <2>2
  <2> QED
    BY <2>1, <2>2
<1>6. span[2] - span[1] = m - b
  BY <1>3
<1>7. n < BlockSize + (span[2] - span[1])
  BY <1>5, <1>6
<1> QED
  BY <1>7

LEMMA ReadEndKeeps ==
    ASSUME ImportInv, ReadEnd
    PROVE  ImportInv'
<1>1. /\ ReaderTyped /\ BufferBounded /\ InPlace /\ Filling
      /\ ipc = "filling" /\ Len(Block) < BlockSize
      /\ position' = position + Len(Block) /\ buffer' = buffer \o Block
      /\ eof_reached' = TRUE /\ ipc' = IF buffer' = <<>> THEN "done" ELSE "parsing"
      /\ UNCHANGED <<file, pending, broken, delivered>>
  BY DEF ImportInv, ReadEnd
<1>2. /\ pending = <<>> /\ Passed \in Starts(file) /\ NoRowEnd(Passed, position)
      /\ Passed \in 0 .. position /\ Passed \in Marks(file) /\ DeliveredTo(Passed)
      /\ position \in 0 .. Len(file) /\ BlockSize \in Nat
  BY <1>1, ImportAssumption DEF Filling, InPlace, ReaderTyped
<1>3. PICK e \in position .. Len(file) :
          /\ Block \in Seq(STRING) /\ Len(Block) = e - position
          /\ Len(Block) <= BlockSize /\ (Len(Block) # BlockSize => e = Len(file))
          /\ buffer \o Block = Part(file, Passed, e)
          /\ buffer \o Block \in Seq(STRING)
          /\ Len(buffer) = position - Passed /\ Len(buffer \o Block) = e - Passed
  BY <1>1, BlockBehind
<1>4. e = Len(file) /\ e \in Nat /\ position' = e
  BY <1>1, <1>2, <1>3
<1>5. ReaderTyped'
  BY <1>1, <1>2, <1>3, <1>4 DEF ReaderTyped
<1>6. Passed' = Passed
  <2> DEFINE b == Passed
  <2>1. Len(pending') = 0 /\ Len(buffer') = e - b /\ b \in Int /\ e \in Int
    BY <1>1, <1>2, <1>3, <1>4
  <2>2. Passed' = position' - Len(pending') - Len(buffer')
    BY DEF Passed
  <2> HIDE DEF b
  <2>3. Passed' = b
    BY <1>4, <2>1, <2>2
  <2> QED
    BY <2>3 DEF b
<1>7. buffer' \o pending' = Part(file, Passed, position')
  <2>1. buffer' \o <<>> = buffer'
    BY <1>5, ConcatEmptySeq DEF ReaderTyped
  <2> QED
    BY <1>1, <1>2, <1>3, <1>4, <2>1
<1>8. InPlace'
  <2>1. Passed' \in 0 .. position'
    BY <1>2, <1>4, <1>6
  <2> QED
    BY <1>1, <1>2, <1>6, <1>7, <2>1 DEF InPlace, DeliveredTo
<1>9. Parsing' /\ Done'
  BY <1>1, <1>2, <1>4, <1>6 DEF Parsing, Done
<1>10. Idle' /\ Filling' /\ Failed'
  BY <1>1 DEF Idle, Filling, Failed
<1>11. BufferBounded'
  <2>1. Len(pending') < BlockSize
    BY <1>1, <1>2, ImportAssumption
  <2>2. ASSUME Len(buffer') >= BlockSize
        PROVE  \E span \in RowSpans : Len(buffer') < BlockSize + (span[2] - span[1])
    <3> DEFINE b == Passed
               n == Len(buffer')
    <3>1. /\ n = (position - b) + Len(Block) /\ n = e - b /\ b \in Nat /\ n \in Nat
          /\ Len(Block) \in Nat
      BY <1>1, <1>2, <1>3, <1>4
    <3>2. position \in b .. Len(file) /\ b + n <= Len(file) /\ position \in Nat
      BY <1>2, <1>4, <3>1
    <3> HIDE DEF b, n
    <3>3. n < (position - b) + BlockSize
      BY <1>1, <1>2, <3>1, <3>2
    <3>4. n >= BlockSize /\ b \in Starts(file) /\ NoRowEnd(b, position)
      BY <1>2, <2>2 DEF n, b
    <3>5. n <= (position - b) + BlockSize /\ n # (position - b) + BlockSize
      BY <1>2, <3>1, <3>2, <3>3
    <3>6. \E span \in RowSpans : n < BlockSize + (span[2] - span[1])
      BY <1>1, <3>1, <3>2, <3>4, <3>5, Outgrown
    <3> QED
      BY <3>6 DEF n
  <2>3. RowSpans' = RowSpans
    BY <1>1 DEF RowSpans
  <2> QED
    BY <2>1, <2>2, <2>3 DEF BufferBounded
<1> QED
  BY <1>5, <1>8, <1>9, <1>10, <1>11 DEF ImportInv

\* A cut is at the start of a row of the file, and no row ends behind it.
LEMMA CutOfPart ==
    ASSUME file \in Seq(STRING), NEW b \in Starts(file), NEW e \in 0 .. Len(file), b <= e,
           NEW cut, cut = CutBatchToNewLine(Part(file, b, e))
    PROVE  /\ cut \in 0 .. e - b /\ b \in Nat
           /\ b + cut \in Starts(file)
           /\ cut # 0 => b + cut \in RowEnds(file)
           /\ NoRowEnd(b + cut, e)
<1> DEFINE part == Part(file, b, e)
<1>1. b \in Nat /\ b \in 0 .. e /\ e \in Nat
  BY StartState
<1>2. part \in Seq(STRING)
  BY <1>1, PartIs
<1>3. RowEnds(part) = {i \in 1 .. e - b : b + i \in RowEnds(file)}
  BY RowEndsOfPart
<1>4. cut \in Starts(part) /\ \A i \in RowEnds(part) : i <= cut
  BY <1>2, CutIs
<1> HIDE DEF part
<1>5. cut \in 0 .. e - b /\ (cut # 0 => b + cut \in RowEnds(file))
  BY <1>1, <1>3, <1>4 DEF Starts
<1>6. b + cut \in Starts(file)
  <2>1. CASE cut = 0
    BY <1>1, <2>1
  <2>2. CASE cut # 0
    BY <1>5, <2>2 DEF Starts
  <2> QED
    BY <2>1, <2>2
<1>7. NoRowEnd(b + cut, e)
  <2> SUFFICES ASSUME NEW i \in RowEnds(file), b + cut < i, i <= e PROVE FALSE
    BY DEF NoRowEnd
  <2>1. i \in Nat
    BY DEF RowEnds
  <2>2. i - b \in 1 .. e - b /\ b + (i - b) = i
    BY <1>1, <1>5, <2>1
  <2>3. i - b <= cut
    BY <1>3, <1>4, <2>2
  <2> QED
    BY <1>1, <1>5, <2>1, <2>3
<1> QED
  BY <1>1, <1>5, <1>6, <1>7

LEMMA ReadOnKeeps ==
    ASSUME ImportInv, ReadOn
    PROVE  ImportInv'
<1>1. /\ ReaderTyped /\ BufferBounded /\ InPlace /\ Filling
      /\ ipc = "filling" /\ Len(Block) = BlockSize
      /\ CutBatchToNewLine(buffer \o Block) = 0
      /\ position' = position + BlockSize /\ buffer' = buffer \o Block
      /\ UNCHANGED <<file, pending, eof_reached, ipc, broken, delivered>>
  BY DEF ImportInv, ReadOn
<1>2. /\ pending = <<>> /\ Passed \in Starts(file) /\ NoRowEnd(Passed, position)
      /\ Passed \in 0 .. position /\ Passed \in Marks(file) /\ DeliveredTo(Passed)
      /\ position \in 0 .. Len(file) /\ BlockSize \in Nat \ {0} /\ eof_reached = FALSE
      /\ file \in Seq(STRING)
  BY <1>1, ImportAssumption DEF Filling, InPlace, ReaderTyped
<1>3. PICK e \in position .. Len(file) :
          /\ Block \in Seq(STRING) /\ Len(Block) = e - position
          /\ Len(Block) <= BlockSize /\ (Len(Block) # BlockSize => e = Len(file))
          /\ buffer \o Block = Part(file, Passed, e)
          /\ buffer \o Block \in Seq(STRING)
          /\ Len(buffer) = position - Passed /\ Len(buffer \o Block) = e - Passed
  BY <1>1, BlockBehind
<1> DEFINE b == Passed
<1>4. /\ e = position + BlockSize /\ e \in Nat /\ e \in 0 .. Len(file) /\ position' = e
      /\ b \in Nat /\ b <= e
  BY <1>1, <1>2, <1>3
<1>5. ReaderTyped'
  BY <1>1, <1>2, <1>3, <1>4 DEF ReaderTyped
<1>6. Passed' = Passed
  <2>1. Len(pending') = 0 /\ Len(buffer') = e - b
    BY <1>1, <1>2, <1>3
  <2>2. Passed' = position' - Len(pending') - Len(buffer')
    BY DEF Passed
  <2> HIDE DEF b
  <2>3. Passed' = b
    BY <1>4, <2>1, <2>2
  <2> QED
    BY <2>3 DEF b
<1>7. buffer' \o pending' = Part(file, Passed, position')
  <2>1. buffer' \o <<>> = buffer'
    BY <1>5, ConcatEmptySeq DEF ReaderTyped
  <2> QED
    BY <1>1, <1>2, <1>3, <1>4, <2>1
<1>8. InPlace'
  <2>1. Passed' \in 0 .. position'
    BY <1>2, <1>4, <1>6
  <2> QED
    BY <1>1, <1>2, <1>6, <1>7, <2>1 DEF InPlace, DeliveredTo
<1>9. NoRowEnd(b, e)
  <2> DEFINE cut == CutBatchToNewLine(Part(file, b, e))
  <2>1. cut = 0
    BY <1>1, <1>3
  <2> HIDE DEF cut, b
  <2>2. b \in Starts(file)
    BY <1>2 DEF b
  <2>3. NoRowEnd(b + cut, e)
    BY <1>2, <1>4, <2>2, CutOfPart DEF cut
  <2>4. b + cut = b
    BY <1>4, <2>1
  <2> QED
    BY <2>3, <2>4
<1>10. Filling'
  BY <1>1, <1>2, <1>4, <1>6, <1>9 DEF Filling, NoRowEnd
<1>11. Idle' /\ Parsing' /\ Done' /\ Failed'
  BY <1>1 DEF Idle, Parsing, Done, Failed
<1>12. BufferBounded'
  <2>1. Len(pending') < BlockSize
    BY <1>1, <1>2
  <2>2. ASSUME Len(buffer') >= BlockSize
        PROVE  \E span \in RowSpans : Len(buffer') < BlockSize + (span[2] - span[1])
    <3> DEFINE n == Len(buffer')
    <3>1. n = e - b /\ n \in Nat
      BY <1>1, <1>3, <1>4
    <3>2. e \in b .. Len(file) /\ b + n <= Len(file) /\ n < (e - b) + BlockSize
      BY <1>2, <1>4, <3>1
    <3> HIDE DEF b, n
    <3>3. n >= BlockSize /\ b \in Starts(file)
      BY <1>2, <2>2 DEF n, b
    <3>4. n <= (e - b) + BlockSize /\ n # (e - b) + BlockSize
      BY <1>2, <1>4, <3>1, <3>2
    <3>5. \E span \in RowSpans : n < BlockSize + (span[2] - span[1])
      BY <1>1, <1>9, <3>1, <3>2, <3>3, <3>4, Outgrown
    <3> QED
      BY <3>5 DEF n
  <2>3. RowSpans' = RowSpans
    BY <1>1 DEF RowSpans
  <2> QED
    BY <2>1, <2>2, <2>3 DEF BufferBounded
<1> QED
  BY <1>5, <1>8, <1>10, <1>11, <1>12 DEF ImportInv

LEMMA ReadRowsKeeps ==
    ASSUME ImportInv, ReadRows
    PROVE  ImportInv'
<1> DEFINE text == buffer \o Block
           cut == CutBatchToNewLine(text)
           b == Passed
<1>1. /\ ReaderTyped /\ BufferBounded /\ InPlace /\ Filling
      /\ ipc = "filling" /\ Len(Block) = BlockSize /\ cut # 0
      /\ buffer' = SubSeq(text, 1, cut) /\ pending' = SubSeq(text, cut + 1, Len(text))
      /\ position' = position + BlockSize /\ ipc' = "parsing"
      /\ UNCHANGED <<file, eof_reached, broken, delivered>>
  BY DEF ImportInv, ReadRows
<1>2. /\ b \in Starts(file) /\ NoRowEnd(b, position)
      /\ b \in 0 .. position /\ b \in Marks(file) /\ DeliveredTo(b)
      /\ position \in 0 .. Len(file) /\ BlockSize \in Nat \ {0} /\ eof_reached = FALSE
      /\ file \in Seq(STRING)
  BY <1>1, ImportAssumption DEF Filling, InPlace, ReaderTyped
<1>3. PICK e \in position .. Len(file) :
          /\ Block \in Seq(STRING) /\ Len(Block) = e - position
          /\ Len(Block) <= BlockSize /\ (Len(Block) # BlockSize => e = Len(file))
          /\ text = Part(file, b, e) /\ text \in Seq(STRING)
          /\ Len(buffer) = position - b /\ Len(text) = e - b
  BY <1>1, BlockBehind
<1> HIDE DEF text, cut, b
<1>4. /\ e = position + BlockSize /\ e \in Nat /\ e \in 0 .. Len(file) /\ position' = e
      /\ b \in Nat /\ b <= e
  BY <1>1, <1>2, <1>3
<1>5. /\ cut \in 0 .. e - b /\ b + cut \in RowEnds(file) /\ b + cut \in Starts(file)
      /\ NoRowEnd(b + cut, e)
  BY <1>1, <1>2, <1>3, <1>4, CutOfPart DEF cut
<1>6. b + cut > position
  <2>1. cut \in Nat /\ b < b + cut /\ position \in Nat
    BY <1>1, <1>2, <1>4, <1>5
  <2>2. ~(b < b + cut /\ b + cut <= position)
    BY <1>2, <1>5 DEF NoRowEnd
  <2> QED
    BY <1>4, <2>1, <2>2
<1>7. /\ buffer' \in Seq(STRING) /\ Len(buffer') = cut
      /\ pending' \in Seq(STRING) /\ Len(pending') = (e - b) - cut
      /\ buffer' \o pending' = text
  <2>1. cut \in 0 .. Len(text) /\ cut \in Nat /\ Len(text) \in Nat
        /\ Len(text) \in 0 .. Len(text) /\ 0 \in 0 .. cut
    BY <1>3, <1>5
  <2>2. Part(text, 0, cut) \in Seq(STRING) /\ Len(Part(text, 0, cut)) = cut - 0
    BY <1>3, <2>1, PartIs
  <2>3. /\ Part(text, cut, Len(text)) \in Seq(STRING)
        /\ Len(Part(text, cut, Len(text))) = Len(text) - cut
    BY <1>3, <2>1, PartIs
  <2>4. buffer' = Part(text, 0, cut) /\ pending' = Part(text, cut, Len(text))
    BY <1>1 DEF Part
  <2>5. Part(text, 0, cut) \o Part(text, cut, Len(text)) = Part(text, 0, Len(text))
    BY <1>3, <2>1, PartsJoin
  <2>6. Part(text, 0, Len(text)) = SubSeq(text, 1, Len(text))
    BY DEF Part
  <2>7. SubSeq(text, 1, Len(text)) = text
    BY <1>3, SubSeqFull
  <2>8. cut - 0 = cut
    BY <2>1
  <2> QED
    BY <1>3, <2>2, <2>3, <2>4, <2>5, <2>6, <2>7, <2>8
<1>8. ReaderTyped'
  BY <1>1, <1>2, <1>3, <1>4, <1>7 DEF ReaderTyped
<1>9. Passed' = b
  <2>1. Passed' = position' - Len(pending') - Len(buffer')
    BY DEF Passed
  <2>2. Passed' = e - ((e - b) - cut) - cut
    BY <1>4, <1>7, <2>1
  <2> QED
    BY <1>4, <1>5, <2>2
<1>10. InPlace'
  <2>1. Passed' \in 0 .. position'
    BY <1>4, <1>9
  <2>2. buffer' \o pending' = Part(file, b, position')
    BY <1>3, <1>4, <1>7
  <2> QED
    BY <1>1, <1>2, <1>9, <2>1, <2>2 DEF InPlace, DeliveredTo
<1>11. Parsing'
  <2>1. b + Len(buffer') \in Starts(file) /\ NoRowEnd(b + Len(buffer'), position')
    BY <1>4, <1>5, <1>7
  <2> QED
    BY <1>1, <1>2, <1>9, <2>1 DEF Parsing, NoRowEnd
<1>12. Idle' /\ Filling' /\ Done' /\ Failed'
  BY <1>1 DEF Idle, Filling, Done, Failed
<1>13. BufferBounded'
  <2>1. Len(pending') < BlockSize
    BY <1>2, <1>4, <1>5, <1>6, <1>7
  <2>2. ASSUME Len(buffer') >= BlockSize
        PROVE  \E span \in RowSpans : Len(buffer') < BlockSize + (span[2] - span[1])
    <3>1. position \in b .. Len(file) /\ b + cut <= Len(file) /\ cut \in Nat
      BY <1>2, <1>4, <1>5
    <3>2. cut <= (position - b) + BlockSize /\ position < Len(file) /\ cut >= BlockSize
      BY <1>2, <1>4, <1>5, <1>7, <2>2
    <3>3. \E span \in RowSpans : cut < BlockSize + (span[2] - span[1])
      BY <1>1, <1>2, <3>1, <3>2, Outgrown
    <3> QED
      BY <1>7, <3>3
  <2>3. RowSpans' = RowSpans
    BY <1>1 DEF RowSpans
  <2> QED
    BY <2>1, <2>2, <2>3 DEF BufferBounded
<1> QED
  BY <1>8, <1>10, <1>11, <1>12, <1>13 DEF ImportInv

LEMMA ParseKeeps ==
    ASSUME ImportInv, Parse
    PROVE  ImportInv'
<1> DEFINE b == Passed
           e == b + Len(buffer)
           p == ParseBuffer(buffer)
           batch == BatchOf(p.cells)
<1>1. /\ ReaderTyped /\ BufferBounded /\ InPlace /\ Parsing
      /\ ipc = "parsing" /\ buffer' = <<>>
      /\ IF p.thrown THEN ipc' = "failed" /\ UNCHANGED delivered
         ELSE ipc' = "idle" /\ delivered' = Append(delivered, batch)
      /\ UNCHANGED <<file, position, pending, eof_reached, broken>>
  BY DEF ImportInv, Parse
<1>2. /\ file \in Seq(STRING) /\ buffer \in Seq(STRING) /\ pending \in Seq(STRING)
      /\ position \in 0 .. Len(file) /\ delivered \in Seq(Batches) /\ eof_reached \in BOOLEAN
      /\ b \in 0 .. position /\ b \in Starts(file) /\ DeliveredTo(b)
      /\ buffer \o pending = Part(file, b, position)
      /\ eof_reached = FALSE => e \in Starts(file) /\ NoRowEnd(e, position)
      /\ eof_reached = TRUE => pending = <<>> /\ position = Len(file)
  BY <1>1 DEF InPlace, Parsing, ReaderTyped
<1> HIDE DEF b, batch
<1>3. /\ Len(buffer) \in Nat /\ Len(pending) \in Nat /\ e \in b .. position
      /\ Len(buffer) + Len(pending) = position - b
      /\ buffer = Part(file, b, e) /\ pending = Part(file, e, position)
  <2>1. Halves(file, b, position, buffer, pending)
    BY <1>2 DEF Halves
  <2> HIDE DEF e
  <2>2. /\ Len(buffer) \in Nat /\ Len(pending) \in Nat
        /\ b + Len(buffer) \in b .. position
        /\ Len(buffer) + Len(pending) = position - b
        /\ buffer = Part(file, b, b + Len(buffer))
        /\ pending = Part(file, b + Len(buffer), position)
    BY <2>1, PartOfTwo
  <2> QED
    BY <2>2 DEF e
<1>4. e \in Marks(file)
  <2>1. CASE eof_reached = FALSE
    BY <1>2, <2>1 DEF Marks
  <2>2. CASE eof_reached = TRUE
    <3>1. Len(pending) = 0
      BY <1>2, <2>2
    <3>2. Len(buffer) \in Nat /\ b \in Int /\ position \in Int
          /\ Len(buffer) + Len(pending) = position - b
      BY <1>2, <1>3
    <3>3. e = position
      BY <3>1, <3>2
    <3> QED
      BY <1>2, <2>2, <3>3 DEF Marks
  <2> QED
    BY <1>2, <2>1, <2>2
<1>5. b <= e /\ b \in Nat /\ e \in Nat /\ e \in 0 .. position
  BY <1>2, <1>3
<1> HIDE DEF e
<1>6. /\ p \in ParseState
      /\ FirstRows(file, e).thrown = p.thrown
      /\ FirstRows(file, e).cells = FirstRows(file, b).cells \o p.cells
  BY <1>2, <1>3, <1>4, <1>5, FirstRowsGoOn DEF DeliveredTo
<1> HIDE DEF p
<1>7. Passed' = e
  <2>1. Passed' = position' - Len(pending') - Len(buffer')
    BY DEF Passed
  <2>2. Len(pending') = Len(pending) /\ Len(buffer') = 0 /\ position' = position
    BY <1>1
  <2>3. e = b + Len(buffer)
    BY DEF e
  <2> QED
    BY <1>2, <1>3, <1>5, <2>1, <2>2, <2>3
<1>8. BufferBounded'
  <2>1. BlockSize \in Nat \ {0} /\ Len(pending') < BlockSize /\ Len(buffer') = 0
    BY <1>1, ImportAssumption DEF BufferBounded
  <2>2. ~(Len(buffer') >= BlockSize)
    BY <2>1
  <2> QED
    BY <2>1, <2>2 DEF BufferBounded
<1>9. Filling' /\ Parsing' /\ Done'
  BY <1>1 DEF Filling, Parsing, Done
<1>10. CASE p.thrown = TRUE
  <2>1. ipc' = "failed" /\ delivered' = delivered
    BY <1>1, <1>10
  <2>2. ReaderTyped'
    BY <1>1, <1>2, <2>1 DEF ReaderTyped
  <2>3. ParseBuffer(file).thrown = TRUE
    BY <1>2, <1>4, <1>6, <1>10, FirstRowsThrown
  <2>4. b \in Marks(file)
    BY <1>2 DEF Marks
  <2>5. Failed'
    BY <1>1, <1>2, <2>1, <2>3, <2>4 DEF Failed, DeliveredTo
  <2>6. InPlace' /\ Idle'
    BY <2>1 DEF InPlace, Idle
  <2> QED
    BY <1>8, <1>9, <2>2, <2>5, <2>6 DEF ImportInv
<1>11. CASE p.thrown = FALSE
  <2>1. ipc' = "idle" /\ delivered' = Append(delivered, batch)
    BY <1>1, <1>11
  <2> DEFINE first == FirstRows(file, b).cells
             cells == p.cells
  <2>2. first \in Seq(CellOf) /\ cells \in Seq(CellOf)
    <3>1. FirstRows(file, b) \in ParseState
      BY <1>2, FirstRowsAre DEF Marks
    <3> QED
      BY <1>6, <3>1, ParseFields
  <2>3. Joined(delivered) = BatchOf(first)
    BY <1>2 DEF DeliveredTo
  <2> HIDE DEF first
  <2>4. batch = BatchOf(cells)
    BY DEF batch
  <2> HIDE DEF cells
  <2>5. batch \in Batches /\ Joined(Append(delivered, batch)) = BatchOf(first \o cells)
    BY <1>2, <2>2, <2>3, <2>4, JoinedCells
  <2>6. ReaderTyped'
    BY <1>1, <1>2, <2>1, <2>5 DEF ReaderTyped
  <2>7. FirstRows(file, e).thrown = FALSE /\ FirstRows(file, e).cells = first \o cells
    BY <1>6, <1>11 DEF first, cells
  <2>8. /\ FirstRows(file', e).thrown = FALSE
        /\ Joined(delivered') = BatchOf(FirstRows(file', e).cells)
    BY <1>1, <2>1, <2>5, <2>7
  <2>9. buffer' \o pending' = Part(file, e, position)
    <3>1. <<>> \o pending = pending
      BY <1>2, ConcatEmptySeq
    <3> QED
      BY <1>1, <1>3, <3>1
  <2>10. InPlace'
    BY <1>1, <1>4, <1>5, <1>7, <2>8, <2>9 DEF InPlace, DeliveredTo
  <2>11. Idle'
    BY <1>1, <1>2, <1>7 DEF Idle, NoRowEnd
  <2>12. Failed'
    BY <2>1 DEF Failed
  <2> QED
    BY <1>8, <1>9, <2>6, <2>10, <2>11, <2>12 DEF ImportInv
<1> QED
  BY <1>6, <1>10, <1>11, ParseFields

\* Every step of the import keeps it.
LEMMA ImportKeeps ==
    ASSUME ImportInv, ImportStep \/ ReadFails
    PROVE  ImportInv'
BY StartBufferKeeps, EndImportKeeps, ReadEndKeeps, ReadOnKeeps, ReadRowsKeeps, ParseKeeps,
   ReadFailsKeeps DEF ImportStep

\* Before the first call nothing has been read, whatever file it is.
LEMMA FreshImport ==
    ASSUME file \in Seq(STRING), ReaderInit
    PROVE  ImportInv
<1>1. /\ position = 0 /\ pending = <<>> /\ eof_reached = FALSE /\ buffer = <<>>
      /\ ipc = "idle" /\ broken = FALSE /\ delivered = <<>>
      /\ BlockSize \in Nat \ {0} /\ Len(file) \in Nat
  BY ImportAssumption DEF ReaderInit
<1>2. /\ <<>> \in Seq(STRING) /\ <<>> \in Seq(Batches) /\ Len(<<>>) = 0
      /\ position \in 0 .. Len(file) /\ position - 0 - 0 = 0
  BY <1>1
<1>3. ReaderTyped
  BY <1>1, <1>2 DEF ReaderTyped
<1>4. BufferBounded
  <2>1. Len(pending) < BlockSize /\ ~(Len(buffer) >= BlockSize)
    BY <1>1
  <2> QED
    BY <2>1 DEF BufferBounded
<1>5. Passed = 0
  BY <1>1, <1>2 DEF Passed
<1>6. 0 \in Starts(file) /\ 0 \in Marks(file) /\ NoRowEnd(0, 0)
  BY DEF Starts, Marks, NoRowEnd, RowEnds
<1>7. DeliveredTo(0)
  BY <1>1, JoinedNone, BatchOfNone, NoRows DEF DeliveredTo
<1>8. buffer \o pending = Part(file, 0, 0)
  <2>1. <<>> \o <<>> = <<>>
    OBVIOUS
  <2>2. Part(file, 0, 0) = <<>>
    <3>1. 0 \in 0 .. Len(file) /\ 0 \in 0 .. 0
      BY <1>1
    <3>2. Part(file, 0, 0) \in Seq(STRING) /\ Len(Part(file, 0, 0)) = 0 - 0
      BY <3>1, PartIs
    <3> QED
      BY <3>2
  <2> QED
    BY <1>1, <2>1, <2>2
<1>9. InPlace /\ Idle
  BY <1>1, <1>5, <1>6, <1>7, <1>8 DEF InPlace, Idle
<1>10. Filling /\ Parsing /\ Done /\ Failed
  BY <1>1 DEF Filling, Parsing, Done, Failed
<1> QED
  BY <1>3, <1>4, <1>9, <1>10 DEF ImportInv

\* The same in the next state.
LEMMA FreshImportNext == (file \in Seq(STRING) /\ ReaderInit => ImportInv)'
<1>1. file \in Seq(STRING) /\ ReaderInit => ImportInv
  BY FreshImport
<1> QED
  BY <1>1, PTL

-----------------------------------------------------------------------------
(* The conversion.                                                           *)

RowGroups == {RowGroup(batch) : batch \in Batches}

ConvertTyped ==
    /\ step \in {"schema", "output", "input", "import", "finalize", "unwind", "ok", "failed"}
    /\ disk_failed \in BOOLEAN
    /\ output \in [state : {"old", "open", "sealed"}, row_groups : Seq(RowGroups)]

\* Nothing is read before the CSV file is open.
Fresh ==
    step \in {"schema", "output", "input"} =>
        /\ ReaderInit /\ output.row_groups = <<>>
        /\ output.state = IF step = "input" THEN "open" ELSE "old"

\* The row groups are the batches delivered, in order, but for the one that
\* is being written.
StoredInOrder ==
    /\ \A g \in 1 .. Len(output.row_groups) :
           output.row_groups[g] = RowGroup(delivered[g])
    /\ Len(output.row_groups) <= Len(delivered)
    /\ Len(delivered) <= Len(output.row_groups) + 1

\* What went wrong.
Wrong == disk_failed = TRUE \/ broken = TRUE \/ ParseBuffer(file).thrown = TRUE

InStep ==
    /\ step \in {"import", "finalize", "unwind"} => output.state = "open"
    /\ step \in {"finalize", "ok"} => AllStored /\ ipc = "done"
    /\ step = "ok" => disk_failed = TRUE \/ output.state = "sealed"
    /\ step = "unwind" => Wrong /\ (disk_failed = TRUE \/ AllStored)
    /\ step = "failed" => output.state = "old" \/ Wrong
    /\ output.state = "sealed" => AllStored

ConvertInv == ConvertTyped /\ ImportInv /\ Fresh /\ StoredInOrder /\ InStep

\* Sealing and opening change nothing else.
LEMMA OutputFields ==
    ASSUME ConvertTyped, NEW state \in {"old", "open", "sealed"},
           NEW next, next = [output EXCEPT !.state = state]
    PROVE  /\ next \in [state : {"old", "open", "sealed"}, row_groups : Seq(RowGroups)]
           /\ next.state = state /\ next.row_groups = output.row_groups
BY DEF ConvertTyped

\* The import is as it was.
LEMMA ImportUnchanged ==
    ASSUME ImportInv, UNCHANGED importVars
    PROVE  ImportInv'
<1>1. /\ ReaderTyped /\ BufferBounded /\ InPlace /\ Idle /\ Filling /\ Parsing /\ Done
      /\ Failed
      /\ UNCHANGED <<file, position, pending, eof_reached, buffer, ipc, broken, delivered>>
  BY DEF ImportInv, importVars, readerVars
<1>2. ReaderTyped'
  BY <1>1 DEF ReaderTyped
<1>3. BufferBounded'
  BY <1>1 DEF BufferBounded, RowSpans
<1>4. Passed' = Passed
  BY <1>1 DEF Passed
<1>5. InPlace'
  BY <1>1, <1>4 DEF InPlace, DeliveredTo
<1>6. Idle' /\ Filling' /\ Parsing'
  BY <1>1, <1>4 DEF Idle, Filling, Parsing, NoRowEnd
<1>7. Done' /\ Failed'
  BY <1>1 DEF Done, Failed, DeliveredTo
<1> QED
  BY <1>2, <1>3, <1>5, <1>6, <1>7 DEF ImportInv

\* One step of the conversion each.
LEMMA LoadSchemaKeeps ==
    ASSUME ConvertInv, LoadSchema
    PROVE  ConvertInv'
<1>1. /\ ConvertTyped /\ ImportInv /\ Fresh /\ StoredInOrder /\ InStep
      /\ step = "schema" /\ step' \in {"output", "failed"}
      /\ UNCHANGED <<importVars, output, disk_failed>>
  BY DEF ConvertInv, LoadSchema
<1>2. ImportInv'
  BY <1>1, ImportUnchanged
<1>3. UNCHANGED <<file, position, pending, eof_reached, buffer, ipc, broken, delivered>>
  BY <1>1 DEF importVars, readerVars
<1>4. ConvertTyped'
  BY <1>1 DEF ConvertTyped
<1>5. Fresh' /\ StoredInOrder' /\ InStep'
  BY <1>1, <1>3 DEF Fresh, StoredInOrder, InStep, Wrong, AllStored, ReaderInit
<1> QED
  BY <1>2, <1>4, <1>5 DEF ConvertInv

LEMMA OpenOutputKeeps ==
    ASSUME ConvertInv, OpenOutput
    PROVE  ConvertInv'
<1>1. /\ ConvertTyped /\ ImportInv /\ Fresh /\ StoredInOrder /\ InStep
      /\ step = "output" /\ UNCHANGED importVars
      /\ \/ step' = "failed" /\ UNCHANGED <<output, disk_failed>>
         \/ /\ output' = [output EXCEPT !.state = "open"]
            /\ disk_failed' \in BOOLEAN
            /\ step' = IF disk_failed' THEN "failed" ELSE "input"
  BY DEF ConvertInv, OpenOutput
<1>2. ImportInv'
  BY <1>1, ImportUnchanged
<1>3. UNCHANGED <<file, position, pending, eof_reached, buffer, ipc, broken, delivered>>
  BY <1>1 DEF importVars, readerVars
<1>4. CASE step' = "failed" /\ UNCHANGED <<output, disk_failed>>
  <2>1. ConvertTyped'
    BY <1>1, <1>4 DEF ConvertTyped
  <2>2. Fresh' /\ StoredInOrder' /\ InStep'
    BY <1>1, <1>3, <1>4 DEF Fresh, StoredInOrder, InStep, Wrong, AllStored
  <2> QED
    BY <1>2, <2>1, <2>2 DEF ConvertInv
<1>5. CASE /\ output' = [output EXCEPT !.state = "open"]
           /\ disk_failed' \in BOOLEAN
           /\ step' = IF disk_failed' THEN "failed" ELSE "input"
  <2>1. /\ output' \in [state : {"old", "open", "sealed"}, row_groups : Seq(RowGroups)]
        /\ output'.state = "open" /\ output'.row_groups = output.row_groups
    BY <1>1, <1>5, OutputFields
  <2>2. \/ disk_failed' = TRUE /\ step' = "failed"
        \/ disk_failed' = FALSE /\ step' = "input"
    BY <1>5
  <2>3. ConvertTyped'
    BY <1>5, <2>1, <2>2 DEF ConvertTyped
  <2>4. Fresh' /\ StoredInOrder'
    BY <1>1, <1>3, <2>1, <2>2 DEF Fresh, StoredInOrder, ReaderInit
  <2>5. InStep'
    BY <2>1, <2>2 DEF InStep, Wrong
  <2> QED
    BY <1>2, <2>3, <2>4, <2>5 DEF ConvertInv
<1> QED
  BY <1>1, <1>4, <1>5

LEMMA OpenInputKeeps ==
    ASSUME ConvertInv, OpenInput
    PROVE  ConvertInv'
<1>1. /\ ConvertTyped /\ ImportInv /\ Fresh /\ StoredInOrder /\ InStep
      /\ step = "input"
      /\ \/ step' = "unwind" /\ broken' = TRUE /\ UNCHANGED file
         \/ step' = "import" /\ file' \in Files /\ UNCHANGED broken
      /\ UNCHANGED <<position, pending, eof_reached, buffer, ipc, delivered,
                     output, disk_failed>>
  BY DEF ConvertInv, OpenInput
<1>2. /\ position = 0 /\ pending = <<>> /\ eof_reached = FALSE /\ buffer = <<>>
      /\ ipc = "idle" /\ broken = FALSE /\ delivered = <<>>
      /\ output.row_groups = <<>> /\ output.state = "open"
  BY <1>1 DEF Fresh, ReaderInit
<1>3. ConvertTyped'
  BY <1>1 DEF ConvertTyped
<1>4. StoredInOrder' /\ AllStored'
  BY <1>1, <1>2 DEF StoredInOrder, AllStored
<1>5. Fresh'
  BY <1>1 DEF Fresh
<1>6. InStep'
  BY <1>1, <1>2, <1>4 DEF InStep, Wrong
<1>7. CASE step' = "unwind" /\ broken' = TRUE /\ UNCHANGED file
  <2>1. /\ ReaderTyped /\ BufferBounded /\ InPlace /\ Idle
    BY <1>1 DEF ImportInv
  <2>2. ReaderTyped'
    BY <1>1, <1>7, <2>1 DEF ReaderTyped
  <2>3. Passed' = Passed
    BY <1>1 DEF Passed
  <2>4. BufferBounded' /\ InPlace' /\ Idle'
    BY <1>1, <1>7, <2>1, <2>3
    DEF BufferBounded, RowSpans, InPlace, DeliveredTo, Idle, NoRowEnd
  <2>5. Filling' /\ Parsing' /\ Done' /\ Failed'
    BY <1>1, <1>2 DEF Filling, Parsing, Done, Failed
  <2>6. ImportInv'
    BY <2>2, <2>4, <2>5 DEF ImportInv
  <2> QED
    BY <1>3, <1>4, <1>5, <1>6, <2>6 DEF ConvertInv
<1>8. CASE step' = "import" /\ file' \in Files /\ UNCHANGED broken
  <2>1. file' \in Seq(STRING)
    BY <1>8, ImportAssumption
  <2>2. ReaderInit'
    BY <1>1, <1>2, <1>8 DEF ReaderInit
  <2>3. file' \in Seq(STRING) /\ ReaderInit' => ImportInv'
    BY FreshImportNext
  <2> QED
    BY <1>3, <1>4, <1>5, <1>6, <2>1, <2>2, <2>3 DEF ConvertInv
<1> QED
  BY <1>1, <1>7, <1>8

\* A step of the import delivers one batch, or none.
LEMMA Delivers ==
    ASSUME ImportInv, ImportStep \/ ReadFails
    PROVE  /\ file' = file
           /\ delivered' = delivered \/ \E batch \in Batches : delivered' = Append(delivered, batch)
<1>1. CASE Parse
  <2> DEFINE p == ParseBuffer(buffer)
  <2>1. /\ file' = file
        /\ delivered' = delivered \/ delivered' = Append(delivered, BatchOf(p.cells))
    BY <1>1 DEF Parse
  <2>2. p.cells \in Seq(CellOf)
    <3>1. buffer \in Seq(STRING)
      BY DEF ImportInv, ReaderTyped
    <3> QED
      BY <3>1, ParseBufferTyped, ParseFields
  <2> HIDE DEF p
  <2>3. BatchOf(p.cells) \in Batches
    BY <2>2, BatchOfBoth
  <2> QED
    BY <2>1, <2>3
<1>2. CASE StartBuffer \/ EndImport \/ ReadEnd \/ ReadOn \/ ReadRows \/ ReadFails
  BY <1>2 DEF StartBuffer, EndImport, ReadEnd, ReadOn, ReadRows, ReadFails
<1> QED
  BY <1>1, <1>2 DEF ImportStep

LEMMA ImportOneKeeps ==
    ASSUME ConvertInv, Import \/ InputFails
    PROVE  ConvertInv'
<1>1. /\ ConvertTyped /\ ImportInv /\ Fresh /\ StoredInOrder /\ InStep
      /\ step = "import" /\ AllStored /\ (ImportStep \/ ReadFails)
      /\ UNCHANGED <<step, output, disk_failed>>
  BY DEF ConvertInv, Import, InputFails
<1>2. ImportInv'
  BY <1>1, ImportKeeps
<1>3. ConvertTyped'
  BY <1>1 DEF ConvertTyped
<1>4. Fresh'
  BY <1>1 DEF Fresh
<1>5. StoredInOrder'
  <2> DEFINE n == Len(output.row_groups)
  <2>1. delivered \in Seq(Batches) /\ n = Len(delivered) /\ n \in Nat
    BY <1>1 DEF ImportInv, ReaderTyped, AllStored, ConvertTyped
  <2>2. output' = output
    BY <1>1
  <2>3. CASE delivered' = delivered
    BY <1>1, <2>2, <2>3 DEF StoredInOrder
  <2>4. CASE \E batch \in Batches : delivered' = Append(delivered, batch)
    <3>1. PICK batch \in Batches : delivered' = Append(delivered, batch)
      BY <2>4
    <3>2. Len(delivered') = n + 1 /\ \A g \in 1 .. n : delivered'[g] = delivered[g]
      BY <2>1, <3>1
    <3>3. \A g \in 1 .. n : output.row_groups[g] = RowGroup(delivered[g])
      BY <1>1 DEF StoredInOrder
    <3> HIDE DEF n
    <3>4. n <= n + 1
      BY <2>1
    <3>5. \A g \in 1 .. n : output.row_groups[g] = RowGroup(delivered'[g])
      BY <3>2, <3>3
    <3>6. Len(output'.row_groups) = n
      BY <2>2 DEF n
    <3> QED
      BY <2>1, <2>2, <3>2, <3>4, <3>5, <3>6 DEF StoredInOrder
  <2> QED
    BY <1>1, <2>3, <2>4, Delivers
<1>6. InStep'
  BY <1>1 DEF InStep
<1> QED
  BY <1>2, <1>3, <1>4, <1>5, <1>6 DEF ConvertInv

LEMMA WriteBatchKeeps ==
    ASSUME ConvertInv, WriteBatchToFile
    PROVE  ConvertInv'
<1>1. /\ ConvertTyped /\ ImportInv /\ Fresh /\ StoredInOrder /\ InStep
      /\ step = "import" /\ ~AllStored /\ UNCHANGED importVars
      /\ \/ /\ output' = [output EXCEPT !.row_groups = Append(@, RowGroup(Last(delivered)))]
            /\ UNCHANGED <<step, disk_failed>>
         \/ disk_failed' = TRUE /\ step' = "unwind" /\ UNCHANGED output
  BY DEF ConvertInv, WriteBatchToFile
<1>2. ImportInv'
  BY <1>1, ImportUnchanged
<1>3. UNCHANGED <<file, position, pending, eof_reached, buffer, ipc, broken, delivered>>
  BY <1>1 DEF importVars, readerVars
<1>4. Fresh'
  BY <1>1 DEF Fresh
<1>5. CASE disk_failed' = TRUE /\ step' = "unwind" /\ UNCHANGED output
  <2>1. ConvertTyped'
    BY <1>1, <1>5 DEF ConvertTyped
  <2>2. StoredInOrder'
    BY <1>1, <1>3, <1>5 DEF StoredInOrder
  <2>3. InStep'
    BY <1>1, <1>3, <1>5 DEF InStep, Wrong, AllStored
  <2> QED
    BY <1>2, <1>4, <2>1, <2>2, <2>3 DEF ConvertInv
<1>6. CASE /\ output' = [output EXCEPT !.row_groups = Append(@, RowGroup(Last(delivered)))]
           /\ UNCHANGED <<step, disk_failed>>
  <2> DEFINE rgs == output.row_groups
             n == Len(rgs)
             group == RowGroup(Last(delivered))
             more == Append(rgs, group)
  <2>1. /\ rgs \in Seq(RowGroups) /\ delivered \in Seq(Batches) /\ n \in Nat
        /\ Len(delivered) \in Nat
    BY <1>1 DEF ConvertTyped, ImportInv, ReaderTyped
  <2>2. Len(delivered) = n + 1
    BY <1>1, <2>1 DEF StoredInOrder, AllStored
  <2>3. Last(delivered) = delivered[n + 1] /\ delivered[n + 1] \in Batches
    BY <2>1, <2>2 DEF Last
  <2>4. group \in RowGroups /\ group = RowGroup(delivered[n + 1])
    BY <2>3 DEF RowGroups
  <2>5. \A g \in 1 .. n : rgs[g] = RowGroup(delivered[g])
    BY <1>1 DEF StoredInOrder
  <2> HIDE DEF group, n
  <2>6. /\ more \in Seq(RowGroups) /\ Len(more) = n + 1 /\ more[n + 1] = group
        /\ \A g \in 1 .. n : more[g] = rgs[g]
    BY <2>1, <2>4 DEF n
  <2>7. output' = [output EXCEPT !.row_groups = more]
    BY <1>6 DEF group
  <2> HIDE DEF more
  <2>8. /\ output' \in [state : {"old", "open", "sealed"}, row_groups : Seq(RowGroups)]
        /\ output'.state = output.state /\ output'.row_groups = more
    BY <1>1, <2>6, <2>7 DEF ConvertTyped
  <2>9. ConvertTyped'
    BY <1>1, <1>6, <2>8 DEF ConvertTyped
  <2>10. \A g \in 1 .. n + 1 : more[g] = RowGroup(delivered[g])
    <3>1. \A g \in 1 .. n + 1 : g \in 1 .. n \/ g = n + 1
      BY <2>1
    <3> QED
      BY <2>4, <2>5, <2>6, <3>1
  <2>11. /\ Len(output'.row_groups) = n + 1 /\ n + 1 <= Len(delivered')
         /\ Len(delivered') <= (n + 1) + 1
    BY <1>3, <2>1, <2>2, <2>6, <2>8
  <2>12. StoredInOrder'
    BY <1>3, <2>8, <2>10, <2>11 DEF StoredInOrder
  <2>13. InStep'
    BY <1>1, <1>6, <2>8 DEF InStep
  <2> QED
    BY <1>2, <1>4, <2>9, <2>12, <2>13 DEF ConvertInv
<1> QED
  BY <1>1, <1>5, <1>6

LEMMA ImportEndsKeeps ==
    ASSUME ConvertInv, ImportEnds
    PROVE  ConvertInv'
<1>1. /\ ConvertTyped /\ ImportInv /\ Fresh /\ StoredInOrder /\ InStep
      /\ step = "import" /\ AllStored /\ UNCHANGED <<importVars, output, disk_failed>>
      /\ \/ ipc = "done" /\ step' = "finalize"
         \/ ipc = "failed" /\ step' = "unwind"
  BY DEF ConvertInv, ImportEnds
<1>2. ImportInv'
  BY <1>1, ImportUnchanged
<1>3. UNCHANGED <<file, position, pending, eof_reached, buffer, ipc, broken, delivered>>
  BY <1>1 DEF importVars, readerVars
<1>4. ConvertTyped'
  BY <1>1 DEF ConvertTyped
<1>5. Fresh' /\ StoredInOrder'
  BY <1>1, <1>3 DEF Fresh, StoredInOrder
<1>6. ipc = "failed" => Wrong
  BY <1>1 DEF ImportInv, Failed, Wrong
<1>7. InStep'
  BY <1>1, <1>3, <1>6 DEF InStep, Wrong, AllStored
<1> QED
  BY <1>2, <1>4, <1>5, <1>7 DEF ConvertInv

LEMMA FinalizeKeeps ==
    ASSUME ConvertInv, Finalize
    PROVE  ConvertInv'
<1>1. /\ ConvertTyped /\ ImportInv /\ Fresh /\ StoredInOrder /\ InStep
      /\ step = "finalize" /\ UNCHANGED importVars
      /\ \/ step' = "ok" /\ output' = Sealed /\ UNCHANGED disk_failed
         \/ step' \in {"unwind", "ok"} /\ disk_failed' = TRUE /\ UNCHANGED output
  BY DEF ConvertInv, Finalize
<1>2. ImportInv'
  BY <1>1, ImportUnchanged
<1>3. UNCHANGED <<file, position, pending, eof_reached, buffer, ipc, broken, delivered>>
  BY <1>1 DEF importVars, readerVars
<1>4. Fresh'
  BY <1>1 DEF Fresh
<1>5. CASE step' = "ok" /\ output' = Sealed /\ UNCHANGED disk_failed
  <2>1. /\ output' \in [state : {"old", "open", "sealed"}, row_groups : Seq(RowGroups)]
        /\ output'.state = "sealed" /\ output'.row_groups = output.row_groups
    BY <1>1, <1>5, OutputFields DEF Sealed
  <2>2. ConvertTyped'
    BY <1>1, <1>5, <2>1 DEF ConvertTyped
  <2>3. StoredInOrder'
    BY <1>1, <1>3, <2>1 DEF StoredInOrder
  <2>4. InStep'
    BY <1>1, <1>3, <1>5, <2>1 DEF InStep, AllStored
  <2> QED
    BY <1>2, <1>4, <2>2, <2>3, <2>4 DEF ConvertInv
<1>6. CASE step' \in {"unwind", "ok"} /\ disk_failed' = TRUE /\ UNCHANGED output
  <2>1. ConvertTyped'
    BY <1>1, <1>6 DEF ConvertTyped
  <2>2. StoredInOrder'
    BY <1>1, <1>3, <1>6 DEF StoredInOrder
  <2>3. InStep'
    BY <1>1, <1>3, <1>6 DEF InStep, Wrong, AllStored
  <2> QED
    BY <1>2, <1>4, <2>1, <2>2, <2>3 DEF ConvertInv
<1> QED
  BY <1>1, <1>5, <1>6

LEMMA UnwindKeeps ==
    ASSUME ConvertInv, Unwind
    PROVE  ConvertInv'
<1>1. /\ ConvertTyped /\ ImportInv /\ Fresh /\ StoredInOrder /\ InStep
      /\ step = "unwind" /\ step' = "failed" /\ UNCHANGED importVars
      /\ \/ ~disk_failed /\ output' = Sealed /\ UNCHANGED disk_failed
         \/ disk_failed' = TRUE /\ UNCHANGED output
  BY DEF ConvertInv, Unwind
<1>2. ImportInv'
  BY <1>1, ImportUnchanged
<1>3. UNCHANGED <<file, position, pending, eof_reached, buffer, ipc, broken, delivered>>
  BY <1>1 DEF importVars, readerVars
<1>4. Fresh'
  BY <1>1 DEF Fresh
<1>5. CASE ~disk_failed /\ output' = Sealed /\ UNCHANGED disk_failed
  <2>1. /\ output' \in [state : {"old", "open", "sealed"}, row_groups : Seq(RowGroups)]
        /\ output'.state = "sealed" /\ output'.row_groups = output.row_groups
    BY <1>1, <1>5, OutputFields DEF Sealed
  <2>2. ConvertTyped'
    BY <1>1, <1>5, <2>1 DEF ConvertTyped
  <2>3. StoredInOrder'
    BY <1>1, <1>3, <2>1 DEF StoredInOrder
  <2>4. InStep'
    BY <1>1, <1>3, <1>5, <2>1 DEF InStep, AllStored, Wrong
  <2> QED
    BY <1>2, <1>4, <2>2, <2>3, <2>4 DEF ConvertInv
<1>6. CASE disk_failed' = TRUE /\ UNCHANGED output
  <2>1. ConvertTyped'
    BY <1>1, <1>6 DEF ConvertTyped
  <2>2. StoredInOrder'
    BY <1>1, <1>3, <1>6 DEF StoredInOrder
  <2>3. InStep'
    BY <1>1, <1>3, <1>6 DEF InStep, Wrong, AllStored
  <2> QED
    BY <1>2, <1>4, <2>1, <2>2, <2>3 DEF ConvertInv
<1> QED
  BY <1>1, <1>5, <1>6

\* No step at all.
LEMMA ConvertStutters ==
    ASSUME ConvertInv, UNCHANGED convertVars
    PROVE  ConvertInv'
<1>1. /\ ConvertTyped /\ ImportInv /\ Fresh /\ StoredInOrder /\ InStep
      /\ UNCHANGED importVars /\ UNCHANGED <<step, output, disk_failed>>
  BY DEF ConvertInv, convertVars
<1>2. ImportInv'
  BY <1>1, ImportUnchanged
<1>3. UNCHANGED <<file, position, pending, eof_reached, buffer, ipc, broken, delivered>>
  BY <1>1 DEF importVars, readerVars
<1>4. ConvertTyped' /\ StoredInOrder'
  BY <1>1, <1>3 DEF ConvertTyped, StoredInOrder
<1>5. Fresh' /\ InStep'
  BY <1>1, <1>3 DEF Fresh, ReaderInit, InStep, Wrong, AllStored
<1> QED
  BY <1>2, <1>4, <1>5 DEF ConvertInv

\* The first state.
LEMMA ConvertStarts ==
    ASSUME ConvertInit
    PROVE  ConvertInv
<1>1. /\ file = <<>> /\ ReaderInit /\ step = "schema" /\ disk_failed = FALSE
      /\ output = [state |-> "old", row_groups |-> <<>>]
  BY DEF ConvertInit
<1>2. <<>> \in Seq(STRING) /\ <<>> \in Seq(RowGroups) /\ Len(<<>>) = 0
  OBVIOUS
<1>3. ImportInv
  BY <1>1, <1>2, FreshImport
<1>4. output.state = "old" /\ output.row_groups = <<>> /\ delivered = <<>>
  BY <1>1 DEF ReaderInit
<1>5. ConvertTyped
  BY <1>1, <1>2 DEF ConvertTyped
<1>6. Fresh /\ InStep
  BY <1>1, <1>4 DEF Fresh, InStep
<1>7. StoredInOrder
  BY <1>2, <1>4 DEF StoredInOrder
<1> QED
  BY <1>3, <1>5, <1>6, <1>7 DEF ConvertInv

\* The inductive invariant of the conversion.
THEOREM ConvertInvariant == ConvertSpec => []ConvertInv
<1>1. ConvertInit => ConvertInv
  BY ConvertStarts
<1>2. ConvertInv /\ [ConvertNext]_convertVars => ConvertInv'
  BY LoadSchemaKeeps, OpenOutputKeeps, OpenInputKeeps, ImportOneKeeps, WriteBatchKeeps,
     ImportEndsKeeps, FinalizeKeeps, UnwindKeeps, ConvertStutters
  DEF ConvertNext, ConvertStep
<1> QED
  BY <1>1, <1>2, PTL DEF ConvertSpec

-----------------------------------------------------------------------------
(* What the conversion promises.                                             *)

\* The columns of the row groups are those of the batches, once all of these
\* are stored.
LEMMA StoredIsJoined ==
    ASSUME ConvertInv, AllStored
    PROVE  Stored = Joined(delivered)
<1> DEFINE rgs == output.row_groups
<1>1. /\ rgs \in Seq(RowGroups) /\ delivered \in Seq(Batches)
      /\ \A g \in 1 .. Len(rgs) : rgs[g] = RowGroup(delivered[g])
      /\ Len(rgs) = Len(delivered)
  BY DEF ConvertInv, ConvertTyped, ImportInv, ReaderTyped, StoredInOrder, AllStored
<1>2. DOMAIN rgs = 1 .. Len(rgs) /\ DOMAIN delivered = 1 .. Len(rgs)
  BY <1>1
<1> HIDE DEF rgs
<1>3. \A g \in 1 .. Len(rgs) : rgs[g].columns = delivered[g]
  <2>1. \A batch : RowGroup(batch).columns = batch
    BY DEF RowGroup
  <2> QED
    BY <1>1, <2>1
<1>4. ASSUME NEW c \in Columns
      PROVE  [g \in DOMAIN rgs |-> rgs[g].columns[c]]
               = [k \in DOMAIN delivered |-> delivered[k][c]]
  BY <1>2, <1>3
<1> QED
  BY <1>4 DEF Stored, Joined, rgs

\* Each state's promises.
LEMMA SealedHolds ==
    ASSUME ConvertInv
    PROVE  SealedIsFirstRows
<1>1. SUFFICES ASSUME output.state = "sealed"
               PROVE  \E cut \in Marks(file) :
                          /\ FirstRows(file, cut).thrown = FALSE
                          /\ Stored = BatchOf(FirstRows(file, cut).cells)
  BY DEF SealedIsFirstRows, Marks, Starts, FirstRows
<1>2. InStep /\ InPlace /\ Failed
  BY DEF ConvertInv, ImportInv
<1>3. Stored = Joined(delivered)
  BY <1>1, <1>2, StoredIsJoined DEF InStep
<1>4. \E cut \in Marks(file) : DeliveredTo(cut)
  BY <1>2 DEF InPlace, Failed
<1> QED
  BY <1>3, <1>4 DEF DeliveredTo

\* With it, the end of the import is the end of the file.
LEMMA WholeHolds ==
    ASSUME ConvertInv
    PROVE  ConvertedIsWhole
<1>1. InStep /\ InPlace /\ Done /\ file \in Seq(STRING)
  BY DEF ConvertInv, ImportInv, ReaderTyped
<1>2. ASSUME step = "ok", ~disk_failed
      PROVE  /\ output.state = "sealed"
             /\ ParseBuffer(file).thrown = FALSE
             /\ Stored = BatchOf(ParseBuffer(file).cells)
  <2>1. AllStored /\ ipc = "done" /\ output.state = "sealed"
    BY <1>1, <1>2 DEF InStep
  <2>2. Stored = Joined(delivered)
    BY <2>1, StoredIsJoined
  <2>3. buffer = <<>> /\ pending = <<>> /\ position = Len(file) /\ DeliveredTo(Passed)
    BY <1>1, <2>1 DEF Done, InPlace
  <2>4. Len(file) \in Nat /\ Len(<<>>) = 0
    BY <1>1
  <2>5. Passed = Len(file)
    BY <2>3, <2>4 DEF Passed
  <2>6. FirstRows(file, Passed) = ParseBuffer(file)
    BY <1>1, <2>5, AllRows
  <2> QED
    BY <2>1, <2>2, <2>3, <2>6 DEF DeliveredTo
<1>3. ASSUME step = "failed", output.state # "old"
      PROVE  disk_failed = TRUE \/ broken = TRUE \/ ParseBuffer(file).thrown = TRUE
  BY <1>1, <1>3 DEF InStep, Wrong
<1> QED
  BY <1>2, <1>3 DEF ConvertedIsWhole

\* And a batch has the columns of the schema.
LEMMA ImportTyped ==
    ASSUME ConvertInv
    PROVE  ImportTypeOK
<1>1. ReaderTyped
  BY DEF ConvertInv, ImportInv
<1>2. \A k \in DOMAIN delivered : delivered[k] \in Batches
  BY <1>1 DEF ReaderTyped
<1> QED
  BY <1>1, <1>2 DEF ImportTypeOK, ReaderTyped, Batches

\* What the reader holds of a file is typed, and every batch has one column
\* per column of the schema.
THEOREM ImportAlwaysTyped == ConvertSpec => []ImportTypeOK
BY ConvertInvariant, ImportTyped, PTL

\* The file is never held as a whole: a buffer outgrows a block by less than
\* one row, and less than a block is kept for the next call
\* (csv_batch_reader.cpp:60).
THEOREM BufferStaysBounded == ConvertSpec => []BufferBounded
<1>1. ConvertInv => BufferBounded
  BY DEF ConvertInv, ImportInv
<1> QED
  BY <1>1, ConvertInvariant, PTL

\* What the destructor of the writer seals after an exception is the table of
\* the first rows of the file, wherever the conversion stopped.
THEOREM SealedAlwaysFirstRows == ConvertSpec => []SealedIsFirstRows
BY ConvertInvariant, SealedHolds, PTL

\* Blocks leave no trace: a conversion that returns 0 has sealed what one
\* parse of the whole file gives, whatever the size of a block, and one that
\* fails after it has truncated the output had a reason to.
THEOREM ConvertedAlwaysWhole == ConvertSpec => []ConvertedIsWhole
BY ConvertInvariant, WholeHolds, PTL

-----------------------------------------------------------------------------
(* The row parser beside the parser of batches.                              *)

Rows == Seq(Seq(Seq(STRING)))

\* A state of the row parser is its four fields.
LEMMA RowFields ==
    ASSUME NEW r \in RowState
    PROVE  /\ r.rows \in Rows /\ r.row \in Seq(Seq(STRING)) /\ r.elem \in Seq(STRING)
           /\ r.open \in BOOLEAN
BY DEF RowState, Rows

\* The row parser starts in one of its states.
LEMMA RowStartTyped ==
    /\ RowStart \in RowState
    /\ RowStart.rows = <<>> /\ RowStart.row = <<>> /\ RowStart.elem = <<>>
    /\ RowStart.open = FALSE
<1>1. <<>> \in Rows /\ <<>> \in Seq(Seq(STRING)) /\ <<>> \in Seq(STRING)
  BY DEF Rows
<1> QED
  BY <1>1 DEF RowStart, RowState, Rows

\* The states after a row, a value, a character and a quote.
RowEnded(r) == [RowStart EXCEPT !.rows = Append(r.rows, Append(r.row, DropCR(r.elem)))]

ElemEnded(r) == [r EXCEPT !.row = Append(@, r.elem), !.elem = <<>>, !.open = TRUE]

ElemTaken(r, char) == [r EXCEPT !.elem = Append(@, char), !.open = TRUE]

RowOpened(r) == [r EXCEPT !.open = TRUE]

\* The branches of its loop.
LEMMA RowTurnIs ==
    ASSUME NEW text, NEW i, NEW q, NEW r \in RowState
    PROVE  RowStep(text, i, q)[r] =
               IF q.jump THEN r
               ELSE IF text[i] = Quote THEN
                   IF Doubled(text, i, q.in_quote) THEN ElemTaken(r, Quote) ELSE RowOpened(r)
               ELSE IF text[i] = Comma /\ ~q.in_quote THEN ElemEnded(r)
               ELSE IF text[i] = Newline /\ ~q.in_quote THEN RowEnded(r)
               ELSE ElemTaken(r, text[i])
BY DEF RowStep, ElemTaken, RowOpened, ElemEnded, RowEnded

\* What each branch leads to.
LEMMA RowEndedIs ==
    ASSUME NEW r \in RowState
    PROVE  /\ RowEnded(r) \in RowState
           /\ RowEnded(r).rows = Append(r.rows, Append(r.row, DropCR(r.elem)))
           /\ RowEnded(r).row = <<>> /\ RowEnded(r).elem = <<>> /\ RowEnded(r).open = FALSE
<1> DEFINE last == Append(r.row, DropCR(r.elem))
           all == Append(r.rows, last)
<1>1. DropCR(r.elem) \in Seq(STRING)
  BY RowFields, DropCRTyped
<1>2. last \in Seq(Seq(STRING))
  BY <1>1, RowFields
<1> HIDE DEF last
<1>3. all \in Seq(Seq(Seq(STRING)))
  BY <1>2, RowFields DEF Rows
<1>4. RowEnded(r) = [RowStart EXCEPT !.rows = all]
  BY DEF RowEnded, last
<1> HIDE DEF all
<1> QED
  BY <1>3, <1>4, RowStartTyped DEF RowState, all, last

\* A value more.
LEMMA ElemEndedIs ==
    ASSUME NEW r \in RowState
    PROVE  /\ ElemEnded(r) \in RowState /\ ElemEnded(r).rows = r.rows
           /\ ElemEnded(r).row = Append(r.row, r.elem)
           /\ ElemEnded(r).elem = <<>> /\ ElemEnded(r).open = TRUE
<1> DEFINE more == Append(r.row, r.elem)
<1>1. more \in Seq(Seq(STRING)) /\ <<>> \in Seq(STRING)
  BY RowFields
<1>2. ElemEnded(r) = [r EXCEPT !.row = more, !.elem = <<>>, !.open = TRUE]
  BY DEF ElemEnded
<1> HIDE DEF more
<1> QED
  BY <1>1, <1>2 DEF RowState, more

\* A character more.
LEMMA ElemTakenIs ==
    ASSUME NEW r \in RowState, NEW char \in STRING
    PROVE  /\ ElemTaken(r, char) \in RowState /\ ElemTaken(r, char).rows = r.rows
           /\ ElemTaken(r, char).row = r.row
           /\ ElemTaken(r, char).elem = Append(r.elem, char)
           /\ ElemTaken(r, char).open = TRUE
<1> DEFINE more == Append(r.elem, char)
<1>1. more \in Seq(STRING)
  BY RowFields
<1>2. ElemTaken(r, char) = [r EXCEPT !.elem = more, !.open = TRUE]
  BY DEF ElemTaken
<1> HIDE DEF more
<1> QED
  BY <1>1, <1>2 DEF RowState, more

\* A quote.
LEMMA RowOpenedIs ==
    ASSUME NEW r \in RowState
    PROVE  /\ RowOpened(r) \in RowState /\ RowOpened(r).rows = r.rows
           /\ RowOpened(r).row = r.row /\ RowOpened(r).elem = r.elem
           /\ RowOpened(r).open = TRUE
BY DEF RowOpened, RowState

\* A turn of the row parser stays among its states.
LEMMA RowTurn ==
    ASSUME NEW text \in Seq(STRING), NEW i \in 1 .. Len(text), NEW q
    PROVE  RowStep(text, i, q) \in [RowState -> RowState]
<1>1. text[i] \in STRING
  OBVIOUS
<1>2. ASSUME NEW r \in RowState PROVE RowStep(text, i, q)[r] \in RowState
  <2>1. /\ RowEnded(r) \in RowState /\ ElemEnded(r) \in RowState
        /\ ElemTaken(r, text[i]) \in RowState /\ RowOpened(r) \in RowState
    BY <1>1, RowEndedIs, ElemEndedIs, ElemTakenIs, RowOpenedIs
  <2> QED
    BY <2>1, RowTurnIs
<1>3. RowStep(text, i, q) = [r \in RowState |-> RowStep(text, i, q)[r]]
  BY DEF RowStep
<1> QED
  BY <1>2, <1>3

\* RowStates is the loop of its turns.
LEMMA RowLoop ==
    ASSUME NEW text \in Seq(STRING)
    PROVE  IsLoop(RowStates(text), Len(text), RowState, RowStart,
                  [i \in 1 .. Len(text) |-> RowStep(text, i, QuoteStates(text)[i - 1])])
<1> DEFINE n == Len(text)
           turn == [i \in 1 .. n |-> RowStep(text, i, QuoteStates(text)[i - 1])]
           h == RowStates(text)
<1>1. n \in Nat /\ RowStart \in RowState
  BY RowStartTyped
<1>2. turn \in [1 .. n -> [RowState -> RowState]]
  BY RowTurn
<1>3. h = CHOOSE g : g = [i \in 0 .. n |->
              IF i = 0 THEN RowStart
              ELSE RowStep(text, i, QuoteStates(text)[i - 1])[g[i - 1]]]
  BY DEF RowStates
<1>4. h = CHOOSE g : g = [i \in 0 .. n |->
                             IF i = 0 THEN RowStart ELSE turn[i][g[i - 1]]]
  <2>1. ASSUME NEW g, NEW i \in 0 .. n
        PROVE  (IF i = 0 THEN RowStart
                ELSE RowStep(text, i, QuoteStates(text)[i - 1])[g[i - 1]])
                   = IF i = 0 THEN RowStart ELSE turn[i][g[i - 1]]
    BY <1>1
  <2>2. \A g : [i \in 0 .. n |->
                   IF i = 0 THEN RowStart
                   ELSE RowStep(text, i, QuoteStates(text)[i - 1])[g[i - 1]]]
               = [i \in 0 .. n |-> IF i = 0 THEN RowStart ELSE turn[i][g[i - 1]]]
    BY <2>1
  <2> HIDE DEF turn, h
  <2> QED
    BY <1>3, <2>2
<1> HIDE DEF turn, h, n
<1>5. IsLoop(h, n, RowState, RowStart, turn)
  BY <1>1, <1>2, <1>4, LoopChosen
<1> QED
  BY <1>5 DEF turn, h, n

\* One turn of the row parser.
LEMMA RowsAre ==
    ASSUME NEW text \in Seq(STRING)
    PROVE  /\ RowStates(text) \in [0 .. Len(text) -> RowState]
           /\ RowStates(text)[0] = RowStart
           /\ \A i \in 1 .. Len(text) :
                  RowStates(text)[i] =
                      RowStep(text, i, QuoteStates(text)[i - 1])[RowStates(text)[i - 1]]
BY RowLoop DEF IsLoop

\* The cells of one row.
CellsOfRow(row) == [c \in DOMAIN row |-> <<c, row[c]>>]

\* One value more is one cell more.
LEMMA CellsOfRowGrow ==
    ASSUME NEW row \in Seq(Seq(STRING)), NEW elem \in Seq(STRING)
    PROVE  /\ CellsOfRow(row) \in Seq(CellOf)
           /\ <<Len(row) + 1, elem>> \in CellOf
           /\ CellsOfRow(Append(row, elem)) =
                  Append(CellsOfRow(row), <<Len(row) + 1, elem>>)
<1> DEFINE n == Len(row)
           more == Append(row, elem)
           cell == <<n + 1, elem>>
           s == CellsOfRow(row)
           t == CellsOfRow(more)
           u == Append(s, cell)
<1>1. /\ n \in Nat /\ more \in Seq(Seq(STRING)) /\ Len(more) = n + 1
      /\ DOMAIN row = 1 .. n /\ DOMAIN more = 1 .. n + 1
      /\ more[n + 1] = elem /\ \A c \in 1 .. n : more[c] = row[c] /\ row[c] \in Seq(STRING)
  OBVIOUS
<1>2. cell \in CellOf
  BY <1>1 DEF CellOf
<1> HIDE DEF n, more
<1>3. s = [c \in 1 .. n |-> <<c, row[c]>>] /\ t = [c \in 1 .. n + 1 |-> <<c, more[c]>>]
  BY <1>1 DEF CellsOfRow
<1>4. \A c \in 1 .. n : <<c, row[c]>> \in CellOf
  BY <1>1 DEF CellOf
<1>5. s \in Seq(CellOf) /\ Len(s) = n
  BY <1>1, <1>3, <1>4
<1>6. \A c \in 1 .. n + 1 : <<c, more[c]>> \in CellOf
  BY <1>1 DEF CellOf
<1>7. t \in Seq(CellOf) /\ Len(t) = n + 1
  BY <1>1, <1>3, <1>6
<1> HIDE DEF s, t
<1>8. u \in Seq(CellOf) /\ Len(u) = n + 1 /\ u[n + 1] = cell /\ \A c \in 1 .. n : u[c] = s[c]
  <2>1. \A S : \A v \in Seq(S), x \in S :
            /\ Append(v, x) \in Seq(S) /\ Len(Append(v, x)) = Len(v) + 1
            /\ Append(v, x)[Len(v) + 1] = x
            /\ \A c \in 1 .. Len(v) : Append(v, x)[c] = v[c]
    OBVIOUS
  <2> HIDE DEF cell
  <2> QED
    BY <1>2, <1>5, <2>1
<1>9. \A c \in 1 .. n + 1 : t[c] = u[c]
  <2>1. \A c \in 1 .. n : t[c] = <<c, row[c]>> /\ s[c] = <<c, row[c]>>
    BY <1>1, <1>3
  <2>2. t[n + 1] = cell
    BY <1>1, <1>3
  <2>3. \A c \in 1 .. n + 1 : c \in 1 .. n \/ c = n + 1
    BY <1>1
  <2> HIDE DEF u, cell
  <2> QED
    BY <1>8, <2>1, <2>2, <2>3
<1> HIDE DEF u
<1>10. t = u
  BY <1>1, <1>7, <1>8, <1>9, SeqEqual
<1> QED
  BY <1>2, <1>5, <1>10 DEF n, more, s, t, u

\* No row has no cells.
LEMMA CellsOfNoRow == CellsOfRow(<<>>) = <<>> /\ CellsOfRows(<<>>) = <<>>
<1>1. CellsOfRow(<<>>) = <<>>
  BY DEF CellsOfRow
<1>2. [r \in DOMAIN <<>> |-> [c \in DOMAIN <<>>[r] |-> <<c, <<>>[r][c]>>]] = <<>>
  OBVIOUS
<1>3. FlattenSeq(<<>>) = <<>>
  BY DEF FlattenSeq
<1> QED
  BY <1>1, <1>2, <1>3 DEF CellsOfRows

\* One row more.
LEMMA CellsOfRowsGrow ==
    ASSUME NEW rows \in Rows, NEW row \in Seq(Seq(STRING))
    PROVE  /\ CellsOfRows(rows) \in Seq(CellOf)
           /\ CellsOfRows(Append(rows, row)) = CellsOfRows(rows) \o CellsOfRow(row)
<1> DEFINE n == Len(rows)
           more == Append(rows, row)
           s == [r \in DOMAIN rows |-> CellsOfRow(rows[r])]
           t == [r \in DOMAIN more |-> CellsOfRow(more[r])]
           u == Append(s, CellsOfRow(row))
<1>1. /\ n \in Nat /\ Len(more) = n + 1
      /\ DOMAIN rows = 1 .. n /\ DOMAIN more = 1 .. n + 1
      /\ more[n + 1] = row
      /\ \A r \in 1 .. n : more[r] = rows[r] /\ rows[r] \in Seq(Seq(STRING))
  BY DEF Rows
<1>2. CellsOfRows(rows) = FlattenSeq(s) /\ CellsOfRows(more) = FlattenSeq(t)
  BY DEF CellsOfRows, CellsOfRow
<1> HIDE DEF n, more
<1>3. \A any \in Seq(Seq(STRING)) : CellsOfRow(any) \in Seq(CellOf)
  <2>1. <<>> \in Seq(STRING)
    OBVIOUS
  <2> QED
    BY <2>1, CellsOfRowGrow
<1>4. s \in Seq(Seq(CellOf)) /\ Len(s) = n /\ \A r \in 1 .. n : s[r] = CellsOfRow(rows[r])
  BY <1>1, <1>3
<1>5. t \in Seq(Seq(CellOf)) /\ Len(t) = n + 1
      /\ \A r \in 1 .. n + 1 : t[r] = CellsOfRow(more[r])
  <2>1. \A r \in 1 .. n + 1 : more[r] \in Seq(Seq(STRING))
    <3>1. \A r \in 1 .. n + 1 : r \in 1 .. n \/ r = n + 1
      BY <1>1
    <3> QED
      BY <1>1, <3>1
  <2>2. \A r \in 1 .. n + 1 : CellsOfRow(more[r]) \in Seq(CellOf)
    BY <1>3, <2>1
  <2> QED
    BY <1>1, <2>2
<1> DEFINE last == CellsOfRow(row)
<1>6. last \in Seq(CellOf)
  BY <1>3
<1> HIDE DEF s, t, last
<1>7. u \in Seq(Seq(CellOf)) /\ Len(u) = n + 1 /\ u[n + 1] = last
      /\ \A r \in 1 .. n : u[r] = s[r]
  BY <1>1, <1>4, <1>6 DEF last
<1> HIDE DEF u
<1>8. \A r \in 1 .. n + 1 : t[r] = u[r]
  <2>1. \A r \in 1 .. n + 1 : r \in 1 .. n \/ r = n + 1
    BY <1>1
  <2>2. t[n + 1] = last
    BY <1>1, <1>5 DEF last
  <2>3. \A r \in 1 .. n : t[r] = s[r]
    BY <1>1, <1>4, <1>5
  <2> QED
    BY <1>7, <2>1, <2>2, <2>3
<1>9. t = u
  BY <1>1, <1>5, <1>7, <1>8, SeqEqual
<1>10. FlattenSeq(s) \in Seq(CellOf) /\ FlattenSeq(Append(s, last)) = FlattenSeq(s) \o last
  BY <1>4, <1>6, FlattenAppend
<1> QED
  BY <1>2, <1>9, <1>10 DEF more, u, last

\* What the branches of the parser of batches leave, where nothing was thrown.
LEMMA FieldTaken ==
    ASSUME NEW p \in ParseState, p.thrown = FALSE, NEW field \in Seq(STRING),
           AppendField(p, field).thrown = FALSE
    PROVE  /\ AppendField(p, field).cells = Append(p.cells, <<p.col, field>>)
           /\ AppendField(p, field).field = <<>> /\ AppendField(p, field).col = p.col
           /\ AppendField(p, field).row_started = p.row_started
<1> DEFINE all == Append(p.cells, <<p.col, field>>)
<1>1. ~FieldRejected(p.col, field)
  <2> SUFFICES ASSUME FieldRejected(p.col, field) PROVE FALSE
    OBVIOUS
  <2>1. AppendField(p, field) = [p EXCEPT !.thrown = TRUE]
    BY DEF AppendField
  <2> QED
    BY <2>1 DEF ParseState
<1>2. AppendField(p, field) = [p EXCEPT !.cells = all, !.field = <<>>]
  BY <1>1 DEF AppendField
<1> HIDE DEF all
<1> QED
  BY <1>2 DEF ParseState, all

\* The end of a row.
LEMMA EndOfRowLeaves ==
    ASSUME NEW p \in ParseState, p.thrown = FALSE, EndOfRow(p).thrown = FALSE
    PROVE  /\ EndOfRow(p).cells = Append(p.cells, <<p.col, DropCR(p.field)>>)
           /\ EndOfRow(p).field = <<>> /\ EndOfRow(p).col = 1
           /\ EndOfRow(p).row_started = FALSE
<1> DEFINE field == DropCR(p.field)
           r == AppendField(p, field)
<1>1. field \in Seq(STRING) /\ r \in ParseState
  BY AppendFieldTyped, DropCRTyped, ParseFields
<1>2. EndOfRow(p) = [r EXCEPT !.col = 1, !.row_started = FALSE]
  BY DEF EndOfRow
<1> HIDE DEF r, field
<1>3. /\ EndOfRow(p).col = 1 /\ EndOfRow(p).row_started = FALSE
      /\ EndOfRow(p).field = r.field /\ EndOfRow(p).thrown = r.thrown
      /\ EndOfRow(p).cells = r.cells
  BY <1>1, <1>2 DEF ParseState
<1>4. r.cells = Append(p.cells, <<p.col, field>>) /\ r.field = <<>>
  BY <1>1, <1>3, FieldTaken DEF r
<1> QED
  BY <1>3, <1>4 DEF field

\* The end of a field.
LEMMA EndOfFieldLeaves ==
    ASSUME NEW p \in ParseState, p.thrown = FALSE, EndOfField(p).thrown = FALSE
    PROVE  /\ EndOfField(p).cells = Append(p.cells, <<p.col, p.field>>)
           /\ EndOfField(p).field = <<>> /\ EndOfField(p).col = p.col + 1
           /\ EndOfField(p).row_started = TRUE
<1> DEFINE r == AppendField(p, p.field)
<1>1. p.field \in Seq(STRING) /\ r \in ParseState
  BY AppendFieldTyped, ParseFields
<1>2. EndOfField(p) = [r EXCEPT !.col = @ + 1, !.row_started = TRUE]
  BY DEF EndOfField
<1> HIDE DEF r
<1>3. /\ EndOfField(p).col = r.col + 1 /\ EndOfField(p).row_started = TRUE
      /\ EndOfField(p).field = r.field /\ EndOfField(p).thrown = r.thrown
      /\ EndOfField(p).cells = r.cells
  BY <1>1, <1>2 DEF ParseState
<1>4. r.cells = Append(p.cells, <<p.col, p.field>>) /\ r.field = <<>> /\ r.col = p.col
  BY <1>1, <1>3, FieldTaken DEF r
<1> QED
  BY <1>3, <1>4

\* A character.
LEMMA TakenLeaves ==
    ASSUME NEW p \in ParseState, NEW char \in STRING
    PROVE  /\ Taken(p, char).cells = p.cells /\ Taken(p, char).field = Append(p.field, char)
           /\ Taken(p, char).col = p.col /\ Taken(p, char).row_started = TRUE
           /\ Taken(p, char).thrown = p.thrown
<1> DEFINE more == Append(p.field, char)
<1>1. Taken(p, char) = [p EXCEPT !.field = more, !.row_started = TRUE]
  BY DEF Taken
<1> HIDE DEF more
<1> QED
  BY <1>1 DEF ParseState, more

\* A quote.
LEMMA OpenedLeaves ==
    ASSUME NEW p \in ParseState
    PROVE  /\ Opened(p).cells = p.cells /\ Opened(p).field = p.field
           /\ Opened(p).col = p.col /\ Opened(p).row_started = TRUE
           /\ Opened(p).thrown = p.thrown
BY DEF Opened, ParseState

\* The two parsers are in step: the cells are those of the rows and of the
\* row begun, and the rest is the same.
Parallel(p, r) ==
    /\ p.cells = CellsOfRows(r.rows) \o CellsOfRow(r.row)
    /\ p.field = r.elem /\ p.col = Len(r.row) + 1 /\ p.row_started = r.open
    /\ r.open = FALSE => r.row = <<>> /\ r.elem = <<>>

\* They start in step.
LEMMA ParallelAtStart == Parallel(ParseStart, RowStart)
<1>1. Len(<<>>) + 1 = 1 /\ <<>> \o <<>> = <<>>
  OBVIOUS
<1>2. /\ ParseStart.cells = <<>> /\ ParseStart.field = <<>> /\ ParseStart.col = 1
      /\ ParseStart.row_started = FALSE
  BY DEF ParseStart
<1>3. /\ RowStart.rows = <<>> /\ RowStart.row = <<>> /\ RowStart.elem = <<>>
      /\ RowStart.open = FALSE
  BY RowStartTyped
<1>4. CellsOfRows(RowStart.rows) = <<>> /\ CellsOfRow(RowStart.row) = <<>>
  BY <1>3, CellsOfNoRow
<1>5. /\ ParseStart.cells = CellsOfRows(RowStart.rows) \o CellsOfRow(RowStart.row)
      /\ ParseStart.col = Len(RowStart.row) + 1
  BY <1>1, <1>2, <1>3, <1>4
<1> QED
  BY <1>2, <1>3, <1>5 DEF Parallel

\* And every branch keeps them in step.
LEMMA ParallelCells ==
    ASSUME NEW r \in RowState, NEW elem \in Seq(STRING)
    PROVE  /\ CellsOfRows(r.rows) \in Seq(CellOf) /\ CellsOfRow(r.row) \in Seq(CellOf)
           /\ Append(CellsOfRows(r.rows) \o CellsOfRow(r.row), <<Len(r.row) + 1, elem>>)
                  = CellsOfRows(r.rows) \o CellsOfRow(Append(r.row, elem))
<1> DEFINE rows == r.rows
           row == r.row
           cell == <<Len(row) + 1, elem>>
           s == CellsOfRows(rows)
           t == CellsOfRow(row)
<1>1. rows \in Rows /\ row \in Seq(Seq(STRING))
  BY RowFields
<1> HIDE DEF rows, row
<1>2. s \in Seq(CellOf)
  BY <1>1, CellsOfRowsGrow
<1>3. t \in Seq(CellOf) /\ cell \in CellOf /\ CellsOfRow(Append(row, elem)) = Append(t, cell)
  BY <1>1, CellsOfRowGrow
<1> HIDE DEF cell, s, t
<1>4. Append(s \o t, cell) = s \o Append(t, cell)
  BY <1>2, <1>3, AppendBehindCells
<1> QED
  BY <1>2, <1>3, <1>4 DEF rows, row, cell, s, t

\* At the end of a field.
LEMMA ParallelEndOfField ==
    ASSUME NEW p \in ParseState, p.thrown = FALSE, NEW r \in RowState, Parallel(p, r),
           EndOfField(p).thrown = FALSE
    PROVE  Parallel(EndOfField(p), ElemEnded(r))
<1>1. /\ p.cells = CellsOfRows(r.rows) \o CellsOfRow(r.row)
      /\ p.field = r.elem /\ p.col = Len(r.row) + 1
      /\ r.elem \in Seq(STRING) /\ r.row \in Seq(Seq(STRING))
  BY RowFields DEF Parallel
<1>2. /\ EndOfField(p).cells = Append(p.cells, <<p.col, p.field>>)
      /\ EndOfField(p).field = <<>> /\ EndOfField(p).col = p.col + 1
      /\ EndOfField(p).row_started = TRUE
  BY EndOfFieldLeaves
<1>3. /\ ElemEnded(r).rows = r.rows /\ ElemEnded(r).row = Append(r.row, r.elem)
      /\ ElemEnded(r).elem = <<>> /\ ElemEnded(r).open = TRUE
  BY ElemEndedIs
<1>4. Append(CellsOfRows(r.rows) \o CellsOfRow(r.row), <<Len(r.row) + 1, r.elem>>)
          = CellsOfRows(r.rows) \o CellsOfRow(Append(r.row, r.elem))
  BY <1>1, ParallelCells
<1>5. Len(Append(r.row, r.elem)) = Len(r.row) + 1
  BY <1>1
<1> QED
  BY <1>1, <1>2, <1>3, <1>4, <1>5 DEF Parallel

\* At the end of a row.
LEMMA ParallelEndOfRow ==
    ASSUME NEW p \in ParseState, p.thrown = FALSE, NEW r \in RowState, Parallel(p, r),
           EndOfRow(p).thrown = FALSE
    PROVE  Parallel(EndOfRow(p), RowEnded(r))
<1> DEFINE last == Append(r.row, DropCR(r.elem))
<1>1. /\ p.cells = CellsOfRows(r.rows) \o CellsOfRow(r.row)
      /\ p.field = r.elem /\ p.col = Len(r.row) + 1
      /\ r.elem \in Seq(STRING) /\ r.row \in Seq(Seq(STRING)) /\ r.rows \in Rows
      /\ DropCR(r.elem) \in Seq(STRING)
  BY RowFields, DropCRTyped DEF Parallel
<1>2. /\ EndOfRow(p).cells = Append(p.cells, <<p.col, DropCR(p.field)>>)
      /\ EndOfRow(p).field = <<>> /\ EndOfRow(p).col = 1
      /\ EndOfRow(p).row_started = FALSE
  BY EndOfRowLeaves
<1>3. /\ RowEnded(r).rows = Append(r.rows, last) /\ RowEnded(r).row = <<>>
      /\ RowEnded(r).elem = <<>> /\ RowEnded(r).open = FALSE
  BY RowEndedIs
<1>4. Append(CellsOfRows(r.rows) \o CellsOfRow(r.row), <<Len(r.row) + 1, DropCR(r.elem)>>)
          = CellsOfRows(r.rows) \o CellsOfRow(last)
  BY <1>1, ParallelCells
<1>5. last \in Seq(Seq(STRING))
  BY <1>1
<1> HIDE DEF last
<1>6. CellsOfRows(Append(r.rows, last)) = CellsOfRows(r.rows) \o CellsOfRow(last)
  BY <1>1, <1>5, CellsOfRowsGrow
<1>7. CellsOfRows(Append(r.rows, last)) \o <<>> = CellsOfRows(Append(r.rows, last))
  <2>1. Append(r.rows, last) \in Rows
    BY <1>1, <1>5 DEF Rows
  <2>2. CellsOfRows(Append(r.rows, last)) \in Seq(CellOf)
    BY <1>5, <2>1, CellsOfRowsGrow
  <2> QED
    BY <2>2, ConcatEmptySeq
<1>8. Len(<<>>) + 1 = 1
  OBVIOUS
<1> QED
  BY <1>1, <1>2, <1>3, <1>4, <1>6, <1>7, <1>8, CellsOfNoRow DEF Parallel

\* At a character or a quote.
LEMMA ParallelOthers ==
    ASSUME NEW p \in ParseState, NEW r \in RowState, Parallel(p, r), NEW char \in STRING
    PROVE  Parallel(Taken(p, char), ElemTaken(r, char)) /\ Parallel(Opened(p), RowOpened(r))
<1>1. /\ p.cells = CellsOfRows(r.rows) \o CellsOfRow(r.row)
      /\ p.field = r.elem /\ p.col = Len(r.row) + 1
  BY DEF Parallel
<1>2. Parallel(Taken(p, char), ElemTaken(r, char))
  <2> DEFINE u == Taken(p, char)
             v == ElemTaken(r, char)
  <2>1. /\ u.cells = p.cells /\ u.field = Append(p.field, char) /\ u.col = p.col
        /\ u.row_started = TRUE
    BY TakenLeaves
  <2>2. /\ v.rows = r.rows /\ v.row = r.row /\ v.elem = Append(r.elem, char)
        /\ v.open = TRUE
    BY ElemTakenIs
  <2> HIDE DEF u, v
  <2>3. Parallel(u, v)
    BY <1>1, <2>1, <2>2 DEF Parallel
  <2> QED
    BY <2>3 DEF u, v
<1>3. Parallel(Opened(p), RowOpened(r))
  <2> DEFINE u == Opened(p)
             v == RowOpened(r)
  <2>1. /\ u.cells = p.cells /\ u.field = p.field /\ u.col = p.col
        /\ u.row_started = TRUE
    BY OpenedLeaves
  <2>2. v.rows = r.rows /\ v.row = r.row /\ v.elem = r.elem /\ v.open = TRUE
    BY RowOpenedIs
  <2> HIDE DEF u, v
  <2>3. Parallel(u, v)
    BY <1>1, <2>1, <2>2 DEF Parallel
  <2> QED
    BY <2>3 DEF u, v
<1> QED
  BY <1>2, <1>3

\* As long as nothing is thrown.
LEMMA ParallelTurn ==
    ASSUME NEW text \in Seq(STRING), NEW i \in 1 .. Len(text), NEW q \in QuoteState,
           NEW p \in ParseState, p.thrown = FALSE, NEW r \in RowState, Parallel(p, r),
           ParseStep(text, i, q)[p].thrown = FALSE
    PROVE  Parallel(ParseStep(text, i, q)[p], RowStep(text, i, q)[r])
<1>1. text[i] \in STRING
  OBVIOUS
<1>2. CASE q.jump
  BY <1>2, ParseTurnIs, RowTurnIs
<1>3. CASE ~q.jump /\ text[i] = Quote
  <2>1. ParseStep(text, i, q)[p] =
            IF Doubled(text, i, q.in_quote) THEN Taken(p, text[i]) ELSE Opened(p)
    BY <1>3, ParseTurnIs
  <2>2. RowStep(text, i, q)[r] =
            IF Doubled(text, i, q.in_quote) THEN ElemTaken(r, text[i]) ELSE RowOpened(r)
    BY <1>3, RowTurnIs
  <2> QED
    BY <1>1, <2>1, <2>2, ParallelOthers
<1>4. CASE ~q.jump /\ text[i] = Comma /\ ~q.in_quote
  <2>1. ParseStep(text, i, q)[p] = EndOfField(p) /\ RowStep(text, i, q)[r] = ElemEnded(r)
    BY <1>4, ParseTurnIs, RowTurnIs, CharactersDiffer
  <2> QED
    BY <2>1, ParallelEndOfField
<1>5. CASE ~q.jump /\ text[i] = Newline /\ ~q.in_quote
  <2>1. ParseStep(text, i, q)[p] = EndOfRow(p) /\ RowStep(text, i, q)[r] = RowEnded(r)
    BY <1>5, ParseTurnIs, RowTurnIs, CharactersDiffer
  <2> QED
    BY <2>1, ParallelEndOfRow
<1>6. CASE /\ ~q.jump /\ text[i] # Quote
           /\ ~(text[i] = Comma /\ ~q.in_quote) /\ ~(text[i] = Newline /\ ~q.in_quote)
  <2>1. /\ ParseStep(text, i, q)[p] = Taken(p, text[i])
        /\ RowStep(text, i, q)[r] = ElemTaken(r, text[i])
    BY <1>6, ParseTurnIs, RowTurnIs
  <2> QED
    BY <1>1, <2>1, ParallelOthers
<1> QED
  BY <1>2, <1>3, <1>4, <1>5, <1>6

\* Wherever the parser of batches has come to.
LEMMA ParsesParallel ==
    ASSUME NEW text \in Seq(STRING), NEW e \in 0 .. Len(text),
           ParseStates(text)[e].thrown = FALSE
    PROVE  Parallel(ParseStates(text)[e], RowStates(text)[e])
<1> DEFINE T == {k \in 0 .. e : Parallel(ParseStates(text)[k], RowStates(text)[k])}
<1>1. 0 \in T
  <2>1. 0 \in 0 .. e
    OBVIOUS
  <2> QED
    BY <2>1, ParsesAre, RowsAre, ParallelAtStart
<1>2. ASSUME NEW k \in 0 .. e - 1, k \in T PROVE k + 1 \in T
  <2>1. k + 1 \in 1 .. Len(text) /\ (k + 1) - 1 = k /\ k \in 0 .. Len(text)
        /\ k + 1 \in 0 .. e /\ k \in 0 .. e
    OBVIOUS
  <2> DEFINE q == QuoteStates(text)[k]
             p == ParseStates(text)[k]
             r == RowStates(text)[k]
  <2>2. /\ q \in QuoteState /\ p \in ParseState /\ ParseStates(text)[k + 1] \in ParseState
        /\ ParseStates(text)[k + 1] = ParseStep(text, k + 1, q)[p]
    BY <2>1, OneTurn
  <2>3. r \in RowState /\ RowStates(text)[k + 1] = RowStep(text, k + 1, q)[r]
    BY <2>1, RowsAre
  <2>4. p.thrown \in BOOLEAN /\ ParseStates(text)[k + 1].thrown \in BOOLEAN
    BY <2>2, ParseFields
  <2>5. p.thrown # TRUE
    BY <2>1, ThrownStays
  <2>6. ParseStates(text)[k + 1].thrown # TRUE
    BY <2>1, ThrownStays
  <2>7. Parallel(p, r)
    BY <1>2
  <2>8. p.thrown = FALSE
    BY <2>4, <2>5
  <2>9. ParseStates(text)[k + 1].thrown = FALSE
    BY <2>4, <2>6
  <2> HIDE DEF q, p, r
  <2>10. ParseStep(text, k + 1, q)[p].thrown = FALSE
    BY <2>2, <2>9
  <2>11. Parallel(ParseStep(text, k + 1, q)[p], RowStep(text, k + 1, q)[r])
    BY <2>1, <2>2, <2>3, <2>7, <2>8, <2>10, ParallelTurn
  <2> QED
    BY <2>1, <2>2, <2>3, <2>11
<1>3. e \in T
  <2>1. \A k \in 0 .. e - 1 : k \in T => k + 1 \in T
    BY <1>2
  <2>2. Len(text) \in Nat
    OBVIOUS
  <2>3. e \in Nat /\ e \in 0 .. e
    BY <2>2
  <2> HIDE DEF T
  <2>4. 0 .. e \subseteq T
    BY <1>1, <2>1, <2>3, UpTo
  <2> QED
    BY <2>3, <2>4
<1> QED
  BY <1>3

\* The rows of a whole text, its last one read as the parser of batches does.
RowsOf(text) ==
    LET r == RowStates(text)[Len(text)]
    IN  IF r.open = TRUE THEN Append(r.rows, Append(r.row, DropCR(r.elem))) ELSE r.rows

\* The cells of a whole text are those of its rows.
LEMMA WholeCells ==
    ASSUME NEW text \in Seq(STRING), ParseBuffer(text).thrown = FALSE
    PROVE  /\ ParseBuffer(text).cells = CellsOfRows(RowsOf(text))
           /\ RowStates(text)[Len(text)] \in RowState
           /\ RowStates(text)[Len(text)].open = TRUE
                  => text # <<>> /\ Len(text) \notin RowEnds(text)
<1> DEFINE n == Len(text)
           q == QuoteStates(text)[n]
           p == ParseStates(text)[n]
           r == RowStates(text)[n]
           last == DropCR(p.field)
           end == ParseEnd(q)[p]
<1>1. n \in 0 .. Len(text) /\ n \in Nat
  OBVIOUS
<1>2. q \in QuoteState /\ p \in ParseState /\ r \in RowState
  BY <1>1, QuotesAre, ParsesAre, RowsAre
<1>3. end.thrown = FALSE
  BY DEF ParseBuffer
<1>4. last \in Seq(STRING)
  BY <1>2, DropCRTyped, ParseFields
<1>5. q.in_quote # TRUE
  <2> SUFFICES ASSUME q.in_quote = TRUE PROVE FALSE
    OBVIOUS
  <2> HIDE DEF q, p
  <2>1. end = [p EXCEPT !.thrown = TRUE]
    BY <1>2, EndInQuotes
  <2> QED
    BY <1>2, <1>3, <2>1 DEF ParseState
<1>6. p.thrown = FALSE
  <2>1. CASE p.thrown = TRUE
    <3>1. q.in_quote = FALSE
      BY <1>2, <1>5 DEF QuoteState
    <3> HIDE DEF q, p
    <3>2. end = p
      BY <1>2, <2>1, <3>1, EndBetweenRows
    <3> QED
      BY <1>3, <2>1, <3>2
  <2> QED
    BY <1>2, <2>1, ParseFields
<1>7. Parallel(p, r)
  BY <1>1, <1>6, ParsesParallel
<1>8. q.in_quote = FALSE
  BY <1>2, <1>5 DEF QuoteState
<1>9. CASE r.open = FALSE
  <2> HIDE DEF q, p, r
  <2>1. /\ r.row = <<>> /\ p.field = <<>> /\ p.col = Len(<<>>) + 1 /\ p.row_started = FALSE
        /\ p.cells = CellsOfRows(r.rows) \o CellsOfRow(<<>>)
    BY <1>7, <1>9 DEF Parallel
  <2>2. Len(<<>>) + 1 = 1
    OBVIOUS
  <2>3. end = p
    BY <1>2, <1>8, <2>1, <2>2, EndBetweenRows
  <2>4. CellsOfRows(r.rows) \in Seq(CellOf)
    <3>1. <<>> \in Seq(STRING)
      OBVIOUS
    <3> QED
      BY <1>2, <3>1, ParallelCells
  <2>5. p.cells = CellsOfRows(r.rows)
    BY <2>1, <2>4, CellsOfNoRow, ConcatEmptySeq
  <2>6. RowsOf(text) = r.rows
    BY <1>9 DEF RowsOf, r
  <2>7. ParseBuffer(text) = end
    BY DEF ParseBuffer, q, p
  <2> QED
    BY <1>2, <1>9, <2>3, <2>5, <2>6, <2>7 DEF r
<1>10. CASE r.open = TRUE
  <2>1. p.row_started = TRUE /\ p.field = r.elem /\ p.col = Len(r.row) + 1
    BY <1>7, <1>10 DEF Parallel
  <2>2. text # <<>>
    <3> SUFFICES ASSUME n = 0 PROVE FALSE
      OBVIOUS
    <3>1. r = RowStart
      BY RowsAre
    <3> QED
      BY <1>10, <3>1, RowStartTyped
  <2>3. n \notin RowEnds(text)
    <3> SUFFICES ASSUME n \in RowEnds(text) PROVE FALSE
      OBVIOUS
    <3>1. p.row_started = FALSE
      BY <1>6, ParseAtStart DEF Starts
    <3> QED
      BY <2>1, <3>1
  <2> HIDE DEF q, p, r
  <2>4. end = AppendField(p, last)
    BY <1>2, <1>6, <1>8, <2>1, EndInRow
  <2> HIDE DEF last
  <2>5. end.cells = Append(p.cells, <<p.col, last>>)
    BY <1>2, <1>3, <1>4, <1>6, <2>4, FieldTaken
  <2> DEFINE row == Append(r.row, last)
  <2>6. Append(CellsOfRows(r.rows) \o CellsOfRow(r.row), <<Len(r.row) + 1, last>>)
            = CellsOfRows(r.rows) \o CellsOfRow(row)
    BY <1>2, <1>4, ParallelCells
  <2>7. row \in Seq(Seq(STRING)) /\ r.rows \in Rows
    BY <1>2, <1>4, RowFields
  <2> HIDE DEF row
  <2>8. CellsOfRows(Append(r.rows, row)) = CellsOfRows(r.rows) \o CellsOfRow(row)
    BY <2>7, CellsOfRowsGrow
  <2>9. p.cells = CellsOfRows(r.rows) \o CellsOfRow(r.row)
    BY <1>7 DEF Parallel
  <2>10. end.cells = CellsOfRows(Append(r.rows, row))
    BY <2>1, <2>5, <2>6, <2>8, <2>9
  <2>11. RowsOf(text) = Append(r.rows, row)
    BY <1>10, <2>1 DEF RowsOf, r, row, last
  <2>12. ParseBuffer(text) = end
    BY DEF ParseBuffer, q, p
  <2> QED
    BY <1>2, <2>2, <2>3, <2>10, <2>11, <2>12 DEF r, n
<1>11. r.open \in BOOLEAN
  BY <1>2, RowFields
<1> QED
  BY <1>9, <1>10, <1>11

\* A last value that keeps its '\r' in one parser only is all that can differ.
LEMMA ParsersAgreeOn ==
    ASSUME file \in Seq(STRING), ParseBuffer(file).thrown = FALSE,
           ~EndsInBareCR(ParseRows(file))
    PROVE  ParseBuffer(file).cells = CellsOfRows(ParseRows(file))
<1> DEFINE r == RowStates(file)[Len(file)]
           row == Append(r.row, r.elem)
           rows == Append(r.rows, row)
<1>1. /\ ParseBuffer(file).cells = CellsOfRows(RowsOf(file)) /\ r \in RowState
      /\ r.open = TRUE => file # <<>> /\ Len(file) \notin RowEnds(file)
  BY WholeCells
<1>2. r.open \in BOOLEAN /\ r.elem \in Seq(STRING)
  BY <1>1, RowFields
<1>3. CASE r.open = FALSE
  <2>1. ParseRows(file) = r.rows /\ RowsOf(file) = r.rows
    BY <1>3 DEF ParseRows, RowsOf
  <2> QED
    BY <1>1, <2>1
<1>4. CASE r.open = TRUE
  <2>1. ParseRows(file) = rows /\ RowsOf(file) = Append(r.rows, Append(r.row, DropCR(r.elem)))
    BY <1>4 DEF ParseRows, RowsOf
  <2>2. r.row \in Seq(Seq(STRING)) /\ r.rows \in Seq(Seq(Seq(STRING)))
    BY <1>1, RowFields DEF Rows
  <2> HIDE DEF r
  <2>3. Last(row) = r.elem /\ row \in Seq(Seq(STRING))
    BY <1>2, <2>2 DEF Last
  <2> HIDE DEF row
  <2>4. Last(rows) = row
    BY <2>2, <2>3 DEF Last
  <2>5. ~(r.elem # <<>> /\ Last(r.elem) = CR)
    BY <1>1, <1>4, <2>1, <2>3, <2>4 DEF EndsInBareCR
  <2>6. DropCR(r.elem) = r.elem
    BY <2>5 DEF DropCR
  <2> QED
    BY <1>1, <2>1, <2>6 DEF row
<1> QED
  BY <1>2, <1>3, <1>4

\* The two parsers of the project read the same values out of every text,
\* except for a value that ends in '\r' in a last row without newline
\* (csv_row_parser.cpp:13, csv_columnar_reader.cpp:101).
THEOREM ParsersAlwaysAgree == ConvertSpec => []ParsersAgree
<1>1. ConvertInv => ParsersAgree
  <2> SUFFICES ASSUME ConvertInv, ~ParseBuffer(file).thrown, ~EndsInBareCR(ParseRows(file))
               PROVE  ParseBuffer(file).cells = CellsOfRows(ParseRows(file))
    BY DEF ParsersAgree
  <2>1. file \in Seq(STRING)
    BY DEF ConvertInv, ImportInv, ReaderTyped
  <2>2. ParseBuffer(file).thrown = FALSE
    BY <2>1, ParseBufferTyped, ParseFields
  <2> QED
    BY <2>1, <2>2, ParsersAgreeOn
<1> QED
  BY <1>1, ConvertInvariant, PTL

-----------------------------------------------------------------------------
(* Rows that are long enough keep the columns in step.                       *)

NoShort(rows) == \A k \in 1 .. Len(rows) : Len(ColumnTypes) <= Len(rows[k])

\* A row has one cell for every column it reaches.
LEMMA OneCellEach ==
    ASSUME NEW row \in Seq(Seq(STRING)), Len(ColumnTypes) <= Len(row)
    PROVE  \A c \in Columns : Len(BatchOf(CellsOfRow(row))[c]) = 1
<1> DEFINE n == Len(row)
           u(k) == SubSeq(row, 1, k)
           B(k) == BatchOf(CellsOfRow(u(k)))
           T == {k \in 0 .. n : \A c \in Columns : Len(B(k)[c]) = IF c <= k THEN 1 ELSE 0}
<1>1. /\ n \in Nat /\ u(n) = row /\ \A k \in 0 .. n : u(k) \in Seq(Seq(STRING)) /\ Len(u(k)) = k
      /\ \A c \in Columns : c \in Nat /\ c >= 1 /\ c <= n
  <2>1. u(n) = row
    BY SubSeqFull
  <2>2. \A c \in Columns : c \in 1 .. Len(ColumnTypes) /\ Len(ColumnTypes) \in Nat
    BY ColumnTypeAssumption DEF Columns
  <2> QED
    BY <2>1, <2>2
<1>2. 0 \in T
  <2>1. u(0) = <<>> /\ 0 \in 0 .. n
    OBVIOUS
  <2> HIDE DEF u
  <2>2. \A c \in Columns : B(0)[c] = <<>>
    BY <2>1, CellsOfNoRow, BatchOfNone DEF NoBatch
  <2>3. \A c \in Columns : Len(B(0)[c]) = 0 /\ ~(c <= 0)
    BY <1>1, <2>2
  <2> HIDE DEF B
  <2> QED
    BY <2>1, <2>3
<1>3. ASSUME NEW k \in 0 .. n - 1, k \in T PROVE k + 1 \in T
  <2> DEFINE elem == row[k + 1]
             cells == CellsOfRow(u(k))
             cell == <<k + 1, elem>>
             batch == BatchOf(cells)
  <2>1. /\ k \in 0 .. n /\ k + 1 \in 0 .. n /\ k \in Nat /\ elem \in Seq(STRING)
        /\ u(k + 1) = Append(u(k), elem) /\ u(k) \in Seq(Seq(STRING)) /\ Len(u(k)) = k
    BY <1>1
  <2>2. \A c \in Columns : Len(batch[c]) = IF c <= k THEN 1 ELSE 0
    BY <1>3
  <2> HIDE DEF u, elem
  <2>3. /\ cells \in Seq(CellOf) /\ cell \in CellOf
        /\ CellsOfRow(u(k + 1)) = Append(cells, cell)
    BY <2>1, CellsOfRowGrow
  <2> HIDE DEF cells
  <2>4. batch \in Batches /\ B(k + 1) = BatchTurn(cell)[batch]
    BY <2>3, BatchAppend
  <2>5. cell[1] = k + 1
    OBVIOUS
  <2> HIDE DEF batch, B, cell
  <2>6. \A c \in Columns : B(k + 1)[c] =
            IF c = k + 1 THEN Append(batch[c], Value(cell[1], cell[2])) ELSE batch[c]
    BY <2>3, <2>4, <2>5, BatchTurnIs
  <2>7. ASSUME NEW c \in Columns PROVE Len(B(k + 1)[c]) = IF c <= k + 1 THEN 1 ELSE 0
    <3> DEFINE s == batch[c]
               v == Value(cell[1], cell[2])
    <3>1. s \in Seq(Values)
      BY <2>4 DEF Batches
    <3>2. Len(s) = (IF c <= k THEN 1 ELSE 0) /\ c \in Nat
      BY <1>1, <2>2
    <3>3. B(k + 1)[c] = IF c = k + 1 THEN Append(s, v) ELSE s
      BY <2>6
    <3> HIDE DEF s, v
    <3>4. Len(Append(s, v)) = Len(s) + 1
      BY <3>1
    <3>5. CASE c = k + 1
      <4>1. ~(c <= k) /\ c <= k + 1
        BY <2>1, <3>5
      <4>2. Len(s) = 0
        BY <3>2, <4>1
      <4>3. B(k + 1)[c] = Append(s, v)
        BY <3>3, <3>5
      <4>4. Len(B(k + 1)[c]) = 1
        BY <3>4, <4>2, <4>3
      <4> QED
        BY <4>1, <4>4
    <3>6. CASE c # k + 1
      <4>1. c <= k + 1 <=> c <= k
        BY <2>1, <3>2, <3>6
      <4> QED
        BY <3>2, <3>3, <3>6, <4>1
    <3> QED
      BY <3>5, <3>6
  <2> QED
    BY <2>1, <2>7
<1>4. n \in T
  <2>1. \A k \in 0 .. n - 1 : k \in T => k + 1 \in T
    BY <1>3
  <2> HIDE DEF T
  <2>2. 0 .. n \subseteq T
    BY <1>1, <1>2, <2>1, UpTo
  <2>3. n \in 0 .. n
    BY <1>1
  <2> QED
    BY <2>2, <2>3
<1>5. \A c \in Columns : Len(B(n)[c]) = IF c <= n THEN 1 ELSE 0
  BY <1>4
<1>6. B(n) = BatchOf(CellsOfRow(row))
  BY <1>1
<1> HIDE DEF B
<1> QED
  BY <1>1, <1>5, <1>6

\* Rows have one cell each.
LEMMA OneCellPerRow ==
    ASSUME NEW rows \in Rows, NoShort(rows)
    PROVE  /\ CellsOfRows(rows) \in Seq(CellOf)
           /\ \A c \in Columns : Len(BatchOf(CellsOfRows(rows))[c]) = Len(rows)
<1> DEFINE n == Len(rows)
           u(k) == SubSeq(rows, 1, k)
           B(k) == BatchOf(CellsOfRows(u(k)))
           T == {k \in 0 .. n : \A c \in Columns : Len(B(k)[c]) = k}
<1>1. /\ n \in Nat /\ u(n) = rows /\ \A k \in 0 .. n : u(k) \in Rows
  <2>1. rows \in Seq(Seq(Seq(STRING)))
    BY DEF Rows
  <2>2. u(n) = rows
    BY <2>1, SubSeqFull
  <2> QED
    BY <2>1, <2>2 DEF Rows
<1>2. 0 \in T
  <2>1. u(0) = <<>> /\ 0 \in 0 .. n
    BY DEF Rows
  <2> HIDE DEF u
  <2>2. \A c \in Columns : B(0)[c] = <<>>
    BY <2>1, CellsOfNoRow, BatchOfNone DEF NoBatch
  <2>3. \A c \in Columns : Len(B(0)[c]) = 0
    BY <2>2
  <2> HIDE DEF B
  <2> QED
    BY <2>1, <2>3
<1>3. ASSUME NEW k \in 0 .. n - 1, k \in T PROVE k + 1 \in T
  <2> DEFINE row == rows[k + 1]
             s == CellsOfRows(u(k))
             t == CellsOfRow(row)
  <2>1. /\ k \in 0 .. n /\ k + 1 \in 0 .. n /\ k + 1 \in 1 .. n /\ k \in Nat
        /\ row \in Seq(Seq(STRING)) /\ u(k + 1) = Append(u(k), row) /\ u(k) \in Rows
    BY <1>1 DEF Rows
  <2>2. \A c \in Columns : Len(BatchOf(s)[c]) = k
    BY <1>3
  <2>3. Len(ColumnTypes) <= Len(row)
    BY <2>1 DEF NoShort
  <2> HIDE DEF u, row
  <2>4. s \in Seq(CellOf) /\ CellsOfRows(u(k + 1)) = s \o t
    BY <2>1, CellsOfRowsGrow
  <2>5. t \in Seq(CellOf) /\ \A c \in Columns : Len(BatchOf(t)[c]) = 1
    <3>1. <<>> \in Seq(STRING)
      OBVIOUS
    <3> QED
      BY <2>1, <2>3, <3>1, CellsOfRowGrow, OneCellEach
  <2> HIDE DEF s, t
  <2>6. /\ BatchOf(s) \in Batches /\ BatchOf(t) \in Batches
        /\ \A c \in Columns : B(k + 1)[c] = BatchOf(s)[c] \o BatchOf(t)[c]
    BY <2>4, <2>5, BatchOfBoth
  <2> HIDE DEF B
  <2>7. ASSUME NEW c \in Columns PROVE Len(B(k + 1)[c]) = k + 1
    <3> DEFINE v == BatchOf(s)[c]
               w == BatchOf(t)[c]
    <3>1. v \in Seq(Values) /\ w \in Seq(Values) /\ Len(v) = k /\ Len(w) = 1
      BY <2>2, <2>5, <2>6 DEF Batches
    <3>2. B(k + 1)[c] = v \o w
      BY <2>6
    <3> HIDE DEF v, w
    <3>3. Len(v \o w) = Len(v) + Len(w)
      BY <3>1, ConcatProperties
    <3> DEFINE z == B(k + 1)[c]
    <3>4. z = v \o w
      BY <3>2
    <3> HIDE DEF z
    <3>5. Len(z) = k + 1
      BY <2>1, <3>1, <3>3, <3>4
    <3> QED
      BY <3>5 DEF z
  <2> QED
    BY <2>1, <2>7
<1>4. n \in T
  <2>1. \A k \in 0 .. n - 1 : k \in T => k + 1 \in T
    BY <1>3
  <2> HIDE DEF T
  <2>2. 0 .. n \subseteq T
    BY <1>1, <1>2, <2>1, UpTo
  <2>3. n \in 0 .. n
    BY <1>1
  <2> QED
    BY <2>2, <2>3
<1>5. \A c \in Columns : Len(B(n)[c]) = n
  BY <1>4
<1>6. B(n) = BatchOf(CellsOfRows(rows))
  BY <1>1
<1>7. CellsOfRows(rows) \in Seq(CellOf)
  <2>1. <<>> \in Seq(Seq(STRING))
    OBVIOUS
  <2> QED
    BY <2>1, CellsOfRowsGrow
<1> HIDE DEF B
<1> QED
  BY <1>5, <1>6, <1>7

\* Rows only follow rows.
LEMMA RowsBefore ==
    ASSUME NEW text \in Seq(STRING), NEW e \in 0 .. Len(text), NEW b \in 0 .. e,
           NoShort(RowStates(text)[e].rows)
    PROVE  NoShort(RowStates(text)[b].rows)
<1> DEFINE n == e - b
           T == {k \in 0 .. n : NoShort(RowStates(text)[e - k].rows)}
<1>1. ASSUME NEW k \in 0 .. n - 1, k \in T PROVE k + 1 \in T
  <2> DEFINE i == e - k
             q == QuoteStates(text)[i - 1]
             r == RowStates(text)[i - 1]
             last == Append(r.row, DropCR(r.elem))
  <2>1. /\ i \in 1 .. Len(text) /\ i - 1 \in 0 .. Len(text) /\ i - 1 = e - (k + 1)
        /\ k + 1 \in 0 .. n
    OBVIOUS
  <2>2. r \in RowState /\ RowStates(text)[i] = RowStep(text, i, q)[r]
    BY <2>1, RowsAre
  <2>3. NoShort(RowStates(text)[i].rows)
    BY <1>1
  <2>4. text[i] \in STRING
    BY <2>1
  <2> HIDE DEF r, q, i
  <2>5. RowStates(text)[i].rows = r.rows \/ RowStates(text)[i].rows = Append(r.rows, last)
    <3>1. /\ RowEnded(r).rows = Append(r.rows, last) /\ ElemEnded(r).rows = r.rows
          /\ ElemTaken(r, text[i]).rows = r.rows /\ RowOpened(r).rows = r.rows
      BY <2>2, <2>4, RowEndedIs, ElemEndedIs, ElemTakenIs, RowOpenedIs
    <3>2. RowStates(text)[i] \in {r, RowEnded(r), ElemEnded(r), ElemTaken(r, text[i]),
                                  RowOpened(r)}
      BY <2>2, RowTurnIs
    <3> HIDE DEF last
    <3> QED
      BY <3>1, <3>2
  <2>6. r.rows \in Seq(Seq(Seq(STRING)))
    BY <2>2, RowFields DEF Rows
  <2> HIDE DEF last
  <2>7. NoShort(r.rows)
    <3> DEFINE rows == r.rows
    <3>1. CASE RowStates(text)[i].rows = Append(rows, last)
      <4>1. /\ Len(Append(rows, last)) = Len(rows) + 1 /\ Len(rows) \in Nat
            /\ \A k1 \in 1 .. Len(rows) : Append(rows, last)[k1] = rows[k1]
        BY <2>6
      <4>2. \A k1 \in 1 .. Len(rows) : k1 \in 1 .. Len(Append(rows, last))
        BY <4>1
      <4>3. \A k1 \in 1 .. Len(Append(rows, last)) :
                Len(ColumnTypes) <= Len(Append(rows, last)[k1])
        BY <2>3, <3>1 DEF NoShort
      <4> HIDE DEF rows
      <4> QED
        BY <4>1, <4>2, <4>3 DEF NoShort, rows
    <3> QED
      BY <2>3, <2>5, <3>1
  <2> QED
    BY <2>1, <2>7 DEF r, i
<1>2. 0 \in T
  <2>1. e - 0 = e /\ 0 \in 0 .. n
    OBVIOUS
  <2> QED
    BY <2>1
<1>3. n \in T
  <2>1. \A k \in 0 .. n - 1 : k \in T => k + 1 \in T
    BY <1>1
  <2>2. n \in Nat
    OBVIOUS
  <2> HIDE DEF T, n
  <2>3. 0 .. n \subseteq T
    BY <1>2, <2>1, <2>2, UpTo
  <2> QED
    BY <2>2, <2>3
<1>4. e - n = b
  OBVIOUS
<1> QED
  BY <1>3, <1>4

\* The columns of a batch are of one length.
Even(batch) == \E n \in Nat : \A c \in Columns : Len(batch[c]) = n

\* The rows of a text are, and so are those that the parser of batches reads,
\* as long.
LEMMA RowsTyped ==
    ASSUME NEW text \in Seq(STRING)
    PROVE  /\ ParseRows(text) \in Rows
           /\ NoShort(ParseRows(text)) => NoShort(RowStates(text)[Len(text)].rows)
           /\ RowsOf(text) \in Rows
           /\ NoShort(ParseRows(text)) => NoShort(RowsOf(text))
<1> DEFINE r == RowStates(text)[Len(text)]
           rows == r.rows
           one == Append(r.row, r.elem)
           other == Append(r.row, DropCR(r.elem))
<1>1. r \in RowState
  BY RowsAre
<1>2. rows \in Rows /\ r.row \in Seq(Seq(STRING)) /\ r.elem \in Seq(STRING) /\ r.open \in BOOLEAN
  BY <1>1, RowFields
<1>3. DropCR(r.elem) \in Seq(STRING)
  BY <1>2, DropCRTyped
<1>4. CASE r.open = FALSE
  BY <1>2, <1>4 DEF ParseRows, RowsOf
<1>5. CASE r.open = TRUE
  <2>1. ParseRows(text) = Append(rows, one) /\ RowsOf(text) = Append(rows, other)
    BY <1>5 DEF ParseRows, RowsOf
  <2>2. /\ one \in Seq(Seq(STRING)) /\ other \in Seq(Seq(STRING))
        /\ Len(one) = Len(r.row) + 1 /\ Len(other) = Len(r.row) + 1
    BY <1>2, <1>3
  <2>3. Len(one) = Len(other)
    BY <2>2
  <2> HIDE DEF rows, one, other
  <2>4. /\ rows \in Seq(Seq(Seq(STRING))) /\ Len(rows) \in Nat
        /\ Append(rows, one) \in Rows /\ Append(rows, other) \in Rows
    BY <1>2, <2>2 DEF Rows
  <2> DEFINE n == Len(rows)
             s == Append(rows, one)
             t == Append(rows, other)
  <2>5. /\ Len(s) = n + 1 /\ s[n + 1] = one /\ \A k \in 1 .. n : s[k] = rows[k]
        /\ Len(t) = n + 1 /\ t[n + 1] = other /\ \A k \in 1 .. n : t[k] = rows[k]
    BY <2>2, <2>4
  <2>6. \A k \in 1 .. n + 1 : k \in 1 .. n \/ k = n + 1
    BY <2>4
  <2>7. n + 1 \in 1 .. n + 1 /\ \A k \in 1 .. n : k \in 1 .. n + 1
    BY <2>4
  <2> HIDE DEF s, t
  <2>8. ASSUME NoShort(s) PROVE NoShort(rows) /\ NoShort(t)
    <3>1. \A k \in 1 .. n + 1 : Len(ColumnTypes) <= Len(s[k])
      BY <2>5, <2>8 DEF NoShort
    <3>2. \A k \in 1 .. n : Len(ColumnTypes) <= Len(rows[k])
      BY <2>5, <2>7, <3>1
    <3>3. Len(ColumnTypes) <= Len(t[n + 1])
      BY <2>3, <2>5, <2>7, <3>1
    <3>4. \A k \in 1 .. n + 1 : Len(ColumnTypes) <= Len(t[k])
      BY <2>5, <2>6, <3>2, <3>3
    <3> QED
      BY <2>5, <3>2, <3>4 DEF NoShort
  <2> QED
    BY <2>1, <2>4, <2>8 DEF rows, s, t
<1> QED
  BY <1>2, <1>4, <1>5

\* Up to every mark.
LEMMA EvenAtMark ==
    ASSUME NEW text \in Seq(STRING), NoShort(ParseRows(text)), NEW e \in Marks(text),
           FirstRows(text, e).thrown = FALSE
    PROVE  Even(BatchOf(FirstRows(text, e).cells))
<1>1. ASSUME NEW rows \in Rows, NoShort(rows)
      PROVE  CellsOfRows(rows) \in Seq(CellOf) /\ Even(BatchOf(CellsOfRows(rows)))
  <2>1. Len(rows) \in Nat
    BY DEF Rows
  <2> QED
    BY <1>1, <2>1, OneCellPerRow DEF Even
<1>2. CASE e = Len(text)
  <2>1. FirstRows(text, e) = ParseBuffer(text)
    BY <1>2, AllRows
  <2>2. ParseBuffer(text).cells = CellsOfRows(RowsOf(text))
    BY <2>1, WholeCells
  <2>3. RowsOf(text) \in Rows /\ NoShort(RowsOf(text))
    BY RowsTyped
  <2> QED
    BY <1>1, <2>1, <2>2, <2>3
<1>3. CASE e \in Starts(text)
  <2> DEFINE p == ParseStates(text)[e]
             r == RowStates(text)[e]
             n == Len(text)
  <2>1. FirstRows(text, e) = p
    BY <1>3, FirstRowsAtStart
  <2>2. p.thrown = FALSE
    BY <2>1
  <2>3. e \in 0 .. Len(text) /\ n \in 0 .. Len(text) /\ e \in 0 .. n
    BY MarkIs
  <2>4. Parallel(p, r) /\ r \in RowState
    BY <2>2, <2>3, ParsesParallel, RowsAre
  <2>5. p.row_started = FALSE
    BY <1>3, <2>2, ParseAtStart
  <2>6. NoShort(r.rows)
    <3>1. NoShort(RowStates(text)[n].rows)
      BY RowsTyped
    <3> QED
      BY <2>3, <3>1, RowsBefore
  <2> HIDE DEF p, r
  <2>7. r.row = <<>> /\ p.cells = CellsOfRows(r.rows) \o CellsOfRow(r.row)
    BY <2>4, <2>5 DEF Parallel
  <2>8. r.rows \in Rows
    BY <2>4, RowFields
  <2>9. CellsOfRows(r.rows) \in Seq(CellOf) /\ Even(BatchOf(CellsOfRows(r.rows)))
    BY <1>1, <2>6, <2>8
  <2>10. p.cells = CellsOfRows(r.rows)
    BY <2>7, <2>9, CellsOfNoRow, ConcatEmptySeq
  <2> QED
    BY <2>1, <2>9, <2>10
<1> QED
  BY <1>2, <1>3 DEF Marks

\* What even batches are continued to evenly, they are continued to by an even
\* one.
LEMMA EvenAppend ==
    ASSUME NEW batches \in Seq(Batches), NEW batch \in Batches,
           Even(Joined(batches)), Even(Joined(Append(batches, batch)))
    PROVE  Even(batch)
<1> DEFINE first == Joined(batches)
           all == Joined(Append(batches, batch))
<1>1. first \in Batches /\ all = [c \in Columns |-> first[c] \o batch[c]]
  BY JoinedAppend
<1> HIDE DEF first, all
<1>2. PICK n \in Nat : \A c \in Columns : Len(first[c]) = n
  BY DEF Even, first
<1>3. PICK m \in Nat : \A c \in Columns : Len(all[c]) = m
  BY DEF Even, all
<1>4. ASSUME NEW c \in Columns PROVE Len(batch[c]) = m - n /\ m - n \in Nat
  <2> DEFINE s == first[c]
             t == batch[c]
  <2>1. s \in Seq(Values) /\ t \in Seq(Values)
    BY <1>1 DEF Batches
  <2>2. Len(s) = n /\ Len(s \o t) = m
    BY <1>1, <1>2, <1>3
  <2> HIDE DEF s, t
  <2>3. Len(s \o t) = Len(s) + Len(t) /\ Len(t) \in Nat
    BY <2>1, ConcatProperties
  <2>4. Len(t) = m - n
    BY <2>2, <2>3
  <2> QED
    BY <2>3, <2>4 DEF t
<1>5. CASE Columns = {}
  BY <1>5 DEF Even
<1>6. CASE Columns # {}
  <2>1. m - n \in Nat
    BY <1>4, <1>6
  <2> QED
    BY <1>4, <2>1 DEF Even
<1> QED
  BY <1>5, <1>6

\* What has been delivered ends at a mark.
AtMark == \E cut \in Marks(file) : DeliveredTo(cut)

\* Whether the import failed or not.
LEMMA DeliveredAtMark == ConvertInv => AtMark
BY DEF ConvertInv, ImportInv, InPlace, Failed, AtMark

\* And after a step.
LEMMA DeliveredAtMarkNext == (ConvertInv => AtMark)'
<1>1. ConvertInv => AtMark
  BY DeliveredAtMark
<1> QED
  BY <1>1, PTL

\* So every batch is even.
EvenBatches ==
    NoShort(ParseRows(file)) => \A k \in 1 .. Len(delivered) : Even(delivered[k])

\* Rows that are long enough leave what is delivered even.
LEMMA EvenDelivered ==
    ASSUME file \in Seq(STRING), NoShort(ParseRows(file)), AtMark
    PROVE  Even(Joined(delivered))
BY EvenAtMark DEF AtMark, DeliveredTo

\* And after a step.
LEMMA EvenDeliveredNext ==
    ((file \in Seq(STRING) /\ NoShort(ParseRows(file)) /\ AtMark) => Even(Joined(delivered)))'
<1>1. (file \in Seq(STRING) /\ NoShort(ParseRows(file)) /\ AtMark) => Even(Joined(delivered))
  BY EvenDelivered
<1> QED
  BY <1>1, PTL

\* A batch is what was delivered after it without what was before.
LEMMA EvenImportKeeps ==
    ASSUME ConvertInv, ConvertInv', EvenBatches, Import \/ InputFails
    PROVE  EvenBatches'
<1>1. ImportInv /\ file \in Seq(STRING) /\ delivered \in Seq(Batches) /\ AtMark /\ AtMark'
  BY DeliveredAtMark, DeliveredAtMarkNext DEF ConvertInv, ImportInv, ReaderTyped
<1>2. /\ file' = file
      /\ delivered' = delivered \/ \E batch \in Batches : delivered' = Append(delivered, batch)
  BY <1>1, Delivers DEF Import, InputFails
<1>3. CASE delivered' = delivered
  BY <1>2, <1>3 DEF EvenBatches
<1>4. ASSUME NEW batch \in Batches, delivered' = Append(delivered, batch),
             NoShort(ParseRows(file))
      PROVE  \A k \in 1 .. Len(delivered') : Even(delivered'[k])
  <2>1. Even(Joined(delivered))
    BY <1>1, <1>4, EvenDelivered
  <2>2. Even(Joined(delivered'))
    <3>1. file' \in Seq(STRING) /\ NoShort(ParseRows(file'))
      BY <1>1, <1>2, <1>4
    <3> QED
      BY <1>1, <3>1, EvenDeliveredNext
  <2>3. Even(batch)
    BY <1>1, <1>4, <2>1, <2>2, EvenAppend
  <2> DEFINE n == Len(delivered)
             more == Append(delivered, batch)
  <2>4. /\ n \in Nat /\ Len(more) = n + 1 /\ more[n + 1] = batch
        /\ \A k \in 1 .. n : more[k] = delivered[k]
    BY <1>1
  <2>5. \A k \in 1 .. n + 1 : k \in 1 .. n \/ k = n + 1
    BY <2>4
  <2>6. \A k \in 1 .. n : Even(delivered[k])
    BY <1>4 DEF EvenBatches
  <2> HIDE DEF n, more
  <2>7. \A k \in 1 .. Len(more) : Even(more[k])
    BY <2>3, <2>4, <2>5, <2>6
  <2> QED
    BY <1>4, <2>7 DEF more
<1> QED
  BY <1>2, <1>3, <1>4 DEF EvenBatches

\* No other step delivers.
LEMMA EvenKeeps ==
    ASSUME ConvertInv, ConvertInv', EvenBatches, [ConvertNext]_convertVars
    PROVE  EvenBatches'
<1>1. CASE Import \/ InputFails
  BY <1>1, EvenImportKeeps
<1>2. CASE OpenInput
  <2>1. delivered = <<>> /\ delivered' = delivered
    BY <1>2 DEF ConvertInv, Fresh, ReaderInit, OpenInput
  <2>2. 1 .. Len(delivered') = {}
    BY <2>1
  <2> QED
    BY <2>2 DEF EvenBatches
<1>3. CASE \/ LoadSchema \/ OpenOutput \/ WriteBatchToFile \/ ImportEnds \/ Finalize
           \/ Unwind \/ UNCHANGED convertVars
  <2>1. file' = file /\ delivered' = delivered
    BY <1>3 DEF LoadSchema, OpenOutput, WriteBatchToFile, ImportEnds, Finalize, Unwind,
                convertVars, importVars, readerVars
  <2> QED
    BY <2>1 DEF EvenBatches
<1> QED
  BY <1>1, <1>2, <1>3 DEF ConvertNext, ConvertStep

\* And a row group that is not comes from a row that is too short.
LEMMA MisalignedIsShort ==
    ASSUME ConvertInv, EvenBatches
    PROVE  OnlyShortRowsMisalign
<1> DEFINE rgs == output.row_groups
<1>1. SUFFICES ASSUME \A r \in Range(ParseRows(file)) : ~(Len(r) < Len(ColumnTypes)),
                      NEW g \in DOMAIN rgs, NEW c \in Columns
               PROVE  Len(rgs[g].columns[c]) = rgs[g].row_num
  BY DEF OnlyShortRowsMisalign
<1>2. /\ file \in Seq(STRING) /\ delivered \in Seq(Batches) /\ rgs \in Seq(RowGroups)
      /\ Len(rgs) <= Len(delivered)
      /\ \A k \in 1 .. Len(rgs) : rgs[k] = RowGroup(delivered[k])
  BY DEF ConvertInv, ConvertTyped, ImportInv, ReaderTyped, StoredInOrder
<1> HIDE DEF rgs
<1>3. NoShort(ParseRows(file))
  <2> DEFINE rows == ParseRows(file)
  <2>1. rows \in Seq(Seq(Seq(STRING)))
    BY <1>2, RowsTyped DEF Rows
  <2>2. \A r \in Range(rows) : ~(Len(r) < Len(ColumnTypes))
    BY <1>1
  <2> HIDE DEF rows
  <2>3. \A k \in 1 .. Len(rows) : rows[k] \in Range(rows) /\ rows[k] \in Seq(Seq(STRING))
    BY <2>1 DEF Range
  <2>4. Len(ColumnTypes) \in Nat
    BY ColumnTypeAssumption
  <2>5. \A k \in 1 .. Len(rows) : Len(rows[k]) \in Nat
    BY <2>3
  <2>6. \A k \in 1 .. Len(rows) : Len(ColumnTypes) <= Len(rows[k])
    BY <2>2, <2>3, <2>4, <2>5
  <2> QED
    BY <2>6 DEF NoShort, rows
<1>4. g \in 1 .. Len(rgs) /\ g \in 1 .. Len(delivered)
  BY <1>2
<1>5. Even(delivered[g])
  BY <1>3, <1>4 DEF EvenBatches
<1>6. 1 \in Columns
  BY ColumnTypeAssumption DEF Columns
<1>7. Len(delivered[g][c]) = Len(delivered[g][1])
  BY <1>5, <1>6 DEF Even
<1>8. \A batch : RowGroup(batch).columns = batch /\ RowGroup(batch).row_num = Len(batch[1])
  BY DEF RowGroup
<1> QED
  BY <1>2, <1>4, <1>7, <1>8

\* A row group whose row_num is not the length of each of its columns comes
\* from a file with a row that has too few fields (csv_columnar_reader.cpp:122,
\* kio_db_writer.cpp:173): neither blocks nor quotes nor empty values put the
\* columns out of step.
THEOREM MisalignedAlwaysShort == ConvertSpec => []OnlyShortRowsMisalign
<1>1. ConvertInit => EvenBatches
  <2> SUFFICES ASSUME ConvertInit PROVE EvenBatches
    OBVIOUS
  <2>1. delivered = <<>>
    BY DEF ConvertInit, ReaderInit
  <2>2. 1 .. Len(delivered) = {}
    BY <2>1
  <2> QED
    BY <2>2 DEF EvenBatches
<1>2. ConvertInv /\ ConvertInv' /\ EvenBatches /\ [ConvertNext]_convertVars => EvenBatches'
  BY EvenKeeps
<1>3. ConvertInv /\ EvenBatches => OnlyShortRowsMisalign
  BY MisalignedIsShort
<1> QED
  BY <1>1, <1>2, <1>3, ConvertInvariant, PTL DEF ConvertSpec
==============================================================================
