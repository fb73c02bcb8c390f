------------------------ MODULE OrderedQuery_proofs ------------------------
(* The ordered query, for every file, constraint, predicate, list of sort    *)
(* keys, limit and offset: what the scan passes over holds nothing, and the  *)
(* composition keeps what the operators promise by themselves.               *)
EXTENDS OrderedQuery, TopKLimit_proofs

\* A row group whose statistics rule a constraint out holds no row that
\* satisfies it: the scan may drop it unread.
LEMMA PruningIsSound ==
    ASSUME constraints \subseteq Constraint, NEW g \in RowGroup,
           ~RowGroupMayMatch(g), NEW i \in DOMAIN g.rows
    PROVE  ~Predicate(g.rows[i])
<1>1. PICK c \in constraints : ~ConstraintMayMatch(g.stats[c.column], c)
  BY DEF RowGroupMayMatch
<1>2. /\ c.column \in Column /\ c.lower \subseteq Int /\ c.upper \subseteq Int
      /\ c.not_equal \subseteq Int
  BY ConstraintAssumption
<1> DEFINE chunk == g.stats[c.column]
           x == g.rows[i][c.column]
<1>3. /\ chunk.has_min_max /\ chunk.min \in Int /\ chunk.max \in Int
  <2>1. chunk \in Stats /\ chunk.has_min_max
    BY <1>1, <1>2, RowGroupAssumption DEF ConstraintMayMatch
  <2> QED
    BY <2>1 DEF Stats
<1>4. x \in Int
  <2>1. g.rows[i] \in Row
    BY RowGroupAssumption
  <2> QED
    BY <1>2, <2>1, RowsAssumption
<1>5. chunk.min <= x /\ x <= chunk.max
  BY <1>2, <1>3, RowGroupAssumption DEF StatsBound
<1> HIDE DEF chunk, x
<1>6. ~Satisfies(x, c)
  <2>1. ~ConstraintMayMatch(chunk, c)
    BY <1>1 DEF chunk
  <2> QED
    BY <1>2, <1>3, <1>4, <1>5, <2>1 DEF ConstraintMayMatch, Satisfies
<1> QED
  BY <1>6 DEF Predicate, x

-----------------------------------------------------------------------------
(* The scan and the filter, in any composition.                              *)

ScanInv == ScanTypeOK /\ SkippedHoldNothing

LEMMA ScanSkipsKeeps == ScanInv /\ ScanSkips => ScanInv'
<1> SUFFICES ASSUME ScanInv, ScanSkips PROVE ScanInv'
  OBVIOUS
<1> DEFINE n == next_row_group + 1
<1>1. /\ row_groups \in Seq(RowGroup) /\ constraints \subseteq Constraint
      /\ next_row_group \in Nat /\ n \in 1 .. Len(row_groups)
      /\ read \subseteq 1 .. next_row_group
      /\ SkippedHoldNothing
  BY DEF ScanInv, ScanTypeOK, ScanSkips, HasNext
<1>2. /\ ~RowGroupMayMatch(row_groups[n]) /\ next_row_group' = n
      /\ UNCHANGED <<row_groups, constraints, accepted, spc, batch, read>>
  BY DEF ScanSkips
<1> HIDE DEF n
<1>3. ScanTypeOK'
  BY <1>1, <1>2 DEF ScanInv, ScanTypeOK, n
<1>4. ASSUME NEW g \in (1 .. n) \ read, NEW i \in DOMAIN row_groups[g].rows
      PROVE  ~Predicate(row_groups[g].rows[i])
  <2>1. CASE g = n
    <3>1. row_groups[n] \in RowGroup
      BY <1>1
    <3> QED
      BY <1>1, <1>2, <2>1, <3>1, PruningIsSound
  <2>2. CASE g \in (1 .. next_row_group) \ read
    BY <1>1, <2>2 DEF SkippedHoldNothing
  <2> QED
    BY <1>1, <2>1, <2>2 DEF n
<1>5. SkippedHoldNothing'
  BY <1>2, <1>4 DEF SkippedHoldNothing, Predicate
<1> QED
  BY <1>3, <1>5 DEF ScanInv

LEMMA ScanReadsKeeps == ScanInv /\ ScanReads => ScanInv'
<1> SUFFICES ASSUME ScanInv, ScanReads PROVE ScanInv'
  OBVIOUS
<1> DEFINE n == next_row_group + 1
           rows == row_groups[n].rows
<1>1. /\ row_groups \in Seq(RowGroup) /\ constraints \subseteq Constraint
      /\ next_row_group \in Nat /\ n \in 1 .. Len(row_groups)
      /\ read \subseteq 1 .. next_row_group
      /\ SkippedHoldNothing
  BY DEF ScanInv, ScanTypeOK, ScanReads, HasNext
<1>2. /\ next_row_group' = n /\ read' = read \cup {n} /\ spc' = "batch"
      /\ UNCHANGED <<row_groups, constraints, accepted>>
  BY DEF ScanReads
<1>3. batch' \in Seq(Row)
  <2>1. PICK order \in [1 .. Cardinality(SelectedRows(rows))
                            -> SelectedRows(rows)] :
            batch' = [i \in DOMAIN order |-> rows[order[i]]]
    BY DEF ScanReads
  <2>2. row_groups[n] \in RowGroup
    BY <1>1
  <2>3. rows \in Seq(Row)
    BY <2>2, RowGroupAssumption
  <2>4. SelectedRows(rows) \subseteq DOMAIN rows
    BY DEF SelectedRows
  <2> DEFINE k == Cardinality(SelectedRows(rows))
  <2>5. k \in Nat
    <3>1. IsFiniteSet(DOMAIN rows)
      <4>1. DOMAIN rows = 1 .. Len(rows) /\ Len(rows) \in Nat
        BY <2>3
      <4> HIDE DEF rows
      <4> QED
        BY <4>1, FS_Interval
    <3> QED
      BY <2>4, <3>1, FS_Subset, FS_CardinalityType
  <2> HIDE DEF k
  <2>6. batch' \in [1 .. k -> Row]
    <3>1. order \in [1 .. k -> DOMAIN rows]
      BY <2>4 DEF k
    <3>2. batch' = [i \in 1 .. k |-> rows[order[i]]]
      BY <2>1, <3>1
    <3> HIDE DEF rows
    <3>3. \A j \in DOMAIN rows : rows[j] \in Row
      BY <2>3
    <3>4. \A i \in 1 .. k : rows[order[i]] \in Row
      BY <3>1, <3>3
    <3> QED
      BY <3>2, <3>4
  <2> QED
    BY <2>5, <2>6
<1> HIDE DEF n
<1>4. ScanTypeOK'
  BY <1>1, <1>2, <1>3 DEF ScanTypeOK, ScanInv, n
<1>5. SkippedHoldNothing'
  <2>1. (1 .. n) \ (read \cup {n}) \subseteq (1 .. next_row_group) \ read
    BY <1>1 DEF n
  <2> QED
    BY <1>1, <1>2, <2>1 DEF SkippedHoldNothing, Predicate
<1> QED
  BY <1>4, <1>5 DEF ScanInv

LEMMA ScanStepInv ==
    ASSUME ScanInv,
           \/ FilterNext \/ ScanSkips \/ ScanReads \/ ScanEnds \/ FilterReturns
           \/ UNCHANGED scanVars
    PROVE  ScanInv'
<1>1. CASE FilterNext \/ ScanEnds \/ FilterReturns \/ UNCHANGED scanVars
  <2>1. /\ spc' \in {"idle", "scanning", "batch", "ended"}
        /\ UNCHANGED <<row_groups, constraints, accepted, next_row_group,
                       batch, read>>
    BY <1>1 DEF FilterNext, ScanEnds, FilterReturns, scanVars, ScanInv,
                ScanTypeOK
  <2> QED
    BY <2>1 DEF ScanInv, ScanTypeOK, SkippedHoldNothing, Predicate
<1> QED
  BY <1>1, ScanSkipsKeeps, ScanReadsKeeps

-----------------------------------------------------------------------------
(* The composition.  What links the operators is that a batch of the filter  *)
(* is a sequence of rows, and the batch of Top-K one of row numbers.         *)

QueryInv == ScanInv /\ TopKInv /\ LimitInv

LEMMA QueryInitInv == Init => QueryInv
<1> SUFFICES ASSUME Init PROVE QueryInv
  OBVIOUS
<1>1. k_limit \in Nat
  <2>1. limit \in Nat /\ offset \in Nat
    BY LimitAssumption DEF Init, LimitInit
  <2> QED
    BY <2>1 DEF Init, TopKLimit
<1>2. TopKInv /\ LimitInv
  BY <1>1, TopKInitInv, LimitInitInv DEF Init
<1>3. ScanInv
  <2>1. row_groups \in Seq(RowGroup) /\ Len(row_groups) \in Nat
    BY TablesAssumption DEF Init
  <2>2. /\ constraints \subseteq Constraint /\ next_row_group = 0
        /\ spc = "idle" /\ read = {} /\ batch \in Seq(Row)
    BY DEF Init, ScanInit
  <2> QED
    BY <2>1, <2>2 DEF ScanInv, ScanTypeOK, SkippedHoldNothing
<1> QED
  BY <1>2, <1>3 DEF QueryInv

LEMMA QueryNextInv == QueryInv /\ [Next]_vars => QueryInv'
<1> SUFFICES ASSUME QueryInv, [Next]_vars PROVE QueryInv'
  OBVIOUS
<1>0. /\ ScanInv /\ TopKInv /\ LimitInv
      /\ batch \in Seq(Row) /\ Len(result) \in Nat /\ 0 \in Nat
  <2>1. result \in Seq(Nat)
    BY DEF QueryInv, TopKInv, TopKTypeOK
  <2> QED
    BY <2>1 DEF QueryInv, ScanInv, ScanTypeOK
<1>1. ScanInv'
  <2>1. \/ FilterNext \/ ScanSkips \/ ScanReads \/ ScanEnds \/ FilterReturns
        \/ UNCHANGED scanVars
    BY DEF Next, vars, WriterCallsLimit, CallTopK, CallFilter, Scanning,
           FilterReturnsBatch, FilterReturnsNone, TopKLoop, LimitTakesBatch,
           LimitTakesNone, LimitReturnsNone, WriterTakesBatch, WriterTakesNone
  <2> QED
    BY <1>0, <2>1, ScanStepInv
<1>2. TopKInv'
  <2>1. [TopKOpNext]_topkVars
    BY <1>0
       DEF Next, vars, WriterCallsLimit, CallTopK, CallFilter, Scanning,
           FilterReturnsBatch, FilterReturnsNone, TopKLoop, LimitTakesBatch,
           LimitTakesNone, LimitReturnsNone, WriterTakesBatch, WriterTakesNone,
           TopKOpNext
  <2> QED
    BY <1>0, <2>1, TopKNextInv
<1>3. LimitInv'
  <2>1. \/ LimitNext \/ SkipBatch(Len(result)) \/ ReturnRows(Len(result))
        \/ LimitChildEnds \/ UNCHANGED limitVars
    BY DEF Next, vars, WriterCallsLimit, CallTopK, CallFilter, Scanning,
           FilterReturnsBatch, FilterReturnsNone, TopKLoop, LimitTakesBatch,
           LimitTakesNone, LimitReturnsNone, WriterTakesBatch, WriterTakesNone
  <2> QED
    BY <1>0, <2>1, LimitStepInv
<1> QED
  BY <1>1, <1>2, <1>3 DEF QueryInv

\* The invariants of scan, Top-K and LIMIT hold together under every query:
\* each operator is driven by the others as its own specification allows.
THEOREM QueryInvariant == Spec => []QueryInv
<1> QED
  BY QueryInitInv, QueryNextInv, PTL DEF Spec

\* Every operator's variables keep their types, whatever the others hand it.
THEOREM QueryTypesAreOK == Spec => []TypeOK
<1>1. QueryInv => TypeOK
  BY DEF QueryInv, ScanInv, TopKInv, LimitInv, TypeOK
<1> QED
  BY <1>1, QueryInvariant, PTL

\* A row group that the scan passes over unread holds no row the filter would
\* accept, for every table, statistics that bound it, constraint and filter.
THEOREM PrunedHoldNothing == Spec => []SkippedHoldNothing
<1>1. QueryInv => SkippedHoldNothing
  BY DEF QueryInv, ScanInv
<1> QED
  BY <1>1, QueryInvariant, PTL

-----------------------------------------------------------------------------
(* The scan and the filter hand every selected row to Top-K once.            *)

LEMMA PassedGrows ==
    ASSUME NEW n \in Nat
    PROVE  LET more == {<<n + 1, i>> :
                           i \in SelectedRows(row_groups[n + 1].rows)}
           IN  Passed(n + 1) = Passed(n) \cup more /\ Passed(n) \cap more = {}
<1>1. 1 .. n + 1 = (1 .. n) \cup {n + 1} /\ n + 1 \notin 1 .. n
  OBVIOUS
<1> DEFINE rows_of(g) == {<<g, i>> : i \in SelectedRows(row_groups[g].rows)}
<1>2. Passed(n + 1) = Passed(n) \cup rows_of(n + 1)
  BY <1>1 DEF Passed
<1>3. \A g \in 1 .. n : rows_of(g) \cap rows_of(n + 1) = {}
  BY <1>1
<1>4. Passed(n) \cap rows_of(n + 1) = {}
  BY <1>3 DEF Passed
<1> QED
  BY <1>2, <1>4

\* An increasing sequence of as many numbers as a set has takes each once.
LEMMA IncreasingIsBijection ==
    ASSUME NEW S \in SUBSET Nat, IsFiniteSet(S), NEW k \in Nat,
           Cardinality(S) = k, NEW order \in [1 .. k -> S],
           \A i, j \in 1 .. k : i < j => order[i] < order[j]
    PROVE  order \in Bijection(1 .. k, S)
<1>1. \A i \in 1 .. k : order[i] \in Nat
  OBVIOUS
<1>2. \A i, j \in 1 .. k : order[i] = order[j] => i = j
  BY <1>1
<1>3. order \in Injection(1 .. k, S)
  BY <1>2 DEF Injection, IsInjective
<1>4. Cardinality(1 .. k) = Cardinality(S)
  BY FS_Interval
<1>5. order \in Surjection(1 .. k, S)
  BY <1>3, <1>4, FS_Injection
<1> QED
  BY <1>3, <1>5 DEF Bijection

LEMMA SelectedIsFinite ==
    ASSUME NEW rows \in Seq(Row)
    PROVE  /\ SelectedRows(rows) \in SUBSET (1 .. Len(rows))
           /\ IsFiniteSet(SelectedRows(rows))
           /\ Cardinality(SelectedRows(rows)) \in Nat
<1>1. SelectedRows(rows) \subseteq 1 .. Len(rows) /\ Len(rows) \in Nat
  BY DEF SelectedRows
<1>2. IsFiniteSet(1 .. Len(rows))
  BY <1>1, FS_Interval
<1> QED
  BY <1>1, <1>2, FS_Subset, FS_CardinalityType

LEMMA ReadIsSelected ==
    ASSUME QueryInv, InputIsSelected, ScanReads, UNCHANGED topkVars
    PROVE  InputIsSelected'
<1> DEFINE n == next_row_group
           rows == row_groups[n + 1].rows
           S == SelectedRows(rows)
           k == Cardinality(S)
           more == {<<n + 1, i>> : i \in S}
<1>1. /\ row_groups \in Seq(RowGroup)
      /\ n \in Nat /\ n + 1 \in 1 .. Len(row_groups)
      /\ input \in Seq(Row) /\ spc = "scanning"
  BY DEF QueryInv, ScanInv, ScanTypeOK, TopKInv, TopKTypeOK, ScanReads, HasNext
<1>2. /\ spc' = "batch" /\ input' = input /\ next_row_group' = n + 1
      /\ UNCHANGED <<row_groups, constraints, accepted>>
  BY DEF ScanReads, topkVars
<1>3. PICK order \in [1 .. k -> S] :
          /\ \A i, j \in DOMAIN order : i < j => order[i] < order[j]
          /\ batch' = [i \in DOMAIN order |-> rows[order[i]]]
  BY DEF ScanReads
<1>4. rows \in Seq(Row)
  <2>1. row_groups[n + 1] \in RowGroup
    BY <1>1
  <2> QED
    BY <2>1, RowGroupAssumption
<1>5. k \in Nat /\ order \in Bijection(1 .. k, S)
  <2>1. /\ S \in SUBSET (1 .. Len(rows)) /\ Len(rows) \in Nat
        /\ IsFiniteSet(S) /\ k \in Nat
    BY <1>4, SelectedIsFinite
  <2>2. /\ order \in [1 .. k -> S]
        /\ \A i, j \in 1 .. k : i < j => order[i] < order[j]
    BY <1>3
  <2>3. Cardinality(S) = k
    OBVIOUS
  <2> HIDE DEF S, k, rows
  <2>4. S \in SUBSET Nat
    BY <2>1
  <2> QED
    BY <2>1, <2>2, <2>3, <2>4, IncreasingIsBijection
<1>6. PICK from \in Bijection(1 .. Len(input), Passed(n)) :
          \A i \in DOMAIN from : input[i] = RowAt(from[i])
  BY <1>1 DEF InputIsSelected
<1>7. Passed(n + 1) = Passed(n) \cup more /\ Passed(n) \cap more = {}
  BY <1>1, PassedGrows
<1>8. Passed(next_row_group)' = Passed(n + 1) /\ \A p : RowAt(p)' = RowAt(p)
  BY <1>2 DEF Passed, SelectedRows, Predicate, RowAt
<1> DEFINE new == [i \in 1 .. k |-> <<n + 1, order[i]>>]
           m == Len(input)
           to == [i \in 1 .. m + k |-> IF i <= m THEN from[i] ELSE new[i - m]]
<1>9. new \in Bijection(1 .. k, more)
  <2>1. /\ order \in [1 .. k -> S]
        /\ \A i, j \in 1 .. k : order[i] = order[j] => i = j
        /\ \A s \in S : \E i \in 1 .. k : order[i] = s
    BY <1>5 DEF Bijection, Injection, Surjection, IsInjective
  <2> HIDE DEF k, S
  <2>2. /\ new \in [1 .. k -> more]
        /\ \A i, j \in 1 .. k : new[i] = new[j] => i = j
        /\ \A s \in more : \E i \in 1 .. k : new[i] = s
    BY <2>1
  <2> QED
    BY <2>2 DEF Bijection, Injection, Surjection, IsInjective
<1>10. m \in Nat /\ DOMAIN from = 1 .. m /\ DOMAIN order = 1 .. k
  BY <1>1, <1>3, <1>6 DEF Bijection, Injection
<1>11. to \in Bijection(1 .. m + k, Passed(n + 1))
  <2>1. to = [i \in 1 .. m + k |-> IF i <= m THEN from[i] ELSE new[i - m]]
    OBVIOUS
  <2> HIDE DEF to, new, more, k, m, n
  <2>2. from \in Bijection(1 .. m, Passed(n))
    BY <1>6 DEF m
  <2>3. k \in Nat /\ m \in Nat /\ Passed(n) \cap more = {}
    BY <1>5, <1>7, <1>10
  <2>4. to \in Bijection(1 .. m + k, Passed(n) \cup more)
    BY ONLY <1>9, <2>1, <2>2, <2>3, BijectionsJoin
  <2> QED
    BY <1>7, <2>4
<1>12. batch' \in Seq(Row) /\ Len(batch') = k
       /\ \A i \in 1 .. k : batch'[i] = rows[order[i]]
  <2>1. \A i \in 1 .. k : rows[order[i]] \in Row
    <3>1. \A i \in 1 .. k : order[i] \in DOMAIN rows
      BY <1>3 DEF SelectedRows
    <3> HIDE DEF rows, k
    <3> QED
      BY <1>4, <3>1
  <2>2. batch' = [i \in 1 .. k |-> rows[order[i]]]
    BY <1>3, <1>10
  <2> HIDE DEF rows, k, S
  <2> QED
    BY <1>5, <2>1, <2>2
<1>13. /\ Len(input \o batch') = m + k
       /\ \A i \in 1 .. m + k : (input \o batch')[i] = RowAt(to[i])
  <2>1. \A i \in 1 .. m : to[i] = from[i] /\ input[i] = RowAt(from[i])
    BY <1>5, <1>6, <1>10
  <2>2. \A i \in (1 .. m + k) \ (1 .. m) :
            to[i] = <<n + 1, order[i - m]>> /\ i - m \in 1 .. k
    BY <1>5, <1>10
  <2>3. \A i \in 1 .. k : batch'[i] = RowAt(<<n + 1, order[i]>>)
    BY <1>12 DEF RowAt
  <2> HIDE DEF to, k, rows, S, n
  <2>4. \A s, b \in Seq(Row) :
            /\ Len(s \o b) = Len(s) + Len(b)
            /\ \A i \in 1 .. Len(s) : (s \o b)[i] = s[i]
            /\ \A i \in (1 .. Len(s) + Len(b)) \ (1 .. Len(s)) :
                   (s \o b)[i] = b[i - Len(s)]
    OBVIOUS
  <2>5. /\ Len(input \o batch') = m + k
        /\ \A i \in 1 .. m : (input \o batch')[i] = input[i]
        /\ \A i \in (1 .. m + k) \ (1 .. m) :
               (input \o batch')[i] = batch'[i - m]
    BY <1>1, <1>12, <2>4
  <2> QED
    BY <2>1, <2>2, <2>3, <2>5
<1> QED
  <2>1. DOMAIN to = 1 .. m + k
    OBVIOUS
  <2> HIDE DEF to, m, k, n
  <2> QED
    BY <1>2, <1>8, <1>11, <1>13, <2>1 DEF InputIsSelected

\* A step that neither reads nor skips leaves what has been got as it is.
LEMMA SelectedStays ==
    ASSUME InputIsSelected,
           UNCHANGED <<row_groups, constraints, accepted, next_row_group>>,
           (IF spc' = "batch" THEN input' \o batch' ELSE input')
               = (IF spc = "batch" THEN input \o batch ELSE input)
    PROVE  InputIsSelected'
<1>1. /\ Passed(next_row_group)' = Passed(next_row_group)
      /\ \A p : RowAt(p)' = RowAt(p)
  BY DEF Passed, SelectedRows, Predicate, RowAt
<1> DEFINE got == IF spc = "batch" THEN input \o batch ELSE input
<1>2. PICK from \in Bijection(1 .. Len(got), Passed(next_row_group)) :
          \A i \in DOMAIN from : got[i] = RowAt(from[i])
  BY DEF InputIsSelected
<1>3. got' = got
  OBVIOUS
<1> HIDE DEF got
<1>4. /\ from \in Bijection(1 .. Len(got'), Passed(next_row_group)')
      /\ \A i \in DOMAIN from : got'[i] = RowAt(from[i])'
  BY <1>1, <1>2, <1>3
<1> QED
  BY <1>4 DEF InputIsSelected, got

LEMMA SkippedIsSelected ==
    ASSUME QueryInv, InputIsSelected, ScanSkips, UNCHANGED topkVars
    PROVE  InputIsSelected'
<1> DEFINE n == next_row_group
           g == row_groups[n + 1]
<1>1. /\ row_groups \in Seq(RowGroup)
      /\ n \in Nat /\ n + 1 \in 1 .. Len(row_groups)
      /\ constraints \subseteq Constraint /\ spc = "scanning"
  BY DEF QueryInv, ScanInv, ScanTypeOK, ScanSkips, HasNext
<1>2. /\ spc' = spc /\ input' = input /\ next_row_group' = n + 1
      /\ UNCHANGED <<row_groups, constraints, accepted>>
      /\ ~RowGroupMayMatch(g)
  BY DEF ScanSkips, topkVars
<1>3. SelectedRows(g.rows) = {}
  <2>1. g \in RowGroup
    BY <1>1
  <2> HIDE DEF g
  <2> QED
    BY <1>1, <1>2, <2>1, PruningIsSound DEF SelectedRows
<1>4. Passed(n + 1) = Passed(n)
  <2>1. n \in Nat
    BY <1>1
  <2> DEFINE more == {<<n + 1, i>> : i \in SelectedRows(row_groups[n + 1].rows)}
  <2>2. Passed(n + 1) = Passed(n) \cup more
    BY <2>1, PassedGrows
  <2>3. more = {}
    BY <1>3
  <2> HIDE DEF more
  <2> QED
    BY <2>2, <2>3
<1>5. Passed(next_row_group)' = Passed(n + 1) /\ \A p : RowAt(p)' = RowAt(p)
  BY <1>2 DEF Passed, SelectedRows, Predicate, RowAt
<1> QED
  BY <1>1, <1>2, <1>4, <1>5 DEF InputIsSelected

LEMMA SelectedKept ==
    ASSUME QueryInv, AnswerLinks, [Next]_vars
    PROVE  InputIsSelected'
<1> USE DEF AnswerLinks
<1>1. CASE CallFilter
  BY <1>1, SelectedStays DEF CallFilter, FilterNext, topkVars
<1>2. CASE Scanning
  <2>1. CASE ScanEnds
    BY <1>2, <2>1, SelectedStays DEF Scanning, ScanEnds, topkVars
  <2> QED
    BY <1>2, <2>1, ReadIsSelected, SkippedIsSelected DEF Scanning
<1>3. CASE FilterReturnsBatch
  BY <1>3, SelectedStays DEF FilterReturnsBatch, FilterReturns, TopKBatch
<1>4. CASE FilterReturnsNone
  BY <1>4, SelectedStays DEF FilterReturnsNone, FilterReturns, TopKChildEnds
<1>5. CASE CallTopK \/ TopKLoop
  BY <1>5, SelectedStays
     DEF CallTopK, TopKLoop, TopKNext, TopKStep, Push, Replace, PassOver,
         BatchDone, scanVars
<1>6. CASE \/ WriterCallsLimit \/ LimitReturnsNone \/ LimitTakesBatch
           \/ LimitTakesNone \/ WriterTakesBatch \/ WriterTakesNone
           \/ UNCHANGED vars
  BY <1>6, SelectedStays
     DEF WriterCallsLimit, LimitReturnsNone, LimitTakesBatch, LimitTakesNone,
         WriterTakesBatch, WriterTakesNone, TopKReturns, scanVars,
         topkVars, vars
<1> QED
  BY <1>1, <1>2, <1>3, <1>4, <1>5, <1>6 DEF Next

-----------------------------------------------------------------------------
(* The calls between the operators.                                          *)

LEMMA DrainedKept ==
    ASSUME QueryInv, AnswerLinks, [Next]_vars
    PROVE  DrainedMeansRead'
<1>0. /\ DrainedMeansRead
      /\ next_row_group \in 0 .. Len(row_groups)
      /\ Len(row_groups) \in Nat
      /\ k_limit \in Nat /\ done \in BOOLEAN
      /\ tpc \in {"first", "rows", "more"} => done
  BY DEF AnswerLinks, QueryInv, ScanInv, ScanTypeOK, TopKInv, TopKTypeOK,
         LoopStartsFresh
<1> USE DEF DrainedMeansRead, Drained, TopKLimit
<1>1. CASE CallFilter \/ Scanning
  BY <1>0, <1>1 DEF CallFilter, FilterNext, Scanning, ScanSkips, ScanReads,
                    ScanEnds, HasNext, topkVars, limitVars
<1>2. CASE FilterReturnsBatch \/ FilterReturnsNone
  BY <1>0, <1>2 DEF FilterReturnsBatch, FilterReturnsNone, FilterReturns,
                    TopKBatch, TopKChildEnds, limitVars
<1>3. CASE CallTopK \/ TopKLoop
  BY <1>0, <1>3 DEF CallTopK, TopKLoop, TopKNext, TopKStep, Push, Replace,
                    PassOver, BatchDone, scanVars, limitVars
<1>4. CASE \/ WriterCallsLimit \/ LimitReturnsNone \/ LimitTakesBatch
           \/ LimitTakesNone \/ WriterTakesBatch \/ WriterTakesNone
           \/ UNCHANGED vars
  BY <1>0, <1>4 DEF WriterCallsLimit, LimitReturnsNone, LimitTakesBatch,
       LimitTakesNone, WriterTakesBatch, WriterTakesNone, TopKReturns,
       LimitNext, SkipBatch, ReturnRows, LimitChildEnds, scanVars, topkVars,
       limitVars, vars
<1> QED
  BY <1>1, <1>2, <1>3, <1>4 DEF Next

\* The batch is made once, with what ResultIsFirstRows says of it.
LEMMA BatchKept ==
    ASSUME QueryInv, QueryInv', AnswerLinks, [Next]_vars
    PROVE  BatchStands'
<1>0. BatchStands /\ DrainedMeansRead /\ done \in BOOLEAN
  BY DEF AnswerLinks, QueryInv, TopKInv, TopKTypeOK
<1>1. CASE FilterReturnsNone
  <2>1. CASE tpc = "first"
    <3>1. /\ input = <<>> /\ result = <<>> /\ Drained' /\ k_limit \in Nat
          /\ UNCHANGED <<k_limit, input, result>>
      BY <1>0, <1>1, <2>1
         DEF FilterReturnsNone, TopKChildEnds, Drained, BatchStands, QueryInv,
             TopKInv, LoopStartsFresh, TopKTypeOK
    <3> QED
      BY <3>1 DEF BatchStands
  <2>2. CASE tpc = "more"
    <3>1. tpc' = "sorted" /\ result' \in Seq(Nat) /\ heap \subseteq 1 .. cursor
          /\ Drained' /\ result' \in SortedOrders(heap)
          /\ UNCHANGED <<input, cursor>> /\ Cardinality(heap) = Kept
          /\ Kept \in Nat
      BY <1>1, <2>2
         DEF FilterReturnsNone, TopKChildEnds, Drained, QueryInv, TopKInv,
             TopKTypeOK, LoopStartsFresh, HeapHoldsFirst, Kept
    <3>2. ResultIsFirstRows'
      BY DEF QueryInv, TopKInv
    <3>3. \A i \in DOMAIN result' : result'[i] \in 1 .. cursor
      BY <3>1 DEF SortedOrders
    <3> QED
      BY <3>1, <3>2, <3>3 DEF BatchStands, ResultIsFirstRows, Kept
  <2> QED
    BY <1>1, <2>1, <2>2 DEF FilterReturnsNone, TopKChildEnds
<1>2. CASE UNCHANGED <<k_limit, input, result>> /\ Drained' = Drained
  BY <1>0, <1>2 DEF BatchStands, Before
<1>3. CASE ~Drained /\ ~Drained' /\ result' = result
  BY <1>0, <1>3 DEF BatchStands
<1>4. CASE FilterReturnsBatch
  BY <1>3, <1>4 DEF FilterReturnsBatch, TopKBatch, Drained
<1>5. CASE CallTopK
  BY <1>0, <1>2, <1>3, <1>5 DEF CallTopK, TopKNext, Drained
<1>6. CASE TopKLoop
  BY <1>3, <1>6 DEF TopKLoop, TopKStep, Push, Replace, PassOver, BatchDone,
                    Drained
<1>7. CASE CallFilter \/ Scanning \/ WriterCallsLimit \/ LimitReturnsNone
           \/ UNCHANGED vars
  BY <1>2, <1>7 DEF CallFilter, Scanning, WriterCallsLimit, LimitReturnsNone,
                    Drained, topkVars, vars
<1>8. CASE \/ LimitTakesBatch \/ LimitTakesNone \/ WriterTakesBatch
           \/ WriterTakesNone
  BY <1>2, <1>8 DEF LimitTakesBatch, LimitTakesNone, WriterTakesBatch,
                    WriterTakesNone, TopKReturns, Drained
<1> QED
  BY <1>1, <1>4, <1>5, <1>6, <1>7, <1>8 DEF Next

LEMMA WindowKept ==
    ASSUME QueryInv, QueryInv', AnswerLinks, [Next]_vars
    PROVE  WriterHasWindow'
<1>0. /\ WriterHasWindow /\ BatchStands /\ DrainedMeansRead /\ done \in BOOLEAN
      /\ limit \in Nat /\ offset \in Nat
      /\ returned \in Nat /\ returned <= limit
      /\ skipped \in Nat /\ seen \in Nat
      /\ skipped = IF seen < offset THEN seen ELSE offset
      /\ result \in Seq(Nat) /\ k_limit = limit + offset
      /\ UNCHANGED <<limit, offset>>
  <2>1. /\ limit \in Nat /\ offset \in Nat
      /\ returned \in Nat /\ returned <= limit
        /\ skipped \in Nat /\ seen \in Nat
        /\ skipped = IF seen < offset THEN seen ELSE offset
    BY LimitAssumption DEF QueryInv, LimitInv, LimitTypeOK, SkippedCounts
  <2>2. UNCHANGED <<limit, offset>>
    BY DEF Next, vars, WriterCallsLimit, CallTopK, CallFilter, Scanning,
           FilterReturnsBatch, FilterReturnsNone, TopKLoop, LimitTakesBatch,
           LimitTakesNone, LimitReturnsNone, WriterTakesBatch, WriterTakesNone,
           LimitNext, SkipBatch, ReturnRows, LimitChildEnds, limitVars
  <2> QED
    BY <2>1, <2>2
       DEF AnswerLinks, QueryInv, TopKInv, TopKTypeOK, DrainedMeansRead,
           TopKLimit
\* Before the batch is taken nothing of it is in the file.
<1>1. ~BatchTaken => csv = <<>> /\ (WithLimitOp => returned = 0 /\ seen = 0)
  BY <1>0 DEF WriterHasWindow, WithLimitOp
<1>2. CASE /\ UNCHANGED <<limitVars, csv, writer_done>>
           /\ \/ UNCHANGED result /\ BatchTaken' = BatchTaken
              \/ ~BatchTaken /\ ~BatchTaken'
  <2>1. CASE UNCHANGED result /\ BatchTaken' = BatchTaken
    BY <1>0, <1>2, <2>1 DEF WriterHasWindow, WithLimitOp, limitVars
  <2>2. CASE ~BatchTaken /\ ~BatchTaken'
    BY <1>0, <1>1, <1>2, <2>2 DEF WriterHasWindow, WithLimitOp, limitVars
  <2> QED
    BY <1>2, <2>1, <2>2
<1>3. CASE CallFilter \/ Scanning \/ FilterReturnsBatch \/ TopKLoop \/ UNCHANGED vars
  <2>1. CASE CallFilter \/ Scanning \/ UNCHANGED vars
    BY <1>2, <2>1 DEF CallFilter, Scanning, BatchTaken, Drained, topkVars, vars
  <2>2. CASE FilterReturnsBatch \/ TopKLoop
    BY <1>2, <2>2 DEF FilterReturnsBatch, TopKBatch, TopKLoop, TopKStep, Push,
                      Replace, PassOver, BatchDone, BatchTaken, Drained
  <2> QED
    BY <1>3, <2>1, <2>2
<1>4. CASE FilterReturnsNone
  <2>1. CASE tpc = "more"
    BY <1>2, <1>4, <2>1 DEF FilterReturnsNone, TopKChildEnds, BatchTaken, Drained
  <2>2. CASE tpc = "first"
    <3>1. result = <<>> /\ ~BatchTaken
      BY <1>0, <2>2 DEF BatchStands, BatchTaken, Drained
    <3>2. UNCHANGED <<result, limitVars, csv, writer_done>>
      BY <1>4, <2>2 DEF FilterReturnsNone, TopKChildEnds
    <3> QED
      BY <1>0, <1>1, <3>1, <3>2 DEF WriterHasWindow, WithLimitOp, limitVars
  <2> QED
    BY <1>4, <2>1, <2>2 DEF FilterReturnsNone, TopKChildEnds
<1>5. CASE CallTopK
  BY <1>0, <1>2, <1>5 DEF CallTopK, TopKNext, BatchTaken, Drained
<1>6. CASE WriterCallsLimit
  <2>1. BatchTaken' = BatchTaken /\ UNCHANGED <<result, csv, writer_done>>
    BY <1>6 DEF WriterCallsLimit, BatchTaken, Drained, topkVars
  <2>2. /\ WithLimitOp /\ lpc = "idle"
        /\ lpc' = IF returned < limit THEN "pulling" ELSE "ended"
        /\ UNCHANGED <<returned, seen, output>>
    BY <1>6 DEF WriterCallsLimit, LimitNext
  <2> QED
    BY <1>0, <2>1, <2>2 DEF WriterHasWindow, WithLimitOp
<1>7. CASE LimitReturnsNone
  <2>1. BatchTaken' = BatchTaken /\ UNCHANGED <<result, csv, limitVars>>
    BY <1>7 DEF LimitReturnsNone, BatchTaken, Drained, topkVars
  <2> QED
    BY <1>0, <1>7, <2>1 DEF WriterHasWindow, WithLimitOp, LimitReturnsNone, limitVars
<1>8. CASE LimitTakesBatch
  <2>1. /\ WithLimitOp /\ tpc = "sorted" /\ ~BatchTaken /\ BatchTaken'
        /\ UNCHANGED <<result, writer_done>>
    BY <1>0, <1>8 DEF LimitTakesBatch, TopKReturns, BatchTaken, Drained,
                      DrainedMeansRead
  <2>2. csv = <<>> /\ returned = 0 /\ seen = 0 /\ skipped = 0
    BY <1>0, <1>1, <2>1
  <2>3. lpc = "pulling" /\ ~writer_done
    BY <1>0, <1>8, <2>1 DEF LimitTakesBatch, SkipBatch, ReturnRows, WriterHasWindow
  <2>4. CASE SkipBatch(Len(result)) /\ UNCHANGED csv
    BY <1>0, <2>1, <2>2, <2>3, <2>4 DEF SkipBatch, WriterHasWindow, WithLimitOp
  <2>5. CASE /\ ReturnRows(Len(result))
             /\ csv' = csv \o [i \in 1 .. returned' - returned |->
                                  result[output'[returned + i]]]
    <3>1. Len(result) \in Nat
      BY <1>0
    <3>2. seen' = Len(result) /\ lpc' = "idle" /\ Len(result) > offset
      BY <1>0, <2>2, <2>5, <3>1 DEF ReturnRows
    <3>3. returned' \in Nat /\ offset + returned' <= seen'
      BY <1>0, <2>2, <2>5, <3>1, <3>2 DEF ReturnRows, RowsToReturn, Start
    <3>4. csv' = [i \in 1 .. returned' |-> result[output'[i]]]
      <4> DEFINE s == [i \in 1 .. returned' |-> result[output'[i]]]
      <4>1. csv' = <<>> \o [i \in 1 .. returned' - 0 |-> result[output'[0 + i]]]
        BY <2>2, <2>5
      <4>2. [i \in 1 .. returned' - 0 |-> result[output'[0 + i]]] = s
        BY <3>3
      <4>3. s \in Seq({s[i] : i \in 1 .. returned'})
        BY <3>3
      <4> HIDE DEF s
      <4>4. <<>> \o s = s
        BY <4>3
      <4> QED
        BY <4>1, <4>2, <4>4 DEF s
    <3> QED
      BY <1>0, <2>1, <2>3, <3>2, <3>3, <3>4 DEF WriterHasWindow, WithLimitOp
  <2> QED
    BY <1>8, <2>4, <2>5 DEF LimitTakesBatch
<1>9. CASE LimitTakesNone
  <2>1. /\ WithLimitOp /\ tpc = "none" /\ lpc = "pulling" /\ lpc' = "ended"
        /\ tpc' = "idle" /\ BatchTaken' = BatchTaken
        /\ UNCHANGED <<result, csv, writer_done, returned, seen, output>>
    BY <1>9 DEF LimitTakesNone, TopKReturns, LimitChildEnds, BatchTaken, Drained
  <2>2. BatchTaken
    BY <1>0, <2>1 DEF DrainedMeansRead, WithLimitOp, BatchTaken, Drained
  <2> QED
    BY <1>0, <2>1, <2>2 DEF WriterHasWindow, WithLimitOp
<1>10. CASE WriterTakesBatch
  <2>1. /\ ~WithLimitOp /\ csv' = csv \o result /\ ~BatchTaken /\ BatchTaken'
        /\ UNCHANGED <<result, writer_done, limitVars>>
    BY <1>0, <1>10 DEF WriterTakesBatch, TopKReturns, BatchTaken, Drained,
                       DrainedMeansRead
  <2>2. csv' = result
    BY <1>0, <1>1, <2>1
  <2> QED
    BY <1>0, <2>1, <2>2 DEF WriterHasWindow, WithLimitOp, limitVars
<1>11. CASE WriterTakesNone
  <2>1. /\ ~WithLimitOp /\ tpc = "none" /\ BatchTaken' = BatchTaken
        /\ UNCHANGED <<result, csv, limitVars>>
    BY <1>11 DEF WriterTakesNone, TopKReturns, BatchTaken, Drained
  <2>2. limit = 0 \/ BatchTaken
    BY <1>0, <2>1 DEF DrainedMeansRead, BatchTaken, Drained
  <2> QED
    BY <1>0, <2>1, <2>2 DEF WriterHasWindow, WithLimitOp, limitVars
<1> QED
  BY <1>3, <1>4, <1>5, <1>6, <1>7, <1>8, <1>9, <1>10, <1>11 DEF Next

LEMMA LinksInit == Init => AnswerLinks
<1> SUFFICES ASSUME Init PROVE AnswerLinks
  OBVIOUS
<1>1. InputIsSelected
  <2>1. Passed(0) = {}
    BY DEF Passed
  <2>2. <<>> \in Bijection(1 .. 0, {})
    BY DEF Bijection, Injection, Surjection, IsInjective
  <2>3. spc = "idle" /\ input = <<>> /\ Len(input) = 0 /\ next_row_group = 0
    BY DEF Init, ScanInit, TopKInit
  <2> QED
    BY <2>1, <2>2, <2>3 DEF InputIsSelected
<1>2. DrainedMeansRead /\ BatchStands /\ WriterHasWindow
  BY DEF Init, ScanInit, TopKInit, LimitInit, DrainedMeansRead, BatchStands,
         WriterHasWindow, Drained, BatchTaken
<1> QED
  BY <1>1, <1>2 DEF AnswerLinks

LEMMA AnswerInitInv == Init => QueryInv /\ AnswerLinks
BY QueryInitInv, LinksInit

LEMMA AnswerNextInv ==
    QueryInv /\ AnswerLinks /\ [Next]_vars => QueryInv' /\ AnswerLinks'
<1> SUFFICES ASSUME QueryInv, AnswerLinks, [Next]_vars
             PROVE  QueryInv' /\ AnswerLinks'
  OBVIOUS
<1>1. QueryInv'
  BY QueryNextInv
<1>2. InputIsSelected' /\ DrainedMeansRead' /\ BatchStands' /\ WriterHasWindow'
  BY <1>1, SelectedKept, DrainedKept, BatchKept, WindowKept
<1> QED
  BY <1>1, <1>2 DEF AnswerLinks

-----------------------------------------------------------------------------
(* The answer.                                                               *)

LEMMA SelectedRowsAreRows ==
    ASSUME row_groups \in Seq(RowGroup)
    PROVE  /\ IsFiniteSet(Selected) /\ Cardinality(Selected) \in Nat
           /\ \A place \in Selected : RowAt(place) \in Row
<1> DEFINE G == 1 .. Len(row_groups)
           rows_of(g) == {<<g, i>> : i \in SelectedRows(row_groups[g].rows)}
           all == {rows_of(g) : g \in G}
<1>1. \A g \in G : row_groups[g].rows \in Seq(Row)
  <2>1. \A g \in G : row_groups[g] \in RowGroup
    OBVIOUS
  <2> QED
    BY <2>1, RowGroupAssumption
<1>2. IsFiniteSet(G)
  <2>1. Len(row_groups) \in Nat
    OBVIOUS
  <2> QED
    BY <2>1, FS_Interval
<1>3. ASSUME NEW g \in G PROVE IsFiniteSet(rows_of(g))
  <2> DEFINE S == SelectedRows(row_groups[g].rows)
             f == [i \in S |-> <<g, i>>]
  <2>1. IsFiniteSet(S)
    BY <1>1, SelectedIsFinite
  <2>2. f \in Surjection(S, rows_of(g))
    BY DEF Surjection
  <2> HIDE DEF S, f
  <2> QED
    BY <2>1, <2>2, FS_Surjection
<1>4. IsFiniteSet(all)
  <2> DEFINE f == [g \in G |-> rows_of(g)]
  <2>1. f \in Surjection(G, all)
    BY DEF Surjection
  <2> HIDE DEF f, G, all
  <2> QED
    BY <1>2, <2>1, FS_Surjection
<1>5. Selected = UNION all
  BY DEF Selected, Passed
<1>6. IsFiniteSet(Selected)
  <2>1. \A T \in all : IsFiniteSet(T)
    BY <1>3
  <2> HIDE DEF all
  <2> QED
    BY <1>4, <1>5, <2>1, FS_UNION
<1>7. ASSUME NEW place \in Selected PROVE RowAt(place) \in Row
  <2>1. PICK g \in G : place \in rows_of(g)
    BY <1>5
  <2>2. PICK i \in SelectedRows(row_groups[g].rows) : place = <<g, i>>
    BY <2>1
  <2>3. i \in DOMAIN row_groups[g].rows
    BY <2>2 DEF SelectedRows
  <2>4. row_groups[g].rows[i] \in Row
    <3> DEFINE rows == row_groups[g].rows
    <3>1. rows \in Seq(Row) /\ i \in DOMAIN rows
      BY <1>1, <2>3
    <3> HIDE DEF rows
    <3>2. rows[i] \in Row
      BY <3>1
    <3> QED
      BY <3>2 DEF rows
  <2> QED
    BY <2>2, <2>4 DEF RowAt
<1> QED
  BY <1>6, <1>7, FS_CardinalityType

\* The window of LIMIT and OFFSET over n rows.
LEMMA WindowSize ==
    ASSUME NEW n \in Nat, NEW lim \in Nat, NEW off \in Nat
    PROVE  Cardinality({i \in 1 .. n : off < i /\ i <= off + lim})
               = IF n <= off THEN 0 ELSE IF n < off + lim THEN n - off ELSE lim
<1> DEFINE window == {i \in 1 .. n : off < i /\ i <= off + lim}
           last == IF n < off + lim THEN n ELSE off + lim
<1>1. window = off + 1 .. last
  OBVIOUS
<1>2. Cardinality(off + 1 .. last) = IF off + 1 > last THEN 0 ELSE last - (off + 1) + 1
  <2>1. off + 1 \in Int /\ last \in Int
    OBVIOUS
  <2> HIDE DEF last
  <2> QED
    BY <2>1, FS_Interval
<1> HIDE DEF window
<1>3. Cardinality(window) = IF n <= off THEN 0 ELSE IF n < off + lim THEN n - off ELSE lim
  BY <1>1, <1>2
<1> QED
  BY <1>3 DEF window

\* Whatever is selected has an order: it is an answer to ask for no rows of it.
LEMMA OrderExists ==
    ASSUME row_groups \in Seq(RowGroup)
    PROVE  \E order \in Orders : TRUE
<1> DEFINE val == [place \in Selected |-> RowAt(place)]
<1>1. /\ IsFiniteSet(Selected) /\ val \in [Selected -> Row]
      /\ \A place \in Selected : val[place] = RowAt(place)
  BY SelectedRowsAreRows
<1> HIDE DEF val
<1>2. PICK order \in Bijection(1 .. Cardinality(Selected), Selected) :
          Sorted(val, order)
  BY <1>1, RowsCanBeSorted
<1>3. order \in [1 .. Cardinality(Selected) -> Selected] /\ IsInjective(order)
  BY <1>2 DEF Bijection, Injection
<1>4. \A i, j \in DOMAIN order :
          i < j => ~RowComesBefore(RowAt(order[j]), RowAt(order[i]))
  <2>1. \A i \in DOMAIN order : val[order[i]] = RowAt(order[i])
    BY <1>1, <1>3
  <2> QED
    BY <1>2, <2>1 DEF Sorted
<1> QED
  BY <1>3, <1>4 DEF Orders

\* The file has the places of the window, taken from the batch of Top-K.
LEMMA FileIsWindow ==
    ASSUME QueryInv, AnswerLinks, writer_done, limit > 0
    PROVE  LET size == Cardinality({i \in 1 .. Len(input) :
                                       offset < i /\ i <= offset + limit})
           IN  /\ Drained /\ size \in Nat
               /\ \A i \in 1 .. size : offset + i \in 1 .. Len(result)
               /\ csv = [i \in 1 .. size |-> result[offset + i]]
<1> DEFINE n == Len(input)
           size == Cardinality({i \in 1 .. n : offset < i /\ i <= offset + limit})
<1>1. /\ limit \in Nat /\ offset \in Nat
      /\ returned \in Nat /\ returned <= limit
      /\ seen \in Nat /\ n \in Nat /\ k_limit = limit + offset
      /\ result \in Seq(Nat) /\ Len(result) \in Nat
      /\ output = [i \in 1 .. returned |-> offset + i]
      /\ lpc = "ended" => returned = limit \/ offset + returned >= seen
  BY LimitAssumption
     DEF QueryInv, LimitInv, LimitTypeOK, TopKInv, TopKTypeOK, OutputIsWindow,
         EndedMeansAll, AnswerLinks, DrainedMeansRead, TopKLimit
<1>2. /\ csv = IF WithLimitOp THEN [i \in 1 .. returned |-> result[output[i]]]
               ELSE IF BatchTaken THEN result ELSE <<>>
      /\ WithLimitOp =>
             /\ seen = IF BatchTaken THEN Len(result) ELSE 0
             /\ returned > 0 => offset + returned <= seen
             /\ lpc = "ended" /\ (returned = limit \/ BatchTaken)
      /\ ~WithLimitOp => BatchTaken
  BY <1>1 DEF AnswerLinks, WriterHasWindow
<1>3. BatchTaken /\ Drained
  BY <1>1, <1>2 DEF WithLimitOp, BatchTaken
<1>4. Len(result) = IF limit + offset < n THEN limit + offset ELSE n
  BY <1>1, <1>3 DEF AnswerLinks, BatchStands
<1>5. size = IF n <= offset THEN 0 ELSE IF n < offset + limit THEN n - offset ELSE limit
  <2> HIDE DEF n
  <2> QED
    BY <1>1, WindowSize
<1> HIDE DEF n, size
<1>6. size \in Nat
  BY <1>1, <1>5
<1>7. CASE WithLimitOp
  <2>1. returned = size /\ (returned > 0 => offset + returned <= Len(result))
    BY <1>1, <1>2, <1>3, <1>4, <1>5, <1>7
  <2>2. csv = [i \in 1 .. size |-> result[offset + i]]
    <3>1. \A i \in 1 .. returned : output[i] = offset + i
      BY <1>1
    <3> QED
      BY <1>2, <1>7, <2>1, <3>1
  <2>3. \A i \in 1 .. size : offset + i \in 1 .. Len(result)
    BY <1>1, <2>1
  <2> QED
    BY <1>3, <1>6, <2>2, <2>3 DEF n, size
<1>8. CASE ~WithLimitOp
  <2>1. offset = 0 /\ csv = result /\ Len(result) = size
    BY <1>1, <1>2, <1>4, <1>5, <1>8 DEF WithLimitOp
  <2>2. csv = [i \in 1 .. size |-> result[offset + i]]
    <3>1. result = [i \in 1 .. Len(result) |-> result[i]]
      BY <1>1
    <3> QED
      BY <2>1, <3>1
  <2>3. \A i \in 1 .. size : offset + i \in 1 .. Len(result)
    BY <2>1
  <2> QED
    BY <1>3, <1>6, <2>2, <2>3 DEF n, size
<1> QED
  BY <1>7, <1>8

\* The numbers of the batch, completed to an order of the input, are an order
\* of the selected rows once each is traced back to its place in the file.
LEMMA BatchStartsAnOrder ==
    ASSUME QueryInv, AnswerLinks, Drained
    PROVE  /\ Cardinality(Selected) = Len(input)
           /\ \E order \in Orders :
                  \A i \in 1 .. Len(result) :
                      RowAt(order[i]) = input[result[i]]
<1> DEFINE n == Len(input)
           k == Len(result)
<1>1. /\ input \in Seq(Row) /\ result \in Seq(Nat) /\ n \in Nat /\ k \in Nat
      /\ BatchStands
  BY DEF QueryInv, TopKInv, TopKTypeOK, AnswerLinks
<1>2. PICK from \in Bijection(1 .. n, Selected) :
          \A i \in DOMAIN from : input[i] = RowAt(from[i])
  <2>1. spc # "batch" /\ next_row_group = Len(row_groups)
    BY DEF AnswerLinks, DrainedMeansRead, Drained
  <2> QED
    BY <2>1 DEF AnswerLinks, InputIsSelected, Selected
<1>3. Cardinality(Selected) = n
  BY <1>1, <1>2, FS_CountingElements DEF ExistsBijection
<1>4. /\ from \in [1 .. n -> Selected]
      /\ \A i, j \in 1 .. n : from[i] = from[j] => i = j
  BY <1>2 DEF Bijection, Injection, IsInjective
<1>5. /\ DOMAIN result = 1 .. k
      /\ \A i \in 1 .. k : result[i] \in 1 .. n
      /\ \A i, j \in 1 .. k : /\ result[i] = result[j] => i = j
                              /\ i < j => ~RowComesBefore(input[result[j]],
                                                          input[result[i]])
      /\ \A i \in 1 .. k : \A j \in 1 .. n :
             \/ \E m \in 1 .. k : result[m] = j
             \/ ~RowComesBefore(input[j], input[result[i]])
  <2>1. DOMAIN result = 1 .. k
    BY <1>1
  <2>2. \A j \in 1 .. n : j \in {result[m] : m \in DOMAIN result}
            => \E m \in 1 .. k : result[m] = j
    BY <2>1
  <2> QED
    BY <1>1, <2>1, <2>2 DEF BatchStands, Before
<1>6. result \in Injection(1 .. k, 1 .. n) /\ Sorted(input, result)
  <2>1. result = [i \in 1 .. k |-> result[i]]
    BY <1>1
  <2>2. result \in [1 .. k -> 1 .. n]
    BY <1>5, <2>1
  <2> QED
    BY <1>5, <2>2 DEF Injection, IsInjective, Sorted
<1>7. input \in [1 .. n -> Row]
  BY <1>1
<1>8. PICK order \in Bijection(1 .. n, 1 .. n) :
          Sorted(input, order) /\ \A i \in 1 .. k : order[i] = result[i]
  <2>1. /\ n \in Nat /\ k \in Nat
        /\ \A i \in 1 .. k : \A j \in 1 .. n :
               \/ \E m \in 1 .. k : result[m] = j
               \/ ~RowComesBefore(input[j], input[result[i]])
    BY <1>1, <1>5
  <2> HIDE DEF n, k
  <2> QED
    BY <1>6, <1>7, <2>1, FirstRowsExtend
<1>9. /\ order \in [1 .. n -> 1 .. n]
      /\ \A i, j \in 1 .. n : order[i] = order[j] => i = j
  BY <1>8 DEF Bijection, Injection, IsInjective
<1> DEFINE places == [i \in 1 .. n |-> from[order[i]]]
<1>10. /\ places \in [1 .. n -> Selected]
       /\ \A i, j \in 1 .. n : places[i] = places[j] => i = j
       /\ \A i \in 1 .. n : RowAt(places[i]) = input[order[i]]
  <2> HIDE DEF n
  <2> QED
    BY <1>2, <1>4, <1>9
<1>11. places \in Orders
  <2>1. DOMAIN places = 1 .. n /\ DOMAIN order = 1 .. n
    BY <1>9
  <2> HIDE DEF places, n
  <2> QED
    BY <1>3, <1>8, <1>10, <2>1 DEF Orders, IsInjective, Sorted
<1>12. k <= n
  BY <1>1 DEF BatchStands, QueryInv, TopKInv, TopKTypeOK
<1>13. \A i \in 1 .. k : RowAt(places[i]) = input[result[i]]
  <2> HIDE DEF places, n, k
  <2> QED
    BY <1>1, <1>8, <1>10, <1>12
<1> QED
  BY <1>3, <1>11, <1>13

LEMMA LinksGiveAnswer == QueryInv /\ AnswerLinks => FileHoldsAnswer
<1> DEFINE rows == [i \in DOMAIN csv |-> input[csv[i]]]
           window(n) == {i \in 1 .. n : offset < i /\ i <= offset + limit}
<1> SUFFICES ASSUME QueryInv, AnswerLinks, writer_done PROVE IsAnswer(rows)
  BY DEF FileHoldsAnswer
<1>0. limit \in Nat /\ offset \in Nat
  BY LimitAssumption DEF QueryInv, LimitInv, LimitTypeOK
<1>1. CASE limit = 0
  <2>1. DOMAIN csv = {}
    <3>1. returned = 0 /\ k_limit = limit + offset /\ result \in Seq(Nat)
          /\ Len(input) \in Nat
      BY <1>1 DEF QueryInv, LimitInv, LimitTypeOK, TopKInv, TopKTypeOK,
                  AnswerLinks, DrainedMeansRead, TopKLimit
    <3>2. CASE WithLimitOp
      BY <3>1, <3>2 DEF AnswerLinks, WriterHasWindow
    <3>3. CASE ~WithLimitOp
      <4>1. BatchTaken => Len(result) = 0
        BY <1>1, <3>1, <3>3 DEF AnswerLinks, BatchStands, BatchTaken, WithLimitOp
      <4> QED
        BY <3>1, <3>3, <4>1 DEF AnswerLinks, WriterHasWindow
    <3> QED
      BY <3>2, <3>3
  <2>2. PICK order \in Orders : TRUE
    BY OrderExists DEF QueryInv, ScanInv, ScanTypeOK
  <2>3. window(Cardinality(Selected)) = {}
    BY <1>0, <1>1
  <2>4. rows = [i \in 1 .. Cardinality(window(Cardinality(Selected))) |->
                   RowAt(order[offset + i])]
    <3>1. 1 .. 0 = {} /\ Cardinality({}) = 0
      BY FS_EmptySet
    <3> QED
      BY <2>1, <2>3, <3>1
  <2> QED
    BY <2>2, <2>4 DEF IsAnswer
<1>2. CASE limit > 0
  <2> DEFINE size == Cardinality(window(Len(input)))
  <2>1. /\ Drained
        /\ \A i \in 1 .. size : offset + i \in 1 .. Len(result)
        /\ csv = [i \in 1 .. size |-> result[offset + i]]
    BY <1>2, FileIsWindow
  <2>2. PICK order \in Orders :
            /\ Cardinality(Selected) = Len(input)
            /\ \A i \in 1 .. Len(result) : RowAt(order[i]) = input[result[i]]
    BY <2>1, BatchStartsAnOrder
  <2>3. size = Cardinality(window(Cardinality(Selected)))
    BY <2>2
  <2>4. rows = [i \in 1 .. size |-> RowAt(order[offset + i])]
    <3> HIDE DEF size
    <3> QED
      BY <2>1, <2>2
  <2> QED
    BY <2>2, <2>3, <2>4 DEF IsAnswer
<1> QED
  BY <1>0, <1>1, <1>2

\* What reaches Top-K is the selected rows of the row groups consumed, each
\* once, for every file, constraint and filter: pruning and gathering lose and
\* repeat nothing.
THEOREM ScanDeliversSelected == Spec => []InputIsSelected
<1>1. QueryInv /\ AnswerLinks => InputIsSelected
  BY DEF AnswerLinks
<1> QED
  BY <1>1, AnswerInitInv, AnswerNextInv, PTL DEF Spec

\* The file the query leaves is the answer: for every file, predicate, list of
\* sort keys, limit and offset, the window of some sorted order of the rows
\* that satisfy the predicate.
THEOREM FileIsAnswer == Spec => []FileHoldsAnswer
<1> QED
  BY LinksGiveAnswer, AnswerInitInv, AnswerNextInv, PTL DEF Spec
=============================================================================
