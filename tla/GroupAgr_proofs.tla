-------------------------- MODULE GroupAgr_proofs --------------------------
(* The GROUP BY operator, over every child: it uses its hash table as the    *)
(* table's specification allows, the state of every group is of exactly the  *)
(* rows with the group's key, and between two rows its columns are the       *)
(* answer that GroupBy defines: the operator implements it.                  *)
EXTENDS GroupAgr, CompactGroupTable_proofs, WellFoundedInduction

\* A step of the operator is one of the table, or leaves it alone.
LEMMA OperatorDrivesTable ==
    ASSUME TypeOK, [Next]_vars
    PROVE  [TableNext]_tableVars
<1>1. CASE \E n \in 0 .. MaxBatch : FirstBatch(n)
  <2>1. PICK n \in 0 .. MaxBatch : FirstBatch(n)
    BY <1>1
  <2>2. InitialCompactGroupReserve(n) \in Reserves
    BY ReserveAssumption DEF InitialCompactGroupReserve
  <2> QED
    BY <2>1, <2>2 DEF FirstBatch, TableNext
<1>2. CASE \E r \in Row : StartRow(r)
  BY <1>2, RowAssumption DEF StartRow, TableNext
<1>3. CASE Step
  BY <1>3 DEF Step, AddGroup, UpdateGroup, TableNext
<1>4. CASE NoInput \/ ReturnResult \/ (\E n \in 0 .. MaxBatch : NextBatch(n))
  BY <1>4 DEF NoInput, ReturnResult, NextBatch, tableVars
<1>5. CASE UNCHANGED vars
  BY <1>5 DEF vars
<1> QED
  BY <1>1, <1>2, <1>3, <1>4, <1>5 DEF Next

\* The steps of a call leave the caller's columns alone, and only FindSlot's
\* last one answers "found".
LEMMA CallsKeepColumns ==
    ASSUME TableStep
    PROVE  /\ UNCHANGED <<columns, key>> /\ pc # "unbuilt" /\ pc' # "unbuilt"
           /\ pc \in {"reserve", "idle"} => pc' \in {"reserve", "idle"}
           /\ pc' = "found" => Found
BY DEF TableStep, CapacityForDoubles, ReserveEnds, Grow, RehashSkipsFree,
       RehashTakesGroup, FindEmptySlotWalks, RehashPlaces, RehashEnds,
       FindSlotStarts, FindSlotWalks, Found, Insert, StartProbe

\* The new row is one of its key's, and of no other's.
LEMMA RowsGrow ==
    ASSUME rows \in Seq(Row), FinishRow, NEW v
    PROVE  /\ Len(rows) + 1 \notin RowsOf(v)
           /\ RowsOf(v)' = IF key = v THEN RowsOf(v) \cup {Len(rows) + 1}
                           ELSE RowsOf(v)
           /\ \A i \in RowsOf(v) : rows'[i].arg = rows[i].arg
           /\ rows'[Len(rows) + 1].arg = arg
<1> DEFINE r == [key |-> key, arg |-> arg]
<1>1. /\ rows' = Append(rows, r) /\ Len(rows) \in Nat
      /\ DOMAIN rows = 1 .. Len(rows) /\ DOMAIN rows' = 1 .. Len(rows) + 1
      /\ \A i \in 1 .. Len(rows) : rows'[i] = rows[i]
      /\ rows'[Len(rows) + 1] = r
  BY DEF FinishRow
<1>2. r.key = key /\ r.arg = arg
  OBVIOUS
<1> HIDE DEF r
<1> QED
  BY <1>1, <1>2 DEF RowsOf

\* RowsOf is a finite set.
LEMMA RowsAreFinite ==
    ASSUME rows \in Seq(Row), NEW v
    PROVE  IsFiniteSet(RowsOf(v)) /\ Cardinality(RowsOf(v)) \in Nat
<1>1. Len(rows) \in Nat /\ DOMAIN rows = 1 .. Len(rows)
  OBVIOUS
<1>2. IsFiniteSet(1 .. Len(rows)) /\ RowsOf(v) \subseteq 1 .. Len(rows)
  BY <1>1, FS_Interval DEF RowsOf
<1> QED
  BY <1>2, FS_Subset, FS_CardinalityType

\* Count and values of a group whose key is v, after a row.
LEMMA GroupGrows ==
    ASSUME rows \in Seq(Row), FinishRow, NEW v
    PROVE  /\ key = v =>
                 /\ Cardinality(RowsOf(v))' = Cardinality(RowsOf(v)) + 1
                 /\ {rows[i].arg : i \in RowsOf(v)}' =
                        {rows[i].arg : i \in RowsOf(v)} \cup {arg}
           /\ key # v =>
                 /\ Cardinality(RowsOf(v))' = Cardinality(RowsOf(v))
                 /\ {rows[i].arg : i \in RowsOf(v)}' =
                        {rows[i].arg : i \in RowsOf(v)}
<1> DEFINE n == Len(rows) + 1
<1>1. /\ n \notin RowsOf(v)
      /\ RowsOf(v)' = IF key = v THEN RowsOf(v) \cup {n} ELSE RowsOf(v)
      /\ \A i \in RowsOf(v) : rows'[i].arg = rows[i].arg
      /\ rows'[n].arg = arg
  BY RowsGrow
<1>2. IsFiniteSet(RowsOf(v)) /\ Cardinality(RowsOf(v)) \in Nat
  BY RowsAreFinite
<1> HIDE DEF n
<1>3. CASE key = v
  <2>1. Cardinality(RowsOf(v) \cup {n}) = Cardinality(RowsOf(v)) + 1
    BY <1>1, <1>2, FS_AddElement
  <2>2. {rows'[i].arg : i \in RowsOf(v)'} =
            {rows[i].arg : i \in RowsOf(v)} \cup {arg}
    BY <1>1, <1>3
  <2> QED
    BY <1>1, <1>3, <2>1, <2>2
<1>4. CASE key # v
  <2>1. {rows'[i].arg : i \in RowsOf(v)'} = {rows[i].arg : i \in RowsOf(v)}
    BY <1>1, <1>4
  <2> QED
    BY <1>1, <1>4, <2>1
<1> QED
  BY <1>3, <1>4

\* A row of another key leaves a state right; one of its own key belongs in it.
LEMMA StateGrows ==
    ASSUME rows \in Seq(Row), FinishRow, NEW st \in State, NEW v,
           StateIsOf(st, v), NEW a \in Int, arg = a
    PROVE  /\ key # v \/ v \in NotSelfEqual => StateIsOf(st, v)'
           /\ key = v => StateIsOf(Updated(st, a), v)'
<1>1. /\ key = v =>
            /\ Cardinality(RowsOf(v))' = Cardinality(RowsOf(v)) + 1
            /\ {rows[i].arg : i \in RowsOf(v)}' =
                   {rows[i].arg : i \in RowsOf(v)} \cup {a}
      /\ key # v =>
            /\ Cardinality(RowsOf(v))' = Cardinality(RowsOf(v))
            /\ {rows[i].arg : i \in RowsOf(v)}' =
                   {rows[i].arg : i \in RowsOf(v)}
  BY GroupGrows
<1>2. Cardinality(RowsOf(v)) \in Nat
  BY RowsAreFinite
<1>3. /\ st.count \in Nat /\ st.sum \in Int /\ st.min \in Int /\ st.max \in Int
      /\ st.distinct \subseteq Int
  BY DEF State
<1>4. key # v \/ v \in NotSelfEqual => StateIsOf(st, v)'
  <2>1. CASE v \in NotSelfEqual
    BY <2>1 DEF StateIsOf
  <2>2. CASE key # v
    BY <1>1, <2>2 DEF StateIsOf
  <2> QED
    BY <2>1, <2>2
<1>5. ASSUME key = v PROVE StateIsOf(Updated(st, a), v)'
  <2> DEFINE u == Updated(st, a)
  <2>1. /\ u.count = st.count + 1 /\ u.distinct = st.distinct \cup {a}
        /\ u.min = IF a < st.min THEN a ELSE st.min
        /\ u.max = IF a > st.max THEN a ELSE st.max
    BY DEF Updated
  <2> HIDE DEF u
  <2>2. /\ u.min \in u.distinct /\ u.max \in u.distinct
        /\ \A b \in u.distinct : u.min <= b /\ b <= u.max
    BY <1>3, <2>1 DEF StateIsOf
  <2>3. v \notin NotSelfEqual =>
            /\ u.count = Cardinality(RowsOf(v))'
            /\ u.distinct = {rows[i].arg : i \in RowsOf(v)}'
    BY <1>1, <1>5, <2>1 DEF StateIsOf
  <2>4. StateIsOf(u, v)'
    BY <2>2, <2>3 DEF StateIsOf
  <2> QED
    BY <2>4 DEF u
<1> QED
  BY <1>4, <1>5

\* A group opened by its first row.
LEMMA NewStateIsOfRow ==
    ASSUME rows \in Seq(Row), FinishRow, NEW v, key = v,
           v \notin NotSelfEqual => RowsOf(v) = {}, NEW a \in Int, arg = a
    PROVE  StateIsOf(NewState(a), v)'
<1>1. v \notin NotSelfEqual =>
          /\ Cardinality(RowsOf(v))' = 1
          /\ {rows[i].arg : i \in RowsOf(v)}' = {a}
  <2> SUFFICES ASSUME v \notin NotSelfEqual
               PROVE  /\ Cardinality(RowsOf(v))' = 1
                      /\ {rows[i].arg : i \in RowsOf(v)}' = {a}
    OBVIOUS
  <2>1. /\ Cardinality(RowsOf(v))' = Cardinality(RowsOf(v)) + 1
        /\ {rows[i].arg : i \in RowsOf(v)}' =
               {rows[i].arg : i \in RowsOf(v)} \cup {a}
    BY GroupGrows
  <2>2. Cardinality(RowsOf(v)) = 0 /\ {rows[i].arg : i \in RowsOf(v)} = {}
    BY FS_EmptySet
  <2>3. Cardinality(RowsOf(v))' = 1
    BY <2>1, <2>2
  <2>4. {rows[i].arg : i \in RowsOf(v)}' = {} \cup {a}
    BY <2>1, <2>2
  <2> QED
    BY <2>3, <2>4
<1> DEFINE u == NewState(a)
<1>2. /\ u.count = 1 /\ u.distinct = {a} /\ u.min = a /\ u.max = a
  BY DEF NewState
<1> HIDE DEF u
<1>3. /\ u.min \in u.distinct /\ u.max \in u.distinct
      /\ \A b \in u.distinct : u.min <= b /\ b <= u.max
  BY <1>2
<1>4. v \notin NotSelfEqual =>
          /\ u.count = Cardinality(RowsOf(v))'
          /\ u.distinct = {rows[i].arg : i \in RowsOf(v)}'
  BY <1>1, <1>2
<1>5. StateIsOf(u, v)'
  BY <1>3, <1>4 DEF StateIsOf
<1> QED
  BY <1>5 DEF u

-----------------------------------------------------------------------------
(* The two ways a row ends.                                                  *)

\* The types the lemmas below read off the invariant.
LEMMA RowFacts ==
    ASSUME AgrInv
    PROVE  /\ columns \in Seq(Value) /\ Len(columns) \in Nat
           /\ DOMAIN columns = 1 .. Len(columns)
           /\ acc \in Seq(State) /\ DOMAIN acc = DOMAIN columns
           /\ rows \in Seq(Row) /\ arg \in Int /\ key \in Value
BY DEF AgrInv, TypeOK, TableTypeOK

\* What FinishRow adds to the history has a group when its key has.
LEMMA FinishedRowsHaveGroups ==
    ASSUME AgrInv, FinishRow,
           \A g \in DOMAIN columns :
               g \in DOMAIN columns' /\ columns'[g] = columns[g],
           \E g \in DOMAIN columns' : columns'[g] = key
    PROVE  RowsHaveGroups'
<1> DEFINE r == [key |-> key, arg |-> arg]
<1>1. /\ rows \in Seq(Row) /\ rows' = Append(rows, r) /\ r.key = key
  BY RowFacts DEF FinishRow
<1>2. RowsHaveGroups
  BY DEF AgrInv
<1> HIDE DEF r
<1> SUFFICES ASSUME NEW i \in DOMAIN rows'
             PROVE  \E g \in DOMAIN columns' : columns'[g] = rows'[i].key
  BY DEF RowsHaveGroups
<1>3. CASE i = Len(rows) + 1
  BY <1>1, <1>3
<1>4. CASE i \in DOMAIN rows
  <2>1. rows'[i] = rows[i]
    BY <1>1, <1>4
  <2>2. PICK g \in DOMAIN columns : columns[g] = rows[i].key
    BY <1>2, <1>4 DEF RowsHaveGroups
  <2> QED
    BY <2>1, <2>2
<1> QED
  BY <1>1, <1>3, <1>4

\* A row that opened a group: no row before it had its key.
LEMMA AddGroupKeeps ==
    ASSUME AgrInv, AddGroup
    PROVE  StatesHoldTheirRows' /\ RowsHaveGroups'
<1> DEFINE n == Len(columns) + 1
<1>1. /\ columns' = Append(columns, key) /\ acc' = Append(acc, NewState(arg))
      /\ FinishRow /\ pc = "inserted"
  BY DEF AddGroup, AppendGroupKey
<1>2. /\ DOMAIN columns' = 1 .. n /\ DOMAIN columns = 1 .. n - 1 /\ n \in 1 .. n
      /\ \A g \in 1 .. n - 1 : columns'[g] = columns[g] /\ acc'[g] = acc[g]
      /\ columns'[n] = key /\ acc'[n] = NewState(arg)
  <2>1. Len(acc) = Len(columns)
    BY RowFacts
  <2> QED
    BY <1>1, <2>1, RowFacts
<1>3. key \notin NotSelfEqual => \A g \in DOMAIN columns : columns[g] # key
  BY <1>1 DEF AgrInv, TableInv, InsertedIsNew
<1>4. key \notin NotSelfEqual => RowsOf(key) = {}
  BY <1>3 DEF AgrInv, RowsHaveGroups, RowsOf
<1> HIDE DEF n
<1>5. ASSUME NEW g \in 1 .. n PROVE StateIsOf(acc[g], columns[g])'
  <2>1. CASE g = n
    <3>1. PICK v, a : v = key /\ a = arg
      OBVIOUS
    <3>2. StateIsOf(NewState(a), v)'
      BY <1>1, <1>4, <3>1, RowFacts, NewStateIsOfRow
    <3> QED
      BY <1>2, <2>1, <3>1, <3>2 DEF StateIsOf, RowsOf
  <2>2. CASE g \in 1 .. n - 1
    <3>1. PICK v, st, a : v = columns[g] /\ st = acc[g] /\ a = arg
      OBVIOUS
    <3>2. StateIsOf(st, v) /\ st \in State /\ a \in Int
      BY <1>2, <2>2, <3>1, RowFacts DEF AgrInv, StatesHoldTheirRows
    <3>3. key # v \/ v \in NotSelfEqual
      BY <1>2, <1>3, <2>2, <3>1
    <3>4. StateIsOf(st, v)'
      BY <1>1, <3>1, <3>2, <3>3, RowFacts, StateGrows
    <3> QED
      BY <1>2, <2>2, <3>1, <3>4 DEF StateIsOf, RowsOf
  <2> QED
    BY <2>1, <2>2, RowFacts DEF n
<1>6. StatesHoldTheirRows'
  BY <1>2, <1>5 DEF StatesHoldTheirRows
<1>7. RowsHaveGroups'
  BY <1>1, <1>2, FinishedRowsHaveGroups, RowFacts
<1> QED
  BY <1>6, <1>7

\* The group a lookup answers with is the one of its key.
LEMMA FoundIsOfKey ==
    ASSUME AgrInv, pc = "found"
    PROVE  /\ slots[slot_idx] \in DOMAIN columns
           /\ columns[slots[slot_idx]] = key
           /\ key \notin NotSelfEqual
<1> DEFINE h == slots[slot_idx]
<1>1. /\ slot_idx \in Slot /\ h # 0
      /\ columns[h] = key /\ key \notin NotSelfEqual
  BY DEF AgrInv, FoundMatches, Matches, Free
<1>2. /\ slots \in [Slot -> 0 .. Len(keys)] /\ Len(keys) = Len(columns)
  BY DEF AgrInv, TypeOK, TableTypeOK, Built
<1> HIDE DEF h
<1>3. h \in 0 .. Len(columns)
  BY <1>1, <1>2 DEF h
<1>4. h \in DOMAIN columns
  BY <1>1, <1>3, RowFacts
<1> QED
  BY <1>1, <1>4 DEF h

\* A row of a group that exists: the group's state alone changes.
LEMMA UpdateGroupKeeps ==
    ASSUME AgrInv, UpdateGroup
    PROVE  StatesHoldTheirRows' /\ RowsHaveGroups' /\ acc' \in Seq(State)
           /\ Len(acc') = Len(acc)
<1> DEFINE h == slots[slot_idx]
<1>1. /\ acc' = [acc EXCEPT ![h] = Updated(@, arg)]
      /\ FinishRow /\ pc = "found" /\ columns' = columns
  BY DEF UpdateGroup, UseGroup
<1>2. h \in DOMAIN columns /\ columns[h] = key /\ key \notin NotSelfEqual
  BY <1>1, FoundIsOfKey
<1> HIDE DEF h
<1>3. Updated(acc[h], arg) \in State
  <2>1. acc[h] \in State /\ arg \in Int
    BY <1>2, RowFacts
  <2> QED
    BY <2>1 DEF State, Updated
<1>4. /\ acc' \in Seq(State) /\ Len(acc') = Len(acc)
      /\ acc'[h] = Updated(acc[h], arg)
      /\ \A g \in DOMAIN columns \ {h} : acc'[g] = acc[g]
  BY <1>1, <1>2, <1>3, RowFacts
<1>5. ASSUME NEW g \in DOMAIN columns PROVE StateIsOf(acc[g], columns[g])'
  <2>1. PICK v, st, a : v = columns[g] /\ st = acc[g] /\ a = arg
    OBVIOUS
  <2>2. StateIsOf(st, v) /\ st \in State /\ a \in Int
    BY <2>1, RowFacts DEF AgrInv, StatesHoldTheirRows
  <2>3. CASE g = h
    <3>1. StateIsOf(Updated(st, a), v)'
      BY <1>1, <1>2, <2>1, <2>2, <2>3, RowFacts, StateGrows
    <3> QED
      BY <1>1, <1>4, <2>1, <2>3, <3>1 DEF StateIsOf, RowsOf
  <2>4. CASE g # h
    <3>1. columns[g] # key
      BY <1>2, <2>4 DEF AgrInv, TableInv, GroupsDistinct
    <3>2. StateIsOf(st, v)'
      BY <1>1, <2>1, <2>2, <3>1, RowFacts, StateGrows
    <3> QED
      BY <1>1, <1>4, <2>1, <2>4, <3>2 DEF StateIsOf, RowsOf
  <2> QED
    BY <2>3, <2>4
<1>6. StatesHoldTheirRows'
  BY <1>1, <1>5 DEF StatesHoldTheirRows
<1>7. RowsHaveGroups'
  BY <1>1, <1>2, FinishedRowsHaveGroups
<1> QED
  BY <1>4, <1>6, <1>7

-----------------------------------------------------------------------------
(* The invariant.                                                            *)

\* No row and no group yet.
LEMMA AgrInitInv == Init => AgrInv
<1> SUFFICES ASSUME Init PROVE AgrInv
  OBVIOUS
<1>1. TableInv
  BY InitInv DEF Init
<1>2. /\ columns = <<>> /\ rows = <<>> /\ acc = <<>> /\ pc = "unbuilt"
  BY DEF Init, TableInit
<1>3. TypeOK
  BY <1>1, <1>2 DEF TypeOK, TableInv, Init
<1>4. StatesHoldTheirRows /\ RowsHaveGroups /\ RowInHand /\ FoundMatches
  BY <1>2 DEF StatesHoldTheirRows, RowsHaveGroups, RowInHand, FoundMatches
<1> QED
  BY <1>1, <1>3, <1>4 DEF AgrInv

\* A step of the table within a call.
LEMMA CallStepKeeps ==
    ASSUME AgrInv, TableInv', TableStep, UNCHANGED agrVars
    PROVE  AgrInv'
<1>1. /\ UNCHANGED <<columns, key, phase, left, arg, acc, rows>>
      /\ pc # "unbuilt"
      /\ pc \in {"reserve", "idle"} => pc' \in {"reserve", "idle"}
      /\ pc' = "found" => Found
  BY CallsKeepColumns DEF agrVars
<1>2. TypeOK'
  BY <1>1 DEF AgrInv, TypeOK, TableInv
<1>3. RowInHand'
  BY <1>1 DEF AgrInv, RowInHand
<1>4. FoundMatches'
  <2> SUFFICES ASSUME Found PROVE FoundMatches'
    BY <1>1 DEF FoundMatches
  <2>1. /\ slot_idx \in Slot /\ slots[slot_idx] # Free
        /\ Matches(slots[slot_idx], key)
        /\ UNCHANGED <<slots, slot_idx, capacity, keys, columns, key>>
    BY DEF AgrInv, TypeOK, TableTypeOK, Found
  <2> QED
    BY <2>1 DEF FoundMatches, Slot, Matches
<1>5. StatesHoldTheirRows' /\ RowsHaveGroups'
  BY <1>1 DEF AgrInv, StatesHoldTheirRows, StateIsOf, RowsOf, RowsHaveGroups
<1> QED
  BY <1>2, <1>3, <1>4, <1>5 DEF AgrInv

\* What the operator does between rows: it gets a batch, begins a row, ends.
LEMMA BetweenRowsKeeps ==
    ASSUME AgrInv, TableInv',
           \/ \E n \in 0 .. MaxBatch : FirstBatch(n) \/ NextBatch(n)
           \/ NoInput \/ ReturnResult \/ UNCHANGED vars
           \/ \E r \in Row : StartRow(r)
    PROVE  AgrInv'
<1>1. UNCHANGED <<columns, acc, rows>>
  BY DEF FirstBatch, Construct, NextBatch, NoInput, ReturnResult, vars,
         tableVars, agrVars, StartRow, FindOrInsert
<1>2. StatesHoldTheirRows' /\ RowsHaveGroups'
  BY <1>1 DEF AgrInv, StatesHoldTheirRows, StateIsOf, RowsOf, RowsHaveGroups
<1>3. TypeOK' /\ RowInHand' /\ FoundMatches'
  <2>1. CASE \E r \in Row : StartRow(r)
    <3>1. PICK r \in Row : StartRow(r)
      BY <2>1
    <3>2. /\ r = [key |-> r.key, arg |-> r.arg] /\ r.arg \in Int
      BY RowAssumption
    <3>3. /\ pc' = "call" /\ key' = r.key /\ arg' = r.arg
          /\ left' = left - 1 /\ left > 0 /\ phase' = phase
          /\ phase = "running"
      BY <3>1 DEF StartRow, FindOrInsert
    <3>4. TypeOK'
      BY <1>1, <3>2, <3>3 DEF AgrInv, TypeOK, TableInv
    <3>5. RowInHand' /\ FoundMatches'
      BY <3>2, <3>3 DEF RowInHand, FoundMatches
    <3> QED
      BY <3>4, <3>5
  <2>2. CASE \E n \in 0 .. MaxBatch : FirstBatch(n)
    <3>1. PICK n \in 0 .. MaxBatch : FirstBatch(n)
      BY <2>2
    <3>2. /\ pc' = "reserve" /\ phase' = "running" /\ left' = n /\ n \in Nat
          /\ arg' = arg
      BY <3>1, ReserveAssumption DEF FirstBatch, Construct
    <3> QED
      BY <1>1, <3>2 DEF AgrInv, TypeOK, TableInv, RowInHand, FoundMatches
  <2>3. CASE \E n \in 0 .. MaxBatch : NextBatch(n)
    <3>1. PICK n \in 0 .. MaxBatch : NextBatch(n)
      BY <2>3
    <3>2. /\ UNCHANGED <<tableVars, phase, arg>> /\ left' = n /\ n \in Nat
      BY <3>1, ReserveAssumption DEF NextBatch
    <3> QED
      BY <1>1, <3>2 DEF AgrInv, TypeOK, TableInv, RowInHand, FoundMatches,
                        tableVars, Slot, Matches
  <2>4. CASE NoInput \/ ReturnResult \/ UNCHANGED vars
    <3>1. /\ UNCHANGED <<tableVars, left, arg>>
          /\ phase' = "done" \/ phase' = phase
      BY <2>4 DEF NoInput, ReturnResult, vars, agrVars
    <3> QED
      BY <1>1, <3>1 DEF AgrInv, TypeOK, TableInv, RowInHand, FoundMatches,
                        tableVars, Slot, Matches
  <2> QED
    BY <2>1, <2>2, <2>3, <2>4
<1> QED
  BY <1>2, <1>3 DEF AgrInv

\* The end of a row.
LEMMA RowEndKeeps ==
    ASSUME AgrInv, TableInv', AddGroup \/ UpdateGroup
    PROVE  AgrInv'
<1>1. StatesHoldTheirRows' /\ RowsHaveGroups'
  BY AddGroupKeeps, UpdateGroupKeeps
<1>2. /\ pc' = "idle" /\ UNCHANGED <<phase, left, arg>> /\ FinishRow
      /\ pc \in {"inserted", "found"}
  BY DEF AddGroup, UpdateGroup, AppendGroupKey, UseGroup
<1>3. rows' \in Seq(Row)
  <2>1. [key |-> key, arg |-> arg] \in Row /\ rows \in Seq(Row)
    BY <1>2, RowFacts DEF AgrInv, RowInHand
  <2> QED
    BY <1>2, <2>1 DEF FinishRow
<1>4. acc' \in Seq(State) /\ Len(acc') = Len(columns')
  <2>1. CASE AddGroup
    <3>1. columns' = Append(columns, key) /\ acc' = Append(acc, NewState(arg))
      BY <2>1 DEF AddGroup, AppendGroupKey
    <3>2. NewState(arg) \in State
      BY RowFacts DEF NewState, State
    <3>3. Len(acc) = Len(columns)
      BY DEF AgrInv, TypeOK
    <3> QED
      BY <3>1, <3>2, <3>3, RowFacts
  <2>2. CASE UpdateGroup
    <3>1. columns' = columns
      BY <2>2 DEF UpdateGroup, UseGroup
    <3> QED
      BY <2>2, <3>1, UpdateGroupKeeps DEF AgrInv, TypeOK
  <2> QED
    BY <2>1, <2>2
<1>5. TypeOK'
  BY <1>2, <1>3, <1>4 DEF AgrInv, TypeOK, TableInv, TableTypeOK
<1>6. RowInHand' /\ FoundMatches'
  BY <1>2 DEF RowInHand, FoundMatches
<1> QED
  BY <1>1, <1>5, <1>6 DEF AgrInv

\* Every step keeps the invariant; the table's part is the table's own proof.
LEMMA AgrNextInv == AgrInv /\ [Next]_vars => AgrInv'
<1> SUFFICES ASSUME AgrInv, [Next]_vars PROVE AgrInv'
  OBVIOUS
<1>1. TableInv'
  BY OperatorDrivesTable, NextInv DEF AgrInv
<1> QED
  BY <1>1, CallStepKeeps, BetweenRowsKeeps, RowEndKeeps DEF Next, Step

-----------------------------------------------------------------------------
(* The theorems.                                                             *)

\* The operator, over any child that returns batches of any sizes: table,
\* key columns, accumulator and history agree after every step.
THEOREM OperatorInvariant == Spec => []AgrInv
<1> QED
  BY AgrInitInv, AgrNextInv, PTL DEF Spec

\* Types, and one accumulator state per key value (group_agr_op.cpp:80).
THEOREM OperatorTypesAreOK == Spec => []TypeOK
<1>1. AgrInv => TypeOK
  BY DEF AgrInv
<1> QED
  BY <1>1, OperatorInvariant, PTL

\* Driven by the operator, the table keeps its chains, loses and doubles no
\* group in a growth, and always has a free slot for a walk to end at.
THEOREM TableIsUsedRightly ==
    Spec => [](ProbeChainsIntact /\ SlotsAndGroupsMatch /\ FreeSlotExists)
<1>1. AgrInv => ProbeChainsIntact /\ SlotsAndGroupsMatch /\ FreeSlotExists
  BY FreeSlotByPigeonhole DEF AgrInv, TableInv
<1> QED
  BY <1>1, OperatorInvariant, PTL

\* No key value has two lines in the output of a query.
THEOREM OneLinePerKey == Spec => []GroupsDistinct
<1>1. AgrInv => GroupsDistinct
  BY DEF AgrInv, TableInv
<1> QED
  BY <1>1, OperatorInvariant, PTL

\* COUNT, MIN, MAX and COUNT DISTINCT of a line are those of exactly the rows
\* with its key, and every row has a line: no row is lost in a growth, counted
\* twice or counted in the line of another key it collides with.
THEOREM LinesHoldTheirRows == Spec => [](StatesHoldTheirRows /\ RowsHaveGroups)
<1>1. AgrInv => StatesHoldTheirRows /\ RowsHaveGroups
  BY DEF AgrInv
<1> QED
  BY <1>1, OperatorInvariant, PTL

-----------------------------------------------------------------------------
(* Sums over sets of rows.                                                   *)

\* Induction up to n, for a set of numbers.
LEMMA UpTo ==
    ASSUME NEW n \in Nat, NEW T, 0 \in T,
           \A k \in 0 .. n - 1 : k \in T => k + 1 \in T
    PROVE  0 .. n \subseteq T
<1> DEFINE Missing == (0 .. n) \ T
<1>1. SUFFICES ASSUME Missing # {} PROVE FALSE
  OBVIOUS
<1>2. PICK k \in Missing : \A j \in Missing : ~(j < k)
  <2>1. Missing \subseteq Nat
    OBVIOUS
  <2> HIDE DEF Missing
  <2>2. \E k \in Missing : \A j \in Missing : ~(<<j, k>> \in OpToRel(<, Nat))
    BY <1>1, <2>1, NatLessThanWellFounded, WFMin
  <2> QED
    BY <2>1, <2>2 DEF OpToRel
<1>3. k \in 1 .. n /\ k - 1 \in 0 .. n - 1
  OBVIOUS
<1>4. k - 1 \in T
  BY <1>2, <1>3
<1> QED
  BY <1>3, <1>4

\* The sum GroupBy takes over the rows of a group.
SumOver(rs, S) == Promise!MapThenSumSet(LAMBDA j : rs[j].arg, S)

\* G holds the sums over the subsets of S, in whichever order they are taken.
AreSums(rs, G, S) ==
    \A s \in SUBSET S :
        /\ G[s] \in Int
        /\ s = {} => G[s] = 0
        /\ \A x \in s : G[s] = rs[x].arg + G[s \ {x}]

\* There are such sums: the order of addition does not matter.
LEMMA SumsExist ==
    ASSUME NEW n \in Nat, NEW rs, \A i \in 1 .. n : rs[i].arg \in Int
    PROVE  \E G : AreSums(rs, G, 1 .. n)
<1> DEFINE T == {k \in 0 .. n : \E G : AreSums(rs, G, 1 .. k)}
<1>1. 0 \in T
  <2> DEFINE G == [s \in {{}} |-> 0]
  <2>1. SUBSET (1 .. 0) = {{}}
    OBVIOUS
  <2>2. AreSums(rs, G, 1 .. 0)
    BY <2>1 DEF AreSums
  <2> QED
    BY <2>2
<1>2. ASSUME NEW k \in 0 .. n - 1, k \in T PROVE k + 1 \in T
  <2>1. PICK F : AreSums(rs, F, 1 .. k)
    BY <1>2
  <2> DEFINE m == k + 1
             a == rs[m].arg
             G == [s \in SUBSET (1 .. m) |->
                      IF m \in s THEN a + F[s \ {m}] ELSE F[s]]
  <2>2. /\ m \in 1 .. n /\ a \in Int /\ m \notin 1 .. k
        /\ \A x \in 1 .. m : x = m \/ x \in 1 .. k
    OBVIOUS
  <2>3. \A x \in 1 .. k : rs[x].arg \in Int
    OBVIOUS
  <2> HIDE DEF m, a
  <2>4. ASSUME NEW s \in SUBSET (1 .. m)
        PROVE  /\ G[s] \in Int
               /\ s = {} => G[s] = 0
               /\ \A x \in s : G[s] = rs[x].arg + G[s \ {x}]
    <3>1. s \ {m} \in SUBSET (1 .. k) /\ (m \notin s => s \in SUBSET (1 .. k))
      BY <2>2
    <3>2. G[s] \in Int /\ (s = {} => G[s] = 0)
      BY <2>1, <2>2, <3>1 DEF AreSums
    <3>3. ASSUME NEW x \in s PROVE G[s] = rs[x].arg + G[s \ {x}]
      <4> DEFINE t == s \ {x}
      <4>1. t \in SUBSET (1 .. m)
        OBVIOUS
      <4>2. CASE x = m
        <5>1. G[t] = F[t] /\ G[s] = a + F[t]
          BY <4>1, <4>2
        <5> QED
          BY <4>2, <5>1 DEF a
      <4>3. CASE x # m /\ m \in s
        <5>1. /\ G[s] = a + F[s \ {m}] /\ G[t] = a + F[t \ {m}]
              /\ t \ {m} = (s \ {m}) \ {x}
          BY <4>1, <4>3
        <5>2. x \in 1 .. k /\ rs[x].arg \in Int
          BY <2>2, <2>3, <4>3
        <5>3. F[s \ {m}] = rs[x].arg + F[(s \ {m}) \ {x}]
          BY <2>1, <3>1, <4>3 DEF AreSums
        <5>4. (s \ {m}) \ {x} \in SUBSET (1 .. k)
          BY <3>1
        <5>5. F[(s \ {m}) \ {x}] \in Int
          BY <2>1, <5>4 DEF AreSums
        <5> DEFINE f == F[(s \ {m}) \ {x}]
        <5>6. G[s] = a + (rs[x].arg + f)
          BY <5>1, <5>3
        <5>7. G[t] = a + f
          BY <5>1
        <5> HIDE DEF G, t, f
        <5>8. G[s] = rs[x].arg + G[t]
          BY <2>2, <5>2, <5>5, <5>6, <5>7 DEF f
        <5> USE DEF t
        <5> QED
          BY <5>8
      <4>4. CASE m \notin s
        <5>1. G[s] = F[s] /\ G[t] = F[t]
          BY <4>1, <4>4
        <5>2. F[s] = rs[x].arg + F[t]
          BY <2>1, <3>1, <4>4 DEF AreSums
        <5> HIDE DEF G
        <5> QED
          BY <5>1, <5>2 DEF t
      <4> QED
        BY <4>2, <4>3, <4>4
    <3> QED
      BY <3>2, <3>3
  <2>5. AreSums(rs, G, 1 .. m)
    BY <2>4 DEF AreSums
  <2> QED
    BY <2>5 DEF m
<1>3. 0 .. n \subseteq T
  <2> HIDE DEF T
  <2> QED
    BY <1>1, <1>2, UpTo
<1> QED
  BY <1>3

\* The recursion of MapThenSumSet takes the elements of a set in some order:
\* it ends with the sum.
LEMMA SumOverIs ==
    ASSUME NEW rs, NEW S, IsFiniteSet(S), NEW G, AreSums(rs, G, S)
    PROVE  SumOver(rs, S) = G[S]
<1> DEFINE first(s) == CHOOSE x \in s : TRUE
           step(h, s) == IF s = {} THEN 0
                         ELSE rs[first(s)].arg + h[s \ {first(s)}]
           iter == CHOOSE h : h = [s \in SUBSET S |-> step(h, s)]
<1>1. SumOver(rs, S) = iter[S]
  BY DEF SumOver, Promise!MapThenSumSet, Promise!MapThenFoldSet
<1>2. \A s : s # {} => first(s) \in s
  OBVIOUS
<1>3. iter = [s \in SUBSET S |-> step(iter, s)]
  <2> DEFINE g == [s \in SUBSET S |-> G[s]]
  <2>1. ASSUME NEW s \in SUBSET S PROVE g[s] = step(g, s)
    <3>1. CASE s = {}
      BY <3>1 DEF AreSums
    <3>2. CASE s # {}
      <4>1. first(s) \in s /\ s \ {first(s)} \in SUBSET S
        BY <1>2, <3>2
      <4> HIDE DEF first
      <4> QED
        BY <3>2, <4>1 DEF AreSums
    <3> QED
      BY <3>1, <3>2
  <2>2. g = [s \in SUBSET S |-> step(g, s)]
    BY <2>1
  <2>3. \E h : h = [s \in SUBSET S |-> step(h, s)]
    <3> HIDE DEF g, step
    <3> QED
      BY <2>2
  <2> QED
    BY <2>3
<1> DEFINE T == {k \in 0 .. Cardinality(S) :
                    \A s \in SUBSET S : Cardinality(s) = k => iter[s] = G[s]}
<1>4. Cardinality(S) \in Nat
  BY FS_CardinalityType
<1>5. \A s \in SUBSET S : IsFiniteSet(s) /\ Cardinality(s) \in Nat
  BY FS_Subset, FS_CardinalityType
<1> HIDE DEF iter, first
<1>6. 0 \in T
  <2>1. ASSUME NEW s \in SUBSET S, Cardinality(s) = 0 PROVE iter[s] = G[s]
    <3>1. s = {}
      BY <1>5, <2>1, FS_EmptySet
    <3> QED
      BY <1>3, <3>1 DEF AreSums
  <2> QED
    BY <1>4, <2>1
<1>7. ASSUME NEW k \in 0 .. Cardinality(S) - 1, k \in T PROVE k + 1 \in T
  <2>1. ASSUME NEW s \in SUBSET S, Cardinality(s) = k + 1 PROVE iter[s] = G[s]
    <3> DEFINE t == s \ {first(s)}
    <3>1. s # {}
      <4>1. Cardinality({}) = 0
        BY FS_EmptySet
      <4>2. k + 1 # 0
        BY <1>4
      <4> QED
        BY <2>1, <4>1, <4>2
    <3>2. first(s) \in s /\ t \in SUBSET S
      BY <1>2, <3>1
    <3>3. Cardinality(t) = k
      <4>1. Cardinality(t) = Cardinality(s) - 1
        BY <1>5, <3>2, FS_RemoveElement
      <4> HIDE DEF t
      <4> QED
        BY <1>4, <2>1, <4>1
    <3>4. iter[t] = G[t]
      BY <1>7, <3>2, <3>3
    <3>5. iter[s] = rs[first(s)].arg + iter[t]
      BY <1>3, <3>1
    <3>6. G[s] = rs[first(s)].arg + G[t]
      BY <3>2 DEF AreSums
    <3> HIDE DEF t
    <3> QED
      BY <3>4, <3>5, <3>6
  <2>2. k + 1 \in 0 .. Cardinality(S)
    BY <1>4
  <2> QED
    BY <2>1, <2>2
<1>8. 0 .. Cardinality(S) \subseteq T
  <2> HIDE DEF T
  <2> QED
    BY <1>4, <1>6, <1>7, UpTo
<1> QED
  BY <1>1, <1>4, <1>8

\* A row more: the sums over the rows before it stay, and it adds its value.
LEMMA SumGrows ==
    ASSUME NEW rs \in Seq(Row), NEW r \in Row, NEW S \in SUBSET (1 .. Len(rs))
    PROVE  /\ SumOver(rs, S) \in Int
           /\ SumOver(Append(rs, r), S) = SumOver(rs, S)
           /\ SumOver(Append(rs, r), S \cup {Len(rs) + 1}) =
                  SumOver(rs, S) + r.arg
           /\ SumOver(Append(rs, r), {Len(rs) + 1}) = r.arg
<1> DEFINE rt == Append(rs, r)
           m == Len(rs) + 1
<1>1. /\ rt \in Seq(Row) /\ m \in Nat /\ m >= 1 /\ rt[m] = r
      /\ \A i \in 1 .. m : rt[i] \in Row /\ (i # m => rt[i] = rs[i])
      /\ S \in SUBSET (1 .. m) /\ m \notin S
  OBVIOUS
<1>2. \A i \in 1 .. m : rt[i].arg \in Int
  <2>1. \A x \in Row : x.arg \in Int
    BY RowAssumption
  <2> QED
    BY <1>1, <2>1
<1> HIDE DEF rt, m
<1>3. PICK G : AreSums(rt, G, 1 .. m)
  BY <1>1, <1>2, SumsExist
<1>4. IsFiniteSet(1 .. m)
  BY <1>1, FS_Interval
<1>5. \A s \in SUBSET (1 .. m) : IsFiniteSet(s) /\ AreSums(rt, G, s)
  BY <1>3, <1>4, FS_Subset DEF AreSums
<1>6. \A s \in SUBSET (1 .. m) : SumOver(rt, s) = G[s] /\ G[s] \in Int
  <2>1. ASSUME NEW s \in SUBSET (1 .. m) PROVE SumOver(rt, s) = G[s]
    BY <1>5, SumOverIs
  <2>2. ASSUME NEW s \in SUBSET (1 .. m) PROVE G[s] \in Int
    BY <1>3 DEF AreSums
  <2> QED
    BY <2>1, <2>2
<1>0. m \in 1 .. m /\ {m} \in SUBSET (1 .. m)
  BY <1>1
<1>7. SumOver(rs, S) = G[S]
  <2>1. \A x \in S : rt[x] = rs[x]
    BY <1>1
  <2>2. AreSums(rs, G, S)
    BY <1>5, <1>1, <2>1 DEF AreSums
  <2> QED
    BY <1>1, <1>5, <2>2, SumOverIs
<1>8. G[S \cup {m}] = r.arg + G[S]
  <2>1. (S \cup {m}) \ {m} = S /\ S \cup {m} \in SUBSET (1 .. m)
    BY <1>0, <1>1
  <2> QED
    BY <1>1, <1>3, <2>1 DEF AreSums
<1>9. G[{m}] = r.arg
  <2>1. {m} \ {m} = {} /\ {} \in SUBSET (1 .. m)
    OBVIOUS
  <2>2. G[{m}] = rt[m].arg + G[{m} \ {m}]
    BY <1>0, <1>3 DEF AreSums
  <2>4. G[{m} \ {m}] = 0
    BY <1>3, <2>1 DEF AreSums
  <2>3. rt[m].arg \in Int
    BY <1>0, <1>2
  <2> QED
    BY <1>1, <2>2, <2>3, <2>4
<1>10. r.arg \in Int /\ S \cup {m} \in SUBSET (1 .. m)
  <2>1. rt[m].arg \in Int
    BY <1>0, <1>2
  <2> QED
    BY <1>0, <1>1, <2>1
<1>11. SumOver(rt, S \cup {m}) = SumOver(rs, S) + r.arg
  <2>1. G[S] \in Int
    BY <1>1, <1>6
  <2> QED
    BY <1>6, <1>7, <1>8, <1>10, <2>1
<1>12. SumOver(rt, {m}) = r.arg /\ SumOver(rt, S) = SumOver(rs, S)
       /\ SumOver(rs, S) \in Int
  BY <1>0, <1>1, <1>6, <1>7, <1>9
<1> QED
  BY <1>11, <1>12 DEF rt, m

-----------------------------------------------------------------------------
(* GROUP BY over one row more.                                               *)

\* INSTANCE makes another operator of each operator of a library module.
LEMMA CardinalityIsOne == \A S : Promise!Cardinality(S) = Cardinality(S)
BY DEF Promise!Cardinality, Cardinality

\* What Append gives.
LEMMA RowAppended ==
    ASSUME NEW rs \in Seq(Row), NEW r \in Row
    PROVE  /\ Len(rs) \in Nat /\ DOMAIN rs = 1 .. Len(rs)
           /\ DOMAIN Append(rs, r) = 1 .. Len(rs) + 1
           /\ Append(rs, r)[Len(rs) + 1] = r
           /\ \A i \in 1 .. Len(rs) : Append(rs, r)[i] = rs[i]
           /\ Append(rs, r) \in Seq(Row)
OBVIOUS

\* The new row may start a group; whether another does was settled before.
LEMMA LeadersGrow ==
    ASSUME NEW rs \in Seq(Row), NEW r \in Row
    PROVE  Promise!Leaders(Append(rs, r)) =
               Promise!Leaders(rs) \cup
                   (IF Promise!Leads(Append(rs, r), Len(rs) + 1)
                    THEN {Len(rs) + 1} ELSE {})
<1> DEFINE rt == Append(rs, r)
           m == Len(rs) + 1
<1>1. /\ m \in Nat /\ DOMAIN rs = 1 .. m - 1 /\ DOMAIN rt = 1 .. m
      /\ \A i \in 1 .. m - 1 : rt[i] = rs[i]
  BY RowAppended
<1> HIDE DEF rt, m
<1>2. \A i \in 1 .. m - 1 : Promise!Leads(rt, i) <=> Promise!Leads(rs, i)
  BY <1>1 DEF Promise!Leads
<1>3. 1 .. m = (1 .. m - 1) \cup {m}
  <2>1. m >= 1
    BY RowAppended DEF m
  <2> QED
    BY <1>1, <2>1
<1>4. Promise!Leaders(rt) =
          Promise!Leaders(rs) \cup (IF Promise!Leads(rt, m) THEN {m} ELSE {})
  BY <1>1, <1>2, <1>3 DEF Promise!Leaders
<1> QED
  BY <1>4 DEF rt, m

\* The new row joins the members of its group.
LEMMA MembersGrow ==
    ASSUME NEW rs \in Seq(Row), NEW r \in Row
    PROVE  /\ \A i \in DOMAIN rs :
                  Promise!Members(Append(rs, r), i) =
                      IF rs[i].key = r.key /\ r.key \notin NotSelfEqual
                      THEN Promise!Members(rs, i) \cup {Len(rs) + 1}
                      ELSE Promise!Members(rs, i)
           /\ Promise!Leads(Append(rs, r), Len(rs) + 1) =>
                  Promise!Members(Append(rs, r), Len(rs) + 1) = {Len(rs) + 1}
<1> DEFINE rt == Append(rs, r)
           m == Len(rs) + 1
<1>1. /\ m \in Nat /\ m >= 1 /\ DOMAIN rs = 1 .. m - 1 /\ DOMAIN rt = 1 .. m
      /\ \A i \in 1 .. m - 1 : rt[i] = rs[i]
      /\ rt[m] = r
  BY RowAppended
<1> HIDE DEF rt, m
<1>2. 1 .. m = (1 .. m - 1) \cup {m} /\ m \notin 1 .. m - 1
  BY <1>1
<1>3. ASSUME NEW i \in DOMAIN rs
      PROVE  Promise!Members(rt, i) =
                 IF rs[i].key = r.key /\ r.key \notin NotSelfEqual
                 THEN Promise!Members(rs, i) \cup {m}
                 ELSE Promise!Members(rs, i)
  BY <1>1, <1>2 DEF Promise!Members
<1>4. ASSUME Promise!Leads(rt, m) PROVE Promise!Members(rt, m) = {m}
  BY <1>1, <1>2, <1>4 DEF Promise!Members, Promise!Leads
<1> QED
  BY <1>3, <1>4 DEF rt, m

\* The leaders are some of the rows.
LEMMA LeadersAreFinite ==
    ASSUME NEW rs \in Seq(Row)
    PROVE  /\ Promise!Leaders(rs) \subseteq 1 .. Len(rs)
           /\ Promise!Leaders(rs) \subseteq Nat
           /\ IsFiniteSet(Promise!Leaders(rs))
           /\ Cardinality(Promise!Leaders(rs)) \in Nat
<1>1. Len(rs) \in Nat /\ DOMAIN rs = 1 .. Len(rs)
  OBVIOUS
<1>2. Promise!Leaders(rs) \subseteq 1 .. Len(rs)
  BY <1>1 DEF Promise!Leaders
<1>3. Promise!Leaders(rs) \subseteq Nat
  <2>1. 1 .. Len(rs) \subseteq Nat
    BY <1>1
  <2> QED
    BY <1>2, <2>1
<1>4. IsFiniteSet(1 .. Len(rs))
  BY <1>1, FS_Interval
<1>5. IsFiniteSet(Promise!Leaders(rs))
  BY <1>2, <1>4, FS_Subset
<1> QED
  BY <1>2, <1>3, <1>5, FS_CardinalityType

\* A leader is told by its rank, so the CHOOSE of Nth has one candidate.
LEMMA NthIs ==
    ASSUME NEW rs \in Seq(Row), NEW i \in Promise!Leaders(rs), NEW n,
           Cardinality({j \in Promise!Leaders(rs) : j <= i}) = n
    PROVE  Promise!Nth(rs, n) = i
<1> DEFINE L == Promise!Leaders(rs)
           below(k) == {j \in L : j <= k}
<1>1. IsFiniteSet(L) /\ L \subseteq Nat
  BY LeadersAreFinite
<1> HIDE DEF L
<1>2. ASSUME NEW k \in L, NEW l \in L, k < l
      PROVE  Cardinality(below(k)) # Cardinality(below(l))
  <2>1. IsFiniteSet(below(l))
    BY <1>1, FS_Subset
  <2>2. below(k) \subseteq below(l) /\ below(k) # below(l)
    <3>1. k \in Nat /\ l \in Nat
      BY <1>1
    <3>2. l \in below(l) /\ l \notin below(k)
      BY <1>2, <3>1
    <3>3. below(k) \subseteq below(l)
      <4>1. \A j \in Nat : j <= k => j <= l
        BY <1>2, <3>1
      <4> QED
        BY <1>1, <4>1
    <3> QED
      BY <3>2, <3>3
  <2> HIDE DEF below
  <2>3. /\ Cardinality(below(k)) < Cardinality(below(l))
        /\ Cardinality(below(l)) \in Nat /\ Cardinality(below(k)) \in Nat
    BY <2>1, <2>2, FS_Subset, FS_CardinalityType
  <2> QED
    BY <2>3
<1>3. \A k \in L : Cardinality(below(k)) = n => k = i
  <2>1. Cardinality(below(i)) = n /\ i \in L
    BY DEF L
  <2> HIDE DEF below
  <2>2. \A k \in L : k = i \/ k < i \/ i < k
    BY <1>1, <2>1
  <2> QED
    BY <1>2, <2>1, <2>2
<1>4. Promise!Nth(rs, n) = CHOOSE k \in L : Cardinality(below(k)) = n
  BY CardinalityIsOne DEF Promise!Nth, L
<1>5. Cardinality(below(i)) = n /\ i \in L
  BY DEF L
<1> HIDE DEF below
<1> QED
  BY <1>3, <1>4, <1>5

\* A group keeps its number, and a new one gets the next.
LEMMA NthGrows ==
    ASSUME NEW rs \in Seq(Row), NEW r \in Row
    PROVE  /\ \A i \in Promise!Leaders(rs) :
                  LET n == Cardinality({j \in Promise!Leaders(rs) : j <= i})
                  IN  /\ Promise!Nth(Append(rs, r), n) = i
                      /\ Cardinality({j \in Promise!Leaders(Append(rs, r)) :
                                          j <= i}) = n
           /\ Promise!Leads(Append(rs, r), Len(rs) + 1) =>
                  LET n == Cardinality(Promise!Leaders(rs)) + 1
                  IN  /\ Cardinality(Promise!Leaders(Append(rs, r))) = n
                      /\ Promise!Nth(Append(rs, r), n) = Len(rs) + 1
                      /\ Cardinality({j \in Promise!Leaders(Append(rs, r)) :
                                          j <= Len(rs) + 1}) = n
<1> DEFINE rt == Append(rs, r)
           m == Len(rs) + 1
           L == Promise!Leaders(rs)
           M == Promise!Leaders(rt)
<1>1. /\ m \in Nat /\ L \subseteq 1 .. m - 1 /\ IsFiniteSet(L)
      /\ M = L \cup (IF Promise!Leads(rt, m) THEN {m} ELSE {})
      /\ rt \in Seq(Row)
  <2>1. rt \in Seq(Row) /\ m \in Nat /\ m - 1 = Len(rs)
    BY RowAppended
  <2> QED
    BY <2>1, LeadersGrow, LeadersAreFinite
<1> HIDE DEF m, L, M, rt
<1>2. ASSUME NEW i \in L
      PROVE  /\ Promise!Nth(rt, Cardinality({j \in L : j <= i})) = i
             /\ Cardinality({j \in M : j <= i}) =
                    Cardinality({j \in L : j <= i})
  <2>1. i \in M /\ {j \in M : j <= i} = {j \in L : j <= i}
    BY <1>1
  <2>2. Cardinality({j \in M : j <= i}) = Cardinality({j \in L : j <= i})
    BY <2>1
  <2> QED
    BY <1>1, <2>1, <2>2, NthIs DEF M
<1>3. ASSUME Promise!Leads(rt, m)
      PROVE  /\ Cardinality(M) = Cardinality(L) + 1
             /\ Promise!Nth(rt, Cardinality(L) + 1) = m
             /\ Cardinality({j \in M : j <= m}) = Cardinality(L) + 1
  <2>1. M = L \cup {m} /\ m \notin L /\ m \in M
    BY <1>1, <1>3
  <2>2. Cardinality(M) = Cardinality(L) + 1
    BY <1>1, <2>1, FS_AddElement
  <2>3. {j \in M : j <= m} = M
    <3>1. \A j \in 1 .. m - 1 : j <= m
      BY <1>1
    <3>2. \A j \in M : j <= m
      BY <1>1, <2>1, <3>1
    <3> HIDE DEF M
    <3> QED
      BY <3>2
  <2>4. Cardinality({j \in M : j <= m}) = Cardinality(L) + 1
    BY <2>2, <2>3
  <2> QED
    BY <1>1, <2>1, <2>2, <2>4, NthIs DEF M
<1> QED
  BY <1>2, <1>3 DEF rt, m, L, M

\* Line, field by field.
LEMMA LineIs ==
    ASSUME NEW rs, NEW i
    PROVE  LET members == Promise!Members(rs, i)
               args == {rs[j].arg : j \in members}
           IN  Promise!Line(rs, i) =
                   [key |-> rs[i].key, count |-> Cardinality(members),
                    sum |-> SumOver(rs, members), min |-> Promise!Min(args),
                    max |-> Promise!Max(args), distinct |-> args]
BY CardinalityIsOne DEF Promise!Line, SumOver, Promise!MapThenSumSet,
                        Promise!MapThenFoldSet

\* The sum of a line, after a row.
LEMMA LineSumGrows ==
    ASSUME NEW rs \in Seq(Row), NEW r \in Row
    PROVE  /\ \A i \in DOMAIN rs :
                  Promise!Line(Append(rs, r), i).sum =
                      IF rs[i].key = r.key /\ r.key \notin NotSelfEqual
                      THEN Promise!Line(rs, i).sum + r.arg
                      ELSE Promise!Line(rs, i).sum
           /\ Promise!Leads(Append(rs, r), Len(rs) + 1) =>
                  Promise!Line(Append(rs, r), Len(rs) + 1).sum = r.arg
<1>1. ASSUME NEW s, NEW i
      PROVE  Promise!Line(s, i).sum = SumOver(s, Promise!Members(s, i))
  BY LineIs
<1>2. ASSUME NEW i \in DOMAIN rs
      PROVE  Promise!Members(rs, i) \in SUBSET (1 .. Len(rs))
  BY RowAppended DEF Promise!Members
<1>3. ASSUME NEW i \in DOMAIN rs
      PROVE  Promise!Line(Append(rs, r), i).sum =
                 IF rs[i].key = r.key /\ r.key \notin NotSelfEqual
                 THEN Promise!Line(rs, i).sum + r.arg
                 ELSE Promise!Line(rs, i).sum
  <2> DEFINE S == Promise!Members(rs, i)
  <2>1. /\ SumOver(Append(rs, r), S) = SumOver(rs, S)
        /\ SumOver(Append(rs, r), S \cup {Len(rs) + 1}) =
               SumOver(rs, S) + r.arg
    <3>1. S \in SUBSET (1 .. Len(rs))
      BY <1>2
    <3> HIDE DEF S
    <3> QED
      BY <3>1, SumGrows
  <2>2. Promise!Members(Append(rs, r), i) =
            IF rs[i].key = r.key /\ r.key \notin NotSelfEqual
            THEN S \cup {Len(rs) + 1} ELSE S
    BY MembersGrow
  <2> QED
    BY <1>1, <2>1, <2>2
<1>4. ASSUME Promise!Leads(Append(rs, r), Len(rs) + 1)
      PROVE  Promise!Line(Append(rs, r), Len(rs) + 1).sum = r.arg
  <2>1. SumOver(Append(rs, r), {Len(rs) + 1}) = r.arg
    <3>1. {} \in SUBSET (1 .. Len(rs))
      OBVIOUS
    <3> QED
      BY <3>1, SumGrows
  <2>2. Promise!Members(Append(rs, r), Len(rs) + 1) = {Len(rs) + 1}
    BY <1>4, MembersGrow
  <2> QED
    BY <1>1, <2>1, <2>2
<1> QED
  BY <1>3, <1>4

-----------------------------------------------------------------------------
(* The lines of the operator are in the order of the answer.                 *)

\* What a row leaves of a line that is not its own.
LEMMA OtherLineStays ==
    ASSUME NEW rs \in Seq(Row), NEW r \in Row, NEW g, NEW v, NEW st,
           IsLine(rs, g, v, st), v # r.key \/ r.key \in NotSelfEqual
    PROVE  IsLine(Append(rs, r), g, v, st)
<1> DEFINE rt == Append(rs, r)
<1>1. PICK i : i = Promise!Nth(rs, g)
  OBVIOUS
<1>2. /\ i \in Promise!Leaders(rs)
      /\ Cardinality({j \in Promise!Leaders(rs) : j <= i}) = g
      /\ v = rs[i].key
      /\ st.sum = Promise!Line(rs, i).sum
      /\ v \in NotSelfEqual => st = NewState(rs[i].arg)
  BY <1>1 DEF IsLine
<1>3. i \in DOMAIN rs /\ rt[i] = rs[i]
  <2>1. i \in DOMAIN rs
    BY <1>2 DEF Promise!Leaders
  <2> QED
    BY <2>1, RowAppended
<1>4. /\ Promise!Nth(rt, g) = i
      /\ Cardinality({j \in Promise!Leaders(rt) : j <= i}) = g
  BY <1>2, NthGrows
<1>5. i \in Promise!Leaders(rt)
  BY <1>2, LeadersGrow
<1>6. Promise!Line(rt, i).sum = Promise!Line(rs, i).sum
  BY <1>2, <1>3, LineSumGrows
<1> HIDE DEF rt
<1>7. IsLine(rt, g, v, st)
  BY <1>2, <1>3, <1>4, <1>5, <1>6 DEF IsLine
<1> QED
  BY <1>7 DEF rt

\* A row that leads opens the next line.
LEMMA OrderWithNewGroup ==
    ASSUME NEW rs \in Seq(Row), NEW r \in Row, NEW values \in Seq(Value),
           NEW states \in Seq(State), Len(states) = Len(values),
           InOrder(rs, values, states),
           Promise!Leads(Append(rs, r), Len(rs) + 1)
    PROVE  InOrder(Append(rs, r), Append(values, r.key),
                   Append(states, NewState(r.arg)))
<1> DEFINE rt == Append(rs, r)
           m == Len(rs) + 1
           n == Len(values) + 1
           cs == Append(values, r.key)
           ss == Append(states, NewState(r.arg))
<1>1. /\ Len(cs) = n /\ DOMAIN cs = 1 .. n /\ n \in Nat
      /\ \A g \in 1 .. n : g = n \/ g \in DOMAIN values
      /\ \A g \in DOMAIN values : cs[g] = values[g] /\ ss[g] = states[g]
      /\ cs[n] = r.key /\ ss[n] = NewState(r.arg)
  OBVIOUS
<1>2. n = Cardinality(Promise!Leaders(rs)) + 1
  BY DEF InOrder
<1>3. rt[m] = r
  BY RowAppended
<1>4. Promise!Leads(rt, m)
  OBVIOUS
<1>5. /\ Cardinality(Promise!Leaders(rt)) = n
      /\ Promise!Nth(rt, n) = m
      /\ Cardinality({j \in Promise!Leaders(rt) : j <= m}) = n
  BY <1>2, NthGrows
<1>6. m \in Promise!Leaders(rt)
  BY LeadersGrow
<1>7. Promise!Line(rt, m).sum = r.arg
  BY LineSumGrows
<1>8. ASSUME NEW g \in DOMAIN values PROVE IsLine(rt, g, values[g], states[g])
  <2>1. values[g] # r.key \/ r.key \in NotSelfEqual
    <3>1. PICK i \in Promise!Leaders(rs) : values[g] = rs[i].key
      BY DEF InOrder, IsLine
    <3>2. i \in 1 .. m - 1 /\ rt[i] = rs[i]
      <4>1. i \in DOMAIN rs
        BY DEF Promise!Leaders
      <4> QED
        BY <4>1, RowAppended
    <3> HIDE DEF rt
    <3> QED
      BY <1>3, <1>4, <3>1, <3>2 DEF Promise!Leads
  <2>2. IsLine(rs, g, values[g], states[g])
    BY DEF InOrder
  <2> QED
    BY <2>1, <2>2, OtherLineStays
<1>9. NewState(r.arg).sum = r.arg
  BY DEF NewState
<1> HIDE DEF rt, m, n, cs, ss
<1>10. InOrder(rt, cs, ss)
  <2>1. ASSUME NEW g \in DOMAIN cs PROVE IsLine(rt, g, cs[g], ss[g])
    <3>1. CASE g = n
      BY <1>1, <1>3, <1>5, <1>6, <1>7, <1>9, <3>1 DEF IsLine
    <3>2. CASE g \in DOMAIN values
      BY <1>1, <1>8, <3>2
    <3> QED
      BY <1>1, <3>1, <3>2
  <2> QED
    BY <1>1, <1>5, <2>1 DEF InOrder
<1> QED
  BY <1>10 DEF rt, cs, ss

\* Any other row adds its value to the line of its key.
LEMMA OrderWithOldGroup ==
    ASSUME NEW rs \in Seq(Row), NEW r \in Row, NEW values \in Seq(Value),
           NEW states \in Seq(State), Len(states) = Len(values),
           InOrder(rs, values, states),
           NEW h \in DOMAIN values, values[h] = r.key,
           r.key \notin NotSelfEqual,
           \A g \in DOMAIN values : values[g] = r.key => g = h
    PROVE  InOrder(Append(rs, r), values,
                   [states EXCEPT ![h] = Updated(@, r.arg)])
<1> DEFINE rt == Append(rs, r)
           m == Len(rs) + 1
           ss == [states EXCEPT ![h] = Updated(@, r.arg)]
<1>1. /\ DOMAIN values = DOMAIN states
      /\ ss[h].sum = states[h].sum + r.arg
      /\ \A g \in DOMAIN values : g # h => ss[g] = states[g]
  BY DEF Updated
<1>2. PICK i : i = Promise!Nth(rs, h)
  OBVIOUS
<1>3. /\ i \in Promise!Leaders(rs)
      /\ Cardinality({j \in Promise!Leaders(rs) : j <= i}) = h
      /\ r.key = rs[i].key
      /\ states[h].sum = Promise!Line(rs, i).sum
  BY <1>2 DEF InOrder, IsLine
<1>4. i \in DOMAIN rs /\ rt[i] = rs[i] /\ i \in 1 .. m - 1 /\ rt[m] = r
  <2>1. i \in DOMAIN rs
    BY <1>3 DEF Promise!Leaders
  <2> QED
    BY <2>1, RowAppended
<1>5. ~Promise!Leads(rt, m)
  <2> HIDE DEF rt
  <2> QED
    BY <1>3, <1>4 DEF Promise!Leads
<1>6. Promise!Leaders(rt) = Promise!Leaders(rs)
  BY <1>5, LeadersGrow
<1>7. /\ Promise!Nth(rt, h) = i
      /\ Cardinality({j \in Promise!Leaders(rt) : j <= i}) = h
  <2>1. rt \in Seq(Row)
    BY RowAppended
  <2>2. /\ i \in Promise!Leaders(rt)
        /\ Cardinality({j \in Promise!Leaders(rt) : j <= i}) = h
    BY <1>3, <1>6
  <2> HIDE DEF rt
  <2> QED
    BY <2>1, <2>2, NthIs
<1>8. Promise!Line(rt, i).sum = Promise!Line(rs, i).sum + r.arg
  BY <1>3, <1>4, LineSumGrows
<1>9. ASSUME NEW g \in DOMAIN values, g # h
      PROVE  IsLine(rt, g, values[g], states[g])
  <2>1. IsLine(rs, g, values[g], states[g]) /\ values[g] # r.key
    BY <1>9 DEF InOrder
  <2> QED
    BY <2>1, OtherLineStays
<1> HIDE DEF rt, m, ss
<1>10. InOrder(rt, values, ss)
  <2>1. ASSUME NEW g \in DOMAIN values PROVE IsLine(rt, g, values[g], ss[g])
    <3>1. CASE g = h
      BY <1>1, <1>3, <1>4, <1>6, <1>7, <1>8, <3>1 DEF IsLine
    <3>2. CASE g # h
      BY <1>1, <1>9, <3>2
    <3> QED
      BY <3>1, <3>2
  <2> QED
    BY <1>6, <2>1 DEF InOrder
<1> QED
  BY <1>10 DEF rt, ss

-----------------------------------------------------------------------------
(* The output is the answer.                                                 *)

\* The CHOOSE of Min and Max, of a set whose ends are known.
LEMMA MinMaxAre ==
    ASSUME NEW S \in SUBSET Int, NEW lo \in S, NEW hi \in S,
           \A a \in S : lo <= a /\ a <= hi
    PROVE  Promise!Min(S) = lo /\ Promise!Max(S) = hi
<1>1. lo \in Int /\ hi \in Int
  OBVIOUS
<1>2. \A x \in S : (\A y \in S : x <= y) => x = lo
  BY <1>1
<1>3. \A x \in S : (\A y \in S : x >= y) => x = hi
  BY <1>1
<1>4. \A y \in S : lo <= y /\ hi >= y
  BY <1>1
<1>5. Promise!Min(S) = CHOOSE x \in S : \A y \in S : x <= y
  BY DEF Promise!Min
<1>6. Promise!Max(S) = CHOOSE x \in S : \A y \in S : x >= y
  BY DEF Promise!Max
<1> QED
  BY <1>2, <1>3, <1>4, <1>5, <1>6

\* Numbering and sums from LinesInOrder, the other values of a line from
\* StatesHoldTheirRows: the output columns are GroupBy's answer.
LEMMA OutputIsAnswer ==
    ASSUME AgrInv, LinesInOrder
    PROVE  [g \in DOMAIN columns |-> OutputLine(g)] = Promise!Answer(rows)
<1>1. ASSUME NEW g \in DOMAIN columns
      PROVE  OutputLine(g) = Promise!Line(rows, Promise!Nth(rows, g))
  <2>1. PICK i : i = Promise!Nth(rows, g)
    OBVIOUS
  <2>2. /\ i \in DOMAIN rows /\ columns[g] = rows[i].key
        /\ acc[g].sum = Promise!Line(rows, i).sum
        /\ columns[g] \in NotSelfEqual => acc[g] = NewState(rows[i].arg)
    <3>1. IsLine(rows, g, columns[g], acc[g])
      BY DEF LinesInOrder, InOrder
    <3> QED
      BY <2>1, <3>1 DEF IsLine, Promise!Leaders
  <2> DEFINE members == Promise!Members(rows, i)
             args == {rows[j].arg : j \in members}
  <2>3. /\ acc[g].count = Cardinality(members) /\ acc[g].distinct = args
        /\ acc[g].min \in args /\ acc[g].max \in args
        /\ \A a \in args : acc[g].min <= a /\ a <= acc[g].max
    <3>1. StateIsOf(acc[g], columns[g])
      BY DEF AgrInv, StatesHoldTheirRows
    <3>2. CASE columns[g] \notin NotSelfEqual
      <4>1. members = RowsOf(columns[g])
        BY <2>2, <3>2 DEF Promise!Members, RowsOf
      <4> HIDE DEF members
      <4> QED
        BY <3>1, <3>2, <4>1 DEF StateIsOf
    <3>3. CASE columns[g] \in NotSelfEqual
      <4>1. members = {i}
        BY <2>2, <3>3 DEF Promise!Members
      <4>2. Cardinality({i}) = 1
        BY FS_Singleton
      <4>3. /\ acc[g].count = 1 /\ acc[g].distinct = {rows[i].arg}
            /\ acc[g].min = rows[i].arg /\ acc[g].max = rows[i].arg
        BY <2>2, <3>3 DEF NewState
      <4> HIDE DEF members
      <4>4. args = {rows[i].arg}
        BY <4>1
      <4>5. rows[i].arg \in Int
        BY <2>2, RowFacts, RowAssumption
      <4> QED
        BY <4>1, <4>2, <4>3, <4>4, <4>5
    <3> QED
      BY <3>2, <3>3
  <2>4. args \subseteq Int
    <3>1. acc[g] \in State
      BY RowFacts
    <3>2. acc[g].distinct \subseteq Int
      BY <3>1 DEF State
    <3> HIDE DEF args
    <3> QED
      BY <2>3, <3>2
  <2>5. Promise!Min(args) = acc[g].min /\ Promise!Max(args) = acc[g].max
    <3> HIDE DEF args
    <3> QED
      BY <2>3, <2>4, MinMaxAre
  <2>6. Promise!Line(rows, i) =
            [key |-> rows[i].key, count |-> Cardinality(members),
             sum |-> SumOver(rows, members), min |-> Promise!Min(args),
             max |-> Promise!Max(args), distinct |-> args]
    BY LineIs
  <2> HIDE DEF members, args
  <2>7. SumOver(rows, members) = acc[g].sum
    BY <2>2, <2>6
  <2>8. OutputLine(g) = Promise!Line(rows, i)
    BY <2>2, <2>3, <2>5, <2>6, <2>7 DEF OutputLine
  <2> QED
    BY <2>1, <2>8
<1>2. DOMAIN columns = 1 .. Cardinality(Promise!Leaders(rows))
  BY RowFacts DEF LinesInOrder, InOrder
<1>3. Promise!Answer(rows) =
          [n \in 1 .. Cardinality(Promise!Leaders(rows)) |->
               Promise!Line(rows, Promise!Nth(rows, n))]
  BY CardinalityIsOne DEF Promise!Answer
<1> QED
  BY <1>1, <1>2, <1>3

\* Before the first row.
LEMMA AnswerInitInv == Init => AnswerInv
<1> SUFFICES ASSUME Init PROVE AnswerInv
  OBVIOUS
<1>1. columns = <<>> /\ rows = <<>> /\ phase = "start" /\ result = NoBatch
  BY DEF Init, TableInit
<1>2. LinesInOrder
  <2>1. Promise!Leaders(rows) = {}
    BY <1>1 DEF Promise!Leaders
  <2>2. Cardinality({}) = 0
    BY FS_EmptySet
  <2> QED
    BY <1>1, <2>1, <2>2 DEF LinesInOrder, InOrder
<1>3. ResultTaken
  BY <1>1 DEF ResultTaken
<1> QED
  BY <1>2, <1>3, AgrInitInv DEF AnswerInv

\* The end of a row keeps the lines in order.
LEMMA RowEndKeepsOrder ==
    ASSUME AgrInv, LinesInOrder, AddGroup \/ UpdateGroup
    PROVE  LinesInOrder'
<1> DEFINE r == [key |-> key, arg |-> arg]
<1>1. rows' = Append(rows, r) /\ pc \in {"inserted", "found"}
  BY DEF AddGroup, UpdateGroup, AppendGroupKey, UseGroup, FinishRow
<1>2. r \in Row
  BY <1>1 DEF AgrInv, RowInHand
<1>3. r.key = key /\ r.arg = arg
  OBVIOUS
<1>4. /\ rows \in Seq(Row) /\ columns \in Seq(Value) /\ acc \in Seq(State)
      /\ Len(acc) = Len(columns) /\ InOrder(rows, columns, acc)
  BY DEF AgrInv, TypeOK, TableTypeOK, LinesInOrder
<1> HIDE DEF r
<1>5. CASE AddGroup
  <2>1. /\ pc = "inserted" /\ columns' = Append(columns, r.key)
        /\ acc' = Append(acc, NewState(r.arg))
    BY <1>3, <1>5 DEF AddGroup, AppendGroupKey
  <2>2. Promise!Leads(Append(rows, r), Len(rows) + 1)
    <3>1. CASE key \in NotSelfEqual
      BY <1>2, <1>3, <1>4, <3>1, RowAppended DEF Promise!Leads
    <3>2. CASE key \notin NotSelfEqual
      <4>1. \A g \in DOMAIN columns : columns[g] # key
        BY <2>1, <3>2 DEF AgrInv, TableInv, InsertedIsNew
      <4>2. \A j \in 1 .. Len(rows) : rows[j].key # key
        BY <1>4, <4>1 DEF AgrInv, RowsHaveGroups
      <4>3. /\ Append(rows, r)[Len(rows) + 1] = r
            /\ \A j \in 1 .. Len(rows) : Append(rows, r)[j] = rows[j]
            /\ (Len(rows) + 1) - 1 = Len(rows)
        BY <1>2, <1>4, RowAppended
      <4> QED
        BY <1>3, <4>2, <4>3 DEF Promise!Leads
    <3> QED
      BY <3>1, <3>2
  <2>3. InOrder(Append(rows, r), columns', acc')
    BY <1>2, <1>4, <2>1, <2>2, OrderWithNewGroup
  <2> QED
    BY <1>1, <2>3 DEF LinesInOrder
<1>6. CASE UpdateGroup
  <2> DEFINE h == slots[slot_idx]
  <2>1. /\ pc = "found" /\ columns' = columns
        /\ acc' = [acc EXCEPT ![h] = Updated(@, r.arg)]
    BY <1>3, <1>6 DEF UpdateGroup, UseGroup
  <2>2. h \in DOMAIN columns /\ columns[h] = key /\ key \notin NotSelfEqual
    BY <2>1, FoundIsOfKey
  <2>3. \A g \in DOMAIN columns : columns[g] = key => g = h
    BY <2>2 DEF AgrInv, TableInv, GroupsDistinct
  <2> HIDE DEF h
  <2>4. InOrder(Append(rows, r), columns, acc')
    BY <1>2, <1>3, <1>4, <2>1, <2>2, <2>3, OrderWithOldGroup
  <2> QED
    BY <1>1, <2>1, <2>4 DEF LinesInOrder
<1> QED
  BY <1>5, <1>6

\* No other step touches rows or lines.
LEMMA RestKeepsOrder ==
    ASSUME [Next]_vars, ~AddGroup, ~UpdateGroup
    PROVE  UNCHANGED <<rows, columns, acc>>
BY CallsKeepColumns
   DEF Next, Step, FirstBatch, Construct, NextBatch, NoInput, ReturnResult,
       StartRow, FindOrInsert, vars, tableVars, agrVars

\* Every step keeps numbering and result.
LEMMA AnswerNextInv == AnswerInv /\ [Next]_vars => AnswerInv'
<1> SUFFICES ASSUME AnswerInv, [Next]_vars PROVE AnswerInv'
  OBVIOUS
<1>1. AgrInv'
  BY AgrNextInv DEF AnswerInv
<1>2. LinesInOrder'
  <2>1. CASE AddGroup \/ UpdateGroup
    BY <2>1, RowEndKeepsOrder DEF AnswerInv
  <2>2. CASE ~AddGroup /\ ~UpdateGroup
    <3>1. UNCHANGED <<rows, columns, acc>>
      BY <2>2, RestKeepsOrder
    <3> QED
      BY <3>1 DEF AnswerInv, LinesInOrder
  <2> QED
    BY <2>1, <2>2
<1>3. ResultTaken'
  <2>1. CASE ReturnResult
    BY <2>1 DEF ReturnResult, tableVars, ResultTaken, OutputLine
  <2>2. CASE NoInput
    <3>1. result = NoBatch /\ pc = "unbuilt"
      BY <2>2 DEF NoInput, AnswerInv, ResultTaken, AgrInv, TypeOK
    <3> QED
      BY <2>2, <3>1 DEF NoInput, tableVars, ResultTaken
  <2>3. CASE phase = "done"
    <3>1. UNCHANGED vars
      BY <2>3 DEF AnswerInv, ResultTaken, Next, Step, FirstBatch, NextBatch,
                  NoInput, StartRow, ReturnResult, TableStep,
                  CapacityForDoubles, ReserveEnds, Grow, RehashSkipsFree,
                  RehashTakesGroup, FindEmptySlotWalks, RehashPlaces,
                  RehashEnds, FindSlotStarts, FindSlotWalks, Found, Insert,
                  AddGroup, AppendGroupKey, UpdateGroup, UseGroup
    <3> QED
      BY <3>1 DEF AnswerInv, ResultTaken, vars, tableVars, agrVars, OutputLine
  <2>4. CASE phase # "done" /\ ~ReturnResult /\ ~NoInput
    <3>1. phase' # "done" /\ result' = result
      BY <2>4 DEF Next, Step, FirstBatch, NextBatch, StartRow, AddGroup,
                  UpdateGroup, vars, agrVars
    <3> QED
      BY <2>4, <3>1 DEF AnswerInv, ResultTaken
  <2> QED
    BY <2>1, <2>2, <2>3, <2>4
<1> QED
  BY <1>1, <1>2, <1>3 DEF AnswerInv

\* The n-th group is the one of the n-th distinct key to appear, its sum that of
\* the key's rows, and the result, once taken, stays what was taken.
THEOREM LinesAreAnswer == Spec => []AnswerInv
<1> QED
  BY AnswerInitInv, AnswerNextInv, PTL DEF Spec

\* The batch returned is the whole answer; its row count, which comes from the
\* table (groups.Size(), group_agr_op.cpp:102), is that of its columns.
THEOREM ResultIsAnswer == Spec => []ResultConsistent
<1>1. AnswerInv => ResultConsistent
  <2> SUFFICES ASSUME AnswerInv, result # NoBatch
               PROVE  /\ result.row_count = Len(result.lines)
                      /\ result.lines = Promise!Answer(rows)
    BY DEF ResultConsistent
  <2> DEFINE lines == [g \in DOMAIN columns |-> OutputLine(g)]
  <2>1. /\ result = [row_count |-> Len(keys), lines |-> lines]
        /\ pc \in {"unbuilt", "idle"}
    BY DEF AnswerInv, ResultTaken
  <2>2. lines = Promise!Answer(rows)
    BY OutputIsAnswer DEF AnswerInv
  <2>3. Len(keys) = Len(columns) /\ columns \in Seq(Value)
    BY <2>1 DEF AnswerInv, AgrInv, TypeOK, TableTypeOK
  <2>4. Len(lines) = Len(columns)
    <3>1. Len(columns) \in Nat /\ DOMAIN columns = 1 .. Len(columns)
      BY <2>3
    <3>2. DOMAIN lines = 1 .. Len(columns)
      BY <3>1
    <3> HIDE DEF lines
    <3> QED
      BY <3>1, <3>2
  <2> HIDE DEF lines
  <2> QED
    BY <2>1, <2>2, <2>3, <2>4
<1> QED
  BY <1>1, LinesAreAnswer, PTL

\* The operator implements GROUP BY: a step that ends a row takes the answer
\* over the rows before it to the answer over one row more, and no other step
\* of table, walks or growth shows.
THEOREM OperatorImplementsGroupBy == Spec => RefinesGroupBy
<1> DEFINE lines == [g \in DOMAIN columns |-> OutputLine(g)]
<1>1. Init => Promise!Init
  <2> SUFFICES ASSUME Init PROVE Promise!Init
    OBVIOUS
  <2>1. columns = <<>> /\ rows = <<>>
    BY DEF Init, TableInit
  <2>2. lines = <<>>
    BY <2>1
  <2> QED
    BY <2>1, <2>2 DEF Promise!Init
<1>2. AnswerInv' => lines' = Promise!Answer(rows')
  <2>1. AnswerInv => lines = Promise!Answer(rows)
    BY OutputIsAnswer DEF AnswerInv
  <2>2. AnswerInv' => (lines = Promise!Answer(rows))'
    BY <2>1, PTL
  <2> QED
    BY <2>2
<1>3. AnswerInv /\ AnswerInv' /\ [Next]_vars => [Promise!Next]_<<rows, lines>>
  <2> SUFFICES ASSUME AnswerInv, AnswerInv', [Next]_vars
               PROVE  [Promise!Next]_<<rows, lines>>
    OBVIOUS
  <2>1. CASE AddGroup \/ UpdateGroup
    <3> DEFINE r == [key |-> key, arg |-> arg]
    <3>1. rows' = Append(rows, r) /\ pc \in {"inserted", "found"}
      BY <2>1 DEF AddGroup, UpdateGroup, AppendGroupKey, UseGroup, FinishRow
    <3>2. r \in Row
      BY <3>1 DEF AnswerInv, AgrInv, RowInHand
    <3>3. lines' = Promise!Answer(rows')
      BY <1>2
    <3> QED
      BY <3>1, <3>2, <3>3 DEF Promise!Next
  <2>2. CASE ~AddGroup /\ ~UpdateGroup
    BY <2>2, RestKeepsOrder DEF OutputLine
  <2> QED
    BY <2>1, <2>2
<1> QED
  BY <1>1, <1>3, LinesAreAnswer, PTL DEF Spec, RefinesGroupBy, Promise!Spec
=============================================================================
