---------------------- MODULE CompactGroupTable_proofs ----------------------
(***************************************************************************)
(* Proofs about CompactGroupTable, for every set of values, encoding, hash *)
(* function, initial capacity and sequence of calls: TableInv is           *)
(* inductive, and the properties of CompactGroupTable follow from it.      *)
(***************************************************************************)
EXTENDS CompactGroupTable, FiniteSetTheorems, TLAPS

-----------------------------------------------------------------------------
(* Facts about homes and walks.                                              *)

\* A home is a slot.
LEMMA HomeIsSlot ==
    ASSUME capacity \in Nat, capacity >= 1, NEW e \in Encoded
    PROVE  Home(e) \in Slot
<1>1. Hash[e] \in Nat
  BY ValueAssumption
<1>2. QED
  BY <1>1 DEF Home, Slot

\* The masked successor is the cyclic one.
LEMMA NextSlotIsCyclic ==
    ASSUME capacity \in Nat, capacity >= 1, NEW s \in Slot
    PROVE  NextSlot(s) = IF s + 1 = capacity THEN 0 ELSE s + 1
<1>1. CASE s + 1 = capacity
  BY <1>1 DEF NextSlot, Slot
<1>2. CASE s + 1 < capacity
  BY <1>2 DEF NextSlot, Slot
<1>3. QED
  BY <1>1, <1>2 DEF Slot

\* A walk that has not started has passed over nothing.
LEMMA WalkStartsEmpty ==
    ASSUME NEW h \in Nat, NEW x \in Nat
    PROVE  ~Between(h, x, h)
BY DEF Between

\* Advancing a walk by one slot adds that slot to those passed over (or, at
\* the end of a full round, empties them).
LEMMA WalkAdvances ==
    ASSUME capacity \in Nat, capacity >= 1,
           NEW h \in Slot, NEW x \in Slot, NEW s \in Slot,
           Between(h, x, NextSlot(s))
    PROVE  Between(h, x, s) \/ x = s
BY NextSlotIsCyclic DEF Between, Slot

\* Of two slots, one comes first on a walk.
LEMMA WalkOrders ==
    ASSUME NEW h \in Nat, NEW x \in Nat, NEW s \in Nat, x # s
    PROVE  Between(h, x, s) \/ Between(h, s, x)
BY DEF Between

\* Steps that leave the slots, the capacity and the encoded keys alone keep
\* the chains.
LEMMA ChainsUnchanged ==
    ASSUME ProbeChainsIntact, UNCHANGED <<slots, capacity, keys>>
    PROVE  ProbeChainsIntact'
BY DEF ProbeChainsIntact, Home

-----------------------------------------------------------------------------
(* The initial states and the constructor.                                   *)

LEMMA InitInv == TableInit => TableInv
BY ValueAssumption
   DEF TableInit, TableInv, TableTypeOK, KeysEncodeColumns, LoadBounded,
       ProbeChainsIntact, SlotsAndGroupsMatch, RehashConserves, WalksSound,
       InsertedIsNew, GroupsDistinct, Built, Rehashing, NoSlots

LEMMA ConstructInv ==
    ASSUME TableInv, NEW r \in Reserves, Construct(r)
    PROVE  TableInv'
BY CapacityAssumption
   DEF Construct, TableInv, TableTypeOK, KeysEncodeColumns, LoadBounded,
       ProbeChainsIntact, SlotsAndGroupsMatch, RehashConserves, WalksSound,
       InsertedIsNew, GroupsDistinct, Built, Rehashing, NoSlots

LEMMA CapacityForDoublesInv ==
    ASSUME TableInv, CapacityForDoubles
    PROVE  TableInv'
BY DEF CapacityForDoubles, TableInv, TableTypeOK, KeysEncodeColumns,
       LoadBounded, ProbeChainsIntact, SlotsAndGroupsMatch, RehashConserves,
       WalksSound, InsertedIsNew, GroupsDistinct, Built, Rehashing, NoSlots

LEMMA ReserveEndsInv ==
    ASSUME TableInv, ReserveEnds
    PROVE  TableInv'
<1>1. /\ pc = "reserve" /\ pc' = "idle"
      /\ capacity \in Nat /\ capacity >= 2
      /\ keys = <<>> /\ columns \in Seq(Value) /\ Len(columns) = 0
      /\ slots' = [s \in 0 .. capacity - 1 |-> 0]
      /\ UNCHANGED <<capacity, keys, columns, reserve, key, slot_idx,
                     old_slots, old_capacity, cursor>>
  BY DEF ReserveEnds, TableInv, TableTypeOK, LoadBounded, Built, EmptySlots,
         Free
<1>2. TableTypeOK'
  <2>1. slots' \in [0 .. capacity - 1 -> 0 .. Len(keys)]
    BY <1>1
  <2>2. QED
    BY <1>1, <2>1 DEF TableInv, TableTypeOK, Built, Rehashing, Slot
<1>3. KeysEncodeColumns' /\ LoadBounded'
  BY <1>1 DEF KeysEncodeColumns, LoadBounded, Built
<1>4. ProbeChainsIntact' /\ SlotsAndGroupsMatch'
  BY <1>1 DEF ProbeChainsIntact, SlotsAndGroupsMatch, Free
<1>5. RehashConserves' /\ WalksSound' /\ InsertedIsNew' /\ GroupsDistinct'
  BY <1>1 DEF RehashConserves, WalksSound, InsertedIsNew, GroupsDistinct,
              Rehashing
<1>6. QED
  BY <1>2, <1>3, <1>4, <1>5 DEF TableInv

-----------------------------------------------------------------------------
(* The beginning of a call and the growth of the table.                      *)

LEMMA FindOrInsertInv ==
    ASSUME TableInv, NEW v \in Value, FindOrInsert(v)
    PROVE  TableInv'
<1>1. ProbeChainsIntact'
  BY ChainsUnchanged DEF TableInv, FindOrInsert
<1>2. QED
  BY <1>1 DEF FindOrInsert, TableInv, TableTypeOK, KeysEncodeColumns,
              LoadBounded, SlotsAndGroupsMatch, RehashConserves, WalksSound,
              InsertedIsNew, GroupsDistinct, Built, Rehashing, Slot

LEMMA GrowInv ==
    ASSUME TableInv, Grow
    PROVE  TableInv'
<1>1. /\ pc = "call" /\ pc' = "rehash"
      /\ capacity \in Nat /\ capacity >= 2 /\ capacity' = capacity * 2
      /\ keys \in Seq(Encoded) /\ Len(keys) * 4 < capacity * 3
      /\ slots \in [0 .. capacity - 1 -> 0 .. Len(keys)]
      /\ slots' = [s \in 0 .. capacity' - 1 |-> 0]
      /\ old_slots' = slots /\ old_capacity' = capacity /\ cursor' = 0
      /\ UNCHANGED <<keys, columns, reserve, key, slot_idx>>
  BY DEF Grow, TableInv, TableTypeOK, LoadBounded, Built, Slot, EmptySlots,
         Free
<1>2. TableTypeOK'
  <2>1. slots' \in [0 .. capacity' - 1 -> 0 .. Len(keys)]
    BY <1>1
  <2>2. QED
    BY <1>1, <2>1 DEF TableInv, TableTypeOK, Built, Rehashing, Slot
<1>3. KeysEncodeColumns' /\ InsertedIsNew' /\ GroupsDistinct'
  BY <1>1 DEF TableInv, KeysEncodeColumns, InsertedIsNew, GroupsDistinct
<1>4. LoadBounded'
  <2>1. Len(keys) \in Nat
    BY <1>1
  <2>2. (Len(keys) + 1) * 4 < capacity' * 3
    BY <1>1, <2>1
  <2>3. Len(keys) * 4 < capacity' * 3
    BY <1>1, <2>1
  <2>4. QED
    BY <1>1, <2>2, <2>3 DEF LoadBounded, Built
<1>5. ProbeChainsIntact' /\ SlotsAndGroupsMatch' /\ WalksSound'
  BY <1>1 DEF ProbeChainsIntact, SlotsAndGroupsMatch, WalksSound, Rehashing,
              Free
<1>6. RehashConserves'
  <2>1. \A t, u \in DOMAIN slots : slots[t] # 0 /\ slots[t] = slots[u] => t = u
    BY DEF TableInv, SlotsAndGroupsMatch, Free
  <2>2. \A g \in 1 .. Len(keys) : \E t \in DOMAIN slots : slots[t] = g
    BY <1>1 DEF TableInv, SlotsAndGroupsMatch, Built, Rehashing
  <2>3. \A g \in 1 .. Len(keys) : Pending(g)'
    BY <1>1, <2>2 DEF Pending
  <2>4. \A g \in 1 .. Len(keys) : ~ \E s \in DOMAIN slots' : slots'[s] = g
    BY <1>1
  <2>5. QED
    BY <1>1, <2>1, <2>3, <2>4 DEF RehashConserves, Free
<1>7. QED
  BY <1>2, <1>3, <1>4, <1>5, <1>6 DEF TableInv

\* What every step of Rehash starts from.
LEMMA RehashFacts ==
    ASSUME TableInv, Rehashing
    PROVE  /\ capacity \in Nat /\ capacity >= 2
           /\ keys \in Seq(Encoded) /\ columns \in Seq(Value)
           /\ Len(keys) \in Nat /\ Len(columns) = Len(keys)
           /\ slots \in [0 .. capacity - 1 -> 0 .. Len(keys)]
           /\ old_capacity \in Nat /\ cursor \in 0 .. old_capacity
           /\ old_slots \in [0 .. old_capacity - 1 -> 0 .. Len(keys)]
BY DEF TableInv, TableTypeOK, Rehashing, Built, Slot

LEMMA RehashSkipsFreeInv ==
    ASSUME TableInv, RehashSkipsFree
    PROVE  TableInv'
<1>1. Rehashing
  BY DEF RehashSkipsFree, Rehashing
<1>2. TableTypeOK'
  <2>1. cursor' \in 0 .. old_capacity
    BY <1>1, RehashFacts DEF RehashSkipsFree
  <2>2. QED
    BY <1>1, <2>1 DEF RehashSkipsFree, TableInv, TableTypeOK, Rehashing,
                      Built, Slot
<1>3. ProbeChainsIntact'
  BY ChainsUnchanged DEF TableInv, RehashSkipsFree
<1>4. RehashConserves'
  <2>1. \A g \in 1 .. Len(keys) : Pending(g)' <=> Pending(g)
    BY <1>1, RehashFacts DEF RehashSkipsFree, Pending, Free
  <2>2. QED
    BY <1>1, <2>1 DEF RehashSkipsFree, TableInv, RehashConserves, Rehashing
<1>5. QED
  BY <1>2, <1>3, <1>4
     DEF RehashSkipsFree, TableInv, KeysEncodeColumns, LoadBounded,
         SlotsAndGroupsMatch, WalksSound, InsertedIsNew, GroupsDistinct,
         Built, Rehashing

LEMMA RehashTakesGroupInv ==
    ASSUME TableInv, RehashTakesGroup
    PROVE  TableInv'
<1> DEFINE e == keys[old_slots[cursor]]
<1>1. Rehashing
  BY DEF RehashTakesGroup, Rehashing
<1>2. e \in Encoded
  <2>1. old_slots[cursor] \in 1 .. Len(keys)
    BY <1>1, RehashFacts DEF RehashTakesGroup, Free
  <2>2. QED
    BY <1>1, <2>1, RehashFacts
<1>3. Home(e) \in Slot /\ slot_idx' = Home(e)
  BY <1>1, <1>2, RehashFacts, HomeIsSlot DEF RehashTakesGroup
<1>4. TableTypeOK'
  BY <1>1, <1>3 DEF RehashTakesGroup, TableInv, TableTypeOK, Rehashing, Built,
                    Slot
<1>5. ProbeChainsIntact'
  BY ChainsUnchanged DEF TableInv, RehashTakesGroup
<1>6. WalksSound'
  <2>1. Home(e)' = Home(e)
    BY DEF RehashTakesGroup, Home
  <2>2. \A x \in DOMAIN slots : ~Between(Home(e), x, slot_idx')
    BY <1>1, <1>3, WalkStartsEmpty, RehashFacts DEF Slot
  <2>3. QED
    BY <2>1, <2>2 DEF RehashTakesGroup, WalksSound
<1>7. QED
  BY <1>1, <1>4, <1>5, <1>6
     DEF RehashTakesGroup, TableInv, KeysEncodeColumns, LoadBounded,
         SlotsAndGroupsMatch, RehashConserves, Pending, InsertedIsNew,
         GroupsDistinct, Built, Rehashing

LEMMA FindEmptySlotWalksInv ==
    ASSUME TableInv, FindEmptySlotWalks
    PROVE  TableInv'
<1> DEFINE e == keys[old_slots[cursor]]
<1>1. /\ Rehashing
      /\ slot_idx \in Slot
      /\ cursor < old_capacity /\ old_slots[cursor] # 0
  BY DEF FindEmptySlotWalks, TableInv, TableTypeOK, WalksSound, Rehashing,
         Free
<1>2. Home(e) \in Slot
  <2>1. old_slots[cursor] \in 1 .. Len(keys)
    BY <1>1, RehashFacts
  <2>2. e \in Encoded
    BY <1>1, <2>1, RehashFacts
  <2>3. QED
    BY <1>1, <2>2, RehashFacts, HomeIsSlot
<1>3. NextSlot(slot_idx) \in Slot
  BY <1>1, RehashFacts, NextSlotIsCyclic DEF Slot
<1>4. TableTypeOK'
  BY <1>1, <1>3 DEF FindEmptySlotWalks, TableInv, TableTypeOK, Rehashing,
                    Built, Slot
<1>5. ProbeChainsIntact'
  BY ChainsUnchanged DEF TableInv, FindEmptySlotWalks
<1>6. WalksSound'
  <2>1. ASSUME NEW x \in DOMAIN slots, Between(Home(e), x, NextSlot(slot_idx))
        PROVE  slots[x] # Free
    <3>1. x \in Slot
      BY <1>1, RehashFacts DEF Slot
    <3>2. Between(Home(e), x, slot_idx) \/ x = slot_idx
      BY <1>1, <1>2, <2>1, <3>1, RehashFacts, WalkAdvances
    <3>3. QED
      BY <3>2 DEF FindEmptySlotWalks, TableInv, WalksSound
  <2>2. Home(e)' = Home(e)
    BY DEF FindEmptySlotWalks, Home
  <2>3. QED
    BY <1>1, <2>1, <2>2 DEF FindEmptySlotWalks, WalksSound, Free
<1>7. QED
  BY <1>4, <1>5, <1>6
     DEF FindEmptySlotWalks, TableInv, KeysEncodeColumns, LoadBounded,
         SlotsAndGroupsMatch, RehashConserves, Pending, InsertedIsNew,
         GroupsDistinct, Built, Rehashing

LEMMA RehashPlacesInv ==
    ASSUME TableInv, RehashPlaces
    PROVE  TableInv'
<1> DEFINE g == old_slots[cursor]
<1>1. /\ Rehashing
      /\ slot_idx \in Slot /\ slots[slot_idx] = 0
      /\ cursor < old_capacity /\ g # 0
      /\ slots' = [slots EXCEPT ![slot_idx] = g]
      /\ cursor' = cursor + 1
      /\ pc' = "rehash"
      /\ UNCHANGED <<capacity, keys, columns, reserve, key, slot_idx,
                     old_slots, old_capacity>>
  BY DEF RehashPlaces, TableInv, TableTypeOK, WalksSound, Rehashing, Free
<1>2. g \in 1 .. Len(keys) /\ cursor \in DOMAIN old_slots
  BY <1>1, RehashFacts
<1>3. \A s \in DOMAIN slots : slots'[s] = IF s = slot_idx THEN g ELSE slots[s]
  BY <1>1, RehashFacts
<1>4. DOMAIN slots' = DOMAIN slots /\ DOMAIN slots = Slot
  BY <1>1, RehashFacts DEF Slot
<1>5. TableTypeOK'
  <2>1. slots' \in [0 .. capacity - 1 -> 0 .. Len(keys)]
    BY <1>1, <1>2, RehashFacts DEF Slot
  <2>2. cursor' \in 0 .. old_capacity
    BY <1>1, RehashFacts
  <2>3. QED
    BY <1>1, <2>1, <2>2 DEF TableInv, TableTypeOK, Rehashing, Built, Slot
<1>6. KeysEncodeColumns' /\ LoadBounded' /\ InsertedIsNew' /\ GroupsDistinct'
  BY <1>1 DEF TableInv, KeysEncodeColumns, LoadBounded, InsertedIsNew,
              GroupsDistinct, Built, Rehashing
<1>7. WalksSound'
  BY <1>1 DEF WalksSound
<1>8. ProbeChainsIntact'
  <2>1. ASSUME NEW s \in DOMAIN slots', slots'[s] # Free,
               NEW x \in DOMAIN slots', Between(Home(keys[slots'[s]]), x, s)
        PROVE  slots'[x] # Free
    <3>1. slots[x] # Free => slots'[x] # Free
      BY <1>1, <1>3, <1>4 DEF Free
    <3>2. CASE s = slot_idx
      <4>1. \A y \in DOMAIN slots :
                Between(Home(keys[g]), y, slot_idx) => slots[y] # Free
        BY DEF TableInv, WalksSound, RehashPlaces
      <4>2. slots'[s] = g
        BY <1>3, <1>4, <3>2
      <4>3. slots[x] # Free
        BY <1>4, <2>1, <3>2, <4>1, <4>2
      <4>4. QED
        BY <3>1, <4>3
    <3>3. CASE s # slot_idx
      BY <1>3, <1>4, <2>1, <3>1, <3>3 DEF TableInv, ProbeChainsIntact
    <3>4. QED
      BY <3>2, <3>3
  <2>2. \A e : Home(e)' = Home(e)
    BY <1>1 DEF Home
  <2>3. QED
    BY <1>1, <2>1, <2>2 DEF ProbeChainsIntact
<1>9. \A h \in 1 .. Len(keys) :
          (\E s \in DOMAIN slots : slots[s] = h) <=> ~Pending(h)
  BY <1>1 DEF TableInv, RehashConserves
<1>10. \A t, u \in DOMAIN old_slots :
          old_slots[t] # 0 /\ old_slots[t] = old_slots[u] => t = u
  BY <1>1 DEF TableInv, RehashConserves, Free
<1>11. Pending(g)
  BY <1>2, RehashFacts, <1>1 DEF Pending
<1>12. SlotsAndGroupsMatch'
  <2>1. \A s \in DOMAIN slots : slots[s] # g
    BY <1>2, <1>9, <1>11
  <2>2. \A s, t \in DOMAIN slots : slots[s] # 0 /\ slots[s] = slots[t] => s = t
    BY DEF TableInv, SlotsAndGroupsMatch, Free
  <2>3. QED
    BY <1>1, <1>3, <1>4, <2>1, <2>2 DEF SlotsAndGroupsMatch, Rehashing, Free
<1>13. RehashConserves'
  <2>1. ASSUME NEW h \in 1 .. Len(keys)
        PROVE  (\E s \in DOMAIN slots' : slots'[s] = h) <=> ~Pending(h)'
    <3>1. CASE h = g
      <4>1. \E s \in DOMAIN slots' : slots'[s] = h
        BY <1>1, <1>3, <1>4, <3>1
      <4>2. ~Pending(h)'
        BY <1>1, <1>2, <1>10, <3>1, RehashFacts DEF Pending
      <4>3. QED
        BY <4>1, <4>2
    <3>2. CASE h # g
      <4>1. (\E s \in DOMAIN slots' : slots'[s] = h)
              <=> (\E s \in DOMAIN slots : slots[s] = h)
        BY <1>1, <1>3, <1>4, <3>2
      <4>2. Pending(h)' <=> Pending(h)
        <5>1. ASSUME NEW t \in DOMAIN old_slots, old_slots[t] = h
              PROVE  cursor <= t <=> cursor + 1 <= t
          <6>1. t # cursor
            BY <3>2, <5>1
          <6>2. t \in Int /\ cursor \in Int
            BY <1>1, RehashFacts
          <6>3. QED
            BY <6>1, <6>2
        <5>2. QED
          BY <1>1, <5>1 DEF Pending
      <4>3. QED
        BY <1>9, <4>1, <4>2
    <3>3. QED
      BY <3>1, <3>2
  <2>2. QED
    BY <1>1, <1>10, <2>1 DEF RehashConserves, Free
<1>14. QED
  BY <1>5, <1>6, <1>7, <1>8, <1>12, <1>13 DEF TableInv

-----------------------------------------------------------------------------
(* The lookup.                                                               *)

\* A lookup starts its walk at the key's home.
LEMMA StartProbeFacts ==
    ASSUME TableInv, StartProbe, UNCHANGED <<capacity, slots, key, keys>>,
           Built
    PROVE  /\ slot_idx' \in Slot
           /\ WalksSound'
<1>1. /\ capacity \in Nat /\ capacity >= 2
      /\ DOMAIN slots = Slot
      /\ Encode[key] \in Encoded
  BY ValueAssumption DEF TableInv, TableTypeOK, Built
<1>2. slot_idx' = Home(Encode[key]) /\ pc' = "probe"
  BY DEF StartProbe
<1>3. Home(Encode[key]) \in Slot
  BY <1>1, HomeIsSlot
<1>4. \A x \in DOMAIN slots : ~Between(Home(Encode[key]), x, slot_idx')
  BY <1>1, <1>2, <1>3, WalkStartsEmpty DEF Slot
<1>5. Home(Encode[key])' = Home(Encode[key])
  BY DEF Home
<1>6. QED
  BY <1>2, <1>3, <1>4, <1>5 DEF WalksSound

LEMMA RehashEndsInv ==
    ASSUME TableInv, RehashEnds
    PROVE  TableInv'
<1>1. Rehashing /\ pc' = "probe"
  BY DEF RehashEnds, StartProbe, Rehashing
<1>2. slot_idx' \in Slot /\ WalksSound'
  BY <1>1, StartProbeFacts DEF RehashEnds, Rehashing, Built
<1>3. TableTypeOK'
  BY <1>1, <1>2 DEF RehashEnds, TableInv, TableTypeOK, Rehashing, Built, Slot
<1>4. ProbeChainsIntact'
  BY ChainsUnchanged DEF TableInv, RehashEnds
<1>5. SlotsAndGroupsMatch'
  <2>1. \A g \in 1 .. Len(keys) : ~Pending(g)
    BY <1>1, RehashFacts DEF RehashEnds, Pending
  <2>2. \A g \in 1 .. Len(keys) : \E s \in DOMAIN slots : slots[s] = g
    BY <1>1, <2>1 DEF TableInv, RehashConserves
  <2>3. QED
    BY <2>2 DEF RehashEnds, TableInv, SlotsAndGroupsMatch
<1>6. QED
  BY <1>1, <1>2, <1>3, <1>4, <1>5
     DEF RehashEnds, TableInv, KeysEncodeColumns, LoadBounded,
         RehashConserves, InsertedIsNew, GroupsDistinct, Built, Rehashing

LEMMA FindSlotStartsInv ==
    ASSUME TableInv, FindSlotStarts
    PROVE  TableInv'
<1>1. pc = "call" /\ pc' = "probe"
  BY DEF FindSlotStarts, StartProbe
<1>2. slot_idx' \in Slot /\ WalksSound'
  BY <1>1, StartProbeFacts DEF FindSlotStarts, Built
<1>3. TableTypeOK'
  BY <1>1, <1>2 DEF FindSlotStarts, TableInv, TableTypeOK, Rehashing, Built,
                    Slot
<1>4. ProbeChainsIntact'
  BY ChainsUnchanged DEF TableInv, FindSlotStarts
<1>5. LoadBounded'
  <2>1. Len(keys) \in Nat /\ capacity \in Nat
    BY DEF TableInv, TableTypeOK
  <2>2. QED
    BY <1>1, <2>1 DEF FindSlotStarts, ShouldGrow, TableInv, LoadBounded, Built
<1>6. QED
  BY <1>1, <1>2, <1>3, <1>4, <1>5
     DEF FindSlotStarts, TableInv, KeysEncodeColumns, SlotsAndGroupsMatch,
         RehashConserves, InsertedIsNew, GroupsDistinct, Built, Rehashing

\* What every step of FindSlot's walk starts from.
LEMMA ProbeFacts ==
    ASSUME TableInv, pc = "probe"
    PROVE  /\ capacity \in Nat /\ capacity >= 2
           /\ slot_idx \in Slot /\ DOMAIN slots = Slot
           /\ Encode[key] \in Encoded /\ Home(Encode[key]) \in Slot
           /\ slots \in [Slot -> 0 .. Len(keys)]
           /\ keys \in Seq(Encoded) /\ columns \in Seq(Value)
           /\ Len(keys) \in Nat /\ Len(columns) = Len(keys)
<1>1. /\ capacity \in Nat /\ capacity >= 2
      /\ slot_idx \in Slot /\ DOMAIN slots = Slot
      /\ Encode[key] \in Encoded
      /\ slots \in [Slot -> 0 .. Len(keys)]
      /\ keys \in Seq(Encoded) /\ columns \in Seq(Value)
      /\ Len(keys) \in Nat /\ Len(columns) = Len(keys)
  BY ValueAssumption DEF TableInv, TableTypeOK, Built
<1>2. QED
  BY <1>1, HomeIsSlot

LEMMA FindSlotWalksInv ==
    ASSUME TableInv, FindSlotWalks
    PROVE  TableInv'
<1>1. pc = "probe" /\ pc' = "probe"
  BY DEF FindSlotWalks
<1>2. NextSlot(slot_idx) \in Slot
  BY <1>1, ProbeFacts, NextSlotIsCyclic DEF Slot
<1>3. TableTypeOK'
  BY <1>1, <1>2 DEF FindSlotWalks, TableInv, TableTypeOK, Rehashing, Built,
                    Slot
<1>4. ProbeChainsIntact'
  BY ChainsUnchanged DEF TableInv, FindSlotWalks
<1>5. WalksSound'
  <2>1. ASSUME NEW x \in DOMAIN slots,
               Between(Home(Encode[key]), x, NextSlot(slot_idx))
        PROVE  slots[x] # Free /\ ~Matches(slots[x], key)
    <3>1. Between(Home(Encode[key]), x, slot_idx) \/ x = slot_idx
      BY <1>1, <2>1, ProbeFacts, WalkAdvances
    <3>2. QED
      BY <1>1, <3>1 DEF FindSlotWalks, TableInv, WalksSound
  <2>2. Home(Encode[key])' = Home(Encode[key])
    BY DEF FindSlotWalks, Home
  <2>3. \A x : Matches(slots[x], key)' <=> Matches(slots[x], key)
    BY DEF FindSlotWalks, Matches
  <2>4. QED
    BY <1>1, <2>1, <2>2, <2>3 DEF FindSlotWalks, WalksSound
<1>6. QED
  BY <1>1, <1>3, <1>4, <1>5
     DEF FindSlotWalks, TableInv, KeysEncodeColumns, LoadBounded,
         SlotsAndGroupsMatch, RehashConserves, InsertedIsNew, GroupsDistinct,
         Built, Rehashing

LEMMA FoundInv ==
    ASSUME TableInv, Found
    PROVE  TableInv'
<1>1. pc = "probe" /\ pc' = "found"
  BY DEF Found
<1>2. ProbeChainsIntact'
  BY ChainsUnchanged DEF TableInv, Found
<1>3. TableTypeOK' /\ WalksSound'
  BY <1>1 DEF Found, TableInv, TableTypeOK, WalksSound, Rehashing, Built, Slot
<1>4. LoadBounded'
  BY <1>1 DEF Found, TableInv, LoadBounded, Built
<1>5. QED
  BY <1>1, <1>2, <1>3, <1>4
     DEF Found, TableInv, KeysEncodeColumns, SlotsAndGroupsMatch,
         RehashConserves, InsertedIsNew, GroupsDistinct, Built, Rehashing

\* The heart of the matter: when FindSlot stops at a free slot, no group has
\* the value looked up.  Such a group would sit in a slot of the same walk;
\* before the free slot, the walk would have seen it match; beyond it, the
\* group's own chain would run over the free slot.
LEMMA FreeSlotMeansAbsent ==
    ASSUME TableInv, pc = "probe", slots[slot_idx] = Free,
           key \notin NotSelfEqual, NEW g \in DOMAIN columns
    PROVE  columns[g] # key
<1> DEFINE h == Home(Encode[key])
<1>1. SUFFICES ASSUME columns[g] = key PROVE FALSE
  OBVIOUS
<1>2. g \in 1 .. Len(keys)
  BY ProbeFacts
<1>3. PICK t \in DOMAIN slots : slots[t] = g
  BY <1>2 DEF TableInv, SlotsAndGroupsMatch, Built, Rehashing
<1>4. keys[g] = Encode[key]
  BY <1>1, ProbeFacts DEF TableInv, KeysEncodeColumns
<1>5. Matches(g, key)
  BY <1>1, <1>4 DEF Matches
<1>6. slots[t] # Free
  BY <1>2, <1>3, ProbeFacts DEF Free
<1>7. Between(h, t, slot_idx) \/ Between(h, slot_idx, t)
  BY <1>6, ProbeFacts, WalkOrders DEF Slot
<1>8. CASE Between(h, t, slot_idx)
  BY <1>3, <1>5, <1>8 DEF TableInv, WalksSound
<1>9. CASE Between(h, slot_idx, t)
  BY <1>3, <1>4, <1>6, <1>9, ProbeFacts DEF TableInv, ProbeChainsIntact
<1>10. QED
  BY <1>7, <1>8, <1>9

LEMMA InsertInv ==
    ASSUME TableInv, Insert
    PROVE  TableInv'
<1> DEFINE n == Len(keys) + 1
<1>1. /\ pc = "probe" /\ pc' = "inserted"
      /\ slots[slot_idx] = Free
      /\ keys' = Append(keys, Encode[key])
      /\ slots' = [slots EXCEPT ![slot_idx] = n]
      /\ UNCHANGED <<capacity, columns, reserve, key, slot_idx, old_slots,
                     old_capacity, cursor>>
  BY DEF Insert
<1>2. /\ keys' \in Seq(Encoded) /\ Len(keys') = n
      /\ keys'[n] = Encode[key]
      /\ \A g \in 1 .. Len(keys) : keys'[g] = keys[g]
  BY <1>1, ProbeFacts
<1>3. /\ DOMAIN slots' = DOMAIN slots
      /\ \A s \in DOMAIN slots :
            slots'[s] = IF s = slot_idx THEN n ELSE slots[s]
      /\ n \in Nat /\ n # 0
      /\ \A s \in DOMAIN slots : slots[s] \in 0 .. Len(keys)
  BY <1>1, ProbeFacts
<1>4. TableTypeOK'
  <2>1. slots' \in [Slot -> 0 .. Len(keys')]
    BY <1>1, <1>2, <1>3, ProbeFacts
  <2>2. Len(keys') = Len(columns) + 1
    BY <1>1, <1>2, ProbeFacts
  <2>3. QED
    BY <1>1, <1>2, <2>1, <2>2 DEF TableInv, TableTypeOK, Rehashing, Built, Slot
<1>5. KeysEncodeColumns'
  BY <1>1, <1>2, ProbeFacts DEF TableInv, KeysEncodeColumns
<1>6. LoadBounded'
  BY <1>1, <1>2 DEF TableInv, LoadBounded, Built
<1>7. ProbeChainsIntact'
  <2>1. \A e : Home(e)' = Home(e)
    BY <1>1 DEF Home
  <2>2. ASSUME NEW s \in DOMAIN slots, slots'[s] # Free,
               NEW x \in DOMAIN slots, Between(Home(keys'[slots'[s]]), x, s)
        PROVE  slots'[x] # Free
    <3>1. slots[x] # Free => slots'[x] # Free
      BY <1>3 DEF Free
    <3>2. CASE s = slot_idx
      <4>1. Between(Home(Encode[key]), x, slot_idx)
        BY <1>2, <1>3, <2>2, <3>2
      <4>2. QED
        BY <1>1, <3>1, <4>1 DEF TableInv, WalksSound
    <3>3. CASE s # slot_idx
      <4>1. slots'[s] = slots[s] /\ keys'[slots[s]] = keys[slots[s]]
        BY <1>2, <1>3, <2>2, <3>3 DEF Free
      <4>2. QED
        BY <2>2, <3>1, <4>1 DEF TableInv, ProbeChainsIntact
    <3>4. QED
      BY <3>2, <3>3
  <2>3. QED
    BY <1>3, <2>1, <2>2 DEF ProbeChainsIntact
<1>8. SlotsAndGroupsMatch'
  <2>1. \A s, t \in DOMAIN slots : slots'[s] # Free /\ slots'[s] = slots'[t] => s = t
    BY <1>3 DEF TableInv, SlotsAndGroupsMatch, Free
  <2>2. ASSUME NEW g \in 1 .. n
        PROVE  \E s \in DOMAIN slots : slots'[s] = g
    <3>1. CASE g = n
      BY <1>1, <1>3, <3>1, ProbeFacts
    <3>2. CASE g # n
      <4>1. g \in 1 .. Len(keys)
        BY <1>1, <3>2, ProbeFacts
      <4>2. PICK s \in DOMAIN slots : slots[s] = g
        BY <1>1, <4>1 DEF TableInv, SlotsAndGroupsMatch, Built, Rehashing
      <4>3. s # slot_idx
        BY <1>1, <4>1, <4>2 DEF Free
      <4>4. QED
        BY <1>3, <4>2, <4>3
    <3>3. QED
      BY <3>1, <3>2
  <2>3. QED
    BY <1>2, <1>3, <2>1, <2>2 DEF SlotsAndGroupsMatch
<1>9. InsertedIsNew'
  BY <1>1, FreeSlotMeansAbsent DEF InsertedIsNew
<1>10. QED
  BY <1>1, <1>4, <1>5, <1>6, <1>7, <1>8, <1>9
     DEF TableInv, RehashConserves, WalksSound, GroupsDistinct, Rehashing

-----------------------------------------------------------------------------
(* The caller's side.                                                        *)

LEMMA AppendGroupKeyInv ==
    ASSUME TableInv, AppendGroupKey
    PROVE  TableInv'
<1>1. /\ pc = "inserted" /\ pc' = "idle"
      /\ columns \in Seq(Value) /\ key \in Value
      /\ columns' = Append(columns, key)
      /\ keys \in Seq(Encoded) /\ Len(keys) = Len(columns) + 1
      /\ UNCHANGED <<slots, capacity, keys, reserve, key, slot_idx, old_slots,
                     old_capacity, cursor>>
  BY DEF AppendGroupKey, TableInv, TableTypeOK
<1>2. /\ columns' \in Seq(Value) /\ Len(columns') = Len(keys)
      /\ columns'[Len(keys)] = key
      /\ \A g \in 1 .. Len(columns) : columns'[g] = columns[g]
  BY <1>1
<1>3. TableTypeOK'
  BY <1>1, <1>2 DEF TableInv, TableTypeOK, Rehashing, Built, Slot
<1>4. ProbeChainsIntact'
  BY ChainsUnchanged, <1>1 DEF TableInv
<1>5. KeysEncodeColumns'
  BY <1>1, <1>2 DEF TableInv, KeysEncodeColumns
<1>6. GroupsDistinct'
  BY <1>1, <1>2 DEF TableInv, GroupsDistinct, InsertedIsNew
<1>7. QED
  BY <1>1, <1>3, <1>4, <1>5, <1>6
     DEF TableInv, LoadBounded, SlotsAndGroupsMatch, RehashConserves,
         WalksSound, InsertedIsNew, Built, Rehashing

LEMMA UseGroupInv ==
    ASSUME TableInv, UseGroup
    PROVE  TableInv'
<1>1. ProbeChainsIntact'
  BY ChainsUnchanged DEF TableInv, UseGroup
<1>2. QED
  BY <1>1 DEF UseGroup, TableInv, TableTypeOK, KeysEncodeColumns,
              LoadBounded, SlotsAndGroupsMatch, RehashConserves, WalksSound,
              InsertedIsNew, GroupsDistinct, Built, Rehashing, Slot

-----------------------------------------------------------------------------
(* The theorems.                                                             *)

LEMMA NextInv == TableInv /\ [TableNext]_tableVars => TableInv'
<1> SUFFICES ASSUME TableInv, [TableNext]_tableVars PROVE TableInv'
  OBVIOUS
<1>1. CASE \E r \in Reserves : Construct(r)
  BY <1>1, ConstructInv
<1>2. CASE \E v \in Value : FindOrInsert(v)
  BY <1>2, FindOrInsertInv
<1>3. CASE TableStep
  BY <1>3, CapacityForDoublesInv, ReserveEndsInv, GrowInv,
     RehashSkipsFreeInv, RehashTakesGroupInv, FindEmptySlotWalksInv,
     RehashPlacesInv, RehashEndsInv, FindSlotStartsInv, FindSlotWalksInv,
     FoundInv, InsertInv
     DEF TableStep
<1>4. CASE AppendGroupKey \/ UseGroup
  BY <1>4, AppendGroupKeyInv, UseGroupInv
<1>5. CASE UNCHANGED tableVars
  <2>1. ProbeChainsIntact'
    BY <1>5, ChainsUnchanged DEF TableInv, tableVars
  <2>2. TableTypeOK' /\ WalksSound'
    BY <1>5 DEF TableInv, TableTypeOK, WalksSound, Built, Rehashing, Slot,
                Home, Matches, tableVars
  <2>3. QED
    BY <1>5, <2>1, <2>2
       DEF TableInv, KeysEncodeColumns, LoadBounded, SlotsAndGroupsMatch,
           RehashConserves, Pending, InsertedIsNew, GroupsDistinct, Built,
           Rehashing, tableVars
<1>6. QED
  BY <1>1, <1>2, <1>3, <1>4, <1>5 DEF TableNext

\* Whatever calls are made of the table (FindOrInsert in any order, with any
\* encoding and any hash), its invariant holds at every step of every call.
THEOREM TableInvariant == TableSpec => []TableInv
BY InitInv, NextInv, PTL DEF TableSpec

\* Types and the agreement of the sizes of keys_ and of the caller's columns.
THEOREM TableTypeCorrect == TableSpec => []TableTypeOK
<1>1. TableInv => TableTypeOK
  BY DEF TableInv
<1>2. QED
  BY <1>1, TableInvariant, PTL

\* No group lies beyond a free slot of its own walk, across insertions and
\* growth.
THEOREM TableChains == TableSpec => []ProbeChainsIntact
<1>1. TableInv => ProbeChainsIntact
  BY DEF TableInv
<1>2. QED
  BY <1>1, TableInvariant, PTL

\* Growth neither loses nor duplicates a group.
THEOREM TableConserves == TableSpec => []SlotsAndGroupsMatch
<1>1. TableInv => SlotsAndGroupsMatch
  BY DEF TableInv
<1>2. QED
  BY <1>1, TableInvariant, PTL

\* GROUP BY never gives one value two groups, even when encodings collide.
THEOREM OneGroupPerValue == TableSpec => []GroupsDistinct
<1>1. TableInv => GroupsDistinct
  BY DEF TableInv
<1>2. QED
  BY <1>1, TableInvariant, PTL

\* By the pigeonhole principle: were every slot taken, the slots would be an
\* injection into fewer groups.
LEMMA FreeSlotByPigeonhole == TableInv => FreeSlotExists
<1> SUFFICES ASSUME TableInv, Built, \A s \in Slot : slots[s] # Free
             PROVE  FALSE
  BY DEF FreeSlotExists
<1>1. /\ capacity \in Nat /\ Len(keys) \in Nat
      /\ slots \in [Slot -> 0 .. Len(keys)]
      /\ Len(keys) < capacity
  <2>1. /\ capacity \in Nat /\ capacity >= 2 /\ Len(keys) \in Nat
        /\ slots \in [Slot -> 0 .. Len(keys)]
        /\ Len(keys) * 4 < capacity * 3
    BY DEF TableInv, TableTypeOK, LoadBounded, Built
  <2>2. QED
    BY <2>1
<1>2. slots \in [Slot -> 1 .. Len(keys)]
  BY <1>1 DEF Free
<1>3. IsFiniteSet(Slot) /\ Cardinality(Slot) = capacity
  BY <1>1, FS_Interval DEF Slot
<1>4. IsFiniteSet(1 .. Len(keys)) /\ Cardinality(1 .. Len(keys)) = Len(keys)
  <2>1. \A n \in Nat : /\ IsFiniteSet(1 .. n)
                       /\ Cardinality(1 .. n) = IF 1 > n THEN 0 ELSE n - 1 + 1
    BY FS_Interval
  <2>2. \A n \in Nat : (IF 1 > n THEN 0 ELSE n - 1 + 1) = n
    OBVIOUS
  <2>3. QED
    BY <1>1, <2>1, <2>2
<1>5. \E s, t \in Slot : s # t /\ slots[s] = slots[t]
  <2>1. Cardinality(1 .. Len(keys)) < Cardinality(Slot)
    BY <1>1, <1>3, <1>4
  <2>2. QED
    BY <1>2, <1>3, <1>4, <2>1, FS_PigeonHole, Zenon
<1>6. QED
  BY <1>1, <1>5 DEF TableInv, SlotsAndGroupsMatch, Free

\* Neither unbounded loop of the class can run out of free slots to stop at.
THEOREM WalksHaveAFreeSlot == TableSpec => []FreeSlotExists
BY TableInvariant, FreeSlotByPigeonhole, PTL
=============================================================================
