------------------------- MODULE CompactGroupTable -------------------------
(***************************************************************************)
(* The open-addressing hash table of the GROUP BY operator, class          *)
(* exec_group::CompactGroupTable.  One instance lives for one query; it    *)
(* numbers the distinct group keys in the order of their first appearance. *)
(*                                                                         *)
(* The table keeps the *encoded* key of each group (keys_) and the slots   *)
(* that point at groups.  Text and DOUBLE keys are encoded by a hash, so   *)
(* two different values may share an encoding: the caller hands a callback *)
(* that compares the values themselves, which the caller keeps in its own  *)
(* output columns and extends right after an insertion.                    *)
(*                                                                         *)
(* Every loop of the class is unfolded into steps: the growth of the       *)
(* initial capacity, the walk of Rehash over the old slots, the walk of    *)
(* FindEmptySlot and the walk of FindSlot.                                 *)
(***************************************************************************)
EXTENDS Naturals, Sequences

CONSTANTS
    Value,             \* values a row may have in the GROUP BY columns
    NotSelfEqual,      \* those C++ finds different from themselves (NaN)
    Encoded,           \* encoded keys, std::vector<uint64_t>
    Encode,            \* value -> encoded key
    Hash,              \* encoded key -> size_t
    kInitialCapacity,  \* 8 in the code
    Reserves           \* arguments the constructor may get

ASSUME ValueAssumption ==
    /\ Value # {} /\ NotSelfEqual \subseteq Value
    /\ Encode \in [Value -> Encoded]
    /\ Hash \in [Encoded -> Nat]

ASSUME CapacityAssumption ==
    /\ kInitialCapacity \in Nat
    /\ kInitialCapacity >= 2
    /\ Reserves \subseteq Nat

VARIABLES
    slots,         \* slots_: 0 for a free slot, otherwise group_idx + 1
    capacity,      \* slots_.size(), or the local of CapacityFor while it runs
    keys,          \* keys_: the encoded key of each group
    columns,       \* the caller's group_key_columns: the value of each group
    pc,            \* where the running call stands
    reserve,       \* the constructor's reserve_groups
    key,           \* FindOrInsert's argument
    slot_idx,      \* the slot the running walk looks at
    old_slots,     \* Rehash's local copy of the slots
    old_capacity,  \* its size
    cursor         \* the index of Rehash's loop over it

tableVars == <<slots, capacity, keys, columns, pc, reserve, key, slot_idx,
               old_slots, old_capacity, cursor>>

Free == 0

NoSlots == [s \in {} |-> Free]

\* slots_.resize(n) after slots_.clear()
EmptySlots(n) == [s \in 0 .. n - 1 |-> Free]

\* HashEncodedKey(key) & (size - 1); the size is kInitialCapacity doubled some
\* number of times, so the mask is the remainder.
Home(e) == Hash[e] % capacity

\* Mutant: the mask is forgotten when the walk advances.
UnmaskedNextSlot(s) == s + 1

NextSlot(s) == (s + 1) % capacity

\* Mutant: equal encodings are taken for equal values.
EncodingMatches(g, v) ==
    keys[g] = Encode[v]

\* EncodedKeysEqual and the caller's equals_existing callback
\* (StoredGroupKeyEqualsInput, which compares with ==).
Matches(g, v) ==
    /\ keys[g] = Encode[v]
    /\ columns[g] = v
    /\ v \notin NotSelfEqual

\* Mutants: the table is never grown; it is grown only once it is full.
NeverGrow == FALSE

GrowWhenFull == Len(keys) + 1 > capacity

ShouldGrow ==
    \/ capacity = 0
    \/ (Len(keys) + 1) * 4 >= capacity * 3

TableInit ==
    /\ slots = NoSlots /\ capacity = 0
    /\ keys = <<>> /\ columns = <<>>
    /\ pc = "unbuilt" /\ reserve = 0
    /\ key = CHOOSE v \in Value : TRUE  \* not read before FindOrInsert
    /\ slot_idx = 0
    /\ old_slots = NoSlots /\ old_capacity = 0 /\ cursor = 0

-----------------------------------------------------------------------------
(* The constructor: CapacityFor doubles from kInitialCapacity, Reserve then  *)
(* rehashes the empty table to that size.                                    *)

Construct(r) ==
    /\ pc = "unbuilt"
    /\ reserve' = r
    /\ capacity' = kInitialCapacity
    /\ pc' = "reserve"
    /\ UNCHANGED <<slots, keys, columns, key, slot_idx, old_slots,
                   old_capacity, cursor>>

CapacityForDoubles ==
    /\ pc = "reserve"
    /\ capacity * 3 < reserve * 4
    /\ capacity' = capacity * 2
    /\ UNCHANGED <<slots, keys, columns, pc, reserve, key, slot_idx,
                   old_slots, old_capacity, cursor>>

ReserveEnds ==
    /\ pc = "reserve"
    /\ capacity * 3 >= reserve * 4
    /\ slots' = EmptySlots(capacity)
    /\ pc' = "idle"
    /\ UNCHANGED <<capacity, keys, columns, reserve, key, slot_idx,
                   old_slots, old_capacity, cursor>>

-----------------------------------------------------------------------------
(* FindOrInsert.                                                             *)

FindOrInsert(v) ==
    /\ pc = "idle"
    /\ key' = v
    /\ pc' = "call"
    /\ UNCHANGED <<slots, capacity, keys, columns, reserve, slot_idx,
                   old_slots, old_capacity, cursor>>

\* The table grows before the lookup, so that even a lookup of a group that
\* exists may grow it.
Grow ==
    /\ pc = "call"
    /\ ShouldGrow
    /\ old_slots' = slots /\ old_capacity' = capacity
    /\ capacity' = IF capacity = 0 THEN kInitialCapacity ELSE capacity * 2
    /\ slots' = EmptySlots(capacity')
    /\ cursor' = 0
    /\ pc' = "rehash"
    /\ UNCHANGED <<keys, columns, reserve, key, slot_idx>>

RehashSkipsFree ==
    /\ pc = "rehash"
    /\ cursor < old_capacity
    /\ old_slots[cursor] = Free
    /\ cursor' = cursor + 1
    /\ UNCHANGED <<slots, capacity, keys, columns, pc, reserve, key,
                   slot_idx, old_slots, old_capacity>>

\* Mutant: the slot keeps its index, as if a home did not depend on the size.
RehashKeepsIndex ==
    /\ pc = "rehash"
    /\ cursor < old_capacity
    /\ old_slots[cursor] # Free
    /\ slot_idx' = cursor
    /\ pc' = "place"
    /\ UNCHANGED <<slots, capacity, keys, columns, reserve, key, old_slots,
                   old_capacity, cursor>>

RehashTakesGroup ==
    /\ pc = "rehash"
    /\ cursor < old_capacity
    /\ old_slots[cursor] # Free
    /\ slot_idx' = Home(keys[old_slots[cursor]])
    /\ pc' = "place"
    /\ UNCHANGED <<slots, capacity, keys, columns, reserve, key, old_slots,
                   old_capacity, cursor>>

FindEmptySlotWalks ==
    /\ pc = "place"
    /\ slots[slot_idx] # Free
    /\ slot_idx' = NextSlot(slot_idx)
    /\ UNCHANGED <<slots, capacity, keys, columns, pc, reserve, key,
                   old_slots, old_capacity, cursor>>

RehashPlaces ==
    /\ pc = "place"
    /\ slots[slot_idx] = Free
    /\ slots' = [slots EXCEPT ![slot_idx] = old_slots[cursor]]
    /\ cursor' = cursor + 1
    /\ pc' = "rehash"
    /\ UNCHANGED <<capacity, keys, columns, reserve, key, slot_idx,
                   old_slots, old_capacity>>

\* Mutant: the walk starts one slot after the key's home.
StartProbeLate ==
    /\ slot_idx' = (Home(Encode[key]) + 1) % capacity
    /\ pc' = "probe"

StartProbe ==
    /\ slot_idx' = Home(Encode[key])
    /\ pc' = "probe"

\* Mutant: the loop over the old slots stops before the last one.
RehashEndsEarly ==
    /\ pc = "rehash"
    /\ cursor + 1 = old_capacity
    /\ old_slots' = NoSlots /\ old_capacity' = 0 /\ cursor' = 0
    /\ StartProbe
    /\ UNCHANGED <<slots, capacity, keys, columns, reserve, key>>

RehashEnds ==
    /\ pc = "rehash"
    /\ cursor = old_capacity
    /\ old_slots' = NoSlots /\ old_capacity' = 0 /\ cursor' = 0
    /\ StartProbe
    /\ UNCHANGED <<slots, capacity, keys, columns, reserve, key>>

FindSlotStarts ==
    /\ pc = "call"
    /\ ~ShouldGrow
    /\ StartProbe
    /\ UNCHANGED <<slots, capacity, keys, columns, reserve, key, old_slots,
                   old_capacity, cursor>>

FindSlotWalks ==
    /\ pc = "probe"
    /\ slots[slot_idx] # Free
    /\ ~Matches(slots[slot_idx], key)
    /\ slot_idx' = NextSlot(slot_idx)
    /\ UNCHANGED <<slots, capacity, keys, columns, pc, reserve, key,
                   old_slots, old_capacity, cursor>>

\* return {slot.group_idx, false}
Found ==
    /\ pc = "probe"
    /\ slots[slot_idx] # Free
    /\ Matches(slots[slot_idx], key)
    /\ pc' = "found"
    /\ UNCHANGED <<slots, capacity, keys, columns, reserve, key, slot_idx,
                   old_slots, old_capacity, cursor>>

\* return {group_idx, true}
Insert ==
    /\ pc = "probe"
    /\ slots[slot_idx] = Free
    /\ keys' = Append(keys, Encode[key])
    /\ slots' = [slots EXCEPT ![slot_idx] = Len(keys) + 1]
    /\ pc' = "inserted"
    /\ UNCHANGED <<capacity, columns, reserve, key, slot_idx, old_slots,
                   old_capacity, cursor>>

-----------------------------------------------------------------------------
(* What the caller does with the two answers.                                *)

AppendGroupKey ==
    /\ pc = "inserted"
    /\ columns' = Append(columns, key)
    /\ pc' = "idle"
    /\ UNCHANGED <<slots, capacity, keys, reserve, key, slot_idx, old_slots,
                   old_capacity, cursor>>

UseGroup ==
    /\ pc = "found"
    /\ pc' = "idle"
    /\ UNCHANGED <<slots, capacity, keys, columns, reserve, key, slot_idx,
                   old_slots, old_capacity, cursor>>

\* The steps of a call that has begun: nothing but the program moves them.
TableStep ==
    \/ CapacityForDoubles \/ ReserveEnds
    \/ Grow \/ RehashSkipsFree \/ RehashTakesGroup \/ FindEmptySlotWalks
    \/ RehashPlaces \/ RehashEnds
    \/ FindSlotStarts \/ FindSlotWalks \/ Found \/ Insert

TableNext ==
    \/ \E r \in Reserves : Construct(r)
    \/ \E v \in Value : FindOrInsert(v)
    \/ TableStep
    \/ AppendGroupKey
    \/ UseGroup

TableSpec == TableInit /\ [][TableNext]_tableVars

-----------------------------------------------------------------------------
(* Correctness.                                                              *)

Slot == 0 .. capacity - 1

Built == pc \notin {"unbuilt", "reserve"}

Rehashing == pc \in {"rehash", "place"}

\* The type of each variable; the sizes that go together: one encoded key and
\* one column value per group, except between an insertion and the caller's
\* AppendGroupKey.
TableTypeOK ==
    /\ pc \in {"unbuilt", "reserve", "idle", "call", "rehash", "place",
               "probe", "found", "inserted"}
    /\ capacity \in Nat /\ (pc # "unbuilt" => capacity >= 2)
    /\ IF Built THEN slots \in [Slot -> 0 .. Len(keys)] ELSE slots = NoSlots
    /\ keys \in Seq(Encoded) /\ columns \in Seq(Value)
    /\ Len(keys) = Len(columns) + IF pc = "inserted" THEN 1 ELSE 0
    /\ reserve \in Nat /\ key \in Value
    /\ slot_idx \in Nat /\ (pc \in {"place", "probe"} => slot_idx \in Slot)
    /\ old_capacity \in Nat /\ cursor \in 0 .. old_capacity
    /\ IF Rehashing THEN old_slots \in [0 .. old_capacity - 1 -> 0 .. Len(keys)]
                    ELSE old_slots = NoSlots

\* Slot x lies on the walk that starts at h and has reached s.
Between(h, x, s) ==
    IF h <= s THEN h <= x /\ x < s ELSE x >= h \/ x < s

\* A lookup stops at the first free slot, so no group may lie beyond a free
\* slot of its own walk: Insert, RehashPlaces and the doubling of the capacity
\* (which moves every home) must all keep this.
ProbeChainsIntact ==
    \A s \in DOMAIN slots :
        slots[s] # Free =>
            \A x \in DOMAIN slots :
                Between(Home(keys[slots[s]]), x, s) => slots[x] # Free

\* No two slots point at the same group, and outside Rehash every group has
\* its slot: growing neither loses nor duplicates a group.
SlotsAndGroupsMatch ==
    /\ \A s, t \in DOMAIN slots :
            slots[s] # Free /\ slots[s] = slots[t] => s = t
    /\ Built /\ ~Rehashing =>
            \A g \in 1 .. Len(keys) : \E s \in DOMAIN slots : slots[s] = g

\* GROUP BY's promise: no value (but one C++ finds different from itself) has
\* two groups, whatever its encoding collides with.
GroupsDistinct ==
    \A i, j \in DOMAIN columns :
        columns[i] = columns[j] /\ columns[i] \notin NotSelfEqual => i = j

\* FindSlot and FindEmptySlot loop until they see a free slot: ShouldGrow must
\* leave one at every moment of every call.
FreeSlotExists ==
    Built => \E s \in Slot : slots[s] = Free

-----------------------------------------------------------------------------
(* The inductive invariant behind the four properties above.                 *)

KeysEncodeColumns ==
    /\ \A g \in 1 .. Len(columns) : keys[g] = Encode[columns[g]]
    /\ pc = "inserted" => keys[Len(keys)] = Encode[key]

\* What the class relies on for a free slot: after every growth or insertion
\* less than three quarters of the slots are taken, and during a call the same
\* holds for one group more.
LoadBounded ==
    /\ ~Built => keys = <<>>
    /\ Built => Len(keys) * 4 < capacity * 3
    /\ pc \in {"rehash", "place", "probe"} =>
            (Len(keys) + 1) * 4 < capacity * 3

\* The group Rehash is placing, and the groups it has not come to.
Pending(g) ==
    \E t \in DOMAIN old_slots : cursor <= t /\ old_slots[t] = g

RehashConserves ==
    Rehashing =>
        /\ \A t, u \in DOMAIN old_slots :
                old_slots[t] # Free /\ old_slots[t] = old_slots[u] => t = u
        /\ \A g \in 1 .. Len(keys) :
                (\E s \in DOMAIN slots : slots[s] = g) <=> ~Pending(g)

\* Both walks have passed over taken slots only, and FindSlot's over no match.
WalksSound ==
    /\ pc = "place" =>
            /\ cursor < old_capacity /\ old_slots[cursor] # Free
            /\ \A x \in DOMAIN slots :
                   Between(Home(keys[old_slots[cursor]]), x, slot_idx) =>
                       slots[x] # Free
    /\ pc = "probe" =>
            \A x \in DOMAIN slots :
                Between(Home(Encode[key]), x, slot_idx) =>
                    slots[x] # Free /\ ~Matches(slots[x], key)

InsertedIsNew ==
    pc = "inserted" /\ key \notin NotSelfEqual =>
        \A g \in DOMAIN columns : columns[g] # key

TableInv ==
    /\ TableTypeOK
    /\ KeysEncodeColumns
    /\ LoadBounded
    /\ ProbeChainsIntact
    /\ SlotsAndGroupsMatch
    /\ RehashConserves
    /\ WalksSound
    /\ InsertedIsNew
    /\ GroupsDistinct
=============================================================================
