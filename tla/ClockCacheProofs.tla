--------------------------- MODULE ClockCacheProofs ---------------------------
(***************************************************************************)
(* The bookkeeping of the second-chance cache is right for every set of    *)
(* keys, every length of their values and every budget.                    *)
(***************************************************************************)
EXTENDS ClockCache, FiniteSetTheorems, SequenceTheorems, TLAPS

-------------------------------------------------------------------------------
(* How the bytes of a set of keys change with one key more or less.         *)

(* A value of n bytes has n bytes.                                          *)
LEMMA BytesOfKey ==
  ASSUME NEW k, NEW n \in Nat
  PROVE  IsFiniteSet({k} \X (1 .. n)) /\ Cardinality({k} \X (1 .. n)) = n
<1>1. IsFiniteSet({k}) /\ Cardinality({k}) = 1
  BY FS_Singleton
<1>2. IsFiniteSet(1 .. n) /\ Cardinality(1 .. n) = n
  BY FS_Interval
<1>3. /\ IsFiniteSet({k} \X (1 .. n))
      /\ Cardinality({k} \X (1 .. n)) = Cardinality({k}) * Cardinality(1 .. n)
  BY <1>1, <1>2, FS_Product, Zenon
<1>4. Cardinality({k}) * Cardinality(1 .. n) = 1 * n
  BY <1>1, <1>2, Zenon
<1>5. 1 * n = n
  OBVIOUS
<1>. QED
  BY <1>3, <1>4, <1>5, Zenon

(* Caching one more key adds the length of its value.                       *)
LEMMA BytesAdded ==
  ASSUME NEW S \in SUBSET Keys, NEW k \in Keys, k \notin S,
         IsFiniteSet(Bytes(ValueLen, S))
  PROVE  /\ IsFiniteSet(Bytes(ValueLen, S \union {k}))
         /\ Cardinality(Bytes(ValueLen, S \union {k}))
              = Cardinality(Bytes(ValueLen, S)) + ValueLen[k]
<1>. DEFINE B == Bytes(ValueLen, S)
            K == {k} \X (1 .. ValueLen[k])
<1>1. ValueLen[k] \in Nat
  BY ConstantsAssumption
<1>2. IsFiniteSet(K) /\ Cardinality(K) = ValueLen[k]
  BY <1>1, BytesOfKey
<1>3. Bytes(ValueLen, S \union {k}) = B \union K
  BY DEF Bytes
<1>4. B \cap K = {}
  BY DEF Bytes
<1>5. Cardinality(B \cap K) = 0 /\ Cardinality(B) \in Nat
  BY <1>4, FS_EmptySet, FS_CardinalityType
<1>6. /\ IsFiniteSet(B \union K)
      /\ Cardinality(B \union K)
           = Cardinality(B) + Cardinality(K) - Cardinality(B \cap K)
  BY <1>2, FS_Union
<1>7. Cardinality(B \union K) = Cardinality(B) + ValueLen[k]
  <2>. HIDE DEF B, K
  <2>. QED
    BY <1>1, <1>2, <1>5, <1>6
<1>. QED
  BY <1>3, <1>6, <1>7

(* Dropping a cached key removes the length of its value.                   *)
LEMMA BytesRemoved ==
  ASSUME NEW S \in SUBSET Keys, NEW k \in S,
         IsFiniteSet(Bytes(ValueLen, S))
  PROVE  /\ IsFiniteSet(Bytes(ValueLen, S \ {k}))
         /\ Cardinality(Bytes(ValueLen, S))
              = Cardinality(Bytes(ValueLen, S \ {k})) + ValueLen[k]
<1>1. Bytes(ValueLen, S \ {k}) \subseteq Bytes(ValueLen, S)
  BY DEF Bytes
<1>2. IsFiniteSet(Bytes(ValueLen, S \ {k}))
  BY <1>1, FS_Subset
<1>3. (S \ {k}) \union {k} = S /\ k \notin S \ {k} /\ S \ {k} \in SUBSET Keys
  OBVIOUS
<1>. QED
  BY <1>2, <1>3, BytesAdded

-------------------------------------------------------------------------------
(* The inductive invariant: the index and the slots agree, the stack of     *)
(* vacant slots is exact, the bytes are accounted for, and the key being    *)
(* inserted is neither cached nor too large.                                *)

Inv ==
  /\ TypeOK
  /\ IndexMatchesSlots
  /\ VacantIsExact
  /\ BytesAccounted
  /\ PendingAdmissible
  /\ IsFiniteSet(Bytes(ValueLen, Cached))

(* The parts of the invariant that speak of the cached values.              *)
Contents ==
  /\ IndexMatchesSlots
  /\ VacantIsExact
  /\ BytesAccounted
  /\ IsFiniteSet(Bytes(ValueLen, Cached))

(* An empty cache is consistent.                                            *)
LEMMA EmptyContents ==
  /\ IsFiniteSet(Bytes(ValueLen, {}))
  /\ Cardinality(Bytes(ValueLen, {})) = 0
<1>1. Bytes(ValueLen, {}) = {}
  BY DEF Bytes
<1>. QED
  BY <1>1, FS_EmptySet

LEMMA InitInv == Init => Inv
<1>. SUFFICES ASSUME Init PROVE Inv
  OBVIOUS
<1>. USE ConstantsAssumption DEF Init
<1>1. TypeOK
  BY DEF TypeOK, Slot
<1>2. IndexMatchesSlots /\ VacantIsExact /\ PendingAdmissible
  BY DEF IndexMatchesSlots, VacantIsExact, PendingAdmissible
<1>3. Cached = {}
  BY DEF Cached
<1>4. BytesAccounted /\ IsFiniteSet(Bytes(ValueLen, Cached))
  BY <1>3, EmptyContents DEF BytesAccounted
<1>. QED
  BY <1>1, <1>2, <1>4 DEF Inv

(* Changing reference bits alone keeps the contents.                        *)
LEMMA SameKeysSameContents ==
  ASSUME Inv,
         entries' \in Seq(Slot),
         Len(entries') = Len(entries),
         \A s \in 1 .. Len(entries) : entries'[s].key = entries[s].key,
         UNCHANGED <<index, vacant, used>>
  PROVE  Contents'
<1>1. DOMAIN entries' = DOMAIN entries /\ DOMAIN entries = 1 .. Len(entries)
  BY DEF Inv, TypeOK
<1>2. IndexMatchesSlots'
  BY <1>1 DEF Inv, IndexMatchesSlots
<1>3. VacantIsExact'
  BY <1>1 DEF Inv, VacantIsExact
<1>4. Cached' = Cached
  BY DEF Cached
<1>5. BytesAccounted' /\ IsFiniteSet(Bytes(ValueLen, Cached))'
  BY <1>4 DEF Inv, BytesAccounted
<1>. QED
  BY <1>2, <1>3, <1>5 DEF Contents

(* Writing one slot leaves the other slots and their number alone.          *)
LEMMA SlotWritten ==
  ASSUME entries \in Seq(Slot), NEW i \in 1 .. Len(entries), NEW e \in Slot
  PROVE  LET new == [entries EXCEPT ![i] = e] IN
         /\ new \in Seq(Slot)
         /\ Len(new) = Len(entries)
         /\ \A s \in 1 .. Len(entries) : new[s] = IF s = i THEN e ELSE entries[s]
<1>1. entries \in [1 .. Len(entries) -> Slot]
  BY LenProperties
<1>. QED
  BY <1>1, ExceptSeq

(* Setting or clearing the reference bit of one slot keeps every key.       *)
LEMMA ReferenceBitWritten ==
  ASSUME entries \in Seq(Slot), NEW i \in 1 .. Len(entries), NEW b \in BOOLEAN
  PROVE  LET new == [entries EXCEPT ![i].referenced = b] IN
         /\ new \in Seq(Slot)
         /\ Len(new) = Len(entries)
         /\ \A s \in 1 .. Len(entries) : new[s].key = entries[s].key
<1>. DEFINE e == [entries[i] EXCEPT !.referenced = b]
<1>1. entries[i] \in Slot
  BY ElementOfSeq
<1>2. e \in Slot /\ e.key = entries[i].key
  BY <1>1 DEF Slot
<1>3. [entries EXCEPT ![i].referenced = b] = [entries EXCEPT ![i] = e]
  OBVIOUS
<1>. HIDE DEF e
<1>. QED
  BY <1>2, <1>3, SlotWritten

(* A lookup sets one reference bit.                                         *)
LEMMA GetInv ==
  ASSUME Inv, NEW k \in Keys, Get(k)
  PROVE  Inv'
<1>. USE DEF Get
<1>1. index[k] \in 1 .. Len(entries)
  BY DEF Inv, TypeOK, IndexMatchesSlots
<1>2. /\ entries' \in Seq(Slot)
      /\ Len(entries') = Len(entries)
      /\ \A s \in 1 .. Len(entries) : entries'[s].key = entries[s].key
  BY <1>1, ReferenceBitWritten DEF Inv, TypeOK
<1>3. TypeOK'
  BY <1>2 DEF Inv, TypeOK
<1>4. Contents'
  BY <1>2, SameKeysSameContents
<1>5. PendingAdmissible'
  BY DEF Inv, PendingAdmissible
<1>. QED
  BY <1>3, <1>4, <1>5 DEF Inv, Contents

(* Nothing but the bookkeeping of the insertion itself changes when it      *)
(* begins.                                                                  *)
LEMMA BeginInsertInv ==
  ASSUME Inv, NEW k \in Keys, BeginInsert(k)
  PROVE  Inv'
<1>. USE DEF BeginInsert
<1>1. TypeOK'
  BY DEF Inv, TypeOK, Cached
<1>2. Contents'
  BY SameKeysSameContents, entries' \in Seq(Slot) DEF Inv, TypeOK
<1>3. PendingAdmissible'
  BY DEF Inv, PendingAdmissible
<1>. QED
  BY <1>1, <1>2, <1>3 DEF Inv, Contents

(* An occupied slot holds a key.                                            *)
LEMMA OccupiedSlotHoldsKey ==
  ASSUME entries \in Seq(Slot), NEW s \in 1 .. Len(entries),
         entries[s].key # NoKey
  PROVE  entries[s].key \in Keys
<1>1. entries[s] \in Slot
  BY ElementOfSeq
<1>. QED
  BY <1>1 DEF Slot

(* The hand, once wrapped, is at a slot and moves to one.                   *)
LEMMA HandWrapped ==
  ASSUME TypeOK, entries # <<>>
  PROVE  /\ Len(entries) \in Nat \ {0}
         /\ hand % Len(entries) \in 0 .. Len(entries) - 1
         /\ \A h \in 0 .. Len(entries) - 1 : Advance(h) \in 0 .. Len(entries) - 1
<1>1. Len(entries) \in Nat \ {0}
  BY EmptySeq DEF TypeOK
<1>2. \A a \in Nat, n \in Nat \ {0} : a % n \in 0 .. n - 1
  OBVIOUS
<1>3. hand \in Nat
  BY DEF TypeOK
<1>4. hand % Len(entries) \in 0 .. Len(entries) - 1
  BY <1>1, <1>2, <1>3
<1>5. ASSUME NEW h \in 0 .. Len(entries) - 1
      PROVE  Advance(h) \in 0 .. Len(entries) - 1
  <2>1. h + 1 \in Nat
    BY <1>1
  <2>. QED
    BY <1>1, <1>2, <2>1 DEF Advance
<1>. QED
  BY <1>1, <1>4, <1>5

(* The hand passes over a slot.                                             *)
LEMMA PassOverInv ==
  ASSUME Inv, entries # <<>>, NEW h \in 0 .. Len(entries) - 1, PassOver(h)
  PROVE  Inv'
<1>. USE DEF PassOver
<1>1. TypeOK
  BY DEF Inv
<1>2. Len(entries) \in Nat \ {0} /\ Advance(h) \in 0 .. Len(entries) - 1
  BY <1>1, HandWrapped
<1>3. /\ entries' \in Seq(Slot)
      /\ Len(entries') = Len(entries)
      /\ \A s \in 1 .. Len(entries) : entries'[s].key = entries[s].key
  BY <1>1, <1>2, ReferenceBitWritten, h + 1 \in 1 .. Len(entries) DEF TypeOK
<1>4. TypeOK'
  BY <1>1, <1>2, <1>3 DEF TypeOK
<1>5. Contents'
  BY <1>3, SameKeysSameContents
<1>6. PendingAdmissible'
  BY DEF Inv, PendingAdmissible
<1>. QED
  BY <1>4, <1>5, <1>6 DEF Inv, Contents

(* The hand evicts the entry of its slot.                                   *)
LEMMA EvictSlotInv ==
  ASSUME Inv, entries # <<>>, NEW h \in 0 .. Len(entries) - 1,
         entries[h + 1].key # NoKey, pending # NoKey, EvictSlot(h)
  PROVE  Inv'
<1>. DEFINE victim == entries[h + 1].key
            slot == h + 1
<1>. USE DEF EvictSlot
<1>1. TypeOK
  BY DEF Inv
<1>2. Len(entries) \in Nat \ {0} /\ Advance(h) \in 0 .. Len(entries) - 1
  BY <1>1, HandWrapped
<1>3. slot \in 1 .. Len(entries) /\ DOMAIN entries = 1 .. Len(entries)
  BY <1>1, <1>2 DEF TypeOK
<1>4. victim \in Keys
  BY <1>1, <1>3, OccupiedSlotHoldsKey DEF TypeOK
<1>5. index[victim] = slot /\ victim \in Cached
  BY <1>3, <1>4 DEF Inv, IndexMatchesSlots, Cached
<1>6. VacantSlot \in Slot /\ VacantSlot.key = NoKey
  BY DEF VacantSlot, Slot
<1>7. /\ entries' \in Seq(Slot)
      /\ Len(entries') = Len(entries)
      /\ \A s \in 1 .. Len(entries) :
           entries'[s] = IF s = slot THEN VacantSlot ELSE entries[s]
  BY <1>1, <1>3, <1>6, SlotWritten DEF TypeOK
<1>8. DOMAIN entries' = DOMAIN entries
  BY <1>3, <1>7
<1>9. \A k \in Keys : index'[k] = IF k = victim THEN 0 ELSE index[k]
  BY <1>1 DEF TypeOK
<1>10. /\ IsFiniteSet(Bytes(ValueLen, Cached \ {victim}))
       /\ Cardinality(Bytes(ValueLen, Cached))
            = Cardinality(Bytes(ValueLen, Cached \ {victim})) + ValueLen[victim]
  BY <1>5, BytesRemoved DEF Inv, Cached
<1>11. Cached' = Cached \ {victim}
  BY <1>4, <1>9 DEF Cached
<1>12. Cardinality(Bytes(ValueLen, Cached \ {victim})) \in Nat
  BY <1>10, FS_CardinalityType
<1>13. used' = Cardinality(Bytes(ValueLen, Cached))'
  <2>1. ValueLen[victim] \in Nat
    BY <1>4, ConstantsAssumption
  <2>2. used = Cardinality(Bytes(ValueLen, Cached \ {victim})) + ValueLen[victim]
    BY <1>10 DEF Inv, BytesAccounted
  <2>3. used' = Cardinality(Bytes(ValueLen, Cached \ {victim}))
    BY <1>12, <2>1, <2>2
  <2>. QED
    BY <1>11, <2>3
<1>14. used' \in Nat /\ used' <= used
  BY <1>1, <1>4, ConstantsAssumption DEF TypeOK
<1>15. BytesAccounted' /\ IsFiniteSet(Bytes(ValueLen, Cached))'
  BY <1>1, <1>10, <1>11, <1>13, <1>14, ConstantsAssumption
  DEF Inv, BytesAccounted, TypeOK
<1>16. /\ vacant' \in Seq(Nat \ {0})
       /\ Len(vacant') = Len(vacant) + 1
       /\ \A i \in 1 .. Len(vacant) : vacant'[i] = vacant[i]
       /\ vacant'[Len(vacant) + 1] = slot
  BY <1>1 DEF TypeOK
<1>17. TypeOK'
  <2>1. index' \in [Keys -> Nat]
    BY <1>1 DEF TypeOK
  <2>2. hand' \in Nat /\ hand' < Len(entries')
    BY <1>2, <1>7
  <2>3. /\ pending' \in Keys \union {NoKey} /\ scanned' \in Nat
        /\ before' \in SUBSET Keys
    BY <1>1 DEF TypeOK
  <2>. QED
    BY <1>7, <1>14, <1>16, <2>1, <2>2, <2>3 DEF TypeOK
<1>18. IndexMatchesSlots'
  <2>1. ASSUME NEW k \in Keys, index'[k] # 0
        PROVE  index'[k] \in DOMAIN entries' /\ entries'[index'[k]].key = k
    <3>1. k # victim /\ index'[k] = index[k] /\ index[k] # slot
      BY <1>5, <1>9, <2>1 DEF Inv, IndexMatchesSlots
    <3>. QED
      BY <1>3, <1>7, <1>8, <2>1, <3>1 DEF Inv, IndexMatchesSlots
  <2>2. ASSUME NEW s \in DOMAIN entries', entries'[s].key # NoKey
        PROVE  index'[entries'[s].key] = s
    <3>1. s # slot /\ entries'[s] = entries[s]
      BY <1>3, <1>6, <1>7, <1>8, <2>2
    <3>2. entries[s].key \in Keys
      BY <1>1, <1>3, <1>8, <2>2, <3>1, OccupiedSlotHoldsKey DEF TypeOK
    <3>. QED
      BY <1>5, <1>8, <1>9, <2>2, <3>1, <3>2 DEF Inv, IndexMatchesSlots
  <2>. QED
    BY <2>1, <2>2 DEF IndexMatchesSlots
<1>19. VacantIsExact'
  <2>1. DOMAIN vacant = 1 .. Len(vacant) /\ DOMAIN vacant' = 1 .. Len(vacant) + 1
    BY <1>1, <1>16 DEF TypeOK
  <2>2. \A i \in 1 .. Len(vacant) :
          vacant[i] \in DOMAIN entries /\ entries[vacant[i]].key = NoKey
    BY <2>1 DEF Inv, VacantIsExact
  <2>3. \A i \in DOMAIN vacant' :
          vacant'[i] \in DOMAIN entries' /\ entries'[vacant'[i]].key = NoKey
    BY <1>1, <1>3, <1>6, <1>7, <1>8, <1>16, <2>1, <2>2 DEF TypeOK
  <2>4. ASSUME NEW i \in DOMAIN vacant', NEW j \in DOMAIN vacant',
               vacant'[i] = vacant'[j]
        PROVE  i = j
    BY <1>1, <1>16, <2>1, <2>2, <2>4 DEF Inv, VacantIsExact, TypeOK
  <2>5. ASSUME NEW s \in DOMAIN entries', entries'[s].key = NoKey
        PROVE  \E i \in DOMAIN vacant' : vacant'[i] = s
    <3>1. CASE s = slot
      BY <1>1, <1>16, <2>1, <3>1 DEF TypeOK
    <3>2. CASE s # slot
      <4>1. PICK i \in DOMAIN vacant : vacant[i] = s
        BY <1>3, <1>7, <1>8, <2>5, <3>2 DEF Inv, VacantIsExact
      <4>. QED
        BY <1>1, <1>16, <2>1, <4>1 DEF TypeOK
    <3>. QED
      BY <3>1, <3>2
  <2>. QED
    BY <2>3, <2>4, <2>5 DEF VacantIsExact
<1>20. PendingAdmissible'
  BY <1>1, <1>9 DEF Inv, PendingAdmissible, TypeOK
<1>. QED
  BY <1>15, <1>17, <1>18, <1>19, <1>20 DEF Inv

(* Giving up changes no cached value.                                       *)
LEMMA AbandonInv ==
  ASSUME Inv, Abandon
  PROVE  Inv'
<1>. USE DEF Abandon
<1>1. TypeOK'
  BY DEF Inv, TypeOK
<1>2. Contents'
  BY SameKeysSameContents, entries' \in Seq(Slot) DEF Inv, TypeOK
<1>3. PendingAdmissible'
  BY DEF PendingAdmissible
<1>. QED
  BY <1>1, <1>2, <1>3 DEF Inv, Contents

(* One iteration of the search for room.                                    *)
LEMMA MakeRoomInv ==
  ASSUME Inv, MakeRoom
  PROVE  Inv'
<1>. DEFINE h == hand % Len(entries)
<1>1. CASE NoVictim
  BY <1>1, AbandonInv DEF MakeRoom
<1>2. CASE ~NoVictim
  <2>1. entries # <<>>
    BY <1>2 DEF NoVictim
  <2>2. h \in 0 .. Len(entries) - 1
    BY <2>1, HandWrapped DEF Inv
  <2>3. CASE entries[h + 1].key = NoKey \/ entries[h + 1].referenced
    <3>1. PassOver(h)
      BY <1>2, <2>3 DEF MakeRoom
    <3>. HIDE DEF h
    <3>. QED
      BY <2>1, <2>2, <3>1, PassOverInv
  <2>4. CASE ~(entries[h + 1].key = NoKey \/ entries[h + 1].referenced)
    <3>1. EvictSlot(h) /\ pending # NoKey /\ entries[h + 1].key # NoKey
      BY <1>2, <2>4 DEF MakeRoom
    <3>. HIDE DEF h
    <3>. QED
      BY <2>1, <2>2, <3>1, EvictSlotInv
  <2>. QED
    BY <2>3, <2>4
<1>. QED
  BY <1>1, <1>2

(* Clearing leaves an empty, consistent cache.                              *)
LEMMA ClearInv ==
  ASSUME Inv, Clear
  PROVE  Inv'
<1>. USE ConstantsAssumption DEF Clear
<1>1. TypeOK'
  BY DEF Inv, TypeOK
<1>2. IndexMatchesSlots' /\ VacantIsExact' /\ PendingAdmissible'
  BY DEF IndexMatchesSlots, VacantIsExact, PendingAdmissible
<1>3. Cached' = {}
  BY DEF Cached
<1>4. BytesAccounted' /\ IsFiniteSet(Bytes(ValueLen, Cached))'
  BY <1>3, EmptyContents DEF BytesAccounted
<1>. QED
  BY <1>1, <1>2, <1>4 DEF Inv

(* The pending key's entry is now in a slot that held nothing, and the      *)
(* stack of vacant slots lost exactly that slot, if it was on it.           *)
PlacedAt(slot) ==
  /\ entries' \in Seq(Slot)
  /\ Len(entries) <= Len(entries')
  /\ entries'[slot] = [key |-> pending, referenced |-> TRUE]
  /\ \A s \in 1 .. Len(entries') : s # slot =>
       s \in 1 .. Len(entries) /\ entries'[s] = entries[s]
  /\ slot \in 1 .. Len(entries) => entries[slot].key = NoKey
  /\ vacant' \in Seq(Nat \ {0})
  /\ \A i \in 1 .. Len(vacant') :
       i \in 1 .. Len(vacant) /\ vacant'[i] = vacant[i] /\ vacant[i] # slot
  /\ \A i \in 1 .. Len(vacant) : vacant[i] # slot => i \in 1 .. Len(vacant')
  /\ index' = [index EXCEPT ![pending] = slot]

(* Where the new entry goes: into a vacant slot or a new one, and the stack *)
(* of vacant slots loses exactly that slot.                                 *)
LEMMA PlaceEffect ==
  ASSUME Inv, Place
  PROVE  \E slot \in 1 .. Len(entries') : PlacedAt(slot)
<1>. DEFINE entry == [key |-> pending, referenced |-> TRUE]
<1>1. entries \in Seq(Slot) /\ Len(entries) \in Nat /\ entries \in [1 .. Len(entries) -> Slot]
  BY LenProperties DEF Inv, TypeOK
<1>2. vacant \in Seq(Nat \ {0}) /\ Len(vacant) \in Nat /\ DOMAIN vacant = 1 .. Len(vacant)
  BY LenProperties DEF Inv, TypeOK
<1>3. entry \in Slot
  BY DEF Place, Inv, TypeOK, Slot
<1>4. CASE vacant # <<>>
  <2>. DEFINE slot == vacant[Len(vacant)]
  <2>1. Len(vacant) \in 1 .. Len(vacant)
    BY <1>2, <1>4, EmptySeq
  <2>2. slot \in 1 .. Len(entries) /\ entries[slot].key = NoKey
    BY <1>1, <1>2, <2>1 DEF Inv, VacantIsExact
  <2>3. /\ entries' = [entries EXCEPT ![slot] = entry]
        /\ vacant' = SubSeq(vacant, 1, Len(vacant) - 1)
        /\ index' = [index EXCEPT ![pending] = slot]
    BY <1>4 DEF Place, Last, Front
  <2>4. /\ entries' \in Seq(Slot) /\ Len(entries') = Len(entries)
        /\ \A s \in 1 .. Len(entries) : entries'[s] = IF s = slot THEN entry ELSE entries[s]
    <3>. HIDE DEF slot, entry
    <3>. QED
      BY <1>1, <1>3, <2>2, <2>3, SlotWritten
  <2>5. /\ vacant' \in Seq(Nat \ {0}) /\ Len(vacant') = Len(vacant) - 1
        /\ \A i \in 1 .. Len(vacant) - 1 : vacant'[i] = vacant[i]
    BY <1>2, <2>1, <2>3
  <2>6. \A i \in 1 .. Len(vacant) : vacant[i] # slot <=> i \in 1 .. Len(vacant) - 1
    BY <1>2, <2>1 DEF Inv, VacantIsExact
  <2>7. PlacedAt(slot) /\ slot \in 1 .. Len(entries')
    <3>. HIDE DEF slot
    <3>. QED
      BY <1>1, <1>2, <2>2, <2>3, <2>4, <2>5, <2>6 DEF PlacedAt
  <2>. QED
    BY <2>7
<1>5. CASE vacant = <<>>
  <2>. DEFINE slot == Len(entries) + 1
  <2>1. /\ entries' = Append(entries, entry)
        /\ vacant' = vacant
        /\ index' = [index EXCEPT ![pending] = slot]
    BY <1>5 DEF Place
  <2>2. /\ entries' \in Seq(Slot) /\ Len(entries') = slot /\ entries'[slot] = entry
        /\ \A s \in 1 .. Len(entries) : entries'[s] = entries[s]
    <3>. HIDE DEF entry
    <3>. QED
      BY <1>1, <1>3, <2>1
  <2>3. Len(vacant) = 0
    BY <1>5, EmptySeq
  <2>4. PlacedAt(slot) /\ slot \in 1 .. Len(entries')
    BY <1>1, <1>2, <2>1, <2>2, <2>3 DEF PlacedAt
  <2>. QED
    BY <2>4
<1>. QED
  BY <1>4, <1>5

(* The pending key takes a slot that held nothing.                          *)
LEMMA PlaceInv ==
  ASSUME Inv, Place
  PROVE  Inv'
<1>1. TypeOK /\ pending \in Keys /\ index[pending] = 0
  BY DEF Inv, Place, TypeOK, PendingAdmissible
<1>2. PICK slot \in 1 .. Len(entries') : PlacedAt(slot)
  BY PlaceEffect
<1>. USE DEF PlacedAt
<1>3. /\ DOMAIN entries = 1 .. Len(entries) /\ DOMAIN entries' = 1 .. Len(entries')
      /\ DOMAIN vacant = 1 .. Len(vacant) /\ DOMAIN vacant' = 1 .. Len(vacant')
      /\ Len(entries) \in Nat /\ Len(entries') \in Nat
  BY <1>1, <1>2, LenProperties DEF TypeOK
<1>4. entries'[slot].key = pending
  BY <1>2
<1>5. \A k \in Keys : index'[k] = IF k = pending THEN slot ELSE index[k]
  BY <1>1, <1>2 DEF TypeOK
<1>6. Cached' = Cached \union {pending} /\ pending \notin Cached
  BY <1>1, <1>3, <1>5 DEF Cached
<1>7. /\ IsFiniteSet(Bytes(ValueLen, Cached'))
      /\ Cardinality(Bytes(ValueLen, Cached'))
           = Cardinality(Bytes(ValueLen, Cached)) + ValueLen[pending]
  BY <1>1, <1>6, BytesAdded DEF Inv, Cached
<1>8. used' = used + ValueLen[pending] /\ used' <= Budget /\ used' \in Nat
  BY <1>1, ConstantsAssumption DEF Place, NeedsRoom, TypeOK
<1>9. BytesAccounted' /\ IsFiniteSet(Bytes(ValueLen, Cached))'
  BY <1>7, <1>8 DEF Inv, BytesAccounted
<1>10. TypeOK'
  <2>1. index' \in [Keys -> Nat]
    BY <1>1, <1>2, <1>3 DEF TypeOK
  <2>2. hand' = hand /\ pending' = NoKey /\ scanned' = 0 /\ before' = {}
    BY DEF Place
  <2>. QED
    BY <1>1, <1>2, <1>3, <1>8, <2>1, <2>2 DEF TypeOK
<1>11. IndexMatchesSlots'
  <2>1. ASSUME NEW k \in Keys, index'[k] # 0
        PROVE  index'[k] \in DOMAIN entries' /\ entries'[index'[k]].key = k
    <3>1. CASE k = pending
      BY <1>3, <1>4, <1>5, <3>1
    <3>2. CASE k # pending
      <4>1. index'[k] = index[k] /\ index[k] \in 1 .. Len(entries) /\ entries[index[k]].key = k
        BY <1>3, <1>5, <2>1, <3>2 DEF Inv, IndexMatchesSlots
      <4>2. index[k] # slot
        BY <1>1, <1>2, <4>1, ConstantsAssumption
      <4>. QED
        BY <1>2, <1>3, <4>1, <4>2
    <3>. QED
      BY <3>1, <3>2
  <2>2. ASSUME NEW s \in DOMAIN entries', entries'[s].key # NoKey
        PROVE  index'[entries'[s].key] = s
    <3>1. CASE s = slot
      BY <1>1, <1>4, <1>5, <3>1
    <3>2. CASE s # slot
      <4>1. s \in DOMAIN entries /\ entries'[s] = entries[s]
        BY <1>2, <1>3, <3>2
      <4>2. entries[s].key \in Keys
        BY <1>1, <1>3, <2>2, <4>1, OccupiedSlotHoldsKey DEF TypeOK
      <4>3. index[entries[s].key] = s
        BY <2>2, <4>1 DEF Inv, IndexMatchesSlots
      <4>4. entries[s].key # pending
        BY <1>1, <1>3, <4>1, <4>3
      <4>. QED
        BY <1>5, <4>1, <4>2, <4>3, <4>4
    <3>. QED
      BY <3>1, <3>2
  <2>. QED
    BY <2>1, <2>2 DEF IndexMatchesSlots
<1>12. VacantIsExact'
  <2>1. \A i \in DOMAIN vacant' :
          vacant'[i] \in DOMAIN entries' /\ entries'[vacant'[i]].key = NoKey
    <3>. SUFFICES ASSUME NEW i \in DOMAIN vacant'
                  PROVE  vacant'[i] \in DOMAIN entries' /\ entries'[vacant'[i]].key = NoKey
      OBVIOUS
    <3>1. i \in DOMAIN vacant /\ vacant'[i] = vacant[i] /\ vacant[i] # slot
      BY <1>2, <1>3
    <3>2. vacant[i] \in 1 .. Len(entries) /\ entries[vacant[i]].key = NoKey
      BY <1>3, <3>1 DEF Inv, VacantIsExact
    <3>3. vacant[i] \in 1 .. Len(entries')
      BY <1>2, <1>3, <3>2
    <3>. QED
      BY <1>2, <1>3, <3>1, <3>2, <3>3
  <2>2. \A i, j \in DOMAIN vacant' : vacant'[i] = vacant'[j] => i = j
    BY <1>2, <1>3 DEF Inv, VacantIsExact
  <2>3. ASSUME NEW s \in DOMAIN entries', entries'[s].key = NoKey
        PROVE  \E i \in DOMAIN vacant' : vacant'[i] = s
    <3>1. s # slot
      BY <1>1, <1>4, <2>3, ConstantsAssumption
    <3>2. s \in DOMAIN entries /\ entries[s].key = NoKey
      BY <1>2, <1>3, <2>3, <3>1
    <3>3. PICK i \in DOMAIN vacant : vacant[i] = s
      BY <3>2 DEF Inv, VacantIsExact
    <3>. QED
      BY <1>2, <1>3, <3>1, <3>3
  <2>. QED
    BY <2>1, <2>2, <2>3 DEF VacantIsExact
<1>13. PendingAdmissible'
  BY DEF Place, PendingAdmissible
<1>. QED
  BY <1>9, <1>10, <1>11, <1>12, <1>13 DEF Inv

-------------------------------------------------------------------------------
(* Every step keeps the invariant.                                          *)
LEMMA NextInv == Inv /\ [Next]_vars => Inv'
<1>. SUFFICES ASSUME Inv, [Next]_vars PROVE Inv'
  OBVIOUS
<1>1. ASSUME NEW k \in Keys, Get(k) PROVE Inv'
  BY <1>1, GetInv
<1>2. ASSUME NEW k \in Keys, BeginInsert(k) PROVE Inv'
  BY <1>2, BeginInsertInv
<1>3. CASE MakeRoom
  BY <1>3, MakeRoomInv
<1>4. CASE Place
  BY <1>4, PlaceInv
<1>5. CASE Clear
  BY <1>5, ClearInv
<1>6. CASE UNCHANGED vars
  BY <1>6 DEF Inv, TypeOK, IndexMatchesSlots, VacantIsExact, BytesAccounted,
              PendingAdmissible, Cached, vars
<1>. QED
  BY <1>1, <1>2, <1>3, <1>4, <1>5, <1>6 DEF Next

(* The inductive invariant holds in every reachable state.                  *)
THEOREM Invariance == Spec => []Inv
BY InitInv, NextInv, PTL DEF Spec

(* The bookkeeping keeps its types and the hand stays at a slot.            *)
THEOREM TypeCorrectness == Spec => []TypeOK
<1>1. Inv => TypeOK
  BY DEF Inv
<1>. QED
  BY <1>1, Invariance, PTL

(* A lookup finds its own key's entry and no key is held twice.             *)
THEOREM LookupCorrectness == Spec => []IndexMatchesSlots
<1>1. Inv => IndexMatchesSlots
  BY DEF Inv
<1>. QED
  BY <1>1, Invariance, PTL

(* No live entry is overwritten and no evicted slot is lost.                *)
THEOREM SlotReuse == Spec => []VacantIsExact
<1>1. Inv => VacantIsExact
  BY DEF Inv
<1>. QED
  BY <1>1, Invariance, PTL

(* The cached values never exceed the budget, counted byte by byte.         *)
THEOREM BudgetRespected == Spec => []BytesAccounted
<1>1. Inv => BytesAccounted
  BY DEF Inv
<1>. QED
  BY <1>1, Invariance, PTL

-------------------------------------------------------------------------------
(* The search for a victim and what an insertion evicts.                    *)

(* How long ago the hand was at a slot.                                     *)
StepsAgo(s) == IF s < hand THEN hand - 1 - s ELSE hand - 1 - s + Len(entries)

(* A slot the hand has left during this search is not referenced; one it    *)
(* left in the second lap is vacant, or it would have been the victim.      *)
LapsSwept ==
  pending # NoKey => \A s \in 0 .. Len(entries) - 1 :
    /\ StepsAgo(s) < scanned => ~entries[s + 1].referenced
    /\ StepsAgo(s) + Len(entries) < scanned => entries[s + 1].key = NoKey

(* The values evicted so far include one without whose eviction there was   *)
(* no room.                                                                 *)
EvictionsNeeded ==
  pending # NoKey =>
    /\ Cached \subseteq before /\ ~Refused(ValueLen, Budget, before, pending)
    /\ Cached # before =>
         \E v \in before \ Cached : ~Fits(ValueLen, Budget, Cached \union {v}, pending)

(* Two laps find a victim: the first clears every reference bit, and an     *)
(* occupied slot without one is the victim of the second.                   *)
LEMMA VictimFound ==
  ASSUME Inv, LapsSwept, pending # NoKey, NeedsRoom
  PROVE  ~NoVictim
<1>1. used # 0 /\ pending \in Keys /\ Cached # {}
  <2>1. pending \in Keys /\ used \in Nat /\ ValueLen[pending] \in Nat
    BY ConstantsAssumption DEF Inv, TypeOK
  <2>2. used # 0
    BY <2>1, ConstantsAssumption DEF Inv, PendingAdmissible, NeedsRoom
  <2>3. Cached # {}
    BY <2>2, EmptyContents DEF Inv, BytesAccounted
  <2> QED
    BY <2>1, <2>2, <2>3
<1>2. PICK k \in Keys : index[k] # 0
  BY <1>1 DEF Cached
<1>3. /\ DOMAIN entries = 1 .. Len(entries) /\ Len(entries) \in Nat
      /\ index[k] \in 1 .. Len(entries) /\ entries[index[k]].key = k
  BY <1>2, LenProperties DEF Inv, TypeOK, IndexMatchesSlots
<1>4. entries # <<>>
  BY <1>3
<1>5. ASSUME scanned >= 2 * Len(entries)
      PROVE  FALSE
  <2> DEFINE s == index[k] - 1
  <2>1. s \in 0 .. Len(entries) - 1 /\ entries[s + 1].key # NoKey
    BY <1>3, ConstantsAssumption
  <2>2. hand \in 0 .. Len(entries) - 1 /\ scanned \in Nat
    BY <1>3 DEF Inv, TypeOK
  <2> HIDE DEF s
  <2>3. StepsAgo(s) \in 0 .. Len(entries) - 1
    BY <1>3, <2>1, <2>2 DEF StepsAgo
  <2>4. StepsAgo(s) + Len(entries) < scanned
    BY <1>3, <1>5, <2>2, <2>3
  <2> QED
    BY <2>1, <2>4 DEF LapsSwept
<1> QED
  BY <1>1, <1>4, <1>5 DEF NoVictim

(* What one iteration of the search does: nothing but sweep or evict.       *)
LEMMA RoomMade ==
  ASSUME Inv, LapsSwept, MakeRoom
  PROVE  /\ entries # <<>> /\ hand \in 0 .. Len(entries) - 1
         /\ \/ /\ PassOver(hand)
               /\ entries[hand + 1].key = NoKey \/ entries[hand + 1].referenced
            \/ EvictSlot(hand) /\ entries[hand + 1].key # NoKey
<1>1. ~NoVictim
  BY VictimFound DEF MakeRoom
<1>2. entries # <<>> /\ Len(entries) \in Nat \ {0}
  BY <1>1, EmptySeq DEF NoVictim, Inv, TypeOK
<1>3. hand \in 0 .. Len(entries) - 1
  BY <1>2 DEF Inv, TypeOK
<1>4. \A a \in Nat, n \in Nat \ {0} : a < n => a % n = a
  OBVIOUS
<1>5. hand % Len(entries) = hand
  BY <1>2, <1>3, <1>4
<1> QED
  BY <1>1, <1>2, <1>3, <1>5 DEF MakeRoom

(* The evicted key, and nothing else, is no longer cached.                  *)
LEMMA VictimLeaves ==
  ASSUME Inv, entries # <<>>, NEW h \in 0 .. Len(entries) - 1,
         entries[h + 1].key # NoKey, EvictSlot(h)
  PROVE  entries[h + 1].key \in Cached /\ Cached' = Cached \ {entries[h + 1].key}
<1> DEFINE victim == entries[h + 1].key
<1>1. h + 1 \in 1 .. Len(entries) /\ DOMAIN entries = 1 .. Len(entries)
  BY LenProperties DEF Inv, TypeOK
<1>2. victim \in Keys
  BY <1>1, OccupiedSlotHoldsKey DEF Inv, TypeOK
<1>3. index[victim] = h + 1
  BY <1>1 DEF Inv, IndexMatchesSlots
<1>4. index' = [index EXCEPT ![victim] = 0] /\ index \in [Keys -> Nat]
  BY DEF EvictSlot, Inv, TypeOK
<1> HIDE DEF victim
<1>5. victim \in Cached
  BY <1>1, <1>2, <1>3 DEF Cached
<1>6. Cached' = Cached \ {victim}
  BY <1>2, <1>4 DEF Cached
<1> QED
  BY <1>5, <1>6 DEF victim

(* The hand leaves a slot: all others are one step further behind.          *)
LEMMA SweepContinues ==
  ASSUME Inv, LapsSwept, pending # NoKey, hand \in 0 .. Len(entries) - 1, PassOver(hand),
         entries[hand + 1].key = NoKey \/ entries[hand + 1].referenced
  PROVE  LapsSwept'
<1> DEFINE n == Len(entries)
<1>1. n \in Nat \ {0} /\ hand \in Nat /\ scanned \in Nat
  BY DEF Inv, TypeOK
<1>2. \A a \in Nat, m \in Nat \ {0} : a < m => a % m = a
  OBVIOUS
<1>3. \A m \in Nat \ {0} : m % m = 0
  OBVIOUS
<1>4. hand' = IF hand + 1 = n THEN 0 ELSE hand + 1
  <2>1. hand' = (hand + 1) % n /\ hand + 1 \in Nat /\ (hand + 1 < n \/ hand + 1 = n)
    BY <1>1 DEF PassOver, Advance
  <2> HIDE DEF n
  <2>2. CASE hand + 1 < n
    <3>1. (hand + 1) % n = hand + 1
      BY <1>1, <1>2, <2>1, <2>2
    <3> QED
      BY <1>1, <2>1, <2>2, <3>1
  <2>3. CASE hand + 1 = n
    <3>1. n % n = 0
      BY <1>1, <1>3
    <3> QED
      BY <2>1, <2>3, <3>1
  <2> QED
    BY <2>1, <2>2, <2>3
<1>5. /\ entries \in [1 .. n -> Slot]
      /\ entries' = [entries EXCEPT ![hand + 1].referenced = FALSE]
      /\ scanned' = scanned + 1 /\ pending' = pending
  BY LenProperties DEF Inv, TypeOK, PassOver
<1>6. entries' \in Seq(Slot) /\ Len(entries') = n
  <2>1. hand + 1 \in 1 .. n
    BY <1>1
  <2> QED
    BY <1>5, <2>1, ReferenceBitWritten DEF Inv, TypeOK
<1>7. \A s \in 1 .. n :
        /\ entries'[s].key = entries[s].key
        /\ entries'[s].referenced = IF s = hand + 1 THEN FALSE ELSE entries[s].referenced
  BY <1>5 DEF Slot
<1> HIDE DEF n
<1>8. ASSUME NEW s \in 0 .. n - 1
      PROVE  /\ StepsAgo(s)' < scanned' => ~entries'[s + 1].referenced
             /\ StepsAgo(s)' + Len(entries') < scanned' => entries'[s + 1].key = NoKey
  <2>1. s + 1 \in 1 .. n
    BY <1>1
  <2>2. /\ StepsAgo(s) < scanned => ~entries[s + 1].referenced
        /\ StepsAgo(s) + n < scanned => entries[s + 1].key = NoKey
    BY DEF LapsSwept, n
  <2>3. StepsAgo(s) = IF s < hand THEN hand - 1 - s ELSE hand - 1 - s + n
    BY DEF StepsAgo, n
  <2>4. StepsAgo(s)' = IF s < hand' THEN hand' - 1 - s ELSE hand' - 1 - s + n
    BY <1>6 DEF StepsAgo
  <2>5. CASE s = hand
    <3>1. StepsAgo(s)' = 0 /\ StepsAgo(s) = n - 1
      BY <1>1, <1>4, <2>3, <2>4, <2>5
    <3>2. ~entries'[s + 1].referenced
      BY <1>7, <2>1, <2>5
    <3>3. n < scanned + 1 => entries[s + 1].key = NoKey
      BY <1>1, <2>2, <2>5, <3>1
    <3> QED
      BY <1>1, <1>5, <1>6, <1>7, <2>1, <3>1, <3>2, <3>3
  <2>6. CASE s # hand
    <3>1. StepsAgo(s)' = StepsAgo(s) + 1 /\ StepsAgo(s) \in Nat
      BY <1>1, <1>4, <2>3, <2>4, <2>6
    <3>2. /\ StepsAgo(s)' < scanned' => StepsAgo(s) < scanned
          /\ StepsAgo(s)' + n < scanned' => StepsAgo(s) + n < scanned
      BY <1>1, <1>5, <3>1
    <3>3. s + 1 # hand + 1
      BY <1>1, <2>6
    <3> QED
      BY <1>6, <1>7, <2>1, <2>2, <3>2, <3>3
  <2> QED
    BY <2>5, <2>6
<1> QED
  BY <1>6, <1>8 DEF LapsSwept, n

(* A search starts again after a victim: nothing has been swept yet.        *)
LEMMA NothingSwept ==
  ASSUME entries' \in Seq(Slot), hand' \in Nat, hand' = 0 \/ hand' < Len(entries'), scanned' = 0
  PROVE  LapsSwept'
<1>1. Len(entries') \in Nat
  OBVIOUS
<1>2. ASSUME NEW s \in 0 .. Len(entries') - 1
      PROVE  ~(StepsAgo(s)' < scanned') /\ ~(StepsAgo(s)' + Len(entries') < scanned')
  <2> DEFINE n == Len(entries')
             h == hand'
  <2>1. StepsAgo(s)' = IF s < h THEN h - 1 - s ELSE h - 1 - s + n
    BY DEF StepsAgo
  <2>2. n \in Nat /\ h \in Nat /\ s \in 0 .. n - 1
    BY <1>1
  <2> HIDE DEF n, h
  <2>3. StepsAgo(s)' \in Nat
    BY <2>1, <2>2
  <2> QED
    BY <1>1, <2>3
<1> QED
  BY <1>2 DEF LapsSwept

(* Room is counted as the contents are.                                     *)
LEMMA RoomIsCounted ==
  ASSUME Inv, pending # NoKey
  PROVE  NeedsRoom <=> ~Fits(ValueLen, Budget, Cached, pending)
<1> DEFINE bytes == Cardinality(Bytes(ValueLen, Cached))
<1>1. used = bytes /\ used \in Nat /\ ValueLen[pending] \in Nat /\ Budget \in Nat
  BY ConstantsAssumption DEF Inv, TypeOK, BytesAccounted
<1> QED
  BY <1>1 DEF NeedsRoom, Fits

(* Every step keeps both.                                                   *)
LEMMA SweepInv ==
  ASSUME Inv, LapsSwept, [Next]_vars
  PROVE  LapsSwept'
<1>1. TypeOK' /\ TypeOK
  BY NextInv DEF Inv
<1>2. CASE pending' = NoKey
  BY <1>2 DEF LapsSwept
<1>3. CASE scanned' = 0
  BY <1>1, <1>3, NothingSwept DEF TypeOK
<1>4. CASE MakeRoom
  BY <1>3, <1>4, RoomMade, SweepContinues DEF MakeRoom, EvictSlot
<1>5. CASE UNCHANGED vars
  BY <1>5 DEF vars, LapsSwept, StepsAgo
<1>6. ASSUME NEW k \in Keys, Get(k) \/ BeginInsert(k)
      PROVE  LapsSwept'
  BY <1>2, <1>3, <1>6 DEF Get, BeginInsert
<1>7. CASE Place \/ Clear
  BY <1>2, <1>7 DEF Place, Clear
<1> QED
  BY <1>4, <1>5, <1>6, <1>7 DEF Next

LEMMA EvictionsInv ==
  ASSUME Inv, LapsSwept, EvictionsNeeded, [Next]_vars
  PROVE  EvictionsNeeded'
<1>1. CASE MakeRoom
  <2>1. CASE PassOver(hand)
    BY <2>1 DEF PassOver, EvictionsNeeded, Cached
  <2>2. CASE EvictSlot(hand) /\ entries[hand + 1].key # NoKey
    <3>1. pending # NoKey /\ pending' = pending /\ before' = before /\ NeedsRoom
      BY <1>1, <2>2 DEF MakeRoom, EvictSlot
    <3>2. PICK v \in Cached : Cached' = Cached \ {v}
      BY <1>1, <2>2, RoomMade, VictimLeaves
    <3>3. v \in before \ Cached' /\ Cached' \union {v} = Cached /\ Cached' \subseteq before
      BY <3>1, <3>2 DEF EvictionsNeeded
    <3>4. ~Fits(ValueLen, Budget, Cached' \union {v}, pending)
      BY <3>1, <3>3, RoomIsCounted
    <3> QED
      BY <3>1, <3>3, <3>4 DEF EvictionsNeeded
  <2> QED
    BY <1>1, <2>1, <2>2, RoomMade
<1>2. ASSUME NEW k \in Keys, BeginInsert(k)
      PROVE  EvictionsNeeded'
  <2>1. Cached' = Cached /\ before' = Cached /\ pending' = k /\ k \notin Cached
    BY <1>2 DEF BeginInsert, Cached
  <2>2. Budget # 0 /\ ~(ValueLen[k] > Budget)
    <3>1. ValueLen[k] \in Nat /\ Budget \in Nat
      BY ConstantsAssumption
    <3> QED
      BY <1>2, <3>1 DEF BeginInsert
  <2> QED
    BY <2>1, <2>2 DEF EvictionsNeeded, Refused
<1>3. ASSUME NEW k \in Keys, Get(k)
      PROVE  EvictionsNeeded'
  BY <1>3 DEF Get, EvictionsNeeded
<1>4. CASE Place \/ Clear
  BY <1>4 DEF Place, Clear, EvictionsNeeded
<1>5. CASE UNCHANGED vars
  BY <1>5 DEF vars, EvictionsNeeded, Cached
<1> QED
  BY <1>1, <1>2, <1>3, <1>4, <1>5 DEF Next

LEMMA SearchInvariance == Spec => [](Inv /\ LapsSwept /\ EvictionsNeeded)
<1>1. Init => Inv /\ LapsSwept /\ EvictionsNeeded
  BY InitInv DEF Init, LapsSwept, EvictionsNeeded
<1>2. Inv /\ LapsSwept /\ EvictionsNeeded /\ [Next]_vars => (Inv /\ LapsSwept /\ EvictionsNeeded)'
  BY NextInv, SweepInv, EvictionsInv
<1> QED
  BY <1>1, <1>2, PTL DEF Spec

(* When the loop ends, the key being inserted is cached.                    *)
LEMMA Placed ==
  ASSUME Inv, Place
  PROVE  /\ pending \in Keys /\ pending' = NoKey
         /\ Cached' = Cached \union {pending} /\ Fits(ValueLen, Budget, Cached, pending)
<1>1. pending \in Keys /\ pending # NoKey /\ pending' = NoKey /\ index \in [Keys -> Nat]
  BY DEF Inv, TypeOK, Place
<1>2. PICK slot \in 1 .. Len(entries') : index' = [index EXCEPT ![pending] = slot]
  BY PlaceEffect DEF PlacedAt
<1>3. slot # 0
  BY <1>2
<1>4. Cached' = Cached \union {pending}
  BY <1>1, <1>2, <1>3 DEF Cached
<1> QED
  BY <1>1, <1>4, RoomIsCounted DEF Place

(* An insertion that was begun ends with its key cached, and no value was   *)
(* evicted for it but while there was no room (cache.rs:43).                *)
THEOREM EvictsMinimally == Spec => InsertionsEvictMinimally
<1>1. ASSUME Inv, LapsSwept, EvictionsNeeded, Next, pending # NoKey, pending' = NoKey
      PROVE  Cached' \in AfterInsert(ValueLen, Budget, before, pending)
  <2>1. Place
    <3>1. ~MakeRoom
      BY <1>1, RoomMade DEF PassOver, EvictSlot
    <3> QED
      BY <1>1, <3>1 DEF Next, Get, BeginInsert, Clear
  <2>2. Cached' = Cached \union {pending} /\ Fits(ValueLen, Budget, Cached, pending)
    BY <1>1, <2>1, Placed
  <2>3. /\ Cached \in SUBSET before /\ ~Refused(ValueLen, Budget, before, pending)
        /\ Cached # before =>
             \E v \in before \ Cached : ~Fits(ValueLen, Budget, Cached \union {v}, pending)
    BY <1>1 DEF EvictionsNeeded
  <2> QED
    BY <2>2, <2>3 DEF AfterInsert
<1>2. Inv /\ LapsSwept /\ EvictionsNeeded /\ [Next]_vars =>
        [pending # NoKey /\ pending' = NoKey =>
           Cached' \in AfterInsert(ValueLen, Budget, before, pending)]_vars
  BY <1>1
<1> QED
  BY <1>2, SearchInvariance, PTL DEF Spec, InsertionsEvictMinimally

(* The clock and the abstract cache mean the same by room and by refusal.    *)
LEMMA SameBudget ==
  ASSUME NEW S, NEW k
  PROVE  /\ ByteBudgetView!Fits(ValueLen, Budget, S, k) <=> Fits(ValueLen, Budget, S, k)
         /\ ByteBudgetView!Refused(ValueLen, Budget, S, k) <=> Refused(ValueLen, Budget, S, k)
<1>1. \A T : ByteBudgetView!Cardinality(T) = Cardinality(T)
  BY DEF ByteBudgetView!Cardinality, Cardinality, ByteBudgetView!IsFiniteSet, IsFiniteSet
<1> QED
  BY <1>1 DEF ByteBudgetView!Fits, ByteBudgetView!Refused, ByteBudgetView!Bytes, Fits, Refused, Bytes

(* What each step is to the abstract cache.                                 *)
LEMMA StepIsAbstract ==
  ASSUME Inv, LapsSwept, [Next]_vars
  PROVE  [ByteBudgetView!Next]_<<Cached, pending>>
<1>1. CASE MakeRoom
  <2>1. CASE PassOver(hand)
    BY <2>1 DEF PassOver, Cached
  <2>2. CASE EvictSlot(hand) /\ entries[hand + 1].key # NoKey
    <3>1. pending # NoKey /\ pending' = pending /\ ~Fits(ValueLen, Budget, Cached, pending)
      BY <1>1, <2>2, RoomIsCounted DEF MakeRoom, EvictSlot
    <3>2. PICK v \in Cached : Cached' = Cached \ {v}
      BY <1>1, <2>2, RoomMade, VictimLeaves
    <3>3. ByteBudgetView!Evict(v) /\ v \in Keys
      BY <3>1, <3>2, SameBudget DEF ByteBudgetView!Evict, Cached
    <3> QED
      BY <3>3 DEF ByteBudgetView!Next
  <2> QED
    BY <1>1, <2>1, <2>2, RoomMade
<1>2. CASE Place
  <2>1. pending # NoKey
    BY <1>2 DEF Place
  <2>2. ByteBudgetView!Admit
    BY <1>2, <2>1, Placed, SameBudget DEF ByteBudgetView!Admit
  <2> QED
    BY <2>2 DEF ByteBudgetView!Next
<1>3. ASSUME NEW k \in Keys, BeginInsert(k)
      PROVE  ByteBudgetView!Next
  <2>1. Cached' = Cached /\ pending' = k /\ pending = NoKey /\ k \notin Cached
    BY <1>3 DEF BeginInsert, Cached
  <2>2. ~Refused(ValueLen, Budget, Cached, k)
    <3>1. ValueLen[k] \in Nat /\ Budget \in Nat
      BY ConstantsAssumption
    <3> QED
      BY <1>3, <2>1, <3>1 DEF BeginInsert, Refused
  <2>3. ByteBudgetView!Begin(k)
    BY <2>1, <2>2, SameBudget DEF ByteBudgetView!Begin
  <2> QED
    BY <2>3 DEF ByteBudgetView!Next
<1>4. ASSUME NEW k \in Keys, Get(k)
      PROVE  UNCHANGED <<Cached, pending>>
  BY <1>4 DEF Get, Cached
<1>5. CASE Clear
  <2>1. Cached' = {} /\ pending = NoKey /\ pending' = pending
    BY <1>5 DEF Clear, Cached
  <2> QED
    BY <2>1 DEF ByteBudgetView!Clear, ByteBudgetView!Next
<1>6. CASE UNCHANGED vars
  BY <1>6 DEF vars, Cached
<1> QED
  BY <1>1, <1>2, <1>3, <1>4, <1>5, <1>6 DEF Next

(* Step by step, the clock is the abstract cache: a value leaves only while  *)
(* there is no room for the one being inserted or because all are cleared,  *)
(* and the early return of a search without a victim is never taken         *)
(* (cache.rs:45).  That the search ends is left to model checking.          *)
THEOREM ClockIsByteBudgetCache ==
  Spec => ByteBudgetView!Init /\ [][ByteBudgetView!Next]_<<Cached, pending>>
<1>1. Init => ByteBudgetView!Init
  BY DEF Init, ByteBudgetView!Init, Cached
<1>2. Inv /\ LapsSwept /\ EvictionsNeeded /\ [Next]_vars
        => [ByteBudgetView!Next]_<<Cached, pending>>
  BY StepIsAbstract
<1> QED
  BY <1>1, <1>2, SearchInvariance, PTL DEF Spec
===============================================================================
