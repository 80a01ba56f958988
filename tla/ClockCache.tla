------------------------------ MODULE ClockCache ------------------------------
(***************************************************************************)
(* The second-chance cache of the runtime (core/src/cache.rs): a vector of *)
(* slots swept by a clock hand, an index from keys to slots, a stack of    *)
(* vacant slots and the number of bytes in use.                            *)
(*                                                                         *)
(* Every method takes the cache exclusively, so an insertion is the only   *)
(* operation given more than one step: one per slot the hand examines, and *)
(* one that fills a slot.  Nothing else runs while `pending' is set.       *)
(***************************************************************************)
EXTENDS ByteBudget, SequencesExt

CONSTANTS
  Keys,      \* the keys of pages or blocks
  NoKey,     \* no key: the content of a vacant slot
  ValueLen,  \* the length of the value of each key
  Budget     \* the bytes the cache may hold

ASSUME ConstantsAssumption ==
  /\ NoKey \notin Keys
  /\ ValueLen \in [Keys -> Nat]
  /\ Budget \in Nat

VARIABLES
  entries,   \* the slots, a sequence
  index,     \* the slot of each key, 0 for a key that is not cached
  vacant,    \* the stack of vacant slots
  used,      \* the bytes accounted for
  hand,      \* the clock hand, counted from 0
  pending,   \* the key being inserted, or NoKey
  scanned,   \* slots examined by the current search for a victim
  before     \* auxiliary: the keys cached when the insertion began

vars == <<entries, index, vacant, used, hand, pending, scanned, before>>

Slot == [key : Keys \union {NoKey}, referenced : BOOLEAN]
VacantSlot == [key |-> NoKey, referenced |-> FALSE]
Cached == {k \in Keys : index[k] # 0}

Init ==
  /\ entries = <<>>
  /\ index = [k \in Keys |-> 0]
  /\ vacant = <<>>
  /\ used = 0
  /\ hand = 0
  /\ pending = NoKey
  /\ scanned = 0
  /\ before = {}

-------------------------------------------------------------------------------
(* Lookups and the start of an insertion.                                   *)

Get(k) ==
  /\ pending = NoKey
  /\ index[k] # 0
  /\ entries' = [entries EXCEPT ![index[k]].referenced = TRUE]
  /\ UNCHANGED <<index, vacant, used, hand, pending, scanned, before>>

BeginInsert(k) ==
  /\ pending = NoKey
  /\ Budget # 0 /\ ValueLen[k] <= Budget /\ index[k] = 0
  /\ pending' = k
  /\ scanned' = 0
  /\ before' = Cached
  /\ UNCHANGED <<entries, index, vacant, used, hand>>

-------------------------------------------------------------------------------
(* One iteration of the search for a victim.                                *)

(* Mutants: the pending value itself is forgotten; the test is off by one;  *)
(* the hand runs past the last slot; the sweep ends after one lap.          *)
NeedsRoomForgettingPending == used > Budget
NeedsRoomOffByOne == used + ValueLen[pending] >= Budget
AdvanceNoWrap(h) == h + 1
NoVictimAfterOneLap == Cached = {} \/ entries = <<>> \/ scanned >= Len(entries)

NeedsRoom == used + ValueLen[pending] > Budget
Advance(h) == (h + 1) % Len(entries)

(* A vacant slot, or one that was referenced since the hand last passed.    *)
PassOver(h) ==
  /\ entries' = [entries EXCEPT ![h + 1].referenced = FALSE]
  /\ hand' = Advance(h)
  /\ scanned' = scanned + 1
  /\ UNCHANGED <<index, vacant, used, pending, before>>

(* Mutant: the evicted key stays in the index.                              *)
EvictSlotKeepingIndex(h) ==
  LET victim == entries[h + 1].key IN
  /\ entries' = [entries EXCEPT ![h + 1] = VacantSlot]
  /\ vacant' = Append(vacant, h + 1)
  /\ used' = IF ValueLen[victim] <= used THEN used - ValueLen[victim] ELSE 0
  /\ hand' = Advance(h)
  /\ scanned' = 0
  /\ UNCHANGED <<index, pending, before>>

(* Mutant: the evicted slot is not remembered as vacant.                    *)
EvictSlotLosingSlot(h) ==
  LET victim == entries[h + 1].key IN
  /\ entries' = [entries EXCEPT ![h + 1] = VacantSlot]
  /\ index' = [index EXCEPT ![victim] = 0]
  /\ used' = IF ValueLen[victim] <= used THEN used - ValueLen[victim] ELSE 0
  /\ hand' = Advance(h)
  /\ scanned' = 0
  /\ UNCHANGED <<vacant, pending, before>>

EvictSlot(h) ==
  LET victim == entries[h + 1].key IN
  /\ entries' = [entries EXCEPT ![h + 1] = VacantSlot]
  /\ index' = [index EXCEPT ![victim] = 0]
  /\ vacant' = Append(vacant, h + 1)
  /\ used' = IF ValueLen[victim] <= used THEN used - ValueLen[victim] ELSE 0
  /\ hand' = Advance(h)
  /\ scanned' = 0
  /\ UNCHANGED <<pending, before>>

(* evict_one found nothing: the insertion returns without its key.          *)
NoVictim == Cached = {} \/ entries = <<>> \/ scanned >= 2 * Len(entries)

Abandon ==
  /\ pending' = NoKey
  /\ scanned' = 0
  /\ before' = {}
  /\ UNCHANGED <<entries, index, vacant, used, hand>>

MakeRoom ==
  /\ pending # NoKey
  /\ NeedsRoom
  /\ LET h == hand % Len(entries) IN
     IF NoVictim THEN Abandon
     ELSE IF entries[h + 1].key = NoKey \/ entries[h + 1].referenced
          THEN PassOver(h)
          ELSE EvictSlot(h)

Place ==
  /\ pending # NoKey
  /\ ~NeedsRoom
  /\ LET reuse == vacant # <<>>
         slot  == IF reuse THEN Last(vacant) ELSE Len(entries) + 1
         entry == [key |-> pending, referenced |-> TRUE]
     IN /\ entries' = IF reuse THEN [entries EXCEPT ![slot] = entry]
                               ELSE Append(entries, entry)
        /\ vacant' = IF reuse THEN Front(vacant) ELSE vacant
        /\ index' = [index EXCEPT ![pending] = slot]
  /\ used' = used + ValueLen[pending]
  /\ pending' = NoKey
  /\ scanned' = 0
  /\ before' = {}
  /\ UNCHANGED hand

Clear ==
  /\ pending = NoKey
  /\ entries' = <<>>
  /\ index' = [k \in Keys |-> 0]
  /\ vacant' = <<>>
  /\ used' = 0
  /\ hand' = 0
  /\ UNCHANGED <<pending, scanned, before>>

Next ==
  \/ \E k \in Keys : Get(k) \/ BeginInsert(k)
  \/ MakeRoom
  \/ Place
  \/ Clear

(* An insertion is a loop in one call: once begun, it runs to its end.      *)
Spec == Init /\ [][Next]_vars /\ WF_vars(MakeRoom \/ Place)

-------------------------------------------------------------------------------
(* Type correctness; the hand always points at a slot, if there is one.     *)
TypeOK ==
  /\ entries \in Seq(Slot)
  /\ index \in [Keys -> Nat]
  /\ vacant \in Seq(Nat \ {0})
  /\ used \in Nat
  /\ hand \in Nat /\ (hand = 0 \/ hand < Len(entries))
  /\ pending \in Keys \union {NoKey}
  /\ scanned \in Nat
  /\ before \in SUBSET Keys

(* The index and the slots describe the same entries: a lookup never reads  *)
(* a vacant slot or another key's value, and no key is held twice.          *)
IndexMatchesSlots ==
  /\ \A k \in Keys : index[k] # 0 =>
       index[k] \in DOMAIN entries /\ entries[index[k]].key = k
  /\ \A s \in DOMAIN entries : entries[s].key # NoKey =>
       index[entries[s].key] = s

(* The stack holds every vacant slot once and no occupied one, so filling   *)
(* its top never overwrites a live entry and no evicted slot is lost.       *)
VacantIsExact ==
  /\ \A i \in DOMAIN vacant :
       vacant[i] \in DOMAIN entries /\ entries[vacant[i]].key = NoKey
  /\ \A i, j \in DOMAIN vacant : vacant[i] = vacant[j] => i = j
  /\ \A s \in DOMAIN entries : entries[s].key = NoKey =>
       \E i \in DOMAIN vacant : vacant[i] = s

(* `used' is the number of bytes of the cached values and stays within the  *)
(* budget (the unit test cache_never_exceeds_its_byte_budget, for every     *)
(* history of insertions, lookups and evictions).                           *)
BytesAccounted ==
  /\ used = Cardinality(Bytes(ValueLen, Cached))
  /\ used <= Budget

(* The key being inserted is absent and could fit an emptied cache.         *)
PendingAdmissible ==
  pending # NoKey => index[pending] = 0 /\ ValueLen[pending] <= Budget

(* An insertion ends with its key cached and with no more evicted than the  *)
(* room it needed: the loop stops at the first victim that is enough.       *)
InsertionsEvictMinimally ==
  [][pending # NoKey /\ pending' = NoKey =>
       Cached' \in AfterInsert(ValueLen, Budget, before, pending)]_vars

(* The clock is a byte-budget cache: the bounded two-lap search always      *)
(* finds a victim, so the early return of a failed eviction is never taken, *)
(* and every admissible insertion ends with its key cached.                 *)
ByteBudgetView == INSTANCE ByteBudgetCache WITH cached <- Cached
ImplementsByteBudgetCache == ByteBudgetView!Spec
===============================================================================
