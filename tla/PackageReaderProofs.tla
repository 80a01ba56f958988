------------------------- MODULE PackageReaderProofs -------------------------
(***************************************************************************)
(* Theorems about PackageReader, for any number of threads, blocks and     *)
(* requests, and any capacities.                                           *)
(***************************************************************************)
EXTENDS PackageReader, SequenceTheorems, FiniteSetTheorems, TLAPS

(* Queues that name nothing twice, as the caches of package.rs keep them:    *)
(* what is left when the oldest are dropped, when one is removed from the    *)
(* middle, and when one is added at the end.                                 *)

(* One more at the end, which the queue does not name yet.                   *)
LEMMA AppendOnce ==
  ASSUME NEW S, NEW q \in Seq(S), NEW e \in S
  PROVE  /\ Append(q, e) \in Seq(S) /\ Len(Append(q, e)) = Len(q) + 1
         /\ Range(Append(q, e)) = Range(q) \union {e}
         /\ IsInjective(q) /\ e \notin Range(q) => IsInjective(Append(q, e))
<1>1. /\ Append(q, e) \in Seq(S) /\ Len(Append(q, e)) = Len(q) + 1
      /\ DOMAIN q = 1 .. Len(q) /\ Len(q) \in Nat
      /\ DOMAIN Append(q, e) = 1 .. (Len(q) + 1)
      /\ \A i \in 1 .. Len(q) : Append(q, e)[i] = q[i]
      /\ Append(q, e)[Len(q) + 1] = e
  BY AppendProperties
<1>2. Range(Append(q, e)) = Range(q) \union {e}
  BY <1>1 DEF Range
<1>3. IsInjective(q) /\ e \notin Range(q) => IsInjective(Append(q, e))
  BY <1>1 DEF Range, IsInjective
<1> QED
  BY <1>1, <1>2, <1>3

(* The part of a queue from one place to another.                            *)
LEMMA SliceOf ==
  ASSUME NEW S, NEW q \in Seq(S), NEW m \in 1 .. Len(q) + 1, NEW n \in (m - 1) .. Len(q)
  PROVE  /\ SubSeq(q, m, n) \in Seq(S) /\ Len(SubSeq(q, m, n)) = n - (m - 1)
         /\ DOMAIN SubSeq(q, m, n) = 1 .. (n - (m - 1))
         /\ \A i \in 1 .. (n - (m - 1)) : SubSeq(q, m, n)[i] = q[(m - 1) + i]
<1>0. DOMAIN q = 1 .. Len(q) /\ Len(q) \in Nat /\ m \in Int /\ n \in Int
  OBVIOUS
<1>1. \A i \in m .. n : q[i] \in S
  BY <1>0
<1>2. /\ SubSeq(q, m, n) \in Seq(S)
      /\ Len(SubSeq(q, m, n)) = IF m <= n THEN n - m + 1 ELSE 0
      /\ \A i \in 1 .. n - m + 1 : SubSeq(q, m, n)[i] = q[m + i - 1]
  BY <1>0, <1>1, SubSeqProperties
<1>3. Len(SubSeq(q, m, n)) = n - (m - 1)
  BY <1>0, <1>2
<1>4. \A i \in 1 .. (n - (m - 1)) : m + i - 1 = (m - 1) + i /\ i \in 1 .. n - m + 1
  BY <1>0
<1> QED
  BY <1>2, <1>3, <1>4

(* The rest of a queue, without its first n.                                 *)
LEMMA SuffixOnce ==
  ASSUME NEW S, NEW q \in Seq(S), IsInjective(q), NEW n \in 0 .. Len(q)
  PROVE  /\ SubSeq(q, n + 1, Len(q)) \in Seq(S)
         /\ Len(SubSeq(q, n + 1, Len(q))) = Len(q) - n
         /\ Range(SubSeq(q, n + 1, Len(q))) = Range(q) \ Range(SubSeq(q, 1, n))
         /\ IsInjective(SubSeq(q, n + 1, Len(q)))
<1> DEFINE rest == SubSeq(q, n + 1, Len(q))
<1> DEFINE first == SubSeq(q, 1, n)
<1>0. DOMAIN q = 1 .. Len(q) /\ Len(q) \in Nat
  OBVIOUS
<1>1. /\ rest \in Seq(S) /\ Len(rest) = Len(q) - n
      /\ DOMAIN rest = 1 .. (Len(q) - n)
      /\ \A i \in 1 .. (Len(q) - n) : rest[i] = q[n + i]
  <2>1. n + 1 \in 1 .. Len(q) + 1 /\ Len(q) \in ((n + 1) - 1) .. Len(q) /\ (n + 1) - 1 = n
    BY <1>0
  <2> HIDE DEF first
  <2> QED
    BY <2>1, SliceOf
<1>2. /\ DOMAIN first = 1 .. n
      /\ \A i \in 1 .. n : first[i] = q[i]
  <2>1. 1 \in 1 .. Len(q) + 1 /\ n \in (1 - 1) .. Len(q) /\ n - (1 - 1) = n
    BY <1>0
  <2>2. \A i \in 1 .. n : (1 - 1) + i = i
    BY <1>0
  <2> QED
    BY <2>1, <2>2, SliceOf
<1> HIDE DEF rest, first
<1>3. IsInjective(rest)
  <2>1. ASSUME NEW i \in 1 .. (Len(q) - n), NEW k \in 1 .. (Len(q) - n), rest[i] = rest[k]
        PROVE  i = k
    <3>1. n + i \in 1 .. Len(q) /\ n + k \in 1 .. Len(q) /\ q[n + i] = q[n + k]
      BY <1>0, <1>1, <2>1
    <3>2. n + i = n + k
      BY <1>0, <3>1 DEF IsInjective
    <3> QED
      BY <1>0, <3>2
  <2> QED
    BY <1>1, <2>1 DEF IsInjective
<1>4. Range(rest) = Range(q) \ Range(first)
  <2>1. ASSUME NEW x \in Range(rest)
        PROVE  x \in Range(q) \ Range(first)
    <3>1. PICK i \in 1 .. (Len(q) - n) : x = q[n + i]
      BY <1>1, <2>1 DEF Range
    <3>2. n + i \in DOMAIN q /\ \A k \in 1 .. n : k \in DOMAIN q /\ k # n + i
      BY <1>0
    <3> QED
      BY <1>0, <1>2, <3>1, <3>2 DEF IsInjective, Range
  <2>2. ASSUME NEW x \in Range(q), x \notin Range(first)
        PROVE  x \in Range(rest)
    <3>1. PICK i \in 1 .. Len(q) : x = q[i]
      BY <1>0, <2>2 DEF Range
    <3>2. i > n
      BY <1>0, <1>2, <2>2, <3>1 DEF Range
    <3>3. i - n \in 1 .. (Len(q) - n) /\ n + (i - n) = i
      BY <1>0, <3>2
    <3>4. rest[i - n] = x
      BY <1>1, <3>1, <3>3
    <3> QED
      BY <1>1, <3>3, <3>4 DEF Range
  <2> QED
    BY <2>1, <2>2
<1> QED
  BY <1>1, <1>3, <1>4 DEF rest, first

(* What a queue names once is found where it is, and removed.                *)
LEMMA RemoveOnce ==
  ASSUME NEW S, NEW q \in Seq(S), IsInjective(q), NEW e \in Range(q)
  PROVE  /\ RemoveFirst(q, e) \in Seq(S) /\ Len(RemoveFirst(q, e)) = Len(q) - 1
         /\ Range(RemoveFirst(q, e)) = Range(q) \ {e}
         /\ IsInjective(RemoveFirst(q, e))
<1>0. DOMAIN q = 1 .. Len(q) /\ Len(q) \in Nat
  OBVIOUS
<1>1. PICK i \in 1 .. Len(q) : q[i] = e
  BY <1>0 DEF Range
<1> DEFINE left == SubSeq(q, 1, i - 1)
<1> DEFINE right == SubSeq(q, i + 1, Len(q))
<1>2. RemoveFirst(q, e) = left \o right
  <2>1. {k \in 1 .. Len(q) : q[k] = e} = {i}
    BY <1>0, <1>1 DEF IsInjective
  <2>2. Min({i}) = i
    BY <1>0 DEF Min
  <2>3. SelectInSeq(q, LAMBDA v : v = e) = i
    BY <2>1, <2>2 DEF SelectInSeq
  <2>4. RemoveFirst(q, e) = RemoveAt(q, SelectInSeq(q, LAMBDA v : v = e))
    BY <1>1 DEF RemoveFirst
  <2> QED
    BY <2>3, <2>4 DEF RemoveAt
<1>3. /\ left \in Seq(S) /\ Len(left) = i - 1
      /\ \A k \in 1 .. (i - 1) : left[k] = q[k]
  <2>1. 1 \in 1 .. Len(q) + 1 /\ i - 1 \in (1 - 1) .. Len(q) /\ (i - 1) - (1 - 1) = i - 1
    BY <1>0
  <2>2. \A k \in 1 .. (i - 1) : (1 - 1) + k = k
    BY <1>0
  <2> QED
    BY <2>1, <2>2, SliceOf
<1>4. /\ right \in Seq(S) /\ Len(right) = Len(q) - i
      /\ \A k \in 1 .. (Len(q) - i) : right[k] = q[i + k]
  <2>1. i + 1 \in 1 .. Len(q) + 1 /\ Len(q) \in ((i + 1) - 1) .. Len(q) /\ (i + 1) - 1 = i
    BY <1>0
  <2> QED
    BY <2>1, SliceOf
<1> DEFINE r == left \o right
<1> HIDE DEF left, right
<1>5. /\ r \in Seq(S) /\ Len(r) = Len(q) - 1 /\ DOMAIN r = 1 .. (Len(q) - 1)
      /\ \A k \in 1 .. (Len(q) - 1) : r[k] = IF k < i THEN q[k] ELSE q[k + 1]
  <2>1. /\ r \in Seq(S) /\ Len(r) = Len(left) + Len(right)
        /\ \A k \in 1 .. Len(r) : r[k] = IF k <= Len(left) THEN left[k] ELSE right[k - Len(left)]
    <3>1. /\ left \o right \in Seq(S) /\ Len(left \o right) = Len(left) + Len(right)
          /\ \A k \in 1 .. Len(left) + Len(right) :
               (left \o right)[k] = IF k <= Len(left) THEN left[k] ELSE right[k - Len(left)]
      BY <1>3, <1>4, ConcatProperties
    <3> QED
      BY <3>1
  <2> HIDE DEF r
  <2>2. Len(r) = Len(q) - 1 /\ DOMAIN r = 1 .. (Len(q) - 1)
    BY <1>0, <1>3, <1>4, <2>1
  <2>3. ASSUME NEW k \in 1 .. (Len(q) - 1)
        PROVE  r[k] = IF k < i THEN q[k] ELSE q[k + 1]
    <3>0. k \in 1 .. Len(r) /\ Len(left) = i - 1 /\ k \in Int /\ i \in Int
      BY <1>0, <1>3, <2>2
    <3>1. CASE k < i
      <4>1. k <= Len(left) /\ k \in 1 .. (i - 1)
        BY <3>0, <3>1
      <4> QED
        BY <1>3, <2>1, <3>0, <3>1, <4>1
    <3>2. CASE k >= i
      <4>1. k - (i - 1) \in 1 .. (Len(q) - i) /\ i + (k - (i - 1)) = k + 1
        BY <1>0, <3>2
      <4>2. r[k] = right[k - (i - 1)]
        <5>1. ~(k <= Len(left)) /\ k - Len(left) = k - (i - 1)
          BY <3>0, <3>2
        <5> QED
          BY <2>1, <3>0, <5>1
      <4>3. right[k - (i - 1)] = q[k + 1]
        BY <1>4, <4>1
      <4> QED
        BY <3>0, <3>2, <4>2, <4>3
    <3> QED
      BY <3>0, <3>1, <3>2
  <2> QED
    BY <2>1, <2>2, <2>3
<1> HIDE DEF r
<1>6. IsInjective(r)
  BY <1>0, <1>5 DEF IsInjective
<1>7. Range(r) = Range(q) \ {e}
  <2>1. ASSUME NEW x \in Range(r)
        PROVE  x \in Range(q) \ {e}
    <3>1. PICK k \in 1 .. (Len(q) - 1) : x = IF k < i THEN q[k] ELSE q[k + 1]
      BY <1>5, <2>1 DEF Range
    <3>2. \E m \in 1 .. Len(q) : m # i /\ x = q[m]
      BY <1>0, <3>1
    <3> QED
      BY <1>0, <1>1, <3>2 DEF IsInjective, Range
  <2>2. ASSUME NEW x \in Range(q), x # e
        PROVE  x \in Range(r)
    <3>1. PICK k \in 1 .. Len(q) : x = q[k] /\ k # i
      BY <1>0, <1>1, <2>2 DEF Range
    <3>2. CASE k < i
      BY <1>0, <1>5, <3>1, <3>2 DEF Range
    <3>3. CASE k > i
      <4>1. k - 1 \in 1 .. (Len(q) - 1) /\ ~(k - 1 < i) /\ (k - 1) + 1 = k
        BY <1>0, <3>3
      <4>2. r[k - 1] = x
        BY <1>5, <3>1, <4>1
      <4> QED
        BY <1>5, <4>1, <4>2 DEF Range
    <3> QED
      BY <1>0, <3>1, <3>2, <3>3
  <2> QED
    BY <2>1, <2>2
<1> QED
  BY <1>2, <1>5, <1>6, <1>7 DEF r

(* Such a queue is as long as the set of what it names.                      *)
LEMMA OnceCardinality ==
  ASSUME NEW S, NEW q \in Seq(S), IsInjective(q)
  PROVE  Cardinality(Range(q)) = Len(q)
<1>1. Len(q) \in Nat /\ q \in [1 .. Len(q) -> Range(q)]
  BY DEF Range
<1>2. q \in Bijection(1 .. Len(q), Range(q))
  BY <1>1 DEF Bijection, Injection, Surjection, Range
<1>3. ExistsBijection(1 .. Len(q), Range(q))
  BY <1>2 DEF ExistsBijection
<1> QED
  BY <1>1, <1>3, FS_CountingElements

(* What a thread may be doing while it holds the prefetch cache's lock, and  *)
(* what it then knows.  A trim that is about to clear the flag has emptied   *)
(* the cache and kept the lock since.                                        *)
LockInv ==
  /\ owner \in Threads \union {NoThread}
  /\ DOMAIN pc = Threads
  /\ \A t \in Threads : owner = t <=> At(t, "setPopulated") \/ At(t, "clearPopulated")
  /\ \A t \in Readers : ~At(t, "clearPopulated")
  /\ ~At(Trimmer, "setPopulated")

FlagInv ==
  /\ At(Trimmer, "clearPopulated") => prefetched = {}
  /\ PrefetchedNotHidden

(* A step of thread t that has nothing to do with the prefetch cache, its    *)
(* flag or its lock.                                                         *)
Holding == {"setPopulated", "clearPopulated"}
Apart(t) ==
  /\ UNCHANGED <<prefetched, populated, owner>>
  /\ pc[t] \notin Holding /\ pc'[t] \notin Holding
  /\ pc' = [pc EXCEPT ![t] = pc'[t]]

LEMMA ThreadsDistinct ==
  /\ Trimmer \notin Readers /\ NoThread \notin Threads
  /\ Trimmer \in Threads /\ Readers \subseteq Threads
  BY ConstantsAssumption DEF Threads

LEMMA InitInv == Init => LockInv /\ FlagInv
  BY ThreadsDistinct DEF Init, LockInv, FlagInv, PrefetchedNotHidden, Free, At

LEMMA ApartInv ==
  ASSUME LockInv, FlagInv, NEW t \in Threads, Apart(t)
  PROVE  LockInv' /\ FlagInv'
<1>1. /\ DOMAIN pc' = Threads
      /\ \A u \in Threads : pc'[u] \in Holding <=> pc[u] \in Holding
      /\ \A u \in Threads : pc'[u] \in Holding => pc'[u] = pc[u]
  BY DEF LockInv, Apart
<1>2. LockInv'
  BY <1>1, ThreadsDistinct DEF LockInv, Apart, Holding, At
<1>3. FlagInv'
  BY <1>1, ThreadsDistinct DEF FlagInv, PrefetchedNotHidden, Apart, Holding, At, Free
<1> QED
  BY <1>2, <1>3

(* Every step is apart from the prefetch cache but the four that hold its    *)
(* lock before or after.                                                     *)
LEMMA StepInv == LockInv /\ FlagInv /\ [Next]_vars => LockInv' /\ FlagInv'
<1> SUFFICES ASSUME LockInv, FlagInv, [Next]_vars
             PROVE  LockInv' /\ FlagInv'
  OBVIOUS
<1>0. DOMAIN pc = Threads
  BY DEF LockInv
<1>1. ASSUME NEW t \in Readers, NEW q \in Requests, Begin(t, q)
      PROVE  LockInv' /\ FlagInv'
  <2>1. t \in Threads
    BY ThreadsDistinct
  <2>2. Apart(t)
    BY <1>0, <1>1, <2>1 DEF Begin, caches, Goto, At, Apart, Holding
  <2> QED
    BY <2>1, <2>2, ApartInv
<1>2. ASSUME NEW t \in Readers, Work(t)
      PROVE  LockInv' /\ FlagInv'
  <2>0. t \in Threads /\ DOMAIN pc = Threads
    BY <1>0, ThreadsDistinct
  <2>1. FindPage(t) => Apart(t)
    BY <2>0 DEF FindPage, AfterReference, caches, Goto, At, Apart, Holding
  <2>2. LoadPage(t) => Apart(t)
    BY <2>0 DEF LoadPage, AfterReference, Goto, At, Apart, Holding
  <2>3. FindBlock(t) => Apart(t)
    BY <2>0 DEF FindBlock, Loaded, caches, Goto, At, Apart, Holding
  <2>4. ReadHint(t) => Apart(t)
    BY <2>0 DEF ReadHint, caches, Goto, At, Apart, Holding
  <2>5. FindPrefetched(t) => Apart(t)
    BY <2>0 DEF FindPrefetched, Loaded, caches, Goto, At, Apart, Holding
  <2>6. FindHandle(t) => Apart(t)
    BY <2>0 DEF FindHandle, Goto, At, Apart, Holding
  <2>7. OpenFile(t) => Apart(t)
    BY <2>0 DEF OpenFile, caches, Goto, At, Apart, Holding
  <2>8. InsertHandle(t) => Apart(t)
    BY <2>0 DEF InsertHandle, Goto, At, Apart, Holding
  <2>9. Decode(t) => Apart(t)
    BY <2>0 DEF Decode, Loaded, caches, Goto, At, Apart, Holding
  <2>10. SecondAccess(t) => Apart(t)
    BY <2>0 DEF SecondAccess, Loaded, Goto, At, Apart, Holding
  <2>11. Admit(t) => Apart(t)
    BY <2>0 DEF Admit, Loaded, Goto, At, Apart, Holding
  <2>12. CheckBlock(t) => Apart(t)
    BY <2>0 DEF CheckBlock, caches, Goto, At, Apart, Holding
  <2>13. CheckHint(t) => Apart(t)
    BY <2>0 DEF CheckHint, caches, Goto, At, Apart, Holding
  <2>14. CheckPrefetched(t) => Apart(t)
    BY <2>0 DEF CheckPrefetched, caches, Goto, At, Apart, Holding
  <2>15. Recheck(t) => Apart(t)
    BY <2>0 DEF Recheck, caches, Goto, At, Apart, Holding
  <2>16. CASE InsertPrefetched(t)
    BY <2>16, <2>0, ThreadsDistinct DEF InsertPrefetched, Take, LockInv, FlagInv, PrefetchedNotHidden, Free, At, Goto
  <2>17. CASE SetPopulated(t)
    BY <2>17, <2>0, ThreadsDistinct DEF SetPopulated, Release, LockInv, FlagInv, PrefetchedNotHidden, Free, At, Goto
  <2> QED
    BY <1>2, <2>0, ApartInv, <2>1, <2>2, <2>3, <2>4, <2>5, <2>6, <2>7, <2>8, <2>9, <2>10, <2>11,
       <2>12, <2>13, <2>14, <2>15, <2>16, <2>17 DEF Work
<1>3. CASE BeginTrim
  <2>1. Apart(Trimmer)
    BY <1>0, <1>3, ThreadsDistinct DEF BeginTrim, caches, Goto, At, Apart, Holding
  <2> QED
    BY <2>1, ThreadsDistinct, ApartInv
<1>4. CASE Trim
  <2>0. Trimmer \in Threads /\ DOMAIN pc = Threads
    BY <1>0, ThreadsDistinct
  <2>1. TrimPages => Apart(Trimmer)
    BY <2>0 DEF TrimPages, Goto, At, Apart, Holding
  <2>2. TrimBlocks => Apart(Trimmer)
    BY <2>0 DEF TrimBlocks, Goto, At, Apart, Holding
  <2>3. CASE TrimPrefetched
    BY <2>3, <2>0, ThreadsDistinct DEF TrimPrefetched, Take, LockInv, FlagInv, PrefetchedNotHidden, Free, At, Goto
  <2>4. CASE ClearPopulated
    BY <2>4, <2>0, ThreadsDistinct DEF ClearPopulated, Release, LockInv, FlagInv, PrefetchedNotHidden, Free, At, Goto
  <2>5. TrimProbation => Apart(Trimmer)
    BY <2>0 DEF TrimProbation, Goto, At, Apart, Holding
  <2>6. TrimHandles => Apart(Trimmer)
    BY <2>0 DEF TrimHandles, Goto, At, Apart, Holding
  <2>7. EndTrim => Apart(Trimmer)
    BY <2>0 DEF EndTrim, caches, Goto, At, Apart, Holding
  <2> QED
    BY <1>4, <2>0, ApartInv, <2>1, <2>2, <2>3, <2>4, <2>5, <2>6, <2>7 DEF Trim
<1>5. ASSUME NEW s \in Segments, Install(s)
      PROVE  LockInv' /\ FlagInv'
  BY <1>5 DEF Install, caches, LockInv, FlagInv, PrefetchedNotHidden, Free, At
<1>6. CASE UNCHANGED vars
  BY <1>6 DEF vars, caches, LockInv, FlagInv, PrefetchedNotHidden, Free, At
<1> QED
  BY <1>1, <1>2, <1>3, <1>4, <1>5, <1>6 DEF Next, Finished

(* Whatever the threads do, no reader finds the flag clear while the         *)
(* prefetch cache has entries (package.rs:531 and 761).                      *)
THEOREM PopulatedFlag == Spec => []PrefetchedNotHidden
<1>1. LockInv /\ FlagInv => PrefetchedNotHidden
  BY DEF FlagInv
<1> QED
  BY InitInv, StepInv, <1>1, PTL DEF Spec

-------------------------------------------------------------------------------
(* The types, and what the two queues name.                                  *)

ReaderPlaces ==
  {"idle", "page", "loadPage", "lookup", "hint", "findPrefetched", "open", "openFile",
   "insertHandle", "decode", "probation", "admit", "check", "checkHint", "checkPrefetched",
   "recheck", "insertPrefetched", "setPopulated"}
TrimPlaces ==
  {"idle", "trimPages", "trimBlocks", "trimPrefetched", "clearPopulated", "trimProbation",
   "trimHandles", "trimmed"}

TypeOK ==
  /\ pages \subseteq Pages /\ blocks \subseteq Keys /\ prefetched \subseteq Keys
  /\ populated \in BOOLEAN /\ probation \in Seq(Keys)
  /\ values \subseteq Segments /\ order \in Seq(Segments)
  /\ owner \in Threads \union {NoThread} /\ installed \subseteq Segments
  /\ DOMAIN pc = Threads /\ DOMAIN request = Readers
  /\ pc[Trimmer] \in TrimPlaces
  /\ \A t \in Readers : pc[t] \in ReaderPlaces /\ (~At(t, "idle") => request[t] \in Requests)
  /\ issued \in 0 .. MaxRequests
  /\ reads \in [Keys -> Nat] /\ admitted \in [Keys -> Nat]

(* A queue names each of its entries once, and no more than it may.          *)
QueueInv ==
  /\ IsInjective(order) /\ Range(order) = values /\ Len(order) <= HandleCapacity
  /\ IsInjective(probation) /\ Len(probation) <= ProbationCapacity

LEMMA RequestTyped ==
  ASSUME TypeOK, NEW t \in Readers, ~At(t, "idle")
  PROVE  /\ Key(t) \in Keys /\ Access(t) \in Classes /\ request[t].prefetch \in BOOLEAN
         /\ PageOf[Key(t)] \in Pages /\ SegmentOf[Key(t)] \in Segments
<1>1. request[t] \in [key : Keys, access : Classes, prefetch : BOOLEAN]
  BY ConstantsAssumption DEF TypeOK
<1> QED
  BY <1>1, ConstantsAssumption DEF Key, Access

(* An insertion adds nothing but what is inserted.                           *)
LEMMA InsertedIs ==
  ASSUME NEW len, NEW budget, NEW S, NEW k, NEW R \in AfterInsert(len, budget, S, k)
  PROVE  R \subseteq S \union {k}
  BY DEF AfterInsert

LEMMA InitQueues == Init => TypeOK /\ QueueInv
<1> SUFFICES ASSUME Init
             PROVE  TypeOK /\ QueueInv
  OBVIOUS
<1>1. TypeOK
  <2>1. /\ pages \subseteq Pages /\ blocks \subseteq Keys /\ prefetched \subseteq Keys
        /\ populated \in BOOLEAN /\ probation \in Seq(Keys)
        /\ values \subseteq Segments /\ order \in Seq(Segments)
        /\ owner \in Threads \union {NoThread} /\ installed \subseteq Segments
    <3>1. \A S : <<>> \in Seq(S)
      OBVIOUS
    <3> QED
      BY <3>1, ConstantsAssumption DEF Init
  <2>2. /\ DOMAIN pc = Threads /\ DOMAIN request = Readers
        /\ \A t \in Threads : At(t, "idle")
    BY DEF Init, At
  <2>3. /\ issued \in 0 .. MaxRequests
        /\ reads \in [Keys -> Nat] /\ admitted \in [Keys -> Nat]
    BY ConstantsAssumption DEF Init
  <2> QED
    BY <2>1, <2>2, <2>3, ThreadsDistinct DEF TypeOK, At, TrimPlaces, ReaderPlaces
<1>2. Range(order) = {} /\ IsInjective(order) /\ Len(order) = 0 /\ probation = order
  BY DEF Init, Range, IsInjective
<1>3. HandleCapacity \in Nat /\ ProbationCapacity \in Nat
  BY ConstantsAssumption
<1> QED
  BY <1>1, <1>2, <1>3 DEF QueueInv, Init

(* HandleCache::get.                                                         *)
LEMMA FindHandleQueues ==
  ASSUME TypeOK, QueueInv, NEW t \in Readers, FindHandle(t)
  PROVE  order' \in Seq(Segments) /\ QueueInv'
<1> DEFINE s == SegmentOf[Key(t)]
<1>1. s \in Segments /\ UNCHANGED <<values, probation>> /\ order \in Seq(Segments)
  BY RequestTyped DEF FindHandle, At, TypeOK
<1>2. CASE s \in values
  <2> DEFINE rest == RemoveFirst(order, s)
  <2>1. order' = Append(rest, s)
    BY <1>2 DEF FindHandle
  <2>2. /\ rest \in Seq(Segments) /\ Len(rest) = Len(order) - 1
        /\ Range(rest) = values \ {s} /\ IsInjective(rest)
    BY <1>1, <1>2, RemoveOnce DEF QueueInv
  <2> HIDE DEF rest
  <2>3. /\ order' \in Seq(Segments) /\ Len(order') = Len(rest) + 1
        /\ Range(order') = Range(rest) \union {s} /\ IsInjective(order')
    BY <1>1, <2>1, <2>2, AppendOnce
  <2>4. Len(order) \in Nat
    BY <1>1
  <2>5. Range(order') = values /\ Len(order') = Len(order)
    BY <1>2, <2>2, <2>3, <2>4
  <2> QED
    BY <1>1, <2>3, <2>5 DEF QueueInv
<1>3. CASE s \notin values
  BY <1>1, <1>3 DEF FindHandle, QueueInv
<1> QED
  BY <1>2, <1>3

(* HandleCache::insert.                                                      *)
LEMMA InsertHandleQueues ==
  ASSUME TypeOK, QueueInv, NEW t \in Readers, InsertHandle(t)
  PROVE  order' \in Seq(Segments) /\ values' \subseteq Segments /\ QueueInv'
<1> DEFINE s == SegmentOf[Key(t)]
<1> DEFINE kept == SubSeq(order, Dropped + 1, Len(order))
<1>1. s \in Segments /\ UNCHANGED probation /\ order \in Seq(Segments) /\ values \subseteq Segments
  BY RequestTyped DEF InsertHandle, At, TypeOK
<1>2. CASE HandleCapacity = 0 \/ s \in values
  BY <1>1, <1>2 DEF InsertHandle, QueueInv
<1>3. CASE ~(HandleCapacity = 0 \/ s \in values)
  <2>1. /\ order' = Append(kept, s)
        /\ values' = (values \ Range(SubSeq(order, 1, Dropped))) \union {s}
    BY <1>3 DEF InsertHandle
  <2>2. Cardinality(values) = Len(order) /\ Len(order) \in Nat /\ HandleCapacity \in Nat \ {0}
    BY <1>1, <1>3, OnceCardinality, ConstantsAssumption DEF QueueInv
  <2>3. Dropped \in 0 .. Len(order) /\ Len(order) - Dropped < HandleCapacity
    BY <2>2 DEF Dropped, QueueInv
  <2>4. /\ kept \in Seq(Segments) /\ Len(kept) = Len(order) - Dropped
        /\ Range(kept) = values \ Range(SubSeq(order, 1, Dropped))
        /\ IsInjective(kept)
    BY <1>1, <2>3, SuffixOnce DEF QueueInv
  <2> HIDE DEF kept
  <2>5. /\ order' \in Seq(Segments) /\ Len(order') = Len(kept) + 1
        /\ Range(order') = Range(kept) \union {s} /\ IsInjective(order')
    BY <1>1, <1>3, <2>1, <2>4, AppendOnce
  <2>6. Range(order') = values' /\ values' \subseteq Segments
    BY <1>1, <2>1, <2>4, <2>5
  <2>7. Len(order') <= HandleCapacity
    BY <2>2, <2>3, <2>4, <2>5
  <2> QED
    BY <1>1, <2>5, <2>6, <2>7 DEF QueueInv
<1> QED
  BY <1>2, <1>3

(* second_normal_access.                                                     *)
LEMMA SecondAccessQueues ==
  ASSUME TypeOK, QueueInv, NEW t \in Readers, SecondAccess(t)
  PROVE  /\ probation' \in Seq(Keys) /\ QueueInv'
         /\ IF Key(t) \in Range(probation)
            THEN Range(probation') = Range(probation) \ {Key(t)}
            ELSE Range(probation') \subseteq Range(probation) \union {Key(t)}
<1> DEFINE k == Key(t)
<1>1. k \in Keys /\ UNCHANGED <<values, order>> /\ probation \in Seq(Keys)
  BY RequestTyped DEF SecondAccess, At, TypeOK
<1>2. CASE k \in Range(probation)
  <2>1. probation' = RemoveFirst(probation, k)
    BY <1>2 DEF SecondAccess
  <2>2. /\ probation' \in Seq(Keys) /\ Len(probation') = Len(probation) - 1
        /\ Range(probation') = Range(probation) \ {k} /\ IsInjective(probation')
    BY <1>1, <1>2, <2>1, RemoveOnce DEF QueueInv
  <2>3. Len(probation') <= ProbationCapacity
    BY <1>1, <2>2, ConstantsAssumption DEF QueueInv
  <2> QED
    BY <1>1, <1>2, <2>2, <2>3 DEF QueueInv
<1>3. CASE k \notin Range(probation)
  <2>1. probation' = Probing(k)
    BY <1>3 DEF SecondAccess
  <2>2. CASE ProbationCapacity = 0
    BY <1>1, <1>3, <2>1, <2>2 DEF Probing, QueueInv
  <2>3. CASE ProbationCapacity # 0
    <3> DEFINE n == Len(probation) - Min({Len(probation), ProbationCapacity - 1})
    <3> DEFINE kept == SubSeq(probation, n + 1, Len(probation))
    <3>1. Len(probation) \in Nat /\ ProbationCapacity - 1 \in Nat
      BY <1>1, <2>3, ConstantsAssumption
    <3>2. /\ Min({Len(probation), ProbationCapacity - 1}) \in Nat
          /\ Min({Len(probation), ProbationCapacity - 1}) <= Len(probation)
          /\ Min({Len(probation), ProbationCapacity - 1}) <= ProbationCapacity - 1
      BY <3>1 DEF Min
    <3>3. n \in 0 .. Len(probation) /\ Len(probation) - n <= ProbationCapacity - 1
      BY <3>1, <3>2
    <3>4. probation' = Append(kept, k)
      BY <2>1, <2>3 DEF Probing
    <3> HIDE DEF n
    <3>5. /\ kept \in Seq(Keys) /\ Len(kept) = Len(probation) - n
          /\ Range(kept) = Range(probation) \ Range(SubSeq(probation, 1, n))
          /\ IsInjective(kept)
      BY <1>1, <3>3, SuffixOnce DEF QueueInv
    <3> HIDE DEF kept
    <3>6. /\ probation' \in Seq(Keys) /\ Len(probation') = Len(kept) + 1
          /\ Range(probation') = Range(kept) \union {k} /\ IsInjective(probation')
      BY <1>1, <1>3, <3>4, <3>5, AppendOnce
    <3>7. Len(probation') <= ProbationCapacity
      BY <3>1, <3>3, <3>5, <3>6, ConstantsAssumption
    <3> QED
      BY <1>1, <1>3, <3>5, <3>6, <3>7 DEF QueueInv
  <2> QED
    BY <2>2, <2>3
<1> QED
  BY <1>2, <1>3

(* A step of a thread that leaves the queues alone.                          *)
LEMMA QueuesKept ==
  ASSUME QueueInv, UNCHANGED <<probation, values, order>>
  PROVE  QueueInv'
  BY DEF QueueInv

LEMMA StepQueues == TypeOK /\ QueueInv /\ [Next]_vars => TypeOK' /\ QueueInv'
<1> SUFFICES ASSUME TypeOK, QueueInv, [Next]_vars
             PROVE  TypeOK' /\ QueueInv'
  OBVIOUS
<1> USE ThreadsDistinct
<1>1. ASSUME NEW t \in Readers, NEW q \in Requests, Begin(t, q)
      PROVE  TypeOK' /\ QueueInv'
  <2>1. issued' \in 0 .. MaxRequests
    BY <1>1, ConstantsAssumption DEF Begin, TypeOK
  <2>2. TypeOK'
    BY <1>1, <2>1 DEF Begin, caches, Goto, At, TypeOK, ReaderPlaces
  <2> QED
    BY <1>1, <2>2, QueuesKept DEF Begin, caches
<1>2. ASSUME NEW t \in Readers, Work(t)
      PROVE  TypeOK' /\ QueueInv'
  <2>0. /\ ~At(t, "idle") /\ Key(t) \in Keys /\ PageOf[Key(t)] \in Pages
        /\ t \in Threads /\ t # Trimmer
    <3>1. ~At(t, "idle")
      BY <1>2 DEF Work, FindPage, LoadPage, FindBlock, ReadHint, FindPrefetched, FindHandle,
           OpenFile, InsertHandle, Decode, SecondAccess, Admit, CheckBlock, CheckHint,
           CheckPrefetched, Recheck, InsertPrefetched, SetPopulated, At
    <3> QED
      BY <3>1, RequestTyped
  <2>1. CASE FindPage(t)
    BY <2>0, <2>1, QueuesKept DEF FindPage, AfterReference, caches, counts, Goto, At, TypeOK, ReaderPlaces
  <2>2. CASE LoadPage(t)
    <3>1. pages' \subseteq Pages
      BY <2>0, <2>2, InsertedIs DEF LoadPage, TypeOK
    <3> QED
      BY <2>0, <2>2, <3>1, QueuesKept DEF LoadPage, AfterReference, counts, Goto, At, TypeOK, ReaderPlaces
  <2>3. CASE FindBlock(t)
    BY <2>0, <2>3, QueuesKept DEF FindBlock, Loaded, caches, counts, Goto, At, TypeOK, ReaderPlaces
  <2>4. CASE ReadHint(t)
    BY <2>0, <2>4, QueuesKept DEF ReadHint, caches, counts, Goto, At, TypeOK, ReaderPlaces
  <2>5. CASE FindPrefetched(t)
    BY <2>0, <2>5, QueuesKept DEF FindPrefetched, Loaded, caches, counts, Goto, At, TypeOK, ReaderPlaces
  <2>6. CASE FindHandle(t)
    <3>1. order' \in Seq(Segments) /\ QueueInv'
      BY <2>6, FindHandleQueues
    <3> QED
      BY <2>0, <2>6, <3>1 DEF FindHandle, counts, Goto, At, TypeOK, ReaderPlaces
  <2>7. CASE OpenFile(t)
    BY <2>0, <2>7, QueuesKept DEF OpenFile, caches, counts, Goto, At, TypeOK, ReaderPlaces
  <2>8. CASE InsertHandle(t)
    <3>1. order' \in Seq(Segments) /\ values' \subseteq Segments /\ QueueInv'
      BY <2>8, InsertHandleQueues
    <3> QED
      BY <2>0, <2>8, <3>1 DEF InsertHandle, counts, Goto, At, TypeOK, ReaderPlaces
  <2>9. CASE Decode(t)
    <3>1. reads' \in [Keys -> Nat]
      BY <2>0, <2>9 DEF Decode, TypeOK
    <3> QED
      BY <2>0, <2>9, <3>1, QueuesKept DEF Decode, Loaded, caches, Goto, At, TypeOK, ReaderPlaces
  <2>10. CASE SecondAccess(t)
    <3>1. probation' \in Seq(Keys) /\ QueueInv'
      BY <2>10, SecondAccessQueues
    <3>2. admitted' \in [Keys -> Nat]
      <4>1. admitted \in [Keys -> Nat]
        BY DEF TypeOK
      <4>2. \/ admitted' = [admitted EXCEPT ![Key(t)] = admitted[Key(t)] + 1]
            \/ admitted' = admitted
        BY <2>10, Zenon DEF SecondAccess
      <4> QED
        BY <2>0, <4>1, <4>2
    <3> QED
      BY <2>0, <2>10, <3>1, <3>2 DEF SecondAccess, Loaded, Goto, At, TypeOK, ReaderPlaces
  <2>11. CASE Admit(t)
    <3>1. blocks' \subseteq Keys
      BY <2>0, <2>11, InsertedIs DEF Admit, TypeOK
    <3> QED
      BY <2>0, <2>11, <3>1, QueuesKept DEF Admit, Loaded, counts, Goto, At, TypeOK, ReaderPlaces
  <2>12. CASE CheckBlock(t)
    BY <2>0, <2>12, QueuesKept DEF CheckBlock, caches, counts, Goto, At, TypeOK, ReaderPlaces
  <2>13. CASE CheckHint(t)
    BY <2>0, <2>13, QueuesKept DEF CheckHint, caches, counts, Goto, At, TypeOK, ReaderPlaces
  <2>14. CASE CheckPrefetched(t)
    BY <2>0, <2>14, QueuesKept DEF CheckPrefetched, caches, counts, Goto, At, TypeOK, ReaderPlaces
  <2>15. CASE Recheck(t)
    BY <2>0, <2>15, QueuesKept DEF Recheck, caches, counts, Goto, At, TypeOK, ReaderPlaces
  <2>16. CASE InsertPrefetched(t)
    <3>1. prefetched' \subseteq Keys
      BY <2>0, <2>16, InsertedIs DEF InsertPrefetched, TypeOK
    <3> QED
      BY <2>0, <2>16, <3>1, QueuesKept DEF InsertPrefetched, Take, counts, Goto, At, TypeOK, ReaderPlaces
  <2>17. CASE SetPopulated(t)
    BY <2>0, <2>17, QueuesKept DEF SetPopulated, Release, counts, Goto, At, TypeOK, ReaderPlaces
  <2> QED
    BY <1>2, <2>1, <2>2, <2>3, <2>4, <2>5, <2>6, <2>7, <2>8, <2>9, <2>10, <2>11, <2>12, <2>13,
       <2>14, <2>15, <2>16, <2>17 DEF Work
<1>3. CASE BeginTrim
  <2>1. issued' \in 0 .. MaxRequests
    BY <1>3, ConstantsAssumption DEF BeginTrim, TypeOK
  <2> QED
    BY <1>3, <2>1, QueuesKept DEF BeginTrim, caches, Goto, At, TypeOK, TrimPlaces
<1>4. CASE Trim
  <2>1. CASE TrimPages
    BY <2>1, QueuesKept DEF TrimPages, counts, Goto, At, TypeOK, TrimPlaces
  <2>2. CASE TrimBlocks
    BY <2>2, QueuesKept DEF TrimBlocks, counts, Goto, At, TypeOK, TrimPlaces
  <2>3. CASE TrimPrefetched
    BY <2>3, QueuesKept DEF TrimPrefetched, Take, counts, Goto, At, TypeOK, TrimPlaces
  <2>4. CASE ClearPopulated
    BY <2>4, QueuesKept DEF ClearPopulated, Release, counts, Goto, At, TypeOK, TrimPlaces
  <2>0. /\ <<>> \in Seq(Keys) /\ <<>> \in Seq(Segments)
        /\ IsInjective(<<>>) /\ Range(<<>>) = {} /\ Len(<<>>) = 0
        /\ HandleCapacity \in Nat /\ ProbationCapacity \in Nat
    BY ConstantsAssumption DEF IsInjective, Range
  <2>5. CASE TrimProbation
    <3>1. TypeOK'
      BY <2>0, <2>5 DEF TrimProbation, counts, Goto, At, TypeOK, TrimPlaces
    <3> QED
      BY <2>0, <2>5, <3>1 DEF TrimProbation, QueueInv
  <2>6. CASE TrimHandles
    <3>1. TypeOK'
      BY <2>0, <2>6 DEF TrimHandles, counts, Goto, At, TypeOK, TrimPlaces
    <3> QED
      BY <2>0, <2>6, <3>1 DEF TrimHandles, QueueInv
  <2>7. CASE EndTrim
    BY <2>7, QueuesKept DEF EndTrim, caches, counts, Goto, At, TypeOK, TrimPlaces
  <2> QED
    BY <1>4, <2>1, <2>2, <2>3, <2>4, <2>5, <2>6, <2>7 DEF Trim
<1>5. ASSUME NEW s \in Segments, Install(s)
      PROVE  TypeOK' /\ QueueInv'
  BY <1>5, QueuesKept DEF Install, caches, counts, TypeOK, At
<1>6. CASE UNCHANGED vars
  BY <1>6, QueuesKept DEF vars, caches, counts, TypeOK, At
<1> QED
  BY <1>1, <1>2, <1>3, <1>4, <1>5, <1>6 DEF Next, Finished

(* The types.                                                                *)
THEOREM TypeCorrect == Spec => []TypeOK
<1>1. TypeOK /\ QueueInv => TypeOK
  OBVIOUS
<1> QED
  BY InitQueues, StepQueues, <1>1, PTL DEF Spec

(* However many threads open the same segment at the same time, the handles   *)
(* and the order of their use agree, and there are no more of them than there *)
(* may be (package.rs:785).                                                  *)
THEOREM HandlesAgree == Spec => []HandlesInOrder
<1>1. TypeOK /\ QueueInv => HandlesInOrder
  BY OnceCardinality DEF TypeOK, QueueInv, HandlesInOrder
<1> QED
  BY InitQueues, StepQueues, <1>1, PTL DEF Spec

-------------------------------------------------------------------------------
(* Two reads for each admission.                                             *)

(* The readers that have decoded the block and not looked whether it is on   *)
(* probation yet.                                                            *)
Waiting(k) == {t \in Readers : At(t, "probation") /\ Key(t) = k}

(* A read was for an admission, is for one that waits, or put the block on    *)
(* probation, unless it was forgotten there.                                 *)
OnProbation(k) == IF k \in Range(probation) THEN 1 ELSE 0
CountInv ==
  \A k \in Keys : 2 * admitted[k] + Cardinality(Waiting(k)) + OnProbation(k) <= reads[k]

LEMMA WaitingFinite ==
  ASSUME NEW k \in Keys
  PROVE  IsFiniteSet(Waiting(k)) /\ Cardinality(Waiting(k)) \in Nat
  BY ConstantsAssumption, FS_Subset, FS_CardinalityType DEF Waiting

LEMMA InitCount == Init => CountInv
<1> SUFFICES ASSUME Init, NEW k \in Keys
             PROVE  2 * admitted[k] + Cardinality(Waiting(k)) + OnProbation(k) <= reads[k]
  BY DEF CountInv
<1>1. Waiting(k) = {}
  BY ThreadsDistinct DEF Init, Waiting, At
<1>2. Cardinality(Waiting(k)) = 0
  BY <1>1, FS_EmptySet
<1>3. OnProbation(k) = 0
  BY DEF Init, OnProbation, Range
<1> QED
  BY <1>2, <1>3 DEF Init

(* A step in which no thread comes to wait or stops waiting.                 *)
LEMMA QuietCount ==
  ASSUME TypeOK, CountInv, UNCHANGED <<reads, admitted>>,
         Range(probation') \subseteq Range(probation),
         \A t \in Readers : /\ pc'[t] = "probation" <=> pc[t] = "probation"
                            /\ pc[t] = "probation" => request'[t] = request[t]
  PROVE  CountInv'
<1> SUFFICES ASSUME NEW k \in Keys
             PROVE  2 * admitted'[k] + Cardinality(Waiting(k))' + OnProbation(k)' <= reads'[k]
  BY DEF CountInv
<1>1. Waiting(k)' = Waiting(k)
  BY DEF Waiting, At, Key
<1>2. OnProbation(k)' \in 0 .. OnProbation(k) /\ OnProbation(k) \in {0, 1}
  BY DEF OnProbation
<1>3. 2 * admitted[k] + Cardinality(Waiting(k)) + OnProbation(k) <= reads[k]
  BY DEF CountInv
<1>4. Cardinality(Waiting(k)) \in Nat /\ admitted[k] \in Nat /\ reads[k] \in Nat
  BY WaitingFinite DEF TypeOK
<1>5. 2 * admitted[k] + Cardinality(Waiting(k)) + OnProbation(k)' <= reads[k]
  BY <1>2, <1>3, <1>4
<1> QED
  BY <1>1, <1>5

LEMMA DecodeCount ==
  ASSUME TypeOK, CountInv, NEW t \in Readers, Decode(t), Access(t) = "Normal"
  PROVE  CountInv'
<1>0. /\ UNCHANGED <<probation, admitted, request>>
      /\ reads' = [reads EXCEPT ![Key(t)] = @ + 1]
      /\ pc' = [pc EXCEPT ![t] = "probation"] /\ pc[t] = "decode"
  BY DEF Decode, At, Goto, caches
<1>1. Key(t) \in Keys /\ t \in Threads /\ t # Trimmer
  BY <1>0, RequestTyped, ThreadsDistinct DEF At
<1> SUFFICES ASSUME NEW k \in Keys
             PROVE  2 * admitted'[k] + Cardinality(Waiting(k))' + OnProbation(k)' <= reads'[k]
  BY DEF CountInv
<1>2. 2 * admitted[k] + Cardinality(Waiting(k)) + OnProbation(k) <= reads[k]
  BY DEF CountInv
<1>3. /\ Cardinality(Waiting(k)) \in Nat /\ admitted[k] \in Nat /\ reads[k] \in Nat
      /\ OnProbation(k) \in Nat /\ OnProbation(k)' = OnProbation(k) /\ admitted' = admitted
      /\ reads'[k] = IF k = Key(t) THEN reads[k] + 1 ELSE reads[k]
  BY <1>0, <1>1, WaitingFinite DEF TypeOK, OnProbation
<1>4. CASE k = Key(t)
  <2>1. Waiting(k)' = Waiting(k) \union {t}
    BY <1>0, <1>1, <1>4, ThreadsDistinct DEF Waiting, At, Key, TypeOK
  <2>2. Cardinality(Waiting(k))' <= Cardinality(Waiting(k)) + 1 /\ Cardinality(Waiting(k))' \in Nat
    <3>1. Cardinality(Waiting(k) \union {t}) \in {Cardinality(Waiting(k)), Cardinality(Waiting(k)) + 1}
      BY WaitingFinite, FS_AddElement
    <3> QED
      BY <1>3, <2>1, <3>1
  <2> QED
    BY <1>2, <1>3, <1>4, <2>2
<1>5. CASE k # Key(t)
  <2>1. Waiting(k)' = Waiting(k)
    BY <1>0, <1>1, <1>5, ThreadsDistinct DEF Waiting, At, Key, TypeOK
  <2> QED
    BY <1>2, <1>3, <1>5, <2>1
<1> QED
  BY <1>4, <1>5

LEMMA SecondAccessCount ==
  ASSUME TypeOK, QueueInv, CountInv, NEW t \in Readers, SecondAccess(t)
  PROVE  CountInv'
<1>0. /\ UNCHANGED <<reads, request>> /\ pc[t] = "probation"
      /\ \E at \in ReaderPlaces : pc' = [pc EXCEPT ![t] = at] /\ at # "probation"
  BY DEF SecondAccess, At, Goto, Loaded, ReaderPlaces
<1>1. Key(t) \in Keys /\ t \in Threads /\ t # Trimmer
  BY <1>0, RequestTyped, ThreadsDistinct DEF At
<1> SUFFICES ASSUME NEW k \in Keys
             PROVE  2 * admitted'[k] + Cardinality(Waiting(k))' + OnProbation(k)' <= reads'[k]
  BY DEF CountInv
<1>2. 2 * admitted[k] + Cardinality(Waiting(k)) + OnProbation(k) <= reads[k]
  BY DEF CountInv
<1>3. /\ Cardinality(Waiting(k)) \in Nat /\ admitted[k] \in Nat /\ reads[k] \in Nat
      /\ OnProbation(k) \in {0, 1} /\ OnProbation(k)' \in {0, 1} /\ reads' = reads
  BY <1>0, WaitingFinite DEF TypeOK, OnProbation
<1>4. CASE k = Key(t)
  <2>1. Waiting(k)' = Waiting(k) \ {t} /\ t \in Waiting(k)
    BY <1>0, <1>1, <1>4, ThreadsDistinct DEF Waiting, At, Key, TypeOK
  <2>2. Cardinality(Waiting(k))' = Cardinality(Waiting(k)) - 1
    BY <2>1, WaitingFinite, FS_RemoveElement
  <2>3. CASE k \in Range(probation)
    <3>1. OnProbation(k) = 1 /\ OnProbation(k)' = 0
      BY <1>4, <2>3, SecondAccessQueues DEF OnProbation
    <3>2. admitted'[k] = admitted[k] + 1
      BY <1>4, <2>3 DEF SecondAccess, TypeOK
    <3> QED
      BY <1>2, <1>3, <2>2, <3>1, <3>2
  <2>4. CASE k \notin Range(probation)
    <3>1. OnProbation(k) = 0 /\ admitted' = admitted
      BY <1>4, <2>4 DEF OnProbation, SecondAccess
    <3> QED
      BY <1>2, <1>3, <2>2, <3>1
  <2> QED
    BY <2>3, <2>4
<1>5. CASE k # Key(t)
  <2>1. Waiting(k)' = Waiting(k)
    BY <1>0, <1>1, <1>5, ThreadsDistinct DEF Waiting, At, Key, TypeOK
  <2>2. admitted'[k] = admitted[k]
    BY <1>1, <1>5 DEF SecondAccess, TypeOK
  <2>3. k \in Range(probation') => k \in Range(probation)
    BY <1>5, SecondAccessQueues
  <2>4. OnProbation(k)' <= OnProbation(k)
    BY <2>3 DEF OnProbation
  <2> QED
    BY <1>2, <1>3, <2>1, <2>2, <2>4
<1> QED
  BY <1>4, <1>5

LEMMA StepCount == TypeOK /\ QueueInv /\ CountInv /\ [Next]_vars => CountInv'
<1> SUFFICES ASSUME TypeOK, QueueInv, CountInv, [Next]_vars
             PROVE  CountInv'
  OBVIOUS
<1>0. DOMAIN pc = Threads /\ DOMAIN request = Readers
  BY DEF TypeOK
<1> USE ThreadsDistinct
<1>1. ASSUME NEW t \in Readers, NEW q \in Requests, Begin(t, q)
      PROVE  CountInv'
  BY <1>0, <1>1, QuietCount DEF Begin, caches, Goto, At
<1>2. ASSUME NEW t \in Readers, Work(t)
      PROVE  CountInv'
  <2>1. CASE FindPage(t) \/ LoadPage(t)
    BY <1>0, <2>1, QuietCount DEF FindPage, LoadPage, AfterReference, caches, counts, Goto, At
  <2>2. CASE FindBlock(t) \/ ReadHint(t) \/ FindPrefetched(t)
    BY <1>0, <2>2, QuietCount DEF FindBlock, ReadHint, FindPrefetched, Loaded, caches, counts, Goto, At
  <2>3. CASE FindHandle(t) \/ OpenFile(t) \/ InsertHandle(t)
    BY <1>0, <2>3, QuietCount DEF FindHandle, OpenFile, InsertHandle, caches, counts, Goto, At
  <2>4. CASE Decode(t) /\ Access(t) # "Normal"
    <3>1. UNCHANGED reads
      <4>1. reads' = [reads EXCEPT ![Key(t)] = @ + 0]
        BY <2>4 DEF Decode
      <4>2. Key(t) \in Keys /\ reads \in [Keys -> Nat]
        BY <2>4, RequestTyped DEF Decode, At, TypeOK
      <4> QED
        BY <4>1, <4>2
    <3> QED
      BY <1>0, <2>4, <3>1, QuietCount DEF Decode, Loaded, caches, counts, Goto, At
  <2>5. CASE Admit(t)
    BY <1>0, <2>5, QuietCount DEF Admit, Loaded, caches, counts, Goto, At
  <2>6. CASE CheckBlock(t) \/ CheckHint(t) \/ CheckPrefetched(t) \/ Recheck(t)
    BY <1>0, <2>6, QuietCount DEF CheckBlock, CheckHint, CheckPrefetched, Recheck, caches, counts, Goto, At
  <2>7. CASE InsertPrefetched(t) \/ SetPopulated(t)
    BY <1>0, <2>7, QuietCount DEF InsertPrefetched, SetPopulated, counts, Goto, At
  <2> QED
    BY <1>2, <2>1, <2>2, <2>3, <2>4, <2>5, <2>6, <2>7, DecodeCount, SecondAccessCount DEF Work
<1>3. CASE BeginTrim
  BY <1>0, <1>3, QuietCount DEF BeginTrim, caches, Goto, At
<1>4. CASE Trim
  <2>1. Range(probation') \subseteq Range(probation) /\ UNCHANGED <<reads, admitted, request>>
    BY <1>4 DEF Trim, TrimPages, TrimBlocks, TrimPrefetched, ClearPopulated, TrimProbation,
      TrimHandles, EndTrim, caches, counts, Range
  <2>2. \A t \in Readers : pc'[t] = pc[t]
    BY <1>0, <1>4 DEF Trim, TrimPages, TrimBlocks, TrimPrefetched, ClearPopulated, TrimProbation,
      TrimHandles, EndTrim, Goto
  <2> QED
    BY <2>1, <2>2, QuietCount
<1>5. ASSUME NEW s \in Segments, Install(s)
      PROVE  CountInv'
  BY <1>5, QuietCount DEF Install, caches, counts
<1>6. CASE UNCHANGED vars
  BY <1>6, QuietCount DEF vars, caches, counts
<1> QED
  BY <1>1, <1>2, <1>3, <1>4, <1>5, <1>6 DEF Next, Finished

(* However reads of the same block interleave, and whatever is trimmed or      *)
(* forgotten between them, a Normal block is admitted once for two reads that  *)
(* decoded it (package.rs:768).                                              *)
THEOREM TwoReadsPerAdmission == Spec => []AdmittedAfterTwoReads
<1>1. TypeOK /\ CountInv => AdmittedAfterTwoReads
  <2> SUFFICES ASSUME TypeOK, CountInv, NEW k \in Keys
               PROVE  2 * admitted[k] <= reads[k]
    BY DEF AdmittedAfterTwoReads
  <2>1. 2 * admitted[k] + Cardinality(Waiting(k)) + OnProbation(k) <= reads[k]
    BY DEF CountInv
  <2>2. /\ Cardinality(Waiting(k)) \in Nat /\ admitted[k] \in Nat /\ reads[k] \in Nat
        /\ OnProbation(k) \in {0, 1}
    BY WaitingFinite DEF TypeOK, OnProbation
  <2> QED
    BY <2>1, <2>2
<1> QED
  BY InitQueues, StepQueues, InitCount, StepCount, <1>1, PTL DEF Spec

-------------------------------------------------------------------------------
(* What a trim has emptied holds only what has been put there since.         *)

Entries(kind, S) == {kind} \X S
Passed(places) == pc[Trimmer] \in places \union {"trimmed"}

TrimInv ==
  /\ Passed({"trimBlocks", "trimPrefetched", "clearPopulated", "trimProbation", "trimHandles"}) =>
       Entries("page", pages) \subseteq since
  /\ Passed({"trimPrefetched", "clearPopulated", "trimProbation", "trimHandles"}) =>
       Entries("block", blocks) \subseteq since
  /\ Passed({"clearPopulated", "trimProbation", "trimHandles"}) =>
       Entries("prefetched", prefetched) \subseteq since
  /\ Passed({"trimHandles"}) => Entries("probation", Range(probation)) \subseteq since
  /\ Passed({}) => Entries("handle", values) \subseteq since

LEMMA InitTrim == Init => TrimInv
  BY ThreadsDistinct DEF Init, TrimInv, Passed

(* A step that puts nothing anywhere.                                        *)
LEMMA NothingPut ==
  ASSUME TrimInv, UNCHANGED <<pages, blocks, prefetched, values>>,
         Range(probation') \subseteq Range(probation),
         pc'[Trimmer] = pc[Trimmer], pc[Trimmer] # "idle" => since \subseteq since'
  PROVE  TrimInv'
<1>1. CASE pc[Trimmer] = "idle"
  BY <1>1 DEF TrimInv, Passed
<1>2. CASE pc[Trimmer] # "idle"
  <2>1. since \subseteq since'
    BY <1>2
  <2>2. Passed({"trimHandles"}) => Entries("probation", Range(probation')) \subseteq since'
    BY <2>1 DEF TrimInv, Entries
  <2> QED
    BY <2>1, <2>2 DEF TrimInv, Passed
<1> QED
  BY <1>1, <1>2

LEMMA StepTrim == TypeOK /\ QueueInv /\ TrimInv /\ [Next]_vars => TrimInv'
<1> SUFFICES ASSUME TypeOK, QueueInv, TrimInv, [Next]_vars
             PROVE  TrimInv'
  OBVIOUS
<1>0. DOMAIN pc = Threads /\ DOMAIN request = Readers
  BY DEF TypeOK
<1> USE ThreadsDistinct
<1>1. ASSUME NEW t \in Readers, NEW q \in Requests, Begin(t, q)
      PROVE  TrimInv'
  BY <1>0, <1>1, NothingPut DEF Begin, caches, Goto
<1>2. ASSUME NEW t \in Readers, Work(t)
      PROVE  TrimInv'
  <2>0. pc'[Trimmer] = pc[Trimmer]
    BY <1>0, <1>2 DEF Work, FindPage, LoadPage, FindBlock, ReadHint, FindPrefetched, FindHandle,
      OpenFile, InsertHandle, Decode, SecondAccess, Admit, CheckBlock, CheckHint,
      CheckPrefetched, Recheck, InsertPrefetched, SetPopulated, Goto, AfterReference, Loaded
  <2>1. ASSUME NEW entry, Record({entry}), pc[Trimmer] # "idle"
        PROVE  since \subseteq since' /\ entry \in since'
    BY <2>1 DEF Record
  <2>2. CASE LoadPage(t)
    <3>1. pages' \subseteq pages \union {PageOf[Key(t)]}
      BY <2>2, InsertedIs DEF LoadPage
    <3>2. UNCHANGED <<blocks, prefetched, probation, values>>
      BY <2>2 DEF LoadPage
    <3>3. pc[Trimmer] # "idle" => since \subseteq since' /\ <<"page", PageOf[Key(t)]>> \in since'
      BY <2>1, <2>2 DEF LoadPage
    <3>4. pc[Trimmer] # "idle" =>
            (Entries("page", pages) \subseteq since => Entries("page", pages') \subseteq since')
      BY <3>1, <3>3 DEF Entries
    <3> QED
      BY <2>0, <3>2, <3>3, <3>4 DEF TrimInv, Passed
  <2>3. CASE InsertHandle(t)
    <3>0. UNCHANGED <<pages, blocks, prefetched, probation>>
      BY <2>3 DEF InsertHandle
    <3>1. CASE HandleCapacity = 0 \/ SegmentOf[Key(t)] \in values
      BY <2>0, <2>3, <3>0, <3>1, NothingPut DEF InsertHandle
    <3>2. CASE ~(HandleCapacity = 0 \/ SegmentOf[Key(t)] \in values)
      <4>1. values' \subseteq values \union {SegmentOf[Key(t)]}
        BY <2>3, <3>2 DEF InsertHandle
      <4>2. pc[Trimmer] # "idle" =>
              since \subseteq since' /\ <<"handle", SegmentOf[Key(t)]>> \in since'
        BY <2>1, <2>3, <3>2 DEF InsertHandle
      <4>3. pc[Trimmer] # "idle" =>
              (Entries("handle", values) \subseteq since => Entries("handle", values') \subseteq since')
        BY <4>1, <4>2 DEF Entries
      <4> QED
        BY <2>0, <3>0, <4>2, <4>3 DEF TrimInv, Passed
    <3> QED
      BY <3>1, <3>2
  <2>4. CASE SecondAccess(t)
    <3>0. UNCHANGED <<pages, blocks, prefetched, values>>
      BY <2>4 DEF SecondAccess
    <3>1. CASE Key(t) \in Range(probation)
      <4>1. Range(probation') \subseteq Range(probation) /\ UNCHANGED since
        BY <2>4, <3>1, SecondAccessQueues DEF SecondAccess
      <4> QED
        BY <2>0, <3>0, <4>1, NothingPut
    <3>2. CASE Key(t) \notin Range(probation)
      <4>1. Range(probation') \subseteq Range(probation) \union {Key(t)}
        BY <2>4, <3>2, SecondAccessQueues
      <4>2. pc[Trimmer] # "idle" => since \subseteq since' /\ <<"probation", Key(t)>> \in since'
        BY <2>1, <2>4, <3>2 DEF SecondAccess
      <4>3. pc[Trimmer] # "idle" =>
              (Entries("probation", Range(probation)) \subseteq since =>
                 Entries("probation", Range(probation')) \subseteq since')
        BY <4>1, <4>2 DEF Entries
      <4> QED
        BY <2>0, <3>0, <4>2, <4>3 DEF TrimInv, Passed
    <3> QED
      BY <3>1, <3>2
  <2>5. CASE Admit(t)
    <3>1. blocks' \subseteq blocks \union {Key(t)}
      BY <2>5, InsertedIs DEF Admit
    <3>2. UNCHANGED <<pages, prefetched, probation, values>>
      BY <2>5 DEF Admit
    <3>3. pc[Trimmer] # "idle" => since \subseteq since' /\ <<"block", Key(t)>> \in since'
      BY <2>1, <2>5 DEF Admit
    <3>4. pc[Trimmer] # "idle" =>
            (Entries("block", blocks) \subseteq since => Entries("block", blocks') \subseteq since')
      BY <3>1, <3>3 DEF Entries
    <3> QED
      BY <2>0, <3>2, <3>3, <3>4 DEF TrimInv, Passed
  <2>6. CASE InsertPrefetched(t)
    <3>1. prefetched' \subseteq prefetched \union {Key(t)}
      BY <2>6, InsertedIs DEF InsertPrefetched
    <3>2. UNCHANGED <<pages, blocks, probation, values>>
      BY <2>6 DEF InsertPrefetched
    <3>3. pc[Trimmer] # "idle" => since \subseteq since' /\ <<"prefetched", Key(t)>> \in since'
      BY <2>1, <2>6 DEF InsertPrefetched
    <3>4. pc[Trimmer] # "idle" =>
            (Entries("prefetched", prefetched) \subseteq since =>
               Entries("prefetched", prefetched') \subseteq since')
      BY <3>1, <3>3 DEF Entries
    <3> QED
      BY <2>0, <3>2, <3>3, <3>4 DEF TrimInv, Passed
  <2>7. CASE ~(LoadPage(t) \/ InsertHandle(t) \/ SecondAccess(t) \/ Admit(t) \/ InsertPrefetched(t))
    <3>1. UNCHANGED <<pages, blocks, prefetched, probation, values, since>>
      BY <1>2, <2>7 DEF Work, FindPage, FindBlock, ReadHint, FindPrefetched, FindHandle, OpenFile,
        Decode, CheckBlock, CheckHint, CheckPrefetched, Recheck, SetPopulated, caches, counts
    <3> QED
      BY <2>0, <3>1, NothingPut
  <2> QED
    BY <2>2, <2>3, <2>4, <2>5, <2>6, <2>7
<1>3. CASE BeginTrim
  BY <1>0, <1>3 DEF BeginTrim, Goto, TrimInv, Passed
<1>4. CASE Trim
  <2>1. CASE TrimPages
    BY <1>0, <2>1 DEF TrimPages, Goto, At, TrimInv, Passed, Entries
  <2>2. CASE TrimBlocks
    BY <1>0, <2>2 DEF TrimBlocks, Goto, At, TrimInv, Passed, Entries
  <2>3. CASE TrimPrefetched
    BY <1>0, <2>3 DEF TrimPrefetched, Goto, At, TrimInv, Passed, Entries
  <2>4. CASE ClearPopulated
    BY <1>0, <2>4 DEF ClearPopulated, Goto, At, TrimInv, Passed
  <2>5. CASE TrimProbation
    <3>1. Range(probation') = {}
      BY <2>5 DEF TrimProbation, Range
    <3> QED
      BY <1>0, <2>5, <3>1 DEF TrimProbation, Goto, At, TrimInv, Passed, Entries
  <2>6. CASE TrimHandles
    BY <1>0, <2>6 DEF TrimHandles, Goto, At, TrimInv, Passed, Entries
  <2>7. CASE EndTrim
    BY <1>0, <2>7 DEF EndTrim, caches, Goto, At, TrimInv, Passed
  <2> QED
    BY <1>4, <2>1, <2>2, <2>3, <2>4, <2>5, <2>6, <2>7 DEF Trim
<1>5. ASSUME NEW s \in Segments, Install(s)
      PROVE  TrimInv'
  BY <1>5, NothingPut DEF Install, caches
<1>6. CASE UNCHANGED vars
  BY <1>6, NothingPut DEF vars, caches
<1> QED
  BY <1>1, <1>2, <1>3, <1>4, <1>5, <1>6 DEF Next, Finished

(* When a trim returns, whatever is cached was put there while it ran, by     *)
(* threads that went on reading (package.rs:531).                            *)
THEOREM TrimReleases == Spec => []TrimReleasesWhatItFound
<1>1. TrimInv => TrimReleasesWhatItFound
  BY DEF TrimInv, Passed, Entries, At, TrimReleasesWhatItFound
<1> QED
  BY InitQueues, StepQueues, InitTrim, StepTrim, <1>1, PTL DEF Spec
===============================================================================
