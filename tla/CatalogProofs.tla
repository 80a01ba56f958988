---------------------------- MODULE CatalogProofs ----------------------------
(***************************************************************************)
(* Theorems about Catalog, for every source tree and any limits: what the  *)
(* publisher writes, the runtime finds.                                    *)
(***************************************************************************)
EXTENDS Catalog, SequenceTheorems, FiniteSetTheorems, WellFoundedInduction, TLAPS

-------------------------------------------------------------------------------
(* Induction, and least and greatest elements.                              *)

(* A set of naturals that is not empty has a least element.                 *)
LEMMA LeastOf ==
  ASSUME NEW S \in SUBSET Nat, S # {}
  PROVE  \E x \in S : \A y \in S : x <= y
<1> DEFINE Less == {ss \in Nat \X Nat : ss[1] < ss[2]}
<1>0. IsWellFoundedOn(Less, Nat)
  BY NatLessThanWellFounded, Zenon DEF OpToRel
<1>1. PICK x \in S : \A y \in S : ~(<<y, x>> \in Less)
  <2> HIDE DEF Less
  <2> QED
    BY <1>0, WFMin
<1>2. ASSUME NEW y \in S
      PROVE  x <= y
  <2>1. <<y, x>> \in Nat \X Nat /\ x \in Nat /\ y \in Nat
    OBVIOUS
  <2>2. ~(<<y, x>>[1] < <<y, x>>[2])
    <3> HIDE DEF Less
    <3>1. <<y, x>> \notin Less
      BY <1>1
    <3> QED
      BY <2>1, <3>1 DEF Less
  <2> QED
    BY <2>1, <2>2
<1> QED
  BY <1>2

LEMMA MinIs ==
  ASSUME NEW S \in SUBSET Nat, S # {}
  PROVE  Min(S) \in S /\ \A y \in S : Min(S) <= y
  BY LeastOf DEF Min

(* A set of the first naturals that has 0, and the next of each of its own,  *)
(* has them all.                                                             *)
LEMMA UpTo ==
  ASSUME NEW N \in Nat, NEW S, 0 \in S, \A n \in 0 .. N - 1 : n \in S => n + 1 \in S
  PROVE  (\A n \in 0 .. N : n \in S) /\ N \in S
<1> DEFINE Not == (0 .. N) \ S
<1> SUFFICES ASSUME Not # {}
             PROVE  FALSE
  OBVIOUS
<1>1. PICK x \in Not : \A y \in Not : x <= y
  <2>1. Not \in SUBSET Nat /\ Not # {}
    OBVIOUS
  <2> HIDE DEF Not
  <2> QED
    BY <2>1, LeastOf
<1>2. x # 0 /\ x \in Nat /\ x <= N
  OBVIOUS
<1>3. x - 1 \in 0 .. N - 1 /\ x - 1 \in 0 .. N /\ x - 1 \in Nat /\ ~(x <= x - 1) /\ (x - 1) + 1 = x
  BY <1>2
<1>4. x - 1 \in S
  BY <1>1, <1>3
<1> QED
  BY <1>3, <1>4

LEMMA MaxIs ==
  ASSUME NEW N \in Nat, NEW S \in SUBSET (0 .. N), S # {}
  PROVE  Max(S) \in S /\ \A y \in S : Max(S) >= y
<1> DEFINE T == {N - x : x \in S}
<1>1. T \in SUBSET Nat /\ T # {}
  <2>1. \A x \in S : x \in Nat /\ x <= N /\ N - x \in Nat
    OBVIOUS
  <2> QED
    BY <2>1
<1>2. PICK t \in T : \A u \in T : t <= u
  BY <1>1, LeastOf
<1>3. PICK x \in S : t = N - x
  OBVIOUS
<1>4. \A y \in S : N - y \in T /\ x \in Int /\ y \in Int
  OBVIOUS
<1>5. \A y \in S : N - x <= N - y
  BY <1>2, <1>3, <1>4
<1>6. \A y \in S : x >= y
  BY <1>4, <1>5
<1> QED
  BY <1>6 DEF Max

(* The lesser and the greater of two numbers.                                *)
LEMMA LesserOf ==
  ASSUME NEW a \in Int, NEW b \in Int
  PROVE  Min({a, b}) = IF a <= b THEN a ELSE b
<1> DEFINE m == IF a <= b THEN a ELSE b
<1>1. m \in {a, b} /\ \A y \in {a, b} : m <= y
  OBVIOUS
<1>2. \A x \in {a, b} : (\A y \in {a, b} : x <= y) => x = m
  OBVIOUS
<1> HIDE DEF m
<1>3. Min({a, b}) = m
  BY <1>1, <1>2 DEF Min
<1> QED
  BY <1>3 DEF m

LEMMA GreaterOf ==
  ASSUME NEW a \in Int, NEW b \in Int
  PROVE  Max({a, b}) = IF a >= b THEN a ELSE b
<1> DEFINE m == IF a >= b THEN a ELSE b
<1>1. m \in {a, b} /\ \A y \in {a, b} : m >= y
  OBVIOUS
<1>2. \A x \in {a, b} : (\A y \in {a, b} : x >= y) => x = m
  OBVIOUS
<1> HIDE DEF m
<1>3. Max({a, b}) = m
  BY <1>1, <1>2 DEF Max
<1> QED
  BY <1>3 DEF m

-------------------------------------------------------------------------------
(* Slices.                                                                  *)

LEMMA SliceOf ==
  ASSUME NEW S, NEW q \in Seq(S), NEW m \in 1 .. Len(q) + 1, NEW n \in (m - 1) .. Len(q)
  PROVE  /\ SubSeq(q, m, n) \in Seq(S) /\ Len(SubSeq(q, m, n)) = n - (m - 1)
         /\ DOMAIN SubSeq(q, m, n) = 1 .. (n - (m - 1))
         /\ \A i \in 1 .. (n - (m - 1)) : SubSeq(q, m, n)[i] = q[(m - 1) + i]
<1>0. DOMAIN q = 1 .. Len(q) /\ Len(q) \in Nat /\ m \in Int /\ n \in Int
  OBVIOUS
<1>1. \A i \in m .. n : q[i] \in S
  BY <1>0
<1>2. /\ SubSeq(q, m, n) \in Seq(S)
      /\ Len(SubSeq(q, m, n)) = IF m <= n THEN n - m + 1 ELSE 0
      /\ \A i \in 1 .. n - m + 1 : SubSeq(q, m, n)[i] = q[m + i - 1]
  BY <1>0, <1>1, SubSeqProperties
<1>3. Len(SubSeq(q, m, n)) = n - (m - 1)
  BY <1>0, <1>2
<1>4. \A i \in 1 .. (n - (m - 1)) : m + i - 1 = (m - 1) + i /\ i \in 1 .. n - m + 1
  BY <1>0
<1> QED
  BY <1>2, <1>3, <1>4

(* What a function has to be to be a sequence.                               *)
LEMMA IsSeq ==
  ASSUME NEW S, NEW k \in Nat, NEW f, f = [c \in 1 .. k |-> f[c]], \A c \in 1 .. k : f[c] \in S
  PROVE  f \in Seq(S) /\ Len(f) = k /\ DOMAIN f = 1 .. k
<1>1. f \in [1 .. k -> S]
  OBVIOUS
<1> QED
  BY <1>1

(* A slice, by the number of elements before it.                             *)
LEMMA Slice ==
  ASSUME NEW S, NEW q \in Seq(S), NEW a \in Nat, NEW b \in Nat, a <= b, b <= Len(q)
  PROVE  /\ SubSeq(q, a + 1, b) \in Seq(S) /\ Len(SubSeq(q, a + 1, b)) = b - a
         /\ DOMAIN SubSeq(q, a + 1, b) = 1 .. (b - a)
         /\ \A i \in 1 .. (b - a) : SubSeq(q, a + 1, b)[i] = q[a + i]
<1>1. PICK m \in 1 .. Len(q) + 1 : m = a + 1
  OBVIOUS
<1>2. b \in (m - 1) .. Len(q) /\ m - 1 = a
  BY <1>1
<1>3. /\ SubSeq(q, m, b) \in Seq(S) /\ Len(SubSeq(q, m, b)) = b - (m - 1)
      /\ DOMAIN SubSeq(q, m, b) = 1 .. (b - (m - 1))
      /\ \A i \in 1 .. (b - (m - 1)) : SubSeq(q, m, b)[i] = q[(m - 1) + i]
  BY <1>2, SliceOf
<1> QED
  BY <1>1, <1>2, <1>3

-------------------------------------------------------------------------------
(* Sums.                                                                    *)

IsSum(f, seq, N) == f = [n \in 0 .. N |-> IF n = 0 THEN 0 ELSE f[n - 1] + seq[n]]

LEMMA SumExists ==
  ASSUME NEW seq, NEW N \in Nat
  PROVE  \E f : IsSum(f, seq, N)
<1> DEFINE S == {n \in Nat : \E f : IsSum(f, seq, n)}
<1>1. 0 \in S
  <2>1. IsSum([n \in 0 .. 0 |-> 0], seq, 0)
    BY DEF IsSum
  <2> QED
    BY <2>1
<1>2. ASSUME NEW n \in 0 .. N - 1, n \in S
      PROVE  n + 1 \in S
  <2>1. PICK f : IsSum(f, seq, n)
    BY <1>2
  <2> DEFINE g == [m \in 0 .. n + 1 |-> IF m = n + 1 THEN f[n] + seq[n + 1] ELSE f[m]]
  <2>2. IsSum(g, seq, n + 1)
    BY <2>1 DEF IsSum
  <2> QED
    BY <2>2
<1> HIDE DEF S
<1>3. N \in S
  BY <1>1, <1>2, UpTo
<1> QED
  BY <1>3 DEF S

LEMMA SumIs ==
  ASSUME NEW seq, Len(seq) \in Nat
  PROVE  \E f : IsSum(f, seq, Len(seq)) /\ SumOf(seq) = f[Len(seq)]
<1> DEFINE f == CHOOSE f : IsSum(f, seq, Len(seq))
<1>1. IsSum(f, seq, Len(seq))
  BY SumExists
<1>2. SumOf(seq) = f[Len(seq)]
  BY DEF SumOf, IsSum
<1> QED
  BY <1>1, <1>2

LEMMA SumOfNone ==
  ASSUME NEW s, Len(s) = 0
  PROVE  SumOf(s) = 0
  BY SumIs DEF IsSum

(* The sum of a sequence is the sum of all but its last, and its last.       *)
LEMMA SumOfMore ==
  ASSUME NEW s, NEW t, Len(s) \in Nat, Len(t) = Len(s) + 1, \A n \in 1 .. Len(s) : t[n] = s[n]
  PROVE  SumOf(t) = SumOf(s) + t[Len(t)]
<1>1. PICK f : IsSum(f, s, Len(s)) /\ SumOf(s) = f[Len(s)]
  BY SumIs
<1>2. PICK g : IsSum(g, t, Len(t)) /\ SumOf(t) = g[Len(t)]
  BY SumIs
<1> DEFINE S == {n \in 0 .. Len(s) : f[n] = g[n]}
<1>3. 0 \in S
  BY <1>1, <1>2 DEF IsSum
<1>4. ASSUME NEW n \in 0 .. Len(s) - 1, n \in S
      PROVE  n + 1 \in S
  <2>1. f[n + 1] = f[n] + s[n + 1] /\ g[n + 1] = g[n] + t[n + 1]
    BY <1>1, <1>2 DEF IsSum
  <2> QED
    BY <1>4, <2>1
<1>5. f[Len(s)] = g[Len(s)]
  <2> HIDE DEF S
  <2>1. Len(s) \in S
    BY <1>3, <1>4, UpTo
  <2> QED
    BY <2>1 DEF S
<1>6. g[Len(t)] = g[Len(s)] + t[Len(t)]
  BY <1>2 DEF IsSum
<1> QED
  BY <1>1, <1>2, <1>5, <1>6

LEMMA SumIsNat ==
  ASSUME NEW s, Len(s) \in Nat, \A n \in 1 .. Len(s) : s[n] \in Nat
  PROVE  SumOf(s) \in Nat
<1>1. PICK f : IsSum(f, s, Len(s)) /\ SumOf(s) = f[Len(s)]
  BY SumIs
<1> DEFINE S == {n \in 0 .. Len(s) : f[n] \in Nat}
<1>2. 0 \in S
  BY <1>1 DEF IsSum
<1>3. ASSUME NEW n \in 0 .. Len(s) - 1, n \in S
      PROVE  n + 1 \in S
  <2>1. f[n + 1] = f[n] + s[n + 1]
    BY <1>1 DEF IsSum
  <2> QED
    BY <1>3, <2>1
<1> HIDE DEF S
<1>4. Len(s) \in S
  BY <1>2, <1>3, UpTo
<1> QED
  BY <1>1, <1>4 DEF S

-------------------------------------------------------------------------------
(* Files and their chunks.                                                  *)

LEMMA Times ==
  ASSUME NEW a \in Nat, NEW b \in Nat, NEW n \in Nat, a <= b
  PROVE  a * n \in Nat /\ a * n <= b * n /\ (a + 1) * n = a * n + n
<1>1. PICK d \in Nat : b = a + d
  <2>1. b - a \in Nat /\ b = a + (b - a)
    OBVIOUS
  <2> QED
    BY <2>1
<1>2. a * n \in Nat /\ d * n \in Nat /\ (a + d) * n = a * n + d * n
  OBVIOUS
<1>3. (a + 1) * n = a * n + n
  OBVIOUS
<1> QED
  BY <1>1, <1>2, <1>3

LEMMA Quotient ==
  ASSUME NEW a \in Nat, NEW n \in Nat \ {0}
  PROVE  /\ a \div n \in Nat
         /\ (a \div n) * n <= a /\ a < (a \div n) * n + n
  OBVIOUS

(* A quotient is what its bounds say.                                        *)
LEMMA QuotientIs ==
  ASSUME NEW a \in Nat, NEW n \in Nat \ {0}, NEW q \in Nat, q * n <= a, a < q * n + n
  PROVE  a \div n = q
<1> DEFINE p == a \div n
<1>1. p \in Nat /\ p * n <= a /\ a < p * n + n
  BY Quotient
<1> HIDE DEF p
<1>2. ~(p < q)
  <2> SUFFICES ASSUME p + 1 <= q
               PROVE  FALSE
    BY <1>1
  <2>1. (p + 1) * n <= q * n /\ (p + 1) * n = p * n + n /\ p * n \in Nat /\ q * n \in Nat
    BY <1>1, Times
  <2> QED
    BY <1>1, <2>1
<1>3. ~(q < p)
  <2> SUFFICES ASSUME q + 1 <= p
               PROVE  FALSE
    BY <1>1
  <2>1. (q + 1) * n <= p * n /\ (q + 1) * n = q * n + n /\ p * n \in Nat /\ q * n \in Nat
    BY <1>1, Times
  <2> QED
    BY <1>1, <2>1
<1>4. p = q
  BY <1>1, <1>2, <1>3
<1> QED
  BY <1>4 DEF p

LEMMA DivCeilIs ==
  ASSUME NEW len \in Nat, NEW n \in Nat \ {0}
  PROVE  /\ DivCeil(len, n) \in Nat /\ DivCeil(len, n) * n \in Nat /\ len <= DivCeil(len, n) * n
         /\ len = 0 => DivCeil(len, n) = 0
         /\ len > 0 => DivCeil(len, n) > 0 /\ (DivCeil(len, n) - 1) * n < len
         /\ \A p \in 1 .. DivCeil(len, n) : (p - 1) * n \in Nat /\ (p - 1) * n < len /\ p * n = (p - 1) * n + n
<1> DEFINE k == DivCeil(len, n)
           a == len + n - 1
<1>1. a \in Nat /\ n \in Nat /\ n > 0
  OBVIOUS
<1>2. k \in Nat /\ k * n \in Nat /\ k * n <= a /\ a < k * n + n
  BY <1>1, Quotient DEF DivCeil
<1> HIDE DEF k
<1>3. len <= k * n
  BY <1>2
<1>4. ASSUME NEW p \in 1 .. k
      PROVE  (p - 1) * n \in Nat /\ (p - 1) * n < len /\ p * n = (p - 1) * n + n
  <2> DEFINE b == p - 1
  <2>1. b \in Nat /\ b + 1 <= k /\ b + 1 = p /\ b + 1 \in Nat
    BY <1>2
  <2> HIDE DEF b
  <2>2. b * n \in Nat /\ (b + 1) * n = b * n + n /\ (b + 1) * n <= k * n
    BY <1>1, <1>2, <2>1, Times
  <2>3. b * n < len
    BY <1>2, <2>2
  <2> QED
    BY <2>1, <2>2, <2>3 DEF b
<1>5. len = 0 => k = 0
  <2> SUFFICES ASSUME len = 0, 1 <= k
               PROVE  FALSE
    BY <1>2
  <2>1. 1 \in 1 .. k
    BY <1>2
  <2>2. (1 - 1) * n \in Nat /\ (1 - 1) * n < len
    BY <1>4, <2>1
  <2> QED
    BY <2>2
<1>6. len > 0 => k > 0
  <2> SUFFICES ASSUME len > 0, k = 0
               PROVE  FALSE
    BY <1>2
  <2>1. k * n = 0
    OBVIOUS
  <2> QED
    BY <1>3, <2>1
<1>7. len > 0 => (k - 1) * n < len
  <2> SUFFICES ASSUME len > 0
               PROVE  (k - 1) * n < len
    OBVIOUS
  <2>1. k \in 1 .. k
    BY <1>2, <1>6
  <2> QED
    BY <1>4, <2>1
<1> QED
  BY <1>2, <1>3, <1>4, <1>5, <1>6, <1>7 DEF k

(* The pieces of a sequence: the elements before piece p, and up to its end.  *)
Before(n, p) == (p - 1) * n
EndOf(len, n, p) == Min({p * n, len})

LEMMA PieceBounds ==
  ASSUME NEW len \in Nat, NEW n \in Nat \ {0}, NEW p \in 1 .. DivCeil(len, n)
  PROVE  /\ Before(n, p) \in Nat /\ EndOf(len, n, p) \in Nat
         /\ Before(n, p) < EndOf(len, n, p) /\ EndOf(len, n, p) <= len
         /\ EndOf(len, n, p) <= Before(n, p) + n
         /\ p < DivCeil(len, n) => EndOf(len, n, p) = Before(n, p) + n
         /\ p > 1 => EndOf(len, n, p - 1) = Before(n, p)
<1> DEFINE k == DivCeil(len, n)
           first == (p - 1) * n
           last == Min({p * n, len})
<1>0. n \in Nat /\ n > 0 /\ k \in Nat /\ p \in Nat
  BY DivCeilIs
<1>1. first \in Nat /\ first < len /\ p * n = first + n
  BY <1>0, DivCeilIs
<1>2. last = IF first + n <= len THEN first + n ELSE len
  BY <1>0, <1>1, LesserOf
<1>3. p < k => first + n <= len
  <2> SUFFICES ASSUME p < k
               PROVE  first + n <= len
    OBVIOUS
  <2>1. p + 1 \in 1 .. k /\ (p + 1) - 1 = p
    BY <1>0
  <2>2. p * n < len
    BY <1>0, <2>1, DivCeilIs
  <2> QED
    BY <1>0, <1>1, <2>2
<1>4. Min({first, len}) = first
  <2> HIDE DEF first
  <2> QED
    BY <1>0, <1>1, LesserOf
<1>5. Before(n, p) = first /\ EndOf(len, n, p) = last /\ EndOf(len, n, p - 1) = Min({first, len})
  BY DEF Before, EndOf
<1> HIDE DEF first, last, k
<1>6. first \in Nat /\ last \in Nat /\ first < last /\ last <= len /\ last <= first + n
  BY <1>0, <1>1, <1>2
<1>7. p < k => last = first + n
  BY <1>0, <1>1, <1>2, <1>3
<1> QED
  BY <1>4, <1>5, <1>6, <1>7 DEF k

IsSlice(s, q, a, b) == Len(s) = b - a /\ \A i \in 1 .. b - a : s[i] = q[a + i]

LEMMA PieceSlice ==
  ASSUME NEW S, NEW seq \in Seq(S), NEW n \in Nat \ {0}, NEW p \in 1 .. DivCeil(Len(seq), n)
  PROVE  /\ Pieces(seq, n)[p] \in Seq(S)
         /\ IsSlice(Pieces(seq, n)[p], seq, Before(n, p), EndOf(Len(seq), n, p))
<1> DEFINE first == Before(n, p)
           last == EndOf(Len(seq), n, p)
           piece == Pieces(seq, n)[p]
<1>1. first \in Nat /\ last \in Nat /\ first <= last /\ last <= Len(seq)
  BY PieceBounds
<1>2. piece = SubSeq(seq, first + 1, last)
  BY DEF Pieces, Before, EndOf
<1> HIDE DEF first, last, piece
<1>3. /\ SubSeq(seq, first + 1, last) \in Seq(S) /\ Len(SubSeq(seq, first + 1, last)) = last - first
      /\ \A i \in 1 .. last - first : SubSeq(seq, first + 1, last)[i] = seq[first + i]
  BY <1>1, Slice
<1>4. piece \in Seq(S) /\ IsSlice(piece, seq, first, last)
  BY <1>2, <1>3 DEF IsSlice
<1> QED
  BY <1>4 DEF first, last, piece

LEMMA PieceIs ==
  ASSUME NEW S, NEW seq \in Seq(S), NEW n \in Nat \ {0}, NEW p \in 1 .. DivCeil(Len(seq), n)
  PROVE  /\ Pieces(seq, n)[p] = SubSeq(seq, Before(n, p) + 1, EndOf(Len(seq), n, p))
         /\ Pieces(seq, n)[p] \in Seq(S)
         /\ Len(Pieces(seq, n)[p]) = EndOf(Len(seq), n, p) - Before(n, p)
<1>1. Pieces(seq, n)[p] = SubSeq(seq, Before(n, p) + 1, EndOf(Len(seq), n, p))
  BY DEF Pieces, Before, EndOf
<1>2. /\ Pieces(seq, n)[p] \in Seq(S)
      /\ IsSlice(Pieces(seq, n)[p], seq, Before(n, p), EndOf(Len(seq), n, p))
  BY PieceSlice
<1> QED
  BY <1>1, <1>2 DEF IsSlice

LEMMA PiecesAre ==
  ASSUME NEW S, NEW seq \in Seq(S), NEW n \in Nat \ {0}
  PROVE  /\ Pieces(seq, n) \in Seq(Seq(S)) /\ Len(Pieces(seq, n)) = DivCeil(Len(seq), n)
         /\ DivCeil(Len(seq), n) \in Nat
<1>1. DivCeil(Len(seq), n) \in Nat
  BY DivCeilIs
<1>2. \A p \in 1 .. DivCeil(Len(seq), n) : Pieces(seq, n)[p] \in Seq(S)
  BY PieceIs
<1>3. Pieces(seq, n) = [p \in 1 .. DivCeil(Len(seq), n) |-> Pieces(seq, n)[p]]
  BY DEF Pieces
<1> QED
  BY <1>1, <1>2, <1>3

(* The chunks of a file follow each other from its first byte to its last;   *)
(* ends[c] is where chunk c ends.                                            *)
Chunk == Seq(Nat) \ {<<>>}
Tiling(chunks, bytes, ends) ==
  /\ chunks \in Seq(Chunk)
  /\ ends[0] = 0 /\ ends[Len(chunks)] = Len(bytes)
  /\ \A c \in 1 .. Len(chunks) :
       /\ ends[c - 1] \in Nat /\ ends[c] \in Nat /\ ends[c - 1] < ends[c] /\ ends[c] <= Len(bytes)
       /\ chunks[c] = SubSeq(bytes, ends[c - 1] + 1, ends[c])
       /\ Len(chunks[c]) = ends[c] - ends[c - 1]

LEMMA PiecesTile ==
  ASSUME NEW bytes \in Seq(Nat), NEW n \in Nat \ {0}
  PROVE  Tiling(Pieces(bytes, n), bytes,
                [p \in 0 .. DivCeil(Len(bytes), n) |->
                   IF p = 0 THEN 0 ELSE EndOf(Len(bytes), n, p)])
<1> DEFINE len == Len(bytes)
           k == DivCeil(len, n)
           ends == [p \in 0 .. k |-> IF p = 0 THEN 0 ELSE EndOf(len, n, p)]
           pieces == Pieces(bytes, n)
<1>0. len \in Nat /\ k \in Nat /\ n \in Nat /\ pieces \in Seq(Seq(Nat)) /\ Len(pieces) = k
  BY PiecesAre
<1>1. ends[0] = 0
  BY <1>0
<1>2. ends[k] = len
  <2>1. len = 0 => k = 0
    BY DivCeilIs
  <2>2. ASSUME len > 0
        PROVE  k # 0 /\ EndOf(len, n, k) = len
    <3>1. k # 0 /\ len <= k * n /\ k * n \in Int
      <4>1. k > 0 /\ len <= k * n /\ k * n \in Nat
        BY <1>0, <2>2, DivCeilIs
      <4> HIDE DEF k, len
      <4> QED
        BY <1>0, <4>1
    <3> DEFINE m == k * n
    <3>2. EndOf(len, n, k) = Min({m, len}) /\ m \in Int /\ len <= m
      BY <3>1 DEF EndOf
    <3> HIDE DEF m, k, len
    <3>3. Min({m, len}) = len
      BY <1>0, <3>2, LesserOf
    <3> QED
      BY <3>1, <3>2, <3>3
  <2> QED
    BY <1>0, <2>1, <2>2
<1>3. ASSUME NEW p \in 1 .. k
      PROVE  /\ ends[p - 1] \in Nat /\ ends[p] \in Nat /\ ends[p - 1] < ends[p] /\ ends[p] <= len
             /\ pieces[p] = SubSeq(bytes, ends[p - 1] + 1, ends[p])
             /\ Len(pieces[p]) = ends[p] - ends[p - 1]
  <2> DEFINE first == Before(n, p)
             last == EndOf(len, n, p)
  <2>1. p = 1 => first = 0
    BY <1>0 DEF Before
  <2>2. /\ first \in Nat /\ last \in Nat /\ first < last /\ last <= len
        /\ p > 1 => EndOf(len, n, p - 1) = first
    BY <1>0, PieceBounds
  <2>3. pieces[p] = SubSeq(bytes, first + 1, last) /\ Len(pieces[p]) = last - first
    <3> HIDE DEF k
    <3>1. k = DivCeil(len, n)
      BY DEF k
    <3>2. p \in 1 .. DivCeil(Len(bytes), n)
      BY <3>1
    <3>3. \A q \in 1 .. DivCeil(Len(bytes), n) :
            /\ Pieces(bytes, n)[q] = SubSeq(bytes, Before(n, q) + 1, EndOf(Len(bytes), n, q))
            /\ Len(Pieces(bytes, n)[q]) = EndOf(Len(bytes), n, q) - Before(n, q)
      BY PieceIs
    <3> QED
      BY <3>2, <3>3
  <2> HIDE DEF first
  <2>4. ends[p - 1] = first /\ ends[p] = last
    BY <1>0, <2>1, <2>2
  <2> HIDE DEF last, ends, pieces
  <2> QED
    BY <2>2, <2>3, <2>4
<1> HIDE DEF ends, pieces
<1>4. pieces \in Seq(Chunk)
  <2>1. ASSUME NEW p \in 1 .. k
        PROVE  pieces[p] \in Chunk
    <3>1. ends[p - 1] < ends[p] /\ Len(pieces[p]) = ends[p] - ends[p - 1]
          /\ ends[p - 1] \in Nat /\ ends[p] \in Nat
      BY <1>3
    <3>2. pieces[p] \in Seq(Nat) /\ Len(pieces[p]) # 0
      BY <1>0, <3>1
    <3> QED
      BY <3>2 DEF Chunk
  <2> QED
    BY <1>0, <2>1
<1>5. Tiling(pieces, bytes, ends)
  BY <1>0, <1>1, <1>2, <1>3, <1>4 DEF Tiling
<1> QED
  BY <1>5 DEF pieces, ends

(* Where the chunks of the first n bytes begin and end.                      *)
CutStep(bytes, cuts, n) ==
  IF bytes[n] \in CutAfter \/ n = Len(bytes) THEN Append(cuts, n) ELSE cuts
IsCuts(f, bytes, N) ==
  f = [n \in 0 .. N |-> IF n = 0 THEN <<0>> ELSE CutStep(bytes, f[n - 1], n)]

LEMMA CutsExist ==
  ASSUME NEW bytes, NEW N \in Nat
  PROVE  \E f : IsCuts(f, bytes, N)
<1> DEFINE S == {n \in Nat : \E f : IsCuts(f, bytes, n)}
<1>1. 0 \in S
  <2>1. IsCuts([n \in 0 .. 0 |-> <<0>>], bytes, 0)
    BY DEF IsCuts
  <2> QED
    BY <2>1
<1>2. ASSUME NEW n \in 0 .. N - 1, n \in S
      PROVE  n + 1 \in S
  <2>1. PICK f : IsCuts(f, bytes, n)
    BY <1>2
  <2> DEFINE g == [m \in 0 .. n + 1 |-> IF m = n + 1 THEN CutStep(bytes, f[n], n + 1) ELSE f[m]]
  <2>2. IsCuts(g, bytes, n + 1)
    BY <2>1 DEF IsCuts
  <2> QED
    BY <2>2
<1> HIDE DEF S
<1>3. N \in S
  BY <1>1, <1>2, UpTo
<1> QED
  BY <1>3 DEF S

Ascending(q, n) ==
  /\ q \in Seq(Nat) /\ q # <<>> /\ q[1] = 0
  /\ \A i \in 1 .. Len(q) : q[i] <= n
  /\ \A i \in 1 .. Len(q) - 1 : q[i] < q[i + 1]

LEMMA AscendingMore ==
  ASSUME NEW n \in Nat, NEW q, Ascending(q, n)
  PROVE  Ascending(q, n + 1) /\ Ascending(Append(q, n + 1), n + 1)
<1> DEFINE r == Append(q, n + 1)
<1>1. /\ q \in Seq(Nat) /\ Len(q) \in Nat /\ Len(q) > 0
      /\ \A i \in 1 .. Len(q) : q[i] \in Nat
  BY DEF Ascending
<1>2. /\ r \in Seq(Nat) /\ Len(r) = Len(q) + 1 /\ r[Len(q) + 1] = n + 1
      /\ \A i \in 1 .. Len(q) : r[i] = q[i]
  BY <1>1
<1> HIDE DEF r
<1>3. Ascending(r, n + 1)
  <2>1. ASSUME NEW i \in 1 .. Len(r)
        PROVE  r[i] <= n + 1
    <3>1. CASE i = Len(q) + 1
      BY <1>2, <3>1
    <3>2. CASE i \in 1 .. Len(q)
      <4>1. q[i] <= n /\ q[i] \in Nat
        BY <1>1, <3>2 DEF Ascending
      <4> QED
        BY <1>2, <3>2, <4>1
    <3> QED
      BY <1>1, <1>2, <3>1, <3>2
  <2>2. \A i \in 1 .. Len(r) - 1 : r[i] < r[i + 1]
    <3> SUFFICES ASSUME NEW i \in 1 .. Len(q)
                 PROVE  r[i] < r[i + 1]
      BY <1>1, <1>2
    <3>1. CASE i < Len(q)
      <4>1. i \in 1 .. Len(q) - 1 /\ i + 1 \in 1 .. Len(q)
        BY <1>1, <3>1
      <4> QED
        BY <1>2, <4>1 DEF Ascending
    <3>2. CASE i = Len(q)
      <4>1. q[i] <= n
        BY DEF Ascending
      <4> QED
        BY <1>1, <1>2, <3>2, <4>1
    <3> QED
      BY <1>1, <3>1, <3>2
  <2>3. r # <<>> /\ r[1] = 0
    BY SMTT(20), <1>1, <1>2 DEF Ascending
  <2> QED
    BY <1>2, <2>1, <2>2, <2>3 DEF Ascending
<1>4. Ascending(q, n + 1)
  BY <1>1 DEF Ascending
<1> QED
  BY <1>3, <1>4 DEF r

LEMMA CutsAscend ==
  ASSUME NEW bytes \in Seq(Nat), NEW f, IsCuts(f, bytes, Len(bytes))
  PROVE  /\ Ascending(f[Len(bytes)], Len(bytes))
         /\ f[Len(bytes)][Len(f[Len(bytes)])] = Len(bytes)
<1> DEFINE len == Len(bytes)
           S == {n \in 0 .. len : Ascending(f[n], n)}
<1>0. len \in Nat
  OBVIOUS
<1>1. f[0] = <<0>> /\ 0 \in S
  <2>1. f[0] = <<0>>
    BY <1>0 DEF IsCuts
  <2>2. Ascending(<<0>>, 0)
    BY DEF Ascending
  <2> QED
    BY SMTT(20), <1>0, <2>1, <2>2
<1>2. ASSUME NEW n \in 0 .. len - 1, n \in S
      PROVE  n + 1 \in S
  <2>1. f[n + 1] = CutStep(bytes, f[n], n + 1)
    BY <1>0 DEF IsCuts
  <2>2. Ascending(f[n], n + 1) /\ Ascending(Append(f[n], n + 1), n + 1)
    BY <1>2, AscendingMore
  <2>3. Ascending(f[n + 1], n + 1)
    BY <2>1, <2>2 DEF CutStep
  <2> QED
    BY <1>0, <2>3
<1>3. len \in S /\ \A n \in 0 .. len : n \in S
  <2> HIDE DEF S, len
  <2> QED
    BY <1>0, <1>1, <1>2, UpTo
<1>4. CASE len = 0
  BY <1>1, <1>3, <1>4
<1>5. CASE len > 0
  <2>1. f[len] = Append(f[len - 1], len)
    <3>1. len \in 0 .. len /\ len # 0
      BY <1>0, <1>5
    <3>2. f = [n \in 0 .. len |-> IF n = 0 THEN <<0>> ELSE CutStep(bytes, f[n - 1], n)]
      BY DEF IsCuts
    <3> HIDE DEF len
    <3>3. f[len] = CutStep(bytes, f[len - 1], len)
      BY <3>1, <3>2
    <3> QED
      BY <3>3 DEF CutStep, len
  <2>2. f[len - 1] \in Seq(Nat)
    <3>1. len - 1 \in S
      BY <1>0, <1>3, <1>5
    <3> QED
      BY <3>1 DEF Ascending
  <2>3. f[len][Len(f[len])] = len
    BY <1>0, <2>1, <2>2
  <2> QED
    BY <1>3, <2>3
<1> QED
  BY <1>0, <1>4, <1>5

LEMMA ContentTiles ==
  ASSUME NEW bytes \in Seq(Nat)
  PROVE  \E ends : Tiling(ContentDefinedChunks(bytes), bytes, ends)
<1> DEFINE f == CHOOSE g : IsCuts(g, bytes, Len(bytes))
           all == f[Len(bytes)]
           k == Len(all) - 1
           chunks == [c \in 1 .. k |-> SubSeq(bytes, all[c] + 1, all[c + 1])]
           ends == [c \in 0 .. k |-> all[c + 1]]
<1>0. Len(bytes) \in Nat
  OBVIOUS
<1>1. IsCuts(f, bytes, Len(bytes))
  BY <1>0, CutsExist
<1>2. ContentDefinedChunks(bytes) = chunks
  BY DEF ContentDefinedChunks, IsCuts, CutStep
<1> HIDE DEF f
<1>3. Ascending(all, Len(bytes)) /\ all[Len(all)] = Len(bytes)
  BY <1>1, CutsAscend
<1> HIDE DEF all
<1>4. k \in Nat /\ k + 1 = Len(all) /\ \A c \in 1 .. Len(all) : all[c] \in Nat /\ all[c] <= Len(bytes)
  BY <1>3 DEF Ascending
<1> HIDE DEF k
<1>5. ends[0] = 0 /\ ends[k] = Len(bytes)
  BY <1>3, <1>4 DEF Ascending
<1>6. ASSUME NEW c \in 1 .. k
      PROVE  /\ ends[c - 1] \in Nat /\ ends[c] \in Nat /\ ends[c - 1] < ends[c] /\ ends[c] <= Len(bytes)
             /\ chunks[c] = SubSeq(bytes, ends[c - 1] + 1, ends[c])
             /\ chunks[c] \in Chunk /\ Len(chunks[c]) = ends[c] - ends[c - 1]
  <2>1. /\ ends[c - 1] = all[c] /\ ends[c] = all[c + 1]
        /\ c \in 1 .. Len(all) - 1 /\ c \in 1 .. Len(all) /\ c + 1 \in 1 .. Len(all)
    BY <1>4
  <2> DEFINE a == all[c]
             b == all[c + 1]
             chunk == SubSeq(bytes, a + 1, b)
  <2>2. a \in Nat /\ b \in Nat /\ a < b /\ b <= Len(bytes)
    BY <1>3, <1>4, <2>1 DEF Ascending
  <2>3. chunks[c] = chunk
    OBVIOUS
  <2> HIDE DEF a, b
  <2>4. chunk \in Seq(Nat) /\ Len(chunk) = b - a
    BY <2>2, Slice
  <2>5. chunk \in Chunk
    BY <2>2, <2>4 DEF Chunk
  <2> HIDE DEF ends, chunks
  <2> QED
    BY <2>1, <2>2, <2>3, <2>4, <2>5 DEF a, b
<1>7. chunks \in Seq(Chunk) /\ Len(chunks) = k
  <2>1. chunks = [c \in 1 .. k |-> chunks[c]]
    OBVIOUS
  <2>2. \A c \in 1 .. k : chunks[c] \in Chunk
    BY <1>6
  <2> HIDE DEF chunks
  <2> QED
    BY <1>4, <2>1, <2>2, IsSeq
<1> HIDE DEF chunks, ends
<1>8. Tiling(chunks, bytes, ends)
  BY <1>5, <1>6, <1>7 DEF Tiling
<1> QED
  BY <1>2, <1>8

LEMMA Classified ==
  ASSUME NEW file, file.bytes \in Seq(Nat)
  PROVE  /\ Classify(file).compression \in {"Raw", "Auto"}
         /\ Classify(file).layout \in {"Fixed", "ContentDefined"} /\ Classify(file).fixed \in Nat
         /\ Classify(file).layout = "Fixed" => Classify(file).fixed \in Nat \ {0}
         /\ Classify(file).layout = "ContentDefined" => Classify(file).fixed = 0
         /\ Classify(file).access \in {"Streaming", "Transient", "Hot", "Normal"}
<1> DEFINE len == Len(file.bytes)
           cut == Layout(file)
<1>1. len \in Nat /\ Max({len, 1}) \in Nat \ {0}
  BY GreaterOf
<1>2. {AudioBlock, StreamBlock, BulkBlock} \subseteq Nat \ {0}
  BY CatalogAssumption
<1>3. /\ cut.layout \in {"Fixed", "ContentDefined"} /\ cut.fixed \in Nat
      /\ cut.layout = "Fixed" => cut.fixed \in Nat \ {0}
      /\ cut.layout = "ContentDefined" => cut.fixed = 0
      /\ cut.access \in {"Streaming", "Transient", "Hot", "Normal"}
  <2>1. CASE file.kind = "video"
    BY <1>2, <2>1 DEF Layout, Fixed
  <2>2. CASE file.kind = "music"
    BY <1>2, <2>2 DEF Layout, Fixed
  <2>3. CASE file.kind = "audio"
    BY <1>2, <2>3 DEF Layout, Fixed
  <2>4. CASE file.kind \notin {"video", "music", "audio"}
    <3>1. cut = IF len <= HotFileLimit THEN Fixed(Max({len, 1}), "Hot")
                ELSE IF len <= ContentDefinedLimit
                THEN [layout |-> "ContentDefined", fixed |-> 0, access |-> "Normal"]
                ELSE Fixed(BulkBlock, "Normal")
      BY <2>4 DEF Layout
    <3> QED
      BY <1>1, <1>2, <3>1 DEF Fixed
  <2> QED
    BY <2>1, <2>2, <2>3, <2>4
<1> HIDE DEF cut
<1>4. /\ Classify(file).compression = (IF file.compressed THEN "Raw" ELSE "Auto")
      /\ Classify(file).layout = cut.layout /\ Classify(file).fixed = cut.fixed
      /\ Classify(file).access = cut.access
  BY DEF Classify, cut
<1> QED
  BY <1>3, <1>4

(* The chunks of a file of fixed blocks begin at multiples of their length.  *)
LEMMA FileTiles ==
  ASSUME NEW file, file.bytes \in Seq(Nat)
  PROVE  \E ends : /\ Tiling(ChunksOf(file), file.bytes, ends)
                   /\ Classify(file).layout = "Fixed" =>
                        \A c \in 1 .. Len(ChunksOf(file)) :
                          /\ ends[c - 1] = (c - 1) * Classify(file).fixed
                          /\ ends[c] <= (c - 1) * Classify(file).fixed + Classify(file).fixed
<1>1. CASE Classify(file).layout = "ContentDefined"
  <2>1. PICK ends : Tiling(ContentDefinedChunks(file.bytes), file.bytes, ends)
    BY ContentTiles
  <2> QED
    BY <1>1, <2>1 DEF ChunksOf
<1>2. CASE Classify(file).layout = "Fixed"
  <2> DEFINE n == Classify(file).fixed
             bytes == file.bytes
             k == DivCeil(Len(bytes), n)
             ends == [p \in 0 .. k |-> IF p = 0 THEN 0 ELSE EndOf(Len(bytes), n, p)]
  <2>1. n \in Nat \ {0} /\ bytes \in Seq(Nat)
    BY <1>2, Classified
  <2>2. ChunksOf(file) = Pieces(bytes, n)
    BY <1>2 DEF ChunksOf
  <2> HIDE DEF n, bytes
  <2>3. Tiling(Pieces(bytes, n), bytes, ends) /\ Len(Pieces(bytes, n)) = k /\ k \in Nat
    BY <2>1, PiecesTile, PiecesAre
  <2>4. ASSUME NEW c \in 1 .. k
        PROVE  ends[c - 1] = (c - 1) * n /\ ends[c] <= (c - 1) * n + n
    <3>1. c = 1 => Before(n, c) = 0
      BY <2>1 DEF Before
    <3>2. Len(bytes) \in Nat
      BY <2>1
    <3>3. /\ EndOf(Len(bytes), n, c) <= Before(n, c) + n
          /\ c > 1 => EndOf(Len(bytes), n, c - 1) = Before(n, c)
      BY <2>1, <3>2, PieceBounds
    <3>4. ends[c] = EndOf(Len(bytes), n, c)
          /\ ends[c - 1] = IF c = 1 THEN 0 ELSE EndOf(Len(bytes), n, c - 1)
      BY <2>3
    <3> HIDE DEF ends
    <3>5. ends[c - 1] = Before(n, c) /\ ends[c] <= Before(n, c) + n
      BY <2>3, <3>1, <3>3, <3>4
    <3> QED
      BY <3>5 DEF Before
  <2> HIDE DEF ends
  <2>5. \A c \in 1 .. Len(ChunksOf(file)) : ends[c - 1] = (c - 1) * n /\ ends[c] <= (c - 1) * n + n
    BY <2>2, <2>3, <2>4
  <2>6. Tiling(ChunksOf(file), bytes, ends)
    BY <2>2, <2>3
  <2> QED
    BY <2>5, <2>6 DEF n, bytes
<1> QED
  BY <1>1, <1>2, Classified

(* A chunk begins where those before it end.                                 *)
LEMMA StartIs ==
  ASSUME NEW chunks, NEW bytes, NEW ends, Tiling(chunks, bytes, ends),
         NEW c \in 0 .. Len(chunks)
  PROVE  SumOf([i \in 1 .. c |-> Len(chunks[i])]) = ends[c]
<1> DEFINE lens(m) == [i \in 1 .. m |-> Len(chunks[i])]
           S == {m \in 0 .. Len(chunks) : SumOf(lens(m)) = ends[m]}
<1>0. Len(chunks) \in Nat /\ \A i \in 1 .. Len(chunks) : Len(chunks[i]) \in Nat
  <2>1. chunks \in Seq(Chunk)
    BY DEF Tiling
  <2> QED
    BY <2>1 DEF Chunk
<1>1. ASSUME NEW m \in 0 .. Len(chunks)
      PROVE  Len(lens(m)) = m /\ \A i \in 1 .. m : lens(m)[i] = Len(chunks[i])
  <2>1. m \in Nat /\ \A i \in 1 .. m : lens(m)[i] \in Nat
    BY <1>0
  <2>2. lens(m) = [i \in 1 .. m |-> lens(m)[i]]
    OBVIOUS
  <2>3. Len(lens(m)) = m
    BY <2>1, <2>2, IsSeq
  <2> QED
    BY <2>3
<1>2. 0 \in S
  <2>1. Len(lens(0)) = 0
    BY <1>0, <1>1
  <2> HIDE DEF lens
  <2>2. SumOf(lens(0)) = 0
    BY <2>1, SumOfNone
  <2> QED
    BY <1>0, <2>2 DEF Tiling
<1>3. ASSUME NEW m \in 0 .. Len(chunks) - 1, m \in S
      PROVE  m + 1 \in S
  <2>0. m \in 0 .. Len(chunks) /\ m + 1 \in 0 .. Len(chunks) /\ m + 1 \in 1 .. Len(chunks) /\ m \in Nat
    BY <1>0
  <2>1. /\ Len(lens(m)) = m /\ Len(lens(m + 1)) = m + 1
        /\ \A i \in 1 .. m : lens(m + 1)[i] = lens(m)[i]
        /\ lens(m + 1)[m + 1] = Len(chunks[m + 1])
    BY <1>1, <2>0
  <2> HIDE DEF lens
  <2>2. SumOf(lens(m + 1)) = SumOf(lens(m)) + lens(m + 1)[Len(lens(m + 1))]
    BY <2>0, <2>1, SumOfMore
  <2>3. SumOf(lens(m)) = ends[m]
    BY <1>3
  <2>4. ends[m] \in Nat /\ ends[m + 1] \in Nat /\ Len(chunks[m + 1]) = ends[m + 1] - ends[m]
    <3>1. (m + 1) - 1 = m
      BY <2>0
    <3> QED
      BY <2>0, <3>1 DEF Tiling
  <2>5. SumOf(lens(m + 1)) = ends[m + 1]
    BY <2>1, <2>2, <2>3, <2>4
  <2> QED
    BY <2>0, <2>5
<1>4. c \in S
  <2> HIDE DEF S
  <2> QED
    BY <1>0, <1>2, <1>3, UpTo
<1> QED
  BY <1>4

(* Every byte is in one chunk: those before begin before it, those after     *)
(* after it.                                                                 *)
LEMMA ChunkOfByte ==
  ASSUME NEW chunks, NEW bytes \in Seq(Nat), NEW ends, Tiling(chunks, bytes, ends),
         NEW offset \in 0 .. Len(bytes) - 1
  PROVE  \E c \in 1 .. Len(chunks) :
           /\ ends[c - 1] <= offset /\ offset < ends[c]
           /\ \A i \in 1 .. Len(chunks) : ends[i - 1] <= offset <=> i <= c
<1> DEFINE k == Len(chunks)
           S == {c \in 1 .. k : offset < ends[c]}
<1>0. k \in Nat /\ Len(bytes) \in Nat /\ offset \in Nat /\ offset < Len(bytes)
  BY DEF Tiling
<1>1. /\ \A c \in 1 .. k : ends[c - 1] \in Nat /\ ends[c] \in Nat /\ ends[c - 1] < ends[c]
      /\ ends[0] = 0 /\ ends[k] = Len(bytes)
  BY DEF Tiling
<1> HIDE DEF k
<1>2. k \in S
  BY <1>0, <1>1
<1>3. PICK c \in S : \A i \in S : c <= i
  <2>1. S \in SUBSET Nat /\ S # {}
    BY <1>0, <1>2
  <2> HIDE DEF S
  <2> QED
    BY <2>1, LeastOf
<1>4. c \in 1 .. k /\ offset < ends[c]
  OBVIOUS
<1>5. ASSUME NEW i \in 1 .. k, i <= c
      PROVE  ends[i - 1] <= offset
  <2>1. CASE i = 1
    BY <1>0, <1>1, <2>1
  <2>2. CASE i # 1
    <3>1. i - 1 \in 1 .. k /\ ~(c <= i - 1)
      BY <1>0, <1>4, <1>5, <2>2
    <3>2. i - 1 \notin S
      BY <1>3, <3>1
    <3>3. ends[i - 1] \in Nat /\ ~(offset < ends[i - 1])
      BY <1>1, <3>1, <3>2
    <3> QED
      BY <1>0, <3>3
  <2> QED
    BY <2>1, <2>2
<1>6. ASSUME NEW i \in 1 .. k, c < i
      PROVE  offset < ends[i - 1]
  <2> DEFINE T == {j \in 0 .. k - c : offset < ends[c + j]}
  <2>1. 0 \in T
    BY <1>0, <1>4
  <2>2. ASSUME NEW j \in 0 .. (k - c) - 1, j \in T
        PROVE  j + 1 \in T
    <3>1. /\ c + (j + 1) \in 1 .. k /\ (c + (j + 1)) - 1 = c + j /\ j + 1 \in 0 .. k - c
          /\ c + j \in 1 .. k
      BY <1>0, <1>4
    <3>2. ends[c + j] \in Nat /\ ends[c + (j + 1)] \in Nat /\ ends[c + j] < ends[c + (j + 1)]
      BY <1>1, <3>1
    <3>3. offset < ends[c + j]
      BY <2>2
    <3> QED
      BY <1>0, <3>1, <3>2, <3>3
  <2>3. k - c \in Nat /\ (i - 1) - c \in 0 .. k - c /\ c + ((i - 1) - c) = i - 1
    BY <1>0, <1>4, <1>6
  <2>4. (i - 1) - c \in T
    <3> HIDE DEF T
    <3> QED
      BY <2>1, <2>2, <2>3, UpTo
  <2> QED
    BY <2>3, <2>4
<1>7. ASSUME NEW i \in 1 .. k
      PROVE  ends[i - 1] <= offset <=> i <= c
  <2>1. ends[i - 1] \in Nat /\ (i <= c \/ c < i)
    BY <1>0, <1>1, <1>4
  <2> QED
    BY <1>0, <1>4, <1>5, <1>6, <2>1
<1>8. ends[c - 1] <= offset
  BY <1>0, <1>4, <1>5
<1> QED
  BY <1>4, <1>7, <1>8 DEF k

-------------------------------------------------------------------------------
(* Blocks and segments.                                                     *)

Codecs == {"Raw", "Zstd"}
Accesses == {"Streaming", "Transient", "Hot", "Normal"}
Block == [bytes : Chunk, codec : Codecs, stored : Nat, physical : Nat]

(* What is stored of a block is as long as the runtime asks.                 *)
StoredRight(codec, stored, plain) ==
  IF codec = "Raw" THEN stored = plain + TagSize ELSE stored \in TagSize .. plain + TagSize - 1

LEMMA EncodedIs ==
  ASSUME NEW len \in Nat, NEW compression
  PROVE  LET encoded == CompressBlock(len, compression) IN
         /\ encoded.codec \in Codecs /\ encoded.stored \in Nat /\ encoded.stored >= TagSize
         /\ StoredRight(encoded.codec, encoded.stored, len)
<1>1. CompressionSavings \in Nat
  BY CatalogAssumption
<1>2. ASSUME Squeezed(len) \in 0 .. len - CompressionSavings - 1
      PROVE  Squeezed(len) + TagSize \in Nat /\ Squeezed(len) + TagSize \in TagSize .. len + TagSize - 1
  BY <1>1, <1>2 DEF TagSize
<1>3. len + TagSize \in Nat /\ len + TagSize >= TagSize
  BY DEF TagSize
<1> QED
  BY <1>2, <1>3 DEF CompressBlock, CompressBytes, Codecs, StoredRight, TagSize

BlockRight(block, payload) ==
  /\ block.physical >= HeaderSize.Segment
  /\ block.physical + block.stored <= HeaderSize.Segment + payload
  /\ StoredRight(block.codec, block.stored, Len(block.bytes))
BlocksRight(blocks) == \A b \in 1 .. Len(blocks) : BlockRight(blocks[b], Payload(blocks))

LEMMA PayloadMore ==
  ASSUME NEW blocks \in Seq(Block), NEW block \in Block
  PROVE  /\ Payload(blocks) \in Nat
         /\ Payload(Append(blocks, block)) = Payload(blocks) + block.stored
<1> DEFINE more == Append(blocks, block)
           s == [b \in DOMAIN blocks |-> blocks[b].stored]
           t == [b \in DOMAIN more |-> more[b].stored]
<1>1. /\ Len(blocks) \in Nat /\ DOMAIN blocks = 1 .. Len(blocks)
      /\ DOMAIN more = 1 .. Len(blocks) + 1 /\ more[Len(blocks) + 1] = block
      /\ \A b \in 1 .. Len(blocks) : more[b] = blocks[b] /\ blocks[b] \in Block
  OBVIOUS
<1> HIDE DEF more
<1>2. /\ s = [b \in 1 .. Len(blocks) |-> s[b]]
      /\ \A b \in 1 .. Len(blocks) : s[b] = blocks[b].stored /\ s[b] \in Nat
  BY <1>1 DEF Block
<1>3. /\ t = [b \in 1 .. Len(blocks) + 1 |-> t[b]]
      /\ \A b \in 1 .. Len(blocks) : t[b] = blocks[b].stored
      /\ t[Len(blocks) + 1] = block.stored /\ block.stored \in Nat
  BY <1>1 DEF Block
<1> HIDE DEF s, t
<1>4. Len(s) = Len(blocks)
  BY <1>1, <1>2, IsSeq
<1>5. Len(t) = Len(blocks) + 1
  <2>1. \A b \in 1 .. Len(blocks) + 1 : t[b] \in Nat
    <3> SUFFICES ASSUME NEW b \in 1 .. Len(blocks) + 1
                 PROVE  t[b] \in Nat
      OBVIOUS
    <3>1. b \in 1 .. Len(blocks) \/ b = Len(blocks) + 1
      BY <1>1
    <3> QED
      BY <1>2, <1>3, <3>1
  <2>2. Len(blocks) + 1 \in Nat
    BY <1>1
  <2> QED
    BY <1>3, <2>1, <2>2, IsSeq
<1>6. SumOf(s) \in Nat
  BY <1>1, <1>2, <1>4, SumIsNat
<1>7. SumOf(t) = SumOf(s) + t[Len(t)]
  <2>1. Len(s) \in Nat /\ Len(t) = Len(s) + 1 /\ \A n \in 1 .. Len(s) : t[n] = s[n]
    BY <1>1, <1>2, <1>3, <1>4, <1>5
  <2> QED
    BY <2>1, SumOfMore
<1>8. Payload(blocks) = SumOf(s) /\ Payload(more) = SumOf(t)
  BY DEF Payload, s, t
<1> QED
  BY <1>3, <1>5, <1>6, <1>7, <1>8 DEF more

LEMMA WriteBlockIs ==
  ASSUME NEW blocks \in Seq(Block), BlocksRight(blocks), NEW bytes \in Chunk,
         NEW encoded, encoded.codec \in Codecs, encoded.stored \in Nat,
         StoredRight(encoded.codec, encoded.stored, Len(bytes)),
         NEW written, written = WriteBlock(blocks, bytes, encoded)
  PROVE  /\ written \in Seq(Block) /\ BlocksRight(written)
         /\ Len(written) = Len(blocks) + 1 /\ \A b \in 1 .. Len(blocks) : written[b] = blocks[b]
         /\ written[Len(written)].bytes = bytes /\ written[Len(written)].codec = encoded.codec
         /\ written[Len(written)].stored = encoded.stored
<1> DEFINE block == [bytes |-> bytes, codec |-> encoded.codec, stored |-> encoded.stored,
                     physical |-> HeaderSize.Segment + Payload(blocks)]
<1>1. Payload(blocks) \in Nat
  <2>1. \E b : b \in Block
    <3>1. [bytes |-> bytes, codec |-> "Raw", stored |-> 0, physical |-> 0] \in Block
      BY DEF Block, Codecs
    <3> QED
      BY <3>1
  <2> QED
    BY <2>1, PayloadMore
<1>2. HeaderSize.Segment = 128
  BY DEF HeaderSize
<1>3. block \in Block
  BY <1>1, <1>2 DEF Block
<1>4. /\ block.bytes = bytes /\ block.codec = encoded.codec /\ block.stored = encoded.stored
      /\ block.physical = 128 + Payload(blocks)
  BY <1>2
<1>5. written = Append(blocks, block)
  BY DEF WriteBlock
<1> HIDE DEF block
<1>6. /\ written \in Seq(Block) /\ Len(written) = Len(blocks) + 1 /\ Len(blocks) \in Nat
      /\ \A b \in 1 .. Len(blocks) : written[b] = blocks[b] /\ blocks[b] \in Block
      /\ written[Len(blocks) + 1] = block
  BY <1>3, <1>5
<1>7. Payload(written) = Payload(blocks) + block.stored
  BY <1>3, <1>5, PayloadMore
<1>8. ASSUME NEW b \in 1 .. Len(written)
      PROVE  BlockRight(written[b], Payload(written))
  <2>1. CASE b = Len(blocks) + 1
    BY <1>1, <1>2, <1>4, <1>6, <1>7, <2>1 DEF BlockRight
  <2>2. CASE b \in 1 .. Len(blocks)
    <3>1. BlockRight(blocks[b], Payload(blocks)) /\ written[b] = blocks[b]
      BY <1>6, <2>2 DEF BlocksRight
    <3>2. blocks[b].physical \in Nat /\ blocks[b].stored \in Nat
      BY <1>6, <2>2 DEF Block
    <3> QED
      BY SMTT(20), <1>1, <1>2, <1>4, <1>7, <3>1, <3>2 DEF BlockRight
  <2> QED
    BY <1>6, <2>1, <2>2
<1> QED
  BY <1>4, <1>6, <1>8 DEF BlocksRight

Segment == [access : Accesses, blocks : Seq(Block)]

LEMMA RoomIs ==
  ASSUME NEW segments \in Seq(Segment), NEW access \in Accesses, NEW stored,
         NEW room, room = WithRoom(segments, access, stored)
  PROVE  /\ room.all \in Seq(Segment) /\ room.at \in 1 .. Len(room.all)
         /\ Len(segments) <= Len(room.all)
         /\ \A s \in 1 .. Len(segments) : room.all[s] = segments[s]
         /\ \A s \in 1 .. Len(room.all) : s > Len(segments) => room.all[s].blocks = <<>>
<1> DEFINE I == {s \in 1 .. Len(segments) : segments[s].access = access}
           last == SelectLastInSeq(segments, LAMBDA s : s.access = access)
           new == [access |-> access, blocks |-> <<>>]
<1>0. Len(segments) \in Nat
  OBVIOUS
<1>1. last = IF I # {} THEN Max(I) ELSE 0
  BY DEF SelectLastInSeq
<1>2. last # 0 => last \in 1 .. Len(segments)
  <2>1. I \in SUBSET (0 .. Len(segments))
    BY <1>0
  <2> HIDE DEF last
  <2>2. I # {} => Max(I) \in I
    <3> HIDE DEF I
    <3> QED
      BY <1>0, <2>1, MaxIs
  <2> QED
    BY <1>1, <2>2
<1>3. new \in Segment /\ new.blocks = <<>>
  BY DEF Segment
<1>4. \/ room.all = segments /\ room.at = last /\ last # 0
      \/ room.all = Append(segments, new) /\ room.at = Len(segments) + 1
  <2> HIDE DEF new, last
  <2> QED
    BY DEF WithRoom, last, new
<1> HIDE DEF new, last
<1>5. CASE room.all = segments /\ room.at = last /\ last # 0
  BY <1>0, <1>2, <1>5
<1>6. CASE room.all = Append(segments, new) /\ room.at = Len(segments) + 1
  BY <1>0, <1>3, <1>6
<1> QED
  BY <1>4, <1>5, <1>6

-------------------------------------------------------------------------------
(* Adding a chunk, and a file.                                              *)

Layouts == {"Fixed", "ContentDefined"}
Placed == [chunk : Chunk, access : Accesses, logical : Nat, segment : Nat, block : Nat,
           physical : Nat, stored : Nat, plain : Nat, codec : Codecs]
FileRecord == [pathAt : Nat, pathLen : Nat, layout : Layouts, access : Accesses, len : Nat,
               first : Nat, count : Nat, fixed : Nat]
PathByte == Paths \X Nat
OutType == [segments : Seq(Segment), pending : Seq(Placed), files : Seq(FileRecord),
            paths : Seq(Paths), pool : Seq(PathByte)]

(* A reference leads to the block its chunk was written to.                  *)
LeadsTo(segments, ref) ==
  /\ ref.segment \in 1 .. Len(segments) /\ ref.block \in 1 .. Len(segments[ref.segment].blocks)
  /\ LET block == segments[ref.segment].blocks[ref.block] IN
     /\ block.bytes = ref.chunk /\ block.physical = ref.physical
     /\ block.stored = ref.stored /\ block.codec = ref.codec
  /\ ref.plain = Len(ref.chunk)

OutRight(out) ==
  /\ out \in OutType
  /\ \A s \in 1 .. Len(out.segments) : BlocksRight(out.segments[s].blocks)
  /\ \A r \in 1 .. Len(out.pending) : LeadsTo(out.segments, out.pending[r])

(* A chunk has been added at an offset, and nothing else.                    *)
Adds(out, added, chunk, logical) ==
  /\ added.files = out.files /\ added.paths = out.paths /\ added.pool = out.pool
  /\ Len(added.pending) = Len(out.pending) + 1
  /\ \A r \in 1 .. Len(out.pending) : added.pending[r] = out.pending[r]
  /\ added.pending[Len(out.pending) + 1].chunk = chunk
  /\ added.pending[Len(out.pending) + 1].logical = logical

LEMMA AddBlockIs ==
  ASSUME NEW out, OutRight(out), NEW logical \in Nat, NEW bytes \in Chunk, NEW class,
         class.access \in Accesses,
         NEW added, added = AddBlock(out, logical, bytes, class)
  PROVE  OutRight(added) /\ Adds(out, added, bytes, logical)
<1> DEFINE encoded == CompressBlock(Len(bytes), class.compression)
           room == WithRoom(out.segments, class.access, encoded.stored)
           old == room.all[room.at].blocks
           blocks == WriteBlock(old, bytes, encoded)
           segments == [room.all EXCEPT ![room.at].blocks = blocks]
           ref == [chunk |-> bytes, access |-> class.access, logical |-> logical,
                   segment |-> room.at, block |-> Len(blocks), physical |-> Last(blocks).physical,
                   stored |-> encoded.stored, plain |-> Len(bytes), codec |-> encoded.codec]
<1>1. added = [out EXCEPT !.segments = segments, !.pending = Append(@, ref)]
  BY DEF AddBlock
<1>2. /\ encoded.codec \in Codecs /\ encoded.stored \in Nat
      /\ StoredRight(encoded.codec, encoded.stored, Len(bytes)) /\ Len(bytes) \in Nat
  <2>1. Len(bytes) \in Nat
    BY DEF Chunk
  <2> QED
    BY <2>1, EncodedIs
<1> HIDE DEF encoded
<1>3. /\ out.segments \in Seq(Segment) /\ out.pending \in Seq(Placed)
      /\ out.files \in Seq(FileRecord) /\ out.paths \in Seq(Paths) /\ out.pool \in Seq(PathByte)
      /\ out = [segments |-> out.segments, pending |-> out.pending, files |-> out.files,
                paths |-> out.paths, pool |-> out.pool]
      /\ \A s \in 1 .. Len(out.segments) : BlocksRight(out.segments[s].blocks)
      /\ \A r \in 1 .. Len(out.pending) : LeadsTo(out.segments, out.pending[r])
  BY DEF OutRight, OutType
<1>4. /\ room.all \in Seq(Segment) /\ room.at \in 1 .. Len(room.all)
      /\ Len(out.segments) <= Len(room.all)
      /\ \A s \in 1 .. Len(out.segments) : room.all[s] = out.segments[s]
      /\ \A s \in 1 .. Len(room.all) : s > Len(out.segments) => room.all[s].blocks = <<>>
  <2>1. PICK w : w = WithRoom(out.segments, class.access, encoded.stored)
    OBVIOUS
  <2>2. /\ w.all \in Seq(Segment) /\ w.at \in 1 .. Len(w.all)
        /\ Len(out.segments) <= Len(w.all)
        /\ \A s \in 1 .. Len(out.segments) : w.all[s] = out.segments[s]
        /\ \A s \in 1 .. Len(w.all) : s > Len(out.segments) => w.all[s].blocks = <<>>
    BY <1>3, <2>1, RoomIs
  <2> QED
    BY <2>1, <2>2
<1> HIDE DEF room
<1>5. Len(room.all) \in Nat /\ Len(out.segments) \in Nat /\ DOMAIN room.all = 1 .. Len(room.all)
  BY <1>3, <1>4
<1>6. \A s \in 1 .. Len(room.all) :
        /\ room.all[s] \in Segment /\ room.all[s].blocks \in Seq(Block)
        /\ BlocksRight(room.all[s].blocks)
  <2> SUFFICES ASSUME NEW s \in 1 .. Len(room.all)
               PROVE  /\ room.all[s] \in Segment /\ room.all[s].blocks \in Seq(Block)
                      /\ BlocksRight(room.all[s].blocks)
    OBVIOUS
  <2>3. room.all[s] \in Segment
    BY <1>4
  <2>4. room.all[s].blocks \in Seq(Block)
    BY <2>3 DEF Segment
  <2>1. CASE s \in 1 .. Len(out.segments)
    <3>1. BlocksRight(room.all[s].blocks)
      BY <1>3, <1>4, <2>1
    <3> QED
      BY <2>3, <2>4, <3>1
  <2>2. CASE s > Len(out.segments)
    <3>1. room.all[s].blocks = <<>>
      BY <1>4, <2>2
    <3>2. BlocksRight(room.all[s].blocks)
      BY <3>1 DEF BlocksRight
    <3> QED
      BY <2>3, <2>4, <3>2
  <2> QED
    BY <1>5, <2>1, <2>2, <2>3, <2>4
<1>7. /\ blocks \in Seq(Block) /\ BlocksRight(blocks)
      /\ Len(blocks) = Len(old) + 1 /\ \A b \in 1 .. Len(old) : blocks[b] = old[b]
      /\ blocks[Len(blocks)].bytes = bytes /\ blocks[Len(blocks)].codec = encoded.codec
      /\ blocks[Len(blocks)].stored = encoded.stored /\ Len(old) \in Nat
  <2>1. old \in Seq(Block) /\ BlocksRight(old)
    BY <1>4, <1>6
  <2> HIDE DEF old
  <2>2. PICK written : written = WriteBlock(old, bytes, encoded)
    OBVIOUS
  <2>3. /\ written \in Seq(Block) /\ BlocksRight(written)
        /\ Len(written) = Len(old) + 1 /\ \A b \in 1 .. Len(old) : written[b] = old[b]
        /\ written[Len(written)].bytes = bytes /\ written[Len(written)].codec = encoded.codec
        /\ written[Len(written)].stored = encoded.stored
    BY <1>2, <2>1, <2>2, WriteBlockIs
  <2> QED
    BY <2>1, <2>2, <2>3
<1> HIDE DEF blocks
<1>8. /\ segments \in Seq(Segment) /\ Len(segments) = Len(room.all)
      /\ segments[room.at].blocks = blocks
      /\ \A s \in 1 .. Len(room.all) : s # room.at => segments[s] = room.all[s]
  <2>1. \A s \in 1 .. Len(room.all) :
          segments[s] = IF s = room.at THEN [room.all[s] EXCEPT !.blocks = blocks] ELSE room.all[s]
    BY <1>5
  <2>2. \A s \in 1 .. Len(room.all) : [room.all[s] EXCEPT !.blocks = blocks] \in Segment
                                      /\ [room.all[s] EXCEPT !.blocks = blocks].blocks = blocks
    BY <1>6, <1>7 DEF Segment
  <2>3. segments = [s \in 1 .. Len(room.all) |-> segments[s]]
    BY <1>5
  <2> HIDE DEF segments
  <2>4. \A s \in 1 .. Len(room.all) : segments[s] \in Segment
    BY <1>6, <2>1, <2>2
  <2>5. segments \in Seq(Segment) /\ Len(segments) = Len(room.all)
    BY <1>5, <2>3, <2>4, IsSeq
  <2> QED
    BY <1>4, <2>1, <2>2, <2>5
<1> HIDE DEF segments
<1>9. ref \in Placed /\ LeadsTo(segments, ref) /\ ref.chunk = bytes /\ ref.logical = logical
  <2>1. Last(blocks) = blocks[Len(blocks)] /\ Len(blocks) \in Nat /\ Len(blocks) \in 1 .. Len(blocks)
    BY SMTT(20), <1>7 DEF Last
  <2>2. blocks[Len(blocks)].physical \in Nat
    <3>1. blocks[Len(blocks)] \in Block
      BY <1>7, <2>1
    <3> QED
      BY <3>1 DEF Block
  <2>3. room.at \in Nat
    BY <1>4, <1>5
  <2>4. ref \in Placed
    BY <1>2, <2>1, <2>2, <2>3 DEF Placed
  <2> QED
    BY <1>4, <1>7, <1>8, <2>1, <2>4 DEF LeadsTo
<1> HIDE DEF ref
<1>10. \A r \in 1 .. Len(out.pending) : LeadsTo(segments, out.pending[r])
  <2> SUFFICES ASSUME NEW r \in 1 .. Len(out.pending)
               PROVE  LeadsTo(segments, out.pending[r])
    OBVIOUS
  <2> DEFINE p == out.pending[r]
  <2>1. LeadsTo(out.segments, p)
    BY <1>3
  <2> HIDE DEF p
  <2>2. /\ p.segment \in 1 .. Len(room.all) /\ p.block \in 1 .. Len(room.all[p.segment].blocks)
        /\ room.all[p.segment].blocks[p.block] = out.segments[p.segment].blocks[p.block]
    <3>1. /\ p.segment \in 1 .. Len(out.segments)
          /\ p.block \in 1 .. Len(out.segments[p.segment].blocks)
      BY <2>1 DEF LeadsTo
    <3>2. /\ Len(out.segments) <= Len(room.all)
          /\ \A s \in 1 .. Len(out.segments) : room.all[s] = out.segments[s]
      BY <1>4
    <3>3. room.all[p.segment] = out.segments[p.segment]
      BY <3>1, <3>2
    <3>4. p.segment \in 1 .. Len(room.all)
      BY <1>5, <3>1, <3>2
    <3> QED
      BY <3>1, <3>3, <3>4
  <2>3. /\ p.block \in 1 .. Len(segments[p.segment].blocks)
        /\ segments[p.segment].blocks[p.block] = out.segments[p.segment].blocks[p.block]
    <3>1. CASE p.segment = room.at
      <4>1. /\ p.block \in 1 .. Len(old)
            /\ old[p.block] = out.segments[p.segment].blocks[p.block]
        BY <2>2, <3>1
      <4> HIDE DEF old
      <4>2. Len(old) \in Nat /\ Len(blocks) = Len(old) + 1
            /\ \A b \in 1 .. Len(old) : blocks[b] = old[b]
        BY <1>7
      <4>3. p.block \in 1 .. Len(blocks) /\ blocks[p.block] = old[p.block]
        BY <4>1, <4>2
      <4>4. segments[p.segment].blocks = blocks
        BY <1>8, <3>1
      <4> QED
        BY <4>1, <4>3, <4>4
    <3>2. CASE p.segment # room.at
      BY <1>8, <2>2, <3>2
    <3> QED
      BY <3>1, <3>2
  <2>4. p.segment \in 1 .. Len(segments)
    BY <1>8, <2>2
  <2>5. LeadsTo(segments, p)
    BY <2>1, <2>3, <2>4 DEF LeadsTo
  <2> QED
    BY <2>5 DEF p
<1>11. /\ added.segments = segments /\ added.pending = Append(out.pending, ref)
       /\ added.files = out.files /\ added.paths = out.paths /\ added.pool = out.pool
       /\ added \in OutType
  <2>1. added = [segments |-> segments, pending |-> Append(out.pending, ref), files |-> out.files,
                 paths |-> out.paths, pool |-> out.pool]
    <3> DEFINE more == Append(out.pending, ref)
    <3>1. added = [out EXCEPT !.segments = segments, !.pending = more]
      BY <1>1
    <3> HIDE DEF more
    <3>2. added = [segments |-> segments, pending |-> more, files |-> out.files,
                   paths |-> out.paths, pool |-> out.pool]
      BY <1>3, <3>1
    <3> QED
      BY <3>2 DEF more
  <2>2. Append(out.pending, ref) \in Seq(Placed)
    BY <1>3, <1>9
  <2> QED
    BY <1>3, <1>8, <2>1, <2>2 DEF OutType
<1>12. /\ Len(added.pending) = Len(out.pending) + 1 /\ Len(out.pending) \in Nat
       /\ added.pending[Len(out.pending) + 1] = ref
       /\ \A r \in 1 .. Len(out.pending) : added.pending[r] = out.pending[r]
  BY <1>3, <1>9, <1>11
<1>13. \A r \in 1 .. Len(added.pending) : LeadsTo(added.segments, added.pending[r])
  <2> SUFFICES ASSUME NEW r \in 1 .. Len(added.pending)
               PROVE  LeadsTo(added.segments, added.pending[r])
    OBVIOUS
  <2>1. CASE r \in 1 .. Len(out.pending)
    <3>1. added.pending[r] = out.pending[r] /\ added.segments = segments
      BY <1>11, <1>12, <2>1
    <3> QED
      BY <1>10, <2>1, <3>1
  <2>2. CASE r = Len(out.pending) + 1
    <3>1. added.pending[r] = ref /\ added.segments = segments
      BY <1>11, <1>12, <2>2
    <3> QED
      BY <1>9, <3>1
  <2>3. r \in 1 .. Len(out.pending) \/ r = Len(out.pending) + 1
    <3>1. Len(added.pending) = Len(out.pending) + 1 /\ Len(out.pending) \in Nat
      BY <1>12
    <3> QED
      BY <3>1
  <2> QED
    BY <2>1, <2>2, <2>3
<1>14. \A s \in 1 .. Len(added.segments) : BlocksRight(added.segments[s].blocks)
  BY <1>6, <1>7, <1>8, <1>11
<1> QED
  BY <1>9, <1>11, <1>12, <1>13, <1>14 DEF OutRight, Adds

LEMMA AddChunkIs ==
  ASSUME NEW out, OutRight(out), NEW logical \in Nat, NEW bytes \in Chunk, NEW class,
         class.access \in Accesses,
         NEW added, added = AddChunk(out, logical, bytes, class)
  PROVE  OutRight(added) /\ Adds(out, added, bytes, logical)
<1> DEFINE pending == out.pending
           I == {r \in 1 .. Len(pending) : pending[r].chunk = bytes /\ pending[r].access = class.access}
           known == SelectLastInSeq(pending, LAMBDA p : p.chunk = bytes /\ p.access = class.access)
           ref == [pending[known] EXCEPT !.logical = logical]
           more == Append(pending, ref)
<1>1. /\ out.segments \in Seq(Segment) /\ pending \in Seq(Placed)
      /\ out.files \in Seq(FileRecord) /\ out.paths \in Seq(Paths) /\ out.pool \in Seq(PathByte)
      /\ out = [segments |-> out.segments, pending |-> pending, files |-> out.files,
                paths |-> out.paths, pool |-> out.pool]
      /\ \A s \in 1 .. Len(out.segments) : BlocksRight(out.segments[s].blocks)
      /\ \A r \in 1 .. Len(pending) : LeadsTo(out.segments, pending[r])
  BY DEF OutRight, OutType
<1>2. known = IF I # {} THEN Max(I) ELSE 0
  BY DEF SelectLastInSeq
<1>3. added = IF known # 0 /\ Accepts(class.compression, pending[known].codec)
              THEN [out EXCEPT !.pending = Append(@, ref)] ELSE AddBlock(out, logical, bytes, class)
  BY DEF AddChunk
<1>4. known # 0 => known \in I
  <2>1. Len(pending) \in Nat /\ I \in SUBSET (0 .. Len(pending))
    BY <1>1
  <2> HIDE DEF I, known, pending
  <2>2. I # {} => Max(I) \in I
    BY <2>1, MaxIs
  <2> QED
    BY <1>2, <2>2
<1>5. CASE known # 0 /\ added = [out EXCEPT !.pending = Append(@, ref)]
  <2>1. known \in 1 .. Len(pending) /\ pending[known].chunk = bytes
    BY <1>4, <1>5
  <2>2. pending[known] \in Placed /\ LeadsTo(out.segments, pending[known])
    BY <1>1, <2>1
  <2> HIDE DEF known, I
  <2> DEFINE old == pending[known]
  <2>3. /\ ref \in Placed /\ ref.logical = logical /\ ref.chunk = old.chunk
        /\ ref.segment = old.segment /\ ref.block = old.block /\ ref.physical = old.physical
        /\ ref.stored = old.stored /\ ref.codec = old.codec /\ ref.plain = old.plain
    <3>1. old \in Placed /\ ref = [old EXCEPT !.logical = logical]
      BY <2>2
    <3> HIDE DEF old, ref
    <3> QED
      BY <3>1 DEF Placed
  <2>4. added = [out EXCEPT !.pending = more]
    BY <1>5
  <2> HIDE DEF ref, old
  <2>5. LeadsTo(out.segments, ref) /\ ref.chunk = bytes
    BY <2>1, <2>2, <2>3 DEF LeadsTo, old
  <2>6. /\ more \in Seq(Placed) /\ Len(more) = Len(pending) + 1 /\ Len(pending) \in Nat
        /\ more[Len(pending) + 1] = ref /\ \A r \in 1 .. Len(pending) : more[r] = pending[r]
    BY <1>1, <2>3
  <2> HIDE DEF more
  <2>7. added = [segments |-> out.segments, pending |-> more, files |-> out.files,
                 paths |-> out.paths, pool |-> out.pool]
    BY <1>1, <2>4
  <2>8. added \in OutType
    BY <1>1, <2>6, <2>7 DEF OutType
  <2>9. ASSUME NEW r \in 1 .. Len(more)
        PROVE  LeadsTo(out.segments, more[r])
    <3>1. CASE r = Len(pending) + 1
      BY <2>5, <2>6, <3>1
    <3>2. CASE r \in 1 .. Len(pending)
      BY <1>1, <2>6, <3>2
    <3>3. r = Len(pending) + 1 \/ r \in 1 .. Len(pending)
      BY <2>6
    <3> QED
      BY <3>1, <3>2, <3>3
  <2>10. OutRight(added)
    BY <1>1, <2>7, <2>8, <2>9 DEF OutRight
  <2> QED
    BY <2>3, <2>5, <2>6, <2>7, <2>10 DEF Adds
<1>6. CASE added = AddBlock(out, logical, bytes, class)
  BY <1>6, AddBlockIs
<1> QED
  BY <1>3, <1>5, <1>6

(* The first chunks of a file have been added.                               *)
AddStep(chunks, class, before, c) ==
  AddChunk(before, SumOf([i \in 1 .. c - 1 |-> Len(chunks[i])]), chunks[c], class)
IsAdded(f, out, chunks, class, N) ==
  f = [c \in 0 .. N |-> IF c = 0 THEN out ELSE AddStep(chunks, class, f[c - 1], c)]

LEMMA AddedExists ==
  ASSUME NEW out, NEW chunks, NEW class, NEW N \in Nat
  PROVE  \E f : IsAdded(f, out, chunks, class, N)
<1> DEFINE S == {n \in Nat : \E f : IsAdded(f, out, chunks, class, n)}
<1>1. 0 \in S
  <2>1. IsAdded([n \in 0 .. 0 |-> out], out, chunks, class, 0)
    BY DEF IsAdded
  <2> QED
    BY <2>1
<1>2. ASSUME NEW n \in 0 .. N - 1, n \in S
      PROVE  n + 1 \in S
  <2>1. PICK f : IsAdded(f, out, chunks, class, n)
    BY <1>2
  <2> DEFINE g == [m \in 0 .. n + 1 |->
                     IF m = n + 1 THEN AddStep(chunks, class, f[n], n + 1) ELSE f[m]]
  <2>2. IsAdded(g, out, chunks, class, n + 1)
    BY <2>1 DEF IsAdded
  <2> QED
    BY <2>2
<1> HIDE DEF S
<1>3. N \in S
  BY <1>1, <1>2, UpTo
<1> QED
  BY <1>3 DEF S

(* References to the chunks of a file, each at its offset, follow those of    *)
(* the files before it.                                                      *)
Follows(out, added, chunks, ends, c) ==
  /\ added.files = out.files /\ added.paths = out.paths /\ added.pool = out.pool
  /\ Len(added.pending) = Len(out.pending) + c
  /\ \A r \in 1 .. Len(out.pending) : added.pending[r] = out.pending[r]
  /\ \A i \in 1 .. c : /\ added.pending[Len(out.pending) + i].chunk = chunks[i]
                       /\ added.pending[Len(out.pending) + i].logical = ends[i - 1]

LEMMA FollowsMore ==
  ASSUME NEW out, NEW chunks, NEW ends, NEW c \in Nat, NEW a, NEW b,
         Len(out.pending) \in Nat,
         Follows(out, a, chunks, ends, c), Adds(a, b, chunks[c + 1], ends[c])
  PROVE  Follows(out, b, chunks, ends, c + 1)
<1> DEFINE n == Len(out.pending)
<1>1. /\ a.files = out.files /\ a.paths = out.paths /\ a.pool = out.pool
      /\ Len(a.pending) = n + c
      /\ \A r \in 1 .. n : a.pending[r] = out.pending[r]
      /\ \A i \in 1 .. c : a.pending[n + i].chunk = chunks[i] /\ a.pending[n + i].logical = ends[i - 1]
  BY DEF Follows
<1>2. /\ b.files = a.files /\ b.paths = a.paths /\ b.pool = a.pool
      /\ Len(b.pending) = (n + c) + 1
      /\ \A r \in 1 .. n + c : b.pending[r] = a.pending[r]
      /\ b.pending[(n + c) + 1].chunk = chunks[c + 1] /\ b.pending[(n + c) + 1].logical = ends[c]
  BY <1>1 DEF Adds
<1> HIDE DEF n
<1>0. n \in Nat
  BY DEF n
<1>3. \A r \in 1 .. n : b.pending[r] = out.pending[r]
  BY <1>0, <1>1, <1>2
<1>4. ASSUME NEW i \in 1 .. c + 1
      PROVE  b.pending[n + i].chunk = chunks[i] /\ b.pending[n + i].logical = ends[i - 1]
  <2>1. CASE i = c + 1
    <3>1. n + i = (n + c) + 1 /\ i - 1 = c
      BY <1>0, <2>1
    <3> QED
      BY <1>2, <2>1, <3>1
  <2>2. CASE i \in 1 .. c
    <3>1. n + i \in 1 .. n + c
      BY <1>0, <2>2
    <3> QED
      BY <1>1, <1>2, <2>2, <3>1
  <2> QED
    BY <2>1, <2>2
<1>5. Len(b.pending) = n + (c + 1)
  BY <1>0, <1>2
<1> QED
  BY <1>1, <1>2, <1>3, <1>4, <1>5 DEF Follows, n

(* All the chunks of a file have been added.                                 *)
LEMMA ChunksAdded ==
  ASSUME NEW out, OutRight(out), NEW class, class.access \in Accesses,
         NEW chunks, NEW bytes, NEW ends, Tiling(chunks, bytes, ends),
         NEW f, IsAdded(f, out, chunks, class, Len(chunks))
  PROVE  OutRight(f[Len(chunks)]) /\ Follows(out, f[Len(chunks)], chunks, ends, Len(chunks))
<1> DEFINE S == {c \in 0 .. Len(chunks) : OutRight(f[c]) /\ Follows(out, f[c], chunks, ends, c)}
<1>0. /\ Len(chunks) \in Nat /\ Len(out.pending) \in Nat
      /\ \A c \in 1 .. Len(chunks) : chunks[c] \in Chunk /\ ends[c - 1] \in Nat
      /\ f = [c \in 0 .. Len(chunks) |-> IF c = 0 THEN out ELSE AddStep(chunks, class, f[c - 1], c)]
  <2>1. chunks \in Seq(Chunk) /\ \A c \in 1 .. Len(chunks) : ends[c - 1] \in Nat
    BY DEF Tiling
  <2>2. out.pending \in Seq(Placed)
    BY DEF OutRight, OutType
  <2> QED
    BY <2>1, <2>2 DEF IsAdded
<1>1. 0 \in S
  <2>1. f[0] = out
    BY <1>0
  <2>2. Follows(out, out, chunks, ends, 0)
    BY <1>0 DEF Follows
  <2> QED
    BY <1>0, <2>1, <2>2
<1>2. ASSUME NEW n \in 0 .. Len(chunks) - 1, n \in S
      PROVE  n + 1 \in S
  <2>0. /\ n \in Nat /\ n + 1 \in 0 .. Len(chunks) /\ n + 1 \in 1 .. Len(chunks) /\ n + 1 # 0
        /\ (n + 1) - 1 = n /\ n \in 0 .. Len(chunks)
    BY <1>0
  <2>1. OutRight(f[n]) /\ Follows(out, f[n], chunks, ends, n)
    BY <1>2
  <2> DEFINE a == f[n]
             b == f[n + 1]
             bytes1 == chunks[n + 1]
             start == SumOf([i \in 1 .. n |-> Len(chunks[i])])
  <2>2. b = AddChunk(a, start, bytes1, class)
    <3>1. b = AddStep(chunks, class, a, n + 1)
      BY <1>0, <2>0
    <3> HIDE DEF a, b
    <3> QED
      BY <2>0, <3>1 DEF AddStep
  <2>3. start = ends[n] /\ ends[n] \in Nat
    <3>1. start = ends[n]
      BY <2>0, StartIs
    <3>2. ends[n] \in Nat
      BY <1>0, <2>0
    <3> QED
      BY <3>1, <3>2
  <2>4. bytes1 \in Chunk
    BY <1>0, <2>0
  <2> HIDE DEF start, S
  <2>5. OutRight(a) /\ start \in Nat
    BY <2>1, <2>3
  <2> HIDE DEF a, b, bytes1
  <2>6. OutRight(b) /\ Adds(a, b, bytes1, start)
    BY <2>2, <2>4, <2>5, AddChunkIs
  <2>7. Follows(out, a, chunks, ends, n)
    BY <2>1 DEF a
  <2>8. Adds(a, b, chunks[n + 1], ends[n])
    BY <2>3, <2>6 DEF bytes1
  <2>9. Follows(out, b, chunks, ends, n + 1)
    BY <1>0, <2>0, <2>7, <2>8, FollowsMore
  <2> QED
    BY <2>0, <2>6, <2>9 DEF S, b
<1> HIDE DEF S
<1>3. Len(chunks) \in S
  BY <1>0, <1>1, <1>2, UpTo
<1> QED
  BY <1>3 DEF S

LEMMA PathBytesAre ==
  ASSUME NEW p \in Paths
  PROVE  /\ PathBytes(p) \in Seq(PathByte) /\ Len(PathBytes(p)) = PathLength[p]
         /\ PathLength[p] \in Nat \ {0}
         /\ \A i \in 1 .. PathLength[p] : PathBytes(p)[i] = <<p, i>>
<1> DEFINE k == PathLength[p]
           f == PathBytes(p)
<1>1. k \in Nat \ {0}
  BY CatalogAssumption DEF Paths
<1>2. f = [i \in 1 .. k |-> <<p, i>>]
  BY DEF PathBytes
<1> HIDE DEF k, f
<1>3. ASSUME NEW i \in 1 .. k
      PROVE  f[i] = <<p, i>> /\ f[i] \in PathByte
  <2>1. f[i] = <<p, i>> /\ i \in Nat
    BY <1>1, <1>2
  <2>2. <<p, i>> \in Paths \X Nat
    BY <2>1
  <2> QED
    BY <2>1, <2>2 DEF PathByte
<1>4. f = [i \in 1 .. k |-> f[i]]
  BY <1>2
<1>5. f \in Seq(PathByte) /\ Len(f) = k
  BY <1>1, <1>3, <1>4, IsSeq
<1> QED
  BY <1>1, <1>3, <1>5 DEF k, f

(* Where the chunks of a file end.                                           *)
EndsOf(file, ends) ==
  /\ Tiling(ChunksOf(file), file.bytes, ends)
  /\ Classify(file).layout = "Fixed" =>
       \A c \in 1 .. Len(ChunksOf(file)) :
         /\ ends[c - 1] = (c - 1) * Classify(file).fixed
         /\ ends[c] <= (c - 1) * Classify(file).fixed + Classify(file).fixed

(* The references from one on are to the chunks of a file.                   *)
ChunksFrom(pending, file, first) ==
  \E ends : /\ EndsOf(file, ends)
            /\ \A c \in 1 .. Len(ChunksOf(file)) :
                 /\ pending[first - 1 + c].chunk = ChunksOf(file)[c]
                 /\ pending[first - 1 + c].logical = ends[c - 1]

PathFrom(pool, file, at) == \A i \in 1 .. PathLength[file.path] : pool[at + i] = <<file.path, i>>

(* A file is recorded as it is.                                              *)
Recorded(out, file, record) ==
  /\ record.pathLen = PathLength[file.path] /\ record.pathAt \in Nat
  /\ record.pathAt + record.pathLen <= Len(out.pool) /\ PathFrom(out.pool, file, record.pathAt)
  /\ record.layout = Classify(file).layout /\ record.fixed = Classify(file).fixed
  /\ record.access = Classify(file).access
  /\ record.len = Len(file.bytes) /\ record.count = Len(ChunksOf(file))
  /\ record.first \in Nat \ {0} /\ record.first - 1 + record.count <= Len(out.pending)
  /\ ChunksFrom(out.pending, file, record.first)

(* What has been made stays.                                                 *)
Grows(out, more) ==
  /\ Len(out.pending) <= Len(more.pending) /\ Len(out.pool) <= Len(more.pool)
  /\ \A r \in 1 .. Len(out.pending) : more.pending[r] = out.pending[r]
  /\ \A i \in 1 .. Len(out.pool) : more.pool[i] = out.pool[i]

LEMMA StillRecorded ==
  ASSUME NEW out, OutRight(out), NEW more, OutRight(more), Grows(out, more),
         NEW file, SourceFile(file), NEW record, Recorded(out, file, record)
  PROVE  Recorded(more, file, record)
<1>0. /\ Len(out.pending) \in Nat /\ Len(more.pending) \in Nat
      /\ Len(out.pool) \in Nat /\ Len(more.pool) \in Nat
  <2>1. out.pending \in Seq(Placed) /\ more.pending \in Seq(Placed)
        /\ out.pool \in Seq(PathByte) /\ more.pool \in Seq(PathByte)
    BY DEF OutRight, OutType
  <2> QED
    BY <2>1
<1>1. /\ record.pathLen = PathLength[file.path] /\ record.pathAt \in Nat
      /\ PathLength[file.path] \in Nat
      /\ record.first \in Nat \ {0} /\ record.count = Len(ChunksOf(file))
      /\ record.pathAt + record.pathLen <= Len(out.pool)
      /\ record.first - 1 + record.count <= Len(out.pending)
  BY CatalogAssumption DEF Recorded, SourceFile
<1>2. PathFrom(more.pool, file, record.pathAt)
  <2> DEFINE at == record.pathAt
  <2>1. at \in Nat /\ at + PathLength[file.path] <= Len(out.pool)
    BY <1>1
  <2>2. PathFrom(out.pool, file, at)
    BY DEF Recorded
  <2> HIDE DEF at
  <2>3. ASSUME NEW i \in 1 .. PathLength[file.path]
        PROVE  more.pool[at + i] = <<file.path, i>>
    <3>1. at + i \in 1 .. Len(out.pool)
      BY SMTT(20), <1>0, <1>1, <2>1
    <3>2. more.pool[at + i] = out.pool[at + i]
      BY <3>1 DEF Grows
    <3> QED
      BY <2>2, <3>2 DEF PathFrom
  <2>4. PathFrom(more.pool, file, at)
    BY <2>3 DEF PathFrom
  <2> QED
    BY <2>4 DEF at
<1>3. ChunksFrom(more.pending, file, record.first)
  <2> DEFINE first == record.first
             k == Len(ChunksOf(file))
  <2>1. PICK ends : /\ EndsOf(file, ends)
                    /\ \A c \in 1 .. k :
                         /\ out.pending[first - 1 + c].chunk = ChunksOf(file)[c]
                         /\ out.pending[first - 1 + c].logical = ends[c - 1]
    BY DEF Recorded, ChunksFrom
  <2>2. first \in Nat \ {0} /\ first - 1 + k <= Len(out.pending) /\ k \in Nat
    <3>1. k \in Nat
      BY <2>1 DEF EndsOf, Tiling
    <3> QED
      BY <1>1, <3>1
  <2> HIDE DEF first, k
  <2>3. ASSUME NEW c \in 1 .. k
        PROVE  more.pending[first - 1 + c] = out.pending[first - 1 + c]
    <3>1. first - 1 + c \in 1 .. Len(out.pending)
      BY <1>0, <2>2
    <3> QED
      BY <3>1 DEF Grows
  <2>4. \A c \in 1 .. k : /\ more.pending[first - 1 + c].chunk = ChunksOf(file)[c]
                          /\ more.pending[first - 1 + c].logical = ends[c - 1]
    BY <2>1, <2>3
  <2> QED
    BY <2>1, <2>4 DEF ChunksFrom, first, k
<1>4. /\ record.pathAt + record.pathLen <= Len(more.pool)
      /\ record.first - 1 + record.count <= Len(more.pending)
  <2>1. record.count \in Nat
    <3>1. \E ends : EndsOf(file, ends)
      BY DEF Recorded, ChunksFrom
    <3> QED
      BY <1>1, <3>1 DEF EndsOf, Tiling
  <2>2. Len(out.pending) <= Len(more.pending) /\ Len(out.pool) <= Len(more.pool)
    BY DEF Grows
  <2>3. record.pathAt + record.pathLen <= Len(more.pool)
    <3>1. record.pathLen \in Nat
      BY <1>1
    <3> QED
      BY <1>0, <1>1, <2>2, <3>1
  <2> QED
    BY <1>0, <1>1, <2>1, <2>2, <2>3
<1> QED
  BY <1>1, <1>2, <1>3, <1>4 DEF Recorded

(* One sequence after another.                                               *)
LEMMA Joined ==
  ASSUME NEW S, NEW a \in Seq(S), NEW b \in Seq(S), NEW c, c = a \o b
  PROVE  /\ c \in Seq(S) /\ Len(c) = Len(a) + Len(b)
         /\ \A i \in 1 .. Len(a) : c[i] = a[i]
         /\ \A i \in 1 .. Len(b) : c[Len(a) + i] = b[i]
<1>1. c \in Seq(S) /\ Len(c) = Len(a) + Len(b) /\ Len(a) \in Nat /\ Len(b) \in Nat
  OBVIOUS
<1>2. \A i \in 1 .. Len(a) + Len(b) : c[i] = IF i <= Len(a) THEN a[i] ELSE b[i - Len(a)]
  BY ConcatProperties
<1>3. \A i \in 1 .. Len(a) : c[i] = a[i]
  BY <1>1, <1>2
<1>4. ASSUME NEW i \in 1 .. Len(b)
      PROVE  c[Len(a) + i] = b[i]
  <2>1. Len(a) + i \in 1 .. Len(a) + Len(b) /\ ~(Len(a) + i <= Len(a)) /\ (Len(a) + i) - Len(a) = i
    BY <1>1
  <2> QED
    BY <1>2, <2>1
<1> QED
  BY <1>1, <1>3, <1>4

LEMMA AddFileIs ==
  ASSUME NEW out, OutRight(out), NEW file, SourceFile(file), NEW next, next = AddFile(out, file)
  PROVE  /\ OutRight(next) /\ Grows(out, next)
         /\ next.paths = Append(out.paths, file.path) /\ Len(next.files) = Len(out.files) + 1
         /\ \A f \in 1 .. Len(out.files) : next.files[f] = out.files[f]
         /\ Recorded(next, file, next.files[Len(out.files) + 1])
<1> DEFINE class == Classify(file)
           chunks == ChunksOf(file)
           f == CHOOSE g : IsAdded(g, out, chunks, class, Len(chunks))
           all == f[Len(chunks)]
           path == PathBytes(file.path)
           record == [pathAt |-> Len(out.pool), pathLen |-> PathLength[file.path],
                      layout |-> class.layout, access |-> class.access, len |-> Len(file.bytes),
                      first |-> Len(out.pending) + 1, count |-> Len(chunks), fixed |-> class.fixed]
<1>1. next = [all EXCEPT !.paths = Append(@, file.path), !.pool = @ \o path,
                         !.files = Append(@, record)]
  BY DEF AddFile, IsAdded, AddStep
<1>2. PICK ends : EndsOf(file, ends)
  BY FileTiles DEF EndsOf, SourceFile
<1>3. Tiling(chunks, file.bytes, ends) /\ Len(chunks) \in Nat
  BY <1>2 DEF EndsOf, Tiling
<1>4. /\ class.layout \in Layouts /\ class.fixed \in Nat /\ class.access \in Accesses
      /\ file.bytes \in Seq(Nat) /\ Len(file.bytes) \in Nat
      /\ file.path \in Paths /\ PathLength[file.path] \in Nat
  BY Classified, PathBytesAre DEF SourceFile, Layouts, Accesses
<1>5. IsAdded(f, out, chunks, class, Len(chunks))
  BY <1>3, AddedExists
<1> HIDE DEF f, class, chunks
<1>6. OutRight(all) /\ Follows(out, all, chunks, ends, Len(chunks))
  BY <1>3, <1>4, <1>5, ChunksAdded
<1> HIDE DEF all
<1>7. /\ out.pending \in Seq(Placed) /\ out.pool \in Seq(PathByte) /\ out.files \in Seq(FileRecord)
      /\ out.paths \in Seq(Paths)
      /\ Len(out.pending) \in Nat /\ Len(out.pool) \in Nat /\ Len(out.files) \in Nat
  <2>1. /\ out.pending \in Seq(Placed) /\ out.pool \in Seq(PathByte)
        /\ out.files \in Seq(FileRecord) /\ out.paths \in Seq(Paths)
    BY DEF OutRight, OutType
  <2> QED
    BY <2>1
<1>8. /\ all.segments \in Seq(Segment) /\ all.pending \in Seq(Placed)
      /\ all.files = out.files /\ all.paths = out.paths /\ all.pool = out.pool
      /\ all = [segments |-> all.segments, pending |-> all.pending, files |-> all.files,
                paths |-> all.paths, pool |-> all.pool]
  BY <1>6 DEF OutRight, OutType, Follows
<1>9. record \in FileRecord
  BY <1>3, <1>4, <1>7 DEF FileRecord
<1>10. /\ record.pathAt = Len(out.pool) /\ record.pathLen = PathLength[file.path]
       /\ record.layout = class.layout /\ record.access = class.access
       /\ record.len = Len(file.bytes) /\ record.first = Len(out.pending) + 1
       /\ record.count = Len(chunks) /\ record.fixed = class.fixed
  OBVIOUS
<1>11. /\ path \in Seq(PathByte) /\ Len(path) = PathLength[file.path]
       /\ \A i \in 1 .. PathLength[file.path] : path[i] = <<file.path, i>>
  BY <1>4, PathBytesAre
<1> HIDE DEF record, path
<1>12. /\ next.segments = all.segments /\ next.pending = all.pending
       /\ next.files = Append(out.files, record) /\ next.paths = Append(out.paths, file.path)
       /\ next.pool = out.pool \o path
       /\ next = [segments |-> next.segments, pending |-> next.pending, files |-> next.files,
                  paths |-> next.paths, pool |-> next.pool]
  BY <1>1, <1>8
<1>13. /\ next.pool \in Seq(PathByte) /\ Len(next.pool) = Len(out.pool) + PathLength[file.path]
       /\ \A i \in 1 .. Len(out.pool) : next.pool[i] = out.pool[i]
       /\ \A i \in 1 .. PathLength[file.path] : next.pool[Len(out.pool) + i] = <<file.path, i>>
  <2>1. /\ next.pool \in Seq(PathByte) /\ Len(next.pool) = Len(out.pool) + Len(path)
        /\ \A i \in 1 .. Len(out.pool) : next.pool[i] = out.pool[i]
        /\ \A i \in 1 .. Len(path) : next.pool[Len(out.pool) + i] = path[i]
    <3> DEFINE a == out.pool
    <3>1. a \in Seq(PathByte) /\ path \in Seq(PathByte) /\ next.pool = a \o path
      BY <1>7, <1>11, <1>12
    <3> HIDE DEF a
    <3>2. /\ next.pool \in Seq(PathByte) /\ Len(next.pool) = Len(a) + Len(path)
          /\ \A i \in 1 .. Len(a) : next.pool[i] = a[i]
          /\ \A i \in 1 .. Len(path) : next.pool[Len(a) + i] = path[i]
      BY <3>1, Joined
    <3> QED
      BY <3>2 DEF a
  <2> QED
    BY <1>11, <2>1
<1>14. /\ next.files \in Seq(FileRecord) /\ Len(next.files) = Len(out.files) + 1
       /\ \A g \in 1 .. Len(out.files) : next.files[g] = out.files[g]
       /\ next.files[Len(out.files) + 1] = record
  BY <1>7, <1>9, <1>12
<1>15. OutRight(next)
  <2>1. next.paths \in Seq(Paths)
    BY <1>4, <1>7, <1>12
  <2>2. next \in OutType
    BY <1>8, <1>12, <1>13, <1>14, <2>1 DEF OutType
  <2> QED
    BY <1>6, <1>12, <2>2 DEF OutRight
<1>16. Grows(out, next)
  BY SMTT(20), <1>3, <1>4, <1>6, <1>7, <1>12, <1>13 DEF Grows, Follows
<1>17. Recorded(next, file, record)
  <2>1. PathFrom(next.pool, file, record.pathAt)
    BY <1>10, <1>13 DEF PathFrom
  <2>2. /\ Len(next.pending) = Len(out.pending) + Len(chunks) /\ record.first \in Nat \ {0}
        /\ record.first - 1 = Len(out.pending)
    <3>1. Len(all.pending) = Len(out.pending) + Len(chunks) /\ Len(out.pending) \in Nat
      BY <1>6, <1>7 DEF Follows
    <3> QED
      BY <1>10, <1>12, <3>1
  <2>3. \A c \in 1 .. Len(chunks) :
          /\ next.pending[record.first - 1 + c].chunk = chunks[c]
          /\ next.pending[record.first - 1 + c].logical = ends[c - 1]
    BY <1>6, <1>12, <2>2 DEF Follows
  <2>4. ChunksFrom(next.pending, file, record.first)
    BY <1>2, <2>3 DEF ChunksFrom, chunks
  <2> QED
    BY <1>3, <1>4, <1>7, <1>10, <1>13, <2>1, <2>2, <2>4 DEF Recorded, class, chunks
<1> QED
  BY <1>12, <1>14, <1>15, <1>16, <1>17

-------------------------------------------------------------------------------
(* A full build.                                                            *)

IsBuilt(f, t, N) == f = [n \in 0 .. N |-> IF n = 0 THEN NothingBuilt ELSE AddFile(f[n - 1], t[n])]

LEMMA BuiltExists ==
  ASSUME NEW t, NEW N \in Nat
  PROVE  \E f : IsBuilt(f, t, N)
<1> DEFINE S == {n \in Nat : \E f : IsBuilt(f, t, n)}
<1>1. 0 \in S
  <2>1. IsBuilt([n \in 0 .. 0 |-> NothingBuilt], t, 0)
    BY DEF IsBuilt
  <2> QED
    BY <2>1
<1>2. ASSUME NEW n \in 0 .. N - 1, n \in S
      PROVE  n + 1 \in S
  <2>1. PICK f : IsBuilt(f, t, n)
    BY <1>2
  <2> DEFINE g == [m \in 0 .. n + 1 |-> IF m = n + 1 THEN AddFile(f[n], t[n + 1]) ELSE f[m]]
  <2>2. IsBuilt(g, t, n + 1)
    BY <2>1 DEF IsBuilt
  <2> QED
    BY <2>2
<1> HIDE DEF S
<1>3. N \in S
  BY <1>1, <1>2, UpTo
<1> QED
  BY <1>3 DEF S

(* The first files of a tree are recorded, in their order.                   *)
FirstRecorded(out, t, n) ==
  /\ OutRight(out) /\ Len(out.files) = n /\ Len(out.paths) = n
  /\ \A f \in 1 .. n : out.paths[f] = t[f].path /\ Recorded(out, t[f], out.files[f])

LEMMA BuiltIs ==
  ASSUME NEW t, SourceTree(t)
  PROVE  FirstRecorded(Built(t), t, Len(t))
<1> DEFINE f == CHOOSE g : IsBuilt(g, t, Len(t))
           S == {n \in 0 .. Len(t) : FirstRecorded(f[n], t, n)}
<1>0. Len(t) \in Nat
  BY DEF SourceTree
<1>1. IsBuilt(f, t, Len(t))
  BY <1>0, BuiltExists
<1>2. Built(t) = f[Len(t)]
  BY DEF Built, IsBuilt
<1> HIDE DEF f
<1>3. f[0] = NothingBuilt /\ \A n \in 1 .. Len(t) : f[n] = AddFile(f[n - 1], t[n])
  BY <1>0, <1>1 DEF IsBuilt
<1>4. 0 \in S
  <2>1. OutRight(NothingBuilt)
    BY DEF OutRight, OutType, NothingBuilt
  <2>2. FirstRecorded(NothingBuilt, t, 0)
    BY <2>1 DEF FirstRecorded, NothingBuilt
  <2> QED
    BY <1>0, <1>3, <2>2
<1>5. ASSUME NEW n \in 0 .. Len(t) - 1, n \in S
      PROVE  n + 1 \in S
  <2> DEFINE out == f[n]
             next == f[n + 1]
             file == t[n + 1]
  <2>1. n \in Nat /\ n + 1 \in 1 .. Len(t) /\ (n + 1) - 1 = n /\ n + 1 \in 0 .. Len(t)
    BY <1>0
  <2>2. next = AddFile(out, file) /\ SourceFile(file) /\ FirstRecorded(out, t, n)
    BY <1>3, <1>5, <2>1 DEF SourceTree
  <2>3. \A g \in 1 .. n : SourceFile(t[g])
    BY <1>0, <2>1 DEF SourceTree
  <2> HIDE DEF out, next
  <2>4. OutRight(out) /\ Len(out.files) = n /\ Len(out.paths) = n
    BY <2>2 DEF FirstRecorded
  <2>5. /\ OutRight(next) /\ Grows(out, next)
        /\ next.paths = Append(out.paths, file.path) /\ Len(next.files) = n + 1
        /\ \A g \in 1 .. n : next.files[g] = out.files[g]
        /\ Recorded(next, file, next.files[n + 1])
    <3> HIDE DEF file
    <3>1. /\ OutRight(next) /\ Grows(out, next)
          /\ next.paths = Append(out.paths, file.path) /\ Len(next.files) = Len(out.files) + 1
          /\ \A g \in 1 .. Len(out.files) : next.files[g] = out.files[g]
          /\ Recorded(next, file, next.files[Len(out.files) + 1])
      <4>1. OutRight(out) /\ SourceFile(file) /\ next = AddFile(out, file)
        BY <2>2, <2>4, Zenon
      <4> QED
        BY <4>1, AddFileIs
    <3> QED
      BY <2>4, <3>1
  <2>6. /\ Len(next.paths) = n + 1 /\ next.paths[n + 1] = file.path
        /\ \A g \in 1 .. n : next.paths[g] = out.paths[g]
    <3>1. out.paths \in Seq(Paths)
      BY <2>4 DEF OutRight, OutType
    <3>2. file.path \in Paths
      BY <2>2 DEF SourceFile
    <3> HIDE DEF file
    <3> QED
      BY <2>1, <2>4, <2>5, <3>1, <3>2
  <2>7. ASSUME NEW g \in 1 .. n + 1
        PROVE  next.paths[g] = t[g].path /\ Recorded(next, t[g], next.files[g])
    <3>1. CASE g = n + 1
      BY <2>5, <2>6, <3>1
    <3>2. CASE g \in 1 .. n
      <4>1. out.paths[g] = t[g].path /\ Recorded(out, t[g], out.files[g])
        BY <2>2, <3>2 DEF FirstRecorded
      <4>2. Recorded(next, t[g], out.files[g])
        BY <2>3, <2>4, <2>5, <3>2, <4>1, StillRecorded
      <4> QED
        BY <2>5, <2>6, <3>2, <4>1, <4>2
    <3> QED
      BY <2>1, <3>1, <3>2
  <2>8. FirstRecorded(next, t, n + 1)
    BY <2>5, <2>6, <2>7 DEF FirstRecorded
  <2> QED
    BY <2>1, <2>8 DEF next
<1> HIDE DEF S
<1>6. Len(t) \in S
  BY <1>0, <1>4, <1>5, UpTo
<1> QED
  BY <1>2, <1>6 DEF S

-------------------------------------------------------------------------------
(* Pages.                                                                   *)

List(q) == Len(q) \in Nat /\ q = [i \in 1 .. Len(q) |-> q[i]]

LEMMA SeqIsList ==
  ASSUME NEW S, NEW q \in Seq(S)
  PROVE  List(q)
  BY DEF List

(* One more element than before.                                             *)
OneMore(q, r, e) ==
  /\ List(r) /\ Len(r) = Len(q) + 1 /\ r[Len(q) + 1] = e
  /\ \A i \in 1 .. Len(q) : r[i] = q[i]

LEMMA Appended ==
  ASSUME NEW q, List(q), NEW e
  PROVE  OneMore(q, Append(q, e), e)
<1> DEFINE n == Len(q)
           S == {q[i] : i \in 1 .. n} \cup {e}
           r == Append(q, e)
<1>1. n \in Nat /\ q = [i \in 1 .. n |-> q[i]]
  BY DEF List
<1> HIDE DEF n
<1>2. \A i \in 1 .. n : q[i] \in S
  OBVIOUS
<1>3. e \in S
  OBVIOUS
<1> HIDE DEF S
<1>4. q \in Seq(S) /\ Len(q) = n
  BY <1>1, <1>2, IsSeq
<1>5. r \in Seq(S) /\ Len(r) = n + 1 /\ r[n + 1] = e /\ \A i \in 1 .. n : r[i] = q[i]
  <2>1. r \in Seq(S)
    BY <1>3, <1>4
  <2>2. Len(r) = n + 1
    BY <1>3, <1>4
  <2>3. r[n + 1] = e
    BY <1>3, <1>4
  <2>4. \A i \in 1 .. n : r[i] = q[i]
    BY <1>3, <1>4
  <2> QED
    BY <2>1, <2>2, <2>3, <2>4
<1>6. List(r)
  BY <1>5, SeqIsList
<1> QED
  BY <1>5, <1>6 DEF OneMore, n

(* What is stored before a page.                                             *)
StoredBefore(q, i) == SumOf([p \in 1 .. i - 1 |-> q[p].stored])

PageRight(q, i) ==
  /\ q[i].nonce = i /\ q[i].plain \in Nat \ {0} /\ q[i].codec \in Codecs
  /\ q[i].stored \in Nat /\ q[i].stored >= TagSize /\ StoredRight(q[i].codec, q[i].stored, q[i].plain)
  /\ q[i].offset = StoredBefore(q, i)
PagesRight(q) == List(q) /\ \A i \in 1 .. Len(q) : PageRight(q, i)

LEMMA StoredBeforeNext ==
  ASSUME NEW q, NEW r, NEW n \in Nat, \A i \in 1 .. n : q[i].stored \in Nat /\ r[i] = q[i]
  PROVE  /\ StoredBefore(r, 1) = 0
         /\ n > 0 => StoredBefore(r, n + 1) = StoredBefore(q, n) + q[n].stored
         /\ \A i \in 1 .. n : StoredBefore(r, i) = StoredBefore(q, i)
<1> DEFINE lens(f, m) == [p \in 1 .. m |-> f[p].stored]
<1>1. ASSUME NEW m \in 0 .. n
      PROVE  /\ Len(lens(q, m)) = m /\ \A p \in 1 .. m : lens(q, m)[p] = q[p].stored
             /\ lens(r, m) = lens(q, m)
  <2>1. /\ m \in Nat /\ \A p \in 1 .. m : lens(q, m)[p] \in Nat
        /\ lens(q, m) = [p \in 1 .. m |-> lens(q, m)[p]]
    OBVIOUS
  <2>2. Len(lens(q, m)) = m
    BY <2>1, IsSeq
  <2> QED
    BY <2>2
<1>2. /\ StoredBefore(r, 1) = SumOf(lens(r, 0)) /\ StoredBefore(r, n + 1) = SumOf(lens(r, n))
      /\ \A i \in 1 .. n : StoredBefore(r, i) = SumOf(lens(r, i - 1))
                           /\ StoredBefore(q, i) = SumOf(lens(q, i - 1))
  BY DEF StoredBefore
<1> HIDE DEF lens
<1>3. StoredBefore(r, 1) = 0
  <2>1. Len(lens(r, 0)) = 0
    BY <1>1
  <2> QED
    BY <1>2, <2>1, SumOfNone
<1>4. ASSUME n > 0
      PROVE  StoredBefore(r, n + 1) = StoredBefore(q, n) + q[n].stored
  <2>1. n - 1 \in 0 .. n /\ n \in 0 .. n /\ n \in 1 .. n
    BY <1>4
  <2> DEFINE s == lens(q, n - 1)
             t == lens(q, n)
  <2>2. Len(s) = n - 1 /\ Len(t) = n /\ t[n] = q[n].stored /\ lens(r, n) = t
        /\ \A p \in 1 .. n - 1 : s[p] = q[p].stored /\ t[p] = q[p].stored
    BY <1>1, <2>1
  <2>3. StoredBefore(r, n + 1) = SumOf(t) /\ StoredBefore(q, n) = SumOf(s)
    BY <1>2, <2>1, <2>2
  <2> HIDE DEF s, t
  <2>4. Len(s) \in Nat /\ Len(t) = Len(s) + 1 /\ \A p \in 1 .. Len(s) : t[p] = s[p]
    BY <2>1, <2>2
  <2>5. SumOf(t) = SumOf(s) + t[Len(t)]
    BY <2>4, SumOfMore
  <2> QED
    BY <2>2, <2>3, <2>5
<1>5. \A i \in 1 .. n : StoredBefore(r, i) = StoredBefore(q, i)
  BY <1>1, <1>2
<1> QED
  BY <1>3, <1>4, <1>5

LEMMA EncryptPageIs ==
  ASSUME NEW q, PagesRight(q), NEW page, page.plain \in Nat \ {0},
         NEW r, r = EncryptPage(q, page)
  PROVE  /\ PagesRight(r) /\ Len(r) = Len(q) + 1 /\ \A i \in 1 .. Len(q) : r[i] = q[i]
         /\ r[Len(q) + 1].kind = page.kind /\ r[Len(q) + 1].first = page.first
         /\ r[Len(q) + 1].records = page.records /\ r[Len(q) + 1].plain = page.plain
<1> DEFINE n == Len(q)
           encoded == CompressBytes(page.plain)
           offset == IF q = <<>> THEN 0 ELSE Last(q).offset + Last(q).stored
           new == [kind |-> page.kind, first |-> page.first, records |-> page.records,
                   plain |-> page.plain, nonce |-> n + 1, codec |-> encoded.codec,
                   stored |-> encoded.stored, offset |-> offset]
<1>1. r = Append(q, new)
  BY DEF EncryptPage
<1>2. /\ encoded.codec \in Codecs /\ encoded.stored \in Nat /\ encoded.stored >= TagSize
      /\ StoredRight(encoded.codec, encoded.stored, page.plain)
  <2>1. encoded = CompressBlock(page.plain, "Auto")
    BY DEF CompressBlock
  <2> HIDE DEF encoded
  <2> QED
    BY <2>1, EncodedIs
<1> HIDE DEF encoded
<1>3. List(q) /\ n \in Nat /\ \A i \in 1 .. n : PageRight(q, i)
  BY DEF PagesRight, List
<1>4. q = <<>> <=> n = 0
  <2>1. q = [i \in 1 .. n |-> q[i]]
    BY DEF PagesRight, List
  <2> QED
    BY <1>3, <2>1
<1>5. n > 0 => Last(q) = q[n]
  BY DEF Last
<1> HIDE DEF offset
<1>6. /\ new.kind = page.kind /\ new.first = page.first /\ new.records = page.records
      /\ new.plain = page.plain /\ new.nonce = n + 1 /\ new.codec = encoded.codec
      /\ new.stored = encoded.stored /\ new.offset = offset
  OBVIOUS
<1> HIDE DEF new
<1>7. List(r) /\ Len(r) = n + 1 /\ r[n + 1] = new /\ \A i \in 1 .. n : r[i] = q[i]
  <2>1. OneMore(q, Append(q, new), new)
    BY <1>3, Appended
  <2> QED
    BY <1>1, <2>1 DEF OneMore
<1> HIDE DEF n
<1>8. \A i \in 1 .. n : q[i].stored \in Nat /\ r[i] = q[i]
  BY <1>3, <1>7 DEF PageRight
<1>9. /\ StoredBefore(r, 1) = 0
      /\ n > 0 => StoredBefore(r, n + 1) = StoredBefore(q, n) + q[n].stored
      /\ \A i \in 1 .. n : StoredBefore(r, i) = StoredBefore(q, i)
  <2>1. n \in Nat
    BY <1>3
  <2> QED
    BY ZenonT(30), <1>8, <2>1, StoredBeforeNext
<1>10. offset = StoredBefore(r, n + 1)
  <2>1. CASE n = 0
    BY <1>4, <1>9, <2>1 DEF offset
  <2>2. CASE n > 0
    <3>1. q[n].offset = StoredBefore(q, n)
      BY <1>3, <2>2 DEF PageRight
    <3> QED
      BY <1>3, <1>4, <1>5, <1>9, <2>2, <3>1 DEF offset
  <2> QED
    BY <1>3, <2>1, <2>2
<1>11. ASSUME NEW i \in 1 .. n + 1
       PROVE  PageRight(r, i)
  <2>1. CASE i = n + 1
    BY <1>2, <1>6, <1>7, <1>10, <2>1 DEF PageRight
  <2>2. CASE i \in 1 .. n
    <3>1. PageRight(q, i) /\ r[i] = q[i]
      BY <1>3, <1>7, <2>2
    <3> QED
      BY <1>9, <2>2, <3>1 DEF PageRight
  <2> QED
    BY <1>3, <2>1, <2>2
<1>12. PagesRight(r)
  BY <1>7, <1>11 DEF PagesRight
<1> QED
  BY <1>6, <1>7, <1>12 DEF n

Kinds == {"BlockMap", "Reuse"}

(* A page holds one piece of all its records.                                *)
PageHolds(page, kind, p, all, capacity) ==
  /\ page.kind = kind /\ page.first = Before(capacity, p) + 1
  /\ page.records = Pieces(all, capacity)[p]
  /\ page.plain = HeaderSize.Page + Len(Pieces(all, capacity)[p]) * RecordSize[kind]

MadeStep(kind, all, capacity, before, p) ==
  EncryptPage(before, EncodePage(kind, (p - 1) * capacity + 1, Pieces(all, capacity)[p]))
IsMade(f, q, kind, all, capacity, N) ==
  f = [p \in 0 .. N |-> IF p = 0 THEN q ELSE MadeStep(kind, all, capacity, f[p - 1], p)]

LEMMA MadeExists ==
  ASSUME NEW q, NEW kind, NEW all, NEW capacity, NEW N \in Nat
  PROVE  \E f : IsMade(f, q, kind, all, capacity, N)
<1> DEFINE S == {n \in Nat : \E f : IsMade(f, q, kind, all, capacity, n)}
<1>1. 0 \in S
  <2>1. IsMade([n \in 0 .. 0 |-> q], q, kind, all, capacity, 0)
    BY DEF IsMade
  <2> QED
    BY <2>1
<1>2. ASSUME NEW n \in 0 .. N - 1, n \in S
      PROVE  n + 1 \in S
  <2>1. PICK f : IsMade(f, q, kind, all, capacity, n)
    BY <1>2
  <2> DEFINE g == [m \in 0 .. n + 1 |->
                     IF m = n + 1 THEN MadeStep(kind, all, capacity, f[n], n + 1) ELSE f[m]]
  <2>2. IsMade(g, q, kind, all, capacity, n + 1)
    BY <2>1 DEF IsMade
  <2> QED
    BY <2>2
<1> HIDE DEF S
<1>3. N \in S
  BY <1>1, <1>2, UpTo
<1> QED
  BY <1>3 DEF S

LEMMA MadeStepIs ==
  ASSUME NEW S, NEW all \in Seq(S), NEW kind \in Kinds, NEW capacity \in Nat \ {0},
         NEW p \in 1 .. DivCeil(Len(all), capacity),
         NEW q, PagesRight(q), NEW r, r = MadeStep(kind, all, capacity, q, p)
  PROVE  /\ PagesRight(r) /\ Len(r) = Len(q) + 1 /\ \A i \in 1 .. Len(q) : r[i] = q[i]
         /\ PageHolds(r[Len(q) + 1], kind, p, all, capacity)
<1> DEFINE records == Pieces(all, capacity)[p]
           page == EncodePage(kind, (p - 1) * capacity + 1, records)
<1>1. Len(records) \in Nat
  <2>1. records \in Seq(S)
    BY PieceIs
  <2> QED
    BY <2>1
<1>2. r = EncryptPage(q, page)
  BY DEF MadeStep
<1> HIDE DEF records
<1>3. /\ page.kind = kind /\ page.first = Before(capacity, p) + 1 /\ page.records = records
      /\ page.plain = HeaderSize.Page + Len(records) * RecordSize[kind]
  BY DEF EncodePage, Before
<1>4. page.plain \in Nat \ {0}
  <2> HIDE DEF page
  <2>1. HeaderSize.Page = 16 /\ (RecordSize[kind] = 48 \/ RecordSize[kind] = 32)
    BY DEF HeaderSize, RecordSize, Kinds
  <2> DEFINE n == Len(records)
             w == RecordSize[kind]
  <2>2. page.plain = 16 + n * w /\ n \in Nat /\ (w = 48 \/ w = 32)
    BY <1>1, <1>3, <2>1
  <2> HIDE DEF n, w
  <2> QED
    BY <2>2
<1> HIDE DEF page
<1>5. /\ PagesRight(r) /\ Len(r) = Len(q) + 1 /\ \A i \in 1 .. Len(q) : r[i] = q[i]
      /\ r[Len(q) + 1].kind = page.kind /\ r[Len(q) + 1].first = page.first
      /\ r[Len(q) + 1].records = page.records /\ r[Len(q) + 1].plain = page.plain
  BY <1>2, <1>4, EncryptPageIs
<1> QED
  BY <1>3, <1>5 DEF PageHolds, records

(* The first pages of a kind have been added.                                *)
Made(q, r, kind, all, capacity, p) ==
  /\ PagesRight(r) /\ Len(r) = Len(q) + p /\ \A i \in 1 .. Len(q) : r[i] = q[i]
  /\ \A i \in 1 .. p : PageHolds(r[Len(q) + i], kind, i, all, capacity)

LEMMA MadeMore ==
  ASSUME NEW q, NEW kind, NEW all, NEW capacity, NEW p \in Nat, NEW a, NEW b, Len(q) \in Nat,
         Made(q, a, kind, all, capacity, p),
         PagesRight(b), Len(b) = Len(a) + 1, \A i \in 1 .. Len(a) : b[i] = a[i],
         PageHolds(b[Len(a) + 1], kind, p + 1, all, capacity)
  PROVE  Made(q, b, kind, all, capacity, p + 1)
<1> DEFINE n == Len(q)
<1>1. /\ Len(a) = n + p /\ \A i \in 1 .. n : a[i] = q[i]
      /\ \A i \in 1 .. p : PageHolds(a[n + i], kind, i, all, capacity)
  BY DEF Made
<1>2. /\ Len(b) = (n + p) + 1 /\ \A i \in 1 .. n + p : b[i] = a[i]
      /\ PageHolds(b[(n + p) + 1], kind, p + 1, all, capacity)
  BY <1>1
<1>0. n \in Nat
  OBVIOUS
<1> HIDE DEF n
<1>3. \A i \in 1 .. n : b[i] = q[i]
  BY <1>0, <1>1, <1>2
<1>4. ASSUME NEW i \in 1 .. p + 1
      PROVE  PageHolds(b[n + i], kind, i, all, capacity)
  <2>1. CASE i = p + 1
    <3>1. n + i = (n + p) + 1
      BY <1>0, <2>1
    <3> QED
      BY <1>2, <2>1, <3>1
  <2>2. CASE i \in 1 .. p
    <3>1. n + i \in 1 .. n + p
      BY <1>0, <2>2
    <3>2. b[n + i] = a[n + i]
      BY <1>2, <3>1
    <3> QED
      BY <1>1, <2>2, <3>2
  <2> QED
    BY <2>1, <2>2
<1>5. Len(b) = n + (p + 1)
  BY <1>0, <1>2
<1> QED
  BY <1>3, <1>4, <1>5 DEF Made, n

LEMMA AddPagesIs ==
  ASSUME NEW S, NEW all \in Seq(S), NEW kind \in Kinds, NEW capacity \in Nat \ {0},
         NEW q, PagesRight(q)
  PROVE  Made(q, AddPages(q, kind, all, capacity), kind, all, capacity, DivCeil(Len(all), capacity))
<1> DEFINE k == DivCeil(Len(all), capacity)
           f == CHOOSE g : IsMade(g, q, kind, all, capacity, Len(Pieces(all, capacity)))
           T == {p \in 0 .. k : Made(q, f[p], kind, all, capacity, p)}
<1>0. k \in Nat /\ Len(Pieces(all, capacity)) = k /\ Len(q) \in Nat
  BY PiecesAre DEF PagesRight, List
<1>1. IsMade(f, q, kind, all, capacity, k)
  BY <1>0, MadeExists
<1>2. AddPages(q, kind, all, capacity) = f[Len(Pieces(all, capacity))]
  BY DEF AddPages, IsMade, MadeStep
<1> HIDE DEF f
<1>3. f[0] = q /\ \A p \in 1 .. k : f[p] = MadeStep(kind, all, capacity, f[p - 1], p)
  BY <1>0, <1>1 DEF IsMade
<1>4. 0 \in T
  <2>1. Made(q, q, kind, all, capacity, 0)
    BY <1>0 DEF Made
  <2> QED
    BY <1>0, <1>3, <2>1
<1>5. ASSUME NEW p \in 0 .. k - 1, p \in T
      PROVE  p + 1 \in T
  <2> DEFINE a == f[p]
             b == f[p + 1]
  <2>1. p \in Nat /\ p + 1 \in 1 .. k /\ (p + 1) - 1 = p /\ p + 1 \in 0 .. k
    BY <1>0
  <2>2. Made(q, a, kind, all, capacity, p) /\ b = MadeStep(kind, all, capacity, a, p + 1)
    BY <1>3, <1>5, <2>1
  <2>3. PagesRight(a)
    BY <2>2 DEF Made
  <2> HIDE DEF a, b, T
  <2>4. /\ PagesRight(b) /\ Len(b) = Len(a) + 1 /\ \A i \in 1 .. Len(a) : b[i] = a[i]
        /\ PageHolds(b[Len(a) + 1], kind, p + 1, all, capacity)
    BY <2>1, <2>2, <2>3, MadeStepIs
  <2>5. Made(q, b, kind, all, capacity, p + 1)
    BY <1>0, <2>1, <2>2, <2>4, MadeMore
  <2> QED
    BY <2>1, <2>5 DEF T, b
<1> HIDE DEF T, k
<1>6. k \in T
  BY <1>0, <1>4, <1>5, UpTo
<1> QED
  BY <1>0, <1>2, <1>6 DEF T, k

(* The pages of a snapshot: those of its block map, then those for reuse.     *)
SnapshotPages(pages, refs, chunks) ==
  /\ PagesRight(pages)
  /\ Len(pages) = DivCeil(Len(refs), BlocksPerMapPage) + DivCeil(Len(chunks), ReusePerPage)
  /\ \A p \in 1 .. DivCeil(Len(refs), BlocksPerMapPage) :
       PageHolds(pages[p], "BlockMap", p, refs, BlocksPerMapPage)
  /\ \A p \in 1 .. DivCeil(Len(chunks), ReusePerPage) :
       PageHolds(pages[DivCeil(Len(refs), BlocksPerMapPage) + p], "Reuse", p, chunks, ReusePerPage)

LEMMA BuildPagesIs ==
  ASSUME NEW S, NEW refs \in Seq(S), NEW T, NEW chunks \in Seq(T)
  PROVE  SnapshotPages(BuildPages(refs, chunks), refs, chunks)
<1> DEFINE a == AddPages(<<>>, "BlockMap", refs, BlocksPerMapPage)
           b == AddPages(a, "Reuse", chunks, ReusePerPage)
           m == DivCeil(Len(refs), BlocksPerMapPage)
           r == DivCeil(Len(chunks), ReusePerPage)
<1>0. /\ BlocksPerMapPage \in Nat \ {0} /\ ReusePerPage \in Nat \ {0} /\ m \in Nat /\ r \in Nat
      /\ "BlockMap" \in Kinds /\ "Reuse" \in Kinds
  <2>1. BlocksPerMapPage \in Nat \ {0} /\ ReusePerPage \in Nat \ {0}
    BY CatalogAssumption
  <2>2. m \in Nat /\ r \in Nat
    <3>1. Len(refs) \in Nat /\ Len(chunks) \in Nat
      OBVIOUS
    <3> QED
      BY <2>1, <3>1, DivCeilIs
  <2> QED
    BY <2>1, <2>2 DEF Kinds
<1>1. PagesRight(<<>>) /\ Len(<<>>) = 0
  BY DEF PagesRight, List
<1>2. Made(<<>>, a, "BlockMap", refs, BlocksPerMapPage, m)
  <2> HIDE DEF m
  <2>1. \A q : PagesRight(q) => Made(q, AddPages(q, "BlockMap", refs, BlocksPerMapPage), "BlockMap",
                                     refs, BlocksPerMapPage, DivCeil(Len(refs), BlocksPerMapPage))
    BY <1>0, AddPagesIs
  <2> QED
    BY <1>1, <2>1, Zenon DEF m
<1> HIDE DEF a
<1>3. /\ PagesRight(a) /\ Len(a) = m
      /\ \A i \in 1 .. m : PageHolds(a[i], "BlockMap", i, refs, BlocksPerMapPage)
  <2> HIDE DEF m
  <2>1. /\ PagesRight(a) /\ Len(a) = 0 + m
        /\ \A i \in 1 .. m : PageHolds(a[0 + i], "BlockMap", i, refs, BlocksPerMapPage)
    BY <1>1, <1>2 DEF Made
  <2>2. \A i \in 1 .. m : 0 + i = i
    BY <1>0
  <2> QED
    BY <1>0, <2>1, <2>2
<1>4. Made(a, b, "Reuse", chunks, ReusePerPage, r)
  <2> HIDE DEF r
  <2>1. \A q : PagesRight(q) => Made(q, AddPages(q, "Reuse", chunks, ReusePerPage), "Reuse",
                                     chunks, ReusePerPage, DivCeil(Len(chunks), ReusePerPage))
    BY <1>0, AddPagesIs
  <2> QED
    BY <1>3, <2>1, Zenon DEF r
<1>5. BuildPages(refs, chunks) = b
  BY DEF BuildPages, a
<1> HIDE DEF b, m, r
<1>6. /\ PagesRight(b) /\ Len(b) = m + r
      /\ \A i \in 1 .. m : b[i] = a[i]
      /\ \A i \in 1 .. r : PageHolds(b[m + i], "Reuse", i, chunks, ReusePerPage)
  BY <1>3, <1>4 DEF Made
<1>7. \A i \in 1 .. m : PageHolds(b[i], "BlockMap", i, refs, BlocksPerMapPage)
  BY <1>3, <1>6
<1>8. SnapshotPages(b, refs, chunks)
  BY <1>6, <1>7 DEF SnapshotPages, m, r
<1> QED
  BY <1>5, <1>8

LEMMA Counted ==
  ASSUME NEW pages, NEW refs, NEW chunks, SnapshotPages(pages, refs, chunks),
         Len(refs) \in Nat, Len(chunks) \in Nat
  PROVE  /\ Cardinality({p \in DOMAIN pages : pages[p].kind = "BlockMap"})
              = DivCeil(Len(refs), BlocksPerMapPage)
         /\ Cardinality({p \in DOMAIN pages : pages[p].kind = "Reuse"})
              = DivCeil(Len(chunks), ReusePerPage)
<1> DEFINE m == DivCeil(Len(refs), BlocksPerMapPage)
           r == DivCeil(Len(chunks), ReusePerPage)
<1>0. m \in Nat /\ r \in Nat
  BY CatalogAssumption, DivCeilIs
<1>1. /\ DOMAIN pages = 1 .. m + r
      /\ \A p \in 1 .. m : pages[p].kind = "BlockMap"
      /\ \A p \in 1 .. r : pages[m + p].kind = "Reuse"
  <2>1. Len(pages) = m + r /\ pages = [i \in 1 .. Len(pages) |-> pages[i]]
    BY DEF SnapshotPages, PagesRight, List
  <2>2. DOMAIN pages = 1 .. m + r
    BY <2>1
  <2>3. \A p \in 1 .. m : pages[p].kind = "BlockMap"
    BY DEF SnapshotPages, PageHolds
  <2>4. \A p \in 1 .. r : pages[m + p].kind = "Reuse"
    BY DEF SnapshotPages, PageHolds
  <2> QED
    BY <2>2, <2>3, <2>4
<1> HIDE DEF m, r
<1>2. ASSUME NEW p \in 1 .. m + r
      PROVE  pages[p].kind = (IF p <= m THEN "BlockMap" ELSE "Reuse")
  <2>1. CASE p <= m
    BY <1>0, <1>1, <2>1
  <2>2. CASE p > m
    <3>1. p - m \in 1 .. r /\ m + (p - m) = p
      BY <1>0, <2>2
    <3> QED
      BY <1>0, <1>1, <2>2, <3>1
  <2> QED
    BY <1>0, <2>1, <2>2
<1>3. /\ {p \in DOMAIN pages : pages[p].kind = "BlockMap"} = 1 .. m
      /\ {p \in DOMAIN pages : pages[p].kind = "Reuse"} = m + 1 .. m + r
  BY <1>0, <1>1, <1>2
<1>4. Cardinality(1 .. m) = m /\ Cardinality(m + 1 .. m + r) = r
  <2>1. \A a, b \in Int : Cardinality(a .. b) = IF a > b THEN 0 ELSE b - a + 1
    BY FS_Interval
  <2>2. Cardinality(1 .. m) = IF 1 > m THEN 0 ELSE m - 1 + 1
    BY <1>0, <2>1
  <2>3. Cardinality(m + 1 .. m + r) = IF m + 1 > m + r THEN 0 ELSE (m + r) - (m + 1) + 1
    BY <1>0, <2>1
  <2> QED
    BY <1>0, <2>2, <2>3
<1> QED
  BY <1>3, <1>4 DEF m, r

-------------------------------------------------------------------------------
(* The snapshot of a source tree, and the block references in it.           *)

ChunksIn(pending) == [r \in DOMAIN pending |-> pending[r].chunk]
SegmentsOf(segments) == [s \in DOMAIN segments |-> Finish(segments[s].blocks)]

(* What a catalog is made of.                                                *)
CatalogOf(cat, out) ==
  /\ OutRight(out) /\ Len(out.pending) \in Nat
  /\ cat.files = out.files /\ cat.pool = out.pool /\ cat.blocks = Len(out.pending)
  /\ cat.segments = SegmentsOf(out.segments) /\ cat.slots = BuildPathSlots(out.paths)
  /\ SnapshotPages(cat.pages, BlockRefs(out.pending), ChunksIn(out.pending))
  /\ cat.mapPages = DivCeil(Len(out.pending), BlocksPerMapPage)
  /\ cat.reusePages = DivCeil(Len(out.pending), ReusePerPage)
  /\ cat.header = SnapshotHeader(EncodeCatalog(Len(cat.segments), Len(cat.files), Len(cat.slots),
                                   Len(cat.pool), Len(cat.pages)).size, cat.mapPages + cat.reusePages)
  /\ cat.tables = EncodeCatalog(Len(cat.segments), Len(cat.files), Len(cat.slots),
                                Len(cat.pool), Len(cat.pages)).tables
  /\ cat.length = SnapshotLength(cat.header, cat.pages)

LEMMA ListsOf ==
  ASSUME NEW out, OutRight(out)
  PROVE  /\ Len(out.pending) \in Nat /\ DOMAIN out.pending = 1 .. Len(out.pending)
         /\ \E S : BlockRefs(out.pending) \in Seq(S)
         /\ Len(BlockRefs(out.pending)) = Len(out.pending)
         /\ ChunksIn(out.pending) \in Seq(Chunk) /\ Len(ChunksIn(out.pending)) = Len(out.pending)
         /\ \A r \in 1 .. Len(out.pending) : ChunksIn(out.pending)[r] = out.pending[r].chunk
<1> DEFINE n == Len(out.pending)
           refs == BlockRefs(out.pending)
           chunks == ChunksIn(out.pending)
           S == {refs[r] : r \in 1 .. n}
<1>1. /\ n \in Nat /\ DOMAIN out.pending = 1 .. n
      /\ \A r \in 1 .. n : out.pending[r] \in Placed
  <2>1. out.pending \in Seq(Placed)
    BY DEF OutRight, OutType
  <2> QED
    BY <2>1
<1> HIDE DEF n
<1>2. refs = [r \in 1 .. n |-> refs[r]] /\ \A r \in 1 .. n : refs[r] \in S
  BY <1>1 DEF BlockRefs
<1>3. /\ chunks = [r \in 1 .. n |-> chunks[r]]
      /\ \A r \in 1 .. n : chunks[r] = out.pending[r].chunk /\ chunks[r] \in Chunk
  BY <1>1 DEF ChunksIn, Placed
<1> HIDE DEF S, refs, chunks
<1>4. refs \in Seq(S) /\ Len(refs) = n
  BY <1>1, <1>2, IsSeq
<1>5. chunks \in Seq(Chunk) /\ Len(chunks) = n
  BY <1>1, <1>3, IsSeq
<1> QED
  BY <1>1, <1>3, <1>4, <1>5 DEF n, refs, chunks

LEMMA SnapshotIs ==
  ASSUME NEW t, SourceTree(t)
  PROVE  CatalogOf(WriteSnapshot(t), Built(t)) /\ FirstRecorded(Built(t), t, Len(t))
<1> DEFINE out == Built(t)
           cat == WriteSnapshot(t)
           segments == [s \in DOMAIN out.segments |-> Finish(out.segments[s].blocks)]
           slots == BuildPathSlots(out.paths)
           refs == BlockRefs(out.pending)
           chunks == [r \in DOMAIN out.pending |-> out.pending[r].chunk]
           pages == BuildPages(refs, chunks)
           Count(kind) == Cardinality({p \in DOMAIN pages : pages[p].kind = kind})
           encoded == EncodeCatalog(Len(segments), Len(out.files), Len(slots), Len(out.pool), Len(pages))
           header == SnapshotHeader(encoded.size, Count("BlockMap") + Count("Reuse"))
<1>1. FirstRecorded(out, t, Len(t)) /\ OutRight(out)
  BY BuiltIs DEF FirstRecorded
<1>2. /\ cat.segments = segments /\ cat.files = out.files /\ cat.slots = slots /\ cat.pool = out.pool
      /\ cat.pages = pages /\ cat.blocks = Len(out.pending)
      /\ cat.mapPages = Count("BlockMap") /\ cat.reusePages = Count("Reuse")
      /\ cat.tables = encoded.tables /\ cat.header = header
      /\ cat.length = SnapshotLength(header, pages)
  BY DEF WriteSnapshot, Snapshot, Assembled
<1> HIDE DEF out, cat, pages
<1>3. /\ Len(out.pending) \in Nat
      /\ \E S : refs \in Seq(S)
      /\ Len(refs) = Len(out.pending) /\ chunks \in Seq(Chunk) /\ Len(chunks) = Len(out.pending)
  BY <1>1, ListsOf DEF ChunksIn
<1>4. SnapshotPages(pages, refs, chunks)
  <2> HIDE DEF refs, chunks
  <2> QED
    BY <1>3, BuildPagesIs DEF pages
<1>5. /\ Count("BlockMap") = DivCeil(Len(out.pending), BlocksPerMapPage)
      /\ Count("Reuse") = DivCeil(Len(out.pending), ReusePerPage)
  <2> HIDE DEF refs, chunks
  <2>1. /\ Count("BlockMap") = DivCeil(Len(refs), BlocksPerMapPage)
        /\ Count("Reuse") = DivCeil(Len(chunks), ReusePerPage)
    BY <1>3, <1>4, Counted
  <2> QED
    BY <1>3, <2>1
<1>6. segments = SegmentsOf(out.segments) /\ chunks = ChunksIn(out.pending)
  BY DEF SegmentsOf, ChunksIn
<1> HIDE DEF segments, slots, refs, chunks, Count
<1>7. CatalogOf(cat, out)
  BY <1>1, <1>2, <1>3, <1>4, <1>5, <1>6 DEF CatalogOf, refs, slots
<1> QED
  BY <1>1, <1>7 DEF cat, out

(* A block reference of the catalog is to the block its chunk was written to. *)
RefRight(cat, ref, placed) ==
  /\ ref.plain \in Nat \ {0} /\ ref.plain = Len(placed.chunk) /\ ref.logical = placed.logical
  /\ BlockRefAccepted(ref) /\ InSegment(cat, ref) /\ BlockBytes(cat, ref) = placed.chunk

LEMMA WrittenRight ==
  ASSUME NEW cat, NEW out, CatalogOf(cat, out), NEW g \in 1 .. cat.blocks
  PROVE  RefRight(cat, BlockRefs(out.pending)[g], out.pending[g])
<1> DEFINE placed == out.pending[g]
           ref == BlockRefs(out.pending)[g]
           blocks == out.segments[ref.segment].blocks
           block == blocks[ref.block]
<1>0. OutRight(out) /\ g \in 1 .. Len(out.pending)
  BY DEF CatalogOf
<1>1. /\ placed \in Placed /\ LeadsTo(out.segments, placed) /\ out.segments \in Seq(Segment)
      /\ DOMAIN out.pending = 1 .. Len(out.pending)
      /\ \A s \in 1 .. Len(out.segments) : BlocksRight(out.segments[s].blocks)
  <2>1. out.pending \in Seq(Placed) /\ out.segments \in Seq(Segment)
    BY <1>0 DEF OutRight, OutType
  <2> QED
    BY <1>0, <2>1 DEF OutRight
<1>2. /\ ref.logical = placed.logical /\ ref.segment = placed.segment /\ ref.block = placed.block
      /\ ref.physical = placed.physical /\ ref.stored = placed.stored /\ ref.plain = placed.plain
      /\ ref.codec = placed.codec
  BY <1>0, <1>1 DEF BlockRefs
<1> HIDE DEF placed, ref
<1>3. /\ placed.chunk \in Chunk /\ placed.stored \in Nat /\ placed.physical \in Nat
      /\ placed.codec \in Codecs /\ Len(placed.chunk) \in Nat \ {0}
  BY <1>1 DEF Placed, Chunk
<1>4. /\ ref.segment \in 1 .. Len(out.segments) /\ ref.block \in 1 .. Len(blocks)
      /\ block.bytes = placed.chunk /\ block.physical = ref.physical
      /\ block.stored = ref.stored /\ block.codec = ref.codec /\ ref.plain = Len(placed.chunk)
  BY <1>1, <1>2 DEF LeadsTo
<1>5. BlockRight(block, Payload(blocks))
  BY <1>1, <1>4 DEF BlocksRight
<1>6. /\ cat.segments[ref.segment] = Finish(blocks) /\ ref.segment \in DOMAIN cat.segments
  <2>1. cat.segments = SegmentsOf(out.segments) /\ DOMAIN out.segments = 1 .. Len(out.segments)
    BY <1>1 DEF CatalogOf
  <2> HIDE DEF blocks
  <2> QED
    BY <1>4, <2>1 DEF SegmentsOf, blocks
<1> DEFINE segment == cat.segments[ref.segment]
<1>7. /\ segment.blocks = blocks /\ segment.header = segment.record
      /\ segment.record.count = Len(blocks) /\ segment.record.payload = Payload(blocks)
      /\ segment.record.len = HeaderSize.Segment + Payload(blocks)
  <2> HIDE DEF blocks
  <2> QED
    BY <1>6 DEF Finish
<1> HIDE DEF segment, blocks
<1>8. SegmentOpens(segment)
  BY <1>7 DEF SegmentOpens, SegmentAccepted
<1>9. StoredRight(ref.codec, ref.stored, ref.plain)
  BY <1>4, <1>5 DEF BlockRight
<1>10. BlockRefAccepted(ref)
  BY <1>2, <1>3, <1>4, <1>9 DEF BlockRefAccepted, EncodedLengthCanonical, StoredRight
<1>11. Decodes(block, ref)
  BY <1>3, <1>4, <1>9 DEF Decodes, StoredRight, TagSize
<1>12. /\ ref.block <= segment.record.count
       /\ ref.physical >= HeaderSize.Segment /\ ref.physical + ref.stored <= segment.record.len
  BY <1>4, <1>5, <1>7 DEF BlockRight
<1>13. segment.blocks[ref.block] = block
  BY <1>7
<1>14. InSegment(cat, ref)
  BY <1>4, <1>6, <1>8, <1>11, <1>12, <1>13 DEF InSegment, segment
<1>15. BlockBytes(cat, ref) = placed.chunk
  BY <1>4, <1>13 DEF BlockBytes, segment
<1>16. RefRight(cat, ref, placed)
  BY <1>2, <1>3, <1>4, <1>10, <1>14, <1>15 DEF RefRight
<1> QED
  BY <1>16 DEF ref, placed

LEMMA EndIs ==
  ASSUME NEW len \in Nat, NEW n \in Nat \ {0}, NEW p \in 1 .. DivCeil(len, n)
  PROVE  EndOf(len, n, p) = IF Before(n, p) + n <= len THEN Before(n, p) + n ELSE len
<1> DEFINE first == (p - 1) * n
<1>1. first \in Nat /\ p * n = first + n
  BY DivCeilIs
<1>2. EndOf(len, n, p) = Min({first + n, len}) /\ Before(n, p) = first
  BY <1>1 DEF EndOf, Before
<1> HIDE DEF first
<1>3. first + n \in Int /\ len \in Int
  BY <1>1
<1>4. Min({first + n, len}) = IF first + n <= len THEN first + n ELSE len
  <2> DEFINE m == first + n
  <2>1. m \in Int /\ len \in Int
    BY <1>3
  <2> HIDE DEF m
  <2>2. Min({m, len}) = IF m <= len THEN m ELSE len
    BY <2>1, LesserOf
  <2> QED
    BY <2>2 DEF m
<1> QED
  BY <1>2, <1>4

(* The piece that an element is in.                                          *)
LEMMA PieceOf ==
  ASSUME NEW len \in Nat, NEW n \in Nat \ {0}, NEW g \in 1 .. len,
         NEW p, p = (g - 1) \div n + 1
  PROVE  /\ p \in 1 .. DivCeil(len, n) /\ Before(n, p) \in Nat
         /\ Before(n, p) < g /\ g <= EndOf(len, n, p) /\ g <= Before(n, p) + n
<1> DEFINE a == g - 1
           q == a \div n
           k == DivCeil(len, n)
<1>0. a \in Nat /\ a < len /\ n \in Nat /\ n > 0 /\ g = a + 1
  OBVIOUS
<1>1. q \in Nat /\ q * n \in Nat /\ q * n <= a /\ a < q * n + n
  <2> HIDE DEF a
  <2>1. q \in Nat /\ q * n <= a /\ a < q * n + n
    BY <1>0, Quotient
  <2> HIDE DEF q
  <2> QED
    BY <1>0, <2>1
<1>2. k \in Nat /\ len <= k * n /\ k * n \in Nat
  BY DivCeilIs
<1>3. p = q + 1 /\ p - 1 = q
  BY <1>1
<1> HIDE DEF q, a, k
<1>4. q < k
  <2> SUFFICES ASSUME k <= q
               PROVE  FALSE
    BY <1>1, <1>2
  <2>1. k * n <= q * n
    BY <1>0, <1>1, <1>2, Times
  <2> DEFINE x == k * n
             y == q * n
  <2>2. x \in Nat /\ y \in Nat /\ len <= x /\ x <= y /\ y <= a
    BY <1>1, <1>2, <2>1
  <2> HIDE DEF x, y
  <2> QED
    BY <1>0, <2>2
<1>5. p \in 1 .. k /\ Before(n, p) = q * n
  BY <1>1, <1>2, <1>3, <1>4 DEF Before
<1>6. EndOf(len, n, p) = IF Before(n, p) + n <= len THEN Before(n, p) + n ELSE len
  BY <1>5, EndIs DEF k
<1> DEFINE b == q * n
<1>7. b \in Nat /\ b <= a /\ a < b + n /\ Before(n, p) = b
  BY <1>1, <1>5
<1> HIDE DEF b
<1>8. Before(n, p) \in Nat /\ Before(n, p) < g /\ g <= Before(n, p) + n /\ g <= EndOf(len, n, p)
  BY <1>0, <1>6, <1>7
<1> QED
  BY <1>5, <1>8 DEF k

LEMMA BlockRefIs ==
  ASSUME NEW cat, NEW out, CatalogOf(cat, out), NEW g \in 1 .. cat.blocks
  PROVE  BlockRef(cat, g) = BlockRefs(out.pending)[g]
<1> DEFINE len == Len(out.pending)
           refs == BlockRefs(out.pending)
           cap == BlocksPerMapPage
           p == (g - 1) \div cap + 1
           before == (p - 1) * cap
           page == cat.pages[p]
<1>0. /\ OutRight(out) /\ cat.blocks = len /\ cat.mapPages = DivCeil(len, cap)
      /\ cap \in Nat \ {0} /\ len \in Nat /\ g \in 1 .. len
  BY CatalogAssumption DEF CatalogOf
<1>1. PICK S : refs \in Seq(S) /\ Len(refs) = len
  BY <1>0, ListsOf
<1>2. /\ p \in 1 .. DivCeil(len, cap) /\ before \in Nat /\ before < g
      /\ g <= EndOf(len, cap, p) /\ before = Before(cap, p)
  <2>1. before = Before(cap, p)
    BY DEF Before
  <2> HIDE DEF cap, len
  <2>2. /\ p \in 1 .. DivCeil(len, cap) /\ Before(cap, p) \in Nat
        /\ Before(cap, p) < g /\ g <= EndOf(len, cap, p)
    <3>1. PICK q : q = (g - 1) \div cap + 1
      OBVIOUS
    <3>2. len \in Nat /\ cap \in Nat \ {0} /\ g \in 1 .. len
      BY <1>0
    <3>3. /\ q \in 1 .. DivCeil(len, cap) /\ Before(cap, q) \in Nat
          /\ Before(cap, q) < g /\ g <= EndOf(len, cap, q)
      BY <3>1, <3>2, PieceOf
    <3> QED
      BY <3>1, <3>3
  <2> QED
    BY <2>1, <2>2
<1>3. BlockRef(cat, g) =
        IF g > cat.blocks \/ p > cat.mapPages THEN NoReference
        ELSE LET records == LoadPage(cat, p, "BlockMap", before + 1).records IN
             IF g - before <= Len(records) /\ BlockRefAccepted(records[g - before])
             THEN records[g - before] ELSE NoReference
  BY DEF BlockRef
<1> HIDE DEF before, p
<1>4. PageHolds(page, "BlockMap", p, refs, cap)
  <2>1. \A i \in 1 .. DivCeil(Len(refs), cap) : PageHolds(cat.pages[i], "BlockMap", i, refs, cap)
    BY DEF CatalogOf, SnapshotPages
  <2> HIDE DEF refs, cap
  <2> QED
    BY <1>1, <1>2, <2>1
<1> DEFINE records == Pieces(refs, cap)[p]
<1>5. page.kind = "BlockMap" /\ page.first = before + 1 /\ page.records = records
  BY <1>2, <1>4 DEF PageHolds
<1> HIDE DEF len, cap, refs
<1>6. Len(records) = EndOf(len, cap, p) - before /\ Len(records) \in Nat
      /\ \A i \in 1 .. EndOf(len, cap, p) - before : records[i] = refs[before + i]
  <2>1. p \in 1 .. DivCeil(Len(refs), cap)
    BY <1>1, <1>2
  <2>2. /\ Pieces(refs, cap)[p] \in Seq(S)
        /\ Len(Pieces(refs, cap)[p]) = EndOf(Len(refs), cap, p) - Before(cap, p)
        /\ \A i \in 1 .. EndOf(Len(refs), cap, p) - Before(cap, p) :
             Pieces(refs, cap)[p][i] = refs[Before(cap, p) + i]
    <3>1. refs \in Seq(S) /\ cap \in Nat \ {0}
      BY <1>0, <1>1
    <3>2. /\ Pieces(refs, cap)[p] \in Seq(S)
          /\ IsSlice(Pieces(refs, cap)[p], refs, Before(cap, p), EndOf(Len(refs), cap, p))
      BY <2>1, <3>1, PieceSlice
    <3> QED
      BY <3>2 DEF IsSlice
  <2> QED
    BY <1>1, <1>2, <2>2
<1> HIDE DEF records
<1>7. EndOf(len, cap, p) \in Nat
  BY <1>0, <1>2, PieceBounds
<1>8. g - before \in 1 .. Len(records) /\ before + (g - before) = g /\ g - before <= Len(records)
  BY <1>0, <1>2, <1>6, <1>7
<1>9. records[g - before] = refs[g]
  BY <1>6, <1>8
<1>10. LoadPage(cat, p, "BlockMap", before + 1).records = records
  <2>1. records # <<>>
    BY <1>8
  <2> QED
    BY <1>5, <2>1 DEF LoadPage, PageOpens
<1>11. BlockRefAccepted(refs[g])
  BY WrittenRight DEF RefRight, refs
<1>12. ~(g > cat.blocks \/ p > cat.mapPages)
  <2>1. DivCeil(len, cap) \in Nat
    BY <1>0, DivCeilIs
  <2> QED
    BY <1>0, <1>2, <2>1
<1> QED
  BY <1>3, <1>8, <1>9, <1>10, <1>11, <1>12 DEF refs

LEMMA ReferenceIs ==
  ASSUME NEW cat, NEW out, CatalogOf(cat, out), NEW g \in 1 .. cat.blocks
  PROVE  RefRight(cat, BlockRef(cat, g), out.pending[g])
  BY BlockRefIs, WrittenRight

-------------------------------------------------------------------------------
(* The block of an offset.                                                  *)

(* Where the search for c stops between two bounds.                          *)
Stop(c, low, high) ==
  IF low >= high THEN low ELSE IF c < low THEN low ELSE IF c > high THEN high ELSE c
Mid(low, high) == low + (high - low) \div 2

LEMMA MidIs ==
  ASSUME NEW low \in Nat, NEW high \in Nat, low < high
  PROVE  Mid(low, high) \in Nat /\ low <= Mid(low, high) /\ Mid(low, high) < high
<1> DEFINE x == high - low
           y == x \div 2
<1>1. x \in Nat /\ x > 0
  OBVIOUS
<1> HIDE DEF x
<1>2. y \in Nat /\ y * 2 <= x
  BY <1>1, Quotient
<1>3. Mid(low, high) = low + y
  BY DEF Mid, x
<1> HIDE DEF y
<1>4. y < x
  BY <1>1, <1>2
<1> QED
  BY <1>1, <1>2, <1>3, <1>4 DEF x

(* The rule of the search among n blocks, c of which start at the offset or   *)
(* before it.                                                                *)
SearchRule(f, n, c) ==
  \A low, high \in 0 .. n :
    f[<<low, high>>] = IF low >= high THEN low
                       ELSE IF Mid(low, high) < c THEN f[<<Mid(low, high) + 1, high>>]
                       ELSE f[<<low, Mid(low, high)>>]

LEMMA SearchStops ==
  ASSUME NEW n \in Nat, NEW c \in Nat, NEW f, SearchRule(f, n, c),
         NEW low \in 0 .. n, NEW high \in 0 .. n
  PROVE  f[<<low, high>>] = Stop(c, low, high)
<1> DEFINE Right(d) == \A l, h \in 0 .. n : h - l <= d => f[<<l, h>>] = Stop(c, l, h)
           S == {d \in 0 .. n : Right(d)}
<1>1. 0 \in S
  <2> SUFFICES ASSUME NEW l \in 0 .. n, NEW h \in 0 .. n, h - l <= 0
               PROVE  f[<<l, h>>] = Stop(c, l, h)
    OBVIOUS
  <2>1. l >= h
    OBVIOUS
  <2>2. f[<<l, h>>] = l
    BY <2>1 DEF SearchRule
  <2> QED
    BY <2>1, <2>2 DEF Stop
<1>2. ASSUME NEW d \in 0 .. n - 1, d \in S
      PROVE  d + 1 \in S
  <2> SUFFICES ASSUME NEW l \in 0 .. n, NEW h \in 0 .. n, h - l <= d + 1
               PROVE  f[<<l, h>>] = Stop(c, l, h)
    OBVIOUS
  <2>1. CASE l >= h
    <3>1. f[<<l, h>>] = l
      BY <2>1 DEF SearchRule
    <3> QED
      BY <2>1, <3>1 DEF Stop
  <2>2. CASE l < h
    <3> DEFINE m == Mid(l, h)
    <3>0. d \in Nat /\ Right(d)
      BY <1>2
    <3>1. m \in Nat /\ l <= m /\ m < h
      BY <2>2, MidIs
    <3>2. f[<<l, h>>] = IF m < c THEN f[<<m + 1, h>>] ELSE f[<<l, m>>]
      BY <2>2 DEF SearchRule
    <3> HIDE DEF m, S
    <3>3. m \in 0 .. n /\ m + 1 \in 0 .. n /\ h - (m + 1) <= d /\ m - l <= d
      BY <3>0, <3>1
    <3>4. f[<<m + 1, h>>] = Stop(c, m + 1, h) /\ f[<<l, m>>] = Stop(c, l, m)
      BY <3>0, <3>3
    <3> HIDE DEF Right
    <3> QED
      BY <2>2, <3>1, <3>2, <3>4 DEF Stop
  <2> QED
    BY <2>1, <2>2
<1>3. n \in S
  <2> HIDE DEF S
  <2> QED
    BY <1>1, <1>2, UpTo
<1>4. high - low <= n
  OBVIOUS
<1> QED
  BY <1>3, <1>4

IsSearch(f, cat, file, offset) ==
  f = [part \in (0 .. file.count) \X (0 .. file.count) |->
        LET low  == part[1]
            high == part[2]
            mid  == low + (high - low) \div 2
        IN IF low >= high THEN low
           ELSE IF StartsAtOrBefore(cat, file, mid, offset) THEN f[<<mid + 1, high>>]
           ELSE f[<<low, mid>>]]

LEMMA SearchExists ==
  ASSUME NEW cat, NEW file, NEW offset, file.count \in Nat, NEW c \in Nat,
         \A i \in 0 .. file.count - 1 : StartsAtOrBefore(cat, file, i, offset) <=> i < c
  PROVE  \E f : IsSearch(f, cat, file, offset)
<1> DEFINE n == file.count
           g == [part \in (0 .. n) \X (0 .. n) |-> Stop(c, part[1], part[2])]
<1>1. ASSUME NEW part \in (0 .. n) \X (0 .. n)
      PROVE  g[part] = LET low  == part[1]
                           high == part[2]
                           mid  == low + (high - low) \div 2
                       IN IF low >= high THEN low
                          ELSE IF StartsAtOrBefore(cat, file, mid, offset) THEN g[<<mid + 1, high>>]
                          ELSE g[<<low, mid>>]
  <2> DEFINE low  == part[1]
             high == part[2]
             mid  == low + (high - low) \div 2
  <2>1. low \in 0 .. n /\ high \in 0 .. n /\ g[part] = Stop(c, low, high)
    OBVIOUS
  <2>2. CASE low >= high
    BY <2>1, <2>2 DEF Stop
  <2>3. CASE low < high
    <3>1. mid \in Nat /\ low <= mid /\ mid < high
      <4>1. low \in Nat /\ high \in Nat /\ mid = Mid(low, high)
        BY <2>1 DEF Mid
      <4> HIDE DEF low, high, mid
      <4> QED
        BY <2>3, <4>1, MidIs
    <3> HIDE DEF low, high, mid, g
    <3>2. mid \in 0 .. n - 1 /\ <<mid + 1, high>> \in (0 .. n) \X (0 .. n)
          /\ <<low, mid>> \in (0 .. n) \X (0 .. n)
      BY <2>1, <3>1
    <3>3. g[<<mid + 1, high>>] = Stop(c, mid + 1, high) /\ g[<<low, mid>>] = Stop(c, low, mid)
      BY <3>2 DEF g
    <3>4. StartsAtOrBefore(cat, file, mid, offset) <=> mid < c
      BY <3>2
    <3>5. Stop(c, low, high) = IF mid < c THEN Stop(c, mid + 1, high) ELSE Stop(c, low, mid)
      BY <2>1, <2>3, <3>1 DEF Stop
    <3>6. g[part] = IF StartsAtOrBefore(cat, file, mid, offset) THEN g[<<mid + 1, high>>]
                    ELSE g[<<low, mid>>]
      BY <2>1, <3>3, <3>4, <3>5
    <3> QED
      BY <2>1, <2>3, <3>6 DEF low, high, mid
  <2> QED
    BY <2>1, <2>2, <2>3
<1>2. g = [part \in (0 .. n) \X (0 .. n) |-> g[part]]
  OBVIOUS
<1> HIDE DEF g
<1>3. IsSearch(g, cat, file, offset)
  BY <1>1, <1>2 DEF IsSearch
<1> QED
  BY <1>3

LEMMA SearchIs ==
  ASSUME NEW cat, NEW file, NEW offset, file.count \in Nat, NEW c \in 0 .. file.count,
         \A i \in 0 .. file.count - 1 : StartsAtOrBefore(cat, file, i, offset) <=> i < c,
         NEW f, IsSearch(f, cat, file, offset)
  PROVE  f[<<0, file.count>>] = c
<1> DEFINE n == file.count
<1>1. SearchRule(f, n, c)
  <2> SUFFICES ASSUME NEW low \in 0 .. n, NEW high \in 0 .. n
               PROVE  f[<<low, high>>] = IF low >= high THEN low
                        ELSE IF Mid(low, high) < c THEN f[<<Mid(low, high) + 1, high>>]
                        ELSE f[<<low, Mid(low, high)>>]
    BY DEF SearchRule
  <2> DEFINE mid == Mid(low, high)
  <2>1. <<low, high>> \in (0 .. n) \X (0 .. n)
    OBVIOUS
  <2>2. f[<<low, high>>] = IF low >= high THEN low
          ELSE IF StartsAtOrBefore(cat, file, mid, offset) THEN f[<<mid + 1, high>>]
          ELSE f[<<low, mid>>]
    BY <2>1 DEF IsSearch, Mid
  <2>3. ASSUME low < high
        PROVE  StartsAtOrBefore(cat, file, mid, offset) <=> mid < c
    <3>1. mid \in 0 .. n - 1
      BY <2>3, MidIs
    <3> QED
      BY <3>1
  <2> HIDE DEF mid
  <2>4. low \in Int /\ high \in Int
    OBVIOUS
  <2>5. f[<<low, high>>] = IF low >= high THEN low
          ELSE IF mid < c THEN f[<<mid + 1, high>>] ELSE f[<<low, mid>>]
    BY <2>2, <2>3, <2>4
  <2> QED
    BY <2>5 DEF mid
<1>2. n \in Nat /\ c \in Nat /\ 0 \in 0 .. n /\ n \in 0 .. n
  OBVIOUS
<1> HIDE DEF n
<1>3. f[<<0, n>>] = Stop(c, 0, n)
  BY SMTT(20), <1>1, <1>2, SearchStops
<1>4. Stop(c, 0, n) = c
  <2>1. c <= n
    BY DEF n
  <2> QED
    BY <1>2, <2>1 DEF Stop
<1> QED
  BY <1>3, <1>4 DEF n

LEMMA LocalIndexIs ==
  ASSUME NEW cat, NEW file, NEW offset, file.count \in Nat, NEW c \in 1 .. file.count,
         file.layout = "ContentDefined",
         \A i \in 0 .. file.count - 1 : StartsAtOrBefore(cat, file, i, offset) <=> i < c
  PROVE  LocalIndex(cat, file, offset) = c - 1
<1> DEFINE f == CHOOSE g : IsSearch(g, cat, file, offset)
<1>1. IsSearch(f, cat, file, offset)
  <2>1. \E g : IsSearch(g, cat, file, offset)
    <3>1. c \in Nat
      OBVIOUS
    <3> QED
      BY <3>1, SearchExists
  <2> QED
    BY <2>1
<1>2. LocalIndex(cat, file, offset) = Max({f[<<0, file.count>>] - 1, 0})
  BY DEF LocalIndex, IsSearch
<1> HIDE DEF f
<1>3. f[<<0, file.count>>] = c
  <2>1. c \in 0 .. file.count
    OBVIOUS
  <2> QED
    BY <1>1, <2>1, SearchIs
<1>4. Max({c - 1, 0}) = c - 1
  <2> DEFINE x == c - 1
  <2>1. x \in Int /\ 0 \in Int /\ x >= 0
    OBVIOUS
  <2> HIDE DEF x
  <2>2. Max({x, 0}) = IF x >= 0 THEN x ELSE 0
    BY <2>1, GreaterOf
  <2> QED
    BY <2>1, <2>2 DEF x
<1> QED
  BY <1>2, <1>3, <1>4

(* The blocks of a file in the catalog: block i begins at ends[i - 1], ends   *)
(* at ends[i], and is in its segment with the bytes between them.            *)
BlockAt(cat, file, i) == BlockRef(cat, file.first - 1 + i)
Tabled(cat, file, bytes, ends) ==
  /\ file.len = Len(bytes) /\ file.count \in Nat /\ file.first \in Nat \ {0}
  /\ ends[0] = 0 /\ ends[file.count] = Len(bytes)
  /\ \A i \in 1 .. file.count :
       /\ ends[i - 1] \in Nat /\ ends[i] \in Nat /\ ends[i - 1] < ends[i] /\ ends[i] <= Len(bytes)
       /\ BlockAt(cat, file, i).logical = ends[i - 1]
       /\ BlockAt(cat, file, i).plain = ends[i] - ends[i - 1]
       /\ BlockRefAccepted(BlockAt(cat, file, i)) /\ InSegment(cat, BlockAt(cat, file, i))
       /\ BlockBytes(cat, BlockAt(cat, file, i)) = SubSeq(bytes, ends[i - 1] + 1, ends[i])

LEMMA TableIs ==
  ASSUME NEW cat, NEW out, CatalogOf(cat, out), NEW src, SourceFile(src),
         NEW file, Recorded(out, src, file),
         NEW ends, EndsOf(src, ends),
         \A c \in 1 .. Len(ChunksOf(src)) :
           /\ out.pending[file.first - 1 + c].chunk = ChunksOf(src)[c]
           /\ out.pending[file.first - 1 + c].logical = ends[c - 1]
  PROVE  Tabled(cat, file, src.bytes, ends)
<1> DEFINE n == Len(ChunksOf(src))
<1>1. /\ file.len = Len(src.bytes) /\ file.count = n /\ file.first \in Nat \ {0}
      /\ file.first - 1 + n <= cat.blocks /\ cat.blocks \in Nat
  BY DEF Recorded, CatalogOf
<1>2. /\ n \in Nat /\ ends[0] = 0 /\ ends[n] = Len(src.bytes)
      /\ \A c \in 1 .. n :
           /\ ends[c - 1] \in Nat /\ ends[c] \in Nat /\ ends[c - 1] < ends[c]
           /\ ends[c] <= Len(src.bytes)
           /\ ChunksOf(src)[c] = SubSeq(src.bytes, ends[c - 1] + 1, ends[c])
           /\ Len(ChunksOf(src)[c]) = ends[c] - ends[c - 1]
  BY SMTT(20) DEF EndsOf, Tiling
<1> HIDE DEF n
<1>3. ASSUME NEW i \in 1 .. n
      PROVE  /\ BlockAt(cat, file, i).logical = ends[i - 1]
             /\ BlockAt(cat, file, i).plain = ends[i] - ends[i - 1]
             /\ BlockRefAccepted(BlockAt(cat, file, i)) /\ InSegment(cat, BlockAt(cat, file, i))
             /\ BlockBytes(cat, BlockAt(cat, file, i)) = SubSeq(src.bytes, ends[i - 1] + 1, ends[i])
  <2> DEFINE g == file.first - 1 + i
  <2>1. g \in 1 .. cat.blocks
    BY <1>1, <1>2
  <2>2. out.pending[g].chunk = ChunksOf(src)[i] /\ out.pending[g].logical = ends[i - 1]
    BY DEF n
  <2>3. BlockAt(cat, file, i) = BlockRef(cat, g)
    BY DEF BlockAt
  <2> HIDE DEF g
  <2>4. RefRight(cat, BlockRef(cat, g), out.pending[g])
    BY <2>1, ReferenceIs
  <2> QED
    BY <1>2, <2>2, <2>3, <2>4 DEF RefRight
<1> QED
  BY <1>1, <1>2, <1>3 DEF Tabled

(* An offset of a file is found in the block that holds it.                   *)
FoundIn(cat, file, ends, offset, c) ==
  /\ ends[c - 1] <= offset /\ offset < ends[c]
  /\ ReferenceForOffset(cat, file, offset) = BlockAt(cat, file, c)

LEMMA FoundAt ==
  ASSUME NEW cat, NEW file, NEW bytes, NEW ends, Tabled(cat, file, bytes, ends),
         NEW offset \in Nat, NEW c \in 1 .. file.count,
         ends[c - 1] <= offset, offset < ends[c], LocalIndex(cat, file, offset) = c - 1
  PROVE  FoundIn(cat, file, ends, offset, c)
<1> DEFINE ref == BlockAt(cat, file, c)
           local == LocalIndex(cat, file, offset)
<1>1. /\ file.count \in Nat /\ file.first \in Nat
      /\ ends[c - 1] \in Nat /\ ends[c] \in Nat
      /\ ref.logical = ends[c - 1] /\ ref.plain = ends[c] - ends[c - 1]
      /\ BlockRefAccepted(ref)
  BY DEF Tabled
<1>2. local = c - 1 /\ local < file.count /\ file.first + local = file.first - 1 + c
  BY <1>1
<1>3. ref # NoReference
  <2>1. ref.plain > 0 /\ ref.plain # 0
    BY <1>1
  <2> QED
    BY <2>1 DEF NoReference
<1>4. Covers(ref, offset)
  BY <1>1 DEF Covers
<1>5. BlockRef(cat, file.first + local) = ref
  BY <1>2 DEF BlockAt
<1> HIDE DEF ref, local
<1>6. ReferenceForOffset(cat, file, offset) = ref
  BY <1>2, <1>3, <1>4, <1>5 DEF ReferenceForOffset, local
<1> QED
  BY <1>6 DEF FoundIn, ref

LEMMA OffsetFound ==
  ASSUME NEW cat, NEW src, SourceFile(src), NEW ends, EndsOf(src, ends),
         NEW file, Tabled(cat, file, src.bytes, ends), file.count = Len(ChunksOf(src)),
         file.layout = Classify(src).layout, file.fixed = Classify(src).fixed,
         NEW offset \in 0 .. Len(src.bytes) - 1
  PROVE  \E c \in 1 .. file.count : FoundIn(cat, file, ends, offset, c)
<1> DEFINE n == file.count
<1>1. /\ src.bytes \in Seq(Nat) /\ Tiling(ChunksOf(src), src.bytes, ends) /\ n \in Nat
      /\ file.first \in Nat
  BY DEF SourceFile, EndsOf, Tabled
<1>2. PICK c \in 1 .. n : /\ ends[c - 1] <= offset /\ offset < ends[c]
                          /\ \A i \in 1 .. n : ends[i - 1] <= offset <=> i <= c
  BY <1>1, ChunkOfByte
<1>3. LocalIndex(cat, file, offset) = c - 1
  <2>1. CASE file.layout = "Fixed"
    <3> DEFINE w == file.fixed
               q == c - 1
               start == q * w
    <3>1. w \in Nat \ {0} /\ q \in Nat
      <4>1. Classify(src).layout = "Fixed" => Classify(src).fixed \in Nat \ {0}
        BY <1>1, Classified
      <4>2. w \in Nat \ {0}
        BY <2>1, <4>1
      <4>3. n \in Nat /\ c \in 1 .. n
        BY <1>1
      <4> HIDE DEF n, w
      <4>4. q \in Nat
        BY <4>3
      <4> QED
        BY <4>2, <4>4
    <3>2. ends[c - 1] = start /\ ends[c] <= start + w /\ ends[c] \in Nat /\ ends[c - 1] \in Nat
      BY <2>1 DEF EndsOf, Tabled
    <3>3. start <= offset /\ offset < start + w
      <4> HIDE DEF start
      <4> QED
        BY <1>1, <1>2, <3>1, <3>2
    <3>4. offset \div w = q
      <4>1. offset \in Nat
        OBVIOUS
      <4>2. q * w <= offset /\ offset < q * w + w
        BY <3>3
      <4> HIDE DEF q, w
      <4> QED
        BY <3>1, <4>1, <4>2, QuotientIs
    <3> QED
      BY <2>1, <3>1, <3>4 DEF LocalIndex
  <2>2. CASE file.layout = "ContentDefined"
    <3>1. ASSUME NEW i \in 0 .. n - 1
          PROVE  StartsAtOrBefore(cat, file, i, offset) <=> i < c
      <4>1. i + 1 \in 1 .. n /\ (i + 1) - 1 = i /\ file.first + i = file.first - 1 + (i + 1)
        <5> DEFINE first == file.first
        <5>1. n \in Nat /\ first \in Nat
          BY <1>1
        <5> HIDE DEF n, first
        <5>2. i + 1 \in 1 .. n /\ (i + 1) - 1 = i /\ first + i = first - 1 + (i + 1)
          BY <5>1
        <5> QED
          BY <5>2 DEF first
      <4>2. BlockAt(cat, file, i + 1).logical = ends[i]
        BY <4>1 DEF Tabled
      <4>3. BlockRef(cat, file.first + i) = BlockAt(cat, file, i + 1)
        BY <4>1 DEF BlockAt
      <4>4. ends[i] <= offset <=> i + 1 <= c
        BY <1>2, <4>1
      <4> QED
        BY <1>1, <1>2, <4>2, <4>3, <4>4 DEF StartsAtOrBefore
    <3> QED
      BY <1>1, <1>2, <2>2, <3>1, LocalIndexIs
  <2> QED
    BY <2>1, <2>2, Classified DEF SourceFile
<1>4. FoundIn(cat, file, ends, offset, c)
  <2>1. offset \in Nat
    BY <1>1
  <2> QED
    BY <1>2, <1>3, <2>1, FoundAt
<1> QED
  BY <1>2, <1>4

(* The file that is recorded for one of a tree has a table of blocks, and     *)
(* each of its offsets is found in one of them.                              *)
Readable(cat, file, src) ==
  \E ends : /\ Tabled(cat, file, src.bytes, ends)
            /\ \A offset \in 0 .. Len(src.bytes) - 1 :
                 \E c \in 1 .. file.count : FoundIn(cat, file, ends, offset, c)

LEMMA FilesReadable ==
  ASSUME NEW t, SourceTree(t), NEW cat, cat = WriteSnapshot(t), NEW f \in 1 .. Len(t)
  PROVE  /\ DOMAIN cat.files = 1 .. Len(t) /\ Len(cat.files) = Len(t)
         /\ Readable(cat, cat.files[f], t[f])
<1> DEFINE out == Built(t)
           src == t[f]
           file == cat.files[f]
<1>1. CatalogOf(cat, out) /\ FirstRecorded(out, t, Len(t)) /\ OutRight(out)
  BY SnapshotIs DEF FirstRecorded
<1> HIDE DEF out
<1>2. /\ cat.files = out.files /\ Recorded(out, src, file) /\ SourceFile(src)
      /\ Len(cat.files) = Len(t) /\ DOMAIN cat.files = 1 .. Len(t)
  <2>1. cat.files = out.files /\ Len(out.files) = Len(t) /\ out.files \in Seq(FileRecord)
    BY <1>1 DEF CatalogOf, FirstRecorded, OutRight, OutType
  <2>2. Recorded(out, src, out.files[f])
    BY <1>1 DEF FirstRecorded
  <2>3. SourceFile(src)
    BY DEF SourceTree
  <2> QED
    BY <2>1, <2>2, <2>3
<1> HIDE DEF src, file
<1>3. PICK ends : /\ EndsOf(src, ends)
                  /\ \A c \in 1 .. Len(ChunksOf(src)) :
                       /\ out.pending[file.first - 1 + c].chunk = ChunksOf(src)[c]
                       /\ out.pending[file.first - 1 + c].logical = ends[c - 1]
  BY <1>2 DEF Recorded, ChunksFrom
<1>4. Tabled(cat, file, src.bytes, ends)
  BY <1>1, <1>2, <1>3, TableIs
<1>5. /\ file.count = Len(ChunksOf(src))
      /\ file.layout = Classify(src).layout /\ file.fixed = Classify(src).fixed
  BY <1>2 DEF Recorded
<1>6. \A offset \in 0 .. Len(src.bytes) - 1 :
        \E c \in 1 .. file.count : FoundIn(cat, file, ends, offset, c)
  BY <1>2, <1>3, <1>4, <1>5, OffsetFound
<1>7. Readable(cat, file, src)
  BY <1>4, <1>6 DEF Readable
<1> QED
  BY <1>2, <1>7 DEF src, file

(* The catalog has a file for each of the tree's, and no other.              *)
LEMMA FilesAre ==
  ASSUME NEW t, SourceTree(t), NEW cat, cat = WriteSnapshot(t)
  PROVE  DOMAIN cat.files = 1 .. Len(t) /\ DOMAIN t = 1 .. Len(t)
<1> DEFINE out == Built(t)
<1>1. CatalogOf(cat, out) /\ FirstRecorded(out, t, Len(t))
  BY SnapshotIs
<1> HIDE DEF out
<1>2. cat.files = out.files /\ Len(out.files) = Len(t) /\ out.files \in Seq(FileRecord)
  BY <1>1 DEF CatalogOf, FirstRecorded, OutRight, OutType
<1>3. DOMAIN t = 1 .. Len(t)
  BY DEF SourceTree
<1> QED
  BY <1>2, <1>3

-------------------------------------------------------------------------------
(* Powers of two.                                                           *)

(* What is left over by a quotient.                                          *)
LEMMA RemainderIs ==
  ASSUME NEW a \in Nat, NEW n \in Nat \ {0}, NEW q \in Nat, NEW r \in 0 .. n - 1, a = q * n + r
  PROVE  a % n = r
<1> DEFINE x == n * q
<1>1. x \in Nat /\ a = x + r
  OBVIOUS
<1> QED
  BY <1>1

(* The powers of two are what their definition says.                         *)
IsPower(f, N) == f = [k \in 0 .. N |-> IF k = 0 THEN 1 ELSE 2 * f[k - 1]]

LEMMA Power2Is ==
  /\ HashBits \in Nat /\ Power2[0] = 1
  /\ \A k \in 0 .. HashBits - 1 : Power2[k + 1] = 2 * Power2[k]
<1> DEFINE S == {n \in Nat : \E f : IsPower(f, n)}
<1>0. HashBits \in Nat
  BY CatalogAssumption
<1>1. 0 \in S
  <2>1. IsPower([k \in 0 .. 0 |-> 1], 0)
    BY DEF IsPower
  <2> QED
    BY <2>1
<1>2. ASSUME NEW n \in 0 .. HashBits - 1, n \in S
      PROVE  n + 1 \in S
  <2>1. PICK f : IsPower(f, n)
    BY <1>2
  <2> DEFINE g == [k \in 0 .. n + 1 |-> IF k = n + 1 THEN 2 * f[n] ELSE f[k]]
  <2>2. f[0] = 1 /\ \A k \in 1 .. n : f[k] = 2 * f[k - 1]
    BY <1>0, <2>1 DEF IsPower
  <2>3. \A k \in 0 .. n + 1 : g[k] = IF k = 0 THEN 1 ELSE 2 * g[k - 1]
    BY <1>0, <2>2
  <2> DEFINE h == [k \in 0 .. n + 1 |-> IF k = 0 THEN 1 ELSE 2 * g[k - 1]]
  <2>4. g = h
    <3>1. DOMAIN g = 0 .. n + 1 /\ DOMAIN h = 0 .. n + 1 /\ \A k \in 0 .. n + 1 : g[k] = h[k]
      BY <2>3
    <3> QED
      BY <3>1
  <2> HIDE DEF g
  <2>5. IsPower(g, n + 1)
    BY <2>4 DEF IsPower
  <2> QED
    BY <1>0, <2>5
<1>3. \E f : IsPower(f, HashBits)
  <2> HIDE DEF S
  <2>1. HashBits \in S
    BY <1>0, <1>1, <1>2, UpTo
  <2> QED
    BY <2>1 DEF S
<1>4. Power2 = CHOOSE f : IsPower(f, HashBits)
  BY DEF Power2, IsPower
<1>5. IsPower(Power2, HashBits)
  BY <1>3, <1>4
<1>6. Power2[0] = 1
  BY <1>0, <1>5 DEF IsPower
<1>7. ASSUME NEW k \in 0 .. HashBits - 1
      PROVE  Power2[k + 1] = 2 * Power2[k]
  <2>1. k + 1 \in 0 .. HashBits /\ k + 1 # 0 /\ (k + 1) - 1 = k
    BY <1>0
  <2> QED
    BY <1>5, <2>1 DEF IsPower
<1> QED
  BY <1>0, <1>6, <1>7

(* A power of two is a multiple of those before it.                          *)
LEMMA PowersDivide ==
  ASSUME NEW k \in 0 .. HashBits, NEW b \in k .. HashBits
  PROVE  /\ Power2[k] \in Nat \ {0} /\ Power2[b] \in Nat \ {0}
         /\ \E m \in Nat : Power2[b] = m * Power2[k]
<1> DEFINE S == {n \in 0 .. HashBits : Power2[n] \in Nat \ {0}}
           T == {j \in 0 .. HashBits - k : \E m \in Nat : Power2[k + j] = m * Power2[k]}
<1>0. HashBits \in Nat /\ k \in Nat /\ b \in Nat
  BY Power2Is
<1>1. \A n \in 0 .. HashBits : n \in S
  <2>1. 0 \in S
    BY <1>0, Power2Is
  <2>2. ASSUME NEW n \in 0 .. HashBits - 1, n \in S
        PROVE  n + 1 \in S
    <3>1. Power2[n + 1] = 2 * Power2[n] /\ n + 1 \in 0 .. HashBits
      BY <1>0, Power2Is
    <3> QED
      BY <2>2, <3>1
  <2> HIDE DEF S
  <2> QED
    BY <1>0, <2>1, <2>2, UpTo
<1>2. Power2[k] \in Nat \ {0} /\ Power2[b] \in Nat \ {0}
  BY <1>0, <1>1
<1>3. 0 \in T
  <2>1. k + 0 = k /\ Power2[k] = 1 * Power2[k]
    BY <1>0, <1>2
  <2> QED
    BY <1>0, <2>1
<1>4. ASSUME NEW j \in 0 .. (HashBits - k) - 1, j \in T
      PROVE  j + 1 \in T
  <2>1. PICK m \in Nat : Power2[k + j] = m * Power2[k]
    BY <1>4
  <2>2. Power2[k + (j + 1)] = 2 * Power2[k + j]
    <3>1. k + j \in 0 .. HashBits - 1 /\ k + (j + 1) = (k + j) + 1
      BY <1>0
    <3> QED
      BY <3>1, Power2Is
  <2> DEFINE p == Power2[k]
  <2>3. Power2[k + (j + 1)] = (2 * m) * p /\ 2 * m \in Nat
    <3>1. Power2[k + (j + 1)] = 2 * (m * p)
      BY <2>1, <2>2
    <3>2. p \in Nat
      BY <1>2
    <3> HIDE DEF p
    <3> QED
      BY <3>1, <3>2
  <2> QED
    BY <1>0, <2>3
<1> HIDE DEF T
<1>5. b - k \in 0 .. HashBits - k /\ k + (b - k) = b /\ HashBits - k \in Nat
  BY <1>0
<1>6. b - k \in T
  BY <1>3, <1>4, <1>5, UpTo
<1> QED
  BY <1>2, <1>5, <1>6 DEF T

(* The slots in which a hash is looked for are all the slots.                *)
Landing(h, M, n, s) == \E p \in 1 .. n : ((h + p - 1) % M) % n = s - 1

LEMMA Reached ==
  ASSUME NEW M \in Nat \ {0}, NEW n \in Nat \ {0}, NEW K \in Nat, M = K * n,
         NEW h \in 0 .. M - 1, NEW s \in 1 .. n
  PROVE  Landing(h, M, n, s)
<1> SUFFICES \E p \in 1 .. n : ((h + p - 1) % M) % n = s - 1
  BY DEF Landing
<1> DEFINE q == h \div n
           x == q * n
           r == h - x
<1>1. q \in Nat /\ x \in Nat /\ x <= h /\ h < x + n
  <2>1. h \in Nat
    OBVIOUS
  <2>2. q \in Nat /\ x <= h /\ h < x + n
    BY <2>1, Quotient
  <2> HIDE DEF q
  <2>3. x \in Nat
    BY <2>2
  <2> QED
    BY <2>2, <2>3
<1> HIDE DEF q
<1>2. q < K /\ x + n <= M /\ (q + 1) * n = x + n
  <2>1. ~(K <= q)
    <3> SUFFICES ASSUME K <= q
                 PROVE  FALSE
      OBVIOUS
    <3>1. K * n <= x
      BY <1>1, Times
    <3> DEFINE y == K * n
    <3>2. y <= x /\ y = M
      BY <3>1
    <3> HIDE DEF x, y
    <3> QED
      BY <1>1, <3>2
  <2>2. q + 1 \in Nat /\ q + 1 <= K /\ q <= q
    BY <1>1, <2>1
  <2>3. (q + 1) * n <= K * n
    BY <2>2, Times
  <2>4. (q + 1) * n = x + n
    BY <1>1, <2>2, Times
  <2> DEFINE z == (q + 1) * n
             y == K * n
  <2>5. z <= y /\ y = M /\ z = x + n
    BY <2>3, <2>4
  <2> HIDE DEF x, y, z
  <2>6. x + n <= M /\ q < K
    BY <1>1, <2>2, <2>5
  <2> QED
    BY <2>4, <2>6
<1>3. r \in 0 .. n - 1
  BY <1>1
<1> HIDE DEF x
<1>4. CASE r <= s - 1
  <2> DEFINE p == s - r
             y == h + p - 1
  <2>1. p \in 1 .. n /\ y = x + (s - 1) /\ y \in 0 .. M - 1 /\ s - 1 \in 0 .. n - 1
    BY <1>1, <1>2, <1>3, <1>4
  <2>2. y % M = y
    <3> HIDE DEF p, y
    <3> QED
      BY <2>1
  <2>3. y % n = s - 1
    <3> HIDE DEF p
    <3>1. y = q * n + (s - 1) /\ y \in Nat
      BY <2>1 DEF x
    <3> HIDE DEF y
    <3> QED
      BY <1>1, <2>1, <3>1, RemainderIs
  <2>4. (y % M) % n = s - 1
    BY <2>2, <2>3
  <2> HIDE DEF p
  <2> QED
    BY <2>1, <2>4
<1>5. CASE r > s - 1
  <2> DEFINE p == n + s - r
             y == h + p - 1
  <2>1. p \in 1 .. n /\ y = x + n + (s - 1) /\ y \in Nat /\ s - 1 \in 0 .. n - 1
    BY <1>1, <1>2, <1>3, <1>5
  <2>2. CASE x + n = M
    <3>1. y % M = s - 1
      <4>1. y \in Nat /\ M <= y /\ y < M + M /\ y - M = s - 1
        BY <1>1, <2>1, <2>2
      <4> HIDE DEF p, y
      <4>2. y % M = y - M
        BY <4>1
      <4> QED
        BY <4>1, <4>2
    <3>2. (s - 1) % n = s - 1
      BY <2>1
    <3>3. (y % M) % n = s - 1
      BY <3>1, <3>2
    <3> HIDE DEF p
    <3> QED
      BY <2>1, <3>3
  <2>3. CASE x + n < M
    <3>1. y < M
      <4>1. q + 1 < K
        <5>1. q + 1 = K => x + n = M
          BY <1>2
        <5> QED
          BY <1>1, <1>2, <2>3, <5>1
      <4>2. q + 2 \in Nat /\ q + 2 <= K /\ q + 1 \in Nat /\ q + 1 <= q + 2 /\ (q + 1) + 1 = q + 2
        BY <1>1, <4>1
      <4>3. (q + 2) * n <= K * n
        BY <4>2, Times
      <4>4. (q + 2) * n = (q + 1) * n + n
        BY <4>2, Times
      <4> DEFINE w == (q + 2) * n
                 z == (q + 1) * n
                 k == K * n
      <4>5. w <= k /\ w = z + n /\ k = M /\ z = x + n
        BY <1>2, <4>3, <4>4
      <4> HIDE DEF w, z, k
      <4> QED
        BY <1>1, <2>1, <4>5
    <3>2. y % M = y
      <4>1. y \in Nat /\ y < M
        BY <2>1, <3>1
      <4> HIDE DEF p, y
      <4> QED
        BY <4>1
    <3>3. y % n = s - 1
      <4>1. y = (q + 1) * n + (s - 1) /\ y \in Nat /\ q + 1 \in Nat
        <5> DEFINE z == (q + 1) * n
        <5>1. z = x + n
          BY <1>2
        <5> HIDE DEF z
        <5>2. y = z + (s - 1)
          BY <2>1, <5>1
        <5> QED
          BY <1>1, <2>1, <5>2 DEF z
      <4> HIDE DEF y
      <4> QED
        BY ZenonT(30), <2>1, <4>1, RemainderIs
    <3>4. (y % M) % n = s - 1
      BY <3>2, <3>3
    <3> HIDE DEF p
    <3> QED
      BY <2>1, <3>4
  <2>4. x \in Nat /\ x + n <= M
    BY <1>1, <1>2
  <2>5. x + n = M \/ x + n < M
    BY <2>4
  <2> QED
    BY <2>2, <2>3, <2>5
<1> QED
  BY <1>3, <1>4, <1>5

(* The slots in which a path is looked for.                                  *)
Probing(probes, n) ==
  /\ n \in Nat \ {0} /\ Len(probes) = n /\ DOMAIN probes = 1 .. n
  /\ \A p \in 1 .. n : probes[p] \in 1 .. n
  /\ \A s \in 1 .. n : \E p \in 1 .. n : probes[p] = s

LEMMA ProbesAre ==
  ASSUME NEW k \in 0 .. HashBits, NEW n, n = Power2[k], NEW h \in 0 .. Power2[HashBits] - 1
  PROVE  Probing(Probes(h, n), n)
<1> DEFINE M == Power2[HashBits]
           f == Probes(h, n)
<1>1. HashBits \in Nat /\ k <= HashBits /\ HashBits \in k .. HashBits
  BY Power2Is
<1>2. n \in Nat \ {0} /\ M \in Nat \ {0} /\ \E K \in Nat : M = K * n
  BY <1>1, PowersDivide
<1>0. n \in Nat \ {0}
  BY <1>2
<1>3. f = [p \in 1 .. n |-> (((h + p - 1) % M) % n) + 1]
  BY DEF Probes
<1>4. h \in Nat /\ h \in 0 .. M - 1
  BY <1>2
<1> HIDE DEF M, f
<1>5. ASSUME NEW p \in 1 .. n
      PROVE  f[p] \in 1 .. n
  <2> DEFINE y == h + p - 1
             z == y % M
  <2>1. y \in Nat
    BY <1>2, <1>4
  <2> HIDE DEF y
  <2>2. z \in Nat
    BY <1>2, <2>1
  <2> HIDE DEF z
  <2>3. z % n \in 0 .. n - 1
    BY <1>2, <2>2
  <2>4. f[p] = (z % n) + 1
    BY <1>3 DEF y, z
  <2> DEFINE w == z % n
  <2> HIDE DEF w
  <2>5. w + 1 \in 1 .. n
    BY <1>2, <2>3 DEF w
  <2> QED
    BY <2>4, <2>5 DEF w
<1>6. ASSUME NEW s \in 1 .. n
      PROVE  \E p \in 1 .. n : f[p] = s
  <2>1. PICK K \in Nat : M = K * n
    BY <1>2
  <2>2. PICK p \in 1 .. n : ((h + p - 1) % M) % n = s - 1
    <3>1. M \in Nat \ {0}
      BY <1>2
    <3>2. Landing(h, M, n, s)
      BY <1>0, <1>4, <2>1, <3>1, Reached
    <3> QED
      BY <3>2 DEF Landing
  <2> DEFINE w == ((h + p - 1) % M) % n
  <2>3. f[p] = w + 1
    BY <1>3
  <2>4. w = s - 1
    BY <2>2
  <2> HIDE DEF w
  <2>5. f[p] = s
    BY <1>0, <2>3, <2>4
  <2> QED
    BY <2>5
<1>7. f \in [1 .. n -> 1 .. n]
  BY <1>3, <1>5
<1>8. Len(f) = n /\ DOMAIN f = 1 .. n
  <2>1. f \in Seq(1 .. n)
    BY <1>2, <1>7
  <2> QED
    BY <1>2, <1>7, <2>1
<1> QED
  BY <1>0, <1>5, <1>6, <1>8 DEF f, Probing

(* There are more slots than files.                                          *)
LEMMA SlotCountIs ==
  ASSUME NEW m \in Nat, 2 * m <= Power2[HashBits]
  PROVE  /\ \E k \in 0 .. HashBits : SlotCount(m) = Power2[k]
         /\ SlotCount(m) \in Nat /\ m < SlotCount(m)
<1> DEFINE top == Max({2 * m, 1})
           All == {Power2[k] : k \in 0 .. HashBits}
           S == {n \in All : n >= top}
<1>1. HashBits \in 0 .. HashBits /\ \A k \in 0 .. HashBits : Power2[k] \in Nat \ {0}
  <2>1. HashBits \in Nat
    BY Power2Is
  <2>2. ASSUME NEW k \in 0 .. HashBits
        PROVE  Power2[k] \in Nat \ {0}
    <3>1. HashBits \in k .. HashBits
      BY <2>1
    <3> QED
      BY <3>1, PowersDivide
  <2> QED
    BY <2>1, <2>2
<1>2. top \in Nat /\ top >= 2 * m /\ top >= 1 /\ (top = 2 * m \/ top = 1)
  <2>1. 2 * m \in Nat /\ 1 \in Nat
    OBVIOUS
  <2>2. top = IF 2 * m >= 1 THEN 2 * m ELSE 1
    BY <2>1, GreaterOf
  <2> HIDE DEF top
  <2> QED
    BY <2>1, <2>2
<1> HIDE DEF top
<1>3. S \in SUBSET Nat /\ S # {}
  <2>1. Power2[HashBits] \in S
    BY <1>1, <1>2
  <2> QED
    BY <1>1, <2>1
<1>4. SlotCount(m) = Min(S)
  BY DEF SlotCount, top
<1>5. SlotCount(m) \in S
  <2> HIDE DEF S
  <2> QED
    BY <1>3, <1>4, MinIs
<1>6. SlotCount(m) \in All /\ SlotCount(m) >= top /\ SlotCount(m) \in Nat
  BY <1>3, <1>5
<1> QED
  BY <1>2, <1>6

-------------------------------------------------------------------------------
(* The path index.                                                          *)

(* Paths of files, in the order of the files.                                *)
PathList(paths, m) == \A g \in 1 .. m : paths[g] \in Paths

Entry(paths, g) == [hash |-> Hash[paths[g]], file |-> g]
Slot == [hash : Nat, file : Nat]

(* The file's entry is in one of the slots in which its path is looked for,  *)
(* and the slots before it are taken.                                        *)
EntryAt(slots, n, paths, g, j) ==
  LET probes == Probes(Hash[paths[g]], n) IN
  /\ slots[probes[j]] = Entry(paths, g)
  /\ \A i \in 1 .. j - 1 : slots[probes[i]] # EmptySlot

Reachable(slots, n, paths, g) == \E j \in 1 .. n : EntryAt(slots, n, paths, g, j)

(* No more slots are taken than there are files, and by their entries.        *)
AtMost(slots, n, m) ==
  \E Used : /\ IsFiniteSet(Used) /\ Cardinality(Used) <= m
            /\ \A s \in (1 .. n) \ Used : slots[s] = EmptySlot

Indexed(slots, n, paths, m) ==
  /\ slots \in [1 .. n -> Slot] /\ AtMost(slots, n, m)
  /\ \A s \in 1 .. n : slots[s] = EmptySlot \/ \E g \in 1 .. m : slots[s] = Entry(paths, g)
  /\ \A g \in 1 .. m : Reachable(slots, n, paths, g)

LEMMA EmptySlotLeft ==
  ASSUME NEW n \in Nat, NEW m \in Nat, m < n, NEW slots, AtMost(slots, n, m)
  PROVE  \E s \in 1 .. n : slots[s] = EmptySlot
<1>1. PICK Used : /\ IsFiniteSet(Used) /\ Cardinality(Used) <= m
                  /\ \A s \in (1 .. n) \ Used : slots[s] = EmptySlot
  BY DEF AtMost
<1>2. ~(1 .. n \subseteq Used)
  <2> SUFFICES ASSUME 1 .. n \in SUBSET Used
               PROVE  FALSE
    OBVIOUS
  <2>1. Cardinality(1 .. n) <= Cardinality(Used)
    BY <1>1, FS_Subset
  <2>2. Cardinality(1 .. n) = n
    <3>1. Cardinality(1 .. n) = IF 1 > n THEN 0 ELSE n - 1 + 1
      BY FS_Interval
    <3> QED
      BY <3>1
  <2>3. Cardinality(Used) \in Nat
    BY <1>1, FS_CardinalityType
  <2> QED
    BY <1>1, <2>1, <2>2, <2>3
<1> QED
  BY <1>1, <1>2

(* The slot in which the next file is put.                                   *)
FreeSlot(slots, n, hash) ==
  LET probes == Probes(hash, n) IN probes[SelectInSeq(probes, LAMBDA s : slots[s] = EmptySlot)]

PlaceNext(slots, n, paths, f) ==
  [slots EXCEPT ![FreeSlot(slots, n, Hash[paths[f]])] = Entry(paths, f)]

LEMMA HashIs ==
  ASSUME NEW p \in Paths
  PROVE  Hash[p] \in 0 .. Power2[HashBits] - 1 /\ Hash[p] \in Nat
<1>1. Hash[p] \in 0 .. Power2[HashBits] - 1
  BY CatalogAssumption
<1>2. Power2[HashBits] \in Nat
  <2>1. HashBits \in 0 .. HashBits /\ HashBits \in HashBits .. HashBits
    BY Power2Is
  <2> QED
    BY <2>1, PowersDivide
<1> QED
  BY <1>1, <1>2

LEMMA FreeSlotIs ==
  ASSUME NEW k \in 0 .. HashBits, NEW n, n = Power2[k], NEW p \in Paths,
         NEW slots, \E s \in 1 .. n : slots[s] = EmptySlot
  PROVE  \E j \in 1 .. n :
           /\ FreeSlot(slots, n, Hash[p]) = Probes(Hash[p], n)[j]
           /\ slots[Probes(Hash[p], n)[j]] = EmptySlot
           /\ \A i \in 1 .. j - 1 : slots[Probes(Hash[p], n)[i]] # EmptySlot
<1> DEFINE probes == Probes(Hash[p], n)
           I == {i \in 1 .. Len(probes) : slots[probes[i]] = EmptySlot}
           j == SelectInSeq(probes, LAMBDA s : slots[s] = EmptySlot)
<1>1. /\ n \in Nat \ {0} /\ Len(probes) = n
      /\ \A s \in 1 .. n : \E i \in 1 .. n : probes[i] = s
  <2>1. Hash[p] \in 0 .. Power2[HashBits] - 1
    BY HashIs
  <2>2. Probing(probes, n)
    <3> HIDE DEF probes
    <3> QED
      BY <2>1, ProbesAre DEF probes
  <2> QED
    BY <2>2 DEF Probing
<1>2. j = IF I # {} THEN Min(I) ELSE 0
  BY DEF SelectInSeq
<1>3. FreeSlot(slots, n, Hash[p]) = probes[j]
  BY DEF FreeSlot
<1> HIDE DEF probes, j
<1>4. I # {} /\ I \in SUBSET Nat
  <2>1. PICK s \in 1 .. n : slots[s] = EmptySlot
    OBVIOUS
  <2>2. PICK i \in 1 .. n : probes[i] = s
    BY <1>1
  <2>3. i \in I
    BY <1>1, <2>1, <2>2
  <2>4. \A l \in I : l \in Nat
    <3>1. \A l \in 1 .. Len(probes) : l \in Nat
      BY <1>1
    <3> QED
      BY <3>1
  <2> HIDE DEF I
  <2> QED
    BY <2>3, <2>4
<1>5. j \in I /\ \A i \in I : j <= i
  <2>1. Min(I) \in I /\ \A i \in I : Min(I) <= i
    <3> HIDE DEF I
    <3> QED
      BY <1>4, MinIs
  <2> QED
    BY <1>2, <1>4, <2>1
<1>6. /\ j \in 1 .. n /\ slots[probes[j]] = EmptySlot
      /\ \A i \in 1 .. j - 1 : slots[probes[i]] # EmptySlot
  <2>1. j \in 1 .. n /\ slots[probes[j]] = EmptySlot
    BY <1>1, <1>5
  <2>2. ASSUME NEW i \in 1 .. j - 1
        PROVE  slots[probes[i]] # EmptySlot
    <3>1. i \in 1 .. n /\ ~(j <= i)
      BY <1>1, <2>1
    <3>2. i \notin I
      BY <1>5, <3>1
    <3> QED
      BY <1>1, <3>1, <3>2
  <2> QED
    BY <2>1, <2>2
<1> QED
  BY <1>3, <1>6 DEF probes

LEMMA PlaceNextIs ==
  ASSUME NEW k \in 0 .. HashBits, NEW n, n = Power2[k], NEW m \in Nat, m < n,
         NEW paths, PathList(paths, m + 1), NEW slots, Indexed(slots, n, paths, m)
  PROVE  Indexed(PlaceNext(slots, n, paths, m + 1), n, paths, m + 1)
<1> DEFINE path == paths[m + 1]
           probes == Probes(Hash[path], n)
           free == FreeSlot(slots, n, Hash[path])
           entry == Entry(paths, m + 1)
           next == PlaceNext(slots, n, paths, m + 1)
<1>0. path \in Paths /\ Hash[path] \in 0 .. Power2[HashBits] - 1 /\ Hash[path] \in Nat
  <2>1. path \in Paths
    BY DEF PathList
  <2> QED
    BY <2>1, HashIs
<1>1. n \in Nat \ {0} /\ \A p \in 1 .. n : probes[p] \in 1 .. n
  <2>1. Probing(probes, n)
    <3> HIDE DEF path
    <3> QED
      BY <1>0, ProbesAre
  <2> QED
    BY <2>1 DEF Probing
<1>2. PICK j \in 1 .. n : /\ free = probes[j] /\ slots[probes[j]] = EmptySlot
                          /\ \A i \in 1 .. j - 1 : slots[probes[i]] # EmptySlot
  <2>1. \E s \in 1 .. n : slots[s] = EmptySlot
    BY <1>1, EmptySlotLeft DEF Indexed
  <2> HIDE DEF path
  <2> QED
    BY <1>0, <2>1, FreeSlotIs
<1>3. next = [slots EXCEPT ![free] = entry]
  BY DEF PlaceNext
<1>4. entry \in Slot /\ entry # EmptySlot /\ entry.file = m + 1
  BY <1>0 DEF Entry, Slot, EmptySlot
<1>5. slots \in [1 .. n -> Slot] /\ free \in 1 .. n /\ slots[free] = EmptySlot
  BY <1>1, <1>2 DEF Indexed
<1> HIDE DEF free, entry, next, probes, path
<1>6. /\ next \in [1 .. n -> Slot] /\ next[free] = entry
      /\ \A s \in 1 .. n : s # free => next[s] = slots[s]
  BY <1>3, <1>4, <1>5
<1>7. \A s \in 1 .. n : slots[s] # EmptySlot => next[s] = slots[s]
  BY <1>5, <1>6
<1>8. AtMost(next, n, m + 1)
  <2>1. PICK Used : /\ IsFiniteSet(Used) /\ Cardinality(Used) <= m
                    /\ \A s \in (1 .. n) \ Used : slots[s] = EmptySlot
    BY DEF Indexed, AtMost
  <2> DEFINE More == Used \cup {free}
  <2>2. IsFiniteSet(More) /\ Cardinality(More) <= m + 1
    <3>1. IsFiniteSet(More) /\ Cardinality(Used) \in Nat
          /\ Cardinality(More) = IF free \in Used THEN Cardinality(Used) ELSE Cardinality(Used) + 1
      BY <2>1, FS_AddElement, FS_CardinalityType
    <3> QED
      BY <2>1, <3>1
  <2>3. \A s \in (1 .. n) \ More : next[s] = EmptySlot
    BY <1>6, <2>1
  <2> HIDE DEF More
  <2> QED
    BY <2>2, <2>3 DEF AtMost
<1>9. ASSUME NEW s \in 1 .. n
      PROVE  next[s] = EmptySlot \/ \E g \in 1 .. m + 1 : next[s] = Entry(paths, g)
  <2>1. CASE s = free
    <3>1. m + 1 \in 1 .. m + 1 /\ next[s] = Entry(paths, m + 1)
      BY <1>6, <2>1 DEF entry
    <3> QED
      BY <3>1
  <2>2. CASE s # free
    <3>1. next[s] = slots[s] /\ (slots[s] = EmptySlot \/ \E g \in 1 .. m : slots[s] = Entry(paths, g))
      BY <1>6, <2>2 DEF Indexed
    <3>2. \A g \in 1 .. m : g \in 1 .. m + 1
      OBVIOUS
    <3> QED
      BY <3>1, <3>2
  <2> QED
    BY <2>1, <2>2
<1>10. ASSUME NEW g \in 1 .. m + 1
       PROVE  Reachable(next, n, paths, g)
  <2>1. CASE g = m + 1
    <3>1. next[probes[j]] = entry
      BY <1>2, <1>6
    <3>2. \A i \in 1 .. j - 1 : next[probes[i]] # EmptySlot
      <4>1. \A i \in 1 .. j - 1 : i \in 1 .. n
        BY <1>1
      <4> QED
        BY <1>1, <1>2, <1>7, <4>1
    <3>3. EntryAt(next, n, paths, m + 1, j)
      BY <3>1, <3>2 DEF EntryAt, probes, entry, path
    <3> QED
      BY <2>1, <3>3 DEF Reachable
  <2>2. CASE g \in 1 .. m
    <3> DEFINE seen == Probes(Hash[paths[g]], n)
    <3>1. \A p \in 1 .. n : seen[p] \in 1 .. n
      <4>1. paths[g] \in Paths
        BY DEF PathList
      <4>2. Hash[paths[g]] \in 0 .. Power2[HashBits] - 1
        BY <4>1, HashIs
      <4>3. Probing(seen, n)
        BY <4>2, ProbesAre
      <4> QED
        BY <4>3 DEF Probing
    <3>2. PICK i \in 1 .. n : EntryAt(slots, n, paths, g, i)
      BY <2>2 DEF Indexed, Reachable
    <3>3. /\ slots[seen[i]] = Entry(paths, g)
          /\ \A l \in 1 .. i - 1 : slots[seen[l]] # EmptySlot
      BY <3>2 DEF EntryAt
    <3>4. Entry(paths, g) # EmptySlot
      <4>1. Entry(paths, g).file = g /\ EmptySlot.file = 0 /\ g # 0
        BY <2>2 DEF Entry, EmptySlot
      <4> QED
        BY <4>1
    <3> HIDE DEF seen
    <3>5. next[seen[i]] = Entry(paths, g)
      BY <1>7, <3>1, <3>3, <3>4
    <3>6. \A l \in 1 .. i - 1 : next[seen[l]] # EmptySlot
      <4>1. \A l \in 1 .. i - 1 : l \in 1 .. n
        BY <1>1
      <4> QED
        BY <1>7, <3>1, <3>3, <4>1
    <3>7. EntryAt(next, n, paths, g, i)
      BY <3>5, <3>6 DEF EntryAt, seen
    <3> QED
      BY <3>7 DEF Reachable
  <2> QED
    BY <2>1, <2>2
<1>11. Indexed(next, n, paths, m + 1)
  BY <1>6, <1>8, <1>9, <1>10 DEF Indexed
<1> QED
  BY <1>11 DEF next

NoneTaken(n) == [s \in 1 .. n |-> EmptySlot]

IsPlaced(f, paths, n, N) ==
  f = [m \in 0 .. N |-> IF m = 0 THEN NoneTaken(n) ELSE PlaceNext(f[m - 1], n, paths, m)]

LEMMA PlacedExists ==
  ASSUME NEW paths, NEW n, NEW N \in Nat
  PROVE  \E f : IsPlaced(f, paths, n, N)
<1> DEFINE S == {m \in Nat : \E f : IsPlaced(f, paths, n, m)}
<1>1. 0 \in S
  <2>1. IsPlaced([m \in 0 .. 0 |-> NoneTaken(n)], paths, n, 0)
    BY DEF IsPlaced
  <2> QED
    BY <2>1
<1>2. ASSUME NEW m \in 0 .. N - 1, m \in S
      PROVE  m + 1 \in S
  <2>1. PICK f : IsPlaced(f, paths, n, m)
    BY <1>2
  <2> DEFINE g == [i \in 0 .. m + 1 |-> IF i = m + 1 THEN PlaceNext(f[m], n, paths, m + 1) ELSE f[i]]
  <2>2. IsPlaced(g, paths, n, m + 1)
    BY <2>1 DEF IsPlaced
  <2> QED
    BY <2>2
<1> HIDE DEF S
<1>3. N \in S
  BY <1>1, <1>2, UpTo
<1> QED
  BY <1>3 DEF S

LEMMA SlotsAre ==
  ASSUME NEW paths, Len(paths) \in Nat, PathList(paths, Len(paths)),
         2 * Len(paths) <= Power2[HashBits]
  PROVE  \E k \in 0 .. HashBits :
           /\ SlotCount(Len(paths)) = Power2[k] /\ Len(paths) < Power2[k]
           /\ Indexed(BuildPathSlots(paths), Power2[k], paths, Len(paths))
<1> DEFINE N == Len(paths)
           n == SlotCount(N)
           f == CHOOSE g : IsPlaced(g, paths, n, N)
           S == {m \in 0 .. N : Indexed(f[m], n, paths, m)}
<1>1. PICK k \in 0 .. HashBits : n = Power2[k]
  BY SlotCountIs
<1>2. n \in Nat /\ N < n
  BY SlotCountIs
<1>3. BuildPathSlots(paths) = f[N]
  BY DEF BuildPathSlots, IsPlaced, NoneTaken, PlaceNext, FreeSlot, Entry
<1>4. IsPlaced(f, paths, n, N)
  BY PlacedExists
<1> HIDE DEF n, f
<1>5. f[0] = NoneTaken(n) /\ \A m \in 1 .. N : f[m] = PlaceNext(f[m - 1], n, paths, m)
  <2>1. 0 \in 0 .. N /\ \A m \in 1 .. N : m \in 0 .. N /\ m # 0
    OBVIOUS
  <2> QED
    BY <1>4, <2>1 DEF IsPlaced
<1>6. 0 \in S
  <2>1. AtMost(f[0], n, 0)
    <3>1. IsFiniteSet({}) /\ Cardinality({}) <= 0
      BY FS_EmptySet
    <3>2. \A s \in (1 .. n) \ {} : f[0][s] = EmptySlot
      BY <1>5 DEF NoneTaken
    <3> QED
      BY <3>1, <3>2 DEF AtMost
  <2>2. f[0] \in [1 .. n -> Slot] /\ \A s \in 1 .. n : f[0][s] = EmptySlot
    <3>1. EmptySlot \in Slot
      BY DEF EmptySlot, Slot
    <3> QED
      BY <1>5, <3>1 DEF NoneTaken
  <2>3. Indexed(f[0], n, paths, 0)
    BY <2>1, <2>2 DEF Indexed
  <2> QED
    BY <2>3
<1>7. ASSUME NEW m \in 0 .. N - 1, m \in S
      PROVE  m + 1 \in S
  <2>1. m \in Nat /\ m < n /\ m + 1 \in 1 .. N /\ (m + 1) - 1 = m
    BY <1>2
  <2>2. Indexed(f[m], n, paths, m) /\ f[m + 1] = PlaceNext(f[m], n, paths, m + 1)
    BY <1>5, <1>7, <2>1
  <2>3. PathList(paths, m + 1)
    BY <2>1 DEF PathList
  <2>4. Indexed(PlaceNext(f[m], n, paths, m + 1), n, paths, m + 1)
    BY <1>1, <2>1, <2>2, <2>3, PlaceNextIs
  <2> QED
    BY <2>1, <2>2, <2>4
<1> HIDE DEF S
<1>8. N \in S
  BY <1>6, <1>7, UpTo
<1>9. Indexed(BuildPathSlots(paths), n, paths, N)
  BY <1>3, <1>8 DEF S
<1> QED
  BY <1>1, <1>2, <1>9 DEF n

(* Two paths of the same bytes are the same.                                 *)
LEMMA SamePath ==
  ASSUME NEW p \in Paths, NEW q \in Paths, PathBytes(p) = PathBytes(q)
  PROVE  p = q
<1>1. PathLength[p] \in Nat \ {0} /\ \A i \in 1 .. PathLength[p] : PathBytes(p)[i] = <<p, i>>
  BY PathBytesAre
<1>2. PathLength[q] \in Nat \ {0} /\ \A i \in 1 .. PathLength[q] : PathBytes(q)[i] = <<q, i>>
  BY PathBytesAre
<1>3. <<p, 1>> = <<q, 1>>
  BY <1>1, <1>2
<1> QED
  BY <1>3

LEMMA PathOfIs ==
  ASSUME NEW out, OutRight(out), NEW cat, cat.pool = out.pool,
         NEW src, SourceFile(src), NEW file, Recorded(out, src, file)
  PROVE  PathOf(cat, file) = PathBytes(src.path)
<1> DEFINE at == file.pathAt
           len == PathLength[src.path]
           slice == SubSeq(out.pool, at + 1, at + len)
           path == PathBytes(src.path)
<1>1. /\ path \in Seq(PathByte) /\ Len(path) = len /\ len \in Nat
      /\ \A i \in 1 .. len : path[i] = <<src.path, i>>
  BY PathBytesAre DEF SourceFile
<1>2. /\ file.pathLen = len /\ at \in Nat /\ at + len <= Len(out.pool)
      /\ \A i \in 1 .. len : out.pool[at + i] = <<src.path, i>>
  BY DEF Recorded, PathFrom
<1>3. out.pool \in Seq(PathByte)
  BY DEF OutRight, OutType
<1>4. PathOf(cat, file) = slice
  BY <1>2 DEF PathOf
<1> DEFINE b == at + len
<1>5. b \in Nat /\ at <= b /\ b - at = len
  BY <1>1, <1>2
<1>6. /\ slice \in Seq(PathByte) /\ Len(slice) = len
      /\ \A i \in 1 .. len : slice[i] = out.pool[at + i]
  <2> DEFINE cut == SubSeq(out.pool, at + 1, b)
  <2>1. /\ cut \in Seq(PathByte) /\ Len(cut) = b - at
        /\ \A i \in 1 .. (b - at) : cut[i] = out.pool[at + i]
    <3> HIDE DEF b, at, len
    <3> QED
      BY <1>2, <1>3, <1>5, Slice DEF b
  <2> QED
    BY <1>5, <2>1
<1> HIDE DEF path, slice, len, at
<1>7. \A i \in 1 .. len : slice[i] = path[i]
  BY <1>1, <1>2, <1>6
<1>8. slice = path
  BY <1>1, <1>6, <1>7, SeqEqual
<1> QED
  BY <1>4, <1>8 DEF path

(* What the runtime has of a tree's path index.                              *)
PathIndex(cat, t, n) ==
  /\ n \in Nat /\ Len(t) < n /\ Len(cat.slots) = n /\ \E k \in 0 .. HashBits : n = Power2[k]
  /\ \A s \in 1 .. n :
       cat.slots[s] = EmptySlot
       \/ \E g \in 1 .. Len(t) : cat.slots[s] = [hash |-> Hash[t[g].path], file |-> g]
  /\ \E s \in 1 .. n : cat.slots[s] = EmptySlot
  /\ \A g \in 1 .. Len(t) : \E j \in 1 .. n :
       LET probes == Probes(Hash[t[g].path], n) IN
       /\ cat.slots[probes[j]] = [hash |-> Hash[t[g].path], file |-> g]
       /\ \A i \in 1 .. j - 1 : cat.slots[probes[i]] # EmptySlot
  /\ \A f \in 1 .. Len(t) : PathOf(cat, cat.files[f]) = PathBytes(t[f].path)

LEMMA PathIndexIs ==
  ASSUME NEW t, SourceTree(t), Indexable(t), NEW cat, cat = WriteSnapshot(t)
  PROVE  \E n \in Nat : PathIndex(cat, t, n)
<1> DEFINE out == Built(t)
           paths == out.paths
           N == Len(t)
           slots == BuildPathSlots(paths)
<1>1. CatalogOf(cat, out) /\ FirstRecorded(out, t, N) /\ OutRight(out) /\ N \in Nat
  BY SnapshotIs DEF FirstRecorded, SourceTree
<1> HIDE DEF out
<1>2. /\ Len(paths) = N /\ \A g \in 1 .. N : paths[g] = t[g].path
      /\ cat.slots = slots /\ cat.files = out.files /\ cat.pool = out.pool
  BY <1>1 DEF FirstRecorded, CatalogOf
<1>3. PathList(paths, N)
  BY <1>2 DEF PathList, SourceTree, SourceFile
<1> HIDE DEF N, paths
<1>4. PICK k \in 0 .. HashBits :
        /\ SlotCount(N) = Power2[k] /\ N < Power2[k]
        /\ Indexed(slots, Power2[k], paths, N)
  <2>1. 2 * N <= Power2[HashBits]
    BY DEF Indexable, N
  <2> HIDE DEF slots
  <2> QED
    BY <1>1, <1>2, <1>3, <2>1, SlotsAre DEF slots
<1> HIDE DEF slots
<1> DEFINE n == Power2[k]
<1>5. n \in Nat \ {0}
  <2>1. HashBits \in k .. HashBits
    BY Power2Is
  <2> QED
    BY <2>1, PowersDivide
<1> HIDE DEF n
<1>6. Indexed(slots, n, paths, N) /\ N < n /\ AtMost(slots, n, N) /\ slots \in [1 .. n -> Slot]
  BY <1>4 DEF n, Indexed
<1>7. Len(slots) = n
  <2>1. slots \in Seq(Slot)
    BY <1>5, <1>6
  <2> QED
    BY <1>5, <1>6, <2>1
<1>8. ASSUME NEW s \in 1 .. n
      PROVE  cat.slots[s] = EmptySlot
             \/ \E g \in 1 .. N : cat.slots[s] = [hash |-> Hash[t[g].path], file |-> g]
  <2>1. slots[s] = EmptySlot \/ \E g \in 1 .. N : slots[s] = Entry(paths, g)
    BY <1>6 DEF Indexed
  <2> QED
    BY <1>2, <2>1 DEF Entry
<1>9. \E s \in 1 .. n : cat.slots[s] = EmptySlot
  BY <1>1, <1>2, <1>5, <1>6, EmptySlotLeft
<1>10. ASSUME NEW g \in 1 .. N
       PROVE  \E j \in 1 .. n :
                LET probes == Probes(Hash[t[g].path], n) IN
                /\ cat.slots[probes[j]] = [hash |-> Hash[t[g].path], file |-> g]
                /\ \A i \in 1 .. j - 1 : cat.slots[probes[i]] # EmptySlot
  <2>1. PICK j \in 1 .. n : EntryAt(slots, n, paths, g, j)
    BY <1>6 DEF Indexed, Reachable
  <2>2. paths[g] = t[g].path /\ cat.slots = slots
    BY <1>2
  <2> QED
    BY <2>1, <2>2 DEF EntryAt, Entry
<1>11. ASSUME NEW f \in 1 .. N
       PROVE  PathOf(cat, cat.files[f]) = PathBytes(t[f].path)
  <2> DEFINE src == t[f]
             file == out.files[f]
  <2>1. SourceFile(src) /\ Recorded(out, src, file) /\ cat.files[f] = file
    BY <1>1, <1>2 DEF SourceTree, FirstRecorded, N
  <2> HIDE DEF src, file
  <2>2. PathOf(cat, file) = PathBytes(src.path)
    BY <1>1, <1>2, <2>1, PathOfIs
  <2> QED
    BY <2>1, <2>2 DEF src
<1>12. n \in Nat /\ Len(cat.slots) = n /\ \E i \in 0 .. HashBits : n = Power2[i]
  BY <1>2, <1>5, <1>7 DEF n
<1>13. PathIndex(cat, t, n)
  BY <1>6, <1>8, <1>9, <1>10, <1>11, <1>12 DEF PathIndex, N
<1> QED
  BY <1>5, <1>13

(* A path that was packed is found at its file, and no other path is found.  *)
LEMMA PathFound ==
  ASSUME NEW t, SourceTree(t), Indexable(t), NEW cat, NEW n, PathIndex(cat, t, n),
         NEW path \in Paths
  PROVE  /\ \A f \in 1 .. Len(t) : t[f].path = path => FindFile(cat, path) = f
         /\ (\A f \in 1 .. Len(t) : t[f].path # path) => FindFile(cat, path) = 0
<1> DEFINE probes == Probes(Hash[path], n)
           Stops(i) == cat.slots[probes[i]].file = 0 \/ IsEntryOf(cat, cat.slots[probes[i]], path)
           I == {i \in 1 .. Len(probes) : Stops(i)}
           stop == SelectInSeq(probes, LAMBDA s :
                     cat.slots[s].file = 0 \/ IsEntryOf(cat, cat.slots[s], path))
           N == Len(t)
<1>0. N \in Nat /\ DOMAIN t = 1 .. N /\ \A f \in 1 .. N : t[f].path \in Paths
  BY DEF SourceTree, SourceFile
<1>1. Len(cat.slots) = n /\ n \in Nat
  BY DEF PathIndex
<1>2. Probing(probes, n)
  <2>1. PICK k \in 0 .. HashBits : n = Power2[k]
    BY DEF PathIndex
  <2>2. Hash[path] \in 0 .. Power2[HashBits] - 1
    BY HashIs
  <2> QED
    BY <2>1, <2>2, ProbesAre
<1>3. stop = IF I # {} THEN Min(I) ELSE 0
  BY DEF SelectInSeq
<1>4. FindFile(cat, path) = IF stop = 0 THEN NoEmptySlot ELSE cat.slots[probes[stop]].file
  BY <1>1 DEF FindFile
<1> HIDE DEF probes, stop, N
<1>5. Len(probes) = n /\ \A i \in 1 .. n : probes[i] \in 1 .. n
  BY <1>2 DEF Probing
<1>6. ASSUME NEW i \in 1 .. n
      PROVE  /\ cat.slots[probes[i]] = EmptySlot => Stops(i)
             /\ cat.slots[probes[i]] # EmptySlot =>
                  \E g \in 1 .. N : /\ cat.slots[probes[i]] = [hash |-> Hash[t[g].path], file |-> g]
                                    /\ Stops(i) <=> t[g].path = path
  <2> DEFINE slot == cat.slots[probes[i]]
  <2>1. slot = EmptySlot => slot.file = 0
    BY DEF EmptySlot
  <2>2. ASSUME slot # EmptySlot
        PROVE  \E g \in 1 .. N : /\ slot = [hash |-> Hash[t[g].path], file |-> g]
                                 /\ Stops(i) <=> t[g].path = path
    <3>1. PICK g \in 1 .. N : slot = [hash |-> Hash[t[g].path], file |-> g]
      BY <1>5, <2>2 DEF PathIndex, N
    <3>2. slot.file = g /\ g # 0 /\ slot.hash = Hash[t[g].path]
      BY <3>1
    <3>3. PathOf(cat, cat.files[g]) = PathBytes(t[g].path)
      BY DEF PathIndex, N
    <3>4. IsEntryOf(cat, slot, path) <=> t[g].path = path
      <4>1. IsEntryOf(cat, slot, path) <=>
              Hash[t[g].path] = Hash[path] /\ PathBytes(t[g].path) = PathBytes(path)
        BY <3>2, <3>3 DEF IsEntryOf
      <4>2. PathBytes(t[g].path) = PathBytes(path) => t[g].path = path
        BY <1>0, SamePath
      <4> QED
        BY <4>1, <4>2
    <3>5. Stops(i) <=> t[g].path = path
      BY <3>2, <3>4
    <3> QED
      BY <3>1, <3>5
  <2> QED
    BY <2>1, <2>2
<1>7. I \in SUBSET Nat /\ I # {}
  <2>1. PICK s \in 1 .. n : cat.slots[s] = EmptySlot
    BY DEF PathIndex
  <2>2. PICK i \in 1 .. n : probes[i] = s
    BY <1>2 DEF Probing
  <2>3. i \in I
    BY <1>5, <1>6, <2>1, <2>2
  <2>4. \A l \in I : l \in Nat
    <3>1. \A l \in 1 .. n : l \in Nat
      BY <1>1
    <3> QED
      BY <1>5, <3>1
  <2> HIDE DEF I
  <2> QED
    BY <2>3, <2>4
<1>8. stop \in I /\ \A i \in I : stop <= i
  <2>1. Min(I) \in I /\ \A i \in I : Min(I) <= i
    <3> HIDE DEF I
    <3> QED
      BY <1>7, MinIs
  <2> QED
    BY <1>3, <1>7, <2>1
<1>9. stop \in 1 .. n /\ stop # 0 /\ Stops(stop)
  BY <1>1, <1>5, <1>8
<1> DEFINE last == cat.slots[probes[stop]]
<1>10. FindFile(cat, path) = last.file
  BY <1>4, <1>9
<1>11. last = EmptySlot \/ \E g \in 1 .. N : last.file = g /\ t[g].path = path
  <2>1. CASE last # EmptySlot
    <3>1. PICK g \in 1 .. N : /\ last = [hash |-> Hash[t[g].path], file |-> g]
                              /\ Stops(stop) <=> t[g].path = path
      BY <1>6, <1>9, <2>1
    <3>2. last.file = g /\ t[g].path = path
      BY <1>9, <3>1
    <3> QED
      BY <3>2
  <2> QED
    BY <2>1
<1>12. ASSUME NEW f \in 1 .. N, t[f].path = path
       PROVE  last.file = f
  <2>1. PICK j \in 1 .. n :
          /\ cat.slots[probes[j]] = [hash |-> Hash[path], file |-> f]
          /\ \A i \in 1 .. j - 1 : cat.slots[probes[i]] # EmptySlot
    BY <1>12 DEF PathIndex, probes, N
  <2>2. j \in I
    <3>1. cat.slots[probes[j]].file = f /\ f # 0
      BY <2>1
    <3>2. cat.slots[probes[j]] # EmptySlot
      BY <3>1 DEF EmptySlot
    <3>3. PICK g \in 1 .. N : /\ cat.slots[probes[j]] = [hash |-> Hash[t[g].path], file |-> g]
                              /\ Stops(j) <=> t[g].path = path
      BY <1>6, <3>2
    <3>4. g = f
      BY <3>1, <3>3
    <3> QED
      BY <1>5, <1>12, <3>3, <3>4
  <2>3. stop <= j
    BY <1>8, <2>2
  <2>4. last # EmptySlot
    <3>1. CASE stop = j
      <4>1. last.file = f /\ f # 0
        BY <2>1, <3>1
      <4> QED
        BY <4>1 DEF EmptySlot
    <3>2. CASE stop < j
      <4>1. stop \in 1 .. j - 1
        BY <1>1, <1>9, <3>2
      <4> QED
        BY <2>1, <4>1
    <3>3. stop = j \/ stop < j
      BY <1>1, <1>9, <2>3
    <3> QED
      BY <3>1, <3>2, <3>3
  <2>5. PICK g \in 1 .. N : last.file = g /\ t[g].path = path
    BY <1>11, <2>4
  <2>6. g = f
    BY <1>12, <2>5 DEF Indexable, N
  <2> QED
    BY <2>5, <2>6
<1>13. ASSUME \A f \in 1 .. N : t[f].path # path
       PROVE  last.file = 0
  <2>1. last = EmptySlot
    BY <1>11, <1>13
  <2> QED
    BY <2>1 DEF EmptySlot
<1> QED
  BY <1>10, <1>12, <1>13 DEF N

-------------------------------------------------------------------------------
(* The blocks that may be used again.                                       *)

IsFlat(f, pieces, N) ==
  f = [i \in 1 .. N |-> IF i = 1 THEN pieces[i] ELSE f[i - 1] \o pieces[i]]

LEMMA FlatExists ==
  ASSUME NEW pieces, NEW N \in Nat
  PROVE  \E f : IsFlat(f, pieces, N)
<1> DEFINE S == {n \in Nat : \E f : IsFlat(f, pieces, n)}
<1>1. 0 \in S
  <2>1. IsFlat([i \in 1 .. 0 |-> 0], pieces, 0)
    BY DEF IsFlat
  <2> QED
    BY <2>1
<1>2. ASSUME NEW n \in 0 .. N - 1, n \in S
      PROVE  n + 1 \in S
  <2>1. PICK f : IsFlat(f, pieces, n)
    BY <1>2
  <2> DEFINE g == [i \in 1 .. n + 1 |->
                     IF i = n + 1 THEN (IF n = 0 THEN pieces[1] ELSE f[n] \o pieces[n + 1]) ELSE f[i]]
  <2>2. n \in Nat /\ \A i \in 1 .. n : f[i] = IF i = 1 THEN pieces[i] ELSE f[i - 1] \o pieces[i]
    <3>1. n \in Nat
      OBVIOUS
    <3>2. f = [i \in 1 .. n |-> IF i = 1 THEN pieces[i] ELSE f[i - 1] \o pieces[i]]
      BY <2>1 DEF IsFlat
    <3> QED
      BY <3>1, <3>2
  <2>3. \A i \in 1 .. n + 1 : g[i] = IF i = 1 THEN pieces[i] ELSE g[i - 1] \o pieces[i]
    <3>1. ASSUME NEW i \in 1 .. n + 1, i # n + 1
          PROVE  g[i] = IF i = 1 THEN pieces[i] ELSE g[i - 1] \o pieces[i]
      <4>1. i \in 1 .. n /\ (i # 1 => i - 1 \in 1 .. n + 1 /\ i - 1 # n + 1)
        BY <2>2, <3>1
      <4> QED
        BY <2>2, <3>1, <4>1
    <3>2. g[n + 1] = IF n + 1 = 1 THEN pieces[n + 1] ELSE g[(n + 1) - 1] \o pieces[n + 1]
      <4>1. n + 1 = 1 <=> n = 0
        BY <2>2
      <4>2. n # 0 => n \in 1 .. n + 1 /\ n # n + 1 /\ (n + 1) - 1 = n
        BY <2>2
      <4> QED
        BY <2>2, <4>1, <4>2
    <3> QED
      BY <3>1, <3>2
  <2> DEFINE h == [i \in 1 .. n + 1 |-> IF i = 1 THEN pieces[i] ELSE g[i - 1] \o pieces[i]]
  <2>4. g = h
    BY <2>3
  <2> HIDE DEF g
  <2>5. IsFlat(g, pieces, n + 1)
    BY <2>4 DEF IsFlat
  <2> QED
    BY <2>2, <2>5
<1> HIDE DEF S
<1>3. N \in S
  BY <1>1, <1>2, UpTo
<1> QED
  BY <1>3 DEF S

(* A slice with the slice that follows it.                                   *)
LEMMA SlicesJoin ==
  ASSUME NEW S, NEW seq \in Seq(S), NEW a \in Nat, NEW b \in Nat, a <= b,
         NEW q \in Seq(S), IsSlice(q, seq, 0, a), NEW r \in Seq(S), IsSlice(r, seq, a, b)
  PROVE  q \o r \in Seq(S) /\ IsSlice(q \o r, seq, 0, b)
<1>1. /\ Len(q) = a /\ \A i \in 1 .. a : q[i] = seq[i]
      /\ Len(r) = b - a /\ \A i \in 1 .. b - a : r[i] = seq[a + i]
  BY DEF IsSlice
<1>2. /\ q \o r \in Seq(S) /\ Len(q \o r) = Len(q) + Len(r)
      /\ \A i \in 1 .. Len(q) + Len(r) :
           (q \o r)[i] = IF i <= Len(q) THEN q[i] ELSE r[i - Len(q)]
  <2>1. q \o r \in Seq(S) /\ Len(q \o r) = Len(q) + Len(r)
    BY ConcatProperties
  <2>2. \A i \in 1 .. Len(q) + Len(r) : (q \o r)[i] = IF i <= Len(q) THEN q[i] ELSE r[i - Len(q)]
    BY ConcatProperties
  <2> QED
    BY <2>1, <2>2
<1>3. Len(q) + Len(r) = b
  BY <1>1
<1>4. ASSUME NEW i \in 1 .. b
      PROVE  (q \o r)[i] = seq[i]
  <2>1. CASE i <= a
    BY <1>1, <1>2, <1>3, <2>1
  <2>2. CASE i > a
    <3>1. i - a \in 1 .. b - a /\ a + (i - a) = i
      BY <2>2
    <3>2. (q \o r)[i] = r[i - a]
      BY <1>1, <1>2, <1>3, <2>2
    <3> QED
      BY <1>1, <3>1, <3>2
  <2>3. i <= a \/ i > a
    OBVIOUS
  <2> QED
    BY <2>1, <2>2, <2>3
<1> QED
  BY <1>2, <1>3, <1>4 DEF IsSlice

(* The pieces of a sequence, one after the other, are the sequence.           *)
LEMMA FlattenPieces ==
  ASSUME NEW S, NEW seq \in Seq(S), NEW n \in Nat \ {0}
  PROVE  /\ FlattenSeq(Pieces(seq, n)) \in Seq(S)
         /\ Len(FlattenSeq(Pieces(seq, n))) = Len(seq)
         /\ \A i \in 1 .. Len(seq) : FlattenSeq(Pieces(seq, n))[i] = seq[i]
<1> DEFINE len == Len(seq)
           k == DivCeil(len, n)
           pieces == Pieces(seq, n)
           flat == CHOOSE f : IsFlat(f, pieces, k)
<1>0. len \in Nat /\ k \in Nat /\ pieces \in Seq(Seq(S)) /\ Len(pieces) = k
  BY PiecesAre
<1>1. \A p \in 1 .. k : /\ pieces[p] \in Seq(S)
                        /\ IsSlice(pieces[p], seq, Before(n, p), EndOf(len, n, p))
  BY PieceSlice
<1>2. FlattenSeq(pieces) = IF k = 0 THEN pieces ELSE flat[k]
  BY <1>0 DEF FlattenSeq, IsFlat
<1>3. IsFlat(flat, pieces, k)
  BY <1>0, FlatExists
<1> HIDE DEF pieces, flat
<1>4. k > 0 => flat[1] = pieces[1]
  BY <1>0, <1>3 DEF IsFlat
<1>5. \A p \in 1 .. k - 1 : flat[p + 1] = flat[p] \o pieces[p + 1]
  <2>1. \A p \in 1 .. k - 1 : p + 1 \in 1 .. k /\ p + 1 # 1 /\ (p + 1) - 1 = p
    BY <1>0
  <2> QED
    BY <1>3, <2>1 DEF IsFlat
<1>6. \A p \in 1 .. k : /\ Before(n, p) \in Nat /\ EndOf(len, n, p) \in Nat
                        /\ Before(n, p) <= EndOf(len, n, p) /\ EndOf(len, n, p) <= len
                        /\ (p > 1 => EndOf(len, n, p - 1) = Before(n, p))
  BY <1>0, PieceBounds
<1>7. k > 0 => Before(n, 1) = 0 /\ EndOf(len, n, k) = len
  <2> SUFFICES ASSUME k > 0
               PROVE  Before(n, 1) = 0 /\ EndOf(len, n, k) = len
    OBVIOUS
  <2>1. Before(n, 1) = 0
    <3>1. 0 * n = 0
      OBVIOUS
    <3> QED
      BY <3>1 DEF Before
  <2>2. len <= k * n /\ k * n \in Nat
    BY DivCeilIs
  <2>3. EndOf(len, n, k) = len
    <3> DEFINE x == k * n
    <3>1. EndOf(len, n, k) = Min({x, len})
      BY DEF EndOf
    <3>2. x \in Nat /\ len <= x
      BY <2>2
    <3> HIDE DEF x
    <3>3. Min({x, len}) = IF x <= len THEN x ELSE len
      BY SMTT(20), <1>0, <3>2, LesserOf
    <3> QED
      BY <1>0, <3>1, <3>2, <3>3
  <2> QED
    BY <2>1, <2>3
<1> DEFINE T == {p \in 0 .. k : p > 0 => /\ flat[p] \in Seq(S)
                                         /\ IsSlice(flat[p], seq, 0, EndOf(len, n, p))}
<1> HIDE DEF len, k
<1>8. 0 \in T
  BY <1>0
<1>9. ASSUME NEW p \in 0 .. k - 1, p \in T
      PROVE  p + 1 \in T
  <2>1. p + 1 \in 1 .. k /\ p + 1 \in 0 .. k /\ (p + 1) - 1 = p
    BY <1>0
  <2>2. CASE p = 0
    <3>1. flat[p + 1] = pieces[p + 1] /\ Before(n, p + 1) = 0
      <4>1. p + 1 = 1 /\ k > 0
        BY <1>0, <2>2
      <4> QED
        BY <1>4, <1>7, <4>1
    <3> QED
      BY <1>1, <2>1, <3>1
  <2>3. CASE p > 0
    <3> DEFINE a == EndOf(len, n, p)
               b == EndOf(len, n, p + 1)
    <3>1. /\ flat[p] \in Seq(S) /\ IsSlice(flat[p], seq, 0, a)
      BY <1>9, <2>3
    <3>2. /\ pieces[p + 1] \in Seq(S) /\ IsSlice(pieces[p + 1], seq, a, b)
          /\ a \in Nat /\ b \in Nat /\ a <= b
      <4>1. Before(n, p + 1) = a
        BY <1>6, <2>1, <2>3
      <4> QED
        BY <1>1, <1>6, <2>1, <4>1
    <3>3. flat[p + 1] = flat[p] \o pieces[p + 1]
      <4>1. p \in 1 .. k - 1
        BY <1>0, <2>3
      <4> QED
        BY <1>5, <4>1
    <3> HIDE DEF a, b
    <3>4. /\ flat[p] \o pieces[p + 1] \in Seq(S)
          /\ IsSlice(flat[p] \o pieces[p + 1], seq, 0, b)
      BY <3>1, <3>2, SlicesJoin
    <3> QED
      BY <2>1, <3>3, <3>4 DEF b
  <2> QED
    BY <1>0, <2>2, <2>3
<1>10. k \in T
  <2> HIDE DEF T
  <2> QED
    BY <1>0, <1>8, <1>9, UpTo
<1>11. CASE k = 0
  <2>1. len = 0
    BY DivCeilIs, <1>11 DEF k, len
  <2>2. pieces \in Seq(S)
    BY <1>0, <1>11
  <2> QED
    BY <1>0, <1>2, <1>11, <2>1, <2>2 DEF pieces, len
<1>12. CASE k > 0
  <2>1. flat[k] \in Seq(S) /\ IsSlice(flat[k], seq, 0, len)
    BY <1>7, <1>10, <1>12
  <2>2. FlattenSeq(pieces) = flat[k]
    BY <1>2, <1>12
  <2> QED
    BY <1>0, <2>1, <2>2 DEF IsSlice, pieces, len
<1> QED
  BY <1>0, <1>11, <1>12

ReusePair(cat, out, r) == [chunk |-> out.pending[r].chunk, block |-> BlockRef(cat, r)]

(* The pairs of a page.                                                      *)
PagePairs(cat, p) ==
  LET first   == (p - 1) * ReusePerPage + 1
      records == LoadPage(cat, cat.mapPages + p, "Reuse", first).records
  IN [l \in DOMAIN records |-> [chunk |-> records[l], block |-> BlockRef(cat, first + l - 1)]]

LEMMA PagePairsAre ==
  ASSUME NEW cat, NEW out, CatalogOf(cat, out), NEW p \in 1 .. cat.reusePages,
         NEW S, NEW pairs \in Seq(S), Len(pairs) = cat.blocks,
         \A r \in 1 .. cat.blocks : pairs[r] = ReusePair(cat, out, r)
  PROVE  PagePairs(cat, p) = Pieces(pairs, ReusePerPage)[p]
<1> DEFINE len == cat.blocks
           cap == ReusePerPage
           before == Before(cap, p)
           end == EndOf(len, cap, p)
           chunks == ChunksIn(out.pending)
           page == cat.pages[cat.mapPages + p]
           first == (p - 1) * cap + 1
           records == LoadPage(cat, cat.mapPages + p, "Reuse", first).records
           piece == Pieces(pairs, cap)[p]
           k == end - before
<1>0. /\ len \in Nat /\ cap \in Nat \ {0} /\ OutRight(out) /\ len = Len(out.pending)
      /\ cat.reusePages = DivCeil(len, cap) /\ p \in 1 .. DivCeil(len, cap)
  BY CatalogAssumption DEF CatalogOf
<1>1. /\ chunks \in Seq(Chunk) /\ Len(chunks) = len
      /\ \A r \in 1 .. len : chunks[r] = out.pending[r].chunk
  BY <1>0, ListsOf
<1>2. before \in Nat /\ end \in Nat /\ before < end /\ end <= len
  <2> HIDE DEF len, cap
  <2> QED
    BY <1>0, PieceBounds
<1>3. k \in Nat \ {0} /\ \A l \in 1 .. k : before + l \in 1 .. len /\ (before + 1) + l - 1 = before + l
  <2> HIDE DEF len, before, end
  <2> QED
    BY <1>0, <1>2
<1>4. PageHolds(page, "Reuse", p, chunks, cap)
  <2>1. /\ cat.mapPages = DivCeil(len, BlocksPerMapPage) /\ Len(BlockRefs(out.pending)) = len
        /\ SnapshotPages(cat.pages, BlockRefs(out.pending), chunks)
    BY <1>0, ListsOf DEF CatalogOf
  <2> HIDE DEF chunks, cap, len
  <2>2. \A i \in 1 .. DivCeil(Len(chunks), cap) :
          PageHolds(cat.pages[DivCeil(len, BlocksPerMapPage) + i], "Reuse", i, chunks, cap)
    BY <2>1 DEF SnapshotPages, cap
  <2> QED
    BY <1>0, <1>1, <2>1, <2>2
<1>5. page.kind = "Reuse" /\ page.first = before + 1 /\ page.records = Pieces(chunks, cap)[p]
  BY <1>4 DEF PageHolds
<1>6. first = before + 1
  BY DEF Before
<1> HIDE DEF first, page, before, end, len, cap, chunks
<1>7. /\ Pieces(chunks, cap)[p] \in Seq(Chunk)
      /\ Len(Pieces(chunks, cap)[p]) = k
      /\ \A l \in 1 .. k : Pieces(chunks, cap)[p][l] = chunks[before + l]
  <2>1. p \in 1 .. DivCeil(Len(chunks), cap)
    BY <1>0, <1>1
  <2>2. /\ Pieces(chunks, cap)[p] \in Seq(Chunk)
        /\ IsSlice(Pieces(chunks, cap)[p], chunks, Before(cap, p), EndOf(Len(chunks), cap, p))
    BY <1>0, <1>1, <2>1, PieceSlice
  <2> QED
    BY <1>1, <2>2 DEF IsSlice, before, end
<1>8. piece \in Seq(S) /\ Len(piece) = k /\ \A l \in 1 .. k : piece[l] = pairs[before + l]
  <2>1. p \in 1 .. DivCeil(Len(pairs), cap) /\ Len(pairs) = len
    BY <1>0 DEF len
  <2>2. /\ piece \in Seq(S)
        /\ IsSlice(piece, pairs, Before(cap, p), EndOf(Len(pairs), cap, p))
    BY <1>0, <2>1, PieceSlice
  <2> HIDE DEF piece
  <2> QED
    BY <2>1, <2>2 DEF IsSlice, before, end
<1>9. records = Pieces(chunks, cap)[p]
  <2>1. Pieces(chunks, cap)[p] # <<>>
    BY <1>3, <1>7
  <2> QED
    BY <1>5, <1>6, <2>1 DEF LoadPage, PageOpens, page
<1> HIDE DEF k, piece
<1>10. DOMAIN records = 1 .. k
  <2> DEFINE q == Pieces(chunks, cap)[p]
  <2>1. q \in Seq(Chunk) /\ Len(q) = k /\ records = q
    BY <1>7, <1>9
  <2> HIDE DEF q, records
  <2> QED
    BY <1>3, <2>1
<1>11. PagePairs(cat, p) =
         [l \in 1 .. k |-> [chunk |-> records[l], block |-> BlockRef(cat, first + l - 1)]]
  BY <1>10 DEF PagePairs, first, cap
<1>12. ASSUME NEW l \in 1 .. k
       PROVE  [chunk |-> records[l], block |-> BlockRef(cat, first + l - 1)] = piece[l]
  <2>1. records[l] = out.pending[before + l].chunk
    BY <1>1, <1>3, <1>7, <1>9
  <2>2. first + l - 1 = before + l
    BY <1>3, <1>6
  <2>3. piece[l] = ReusePair(cat, out, before + l)
    BY <1>3, <1>8 DEF len
  <2> QED
    BY <2>1, <2>2, <2>3 DEF ReusePair
<1>13. piece = [l \in 1 .. k |-> piece[l]]
  BY <1>3, <1>8
<1>14. PagePairs(cat, p) = piece
  <2> DEFINE f == PagePairs(cat, p)
  <2>1. DOMAIN f = 1 .. k /\ f = [l \in 1 .. k |-> f[l]] /\ \A l \in 1 .. k : f[l] = piece[l]
    BY <1>11, <1>12
  <2> HIDE DEF f
  <2>2. f = piece
    BY <1>13, <2>1
  <2> QED
    BY <2>2 DEF f
<1> QED
  BY <1>14 DEF piece, cap

LEMMA ReuseRecordsAre ==
  ASSUME NEW cat, NEW out, CatalogOf(cat, out)
  PROVE  /\ Len(ReuseRecords(cat)) = cat.blocks /\ DOMAIN ReuseRecords(cat) = 1 .. cat.blocks
         /\ \A r \in 1 .. cat.blocks : ReuseRecords(cat)[r] = ReusePair(cat, out, r)
<1> DEFINE len == cat.blocks
           pairs == [r \in 1 .. len |-> ReusePair(cat, out, r)]
           S == {ReusePair(cat, out, r) : r \in 1 .. len}
           pieces == [p \in 1 .. cat.reusePages |-> PagePairs(cat, p)]
<1>0. /\ len \in Nat /\ ReusePerPage \in Nat \ {0} /\ cat.reusePages = DivCeil(len, ReusePerPage)
  BY CatalogAssumption DEF CatalogOf
<1>1. pairs \in Seq(S) /\ Len(pairs) = len /\ \A r \in 1 .. len : pairs[r] = ReusePair(cat, out, r)
  <2>1. pairs = [r \in 1 .. len |-> pairs[r]] /\ \A r \in 1 .. len : pairs[r] \in S
    OBVIOUS
  <2> HIDE DEF S, pairs, len
  <2>2. pairs \in Seq(S) /\ Len(pairs) = len
    BY <1>0, <2>1, IsSeq
  <2> QED
    BY <2>2 DEF pairs
<1>2. ReuseRecords(cat) = FlattenSeq(pieces)
  BY DEF ReuseRecords, PagePairs
<1> HIDE DEF pairs, S
<1>3. \A p \in 1 .. cat.reusePages : PagePairs(cat, p) = Pieces(pairs, ReusePerPage)[p]
  BY <1>1, PagePairsAre
<1>4. pieces = Pieces(pairs, ReusePerPage)
  <2>1. Pieces(pairs, ReusePerPage) =
          [p \in 1 .. DivCeil(len, ReusePerPage) |-> Pieces(pairs, ReusePerPage)[p]]
    BY <1>1 DEF Pieces
  <2> QED
    BY <1>0, <1>3, <2>1
<1> HIDE DEF pieces
<1>5. /\ ReuseRecords(cat) \in Seq(S) /\ Len(ReuseRecords(cat)) = len
      /\ \A r \in 1 .. len : ReuseRecords(cat)[r] = ReusePair(cat, out, r)
  BY <1>0, <1>1, <1>2, <1>4, FlattenPieces
<1> QED
  BY <1>5

-------------------------------------------------------------------------------
(* What the runtime asks of a snapshot.                                     *)

LEMMA CountsAre ==
  ASSUME NEW t, SourceTree(t), Indexable(t), NEW cat, cat = WriteSnapshot(t)
  PROVE  /\ Len(cat.segments) \in Nat /\ Len(cat.files) \in Nat /\ Len(cat.slots) \in Nat
         /\ Len(cat.pool) \in Nat /\ Len(cat.pages) \in Nat
         /\ cat.mapPages \in Nat /\ cat.reusePages \in Nat
         /\ Len(cat.pages) = cat.mapPages + cat.reusePages /\ CountsAccepted(cat)
<1> DEFINE out == Built(t)
<1>1. CatalogOf(cat, out) /\ OutRight(out)
  BY SnapshotIs DEF FirstRecorded
<1> HIDE DEF out
<1>2. PICK i \in Nat : PathIndex(cat, t, i)
  BY PathIndexIs
<1>3. Len(cat.slots) \in Nat /\ \E k \in 0 .. HashBits : Len(cat.slots) = Power2[k]
  BY <1>2 DEF PathIndex
<1>4. Len(cat.segments) \in Nat
  <2>1. out.segments \in Seq(Segment)
    BY <1>1 DEF OutRight, OutType
  <2> DEFINE n == Len(out.segments)
             q == SegmentsOf(out.segments)
             S == {q[s] : s \in 1 .. n}
  <2>2. n \in Nat /\ q = [s \in 1 .. n |-> q[s]] /\ \A s \in 1 .. n : q[s] \in S
    BY <2>1 DEF SegmentsOf
  <2> HIDE DEF n, q, S
  <2>3. Len(q) = n
    BY <2>2, IsSeq
  <2> QED
    BY <1>1, <2>2, <2>3 DEF CatalogOf, q
<1>5. Len(cat.files) \in Nat /\ Len(cat.pool) \in Nat
  <2>1. out.files \in Seq(FileRecord) /\ out.pool \in Seq(PathByte)
    BY <1>1 DEF OutRight, OutType
  <2> QED
    BY <1>1, <2>1 DEF CatalogOf
<1>6. /\ cat.mapPages \in Nat /\ cat.reusePages \in Nat
      /\ Len(cat.pages) = cat.mapPages + cat.reusePages
  <2> DEFINE len == Len(out.pending)
  <2>1. /\ len \in Nat /\ Len(BlockRefs(out.pending)) = len /\ Len(ChunksIn(out.pending)) = len
    BY <1>1, ListsOf
  <2>2. /\ cat.mapPages = DivCeil(len, BlocksPerMapPage) /\ cat.reusePages = DivCeil(len, ReusePerPage)
        /\ SnapshotPages(cat.pages, BlockRefs(out.pending), ChunksIn(out.pending))
    BY <1>1 DEF CatalogOf
  <2> HIDE DEF len
  <2>3. DivCeil(len, BlocksPerMapPage) \in Nat /\ DivCeil(len, ReusePerPage) \in Nat
    BY <2>1, CatalogAssumption, DivCeilIs
  <2>4. Len(cat.pages) = DivCeil(len, BlocksPerMapPage) + DivCeil(len, ReusePerPage)
    BY <2>1, <2>2 DEF SnapshotPages
  <2> QED
    BY <2>2, <2>3, <2>4
<1> QED
  BY <1>3, <1>4, <1>5, <1>6 DEF CountsAccepted

LEMMA TablesAreAccepted ==
  ASSUME NEW t, SourceTree(t), Indexable(t), NEW cat, cat = WriteSnapshot(t),
         \A n \in Nat : Squeezed(n) \in Nat
  PROVE  TablesAccepted(cat) /\ HeaderAccepted(cat.header)
         /\ cat.header.pages = cat.mapPages + cat.reusePages /\ cat.header.region \in Nat
<1> DEFINE s == Len(cat.segments)
           f == Len(cat.files)
           n == Len(cat.slots)
           p == Len(cat.pool)
           g == Len(cat.pages)
           encoded == EncodeCatalog(s, f, n, p, g)
           m == cat.mapPages + cat.reusePages
<1>1. s \in Nat /\ f \in Nat /\ n \in Nat /\ p \in Nat /\ g \in Nat
  BY CountsAre
<1>2. cat.tables = encoded.tables /\ cat.header = SnapshotHeader(encoded.size, m)
  BY SnapshotIs DEF CatalogOf
<1> HIDE DEF s, f, n, p, g, m
<1>3. /\ encoded.size = 64 + s * 96 + f * 32 + n * 8 + p + g * 64
      /\ encoded.tables.segments = 64 /\ encoded.tables.files = 64 + s * 96
      /\ encoded.tables.slots = 64 + s * 96 + f * 32
      /\ encoded.tables.pool = 64 + s * 96 + f * 32 + n * 8
      /\ encoded.tables.pages = 64 + s * 96 + f * 32 + n * 8 + p
  BY <1>1 DEF EncodeCatalog, TableEnd, HeaderSize, RecordSize
<1> HIDE DEF encoded
<1>4. encoded.size \in Nat /\ encoded.size > 0 /\ Squeezed(encoded.size) \in Nat
  BY <1>1, <1>3
<1>5. /\ cat.header.plain = encoded.size /\ cat.header.stored = Squeezed(encoded.size) + TagSize
      /\ cat.header.region = HeaderSize.Snapshot + cat.header.stored /\ cat.header.pages = m
  BY <1>2 DEF SnapshotHeader
<1>6. HeaderAccepted(cat.header) /\ cat.header.region \in Nat
  BY <1>4, <1>5 DEF HeaderAccepted, TagSize, HeaderSize
<1>7. TablesAccepted(cat)
  <2> DEFINE tables == cat.tables
  <2>1. /\ tables.segments = 64 /\ tables.files = 64 + s * 96 /\ tables.slots = 64 + s * 96 + f * 32
        /\ tables.pool = 64 + s * 96 + f * 32 + n * 8
        /\ tables.pages = 64 + s * 96 + f * 32 + n * 8 + p
        /\ cat.header.plain = 64 + s * 96 + f * 32 + n * 8 + p + g * 64
    BY <1>2, <1>3, <1>5
  <2> HIDE DEF tables
  <2>2. /\ tables.files - tables.segments = s * 96 /\ tables.slots - tables.files = f * 32
        /\ tables.pool - tables.slots = n * 8 /\ tables.pages - tables.pool = p
        /\ cat.header.plain - tables.pages = g * 64
    BY <1>1, <2>1
  <2>3. /\ HeaderSize.Catalog = 64 /\ RecordSize.Segment = 96 /\ RecordSize.File = 32
        /\ RecordSize.Slot = 8 /\ RecordSize.Page = 64
    BY DEF HeaderSize, RecordSize
  <2> QED
    BY <2>1, <2>2, <2>3 DEF TablesAccepted, tables, s, f, n, p, g
<1> QED
  BY <1>5, <1>6, <1>7 DEF m

LEMMA FilesAccepted ==
  ASSUME NEW t, SourceTree(t), NEW cat, cat = WriteSnapshot(t), NEW f \in DOMAIN cat.files
  PROVE  FileAccepted(cat, cat.files[f])
<1> DEFINE out == Built(t)
           src == t[f]
           file == cat.files[f]
<1>1. CatalogOf(cat, out) /\ FirstRecorded(out, t, Len(t)) /\ OutRight(out)
  BY SnapshotIs DEF FirstRecorded
<1> HIDE DEF out
<1>2. Recorded(out, src, file) /\ SourceFile(src) /\ cat.pool = out.pool /\ cat.blocks = Len(out.pending)
  <2>1. out.files \in Seq(FileRecord) /\ cat.files = out.files
    BY <1>1 DEF CatalogOf, OutRight, OutType
  <2>2. f \in 1 .. Len(t)
    BY <1>1, <2>1 DEF FirstRecorded
  <2> QED
    BY <1>1, <2>1, <2>2 DEF FirstRecorded, SourceTree, CatalogOf
<1>3. file.pathLen # 0 /\ file.pathAt + file.pathLen <= Len(cat.pool)
  <2>1. PathLength[src.path] \in Nat \ {0}
    BY <1>2, CatalogAssumption DEF SourceFile
  <2> QED
    BY <1>2, <2>1 DEF Recorded
<1>4. file.first + file.count - 1 <= cat.blocks
  <2> DEFINE first == file.first
             count == file.count
             blocks == Len(out.pending)
  <2>1. first \in Nat \ {0} /\ first - 1 + count <= blocks /\ cat.blocks = blocks
    BY <1>2 DEF Recorded
  <2>2. count \in Nat /\ blocks \in Nat
    <3>1. out.files \in Seq(FileRecord) /\ cat.files = out.files
      BY <1>1 DEF CatalogOf, OutRight, OutType
    <3>2. file \in FileRecord
      BY <3>1
    <3> QED
      BY <1>1, <3>2 DEF FileRecord, CatalogOf
  <2> HIDE DEF first, count, blocks
  <2>3. first + count - 1 <= blocks
    BY <2>1, <2>2
  <2> QED
    BY <2>1, <2>3 DEF first, count
<1>5. FileParsed(file)
  <2>1. file.layout = Classify(src).layout /\ file.fixed = Classify(src).fixed
    BY <1>2 DEF Recorded
  <2>2. /\ Classify(src).layout = "Fixed" => Classify(src).fixed \in Nat \ {0}
        /\ Classify(src).layout = "ContentDefined" => Classify(src).fixed = 0
    BY <1>2, Classified DEF SourceFile
  <2> QED
    BY <2>1, <2>2 DEF FileParsed
<1> QED
  BY <1>3, <1>4, <1>5 DEF FileAccepted

LEMMA SlotsAccepted ==
  ASSUME NEW t, SourceTree(t), Indexable(t), NEW cat, cat = WriteSnapshot(t), NEW s \in DOMAIN cat.slots
  PROVE  SlotAccepted(cat, cat.slots[s])
<1> DEFINE out == Built(t)
<1>1. CatalogOf(cat, out) /\ FirstRecorded(out, t, Len(t)) /\ OutRight(out)
  BY SnapshotIs DEF FirstRecorded
<1> HIDE DEF out
<1>2. Len(cat.files) = Len(t) /\ Len(t) \in Nat
  BY <1>1 DEF CatalogOf, FirstRecorded, SourceTree
<1>3. PICK k \in 0 .. HashBits : Indexed(BuildPathSlots(out.paths), Power2[k], out.paths, Len(out.paths))
  <2>1. Len(out.paths) = Len(t) /\ PathList(out.paths, Len(out.paths))
    <3>1. Len(out.paths) = Len(t) /\ \A g \in 1 .. Len(t) : out.paths[g] = t[g].path
      BY <1>1 DEF FirstRecorded
    <3> QED
      BY <3>1 DEF PathList, SourceTree, SourceFile
  <2>2. 2 * Len(out.paths) <= Power2[HashBits]
    BY <2>1 DEF Indexable
  <2> QED
    BY <1>2, <2>1, <2>2, SlotsAre
<1>4. cat.slots = BuildPathSlots(out.paths) /\ Len(out.paths) = Len(t)
  BY <1>1 DEF CatalogOf, FirstRecorded
<1>8. s \in 1 .. Power2[k]
  <2>1. DOMAIN BuildPathSlots(out.paths) = 1 .. Power2[k]
    BY <1>3 DEF Indexed
  <2> QED
    BY <1>4, <2>1
<1>5. cat.slots[s] = EmptySlot \/ \E g \in 1 .. Len(t) : cat.slots[s] = Entry(out.paths, g)
  BY <1>3, <1>4, <1>8 DEF Indexed
<1>6. cat.slots[s].file = 0 \/ cat.slots[s].file \in 1 .. Len(t)
  <2>1. EmptySlot.file = 0 /\ \A g \in 1 .. Len(t) : Entry(out.paths, g).file = g
    BY DEF EmptySlot, Entry
  <2> QED
    BY <1>5, <2>1
<1>7. cat.slots[s].file <= Len(cat.files)
  <2> DEFINE m == Len(t)
             x == cat.slots[s].file
  <2>1. m \in Nat /\ Len(cat.files) = m /\ (x = 0 \/ x \in 1 .. m)
    BY <1>2, <1>6
  <2> HIDE DEF m, x
  <2>2. x <= m
    BY <2>1
  <2> QED
    BY <2>1, <2>2 DEF x
<1> QED
  BY <1>7 DEF SlotAccepted

LEMMA SegmentsAccepted ==
  ASSUME NEW t, SourceTree(t), NEW cat, cat = WriteSnapshot(t), NEW s \in DOMAIN cat.segments
  PROVE  SegmentAccepted(cat.segments[s].record)
<1> DEFINE out == Built(t)
<1>1. cat.segments = SegmentsOf(out.segments)
  BY SnapshotIs DEF CatalogOf
<1> HIDE DEF out
<1>2. cat.segments[s] = Finish(out.segments[s].blocks)
  BY <1>1 DEF SegmentsOf
<1> QED
  BY <1>2 DEF Finish, SegmentAccepted

(* How long a page's records are.                                            *)
LEMMA PieceLength ==
  ASSUME NEW len \in Nat, NEW n \in Nat \ {0}, NEW p \in 1 .. DivCeil(len, n)
  PROVE  Max({Min({len - (p - 1) * n, n}), 0}) = EndOf(len, n, p) - Before(n, p)
<1> DEFINE before == (p - 1) * n
           end == EndOf(len, n, p)
<1>1. before = Before(n, p) /\ before \in Nat /\ end \in Nat /\ before < end
      /\ end = IF before + n <= len THEN before + n ELSE len
  <2>1. before = Before(n, p) /\ before \in Nat /\ end \in Nat /\ before < end
    BY PieceBounds DEF Before
  <2>2. EndOf(len, n, p) = IF Before(n, p) + n <= len THEN Before(n, p) + n ELSE len
    BY EndIs
  <2> QED
    BY <2>1, <2>2
<1> HIDE DEF before, end
<1>2. Min({len - before, n}) = IF len - before <= n THEN len - before ELSE n
  <2> DEFINE x == len - before
  <2>1. x \in Int /\ n \in Int
    BY <1>1
  <2> HIDE DEF x
  <2>2. Min({x, n}) = IF x <= n THEN x ELSE n
    BY <2>1, LesserOf
  <2> QED
    BY <2>2 DEF x
<1>3. Min({len - before, n}) = end - before
  <2>1. CASE len - before <= n
    BY <1>1, <1>2, <2>1
  <2>2. CASE ~(len - before <= n)
    BY <1>1, <1>2, <2>2
  <2> QED
    BY <2>1, <2>2
<1> DEFINE m == Min({len - before, n})
<1>4. m \in Int /\ 0 \in Int /\ m > 0 /\ m = end - before
  BY <1>1, <1>3
<1> HIDE DEF m
<1>5. Max({m, 0}) = IF m >= 0 THEN m ELSE 0
  BY <1>4, GreaterOf
<1>6. Max({m, 0}) = end - before
  BY <1>4, <1>5
<1>7. before = Before(n, p)
  BY <1>1
<1> QED
  BY <1>6, <1>7 DEF m, end, before

LEMMA PagesAccepted ==
  ASSUME NEW t, SourceTree(t), NEW cat, cat = WriteSnapshot(t), NEW i \in DOMAIN cat.pages
  PROVE  PageAccepted(cat, i)
<1> DEFINE out == Built(t)
           len == cat.blocks
           m == cat.mapPages
           refs == BlockRefs(out.pending)
           chunks == ChunksIn(out.pending)
           page == cat.pages[i]
           kind == IF i <= m THEN "BlockMap" ELSE "Reuse"
           cap == IF i <= m THEN BlocksPerMapPage ELSE ReusePerPage
           all == IF i <= m THEN refs ELSE chunks
           p == IF i <= m THEN i ELSE i - m
<1>1. CatalogOf(cat, out) /\ OutRight(out)
  BY SnapshotIs DEF FirstRecorded
<1> HIDE DEF out
<1>2. /\ len \in Nat /\ m = DivCeil(len, BlocksPerMapPage) /\ cat.reusePages = DivCeil(len, ReusePerPage)
      /\ Len(refs) = len /\ Len(chunks) = len /\ SnapshotPages(cat.pages, refs, chunks)
      /\ (\E S : refs \in Seq(S)) /\ chunks \in Seq(Chunk)
  <2>1. /\ len = Len(out.pending) /\ Len(out.pending) \in Nat
    BY <1>1 DEF CatalogOf
  <2> QED
    BY <1>1, <2>1, ListsOf DEF CatalogOf
<1>3. m \in Nat /\ cat.reusePages \in Nat /\ BlocksPerMapPage \in Nat \ {0} /\ ReusePerPage \in Nat \ {0}
  BY <1>2, CatalogAssumption, DivCeilIs
<1>4. i \in 1 .. m + cat.reusePages /\ PageRight(cat.pages, i)
  <2>1. PagesRight(cat.pages) /\ Len(cat.pages) = m + cat.reusePages
    BY <1>2 DEF SnapshotPages
  <2>2. cat.pages = [j \in 1 .. Len(cat.pages) |-> cat.pages[j]]
    BY <2>1 DEF PagesRight, List
  <2>3. i \in 1 .. Len(cat.pages)
    BY <2>2
  <2> QED
    BY <2>1, <2>3 DEF PagesRight
<1>5. /\ PageHolds(page, kind, p, all, cap) /\ p \in 1 .. DivCeil(len, cap)
      /\ cap \in Nat \ {0} /\ Len(all) = len /\ (\E S : all \in Seq(S))
  <2>1. CASE i <= m
    <3>1. i \in 1 .. m
      BY <1>3, <1>4, <2>1
    <3>2. PageHolds(page, "BlockMap", i, refs, BlocksPerMapPage)
      BY <1>2, <3>1 DEF SnapshotPages
    <3> QED
      BY <1>2, <1>3, <2>1, <3>1, <3>2
  <2>2. CASE ~(i <= m)
    <3>1. i - m \in 1 .. cat.reusePages /\ m + (i - m) = i
      BY <1>3, <1>4, <2>2
    <3>2. \A j \in 1 .. cat.reusePages : PageHolds(cat.pages[m + j], "Reuse", j, chunks, ReusePerPage)
      BY <1>2 DEF SnapshotPages
    <3>3. PageHolds(page, "Reuse", i - m, chunks, ReusePerPage)
      BY <3>1, <3>2
    <3> QED
      BY <1>2, <1>3, <2>2, <3>1, <3>3
  <2> QED
    BY <2>1, <2>2
<1> HIDE DEF all
<1>6. page.kind = kind /\ page.plain = HeaderSize.Page + Len(Pieces(all, cap)[p]) * RecordSize[kind]
  BY <1>5 DEF PageHolds
<1>7. Len(Pieces(all, cap)[p]) = EndOf(len, cap, p) - Before(cap, p)
  <2>1. PICK S : all \in Seq(S)
    BY <1>5
  <2>2. p \in 1 .. DivCeil(Len(all), cap) /\ Len(all) = len /\ cap \in Nat \ {0}
    BY <1>5
  <2> HIDE DEF p, cap, len
  <2>3. Len(Pieces(all, cap)[p]) = EndOf(Len(all), cap, p) - Before(cap, p)
    BY <2>1, <2>2, PieceIs
  <2> QED
    BY <2>2, <2>3
<1>8. Max({Min({len - (p - 1) * cap, cap}), 0}) = EndOf(len, cap, p) - Before(cap, p)
  <2> HIDE DEF p, cap, len
  <2> QED
    BY <1>2, <1>5, PieceLength
<1>9. /\ (IF i <= m THEN i - 1 ELSE i - 1 - m) = p - 1 /\ RecordsPerPage[page.kind] = cap
      /\ page.kind = (IF i <= m THEN "BlockMap" ELSE "Reuse")
  <2>1. RecordsPerPage.BlockMap = BlocksPerMapPage /\ RecordsPerPage.Reuse = ReusePerPage
    BY DEF RecordsPerPage
  <2>2. i - 1 - m = (i - m) - 1
    BY <1>3, <1>4
  <2> QED
    BY <1>6, <2>1, <2>2
<1>10. page.plain = HeaderSize.Page + Max({Min({len - (p - 1) * cap, cap}), 0}) * RecordSize[kind]
  <2> HIDE DEF p, cap, len, kind, page
  <2> QED
    BY <1>6, <1>7, <1>8
<1> DEFINE local == IF i <= m THEN i - 1 ELSE i - 1 - m
<1>11. page.plain =
         HeaderSize.Page
           + Max({Min({len - local * RecordsPerPage[page.kind], RecordsPerPage[page.kind]}), 0})
             * RecordSize[page.kind]
  <2>1. local = p - 1 /\ RecordsPerPage[page.kind] = cap /\ page.kind = kind
    BY <1>6, <1>9
  <2> HIDE DEF local, p, cap, len, kind, page
  <2> QED
    BY <1>10, <2>1
<1>12. PageParsed(page) /\ page.nonce = i
       /\ page.offset = SumOf([j \in 1 .. i - 1 |-> cat.pages[j].stored])
  <2>1. /\ page.nonce = i /\ page.plain \in Nat \ {0} /\ page.codec \in Codecs
        /\ page.stored \in Nat /\ page.stored >= TagSize
        /\ StoredRight(page.codec, page.stored, page.plain)
        /\ page.offset = SumOf([j \in 1 .. i - 1 |-> cat.pages[j].stored])
    BY <1>4 DEF PageRight, StoredBefore
  <2> HIDE DEF page
  <2>2. PageParsed(page)
    BY <2>1 DEF PageParsed, EncodedLengthCanonical, StoredRight
  <2> QED
    BY <2>1, <2>2
<1> HIDE DEF local
<1>13. page.kind = (IF i <= m THEN "BlockMap" ELSE "Reuse")
  BY <1>9
<1> HIDE DEF page, kind, p, cap
<1> QED
  BY <1>11, <1>12, <1>13 DEF PageAccepted, local, page

LEMMA LengthIsAccepted ==
  ASSUME NEW t, SourceTree(t), NEW cat, cat = WriteSnapshot(t),
         cat.header.pages = cat.mapPages + cat.reusePages, cat.header.region \in Nat
  PROVE  LengthAccepted(cat)
<1> DEFINE out == Built(t)
           pages == cat.pages
           n == Len(pages)
           stored == [p \in DOMAIN pages |-> pages[p].stored]
<1>1. CatalogOf(cat, out)
  BY SnapshotIs
<1> HIDE DEF out
<1>2. n \in Nat /\ pages = [p \in 1 .. n |-> pages[p]] /\ \A p \in 1 .. n : PageRight(pages, p)
  BY <1>1 DEF CatalogOf, SnapshotPages, PagesRight, List
<1>3. cat.length = cat.header.region + SumOf(stored)
  BY <1>1 DEF CatalogOf, SnapshotLength
<1> HIDE DEF n
<1>4. DOMAIN pages = 1 .. n /\ (pages = <<>> <=> n = 0)
  <2>1. DOMAIN pages = 1 .. n
    BY <1>2
  <2>2. n = Len(pages)
    BY DEF n
  <2> HIDE DEF pages
  <2>3. n = 0 => pages = <<>>
    BY <1>2
  <2>4. pages = <<>> => n = 0
    BY <2>2
  <2> QED
    BY <2>1, <2>3, <2>4
<1> HIDE DEF pages
<1>5. StoredBefore(pages, n + 1) = SumOf(stored)
  <2>1. (n + 1) - 1 = n
    BY <1>2
  <2>2. stored = [p \in 1 .. n |-> pages[p].stored]
    BY <1>4
  <2> QED
    BY <2>1, <2>2 DEF StoredBefore
<1> HIDE DEF stored
<1>6. \A i \in 1 .. n : pages[i].stored \in Nat /\ pages[i] = pages[i]
  BY <1>2 DEF PageRight
<1>7. /\ StoredBefore(pages, 1) = 0
      /\ n > 0 => StoredBefore(pages, n + 1) = StoredBefore(pages, n) + pages[n].stored
  <2>1. n \in Nat
    BY <1>2
  <2>2. PICK q : q = pages
    OBVIOUS
  <2>3. \A i \in 1 .. n : pages[i].stored \in Nat /\ q[i] = pages[i]
    BY <1>6, <2>2
  <2>4. /\ StoredBefore(q, 1) = 0
        /\ n > 0 => StoredBefore(q, n + 1) = StoredBefore(pages, n) + pages[n].stored
    BY <2>1, <2>3, StoredBeforeNext
  <2> QED
    BY <2>2, <2>4
<1>8. SumOf(stored) = IF pages = <<>> THEN 0 ELSE Last(pages).offset + Last(pages).stored
  <2>1. CASE n = 0
    <3>1. n + 1 = 1
      BY <2>1
    <3> QED
      BY <1>4, <1>5, <1>7, <2>1, <3>1
  <2>2. CASE n # 0
    <3>1. n > 0 /\ n \in 1 .. n
      BY <1>2, <2>2
    <3>2. pages[n].offset = StoredBefore(pages, n)
      BY <1>2, <3>1 DEF PageRight
    <3>3. Last(pages) = pages[n]
      BY DEF Last, n
    <3> QED
      BY <1>4, <1>5, <1>7, <2>2, <3>1, <3>2, <3>3
  <2> QED
    BY <2>1, <2>2
<1> QED
  BY <1>3, <1>8 DEF LengthAccepted, pages

(* The runtime opens what the publisher writes.                              *)
LEMMA SnapshotAccepted ==
  ASSUME NEW t, SourceTree(t), Indexable(t), \A n \in Nat : Squeezed(n) \in Nat,
         NEW cat, cat = WriteSnapshot(t)
  PROVE  Accepted(cat)
<1>1. CountsAccepted(cat)
  BY CountsAre
<1>2. /\ TablesAccepted(cat) /\ HeaderAccepted(cat.header)
      /\ cat.header.pages = cat.mapPages + cat.reusePages /\ cat.header.region \in Nat
  BY TablesAreAccepted
<1>3. LengthAccepted(cat)
  BY <1>2, LengthIsAccepted
<1>4. PagesCover(cat)
  <2>1. CatalogOf(cat, Built(t))
    BY SnapshotIs
  <2> QED
    BY <2>1 DEF CatalogOf, PagesCover
<1>5. RecordsAccepted(cat)
  <2>1. \A f \in DOMAIN cat.files : FileAccepted(cat, cat.files[f])
    BY FilesAccepted
  <2>2. \A s \in DOMAIN cat.slots : SlotAccepted(cat, cat.slots[s])
    BY SlotsAccepted
  <2>3. \A s \in DOMAIN cat.segments : SegmentAccepted(cat.segments[s].record)
    BY SegmentsAccepted
  <2>4. \A i \in DOMAIN cat.pages : PageAccepted(cat, i)
    BY PagesAccepted
  <2> QED
    BY <1>4, <2>1, <2>2, <2>3, <2>4 DEF RecordsAccepted
<1> QED
  BY <1>1, <1>2, <1>3, <1>5 DEF Accepted

(* The publisher's next build finds each chunk with its block.               *)
LEMMA ReuseIsRight ==
  ASSUME NEW t, SourceTree(t), NEW cat, cat = WriteSnapshot(t)
  PROVE  /\ Len(ReuseRecords(cat)) = cat.blocks /\ DOMAIN ReuseRecords(cat) = 1 .. cat.blocks
         /\ \A r \in 1 .. cat.blocks :
              /\ InSegment(cat, ReuseRecords(cat)[r].block)
              /\ BlockBytes(cat, ReuseRecords(cat)[r].block) = ReuseRecords(cat)[r].chunk
<1> DEFINE out == Built(t)
<1>1. CatalogOf(cat, out)
  BY SnapshotIs
<1> HIDE DEF out
<1>2. /\ Len(ReuseRecords(cat)) = cat.blocks /\ DOMAIN ReuseRecords(cat) = 1 .. cat.blocks
      /\ \A r \in 1 .. cat.blocks : ReuseRecords(cat)[r] = ReusePair(cat, out, r)
  BY <1>1, ReuseRecordsAre
<1>3. ASSUME NEW r \in 1 .. cat.blocks
      PROVE  /\ InSegment(cat, ReuseRecords(cat)[r].block)
             /\ BlockBytes(cat, ReuseRecords(cat)[r].block) = ReuseRecords(cat)[r].chunk
  <2>1. RefRight(cat, BlockRef(cat, r), out.pending[r])
    BY <1>1, ReferenceIs
  <2>2. /\ ReuseRecords(cat)[r].block = BlockRef(cat, r)
        /\ ReuseRecords(cat)[r].chunk = out.pending[r].chunk
    <3>1. ReuseRecords(cat)[r] = ReusePair(cat, out, r)
      BY <1>2
    <3> QED
      BY <3>1 DEF ReusePair
  <2> QED
    BY <2>1, <2>2 DEF RefRight
<1>4. Len(ReuseRecords(cat)) = cat.blocks /\ DOMAIN ReuseRecords(cat) = 1 .. cat.blocks
  BY <1>2
<1> QED
  BY <1>3, <1>4
===============================================================================
