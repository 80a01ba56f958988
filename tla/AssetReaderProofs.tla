-------------------------- MODULE AssetReaderProofs --------------------------
(***************************************************************************)
(* Theorems about AssetReader, for any releases, buffers and seeks: what a *)
(* release's paths and offsets lead to, that its readers are files, and    *)
(* what a prefetch goes through.  CatalogProofs says what is in a release. *)
(***************************************************************************)
EXTENDS AssetReader, CatalogProofs

-------------------------------------------------------------------------------
(* Slices of a file.                                                        *)

(* A slice of a slice is a slice.                                            *)
LEMMA SliceOfSlice ==
  ASSUME NEW S, NEW q \in Seq(S), NEW a \in Nat, NEW b \in Nat, NEW c \in Nat, NEW d \in Nat,
         c <= d, a + d <= b, b <= Len(q)
  PROVE  SubSeq(SubSeq(q, a + 1, b), c + 1, d) = SubSeq(q, (a + c) + 1, a + d)
<1> DEFINE s == SubSeq(q, a + 1, b)
           t == SubSeq(s, c + 1, d)
           u == SubSeq(q, (a + c) + 1, a + d)
<1>1. /\ s \in Seq(S) /\ Len(s) = b - a
      /\ \A i \in 1 .. b - a : s[i] = q[a + i]
  <2>1. a + 1 \in 1 .. Len(q) + 1 /\ b \in ((a + 1) - 1) .. Len(q) /\ (a + 1) - 1 = a
    OBVIOUS
  <2> QED
    BY <2>1, SliceOf
<1> HIDE DEF s
<1>2. /\ t \in Seq(S) /\ Len(t) = d - c
      /\ \A i \in 1 .. d - c : t[i] = s[c + i]
  <2>1. c + 1 \in 1 .. Len(s) + 1 /\ d \in ((c + 1) - 1) .. Len(s) /\ (c + 1) - 1 = c
    BY <1>1
  <2> QED
    BY <1>1, <2>1, SliceOf
<1>3. /\ u \in Seq(S) /\ Len(u) = d - c
      /\ \A i \in 1 .. d - c : u[i] = q[(a + c) + i]
  <2>1. /\ (a + c) + 1 \in 1 .. Len(q) + 1 /\ a + d \in (((a + c) + 1) - 1) .. Len(q)
        /\ ((a + c) + 1) - 1 = a + c /\ (a + d) - (a + c) = d - c
    OBVIOUS
  <2> QED
    BY <2>1, SliceOf
<1> HIDE DEF t, u
<1>4. \A i \in 1 .. d - c : t[i] = u[i]
  <2> SUFFICES ASSUME NEW i \in 1 .. d - c
               PROVE  t[i] = u[i]
    OBVIOUS
  <2>1. c + i \in 1 .. b - a /\ a + (c + i) = (a + c) + i
    OBVIOUS
  <2> QED
    BY <1>1, <1>2, <1>3, <2>1
<1>5. t = u
  BY <1>2, <1>3, <1>4, SeqEqual
<1> QED
  BY <1>5 DEF s, t, u

(* Two slices that meet make one.                                            *)
LEMMA SlicesMeet ==
  ASSUME NEW S, NEW q \in Seq(S), NEW a \in Nat, NEW b \in Nat, NEW c \in Nat,
         a <= b, b <= c, c <= Len(q)
  PROVE  SubSeq(q, a + 1, b) \o SubSeq(q, b + 1, c) = SubSeq(q, a + 1, c)
<1> DEFINE s == SubSeq(q, a + 1, b)
           t == SubSeq(q, b + 1, c)
           u == SubSeq(q, a + 1, c)
<1>0. (a + 1) - 1 = a /\ (b + 1) - 1 = b
  OBVIOUS
<1>1. /\ s \in Seq(S) /\ Len(s) = b - a
      /\ \A i \in 1 .. b - a : s[i] = q[a + i]
  <2>1. a + 1 \in 1 .. Len(q) + 1 /\ b \in ((a + 1) - 1) .. Len(q)
    OBVIOUS
  <2> QED
    BY <1>0, <2>1, SliceOf
<1>2. /\ t \in Seq(S) /\ Len(t) = c - b
      /\ \A i \in 1 .. c - b : t[i] = q[b + i]
  <2>1. b + 1 \in 1 .. Len(q) + 1 /\ c \in ((b + 1) - 1) .. Len(q)
    OBVIOUS
  <2> QED
    BY <1>0, <2>1, SliceOf
<1>3. /\ u \in Seq(S) /\ Len(u) = c - a
      /\ \A i \in 1 .. c - a : u[i] = q[a + i]
  <2>1. a + 1 \in 1 .. Len(q) + 1 /\ c \in ((a + 1) - 1) .. Len(q)
    OBVIOUS
  <2> QED
    BY <1>0, <2>1, SliceOf
<1> HIDE DEF s, t, u
<1>4. /\ s \o t \in Seq(S) /\ Len(s \o t) = c - a
      /\ \A i \in 1 .. c - a : (s \o t)[i] = IF i <= b - a THEN s[i] ELSE t[i - (b - a)]
  <2>1. /\ s \o t \in Seq(S) /\ Len(s \o t) = Len(s) + Len(t)
        /\ \A i \in 1 .. Len(s) + Len(t) :
             (s \o t)[i] = IF i <= Len(s) THEN s[i] ELSE t[i - Len(s)]
    BY ONLY <1>1, <1>2, ConcatProperties
  <2>2. Len(s) + Len(t) = c - a
    BY <1>1, <1>2
  <2> QED
    BY <1>1, <2>1, <2>2
<1>5. \A i \in 1 .. c - a : (s \o t)[i] = u[i]
  <2> SUFFICES ASSUME NEW i \in 1 .. c - a
               PROVE  (s \o t)[i] = u[i]
    OBVIOUS
  <2>1. CASE i <= b - a
    BY <1>1, <1>3, <1>4, <2>1
  <2>2. CASE i > b - a
    <3>1. i - (b - a) \in 1 .. c - b /\ b + (i - (b - a)) = a + i /\ ~(i <= b - a)
      BY <2>2
    <3>2. (s \o t)[i] = t[i - (b - a)]
      BY <1>4, <3>1, Zenon
    <3>3. t[i - (b - a)] = q[b + (i - (b - a))]
      BY <1>2, <3>1, Zenon
    <3>4. u[i] = q[a + i]
      BY <1>3, Zenon
    <3> QED
      BY <3>1, <3>2, <3>3, <3>4, Zenon
  <2>3. i <= b - a \/ i > b - a
    OBVIOUS
  <2> QED
    BY <2>1, <2>2, <2>3
<1> DEFINE v == s \o t
<1>6. /\ v \in Seq(S) /\ Len(v) = Len(u)
      /\ \A i \in 1 .. Len(v) : v[i] = u[i]
  BY <1>3, <1>4, <1>5
<1> HIDE DEF v
<1>7. v = u
  BY <1>3, <1>6, SeqEqual
<1> QED
  BY <1>7 DEF s, t, u, v

-------------------------------------------------------------------------------
(* Blocks that follow one another.                                          *)

(* Where a file's blocks end, each further than those before it.              *)
LEMMA EndsAscend ==
  ASSUME NEW cat, NEW file, NEW bytes, NEW ends, Tabled(cat, file, bytes, ends)
  PROVE  \A i, j \in 0 .. file.count : i <= j => ends[i] <= ends[j]
<1> DEFINE k == file.count
<1>1. k \in Nat /\ \A i \in 1 .. k : ends[i - 1] \in Nat /\ ends[i] \in Nat /\ ends[i - 1] < ends[i]
  BY DEF Tabled
<1>2. \A i \in 0 .. k : ends[i] \in Nat
  BY <1>1 DEF Tabled
<1> HIDE DEF k
<1>3. ASSUME NEW i \in 0 .. k
      PROVE  \A j \in 0 .. k : i <= j => ends[i] <= ends[j]
  <2> DEFINE S == {j \in 0 .. k : i <= j => ends[i] <= ends[j]}
  <2>1. 0 \in S
    BY <1>1, <1>2
  <2>2. ASSUME NEW j \in 0 .. k - 1, j \in S
        PROVE  j + 1 \in S
    <3>1. j + 1 \in 1 .. k /\ (j + 1) - 1 = j /\ j \in 0 .. k
      BY <1>1
    <3>2. ends[j] < ends[j + 1] /\ ends[j] \in Nat /\ ends[j + 1] \in Nat
      BY <1>1, <3>1
    <3>3. CASE i <= j
      BY <1>2, <2>2, <3>1, <3>2, <3>3
    <3>4. CASE i > j
      <4>1. i = j + 1 \/ i > j + 1
        BY <3>1, <3>4
      <4> QED
        BY <1>2, <3>1, <4>1
    <3> QED
      BY <3>1, <3>3, <3>4
  <2>3. \A j \in 0 .. k : j \in S
    <3> HIDE DEF S
    <3> QED
      BY <1>1, <2>1, <2>2, UpTo
  <2> QED
    BY <2>3
<1> QED
  BY <1>3 DEF k

BlocksOf(cat, file) == {BlockAt(cat, file, i) : i \in 1 .. file.count}

(* Blocks of a file that follow one another, from the one that holds a place; *)
(* the last of them begins before an end.                                    *)
RunOf(q, cat, file, from, end, first, n) ==
  /\ first - 1 + n <= file.count
  /\ q = [i \in 1 .. n |-> BlockAt(cat, file, first - 1 + i)]
  /\ Covers(BlockAt(cat, file, first), from)
  /\ from < end /\ BlockAt(cat, file, first - 1 + n).logical < end

IsRun(q, cat, file, from, end) ==
  q = <<>> \/ \E first, n \in 1 .. file.count : RunOf(q, cat, file, from, end, first, n)

(* Where it has come to.                                                     *)
RunEnd(q, from) == IF q = <<>> THEN from ELSE Last(q).logical + Last(q).plain

RunRight(q, cat, file, ends, from, first, n) ==
  /\ q \in Seq(BlocksOf(cat, file)) /\ Len(q) = n /\ q # <<>>
  /\ \A i \in 1 .. n : q[i] = BlockAt(cat, file, first - 1 + i)
  /\ first - 1 + n \in 1 .. file.count
  /\ RunEnd(q, from) = ends[first - 1 + n]

LEMMA RunIs ==
  ASSUME NEW cat, NEW file, NEW bytes, NEW ends, Tabled(cat, file, bytes, ends),
         NEW from \in Nat, NEW end \in Nat, NEW q,
         NEW first \in 1 .. file.count, NEW n \in 1 .. file.count,
         RunOf(q, cat, file, from, end, first, n)
  PROVE  RunRight(q, cat, file, ends, from, first, n)
<1> DEFINE k == file.count
           S == BlocksOf(cat, file)
           last == first - 1 + n
<1>1. /\ k \in Nat
      /\ \A i \in 1 .. k :
           /\ ends[i - 1] \in Nat /\ ends[i] \in Nat
           /\ BlockAt(cat, file, i).logical = ends[i - 1]
           /\ BlockAt(cat, file, i).plain = ends[i] - ends[i - 1]
  BY DEF Tabled
<1>2. first - 1 + n <= k /\ q = [i \in 1 .. n |-> BlockAt(cat, file, first - 1 + i)]
  BY DEF RunOf
<1>3. last \in 1 .. k /\ n \in Nat /\ n \in 1 .. n
  BY <1>1, <1>2
<1>4. \A i \in 1 .. n : first - 1 + i \in 1 .. k
  BY <1>1, <1>2
<1>5. \A i \in 1 .. n : q[i] = BlockAt(cat, file, first - 1 + i)
  BY <1>2
<1>6. \A i \in 1 .. n : q[i] \in S
  BY <1>4, <1>5 DEF BlocksOf
<1>7. q = [i \in 1 .. n |-> q[i]]
  BY <1>2
<1> HIDE DEF S
<1>8. q \in Seq(S) /\ Len(q) = n
  BY <1>3, <1>6, <1>7, IsSeq
<1>9. q # <<>> /\ Last(q) = BlockAt(cat, file, last)
  BY <1>3, <1>5, <1>8 DEF Last
<1> HIDE DEF last
<1>10. RunEnd(q, from) = ends[last]
  <2>1. RunEnd(q, from) = BlockAt(cat, file, last).logical + BlockAt(cat, file, last).plain
    BY <1>9 DEF RunEnd
  <2>2. /\ ends[last - 1] \in Nat /\ ends[last] \in Nat
        /\ BlockAt(cat, file, last).logical = ends[last - 1]
        /\ BlockAt(cat, file, last).plain = ends[last] - ends[last - 1]
    BY <1>1, <1>3
  <2> QED
    BY <2>1, <2>2
<1> QED
  BY <1>3, <1>5, <1>8, <1>9, <1>10 DEF S, last, RunRight

(* The block at the place it has come to goes on with it.                     *)
LEMMA RunMore ==
  ASSUME NEW cat, NEW file, NEW bytes, NEW ends, Tabled(cat, file, bytes, ends),
         NEW from \in Nat, NEW end \in Nat, end <= Len(bytes),
         NEW q, IsRun(q, cat, file, from, end), RunEnd(q, from) < end,
         NEW c \in 1 .. file.count, ends[c - 1] <= RunEnd(q, from), RunEnd(q, from) < ends[c]
  PROVE  IsRun(Append(q, BlockAt(cat, file, c)), cat, file, from, end)
<1> DEFINE k == file.count
           r == Append(q, BlockAt(cat, file, c))
<1>1. /\ k \in Nat /\ ends[k] = Len(bytes)
      /\ \A i \in 1 .. k :
           /\ ends[i - 1] \in Nat /\ ends[i] \in Nat /\ ends[i - 1] < ends[i]
           /\ BlockAt(cat, file, i).logical = ends[i - 1]
           /\ BlockAt(cat, file, i).plain = ends[i] - ends[i - 1]
  BY DEF Tabled
<1>2. ASSUME NEW first \in 1 .. k, NEW n \in 1 .. k, RunOf(r, cat, file, from, end, first, n)
      PROVE  IsRun(r, cat, file, from, end)
  BY <1>2 DEF IsRun
<1>3. /\ ends[c - 1] \in Nat /\ ends[c] \in Nat
      /\ BlockAt(cat, file, c).logical = ends[c - 1]
      /\ BlockAt(cat, file, c).plain = ends[c] - ends[c - 1]
  BY <1>1
<1>4. CASE q = <<>>
  <2>1. ends[c - 1] <= from /\ from < ends[c] /\ from < end
    BY <1>4 DEF RunEnd
  <2>2. Covers(BlockAt(cat, file, c), from)
    BY <1>3, <2>1 DEF Covers
  <2>3. BlockAt(cat, file, c).logical < end
    BY <1>3, <2>1
  <2>4. r = <<BlockAt(cat, file, c)>>
    BY <1>4
  <2>5. r = [i \in 1 .. 1 |-> BlockAt(cat, file, c - 1 + i)]
    <3>1. \A i \in 1 .. 1 : c - 1 + i = c /\ i = 1
      BY <1>1
    <3> QED
      BY <2>4, <3>1
  <2>6. 1 \in 1 .. k /\ c - 1 + 1 = c /\ c <= k
    BY <1>1
  <2>7. RunOf(r, cat, file, from, end, c, 1)
    BY <2>1, <2>2, <2>3, <2>5, <2>6 DEF RunOf
  <2> QED
    BY <1>2, <2>6, <2>7
<1>5. CASE q # <<>>
  <2>1. PICK first \in 1 .. k, n \in 1 .. k : RunOf(q, cat, file, from, end, first, n)
    BY <1>5 DEF IsRun
  <2> DEFINE last == first - 1 + n
             S == BlocksOf(cat, file)
  <2>a. /\ q \in Seq(S) /\ Len(q) = n
        /\ \A i \in 1 .. n : q[i] = BlockAt(cat, file, first - 1 + i)
        /\ last \in 1 .. k /\ RunEnd(q, from) = ends[last]
    <3>1. first \in 1 .. file.count /\ n \in 1 .. file.count
      OBVIOUS
    <3> HIDE DEF r, k
    <3>2. RunRight(q, cat, file, ends, from, first, n)
      BY <2>1, <3>1, RunIs
    <3> QED
      BY <3>2 DEF k, RunRight
  <2> HIDE DEF S
  <2>b. last \in 1 .. k
    BY <2>a
  <2>c. RunEnd(q, from) = ends[last]
    BY <2>a
  <2>2. q \in Seq(S) /\ Len(q) = n /\ \A i \in 1 .. n : q[i] = BlockAt(cat, file, first - 1 + i)
    BY <2>a
  <2>d. c \in 1 .. k /\ k \in Nat
    BY <1>1
  <2>3. c = last + 1
    <3> HIDE DEF last, k, r
    <3>1. \A i, j \in 0 .. k : i <= j => ends[i] <= ends[j]
      BY EndsAscend DEF k
    <3>2. ends[c - 1] <= ends[last] /\ ends[last] < ends[c]
      BY <2>c
    <3>5. ends[c - 1] \in Nat /\ ends[c] \in Nat /\ ends[last] \in Nat
      BY <1>1, <2>b, <2>d
    <3>3. ~ c <= last
      BY <2>b, <2>d, <3>1, <3>2, <3>5
    <3>4. ASSUME last + 1 <= c - 1
          PROVE  FALSE
      <4>1. last + 1 \in 1 .. k /\ c - 1 \in 0 .. k /\ last + 1 \in 0 .. k /\ (last + 1) - 1 = last
        BY <2>b, <2>d, <3>4
      <4>2. ends[last] < ends[last + 1] /\ ends[last + 1] \in Nat
        BY <1>1, <4>1
      <4>3. ends[last + 1] <= ends[c - 1]
        BY <3>1, <3>4, <4>1
      <4> QED
        BY <3>2, <3>5, <4>2, <4>3
    <3> QED
      BY <2>b, <2>d, <3>3, <3>4
  <2>4. c = first - 1 + (n + 1) /\ n + 1 \in 1 .. k
    BY <1>1, <2>3, <2>d
  <2>5. r = [i \in 1 .. n + 1 |-> BlockAt(cat, file, first - 1 + i)]
    <3> DEFINE f == [i \in 1 .. n + 1 |-> BlockAt(cat, file, first - 1 + i)]
               new == BlockAt(cat, file, c)
    <3>1. n \in Nat /\ Len(q) = n /\ List(q)
      BY <1>1, <2>2, SeqIsList
    <3>2. \A i \in 1 .. n + 1 : f[i] = IF i = n + 1 THEN new ELSE q[i]
      <4>1. \A i \in 1 .. n + 1 : i = n + 1 \/ i \in 1 .. n
        BY <3>1
      <4> QED
        BY <2>2, <2>4, <4>1
    <3> HIDE DEF new
    <3>3. PICK s : s = Append(q, new)
      OBVIOUS
    <3>4. OneMore(q, s, new)
      BY <3>1, <3>3, Appended
    <3>5. /\ s = [i \in 1 .. n + 1 |-> s[i]]
          /\ \A i \in 1 .. n + 1 : s[i] = IF i = n + 1 THEN new ELSE q[i]
      <4>1. /\ s = [i \in 1 .. Len(s) |-> s[i]] /\ Len(s) = n + 1 /\ s[n + 1] = new
            /\ \A i \in 1 .. n : s[i] = q[i]
        BY <3>1, <3>4 DEF OneMore, List
      <4>2. \A i \in 1 .. n + 1 : i = n + 1 \/ i \in 1 .. n
        BY <3>1
      <4> QED
        BY <4>1, <4>2
    <3>6. f = [i \in 1 .. n + 1 |-> f[i]]
      OBVIOUS
    <3> HIDE DEF f
    <3>7. f = s
      BY <3>2, <3>5, <3>6
    <3> QED
      BY <3>3, <3>7 DEF f, new
  <2>6. Covers(BlockAt(cat, file, first), from) /\ from < end
    BY <2>1 DEF RunOf
  <2>7. BlockAt(cat, file, c).logical < end
    <3>1. ends[last] \in Nat /\ ends[c - 1] <= ends[last] /\ ends[last] < end
      BY <1>1, <2>b, <2>c
    <3> QED
      BY <1>3, <3>1
  <2>8. RunOf(r, cat, file, from, end, first, n + 1)
    <3>1. first - 1 + (n + 1) <= k
      BY <1>1, <2>4
    <3> HIDE DEF r
    <3> QED
      BY <2>4, <2>5, <2>6, <2>7, <3>1 DEF RunOf
  <2> QED
    BY <1>2, <2>4, <2>8
<1> QED
  BY <1>4, <1>5

LEMMA RunEndIs ==
  ASSUME NEW cat, NEW file, NEW bytes, NEW ends, Tabled(cat, file, bytes, ends),
         NEW from \in Nat, NEW end \in Nat, NEW q, IsRun(q, cat, file, from, end)
  PROVE  RunEnd(q, from) \in Nat
<1>1. CASE q = <<>>
  BY <1>1 DEF RunEnd
<1>2. CASE q # <<>>
  <2>1. PICK first, n \in 1 .. file.count : RunOf(q, cat, file, from, end, first, n)
    BY <1>2 DEF IsRun
  <2>2. RunRight(q, cat, file, ends, from, first, n)
    BY <2>1, RunIs
  <2>3. RunEnd(q, from) = ends[first - 1 + n] /\ first - 1 + n \in 1 .. file.count
    BY <2>2 DEF RunRight
  <2> QED
    BY <2>3 DEF Tabled
<1> QED
  BY <1>1, <1>2

(* Exactly the blocks that hold a byte from a place to an end, in order.      *)
Spanned(q, cat, file, from, end) ==
  \E first \in 1 .. file.count + 1 :
    /\ {i \in 1 .. file.count :
          /\ from < end /\ BlockAt(cat, file, i).logical < end
          /\ BlockAt(cat, file, i).logical + BlockAt(cat, file, i).plain > from}
         = first .. first - 1 + Len(q)
    /\ \A i \in 1 .. Len(q) : q[i] = BlockAt(cat, file, first - 1 + i)

(* A run that has come to its end is the blocks that hold a byte before it.   *)
LEMMA RunCovers ==
  ASSUME NEW cat, NEW file, NEW bytes, NEW ends, Tabled(cat, file, bytes, ends),
         NEW from \in Nat, NEW end \in Nat, from <= end, NEW q, IsRun(q, cat, file, from, end),
         RunEnd(q, from) >= end
  PROVE  Spanned(q, cat, file, from, end)
<1> DEFINE k == file.count
           needed == {i \in 1 .. k :
                 /\ from < end /\ BlockAt(cat, file, i).logical < end
                 /\ BlockAt(cat, file, i).logical + BlockAt(cat, file, i).plain > from}
<1>1. k \in Nat
      /\ \A i \in 1 .. k :
           /\ ends[i - 1] \in Nat /\ ends[i] \in Nat
           /\ BlockAt(cat, file, i).logical = ends[i - 1]
           /\ BlockAt(cat, file, i).plain = ends[i] - ends[i - 1]
  BY DEF Tabled
<1>2. \A i \in 1 .. k : i \in needed <=> from < end /\ ends[i - 1] < end /\ ends[i] > from
  <2> SUFFICES ASSUME NEW i \in 1 .. k
               PROVE  i \in needed <=> from < end /\ ends[i - 1] < end /\ ends[i] > from
    OBVIOUS
  <2>1. BlockAt(cat, file, i).logical + BlockAt(cat, file, i).plain = ends[i]
    BY <1>1
  <2> QED
    BY <1>1, <2>1
<1>3. needed \subseteq 1 .. k
  OBVIOUS
<1> HIDE DEF needed
<1>4. SUFFICES \E first \in 1 .. k + 1 :
                 /\ needed = first .. first - 1 + Len(q)
                 /\ \A i \in 1 .. Len(q) : q[i] = BlockAt(cat, file, first - 1 + i)
  BY <1>4 DEF needed, Spanned
<1>5. CASE q = <<>>
  <2>1. ~ from < end
    BY <1>5 DEF RunEnd
  <2>2. needed = {}
    BY <1>2, <1>3, <2>1
  <2>3. Len(q) = 0 /\ 1 .. 0 = {} /\ 1 \in 1 .. k + 1 /\ 1 - 1 + 0 = 0
    BY <1>1, <1>5
  <2> QED
    BY <2>2, <2>3
<1>6. CASE q # <<>>
  <2>1. PICK first, n \in 1 .. k : RunOf(q, cat, file, from, end, first, n)
    BY <1>6 DEF IsRun
  <2>2. RunRight(q, cat, file, ends, from, first, n)
    BY <2>1, RunIs
  <2> DEFINE last == first - 1 + n
  <2>3. Len(q) = n /\ last \in 1 .. k /\ ends[last] >= end
    BY <2>2 DEF RunRight
  <2>4. \A i \in 1 .. Len(q) : q[i] = BlockAt(cat, file, first - 1 + i)
    BY <2>2 DEF RunRight
  <2>5. from < end /\ ends[first - 1] <= from /\ from < ends[first] /\ ends[last - 1] < end
    <3>1. /\ from < end /\ BlockAt(cat, file, last).logical < end
          /\ Covers(BlockAt(cat, file, first), from)
      BY <2>1 DEF RunOf
    <3>2. BlockAt(cat, file, first).logical + BlockAt(cat, file, first).plain = ends[first]
      BY <1>1
    <3> QED
      BY <1>1, <2>3, <3>1, <3>2 DEF Covers
  <2> HIDE DEF last
  <2>6. \A i, j \in 0 .. k : i <= j => ends[i] <= ends[j]
    BY EndsAscend
  <2>7. ASSUME NEW i \in 1 .. k
        PROVE  i \in needed <=> first <= i /\ i <= last
    <3> HIDE DEF k
    <3>1. /\ i - 1 \in 0 .. k /\ i \in 0 .. k /\ first - 1 \in 0 .. k /\ first \in 0 .. k
          /\ last - 1 \in 0 .. k /\ last \in 0 .. k
      BY <1>1, <2>3
    <3>2. /\ ends[i - 1] \in Nat /\ ends[i] \in Nat /\ ends[first - 1] \in Nat /\ ends[first] \in Nat
          /\ ends[last - 1] \in Nat /\ ends[last] \in Nat
      BY <1>1, <2>3
    <3>3. first <= i => ends[first] <= ends[i]
      BY <2>6, <3>1
    <3>4. i < first => ends[i] <= ends[first - 1]
      <4>1. i < first => i <= first - 1
        BY <3>1
      <4> QED
        BY <2>6, <3>1, <4>1
    <3>5. i <= last => ends[i - 1] <= ends[last - 1]
      <4>1. i <= last => i - 1 <= last - 1
        BY <3>1
      <4> QED
        BY <2>6, <3>1, <4>1
    <3>6. i > last => ends[last] <= ends[i - 1]
      <4>1. i > last => last <= i - 1
        BY <3>1
      <4> QED
        BY <2>6, <3>1, <4>1
    <3>7. first <= i \/ i < first
      BY <3>1
    <3>8. i <= last \/ i > last
      BY <3>1
    <3>9. i \in needed <=> ends[i - 1] < end /\ ends[i] > from
      BY <1>2, <2>5
    <3>10. first <= i <=> ends[i] > from
      BY <2>5, <3>1, <3>2, <3>3, <3>4, <3>7
    <3>11. i <= last <=> ends[i - 1] < end
      BY <2>3, <2>5, <3>1, <3>2, <3>5, <3>6, <3>8
    <3> QED
      BY <3>9, <3>10, <3>11
  <2>8. needed = first .. last
    <3>1. first \in Nat \ {0} /\ last \in 1 .. k /\ k \in Nat
      BY <1>1, <2>3
    <3>2. first .. last \subseteq 1 .. k /\ \A i \in 1 .. k : i \in first .. last <=> first <= i /\ i <= last
      BY <3>1
    <3> HIDE DEF k
    <3> QED
      BY ONLY <1>3, <2>7, <3>2
  <2>9. first \in 1 .. k + 1 /\ first - 1 + Len(q) = last
    BY <1>1, <2>3 DEF last
  <2> QED
    BY <2>4, <2>8, <2>9
<1> QED
  BY <1>5, <1>6

-------------------------------------------------------------------------------
(* What is found in the release.                                            *)

(* The catalog is the snapshot of one of the trees, and what is put down of   *)
(* the open asset is what is found in the catalog.                           *)
CatalogInv ==
  /\ tree \in Trees /\ catalog = WriteSnapshot(tree)
  /\ asset # NoAsset =>
       /\ DOMAIN asset = {"mode", "file", "position", "current", "previous", "segment", "at"}
       /\ asset.file \in DOMAIN catalog.files
       /\ asset.at = Located(catalog.files[asset.file])

(* The asset is another state of the one that was open.                      *)
SameAsset ==
  /\ DOMAIN asset' = DOMAIN asset /\ asset'.file = asset.file /\ asset'.at = asset.at

LEMMA CatalogStep == CatalogInv /\ [Next]_vars => CatalogInv'
<1> SUFFICES ASSUME CatalogInv, [Next]_vars
             PROVE  CatalogInv'
  OBVIOUS
<1>1. CASE UNCHANGED <<tree, catalog, asset>>
  BY <1>1 DEF CatalogInv, Located
<1>2. CASE \E path \in Paths, mode \in {"cursor", "session"} : OpenAsset(path, mode)
  <2>1. PICK path \in Paths, mode \in {"cursor", "session"} : OpenAsset(path, mode)
    BY <1>2
  <2>2. UNCHANGED <<tree, catalog>> /\ FindFile(catalog, path) \in DOMAIN catalog.files
    BY <2>1 DEF OpenAsset
  <2>3. PICK file : /\ file = FindFile(catalog, path)
                    /\ asset' = [mode |-> mode, file |-> file, position |-> 0,
                         current |-> NoBlock, previous |-> NoBlock, segment |-> 0,
                         at |-> Located(catalog.files[file])]
    BY <2>1 DEF OpenAsset
  <2>4. /\ DOMAIN asset' = {"mode", "file", "position", "current", "previous", "segment", "at"}
        /\ asset'.file = file /\ asset'.at = Located(catalog.files[file])
    BY <2>3
  <2> QED
    BY <2>2, <2>3, <2>4 DEF CatalogInv, Located
<1>3. CASE asset # NoAsset /\ UNCHANGED <<tree, catalog>> /\ SameAsset
  <2>1. Located(catalog.files[asset.file])' = Located(catalog.files[asset.file])
    BY <1>3 DEF Located, SameAsset
  <2> QED
    BY <1>3, <2>1 DEF CatalogInv, SameAsset
<1>4. ASSUME asset # NoAsset, Work
      PROVE  UNCHANGED <<tree, catalog>> /\ SameAsset
  <2>1. DOMAIN asset = {"mode", "file", "position", "current", "previous", "segment", "at"}
    BY <1>4 DEF CatalogInv
  <2>2. CASE Serve \/ PrefetchBlock \/ PrefetchFails \/ PrefetchEnds \/ Return \/ BeyondTheEnd \/ LocateFails
    BY <2>2 DEF Serve, PrefetchBlock, PrefetchFails, PrefetchEnds, Return, BeyondTheEnd, LocateFails,
       Fail, Answer, SameAsset
  <2>3. CASE Seek \/ Exchange \/ ReadEnds
    BY <2>1, <2>3 DEF Seek, Exchange, ReadEnds, Answer, SameAsset
  <2>4. CASE Load \/ LoadFails
    <3>1. DOMAIN GiveUp = DOMAIN asset /\ GiveUp.file = asset.file /\ GiveUp.at = asset.at
      BY <2>1 DEF GiveUp
    <3> QED
      BY <2>1, <2>4, <3>1 DEF Load, LoadFails, Fail, Answer, SameAsset
  <2> QED
    BY <1>4, <2>2, <2>3, <2>4 DEF Work
<1>5. ASSUME asset = NoAsset, Work
      PROVE  UNCHANGED <<tree, catalog, asset>>
  <2>1. DOMAIN asset = {"mode"}
    BY <1>5 DEF NoAsset
  <2>2. CASE Serve \/ PrefetchBlock \/ PrefetchFails \/ PrefetchEnds \/ Return \/ BeyondTheEnd \/ LocateFails
    BY <2>2 DEF Serve, PrefetchBlock, PrefetchFails, PrefetchEnds, Return, BeyondTheEnd, LocateFails,
       Fail, Answer
  <2>3. CASE Seek \/ Exchange \/ ReadEnds
    BY <1>5, <2>3 DEF Seek, Exchange, ReadEnds, Answer, NoAsset
  <2>4. CASE Load \/ LoadFails
    <3>1. GiveUp = asset
      BY <1>5 DEF GiveUp, NoAsset
    <3> QED
      BY <1>5, <2>4, <3>1 DEF Load, LoadFails, Fail, Answer, NoAsset
  <2> QED
    BY <1>5, <2>2, <2>3, <2>4 DEF Work
<1>6. CASE OpenPackage \/ (asset # NoAsset /\ Asking) \/ UNCHANGED vars
  <2>1. UNCHANGED <<tree, catalog, asset>>
    BY <1>6 DEF OpenPackage, Asking, AskRead, AskReadAt, AskPrefetch, AskSeek, Ask, vars
  <2> QED
    BY <1>1, <2>1
<1> QED
  BY <1>1, <1>2, <1>3, <1>4, <1>5, <1>6 DEF Next

LEMMA CatalogHolds == Spec => []CatalogInv
<1>1. Init => CatalogInv
  BY DEF Init, CatalogInv
<1> QED
  BY <1>1, CatalogStep, PTL DEF Spec

LEMMA BytesAre ==
  ASSUME NEW t \in Trees, NEW f \in DOMAIN t
  PROVE  t[f].bytes \in Seq(Nat)
  BY ConstantsAssumption DEF SourceTree, SourceFile

(* The file of the open asset, and where its offsets are.                    *)
LEMMA AssetIs ==
  ASSUME CatalogInv, asset # NoAsset
  PROVE  /\ asset.file \in DOMAIN tree /\ FileBytes \in Seq(Nat)
         /\ \E ends :
              /\ Tabled(catalog, Record, FileBytes, ends)
              /\ \A offset \in 0 .. Len(FileBytes) - 1 :
                   \E c \in 1 .. Record.count :
                     /\ FoundIn(catalog, Record, ends, offset, c)
                     /\ asset.at[offset] = BlockAt(catalog, Record, c)
<1>1. SourceTree(tree) /\ catalog = WriteSnapshot(tree) /\ asset.file \in DOMAIN catalog.files
  BY ConstantsAssumption DEF CatalogInv
<1>2. asset.file \in 1 .. Len(tree) /\ DOMAIN tree = 1 .. Len(tree)
  BY <1>1, FilesAre
<1>3. SourceFile(tree[asset.file])
  BY <1>1, <1>2 DEF SourceTree
<1>4. FileBytes \in Seq(Nat)
  BY <1>3 DEF SourceFile, FileBytes
<1>5. Readable(catalog, Record, tree[asset.file])
  BY <1>1, <1>2, FilesReadable DEF Record
<1>6. PICK ends : /\ Tabled(catalog, Record, FileBytes, ends)
                  /\ \A offset \in 0 .. Len(FileBytes) - 1 :
                       \E c \in 1 .. Record.count : FoundIn(catalog, Record, ends, offset, c)
  BY <1>5 DEF Readable, FileBytes
<1>7. Record.len = Len(FileBytes)
  BY <1>6 DEF Tabled
<1>8. asset.at = [offset \in 0 .. Len(FileBytes) - 1 |-> ReferenceForOffset(catalog, Record, offset)]
  BY <1>7 DEF CatalogInv, Located, Record
<1>9. ASSUME NEW offset \in 0 .. Len(FileBytes) - 1
      PROVE  \E c \in 1 .. Record.count :
               /\ FoundIn(catalog, Record, ends, offset, c)
               /\ asset.at[offset] = BlockAt(catalog, Record, c)
  <2>1. PICK c \in 1 .. Record.count : FoundIn(catalog, Record, ends, offset, c)
    BY <1>6
  <2>2. ReferenceForOffset(catalog, Record, offset) = BlockAt(catalog, Record, c)
    BY <2>1 DEF FoundIn
  <2> QED
    BY <1>8, <2>1, <2>2
<1> QED
  BY <1>2, <1>4, <1>6, <1>9

LEMMA OffsetsAreFound == CatalogInv => EveryOffsetIsFound
<1> SUFFICES ASSUME CatalogInv, asset # NoAsset
             PROVE  /\ asset.file \in DOMAIN tree /\ Length = Len(FileBytes)
                    /\ \A offset \in 0 .. Length - 1 :
                         LET ref == asset.at[offset] IN
                         /\ ref # NoReference /\ InSegment(catalog, ref)
                         /\ ref.logical \in Nat /\ ref.plain \in 1 .. Length - ref.logical
                         /\ Covers(ref, offset)
                         /\ BlockBytes(catalog, ref)
                              = SubSeq(FileBytes, ref.logical + 1, ref.logical + ref.plain)
  BY DEF EveryOffsetIsFound
<1>1. PICK ends : /\ Tabled(catalog, Record, FileBytes, ends)
                  /\ \A offset \in 0 .. Len(FileBytes) - 1 :
                       \E c \in 1 .. Record.count :
                         /\ FoundIn(catalog, Record, ends, offset, c)
                         /\ asset.at[offset] = BlockAt(catalog, Record, c)
  BY AssetIs
<1>2. asset.file \in DOMAIN tree /\ FileBytes \in Seq(Nat) /\ Len(FileBytes) \in Nat
  BY AssetIs
<1>3. Length = Len(FileBytes)
  BY <1>1 DEF Tabled, Length
<1>4. ASSUME NEW offset \in 0 .. Length - 1
      PROVE  LET ref == asset.at[offset] IN
             /\ ref # NoReference /\ InSegment(catalog, ref)
             /\ ref.logical \in Nat /\ ref.plain \in 1 .. Length - ref.logical
             /\ Covers(ref, offset)
             /\ BlockBytes(catalog, ref)
                  = SubSeq(FileBytes, ref.logical + 1, ref.logical + ref.plain)
  <2>1. PICK c \in 1 .. Record.count :
          /\ FoundIn(catalog, Record, ends, offset, c)
          /\ asset.at[offset] = BlockAt(catalog, Record, c)
    BY <1>1, <1>3
  <2> DEFINE ref == BlockAt(catalog, Record, c)
  <2>2. PICK a, b : a = ends[c - 1] /\ b = ends[c]
    OBVIOUS
  <2>3. /\ a \in Nat /\ b \in Nat /\ a < b /\ b <= Len(FileBytes)
        /\ ref.logical = a /\ ref.plain = b - a
        /\ InSegment(catalog, ref) /\ BlockBytes(catalog, ref) = SubSeq(FileBytes, a + 1, b)
    BY <1>1, <2>2 DEF Tabled
  <2>4. a <= offset /\ offset < b
    BY <2>1, <2>2 DEF FoundIn
  <2> HIDE DEF ref
  <2>5. asset.at[offset] = ref
    BY <2>1 DEF ref
  <2>6. ref # NoReference
    BY <2>3 DEF NoReference
  <2>7. a + (b - a) = b /\ b - a \in 1 .. Length - a
    BY <1>2, <1>3, <2>3
  <2>8. Covers(ref, offset)
    BY <2>3, <2>4, <2>7 DEF Covers
  <2> QED
    BY <2>3, <2>5, <2>6, <2>7, <2>8
<1> QED
  BY <1>2, <1>3, <1>4

(* Every path of the tree is found at its file, and no other path is.         *)
LEMMA PathsAreFound == CatalogInv => EveryPathIsFound
<1> SUFFICES ASSUME CatalogInv, NEW path \in Paths
             PROVE  LET packed == {f \in DOMAIN tree : tree[f].path = path} IN
                    FindFile(catalog, path) = IF packed = {} THEN 0 ELSE CHOOSE f \in packed : TRUE
  BY DEF EveryPathIsFound
<1> DEFINE packed == {f \in DOMAIN tree : tree[f].path = path}
<1>1. SourceTree(tree) /\ Indexable(tree) /\ catalog = WriteSnapshot(tree)
  BY ConstantsAssumption DEF CatalogInv
<1>2. PICK n \in Nat : PathIndex(catalog, tree, n)
  BY <1>1, PathIndexIs
<1>3. /\ \A f \in 1 .. Len(tree) : tree[f].path = path => FindFile(catalog, path) = f
      /\ (\A f \in 1 .. Len(tree) : tree[f].path # path) => FindFile(catalog, path) = 0
  BY <1>1, <1>2, PathFound
<1>4. packed = {f \in 1 .. Len(tree) : tree[f].path = path}
  BY <1>1 DEF SourceTree
<1> HIDE DEF packed
<1>5. CASE packed = {}
  BY <1>3, <1>4, <1>5 DEF packed
<1>6. CASE packed # {}
  <2>1. (CHOOSE f \in packed : TRUE) \in packed
    BY <1>6
  <2> QED
    BY <1>3, <1>4, <1>6, <2>1 DEF packed
<1> QED
  BY <1>5, <1>6
  
LEMMA ReusePairs ==
  ASSUME \A n \in Nat : Squeezed(n) \in Nat
  PROVE  CatalogInv => ReusePairsChunksWithBlocks
<1> SUFFICES ASSUME CatalogInv
             PROVE  ReusePairsChunksWithBlocks
  OBVIOUS
<1>1. SourceTree(tree) /\ Indexable(tree) /\ catalog = WriteSnapshot(tree)
  BY ConstantsAssumption DEF CatalogInv
<1>2. Accepted(catalog)
  BY <1>1, SnapshotAccepted
<1>3. /\ Len(ReuseRecords(catalog)) = catalog.blocks
      /\ DOMAIN ReuseRecords(catalog) = 1 .. catalog.blocks
      /\ \A r \in 1 .. catalog.blocks :
           /\ InSegment(catalog, ReuseRecords(catalog)[r].block)
           /\ BlockBytes(catalog, ReuseRecords(catalog)[r].block) = ReuseRecords(catalog)[r].chunk
  BY <1>1, ReuseIsRight
<1> QED
  BY <1>2, <1>3 DEF ReusePairsChunksWithBlocks

-------------------------------------------------------------------------------
(* The inductive invariant.                                                 *)

Reads == {"read", "readAt"}
RequestType == [kind : {"read", "readAt", "prefetch", "seek"}, from : Int, want : Nat]

(* What a cursor or session keeps are blocks of its file.                    *)
KeptInv ==
  asset # NoAsset =>
    /\ DOMAIN asset = {"mode", "file", "position", "current", "previous", "segment", "at"}
    /\ asset.mode \in {"cursor", "session"} /\ asset.position \in Nat
    /\ DOMAIN asset.at = 0 .. Length - 1
    /\ {asset.current, asset.previous} \subseteq Range(asset.at) \union {NoBlock}

RequestInv ==
  /\ request # Quiet => asset # NoAsset /\ request \in RequestType
  /\ request = Quiet => answer = Done
  /\ request.kind \in Reads \union {"prefetch"} => request.from \in Nat
  /\ request.kind = "read" /\ answer = Pending => request.from = asset.position

(* What a read has been given are the bytes from where it began.             *)
ReadInv ==
  request.kind \in Reads /\ answer = Pending /\ request.from <= Length =>
    /\ Len(done) \in 0 .. Requested
    /\ done = SubSeq(FileBytes, request.from + 1, request.from + Len(done))

(* The blocks used are the blocks kept.                                      *)
RecentInv ==
  asset # NoAsset =>
    IF Streaming THEN recent \in {<<>>, <<asset.current>>, <<asset.previous, asset.current>>}
    ELSE asset.previous = NoBlock

ReaderInv == tree \in Trees /\ KeptInv /\ RequestInv /\ ReadInv /\ RecentInv

-------------------------------------------------------------------------------
(* Lemmas about one state.                                                  *)

LEMMA Apart ==
  /\ Pending # Done /\ Pending # Refused /\ Done # Refused
  /\ \A b : [bytes |-> b] # Pending
  /\ Quiet.kind = "quiet" /\ NoAsset.mode = "none"
<1>1. /\ DOMAIN Pending = {"pending"} /\ DOMAIN Done = {"done"} /\ DOMAIN Refused = {"refused"}
      /\ \A b : DOMAIN [bytes |-> b] = {"bytes"}
  BY DEF Pending, Done, Refused
<1> QED
  BY <1>1 DEF Quiet, NoAsset

(* The file of an open asset, and the blocks that lookups lead to.            *)
LEMMA Found ==
  ASSUME ReaderInv, EveryOffsetIsFound, asset # NoAsset
  PROVE  /\ FileBytes \in Seq(Nat) /\ Length = Len(FileBytes) /\ Length \in Nat
         /\ \A offset \in 0 .. Length - 1 :
              asset.at[offset] \in Range(asset.at) /\ Covers(asset.at[offset], offset)
         /\ \A ref \in Range(asset.at) :
              /\ ref # NoReference
              /\ ref.logical \in Nat /\ ref.plain \in Nat /\ ref.logical + ref.plain <= Length
              /\ BlockBytes(catalog, ref)
                   = SubSeq(FileBytes, ref.logical + 1, ref.logical + ref.plain)
<1>1. FileBytes \in Seq(Nat) /\ Length = Len(FileBytes) /\ Length \in Nat
  BY BytesAre DEF ReaderInv, EveryOffsetIsFound, FileBytes
<1>2. DOMAIN asset.at = 0 .. Length - 1
  BY DEF ReaderInv, KeptInv
<1>3. ASSUME NEW offset \in 0 .. Length - 1
      PROVE  LET ref == asset.at[offset] IN
             /\ ref # NoReference /\ ref.logical \in Nat /\ ref.plain \in 1 .. Length - ref.logical
             /\ Covers(ref, offset)
             /\ BlockBytes(catalog, ref) = SubSeq(FileBytes, ref.logical + 1, ref.logical + ref.plain)
  BY DEF EveryOffsetIsFound
<1>4. ASSUME NEW ref \in Range(asset.at)
      PROVE  /\ ref # NoReference
             /\ ref.logical \in Nat /\ ref.plain \in Nat /\ ref.logical + ref.plain <= Length
             /\ BlockBytes(catalog, ref) = SubSeq(FileBytes, ref.logical + 1, ref.logical + ref.plain)
  <2>1. PICK offset \in 0 .. Length - 1 : asset.at[offset] = ref
    BY <1>2 DEF Range
  <2>2. ref.logical \in Nat /\ ref.plain \in 1 .. Length - ref.logical
    BY <1>3, <2>1
  <2>3. ref.plain \in Nat /\ ref.logical + ref.plain <= Length
    BY <1>1, <2>2
  <2> QED
    BY <1>3, <2>1, <2>2, <2>3
<1> QED
  BY <1>1, <1>2, <1>3, <1>4 DEF Range

(* How much is asked for, of a request that does not begin beyond the end.    *)
LEMMA RequestedIs ==
  ASSUME ReaderInv, EveryOffsetIsFound, request.kind \in Reads \union {"prefetch"},
         request.from <= Length
  PROVE  /\ asset # NoAsset /\ request.from \in Nat /\ request.want \in Nat
         /\ Requested \in Nat /\ request.from + Requested <= Length
         /\ Requested = IF Length - request.from <= request.want
                        THEN Length - request.from ELSE request.want
<1>1. asset # NoAsset /\ request.from \in Nat /\ request.want \in Nat
  BY Apart DEF ReaderInv, RequestInv, RequestType, Reads
<1>2. Length - request.from \in Nat
  BY <1>1, Found
<1>3. Requested = IF Length - request.from <= request.want
                  THEN Length - request.from ELSE request.want
  BY <1>1, <1>2, LesserOf DEF Requested
<1> QED
  BY <1>1, <1>2, <1>3, Found

-------------------------------------------------------------------------------
(* One lemma for each kind of step.                                          *)

LEMMA InitReader == Init => ReaderInv
  BY Apart DEF Init, ReaderInv, KeptInv, RequestInv, ReadInv, RecentInv, Reads

LEMMA OpeningStep ==
  ASSUME ReaderInv, EveryOffsetIsFound',
         OpenPackage \/ \E path \in Paths, mode \in {"cursor", "session"} : OpenAsset(path, mode)
  PROVE  ReaderInv'
<1>1. CASE OpenPackage
  BY <1>1 DEF OpenPackage, ReaderInv, KeptInv, RequestInv, ReadInv, RecentInv, Reads, Length, Record,
     Streaming, FileBytes, Requested
<1>2. ASSUME NEW path \in Paths, NEW mode \in {"cursor", "session"}, OpenAsset(path, mode)
      PROVE  ReaderInv'
  <2>1. /\ request = Quiet /\ request' = Quiet /\ answer' = Done /\ tree' = tree
        /\ recent' = <<>> /\ catalog' = catalog
    BY <1>2 DEF OpenAsset, ReaderInv, RequestInv
  <2>2. PICK file : asset' = [mode |-> mode, file |-> file, position |-> 0,
               current |-> NoBlock, previous |-> NoBlock, segment |-> 0,
               at |-> Located(catalog.files[file])]
    BY <1>2 DEF OpenAsset
  <2>3. DOMAIN asset'.at = 0 .. Length' - 1
    BY <2>1, <2>2 DEF Located, Length, Record
  <2>4. KeptInv'
    BY <2>2, <2>3 DEF KeptInv
  <2>5. RequestInv' /\ ReadInv'
    BY <2>1, Apart DEF RequestInv, ReadInv, Reads
  <2>6. RecentInv'
    BY <2>1, <2>2 DEF RecentInv
  <2> QED
    BY <2>1, <2>4, <2>5, <2>6 DEF ReaderInv
<1> QED
  BY <1>1, <1>2

(* Nothing but the request, its answer and what it has been given changes.    *)
LEMMA KeptStays ==
  ASSUME ReaderInv, UNCHANGED <<tree, catalog, asset, recent>>
  PROVE  tree' \in Trees /\ KeptInv' /\ RecentInv'
  BY DEF ReaderInv, KeptInv, RecentInv, Length, Record, Streaming

LEMMA AskingStep ==
  ASSUME ReaderInv, EveryOffsetIsFound, asset # NoAsset, Asking
  PROVE  ReaderInv' /\ request' \in RequestType
<1>1. PICK r \in RequestType :
        Ask(r) /\ (r.kind \in Reads \union {"prefetch"} => r.from \in Nat)
               /\ (r.kind = "read" => r.from = asset.position)
  <2>1. Length \in Nat /\ Lengths \subseteq Nat /\ Steps \subseteq Int /\ asset.position \in Nat
    BY Found, ConstantsAssumption DEF ReaderInv, KeptInv
  <2>2. ASSUME NEW want \in Lengths, AskRead(want)
        PROVE  \E r \in RequestType :
                 Ask(r) /\ (r.kind \in Reads \union {"prefetch"} => r.from \in Nat)
                        /\ (r.kind = "read" => r.from = asset.position)
    BY <2>1, <2>2 DEF AskRead, RequestType
  <2>3. ASSUME NEW want \in Lengths, NEW from \in 0 .. Length + 1,
               AskReadAt(from, want) \/ AskPrefetch(from, want)
        PROVE  \E r \in RequestType :
                 Ask(r) /\ (r.kind \in Reads \union {"prefetch"} => r.from \in Nat)
                        /\ (r.kind = "read" => r.from = asset.position)
    BY <2>1, <2>3 DEF AskReadAt, AskPrefetch, RequestType
  <2>4. ASSUME NEW base \in {"start", "end", "here"}, NEW step \in Steps, AskSeek(base, step)
        PROVE  \E r \in RequestType :
                 Ask(r) /\ (r.kind \in Reads \union {"prefetch"} => r.from \in Nat)
                        /\ (r.kind = "read" => r.from = asset.position)
    <3> DEFINE from == step + (CASE base = "start" -> 0 [] base = "end" -> Length
                                 [] OTHER -> asset.position)
               r == [kind |-> "seek", want |-> 0, from |-> from]
    <3>1. from \in Int
      BY <2>1
    <3>2. r \in RequestType /\ Ask(r) /\ r.kind = "seek"
      BY <2>4, <3>1 DEF AskSeek, RequestType
    <3> QED
      BY <3>2 DEF Reads
  <2> QED
    BY <2>2, <2>3, <2>4 DEF Asking
<1>2. /\ request' = r /\ answer' = Pending /\ done' = <<>>
      /\ UNCHANGED <<tree, catalog, asset, recent>>
  BY <1>1 DEF Ask
<1>3. r # Quiet
  BY DEF RequestType, Quiet
<1>4. RequestInv'
  BY <1>1, <1>2, <1>3 DEF RequestInv
<1>5. ReadInv'
  <2> SUFFICES ASSUME r.kind \in Reads, r.from <= Length
               PROVE  0 <= Requested' /\ Requested' \in Nat
                      /\ <<>> = SubSeq(FileBytes, r.from + 1, r.from + 0)
    BY <1>2 DEF ReadInv, Length, Record, FileBytes
  <2>1. r.from \in Nat /\ r.want \in Nat /\ Length - r.from \in Nat
    BY <1>1, Found DEF RequestType
  <2>2. Requested' = Min({Length - r.from, r.want})
    BY <1>2 DEF Requested, Length, Record
  <2>3. Requested' \in Nat
    BY <2>1, <2>2, LesserOf
  <2>4. <<>> = SubSeq(FileBytes, r.from + 1, r.from + 0)
    BY <2>1, Found
  <2> QED
    BY <2>3, <2>4
<1> QED
  BY <1>1, <1>2, <1>4, <1>5, KeptStays DEF ReaderInv

(* The place a read has come to is in the file.                              *)
LEMMA LogicalIs ==
  ASSUME ReaderInv, EveryOffsetIsFound, Reading
  PROVE  /\ asset # NoAsset /\ request.kind \in Reads /\ request.from \in Nat
         /\ Requested \in Nat /\ request.from + Requested <= Length
         /\ Len(done) \in Nat /\ Len(done) < Requested
         /\ Logical = request.from + Len(done) /\ Logical \in 0 .. Length - 1
         /\ done = SubSeq(FileBytes, request.from + 1, request.from + Len(done))
<1>1. request.kind \in Reads /\ request.from <= Length /\ answer = Pending
      /\ Len(done) < Requested
  BY DEF Reading, Reads
<1>2. /\ asset # NoAsset /\ request.from \in Nat /\ Requested \in Nat
      /\ request.from + Requested <= Length /\ Length \in Nat
  BY <1>1, RequestedIs, Found
<1>3. /\ Len(done) \in 0 .. Requested
      /\ done = SubSeq(FileBytes, request.from + 1, request.from + Len(done))
  BY <1>1 DEF ReaderInv, ReadInv
<1> QED
  BY <1>1, <1>2, <1>3 DEF Logical

(* A block that covers the place gives the bytes that come next there.       *)
LEMMA ServeStep ==
  ASSUME ReaderInv, EveryOffsetIsFound, Serve
  PROVE  ReaderInv'
<1>1. Reading /\ asset.current # NoBlock /\ Covers(asset.current, Logical)
  BY DEF Serve, Covered
<1>2. PICK from \in Nat, n \in Nat, asked \in Nat, first \in Nat, plain \in Nat, len \in Nat :
        /\ from = request.from /\ n = Len(done) /\ asked = Requested /\ Logical = from + n
        /\ first = asset.current.logical /\ plain = asset.current.plain /\ len = Length
        /\ n < asked /\ from + asked <= len
        /\ first + plain <= len /\ first <= from + n /\ from + n < first + plain
  <2>1. /\ asset # NoAsset /\ request.from \in Nat /\ Requested \in Nat
        /\ request.from + Requested <= Length
        /\ Len(done) \in Nat /\ Len(done) < Requested /\ Logical = request.from + Len(done)
    BY <1>1, LogicalIs
  <2>2. asset.current \in Range(asset.at)
    BY <1>1, <2>1 DEF ReaderInv, KeptInv
  <2>3. /\ asset.current.logical \in Nat /\ asset.current.plain \in Nat /\ Length \in Nat
        /\ asset.current.logical + asset.current.plain <= Length
    BY <2>1, <2>2, Found
  <2>4. asset.current.logical <= Logical /\ Logical < asset.current.logical + asset.current.plain
    BY <1>1 DEF Covers
  <2> QED
    BY <2>1, <2>3, <2>4
<1>3. PICK bytes :
        /\ bytes = BlockBytes(catalog, asset.current)
        /\ bytes = SubSeq(FileBytes, first + 1, first + plain)
        /\ FileBytes \in Seq(Nat) /\ Len(FileBytes) = len
        /\ done = SubSeq(FileBytes, from + 1, from + n)
  <2>1. asset # NoAsset /\ done = SubSeq(FileBytes, from + 1, from + n)
    BY <1>1, <1>2, LogicalIs
  <2>2. asset.current \in Range(asset.at)
    BY <1>1, <2>1 DEF ReaderInv, KeptInv
  <2> QED
    BY <1>2, <2>1, <2>2, Found
<1>4. /\ n < asked /\ from + asked <= len
       /\ first + plain <= len /\ first <= from + n /\ from + n < first + plain
  BY <1>2
<1>5. FileBytes \in Seq(Nat) /\ Len(FileBytes) = len
  BY <1>3
<1>6. Len(bytes) = plain
  <2>1. first + 1 \in 1 .. Len(FileBytes) + 1 /\ first + plain \in (first + 1) - 1 .. Len(FileBytes)
        /\ (first + plain) - ((first + 1) - 1) = plain
    BY <1>4, <1>5
  <2>2. Len(SubSeq(FileBytes, first + 1, first + plain)) = (first + plain) - ((first + 1) - 1)
    BY <1>3, <2>1, SliceOf
  <2> QED
    BY <1>3, <2>1, <2>2
<1>7. PICK within \in Nat, amount \in Nat :
        /\ first + within = from + n /\ within + amount <= plain /\ n + amount <= asked
        /\ done' = done \o SubSeq(bytes, within + 1, within + amount)
  <2> DEFINE w == Logical - asset.current.logical
             a == Min({Len(bytes) - w, Requested - Len(done)})
  <2>1. w \in Nat /\ first + w = from + n /\ plain - w \in Nat /\ asked - n \in Nat
    <3>1. w = (from + n) - first
      BY <1>2
    <3> HIDE DEF w
    <3> QED
      BY <1>4, <3>1
  <2>2. a = Min({plain - w, asked - n})
    BY <1>2, <1>6
  <2>3. done' = done \o SubSeq(bytes, w + 1, w + a)
    BY <1>3 DEF Serve
  <2> HIDE DEF w, a
  <2>4. a \in Nat /\ a <= plain - w /\ a <= asked - n
    BY <2>1, <2>2, LesserOf
  <2>5. w + a <= plain /\ n + a <= asked
    BY <2>1, <2>4
  <2> QED
    BY <2>1, <2>3, <2>4, <2>5
<1>8. UNCHANGED <<tree, catalog, opened, asset, request, answer, recent>>
  BY DEF Serve
<1>9. first + within = from + n /\ within + amount <= plain /\ n + amount <= asked
  BY <1>7
<1>10. PICK end \in Nat : end = from + (n + amount) /\ end = (from + n) + amount /\ from <= from + n
        /\ end = first + (within + amount) /\ from + n <= end /\ end <= len
  BY <1>4, <1>9
<1>11. done' = SubSeq(FileBytes, from + 1, end)
  <2>1. SubSeq(bytes, within + 1, within + amount) = SubSeq(FileBytes, (from + n) + 1, end)
    <3>1. /\ within + amount \in Nat /\ within <= within + amount /\ first + plain \in Nat
          /\ first + (within + amount) <= first + plain /\ first + plain <= Len(FileBytes)
      BY <1>4, <1>5, <1>9
    <3>2. SubSeq(SubSeq(FileBytes, first + 1, first + plain), within + 1, within + amount)
            = SubSeq(FileBytes, (first + within) + 1, first + (within + amount))
      BY <1>5, <3>1, SliceOfSlice
    <3> QED
      BY <1>3, <1>7, <1>10, <3>2
  <2>2. SubSeq(FileBytes, from + 1, from + n) \o SubSeq(FileBytes, (from + n) + 1, end)
          = SubSeq(FileBytes, from + 1, end)
    BY <1>10, <1>5, SlicesMeet
  <2> QED
    BY <1>3, <1>7, <2>1, <2>2
<1>12. Len(done') = n + amount
  <2>1. from + 1 \in 1 .. Len(FileBytes) + 1 /\ end \in (from + 1) - 1 .. Len(FileBytes)
        /\ end - ((from + 1) - 1) = n + amount
    BY <1>10, <1>5
  <2>2. Len(SubSeq(FileBytes, from + 1, end)) = end - ((from + 1) - 1)
    BY <1>3, <2>1, SliceOf
  <2> QED
    BY <1>11, <2>1, <2>2
<1>13. ReadInv'
  <2>1. Len(done') \in 0 .. Requested
    BY <1>2, <1>7, <1>12
  <2>2. done' = SubSeq(FileBytes, request.from + 1, request.from + Len(done'))
    BY <1>2, <1>10, <1>11, <1>12
  <2>3. Requested' = Requested /\ FileBytes' = FileBytes
    BY <1>8 DEF Requested, Length, Record, FileBytes
  <2> QED
    BY <1>8, <2>1, <2>2, <2>3 DEF ReadInv
<1>14. RequestInv'
  BY <1>8 DEF RequestInv, ReaderInv
<1> QED
  BY <1>8, <1>13, <1>14, KeptStays DEF ReaderInv

(* Blocks come and go; the position, the request and what it has been given   *)
(* stay.                                                                      *)
LEMMA OthersStay ==
  ASSUME ReaderInv, asset # NoAsset, asset' # NoAsset,
         UNCHANGED <<tree, catalog, request, answer, done>>,
         asset'.file = asset.file, asset'.position = asset.position
  PROVE  RequestInv' /\ ReadInv'
  BY DEF ReaderInv, RequestInv, ReadInv, Requested, Length, Record, FileBytes

LEMMA ExchangeStep ==
  ASSUME ReaderInv, EveryOffsetIsFound, Exchange
  PROVE  ReaderInv'
<1>1. Reading /\ asset.previous # NoBlock /\ asset # NoAsset
  BY LogicalIs DEF Exchange, Covered
<1>2. /\ asset' = [asset EXCEPT !.current = asset.previous, !.previous = asset.current]
      /\ recent' = IF recent = <<>> THEN <<asset.previous>> ELSE <<Last(recent), asset.previous>>
      /\ UNCHANGED <<tree, catalog, request, answer, done>>
  BY DEF Exchange, Use
<1>3. /\ DOMAIN asset' = DOMAIN asset /\ asset'.file = asset.file /\ asset'.at = asset.at
      /\ asset'.mode = asset.mode /\ asset'.position = asset.position
      /\ asset'.current = asset.previous /\ asset'.previous = asset.current
      /\ Length' = Length /\ Streaming' = Streaming
  BY <1>1, <1>2 DEF ReaderInv, KeptInv, Length, Record, Streaming
<1>4. asset' # NoAsset /\ KeptInv'
  BY <1>1, <1>3, Apart DEF ReaderInv, KeptInv
<1>5. Streaming
  BY <1>1 DEF ReaderInv, RecentInv
<1>6. recent = <<>> \/ Last(recent) = asset.current
  BY <1>1, <1>5 DEF ReaderInv, RecentInv, Last
<1>7. RecentInv'
  BY <1>2, <1>3, <1>5, <1>6 DEF RecentInv
<1> QED
  BY <1>1, <1>2, <1>3, <1>4, <1>7, OthersStay DEF ReaderInv

(* What a load gives up, whether or not it succeeds.                         *)
LEMMA GivenUp ==
  ASSUME ReaderInv, asset # NoAsset
  PROVE  /\ DOMAIN GiveUp = DOMAIN asset /\ GiveUp.file = asset.file /\ GiveUp.at = asset.at
         /\ GiveUp.mode = asset.mode /\ GiveUp.position = asset.position
         /\ GiveUp.current = NoBlock
         /\ GiveUp.previous = IF Streaming THEN asset.current ELSE asset.previous
  BY DEF ReaderInv, KeptInv, GiveUp

LEMMA LoadStep ==
  ASSUME ReaderInv, EveryOffsetIsFound, Load
  PROVE  ReaderInv'
<1>1. Reading /\ asset # NoAsset /\ Logical \in 0 .. Length - 1
  BY LogicalIs DEF Load, Missed
<1>2. PICK segment : asset' = [GiveUp EXCEPT !.current = Reference, !.segment = segment]
  BY DEF Load
<1>3. /\ recent' = IF recent = <<>> THEN <<Reference>> ELSE <<Last(recent), Reference>>
      /\ UNCHANGED <<tree, catalog, request, answer, done>>
  BY DEF Load, Use
<1>4. /\ DOMAIN asset' = DOMAIN asset /\ asset'.file = asset.file /\ asset'.at = asset.at
      /\ asset'.mode = asset.mode /\ asset'.position = asset.position
      /\ asset'.current = Reference
      /\ asset'.previous = IF Streaming THEN asset.current ELSE asset.previous
  BY <1>1, <1>2, GivenUp DEF ReaderInv, KeptInv
<1>5. Length' = Length /\ Streaming' = Streaming
  BY <1>3, <1>4 DEF Length, Record, Streaming
<1>6. Reference \in Range(asset.at)
  BY <1>1, Found DEF Reference
<1>7. asset' # NoAsset /\ KeptInv'
  BY <1>1, <1>4, <1>5, <1>6, Apart DEF ReaderInv, KeptInv
<1>8. RecentInv'
  <2>1. CASE Streaming
    <3>1. recent = <<>> \/ Last(recent) = asset.current
      BY <1>1, <2>1 DEF ReaderInv, RecentInv, Last
    <3> QED
      BY <1>3, <1>4, <1>5, <2>1, <3>1 DEF RecentInv
  <2>2. CASE ~Streaming
    BY <1>1, <1>4, <1>5, <2>2 DEF ReaderInv, RecentInv
  <2> QED
    BY <2>1, <2>2
<1> QED
  BY <1>1, <1>3, <1>4, <1>7, <1>8, OthersStay DEF ReaderInv

(* An answer ends the work on a request, at a place that is in the file or    *)
(* where the cursor was.                                                      *)
LEMMA Answered ==
  ASSUME ReaderInv, asset # NoAsset, request # Quiet,
         UNCHANGED <<tree, catalog, request>>, answer' # Pending,
         asset' = asset \/ \E p \in Nat : asset' = [asset EXCEPT !.position = p],
         recent' \in {<<>>, recent}
  PROVE  ReaderInv'
<1>1. /\ DOMAIN asset' = DOMAIN asset /\ asset'.file = asset.file /\ asset'.at = asset.at
      /\ asset'.mode = asset.mode /\ asset'.position \in Nat
      /\ asset'.current = asset.current /\ asset'.previous = asset.previous
  BY DEF ReaderInv, KeptInv
<1>2. asset' # NoAsset /\ Length' = Length /\ Streaming' = Streaming
  BY <1>1, Apart DEF ReaderInv, KeptInv, Length, Record, Streaming
<1>3. KeptInv' /\ RecentInv'
  BY <1>1, <1>2 DEF ReaderInv, KeptInv, RecentInv
<1>4. RequestInv' /\ ReadInv'
  BY <1>2 DEF ReaderInv, RequestInv, ReadInv
<1> QED
  BY <1>3, <1>4 DEF ReaderInv

(* So does a failure, which may have given up blocks.                         *)
LEMMA LoadFailsStep ==
  ASSUME ReaderInv, EveryOffsetIsFound, LoadFails
  PROVE  ReaderInv' /\ answer' = Refused /\ asset'.file = asset.file
         /\ asset'.position = asset.position /\ asset' # NoAsset
<1>1. Reading /\ asset # NoAsset
  BY LogicalIs DEF LoadFails, Missed
<1>2. /\ answer' = Refused /\ recent' = <<>> /\ UNCHANGED <<tree, catalog, request>>
      /\ \E segment : asset' = [GiveUp EXCEPT !.segment = segment]
  BY DEF LoadFails, Fail, Answer
<1>3. /\ DOMAIN asset' = DOMAIN asset /\ asset'.file = asset.file /\ asset'.at = asset.at
      /\ asset'.mode = asset.mode /\ asset'.position = asset.position
      /\ asset'.current = NoBlock
      /\ asset'.previous = IF Streaming THEN asset.current ELSE asset.previous
  BY <1>1, <1>2, GivenUp DEF ReaderInv, KeptInv
<1>4. asset' # NoAsset /\ Length' = Length /\ Streaming' = Streaming
  BY <1>1, <1>2, <1>3, Apart DEF ReaderInv, KeptInv, Length, Record, Streaming
<1>5. KeptInv' /\ RecentInv'
  BY <1>1, <1>2, <1>3, <1>4 DEF ReaderInv, KeptInv, RecentInv
<1>6. RequestInv' /\ ReadInv'
  BY <1>1, <1>2, <1>4, Apart DEF ReaderInv, RequestInv, ReadInv, Reading, Reads
<1> QED
  BY <1>2, <1>3, <1>4, <1>5, <1>6 DEF ReaderInv

LEMMA AnsweringStep ==
  ASSUME ReaderInv, EveryOffsetIsFound,
         Seek \/ BeyondTheEnd \/ LocateFails \/ ReadEnds \/ PrefetchFails \/ PrefetchEnds
  PROVE  ReaderInv'
<1>1. answer = Pending
  BY DEF Seek, BeyondTheEnd, LocateFails, ReadEnds, PrefetchFails, PrefetchEnds, Missed, Reading,
     Prefetching
<1>2. asset # NoAsset /\ request # Quiet /\ asset.position \in Nat
  BY <1>1, Apart DEF ReaderInv, RequestInv, KeptInv
<1>3. CASE Seek
  <2>1. UNCHANGED <<tree, catalog, request, recent>> /\ answer' # Pending
    BY <1>3, Apart DEF Seek, Answer
  <2>2. asset' = asset \/ (request.from \in Nat /\ asset' = [asset EXCEPT !.position = request.from])
    BY <1>2, <1>3, Found DEF Seek
  <2> QED
    BY <1>2, <2>1, <2>2, Answered
<1>4. CASE BeyondTheEnd \/ LocateFails \/ PrefetchFails \/ PrefetchEnds
  <2>1. /\ UNCHANGED <<tree, catalog, request, asset>> /\ answer' # Pending
        /\ recent' \in {<<>>, recent}
    BY <1>4, Apart DEF BeyondTheEnd, LocateFails, PrefetchFails, PrefetchEnds, Fail, Answer
  <2> QED
    BY <1>2, <2>1, Answered
<1>5. CASE ReadEnds
  <2>1. UNCHANGED <<tree, catalog, request, recent>> /\ answer' # Pending
    BY <1>5, Apart DEF ReadEnds
  <2>2. Len(done) \in Nat
    BY <1>5, RequestedIs DEF ReadEnds, Reads
  <2>3. asset' = asset \/ asset' = [asset EXCEPT !.position = asset.position + Len(done)]
    BY <1>5 DEF ReadEnds
  <2>4. asset.position + Len(done) \in Nat
    BY <1>2, <2>2
  <2> QED
    BY <1>2, <2>1, <2>3, <2>4, Answered
<1> QED
  BY <1>3, <1>4, <1>5

LEMMA PrefetchBlockStep ==
  ASSUME ReaderInv, PrefetchBlock
  PROVE  ReaderInv'
<1>1. UNCHANGED <<tree, catalog, asset, request, answer, recent>> /\ request.kind = "prefetch"
  BY DEF PrefetchBlock, Prefetching
<1>2. RequestInv' /\ ReadInv'
  BY <1>1 DEF ReaderInv, RequestInv, ReadInv, Reads
<1> QED
  BY <1>1, <1>2, KeptStays DEF ReaderInv

LEMMA ReturnStep ==
  ASSUME ReaderInv, Return
  PROVE  ReaderInv'
<1>1. UNCHANGED <<tree, catalog, asset, recent>> /\ request' = Quiet /\ answer' = Done
  BY DEF Return
<1>2. RequestInv' /\ ReadInv'
  BY <1>1, Apart DEF RequestInv, ReadInv, Reads
<1> QED
  BY <1>1, <1>2, KeptStays DEF ReaderInv

LEMMA ReaderStep ==
  ReaderInv /\ EveryOffsetIsFound /\ EveryOffsetIsFound' /\ [Next]_vars => ReaderInv'
<1> SUFFICES ASSUME ReaderInv, EveryOffsetIsFound, EveryOffsetIsFound', [Next]_vars
             PROVE  ReaderInv'
  OBVIOUS
<1>1. CASE UNCHANGED vars
  BY <1>1 DEF vars, ReaderInv, KeptInv, RequestInv, ReadInv, RecentInv, Length, Record, Streaming,
     FileBytes, Requested
<1>2. CASE OpenPackage \/ \E path \in Paths, mode \in {"cursor", "session"} : OpenAsset(path, mode)
  BY <1>2, OpeningStep
<1>3. CASE asset # NoAsset /\ Asking
  BY <1>3, AskingStep
<1>4. CASE Work
  BY <1>4, AnsweringStep, ServeStep, ExchangeStep, LoadStep, LoadFailsStep, PrefetchBlockStep,
     ReturnStep DEF Work
<1> QED
  BY <1>1, <1>2, <1>3, <1>4 DEF Next

LEMMA ReaderHolds == Spec => []ReaderInv
  BY CatalogHolds, OffsetsAreFound, InitReader, ReaderStep, PTL DEF Spec

-------------------------------------------------------------------------------
(* Prefetching.                                                             *)

(* A prefetch goes through a run of blocks from its first byte on, and one    *)
(* that has succeeded has come to its end.                                   *)
Fetched == IsRun(done, catalog, Record, request.from, PrefetchEnd)
PrefetchInv ==
  request.kind = "prefetch" =>
    Fetched /\ (answer = Done => request.from <= Length /\ PrefetchAt >= PrefetchEnd)

LEMMA PrefetchIs ==
  ASSUME CatalogInv, ReaderInv, request.kind = "prefetch", request.from <= Length
  PROVE  /\ asset # NoAsset /\ request.from \in Nat /\ Requested \in Nat
         /\ PrefetchEnd = request.from + Requested /\ PrefetchEnd \in Nat
         /\ PrefetchEnd <= Len(FileBytes) /\ Len(FileBytes) \in Nat
         /\ PrefetchAt = RunEnd(done, request.from)
<1>1. EveryOffsetIsFound
  BY OffsetsAreFound
<1>2. /\ asset # NoAsset /\ request.from \in Nat /\ Requested \in Nat
      /\ request.from + Requested <= Length
  BY <1>1, RequestedIs
<1>3. Length = Len(FileBytes) /\ Length \in Nat
  BY <1>1, <1>2, Found
<1>4. PrefetchAt = RunEnd(done, request.from)
  BY DEF PrefetchAt, RunEnd
<1> QED
  BY <1>2, <1>3, <1>4 DEF PrefetchEnd

LEMMA PrefetchBlockFetches ==
  ASSUME CatalogInv, ReaderInv, PrefetchInv, PrefetchBlock
  PROVE  PrefetchInv'
<1>1. /\ request.kind = "prefetch" /\ request.from <= Length /\ PrefetchAt < PrefetchEnd
      /\ UNCHANGED <<catalog, asset, request, answer>> /\ answer = Pending
      /\ done' = Append(done, asset.at[PrefetchAt])
  BY DEF PrefetchBlock, Prefetching
<1>2. Fetched
  BY <1>1 DEF PrefetchInv
<1>3. PICK cat, file, from, end, at, bytes :
        /\ cat = catalog /\ file = Record /\ from = request.from /\ end = PrefetchEnd
        /\ at = PrefetchAt /\ bytes = FileBytes
  OBVIOUS
<1>4. /\ from \in Nat /\ end \in Nat /\ end <= Len(bytes) /\ Len(bytes) \in Nat
      /\ at = RunEnd(done, from) /\ asset # NoAsset
  BY <1>1, <1>3, PrefetchIs
<1>5. PICK ends :
        /\ Tabled(cat, file, bytes, ends)
        /\ \A offset \in 0 .. Len(bytes) - 1 :
             \E c \in 1 .. file.count :
               /\ FoundIn(cat, file, ends, offset, c)
               /\ asset.at[offset] = BlockAt(cat, file, c)
  BY <1>3, <1>4, AssetIs
<1>6. IsRun(done, cat, file, from, end) /\ at < end
  BY <1>1, <1>2, <1>3 DEF Fetched
<1>7. at \in Nat
  BY <1>4, <1>5, <1>6, RunEndIs
<1>8. PICK c \in 1 .. file.count :
        FoundIn(cat, file, ends, at, c) /\ asset.at[at] = BlockAt(cat, file, c)
  <2>1. at \in 0 .. Len(bytes) - 1
    BY <1>4, <1>6, <1>7
  <2> QED
    BY <1>5, <2>1
<1>9. ends[c - 1] <= at /\ at < ends[c]
  BY <1>8 DEF FoundIn
<1>10. IsRun(Append(done, BlockAt(cat, file, c)), cat, file, from, end)
  BY <1>4, <1>5, <1>6, <1>9, RunMore
<1>11. IsRun(done', cat, file, from, end)
  BY <1>1, <1>3, <1>8, <1>10
<1>12. catalog' = cat /\ Record' = file /\ request'.from = from /\ PrefetchEnd' = end
  BY <1>1, <1>3 DEF Record, PrefetchEnd, Requested, Length
<1>13. Fetched'
  BY <1>11, <1>12 DEF Fetched
<1> QED
  BY <1>1, <1>13, Apart DEF PrefetchInv

LEMMA PrefetchStep == CatalogInv /\ ReaderInv /\ PrefetchInv /\ [Next]_vars => PrefetchInv'
<1> SUFFICES ASSUME CatalogInv, ReaderInv, PrefetchInv, [Next]_vars
             PROVE  PrefetchInv'
  OBVIOUS
<1>1. ASSUME UNCHANGED <<catalog, asset, request, done>>,
             answer' = answer \/ answer' = Refused \/ (request.from <= Length /\ PrefetchAt >= PrefetchEnd)
      PROVE  PrefetchInv'
  <2>1. /\ Fetched' = Fetched /\ Length' = Length /\ PrefetchAt' = PrefetchAt
        /\ PrefetchEnd' = PrefetchEnd
    BY <1>1 DEF Fetched, IsRun, RunOf, BlockAt, BlockRef, Record, PrefetchEnd, Requested, Length, PrefetchAt
  <2> QED
    BY <1>1, <2>1, Apart DEF PrefetchInv
<1>2. ASSUME request'.kind # "prefetch"
      PROVE  PrefetchInv'
  BY <1>2 DEF PrefetchInv
<1>3. CASE UNCHANGED vars \/ OpenPackage
  BY <1>1, <1>3 DEF vars, OpenPackage
<1>4. CASE \E path \in Paths, mode \in {"cursor", "session"} : OpenAsset(path, mode)
  <2>1. request = Quiet /\ request' = request
    BY <1>4 DEF OpenAsset
  <2> QED
    BY <1>2, <2>1, Apart
<1>5. CASE asset # NoAsset /\ Asking
  <2>1. done' = <<>> /\ answer' = Pending
    BY <1>5 DEF Asking, AskRead, AskReadAt, AskPrefetch, AskSeek, Ask
  <2> QED
    BY <2>1, Apart DEF PrefetchInv, Fetched, IsRun
<1>6. CASE Return
  BY <1>2, <1>6, Apart DEF Return
<1>7. CASE Seek \/ Serve \/ Exchange \/ Load \/ LocateFails \/ LoadFails \/ ReadEnds
  <2>1. request.kind # "prefetch" /\ request' = request
    BY <1>7 DEF Seek, Serve, Exchange, Load, LocateFails, LoadFails, ReadEnds, Missed, Reading, Fail,
       Answer
  <2> QED
    BY <1>2, <2>1
<1>8. CASE BeyondTheEnd \/ PrefetchFails
  BY <1>1, <1>8 DEF BeyondTheEnd, PrefetchFails, Fail, Answer
<1>9. CASE PrefetchEnds
  BY <1>1, <1>9 DEF PrefetchEnds, Prefetching, Answer
<1>10. CASE PrefetchBlock
  BY <1>10, PrefetchBlockFetches
<1> QED
  BY <1>3, <1>4, <1>5, <1>6, <1>7, <1>8, <1>9, <1>10 DEF Next, Work

LEMMA RangeIsFetched == CatalogInv /\ ReaderInv /\ PrefetchInv => PrefetchedRange
<1> SUFFICES ASSUME CatalogInv, ReaderInv, PrefetchInv, request.kind = "prefetch", answer = Done
             PROVE  PrefetchedRange
  BY DEF PrefetchedRange
<1>1. Fetched /\ request.from <= Length /\ PrefetchAt >= PrefetchEnd
  BY DEF PrefetchInv
<1>2. PICK cat, file, from, end, bytes :
        /\ cat = catalog /\ file = Record /\ from = request.from /\ end = PrefetchEnd
        /\ bytes = FileBytes
  OBVIOUS
<1>3. /\ from \in Nat /\ end \in Nat /\ RunEnd(done, from) >= end /\ asset # NoAsset
      /\ Requested \in Nat /\ end = from + Requested
  BY <1>1, <1>2, PrefetchIs
<1>4. PICK ends : Tabled(cat, file, bytes, ends)
  BY <1>2, <1>3, AssetIs
<1>5. IsRun(done, cat, file, from, end)
  BY <1>1, <1>2 DEF Fetched
<1>6. from <= end /\ (from < end <=> Requested > 0)
  BY <1>3
<1>7. Spanned(done, cat, file, from, end)
  BY <1>3, <1>4, <1>5, <1>6, RunCovers
<1> QED
  BY <1>2, <1>3, <1>6, <1>7 DEF PrefetchedRange, BlockAt, Spanned

-------------------------------------------------------------------------------
(* Theorems.                                                                *)

(* Every offset of an open asset is found in a block of its file that holds   *)
(* it, with the bytes of the source (Asset::reference_for_offset).            *)
THEOREM OffsetsFound == Spec => []EveryOffsetIsFound
  BY CatalogHolds, OffsetsAreFound, PTL

(* Every path that was packed is found at its file, and no other path is,     *)
(* whatever the hashes (Catalog::find_file).                                 *)
THEOREM PathsFound == Spec => []EveryPathIsFound
  BY CatalogHolds, PathsAreFound, PTL

(* As long as compressing gives a length, the runtime accepts what the        *)
(* publisher writes, and the publisher's next build finds every chunk with    *)
(* its block (Catalog::validate_records, Package::reuse_records).             *)
THEOREM ReusePaired ==
  ASSUME \A n \in Nat : Squeezed(n) \in Nat
  PROVE  Spec => []ReusePairsChunksWithBlocks
<1>1. CatalogInv => ReusePairsChunksWithBlocks
  BY ReusePairs
<1> QED
  BY <1>1, CatalogHolds, PTL

(* A cursor or session keeps blocks of its own file only: the two it used     *)
(* last if the asset streams, whatever was read, sought or failed before, and *)
(* otherwise one (BlockReader of package.rs).                                *)
THEOREM WindowKept == Spec => []StreamingWindow
<1>1. ReaderInv => StreamingWindow
  BY DEF ReaderInv, KeptInv, RecentInv, StreamingWindow, ToSet
<1> QED
  BY <1>1, ReaderHolds, PTL

(* A prefetch that succeeds has gone through exactly the blocks that hold a   *)
(* byte of its range, in order and each once (Asset::prefetch_range).         *)
THEOREM RangePrefetched == Spec => []PrefetchedRange
<1>1. Init => PrefetchInv
  BY Apart DEF Init, PrefetchInv
<1> QED
  BY <1>1, CatalogHolds, ReaderHolds, PrefetchStep, RangeIsFetched, PTL DEF Spec

(* The refinement, action by action: what is open is a file and a position.   *)
Position == IF asset = NoAsset THEN 0 ELSE asset.position

LEMMA OpenRefines ==
  ASSUME ReaderInv, EveryOffsetIsFound', NEW path \in Paths, NEW mode \in {"cursor", "session"},
         OpenAsset(path, mode)
  PROVE  File!Open
<1>1. /\ request = Quiet /\ request' = Quiet /\ answer' = Done
      /\ asset'.mode = mode /\ asset'.position = 0
  BY DEF OpenAsset, ReaderInv, RequestInv
<1>2. asset' # NoAsset
  BY <1>1, Apart
<1>3. ReaderInv'
  BY OpeningStep
<1>4. FileBytes' \in Seq(Nat)
  BY <1>2, <1>3, BytesAre DEF ReaderInv, EveryOffsetIsFound, FileBytes
<1>5. Bytes' = FileBytes' /\ Position' = 0
  BY <1>1, <1>2 DEF Bytes, Position
<1> QED
  BY <1>1, <1>4, <1>5 DEF File!Open, Position

LEMMA AskRefines ==
  ASSUME ReaderInv, EveryOffsetIsFound, asset # NoAsset, Asking
  PROVE  File!Ask
<1>1. PICK r : Ask(r) /\ r \in RequestType /\ (r.kind = "read" => r.from = asset.position)
  <2>1. ReaderInv' /\ request' \in RequestType
    BY AskingStep
  <2>2. PICK r : Ask(r)
    BY DEF Asking, AskRead, AskReadAt, AskPrefetch, AskSeek
  <2>3. request' = r /\ answer' = Pending /\ asset' = asset
    BY <2>2 DEF Ask
  <2> QED
    BY <2>1, <2>2, <2>3 DEF ReaderInv, RequestInv
<1>2. /\ request = Quiet /\ request' = r /\ answer' = Pending
      /\ UNCHANGED <<tree, catalog, asset>>
  BY <1>1 DEF Ask
<1>3. Bytes' = Bytes /\ Position' = Position /\ Position = asset.position
  BY <1>2 DEF Bytes, FileBytes, Position
<1>4. r \in [kind : {"read", "readAt", "prefetch", "seek"}, from : Int, want : Int]
  BY <1>1 DEF RequestType
<1> QED
  BY <1>1, <1>2, <1>3, <1>4 DEF File!Ask, Position

(* A refusal, which moves nothing.                                           *)
LEMMA RefusalRefines ==
  ASSUME ReaderInv, EveryOffsetIsFound, BeyondTheEnd \/ LocateFails \/ LoadFails \/ PrefetchFails
  PROVE  File!Reply
<1>1. answer = Pending /\ request.kind # "seek"
  BY DEF BeyondTheEnd, LocateFails, LoadFails, PrefetchFails, Missed, Reading, Prefetching
<1>2. asset # NoAsset
  BY <1>1, Apart DEF ReaderInv, RequestInv
<1>3. /\ answer' = Refused /\ UNCHANGED <<tree, request>>
      /\ asset' # NoAsset /\ asset'.file = asset.file /\ asset'.position = asset.position
  <2>1. CASE LoadFails
    BY <2>1, LoadFailsStep DEF LoadFails, Fail, Answer
  <2>2. CASE BeyondTheEnd \/ LocateFails \/ PrefetchFails
    BY <1>2, <2>2 DEF BeyondTheEnd, LocateFails, PrefetchFails, Fail, Answer
  <2> QED
    BY <2>1, <2>2
<1>4. Bytes' = Bytes /\ Position' = Position
  BY <1>2, <1>3 DEF Bytes, FileBytes, Position
<1> QED
  BY <1>1, <1>3, <1>4 DEF File!Reply, File!Refuse, Position

LEMMA SeekRefines ==
  ASSUME ReaderInv, EveryOffsetIsFound, Seek
  PROVE  File!Reply
<1>1. answer = Pending /\ request.kind = "seek" /\ UNCHANGED <<tree, request>>
  BY DEF Seek, Answer
<1>2. asset # NoAsset /\ DOMAIN asset # {"mode"} /\ asset.mode # "none"
  BY <1>1, Apart DEF ReaderInv, RequestInv, KeptInv
<1>3. Bytes = FileBytes /\ Len(FileBytes) = Length /\ Position = asset.position
  BY <1>2, Found DEF Bytes, Position
<1>4. CASE request.from \in 0 .. Length
  <2>1. answer' = Done /\ asset' = [asset EXCEPT !.position = request.from]
    BY <1>4 DEF Seek, Answer
  <2>2. /\ asset'.file = asset.file /\ asset'.position = request.from
        /\ asset'.mode = asset.mode
    BY <1>2, <2>1 DEF ReaderInv, KeptInv
  <2>3. asset' # NoAsset
    BY <1>2, <2>2, Apart
  <2>4. Bytes' = Bytes /\ Position' = request.from
    BY <1>1, <1>2, <2>2, <2>3 DEF Bytes, FileBytes, Position
  <2> QED
    BY <1>1, <1>3, <1>4, <2>1, <2>4 DEF File!Reply, File!ReplySeek, Position
<1>5. CASE request.from \notin 0 .. Length
  <2>1. answer' = Refused /\ asset' = asset
    BY <1>5 DEF Seek, Answer
  <2>2. Bytes' = Bytes /\ Position' = Position
    BY <1>1, <2>1 DEF Bytes, FileBytes, Position
  <2> QED
    BY <1>1, <1>3, <1>5, <2>1, <2>2 DEF File!Reply, File!Refuse, Position
<1> QED
  BY <1>4, <1>5

LEMMA PrefetchRefines ==
  ASSUME ReaderInv, EveryOffsetIsFound, PrefetchEnds
  PROVE  File!Reply
<1>1. /\ answer = Pending /\ request.kind = "prefetch" /\ request.from <= Length
      /\ answer' = Done /\ UNCHANGED <<tree, request, asset>>
  BY DEF PrefetchEnds, Prefetching, Answer
<1>2. asset # NoAsset
  BY <1>1, Apart DEF ReaderInv, RequestInv
<1>3. Bytes = FileBytes /\ Len(FileBytes) = Length
  BY <1>2, Found DEF Bytes
<1>4. Bytes' = Bytes /\ Position' = Position
  BY <1>1 DEF Bytes, FileBytes, Position
<1> QED
  BY <1>1, <1>3, <1>4 DEF File!Reply, File!ReplyPrefetch, Position

(* A read that succeeds returns what there is of the file at its place.       *)
LEMMA ReadRefines ==
  ASSUME ReaderInv, EveryOffsetIsFound, ReadEnds
  PROVE  File!Reply
<1>1. /\ answer = Pending /\ request.kind \in Reads /\ request.from <= Length
      /\ Len(done) = Requested /\ answer' = [bytes |-> done] /\ UNCHANGED <<tree, request>>
      /\ asset' = IF request.kind = "read" THEN [asset EXCEPT !.position = @ + Len(done)] ELSE asset
  BY DEF ReadEnds, Reads
<1>2. /\ asset # NoAsset /\ request.from \in Nat /\ request.want \in Nat /\ Requested \in Nat
      /\ Requested = IF Length - request.from <= request.want
                     THEN Length - request.from ELSE request.want
  BY <1>1, RequestedIs
<1>3. Bytes = FileBytes /\ Len(FileBytes) = Length /\ Position = asset.position /\ Length \in Nat
  BY <1>2, Found DEF Bytes, Position
<1>4. done = File!BytesAt(request.from, request.want)
  <2>1. done = SubSeq(FileBytes, request.from + 1, request.from + Requested)
    BY <1>1 DEF ReaderInv, ReadInv
  <2>2. request.from + Requested = File!Least(request.from + request.want, Length)
    BY <1>2, <1>3 DEF File!Least
  <2> QED
    BY <1>3, <2>1, <2>2 DEF File!BytesAt
<1>5. /\ asset'.file = asset.file /\ asset'.mode = asset.mode /\ DOMAIN asset' = DOMAIN asset
      /\ asset'.position = IF request.kind = "read" THEN asset.position + Len(done)
                           ELSE asset.position
  BY <1>1, <1>2 DEF ReaderInv, KeptInv
<1>6. asset' # NoAsset
  BY <1>2, <1>5, Apart DEF ReaderInv, KeptInv
<1>7. Bytes' = Bytes
  BY <1>1, <1>2, <1>5, <1>6 DEF Bytes, FileBytes
<1>8. request.kind = "read" => request.from = asset.position
  BY <1>1 DEF ReaderInv, RequestInv
<1>9. Position' = IF request.kind = "read" THEN request.from + Len(answer'.bytes) ELSE Position
  BY <1>1, <1>2, <1>3, <1>5, <1>6, <1>8 DEF Position
<1>10. File!ReplyBytes
  BY <1>1, <1>3, <1>4, <1>9 DEF File!ReplyBytes, Reads, Position
<1> QED
  BY <1>1, <1>7, <1>10 DEF File!Reply

(* Loading and copying are not seen from outside.                             *)
LEMMA InsideRefines ==
  ASSUME ReaderInv, EveryOffsetIsFound, Serve \/ Exchange \/ Load \/ PrefetchBlock
  PROVE  UNCHANGED File!vars
<1>1. UNCHANGED <<tree, request, answer>> /\ answer = Pending
  BY DEF Serve, Exchange, Load, PrefetchBlock, Missed, Reading, Prefetching
<1>2. asset # NoAsset
  BY <1>1, Apart DEF ReaderInv, RequestInv
<1>3. asset' # NoAsset /\ asset'.file = asset.file /\ asset'.position = asset.position
  <2>1. CASE Serve \/ PrefetchBlock
    BY <1>2, <2>1 DEF Serve, PrefetchBlock
  <2>2. CASE Exchange
    <3>1. asset' = [asset EXCEPT !.current = asset.previous, !.previous = asset.current]
      BY <2>2 DEF Exchange
    <3> QED
      BY <1>2, <3>1, Apart DEF ReaderInv, KeptInv
  <2>3. CASE Load
    <3>1. \E segment : asset' = [GiveUp EXCEPT !.current = Reference, !.segment = segment]
      BY <2>3 DEF Load
    <3>2. /\ asset'.file = asset.file /\ asset'.position = asset.position
          /\ asset'.mode = asset.mode
      BY <1>2, <3>1, GivenUp DEF ReaderInv, KeptInv
    <3> QED
      BY <1>2, <3>2, Apart DEF ReaderInv, KeptInv
  <2> QED
    BY <2>1, <2>2, <2>3
<1>4. Bytes' = Bytes /\ Position' = Position
  BY <1>1, <1>2, <1>3 DEF Bytes, FileBytes, Position
<1> QED
  BY <1>1, <1>4 DEF File!vars, Position

(* An AssetCursor and an AssetReadSession are files: a read that succeeds    *)
(* returns the bytes at its place, whatever was read, sought or failed       *)
(* before, and only success moves the position (package.rs:870).             *)
THEOREM ReadersAreFiles == Spec => ImplementsSeekableFile
<1>1. Init => File!Init
  BY EmptySeq DEF Init, File!Init, Bytes
<1>2. ReaderInv /\ EveryOffsetIsFound /\ EveryOffsetIsFound' /\ [Next]_vars
        => [File!Open \/ File!Ask \/ File!Reply \/ File!Return]_File!vars
  <2> SUFFICES ASSUME ReaderInv, EveryOffsetIsFound, EveryOffsetIsFound', [Next]_vars
               PROVE  File!Open \/ File!Ask \/ File!Reply \/ File!Return \/ UNCHANGED File!vars
    OBVIOUS
  <2>1. CASE UNCHANGED vars \/ OpenPackage
    BY <2>1 DEF vars, OpenPackage, File!vars, Bytes, FileBytes
  <2>2. CASE \E path \in Paths, mode \in {"cursor", "session"} : OpenAsset(path, mode)
    BY <2>2, OpenRefines
  <2>3. CASE asset # NoAsset /\ Asking
    BY <2>3, AskRefines
  <2>4. CASE Return
    BY <2>4 DEF Return, File!Return, Bytes, FileBytes
  <2>5. CASE Work /\ ~Return
    BY <2>5, RefusalRefines, SeekRefines, PrefetchRefines, ReadRefines, InsideRefines DEF Work
  <2> QED
    BY <2>1, <2>2, <2>3, <2>4, <2>5 DEF Next
<1> QED
  BY <1>1, <1>2, ReaderHolds, CatalogHolds, OffsetsAreFound, PTL
     DEF Spec, File!Spec, ImplementsSeekableFile
===============================================================================
