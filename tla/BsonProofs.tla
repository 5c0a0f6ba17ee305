----------------------------- MODULE BsonProofs -----------------------------
(***************************************************************************)
(* Proofs about the edits of bsontools/edit.go and the buffer that is      *)
(* edited, for documents, values and pointers of any size.                 *)
(*                                                                         *)
(* An edit of one element is a splice: it puts other words for the words   *)
(* of the element, and the length of the document follows.  An edit in an  *)
(* embedded document is a splice of that one, and then of the one around   *)
(* it, by the same number of words.  That goes on upwards: the least level *)
(* from below at which it did not would have a level below it at which it  *)
(* did.                                                                    *)
(*                                                                         *)
(* A set of documents is Sound if each can be read to its end and all that *)
(* is embedded in them is in the set; Readable says the same of one        *)
(* document.  The recursion of an edit goes down through documents of such *)
(* a set, each at the beginning of a buffer (Level).  The elements around  *)
(* a splice make a chain from the first place to the closing zero again    *)
(* (SpliceReads), so the documents that the levels return make a Sound set *)
(* with the old ones and those of the new value.                           *)
(*                                                                         *)
(* The loop over the elements, and the calls of the recursion, are         *)
(* functions on a range of numbers that TLA+ defines by CHOOSE: that there *)
(* are such functions is proved first.                                     *)
(***************************************************************************)
EXTENDS BsonBuffer, TLAPS, FiniteSetTheorems, SequenceTheorems, WellFoundedInduction

-----------------------------------------------------------------------------
\* The least of some numbers.
LEMMA LeastNat ==
    ASSUME NEW T \in SUBSET Nat, T # {}
    PROVE  \E m \in T : \A j \in T : m <= j
  <1> DEFINE R == OpToRel(<, Nat)
  <1>1. \E m \in T : \A j \in T : ~(<<j, m>> \in R)
    <2> HIDE DEF R
    <2> QED  BY NatLessThanWellFounded, WFMin DEF R
  <1>2. \A m, j \in T : ~(<<j, m>> \in R) => m <= j
    BY DEF OpToRel
  <1> QED  BY <1>1, <1>2

LEMMA Join ==
    ASSUME NEW W, NEW a \in Seq(W), NEW b \in Seq(W)
    PROVE  /\ a \o b \in Seq(W) /\ Len(a \o b) = Len(a) + Len(b)
           /\ \A i \in 1..Len(a) : (a \o b)[i] = a[i]
           /\ \A i \in 1..Len(b) : (a \o b)[Len(a) + i] = b[i]
  OBVIOUS

LEMMA Piece ==
    ASSUME NEW W, NEW a \in Seq(W), NEW m \in Nat, NEW n \in Nat, 1 <= m, m <= n + 1, n <= Len(a)
    PROVE  /\ SubSeq(a, m, n) \in Seq(W) /\ Len(SubSeq(a, m, n)) = n - m + 1
           /\ \A i \in 1..n - m + 1 : SubSeq(a, m, n)[i] = a[m + i - 1]
  OBVIOUS

LEMMA FirstSet ==
    ASSUME NEW W, NEW a \in Seq(W), NEW x \in W, Len(a) >= 1
    PROVE  /\ [a EXCEPT ![1] = x] \in Seq(W) /\ Len([a EXCEPT ![1] = x]) = Len(a)
           /\ [a EXCEPT ![1] = x][1] = x
           /\ \A i \in 2..Len(a) : [a EXCEPT ![1] = x][i] = a[i]
  OBVIOUS

-----------------------------------------------------------------------------
\* The types whose values are all of one size.
Fixed == {1, 6, 7, 8, 9, 10, 16, 17, 18, 19, 127, 255}

LEMMA MoreThanOne ==
    ASSUME NEW S, IsFiniteSet(S), NEW x \in S, NEW y \in S, x # y
    PROVE  Cardinality(S) > 1
  <1>1. IsFiniteSet({x}) /\ Cardinality({x}) = 1
    BY FS_Singleton
  <1>2. Cardinality({x} \cup {y}) = 2
    BY <1>1, FS_AddElement
  <1>3. Cardinality({x} \cup {y}) <= Cardinality(S)
    BY FS_Subset
  <1>4. Cardinality(S) \in Nat
    BY FS_CardinalityType
  <1> QED  BY <1>2, <1>3, <1>4

LEMMA AtMostOne ==
    ASSUME NEW S, IsFiniteSet(S), \A x, y \in S : x = y
    PROVE  ~(Cardinality(S) > 1)
  <1>1. CASE S = {}
    BY <1>1, FS_EmptySet
  <1>2. CASE S # {}
    <2>1. PICK x \in S : TRUE
      BY <1>2
    <2>2. S = {x}
      BY <2>1
    <2>3. Cardinality(S) = 1
      BY <2>2, FS_Singleton
    <2> QED  BY <2>3
  <1> QED  BY <1>1, <1>2

LEMMA MinIs ==
    ASSUME NEW S \in SUBSET Int, NEW m \in S, \A x \in S : m <= x
    PROVE  Min(S) = m
  <1>1. \A n \in S : (\A x \in S : n <= x) => n = m
    OBVIOUS
  <1>2. Min(S) \in S /\ \A x \in S : Min(S) <= x
    BY DEF Min
  <1> QED  BY <1>1, <1>2

\* The places of the NULs behind a place, and the second of them.
ZerosFrom(doc, at) == {i \in at..Len(doc) : doc[i] = 0}

TwoZeros(doc, at, z, y) ==
    /\ z \in ZerosFrom(doc, at) /\ y \in ZerosFrom(doc, at) /\ z < y
    /\ \A x \in ZerosFrom(doc, at) : x = z \/ y <= x

\* A regular expression ends at the second NUL behind its beginning.
LEMMA RegexSize ==
    ASSUME NEW doc, Len(doc) \in Nat, NEW at \in Nat
    PROVE  /\ \A z, y \in Int : TwoZeros(doc, at, z, y) => ValueSize(doc, at, 11) = y - at + 1
           /\ (\A z, y \in Int : ~TwoZeros(doc, at, z, y)) => ValueSize(doc, at, 11) = Len(doc) + 1
  <1> DEFINE zeros == ZerosFrom(doc, at)
  <1>1. zeros \in SUBSET Int /\ IsFiniteSet(zeros)
    <2>1. IsFiniteSet(at..Len(doc)) /\ zeros \in SUBSET (at..Len(doc))
      BY FS_Interval DEF ZerosFrom
    <2> QED  BY <2>1, FS_Subset
  <1>2. ValueSize(doc, at, 11) = IF Cardinality(zeros) > 1
                                 THEN Min(zeros \ {Min(zeros)}) - at + 1
                                 ELSE Len(doc) + 1
    BY DEF ValueSize, ZerosFrom
  <1> HIDE DEF zeros
  <1>3. ASSUME NEW z \in zeros, NEW y \in zeros, z < y, \A x \in zeros : x = z \/ y <= x
        PROVE  ValueSize(doc, at, 11) = y - at + 1
    <2>1. Cardinality(zeros) > 1
      BY <1>1, <1>3, MoreThanOne
    <2>2. Min(zeros) = z
      BY <1>1, <1>3, MinIs
    <2>3. Min(zeros \ {z}) = y
      <3>1. zeros \ {z} \in SUBSET Int /\ y \in zeros \ {z} /\ \A x \in zeros \ {z} : y <= x
        BY <1>1, <1>3
      <3> QED  BY <3>1, MinIs
    <2> QED  BY <1>2, <2>1, <2>2, <2>3
  <1>4. ASSUME Cardinality(zeros) > 1
        PROVE  \E z, y \in Int : TwoZeros(doc, at, z, y)
    <2>1. zeros \in SUBSET Nat
      BY DEF zeros, ZerosFrom
    <2>2. PICK a, b \in zeros : a # b
      BY <1>1, <1>4, AtMostOne
    <2>3. PICK z \in zeros : \A x \in zeros : z <= x
      BY <2>1, <2>2, LeastNat
    <2>4. zeros \ {z} \in SUBSET Nat /\ zeros \ {z} # {}
      BY <2>1, <2>2
    <2>5. PICK y \in zeros \ {z} : \A x \in zeros \ {z} : y <= x
      BY <2>4, LeastNat
    <2>6. z < y
      BY <2>1, <2>3, <2>5
    <2>7. z \in Int /\ y \in Int /\ y \in zeros /\ \A x \in zeros : x = z \/ y <= x
      BY <2>1, <2>3, <2>5
    <2>8. TwoZeros(doc, at, z, y)
      BY <2>3, <2>6, <2>7 DEF TwoZeros, zeros
    <2> QED  BY <2>7, <2>8
  <1> QED
    <2>1. \A z, y \in Int : TwoZeros(doc, at, z, y) => ValueSize(doc, at, 11) = y - at + 1
      BY <1>3 DEF TwoZeros, zeros
    <2>2. (\A z, y \in Int : ~TwoZeros(doc, at, z, y)) => ValueSize(doc, at, 11) = Len(doc) + 1
      BY <1>2, <1>4
    <2> QED  BY <2>1, <2>2

LEMMA FixedSizes ==
    ASSUME NEW doc, NEW at
    PROVE  /\ ValueSize(doc, at, 6) = 0 /\ ValueSize(doc, at, 10) = 0 /\ ValueSize(doc, at, 127) = 0
           /\ ValueSize(doc, at, 255) = 0 /\ ValueSize(doc, at, 8) = 1 /\ ValueSize(doc, at, 16) = 1
           /\ ValueSize(doc, at, 1) = 2 /\ ValueSize(doc, at, 9) = 2 /\ ValueSize(doc, at, 17) = 2
           /\ ValueSize(doc, at, 18) = 2 /\ ValueSize(doc, at, 7) = 3 /\ ValueSize(doc, at, 19) = 4
  <1>1. ValueSize(doc, at, 6) = 0
    BY DEF ValueSize
  <1>2. ValueSize(doc, at, 10) = 0
    BY DEF ValueSize
  <1>3. ValueSize(doc, at, 127) = 0
    BY DEF ValueSize
  <1>4. ValueSize(doc, at, 255) = 0
    BY DEF ValueSize
  <1>5. ValueSize(doc, at, 8) = 1
    BY DEF ValueSize
  <1>6. ValueSize(doc, at, 16) = 1
    BY DEF ValueSize
  <1>7. ValueSize(doc, at, 1) = 2
    BY DEF ValueSize
  <1>8. ValueSize(doc, at, 9) = 2
    BY DEF ValueSize
  <1>9. ValueSize(doc, at, 17) = 2
    BY DEF ValueSize
  <1>10. ValueSize(doc, at, 18) = 2
    BY DEF ValueSize
  <1>11. ValueSize(doc, at, 7) = 3
    BY DEF ValueSize
  <1>12. ValueSize(doc, at, 19) = 4
    BY DEF ValueSize
  <1> QED  BY <1>1, <1>2, <1>3, <1>4, <1>5, <1>6, <1>7, <1>8, <1>9, <1>10, <1>11, <1>12

LEMMA SameFixedSize ==
    ASSUME NEW a, NEW i, NEW b, NEW j, NEW type \in Fixed
    PROVE  ValueSize(a, i, type) = ValueSize(b, j, type)
  <1>1. /\ ValueSize(a, i, 6) = 0 /\ ValueSize(a, i, 10) = 0 /\ ValueSize(a, i, 127) = 0
        /\ ValueSize(a, i, 255) = 0 /\ ValueSize(a, i, 8) = 1 /\ ValueSize(a, i, 16) = 1
        /\ ValueSize(a, i, 1) = 2 /\ ValueSize(a, i, 9) = 2 /\ ValueSize(a, i, 17) = 2
        /\ ValueSize(a, i, 18) = 2 /\ ValueSize(a, i, 7) = 3 /\ ValueSize(a, i, 19) = 4
    BY FixedSizes
  <1>2. /\ ValueSize(b, j, 6) = 0 /\ ValueSize(b, j, 10) = 0 /\ ValueSize(b, j, 127) = 0
        /\ ValueSize(b, j, 255) = 0 /\ ValueSize(b, j, 8) = 1 /\ ValueSize(b, j, 16) = 1
        /\ ValueSize(b, j, 1) = 2 /\ ValueSize(b, j, 9) = 2 /\ ValueSize(b, j, 17) = 2
        /\ ValueSize(b, j, 18) = 2 /\ ValueSize(b, j, 7) = 3 /\ ValueSize(b, j, 19) = 4
    BY FixedSizes
  <1> QED  BY <1>1, <1>2 DEF Fixed

LEMMA MeasuredSizes ==
    ASSUME NEW doc, NEW at, at <= Len(doc)
    PROVE  /\ ValueSize(doc, at, 2) = 1 + doc[at] /\ ValueSize(doc, at, 13) = 1 + doc[at]
           /\ ValueSize(doc, at, 14) = 1 + doc[at] /\ ValueSize(doc, at, 3) = doc[at]
           /\ ValueSize(doc, at, 4) = doc[at] /\ ValueSize(doc, at, 15) = doc[at]
           /\ ValueSize(doc, at, 5) = 2 + doc[at] /\ ValueSize(doc, at, 12) = 4 + doc[at]
  <1>1. ValueSize(doc, at, 2) = 1 + doc[at]
    BY DEF ValueSize
  <1>2. ValueSize(doc, at, 13) = 1 + doc[at]
    BY DEF ValueSize
  <1>3. ValueSize(doc, at, 14) = 1 + doc[at]
    BY DEF ValueSize
  <1>4. ValueSize(doc, at, 3) = doc[at]
    BY DEF ValueSize
  <1>5. ValueSize(doc, at, 4) = doc[at]
    BY DEF ValueSize
  <1>6. ValueSize(doc, at, 15) = doc[at]
    BY DEF ValueSize
  <1>7. ValueSize(doc, at, 5) = 2 + doc[at]
    BY DEF ValueSize
  <1>8. ValueSize(doc, at, 12) = 4 + doc[at]
    BY DEF ValueSize
  <1> QED  BY <1>1, <1>2, <1>3, <1>4, <1>5, <1>6, <1>7, <1>8

LEMMA SameMeasuredSize ==
    ASSUME NEW a, NEW i, i <= Len(a), NEW b, NEW j, j <= Len(b), b[j] = a[i],
           NEW type \in Measured \ {11}
    PROVE  ValueSize(b, j, type) = ValueSize(a, i, type)
  <1>1. /\ ValueSize(a, i, 2) = 1 + a[i] /\ ValueSize(a, i, 13) = 1 + a[i]
        /\ ValueSize(a, i, 14) = 1 + a[i] /\ ValueSize(a, i, 3) = a[i]
        /\ ValueSize(a, i, 4) = a[i] /\ ValueSize(a, i, 15) = a[i]
        /\ ValueSize(a, i, 5) = 2 + a[i] /\ ValueSize(a, i, 12) = 4 + a[i]
    BY MeasuredSizes
  <1>2. /\ ValueSize(b, j, 2) = 1 + b[j] /\ ValueSize(b, j, 13) = 1 + b[j]
        /\ ValueSize(b, j, 14) = 1 + b[j] /\ ValueSize(b, j, 3) = b[j]
        /\ ValueSize(b, j, 4) = b[j] /\ ValueSize(b, j, 15) = b[j]
        /\ ValueSize(b, j, 5) = 2 + b[j] /\ ValueSize(b, j, 12) = 4 + b[j]
    BY MeasuredSizes
  <1> QED  BY <1>1, <1>2 DEF Measured

\* The same words in two places.
SameWords(a, i, b, j, size) == \A k \in 0..size - 1 : b[j + k] = a[i + k]

\* As much room there is in b.
Room(b, j, size) == Len(b) \in Nat /\ j \in Nat /\ 1 <= j /\ j + size - 1 <= Len(b)

\* The size of a value depends on nothing but its own words, wherever they are.
LEMMA SameSize ==
    ASSUME NEW a, NEW b, NEW i, NEW j, NEW type, NEW size,
           Value(a, i, type, size), Room(b, j, size), SameWords(a, i, b, j, size)
    PROVE  ValueSize(b, j, type) = size
  <1>1. /\ i \in Nat /\ 1 <= i /\ size \in Nat /\ size = ValueSize(a, i, type)
        /\ type \in Measured => size >= 1
        /\ i + size - 1 <= Len(a)
        /\ j \in Nat /\ 1 <= j /\ j + size - 1 <= Len(b)
    BY DEF Value, Room
  <1> USE <1>1
  <1>2. Len(a) \in Nat /\ Len(b) \in Nat
    BY DEF Value, Room
  <1>3. CASE type = 11
    <2>1. PICK z, y \in Int : TwoZeros(a, i, z, y)
      <3>1. ~(ValueSize(a, i, 11) = Len(a) + 1)
        BY <1>2, <1>3
      <3>2. (\A z, y \in Int : ~TwoZeros(a, i, z, y)) => ValueSize(a, i, 11) = Len(a) + 1
        BY <1>2, RegexSize
      <3> QED  BY <3>1, <3>2
    <2>2. /\ z \in Int /\ y \in Int /\ i <= z /\ z < y /\ y <= Len(a) /\ a[z] = 0 /\ a[y] = 0
          /\ \A x \in ZerosFrom(a, i) : x = z \/ y <= x
      BY <2>1 DEF TwoZeros, ZerosFrom
    <2>3. size = y - i + 1
      BY <1>2, <1>3, <2>1, RegexSize
    <2> DEFINE d == j - i
    <2>4. /\ z - i \in 0..size - 1 /\ y - i \in 0..size - 1
          /\ i + (z - i) = z /\ i + (y - i) = y /\ j + (z - i) = z + d /\ j + (y - i) = y + d
      BY <2>2, <2>3
    <2>5. b[z + d] = 0 /\ b[y + d] = 0
      BY <2>2, <2>4 DEF SameWords
    <2>6. z + d \in j..Len(b) /\ y + d \in j..Len(b)
      BY <1>2, <2>2, <2>3
    <2>7. ASSUME NEW x \in ZerosFrom(b, j)  PROVE x = z + d \/ y + d <= x
      <3>1. x \in Int /\ j <= x /\ x <= Len(b) /\ b[x] = 0
        BY DEF ZerosFrom
      <3> SUFFICES ASSUME x < y + d  PROVE x = z + d
        BY <2>2, <3>1
      <3>2. x - j \in 0..size - 1 /\ j + (x - j) = x /\ i + (x - j) = x - d
        BY <2>2, <2>3, <3>1
      <3>3. a[x - d] = 0
        BY <3>1, <3>2 DEF SameWords
      <3>4. x - d \in i..Len(a) /\ x - d < y
        BY <1>2, <2>2, <3>1
      <3>5. x - d \in ZerosFrom(a, i)
        BY <3>3, <3>4 DEF ZerosFrom
      <3> QED  BY <2>2, <3>1, <3>4, <3>5
    <2>8. TwoZeros(b, j, z + d, y + d)
      BY <2>2, <2>5, <2>6, <2>7 DEF TwoZeros, ZerosFrom
    <2>9. ValueSize(b, j, 11) = y + d - j + 1
      <3>1. \A w, v \in Int : TwoZeros(b, j, w, v) => ValueSize(b, j, 11) = v - j + 1
        BY <1>2, RegexSize
      <3>2. d \in Int /\ y + d \in Int /\ z + d \in Int
        BY <2>2
      <3> HIDE DEF d
      <3> QED  BY <2>8, <3>1, <3>2
    <2>10. y + d - j + 1 = y - i + 1
      BY <2>2
    <2> QED  BY <1>3, <2>3, <2>9, <2>10
  <1>4. CASE type \in Measured \ {11}
    <2>1. size >= 1
      BY <1>4
    <2>2. i <= Len(a) /\ j <= Len(b) /\ 0 \in 0..size - 1
      BY <1>2, <2>1
    <2>3. b[j] = a[i]
      <3>1. b[j + 0] = a[i + 0]
        BY <2>2 DEF SameWords
      <3> QED  BY <3>1
    <2>4. ValueSize(b, j, type) = ValueSize(a, i, type)
      BY <1>4, <2>2, <2>3, SameMeasuredSize
    <2> QED  BY <2>4
  <1>5. CASE type \in Fixed
    <2>1. ValueSize(a, i, type) = ValueSize(b, j, type)
      BY <1>5, SameFixedSize
    <2> QED  BY <2>1
  <1>6. CASE type \notin Measured /\ type \notin Fixed
    <2>1. ValueSize(a, i, type) = Len(a) + 1
      BY <1>6 DEF ValueSize, Measured, Fixed
    <2> QED  BY <1>2, <2>1
  <1> QED  BY <1>3, <1>4, <1>5, <1>6

\* And so does what is read of an element.
LEMMA SameElement ==
    ASSUME NEW W, NEW a \in Seq(W), NEW b \in Seq(W), NEW i, Element(a, i), NEW j \in Nat, 1 <= j,
           NEW size, size = ElementSize(a, i), j + size <= Len(b) + 1,
           SameWords(a, i, b, j, size)
    PROVE  /\ ElementSize(b, j) = size /\ b[j] = a[i] /\ b[j + 1] = a[i + 1]
           /\ ValueAt(b, j) = ValueAt(a, i)
           /\ 2 <= j => Element(b, j)
  <1> DEFINE n == ValueSize(a, i + 2, a[i])
  <1>1. size = 2 + n
    BY DEF ElementSize
  <1>2. /\ n \in Nat /\ i \in Nat /\ 2 <= i /\ i + size <= Len(a) + 1
        /\ a[i] \in Measured => n >= 1
    <2>1. /\ n \in Nat /\ i \in Nat /\ 2 <= i /\ i + 2 + n <= Len(a) + 1
          /\ a[i] \in Measured => n >= 1
      BY DEF Element
    <2> HIDE DEF n
    <2>2. i + size = i + 2 + n
      BY <1>1, <2>1
    <2> QED  BY <2>1, <2>2
  <1> HIDE DEF n
  <1>3. size \in Nat /\ 2 <= size
    BY <1>1, <1>2
  <1>4. Len(a) \in Nat /\ Len(b) \in Nat
    OBVIOUS
  <1>5. b[j] = a[i] /\ b[j + 1] = a[i + 1]
    <2>1. 0 \in 0..size - 1 /\ 1 \in 0..size - 1
      BY <1>3
    <2>2. b[j + 0] = a[i + 0] /\ b[j + 1] = a[i + 1]
      BY <2>1 DEF SameWords
    <2>3. i + 0 = i /\ j + 0 = j
      BY <1>2
    <2> QED  BY <2>2, <2>3
  <1>6. ValueSize(b, j + 2, a[i]) = n
    <2> DEFINE i2 == i + 2
               j2 == j + 2
    <2>1. ASSUME NEW k \in 0..n - 1  PROVE b[j2 + k] = a[i2 + k]
      <3>1. k + 2 \in 0..size - 1 /\ j + (k + 2) = j2 + k /\ i + (k + 2) = i2 + k
        BY <1>3, <1>1, <1>2
      <3> HIDE DEF i2, j2
      <3> QED  BY <3>1 DEF SameWords
    <2>2. SameWords(a, i2, b, j2, n)
      BY <2>1 DEF SameWords
    <2>3. Value(a, i2, a[i], n)
      <3>1. /\ i2 \in Nat /\ 1 <= i2 /\ i2 + n - 1 <= Len(a)
        BY <1>4, <1>1, <1>2
      <3>2. n = ValueSize(a, i2, a[i])
        BY DEF n
      <3> HIDE DEF i2
      <3> QED  BY <1>4, <1>2, <3>1, <3>2 DEF Value
    <2>4. Room(b, j2, n)
      BY <1>3, <1>4, <1>1, <1>2 DEF Room
    <2> HIDE DEF i2, j2
    <2>5. ValueSize(b, j2, a[i]) = n
      BY <2>4, <2>3, <2>2, SameSize
    <2> QED  BY <2>5 DEF j2
  <1>7. ElementSize(b, j) = size
    BY <1>5, <1>1, <1>6 DEF ElementSize, n
  <1>8. SubSeq(b, j + 2, j + size - 1) = SubSeq(a, i + 2, i + size - 1)
    <2> DEFINE t == SubSeq(b, j + 2, j + size - 1)
               u == SubSeq(a, i + 2, i + size - 1)
    <2>1. /\ j + 2 \in Nat /\ j + size - 1 \in Nat
          /\ 1 <= j + 2 /\ j + 2 <= (j + size - 1) + 1 /\ j + size - 1 <= Len(b)
      BY <1>3, <1>4
    <2>2. /\ i + 2 \in Nat /\ i + size - 1 \in Nat
          /\ 1 <= i + 2 /\ i + 2 <= (i + size - 1) + 1 /\ i + size - 1 <= Len(a)
      <3>1. i \in Nat /\ i + size <= Len(a) + 1
        BY <1>2
      <3> QED  BY <1>3, <1>4, <3>1
    <2>3. (j + size - 1) - (j + 2) + 1 = size - 2 /\ (i + size - 1) - (i + 2) + 1 = size - 2
      BY <1>3, <1>2
    <2>4. /\ t \in Seq(W) /\ Len(t) = (j + size - 1) - (j + 2) + 1
          /\ \A k \in 1..(j + size - 1) - (j + 2) + 1 : t[k] = b[j + 2 + k - 1]
      BY <2>1, Piece
    <2>5. /\ u \in Seq(W) /\ Len(u) = (i + size - 1) - (i + 2) + 1
          /\ \A k \in 1..(i + size - 1) - (i + 2) + 1 : u[k] = a[i + 2 + k - 1]
      BY <2>2, Piece
    <2>6. ASSUME NEW k \in 1..size - 2  PROVE t[k] = u[k]
      <3>1. k + 1 \in 0..size - 1 /\ j + 2 + k - 1 = j + (k + 1) /\ i + 2 + k - 1 = i + (k + 1)
        BY <1>3, <1>2
      <3>2. b[j + (k + 1)] = a[i + (k + 1)]
        BY <3>1 DEF SameWords
      <3> HIDE DEF t, u
      <3> QED  BY <2>3, <2>4, <2>5, <3>1, <3>2
    <2> HIDE DEF t, u
    <2>7. t = u
      BY <2>3, <2>6, <2>4, <2>5, SeqEqual
    <2> QED  BY <2>7 DEF t, u
  <1>9. ASSUME 2 <= j  PROVE Element(b, j)
    <2>1. ValueSize(b, j + 2, b[j]) = n
      BY <1>5, <1>6
    <2>2. j + 2 + n <= Len(b) + 1 /\ (b[j] \in Measured => n >= 1)
      BY <1>1, <1>2, <1>4, <1>5
    <2> QED  BY <1>2, <1>9, <2>1, <2>2 DEF Element
  <1> QED  BY <1>5, <1>7, <1>8, <1>9 DEF ValueAt

-----------------------------------------------------------------------------
\* The place of an element of a document: behind its length, before its closing zero.
Within(buf, pos, size) ==
    /\ pos \in Nat /\ size \in Nat /\ buf[1] \in Int
    /\ 2 <= pos /\ 2 <= size /\ pos + size <= buf[1] /\ buf[1] <= Len(buf)

\* out is buf with other words for the element there: all that is behind it
\* has moved, and the length at the front says by how much.
Spliced(W, buf, pos, size, out, added) ==
    /\ added \in Int /\ out \in Seq(W)
    /\ size + added >= 0
    /\ Len(out) = Len(buf) + added
    /\ out[1] = buf[1] + added
    /\ \A i \in 2..pos - 1 : out[i] = buf[i]
    /\ \A i \in pos + size..Len(buf) : out[i + added] = buf[i]

\* The words are numbers or anything else.
Numbers(W) == Int \subseteq W

LEMMA FromIs ==
    ASSUME NEW W, NEW buf \in Seq(W), NEW pos, NEW size, Within(buf, pos, size)
    PROVE  /\ From(buf, pos) \in Seq(W) /\ Len(From(buf, pos)) = Len(buf) - pos - 1
           /\ \A i \in 1..Len(buf) - pos - 1 : From(buf, pos)[i] = buf[pos + 1 + i]
  BY DEF Within, From

\* removeElement, and the new length of its document.
LEMMA RemoveSplices ==
    ASSUME NEW W, Numbers(W), NEW buf \in Seq(W), NEW pos, NEW size, Within(buf, pos, size)
    PROVE  LET r == resized(buf, removeElement(buf, pos, size))
           IN Spliced(W, buf, pos, size, r.raw, r.added)
  <1> USE DEF Within
  <1> DEFINE front == SubSeq(buf, 1, pos - 1)
             back  == SubSeq(buf, pos + size, Len(buf))
             w     == front \o back
             out   == [w EXCEPT ![1] = buf[1] - size]
             r     == resized(buf, removeElement(buf, pos, size))
  <1>1. Int \subseteq W
    BY DEF Numbers
  <1>2. /\ front \in Seq(W) /\ Len(front) = pos - 1
        /\ \A i \in 1..pos - 1 : front[i] = buf[i]
    OBVIOUS
  <1>3. /\ back \in Seq(W) /\ Len(back) = Len(buf) - (pos + size) + 1
        /\ \A i \in 1..Len(buf) - (pos + size) + 1 : back[i] = buf[pos + size + i - 1]
    OBVIOUS
  <1> HIDE DEF front, back
  <1>4. /\ w \in Seq(W) /\ Len(w) = Len(buf) - size
        /\ \A i \in 1..pos - 1 : w[i] = buf[i]
        /\ \A i \in pos + size..Len(buf) : w[i - size] = buf[i]
    <2>1. w \in Seq(W) /\ Len(w) = Len(buf) - size
      BY <1>2, <1>3
    <2>2. \A i \in 1..pos - 1 : w[i] = buf[i]
      BY <1>2, <1>3
    <2>3. ASSUME NEW i \in pos + size..Len(buf)  PROVE w[i - size] = buf[i]
      <3>1. i - size - (pos - 1) \in 1..Len(back) /\ i - size \in 1..Len(w)
        BY <2>1, <1>3
      <3>2. w[i - size] = back[i - size - (pos - 1)]
        BY <3>1, <1>2, <1>3
      <3> QED  BY <3>1, <3>2, <1>3
    <2> QED  BY <2>1, <2>2, <2>3
  <1> HIDE DEF w
  <1>5. /\ out \in Seq(W) /\ Len(out) = Len(w) /\ out[1] = buf[1] - size
        /\ \A i \in 2..Len(w) : out[i] = w[i]
    BY <1>1, <1>4
  <1>6. r.raw = out /\ r.added = -size
    BY DEF resized, removeElement, Edited, w, front, back
  <1> HIDE DEF out, r
  <1>7. \A i \in 2..pos - 1 : out[i] = buf[i]
    BY <1>4, <1>5
  <1>8. \A i \in pos + size..Len(buf) : out[i + (-size)] = buf[i]
    BY <1>4, <1>5
  <1> QED
    <2>1. Spliced(W, buf, pos, size, out, -size)
      <3>1. -size \in Int /\ size + (-size) >= 0 /\ buf[1] - size = buf[1] + (-size)
            /\ Len(buf) - size = Len(buf) + (-size)
        OBVIOUS
      <3>2. out \in Seq(W) /\ Len(out) = Len(buf) + (-size) /\ out[1] = buf[1] + (-size)
        BY <1>4, <1>5, <3>1
      <3> QED  BY <1>7, <1>8, <3>1, <3>2 DEF Spliced
    <2> QED  BY <1>6, <2>1 DEF r

\* replaceElement, and the new length of its document.
LEMMA ReplaceSplices ==
    ASSUME NEW W, Numbers(W), NEW buf \in Seq(W), NEW pos, NEW size, Within(buf, pos, size),
           NEW type \in W, NEW words \in Seq(W)
    PROVE  LET r == resized(buf, replaceElement(buf, [type |-> type, words |-> words], pos, size))
           IN /\ Spliced(W, buf, pos, size, r.raw, r.added)
              /\ r.added = Len(words) + 2 - size
              /\ r.raw[pos] = type /\ r.raw[pos + 1] = buf[pos + 1]
              /\ \A i \in 1..Len(words) : r.raw[pos + 1 + i] = words[i]
  <1> DEFINE typed == [buf EXCEPT ![pos] = type]
             front == SubSeq(typed, 1, pos + 1)
             back  == SubSeq(buf, pos + size, Len(buf))
             most  == front \o words
             w     == most \o back
             added == Len(words) - (size - 2)
             out   == [w EXCEPT ![1] = buf[1] + added]
             r     == resized(buf, replaceElement(buf, [type |-> type, words |-> words], pos, size))
  <1>1. /\ pos \in Nat /\ 2 <= pos /\ size \in Nat /\ 2 <= size /\ pos + size <= Len(buf)
        /\ Len(buf) \in Nat /\ buf[1] \in Int /\ Len(words) \in Nat
    BY DEF Within
  <1>2. /\ typed \in Seq(W) /\ Len(typed) = Len(buf) /\ typed[pos] = type
        /\ \A i \in 1..Len(buf) : i # pos => typed[i] = buf[i]
    BY <1>1
  <1>3. r.raw = out /\ r.added = added
    BY DEF resized, replaceElement, Edited
  <1> HIDE DEF typed, front, back, most, w, out, r
  <1>4. /\ front \in Seq(W) /\ Len(front) = pos + 1
        /\ \A i \in 1..pos + 1 : front[i] = typed[i]
    BY <1>1, <1>2 DEF front
  <1>5. back \in Seq(W) /\ Len(back) = Len(buf) - (pos + size) + 1
    BY <1>1 DEF back
  <1>6. \A i \in 1..Len(back) : back[i] = buf[pos + size + i - 1]
    BY <1>1, <1>5 DEF back
  <1>7. most \in Seq(W) /\ Len(most) = pos + 1 + Len(words)
    <2>1. most \in Seq(W) /\ Len(most) = Len(front) + Len(words)
      BY <1>4, Join DEF most
    <2> QED  BY <1>4, <2>1
  <1>8. \A i \in 1..pos + 1 : most[i] = front[i]
    BY <1>4, Join DEF most
  <1>9. \A i \in 1..Len(words) : most[pos + 1 + i] = words[i]
    BY <1>4, Join DEF most
  <1>10. w \in Seq(W) /\ Len(w) = Len(most) + Len(back)
    BY <1>5, <1>7, Join DEF w
  <1>11. Len(w) = Len(buf) + added /\ added \in Int /\ size + added >= 0 /\ Len(w) >= 1
    BY <1>1, <1>5, <1>7, <1>10
  <1>12. \A i \in 1..Len(most) : w[i] = most[i]
    BY <1>5, <1>7, Join DEF w
  <1>13. \A i \in 1..Len(back) : w[Len(most) + i] = back[i]
    BY <1>5, <1>7, Join DEF w
  <1>14. buf[1] + added \in W
    BY <1>1, <1>11 DEF Numbers
  <1>15. out \in Seq(W) /\ Len(out) = Len(w) /\ out[1] = buf[1] + added
    BY <1>10, <1>11, <1>14, FirstSet DEF out
  <1>16. \A i \in 2..Len(w) : out[i] = w[i]
    BY <1>10, <1>11, <1>14, FirstSet DEF out
  <1>17. ASSUME NEW i \in 2..pos + 1  PROVE out[i] = typed[i]
    <2>1. i \in 1..pos + 1 /\ i \in 1..Len(most) /\ i \in 2..Len(w)
      BY <1>1, <1>5, <1>7, <1>10
    <2> QED  BY <2>1, <1>4, <1>8, <1>12, <1>16
  <1>18. ASSUME NEW i \in 1..Len(words)  PROVE out[pos + 1 + i] = words[i]
    <2>1. pos + 1 + i \in 1..Len(most) /\ pos + 1 + i \in 2..Len(w)
      BY <1>1, <1>5, <1>7, <1>10
    <2> QED  BY <2>1, <1>9, <1>12, <1>16
  <1>19. ASSUME NEW i \in pos + size..Len(buf)  PROVE out[i + added] = buf[i]
    <2> DEFINE j == i - (pos + size) + 1
    <2>1. /\ j \in 1..Len(back) /\ i + added = Len(most) + j /\ i + added \in 2..Len(w)
          /\ pos + size + j - 1 = i
      BY <1>1, <1>5, <1>7, <1>10
    <2> HIDE DEF j, added
    <2>2. out[i + added] = w[Len(most) + j]
      BY <2>1, <1>16
    <2>3. w[Len(most) + j] = back[j] /\ back[j] = buf[pos + size + j - 1]
      BY <2>1, <1>6, <1>13
    <2> QED  BY <2>1, <2>2, <2>3
  <1>20. /\ out[pos] = type /\ out[pos + 1] = buf[pos + 1]
         /\ \A i \in 2..pos - 1 : out[i] = buf[i]
    BY <1>1, <1>2, <1>17
  <1>21. added = Len(words) + 2 - size
    BY <1>1
  <1> HIDE DEF added
  <1>22. Len(out) = Len(buf) + added
    BY <1>11, <1>15
  <1>23. Spliced(W, buf, pos, size, out, added)
    BY <1>11, <1>15, <1>19, <1>20, <1>22 DEF Spliced
  <1> QED
    BY <1>3, <1>18, <1>20, <1>21, <1>23 DEF r

\* An edit of an embedded document, and its splice of that document.
SplicedInside(W, buf, pos, size, p, s, q) ==
    /\ size = 2 + buf[pos + 2]
    /\ Within(From(buf, pos), p, s)
    /\ Spliced(W, From(buf, pos), p, s, q.raw, q.added)

LEMMA AroundSplices ==
    ASSUME NEW W, Numbers(W), NEW buf \in Seq(W), NEW pos, NEW size, Within(buf, pos, size),
           NEW p, NEW s, NEW q, SplicedInside(W, buf, pos, size, p, s, q)
    PROVE  LET r == resized(buf, aroundSubDoc(buf, pos, q))
           IN /\ Spliced(W, buf, pos, size, r.raw, r.added)
              /\ r.added = q.added
              /\ r.raw[pos] = buf[pos] /\ r.raw[pos + 1] = buf[pos + 1]
              /\ From(r.raw, pos) = q.raw
  <1> DEFINE inner == From(buf, pos)
             part  == q.raw
             added == q.added
             front == SubSeq(buf, 1, pos + 1)
             w     == front \o part
             out   == [w EXCEPT ![1] = buf[1] + added]
             r     == resized(buf, aroundSubDoc(buf, pos, q))
  <1> HIDE DEF inner, part, added
  <1>1. /\ pos \in Nat /\ 2 <= pos /\ size \in Nat /\ 2 <= size /\ pos + size <= Len(buf)
        /\ Len(buf) \in Nat /\ buf[1] \in Int
    BY DEF Within
  <1>2. inner \in Seq(W) /\ Len(inner) = Len(buf) - pos - 1
    BY FromIs DEF inner
  <1>3. \A i \in 1..Len(inner) : inner[i] = buf[pos + 1 + i]
    BY <1>2, FromIs DEF inner
  <1>4. /\ p \in Nat /\ s \in Nat /\ 2 <= p /\ 2 <= s /\ inner[1] \in Int
        /\ p + s <= inner[1] /\ inner[1] <= Len(inner)
    BY DEF SplicedInside, Within, inner
  <1>5. buf[pos + 2] = inner[1]
    <2>1. 1 \in 1..Len(inner) /\ pos + 1 + 1 = pos + 2
      BY <1>1, <1>2, <1>4
    <2> QED  BY <2>1, <1>3
  <1>6. size = 2 + inner[1]
    BY <1>5 DEF SplicedInside
  <1>7. Spliced(W, inner, p, s, part, added)
    BY DEF SplicedInside, inner, part, added
  <1>8. /\ added \in Int /\ part \in Seq(W) /\ Len(part) = Len(inner) + added
        /\ part[1] = inner[1] + added /\ s + added >= 0
    BY <1>7 DEF Spliced
  <1>9. \A i \in p + s..Len(inner) : part[i + added] = inner[i]
    BY <1>7 DEF Spliced
  <1>10. part[1] - buf[pos + 2] = added
    BY <1>4, <1>5, <1>8
  <1>11. r.raw = out /\ r.added = added
    BY <1>10 DEF resized, aroundSubDoc, Edited, part
  <1> HIDE DEF front, w, out, r
  <1>12. front \in Seq(W) /\ Len(front) = pos + 1
    BY <1>1 DEF front
  <1>13. \A i \in 1..pos + 1 : front[i] = buf[i]
    BY <1>1 DEF front
  <1>14. w \in Seq(W) /\ Len(w) = pos + 1 + Len(part)
    <2>1. w \in Seq(W) /\ Len(w) = Len(front) + Len(part)
      BY <1>8, <1>12, Join DEF w
    <2> QED  BY <1>12, <2>1
  <1>15. \A i \in 1..pos + 1 : w[i] = front[i]
    BY <1>8, <1>12, Join DEF w
  <1>16. \A i \in 1..Len(part) : w[pos + 1 + i] = part[i]
    BY <1>8, <1>12, Join DEF w
  <1>17. buf[1] + added \in W
    BY <1>1, <1>8 DEF Numbers
  <1>18. Len(part) \in Nat /\ Len(w) >= 1
    BY <1>1, <1>8, <1>14
  <1>19. out \in Seq(W) /\ Len(out) = Len(w) /\ out[1] = buf[1] + added
    BY <1>14, <1>17, <1>18, FirstSet DEF out
  <1>20. \A i \in 2..Len(w) : out[i] = w[i]
    BY <1>14, <1>17, <1>18, FirstSet DEF out
  <1>21. ASSUME NEW i \in 2..pos + 1  PROVE out[i] = buf[i]
    <2>1. i \in 1..pos + 1 /\ i \in 2..Len(w)
      BY <1>1, <1>14, <1>18
    <2> QED  BY <2>1, <1>13, <1>15, <1>20
  <1>22. ASSUME NEW i \in 1..Len(part)  PROVE out[pos + 1 + i] = part[i]
    <2>1. pos + 1 + i \in 2..Len(w)
      BY <1>1, <1>14, <1>18
    <2> QED  BY <2>1, <1>16, <1>20
  <1>23. ASSUME NEW i \in Int, pos + size <= i, i <= Len(buf)  PROVE out[i + added] = buf[i]
    <2> DEFINE j == i - pos - 1
    <2>1. /\ j \in p + s..Len(inner) /\ j \in 1..Len(inner)
          /\ j + added \in 1..Len(part)
          /\ pos + 1 + j = i /\ pos + 1 + (j + added) = i + added
      <3>1. i \in Int /\ pos + 2 + inner[1] <= i /\ i <= Len(inner) + pos + 1
        <4>1. pos \in Int /\ size \in Int /\ Len(buf) \in Int
          BY <1>1
        <4>2. Len(inner) + pos + 1 = Len(buf) /\ pos + size = pos + 2 + inner[1]
          BY <4>1, <1>2, <1>4, <1>6
        <4> QED  BY <1>23, <4>2
      <3>2. j \in Int /\ p + s <= j /\ j <= Len(inner)
        BY <3>1, <1>1, <1>2, <1>4
      <3>3. Len(inner) \in Nat /\ added \in Int /\ s + added >= 0 /\ Len(part) = Len(inner) + added
        BY <1>2, <1>8
      <3> HIDE DEF j
      <3>4. 1 <= j + added /\ j + added <= Len(part) /\ 1 <= j
        BY <1>4, <3>2, <3>3
      <3>5. pos + 1 + j = i /\ pos + 1 + (j + added) = i + added
        BY <1>1, <3>1, <3>3 DEF j
      <3> QED  BY <1>4, <3>2, <3>3, <3>4, <3>5
    <2> HIDE DEF j
    <2>2. out[pos + 1 + (j + added)] = part[j + added]
      BY <2>1, <1>22
    <2>3. part[j + added] = inner[j] /\ inner[j] = buf[pos + 1 + j]
      BY <2>1, <1>3, <1>9
    <2> QED  BY <2>1, <2>2, <2>3
  <1>24. size + added >= 0 /\ Len(out) = Len(buf) + added
    <2>1. size + added >= 0
      <3>1. added \in Int /\ s + added >= 0
        BY <1>8
      <3> QED  BY <3>1, <1>4, <1>6
    <2>2. Len(out) = Len(buf) + added
      BY <1>1, <1>2, <1>8, <1>14, <1>19
    <2> QED  BY <2>1, <2>2
  <1>25. \A i \in 2..pos - 1 : out[i] = buf[i]
    BY <1>1, <1>21
  <1>26. \A i \in pos + size..Len(buf) : out[i + added] = buf[i]
    BY <1>1, <1>23
  <1>27. Spliced(W, buf, pos, size, out, added)
    BY <1>8, <1>19, <1>24, <1>25, <1>26 DEF Spliced
  <1>28. From(out, pos) = part
    <2> DEFINE t == SubSeq(out, pos + 2, Len(out))
    <2>1. t \in Seq(W) /\ Len(t) = Len(part)
      BY <1>1, <1>14, <1>18, <1>19
    <2>2. \A i \in 1..Len(t) : t[i] = out[pos + 1 + i]
      BY <1>1, <1>14, <1>18, <1>19
    <2> HIDE DEF t
    <2>3. \A i \in 1..Len(t) : t[i] = part[i]
      BY <2>1, <2>2, <1>22
    <2>4. t = part
      BY <2>1, <2>3, <1>8, SeqEqual
    <2> QED  BY <2>4 DEF t, From
  <1>29. out[pos] = buf[pos] /\ out[pos + 1] = buf[pos + 1]
    BY <1>1, <1>21
  <1> QED
    BY <1>11, <1>27, <1>28, <1>29 DEF r, part, added

\* Where an element is that was at place p before the splice.
Moved(p, pos, added) == IF p < pos THEN p ELSE p + added

\* The elements on both sides of a splice are what they were.
LEMMA OthersKept ==
    ASSUME NEW W, NEW buf \in Seq(W), NEW pos, NEW size, Within(buf, pos, size),
           NEW out, NEW added, Spliced(W, buf, pos, size, out, added),
           NEW p, Element(buf, p), p + ElementSize(buf, p) <= pos \/ pos + size <= p
    PROVE  LET q == Moved(p, pos, added)
           IN /\ ElementSize(out, q) = ElementSize(buf, p)
              /\ out[q] = buf[p] /\ out[q + 1] = buf[p + 1]
              /\ ValueAt(out, q) = ValueAt(buf, p)
  <1> DEFINE es == ElementSize(buf, p)
             q  == Moved(p, pos, added)
  <1>1. /\ pos \in Nat /\ 2 <= pos /\ size \in Nat /\ 2 <= size /\ pos + size <= Len(buf)
        /\ Len(buf) \in Nat
    BY DEF Within
  <1>2. p \in Nat /\ 2 <= p /\ es \in Nat /\ 2 <= es /\ p + es <= Len(buf) + 1
    BY DEF Element, ElementSize
  <1>3. out \in Seq(W) /\ added \in Int /\ size + added >= 0 /\ Len(out) = Len(buf) + added
    BY DEF Spliced
  <1>4. \A i \in 2..pos - 1 : out[i] = buf[i]
    BY DEF Spliced
  <1>5. \A i \in pos + size..Len(buf) : out[i + added] = buf[i]
    BY DEF Spliced
  <1>6. p + es <= pos \/ pos + size <= p
    OBVIOUS
  <1> HIDE DEF es
  <1>7. /\ q \in Nat /\ 1 <= q /\ q + es <= Len(out) + 1
        /\ SameWords(buf, p, out, q, es)
    <2>1. CASE p + es <= pos
      <3>1. q = p
        BY <1>1, <1>2, <2>1 DEF Moved
      <3>2. p + es <= Len(out) + 1
        BY <1>1, <1>2, <1>3, <2>1
      <3>3. ASSUME NEW k \in 0..es - 1  PROVE out[p + k] = buf[p + k]
        <4>1. p + k \in 2..pos - 1
          BY <1>1, <1>2, <2>1
        <4> QED  BY <1>4, <4>1
      <3> HIDE DEF q
      <3> QED  BY <1>2, <3>1, <3>2, <3>3 DEF SameWords
    <2>2. CASE pos + size <= p
      <3>1. q = p + added
        BY <1>1, <1>2, <2>2 DEF Moved
      <3>2. p + added \in Nat /\ 1 <= p + added /\ p + added + es <= Len(out) + 1
        BY <1>1, <1>2, <1>3, <2>2
      <3>3. ASSUME NEW k \in 0..es - 1  PROVE out[p + added + k] = buf[p + k]
        <4>1. p + k \in pos + size..Len(buf) /\ p + k + added = p + added + k
          BY <1>1, <1>2, <1>3, <2>2
        <4>2. out[p + k + added] = buf[p + k]
          BY <1>5, <4>1
        <4> QED  BY <4>1, <4>2
      <3> HIDE DEF q
      <3> QED  BY <3>1, <3>2, <3>3 DEF SameWords
    <2> QED  BY <1>6, <2>1, <2>2
  <1> HIDE DEF q
  <1>8. es = ElementSize(buf, p)
    BY DEF es
  <1>9. /\ ElementSize(out, q) = es /\ out[q] = buf[p] /\ out[q + 1] = buf[p + 1]
        /\ ValueAt(out, q) = ValueAt(buf, p)
    <2>1. q \in Nat /\ 1 <= q /\ q + es <= Len(out) + 1 /\ SameWords(buf, p, out, q, es)
      BY <1>7
    <2>2. out \in Seq(W)
      BY <1>3
    <2> QED  BY <1>8, <2>1, <2>2, SameElement
  <1> QED  BY <1>8, <1>9 DEF q

-----------------------------------------------------------------------------
\* The way down to an element n levels deep: the buffers that the levels work
\* on, and where the element is that each of them edits.
Path(W, n, buf, at) ==
    /\ n \in Nat
    /\ \A k \in 0..n : /\ buf[k] \in Seq(W)
                       /\ Within(buf[k], at[k], ElementSize(buf[k], at[k]))
    /\ \A k \in 0..n : k < n => Container(buf[k][at[k]]) /\ buf[k + 1] = From(buf[k], at[k])

\* The way back up: what each level hands to the one above.
EditedAlong(n, buf, at, new, r) ==
    /\ LET size == ElementSize(buf[n], at[n])
       IN \/ new = Nothing /\ r[n] = resized(buf[n], removeElement(buf[n], at[n], size))
          \/ new # Nothing /\ r[n] = resized(buf[n], replaceElement(buf[n], new, at[n], size))
    /\ \A k \in 0..n : k < n => r[k] = resized(buf[k], aroundSubDoc(buf[k], at[k], r[k + 1]))

\* At level k.
SplicedAt(W, k, buf, at, r) ==
    Spliced(W, buf[k], at[k], ElementSize(buf[k], at[k]), r[k].raw, r[k].added)

\* An embedded document takes as many words as its own length says.
LEMMA ContainerSize ==
    ASSUME NEW W, NEW buf \in Seq(W), NEW pos, Container(buf[pos]),
           Within(buf, pos, ElementSize(buf, pos))
    PROVE  ElementSize(buf, pos) = 2 + buf[pos + 2]
  <1> DEFINE at == pos + 2
  <1>1. /\ pos \in Nat /\ Len(buf) \in Nat
        /\ ElementSize(buf, pos) \in Nat /\ pos + ElementSize(buf, pos) <= Len(buf)
    BY DEF Within
  <1>2. buf[pos] = 3 \/ buf[pos] = 4
    BY DEF Container
  <1> HIDE DEF at
  <1>3. ValueSize(buf, at, 3) = IF at <= Len(buf) THEN buf[at] ELSE Len(buf) + 1
    BY DEF ValueSize
  <1>4. ValueSize(buf, at, 4) = IF at <= Len(buf) THEN buf[at] ELSE Len(buf) + 1
    BY DEF ValueSize
  <1>5. ElementSize(buf, pos) = 2 + ValueSize(buf, at, buf[pos])
    BY DEF ElementSize, at
  <1>6. ElementSize(buf, pos) = 2 + IF at <= Len(buf) THEN buf[at] ELSE Len(buf) + 1
    BY <1>2, <1>3, <1>4, <1>5
  <1>7. CASE at <= Len(buf)
    BY <1>6, <1>7 DEF at
  <1>8. CASE ~(at <= Len(buf))
    <2>1. ElementSize(buf, pos) = 2 + (Len(buf) + 1)
      BY <1>6, <1>8
    <2> QED  BY <1>1, <2>1
  <1> QED  BY <1>7, <1>8

\* If an edit is a splice of the embedded document then it is one of the document around it.
LEMMA LevelAbove ==
    ASSUME NEW W, Numbers(W), NEW n, NEW buf, NEW at, NEW r,
           NEW new \in [type : W, words : Seq(W)],
           Path(W, n, buf, at), EditedAlong(n, buf, at, new, r),
           NEW k \in 0..n, k < n, SplicedAt(W, k + 1, buf, at, r)
    PROVE  /\ SplicedAt(W, k, buf, at, r)
           /\ r[k].added = r[k + 1].added
           /\ r[k].raw[at[k]] = buf[k][at[k]] /\ r[k].raw[at[k] + 1] = buf[k][at[k] + 1]
           /\ From(r[k].raw, at[k]) = r[k + 1].raw
  <1> DEFINE size == ElementSize(buf[k], at[k])
             b    == buf[k]
             pos  == at[k]
             p    == at[k + 1]
             s    == ElementSize(buf[k + 1], at[k + 1])
             q    == r[k + 1]
  <1>1. n \in Nat /\ k \in 0..n /\ k + 1 \in 0..n
    BY DEF Path
  <1>2. b \in Seq(W) /\ Within(b, pos, size) /\ Container(b[pos]) /\ buf[k + 1] = From(b, pos)
    BY <1>1 DEF Path
  <1>3. Within(buf[k + 1], p, s)
    BY <1>1 DEF Path
  <1>4. size = 2 + b[pos + 2]
    BY <1>2, ContainerSize
  <1>5. SplicedInside(W, b, pos, size, p, s, q)
    BY <1>2, <1>3, <1>4 DEF SplicedInside, SplicedAt
  <1>6. r[k] = resized(b, aroundSubDoc(b, pos, q))
    BY <1>1 DEF EditedAlong
  <1>7. size = ElementSize(buf[k], at[k])
    OBVIOUS
  <1> HIDE DEF size, s, q, p
  <1>8. LET x == resized(b, aroundSubDoc(b, pos, q))
        IN /\ Spliced(W, b, pos, size, x.raw, x.added)
           /\ x.added = q.added
           /\ x.raw[pos] = b[pos] /\ x.raw[pos + 1] = b[pos + 1]
           /\ From(x.raw, pos) = q.raw
    BY <1>2, <1>5, AroundSplices
  <1> QED  BY <1>6, <1>7, <1>8 DEF SplicedAt, q

\* Any number of levels down, removing or replacing an element changes the
\* length of every document around it by the same number of words, moves what
\* is behind it by as many, and leaves type and key of the documents around it
\* alone; each embedded document is the one that the level below made
\* (editMatchingElement, recurseIntoSubDoc).
THEOREM EveryLengthFollows ==
    ASSUME NEW W, Numbers(W), NEW n, NEW buf, NEW at, NEW r,
           NEW new \in [type : W, words : Seq(W)],
           Path(W, n, buf, at), EditedAlong(n, buf, at, new, r)
    PROVE  \A k \in 0..n :
              /\ SplicedAt(W, k, buf, at, r)
              /\ r[k].added = r[n].added
              /\ k < n => /\ r[k].raw[at[k]] = buf[k][at[k]]
                          /\ r[k].raw[at[k] + 1] = buf[k][at[k] + 1]
                          /\ From(r[k].raw, at[k]) = r[k + 1].raw
  <1> DEFINE Follows(k) == SplicedAt(W, k, buf, at, r) /\ r[k].added = r[n].added
             wrong      == {m \in 0..n : ~Follows(n - m)}
  <1>1. n \in Nat
    BY DEF Path
  <1>2. Follows(n)
    <2>1. buf[n] \in Seq(W) /\ Within(buf[n], at[n], ElementSize(buf[n], at[n]))
      BY <1>1 DEF Path
    <2>2. CASE r[n] = resized(buf[n], removeElement(buf[n], at[n], ElementSize(buf[n], at[n])))
      BY <2>1, <2>2, RemoveSplices DEF SplicedAt
    <2>3. CASE r[n] = resized(buf[n], replaceElement(buf[n], new, at[n],
                                                     ElementSize(buf[n], at[n])))
      <3>1. new = [type |-> new.type, words |-> new.words] /\ new.type \in W /\ new.words \in Seq(W)
        OBVIOUS
      <3>2. r[n] = resized(buf[n], replaceElement(buf[n], [type |-> new.type, words |-> new.words],
                                                  at[n], ElementSize(buf[n], at[n])))
        BY <2>3, <3>1
      <3> QED  BY <2>1, <3>1, <3>2, ReplaceSplices DEF SplicedAt
    <2>4. SplicedAt(W, n, buf, at, r)
      BY <2>2, <2>3 DEF EditedAlong
    <2> QED  BY <2>4
  <1> HIDE DEF Follows
  <1>3. ASSUME NEW k \in 0..n, k < n, Follows(k + 1)  PROVE Follows(k)
    BY <1>3, LevelAbove DEF Follows
  <1>4. wrong = {}
    <2> SUFFICES ASSUME wrong # {}  PROVE FALSE
      OBVIOUS
    <2>1. wrong \in SUBSET Nat
      BY <1>1
    <2>2. PICK m \in wrong : \A j \in wrong : m <= j
      <3> HIDE DEF wrong
      <3> QED  BY <2>1, LeastNat
    <2>3. m \in 0..n /\ ~Follows(n - m)
      OBVIOUS
    <2>4. m # 0
      BY <1>1, <1>2, <2>3
    <2>5. m - 1 \in 0..n /\ m - 1 \notin wrong
      BY <1>1, <2>2, <2>3, <2>4
    <2>6. Follows(n - (m - 1))
      BY <2>5
    <2>7. n - m \in 0..n /\ n - m < n /\ n - (m - 1) = (n - m) + 1
      BY <1>1, <2>3, <2>4
    <2>8. Follows((n - m) + 1)
      BY <2>6, <2>7
    <2> QED  BY <1>3, <2>3, <2>7, <2>8
  <1>5. ASSUME NEW k \in 0..n  PROVE Follows(k)
    <2>1. n - k \in 0..n /\ n - (n - k) = k
      BY <1>1
    <2> QED  BY <1>4, <2>1
  <1>6. ASSUME NEW k \in 0..n, k < n
        PROVE  /\ r[k].raw[at[k]] = buf[k][at[k]]
               /\ r[k].raw[at[k] + 1] = buf[k][at[k] + 1]
               /\ From(r[k].raw, at[k]) = r[k + 1].raw
    <2>1. k + 1 \in 0..n
      BY <1>1, <1>6
    <2>2. SplicedAt(W, k + 1, buf, at, r)
      BY <1>5, <2>1 DEF Follows
    <2> QED  BY <1>6, <2>2, LevelAbove
  <1> QED  BY <1>5, <1>6 DEF Follows

\* At every level, an element that is not the one the path goes through has the
\* same key and value after the edit as before, at the place that it moved to:
\* it still begins and ends where a reader of the document finds it
\* (editMatchingElement, ReadElement).
THEOREM NothingElseChanges ==
    ASSUME NEW W, Numbers(W), NEW n, NEW buf, NEW at, NEW r,
           NEW new \in [type : W, words : Seq(W)],
           Path(W, n, buf, at), EditedAlong(n, buf, at, new, r),
           NEW k \in 0..n, NEW p, Element(buf[k], p),
           \/ p + ElementSize(buf[k], p) <= at[k]
           \/ at[k] + ElementSize(buf[k], at[k]) <= p
    PROVE  LET q == Moved(p, at[k], r[n].added)
           IN /\ r[k].raw[q + 1] = buf[k][p + 1]
              /\ ValueAt(r[k].raw, q) = ValueAt(buf[k], p)
  <1>1. buf[k] \in Seq(W) /\ Within(buf[k], at[k], ElementSize(buf[k], at[k]))
    BY DEF Path
  <1>2. Spliced(W, buf[k], at[k], ElementSize(buf[k], at[k]), r[k].raw, r[n].added)
    <2>1. SplicedAt(W, k, buf, at, r) /\ r[k].added = r[n].added
      BY EveryLengthFollows
    <2> QED  BY <2>1 DEF SplicedAt
  <1> QED  BY <1>1, <1>2, OthersKept

-----------------------------------------------------------------------------
\* What a value of each type consists of: no character of a regular expression
\* is a NUL, and a document begins with its length.
Consists(type, items) ==
    /\ type \in {6, 10, 127, 255} => Len(items) = 0
    /\ type \in {8, 15, 16}       => Len(items) = 1
    /\ type \in {1, 9, 17, 18}    => Len(items) = 2
    /\ type = 7                   => Len(items) = 3
    /\ type \in {12, 19}          => Len(items) = 4
    /\ type = 5                   => Len(items) >= 1
    /\ type = 11                  => Len(items) >= 1 /\ \A i \in 1..Len(items) : items[i] # 0
    /\ type \in {3, 4}            => Len(items) >= 2 /\ items[1] = Len(items)

\* The words of a value, read from where they begin, are that value again.
ReadsBack(W, type, items) ==
    LET w == Words(type, items)
    IN w \in Seq(W) /\ Value(w, 1, type, Len(w)) /\ Items(type, w) = items

LEMMA StringReadsBack ==
    ASSUME NEW W, Numbers(W), NEW items \in Seq(W), NEW type \in {2, 13, 14}
    PROVE  ReadsBack(W, type, items)
  <1>1. Words(type, items) = <<Len(items) + 1>> \o items \o <<0>>
    <2>1. Words(2, items) = <<Len(items) + 1>> \o items \o <<0>>
      BY DEF Words
    <2>2. Words(13, items) = <<Len(items) + 1>> \o items \o <<0>>
      BY DEF Words
    <2>3. Words(14, items) = <<Len(items) + 1>> \o items \o <<0>>
      BY DEF Words
    <2>4. type = 2 \/ type = 13 \/ type = 14
      OBVIOUS
    <2> QED  BY <2>1, <2>2, <2>3, <2>4
  <1> DEFINE most == <<Len(items) + 1>> \o items
             w    == most \o <<0>>
  <1>2. Words(type, items) = w
    BY <1>1
  <1>3. Len(items) \in Nat /\ Len(items) + 1 \in W /\ 0 \in W
    BY DEF Numbers
  <1>4. most \in Seq(W) /\ Len(most) = Len(items) + 1 /\ most[1] = Len(items) + 1
    BY <1>3
  <1>5. \A i \in 1..Len(items) : most[i + 1] = items[i]
    BY <1>3
  <1> HIDE DEF most
  <1>6. w \in Seq(W) /\ Len(w) = Len(items) + 2
    BY <1>3, <1>4
  <1>7. \A i \in 1..Len(items) + 1 : w[i] = most[i]
    BY <1>3, <1>4
  <1> HIDE DEF w
  <1>8. w[1] = Len(items) + 1
    BY <1>3, <1>4, <1>7
  <1>9. SubSeq(w, 2, Len(w) - 1) = items
    <2> DEFINE v == SubSeq(w, 2, Len(items) + 1)
    <2>1. /\ v \in Seq(W) /\ Len(v) = Len(items)
          /\ \A i \in 1..Len(items) : v[i] = w[i + 1]
      BY <1>3, <1>6
    <2>2. \A i \in 1..Len(items) : v[i] = items[i]
      BY <1>3, <1>5, <1>7, <2>1
    <2> HIDE DEF v
    <2>3. v = items
      BY <2>1, <2>2, SeqEqual
    <2>4. Len(w) - 1 = Len(items) + 1
      BY <1>3, <1>6
    <2> QED  BY <2>3, <2>4 DEF v
  <1>10. Items(type, w) = SubSeq(w, 2, Len(w) - 1)
    BY DEF Items
  <1>11. ValueSize(w, 1, type) = 1 + w[1]
    <2>1. 1 <= Len(w)
      BY <1>3, <1>6
    <2> QED  BY <2>1 DEF ValueSize
  <1>12. Value(w, 1, type, Len(w))
    BY <1>3, <1>6, <1>8, <1>11 DEF Value
  <1> QED  BY <1>2, <1>6, <1>9, <1>10, <1>12 DEF ReadsBack

LEMMA BinaryReadsBack ==
    ASSUME NEW W, Numbers(W), NEW items \in Seq(W), Len(items) >= 1
    PROVE  ReadsBack(W, 5, items)
  <1> DEFINE w == <<Len(items) - 1>> \o items
  <1>1. Words(5, items) = w
    BY DEF Words
  <1>2. Len(items) \in Nat /\ Len(items) - 1 \in W
    BY DEF Numbers
  <1>3. w \in Seq(W) /\ Len(w) = Len(items) + 1 /\ w[1] = Len(items) - 1
    BY <1>2
  <1>4. \A i \in 1..Len(items) : w[i + 1] = items[i]
    BY <1>2
  <1> HIDE DEF w
  <1>5. Tail(w) = items
    <2>1. /\ Tail(w) \in Seq(W) /\ Len(Tail(w)) = Len(items)
          /\ \A i \in 1..Len(items) : Tail(w)[i] = w[i + 1]
      BY <1>2, <1>3
    <2>2. \A i \in 1..Len(items) : Tail(w)[i] = items[i]
      BY <1>4, <2>1
    <2> QED  BY <2>1, <2>2, SeqEqual
  <1>6. Items(5, w) = Tail(w)
    BY DEF Items
  <1>7. ValueSize(w, 1, 5) = 2 + w[1]
    <2>1. 1 <= Len(w)
      BY <1>2, <1>3
    <2> QED  BY <2>1 DEF ValueSize
  <1>8. Value(w, 1, 5, Len(w))
    BY <1>2, <1>3, <1>7 DEF Value
  <1> QED  BY <1>1, <1>3, <1>5, <1>6, <1>8 DEF ReadsBack

LEMMA RegexReadsBack ==
    ASSUME NEW W, Numbers(W), NEW items \in Seq(W), Len(items) >= 1,
           \A i \in 1..Len(items) : items[i] # 0
    PROVE  ReadsBack(W, 11, items)
  <1> DEFINE rest == Tail(items)
             most == <<items[1], 0>> \o rest
             w    == most \o <<0>>
             n    == Len(items)
  <1>1. Words(11, items) = w
    BY DEF Words
  <1>2. n \in Nat /\ 1 <= n /\ 0 \in W /\ items[1] \in W
    BY DEF Numbers
  <1>3. rest \in Seq(W) /\ Len(rest) = n - 1
    BY <1>2
  <1>4. \A i \in 1..n - 1 : rest[i] = items[i + 1]
    BY <1>2
  <1> HIDE DEF rest
  <1>5. most \in Seq(W) /\ Len(most) = n + 1 /\ most[1] = items[1] /\ most[2] = 0
    BY <1>2, <1>3
  <1>6. \A i \in 1..n - 1 : most[i + 2] = rest[i]
    BY <1>2, <1>3
  <1> HIDE DEF most
  <1>7. w \in Seq(W) /\ Len(w) = n + 2 /\ w[n + 2] = 0
    BY <1>2, <1>5
  <1>8. \A i \in 1..n + 1 : w[i] = most[i]
    BY <1>2, <1>5
  <1> HIDE DEF w
  <1>9. w[1] = items[1] /\ w[2] = 0
    BY <1>2, <1>5, <1>8
  <1>10. \A i \in 1..n - 1 : w[i + 2] = items[i + 1]
    <2>1. ASSUME NEW i \in 1..n - 1  PROVE w[i + 2] = items[i + 1]
      <3>1. i + 2 \in 1..n + 1
        BY <1>2
      <3> QED  BY <1>4, <1>6, <1>8, <3>1
    <2> QED  BY <2>1
  <1>11. <<w[1]>> \o SubSeq(w, 3, Len(w) - 1) = items
    <2> DEFINE v == SubSeq(w, 3, n + 1)
               u == <<items[1]>> \o v
    <2>1. /\ v \in Seq(W) /\ Len(v) = n - 1
          /\ \A i \in 1..n - 1 : v[i] = w[i + 2]
      <3>1. /\ 3 \in Nat /\ n + 1 \in Nat /\ 3 <= (n + 1) + 1
            /\ n + 1 <= Len(w) /\ (n + 1) - 3 + 1 = n - 1
        BY <1>2, <1>7
      <3>2. /\ v \in Seq(W) /\ Len(v) = (n + 1) - 3 + 1
            /\ \A i \in 1..(n + 1) - 3 + 1 : v[i] = w[3 + i - 1]
        BY <1>7, <3>1, Piece
      <3> HIDE DEF v
      <3> QED  BY <3>1, <3>2
    <2>2. \A i \in 1..n - 1 : v[i] = items[i + 1]
      BY <2>1, <1>10
    <2> HIDE DEF v
    <2>3. u \in Seq(W) /\ Len(u) = n /\ u[1] = items[1]
      BY <1>2, <2>1
    <2>4. \A i \in 1..n - 1 : u[i + 1] = v[i]
      BY <1>2, <2>1
    <2> HIDE DEF u
    <2>5. ASSUME NEW i \in 1..n  PROVE u[i] = items[i]
      <3>1. CASE i = 1
        BY <2>3, <3>1
      <3>2. CASE i # 1
        <4>1. i - 1 \in 1..n - 1 /\ (i - 1) + 1 = i
          BY <1>2, <3>2
        <4> QED  BY <2>2, <2>4, <4>1
      <3> QED  BY <3>1, <3>2
    <2>6. u = items
      BY <2>3, <2>5, SeqEqual
    <2>7. Len(w) - 1 = n + 1
      BY <1>2, <1>7
    <2> QED  BY <2>6, <2>7, <1>9 DEF u, v
  <1>12. Items(11, w) = <<w[1]>> \o SubSeq(w, 3, Len(w) - 1)
    BY DEF Items
  <1>13. TwoZeros(w, 1, 2, n + 2)
    <2>1. 2 \in ZerosFrom(w, 1) /\ n + 2 \in ZerosFrom(w, 1) /\ 2 < n + 2
      BY <1>2, <1>7, <1>9 DEF ZerosFrom
    <2>2. ASSUME NEW x \in ZerosFrom(w, 1)  PROVE x = 2 \/ n + 2 <= x
      <3>1. x \in 1..n + 2 /\ w[x] = 0
        BY <1>7 DEF ZerosFrom
      <3>2. CASE x = 1
        BY <1>2, <1>9, <3>1, <3>2
      <3>3. CASE x \in 3..n + 1
        <4>1. x - 2 \in 1..n - 1 /\ (x - 2) + 2 = x /\ (x - 2) + 1 \in 1..n
          BY <1>2, <3>3
        <4>2. w[x] = items[(x - 2) + 1]
          BY <1>10, <4>1
        <4> QED  BY <3>1, <4>1, <4>2
      <3> QED  BY <1>2, <3>1, <3>2, <3>3
    <2> QED  BY <2>1, <2>2 DEF TwoZeros
  <1>14. ValueSize(w, 1, 11) = n + 2
    <2>1. Len(w) \in Nat /\ 1 \in Nat /\ 2 \in Int /\ n + 2 \in Int
      BY <1>2, <1>7
    <2>2. ValueSize(w, 1, 11) = n + 2 - 1 + 1
      BY <1>13, <2>1, RegexSize
    <2> QED  BY <1>2, <2>2
  <1>15. Value(w, 1, 11, Len(w))
    BY <1>2, <1>7, <1>14 DEF Value
  <1> QED  BY <1>1, <1>7, <1>11, <1>12, <1>15 DEF ReadsBack

LEMMA PointerReadsBack ==
    ASSUME NEW W, Numbers(W), NEW items \in Seq(W), Len(items) = 4
    PROVE  ReadsBack(W, 12, items)
  <1>1. Words(12, items) = <<2, items[1], 0>> \o Tail(items)
    BY DEF Words
  <1>2. 2 \in W /\ 0 \in W
    BY DEF Numbers
  <1>3. items[1] \in W
    OBVIOUS
  <1> DEFINE rest == Tail(items)
             head == <<2, items[1], 0>>
             w    == head \o rest
  <1>4. /\ rest \in Seq(W) /\ Len(rest) = 3
        /\ \A i \in 1..3 : rest[i] = items[i + 1]
    <2>1. items # << >>
      OBVIOUS
    <2>2. /\ rest \in Seq(W) /\ Len(rest) = Len(items) - 1
          /\ \A i \in 1..Len(rest) : rest[i] = items[i + 1]
      BY <2>1, HeadTailProperties
    <2> HIDE DEF rest
    <2> QED  BY <2>2
  <1>5. head \in Seq(W) /\ Len(head) = 3 /\ head[1] = 2 /\ head[2] = items[1]
    BY <1>2, <1>3
  <1> HIDE DEF rest, head
  <1>6. w \in Seq(W) /\ Len(w) = 6
    <2>1. w \in Seq(W) /\ Len(w) = Len(head) + Len(rest)
      BY <1>4, <1>5, Join
    <2> HIDE DEF w
    <2> QED  BY <2>1, <1>4, <1>5
  <1>7. w[1] = 2 /\ w[2] = items[1]
    BY <1>4, <1>5, Join
  <1>8. \A i \in 1..3 : w[i + 3] = rest[i]
    <2>1. \A i \in 1..3 : w[3 + i] = rest[i]
      BY <1>4, <1>5, Join
    <2> HIDE DEF w
    <2> QED  BY <2>1
  <1> HIDE DEF w
  <1>9. <<w[2]>> \o SubSeq(w, 4, Len(w)) = items
    <2> DEFINE v == SubSeq(w, 4, 6)
               x == <<items[1]>>
               u == x \o v
    <2>1. v \in Seq(W) /\ Len(v) = 3 /\ \A i \in 1..3 : v[i] = w[4 + i - 1]
      <3>1. /\ v \in Seq(W) /\ Len(v) = 6 - 4 + 1
            /\ \A i \in 1..6 - 4 + 1 : v[i] = w[4 + i - 1]
        <4>1. 4 \in Nat /\ 6 \in Nat /\ 1 <= 4 /\ 4 <= 6 + 1 /\ 6 <= Len(w)
          BY <1>6
        <4> QED  BY <1>6, <4>1, Piece
      <3> HIDE DEF v
      <3> QED  BY <3>1
    <2> HIDE DEF v
    <2>2. \A i \in 1..3 : v[i] = items[i + 1]
      <3>1. ASSUME NEW i \in 1..3  PROVE v[i] = items[i + 1]
        <4>1. 4 + i - 1 = i + 3
          OBVIOUS
        <4> QED  BY <2>1, <1>4, <1>8, <4>1
      <3> QED  BY <3>1
    <2>3. x \in Seq(W) /\ Len(x) = 1 /\ x[1] = items[1]
      BY <1>3
    <2> HIDE DEF x
    <2>4. x \in Seq(W) /\ v \in Seq(W)
      BY <2>1, <2>3
    <2>5. u \in Seq(W) /\ Len(u) = 4 /\ u[1] = items[1]
      <3>1. u \in Seq(W) /\ Len(u) = Len(x) + Len(v)
        BY <2>4, Join
      <3>2. \A i \in 1..Len(x) : u[i] = x[i]
        BY <2>4, Join
      <3> HIDE DEF u
      <3> QED  BY <2>1, <2>3, <3>1, <3>2
    <2>6. \A i \in 1..3 : u[1 + i] = v[i]
      <3>1. \A i \in 1..Len(v) : u[Len(x) + i] = v[i]
        BY <2>4, Join
      <3> HIDE DEF u
      <3> QED  BY <2>1, <2>3, <3>1
    <2> HIDE DEF u
    <2>7. ASSUME NEW i \in 1..4  PROVE u[i] = items[i]
      <3>1. CASE i = 1
        BY <2>5, <3>1
      <3>2. CASE i # 1
        <4>1. i - 1 \in 1..3 /\ 1 + (i - 1) = i /\ (i - 1) + 1 = i
          BY <3>2
        <4> QED  BY <2>2, <2>6, <4>1
      <3> QED  BY <3>1, <3>2
    <2>8. u = items
      BY <2>5, <2>7, SeqEqual
    <2> QED  BY <1>6, <1>7, <2>8 DEF u, v, x
  <1>10. Items(12, w) = <<w[2]>> \o SubSeq(w, 4, Len(w))
    BY DEF Items
  <1>11. ValueSize(w, 1, 12) = 4 + w[1]
    <2>1. 1 <= Len(w)
      BY <1>6
    <2> QED  BY <2>1 DEF ValueSize
  <1>12. Value(w, 1, 12, Len(w))
    BY <1>6, <1>7, <1>11 DEF Value
  <1>13. Words(12, items) = w
    BY <1>1 DEF w, head, rest
  <1> QED  BY <1>6, <1>9, <1>10, <1>12, <1>13 DEF ReadsBack

LEMMA ScopeReadsBack ==
    ASSUME NEW W, Numbers(W), NEW items \in Seq(W), Len(items) = 1
    PROVE  ReadsBack(W, 15, items)
  <1>1. items[1] \in W
    OBVIOUS
  <1>2. 0 \in W /\ 2 \in W /\ 6 \in W /\ items[1] \in W
    BY <1>1 DEF Numbers
  <1> DEFINE w == <<6, 2, items[1], 0, 2, 0>>
  <1>3. Words(15, items) = w
    BY DEF Words
  <1>4. w \in Seq(W) /\ Len(w) = 6 /\ w[1] = 6 /\ w[3] = items[1]
    BY <1>2
  <1> HIDE DEF w
  <1>5. <<w[3]>> = items
    <2> DEFINE u == <<items[1]>>
    <2>1. u \in Seq(W) /\ Len(u) = 1 /\ u[1] = items[1]
      BY <1>2
    <2> HIDE DEF u
    <2>2. \A i \in 1..1 : u[i] = items[i]
      BY <2>1
    <2>3. u = items
      BY <2>1, <2>2, SeqEqual
    <2> QED  BY <1>4, <2>3 DEF u
  <1>6. Items(15, w) = <<w[3]>>
    BY DEF Items
  <1>7. ValueSize(w, 1, 15) = w[1]
    <2>1. 1 <= Len(w)
      BY <1>4
    <2> QED  BY <2>1 DEF ValueSize
  <1>8. Value(w, 1, 15, Len(w))
    BY <1>4, <1>7 DEF Value
  <1> QED  BY <1>3, <1>4, <1>5, <1>6, <1>8 DEF ReadsBack

LEMMA PlainWords ==
    ASSUME NEW items, NEW type, type \notin {2, 13, 14, 5, 11, 12, 15}
    PROVE  Words(type, items) = items /\ Items(type, items) = items
  <1>1. Words(type, items) = items
    BY DEF Words
  <1>2. Items(type, items) = items
    BY DEF Items
  <1> QED  BY <1>1, <1>2

LEMMA PlainReadsBack ==
    ASSUME NEW W, NEW items \in Seq(W), NEW type \in Fixed \cup {3, 4}, Consists(type, items)
    PROVE  ReadsBack(W, type, items)
  <1>1. type \notin {2, 13, 14, 5, 11, 12, 15}
    BY DEF Fixed
  <1>2. Words(type, items) = items
    BY <1>1, PlainWords
  <1>3. Items(type, items) = items
    BY <1>1, PlainWords
  <1>4. Len(items) \in Nat
    OBVIOUS
  <1>5. ValueSize(items, 1, type) = Len(items) /\ (type \in Measured => Len(items) >= 1)
    <2>1. CASE type \in {3, 4}
      <3>1. items[1] = Len(items) /\ 1 <= Len(items)
        BY <1>4, <2>1 DEF Consists
      <3>2. ValueSize(items, 1, type) = items[1]
        BY <2>1, <3>1 DEF ValueSize
      <3> QED  BY <3>1, <3>2
    <2>2. CASE type \in Fixed
      <3>1. type \notin Measured
        BY <2>2 DEF Fixed, Measured
      <3>2. ValueSize(items, 1, type) = Len(items)
        <4>1. /\ ValueSize(items, 1, 8) = 1 /\ ValueSize(items, 1, 16) = 1
              /\ ValueSize(items, 1, 1) = 2 /\ ValueSize(items, 1, 9) = 2
              /\ ValueSize(items, 1, 17) = 2 /\ ValueSize(items, 1, 18) = 2
          BY FixedSizes
        <4>2. CASE type \in {6, 10, 127, 255}
          BY <4>2, FixedSizes DEF Consists
        <4>3. CASE type \in {8, 16}
          BY <4>1, <4>3 DEF Consists
        <4>4. CASE type \in {1, 9, 17, 18}
          BY <4>1, <4>4 DEF Consists
        <4>5. CASE type = 7
          BY <4>5, FixedSizes DEF Consists
        <4>6. CASE type = 19
          BY <4>6, FixedSizes DEF Consists
        <4> QED  BY <2>2, <4>2, <4>3, <4>4, <4>5, <4>6 DEF Fixed
      <3> QED  BY <3>1, <3>2
    <2> QED  BY <2>1, <2>2
  <1>6. Value(items, 1, type, Len(items))
    BY <1>4, <1>5 DEF Value
  <1> QED  BY <1>2, <1>3, <1>6 DEF ReadsBack

\* A value of any type takes the words that ReadElement finds it to take, and
\* what is read from them is what they were written from (bsoncore's appenders).
THEOREM ValuesReadBack ==
    ASSUME NEW W, Numbers(W), NEW items \in Seq(W), NEW type \in Measured \cup Fixed,
           Consists(type, items)
    PROVE  ReadsBack(W, type, items)
  <1>1. CASE type \in {2, 13, 14}
    BY <1>1, StringReadsBack
  <1>2. CASE type = 5
    BY <1>2, BinaryReadsBack DEF Consists
  <1>3. CASE type = 11
    BY <1>3, RegexReadsBack DEF Consists
  <1>4. CASE type = 12
    BY <1>4, PointerReadsBack DEF Consists
  <1>5. CASE type = 15
    BY <1>5, ScopeReadsBack DEF Consists
  <1>6. CASE type \in Fixed \cup {3, 4}
    BY <1>6, PlainReadsBack
  <1>7. \/ type \in {2, 13, 14} \/ type = 5 \/ type = 11 \/ type = 12 \/ type = 15
        \/ type \in Fixed \cup {3, 4}
    BY DEF Measured
  <1> QED  BY <1>1, <1>2, <1>3, <1>4, <1>5, <1>6, <1>7

\* After a replacement the element has its old key and the new type and value,
\* whatever stood behind it (replaceElement).
THEOREM ReplacementReadsBack ==
    ASSUME NEW W, Numbers(W), NEW buf \in Seq(W), NEW pos, NEW size, Within(buf, pos, size),
           NEW type \in W, NEW words \in Seq(W), Value(words, 1, type, Len(words))
    PROVE  LET r == resized(buf, replaceElement(buf, [type |-> type, words |-> words], pos, size))
           IN /\ r.raw[pos + 1] = buf[pos + 1]
              /\ ValueAt(r.raw, pos) = [type |-> type, words |-> words]
              /\ Element(r.raw, pos) /\ ElementSize(r.raw, pos) = 2 + Len(words)
  <1> DEFINE r     == resized(buf, replaceElement(buf, [type |-> type, words |-> words], pos, size))
             out   == r.raw
             added == r.added
             n     == Len(words)
  <1> HIDE DEF r
  <1>1. /\ Spliced(W, buf, pos, size, out, added) /\ added = n + 2 - size
        /\ out[pos] = type /\ out[pos + 1] = buf[pos + 1]
        /\ \A i \in 1..n : out[pos + 1 + i] = words[i]
    BY ReplaceSplices DEF r
  <1> HIDE DEF out, added
  <1>2. /\ pos \in Nat /\ 2 <= pos /\ size \in Nat /\ pos + size <= Len(buf) /\ Len(buf) \in Nat
        /\ n \in Nat
    BY DEF Within
  <1>3. out \in Seq(W) /\ Len(out) = Len(buf) + added
    BY <1>1 DEF Spliced
  <1> DEFINE at == pos + 2
  <1>4. Room(out, at, n)
    BY <1>1, <1>2, <1>3 DEF Room
  <1>5. SameWords(words, 1, out, at, n)
    <2>1. ASSUME NEW k \in 0..n - 1  PROVE out[at + k] = words[1 + k]
      <3>1. 1 + k \in 1..n /\ pos + 1 + (1 + k) = at + k
        BY <1>2
      <3> HIDE DEF at, n
      <3>2. out[pos + 1 + (1 + k)] = words[1 + k]
        BY <1>1, <3>1
      <3> QED  BY <3>1, <3>2
    <2> QED  BY <2>1 DEF SameWords
  <1>6. ElementSize(out, pos) = 2 + n /\ Element(out, pos)
    <2> HIDE DEF at
    <2>1. ValueSize(out, at, type) = n
      BY <1>4, <1>5, SameSize
    <2>2. pos + 2 + n <= Len(out) + 1
      BY <1>1, <1>2, <1>3
    <2>3. type \in Measured => n >= 1
      BY DEF Value
    <2>4. ElementSize(out, pos) = 2 + n
      BY <1>1, <2>1 DEF ElementSize, at
    <2>5. Element(out, pos)
      BY <1>1, <1>2, <2>1, <2>2, <2>3 DEF Element, at
    <2> QED  BY <2>4, <2>5
  <1>7. SubSeq(out, pos + 2, pos + 1 + n) = words
    <2> DEFINE t == SubSeq(out, pos + 2, pos + 1 + n)
    <2>1. added = n + 2 - size /\ Len(out) = Len(buf) + added
      BY <1>1, <1>3
    <2>2. /\ pos + 2 \in Nat /\ pos + 1 + n \in Nat /\ 1 <= pos + 2 /\ pos + 2 <= (pos + 1 + n) + 1
          /\ pos + 1 + n <= Len(out) /\ (pos + 1 + n) - (pos + 2) + 1 = n
      BY ONLY <1>2, <2>1
    <2>3. /\ t \in Seq(W) /\ Len(t) = (pos + 1 + n) - (pos + 2) + 1
          /\ \A i \in 1..(pos + 1 + n) - (pos + 2) + 1 : t[i] = out[pos + 2 + i - 1]
      BY ONLY <1>3, <2>2, Piece DEF t
    <2> HIDE DEF t
    <2>4. ASSUME NEW i \in 1..n  PROVE t[i] = words[i]
      <3>1. pos + 2 + i - 1 = pos + 1 + i
        BY <1>2
      <3> QED  BY <1>1, <2>2, <2>3, <3>1
    <2>5. t = words
      BY <2>2, <2>3, <2>4, SeqEqual
    <2> QED  BY <2>5 DEF t
  <1>8. pos + ElementSize(out, pos) - 1 = pos + 1 + n
    BY <1>2, <1>6
  <1>9. ValueAt(out, pos) = [type |-> type, words |-> words]
    BY <1>1, <1>7, <1>8 DEF ValueAt
  <1> QED  BY <1>1, <1>6, <1>9 DEF out, r, n

-----------------------------------------------------------------------------
\* What is true of 0, and of the number after each it is true of, is true of all up to m.
LEMMA GoesOn ==
    ASSUME NEW m \in Nat, NEW S, 0 \in S, \A n \in 0..m : n < m /\ n \in S => n + 1 \in S
    PROVE  0..m \subseteq S
  <1> DEFINE T == {n \in Nat : n <= m /\ n \notin S}
  <1> SUFFICES ASSUME T # {}  PROVE FALSE
    OBVIOUS
  <1>1. PICK least \in T : \A j \in T : least <= j
    <2>1. T \in SUBSET Nat
      OBVIOUS
    <2> HIDE DEF T
    <2> QED  BY <2>1, LeastNat
  <1>2. least \in Nat /\ least # 0 /\ least <= m /\ least - 1 \in Nat /\ least - 1 \notin T
    BY <1>1
  <1>3. least - 1 \in 0..m /\ least - 1 < m /\ least - 1 \in S /\ (least - 1) + 1 = least
    BY <1>2
  <1>4. least \in S
    BY <1>3
  <1> QED  BY <1>1, <1>4

-----------------------------------------------------------------------------
\* The loop over the elements begins at the first and goes on from each to the next.
LEMMA LoopLaws ==
    ASSUME NEW buf, Len(buf) \in Nat, NEW keys
    PROVE  /\ Loop(buf, keys)[0] = 2
           /\ \A n \in 1..Len(buf) \div 2 :
                 Loop(buf, keys)[n] = Onward(buf, keys, Loop(buf, keys)[n - 1])
  <1> DEFINE m         == Len(buf) \div 2
             On(p)     == Onward(buf, keys, p)
             Body(g)   == [n \in 0..m |-> IF n = 0 THEN 2 ELSE On(g[n - 1])]
             loop      == CHOOSE g : g = Body(g)
             Steps(n, g) == g[0] = 2 /\ \A k \in 1..n : g[k] = On(g[k - 1])
             Has(n)    == \E g : Steps(n, g)
  <1>1. m \in Nat
    OBVIOUS
  <1>2. Loop(buf, keys) = loop
    BY Zenon DEF Loop
  <1> HIDE DEF m, On
  <1>3. Has(0)
    <2>1. Steps(0, [k \in {0} |-> 2])
      OBVIOUS
    <2> HIDE DEF Steps
    <2> QED  BY <2>1
  <1>4. ASSUME NEW n \in Nat, Has(n)  PROVE Has(n + 1)
    <2>1. PICK g : Steps(n, g)
      BY <1>4
    <2> DEFINE h == [k \in 0..n + 1 |-> IF k = n + 1 THEN On(g[n]) ELSE g[k]]
    <2>2. h[0] = 2
      BY <2>1
    <2>3. ASSUME NEW k \in 1..n + 1  PROVE h[k] = On(h[k - 1])
      <3>1. CASE k = n + 1
        BY <3>1
      <3>2. CASE k \in 1..n
        BY <2>1, <3>2
      <3> QED  BY <3>1, <3>2
    <2> HIDE DEF h
    <2>4. Steps(n + 1, h)
      BY <2>2, <2>3
    <2> HIDE DEF Steps
    <2> QED  BY <2>4
  <1>5. Has(m)
    <2> HIDE DEF Has
    <2> DEFINE S == {n \in 0..m : Has(n)}
    <2>1. 0 \in S
      BY <1>1, <1>3
    <2>2. ASSUME NEW n \in 0..m, n < m, n \in S  PROVE n + 1 \in S
      BY <1>1, <1>4, <2>2
    <2>3. 0..m \subseteq S
      <3> HIDE DEF S
      <3> QED  BY <1>1, <2>1, <2>2, GoesOn
    <2> QED  BY <1>1, <2>3
  <1>6. \E f : f = Body(f)
    <2>1. PICK g : Steps(m, g)
      BY <1>5
    <2> DEFINE f == [k \in 0..m |-> g[k]]
    <2>2. f = Body(f)
      BY <1>1, <2>1
    <2> HIDE DEF f, Body
    <2> QED  BY <2>2
  <1>7. loop = Body(loop)
    <2> HIDE DEF Body
    <2> QED  BY <1>6, Zenon
  <1>8. \A n \in 0..m : loop[n] = IF n = 0 THEN 2 ELSE On(loop[n - 1])
    <2>1. \A g : \A n \in 0..m : Body(g)[n] = IF n = 0 THEN 2 ELSE On(g[n - 1])
      OBVIOUS
    <2> HIDE DEF Body, loop
    <2> QED  BY <1>7, <2>1, Zenon
  <1> HIDE DEF loop
  <1>9. loop[0] = 2 /\ \A n \in 1..m : loop[n] = On(loop[n - 1])
    BY <1>1, <1>8
  <1> QED  BY <1>2, <1>9 DEF m, On

\* Each buffer that the recursion goes down with is what is left of the one before.
LEMMA DownLaws ==
    ASSUME NEW buf, NEW pointer, NEW n \in Nat
    PROVE  LET down == Down(buf, pointer, n)
           IN /\ down[0] = buf
              /\ \A k \in 1..n : down[k] = From(down[k - 1], Match(down[k - 1], pointer[k]))
  <1> DEFINE Into(b, k) == From(b, Match(b, pointer[k]))
             Body(g)    == [k \in 0..n |-> IF k = 0 THEN buf ELSE Into(g[k - 1], k)]
             down       == CHOOSE g : g = Body(g)
             Steps(m, g) == g[0] = buf /\ \A k \in 1..m : g[k] = Into(g[k - 1], k)
             Has(m)     == \E g : Steps(m, g)
  <1>1. Down(buf, pointer, n) = down
    BY Zenon DEF Down
  <1> HIDE DEF Into
  <1>2. Has(0)
    <2>1. Steps(0, [k \in {0} |-> buf])
      OBVIOUS
    <2> HIDE DEF Steps
    <2> QED  BY <2>1
  <1>3. ASSUME NEW m \in Nat, Has(m)  PROVE Has(m + 1)
    <2>1. PICK g : Steps(m, g)
      BY <1>3
    <2> DEFINE h == [k \in 0..m + 1 |-> IF k = m + 1 THEN Into(g[m], m + 1) ELSE g[k]]
    <2>2. h[0] = buf
      BY <2>1
    <2>3. ASSUME NEW k \in 1..m + 1  PROVE h[k] = Into(h[k - 1], k)
      <3>1. CASE k = m + 1
        BY <3>1
      <3>2. CASE k \in 1..m
        BY <2>1, <3>2
      <3> QED  BY <3>1, <3>2
    <2> HIDE DEF h
    <2>4. Steps(m + 1, h)
      BY <2>2, <2>3
    <2> HIDE DEF Steps
    <2> QED  BY <2>4
  <1>4. Has(n)
    <2> HIDE DEF Has
    <2> DEFINE S == {m \in 0..n : Has(m)}
    <2>1. 0 \in S
      BY <1>2
    <2>2. ASSUME NEW m \in 0..n, m < n, m \in S  PROVE m + 1 \in S
      BY <1>3, <2>2
    <2>3. 0..n \subseteq S
      <3> HIDE DEF S
      <3> QED  BY <2>1, <2>2, GoesOn
    <2> QED  BY <2>3
  <1>5. \E f : f = Body(f)
    <2>1. PICK g : Steps(n, g)
      BY <1>4
    <2> DEFINE f == [k \in 0..n |-> g[k]]
    <2>2. f = Body(f)
      BY <2>1
    <2> HIDE DEF f, Body
    <2> QED  BY <2>2
  <1>6. down = Body(down)
    <2> HIDE DEF Body
    <2> QED  BY <1>5, Zenon
  <1>7. \A k \in 0..n : down[k] = IF k = 0 THEN buf ELSE Into(down[k - 1], k)
    <2>1. \A g : \A k \in 0..n : Body(g)[k] = IF k = 0 THEN buf ELSE Into(g[k - 1], k)
      OBVIOUS
    <2> HIDE DEF Body, down
    <2> QED  BY <1>6, <2>1, Zenon
  <1> HIDE DEF down
  <1>8. down[0] = buf /\ \A k \in 1..n : down[k] = Into(down[k - 1], k)
    BY <1>7
  <1> QED  BY <1>1, <1>8 DEF Into

\* Each call returns what it makes of what the one below has returned.
LEMMA UpLaws ==
    ASSUME NEW down, NEW new, NEW pointer, NEW n \in Nat
    PROVE  LET up == Up(down, new, pointer, n)
           IN /\ up[n] = editMatchingElement(down[n], new, pointer[n + 1], 0, Nothing)
              /\ \A k \in 0..n : k < n =>
                    up[k] = editMatchingElement(down[k], new, pointer[k + 1], n - k, up[k + 1])
  <1> DEFINE EditAt(k, r) == editMatchingElement(down[k], new, pointer[k + 1], n - k, r)
             Body(g) == [k \in 0..n |-> EditAt(k, IF k = n THEN Nothing ELSE g[k + 1])]
             up      == CHOOSE g : g = Body(g)
             Steps(m, g) == /\ g[n] = EditAt(n, Nothing)
                            /\ \A k \in n - m..n : k < n => g[k] = EditAt(k, g[k + 1])
             Has(m)  == \E g : Steps(m, g)
  <1>1. Up(down, new, pointer, n) = up
    BY Zenon DEF Up
  <1> HIDE DEF EditAt
  <1>2. Has(0)
    <2>1. Steps(0, [k \in {n} |-> EditAt(n, Nothing)])
      OBVIOUS
    <2> HIDE DEF Steps
    <2> QED  BY <2>1
  <1>3. ASSUME NEW m \in Nat, Has(m)  PROVE Has(m + 1)
    <2>1. PICK g : Steps(m, g)
      BY <1>3
    <2> DEFINE first == n - (m + 1)
               h == [k \in first..n |-> IF k = first THEN EditAt(first, g[first + 1]) ELSE g[k]]
    <2>2. first \in Int /\ first + 1 = n - m /\ first < n
      OBVIOUS
    <2> HIDE DEF first
    <2>3. h[n] = EditAt(n, Nothing)
      BY <2>1, <2>2
    <2>4. ASSUME NEW k \in first..n, k < n  PROVE h[k] = EditAt(k, h[k + 1])
      <3>1. k + 1 \in first..n /\ k + 1 # first
        BY <2>2, <2>4
      <3>2. h[k + 1] = g[k + 1]
        BY <3>1
      <3>3. CASE k = first
        BY <3>2, <3>3, <2>2
      <3>4. CASE k # first
        <4>1. k \in n - m..n /\ h[k] = g[k]
          BY <2>2, <3>4
        <4> QED  BY <2>1, <2>4, <3>2, <4>1
      <3> QED  BY <3>3, <3>4
    <2> HIDE DEF h
    <2>5. Steps(m + 1, h)
      BY <2>3, <2>4 DEF first
    <2> HIDE DEF Steps
    <2> QED  BY <2>5
  <1>4. Has(n)
    <2> HIDE DEF Has
    <2> DEFINE S == {m \in 0..n : Has(m)}
    <2>1. 0 \in S
      BY <1>2
    <2>2. ASSUME NEW m \in 0..n, m < n, m \in S  PROVE m + 1 \in S
      BY <1>3, <2>2
    <2>3. 0..n \subseteq S
      <3> HIDE DEF S
      <3> QED  BY <2>1, <2>2, GoesOn
    <2> QED  BY <2>3
  <1>5. \E f : f = Body(f)
    <2>1. PICK g : Steps(n, g)
      BY <1>4
    <2> DEFINE f == [k \in 0..n |-> g[k]]
    <2>2. f[n] = EditAt(n, Nothing)
      BY <2>1
    <2>3. \A k \in 0..n : k < n => f[k] = EditAt(k, f[k + 1])
      BY <2>1
    <2>4. ASSUME NEW k \in 0..n
          PROVE  f[k] = EditAt(k, IF k = n THEN Nothing ELSE f[k + 1])
      BY <2>2, <2>3
    <2>5. f = Body(f)
      BY <2>4
    <2> HIDE DEF f, Body
    <2> QED  BY <2>5
  <1>6. up = Body(up)
    <2> HIDE DEF Body
    <2> QED  BY <1>5, Zenon
  <1>7. \A k \in 0..n : up[k] = EditAt(k, IF k = n THEN Nothing ELSE up[k + 1])
    <2>1. \A g : \A k \in 0..n :
             Body(g)[k] = EditAt(k, IF k = n THEN Nothing ELSE g[k + 1])
      OBVIOUS
    <2> HIDE DEF Body, up
    <2> QED  BY <1>6, <2>1, Zenon
  <1> HIDE DEF up
  <1>8. up[n] = EditAt(n, Nothing) /\ \A k \in 0..n : k < n => up[k] = EditAt(k, up[k + 1])
    BY <1>7
  <1>9. n - n = 0
    OBVIOUS
  <1> QED  BY <1>1, <1>8, <1>9 DEF EditAt

-----------------------------------------------------------------------------
\* A set that the first place is in, and with a place the next, has all places.
LEMMA PlacesIn ==
    ASSUME NEW buf, Len(buf) \in Nat, NEW keys, NEW P, 2 \in P,
           \A p \in P : ~Stops(buf, keys, p) => p + ElementSize(buf, p) \in P
    PROVE  \A n \in 0..Len(buf) \div 2 : Loop(buf, keys)[n] \in P
  <1> DEFINE m    == Len(buf) \div 2
             loop == Loop(buf, keys)
             S    == {n \in 0..m : loop[n] \in P}
  <1>1. m \in Nat
    OBVIOUS
  <1>2. loop[0] = 2 /\ \A n \in 1..m : loop[n] = Onward(buf, keys, loop[n - 1])
    BY LoopLaws
  <1> HIDE DEF m, loop
  <1>3. 0 \in S
    BY <1>1, <1>2
  <1>4. ASSUME NEW n \in 0..m, n < m, n \in S  PROVE n + 1 \in S
    <2>1. n + 1 \in 1..m /\ (n + 1) - 1 = n
      BY <1>1, <1>4
    <2>2. loop[n + 1] = Onward(buf, keys, loop[n])
      BY <1>2, <2>1
    <2>3. loop[n] \in P
      BY <1>4
    <2>4. loop[n + 1] \in P
      BY <2>2, <2>3 DEF Onward
    <2> QED  BY <2>1, <2>4
  <1>5. 0..m \subseteq S
    <2> HIDE DEF S
    <2> QED  BY <1>1, <1>3, <1>4, GoesOn
  <1> QED  BY <1>5 DEF m, loop

\* Each place that is not the last is an element, of two words at least.
LEMMA ElementSizes ==
    ASSUME NEW doc, NEW p, Element(doc, p)
    PROVE  p \in Nat /\ 2 <= p /\ ElementSize(doc, p) \in Nat /\ 2 <= ElementSize(doc, p)
  BY DEF Element, ElementSize

\* The loop comes to an end within as many elements as the buffer has room for.
LEMMA LoopStops ==
    ASSUME NEW buf, Len(buf) \in Nat, buf[1] \in Int, buf[1] <= Len(buf), NEW keys
    PROVE  LET p == Loop(buf, keys)[Len(buf) \div 2]
           IN p \in Nat /\ 2 <= p /\ Stops(buf, keys, p)
  <1> DEFINE m    == Len(buf) \div 2
             loop == Loop(buf, keys)
             Far(n) == /\ loop[n] \in Nat /\ 2 <= loop[n]
                       /\ Stops(buf, keys, loop[n]) \/ loop[n] >= 2 + 2 * n
             S    == {n \in 0..m : Far(n)}
  <1>1. m \in Nat /\ 2 + 2 * m > Len(buf)
    OBVIOUS
  <1>2. loop[0] = 2 /\ \A n \in 1..m : loop[n] = Onward(buf, keys, loop[n - 1])
    BY LoopLaws
  <1> HIDE DEF m, loop
  <1>3. 0 \in S
    BY <1>1, <1>2
  <1>4. ASSUME NEW n \in 0..m, n < m, n \in S  PROVE n + 1 \in S
    <2>1. n + 1 \in 1..m /\ (n + 1) - 1 = n
      BY <1>1, <1>4
    <2>2. loop[n + 1] = Onward(buf, keys, loop[n])
      BY <1>2, <2>1
    <2>3. Far(n)
      BY <1>4
    <2>4. CASE Stops(buf, keys, loop[n])
      <3>1. loop[n + 1] = loop[n]
        BY <2>2, <2>4 DEF Onward
      <3> QED  BY <2>1, <2>3, <2>4, <3>1
    <2>5. CASE ~Stops(buf, keys, loop[n])
      <3>1. loop[n + 1] = loop[n] + ElementSize(buf, loop[n])
        BY <2>2, <2>5 DEF Onward
      <3>2. Element(buf, loop[n])
        BY <2>5 DEF Stops
      <3>3. ElementSize(buf, loop[n]) \in Nat /\ 2 <= ElementSize(buf, loop[n])
        BY <3>2, ElementSizes
      <3>4. loop[n] \in Nat /\ loop[n] >= 2 + 2 * n
        BY <2>3, <2>5
      <3>5. loop[n + 1] \in Nat /\ loop[n + 1] >= 2 + 2 * (n + 1)
        BY <3>1, <3>3, <3>4
      <3> QED  BY <2>1, <3>5
    <2> QED  BY <2>4, <2>5
  <1>5. 0..m \subseteq S
    <2> HIDE DEF S
    <2> QED  BY <1>1, <1>3, <1>4, GoesOn
  <1>6. Far(m)
    BY <1>1, <1>5
  <1>7. Stops(buf, keys, loop[m])
    <2> SUFFICES ASSUME loop[m] >= 2 + 2 * m  PROVE Stops(buf, keys, loop[m])
      BY <1>6
    <2>1. loop[m] >= buf[1]
      BY <1>1, <1>6
    <2> QED  BY <2>1 DEF Stops
  <1> QED  BY <1>6, <1>7 DEF m, loop

\* Of two places the later is not within the element at the earlier.
LEMMA PlacesInOrder ==
    ASSUME NEW buf, Len(buf) \in Nat, NEW i \in 0..Len(buf) \div 2, NEW j \in 0..Len(buf) \div 2,
           Loop(buf, {})[i] < Loop(buf, {})[j], Loop(buf, {})[i] \in Nat, Loop(buf, {})[j] \in Nat
    PROVE  Loop(buf, {})[i] + ElementSize(buf, Loop(buf, {})[i]) <= Loop(buf, {})[j]
  <1> DEFINE m    == Len(buf) \div 2
             loop == Loop(buf, {})
             Behind(a, b) ==
                \/ b = a
                \/ Element(buf, a) /\ b \in Nat /\ a + ElementSize(buf, a) <= b
  <1>1. m \in Nat
    OBVIOUS
  <1>2. \A n \in 1..m : loop[n] = Onward(buf, {}, loop[n - 1])
    BY LoopLaws
  <1> HIDE DEF m, loop
  <1>3. ASSUME NEW a \in 0..m  PROVE \A d \in 0..m - a : Behind(loop[a], loop[a + d])
    <2> DEFINE S == {d \in 0..m - a : Behind(loop[a], loop[a + d])}
    <2>1. 0 \in S
      <3>1. a + 0 = a /\ 0 \in 0..m - a
        BY <1>1
      <3> QED  BY <3>1
    <2>2. ASSUME NEW d \in 0..m - a, d < m - a, d \in S  PROVE d + 1 \in S
      <3>1. a + d + 1 \in 1..m /\ (a + d + 1) - 1 = a + d /\ d + 1 \in 0..m - a /\ a + (d + 1) = a + d + 1
        BY <1>1, <2>2
      <3>2. loop[a + d + 1] = Onward(buf, {}, loop[a + d])
        BY <1>2, <3>1
      <3>3. Behind(loop[a], loop[a + d])
        BY <2>2
      <3>4. CASE Stops(buf, {}, loop[a + d])
        BY <3>1, <3>2, <3>3, <3>4 DEF Onward
      <3>5. CASE ~Stops(buf, {}, loop[a + d])
        <4>1. loop[a + d + 1] = loop[a + d] + ElementSize(buf, loop[a + d])
          BY <3>2, <3>5 DEF Onward
        <4>2. Element(buf, loop[a + d])
          BY <3>5 DEF Stops
        <4>3. /\ loop[a + d] \in Nat /\ ElementSize(buf, loop[a + d]) \in Nat
              /\ 2 <= ElementSize(buf, loop[a + d])
          BY <4>2, ElementSizes
        <4>4. CASE loop[a + d] = loop[a]
          <5>1. Behind(loop[a], loop[a + d + 1])
            BY <4>1, <4>2, <4>3, <4>4
          <5> QED  BY <3>1, <5>1
        <4>5. CASE Element(buf, loop[a]) /\ loop[a] + ElementSize(buf, loop[a]) <= loop[a + d]
          <5>1. loop[a] \in Nat /\ ElementSize(buf, loop[a]) \in Nat
            BY <4>5, ElementSizes
          <5>2. loop[a] + ElementSize(buf, loop[a]) <= loop[a + d + 1] /\ loop[a + d + 1] \in Nat
            BY ONLY <4>1, <4>3, <4>5, <5>1
          <5>3. Behind(loop[a], loop[a + d + 1])
            BY <4>5, <5>2
          <5> QED  BY <3>1, <5>3
        <4> QED  BY <3>3, <4>4, <4>5
      <3> QED  BY <3>4, <3>5
    <2>3. m - a \in Nat
      BY <1>1
    <2>4. 0..m - a \subseteq S
      <3> HIDE DEF S
      <3> QED  BY <2>1, <2>2, <2>3, GoesOn
    <2> QED  BY <2>4
  <1>4. i \in 0..m /\ j \in 0..m /\ loop[i] < loop[j] /\ loop[i] \in Nat /\ loop[j] \in Nat
    BY DEF m, loop
  <1>5. CASE i <= j
    <2>1. j - i \in 0..m - i /\ i + (j - i) = j
      BY <1>1, <1>4, <1>5
    <2>2. Behind(loop[i], loop[i + (j - i)])
      BY <1>3, <1>4, <2>1
    <2>3. Behind(loop[i], loop[j])
      BY <2>1, <2>2
    <2> QED  BY <1>4, <2>3 DEF loop
  <1>6. CASE j < i
    <2>1. i - j \in 0..m - j /\ j + (i - j) = i
      BY <1>1, <1>4, <1>6
    <2>2. Behind(loop[j], loop[j + (i - j)])
      BY <1>3, <1>4, <2>1
    <2>3. Behind(loop[j], loop[i])
      BY <2>1, <2>2
    <2>4. Element(buf, loop[j]) => ElementSize(buf, loop[j]) \in Nat
      BY ElementSizes
    <2> QED  BY <1>4, <2>3, <2>4
  <1> QED  BY <1>4, <1>5, <1>6

-----------------------------------------------------------------------------
\* Documents that can all be read, with what is embedded in them.
Sound(docs) == docs \subseteq Seq(Int) /\ \A d \in docs : Reads(d, docs)

\* In a document that can be read every place but the last is that of an element,
\* which ends where the next begins.
LEMMA PlacesOf ==
    ASSUME NEW docs, NEW doc \in Seq(Int), Reads(doc, docs)
    PROVE  /\ 2 \in Places(doc)
           /\ \A p \in Places(doc) :
                 /\ p \in Nat /\ 2 <= p /\ p <= Len(doc)
                 /\ p # Len(doc) => /\ Element(doc, p)
                                    /\ p + ElementSize(doc, p) \in Places(doc)
                                    /\ p + ElementSize(doc, p) <= Len(doc)
                                    /\ Container(doc[p]) => ValueAt(doc, p).words \in docs
           /\ \A p, q \in Places(doc) : p < q => p + ElementSize(doc, p) <= q
  <1> DEFINE m    == Len(doc) \div 2
             loop == Loop(doc, {})
             Good(p) == Element(doc, p) /\ p + ElementSize(doc, p) <= Len(doc)
  <1>1. Len(doc) \in Nat /\ Len(doc) >= 2 /\ doc[1] = Len(doc) /\ m \in Nat /\ 2 + 2 * m > Len(doc)
    BY DEF Reads
  <1>2. loop[0] = 2 /\ \A n \in 1..m : loop[n] = Onward(doc, {}, loop[n - 1])
    BY <1>1, LoopLaws
  <1>3. /\ Places(doc) = {loop[n] : n \in 0..m}
        /\ \A n \in 0..m : loop[n] \in Places(doc)
    BY DEF Places
  <1>4. \A p \in Places(doc) : p # Len(doc) => Good(p) /\ (Container(doc[p]) => ValueAt(doc, p).words \in docs)
    BY DEF Reads
  <1>5. Stops(doc, {}, loop[m])
    BY <1>1, LoopStops
  <1> HIDE DEF loop, m, Good
  <1>6. 2 \in Places(doc)
    BY <1>1, <1>2, <1>3
  <1>7. ASSUME NEW p \in Places(doc), p # Len(doc)
        PROVE  /\ p \in Nat /\ 2 <= p /\ p < Len(doc) /\ ~Stops(doc, {}, p)
               /\ ElementSize(doc, p) \in Nat
    <2>1. Good(p)
      BY <1>4, <1>7
    <2>2. /\ p \in Nat /\ 2 <= p /\ ElementSize(doc, p) \in Nat /\ 2 <= ElementSize(doc, p)
          /\ p + ElementSize(doc, p) <= Len(doc)
      BY <2>1, ElementSizes DEF Good
    <2> QED  BY <1>1, <2>1, <2>2 DEF Stops, Good
  <1>8. ASSUME NEW p \in Places(doc), p # Len(doc)
        PROVE  p + ElementSize(doc, p) \in Places(doc)
    <2>1. PICK n \in 0..m : p = loop[n]
      BY <1>3
    <2>2. n # m
      BY <1>5, <1>7, <1>8, <2>1
    <2>3. n + 1 \in 1..m /\ n + 1 \in 0..m /\ (n + 1) - 1 = n
      BY <1>1, <2>2
    <2>4. loop[n + 1] = p + ElementSize(doc, p)
      BY <1>2, <1>7, <1>8, <2>1, <2>3 DEF Onward
    <2> QED  BY <1>3, <2>3, <2>4
  <1>9. ASSUME NEW p \in Places(doc)
        PROVE  p \in Nat /\ 2 <= p /\ p <= Len(doc)
    BY <1>1, <1>7
  <1>10. ASSUME NEW p \in Places(doc), NEW q \in Places(doc), p < q
         PROVE  p + ElementSize(doc, p) <= q
    <2>1. PICK i \in 0..m : p = loop[i]
      BY <1>3
    <2>2. PICK j \in 0..m : q = loop[j]
      BY <1>3
    <2>3. p \in Nat /\ q \in Nat
      BY <1>9
    <2> QED  BY <1>1, <1>10, <2>1, <2>2, <2>3, PlacesInOrder DEF loop, m
  <1> QED  BY <1>4, <1>6, <1>8, <1>9, <1>10 DEF Good

\* P is a chain of elements from the first place of a document to its zero.
Chain(doc, P, docs) ==
    /\ Len(doc) >= 2 /\ doc[1] = Len(doc) /\ doc[Len(doc)] = 0
    /\ 2 \in P
    /\ \A p \in P : p # Len(doc) => /\ Element(doc, p) /\ p + ElementSize(doc, p) \in P
                                    /\ p + ElementSize(doc, p) <= Len(doc)
                                    /\ Container(doc[p]) => ValueAt(doc, p).words \in docs

\* A document with such a chain can be read, and has no other places.
LEMMA ChainReads ==
    ASSUME NEW docs, NEW doc \in Seq(Int), NEW P, Chain(doc, P, docs)
    PROVE  Reads(doc, docs) /\ Places(doc) \subseteq P
  <1>1. Len(doc) \in Nat
    OBVIOUS
  <1>2. \A p \in P : ~Stops(doc, {}, p) => p + ElementSize(doc, p) \in P
    BY DEF Stops, Chain
  <1>3. \A n \in 0..Len(doc) \div 2 : Loop(doc, {})[n] \in P
    BY <1>1, <1>2, PlacesIn DEF Chain
  <1>4. Places(doc) \subseteq P
    BY <1>3 DEF Places
  <1> QED  BY <1>4 DEF Reads, Chain

\* It has all of them if the elements of the chain are one behind the other.
LEMMA ChainPlaces ==
    ASSUME NEW docs, NEW doc \in Seq(Int), NEW P, Chain(doc, P, docs),
           \A p \in P : p \in Nat /\ p <= Len(doc),
           \A p, q \in P : p < q => p + ElementSize(doc, p) <= q
    PROVE  Places(doc) = P
  <1>1. Reads(doc, docs) /\ Places(doc) \subseteq P
    BY ChainReads
  <1>2. /\ 2 \in Places(doc)
        /\ \A p \in Places(doc) :
              p # Len(doc) => Element(doc, p) /\ p + ElementSize(doc, p) \in Places(doc)
    BY <1>1, PlacesOf
  <1>3. ASSUME NEW p \in P, p \notin Places(doc)  PROVE FALSE
    <2> DEFINE Behind == {p - r : r \in {q \in Places(doc) : q < p}}
    <2>1. p \in Nat /\ p <= Len(doc) /\ Len(doc) \in Nat
      OBVIOUS
    <2>2. Behind \in SUBSET Nat
      <3>1. ASSUME NEW r \in Places(doc), r < p  PROVE p - r \in Nat
        <4>1. r \in Nat
          BY <1>1
        <4> QED  BY <2>1, <3>1, <4>1
      <3> QED  BY <3>1
    <2>3. Behind # {}
      <3>1. p > 2
        <4>1. CASE p = Len(doc)
          BY <1>2, <1>3, <4>1 DEF Chain
        <4>2. CASE p # Len(doc)
          <5>1. Element(doc, p)
            BY <4>2 DEF Chain
          <5>2. p # 2
            BY <1>2, <1>3
          <5> QED  BY <5>1, <5>2, ElementSizes
        <4> QED  BY <4>1, <4>2
      <3> QED  BY <1>2, <3>1
    <2>4. \E r \in Places(doc) : r < p /\ \A q \in Places(doc) : q < p => p - r <= p - q
      <3>1. PICK least \in Behind : \A j \in Behind : least <= j
        <4> HIDE DEF Behind
        <4> QED  BY <2>2, <2>3, LeastNat
      <3> QED  BY <3>1
    <2> HIDE DEF Behind
    <2>5. PICK r \in Places(doc) : r < p /\ \A q \in Places(doc) : q < p => p - r <= p - q
      BY <2>4
    <2>6. r \in P /\ r \in Nat /\ r # Len(doc)
      <3>1. r \in P
        BY <1>1
      <3> QED  BY <2>1, <2>5, <3>1
    <2> DEFINE next == r + ElementSize(doc, r)
    <2>7. next \in Places(doc) /\ Element(doc, r)
      BY <1>2, <2>5, <2>6
    <2>8. ElementSize(doc, r) \in Nat /\ 2 <= ElementSize(doc, r) /\ next <= p
      BY <2>5, <2>6, <2>7, ElementSizes
    <2>9. next \in Nat /\ r < next /\ next < p
      BY <1>3, <2>1, <2>6, <2>7, <2>8
    <2>10. p - r <= p - next
      BY <2>5, <2>7, <2>9
    <2> HIDE DEF next
    <2> QED  BY <2>1, <2>6, <2>9, <2>10
  <1> QED  BY <1>1, <1>3

-----------------------------------------------------------------------------
\* The document that a buffer begins with, and that it is one of some documents.
Front(buf) == SubSeq(buf, 1, buf[1])
Level(buf, docs) ==
    /\ buf \in Seq(Int) /\ buf[1] \in Nat /\ 2 <= buf[1] /\ buf[1] <= Len(buf)
    /\ Front(buf) \in docs

\* Its words are the first words of the buffer.
LEMMA FrontIs ==
    ASSUME NEW buf \in Seq(Int), buf[1] \in Nat, 1 <= buf[1], buf[1] <= Len(buf)
    PROVE  /\ Front(buf) \in Seq(Int) /\ Len(Front(buf)) = buf[1]
           /\ \A i \in 1..buf[1] : Front(buf)[i] = buf[i]
  <1>1. /\ Front(buf) \in Seq(Int) /\ Len(Front(buf)) = buf[1] - 1 + 1
        /\ \A i \in 1..buf[1] - 1 + 1 : Front(buf)[i] = buf[1 + i - 1]
    <2>1. 1 \in Nat /\ 1 <= 1 /\ 1 <= buf[1] + 1
      OBVIOUS
    <2> QED  BY <2>1, Piece DEF Front
  <1>2. buf[1] - 1 + 1 = buf[1] /\ \A i \in 1..buf[1] : 1 + i - 1 = i
    OBVIOUS
  <1> QED  BY <1>1, <1>2

\* The elements of the document are found in the buffer.
LEMMA FoundInBuffer ==
    ASSUME NEW docs, Sound(docs), NEW buf, Level(buf, docs), NEW p \in Places(Front(buf)), p # buf[1]
    PROVE  /\ p \in Nat /\ 2 <= p /\ p < buf[1]
           /\ Element(Front(buf), p) /\ Element(buf, p)
           /\ ElementSize(buf, p) = ElementSize(Front(buf), p)
           /\ p + ElementSize(buf, p) <= buf[1]
           /\ p + ElementSize(buf, p) \in Places(Front(buf))
           /\ buf[p] = Front(buf)[p] /\ buf[p + 1] = Front(buf)[p + 1]
           /\ ValueAt(buf, p) = ValueAt(Front(buf), p)
           /\ Container(buf[p]) => ValueAt(buf, p).words \in docs
  <1> DEFINE doc == Front(buf)
             size == ElementSize(doc, p)
  <1>1. /\ buf \in Seq(Int) /\ buf[1] \in Nat /\ 2 <= buf[1] /\ buf[1] <= Len(buf)
        /\ doc \in docs
    BY DEF Level
  <1>2. /\ doc \in Seq(Int) /\ Len(doc) = buf[1]
        /\ \A i \in 1..buf[1] : doc[i] = buf[i]
    BY <1>1, FrontIs
  <1>3. Reads(doc, docs)
    BY <1>1 DEF Sound
  <1> HIDE DEF doc
  <1>4. /\ p \in Nat /\ 2 <= p /\ p <= Len(doc)
        /\ Element(doc, p) /\ p + size \in Places(doc) /\ p + size <= Len(doc)
        /\ Container(doc[p]) => ValueAt(doc, p).words \in docs
    BY <1>2, <1>3, PlacesOf DEF doc
  <1>5. size \in Nat /\ 2 <= size
    BY <1>4, ElementSizes
  <1> HIDE DEF size
  <1>6. p + size <= Len(buf) + 1 /\ 1 <= p /\ p < buf[1] /\ p + size <= buf[1]
    <2>1. Len(doc) = buf[1] /\ Len(buf) \in Nat
      BY <1>1, <1>2
    <2> QED  BY <1>1, <1>4, <1>5, <2>1
  <1>7. SameWords(doc, p, buf, p, size)
    <2>1. ASSUME NEW k \in 0..size - 1  PROVE buf[p + k] = doc[p + k]
      <3>1. p + k \in 1..buf[1]
        <4>1. buf[1] \in Nat /\ p \in Nat /\ 2 <= p /\ size \in Nat /\ p + size <= buf[1]
          BY <1>1, <1>4, <1>5, <1>6
        <4> QED  BY <4>1
      <3> QED  BY <1>2, <3>1
    <2> QED  BY <2>1 DEF SameWords
  <1>8. /\ ElementSize(buf, p) = size /\ buf[p] = doc[p] /\ buf[p + 1] = doc[p + 1]
        /\ ValueAt(buf, p) = ValueAt(doc, p) /\ Element(buf, p)
    <2>1. buf \in Seq(Int) /\ doc \in Seq(Int) /\ Element(doc, p) /\ p \in Nat /\ 2 <= p
      BY <1>1, <1>2, <1>4
    <2> QED  BY <1>6, <1>7, <2>1, SameElement DEF size
  <1> QED  BY <1>4, <1>6, <1>8 DEF doc, size

\* The search finds the end of the document, or an element with the key.
LEMMA MatchIs ==
    ASSUME NEW docs, Sound(docs), NEW buf, Level(buf, docs), NEW key
    PROVE  /\ Match(buf, key) \in Places(Front(buf))
           /\ Match(buf, key) # buf[1] => buf[Match(buf, key) + 1] = key
  <1> DEFINE doc == Front(buf)
             pos == Match(buf, key)
  <1>1. /\ buf \in Seq(Int) /\ buf[1] \in Nat /\ 2 <= buf[1] /\ buf[1] <= Len(buf)
        /\ doc \in docs /\ Len(buf) \in Nat
    BY DEF Level
  <1>2. doc \in Seq(Int) /\ Reads(doc, docs)
    BY <1>1 DEF Sound
  <1>3. 2 \in Places(doc)
    BY <1>2, PlacesOf
  <1>4. ASSUME NEW p \in Places(doc), ~Stops(buf, {key}, p)
        PROVE  p + ElementSize(buf, p) \in Places(doc)
    <2>1. p # buf[1]
      BY <1>1, <1>4 DEF Stops
    <2> QED  BY <2>1, FoundInBuffer
  <1>5. pos \in Places(doc)
    <2>1. \A n \in 0..Len(buf) \div 2 : Loop(buf, {key})[n] \in Places(doc)
      <3> HIDE DEF doc
      <3> QED  BY <1>1, <1>3, <1>4, PlacesIn
    <2>2. Len(buf) \div 2 \in 0..Len(buf) \div 2
      BY <1>1
    <2> QED  BY <2>1, <2>2 DEF Match
  <1>6. Stops(buf, {key}, pos)
    BY <1>1, LoopStops DEF Match
  <1>7. ASSUME pos # buf[1]  PROVE buf[pos + 1] = key
    <2>1. pos \in Nat /\ pos < buf[1] /\ Element(buf, pos)
      BY <1>5, <1>7, FoundInBuffer
    <2>2. buf[pos + 1] \in {key}
      BY <1>1, <1>6, <2>1 DEF Stops
    <2> QED  BY <2>2
  <1> QED  BY <1>5, <1>7

\* It is the first element with the key: no place before it is that of another.
LEMMA MatchIsFirst ==
    ASSUME NEW docs, Sound(docs), NEW buf, Level(buf, docs), NEW key
    PROVE  \A q \in Places(Front(buf)) : q < Match(buf, key) => buf[q + 1] # key
  <1> DEFINE doc == Front(buf)
             P   == {p \in Places(doc) : \A q \in Places(doc) : q < p => buf[q + 1] # key}
  <1>1. buf \in Seq(Int) /\ buf[1] \in Nat /\ Len(buf) \in Nat /\ doc \in docs
    BY DEF Level
  <1>2. doc \in Seq(Int) /\ Reads(doc, docs)
    BY <1>1 DEF Sound
  <1>3. /\ 2 \in Places(doc)
        /\ \A p \in Places(doc) : p \in Nat /\ 2 <= p
        /\ \A p, q \in Places(doc) : p < q => p + ElementSize(doc, p) <= q
    BY <1>2, PlacesOf
  <1>4. \A p \in Places(doc) : p # buf[1] => /\ p + ElementSize(buf, p) \in Places(doc)
                                             /\ ElementSize(buf, p) = ElementSize(doc, p)
    BY FoundInBuffer
  <1> HIDE DEF doc
  <1>5. 2 \in P
    BY <1>3
  <1>6. ASSUME NEW p \in P, ~Stops(buf, {key}, p)  PROVE p + ElementSize(buf, p) \in P
    <2>1. p # buf[1] /\ buf[p + 1] # key
      BY <1>1, <1>6 DEF Stops
    <2>2. p + ElementSize(buf, p) \in Places(doc) /\ ElementSize(buf, p) = ElementSize(doc, p)
      BY <1>4, <2>1
    <2>3. ASSUME NEW q \in Places(doc), q < p + ElementSize(buf, p)  PROVE buf[q + 1] # key
      <3>1. q \in Nat /\ p \in Nat /\ p + ElementSize(buf, p) \in Nat
        BY <1>3, <2>2
      <3>2. ~(p < q)
        <4> SUFFICES ASSUME p < q  PROVE FALSE
          OBVIOUS
        <4>1. p + ElementSize(buf, p) <= q
          BY <1>3, <2>2
        <4> QED  BY <2>3, <3>1, <4>1
      <3>3. q < p \/ q = p
        BY <3>1, <3>2
      <3> QED  BY <2>1, <3>3
    <2> QED  BY <2>2, <2>3
  <1>7. Match(buf, key) \in P
    <2>1. \A n \in 0..Len(buf) \div 2 : Loop(buf, {key})[n] \in P
      <3> HIDE DEF P
      <3> QED  BY <1>1, <1>5, <1>6, PlacesIn
    <2>2. Len(buf) \div 2 \in 0..Len(buf) \div 2
      BY <1>1
    <2> HIDE DEF P
    <2> QED  BY <2>1, <2>2 DEF Match
  <1> QED  BY <1>7 DEF doc

-----------------------------------------------------------------------------
\* What a splice leaves in the place of the element: nothing, or an element that
\* can be read and takes the room there is.
LeavesElement(out, pos, room, docs) ==
    \/ room = 0
    \/ /\ Element(out, pos) /\ ElementSize(out, pos) = room
       /\ Container(out[pos]) => ValueAt(out, pos).words \in docs

\* A splice of an element of a document at the beginning of a buffer.
SplicedLevel(buf, pos, out, added, docs) ==
    /\ Level(buf, docs) /\ pos \in Places(Front(buf)) /\ pos # buf[1]
    /\ Spliced(Int, buf, pos, ElementSize(buf, pos), out, added)

\* The numbers of a splice.
LEMMA SpliceNumbers ==
    ASSUME NEW docs, Sound(docs), NEW buf, NEW pos, NEW out, NEW added,
           SplicedLevel(buf, pos, out, added, docs)
    PROVE  /\ buf \in Seq(Int) /\ out \in Seq(Int) /\ Len(buf) \in Nat /\ Len(out) \in Nat
           /\ added \in Int /\ pos \in Nat /\ 2 <= pos
           /\ ElementSize(buf, pos) \in Nat /\ 2 <= ElementSize(buf, pos)
           /\ ElementSize(buf, pos) + added >= 0
           /\ buf[1] \in Nat /\ pos + ElementSize(buf, pos) <= buf[1] /\ buf[1] <= Len(buf)
           /\ out[1] = buf[1] + added /\ Len(out) = Len(buf) + added
           /\ out[1] \in Nat /\ 2 <= out[1] /\ out[1] <= Len(out)
           /\ pos + (ElementSize(buf, pos) + added) <= out[1]
  <1> DEFINE size == ElementSize(buf, pos)
  <1>1. /\ buf \in Seq(Int) /\ buf[1] \in Nat /\ buf[1] <= Len(buf) /\ Len(buf) \in Nat
    BY DEF SplicedLevel, Level
  <1>2. Element(buf, pos) /\ pos + size <= buf[1]
    BY FoundInBuffer DEF SplicedLevel
  <1>3. pos \in Nat /\ 2 <= pos /\ size \in Nat /\ 2 <= size
    BY <1>2, ElementSizes
  <1>4. Spliced(Int, buf, pos, size, out, added)
    BY DEF SplicedLevel
  <1> HIDE DEF size
  <1>5. /\ added \in Int /\ out \in Seq(Int) /\ size + added >= 0
        /\ Len(out) = Len(buf) + added /\ out[1] = buf[1] + added
    BY <1>4 DEF Spliced
  <1>6. pos + (size + added) <= out[1]
    BY <1>1, <1>2, <1>3, <1>5
  <1>7. 2 <= out[1] /\ out[1] <= Len(out) /\ out[1] \in Nat /\ Len(out) \in Nat
    <2>1. out[1] \in Int /\ Len(out) \in Nat /\ out[1] <= Len(out)
      BY <1>1, <1>5
    <2>2. pos + (size + added) >= 2
      BY <1>3, <1>5
    <2>3. size + added \in Int
      BY <1>3, <1>5
    <2> QED  BY <1>3, <1>6, <2>1, <2>2, <2>3
  <1> QED  BY <1>1, <1>2, <1>3, <1>5, <1>6, <1>7 DEF size

\* In the document after a splice the other elements of the document are found.
LEMMA OthersFound ==
    ASSUME NEW docs, Sound(docs), NEW buf, NEW pos, NEW out, NEW added,
           SplicedLevel(buf, pos, out, added, docs),
           NEW p \in Places(Front(buf)), p # buf[1], p # pos
    PROVE  LET q == Moved(p, pos, added)
           IN /\ q \in Nat /\ q < out[1]
              /\ Element(Front(out), q) /\ ElementSize(Front(out), q) = ElementSize(buf, p)
              /\ q + ElementSize(Front(out), q) <= out[1]
              /\ Container(Front(out)[q]) => ValueAt(Front(out), q).words \in docs
  <1> DEFINE doc  == Front(buf)
             new  == Front(out)
             size == ElementSize(buf, pos)
             es   == ElementSize(doc, p)
             q    == Moved(p, pos, added)
  <1>1. /\ buf \in Seq(Int) /\ out \in Seq(Int) /\ added \in Int /\ pos \in Nat /\ 2 <= pos
        /\ size \in Nat /\ 2 <= size /\ size + added >= 0 /\ pos + size <= buf[1]
        /\ buf[1] \in Nat /\ buf[1] <= Len(buf) /\ out[1] = buf[1] + added
        /\ out[1] \in Nat /\ 2 <= out[1] /\ out[1] <= Len(out) /\ pos + (size + added) <= out[1]
    BY SpliceNumbers
  <1>2. Level(buf, docs) /\ pos \in Places(doc) /\ doc \in docs
    BY DEF SplicedLevel, Level
  <1>3. doc \in Seq(Int) /\ Reads(doc, docs)
    BY <1>2 DEF Sound
  <1>4. /\ p \in Nat /\ 2 <= p /\ p < buf[1] /\ Element(doc, p) /\ ElementSize(buf, p) = es
        /\ p + ElementSize(buf, p) <= buf[1]
        /\ buf[p] = doc[p] /\ ValueAt(buf, p) = ValueAt(doc, p)
        /\ Container(buf[p]) => ValueAt(buf, p).words \in docs
    BY <1>2, FoundInBuffer
  <1>5. es \in Nat /\ 2 <= es
    BY <1>4, ElementSizes
  <1>6. p + es <= pos \/ pos + size <= p
    <2>1. CASE p < pos
      BY <1>2, <1>3, <2>1, PlacesOf
    <2>2. CASE pos < p
      <3>1. pos + ElementSize(doc, pos) <= p
        BY <1>2, <1>3, <2>2, PlacesOf
      <3>2. ElementSize(doc, pos) = size
        BY <1>2, FoundInBuffer DEF SplicedLevel
      <3> QED  BY <3>1, <3>2
    <2> QED  BY <1>1, <1>4, <2>1, <2>2
  <1>7. /\ \A i \in 1..buf[1] : doc[i] = buf[i]
        /\ Len(doc) = buf[1]
    <2>1. 1 <= buf[1]
      BY <1>1
    <2> QED  BY <1>1, <2>1, FrontIs
  <1>8. new \in Seq(Int) /\ Len(new) = out[1] /\ \A i \in 1..out[1] : new[i] = out[i]
    <2>1. 1 <= out[1]
      BY <1>1
    <2> QED  BY <1>1, <2>1, FrontIs
  <1>9. \A i \in 1..out[1] : new[i] = out[i]
    BY <1>8
  <1>10. \A i \in 2..pos - 1 : out[i] = buf[i]
    BY DEF Spliced, SplicedLevel
  <1>11. \A i \in pos + size..Len(buf) : out[i + added] = buf[i]
    BY DEF Spliced, SplicedLevel
  <1> HIDE DEF doc, new, size, es
  <1>12. q = IF p < pos THEN p ELSE p + added
    BY DEF Moved
  <1>13. q \in Nat /\ 2 <= q /\ q + es <= out[1]
    <2>1. CASE p + es <= pos
      <3> HIDE DEF q
      <3>1. p \in Nat /\ 2 <= p /\ es \in Nat /\ 2 <= es /\ pos \in Nat /\ pos <= out[1] /\ out[1] \in Nat
        BY <1>1, <1>4, <1>5
      <3>2. q = p
        BY ONLY <1>12, <2>1, <3>1
      <3> QED  BY ONLY <2>1, <3>1, <3>2
    <2>2. CASE pos + size <= p
      <3>1. q = p + added
        BY <1>1, <1>4, <1>12, <2>2
      <3>2. p + es <= buf[1]
        BY <1>4
      <3>3. q >= pos + (size + added)
        BY <1>1, <1>4, <2>2, <3>1
      <3>4. q \in Int /\ 2 <= q
        <4>1. size \in Nat /\ added \in Int /\ size + added >= 0 /\ q \in Int /\ pos \in Nat /\ 2 <= pos
          BY <1>1, <1>4, <3>1
        <4> HIDE DEF q
        <4> QED  BY ONLY <3>3, <4>1
      <3>5. q + es <= out[1]
        <4>1. /\ es \in Nat /\ p \in Nat /\ added \in Int /\ buf[1] \in Nat
              /\ out[1] = buf[1] + added
          BY <1>1, <1>4, <1>5
        <4> HIDE DEF q
        <4> QED  BY ONLY <3>1, <3>2, <4>1
      <3> QED  BY <3>4, <3>5
    <2> QED  BY <1>6, <2>1, <2>2
  <1>14. SameWords(doc, p, new, q, es)
    <2>1. ASSUME NEW k \in 0..es - 1  PROVE new[q + k] = doc[p + k]
      <3>1. k \in Int /\ 0 <= k /\ k < es
        BY <1>5
      <3>2. q + k \in 1..out[1] /\ p + k \in 1..buf[1]
        <4>1. p + es <= buf[1] /\ q + es <= out[1] /\ q \in Nat /\ 2 <= q
          BY <1>4, <1>13
        <4>2. p \in Nat /\ 2 <= p /\ out[1] \in Nat /\ buf[1] \in Nat
          BY <1>1, <1>4
        <4> HIDE DEF q
        <4> QED  BY <1>5, <3>1, <4>1, <4>2
      <3>3. new[q + k] = out[q + k] /\ doc[p + k] = buf[p + k]
        BY <1>7, <1>9, <3>2
      <3>4. out[q + k] = buf[p + k]
        <4>1. CASE p + es <= pos
          <5>1. p + k \in 2..pos - 1 /\ q = p
            BY <1>1, <1>4, <1>5, <1>12, <3>1, <4>1
          <5> QED  BY <1>10, <5>1
        <4>2. CASE pos + size <= p
          <5>1. p + k \in pos + size..Len(buf) /\ q + k = p + k + added
            <6>1. q = p + added
              BY <1>1, <1>4, <1>12, <4>2
            <6>2. p + k <= Len(buf)
              BY <1>1, <3>2
            <6> QED  BY <1>1, <1>4, <3>1, <4>2, <6>1, <6>2
          <5> QED  BY <1>11, <5>1
        <4> QED  BY <1>6, <4>1, <4>2
      <3> QED  BY <3>3, <3>4
    <2> HIDE DEF q
    <2> QED  BY <2>1 DEF SameWords
  <1> HIDE DEF q
  <1>15. q + es <= Len(new) + 1 /\ 1 <= q /\ q < out[1]
    <2>1. out[1] \in Nat /\ Len(new) = out[1]
      BY <1>1, <1>8
    <2> QED  BY <1>5, <1>13, <2>1
  <1>16. /\ Element(new, q) /\ ElementSize(new, q) = es /\ new[q] = doc[p]
         /\ ValueAt(new, q) = ValueAt(doc, p)
    <2>1. doc \in Seq(Int) /\ new \in Seq(Int) /\ Element(doc, p) /\ q \in Nat /\ 2 <= q
      BY <1>3, <1>4, <1>8, <1>13
    <2> QED  BY <1>14, <1>15, <2>1, SameElement DEF es
  <1>17. Container(new[q]) => ValueAt(new, q).words \in docs
    BY <1>4, <1>16
  <1>18. ElementSize(new, q) = ElementSize(buf, p) /\ q + ElementSize(new, q) <= out[1]
    BY <1>4, <1>13, <1>16
  <1> QED  BY <1>13, <1>15, <1>16, <1>17, <1>18 DEF q, new

\* The places after a splice.
PlacesAfter(buf, pos, added) ==
    {Moved(p, pos, added) : p \in Places(Front(buf)) \ {pos}}
       \cup (IF ElementSize(buf, pos) + added = 0 THEN {} ELSE {pos})

\* Two elements of a document keep their order, and the one is behind the other.
LEMMA MovedInOrder ==
    ASSUME NEW docs, Sound(docs), NEW buf, NEW pos, NEW out, NEW added,
           SplicedLevel(buf, pos, out, added, docs),
           NEW p \in Places(Front(buf)), NEW q \in Places(Front(buf)), p < q
    PROVE  /\ p # pos /\ q # pos
                => Moved(p, pos, added) + ElementSize(buf, p) <= Moved(q, pos, added)
           /\ p = pos => pos + (ElementSize(buf, pos) + added) <= Moved(q, pos, added)
           /\ q = pos => Moved(p, pos, added) + ElementSize(buf, p) <= pos
           /\ p # buf[1] /\ ElementSize(buf, p) \in Nat /\ 2 <= ElementSize(buf, p)
           /\ p \in Nat /\ q \in Nat /\ Moved(p, pos, added) \in Int /\ Moved(q, pos, added) \in Int
  <1> DEFINE doc  == Front(buf)
             size == ElementSize(buf, pos)
             es   == ElementSize(buf, p)
  <1>1. /\ added \in Int /\ pos \in Nat /\ size \in Nat /\ 2 <= size /\ size + added >= 0
        /\ buf[1] \in Nat /\ buf \in Seq(Int) /\ 1 <= buf[1] /\ buf[1] <= Len(buf)
    BY SpliceNumbers DEF SplicedLevel, Level
  <1>2. /\ Level(buf, docs) /\ pos \in Places(doc) /\ pos # buf[1] /\ doc \in docs
    BY DEF SplicedLevel, Level
  <1>3. doc \in Seq(Int) /\ Reads(doc, docs) /\ Len(doc) = buf[1]
    BY <1>1, <1>2, FrontIs DEF Sound
  <1>4. /\ \A i \in Places(doc) : i \in Nat /\ i <= buf[1]
        /\ \A i, j \in Places(doc) : i < j => i + ElementSize(doc, i) <= j
    BY <1>3, PlacesOf
  <1>5. /\ p \in Nat /\ q \in Nat /\ q <= buf[1]
        /\ p + ElementSize(doc, p) <= q
        /\ p < pos => p + ElementSize(doc, p) <= pos
        /\ pos < q => pos + ElementSize(doc, pos) <= q
    BY <1>2, <1>4
  <1>6. p # buf[1]
    BY <1>1, <1>5
  <1>7. Element(buf, p) /\ es = ElementSize(doc, p) /\ size = ElementSize(doc, pos)
    BY <1>2, <1>6, FoundInBuffer
  <1>8. es \in Nat /\ 2 <= es
    BY <1>7, ElementSizes
  <1> HIDE DEF doc, size, es
  <1>9. p + es <= q /\ (p < pos => p + es <= pos) /\ (pos < q => pos + size <= q)
    BY <1>5, <1>7
  <1>10. /\ Moved(p, pos, added) = IF p < pos THEN p ELSE p + added
         /\ Moved(q, pos, added) = IF q < pos THEN q ELSE q + added
    BY DEF Moved
  <1>11. Moved(p, pos, added) \in Int /\ Moved(q, pos, added) \in Int
    BY <1>1, <1>5, <1>10
  <1>12. ASSUME p # pos, q # pos
         PROVE  Moved(p, pos, added) + es <= Moved(q, pos, added)
    <2>1. CASE q < pos
      BY <1>1, <1>5, <1>8, <1>9, <1>10, <2>1
    <2>2. CASE pos < q /\ p < pos
      BY <1>1, <1>5, <1>8, <1>9, <1>10, <2>2
    <2>3. CASE pos < p
      BY <1>1, <1>5, <1>8, <1>9, <1>10, <2>3
    <2> QED  BY <1>1, <1>5, <1>12, <2>1, <2>2, <2>3
  <1>13. ASSUME p = pos  PROVE pos + (size + added) <= Moved(q, pos, added)
    BY <1>1, <1>5, <1>8, <1>9, <1>10, <1>13
  <1>14. ASSUME q = pos  PROVE Moved(p, pos, added) + es <= pos
    BY <1>1, <1>5, <1>8, <1>9, <1>10, <1>14
  <1> QED  BY <1>5, <1>6, <1>8, <1>11, <1>12, <1>13, <1>14 DEF es, size

\* They are a chain in the document if what is in the place can be read.
LEMMA SpliceChain ==
    ASSUME NEW docs, Sound(docs), NEW buf, NEW pos, NEW out, NEW added,
           SplicedLevel(buf, pos, out, added, docs), NEW more, docs \subseteq more,
           LeavesElement(out, pos, ElementSize(buf, pos) + added, more)
    PROVE  /\ Front(out) \in Seq(Int) /\ Len(Front(out)) = out[1]
           /\ Chain(Front(out), PlacesAfter(buf, pos, added), more)
           /\ \A p, q \in PlacesAfter(buf, pos, added) :
                 /\ p \in Nat /\ p <= Len(Front(out))
                 /\ p < q => p + ElementSize(Front(out), p) <= q
  <1> DEFINE doc  == Front(buf)
             new  == Front(out)
             size == ElementSize(buf, pos)
             room == size + added
             Old  == {Moved(p, pos, added) : p \in Places(doc) \ {pos}}
             P    == Old \cup (IF room = 0 THEN {} ELSE {pos})
  <1>1. /\ buf \in Seq(Int) /\ out \in Seq(Int) /\ added \in Int /\ pos \in Nat /\ 2 <= pos
        /\ size \in Nat /\ 2 <= size /\ size + added >= 0 /\ pos + size <= buf[1]
        /\ buf[1] \in Nat /\ buf[1] <= Len(buf) /\ out[1] = buf[1] + added
        /\ out[1] \in Nat /\ 2 <= out[1] /\ out[1] <= Len(out) /\ pos + (size + added) <= out[1]
    BY SpliceNumbers
  <1>2. /\ Level(buf, docs) /\ pos \in Places(doc) /\ pos # buf[1] /\ doc \in docs
        /\ Spliced(Int, buf, pos, size, out, added)
    BY DEF SplicedLevel, Level
  <1>3. doc \in Seq(Int) /\ Reads(doc, docs) /\ Len(doc) = buf[1]
    <2>1. 1 <= buf[1]
      BY <1>1
    <2> QED  BY <1>1, <1>2, <2>1, FrontIs DEF Sound
  <1>4. new \in Seq(Int) /\ Len(new) = out[1] /\ \A i \in 1..out[1] : new[i] = out[i]
    <2>1. 1 <= out[1]
      BY <1>1
    <2> QED  BY <1>1, <2>1, FrontIs
  <1>5. room \in Nat
    <2>1. size \in Nat /\ added \in Int /\ size + added >= 0
      BY <1>1
    <2> HIDE DEF size
    <2> QED  BY <2>1
  <1>6. Len(new) >= 2 /\ new[1] = Len(new) /\ new[Len(new)] = 0
    <2>1. new[1] = out[1] /\ new[out[1]] = out[out[1]]
      <3>1. 1 \in 1..out[1] /\ out[1] \in 1..out[1]
        <4>1. out[1] \in Nat /\ 2 <= out[1]
          BY <1>1
        <4> QED  BY <4>1
      <3> QED  BY <1>4, <3>1
    <2>2. out[buf[1] + added] = buf[buf[1]]
      <3>1. buf[1] \in pos + size..Len(buf)
        BY <1>1
      <3> QED  BY <1>2, <3>1 DEF Spliced
    <2>3. buf[buf[1]] = 0
      <3>1. doc[buf[1]] = 0
        BY <1>3 DEF Reads
      <3>2. 1 <= buf[1] /\ buf[1] \in 1..buf[1]
        <4>1. buf[1] \in Nat /\ pos \in Nat /\ size \in Nat /\ 2 <= pos /\ pos + size <= buf[1]
          BY <1>1
        <4> HIDE DEF size
        <4> QED  BY <4>1
      <3> QED  BY <1>1, <3>1, <3>2, FrontIs
    <2> QED  BY <1>1, <1>4, <2>1, <2>2, <2>3
  <1>7. /\ 2 \in Places(doc)
        /\ \A p \in Places(doc) : p \in Nat /\ 2 <= p /\ p <= buf[1]
        /\ \A p, q \in Places(doc) : p < q => p + ElementSize(doc, p) <= q
    BY <1>3, PlacesOf
  <1>8. \A p \in Places(doc) : p # buf[1] => /\ ElementSize(buf, p) = ElementSize(doc, p)
                                             /\ p + ElementSize(buf, p) \in Places(doc)
                                             /\ ElementSize(buf, p) \in Nat
    <2>1. \A p \in Places(doc) : p # buf[1] => /\ ElementSize(buf, p) = ElementSize(doc, p)
                                               /\ p + ElementSize(buf, p) \in Places(doc)
                                               /\ Element(buf, p)
      BY <1>2, FoundInBuffer
    <2> QED  BY <2>1, ElementSizes
  <1> HIDE DEF doc, new, size, room
  <1>9. ASSUME NEW p \in Places(doc), p # pos \/ room # 0
        PROVE  Moved(p, pos, added) \in P \/ p = pos
    OBVIOUS
  <1>10. pos + room \in P
    <2>1. pos + size \in Places(doc) /\ pos + size # pos
      BY <1>1, <1>2, <1>8 DEF size
    <2>2. Moved(pos + size, pos, added) = pos + room
      BY <1>1 DEF Moved, room
    <2> QED  BY <2>1, <2>2
  <1>11. 2 \in P
    <2>1. CASE pos = 2 /\ room = 0
      BY <1>10, <2>1
    <2>2. CASE pos = 2 /\ room # 0
      BY <2>2
    <2>3. CASE pos # 2
      <3>1. Moved(2, pos, added) = 2
        BY <1>1, <2>3 DEF Moved
      <3> QED  BY <1>7, <2>3, <3>1
    <2> QED  BY <2>1, <2>2, <2>3
  <1>12. ASSUME NEW p \in Places(doc), p # pos, Moved(p, pos, added) # Len(new)
         PROVE  /\ Element(new, Moved(p, pos, added))
                /\ Moved(p, pos, added) + ElementSize(new, Moved(p, pos, added)) \in P
                /\ Moved(p, pos, added) + ElementSize(new, Moved(p, pos, added)) <= Len(new)
                /\ Container(new[Moved(p, pos, added)])
                     => ValueAt(new, Moved(p, pos, added)).words \in more
    <2> DEFINE q == Moved(p, pos, added)
               next == p + ElementSize(buf, p)
    <2>1. p # buf[1]
      <3>1. Moved(buf[1], pos, added) = buf[1] + added
        BY <1>1 DEF Moved
      <3> QED  BY <1>1, <1>4, <1>12, <3>1
    <2>2. /\ q \in Nat /\ q < out[1]
          /\ Element(new, q) /\ ElementSize(new, q) = ElementSize(buf, p)
          /\ q + ElementSize(new, q) <= out[1]
          /\ Container(new[q]) => ValueAt(new, q).words \in docs
      BY <1>12, <2>1, OthersFound DEF doc, new
    <2>3. next \in Places(doc) /\ p \in Nat /\ ElementSize(buf, p) \in Nat
      BY <1>7, <1>8, <2>1
    <2>4. CASE p < pos
      <3>1. q = p /\ q + ElementSize(buf, p) = next
        BY <2>4 DEF Moved
      <3>2. next <= pos
        BY <1>2, <1>7, <1>8, <2>1, <2>4
      <3>3. CASE next < pos
        <4>1. Moved(next, pos, added) = next
          BY <3>3 DEF Moved
        <4>2. next # pos
          BY <1>1, <2>3, <3>3
        <4>3. next \in P
          <5> HIDE DEF next
          <5> QED  BY <2>3, <4>1, <4>2
        <4> QED  BY <1>4, <2>2, <3>1, <4>3
      <3>4. CASE next = pos
        <4>1. next \in P
          <5>1. CASE room = 0
            BY <1>1, <1>10, <3>4, <5>1
          <5>2. CASE room # 0
            BY <3>4, <5>2
          <5> QED  BY <5>1, <5>2
        <4> QED  BY <1>4, <2>2, <3>1, <4>1
      <3>5. next < pos \/ next = pos
        BY <1>1, <2>3, <3>2
      <3> QED  BY <3>3, <3>4, <3>5
    <2>5. CASE ~(p < pos)
      <3>1. q = p + added /\ pos < p
        BY <1>1, <1>12, <2>3, <2>5 DEF Moved
      <3>2. ~(next < pos) /\ next # pos
        <4>1. pos < p /\ pos \in Nat
          BY <1>1, <3>1
        <4> QED  BY <2>3, <4>1
      <3>3. Moved(next, pos, added) = next + added
        BY <3>2 DEF Moved
      <3>4. next + added = q + ElementSize(buf, p)
        BY <1>1, <2>3, <3>1
      <3>5. next + added \in P
        <4> HIDE DEF next
        <4> QED  BY <2>3, <3>2, <3>3
      <3> QED  BY <1>4, <2>2, <3>4, <3>5
    <2> QED  BY <2>4, <2>5
  <1>13. ASSUME room # 0
         PROVE  /\ Element(new, pos) /\ ElementSize(new, pos) = room
                /\ pos + room <= Len(new)
                /\ Container(new[pos]) => ValueAt(new, pos).words \in more
    <2>1. /\ Element(out, pos) /\ ElementSize(out, pos) = room
          /\ Container(out[pos]) => ValueAt(out, pos).words \in more
      BY <1>13 DEF LeavesElement, room, size
    <2>2. pos + room <= out[1]
      BY <1>1 DEF room, size
    <2>3. SameWords(out, pos, new, pos, room)
      <3>1. ASSUME NEW k \in 0..room - 1  PROVE new[pos + k] = out[pos + k]
        <4>1. pos + k \in 1..out[1]
          BY <1>1, <1>5, <2>2
        <4> QED  BY <1>4, <4>1
      <3> QED  BY <3>1 DEF SameWords
    <2>4. pos + room <= Len(new) + 1 /\ 1 <= pos /\ 2 <= pos /\ pos \in Nat
      BY <1>1, <1>4, <1>5, <2>2
    <2>5. out \in Seq(Int) /\ new \in Seq(Int)
      BY <1>1, <1>4
    <2>6. /\ ElementSize(new, pos) = room /\ new[pos] = out[pos]
          /\ ValueAt(new, pos) = ValueAt(out, pos) /\ Element(new, pos)
      BY ONLY <2>1, <2>3, <2>4, <2>5, SameElement
    <2> QED  BY <1>4, <2>1, <2>2, <2>6
  <1>14. ASSUME NEW q \in P, q # Len(new)
         PROVE  /\ Element(new, q) /\ q + ElementSize(new, q) \in P
                /\ q + ElementSize(new, q) <= Len(new)
                /\ Container(new[q]) => ValueAt(new, q).words \in more
    <2>1. CASE q \in Old
      BY <1>12, <1>14, <2>1
    <2>2. CASE room # 0 /\ q = pos
      <3> HIDE DEF P
      <3> QED  BY <1>10, <1>13, <2>2
    <2> QED  BY <2>1, <2>2
  <1>15. Chain(new, P, more)
    <2> HIDE DEF P
    <2> QED  BY <1>6, <1>11, <1>14 DEF Chain
  <1>16. PlacesAfter(buf, pos, added) = P
    BY DEF PlacesAfter, doc, room, size
  <1>17. ASSUME NEW p \in P
         PROVE  /\ p \in Nat /\ p <= Len(new)
                /\ p # Len(new) => ElementSize(new, p) \in Nat /\ 2 <= ElementSize(new, p)
    <2>1. CASE p = Len(new)
      <3>1. Len(new) \in Nat
        BY <1>4
      <3> QED  BY <2>1, <3>1
    <2>2. CASE p # Len(new)
      <3>1. Element(new, p) /\ p + ElementSize(new, p) <= Len(new)
        BY <1>14, <2>2
      <3>2. p \in Nat /\ ElementSize(new, p) \in Nat /\ 2 <= ElementSize(new, p)
        BY <3>1, ElementSizes
      <3>3. Len(new) \in Nat
        BY <1>4
      <3> QED  BY <3>1, <3>2, <3>3
    <2> QED  BY <2>1, <2>2
  <1>18. ASSUME NEW p \in Places(doc), NEW q \in Places(doc), p < q
         PROVE  /\ p # pos /\ q # pos
                     => Moved(p, pos, added) + ElementSize(buf, p) <= Moved(q, pos, added)
                /\ p = pos => pos + room <= Moved(q, pos, added)
                /\ q = pos => Moved(p, pos, added) + ElementSize(buf, p) <= pos
                /\ p # buf[1] /\ ElementSize(buf, p) \in Nat /\ 2 <= ElementSize(buf, p)
                /\ p \in Nat /\ q \in Nat /\ Moved(p, pos, added) \in Int /\ Moved(q, pos, added) \in Int
    BY <1>18, MovedInOrder DEF doc, room, size
  <1>19. ASSUME NEW p \in P, NEW q \in P, p < q
         PROVE  p + ElementSize(new, p) <= q
    <2>1. ASSUME NEW i \in Places(doc), i # pos, i # buf[1], p = Moved(i, pos, added)
          PROVE  ElementSize(new, p) = ElementSize(buf, i)
      BY <2>1, OthersFound DEF doc, new
    <2>2. p \in Nat /\ q \in Nat
      BY <1>17
    <2>3. CASE p \in Old /\ q \in Old
      <3>1. PICK i \in Places(doc) : i # pos /\ p = Moved(i, pos, added)
        BY <2>3
      <3>2. PICK j \in Places(doc) : j # pos /\ q = Moved(j, pos, added)
        BY <2>3
      <3>3. i \in Nat /\ j \in Nat /\ i # j
        <4>1. i # j
          BY <1>19, <2>2, <3>1, <3>2
        <4> QED  BY <1>7, <4>1
      <3>4. ~(j < i)
        <4> SUFFICES ASSUME j < i  PROVE FALSE
          OBVIOUS
        <4>1. /\ q + ElementSize(buf, j) <= p /\ ElementSize(buf, j) \in Nat
              /\ 2 <= ElementSize(buf, j) /\ p \in Int /\ q \in Int
          BY <1>18, <3>1, <3>2
        <4> QED  BY <1>19, <4>1
      <3>5. i < j
        BY <3>3, <3>4
      <3>6. p + ElementSize(buf, i) <= q /\ i # buf[1]
        BY <1>18, <3>1, <3>2, <3>5
      <3> QED  BY <2>1, <3>1, <3>6
    <2>4. CASE p = pos /\ room # 0 /\ q \in Old
      <3>1. PICK j \in Places(doc) : j # pos /\ q = Moved(j, pos, added)
        BY <2>4
      <3>2. j \in Nat
        BY <1>7
      <3>3. ~(j < pos)
        <4> SUFFICES ASSUME j < pos  PROVE FALSE
          OBVIOUS
        <4>1. q = j
          BY <3>1 DEF Moved
        <4> QED  BY <1>1, <1>19, <2>4, <3>2, <4>1
      <3>4. pos < j
        BY <1>1, <3>1, <3>2, <3>3
      <3>5. pos + room <= q
        BY <1>2, <1>18, <3>1, <3>4
      <3> QED  BY <1>13, <2>4, <3>5
    <2>5. CASE p \in Old /\ q = pos /\ room # 0
      <3>1. PICK i \in Places(doc) : i # pos /\ p = Moved(i, pos, added)
        BY <2>5
      <3>2. i \in Nat
        BY <1>7
      <3>3. ~(pos < i)
        <4> SUFFICES ASSUME pos < i  PROVE FALSE
          OBVIOUS
        <4>1. pos + room <= p /\ p \in Int
          BY <1>2, <1>18, <3>1
        <4> QED  BY <1>1, <1>5, <1>19, <2>5, <4>1
      <3>4. i < pos
        BY <1>1, <3>1, <3>2, <3>3
      <3>5. p + ElementSize(buf, i) <= pos /\ i # buf[1]
        BY <1>2, <1>18, <3>1, <3>4
      <3> QED  BY <2>1, <2>5, <3>1, <3>5
    <2>6. ~(p = pos /\ q = pos)
      BY <1>1, <1>19
    <2> QED  BY <2>3, <2>4, <2>5, <2>6
  <1> HIDE DEF P
  <1> QED  BY <1>4, <1>15, <1>16, <1>17, <1>19 DEF new

\* The document after a splice can be read if what is in the place can be, and its
\* elements are the old ones where they moved to.
LEMMA SpliceReads ==
    ASSUME NEW docs, Sound(docs), NEW buf, NEW pos, NEW out, NEW added,
           SplicedLevel(buf, pos, out, added, docs), NEW more, docs \subseteq more,
           LeavesElement(out, pos, ElementSize(buf, pos) + added, more)
    PROVE  Reads(Front(out), more) /\ Places(Front(out)) = PlacesAfter(buf, pos, added)
  <1> DEFINE P == PlacesAfter(buf, pos, added)
             new == Front(out)
  <1>1. /\ new \in Seq(Int) /\ Chain(new, P, more)
        /\ \A p \in P : p \in Nat /\ p <= Len(new)
        /\ \A p, q \in P : p < q => p + ElementSize(new, p) <= q
    BY SpliceChain
  <1> HIDE DEF P, new
  <1>2. Reads(new, more)
    BY <1>1, ChainReads
  <1>3. Places(new) = P
    BY <1>1, ChainPlaces
  <1> QED  BY <1>2, <1>3 DEF P, new

-----------------------------------------------------------------------------
\* The n words of a buffer from place p + 2 on.
LEMMA Cut ==
    ASSUME NEW W, NEW a \in Seq(W), NEW p \in Nat, NEW n \in Nat, p + 1 + n <= Len(a)
    PROVE  LET t == SubSeq(a, p + 2, p + 1 + n)
           IN t \in Seq(W) /\ Len(t) = n /\ \A i \in 1..n : t[i] = a[p + 1 + i]
  <1> DEFINE from == p + 2
             to   == p + 1 + n
             t    == SubSeq(a, from, to)
  <1>1. from \in Nat /\ to \in Nat /\ 1 <= from /\ from <= to + 1 /\ to <= Len(a)
    OBVIOUS
  <1>2. to - from + 1 = n /\ \A i \in 1..n : from + i - 1 = p + 1 + i
    OBVIOUS
  <1> HIDE DEF from, to
  <1>3. /\ t \in Seq(W) /\ Len(t) = to - from + 1
        /\ \A i \in 1..to - from + 1 : t[i] = a[from + i - 1]
    BY <1>1, Piece
  <1> HIDE DEF t
  <1>4. t \in Seq(W) /\ Len(t) = n /\ \A i \in 1..n : t[i] = a[p + 1 + i]
    BY <1>2, <1>3
  <1> QED  BY <1>4 DEF t, from, to

\* A document of doc, s words from its beginning.
Inside(d, doc, s) ==
    /\ d \in Seq(Int) /\ doc \in Seq(Int)
    /\ s \in Nat /\ s + Len(d) <= Len(doc)
    /\ \A i \in 1..Len(d) : d[i] = doc[s + i]

\* What could be a document within is inside.
LEMMA EmbeddedInside ==
    ASSUME NEW doc \in Seq(Int), NEW d \in Embedded(doc)
    PROVE  \E s \in Nat : Inside(d, doc, s)
  <1>1. \E p, n \in Nat : /\ 2 <= p /\ 2 <= n /\ p + 1 + n <= Len(doc)
                          /\ d = SubSeq(doc, p + 2, p + 1 + n)
    <2>1. PICK p \in {i \in 2..Len(doc) - 2 : Container(doc[i]) /\ doc[i + 2] \in 2..Len(doc) - i - 1} :
             d = SubSeq(doc, p + 2, p + 1 + doc[p + 2])
      BY DEF Embedded
    <2>2. p \in 2..Len(doc) - 2 /\ doc[p + 2] \in 2..Len(doc) - p - 1
      OBVIOUS
    <2>3. /\ p \in Nat /\ 2 <= p /\ doc[p + 2] \in Nat /\ 2 <= doc[p + 2]
          /\ p + 1 + doc[p + 2] <= Len(doc)
      BY <2>2
    <2> QED  BY <2>1, <2>3
  <1>2. PICK p \in Nat, n \in Nat : /\ 2 <= p /\ 2 <= n /\ p + 1 + n <= Len(doc)
                                    /\ d = SubSeq(doc, p + 2, p + 1 + n)
    BY <1>1
  <1>3. /\ d \in Seq(Int) /\ Len(d) = n
        /\ \A i \in 1..n : d[i] = doc[p + 1 + i]
    BY <1>2, Cut
  <1>4. Inside(d, doc, p + 1)
    BY <1>2, <1>3 DEF Inside
  <1>5. p + 1 \in Nat
    BY <1>2
  <1> QED  BY <1>4, <1>5

\* An element that says that it is a document of n words.
SaysDocument(d, p, n) == Container(d[p]) /\ d[p + 2] = n

\* What is embedded in a document inside doc is embedded in doc.
LEMMA InsideEmbedded ==
    ASSUME NEW doc, NEW d, NEW s, Inside(d, doc, s),
           NEW p \in Nat, 2 <= p, NEW n \in Nat, 2 <= n, p + 2 + n <= Len(d),
           SaysDocument(d, p, n)
    PROVE  SubSeq(d, p + 2, p + 1 + n) \in Embedded(doc)
  <1> DEFINE q == s + p
             t == SubSeq(d, p + 2, p + 1 + n)
             u == SubSeq(doc, q + 2, q + 1 + n)
             m == Len(d)
             k == Len(doc)
  <1>1. s \in Nat /\ s + m <= k /\ \A i \in 1..m : d[i] = doc[s + i]
    BY DEF Inside
  <1>2. d \in Seq(Int) /\ doc \in Seq(Int)
    BY DEF Inside
  <1>3. m \in Nat /\ k \in Nat
    BY <1>2, LenProperties
  <1>4. p + 2 + n <= m
    OBVIOUS
  <1> HIDE DEF t, u, m, k
  <1>5. q \in Nat /\ 2 <= q /\ q + 2 + n <= k
    BY <1>1, <1>3, <1>4
  <1>6. p \in 1..m /\ p + 2 \in 1..m /\ s + (p + 2) = q + 2
    BY <1>1, <1>3, <1>4
  <1>7. SaysDocument(doc, q, n)
    <2>1. doc[s + p] = d[p] /\ doc[s + (p + 2)] = d[p + 2]
      BY <1>1, <1>6
    <2> QED  BY <1>6, <2>1 DEF SaysDocument
  <1>8. ASSUME NEW i \in 1..n  PROVE p + 1 + i \in 1..m /\ s + (p + 1 + i) = q + 1 + i
    BY <1>1, <1>3, <1>4
  <1> HIDE DEF q
  <1>9. u \in Embedded(doc)
    <2>1. q \in 2..k - 2 /\ n \in 2..k - q - 1
      BY <1>3, <1>5
    <2>2. Container(doc[q]) /\ doc[q + 2] = n
      BY <1>7 DEF SaysDocument
    <2> QED  BY <2>1, <2>2 DEF Embedded, u, k
  <1>10. t \in Seq(Int) /\ Len(t) = n /\ \A i \in 1..n : t[i] = d[p + 1 + i]
    <2>1. p + 1 + n <= Len(d)
      BY <1>3, <1>4 DEF m
    <2> QED  BY <1>2, <2>1, Cut DEF t
  <1>11. u \in Seq(Int) /\ Len(u) = n /\ \A i \in 1..n : u[i] = doc[q + 1 + i]
    <2>1. q + 1 + n <= Len(doc)
      BY <1>3, <1>5 DEF k
    <2> QED  BY <1>2, <1>5, <2>1, Cut DEF u
  <1>12. ASSUME NEW i \in 1..n  PROVE t[i] = u[i]
    BY <1>1, <1>8, <1>10, <1>11
  <1>13. t = u
    BY <1>10, <1>11, <1>12, SeqEqual
  <1> QED  BY <1>9, <1>13 DEF t

\* An embedded document of a document that can be read.
LEMMA EmbeddedSize ==
    ASSUME NEW docs, Sound(docs), NEW d \in docs, NEW p \in Places(d), p # Len(d), Container(d[p])
    PROVE  LET n == d[p + 2]
           IN /\ n \in Nat /\ 2 <= n /\ p + 2 + n <= Len(d) /\ ElementSize(d, p) = 2 + n
              /\ ValueAt(d, p).words = SubSeq(d, p + 2, p + 1 + n)
              /\ ValueAt(d, p).words \in docs /\ p \in Nat /\ 2 <= p
  <1> DEFINE es == ElementSize(d, p)
             n  == d[p + 2]
             w  == ValueAt(d, p).words
  <1>1. d \in Seq(Int) /\ Reads(d, docs) /\ d[1] = Len(d) /\ Len(d) \in Nat
    BY DEF Sound, Reads
  <1>2. p \in Nat /\ 2 <= p /\ Element(d, p) /\ p + es <= Len(d) /\ w \in docs
    BY <1>1, PlacesOf
  <1>3. es \in Nat /\ 2 <= es
    BY <1>2, ElementSizes
  <1> HIDE DEF es
  <1>4. es = 2 + n
    <2>1. Within(d, p, es)
      BY <1>1, <1>2, <1>3 DEF Within
    <2> QED  BY <1>1, <2>1, ContainerSize DEF es
  <1>5. w = SubSeq(d, p + 2, p + es - 1)
    BY DEF ValueAt, es
  <1>6. n \in Int
    <2>1. p + 2 \in 1..Len(d) \/ es = 2
      BY <1>1, <1>2, <1>3
    <2>2. CASE p + 2 \in 1..Len(d)
      BY <1>1, <2>2
    <2>3. CASE ~(p + 2 \in 1..Len(d))
      <3>1. es = 2 /\ p + 2 <= Len(d)
        BY <1>2, <1>3, <2>1, <2>3
      <3> QED  BY <1>1, <1>2, <2>3, <3>1
    <2> QED  BY <2>2, <2>3
  <1> HIDE DEF n
  <1>7. p + es - 1 = p + 1 + n /\ n \in Nat
    BY <1>2, <1>3, <1>4, <1>6
  <1>8. 2 <= n
    <2>1. Len(w) >= 2
      BY <1>2 DEF Sound, Reads
    <2>2. Len(SubSeq(d, p + 2, p + 1 + n)) = n
      <3>1. p + 1 + n <= Len(d)
        BY <1>1, <1>2, <1>3, <1>4, <1>7
      <3> QED  BY <1>1, <1>2, <1>7, <3>1, Cut
    <2> QED  BY <1>5, <1>7, <2>1, <2>2
  <1>9. p + 2 + n <= Len(d)
    BY <1>1, <1>2, <1>3, <1>4, <1>7
  <1> QED  BY <1>2, <1>4, <1>5, <1>7, <1>8, <1>9 DEF n, es

\* A document is readable exactly if it is one of some that all can be read.
LEMMA ReadableSound ==
    ASSUME NEW doc \in Seq(Int)
    PROVE  Readable(doc) <=> \E docs : Sound(docs) /\ doc \in docs
  <1>1. ASSUME Readable(doc)  PROVE \E docs : Sound(docs) /\ doc \in docs
    <2>1. PICK docs \in SUBSET ({doc} \cup Embedded(doc)) : doc \in docs /\ \A d \in docs : Reads(d, docs)
      BY <1>1 DEF Readable
    <2>2. \A d \in docs : d \in Seq(Int)
      <3>1. \A d \in Embedded(doc) : d \in Seq(Int)
        BY EmbeddedInside DEF Inside
      <3> QED  BY <3>1
    <2> QED  BY <2>1, <2>2 DEF Sound
  <1>2. ASSUME NEW docs, Sound(docs), doc \in docs  PROVE Readable(doc)
    <2> DEFINE S == docs \cap ({doc} \cup Embedded(doc))
    <2>1. ASSUME NEW d \in S  PROVE Reads(d, S)
      <3>1. d \in docs /\ d \in Seq(Int) /\ Reads(d, docs)
        BY <1>2 DEF Sound
      <3>2. PICK s \in Nat : Inside(d, doc, s)
        <4>1. CASE d = doc
          <5>1. Inside(d, doc, 0)
            BY <4>1 DEF Inside
          <5> QED  BY <5>1
        <4>2. CASE d \in Embedded(doc)
          BY <4>2, EmbeddedInside
        <4> QED  BY <4>1, <4>2
      <3> HIDE DEF S
      <3>3. ASSUME NEW p \in Places(d) \ {Len(d)}, Container(d[p])
            PROVE  ValueAt(d, p).words \in S
        <4> DEFINE n == d[p + 2]
        <4>1. /\ n \in Nat /\ 2 <= n /\ p + 2 + n <= Len(d)
              /\ ValueAt(d, p).words = SubSeq(d, p + 2, p + 1 + n)
              /\ ValueAt(d, p).words \in docs /\ p \in Nat /\ 2 <= p
          BY <1>2, <3>1, <3>3, EmbeddedSize
        <4>2. SaysDocument(d, p, n)
          BY <3>3 DEF SaysDocument
        <4> HIDE DEF n
        <4>3. SubSeq(d, p + 2, p + 1 + n) \in Embedded(doc)
          BY <3>1, <3>2, <4>1, <4>2, InsideEmbedded
        <4> QED  BY <4>1, <4>3 DEF S
      <3> QED  BY <3>1, <3>3 DEF Reads
    <2>2. doc \in S /\ S \in SUBSET ({doc} \cup Embedded(doc))
      BY <1>2
    <2> HIDE DEF S
    <2> QED  BY <2>1, <2>2 DEF Readable
  <1> QED  BY <1>1, <1>2

-----------------------------------------------------------------------------
\* The call has found the element and edited it.
Found(e) == e.res.is = "found"

\* What one call returns where there is a document.
LEMMA OneCall ==
    ASSUME NEW docs, Sound(docs), NEW buf, Level(buf, docs), NEW new, NEW key, NEW more, NEW r
    PROVE  LET pos  == Match(buf, key)
               size == ElementSize(buf, pos)
               e    == editMatchingElement(buf, new, key, more, r)
           IN /\ pos = buf[1] => e = Edited(buf, 0, Absent)
              /\ pos # buf[1] /\ more > 0 /\ ~Container(buf[pos]) =>
                    e = Edited(buf, 0, TooDeep(1))
              /\ pos # buf[1] /\ more > 0 /\ Container(buf[pos]) /\ ~Found(r) =>
                    e = Edited(buf, 0, IF r.res.is = "tooDeep" THEN TooDeep(r.res.at + 1) ELSE r.res)
              /\ pos # buf[1] /\ more > 0 /\ Container(buf[pos]) /\ Found(r) =>
                    e = resized(buf, aroundSubDoc(buf, pos, r)) /\ Found(e)
              /\ pos # buf[1] /\ ~(more > 0) /\ new = Nothing =>
                    e = resized(buf, removeElement(buf, pos, size)) /\ Found(e)
              /\ pos # buf[1] /\ ~(more > 0) /\ new # Nothing =>
                    e = resized(buf, replaceElement(buf, new, pos, size)) /\ Found(e)
  <1> DEFINE pos  == Match(buf, key)
             size == ElementSize(buf, pos)
             e    == editMatchingElement(buf, new, key, more, r)
             edit == IF more > 0           THEN recurseIntoSubDoc(buf, pos, r)
                     ELSE IF new = Nothing THEN removeElement(buf, pos, size)
                     ELSE replaceElement(buf, new, pos, size)
  <1>1. e = IF pos >= buf[1] THEN Edited(buf, 0, Absent)
            ELSE IF ~Element(buf, pos) THEN Edited(<< >>, 0, Invalid)
            ELSE IF edit.res.is # "found" THEN Edited(buf, 0, edit.res)
            ELSE resized(buf, edit)
    BY DEF editMatchingElement
  <1>2. buf[1] \in Nat
    BY DEF Level
  <1>3. pos # buf[1] => pos \in Nat /\ pos < buf[1] /\ Element(buf, pos)
    BY MatchIs, FoundInBuffer
  <1> HIDE DEF e, pos, size
  <1>4. CASE pos = buf[1]
    BY <1>1, <1>2, <1>4 DEF e, pos, size
  <1>5. CASE pos # buf[1]
    <2>1. e = IF edit.res.is # "found" THEN Edited(buf, 0, edit.res) ELSE resized(buf, edit)
      BY <1>1, <1>2, <1>3, <1>5
    <2>2. CASE more > 0
      <3>1. edit = recurseIntoSubDoc(buf, pos, r)
        BY <2>2
      <3> HIDE DEF edit
      <3>2. CASE ~Container(buf[pos])
        <4>1. edit = Edited(buf, 0, TooDeep(1))
          BY <3>1, <3>2 DEF recurseIntoSubDoc
        <4>2. e = Edited(buf, 0, TooDeep(1))
          BY <2>1, <4>1 DEF Edited, TooDeep
        <4> QED  BY <1>5, <2>2, <3>2, <4>2 DEF e, pos, size
      <3>3. CASE Container(buf[pos]) /\ ~Found(r)
        <4> DEFINE res == IF r.res.is = "tooDeep" THEN TooDeep(r.res.at + 1) ELSE r.res
        <4>1. edit = Edited(buf, 0, res)
          BY <3>1, <3>3 DEF recurseIntoSubDoc, Found
        <4>2. res.is # "found"
          BY <3>3 DEF Found, TooDeep
        <4> HIDE DEF res
        <4>3. e = Edited(buf, 0, res)
          BY <2>1, <4>1, <4>2 DEF Edited
        <4> QED  BY <1>5, <2>2, <3>3, <4>3 DEF e, pos, size, res
      <3>4. CASE Container(buf[pos]) /\ Found(r)
        <4>1. edit = aroundSubDoc(buf, pos, r)
          BY <3>1, <3>4 DEF recurseIntoSubDoc, Found
        <4>2. edit.res = r.res
          BY <4>1 DEF aroundSubDoc, Edited
        <4>3. e = resized(buf, edit)
          BY <2>1, <3>4, <4>2 DEF Found
        <4>4. Found(e)
          BY <3>4, <4>2, <4>3 DEF Found, resized, Edited
        <4> QED  BY <1>5, <2>2, <3>4, <4>1, <4>3, <4>4 DEF e, pos, size
      <3> QED  BY <3>2, <3>3, <3>4
    <2>3. CASE ~(more > 0) /\ new = Nothing
      <3>1. edit = removeElement(buf, pos, size)
        BY <2>3
      <3> HIDE DEF edit
      <3>2. edit.res.is = "found"
        BY <3>1 DEF removeElement, Edited
      <3>3. e = resized(buf, edit)
        BY <2>1, <3>2
      <3>4. Found(e)
        BY <3>2, <3>3 DEF Found, resized, Edited
      <3> QED  BY <1>5, <2>3, <3>1, <3>3, <3>4 DEF e, pos, size
    <2>4. CASE ~(more > 0) /\ new # Nothing
      <3>1. edit = replaceElement(buf, new, pos, size)
        BY <2>4
      <3> HIDE DEF edit
      <3>2. edit.res.is = "found"
        BY <3>1 DEF replaceElement, Edited
      <3>3. e = resized(buf, edit)
        BY <2>1, <3>2
      <3>4. Found(e)
        BY <3>2, <3>3 DEF Found, resized, Edited
      <3> QED  BY <1>5, <2>4, <3>1, <3>3, <3>4 DEF e, pos, size
    <2> QED  BY <2>2, <2>3, <2>4
  <1> QED  BY <1>4, <1>5

\* Where the edit of an element is that of an embedded document.
Goes(buf, key) ==
    LET pos == Match(buf, key)
    IN pos # buf[1] /\ Container(buf[pos])

\* A call that has not edited anything returns the buffer that it was given.
LEMMA UnfoundKeeps ==
    ASSUME NEW docs, Sound(docs), NEW buf, Level(buf, docs), NEW new, NEW key, NEW more \in Nat, NEW r
    PROVE  LET e == editMatchingElement(buf, new, key, more, r)
           IN /\ ~Found(e) => e.raw = buf /\ e.added = 0
              /\ Found(e) /\ more > 0 => Goes(buf, key) /\ Found(r)
              /\ Found(e) => Match(buf, key) # buf[1]
  <1> DEFINE pos  == Match(buf, key)
             size == ElementSize(buf, pos)
             e    == editMatchingElement(buf, new, key, more, r)
  <1>1. /\ pos = buf[1] => e = Edited(buf, 0, Absent)
        /\ pos # buf[1] /\ more > 0 /\ ~Container(buf[pos]) => e = Edited(buf, 0, TooDeep(1))
        /\ pos # buf[1] /\ more > 0 /\ Container(buf[pos]) /\ ~Found(r) =>
              e = Edited(buf, 0, IF r.res.is = "tooDeep" THEN TooDeep(r.res.at + 1) ELSE r.res)
        /\ pos # buf[1] /\ more > 0 /\ Container(buf[pos]) /\ Found(r) => Found(e)
        /\ pos # buf[1] /\ ~(more > 0) => Found(e)
    BY OneCall
  <1>2. Goes(buf, key) <=> pos # buf[1] /\ Container(buf[pos])
    BY DEF Goes
  <1> HIDE DEF e, pos
  <1>3. CASE pos = buf[1]
    <2>1. e.raw = buf /\ e.added = 0 /\ e.res.is = "absent"
      BY <1>1, <1>3 DEF Edited, Absent
    <2> QED  BY <1>3, <2>1 DEF e, pos, Found
  <1>4. CASE pos # buf[1] /\ more > 0 /\ ~Container(buf[pos])
    <2>1. e.raw = buf /\ e.added = 0 /\ e.res.is = "tooDeep"
      BY <1>1, <1>4 DEF Edited, TooDeep
    <2> QED  BY <1>4, <2>1 DEF e, pos, Found
  <1>5. CASE pos # buf[1] /\ more > 0 /\ Container(buf[pos]) /\ ~Found(r)
    <2> DEFINE res == IF r.res.is = "tooDeep" THEN TooDeep(r.res.at + 1) ELSE r.res
    <2>1. res.is = r.res.is
      BY DEF TooDeep
    <2>2. e = Edited(buf, 0, res)
      BY <1>1, <1>5
    <2> HIDE DEF res
    <2>3. e.raw = buf /\ e.added = 0 /\ e.res.is = r.res.is
      BY <2>1, <2>2 DEF Edited
    <2> QED  BY <1>2, <1>5, <2>3 DEF e, pos, Found
  <1>6. CASE pos # buf[1] /\ more > 0 /\ Container(buf[pos]) /\ Found(r)
    <2>1. Found(e)
      BY <1>1, <1>6
    <2>2. e.res.is # "invalid"
      BY <2>1 DEF Found
    <2> QED  BY <1>2, <1>6, <2>1, <2>2 DEF e, pos
  <1>7. CASE pos # buf[1] /\ ~(more > 0)
    <2>1. Found(e)
      BY <1>1, <1>7
    <2>2. e.res.is # "invalid"
      BY <2>1 DEF Found
    <2> QED  BY <1>7, <2>1, <2>2 DEF e, pos
  <1> QED  BY <1>3, <1>4, <1>5, <1>6, <1>7

-----------------------------------------------------------------------------
\* What is left of a buffer behind the type and the key of an element.
LEMMA Rest ==
    ASSUME NEW W, NEW a \in Seq(W), NEW pos \in Nat, pos + 1 <= Len(a)
    PROVE  /\ From(a, pos) \in Seq(W) /\ Len(From(a, pos)) = Len(a) - pos - 1
           /\ \A i \in 1..Len(a) - pos - 1 : From(a, pos)[i] = a[pos + 1 + i]
  <1> DEFINE n == Len(a) - pos - 1
  <1>1. n \in Nat /\ pos + 1 + n = Len(a)
    OBVIOUS
  <1> HIDE DEF n
  <1>2. From(a, pos) = SubSeq(a, pos + 2, pos + 1 + n)
    BY <1>1 DEF From
  <1>3. pos + 1 + n <= Len(a)
    BY <1>1
  <1> QED  BY <1>1, <1>2, <1>3, Cut DEF n

\* An embedded document is read from where its value begins, as long as it says.
LEMMA ContainerReads ==
    ASSUME NEW out \in Seq(Int), NEW pos \in Nat, 2 <= pos, pos + 1 <= Len(out), Container(out[pos]),
           NEW inner, inner = From(out, pos), inner[1] \in Nat, 1 <= inner[1], inner[1] <= Len(inner)
    PROVE  /\ Element(out, pos) /\ ElementSize(out, pos) = 2 + inner[1]
           /\ ValueAt(out, pos).words = Front(inner)
  <1> DEFINE n  == inner[1]
             at == pos + 2
  <1>1. Len(out) \in Nat
    OBVIOUS
  <1>2. /\ inner \in Seq(Int) /\ Len(inner) = Len(out) - pos - 1
        /\ \A i \in 1..Len(out) - pos - 1 : inner[i] = out[pos + 1 + i]
    BY Rest
  <1>3. n \in Nat /\ 1 <= n /\ n <= Len(out) - pos - 1
    BY <1>2
  <1>4. at \in Nat /\ at <= Len(out) /\ out[at] = n
    <2>1. at \in Nat /\ at <= Len(out) /\ 1 \in 1..Len(out) - pos - 1
      BY <1>1, <1>3
    <2>2. inner[1] = out[pos + 1 + 1]
      BY <1>2, <2>1
    <2> QED  BY <2>1, <2>2
  <1> HIDE DEF n, at
  <1>5. ValueSize(out, at, out[pos]) = n
    BY <1>4, MeasuredSizes DEF Container
  <1>6. ElementSize(out, pos) = 2 + n /\ Element(out, pos)
    <2>1. ElementSize(out, pos) = 2 + n
      BY <1>5 DEF ElementSize, at
    <2>2. pos + 2 + n <= Len(out) + 1
      BY <1>1, <1>3
    <2>3. ValueSize(out, pos + 2, out[pos]) = n
      BY <1>5 DEF at
    <2>4. Element(out, pos)
      BY <1>3, <2>2, <2>3 DEF Element
    <2> QED  BY <2>1, <2>4
  <1>7. ValueAt(out, pos).words = SubSeq(out, pos + 2, pos + 1 + n)
    <2>1. pos + ElementSize(out, pos) - 1 = pos + 1 + n
      BY <1>3, <1>6
    <2> QED  BY <2>1 DEF ValueAt
  <1>8. SubSeq(out, pos + 2, pos + 1 + n) = Front(inner)
    <2> DEFINE t == SubSeq(out, pos + 2, pos + 1 + n)
               u == Front(inner)
    <2>1. t \in Seq(Int) /\ Len(t) = n /\ \A i \in 1..n : t[i] = out[pos + 1 + i]
      <3>1. pos + 1 + n <= Len(out)
        BY <1>1, <1>3
      <3>2. out \in Seq(Int) /\ pos \in Nat /\ n \in Nat
        BY <1>3
      <3> QED  BY ONLY <3>1, <3>2, Cut DEF t
    <2>2. u \in Seq(Int) /\ Len(u) = n /\ \A i \in 1..n : u[i] = inner[i]
      BY <1>2, FrontIs DEF n
    <2>3. ASSUME NEW i \in 1..n  PROVE inner[i] = out[pos + 1 + i]
      <3>1. i \in 1..Len(out) - pos - 1
        BY <1>1, <1>3
      <3> QED  BY <1>2, <3>1
    <2> HIDE DEF t, u
    <2>4. t = u
      BY <2>1, <2>2, <2>3, SeqEqual
    <2> QED  BY <2>4 DEF t, u
  <1> QED  BY <1>6, <1>7, <1>8 DEF n

\* The edit of an embedded document begins with a document again.
LEMMA LevelBelow ==
    ASSUME NEW docs, Sound(docs), NEW buf, Level(buf, docs), NEW pos \in Places(Front(buf)),
           pos # buf[1], Container(buf[pos])
    PROVE  Level(From(buf, pos), docs)
  <1> DEFINE doc   == Front(buf)
             inner == From(buf, pos)
             n     == doc[pos + 2]
  <1>1. buf \in Seq(Int) /\ buf[1] \in Nat /\ 2 <= buf[1] /\ buf[1] <= Len(buf) /\ doc \in docs
    BY DEF Level
  <1>2. doc \in Seq(Int) /\ Len(doc) = buf[1] /\ \A i \in 1..buf[1] : doc[i] = buf[i]
    <2>1. 1 <= buf[1]
      BY <1>1
    <2> QED  BY <1>1, <2>1, FrontIs
  <1>3. /\ pos \in Nat /\ 2 <= pos /\ pos < buf[1] /\ buf[pos] = doc[pos]
        /\ ValueAt(buf, pos).words \in docs
    BY FoundInBuffer
  <1>4. n \in Nat /\ 2 <= n /\ pos + 2 + n <= Len(doc)
    BY <1>1, <1>2, <1>3, EmbeddedSize
  <1> HIDE DEF doc
  <1>5. Len(buf) \in Nat /\ pos + 1 <= Len(buf)
    <2>1. Len(buf) \in Nat
      BY <1>1
    <2> QED  BY <1>1, <1>3, <2>1
  <1>6. inner \in Seq(Int) /\ Len(inner) = Len(buf) - pos - 1
    BY <1>1, <1>3, <1>5, Rest
  <1>7. inner[1] = n
    <2>1. 1 \in 1..Len(buf) - pos - 1 /\ pos + 2 \in 1..buf[1] /\ pos + 1 + 1 = pos + 2
      <3>1. n \in Nat /\ pos + 2 + n <= buf[1]
        BY <1>2, <1>4
      <3> HIDE DEF n
      <3> QED  BY <1>1, <1>3, <1>4, <1>5, <3>1
    <2>2. inner[1] = buf[pos + 1 + 1]
      BY <1>1, <1>3, <1>5, <2>1, Rest
    <2> QED  BY <1>2, <2>1, <2>2
  <1> HIDE DEF n
  <1>8. n <= Len(inner) /\ 1 <= n
    <2>1. pos + 2 + n <= Len(buf)
      <3>1. pos + 2 + n <= buf[1]
        BY <1>2, <1>4
      <3> QED  BY <1>1, <1>3, <1>4, <1>5, <3>1
    <2> QED  BY <1>3, <1>4, <1>5, <1>6, <2>1
  <1>9. ValueAt(buf, pos).words = Front(inner)
    BY <1>1, <1>3, <1>4, <1>5, <1>7, <1>8, ContainerReads
  <1> HIDE DEF inner
  <1> QED  BY <1>3, <1>4, <1>6, <1>7, <1>8, <1>9 DEF Level, inner

-----------------------------------------------------------------------------
\* The calls of an edit, from the one on the whole buffer down.
LEMMA CallsLaws ==
    ASSUME NEW buf, NEW new, NEW pointer, NEW n \in Nat, NEW down, down = Down(buf, pointer, n),
           NEW up, up = Up(down, new, pointer, n)
    PROVE  /\ down[0] = buf
           /\ \A k \in 0..n : k < n => down[k + 1] = From(down[k], Match(down[k], pointer[k + 1]))
           /\ \A k \in 0..n : \E r : /\ k < n => r = up[k + 1]
                                     /\ up[k] = editMatchingElement(down[k], new, pointer[k + 1], n - k, r)
  <1>1. down[0] = buf /\ \A k \in 1..n : down[k] = From(down[k - 1], Match(down[k - 1], pointer[k]))
    BY DownLaws
  <1>2. ASSUME NEW k \in 0..n, k < n
        PROVE  down[k + 1] = From(down[k], Match(down[k], pointer[k + 1]))
    <2>1. k + 1 \in 1..n /\ (k + 1) - 1 = k
      BY <1>2
    <2> QED  BY <1>1, <2>1
  <1>3. /\ up[n] = editMatchingElement(down[n], new, pointer[n + 1], 0, Nothing)
        /\ \A k \in 0..n : k < n =>
              up[k] = editMatchingElement(down[k], new, pointer[k + 1], n - k, up[k + 1])
    BY UpLaws
  <1>4. ASSUME NEW k \in 0..n
        PROVE  \E r : /\ k < n => r = up[k + 1]
                      /\ up[k] = editMatchingElement(down[k], new, pointer[k + 1], n - k, r)
    <2>1. CASE k < n
      BY <1>3, <2>1
    <2>2. CASE k = n
      <3>1. n - k = 0 /\ ~(k < n)
        BY <2>2
      <3> QED  BY <1>3, <2>2, <3>1
    <2> QED  BY <2>1, <2>2
  <1> QED  BY <1>1, <1>2, <1>4

\* An edit that has found its element has found it at every level.
LEMMA FoundAtEveryLevel ==
    ASSUME NEW docs, Sound(docs), NEW buf, Level(buf, docs), NEW new, NEW pointer, NEW n \in Nat,
           NEW down, down = Down(buf, pointer, n), NEW up, up = Up(down, new, pointer, n),
           Found(up[0])
    PROVE  \A k \in 0..n : /\ Level(down[k], docs) /\ Found(up[k])
                           /\ Match(down[k], pointer[k + 1]) # down[k][1]
                           /\ k < n => Goes(down[k], pointer[k + 1])
  <1> DEFINE At(k) == Level(down[k], docs) /\ Found(up[k])
             S     == {k \in 0..n : At(k)}
  <1>1. /\ down[0] = buf
        /\ \A k \in 0..n : k < n => down[k + 1] = From(down[k], Match(down[k], pointer[k + 1]))
        /\ \A k \in 0..n : \E r : /\ k < n => r = up[k + 1]
                                  /\ up[k] = editMatchingElement(down[k], new, pointer[k + 1], n - k, r)
    BY CallsLaws
  <1>2. ASSUME NEW k \in 0..n, At(k)
        PROVE  /\ Match(down[k], pointer[k + 1]) # down[k][1]
               /\ k < n => Goes(down[k], pointer[k + 1]) /\ Found(up[k + 1])
    <2>1. PICK r : /\ k < n => r = up[k + 1]
                   /\ up[k] = editMatchingElement(down[k], new, pointer[k + 1], n - k, r)
      BY <1>1
    <2>2. n - k \in Nat /\ (k < n => n - k > 0)
      OBVIOUS
    <2>3. /\ Match(down[k], pointer[k + 1]) # down[k][1]
          /\ n - k > 0 => Goes(down[k], pointer[k + 1]) /\ Found(r)
      BY <1>2, <2>1, <2>2, UnfoundKeeps
    <2> QED  BY <2>1, <2>2, <2>3
  <1>3. 0 \in S
    BY <1>1
  <1>4. ASSUME NEW k \in 0..n, k < n, k \in S  PROVE k + 1 \in S
    <2>1. Goes(down[k], pointer[k + 1]) /\ Found(up[k + 1])
      BY <1>2, <1>4
    <2> DEFINE pos == Match(down[k], pointer[k + 1])
    <2>2. pos \in Places(Front(down[k])) /\ pos # down[k][1] /\ Container(down[k][pos])
      BY <1>4, <2>1, MatchIs DEF Goes
    <2>3. Level(From(down[k], pos), docs)
      BY <1>4, <2>2, LevelBelow
    <2>4. Level(down[k + 1], docs)
      BY <1>1, <1>4, <2>3
    <2>5. k + 1 \in 0..n
      BY <1>4
    <2> QED  BY <2>1, <2>4, <2>5
  <1>5. 0..n \subseteq S
    <2> HIDE DEF S
    <2> QED  BY <1>3, <1>4, GoesOn
  <1> QED  BY <1>2, <1>5

\* Where each level edits.
Matches(down, pointer, n) == [k \in 0..n |-> Match(down[k], pointer[k + 1])]

\* The recursion of the code, where it finds the element, is an edit along a way
\* down to it and back up, and goes through the elements with the keys of the
\* pointer (editMatchingElement, recurseIntoSubDoc): the lengths of all documents
\* follow and nothing else changes.
THEOREM FoundEditsAlong ==
    ASSUME NEW docs, Sound(docs), NEW buf, Level(buf, docs), NEW new, NEW pointer, NEW n \in Nat,
           NEW down, down = Down(buf, pointer, n), NEW up, up = Up(down, new, pointer, n),
           Found(up[0])
    PROVE  LET at == Matches(down, pointer, n)
           IN /\ Path(Int, n, down, at) /\ EditedAlong(n, down, at, new, up)
              /\ \A k \in 0..n : down[k][at[k] + 1] = pointer[k + 1]
  <1> DEFINE at == Matches(down, pointer, n)
  <1>1. \A k \in 0..n : /\ Level(down[k], docs) /\ Found(up[k])
                        /\ Match(down[k], pointer[k + 1]) # down[k][1]
                        /\ k < n => Goes(down[k], pointer[k + 1])
    BY FoundAtEveryLevel
  <1>2. \A k \in 0..n : at[k] = Match(down[k], pointer[k + 1])
    BY DEF Matches
  <1> HIDE DEF at
  <1>3. /\ down[0] = buf
        /\ \A k \in 0..n : k < n => down[k + 1] = From(down[k], Match(down[k], pointer[k + 1]))
        /\ \A k \in 0..n : \E r : /\ k < n => r = up[k + 1]
                                  /\ up[k] = editMatchingElement(down[k], new, pointer[k + 1], n - k, r)
    BY CallsLaws
  <1>4. ASSUME NEW k \in 0..n
        PROVE  /\ at[k] \in Places(Front(down[k])) /\ at[k] # down[k][1]
               /\ down[k][at[k] + 1] = pointer[k + 1]
               /\ k < n => Container(down[k][at[k]])
    BY <1>1, <1>2, MatchIs DEF Goes
  <1>5. ASSUME NEW k \in 0..n
        PROVE  down[k] \in Seq(Int) /\ Within(down[k], at[k], ElementSize(down[k], at[k]))
    <2>1. down[k] \in Seq(Int) /\ down[k][1] \in Nat /\ down[k][1] <= Len(down[k])
      BY <1>1 DEF Level
    <2>2. Element(down[k], at[k]) /\ at[k] + ElementSize(down[k], at[k]) <= down[k][1]
      BY <1>1, <1>4, FoundInBuffer
    <2> QED  BY <2>1, <2>2, ElementSizes DEF Within
  <1>6. Path(Int, n, down, at)
    BY <1>2, <1>3, <1>4, <1>5 DEF Path
  <1>7. ASSUME NEW k \in 0..n, k < n
        PROVE  up[k] = resized(down[k], aroundSubDoc(down[k], at[k], up[k + 1]))
    <2>1. up[k] = editMatchingElement(down[k], new, pointer[k + 1], n - k, up[k + 1])
      BY <1>3, <1>7
    <2>2. n - k > 0 /\ k + 1 \in 0..n
      BY <1>7
    <2>3. Found(up[k + 1])
      BY <1>1, <2>2
    <2> QED  BY <1>1, <1>2, <1>4, <1>7, <2>1, <2>2, <2>3, OneCall
  <1>8. LET size == ElementSize(down[n], at[n])
        IN \/ new = Nothing /\ up[n] = resized(down[n], removeElement(down[n], at[n], size))
           \/ new # Nothing /\ up[n] = resized(down[n], replaceElement(down[n], new, at[n], size))
    <2>1. PICK r : up[n] = editMatchingElement(down[n], new, pointer[n + 1], n - n, r)
      BY <1>3
    <2>2. ~(n - n > 0) /\ n \in 0..n
      OBVIOUS
    <2>3. Match(down[n], pointer[n + 1]) = at[n] /\ at[n] # down[n][1] /\ Level(down[n], docs)
      BY <1>1, <1>2, <1>4, <2>2
    <2> QED  BY <2>1, <2>2, <2>3, OneCall
  <1>9. EditedAlong(n, down, at, new, up)
    BY <1>7, <1>8 DEF EditedAlong
  <1> QED  BY <1>4, <1>6, <1>9 DEF at

-----------------------------------------------------------------------------
\* More documents to read from.
LEMMA ReadsMore ==
    ASSUME NEW doc, NEW docs, NEW more, docs \subseteq more, Reads(doc, docs)
    PROVE  Reads(doc, more)
  BY DEF Reads

\* What a value brings: documents that can be read, if it is one.
Brings(docs, new) ==
    /\ Sound(docs)
    /\ new.type \in Int /\ new.words \in Seq(Int)
    /\ new # Nothing => /\ Value(new.words, 1, new.type, Len(new.words))
                        /\ Container(new.type) => new.words \in docs

\* The document at the lowest level has a value that can be read in the place of
\* the element, or nothing.
LEMMA LowestLeaves ==
    ASSUME NEW docs, Sound(docs), NEW buf, NEW pos, NEW more,
           Within(buf, pos, ElementSize(buf, pos)), buf \in Seq(Int),
           NEW new \in [type : Int, words : Seq(Int)], Brings(more, new), NEW e,
           LET size == ElementSize(buf, pos)
           IN \/ new = Nothing /\ e = resized(buf, removeElement(buf, pos, size))
              \/ new # Nothing /\ e = resized(buf, replaceElement(buf, new, pos, size))
    PROVE  LeavesElement(e.raw, pos, ElementSize(buf, pos) + e.added, more)
  <1> DEFINE size == ElementSize(buf, pos)
  <1>1. Numbers(Int)
    BY DEF Numbers
  <1>2. size \in Nat
    BY DEF Within
  <1>3. CASE new = Nothing
    <2>1. e.added = -size
      BY <1>3 DEF resized, removeElement, Edited
    <2> HIDE DEF size
    <2>2. size + e.added = 0
      BY <1>2, <2>1
    <2> QED  BY <2>2 DEF LeavesElement, size
  <1>4. CASE new # Nothing
    <2> DEFINE type  == new.type
               words == new.words
    <2>1. /\ type \in Int /\ words \in Seq(Int) /\ Value(words, 1, type, Len(words))
          /\ Container(type) => words \in more
      BY <1>4 DEF Brings
    <2>2. new = [type |-> type, words |-> words]
      OBVIOUS
    <2> HIDE DEF type, words
    <2>3. e = resized(buf, replaceElement(buf, [type |-> type, words |-> words], pos, size))
      BY <1>4, <2>2
    <2>4. e.added = Len(words) + 2 - size /\ e.raw[pos] = type
      BY <1>1, <2>1, <2>3, ReplaceSplices
    <2>5. /\ ValueAt(e.raw, pos) = [type |-> type, words |-> words]
          /\ Element(e.raw, pos) /\ ElementSize(e.raw, pos) = 2 + Len(words)
      BY <1>1, <2>1, <2>3, ReplacementReadsBack
    <2> HIDE DEF size
    <2>6. size + e.added = 2 + Len(words)
      <3>1. Len(words) \in Nat
        BY <2>1
      <3> QED  BY <1>2, <2>4, <3>1
    <2>7. Container(e.raw[pos]) => ValueAt(e.raw, pos).words \in more
      BY <2>1, <2>4, <2>5
    <2> QED  BY <2>5, <2>6, <2>7 DEF LeavesElement, size
  <1> QED  BY <1>3, <1>4

\* A level above has the document that was edited below in the place of the element.
LEMMA UpperLeaves ==
    ASSUME NEW docs, Sound(docs), NEW buf, NEW pos, NEW out, NEW added,
           SplicedLevel(buf, pos, out, added, docs),
           Container(buf[pos]), out[pos] = buf[pos],
           NEW inner, inner = From(out, pos), inner[1] = From(buf, pos)[1] + added,
           inner[1] \in Nat, 2 <= inner[1], inner[1] <= Len(inner),
           NEW more, Front(inner) \in more
    PROVE  LeavesElement(out, pos, ElementSize(buf, pos) + added, more)
  <1>1. /\ buf \in Seq(Int) /\ out \in Seq(Int) /\ Len(buf) \in Nat /\ Len(out) \in Nat
        /\ added \in Int /\ pos \in Nat /\ 2 <= pos
        /\ ElementSize(buf, pos) \in Nat /\ 2 <= ElementSize(buf, pos)
        /\ ElementSize(buf, pos) + added >= 0
        /\ buf[1] \in Nat /\ pos + ElementSize(buf, pos) <= buf[1] /\ buf[1] <= Len(buf)
        /\ out[1] \in Nat /\ out[1] <= Len(out)
        /\ pos + (ElementSize(buf, pos) + added) <= out[1]
    BY SpliceNumbers
  <1>2. Level(buf, docs) /\ pos \in Places(Front(buf)) /\ pos # buf[1]
    BY DEF SplicedLevel
  <1>3. Level(From(buf, pos), docs)
    BY <1>2, LevelBelow
  <1> DEFINE old == From(buf, pos)
             n   == inner[1]
             m   == old[1]
  <1>4. old[1] \in Nat /\ 2 <= old[1] /\ old[1] <= Len(old)
    BY <1>3 DEF Level
  <1>5. pos + 1 <= Len(buf)
    <2> DEFINE size == ElementSize(buf, pos)
    <2> HIDE DEF size
    <2>1. size \in Nat /\ 2 <= size /\ pos + size <= buf[1]
      BY <1>1 DEF size
    <2> QED  BY <1>1, <2>1
  <1>6. ElementSize(buf, pos) = 2 + old[1]
    <2>1. 1 <= old[1]
      BY <1>4
    <2> QED  BY <1>1, <1>4, <1>5, <2>1, ContainerReads
  <1> HIDE DEF old
  <1>7. ElementSize(buf, pos) + added = 2 + n
    BY <1>1, <1>4, <1>6 DEF old
  <1>8. pos + 1 <= Len(out)
    <2>1. pos + (2 + n) <= out[1] /\ n \in Nat
      BY <1>1, <1>7
    <2> HIDE DEF n
    <2> QED  BY <1>1, <2>1
  <1>9. 1 <= n
    OBVIOUS
  <1>10. Element(out, pos) /\ ElementSize(out, pos) = 2 + n /\ ValueAt(out, pos).words = Front(inner)
    BY <1>1, <1>8, <1>9, ContainerReads
  <1> HIDE DEF n
  <1> QED  BY <1>7, <1>10 DEF LeavesElement

\* The length at the front of what a splice makes.
LEMMA SpliceFront ==
    ASSUME NEW docs, Sound(docs), NEW buf, NEW pos, NEW out, NEW added,
           SplicedLevel(buf, pos, out, added, docs)
    PROVE  /\ out \in Seq(Int) /\ out[1] \in Nat /\ 2 <= out[1] /\ out[1] <= Len(out)
           /\ out[1] = buf[1] + added /\ Len(out) = Len(buf) + added
  <1>1. /\ buf \in Seq(Int) /\ out \in Seq(Int) /\ Len(buf) \in Nat /\ Len(out) \in Nat
        /\ added \in Int /\ pos \in Nat /\ 2 <= pos
        /\ ElementSize(buf, pos) \in Nat /\ 2 <= ElementSize(buf, pos)
        /\ ElementSize(buf, pos) + added >= 0
        /\ buf[1] \in Nat /\ pos + ElementSize(buf, pos) <= buf[1] /\ buf[1] <= Len(buf)
        /\ out[1] = buf[1] + added /\ Len(out) = Len(buf) + added
        /\ out[1] \in Nat /\ 2 <= out[1] /\ out[1] <= Len(out)
        /\ pos + (ElementSize(buf, pos) + added) <= out[1]
    BY SpliceNumbers
  <1> QED  BY ONLY <1>1

\* What an edit leaves at its levels: documents that can be read.
EditLeaves(docs, more, n, down, at, up) ==
    /\ Sound(more) /\ docs \subseteq more
    /\ \A k \in 0..n :
          /\ SplicedLevel(down[k], at[k], up[k].raw, up[k].added, docs)
          /\ LeavesElement(up[k].raw, at[k], ElementSize(down[k], at[k]) + up[k].added, more)
          /\ Front(up[k].raw) \in more

\* After an edit all documents can be read, from the one that begins the buffer down.
LEMMA EditReads ==
    ASSUME NEW docs, Sound(docs), NEW buf, Level(buf, docs),
           NEW new \in [type : Int, words : Seq(Int)], NEW own, Brings(own, new),
           NEW pointer, NEW n \in Nat,
           NEW down, down = Down(buf, pointer, n), NEW up, up = Up(down, new, pointer, n),
           Found(up[0])
    PROVE  \E more : EditLeaves(docs, more, n, down, Matches(down, pointer, n), up)
  <1> DEFINE at    == Matches(down, pointer, n)
             after == {Front(up[k].raw) : k \in 0..n}
             more  == docs \cup own \cup after
             At(k) == SplicedLevel(down[k], at[k], up[k].raw, up[k].added, docs)
  <1>1. Path(Int, n, down, at) /\ EditedAlong(n, down, at, new, up)
    BY FoundEditsAlong
  <1>2. \A k \in 0..n : /\ Level(down[k], docs)
                        /\ at[k] \in Places(Front(down[k])) /\ at[k] # down[k][1]
    <2>1. ASSUME NEW k \in 0..n
          PROVE  /\ Level(down[k], docs)
                 /\ at[k] \in Places(Front(down[k])) /\ at[k] # down[k][1]
      <3>1. Level(down[k], docs) /\ Match(down[k], pointer[k + 1]) # down[k][1]
        BY FoundAtEveryLevel
      <3>2. at[k] = Match(down[k], pointer[k + 1])
        BY DEF Matches
      <3> QED  BY <3>1, <3>2, MatchIs
    <2> QED  BY <2>1
  <1> HIDE DEF at
  <1>3. \A k \in 0..n : /\ SplicedAt(Int, k, down, at, up)
                        /\ up[k].added = up[n].added
                        /\ k < n => /\ up[k].raw[at[k]] = down[k][at[k]]
                                    /\ up[k].raw[at[k] + 1] = down[k][at[k] + 1]
                                    /\ From(up[k].raw, at[k]) = up[k + 1].raw
    <2>1. Path(Int, n, down, at) /\ EditedAlong(n, down, at, new, up) /\ Numbers(Int)
      BY <1>1 DEF Numbers
    <2> QED  BY ONLY <2>1, new \in [type : Int, words : Seq(Int)], EveryLengthFollows
  <1>4. ASSUME NEW k \in 0..n  PROVE At(k)
    BY <1>2, <1>3 DEF SplicedLevel, SplicedAt
  <1>5. ASSUME NEW k \in 0..n
        PROVE  /\ up[k].raw \in Seq(Int) /\ up[k].raw[1] \in Nat /\ 2 <= up[k].raw[1]
               /\ up[k].raw[1] <= Len(up[k].raw)
               /\ up[k].raw[1] = down[k][1] + up[k].added
    <2>1. SplicedLevel(down[k], at[k], up[k].raw, up[k].added, docs)
      BY <1>4
    <2> QED  BY <2>1, SpliceFront
  <1> HIDE DEF At
  <1>6. ASSUME NEW k \in 0..n
        PROVE  Front(up[k].raw) \in Seq(Int) /\ Front(up[k].raw) \in more
    <2>1. Front(up[k].raw) \in after
      OBVIOUS
    <2>2. 1 <= up[k].raw[1]
      BY <1>5
    <2> QED  BY <1>5, <2>1, <2>2, FrontIs
  <1>7. ASSUME NEW d \in after  PROVE \E k \in 0..n : d = Front(up[k].raw)
    OBVIOUS
  <1>8. docs \subseteq more /\ own \subseteq more /\ \A d \in more : d \in docs \/ d \in own \/ d \in after
    OBVIOUS
  <1> HIDE DEF more, after
  <1>9. ASSUME NEW k \in 0..n
         PROVE  LeavesElement(up[k].raw, at[k], ElementSize(down[k], at[k]) + up[k].added, more)
    <2>1. CASE k = n
      <3>1. down[n] \in Seq(Int) /\ Within(down[n], at[n], ElementSize(down[n], at[n]))
        BY <1>1 DEF Path
      <3>2. LET size == ElementSize(down[n], at[n])
            IN \/ new = Nothing /\ up[n] = resized(down[n], removeElement(down[n], at[n], size))
               \/ new # Nothing /\ up[n] = resized(down[n], replaceElement(down[n], new, at[n], size))
        BY <1>1 DEF EditedAlong
      <3>3. LeavesElement(up[n].raw, at[n], ElementSize(down[n], at[n]) + up[n].added, own)
        BY <3>1, <3>2, LowestLeaves
      <3> QED  BY <1>8, <2>1, <3>3 DEF LeavesElement
    <2>2. CASE k < n
      <3>1. k + 1 \in 0..n
        BY <2>2
      <3>2. SplicedLevel(down[k], at[k], up[k].raw, up[k].added, docs)
        BY <1>4 DEF At
      <3>3. Container(down[k][at[k]]) /\ down[k + 1] = From(down[k], at[k])
        BY <1>1, <2>2 DEF Path
      <3>4. up[k].raw[at[k]] = down[k][at[k]] /\ From(up[k].raw, at[k]) = up[k + 1].raw
        BY <1>3, <2>2
      <3>5. up[k + 1].added = up[k].added
        <4>1. up[k].added = up[n].added
          BY <1>3
        <4>2. up[k + 1].added = up[n].added
          BY <1>3, <3>1
        <4> QED  BY <4>1, <4>2
      <3> DEFINE inner == up[k + 1].raw
      <3>6. /\ inner[1] = From(down[k], at[k])[1] + up[k].added
            /\ inner[1] \in Nat /\ 2 <= inner[1] /\ inner[1] <= Len(inner)
        BY <1>5, <3>1, <3>3, <3>5
      <3>7. Front(inner) \in more /\ inner = From(up[k].raw, at[k])
        BY <1>6, <3>1, <3>4
      <3> HIDE DEF inner
      <3> QED  BY <3>2, <3>3, <3>4, <3>6, <3>7, UpperLeaves
    <2> QED  BY <2>1, <2>2
  <1>10. ASSUME NEW d \in after  PROVE d \in Seq(Int) /\ Reads(d, more)
    <2>1. PICK k \in 0..n : d = Front(up[k].raw)
      BY <1>7
    <2>2. SplicedLevel(down[k], at[k], up[k].raw, up[k].added, docs)
      BY <1>4 DEF At
    <2>3. Reads(Front(up[k].raw), more)
      BY <1>8, <1>9, <2>2, SpliceReads
    <2> QED  BY <1>6, <2>1, <2>3
  <1>11. Sound(more)
    <2>1. ASSUME NEW d \in docs  PROVE d \in Seq(Int) /\ Reads(d, more)
      BY <1>8, ReadsMore DEF Sound
    <2>2. ASSUME NEW d \in own  PROVE d \in Seq(Int) /\ Reads(d, more)
      <3>1. Sound(own)
        BY DEF Brings
      <3> QED  BY <1>8, <3>1, ReadsMore DEF Sound
    <2> QED  BY <1>8, <1>10, <2>1, <2>2 DEF Sound
  <1>12. \A k \in 0..n : /\ SplicedLevel(down[k], at[k], up[k].raw, up[k].added, docs)
                         /\ LeavesElement(up[k].raw, at[k],
                                          ElementSize(down[k], at[k]) + up[k].added, more)
                         /\ Front(up[k].raw) \in more
    BY <1>4, <1>6, <1>9 DEF At
  <1> QED  BY <1>8, <1>11, <1>12 DEF EditLeaves, at

\* A buffer as long as it says is the document that it begins with.
LEMMA WholeFront ==
    ASSUME NEW buf \in Seq(Int), buf[1] = Len(buf), 1 <= Len(buf)
    PROVE  Front(buf) = buf
  <1>1. Len(buf) \in Nat
    OBVIOUS
  <1>2. /\ Front(buf) \in Seq(Int) /\ Len(Front(buf)) = Len(buf)
        /\ \A i \in 1..Len(buf) : Front(buf)[i] = buf[i]
    BY <1>1, FrontIs
  <1> QED  BY <1>2, SeqEqual

\* A buffer that can be read.
LEMMA ReadableLevel ==
    ASSUME NEW buf \in Seq(Int), Readable(buf)
    PROVE  \E docs : Sound(docs) /\ Level(buf, docs) /\ buf[1] = Len(buf) /\ buf \in docs
  <1>1. PICK docs : Sound(docs) /\ buf \in docs
    BY ReadableSound
  <1>2. Len(buf) >= 2 /\ buf[1] = Len(buf) /\ Len(buf) \in Nat
    BY <1>1 DEF Sound, Reads
  <1>3. 1 <= Len(buf)
    BY <1>2
  <1>4. Front(buf) = buf
    BY <1>2, <1>3, WholeFront
  <1> QED  BY <1>1, <1>2, <1>4 DEF Level

\* A value that can replace another.
Replacement(new) ==
    /\ new \in [type : Int, words : Seq(Int)]
    /\ new # Nothing => /\ Value(new.words, 1, new.type, Len(new.words))
                        /\ Container(new.type) => Readable(new.words)

\* What it brings.
LEMMA ReplacementBrings ==
    ASSUME NEW new, Replacement(new)
    PROVE  \E own : Brings(own, new)
  <1>1. new.type \in Int /\ new.words \in Seq(Int)
    BY DEF Replacement
  <1>2. CASE new # Nothing /\ Container(new.type)
    <2>1. Readable(new.words) /\ Value(new.words, 1, new.type, Len(new.words))
      BY <1>2 DEF Replacement
    <2>2. PICK own : Sound(own) /\ new.words \in own
      BY <1>1, <2>1, ReadableSound
    <2>3. Brings(own, new)
      BY <1>1, <2>1, <2>2 DEF Brings
    <2> QED  BY <2>3
  <1>3. CASE ~(new # Nothing /\ Container(new.type))
    <2>1. Sound({})
      BY DEF Sound
    <2>2. Brings({}, new)
      BY <1>1, <1>3, <2>1 DEF Brings, Replacement
    <2> QED  BY <2>2
  <1> QED  BY <1>2, <1>3

\* The call on the whole buffer.
LEMMA FirstCall ==
    ASSUME NEW buf, NEW new, NEW pointer, NEW n \in Nat,
           NEW down, down = Down(buf, pointer, n), NEW up, up = Up(down, new, pointer, n)
    PROVE  \E r : up[0] = editMatchingElement(buf, new, pointer[0 + 1], n - 0, r)
  <1>1. 0 \in 0..n
    OBVIOUS
  <1> QED  BY <1>1, CallsLaws

\* Found or not, an edit leaves a document that can be read.
LEMMA CallsStayReadable ==
    ASSUME NEW docs, Sound(docs), NEW buf, Level(buf, docs), buf[1] = Len(buf), Readable(buf),
           NEW new, Replacement(new), NEW pointer, NEW n \in Nat,
           NEW down, down = Down(buf, pointer, n), NEW up, up = Up(down, new, pointer, n)
    PROVE  up[0].raw \in Seq(Int) /\ Readable(up[0].raw)
  <1>1. PICK own : Brings(own, new)
    BY ReplacementBrings
  <1>2. new \in [type : Int, words : Seq(Int)]
    BY DEF Replacement
  <1>3. CASE Found(up[0])
    <2>1. PICK more : EditLeaves(docs, more, n, down, Matches(down, pointer, n), up)
      BY <1>1, <1>2, <1>3, EditReads
    <2>2. PICK pos : /\ Sound(more) /\ Front(up[0].raw) \in more
                     /\ SplicedLevel(buf, pos, up[0].raw, up[0].added, docs)
      <3>1. 0 \in 0..n /\ down[0] = buf
        BY CallsLaws
      <3> QED  BY <2>1, <3>1 DEF EditLeaves
    <2> DEFINE out   == up[0].raw
               added == up[0].added
    <2>3. SplicedLevel(buf, pos, out, added, docs) /\ Front(out) \in more
      BY <2>2
    <2> HIDE DEF out, added
    <2>4. /\ out \in Seq(Int) /\ 2 <= out[1] /\ out[1] \in Nat
          /\ out[1] = buf[1] + added /\ Len(out) = Len(buf) + added
      BY <2>3, SpliceFront
    <2>5. out[1] = Len(out) /\ 1 <= Len(out)
      BY <2>4
    <2>6. Front(out) = out
      BY <2>4, <2>5, WholeFront
    <2>7. out \in Seq(Int) /\ Readable(out)
      BY <2>2, <2>3, <2>4, <2>6, ReadableSound
    <2> QED  BY <2>7 DEF out
  <1>4. CASE ~Found(up[0])
    <2>1. PICK r : up[0] = editMatchingElement(buf, new, pointer[0 + 1], n - 0, r)
      BY FirstCall
    <2>2. n - 0 \in Nat
      OBVIOUS
    <2>3. up[0].raw = buf
      BY <1>4, <2>1, <2>2, UnfoundKeeps
    <2> QED  BY <2>3 DEF Level
  <1> QED  BY <1>3, <1>4

\* Replacing or removing what a pointer leads to leaves a buffer that can be read
\* to its end at every level, whatever the document, the value and the pointer
\* are (editMatchingElement).
THEOREM EditsStayReadable ==
    ASSUME NEW buf \in Seq(Int), Readable(buf), NEW new, Replacement(new),
           NEW pointer \in Seq(Int), Len(pointer) > 0
    PROVE  LET e == replaceOrRemoveInRaw(buf, new, pointer)
           IN e.raw \in Seq(Int) /\ Readable(e.raw)
  <1> DEFINE n    == Len(pointer) - 1
             down == Down(buf, pointer, n)
             up   == Up(down, new, pointer, n)
  <1>1. n \in Nat
    OBVIOUS
  <1>2. replaceOrRemoveInRaw(buf, new, pointer) = up[0]
    BY DEF replaceOrRemoveInRaw
  <1>3. PICK docs : Sound(docs) /\ Level(buf, docs) /\ buf[1] = Len(buf)
    BY ReadableLevel
  <1>4. down = Down(buf, pointer, n) /\ up = Up(down, new, pointer, n)
    OBVIOUS
  <1> HIDE DEF n, down, up
  <1>5. up[0].raw \in Seq(Int) /\ Readable(up[0].raw)
    BY <1>1, <1>3, <1>4, CallsStayReadable
  <1> QED  BY <1>2, <1>5

\* At a level of an edit that has found its element: the element is the first with
\* the key that the pointer has for the level, every other element of the document
\* has the key and the value that it had, where it moved to, and there are no more.
EditsOnly(buf, pos, key, out, added) ==
    /\ pos \in Places(Front(buf)) \ {buf[1]} /\ buf[pos + 1] = key
    /\ \A p \in Places(Front(buf)) : p < pos => buf[p + 1] # key
    /\ \A p \in Places(Front(buf)) \ {pos, buf[1]} :
          LET q == Moved(p, pos, added)
          IN out[q + 1] = buf[p + 1] /\ ValueAt(out, q) = ValueAt(buf, p)
    /\ Places(Front(out)) = PlacesAfter(buf, pos, added)

\* Of two elements of a document one is behind the other.
LEMMA Apart ==
    ASSUME NEW docs, Sound(docs), NEW buf, Level(buf, docs),
           NEW p \in Places(Front(buf)) \ {buf[1]}, NEW q \in Places(Front(buf)) \ {buf[1]}, p # q
    PROVE  p + ElementSize(buf, p) <= q \/ q + ElementSize(buf, q) <= p
  <1> DEFINE doc == Front(buf)
  <1>1. doc \in Seq(Int) /\ Reads(doc, docs)
    BY DEF Level, Sound
  <1>2. /\ p \in Nat /\ ElementSize(buf, p) = ElementSize(doc, p)
        /\ q \in Nat /\ ElementSize(buf, q) = ElementSize(doc, q)
    BY FoundInBuffer
  <1>3. p < q \/ q < p
    BY <1>2
  <1>4. /\ p < q => p + ElementSize(doc, p) <= q
        /\ q < p => q + ElementSize(doc, q) <= p
    BY <1>1, PlacesOf
  <1> QED  BY <1>2, <1>3, <1>4

\* What an edit does at its levels 0 to n, down through the documents down[k] with
\* the element at at[k], and up again with the results up[k].
EditedOnly(n, down, at, pointer, new, up) ==
    /\ \A k \in 0..n :
          /\ EditsOnly(down[k], at[k], pointer[k + 1], up[k].raw, up[n].added)
          /\ k < n => /\ up[k].raw[at[k]] = down[k][at[k]]
                      /\ up[k].raw[at[k] + 1] = down[k][at[k] + 1]
                      /\ From(up[k].raw, at[k]) = up[k + 1].raw
    /\ new = Nothing => up[n].added = -ElementSize(down[n], at[n])
    /\ new # Nothing => /\ up[n].added = Len(new.words) + 2 - ElementSize(down[n], at[n])
                        /\ up[n].raw[at[n] + 1] = down[n][at[n] + 1]
                        /\ ValueAt(up[n].raw, at[n]) = new

\* The calls of an edit that found its element change nothing else in any document.
LEMMA CallsEditOnly ==
    ASSUME NEW docs, Sound(docs), NEW buf, Level(buf, docs),
           NEW new \in [type : Int, words : Seq(Int)], NEW own, Brings(own, new),
           NEW pointer, NEW n \in Nat,
           NEW down, down = Down(buf, pointer, n), NEW up, up = Up(down, new, pointer, n),
           Found(up[0]), NEW at, at = Matches(down, pointer, n)
    PROVE  EditedOnly(n, down, at, pointer, new, up)
  <1>1. Path(Int, n, down, at) /\ EditedAlong(n, down, at, new, up) /\ Numbers(Int)
    BY FoundEditsAlong DEF Numbers
  <1>2. ASSUME NEW k \in 0..n
        PROVE  /\ Level(down[k], docs) /\ at[k] = Match(down[k], pointer[k + 1])
               /\ at[k] # down[k][1]
    <2>1. at[k] = Match(down[k], pointer[k + 1])
      BY DEF Matches
    <2>2. Level(down[k], docs) /\ Match(down[k], pointer[k + 1]) # down[k][1]
      BY FoundAtEveryLevel
    <2> QED  BY <2>1, <2>2
  <1>3. ASSUME NEW k \in 0..n
        PROVE  EditsOnly(down[k], at[k], pointer[k + 1], up[k].raw, up[n].added)
    <2>1. /\ at[k] \in Places(Front(down[k])) \ {down[k][1]}
          /\ down[k][at[k] + 1] = pointer[k + 1]
          /\ \A p \in Places(Front(down[k])) : p < at[k] => down[k][p + 1] # pointer[k + 1]
      BY <1>2, MatchIs, MatchIsFirst
    <2>2. ASSUME NEW p \in Places(Front(down[k])) \ {at[k], down[k][1]}
          PROVE  LET q == Moved(p, at[k], up[n].added)
                 IN /\ up[k].raw[q + 1] = down[k][p + 1]
                    /\ ValueAt(up[k].raw, q) = ValueAt(down[k], p)
      <3>1. Element(down[k], p)
        BY <1>2, FoundInBuffer
      <3>2. \/ p + ElementSize(down[k], p) <= at[k]
            \/ at[k] + ElementSize(down[k], at[k]) <= p
        BY <1>2, <2>1, Apart
      <3> QED  BY <1>1, <3>1, <3>2, NothingElseChanges
    <2>3. Places(Front(up[k].raw)) = PlacesAfter(down[k], at[k], up[n].added)
      <3>1. PICK more : EditLeaves(docs, more, n, down, at, up)
        BY EditReads
      <3>2. /\ SplicedLevel(down[k], at[k], up[k].raw, up[k].added, docs) /\ docs \subseteq more
            /\ LeavesElement(up[k].raw, at[k], ElementSize(down[k], at[k]) + up[k].added, more)
        BY <3>1 DEF EditLeaves
      <3>3. up[k].added = up[n].added
        BY <1>1, EveryLengthFollows
      <3>4. Places(Front(up[k].raw)) = PlacesAfter(down[k], at[k], up[k].added)
        BY <3>2, SpliceReads
      <3> QED  BY <3>3, <3>4
    <2> QED  BY <2>1, <2>2, <2>3 DEF EditsOnly
  <1>4. \A k \in 0..n : k < n => /\ up[k].raw[at[k]] = down[k][at[k]]
                                 /\ up[k].raw[at[k] + 1] = down[k][at[k] + 1]
                                 /\ From(up[k].raw, at[k]) = up[k + 1].raw
    <2>1. \A k \in 0..n : /\ SplicedAt(Int, k, down, at, up)
                          /\ up[k].added = up[n].added
                          /\ k < n => /\ up[k].raw[at[k]] = down[k][at[k]]
                                      /\ up[k].raw[at[k] + 1] = down[k][at[k] + 1]
                                      /\ From(up[k].raw, at[k]) = up[k + 1].raw
      BY <1>1, EveryLengthFollows
    <2> QED  BY <2>1, Zenon
  <1>5. ASSUME new # Nothing
        PROVE  /\ up[n].added = Len(new.words) + 2 - ElementSize(down[n], at[n])
               /\ up[n].raw[at[n] + 1] = down[n][at[n] + 1]
               /\ ValueAt(up[n].raw, at[n]) = new
    <2> DEFINE type  == new.type
               words == new.words
    <2>1. type \in Int /\ words \in Seq(Int) /\ Value(words, 1, type, Len(words))
      BY <1>5 DEF Brings
    <2>2. new = [type |-> type, words |-> words]
      OBVIOUS
    <2> HIDE DEF type, words
    <2>3. down[n] \in Seq(Int) /\ Within(down[n], at[n], ElementSize(down[n], at[n]))
      BY <1>1 DEF Path
    <2>4. up[n] = resized(down[n], replaceElement(down[n], [type |-> type, words |-> words],
                                                  at[n], ElementSize(down[n], at[n])))
      BY <1>1, <1>5, <2>2 DEF EditedAlong
    <2>5. up[n].added = Len(words) + 2 - ElementSize(down[n], at[n])
      BY <1>1, <2>1, <2>3, <2>4, ReplaceSplices
    <2>6. /\ up[n].raw[at[n] + 1] = down[n][at[n] + 1]
          /\ ValueAt(up[n].raw, at[n]) = new
      BY <1>1, <2>1, <2>2, <2>3, <2>4, ReplacementReadsBack
    <2> QED  BY <2>5, <2>6 DEF words
  <1>6. ASSUME new = Nothing  PROVE up[n].added = -ElementSize(down[n], at[n])
    <2>1. up[n] = resized(down[n], removeElement(down[n], at[n], ElementSize(down[n], at[n])))
      BY <1>1, <1>6 DEF EditedAlong
    <2> QED  BY <2>1 DEF resized, removeElement, Edited
  <1> QED  BY <1>3, <1>4, <1>5, <1>6 DEF EditedOnly

\* The same, of any readable document and any replacement.
LEMMA EditsOnlyThere ==
    ASSUME NEW buf, NEW new \in [type : Int, words : Seq(Int)],
           \E docs : Sound(docs) /\ Level(buf, docs), \E own : Brings(own, new),
           NEW pointer, NEW n \in Nat,
           NEW down, down = Down(buf, pointer, n), NEW up, up = Up(down, new, pointer, n),
           Found(up[0]), NEW at, at = Matches(down, pointer, n)
    PROVE  EditedOnly(n, down, at, pointer, new, up)
  <1>1. PICK docs : Sound(docs) /\ Level(buf, docs)
    OBVIOUS
  <1>2. PICK own : Brings(own, new)
    OBVIOUS
  <1> QED  BY <1>1, <1>2, CallsEditOnly

\* An edit that has found its element changes nothing but that element, which has
\* its old key and the new value, or is gone: at every level it is in the first
\* element with the key that the pointer has for the level, that keeps type and
\* key and has the document that the level below returns, and all others keep key
\* and value, wherever they move to (editMatchingElement, recurseIntoSubDoc).
THEOREM FoundEditsTheElement ==
    ASSUME NEW buf \in Seq(Int), Readable(buf), NEW new, Replacement(new),
           NEW pointer \in Seq(Int), Len(pointer) > 0
    PROVE  LET n    == Len(pointer) - 1
               down == Down(buf, pointer, n)
               up   == Up(down, new, pointer, n)
               at   == Matches(down, pointer, n)
               e    == replaceOrRemoveInRaw(buf, new, pointer)
           IN e.res.is = "found" => /\ e = up[0] /\ down[0] = buf
                                    /\ EditedOnly(n, down, at, pointer, new, up)
  <1> DEFINE n    == Len(pointer) - 1
             down == Down(buf, pointer, n)
             up   == Up(down, new, pointer, n)
             at   == Matches(down, pointer, n)
  <1>1. n \in Nat
    OBVIOUS
  <1>2. replaceOrRemoveInRaw(buf, new, pointer) = up[0]
    BY DEF replaceOrRemoveInRaw
  <1>3. \E docs : Sound(docs) /\ Level(buf, docs)
    BY ReadableLevel
  <1>4. \E own : Brings(own, new)
    BY ReplacementBrings
  <1>5. new \in [type : Int, words : Seq(Int)]
    BY DEF Replacement
  <1>6. down[0] = buf
    <2> HIDE DEF n, up, at
    <2> QED  BY <1>1, DownLaws
  <1>7. /\ down = Down(buf, pointer, n) /\ up = Up(down, new, pointer, n)
        /\ at = Matches(down, pointer, n)
    OBVIOUS
  <1> HIDE DEF n, down, up, at
  <1>8. Found(up[0]) => EditedOnly(n, down, at, pointer, new, up)
    BY <1>1, <1>3, <1>4, <1>5, <1>7, EditsOnlyThere
  <1> QED  BY <1>2, <1>6, <1>8 DEF Found, n, down, up, at

\* At level k an edit has nowhere to go: no element has the key, or the first that
\* has it is not a document and the pointer has more keys.
Stuck(buf, key, more, res, at) ==
    \/ res = Absent /\ \A q \in Places(Front(buf)) \ {buf[1]} : buf[q + 1] # key
    \/ /\ res = TooDeep(at) /\ more > 0
       /\ \E p \in Places(Front(buf)) \ {buf[1]} :
             /\ buf[p + 1] = key /\ ~Container(buf[p])
             /\ \A q \in Places(Front(buf)) : q < p => buf[q + 1] # key

\* One call that is stuck, or goes on to one that is.
LEMMA StuckOrGoes ==
    ASSUME NEW docs, Sound(docs), NEW buf, Level(buf, docs), NEW new, NEW key, NEW more \in Nat, NEW r,
           NEW e, e = editMatchingElement(buf, new, key, more, r), ~Found(e)
    PROVE  \/ Stuck(buf, key, more, e.res, 1)
           \/ /\ more > 0 /\ Goes(buf, key) /\ ~Found(r)
              /\ e.res = IF r.res.is = "tooDeep" THEN TooDeep(r.res.at + 1) ELSE r.res
  <1> DEFINE pos == Match(buf, key)
  <1>1. /\ pos = buf[1] => e = Edited(buf, 0, Absent)
        /\ pos # buf[1] /\ more > 0 /\ ~Container(buf[pos]) => e = Edited(buf, 0, TooDeep(1))
        /\ pos # buf[1] /\ more > 0 /\ Container(buf[pos]) /\ ~Found(r) =>
              e = Edited(buf, 0, IF r.res.is = "tooDeep" THEN TooDeep(r.res.at + 1) ELSE r.res)
        /\ pos # buf[1] /\ more > 0 /\ Container(buf[pos]) /\ Found(r) => Found(e)
        /\ pos # buf[1] /\ ~(more > 0) => Found(e)
    BY OneCall
  <1>2. Goes(buf, key) <=> pos # buf[1] /\ Container(buf[pos])
    BY DEF Goes
  <1>3. pos \in Places(Front(buf)) /\ (pos # buf[1] => buf[pos + 1] = key)
    BY MatchIs
  <1>4. \A q \in Places(Front(buf)) : q < pos => buf[q + 1] # key
    BY MatchIsFirst
  <1> HIDE DEF pos
  <1>5. CASE pos = buf[1]
    <2>1. e.res = Absent
      BY <1>1, <1>5 DEF Edited
    <2>2. ASSUME NEW q \in Places(Front(buf)) \ {buf[1]}  PROVE buf[q + 1] # key
      <3>1. q < buf[1]
        BY FoundInBuffer
      <3> QED  BY <1>4, <1>5, <3>1
    <2> QED  BY <2>1, <2>2 DEF Stuck
  <1>6. CASE pos # buf[1] /\ ~Container(buf[pos])
    <2>1. more > 0 /\ e = Edited(buf, 0, TooDeep(1))
      BY <1>1, <1>6
    <2>2. e.res = TooDeep(1)
      BY <2>1 DEF Edited
    <2> QED  BY <1>3, <1>4, <1>6, <2>1, <2>2 DEF Stuck
  <1>7. CASE pos # buf[1] /\ Container(buf[pos])
    <2>1. more > 0 /\ ~Found(r)
      BY <1>1, <1>7
    <2> DEFINE res == IF r.res.is = "tooDeep" THEN TooDeep(r.res.at + 1) ELSE r.res
    <2>2. e = Edited(buf, 0, res)
      BY <1>1, <1>7, <2>1
    <2> HIDE DEF res
    <2>3. e.res = res
      BY <2>2 DEF Edited
    <2> QED  BY <1>2, <1>7, <2>1, <2>3 DEF res
  <1> QED  BY <1>5, <1>6, <1>7

\* The level where an edit has nowhere to go, from level k on: at levels between
\* there are documents, and they lie within each other.
StuckBelow(docs, down, pointer, n, k, res) ==
    \E j \in k..n : /\ \A i \in k..j : Level(down[i], docs)
                    /\ \A i \in k..j : i < j => Goes(down[i], pointer[i + 1])
                    /\ Stuck(down[j], pointer[j + 1], n - j, res, j - k + 1)

\* An edit that has not found its element says what was in its way, and how far
\* it got.
LEMMA CallsSayWhere ==
    ASSUME NEW docs, Sound(docs), NEW buf, Level(buf, docs), NEW new, NEW pointer, NEW n \in Nat,
           NEW down, down = Down(buf, pointer, n), NEW up, up = Up(down, new, pointer, n),
           ~Found(up[0])
    PROVE  StuckBelow(docs, down, pointer, n, 0, up[0].res)
  <1> DEFINE Says(k) == Level(down[k], docs) /\ ~Found(up[k])
                          => StuckBelow(docs, down, pointer, n, k, up[k].res)
             S       == {m \in 0..n : Says(n - m)}
  <1>1. /\ down[0] = buf
        /\ \A k \in 0..n : k < n => down[k + 1] = From(down[k], Match(down[k], pointer[k + 1]))
        /\ \A k \in 0..n : \E r : /\ k < n => r = up[k + 1]
                                  /\ up[k] = editMatchingElement(down[k], new, pointer[k + 1], n - k, r)
    BY CallsLaws
  <1>2. ASSUME NEW k \in 0..n, k < n => Says(k + 1)  PROVE Says(k)
    <2> DEFINE key == pointer[k + 1]
    <2> SUFFICES ASSUME Level(down[k], docs), ~Found(up[k])
                 PROVE  StuckBelow(docs, down, pointer, n, k, up[k].res)
      OBVIOUS
    <2>1. PICK r : /\ k < n => r = up[k + 1]
                   /\ up[k] = editMatchingElement(down[k], new, key, n - k, r)
      BY <1>1
    <2>2. n - k \in Nat /\ (n - k > 0 => k < n)
      OBVIOUS
    <2>3. \/ Stuck(down[k], key, n - k, up[k].res, 1)
          \/ /\ n - k > 0 /\ Goes(down[k], key) /\ ~Found(r)
             /\ up[k].res = IF r.res.is = "tooDeep" THEN TooDeep(r.res.at + 1) ELSE r.res
      BY <2>1, <2>2, StuckOrGoes
    <2>4. CASE Stuck(down[k], key, n - k, up[k].res, 1)
      <3>1. k \in k..n /\ k - k + 1 = 1 /\ \A i \in k..k : i = k /\ ~(i < k)
        OBVIOUS
      <3> QED  BY <2>4, <3>1 DEF StuckBelow
    <2>5. CASE /\ n - k > 0 /\ Goes(down[k], key) /\ ~Found(r)
               /\ up[k].res = IF r.res.is = "tooDeep" THEN TooDeep(r.res.at + 1) ELSE r.res
      <3>1. k < n /\ r = up[k + 1]
        BY <2>1, <2>2, <2>5
      <3> DEFINE pos == Match(down[k], key)
      <3>2. pos \in Places(Front(down[k])) /\ pos # down[k][1] /\ Container(down[k][pos])
        BY <2>5, MatchIs DEF Goes
      <3>3. Level(From(down[k], pos), docs)
        BY <3>2, LevelBelow
      <3>4. Level(down[k + 1], docs)
        BY <1>1, <3>1, <3>3
      <3> HIDE DEF pos
      <3>5. StuckBelow(docs, down, pointer, n, k + 1, r.res)
        BY <1>2, <2>5, <3>1, <3>4
      <3>6. PICK j \in k + 1..n :
                 /\ \A i \in k + 1..j : Level(down[i], docs)
                 /\ \A i \in k + 1..j : i < j => Goes(down[i], pointer[i + 1])
                 /\ Stuck(down[j], pointer[j + 1], n - j, r.res, j - (k + 1) + 1)
        BY <3>5 DEF StuckBelow
      <3>7. \A i \in k..j : i = k \/ i \in k + 1..j
        OBVIOUS
      <3>8. j \in k..n /\ j - (k + 1) + 1 = j - k /\ (j - k) + 1 = j - k + 1
        OBVIOUS
      <3>9. Stuck(down[j], pointer[j + 1], n - j, up[k].res, j - k + 1)
        <4>1. CASE r.res = Absent /\ \A q \in Places(Front(down[j])) \ {down[j][1]} :
                                        down[j][q + 1] # pointer[j + 1]
          <5>1. up[k].res = Absent
            BY <2>5, <4>1 DEF Absent
          <5> QED  BY <4>1, <5>1 DEF Stuck
        <4>2. CASE /\ r.res = TooDeep(j - k) /\ n - j > 0
                   /\ \E p \in Places(Front(down[j])) \ {down[j][1]} :
                         /\ down[j][p + 1] = pointer[j + 1] /\ ~Container(down[j][p])
                         /\ \A q \in Places(Front(down[j])) : q < p => down[j][q + 1] # pointer[j + 1]
          <5>1. r.res.is = "tooDeep" /\ r.res.at = j - k
            BY <4>2 DEF TooDeep
          <5>2. up[k].res = TooDeep(j - k + 1)
            BY <2>5, <5>1
          <5> QED  BY <4>2, <5>2 DEF Stuck
        <4> QED  BY <3>6, <3>8, <4>1, <4>2 DEF Stuck
      <3> QED  BY <2>5, <3>6, <3>7, <3>8, <3>9 DEF StuckBelow
    <2> QED  BY <2>3, <2>4, <2>5
  <1> HIDE DEF Says
  <1>3. 0 \in S
    <2>1. n \in 0..n /\ ~(n < n) /\ n - 0 = n /\ 0 \in 0..n
      OBVIOUS
    <2> QED  BY <1>2, <2>1
  <1>4. ASSUME NEW m \in 0..n, m < n, m \in S  PROVE m + 1 \in S
    <2>1. m + 1 \in 0..n /\ n - (m + 1) \in 0..n /\ (n - (m + 1)) + 1 = n - m
      BY <1>4
    <2>2. Says((n - (m + 1)) + 1)
      BY <1>4, <2>1
    <2>3. Says(n - (m + 1))
      BY <1>2, <2>1, <2>2
    <2> QED  BY <2>1, <2>3
  <1>5. 0..n \subseteq S
    <2> HIDE DEF S
    <2> QED  BY <1>3, <1>4, GoesOn
  <1>6. n \in 0..n /\ n - n = 0
    OBVIOUS
  <1>7. Says(n - n)
    BY <1>5, <1>6
  <1> QED  BY <1>1, <1>6, <1>7 DEF Says

\* An edit that has not found its element returns the buffer as it was, never
\* reports that it cannot be parsed, and says what is true: some key of the pointer
\* is not in the document that the keys before it lead to, or the first element that
\* has it is not a document and the error names the pointer up to that key
\* (editMatchingElement, recurseIntoSubDoc, PointerTooDeepError).
THEOREM UnfoundSaysWhere ==
    ASSUME NEW buf \in Seq(Int), Readable(buf), NEW new, NEW pointer \in Seq(Int), Len(pointer) > 0
    PROVE  LET e == replaceOrRemoveInRaw(buf, new, pointer)
               n == Len(pointer) - 1
           IN e.res.is # "found" =>
                 /\ e.raw = buf /\ e.added = 0
                 /\ \E docs : /\ Sound(docs) /\ buf \in docs
                              /\ StuckBelow(docs, Down(buf, pointer, n), pointer, n, 0, e.res)
  <1> DEFINE n    == Len(pointer) - 1
             down == Down(buf, pointer, n)
             up   == Up(down, new, pointer, n)
  <1>1. n \in Nat /\ n - 0 \in Nat
    OBVIOUS
  <1>2. replaceOrRemoveInRaw(buf, new, pointer) = up[0]
    BY DEF replaceOrRemoveInRaw
  <1>3. PICK docs : Sound(docs) /\ Level(buf, docs) /\ buf \in docs
    BY ReadableLevel
  <1>4. down = Down(buf, pointer, n) /\ up = Up(down, new, pointer, n)
    OBVIOUS
  <1> HIDE DEF n, down, up
  <1>5. ~Found(up[0]) => StuckBelow(docs, down, pointer, n, 0, up[0].res)
    BY <1>1, <1>3, <1>4, CallsSayWhere
  <1>6. PICK r : up[0] = editMatchingElement(buf, new, pointer[0 + 1], n - 0, r)
    BY <1>1, <1>4, FirstCall
  <1>7. ~Found(up[0]) => up[0].raw = buf /\ up[0].added = 0
    BY <1>1, <1>3, <1>6, UnfoundKeeps
  <1> QED  BY <1>2, <1>3, <1>4, <1>5, <1>7 DEF Found, n

-----------------------------------------------------------------------------
\* After any replacements and removals the buffer is one document that can be read
\* to its end at every level (editMatchingElement, recurseIntoSubDoc).
THEOREM BufferStaysReadable == EditSpec => []TypeOK
  <1>1. Init => TypeOK
    BY BuffersAssumption DEF Init, TypeOK
  <1>2. TypeOK /\ [Edit]_raw => TypeOK'
    <2> SUFFICES ASSUME TypeOK, [Edit]_raw  PROVE TypeOK'
      OBVIOUS
    <2>1. ASSUME NEW new, Replacement(new), NEW p \in Pointers,
                 raw' = replaceOrRemoveInRaw(raw, new, p).raw
          PROVE  TypeOK'
      <3>1. p \in Seq(Int) /\ Len(p) > 0
        BY PointersAssumption
      <3>2. raw \in Seq(Int) /\ Readable(raw)
        BY DEF TypeOK
      <3>3. raw' \in Seq(Int) /\ Readable(raw')
        BY <2>1, <3>1, <3>2, EditsStayReadable
      <3> QED  BY <3>3 DEF TypeOK
    <2>2. Replacement(Nothing)
      BY DEF Replacement, Nothing
    <2>3. ASSUME NEW v \in NewValues  PROVE Replacement(v)
      <3>1. /\ v \in [type : Int, words : Seq(Int)]
            /\ Value(v.words, 1, v.type, Len(v.words))
            /\ Container(v.type) => Readable(v.words)
        BY NewValuesAssumption, Zenon
      <3> QED  BY <3>1, Zenon DEF Replacement
    <2>4. ASSUME NEW p \in Pointers, RemoveFromRaw(p)  PROVE TypeOK'
      BY <2>1, <2>2, <2>4 DEF RemoveFromRaw
    <2>5. ASSUME NEW p \in Pointers, NEW v \in NewValues, ReplaceInRaw(v, p)  PROVE TypeOK'
      BY <2>1, <2>3, <2>5 DEF ReplaceInRaw
    <2>6. CASE raw' = raw
      BY <2>6 DEF TypeOK
    <2> QED  BY <2>4, <2>5, <2>6 DEF Edit
  <1> QED  BY <1>1, <1>2, PTL DEF EditSpec
=============================================================================
