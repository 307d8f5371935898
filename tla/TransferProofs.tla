--------------------------- MODULE TransferProofs ---------------------------
(***************************************************************************)
(* Proofs about the parts of a transfer: the resume bitmap, which          *)
(* implements the set of chunks, for every chunk count and width of a byte *)
(* (Bitmap); proportional shares of the sources, for any peers, rates and  *)
(* weights (Scheduler); the upload cap, for any cap, chunk size, lengths   *)
(* and number of requests at a time (Seeder).                              *)
(***************************************************************************)
EXTENDS Bitmap, Scheduler, Seeder, FiniteSetTheorems, WellFoundedInduction,
        TLAPS

(* Where a chunk's bit is *)

LEMMA Division ==
  ASSUME NEW i \in Nat, NEW w \in Nat \ {0}
  PROVE  /\ i \div w \in Nat /\ i % w \in 0..w-1
         /\ i = w * (i \div w) + (i % w)
  OBVIOUS

LEMMA BitIsUnique ==
  ASSUME NEW i \in Nat, NEW j \in Nat, At(i) = At(j), i % Width = j % Width
  PROVE  i = j
<1>1. i \div Width = j \div Width  BY Division, WidthAssumption DEF At
<1> QED  BY <1>1, Division, WidthAssumption

LEMMA SizeType ==
  ASSUME NEW n \in Nat
  PROVE  Size(n) \in Nat
  BY Division, WidthAssumption DEF Size

LEMMA Monotone ==
  ASSUME NEW a \in Nat, NEW b \in Nat, NEW w \in Nat \ {0}, a <= b
  PROVE  a \div w <= b \div w
<1>1. SUFFICES ASSUME b \div w < a \div w PROVE FALSE  BY Division
<1>2. (b \div w) + 1 <= a \div w  BY <1>1, Division
<1>3. w * ((b \div w) + 1) <= w * (a \div w)  BY <1>2, Division
<1> QED  BY <1>3, Division

LEMMA Quotient ==
  ASSUME NEW q \in Nat, NEW w \in Nat \ {0}, NEW r \in 0..w-1
  PROVE  (w * q + r) \div w = q
<1> DEFINE a == w * q + r
           p == a \div w
<1>1. a \in Nat /\ p \in Nat /\ a % w \in 0..w-1 /\ a = w * p + (a % w)
  <2>1. a \in Nat  OBVIOUS
  <2> HIDE DEF a
  <2> QED  BY <2>1, Division
<1>2. CASE p < q
  <2>1. w * (p + 1) <= w * q  BY <1>1, <1>2
  <2> QED  BY <2>1, <1>1
<1>3. CASE q < p
  <2>1. w * (q + 1) <= w * p  BY <1>1, <1>3
  <2> QED  BY <2>1, <1>1
<1> QED  BY <1>1, <1>2, <1>3

LEMMA ByteExists ==
  ASSUME NEW n \in Nat, NEW i \in 0..n-1
  PROVE  At(i) \in 1..Size(n)
<1>1. (i + Width) \div Width = 1 + i \div Width
  <2> DEFINE q == 1 + (i \div Width)
             r == i % Width
  <2>1. i \in Nat /\ Width \in Nat \ {0}  BY WidthAssumption
  <2>2. /\ i \div Width \in Nat /\ i % Width \in 0..Width-1
        /\ i = Width * (i \div Width) + (i % Width)
    BY ONLY <2>1, Division, Zenon
  <2>3. q \in Nat /\ r \in 0..Width-1  BY <2>1, <2>2
  <2>5. i + Width = Width * q + r  BY <2>1, <2>2
  <2>4. (Width * q + r) \div Width = q
    <3> HIDE DEF q, r
    <3> QED  BY <2>1, <2>3, Quotient
  <2> QED  BY <2>5, <2>4
<1>2. (i + Width) \div Width <= (n + Width - 1) \div Width
  BY Monotone, WidthAssumption
<1> QED  BY <1>1, <1>2, Division, WidthAssumption DEF At, Size

\* The last byte is whole, or holds the remainder.
LEMMA SizeSplit ==
  ASSUME NEW n \in Nat
  PROVE  Size(n) = IF n % Width = 0 THEN n \div Width ELSE 1 + (n \div Width)
<1> DEFINE q == n \div Width
           r == n % Width
<1>1. q \in Nat /\ r \in 0..Width-1 /\ n = Width * q + r
  <2>1. n \in Nat /\ Width \in Nat \ {0}  BY WidthAssumption
  <2> QED  BY ONLY <2>1, Division, Zenon
<1>2. CASE r = 0
  <2>1. n + Width - 1 = Width * q + (Width - 1)  BY <1>1, <1>2, WidthAssumption
  <2>2. (Width * q + (Width - 1)) \div Width = q
    <3> HIDE DEF q
    <3> QED  BY <1>1, Quotient, WidthAssumption
  <2> QED  BY <2>1, <2>2, <1>2 DEF Size
<1>3. CASE r # 0
  <2>1. n + Width - 1 = Width * (q + 1) + (r - 1)  BY <1>1, WidthAssumption
  <2>2. (Width * (q + 1) + (r - 1)) \div Width = q + 1
    <3>1. q + 1 \in Nat /\ r - 1 \in 0..Width-1  BY <1>1, <1>3, WidthAssumption
    <3> HIDE DEF q, r
    <3> QED  BY <3>1, Quotient, WidthAssumption
  <2> QED  BY <2>1, <2>2, <1>1, <1>3 DEF Size
<1> QED  BY <1>2, <1>3

\* A chunk in the last byte comes before the padding.
LEMMA BeforePadding ==
  ASSUME NEW n \in Nat, NEW i \in 0..n-1, n % Width # 0, At(i) = Size(n)
  PROVE  i % Width < n % Width
<1>1. i \in Nat /\ n \in Nat /\ Width \in Nat \ {0}  BY WidthAssumption
<1>2. /\ i \div Width \in Nat /\ i % Width \in 0..Width-1
      /\ i = Width * (i \div Width) + (i % Width)
      /\ n \div Width \in Nat /\ n % Width \in 0..Width-1
      /\ n = Width * (n \div Width) + (n % Width)
  BY ONLY <1>1, Division, Zenon
<1>3. i \div Width = n \div Width  BY <1>2, SizeSplit DEF At
<1> QED  BY <1>1, <1>2, <1>3

LEMMA LastByte ==
  ASSUME NEW n \in Nat, n % Width # 0
  PROVE  Size(n) \in 1..Size(n)
<1>1. n \div Width \in Nat  BY Division, WidthAssumption
<1> QED  BY <1>1, SizeSplit

-----------------------------------------------------------------------------
(* What the operations return *)

LEMMA BytesFit ==
  ASSUME NEW n \in Nat, NEW s \in Seq(Byte)
  PROVE  /\ FromBytes(n, s) \in [1..Size(n) -> Byte]
         /\ ClearPadding(n, FromBytes(n, s)) = FromBytes(n, s)
<1> DEFINE r == Resize(s, Size(n))
<1>1. Size(n) \in Nat  BY SizeType
<1>2. r \in [1..Size(n) -> Byte]  BY <1>1 DEF Resize, Byte
<1>3. ClearPadding(n, r) \in [1..Size(n) -> Byte]
  BY <1>2 DEF ClearPadding, Byte
<1>4. ClearPadding(n, ClearPadding(n, r)) = ClearPadding(n, r)
  <2> HIDE DEF r
  <2> QED  BY <1>2, LastByte DEF ClearPadding, Byte
<1> QED  BY <1>3, <1>4 DEF FromBytes

LEMMA LoadsWhatWasSaved ==
  ASSUME NEW n \in Nat, NEW s \in [1..Size(n) -> Byte], ClearPadding(n, s) = s
  PROVE  FromBytes(n, s) = s
<1>1. Size(n) \in Nat  BY SizeType
<1>2. Len(s) = Size(n)  BY <1>1
<1>3. Resize(s, Size(n)) = s  BY <1>1, <1>2 DEF Resize
<1> QED  BY <1>3 DEF FromBytes

\* One bit set or cleared is one chunk gained or lost.
LEMMA OneBit ==
  ASSUME NEW n \in Nat, NEW s \in [1..Size(n) -> Byte], NEW i \in 0..n-1,
         NEW j \in 0..n-1
  PROVE  /\ HasBit(n, [s EXCEPT ![At(i)] = @ \cup {i % Width}], j)
              <=> HasBit(n, s, j) \/ j = i
         /\ HasBit(n, [s EXCEPT ![At(i)] = @ \ {i % Width}], j)
              <=> HasBit(n, s, j) /\ j # i
<1>1. At(i) \in 1..Size(n) /\ At(j) \in 1..Size(n)  BY ByteExists
<1>2. At(i) = At(j) /\ i % Width = j % Width => i = j
  <2>1. i \in Nat /\ j \in Nat  OBVIOUS
  <2> QED  BY <2>1, BitIsUnique
<1> HIDE DEF At
<1> QED  BY <1>1, <1>2 DEF HasBit

-----------------------------------------------------------------------------
(* The type invariant *)

LEMMA NewTyped ==
  ASSUME NEW n \in Nat
  PROVE  /\ New(n) \in [1..Size(n) -> Byte]
         /\ ClearPadding(n, New(n)) = New(n)
<1>1. Size(n) \in Nat  BY SizeType
<1>2. New(n) \in [1..Size(n) -> Byte]  BY <1>1 DEF New, Zeros, Byte
<1>3. \A b \in 1..Size(n) : New(n)[b] = {}  BY <1>1 DEF New, Zeros
<1> HIDE DEF New
<1> QED  BY <1>2, <1>3, LastByte DEF ClearPadding

LEMMA SetTyped ==
  ASSUME NEW n \in Nat, NEW s \in [1..Size(n) -> Byte], ClearPadding(n, s) = s,
         NEW i \in 0..n-1
  PROVE  /\ [s EXCEPT ![At(i)] = @ \cup {i % Width}] \in [1..Size(n) -> Byte]
         /\ ClearPadding(n, [s EXCEPT ![At(i)] = @ \cup {i % Width}])
              = [s EXCEPT ![At(i)] = @ \cup {i % Width}]
<1> DEFINE t == [s EXCEPT ![At(i)] = @ \cup {i % Width}]
<1>1. At(i) \in 1..Size(n)  BY ByteExists
<1>2. i % Width \in Bits
  <2>1. i \in Nat  OBVIOUS
  <2> QED  BY <2>1, Division, WidthAssumption DEF Bits
<1>3. t \in [1..Size(n) -> Byte]
  <2> HIDE DEF At
  <2> QED  BY <1>1, <1>2 DEF Byte
<1>4. ASSUME n % Width # 0
      PROVE  t[Size(n)] \subseteq 0..(n % Width) - 1
  <2>1. s[Size(n)] \subseteq 0..(n % Width) - 1  BY <1>4, LastByte DEF ClearPadding
  <2>2. At(i) = Size(n) => i % Width \in 0..(n % Width) - 1
    <3>1. HAVE At(i) = Size(n)
    <3>2. i % Width < n % Width  BY <1>4, <3>1, BeforePadding
    <3>3. i % Width \in Nat /\ n % Width \in Nat
      BY <1>2, Division, WidthAssumption DEF Bits
    <3> QED  BY <3>2, <3>3
  <2>3. Size(n) \in 1..Size(n)  BY <1>4, LastByte
  <2> HIDE DEF At
  <2> QED  BY <1>1, <2>1, <2>2, <2>3
<1>5. ClearPadding(n, t) = t
  <2> HIDE DEF t
  <2> QED  BY <1>3, <1>4, LastByte DEF ClearPadding
<1> QED  BY <1>3, <1>5

LEMMA ClearTyped ==
  ASSUME NEW n \in Nat, NEW s \in [1..Size(n) -> Byte], ClearPadding(n, s) = s,
         NEW i \in 0..n-1
  PROVE  /\ [s EXCEPT ![At(i)] = @ \ {i % Width}] \in [1..Size(n) -> Byte]
         /\ ClearPadding(n, [s EXCEPT ![At(i)] = @ \ {i % Width}])
              = [s EXCEPT ![At(i)] = @ \ {i % Width}]
<1> DEFINE t == [s EXCEPT ![At(i)] = @ \ {i % Width}]
<1>1. At(i) \in 1..Size(n)  BY ByteExists
<1>2. t \in [1..Size(n) -> Byte]
  <2> HIDE DEF At
  <2> QED  BY <1>1 DEF Byte
<1>3. ASSUME n % Width # 0
      PROVE  t[Size(n)] \subseteq 0..(n % Width) - 1
  <2>1. s[Size(n)] \subseteq 0..(n % Width) - 1  BY <1>3, LastByte DEF ClearPadding
  <2>2. Size(n) \in 1..Size(n)  BY <1>3, LastByte
  <2> HIDE DEF At
  <2> QED  BY <1>1, <2>1, <2>2
<1>4. ClearPadding(n, t) = t
  <2> HIDE DEF t
  <2> QED  BY <1>2, <1>3, LastByte DEF ClearPadding
<1> QED  BY <1>2, <1>4

LEMMA BytesAreSeq ==
  ASSUME NEW n \in Nat, NEW s \in [1..n -> Byte]
  PROVE  s \in Seq(Byte)
  OBVIOUS

\* The bitmap has the bytes its count needs and no ones in the padding, after
\* any calls and any load.
THEOREM BitTypeCorrect == BitSpec => []BitTypeOK
<1>1. BitInit => BitTypeOK
  <2> SUFFICES ASSUME BitInit PROVE BitTypeOK  OBVIOUS
  <2>1. len \in Lens /\ len \in Nat  BY LenAssumption DEF BitInit
  <2>2. bytes \in [1..Size(len) -> Byte] /\ ClearPadding(len, bytes) = bytes
    BY <2>1, NewTyped DEF BitInit
  <2>3. PICK n \in BlobSizes : blob \in [1..n -> Byte]
    BY DEF BitInit
  <2>4. blob \in Seq(Byte)
    <3>1. n \in Nat  BY LenAssumption
    <3> QED  BY <2>3, <3>1, BytesAreSeq
  <2> QED  BY <2>1, <2>2, <2>4 DEF BitTypeOK
<1>2. BitTypeOK /\ [BitNext]_bitVars => BitTypeOK'
  <2> SUFFICES ASSUME BitTypeOK, [BitNext]_bitVars PROVE BitTypeOK'  OBVIOUS
  <2>1. /\ len \in Nat /\ len \in Lens /\ bytes \in [1..Size(len) -> Byte]
        /\ ClearPadding(len, bytes) = bytes /\ blob \in Seq(Byte)
    BY LenAssumption DEF BitTypeOK
  <2>2. ASSUME NEW i \in 0..len, Set(i) \/ Clear(i) PROVE BitTypeOK'
    <3>1. len' = len /\ blob' = blob  BY <2>2 DEF Set, Clear
    <3>2. CASE i >= len
      BY <2>1, <2>2, <3>1, <3>2 DEF Set, Clear, BitTypeOK
    <3>3. CASE i < len
      <4>1. i \in 0..len-1  BY <2>1, <3>3
      <4>2. \/ bytes' = [bytes EXCEPT ![At(i)] = @ \cup {i % Width}]
            \/ bytes' = [bytes EXCEPT ![At(i)] = @ \ {i % Width}]
        BY <2>1, <2>2, <3>3 DEF Set, Clear
      <4>3. bytes' \in [1..Size(len) -> Byte] /\ ClearPadding(len, bytes') = bytes'
        <5>1. CASE bytes' = [bytes EXCEPT ![At(i)] = @ \cup {i % Width}]
          BY ONLY <2>1, <4>1, <5>1, SetTyped, ZenonT(60)
        <5>2. CASE bytes' = [bytes EXCEPT ![At(i)] = @ \ {i % Width}]
          BY ONLY <2>1, <4>1, <5>2, ClearTyped, ZenonT(60)
        <5> QED  BY <4>2, <5>1, <5>2
      <4> QED  BY <2>1, <3>1, <4>3 DEF BitTypeOK
    <3> QED  BY <2>1, <3>2, <3>3
  <2>3. CASE Save
    <3>1. bytes \in Seq(Byte)  BY <2>1, SizeType, BytesAreSeq
    <3> QED  BY <2>1, <2>3, <3>1 DEF Save, BitTypeOK
  <2>4. CASE Load
    BY <2>1, <2>4, BytesFit DEF Load, BitTypeOK
  <2>5. CASE UNCHANGED bitVars
    BY <2>5 DEF bitVars, BitTypeOK
  <2> QED  BY <2>2, <2>3, <2>4, <2>5 DEF BitNext, Touch
<1> QED  BY <1>1, <1>2, PTL DEF BitSpec

-----------------------------------------------------------------------------
(* The refinement *)

\* A bitmap behaves as a set of chunks: every call is a step of the abstract
\* set or leaves it as it is.
THEOREM Implements == BitSpec => ActsAsSet
<1> USE DEF Abstract!Chunks
<1>1. BitInit => Abstract!ChunkInit
  <2> SUFFICES ASSUME BitInit PROVE Abstract!ChunkInit  OBVIOUS
  <2>1. len \in Lens /\ len \in Nat  BY LenAssumption DEF BitInit
  <2>2. HaveOf(bytes) = {}
    <3>1. Size(len) \in Nat  BY <2>1, SizeType
    <3>2. \A i \in 0..len-1 : At(i) \in 1..Size(len)  BY <2>1, ByteExists
    <3>3. \A i \in 0..len-1 : bytes[At(i)] = {}
      <4> HIDE DEF At
      <4> QED  BY <3>1, <3>2 DEF BitInit, New, Zeros
    <3> QED  BY <3>3 DEF HaveOf, HasBit
  <2>3. HaveOf(FromBytes(len, blob)) \in SUBSET (0..len-1)  BY DEF HaveOf
  <2> QED  BY <2>1, <2>2, <2>3 DEF Abstract!ChunkInit
<1>2. BitTypeOK /\ [BitNext]_bitVars
        => [Abstract!Gain \/ Abstract!Lose \/ Abstract!Keep \/ Abstract!Recall]_
             <<len, HaveOf(bytes), HaveOf(FromBytes(len, blob))>>
  <2> DEFINE Step == \/ Abstract!Gain \/ Abstract!Lose \/ Abstract!Keep \/ Abstract!Recall
                     \/ UNCHANGED <<len, HaveOf(bytes), HaveOf(FromBytes(len, blob))>>
  <2> SUFFICES ASSUME BitTypeOK, [BitNext]_bitVars PROVE Step  OBVIOUS
  <2>1. /\ len \in Nat /\ bytes \in [1..Size(len) -> Byte]
        /\ ClearPadding(len, bytes) = bytes
    BY LenAssumption DEF BitTypeOK
  <2>2. ASSUME NEW i \in 0..len, Set(i) PROVE Step
    <3>1. len' = len /\ blob' = blob  BY <2>2 DEF Set
    <3>2. HaveOf(FromBytes(len, blob))' = HaveOf(FromBytes(len, blob))
      BY <3>1 DEF HaveOf, HasBit, FromBytes, ClearPadding, Resize
    <3>3. CASE i >= len
      <4>1. bytes' = bytes  BY <2>2, <3>3 DEF Set
      <4>2. HaveOf(bytes)' = HaveOf(bytes)  BY <3>1, <4>1 DEF HaveOf, HasBit
      <4> QED  BY <3>1, <3>2, <4>2
    <3>4. CASE i < len
      <4>1. i \in 0..len-1  BY <2>1, <3>4
      <4>2. bytes' = [bytes EXCEPT ![At(i)] = @ \cup {i % Width}]
        BY <2>1, <2>2, <3>4 DEF Set
      <4>3. \A j \in 0..len-1 : HasBit(len, bytes', j) <=> HasBit(len, bytes, j) \/ j = i
        BY <2>1, <4>1, <4>2, OneBit
      <4>4. HaveOf(bytes)' = HaveOf(bytes) \cup {i}
        BY <3>1, <4>1, <4>3 DEF HaveOf
      <4> QED  BY <3>1, <3>2, <4>1, <4>4 DEF Abstract!Gain
    <3> QED  BY <2>1, <3>3, <3>4
  <2>3. ASSUME NEW i \in 0..len, Clear(i) PROVE Step
    <3>1. len' = len /\ blob' = blob  BY <2>3 DEF Clear
    <3>2. HaveOf(FromBytes(len, blob))' = HaveOf(FromBytes(len, blob))
      BY <3>1 DEF HaveOf, HasBit, FromBytes, ClearPadding, Resize
    <3>3. CASE i >= len
      <4>1. bytes' = bytes  BY <2>3, <3>3 DEF Clear
      <4>2. HaveOf(bytes)' = HaveOf(bytes)  BY <3>1, <4>1 DEF HaveOf, HasBit
      <4> QED  BY <3>1, <3>2, <4>2
    <3>4. CASE i < len
      <4>1. i \in 0..len-1  BY <2>1, <3>4
      <4>2. bytes' = [bytes EXCEPT ![At(i)] = @ \ {i % Width}]
        BY <2>1, <2>3, <3>4 DEF Clear
      <4>3. \A j \in 0..len-1 : HasBit(len, bytes', j) <=> HasBit(len, bytes, j) /\ j # i
        BY <2>1, <4>1, <4>2, OneBit, ZenonT(60)
      <4>4. HaveOf(bytes)' = HaveOf(bytes) \ {i}
        BY <3>1, <4>1, <4>3 DEF HaveOf
      <4> QED  BY <3>1, <3>2, <4>1, <4>4 DEF Abstract!Lose
    <3> QED  BY <2>1, <3>3, <3>4
  <2>4. CASE Save
    <3>1. len' = len /\ bytes' = bytes /\ blob' = bytes  BY <2>4 DEF Save
    <3>2. FromBytes(len, bytes) = bytes  BY <2>1, LoadsWhatWasSaved
    <3>3. FromBytes(len, blob)' = bytes
      BY <3>1, <3>2 DEF FromBytes, ClearPadding, Resize
    <3>4. HaveOf(FromBytes(len, blob))' = HaveOf(bytes)
      BY <3>1, <3>3 DEF HaveOf, HasBit
    <3>5. HaveOf(bytes)' = HaveOf(bytes)  BY <3>1 DEF HaveOf, HasBit
    <3> QED  BY <3>1, <3>4, <3>5 DEF Abstract!Keep
  <2>5. CASE Load
    <3>1. len' = len /\ blob' = blob /\ bytes' = FromBytes(len, blob)
      BY <2>5 DEF Load
    <3>2. HaveOf(bytes)' = HaveOf(FromBytes(len, blob))
      BY <3>1 DEF HaveOf, HasBit
    <3>3. HaveOf(FromBytes(len, blob))' = HaveOf(FromBytes(len, blob))
      BY <3>1 DEF HaveOf, HasBit, FromBytes, ClearPadding, Resize
    <3> QED  BY <3>1, <3>2, <3>3 DEF Abstract!Recall
  <2>6. CASE UNCHANGED bitVars
    BY <2>6 DEF bitVars, HaveOf, HasBit, FromBytes, ClearPadding, Resize
  <2> QED  BY <2>2, <2>3, <2>4, <2>5, <2>6 DEF BitNext, Touch
<1> QED  BY <1>1, <1>2, BitTypeCorrect, PTL DEF BitSpec, ActsAsSet, Abstract!ChunkSpec

-----------------------------------------------------------------------------
(* Counting *)

\* Without ones in the padding, every one is the bit of a chunk.
LEMMA OnesAreChunks ==
  ASSUME BitTypeOK, NEW o \in Ones(bytes)
  PROVE  \E i \in HaveOf(bytes) : o = <<At(i), i % Width>>
<1> DEFINE b == o[1]
           k == o[2]
           i == Width * (b - 1) + k
<1>1. /\ len \in Nat /\ bytes \in [1..Size(len) -> Byte]
      /\ ClearPadding(len, bytes) = bytes /\ Size(len) \in Nat
  BY LenAssumption, SizeType DEF BitTypeOK
<1>2. b \in 1..Size(len) /\ k \in 0..Width-1 /\ k \in bytes[b] /\ o = <<b, k>>
  BY DEF Ones, Bits
<1> HIDE DEF b, k
<1>3. i \in Nat  BY <1>1, <1>2, WidthAssumption
<1>4. i \div Width = b - 1 /\ At(i) = b
  <2>1. b - 1 \in Nat  BY <1>1, <1>2
  <2>2. i \div Width = b - 1  BY <2>1, <1>2, Quotient, WidthAssumption
  <2> QED  BY <1>1, <1>2, <2>2 DEF At
<1>5. i % Width = k
  <2>1. i = Width * (i \div Width) + (i % Width) /\ i % Width \in 0..Width-1
    <3> HIDE DEF i
    <3>1. Width \in Nat \ {0}  BY WidthAssumption
    <3> QED  BY ONLY <1>3, <3>1, Division, Zenon
  <2> QED  BY <1>1, <1>2, <1>4, <2>1, WidthAssumption
<1>6. i < len
  <2> DEFINE q == len \div Width
             r == len % Width
  <2>1. q \in Nat /\ r \in 0..Width-1 /\ len = Width * q + r
    <3>1. Width \in Nat \ {0}  BY WidthAssumption
    <3> QED  BY ONLY <1>1, <3>1, Division, Zenon
  <2>2. Size(len) = IF r = 0 THEN q ELSE 1 + q  BY <1>1, SizeSplit
  <2> HIDE DEF q
  <2>3. CASE b <= q
    <3> DEFINE x == Width * b
               y == Width * q
    <3>1. x \in Nat /\ y \in Nat  BY <1>1, <1>2, <2>1, WidthAssumption
    <3>2. x <= y  BY <1>1, <1>2, <2>1, <2>3, WidthAssumption
    <3>3. i < x  BY <1>1, <1>2, WidthAssumption
    <3>4. len = y + r  BY <2>1
    <3> HIDE DEF i, x, y, r
    <3> QED  BY ONLY <1>1, <1>3, <2>1, <3>1, <3>2, <3>3, <3>4
  <2>4. CASE b = 1 + q /\ r # 0
    <3>1. k \in 0..r-1  BY <1>1, <1>2, <2>2, <2>4, LastByte DEF ClearPadding
    <3> QED  BY <1>2, <2>1, <2>4, <3>1, WidthAssumption
  <2> QED  BY <1>1, <1>2, <2>1, <2>2, <2>3, <2>4
<1>7. i \in HaveOf(bytes)
  <2>1. i \in 0..len-1  BY <1>1, <1>3, <1>6
  <2> HIDE DEF i
  <2> QED  BY <1>1, <1>2, <1>4, <1>5, <2>1, <1>6 DEF HaveOf, HasBit
<1> QED  BY <1>2, <1>4, <1>5, <1>7

LEMMA CountIsExact ==
  ASSUME BitTypeOK
  PROVE  CountsChunks
<1> DEFINE H == HaveOf(bytes)
           f == [i \in H |-> <<At(i), i % Width>>]
<1>1. len \in Nat /\ Size(len) \in Nat  BY LenAssumption, SizeType DEF BitTypeOK
<1>2. IsFiniteSet(0..len-1) /\ Cardinality(0..len-1) = len
  <2>1. 0 \in Int /\ len - 1 \in Int  BY <1>1
  <2>2. /\ IsFiniteSet(0..len-1)
        /\ Cardinality(0..len-1) = IF 0 > len - 1 THEN 0 ELSE len - 1 - 0 + 1
    BY ONLY <2>1, FS_Interval, Zenon
  <2> QED  BY <1>1, <2>2
<1>3. IsFiniteSet(H) /\ Cardinality(H) <= len /\ (Cardinality(H) = len <=> H = 0..len-1)
  <2>1. H \subseteq 0..len-1  BY DEF HaveOf
  <2> HIDE DEF H
  <2> QED  BY <1>2, <2>1, FS_Subset
<1>4. f \in [H -> Ones(bytes)]
  <2>1. SUFFICES ASSUME NEW i \in H PROVE <<At(i), i % Width>> \in Ones(bytes)
    OBVIOUS
  <2>2. i \in 0..len-1 /\ i \in Nat /\ i % Width \in bytes[At(i)]
    BY <1>1, <2>1 DEF HaveOf, HasBit
  <2>3. At(i) \in 1..Size(len)  BY <1>1, <2>2, ByteExists
  <2>4. i % Width \in Bits  BY <2>2, Division, WidthAssumption DEF Bits
  <2> QED  BY <2>2, <2>3, <2>4 DEF Ones
<1>5. \A i, j \in H : f[i] = f[j] => i = j
  <2>1. SUFFICES ASSUME NEW i \in H, NEW j \in H, f[i] = f[j] PROVE i = j
    OBVIOUS
  <2>2. i \in Nat /\ j \in Nat  BY <1>1 DEF HaveOf
  <2>3. At(i) = At(j) /\ i % Width = j % Width
    <3> HIDE DEF H, At
    <3> QED  BY <2>1
  <2> QED  BY <2>2, <2>3, BitIsUnique
<1>6. \A o \in Ones(bytes) : \E i \in H : f[i] = o
  BY OnesAreChunks
<1>7. f \in Bijection(H, Ones(bytes))
  <2> HIDE DEF f, H
  <2> QED  BY <1>4, <1>5, <1>6 DEF Bijection, Injection, IsInjective, Surjection
<1>8. Cardinality(Ones(bytes)) = Cardinality(H)
  <2> HIDE DEF f, H
  <2> QED  BY <1>3, <1>7, FS_Bijection DEF ExistsBijection
<1>9. Missing = (0..len-1) \ H  BY DEF Missing, HaveOf
<1>10. H \subseteq 0..len-1  BY DEF HaveOf
<1> HIDE DEF H
<1>11. Missing = {} <=> H = 0..len-1  BY <1>9, <1>10
<1> QED  BY <1>3, <1>8, <1>11 DEF CountsChunks, CountSet, IsComplete, H

\* The number of ones is the number of chunks, and a bitmap that counts as
\* complete misses none.
THEOREM CountsExactly == BitSpec => []CountsChunks
<1>1. BitTypeOK => CountsChunks  BY CountIsExact
<1> QED  BY <1>1, BitTypeCorrect, PTL

-----------------------------------------------------------------------------
(* The scheduler *)

\* A set of naturals that is not empty has a least element.
LEMMA LeastExists ==
  ASSUME NEW S \in SUBSET Nat, S # {}
  PROVE  \E x \in S : \A y \in S : x <= y
<1>1. IsWellFoundedOn(OpToRel(<, Nat), Nat)  BY NatLessThanWellFounded
<1>2. PICK x \in S : \A y \in S : ~ (<<y, x>> \in OpToRel(<, Nat))
  BY <1>1, WFMin
<1>3. \A y \in S : ~ (y < x)  BY <1>2 DEF OpToRel
<1> QED  BY <1>3

LEMMA QuotientType ==
  ASSUME NEW a \in Nat, NEW w \in Nat \ {0}
  PROVE  a \div w \in Nat
  OBVIOUS

LEMMA CostType ==
  ASSUME SchedTypeOK, NEW s \in Sources, Usable(s)
  PROVE  Cost(s) \in Nat
<1>1. Weight(s) \in Nat \ {0}
  <2>1. CASE s = Server
    BY <2>1, WeightAssumption DEF Weight, Positive
  <2>2. CASE s # Server
    <3>1. s \in PeerIds  BY <2>2, CountAssumption DEF Sources, PeerIds, Server
    <3>2. peers[s].rate \in Rates \cup {Unmeasured}
      BY <3>1 DEF SchedTypeOK, Peer
    <3>3. CASE peers[s].rate = Unmeasured
      BY <2>2, <3>3, WeightAssumption DEF Weight, Positive
    <3>4. CASE peers[s].rate # Unmeasured
      <4>1. peers[s].rate \in Nat /\ peers[s].rate >= Floor /\ Floor \in Nat \ {0}
        BY <2>2, <3>2, <3>4, WeightAssumption DEF Usable, Eligible, Positive
      <4>2. Weight(s) = peers[s].rate  BY <2>2, <3>4 DEF Weight
      <4> QED  BY <4>1, <4>2
    <3> QED  BY <3>3, <3>4
  <2> QED  BY <2>1, <2>2
<1>2. Scale \in Nat  BY WeightAssumption DEF Positive
<1> QED  BY <1>1, <1>2, QuotientType DEF Cost

\* The choice is made among the holders and has the least clock of them.
LEMMA BestIsLeast ==
  ASSUME SchedTypeOK, NEW c
  PROVE  /\ Best(c) \in Holders(c)
         /\ \A t \in Holders(c) : vt[Best(c)] <= vt[t]
<1> DEFINE H == Holders(c)
           V == {vt[s] : s \in H}
<1>1. H \subseteq Sources /\ Server \in H /\ Sources \subseteq Nat
  BY CountAssumption DEF Holders, Sources, PeerIds, Server
<1>2. \A s \in H : vt[s] \in Nat  BY <1>1 DEF SchedTypeOK
<1> HIDE DEF H
<1>3. PICK v \in V : \A w \in V : v <= w
  <2>1. V \in SUBSET Nat /\ V # {}  BY <1>1, <1>2
  <2> HIDE DEF V
  <2> QED  BY <2>1, LeastExists
<1> DEFINE F == {s \in H : vt[s] = v}
<1>4. PICK m \in F : \A s \in F : m <= s
  <2>1. F \in SUBSET Nat /\ F # {}  BY <1>1, <1>3
  <2> HIDE DEF F
  <2> QED  BY <2>1, LeastExists
<1>5. m \in H /\ \A t \in H : vt[m] < vt[t] \/ (vt[m] = vt[t] /\ m <= t)
  <2>1. m \in H /\ vt[m] = v  BY <1>4
  <2>2. \A t \in H : v <= vt[t]  BY <1>3
  <2>3. \A t \in H : vt[t] = v => m <= t  BY <1>4
  <2> HIDE DEF F, V
  <2> QED  BY <1>2, <2>1, <2>2, <2>3
<1>6. /\ Best(c) \in H
      /\ \A t \in H : vt[Best(c)] < vt[t] \/ (vt[Best(c)] = vt[t] /\ Best(c) <= t)
  BY <1>5 DEF Best, H
<1>7. \A t \in H : vt[Best(c)] <= vt[t]  BY <1>2, <1>6
<1> QED  BY <1>6, <1>7 DEF H

\* The clocks are numbers, whoever is chosen.
THEOREM SchedTypeCorrect == SchedSpec => []SchedTypeOK
<1>1. SchedInit => SchedTypeOK  BY DEF SchedInit, SchedTypeOK
<1>2. SchedTypeOK /\ [AssignNext]_schedVars => SchedTypeOK'
  <2> SUFFICES ASSUME SchedTypeOK, AssignNext PROVE SchedTypeOK'
    BY DEF SchedTypeOK, schedVars
  <2> DEFINE s == Best(Len(given) + 1)
  <2>1. s \in Holders(Len(given) + 1)  BY BestIsLeast
  <2>2. s \in Sources /\ Usable(s)
    BY <2>1, CountAssumption DEF Holders, Usable, Sources, PeerIds, Server
  <2>3. Cost(s) \in Nat  BY <2>2, CostType
  <2>4. vt' = [vt EXCEPT ![s] = @ + Cost(s)] /\ given' = Append(given, s) /\ peers' = peers
    BY DEF AssignNext
  <2> HIDE DEF s
  <2> QED  BY <2>2, <2>3, <2>4 DEF SchedTypeOK
<1> QED  BY <1>1, <1>2, PTL DEF SchedSpec

\* No source is ahead of any that could have served in its place by more than
\* one chunk, so that the chunks are shared in proportion to the weights.
THEOREM ProportionalShare == SchedSpec => []FairShare
<1>1. SchedInit => FairShare
  <2> SUFFICES ASSUME SchedInit PROVE FairShare  OBVIOUS
  <2>1. SchedTypeOK  BY DEF SchedInit, SchedTypeOK
  <2>2. \A s \in Sources : vt[s] = 0  BY DEF SchedInit
  <2>3. \A s \in Sources : Usable(s) => Cost(s) \in Nat  BY <2>1, CostType
  <2> QED  BY <2>2, <2>3 DEF FairShare
<1>2. SchedTypeOK /\ FairShare /\ [AssignNext]_schedVars => FairShare'
  <2>1. ASSUME UNCHANGED schedVars, FairShare PROVE FairShare'
    BY <2>1 DEF schedVars, FairShare, Usable, Eligible, Universal, Cost, Weight
  <2>2. ASSUME SchedTypeOK, FairShare, AssignNext PROVE FairShare'
    <3> DEFINE c == Len(given) + 1
               b == Best(c)
    <3>1. b \in Holders(c) /\ \A t \in Holders(c) : vt[b] <= vt[t]
      BY <2>2, BestIsLeast
    <3>2. b \in Sources /\ Usable(b)
      BY <3>1, CountAssumption DEF Holders, Usable, Sources, PeerIds, Server
    <3>3. Cost(b) \in Nat  BY <2>2, <3>2, CostType
    <3>4. vt' = [vt EXCEPT ![b] = @ + Cost(b)] /\ given' = Append(given, b) /\ peers' = peers
      BY <2>2 DEF AssignNext
    <3>5. /\ \A s \in Sources : (Usable(s)' <=> Usable(s)) /\ Cost(s)' = Cost(s)
          /\ \A s \in Sources : vt[s] \in Nat
      BY <2>2, <3>4 DEF Usable, Eligible, Cost, Weight, SchedTypeOK
    <3>6. \A t \in Sources : Universal(t)' => Universal(t) /\ t \in Holders(c)
      <4>1. Len(given') = c /\ Len(given) \in Nat
        BY <2>2, <3>2, <3>4 DEF SchedTypeOK
      <4> SUFFICES ASSUME NEW t \in Sources, Universal(t)'
                   PROVE  Universal(t) /\ t \in Holders(c)
        OBVIOUS
      <4>2. CASE t = Server
        BY <4>2 DEF Universal, Usable, Holders
      <4>3. CASE t # Server
        <5>1. t \in PeerIds  BY <4>3, CountAssumption DEF Sources, PeerIds, Server
        <5>2. Eligible(t) /\ \A d \in 1..c : d \in peers[t].have
          BY <3>4, <4>1, <4>3 DEF Universal, Usable, Eligible
        <5>3. c \in 1..c /\ 1..Len(given) \subseteq 1..c  BY <4>1
        <5> QED  BY <4>3, <5>1, <5>2, <5>3 DEF Universal, Usable, Holders
      <4> QED  BY <4>2, <4>3
    <3> HIDE DEF b, c
    <3>7. ASSUME NEW s \in Sources, Usable(s), NEW t \in Sources, Universal(t)'
          PROVE  vt'[s] <= vt'[t] + Cost(s)
      <4>1. vt[b] <= vt[t] /\ vt[s] <= vt[t] + Cost(s)
        BY <2>2, <3>1, <3>6, <3>7 DEF FairShare
      <4>2. Cost(s) \in Nat  BY <2>2, <3>7, CostType
      <4>3. vt[s] \in Nat /\ vt[t] \in Nat /\ vt[b] \in Nat  BY <3>2, <3>5
      <4>4. vt \in [Sources -> Nat]  BY <2>2 DEF SchedTypeOK
      <4>5. vt'[t] >= vt[t] /\ vt'[t] \in Nat
        BY <3>2, <3>3, <3>4, <4>3, <4>4
      <4>6. CASE s = b
        <5>1. vt'[s] = vt[s] + Cost(s)  BY <3>2, <3>4, <4>4, <4>6
        <5> QED  BY <4>1, <4>2, <4>3, <4>5, <4>6, <5>1
      <4>7. CASE s # b
        <5>1. vt'[s] = vt[s]  BY <3>2, <3>4, <4>4, <4>7
        <5> QED  BY <4>1, <4>2, <4>3, <4>5, <5>1
      <4> QED  BY <4>6, <4>7
    <3>8. ASSUME NEW s \in Sources, ~Usable(s) PROVE vt'[s] = 0
      <4>1. s # b /\ vt[s] = 0  BY <2>2, <3>2, <3>8 DEF FairShare
      <4> QED  BY <2>2, <3>2, <3>4, <4>1 DEF SchedTypeOK
    <3> QED  BY <3>5, <3>7, <3>8 DEF FairShare
  <2> QED  BY <2>1, <2>2
<1> QED  BY <1>1, <1>2, SchedTypeCorrect, PTL DEF SchedSpec

-----------------------------------------------------------------------------
(* The cap *)

\* Rounding up a number of units by a positive rate gives a natural number.
LEMMA DivisionType ==
  ASSUME NEW a \in Nat, NEW w \in Nat, w > 0
  PROVE  a \div w \in Nat
<1>1. a \div w \in Int /\ a % w \in 0..w-1 /\ a = w * (a \div w) + (a % w)
  BY Z3
<1>2. SUFFICES ASSUME a \div w <= -1 PROVE FALSE
  BY <1>1
<1>3. w * (a \div w) <= w * (-1)
  BY <1>1, <1>2, Z3
<1> QED
  BY <1>1, <1>3

\* The burst and the time to fill it are natural numbers.
LEMMA BurstType == Burst \in Nat /\ Full \in Nat
<1> USE CapAssumption
<1>1. Burst \in Nat
  BY DEF Burst
<1>2. ASSUME Rate > 0 PROVE (Burst + Rate - 1) \div Rate \in Nat
  <2>1. Burst + Rate - 1 \in Nat
    BY <1>1, <1>2
  <2> QED
    BY <2>1, <1>2, DivisionType
<1> QED
  BY <1>1, <1>2 DEF Full

\* What the bucket holds after a refill is between nothing and the burst.
LEMMA RefilledType ==
  ASSUME tokens \in 0..Burst, idle \in 0..Full
  PROVE  Refilled \in 0..Burst
<1>1. Burst \in Nat /\ Full \in Nat /\ Rate \in Nat
  BY BurstType, CapAssumption
<1>2. idle \in Nat /\ tokens \in Nat
  BY <1>1
<1>3. Rate * idle \in Nat
  BY <1>1, <1>2
<1> QED
  BY <1>1, <1>2, <1>3 DEF Refilled, Least

\* A request that may be granted later sleeps for a natural number of units.
LEMMA SleepType ==
  ASSUME tokens \in 0..Burst, idle \in 0..Full, NEW n \in Nat,
         Refilled < n, ~Impossible(n)
  PROVE  Least(TimeUntil(n), MaxSleep) \in 0..MaxSleep
<1>1. Refilled \in Nat /\ Rate \in Nat /\ Rate > 0 /\ MaxSleep \in Nat
  BY RefilledType, BurstType, CapAssumption DEF Impossible
<1>2. n - Refilled + Rate - 1 \in Nat
  BY <1>1
<1>3. TimeUntil(n) \in Nat
  BY <1>1, <1>2, DivisionType DEF TimeUntil
<1> QED
  BY <1>1, <1>3 DEF Least

\* A request is for a natural number of units.
LEMMA LengthType ==
  ASSUME SeedTypeOK, NEW r \in Getters
  PROVE  get[r].len \in Nat
<1>1. get[r].len \in Lengths \cup {0}
  BY DEF SeedTypeOK
<1>2. \A n \in Lengths : n \in Nat
  BY CapAssumption
<1>3. 0 \in Nat
  OBVIOUS
<1> QED
  BY <1>1, <1>2, <1>3, Zenon

\* Every step keeps the types.
LEMMA NextTypes ==
  ASSUME SeedTypeOK, [SeedNext]_seedVars
  PROVE  SeedTypeOK'
<1> USE DEF SeedTypeOK
<1>0. /\ Burst \in Nat /\ Full \in Nat
      /\ Lengths \subseteq Nat /\ MaxSleep \in Nat
  BY BurstType, CapAssumption
<1>1. ASSUME NEW r \in Getters, NEW n \in Lengths, Ask(r, n) PROVE SeedTypeOK'
  BY <1>0, <1>1 DEF Ask
<1>2. ASSUME NEW r \in Getters, NotHeld(r) PROVE SeedTypeOK'
  BY <1>0, <1>2 DEF NotHeld, NoGet
<1>3. ASSUME NEW r \in Getters, Held(r) PROVE SeedTypeOK'
  BY <1>3 DEF Held
<1>4. ASSUME NEW r \in Getters, TryTake(r) PROVE SeedTypeOK'
  <2>1. get[r].len \in Nat /\ Refilled \in 0..Burst
    BY LengthType, RefilledType
  <2>2. idle' = 0
    BY <1>4 DEF TryTake
  <2>3. CASE Refilled >= get[r].len
    <3>1. tokens' = Refilled - get[r].len /\ get' = [get EXCEPT ![r].pc = "read"]
      BY <1>4, <2>1, <2>3 DEF TryTake
    <3> QED
      BY <1>0, <2>1, <2>2, <2>3, <3>1
  <2>4. CASE Refilled < get[r].len /\ Impossible(get[r].len)
    <3>1. tokens' = Refilled /\ get' = [get EXCEPT ![r] = NoGet]
      BY <1>4, <2>1, <2>4 DEF TryTake
    <3> QED
      BY <1>0, <2>1, <2>2, <3>1 DEF NoGet
  <2>5. CASE Refilled < get[r].len /\ ~Impossible(get[r].len)
    <3>1. /\ tokens' = Refilled
          /\ get' = [get EXCEPT ![r].sleep = Least(TimeUntil(get[r].len), MaxSleep)]
      BY <1>4, <2>1, <2>5 DEF TryTake
    <3>2. Least(TimeUntil(get[r].len), MaxSleep) \in 0..MaxSleep
      BY <2>1, <2>5, SleepType
    <3> QED
      BY <1>0, <2>1, <2>2, <3>1, <3>2
  <2> QED
    BY <2>1, <2>3, <2>4, <2>5
<1>5. ASSUME NEW r \in Getters, Read(r) PROVE SeedTypeOK'
  BY <1>0, <1>5 DEF Read, NoGet
<1>6. CASE Pass
  BY <1>0, <1>6 DEF Pass, Least
<1>7. CASE UNCHANGED seedVars
  BY <1>7 DEF seedVars
<1> QED
  BY <1>1, <1>2, <1>3, <1>4, <1>5, <1>6, <1>7 DEF SeedNext, Serve

\* The initial state has the types.
LEMMA InitTypes == SeedInit => SeedTypeOK
  BY BurstType, CapAssumption DEF SeedInit, SeedTypeOK, NoGet

\* Every variable of the chunk server's cap keeps its type; the bucket never
\* holds less than nothing or more than the burst (TokenBucket).
THEOREM SeedTypeCorrect == SeedSpec => []SeedTypeOK
  BY InitTypes, NextTypes, PTL DEF SeedSpec

-----------------------------------------------------------------------------
\* What is in the bucket is never more than what any interval has left: the
\* bucket is the interval that has let out most.
BucketBehind == slack \in Int /\ Refilled <= slack

\* A refill is paid for by the time that passes.
LEMMA PassBehind ==
  ASSUME SeedTypeOK, BucketBehind, Pass
  PROVE  BucketBehind'
<1>1. /\ Burst \in Nat /\ Full \in Nat /\ Rate \in Nat
      /\ idle \in Nat /\ tokens \in Nat /\ slack \in Int
      /\ Refilled \in 0..Burst
  BY BurstType, CapAssumption, RefilledType DEF SeedTypeOK, BucketBehind
<1>2. /\ tokens' = tokens /\ idle' = Least(idle + 1, Full)
      /\ slack' = Least(slack + Rate, Burst)
  BY DEF Pass
<1>3. Rate * (idle + 1) = Rate * idle + Rate
  BY <1>1
<1>4. Rate * idle \in Nat
  BY <1>1
<1>5. Rate * idle' <= Rate * idle + Rate
  <2>1. CASE idle' = idle + 1
    BY <1>1, <1>3, <1>4, <2>1
  <2>2. CASE idle' # idle + 1
    <3>1. idle' = idle
      BY <1>1, <1>2, <2>2 DEF Least, SeedTypeOK
    <3> QED
      BY <1>1, <1>4, <3>1
  <2> QED
    BY <2>1, <2>2
<1>6. Rate * idle' \in Int
  BY <1>1, <1>2 DEF Least
<1>7. Refilled' = Least(tokens + Rate * idle', Burst)
  BY <1>2 DEF Refilled, Least, Burst
<1>8. Refilled' <= Refilled + Rate /\ Refilled' <= Burst
  BY <1>1, <1>4, <1>5, <1>6, <1>7 DEF Refilled, Least
<1>9. Refilled <= slack
  BY DEF BucketBehind
<1>10. Refilled' \in Int
  BY <1>1, <1>6, <1>7 DEF Least
<1> QED
  BY <1>1, <1>2, <1>8, <1>9, <1>10 DEF BucketBehind, Least

\* A try leaves the bucket behind: it gives out what the intervals still have.
LEMMA TryBehind ==
  ASSUME SeedTypeOK, BucketBehind, NEW r \in Getters, TryTake(r)
  PROVE  BucketBehind'
<1>1. /\ Burst \in Nat /\ Rate \in Nat /\ Refilled \in 0..Burst
      /\ get[r].len \in Nat /\ slack \in Int /\ Refilled <= slack
  BY BurstType, CapAssumption, RefilledType, LengthType DEF SeedTypeOK, BucketBehind
<1>2. idle' = 0
  BY DEF TryTake
<1>3. Refilled' = Least(tokens' + Rate * 0, Burst)
  BY <1>2 DEF Refilled, Least, Burst
<1>4. Rate * 0 = 0
  BY <1>1
<1>5. CASE Refilled >= get[r].len /\ tokens' = Refilled - get[r].len
           /\ slack' = slack - get[r].len
  BY <1>1, <1>3, <1>4, <1>5 DEF BucketBehind, Least
<1>6. CASE tokens' = Refilled /\ slack' = slack
  BY <1>1, <1>3, <1>4, <1>6 DEF BucketBehind, Least
<1> QED
  BY <1>5, <1>6 DEF TryTake

\* Every other step leaves bucket and slack alone.
LEMMA NextBehind ==
  ASSUME SeedTypeOK, BucketBehind, [SeedNext]_seedVars
  PROVE  BucketBehind'
<1>1. CASE UNCHANGED <<tokens, idle, slack>>
  BY <1>1 DEF BucketBehind, Refilled, Least, Burst
<1>2. CASE Pass
  BY <1>2, PassBehind
<1>3. ASSUME NEW r \in Getters, TryTake(r) PROVE BucketBehind'
  BY <1>3, TryBehind
<1> QED
  BY <1>1, <1>2, <1>3 DEF SeedNext, Serve, Ask, NotHeld, Held, Read, seedVars

\* In any interval the seeder sends at most the cap for its time and one burst,
\* whatever requests come at once, for any cap (serve_chunk, F4.11).
THEOREM CapHolds == SeedSpec => []CapKept
<1>1. SeedInit => BucketBehind
  <2> SUFFICES ASSUME SeedInit PROVE BucketBehind
    OBVIOUS
  <2>1. Burst \in Nat /\ Rate \in Nat /\ Rate * 0 = 0
    BY BurstType, CapAssumption
  <2> QED
    BY <2>1 DEF SeedInit, BucketBehind, Refilled, Least
<1>2. SeedTypeOK /\ BucketBehind => CapKept
  <2> SUFFICES ASSUME SeedTypeOK, BucketBehind PROVE CapKept
    OBVIOUS
  <2>1. Refilled \in 0..Burst /\ Burst \in Nat
    BY RefilledType, BurstType DEF SeedTypeOK
  <2> QED
    BY <2>1 DEF BucketBehind, CapKept
<1> QED
  BY <1>1, <1>2, InitTypes, NextTypes, NextBehind, PTL DEF SeedSpec
=============================================================================
