------------------------------- MODULE Bitmap -------------------------------
(***************************************************************************)
(* The resume bitmap (crates/core/src/bitmap.rs): len chunks, one bit for  *)
(* each in bytes, and the blob of it that the client's database holds. A   *)
(* byte is the set of its bits that are one; the blob that a load finds    *)
(* may have any length in BlobSizes and any bits: from_bytes allows for    *)
(* every length.                                                           *)
(***************************************************************************)
EXTENDS Integers, Sequences, FiniteSets

CONSTANTS
  Lens,      \* chunk counts
  BlobSizes, \* lengths of the blobs found in the database
  Width      \* bits of a byte (8)

ASSUME LenAssumption == Lens \subseteq Nat /\ BlobSizes \subseteq Nat
ASSUME WidthAssumption == Width \in Nat \ {0}

VARIABLES len, bytes, blob

bitVars == <<len, bytes, blob>>

Bits    == 0..Width-1
Byte    == SUBSET Bits
Size(n) == (n + Width - 1) \div Width      \* div_ceil
Zeros(n) == [b \in 1..n |-> {}]
At(i)   == 1 + i \div Width                \* TLA+ sequences start at 1

-----------------------------------------------------------------------------
(* The operations *)

New(n) == Zeros(Size(n))

Resize(s, n) == [b \in 1..n |-> IF b <= Len(s) THEN s[b] ELSE {}]

\* The bits of the last byte beyond n are forced to zero.
PaddingKept(n, s) == s   \* mutant
ClearPadding(n, s) ==
  IF n % Width = 0 THEN s
  ELSE [s EXCEPT ![Size(n)] = @ \cap (0..(n % Width) - 1)]

FromBytes(n, s) == ClearPadding(n, Resize(s, Size(n)))

HasBit(n, s, i) == i < n /\ i % Width \in s[At(i)]

\* missing: the work list of a resume.
Missing == {i \in 0..len-1 : ~HasBit(len, bytes, i)}

\* count_set counts ones byte by byte; complete means that it reaches len.
Ones(s) == {o \in (1..Size(len)) \X Bits : o[2] \in s[o[1]]}
CountSet == Cardinality(Ones(bytes))
IsComplete == CountSet = len

Set(i) ==
  /\ bytes' = IF i >= len THEN bytes ELSE [bytes EXCEPT ![At(i)] = @ \cup {i % Width}]
  /\ UNCHANGED <<len, blob>>

ClearByte(i) ==   \* mutant: the whole byte goes
  /\ bytes' = IF i >= len THEN bytes ELSE [bytes EXCEPT ![At(i)] = {}]
  /\ UNCHANGED <<len, blob>>
Clear(i) ==
  /\ bytes' = IF i >= len THEN bytes ELSE [bytes EXCEPT ![At(i)] = @ \ {i % Width}]
  /\ UNCHANGED <<len, blob>>

\* save_bitmap and load_bitmap of the client's database.
Save == blob' = bytes /\ UNCHANGED <<len, bytes>>
Load == bytes' = FromBytes(len, blob) /\ UNCHANGED <<len, blob>>

-----------------------------------------------------------------------------
BitInit == /\ len \in Lens /\ bytes = New(len)
           /\ \E n \in BlobSizes : blob \in [1..n -> Byte]

\* Chunks are asked for by their index; an index beyond the last is ignored.
Touch == \E i \in 0..len : Set(i) \/ Clear(i)
BitNext == Touch \/ Save \/ Load

BitSpec == BitInit /\ [][BitNext]_bitVars

-----------------------------------------------------------------------------
\* Whole bytes, as many as the count needs, and no ones in the padding.
BitTypeOK ==
  /\ len \in Lens
  /\ bytes \in [1..Size(len) -> Byte]
  /\ blob \in Seq(Byte)
  /\ ClearPadding(len, bytes) = bytes

HaveOf(s) == {i \in 0..len-1 : HasBit(len, s, i)}
Abstract == INSTANCE ChunkSet WITH have <- HaveOf(bytes), kept <- HaveOf(FromBytes(len, blob))

\* The bitmap is a set of chunks that survives a save and a load: setting one
\* bit touches no other chunk, padding never becomes a chunk, and a blob of the
\* wrong length is read as what of it there is (bitmap.rs, "This is the heart
\* of resume").
ActsAsSet == Abstract!ChunkSpec

\* The count of ones, from which a download is taken for complete, counts the
\* chunks it has and nothing else: complete means none is missing, whatever
\* blob was loaded (count_set, is_complete, from_bytes).
CountsChunks ==
  /\ CountSet = Cardinality(HaveOf(bytes))
  /\ IsComplete <=> Missing = {}
=============================================================================
