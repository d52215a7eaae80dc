-------------------------- MODULE LineBufferProofs --------------------------
(***************************************************************************)
(* What the line buffer's caller can rely on, for every input, every       *)
(* capacity and limit, and any number of readers: the window is exactly    *)
(* the input's bytes at the absolute offset, and the limit is kept         *)
(* (crates/searcher/src/line_buffer.rs).                                   *)
(*                                                                         *)
(* The invariant ties the indices into the buffer to the reader's          *)
(* position, byte by byte.                                                 *)
(***************************************************************************)
EXTENDS LineBuffer, SequenceTheorems, WellFoundedInduction, TLAPS

TypeInv ==
    /\ input \in Seq(Bytes) /\ rpos \in 0 .. Len(input) /\ readers \in Nat
    /\ alloc \in Allocations /\ mode \in {"none", "quit", "convert"}
    /\ buf \in Seq(Bytes)
    /\ pos \in Nat /\ last_lineterm \in Nat /\ end \in Nat
    /\ pos <= last_lineterm /\ last_lineterm <= end /\ end <= Len(buf)
    /\ absolute_byte_offset \in Nat
    /\ binary_byte_offset \in Nat \cup {None}
    /\ pc \in {"idle", "filling", "failed"}
    /\ filled \in {"none", "true", "false", "error"}

\* Binary data has ended the reader's input.
Stopped == mode = "quit" /\ binary_byte_offset # None

\* What the caller is to see for a byte of the input, and of how much of it.
Out(b) == IF mode = "convert" /\ b = Binary THEN LineTerm ELSE b
Cut == IF mode = "quit" /\ BinaryAt # {} THEN Least(BinaryAt) ELSE Len(input)

\* Nothing lies between the buffer's end and the reader's position, unless
\* binary data has stopped the buffer.
OffsetInv ==
    /\ ~Stopped => absolute_byte_offset + end - pos = rpos
    /\ Stopped => /\ absolute_byte_offset + end - pos = binary_byte_offset
                  /\ last_lineterm = end
    /\ pc = "filling" => pos = 0 /\ ~Stopped /\ filled = "none"

\* Binary bytes are looked for: when they convert to themselves they are not.
Watched == mode = "quit" \/ (mode = "convert" /\ Binary # LineTerm)

\* The recorded binary byte is the first; none has been passed over.
BinaryInv ==
    /\ binary_byte_offset # None =>
         /\ binary_byte_offset \in BinaryAt
         /\ \A j \in BinaryAt : binary_byte_offset <= j
    /\ binary_byte_offset = None /\ Watched => \A j \in BinaryAt : rpos <= j

BytesInv ==
    \A i \in 1 .. (end - pos) :
        buf[pos + i] = Out(input[absolute_byte_offset + i])

\* What fill has told the caller.
TellInv ==
    /\ filled = "false" => pos = end /\ absolute_byte_offset = Cut
    /\ filled = "true" /\ pos < last_lineterm =>
         \/ buf[last_lineterm] = LineTerm
         \/ absolute_byte_offset + last_lineterm - pos = Cut
    /\ filled = "error" => pc = "failed"

SizeInv ==
    /\ Capacity <= Len(buf)
    /\ Limit # NoLimit =>
         /\ Len(buf) <= Capacity + Limit
         /\ filled = "error" /\ end = Len(buf) => end - pos = Capacity + Limit

Inv == TypeInv /\ OffsetInv /\ BinaryInv /\ BytesInv /\ TellInv /\ SizeInv
-----------------------------------------------------------------------------
(* Facts about the operators.                                              *)

\* The first offset at which memchr finds a byte, if it finds one.
LEMMA LeastIs ==
    ASSUME NEW S \in SUBSET Nat, S # {}
    PROVE  Least(S) \in S /\ \A y \in S : Least(S) <= y
<1>1. IsWellFoundedOn(OpToRel(<, Nat), Nat)
  BY NatLessThanWellFounded
<1>2. PICK x \in S : \A y \in S : ~(<<y, x>> \in OpToRel(<, Nat))
  BY <1>1, WFMin
<1>3. \A y \in Nat, z \in Nat : y < z => <<y, z>> \in OpToRel(<, Nat)
  BY DEF OpToRel
<1>4. ASSUME NEW y \in S PROVE x <= y
  <2>1. ~(y < x)
    BY <1>2, <1>3
  <2> QED BY <2>1
<1> QED BY <1>4 DEF Least

\* The last one, as memrchr finds it.
LEMMA GreatestIs ==
    ASSUME NEW n \in Nat, NEW S \in SUBSET (0 .. n), S # {}
    PROVE  Greatest(S) \in S /\ \A y \in S : Greatest(S) >= y
<1> DEFINE T == {i \in 0 .. n : n - i \in S}
<1>1. T \in SUBSET Nat /\ T # {}
  <2>1. PICK s \in S : TRUE
    OBVIOUS
  <2>2. n - s \in T
    OBVIOUS
  <2> QED BY <2>2
<1>2. Least(T) \in T /\ \A y \in T : Least(T) <= y
  BY <1>1, LeastIs
<1>3. ASSUME NEW y \in S PROVE n - Least(T) >= y
  <2>1. n - y \in T
    OBVIOUS
  <2> QED BY <1>2, <2>1
<1> QED BY <1>2, <1>3 DEF Greatest

\* A buffer given byte by byte.
LEMMA FunctionBuffer ==
    ASSUME NEW n \in Nat, NEW f \in [1 .. n -> Bytes]
    PROVE  f \in Seq(Bytes) /\ Len(f) = n
<1>1. f \in Seq(Bytes)
  BY SeqDef
<1> QED BY <1>1

\* The rest of the line buffer's bytes is not touched by replace_bytes, nor is
\* their number.
LEMMA ConvertedIs ==
    ASSUME NEW s \in Seq(Bytes)
    PROVE  /\ Converted(s) \in Seq(Bytes) /\ Len(Converted(s)) = Len(s)
           /\ \A i \in 1 .. Len(s) : Converted(s)[i] = Out(s[i])
<1> DEFINE f == [i \in 1 .. Len(s) |-> IF s[i] = Binary THEN LineTerm ELSE s[i]]
<1>1. Len(s) \in Nat /\ f \in [1 .. Len(s) -> Bytes]
  BY BytesAssumption
<1>2. f \in Seq(Bytes) /\ Len(f) = Len(s)
  <2> HIDE DEF f
  <2> QED BY <1>1, FunctionBuffer
<1>3. CASE mode = "convert"
  <2>1. Converted(s) = f
    BY <1>3 DEF Converted
  <2>2. \A i \in 1 .. Len(s) : f[i] = Out(s[i])
    BY <1>3 DEF Out
  <2> QED BY <1>2, <2>1, <2>2
<1>4. CASE mode # "convert"
  BY <1>4 DEF Converted, Out
<1> QED BY <1>3, <1>4

\* Every offset of binary data lies in the input.
LEMMA BinaryAtIs ==
    ASSUME input \in Seq(Bytes)
    PROVE  /\ BinaryAt \in SUBSET Nat /\ Len(input) \in Nat
           /\ \A j \in BinaryAt : j < Len(input) /\ input[j + 1] = Binary
           /\ \A j \in 0 .. (Len(input) - 1) : input[j + 1] = Binary => j \in BinaryAt
           /\ BinaryAt # {} => Least(BinaryAt) \in BinaryAt
           /\ BinaryAt # {} => \A j \in BinaryAt : Least(BinaryAt) <= j
<1>1. BinaryAt \in SUBSET Nat /\ Len(input) \in Nat
  BY DEF BinaryAt, Offsets
<1>2. BinaryAt # {} =>
        Least(BinaryAt) \in BinaryAt /\ \A j \in BinaryAt : Least(BinaryAt) <= j
  BY <1>1, LeastIs
<1> QED BY <1>1, <1>2 DEF BinaryAt, Offsets

\* What the caller is to see is the input up to Cut, converted.
LEMMA ExpectedIs ==
    ASSUME input \in Seq(Bytes)
    PROVE  /\ Cut \in 0 .. Len(input) /\ Len(Expected) = Cut
           /\ \A i \in 1 .. Cut : Expected[i] = Out(input[i])
<1>1. CASE mode = "quit" /\ BinaryAt # {}
  <2>1. Cut \in 0 .. Len(input) /\ Cut = Least(BinaryAt)
    BY <1>1, BinaryAtIs DEF Cut
  <2>2. Expected = SubSeq(input, 1, Cut)
    BY <1>1, <2>1 DEF Expected
  <2>3. /\ Len(SubSeq(input, 1, Cut)) = Cut
        /\ \A i \in 1 .. Cut : SubSeq(input, 1, Cut)[i] = input[i]
    <3>1. ASSUME NEW k \in 0 .. Len(input)
          PROVE  /\ Len(SubSeq(input, 1, k)) = k
                 /\ \A i \in 1 .. k : SubSeq(input, 1, k)[i] = input[i]
      OBVIOUS
    <3> QED BY <2>1, <3>1
  <2> QED BY <1>1, <2>1, <2>2, <2>3 DEF Out
<1>2. CASE ~(mode = "quit" /\ BinaryAt # {})
  <2>1. Cut = Len(input) /\ Expected = Converted(input)
    BY <1>2 DEF Cut, Expected
  <2> QED BY <2>1, ConvertedIs
<1> QED BY <1>1, <1>2
-----------------------------------------------------------------------------
(* Growing the buffer.                                                     *)

\* The capacities of the allocation strategies.
LEMMA AllocType ==
    ASSUME TypeInv
    PROVE  /\ Capacity \in Nat /\ Limit \in Nat \cup {NoLimit}
           /\ Limit # NoLimit => Limit \in Nat
BY SizesAssumption DEF TypeInv, Capacity, Limit

\* What is added stays within the limit; nothing is added only at the limit.
LEMMA AdditionalIs ==
    ASSUME TypeInv, SizeInv
    PROVE  /\ Additional \in Nat
           /\ Limit # NoLimit => Len(buf) + Additional <= Capacity + Limit
           /\ Additional = 0 => Limit # NoLimit /\ Len(buf) = Capacity + Limit
<1>1. Len(buf) \in Nat
  BY DEF TypeInv
<1>2. CASE Limit = NoLimit
  BY <1>1, <1>2, AllocType DEF Additional
<1>3. CASE Limit # NoLimit
  BY <1>1, <1>3, AllocType DEF Additional, SizeInv, LesserOf
<1> QED BY <1>2, <1>3

\* ensure_capacity keeps the bytes there are and makes room for one more.
LEMMA EnsuredIs ==
    ASSUME TypeInv, SizeInv, Reading
    PROVE  /\ Ensured \in Seq(Bytes) /\ Len(Ensured) \in Nat
           /\ Len(buf) <= Len(Ensured) /\ end < Len(Ensured)
           /\ Limit # NoLimit => Len(Ensured) <= Capacity + Limit
           /\ \A i \in 1 .. Len(buf) : Ensured[i] = buf[i]
<1>1. /\ buf \in Seq(Bytes) /\ Len(buf) \in Nat /\ Additional \in Nat
      /\ end \in Nat /\ end <= Len(buf)
  BY AdditionalIs DEF TypeInv
<1>2. CASE end < Len(buf)
  BY <1>1, <1>2 DEF Ensured, SizeInv
<1>3. CASE ~(end < Len(buf))
  <2> DEFINE more == [i \in 1 .. Additional |-> LineTerm]
  <2>1. more \in Seq(Bytes) /\ Len(more) = Additional
    <3>1. more \in [1 .. Additional -> Bytes]
      BY BytesAssumption
    <3> HIDE DEF more
    <3> QED BY <1>1, <3>1, FunctionBuffer
  <2>2. Ensured = buf \o more
    BY <1>3 DEF Ensured
  <2> HIDE DEF more
  <2>3. /\ Ensured \in Seq(Bytes) /\ Len(Ensured) = Len(buf) + Additional
        /\ \A i \in 1 .. Len(buf) : Ensured[i] = buf[i]
    BY <1>1, <2>1, <2>2
  <2>4. Additional > 0
    BY <1>1, <1>3 DEF Reading
  <2> QED BY <1>1, <2>3, <2>4, AdditionalIs
<1> QED BY <1>2, <1>3

\* New bytes are put behind those the buffer holds.
LEMMA WithNewIs ==
    ASSUME TypeInv, SizeInv, Reading,
           NEW s \in Seq(Bytes), end + Len(s) <= Len(Ensured)
    PROVE  /\ WithNew(s) \in Seq(Bytes) /\ Len(WithNew(s)) = Len(Ensured)
           /\ \A i \in 1 .. end : WithNew(s)[i] = buf[i]
           /\ \A j \in 1 .. Len(s) : WithNew(s)[end + j] = s[j]
<1>1. /\ Ensured \in Seq(Bytes) /\ Len(Ensured) \in Nat /\ Len(s) \in Nat
      /\ \A i \in 1 .. Len(buf) : Ensured[i] = buf[i]
      /\ end \in Nat /\ end <= Len(buf) /\ Len(buf) \in Nat
      /\ Len(buf) <= Len(Ensured)
  BY EnsuredIs DEF TypeInv
<1>2. WithNew(s) \in [1 .. Len(Ensured) -> Bytes]
  <2>1. ASSUME NEW i \in 1 .. Len(Ensured)
        PROVE  (IF i > end /\ i <= end + Len(s) THEN s[i - end] ELSE Ensured[i]) \in Bytes
    BY <1>1
  <2> QED BY <2>1 DEF WithNew
<1>3. WithNew(s) \in Seq(Bytes) /\ Len(WithNew(s)) = Len(Ensured)
  BY <1>1, <1>2, FunctionBuffer
<1>4. \A i \in 1 .. end : WithNew(s)[i] = buf[i]
  BY <1>1 DEF WithNew
<1>5. ASSUME NEW j \in 1 .. Len(s) PROVE WithNew(s)[end + j] = s[j]
  <2>1. end + j \in 1 .. Len(Ensured) /\ (end + j) - end = j /\ end + j > end
    BY <1>1
  <2> QED BY <1>1, <2>1 DEF WithNew
<1> QED BY <1>3, <1>4, <1>5
-----------------------------------------------------------------------------
(* The caller.                                                             *)

\* A step that keeps the reader and its bytes keeps what is to be seen of them.
LEMMA SameReader ==
    ASSUME UNCHANGED <<input, mode>>
    PROVE  /\ BinaryAt' = BinaryAt /\ Cut' = Cut /\ (Watched' <=> Watched)
           /\ \A b : Out(b)' = Out(b)
BY DEF BinaryAt, Cut, Watched, Out, Offsets, Least

\* consume moves the window forward, at most to the end of the whole lines.
LEMMA ConsumeKeeps == Inv /\ Consume => Inv'
<1> SUFFICES ASSUME Inv, Consume PROVE Inv'
  OBVIOUS
<1> USE DEF Inv
<1>1. PICK amt \in 1 .. (last_lineterm - pos) :
        /\ pos' = pos + amt /\ absolute_byte_offset' = absolute_byte_offset + amt
  BY DEF Consume
<1>2. /\ pc = "idle"
      /\ UNCHANGED <<input, rpos, readers, alloc, mode, buf, last_lineterm, end,
                     binary_byte_offset, pc, filled>>
  BY DEF Consume, readerVars
<1>3. /\ pos \in Nat /\ last_lineterm \in Nat /\ end \in Nat /\ amt \in Nat
      /\ absolute_byte_offset \in Nat /\ pos + amt <= last_lineterm
      /\ last_lineterm <= end
  BY DEF TypeInv
<1>4. TypeInv'
  BY <1>1, <1>2, <1>3 DEF TypeInv
<1>5. OffsetInv'
  BY <1>1, <1>2, <1>3 DEF OffsetInv, Stopped
<1>6. BinaryInv'
  BY <1>2, SameReader DEF BinaryInv
<1>7. BytesInv'
  <2>1. ASSUME NEW i \in 1 .. (end - pos')
        PROVE  buf[pos' + i] = Out(input[absolute_byte_offset' + i])
    <3>1. amt + i \in 1 .. (end - pos)
      BY <1>1, <1>3
    <3>2. buf[pos + (amt + i)] = Out(input[absolute_byte_offset + (amt + i)])
      BY <3>1 DEF BytesInv
    <3> QED BY <1>1, <1>3, <3>2
  <2> QED BY <1>2, <2>1 DEF BytesInv, Out
<1>8. TellInv'
  <2>1. filled # "error" /\ filled # "false"
    BY <1>1, <1>2, <1>3 DEF TellInv
  <2>2. Cut' = Cut
    BY <1>2, SameReader
  <2> QED BY <1>1, <1>2, <1>3, <2>1, <2>2 DEF TellInv
<1>9. SizeInv'
  <2>1. filled # "error"
    BY <1>2 DEF TellInv
  <2> QED BY <1>2, <2>1 DEF SizeInv, Capacity, Limit
<1> QED BY <1>4, <1>5, <1>6, <1>7, <1>8, <1>9

\* A cleared buffer knows nothing of the reader before: only memory is kept.
LEMMA ClearKeeps == Inv /\ Clear => Inv'
<1> SUFFICES ASSUME Inv, Clear PROVE Inv'
  OBVIOUS
<1> USE DEF Inv
<1>1. /\ input' \in Inputs /\ mode' \in Modes /\ rpos' = 0 /\ readers' = readers + 1
      /\ pos' = 0 /\ last_lineterm' = 0 /\ end' = 0 /\ absolute_byte_offset' = 0
      /\ binary_byte_offset' = None /\ pc' = "idle" /\ filled' = "none"
      /\ UNCHANGED <<buf, alloc>>
  BY DEF Clear, Cleared
<1>2. input' \in Seq(Bytes) /\ mode' \in {"none", "quit", "convert"}
  BY <1>1, BytesAssumption
<1>3. Len(input') \in Nat /\ Len(buf) \in Nat
  BY <1>2 DEF TypeInv
<1>4. TypeInv'
  BY <1>1, <1>2, <1>3 DEF TypeInv
<1>5. OffsetInv' /\ BytesInv' /\ TellInv'
  BY <1>1 DEF OffsetInv, BytesInv, TellInv, Stopped
<1>6. BinaryInv'
  BY <1>1 DEF BinaryInv, BinaryAt, Offsets
<1>7. SizeInv'
  BY <1>1 DEF SizeInv, Capacity, Limit
<1> QED BY <1>4, <1>5, <1>6, <1>7
-----------------------------------------------------------------------------
(* fill.                                                                   *)

\* Where binary data has ended the input there is no more to see.
LEMMA StoppedAt ==
    ASSUME Inv, Stopped
    PROVE  Cut = absolute_byte_offset + end - pos
<1> USE DEF Inv
<1>1. /\ binary_byte_offset \in BinaryAt /\ mode = "quit"
      /\ \A j \in BinaryAt : binary_byte_offset <= j
  BY DEF BinaryInv, Stopped
<1>2. Cut = Least(BinaryAt) /\ Least(BinaryAt) \in BinaryAt
      /\ \A j \in BinaryAt : Least(BinaryAt) <= j /\ j \in Nat
  BY <1>1, BinaryAtIs DEF Cut, TypeInv
<1>3. Cut = binary_byte_offset
  BY <1>1, <1>2
<1> QED BY <1>3 DEF OffsetInv

\* Where all of the input has been read there is no more to see.
LEMMA AllRead ==
    ASSUME Inv, ~Stopped, rpos = Len(input)
    PROVE  Cut = absolute_byte_offset + end - pos
<1> USE DEF Inv
<1>1. CASE mode = "quit"
  <2>1. binary_byte_offset = None
    BY <1>1 DEF Stopped
  <2>2. BinaryAt = {}
    BY <1>1, <2>1, BinaryAtIs DEF BinaryInv, Watched, TypeInv
  <2> QED BY <2>2 DEF Cut, OffsetInv
<1>2. CASE mode # "quit"
  BY <1>2 DEF Cut, OffsetInv
<1> QED BY <1>1, <1>2

\* fill at the end that binary data made.
LEMMA FillQuitKeeps == Inv /\ FillQuit => Inv'
<1> SUFFICES ASSUME Inv, FillQuit PROVE Inv'
  OBVIOUS
<1> USE DEF Inv
<1>1. /\ pc = "idle" /\ Stopped
      /\ filled' = IF pos < last_lineterm THEN "true" ELSE "false"
      /\ UNCHANGED <<input, rpos, readers, alloc, mode, buf, pos, last_lineterm,
                     end, absolute_byte_offset, binary_byte_offset, pc>>
  BY DEF FillQuit, Stopped, readerVars, posVars
<1>2. last_lineterm = end /\ pos \in Nat /\ end \in Nat /\ pos <= end
      /\ absolute_byte_offset \in Nat
  BY <1>1 DEF OffsetInv, TypeInv
<1>3. Cut = absolute_byte_offset + end - pos /\ Cut' = Cut
  BY <1>1, StoppedAt, SameReader
<1>4. TypeInv'
  BY <1>1 DEF TypeInv
<1>5. OffsetInv' /\ BinaryInv' /\ BytesInv'
  BY <1>1, SameReader DEF OffsetInv, BinaryInv, BytesInv, Stopped
<1>6. TellInv'
  BY <1>1, <1>2, <1>3 DEF TellInv
<1>7. SizeInv'
  BY <1>1 DEF SizeInv, Capacity, Limit
<1> QED BY <1>4, <1>5, <1>6, <1>7

\* roll moves the unconsumed bytes to the front, and the indices with them.
LEMMA RollKeeps == Inv /\ Roll => Inv'
<1> SUFFICES ASSUME Inv, Roll PROVE Inv'
  OBVIOUS
<1> USE DEF Inv
<1>1. /\ pc = "idle" /\ ~Stopped /\ buf' = Rolled
      /\ pos' = 0 /\ last_lineterm' = end - pos /\ end' = end - pos
      /\ pc' = "filling" /\ filled' = "none"
      /\ UNCHANGED <<input, rpos, readers, alloc, mode, absolute_byte_offset,
                     binary_byte_offset>>
  BY DEF Roll, Stopped, Unconsumed, readerVars
<1>2. /\ buf \in Seq(Bytes) /\ Len(buf) \in Nat /\ pos \in Nat /\ end \in Nat
      /\ pos <= end /\ end <= Len(buf)
  BY DEF TypeInv
<1>3. Rolled \in [1 .. Len(buf) -> Bytes]
  <2>1. ASSUME NEW i \in 1 .. Len(buf)
        PROVE  (IF i <= Unconsumed THEN buf[pos + i] ELSE buf[i]) \in Bytes
    BY <1>2 DEF Unconsumed
  <2> QED BY <2>1 DEF Rolled
<1>4. buf' \in Seq(Bytes) /\ Len(buf') = Len(buf)
  BY <1>1, <1>2, <1>3, FunctionBuffer
<1>5. TypeInv'
  BY <1>1, <1>2, <1>4 DEF TypeInv
<1>6. OffsetInv'
  BY <1>1, <1>2 DEF OffsetInv, Stopped
<1>7. BinaryInv'
  BY <1>1, SameReader DEF BinaryInv
<1>8. BytesInv'
  <2>1. ASSUME NEW i \in 1 .. (end - pos)
        PROVE  buf'[i] = Out(input[absolute_byte_offset + i])
    <3>1. buf'[i] = buf[pos + i]
      BY <1>1, <1>2 DEF Rolled, Unconsumed
    <3> QED BY <3>1 DEF BytesInv
  <2> QED BY <1>1, <1>2, <2>1 DEF BytesInv, Out
<1>9. TellInv'
  BY <1>1 DEF TellInv
<1>10. SizeInv'
  BY <1>1, <1>4 DEF SizeInv, Capacity, Limit
<1> QED BY <1>5, <1>6, <1>7, <1>8, <1>9, <1>10

\* The limit is reached, with nothing in the buffer that has been consumed.
LEMMA AllocErrorKeeps == Inv /\ AllocError => Inv'
<1> SUFFICES ASSUME Inv, AllocError PROVE Inv'
  OBVIOUS
<1> USE DEF Inv
<1>1. /\ pc = "filling" /\ end = Len(buf) /\ Additional = 0
      /\ pc' = "failed" /\ filled' = "error"
      /\ UNCHANGED <<input, rpos, readers, alloc, mode, buf, pos, last_lineterm,
                     end, absolute_byte_offset, binary_byte_offset>>
  BY DEF AllocError, readerVars, posVars
<1>2. TypeInv'
  BY <1>1 DEF TypeInv
<1>3. OffsetInv' /\ BinaryInv' /\ BytesInv' /\ TellInv'
  BY <1>1, SameReader DEF OffsetInv, BinaryInv, BytesInv, TellInv, Stopped
<1>4. SizeInv'
  <2>1. pos = 0 /\ Len(buf) = Capacity + Limit /\ end - pos = Capacity + Limit
    <3>1. pos = 0 /\ Limit # NoLimit /\ Len(buf) = Capacity + Limit
      BY <1>1, AdditionalIs DEF OffsetInv
    <3> QED BY <1>1, <3>1 DEF TypeInv
  <2> QED BY <1>1, <2>1 DEF SizeInv, Capacity, Limit
<1> QED BY <1>2, <1>3, <1>4

\* The input has ended: the last, partial line is the caller's as well.
LEMMA EofKeeps == Inv /\ ReadEof => Inv'
<1> SUFFICES ASSUME Inv, ReadEof PROVE Inv'
  OBVIOUS
<1> USE DEF Inv
<1>1. /\ Reading /\ rpos = Len(input) /\ buf' = Ensured /\ last_lineterm' = end
      /\ filled' = IF pos < end THEN "true" ELSE "false"
      /\ pc' = "idle"
      /\ UNCHANGED <<input, rpos, readers, alloc, mode, pos, end,
                     absolute_byte_offset, binary_byte_offset>>
  BY DEF ReadEof, AnythingLeft, readerVars
<1>2. pc = "filling" /\ pos = 0 /\ ~Stopped
  BY <1>1 DEF Reading, OffsetInv
<1>3. /\ Ensured \in Seq(Bytes) /\ Len(buf) <= Len(Ensured)
      /\ Len(Ensured) \in Nat /\ Len(buf) \in Nat /\ end \in Nat /\ end <= Len(buf)
      /\ Limit # NoLimit => Len(Ensured) <= Capacity + Limit
      /\ \A i \in 1 .. Len(buf) : Ensured[i] = buf[i]
      /\ absolute_byte_offset \in Nat
  BY <1>1, EnsuredIs DEF TypeInv
<1>4. Cut = absolute_byte_offset + end - pos /\ Cut' = Cut
  BY <1>1, <1>2, AllRead, SameReader
<1>5. TypeInv'
  BY <1>1, <1>3 DEF TypeInv
<1>6. OffsetInv' /\ BinaryInv'
  BY <1>1, <1>2, SameReader DEF OffsetInv, BinaryInv, Stopped
<1>7. BytesInv'
  <2>1. \A i \in 1 .. (end - pos) : buf'[pos + i] = buf[pos + i]
    BY <1>1, <1>2, <1>3
  <2> QED BY <1>1, <2>1 DEF BytesInv, Out
<1>8. TellInv'
  BY <1>1, <1>2, <1>3, <1>4 DEF TellInv
<1>9. SizeInv'
  BY <1>1, <1>3, AllocType DEF SizeInv, Capacity, Limit
<1> QED BY <1>5, <1>6, <1>7, <1>8, <1>9

\* The reader fails: the bytes that were read stay.
LEMMA ReadErrorKeeps == Inv /\ ReadError => Inv'
<1> SUFFICES ASSUME Inv, ReadError PROVE Inv'
  OBVIOUS
<1> USE DEF Inv
<1>1. /\ Reading /\ buf' = Ensured /\ pc' = "failed" /\ filled' = "error"
      /\ UNCHANGED <<input, rpos, readers, alloc, mode, pos, last_lineterm, end,
                     absolute_byte_offset, binary_byte_offset>>
  BY DEF ReadError, readerVars, posVars
<1>2. pc = "filling" /\ pos = 0 /\ ~Stopped
  BY <1>1 DEF Reading, OffsetInv
<1>3. /\ Ensured \in Seq(Bytes) /\ Len(buf) <= Len(Ensured) /\ end < Len(Ensured)
      /\ Len(Ensured) \in Nat /\ Len(buf) \in Nat /\ end \in Nat /\ end <= Len(buf)
      /\ Limit # NoLimit => Len(Ensured) <= Capacity + Limit
      /\ \A i \in 1 .. Len(buf) : Ensured[i] = buf[i]
  BY <1>1, EnsuredIs DEF TypeInv
<1>4. TypeInv'
  BY <1>1, <1>3 DEF TypeInv
<1>5. OffsetInv' /\ BinaryInv' /\ TellInv'
  BY <1>1, <1>2, SameReader DEF OffsetInv, BinaryInv, TellInv, Stopped
<1>6. BytesInv'
  <2>1. \A i \in 1 .. (end - pos) : buf'[pos + i] = buf[pos + i]
    BY <1>1, <1>2, <1>3
  <2> QED BY <1>1, <2>1 DEF BytesInv, Out
<1>7. SizeInv'
  BY <1>1, <1>3, AllocType DEF SizeInv, Capacity, Limit
<1> QED BY <1>4, <1>5, <1>6, <1>7

\* The bytes of one read are the next ones of the input, and fit.
LEMMA NewBytes ==
    ASSUME TypeInv, SizeInv, Reading,
           NEW k \in 1 .. LesserOf(FreeSpace, Len(input) - rpos),
           NEW new, new = SubSeq(input, rpos + 1, rpos + k)
    PROVE  /\ new \in Seq(Bytes) /\ Len(new) = k /\ k \in Nat
           /\ end + Len(new) <= Len(Ensured) /\ rpos + k <= Len(input)
           /\ \A j \in 1 .. k : new[j] = input[rpos + j]
<1>1. /\ input \in Seq(Bytes) /\ Len(input) \in Nat /\ rpos \in 0 .. Len(input)
      /\ Len(Ensured) \in Nat /\ end \in Nat /\ end < Len(Ensured)
  BY EnsuredIs DEF TypeInv
<1>2. k \in Nat /\ end + k <= Len(Ensured) /\ rpos + k <= Len(input)
  BY <1>1 DEF LesserOf, FreeSpace
<1>3. ASSUME NEW a \in 0 .. Len(input), NEW b \in Nat, a + b <= Len(input)
      PROVE  /\ SubSeq(input, a + 1, a + b) \in Seq(Bytes)
             /\ Len(SubSeq(input, a + 1, a + b)) = b
             /\ \A j \in 1 .. b : SubSeq(input, a + 1, a + b)[j] = input[a + j]
  <2>1. a + 1 \in 1 .. (Len(input) + 1) /\ a + b \in ((a + 1) - 1) .. Len(input)
    BY <1>1, <1>3
  <2>2. /\ SubSeq(input, a + 1, a + b) \in Seq(Bytes)
        /\ Len(SubSeq(input, a + 1, a + b)) = (a + b) - (a + 1) + 1
        /\ \A j \in 1 .. ((a + b) - (a + 1) + 1) :
              SubSeq(input, a + 1, a + b)[j] = input[(a + 1) + j - 1]
    BY <1>1, <2>1, SubSeqProperties
  <2>3. (a + b) - (a + 1) + 1 = b /\ \A j \in 1 .. b : (a + 1) + j - 1 = a + j
    BY <1>1
  <2> QED BY <2>2, <2>3
<1> QED BY <1>1, <1>2, <1>3

\* Binary data ends the input: what comes before it is all there is to see.
LEMMA QuitKeeps ==
    ASSUME Inv, Reading, mode = "quit",
           NEW k \in 1 .. LesserOf(FreeSpace, Len(input) - rpos),
           NEW new, new = SubSeq(input, rpos + 1, rpos + k),
           Offsets(new, Binary) # {}, BinaryQuit(new), rpos' = rpos + k,
           UNCHANGED <<input, readers, alloc, mode, pos, absolute_byte_offset>>
    PROVE  Inv'
<1> USE DEF Inv
<1>1. /\ new \in Seq(Bytes) /\ Len(new) = k /\ k \in Nat
      /\ end + Len(new) <= Len(Ensured) /\ rpos + k <= Len(input)
      /\ \A j \in 1 .. k : new[j] = input[rpos + j]
  BY NewBytes
<1>2. PICK i \in Nat :
        /\ i \in Offsets(new, Binary) /\ \A j \in Offsets(new, Binary) : i <= j
        /\ buf' = WithNew(new) /\ end' = end + i /\ last_lineterm' = end + i
        /\ binary_byte_offset' = absolute_byte_offset + end + i
        /\ filled' = IF pos < end + i THEN "true" ELSE "false"
        /\ pc' = "idle"
  <2>1. Offsets(new, Binary) \in SUBSET Nat
    BY <1>1 DEF Offsets
  <2>2. /\ Least(Offsets(new, Binary)) \in Offsets(new, Binary)
        /\ \A j \in Offsets(new, Binary) : Least(Offsets(new, Binary)) <= j
    BY <2>1, LeastIs
  <2> QED BY <2>1, <2>2 DEF BinaryQuit
<1>3. /\ i \in 0 .. (k - 1) /\ i < k /\ i + 1 \in 1 .. k /\ new[i + 1] = Binary
      /\ \A j \in 0 .. (k - 1) : new[j + 1] = Binary => i <= j
  <2>1. Offsets(new, Binary) = {j \in 0 .. (k - 1) : new[j + 1] = Binary}
    BY <1>1 DEF Offsets
  <2>2. i \in 0 .. (k - 1) /\ new[i + 1] = Binary
    BY <1>2, <2>1
  <2>3. ASSUME NEW j \in 0 .. (k - 1), new[j + 1] = Binary PROVE i <= j
    <3>1. j \in Offsets(new, Binary)
      BY <2>1, <2>3
    <3> QED BY <1>2, <3>1
  <2>4. i < k /\ i + 1 \in 1 .. k
    BY <1>1, <2>2
  <2> QED BY <2>2, <2>3, <2>4
<1>4. /\ pos = 0 /\ ~Stopped /\ pc = "filling" /\ binary_byte_offset = None
      /\ absolute_byte_offset + end = rpos
      /\ absolute_byte_offset \in Nat /\ end \in Nat /\ rpos \in Nat
      /\ Len(buf) \in Nat /\ end <= Len(buf) /\ Len(input) \in Nat
      /\ input \in Seq(Bytes)
  BY DEF OffsetInv, Reading, Stopped, TypeInv
<1>5. /\ WithNew(new) \in Seq(Bytes) /\ Len(WithNew(new)) = Len(Ensured)
      /\ \A j \in 1 .. end : WithNew(new)[j] = buf[j]
      /\ \A j \in 1 .. k : WithNew(new)[end + j] = new[j]
  BY <1>1, WithNewIs
<1>6. /\ Len(Ensured) \in Nat /\ Len(buf) <= Len(Ensured)
      /\ Limit # NoLimit => Len(Ensured) <= Capacity + Limit
  BY EnsuredIs
<1>7. binary_byte_offset' = rpos + i /\ binary_byte_offset' \in Nat
  BY <1>2, <1>4
<1>8. rpos + i \in BinaryAt
  <2>1. (rpos + i) \in 0 .. (Len(input) - 1) /\ (rpos + i) + 1 = rpos + (i + 1)
    BY <1>1, <1>3, <1>4
  <2>2. input[rpos + (i + 1)] = Binary
    BY <1>1, <1>3
  <2> QED BY <1>4, <2>1, <2>2, BinaryAtIs
<1>9. \A j \in BinaryAt : rpos + i <= j
  <2> SUFFICES ASSUME NEW j \in BinaryAt, j < rpos + i PROVE FALSE
    BY <1>2, <1>4, BinaryAtIs
  <2>1. j \in Nat /\ rpos <= j /\ input[j + 1] = Binary
    BY <1>4, BinaryAtIs DEF BinaryInv, Watched
  <2>2. (j - rpos) \in 0 .. (k - 1) /\ j + 1 = rpos + ((j - rpos) + 1)
    BY <1>2, <1>3, <1>4, <2>1
  <2>3. new[(j - rpos) + 1] = Binary
    BY SMTT(30), <1>1, <2>1, <2>2
  <2>4. i <= j - rpos
    BY <1>3, <2>2, <2>3
  <2> QED BY <1>2, <1>4, <2>1, <2>4
<1>10. Cut' = rpos + i
  <2>1. Least(BinaryAt) \in BinaryAt /\ \A j \in BinaryAt : Least(BinaryAt) <= j /\ j \in Nat
    BY <1>4, <1>8, BinaryAtIs
  <2>2. Least(BinaryAt) = rpos + i
    BY <1>2, <1>4, <1>8, <1>9, <2>1
  <2> QED BY <1>8, <2>2, SameReader DEF Cut
<1>11. TypeInv'
  <2>1. /\ buf' \in Seq(Bytes) /\ end' \in Nat /\ end' = last_lineterm'
        /\ pos' = 0 /\ end' <= Len(buf')
    BY <1>1, <1>2, <1>3, <1>4, <1>5, <1>6
  <2>2. rpos' \in 0 .. Len(input')
    BY <1>1, <1>4
  <2>3. pc' = "idle" /\ filled' \in {"true", "false"}
    BY <1>2
  <2> QED BY <1>7, <2>1, <2>2, <2>3 DEF TypeInv
<1>12. OffsetInv'
  BY <1>2, <1>4, <1>7 DEF OffsetInv, Stopped, None
<1>13. BinaryInv'
  BY <1>7, <1>8, <1>9, SameReader DEF BinaryInv, None
<1>14. BytesInv'
  <2>1. ASSUME NEW j \in 1 .. (end + i)
        PROVE  buf'[j] = Out(input[absolute_byte_offset + j])
    <3>1. CASE j <= end
      BY <1>2, <1>4, <1>5, <3>1 DEF BytesInv
    <3>2. CASE j > end
      <4>1. j - end \in 1 .. k /\ end + (j - end) = j
        BY <1>2, <1>3, <1>4, <3>2
      <4>2. buf'[j] = input[rpos + (j - end)]
        BY <1>1, <1>2, <1>5, <4>1
      <4>3. rpos + (j - end) = absolute_byte_offset + j
        BY <1>4, <4>1
      <4> QED BY <4>2, <4>3 DEF Out
    <3> QED BY <1>2, <1>4, <3>1, <3>2
  <2> QED BY <1>2, <1>4, <2>1 DEF BytesInv, Out
<1>15. TellInv'
  BY <1>2, <1>4, <1>10 DEF TellInv
<1>16. SizeInv'
  BY <1>2, <1>5, <1>6, AllocType DEF SizeInv, Capacity, Limit
<1> QED BY <1>11, <1>12, <1>13, <1>14, <1>15, <1>16

\* The bytes of a read are added to the window, converted if they must be;
\* fill returns when they end a line.
LEMMA KeepKeeps ==
    ASSUME Inv, Reading,
           NEW k \in 1 .. LesserOf(FreeSpace, Len(input) - rpos),
           NEW new, new = SubSeq(input, rpos + 1, rpos + k),
           mode = "quit" => Offsets(new, Binary) = {},
           KeepNew(new), rpos' = rpos + k,
           UNCHANGED <<input, readers, alloc, mode, pos, absolute_byte_offset>>
    PROVE  Inv'
<1> USE DEF Inv
<1>1. /\ new \in Seq(Bytes) /\ Len(new) = k /\ k \in Nat
      /\ end + Len(new) <= Len(Ensured) /\ rpos + k <= Len(input)
      /\ \A j \in 1 .. k : new[j] = input[rpos + j]
  BY NewBytes
<1>2. PICK bytes \in Seq(Bytes) :
        bytes = Converted(new) /\ Len(bytes) = k /\ \A j \in 1 .. k : bytes[j] = Out(new[j])
  BY <1>1, ConvertedIs
<1>3. /\ buf' = WithNew(bytes) /\ end' = end + k
      /\ binary_byte_offset' =
           IF mode = "convert" /\ Binary # LineTerm /\ Offsets(new, Binary) # {}
           THEN FirstBinary(Least(Offsets(new, Binary))) ELSE binary_byte_offset
      /\ \/ last_lineterm' = last_lineterm /\ pc' = pc /\ filled' = filled
         \/ /\ Offsets(bytes, LineTerm) # {}
            /\ last_lineterm' = AfterLast(Offsets(bytes, LineTerm))
            /\ pc' = "idle" /\ filled' = "true"
  BY <1>1, <1>2 DEF KeepNew
<1>4. /\ pos = 0 /\ ~Stopped /\ pc = "filling" /\ filled = "none"
      /\ mode = "quit" => binary_byte_offset = None
      /\ absolute_byte_offset + end = rpos
      /\ absolute_byte_offset \in Nat /\ end \in Nat /\ rpos \in Nat
      /\ Len(buf) \in Nat /\ end <= Len(buf) /\ Len(input) \in Nat
      /\ last_lineterm \in Nat /\ last_lineterm <= end
      /\ input \in Seq(Bytes)
  BY DEF OffsetInv, Reading, Stopped, TypeInv
<1>5. /\ WithNew(bytes) \in Seq(Bytes) /\ Len(WithNew(bytes)) = Len(Ensured)
      /\ \A j \in 1 .. end : WithNew(bytes)[j] = buf[j]
      /\ \A j \in 1 .. k : WithNew(bytes)[end + j] = bytes[j]
  BY <1>1, <1>2, WithNewIs
<1>6. /\ Len(Ensured) \in Nat /\ Len(buf) <= Len(Ensured)
      /\ Limit # NoLimit => Len(Ensured) <= Capacity + Limit
  BY EnsuredIs
<1>7. /\ Offsets(new, Binary) = {j \in 0 .. (k - 1) : new[j + 1] = Binary}
      /\ Offsets(bytes, LineTerm) = {j \in 0 .. (k - 1) : bytes[j + 1] = LineTerm}
  BY <1>1, <1>2 DEF Offsets
\* The new bytes hold the next offsets of binary data.
<1>8. \A j \in Nat : j \in BinaryAt /\ rpos <= j /\ j < rpos + k
                       => (j - rpos) \in Offsets(new, Binary)
  <2> SUFFICES ASSUME NEW j \in Nat, j \in BinaryAt, rpos <= j, j < rpos + k
               PROVE  (j - rpos) \in Offsets(new, Binary)
    OBVIOUS
  <2>1. input[j + 1] = Binary
    BY <1>4, BinaryAtIs
  <2>2. (j - rpos) \in 0 .. (k - 1) /\ (j - rpos) + 1 \in 1 .. k
        /\ rpos + ((j - rpos) + 1) = j + 1
    BY <1>1, <1>4
  <2> QED BY <1>1, <1>7, <2>1, <2>2
<1>9. \A i \in Offsets(new, Binary) :
         i \in 0 .. (k - 1) /\ rpos + i \in BinaryAt
  <2> SUFFICES ASSUME NEW i \in Offsets(new, Binary)
               PROVE  i \in 0 .. (k - 1) /\ rpos + i \in BinaryAt
    OBVIOUS
  <2>1. i \in 0 .. (k - 1) /\ new[i + 1] = Binary
    BY <1>7
  <2>2. i + 1 \in 1 .. k /\ (rpos + i) \in 0 .. (Len(input) - 1)
        /\ (rpos + i) + 1 = rpos + (i + 1)
    BY <1>1, <1>4, <2>1
  <2>3. input[rpos + (i + 1)] = Binary
    BY <1>1, <2>1, <2>2
  <2> QED BY <1>4, <2>1, <2>2, <2>3, BinaryAtIs
\* What the recorded offset is afterwards.
<1>10. /\ binary_byte_offset' \in Nat \cup {None}
       /\ binary_byte_offset' # None =>
            /\ binary_byte_offset' \in BinaryAt
            /\ \A j \in BinaryAt : binary_byte_offset' <= j
       /\ binary_byte_offset' = None /\ Watched => \A j \in BinaryAt : rpos + k <= j
  <2>1. CASE binary_byte_offset # None
    <3>1. binary_byte_offset' = binary_byte_offset
      BY <1>3, <2>1 DEF FirstBinary
    <3> QED BY <2>1, <3>1 DEF BinaryInv, TypeInv
  <2>2. CASE binary_byte_offset = None /\ Offsets(new, Binary) = {}
    <3>1. binary_byte_offset' = None
      BY <1>3, <2>2
    <3>2. ASSUME Watched, NEW j \in BinaryAt PROVE rpos + k <= j
      <4>1. rpos <= j /\ j \in Nat
        BY <1>4, <2>2, <3>2, BinaryAtIs DEF BinaryInv
      <4>2. ~(j < rpos + k)
        BY <1>8, <2>2, <4>1
      <4> QED BY <1>1, <1>4, <4>1, <4>2
    <3> QED BY <3>1, <3>2
  <2>3. CASE binary_byte_offset = None /\ Offsets(new, Binary) # {}
    <3>1. CASE ~Watched
      <4>1. binary_byte_offset' = None
        BY <1>3, <2>3, <3>1 DEF Watched
      <4> QED BY <3>1, <4>1
    <3>2. CASE Watched
      <4>1. mode = "convert" /\ Binary # LineTerm
        BY <2>3, <3>2 DEF Watched
      <4>2. PICK i \in Offsets(new, Binary) :
              /\ \A j \in Offsets(new, Binary) : i <= j
              /\ i = Least(Offsets(new, Binary))
        <5>1. Offsets(new, Binary) \in SUBSET Nat
          BY <1>7
        <5> QED BY <2>3, <5>1, LeastIs
      <4>3. i \in Nat /\ rpos + i \in BinaryAt
        BY <1>9, <4>2
      <4>4. binary_byte_offset' = rpos + i
        BY <1>3, <1>4, <2>3, <4>1, <4>2, <4>3 DEF FirstBinary
      <4>5. ASSUME NEW j \in BinaryAt PROVE rpos + i <= j
        <5>1. rpos <= j /\ j \in Nat
          BY <1>4, <2>3, <3>2, BinaryAtIs DEF BinaryInv
        <5>2. CASE j < rpos + k
          BY <1>4, <1>8, <4>2, <4>3, <5>1, <5>2
        <5>3. CASE ~(j < rpos + k)
          BY <1>1, <1>4, <1>9, <4>2, <4>3, <5>1, <5>3
        <5> QED BY <5>2, <5>3
      <4> QED BY <1>4, <4>3, <4>4, <4>5 DEF None
    <3> QED BY <3>1, <3>2
  <2> QED BY <2>1, <2>2, <2>3
\* The last line terminator of the new bytes.
<1>11. Offsets(bytes, LineTerm) # {} =>
         \E g \in 0 .. (k - 1) :
            AfterLast(Offsets(bytes, LineTerm)) = end + g + 1 /\ bytes[g + 1] = LineTerm
  <2> SUFFICES ASSUME Offsets(bytes, LineTerm) # {}
               PROVE  \E g \in 0 .. (k - 1) :
                         /\ AfterLast(Offsets(bytes, LineTerm)) = end + g + 1
                         /\ bytes[g + 1] = LineTerm
    OBVIOUS
  <2>1. Offsets(bytes, LineTerm) \in SUBSET (0 .. k)
    BY <1>1, <1>7
  <2>2. Greatest(Offsets(bytes, LineTerm)) \in Offsets(bytes, LineTerm)
    BY <1>1, <2>1, GreatestIs
  <2> QED BY <1>7, <2>2 DEF AfterLast
<1>12. \/ last_lineterm' = last_lineterm /\ pc' = "filling" /\ filled' = "none"
       \/ /\ pc' = "idle" /\ filled' = "true"
          /\ \E g \in 0 .. (k - 1) :
                last_lineterm' = end + g + 1 /\ bytes[g + 1] = LineTerm
  BY <1>3, <1>4, <1>11
<1>13. last_lineterm' \in Nat /\ last_lineterm' <= end'
  BY <1>1, <1>3, <1>4, <1>12
<1>20. buf' = WithNew(bytes) /\ end' = end + k
  BY <1>3
<1>14. TypeInv'
  <2>1. /\ buf' \in Seq(Bytes) /\ end' \in Nat /\ pos' = 0 /\ end' <= Len(buf')
    BY <1>1, <1>2, <1>4, <1>5, <1>6, <1>20
  <2>2. rpos' \in 0 .. Len(input')
    BY <1>1, <1>4
  <2>3. pc' \in {"idle", "filling"} /\ filled' \in {"none", "true"}
    BY <1>12
  <2>4. binary_byte_offset' \in Nat \cup {None}
    BY <1>10
  <2> QED BY <1>13, <2>1, <2>2, <2>3, <2>4 DEF TypeInv
<1>15. OffsetInv'
  <2>1. mode = "quit" => binary_byte_offset' = None
    BY <1>3, <1>4
  <2>2. ~Stopped'
    BY <2>1 DEF Stopped
  <2>3. absolute_byte_offset' + end' - pos' = rpos'
    BY <1>1, <1>3, <1>4
  <2>4. pc' = "filling" => filled' = "none" /\ pos' = 0
    BY <1>4, <1>12
  <2> QED BY <2>2, <2>3, <2>4 DEF OffsetInv
<1>16. BinaryInv'
  BY <1>10, SameReader DEF BinaryInv
<1>17. BytesInv'
  <2>1. ASSUME NEW j \in 1 .. (end + k)
        PROVE  buf'[j] = Out(input[absolute_byte_offset + j])
    <3>1. CASE j <= end
      <4>1. buf'[j] = buf[j]
        BY <1>5, <1>20, <3>1
      <4>2. j \in 1 .. (end - pos) /\ pos + j = j
        BY <1>1, <1>4, <3>1
      <4> QED BY <4>1, <4>2 DEF BytesInv
    <3>2. CASE j > end
      <4>1. j - end \in 1 .. k /\ end + (j - end) = j
        BY <1>1, <1>4, <3>2
      <4>2. buf'[j] = Out(input[rpos + (j - end)])
        BY <1>1, <1>2, <1>3, <1>5, <4>1
      <4>3. rpos + (j - end) = absolute_byte_offset + j
        BY <1>4, <4>1
      <4> QED BY <4>2, <4>3
    <3> QED BY <1>1, <1>4, <3>1, <3>2
  <2> QED BY <1>3, <1>4, <2>1 DEF BytesInv, Out
<1>18. TellInv'
  <2>1. CASE filled' = "none"
    BY <2>1 DEF TellInv
  <2>2. CASE filled' # "none"
    <3>1. PICK g \in 0 .. (k - 1) : last_lineterm' = end + g + 1 /\ bytes[g + 1] = LineTerm
      BY <1>12, <2>2
    <3>2. g + 1 \in 1 .. k /\ last_lineterm' = end + (g + 1)
      BY <1>1, <1>4, <3>1
    <3>3. buf'[last_lineterm'] = LineTerm /\ filled' = "true"
      BY <1>3, <1>5, <1>12, <2>2, <3>1, <3>2
    <3> QED BY <3>3 DEF TellInv
  <2> QED BY <2>1, <2>2
<1>19. SizeInv'
  BY <1>3, <1>5, <1>6, <1>12, AllocType DEF SizeInv, Capacity, Limit
<1> QED BY <1>14, <1>15, <1>16, <1>17, <1>18, <1>19

\* A read that returns some of the bytes that are left.
LEMMA ReadKeeps == Inv /\ ReadSome => Inv'
<1> SUFFICES ASSUME Inv, ReadSome PROVE Inv'
  OBVIOUS
<1>1. PICK k \in 1 .. LesserOf(FreeSpace, Len(input) - rpos) :
        /\ rpos' = rpos + k
        /\ IF mode = "quit" /\ Offsets(SubSeq(input, rpos + 1, rpos + k), Binary) # {}
           THEN BinaryQuit(SubSeq(input, rpos + 1, rpos + k))
           ELSE KeepNew(SubSeq(input, rpos + 1, rpos + k))
  BY DEF ReadSome
<1>2. PICK new : new = SubSeq(input, rpos + 1, rpos + k)
  OBVIOUS
<1>3. /\ Reading
      /\ UNCHANGED <<input, readers, alloc, mode, pos, absolute_byte_offset>>
  BY DEF ReadSome
<1>4. CASE mode = "quit" /\ Offsets(new, Binary) # {}
  <2>1. BinaryQuit(new)
    BY <1>1, <1>2, <1>4
  <2> QED BY <1>1, <1>2, <1>3, <1>4, <2>1, QuitKeeps
<1>5. CASE ~(mode = "quit" /\ Offsets(new, Binary) # {})
  <2>1. KeepNew(new)
    BY <1>1, <1>2, <1>5
  <2> QED BY <1>1, <1>2, <1>3, <1>5, <2>1, KeepKeeps
<1> QED BY <1>4, <1>5
-----------------------------------------------------------------------------
(* The invariant, and what it is for.                                      *)

\* A new buffer is empty and as large as its capacity (LineBufferBuilder::build).
LEMMA InvInit == Init => Inv
<1> SUFFICES ASSUME Init PROVE Inv
  OBVIOUS
<1>1. /\ input \in Seq(Bytes) /\ mode \in {"none", "quit", "convert"}
      /\ Len(input) \in Nat /\ rpos \in 0 .. Len(input)
  BY BytesAssumption DEF Init
<1>2. alloc \in Allocations /\ Capacity \in Nat /\ Limit \in Nat \cup {NoLimit}
  BY SizesAssumption DEF Init, Capacity, Limit
<1>3. buf \in Seq(Bytes) /\ Len(buf) = Capacity
  <2>1. buf \in [1 .. Capacity -> Bytes]
    BY BytesAssumption DEF Init
  <2> QED BY <1>2, <2>1, FunctionBuffer
<1>4. TypeInv
  BY <1>1, <1>2, <1>3 DEF Init, TypeInv
<1>5. OffsetInv /\ BytesInv /\ TellInv
  BY DEF Init, OffsetInv, BytesInv, TellInv, Stopped
<1>6. BinaryInv
  BY <1>1, BinaryAtIs DEF Init, BinaryInv
<1>7. SizeInv
  BY <1>2, <1>3 DEF Init, SizeInv
<1> QED BY <1>4, <1>5, <1>6, <1>7 DEF Inv

\* Every call and every read keeps the invariant.
LEMMA InvNext == Inv /\ [Next]_vars => Inv'
<1> SUFFICES ASSUME Inv, [Next]_vars PROVE Inv'
  OBVIOUS
<1>1. CASE UNCHANGED vars
  <2>1. UNCHANGED <<input, rpos, readers, alloc, mode, buf, pos, last_lineterm,
                    end, absolute_byte_offset, binary_byte_offset, pc, filled>>
    BY <1>1 DEF vars, readerVars, posVars
  <2> QED BY <2>1, SameReader DEF Inv, TypeInv, OffsetInv, BinaryInv, BytesInv,
       TellInv, SizeInv, Stopped, Capacity, Limit, Out
<1>2. CASE Consume
  BY <1>2, ConsumeKeeps
<1>3. CASE Clear
  BY <1>3, ClearKeeps
<1>4. CASE FillQuit
  BY <1>4, FillQuitKeeps
<1>5. CASE Roll
  BY <1>5, RollKeeps
<1>6. CASE AllocError
  BY <1>6, AllocErrorKeeps
<1>7. CASE ReadEof
  BY <1>7, EofKeeps
<1>8. CASE ReadError
  BY <1>8, ReadErrorKeeps
<1>9. CASE ReadSome
  BY <1>9, ReadKeeps
<1> QED BY <1>1, <1>2, <1>3, <1>4, <1>5, <1>6, <1>7, <1>8, <1>9 DEF Next, GivenUp

\* The invariant holds as long as the buffer is used.
LEMMA InvAlways == Spec => []Inv
<1> QED BY InvInit, InvNext, PTL DEF Spec

\* Rolling, growing, conversion and reuse lose, repeat and invent no byte of
\* any input, and the caller hears of its end only when it has had all of it
\* (LineBuffer::fill, roll, ensure_capacity, replace_bytes, clear).
THEOREM WindowExactCorrect == Spec => []WindowExact
<1>1. Inv => WindowExact
  <2> SUFFICES ASSUME Inv PROVE WindowExact
    OBVIOUS
  <2> USE DEF Inv
  <2>1. /\ input \in Seq(Bytes) /\ Len(input) \in Nat /\ rpos \in 0 .. Len(input)
        /\ absolute_byte_offset \in Nat /\ pos \in Nat /\ end \in Nat
        /\ pos <= last_lineterm /\ last_lineterm <= end /\ last_lineterm \in Nat
    BY DEF TypeInv
  <2>2. /\ Cut \in 0 .. Len(input) /\ Len(Expected) = Cut
        /\ \A i \in 1 .. Cut : Expected[i] = Out(input[i])
    BY <2>1, ExpectedIs
  <2>3. absolute_byte_offset + end - pos <= Cut
    <3>1. CASE Stopped
      BY <2>1, <2>2, <3>1, StoppedAt
    <3>2. CASE ~Stopped /\ mode = "quit"
      <4>1. absolute_byte_offset + end - pos = rpos /\ binary_byte_offset = None
        BY <3>2 DEF OffsetInv, Stopped
      <4>2. BinaryAt # {} => rpos <= Least(BinaryAt)
        BY <2>1, <3>2, <4>1, BinaryAtIs DEF BinaryInv, Watched
      <4> QED BY <2>1, <4>1, <4>2 DEF Cut
    <3>3. CASE ~Stopped /\ mode # "quit"
      BY <2>1, <3>3 DEF OffsetInv, Cut
    <3> QED BY <3>1, <3>2, <3>3
  <2>4. ASSUME NEW i \in 1 .. (end - pos)
        PROVE  buf[pos + i] = Expected[absolute_byte_offset + i]
    <3>1. absolute_byte_offset + i \in 1 .. Cut
      BY <2>1, <2>2, <2>3
    <3> QED BY <2>2, <3>1 DEF BytesInv
  <2>5. filled = "false" => absolute_byte_offset = Len(Expected)
    BY <2>2 DEF TellInv
  <2>6. WholeLines
    BY <2>2 DEF TellInv, WholeLines
  <2>7. BinaryOffsetFirst
    <3> SUFFICES ASSUME binary_byte_offset # None
                 PROVE  BinaryAt # {} /\ binary_byte_offset = Least(BinaryAt)
      BY DEF BinaryOffsetFirst
    <3>1. /\ binary_byte_offset \in BinaryAt /\ BinaryAt # {}
          /\ \A j \in BinaryAt : binary_byte_offset <= j
      BY DEF BinaryInv
    <3>2. /\ Least(BinaryAt) \in BinaryAt /\ BinaryAt \in SUBSET Nat
          /\ \A j \in BinaryAt : Least(BinaryAt) <= j
      BY <2>1, <3>1, BinaryAtIs
    <3>3. /\ Least(BinaryAt) <= binary_byte_offset
          /\ binary_byte_offset <= Least(BinaryAt)
          /\ Least(BinaryAt) \in Nat /\ binary_byte_offset \in Nat
      BY <3>1, <3>2
    <3> QED BY <3>1, <3>3
  <2> QED BY <2>1, <2>2, <2>3, <2>4, <2>5, <2>6, <2>7 DEF WindowExact
<1> QED BY <1>1, InvAlways, PTL

\* The buffer stays within its limit and gives up only when data that has not
\* been consumed fills it (LineBuffer::ensure_capacity).
THEOREM LimitKeptCorrect == Spec => []LimitKept
<1>1. Inv => LimitKept
  BY DEF Inv, SizeInv, LimitKept
<1> QED BY <1>1, InvAlways, PTL
=============================================================================
