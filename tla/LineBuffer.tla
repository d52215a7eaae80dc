------------------------------ MODULE LineBuffer ------------------------------
(***************************************************************************)
(* The rolling line buffer of the searcher,                                *)
(* crates/searcher/src/line_buffer.rs.                                     *)
(*                                                                         *)
(* A caller alternates fill and consume; fill drops what was consumed by   *)
(* copying the rest to the front, then reads until a line terminator has   *)
(* arrived, growing the buffer as its allocation strategy allows.  One     *)
(* buffer serves many readers, one after the other, and is cleared for     *)
(* each.  A read may return any number of bytes, or an error.              *)
(*                                                                         *)
(* Offsets count from 0 as in the code: the byte at offset i of the buffer *)
(* is buf[i + 1].                                                          *)
(***************************************************************************)
EXTENDS Integers, Sequences

CONSTANTS
    Inputs,       \* what a reader may hold: sequences of bytes
    Bytes,        \* the bytes that occur
    LineTerm,     \* config.lineterm
    Binary,       \* the byte that means binary data
    Modes,        \* BinaryDetection: "none", "quit", "convert"
    Allocations,  \* config.capacity and config.buffer_alloc: pairs of a
                  \* capacity and the limit of BufferAllocation::Error, or
                  \* NoLimit for BufferAllocation::Eager
    NoLimit,
    MaxReaders    \* bound: how many readers one buffer is used with

None == -1

ASSUME BytesAssumption ==
    /\ Inputs \subseteq Seq(Bytes)
    /\ {LineTerm, Binary} \subseteq Bytes
    /\ Modes \subseteq {"none", "quit", "convert"}
ASSUME SizesAssumption ==
    /\ NoLimit \notin Nat /\ MaxReaders \in Nat
    /\ Allocations \subseteq Nat \X (Nat \cup {NoLimit})

VARIABLES
    input, rpos,  \* the current reader's bytes, and how many it has returned
    readers,      \* readers used so far
    alloc, mode,  \* the buffer's allocation strategy; config.binary
    buf, pos, last_lineterm, end,
    absolute_byte_offset, binary_byte_offset,
    pc,           \* "idle", "filling", or "failed" once fill returned an error
    filled        \* what fill returned last: "none", "true", "false", "error"

readerVars == <<input, rpos, readers, alloc, mode>>
posVars == <<pos, last_lineterm, end, absolute_byte_offset>>
vars == <<readerVars, buf, posVars, binary_byte_offset, pc, filled>>

Capacity == alloc[1]
Limit == alloc[2]

Buffer == SubSeq(buf, pos + 1, last_lineterm)

Least(S) == CHOOSE i \in S : \A j \in S : i <= j
Greatest(S) == CHOOSE i \in S : \A j \in S : i >= j
LesserOf(a, b) == IF a <= b THEN a ELSE b

\* The offsets at which byte b occurs in a sequence.
Offsets(bytes, b) == {i \in 0 .. (Len(bytes) - 1) : bytes[i + 1] = b}

Init ==
    /\ input \in Inputs /\ mode \in Modes /\ alloc \in Allocations
    /\ rpos = 0 /\ readers = 1
    /\ buf = [i \in 1 .. Capacity |-> LineTerm]
    /\ pos = 0 /\ last_lineterm = 0 /\ end = 0
    /\ absolute_byte_offset = 0
    /\ binary_byte_offset = None
    /\ pc = "idle" /\ filled = "none"

-----------------------------------------------------------------------------
(* The caller.                                                             *)

\* consume; amt is at most the length of buffer.
Consume ==
    /\ pc = "idle"
    /\ \E amt \in 1 .. (last_lineterm - pos) :
         /\ pos' = pos + amt
         /\ absolute_byte_offset' = absolute_byte_offset + amt
    /\ UNCHANGED <<readerVars, buf, last_lineterm, end, binary_byte_offset, pc,
                   filled>>

ClearedKept == binary_byte_offset    \* mutant: the last reader's offset stays
Cleared == None

\* LineBufferReader::new with the next reader: clear, whatever state the last
\* search left behind; the memory stays allocated.
Clear ==
    /\ pc \in {"idle", "failed"}
    /\ readers < MaxReaders
    /\ readers' = readers + 1
    /\ input' \in Inputs /\ mode' \in Modes /\ rpos' = 0
    /\ pos' = 0 /\ last_lineterm' = 0 /\ end' = 0
    /\ absolute_byte_offset' = 0
    /\ binary_byte_offset' = Cleared
    /\ pc' = "idle" /\ filled' = "none"
    /\ UNCHANGED <<buf, alloc>>

-----------------------------------------------------------------------------
(* fill.                                                                   *)

\* Binary data has been seen and means the end.
FillQuit ==
    /\ pc = "idle" /\ mode = "quit" /\ binary_byte_offset # None
    /\ filled' = IF pos < last_lineterm THEN "true" ELSE "false"
    /\ UNCHANGED <<readerVars, buf, posVars, binary_byte_offset, pc>>

UnconsumedSwapped == pos - end    \* mutant: the operands swapped
Unconsumed == end - pos

RolledInPlace == buf    \* mutant: the indices move but not the bytes
Rolled ==
    [i \in 1 .. Len(buf) |-> IF i <= Unconsumed THEN buf[pos + i] ELSE buf[i]]

\* fill's first half: roll what is left to the front.
Roll ==
    /\ pc = "idle" /\ ~(mode = "quit" /\ binary_byte_offset # None)
    /\ buf' = Rolled
    /\ pos' = 0
    /\ last_lineterm' = Unconsumed
    /\ end' = Unconsumed
    /\ pc' = "filling" /\ filled' = "none"
    /\ UNCHANGED <<readerVars, absolute_byte_offset, binary_byte_offset>>

\* ensure_capacity: how many bytes are to be added to a full buffer.
AdditionalUnlimited ==    \* mutant: the limit is not looked at
    (IF Len(buf) = 0 THEN 1 ELSE Len(buf)) * 2
Additional ==
    LET len == IF Len(buf) = 0 THEN 1 ELSE Len(buf)
    IN  IF Limit = NoLimit THEN len * 2
        ELSE LesserOf(len * 2, Limit - (Len(buf) - Capacity))

\* The buffer when ensure_capacity has returned.
Ensured == IF end < Len(buf) THEN buf
           ELSE buf \o [i \in 1 .. Additional |-> LineTerm]

AllocError ==
    /\ pc = "filling" /\ end = Len(buf) /\ Additional = 0
    /\ pc' = "failed" /\ filled' = "error"
    /\ UNCHANGED <<readerVars, buf, posVars, binary_byte_offset>>

FreeSpaceOneMore == Len(Ensured) - end + 1    \* mutant: off by one
FreeSpace == Len(Ensured) - end

\* The loop goes on only if there is room for another read.
Reading == pc = "filling" /\ (end < Len(buf) \/ Additional > 0)

AnythingLeftStale == pos < last_lineterm    \* mutant: before it is moved to end
AnythingLeft == pos < end

\* rdr.read returns 0: what is left is the last, partial line.
ReadEof ==
    /\ Reading /\ rpos = Len(input)
    /\ buf' = Ensured
    /\ last_lineterm' = end
    /\ filled' = IF AnythingLeft THEN "true" ELSE "false"
    /\ pc' = "idle"
    /\ UNCHANGED <<readerVars, pos, end, absolute_byte_offset, binary_byte_offset>>

ReadError ==
    /\ Reading
    /\ buf' = Ensured
    /\ pc' = "failed" /\ filled' = "error"
    /\ UNCHANGED <<readerVars, posVars, binary_byte_offset>>

\* The buffer with the given bytes at its end.
WithNew(new) ==
    [i \in 1 .. Len(Ensured) |-> IF i > end /\ i <= end + Len(new)
                                 THEN new[i - end] ELSE Ensured[i]]

\* replace_bytes, when binary detection converts.
Converted(bytes) ==
    IF mode = "convert"
    THEN [i \in 1 .. Len(bytes) |-> IF bytes[i] = Binary THEN LineTerm
                                                        ELSE bytes[i]]
    ELSE bytes

\* Binary detection finds the byte in new data and quits: the data ends there.
BinaryQuit(new) ==
    LET i == Least(Offsets(new, Binary))
    IN  /\ buf' = WithNew(new)
        /\ end' = end + i
        /\ last_lineterm' = end + i
        /\ binary_byte_offset' = absolute_byte_offset + end + i
        /\ filled' = IF pos < end + i THEN "true" ELSE "false"
        /\ pc' = "idle"

\* Where binary data was first seen: later reads do not change it.
FirstBinary(i) == IF binary_byte_offset = None
                  THEN absolute_byte_offset + end + i ELSE binary_byte_offset

\* The position after the last line terminator.
AfterLastAt(terms) == end + Greatest(terms)    \* mutant: off by one
AfterLast(terms) == end + Greatest(terms) + 1

\* The new bytes are kept; fill returns if they hold a line terminator.
KeepNew(new) ==
    LET bytes == Converted(new)
        terms == Offsets(bytes, LineTerm)
        bins == Offsets(new, Binary)
    IN  /\ buf' = WithNew(bytes)
        /\ end' = end + Len(new)
        /\ binary_byte_offset' =
             IF mode = "convert" /\ Binary # LineTerm /\ bins # {}
             THEN FirstBinary(Least(bins)) ELSE binary_byte_offset
        /\ IF terms = {} THEN UNCHANGED <<last_lineterm, pc, filled>>
           ELSE /\ last_lineterm' = AfterLast(terms)
                /\ pc' = "idle" /\ filled' = "true"

\* rdr.read returns some of the bytes that are left.
ReadSome ==
    /\ Reading
    /\ \E k \in 1 .. LesserOf(FreeSpace, Len(input) - rpos) :
         LET new == SubSeq(input, rpos + 1, rpos + k)
         IN  /\ rpos' = rpos + k
             /\ IF mode = "quit" /\ Offsets(new, Binary) # {}
                THEN BinaryQuit(new) ELSE KeepNew(new)
    /\ UNCHANGED <<input, readers, alloc, mode, pos, absolute_byte_offset>>

\* The last search has failed and the buffer is not used again.
GivenUp == pc = "failed" /\ readers = MaxReaders /\ UNCHANGED vars

Next == \/ Consume \/ Clear \/ FillQuit \/ Roll
        \/ AllocError \/ ReadEof \/ ReadError \/ ReadSome
        \/ GivenUp

Spec == Init /\ [][Next]_vars

-----------------------------------------------------------------------------
(* Properties                                                              *)

\* What the caller is to see of the input: up to the first binary byte when
\* binary detection quits, with line terminators for binary bytes when it
\* converts.
BinaryAt == Offsets(input, Binary)
Expected ==
    IF mode = "quit" /\ BinaryAt # {}
    THEN SubSeq(input, 1, Least(BinaryAt)) ELSE Converted(input)

\* A buffer that fill has just filled ends with a whole line, unless the input
\* has ended or binary data has been found.
WholeLines ==
    filled = "true" /\ pos < last_lineterm =>
        \/ buf[last_lineterm] = LineTerm
        \/ absolute_byte_offset + last_lineterm - pos = Len(Expected)

\* The recorded offset is that of the first binary byte, for this reader.
BinaryOffsetFirst ==
    binary_byte_offset # None =>
        BinaryAt # {} /\ binary_byte_offset = Least(BinaryAt)

\* The bytes in the buffer are those of the input from the absolute offset on:
\* rolling, growing, conversion and reuse lose, repeat and invent nothing
\* (line_buffer.rs:404).  The caller gets them in whole lines, hears of the
\* first binary byte, and is told that there is no more only when it has
\* been given all of them.
WindowExact ==
    /\ absolute_byte_offset + end - pos <= Len(Expected)
    /\ \A i \in 1 .. (end - pos) : buf[pos + i] = Expected[absolute_byte_offset + i]
    /\ filled = "false" => absolute_byte_offset = Len(Expected)
    /\ WholeLines
    /\ BinaryOffsetFirst

\* The buffer never outgrows its limit, and gives up only when the limit is
\* filled with data that has not been consumed.
LimitKept ==
    Limit # NoLimit =>
        /\ Len(buf) <= Capacity + Limit
        /\ filled = "error" /\ end = Len(buf) => end - pos = Capacity + Limit
=============================================================================
