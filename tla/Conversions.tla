---------------------------- MODULE Conversions ----------------------------
(***************************************************************************)
(* Small conversions: numbers (printer/src/util.rs, cli/src/human.rs),     *)
(* bytes in JSON (printer/src/jsont.rs), replacements                      *)
(* (matcher/src/interpolate.rs) and color settings (printer/src/color.rs). *)
(* A text is a sequence of byte values.                                    *)
(***************************************************************************)
EXTENDS Integers, Sequences

LOCAL INSTANCE SequencesExt
LOCAL INSTANCE FiniteSetsExt
LOCAL INSTANCE TLC
LOCAL INSTANCE Functions

CONSTANTS MaxU64, MaxU32,   \* bounds: the largest integers of these widths
          NoValue

IsDigit(b) == b \in 48 .. 57
IsLetter(b) == b \in 65 .. 90 \cup 97 .. 122
FirstOf(text, S) ==    \* the index of the first byte in S, or one past the end
    Min({i \in DOMAIN text : text[i] \in S} \cup {Len(text) + 1})
From(text, i) == SubSeq(text, i, Len(text))

-----------------------------------------------------------------------------
(* Numbers                                                                 *)

RECURSIVE Decimal(_)
Decimal(n) == (IF n < 10 THEN <<>> ELSE Decimal(n \div 10)) \o <<48 + (n % 10)>>

\* str::parse: a number that does not fit is an error.
ParseInt(digits, max) ==
    LET step(v, b) == IF v = NoValue \/ v > (max - (b - 48)) \div 10 THEN NoValue ELSE 10 * v + b - 48
    IN  FoldLeft(step, 0, digits)

Unit == 75 :> 2^10 @@ 77 :> 2^20 @@ 71 :> 2^30     \* K, M, G
CheckedMul(value, unit) == IF value > MaxU64 \div unit THEN NoValue ELSE value * unit
ParseHumanReadableSize(size) ==
    LET end == FirstOf(size, Range(size) \ (48 .. 57))
        value == ParseInt(SubSeq(size, 1, end - 1), MaxU64)
        suffix == From(size, end)
    IN  CASE end = 1 -> [error |-> "format"]
          [] end > 1 /\ value = NoValue -> [error |-> "int"]
          [] end > 1 /\ value # NoValue /\ suffix = <<>> -> [error |-> "none", value |-> value]
          [] OTHER ->
                IF Len(suffix) # 1 \/ suffix[1] \notin DOMAIN Unit THEN [error |-> "format"]
                ELSE LET bytes == CheckedMul(value, Unit[suffix[1]])
                     IN  IF bytes = NoValue THEN [error |-> "overflow"]
                                            ELSE [error |-> "none", value |-> bytes]

-----------------------------------------------------------------------------
(* Bytes in JSON: text if they are UTF-8, or else base64, of which a digit *)
(* stands for six bits.                                                    *)

Pad == 64
Sextet(group, shift) == (group \div 2^shift) % 64
Group(chunk) == FoldLeft(LAMBDA g, b : 256 * g + b, 0, chunk)
RemainderUnshifted(chunk) ==    \* mutant: the bits are not moved to the front of the digit
    LET g == Group(chunk)
    IN  IF Len(chunk) = 1 THEN <<Sextet(g, 2), g % 64, Pad, Pad>>
        ELSE <<Sextet(g, 10), Sextet(g, 4), g % 64, Pad>>
Remainder(chunk) ==
    LET g == Group(chunk)
    IN  IF Len(chunk) = 1 THEN <<Sextet(g, 2), (g * 2^4) % 64, Pad, Pad>>
        ELSE <<Sextet(g, 10), Sextet(g, 4), (g * 2^2) % 64, Pad>>
RECURSIVE Base64Standard(_)
Base64Standard(bytes) ==
    IF bytes = <<>> THEN <<>>
    ELSE IF Len(bytes) < 3 THEN Remainder(bytes)
    ELSE LET g == Group(SubSeq(bytes, 1, 3))
         IN  <<Sextet(g, 18), Sextet(g, 12), Sextet(g, 6), Sextet(g, 0)>> \o Base64Standard(From(bytes, 4))

Data(bytes, isUtf8) ==
    IF isUtf8 THEN [text |-> bytes] ELSE [bytes |-> Base64Standard(bytes)]

-----------------------------------------------------------------------------
(* Replacements                                                            *)

Dollar == 36
Open == 123
Close == 125
IsValidCapLetter(b) == IsDigit(b) \/ IsLetter(b) \/ b = 95

\* The reference at the start of the text: what it names and where it ends.
FindCapRefUnclosed(text) ==    \* mutant: the closing brace is kept
    LET i == IF Len(text) >= 2 /\ text[2] = Open THEN 3 ELSE 2
        end == FirstOf(From(text, i), {b \in Range(text) : ~IsValidCapLetter(b)}) + i - 1
    IN  IF Len(text) <= 1 \/ end = i THEN NoValue
        ELSE [cap |-> SubSeq(text, i, end - 1), end |-> end]
FindCapRef(text) ==
    LET braced == Len(text) >= 2 /\ text[2] = Open
        i == IF braced THEN 3 ELSE 2
        end == FirstOf(From(text, i), {b \in Range(text) : ~IsValidCapLetter(b)}) + i - 1
        closed == end <= Len(text) /\ text[end] = Close
    IN  IF Len(text) <= 1 \/ end = i \/ (braced /\ ~closed) THEN NoValue
        ELSE [cap |-> SubSeq(text, i, end - 1), end |-> IF braced THEN end + 1 ELSE end]

\* A number that fits is an index, anything else the name of a group; what no
\* group is called, or did not match, is nothing.
Index(cap, caps) ==
    LET n == ParseInt(cap, MaxU32)
    IN  IF (\A i \in DOMAIN cap : IsDigit(cap[i])) /\ n # NoValue THEN n
        ELSE IF cap \in DOMAIN caps.names THEN caps.names[cap] ELSE NoValue
Captured(cap, caps) ==
    LET i == Index(cap, caps) IN IF i \in DOMAIN caps.groups THEN caps.groups[i] ELSE <<>>

RECURSIVE Interpolate(_, _)
Interpolate(text, caps) ==
    LET i == FirstOf(text, {Dollar})
        rest == From(text, i)
        ref == FindCapRef(rest)
    IN  IF rest = <<>> THEN text
        ELSE SubSeq(text, 1, i - 1) \o
             IF Len(rest) >= 2 /\ rest[2] = Dollar THEN <<Dollar>> \o Interpolate(From(rest, 3), caps)
             ELSE IF ref = NoValue THEN <<Dollar>> \o Interpolate(From(rest, 2), caps)
             ELSE Captured(ref.cap, caps) \o Interpolate(From(rest, ref.end), caps)

-----------------------------------------------------------------------------
(* Color settings, as the pieces between their colons                      *)

OutTypes == {"path", "line", "column", "match", "highlight"}
Styles == "bold" :> [bold |-> TRUE] @@ "nobold" :> [bold |-> FALSE]
          @@ "intense" :> [intense |-> TRUE] @@ "nointense" :> [intense |-> FALSE]
          @@ "underline" :> [underline |-> TRUE] @@ "nounderline" :> [underline |-> FALSE]
          @@ "italic" :> [italic |-> TRUE] @@ "noitalic" :> [italic |-> FALSE]
Cleared == [fg |-> NoValue, bg |-> NoValue, bold |-> FALSE, intense |-> FALSE,
            underline |-> FALSE, italic |-> FALSE]

SpecError(kind) == [error |-> kind]
\* UserColorSpec: what it changes of which output; "none" needs no value, and
\* does not look at one.
ParseColorSpec(pieces, colors) ==
    LET n == Len(pieces)
        spec(value) == [error |-> "none", ty |-> pieces[1], value |-> value]
    IN  CASE n <= 1 \/ n > 3 -> SpecError("format")
          [] n \in 2 .. 3 /\ pieces[1] \notin OutTypes -> SpecError("out type")
          [] n \in 2 .. 3 /\ pieces[1] \in OutTypes ->
                CASE pieces[2] = "none" -> spec(Cleared)
                  [] pieces[2] \notin {"none", "style", "fg", "bg"} -> SpecError("spec type")
                  [] OTHER -> IF n < 3 THEN SpecError("format")
                              ELSE IF pieces[2] = "style"
                              THEN IF pieces[3] \in DOMAIN Styles THEN spec(Styles[pieces[3]])
                                                                  ELSE SpecError("style")
                              ELSE IF pieces[3] \notin colors THEN SpecError("color")
                              ELSE spec(pieces[2] :> pieces[3])

MergeInto(spec, specs) == [specs EXCEPT ![spec.ty] = spec.value @@ @]
ColorSpecs(specs) ==
    FoldLeft(LAMBDA merged, spec : MergeInto(spec, merged), [t \in OutTypes |-> Cleared], specs)
=============================================================================
