----------------------------- MODULE Hyperlinks -----------------------------
(***************************************************************************)
(* The links around printed paths (printer/src/hyperlink/mod.rs) and the   *)
(* printed paths themselves (printer/src/util.rs).                         *)
(***************************************************************************)
EXTENDS Conversions

LOCAL INSTANCE SequencesExt
LOCAL INSTANCE Functions
LOCAL INSTANCE TLC

Slash == 47
Colon == 58
Percent == 37

\* The names of the variables: path, line, column, host, wslprefix.
Variables == <<112, 97, 116, 104>> :> "path" @@ <<108, 105, 110, 101>> :> "line"
             @@ <<99, 111, 108, 117, 109, 110>> :> "column" @@ <<104, 111, 115, 116>> :> "host"
             @@ <<119, 115, 108, 112, 114, 101, 102, 105, 120>> :> "wslprefix"

-----------------------------------------------------------------------------
(* Formats                                                                 *)

Text(text) == [k |-> "text", text |-> text]
Var(name) == [k |-> name]

AppendChar(parts, ch) ==
    IF parts # <<>> /\ Last(parts).k = "text"
    THEN Append(Front(parts), Text(Append(Last(parts).text, ch)))
    ELSE Append(parts, Text(<<ch>>))

Parser(state, parts, name) == [state |-> state, parts |-> parts, name |-> name]
FormatError(kind) == Parser(kind, <<>>, <<>>)
AppendVar(parts, name) ==
    IF name \in DOMAIN Variables THEN Parser("verbatim", Append(parts, Var(Variables[name])), <<>>)
                                 ELSE FormatError("invalid variable")
ParseChar(s, ch) ==
    CASE s.state = "verbatim" ->
            IF ch = Open THEN [s EXCEPT !.state = "open variable"]
            ELSE IF ch = Close THEN [s EXCEPT !.state = "verbatim close"]
            ELSE [s EXCEPT !.parts = AppendChar(@, ch)]
      [] s.state = "verbatim close" ->
            IF ch = Close THEN Parser("verbatim", AppendChar(s.parts, ch), s.name)
                          ELSE FormatError("invalid close")
      [] s.state = "open variable" /\ ch = Open -> Parser("verbatim", AppendChar(s.parts, ch), s.name)
      [] s.state = "open variable" /\ ch # Open ->
            IF ch = Close THEN AppendVar(s.parts, <<>>) ELSE Parser("in variable", s.parts, <<ch>>)
      [] s.state = "in variable" ->
            IF ch = Close THEN AppendVar(s.parts, s.name) ELSE [s EXCEPT !.name = Append(@, ch)]
      [] OTHER -> s

HasVar(parts, name) == \E i \in DOMAIN parts : parts[i].k = name
IsSchemeByte(b) == IsDigit(b) \/ IsLetter(b) \/ b \in {43, 45, 46}
ValidScheme(part) ==
    part.k = "text" /\ LET colon == FirstOf(part.text, {Colon})
                       IN  /\ colon \in 2 .. Len(part.text)
                           /\ \A i \in 1 .. colon - 1 : IsSchemeByte(part.text[i])
ValidateWithoutLine(parts) ==    \* mutant: a column needs no line
    IF parts = <<>> THEN "none"
    ELSE IF \A i \in DOMAIN parts : parts[i].k = "text" THEN "no variables"
    ELSE IF ~HasVar(parts, "path") THEN "no path"
    ELSE IF ~ValidScheme(parts[1]) THEN "invalid scheme" ELSE "none"
Validate(parts) ==
    IF parts = <<>> THEN "none"
    ELSE IF \A i \in DOMAIN parts : parts[i].k = "text" THEN "no variables"
    ELSE IF ~HasVar(parts, "path") THEN "no path"
    ELSE IF HasVar(parts, "column") /\ ~HasVar(parts, "line") THEN "no line"
    ELSE IF ~ValidScheme(parts[1]) THEN "invalid scheme" ELSE "none"

\* The format of a text or of the alias it names.
HyperlinkFormat(text, aliases) ==
    LET input == IF text \in DOMAIN aliases THEN aliases[text] ELSE text
        end == FoldLeft(ParseChar, Parser("verbatim", <<>>, <<>>), input)
        error == CASE end.state = "verbatim" -> Validate(end.parts)
                   [] end.state = "verbatim close" -> "invalid close"
                   [] end.state \in {"open variable", "in variable"} -> "unclosed variable"
                   [] OTHER -> end.state
    IN  [error |-> error, parts |-> IF error = "none" THEN end.parts ELSE <<>>,
         is_line_dependent |-> HasVar(end.parts, "line")]

-----------------------------------------------------------------------------
(* Paths and links                                                         *)

WithSeparator(path, sep) ==
    IF sep = NoValue THEN path ELSE [i \in DOMAIN path |-> IF path[i] = Slash THEN sep ELSE path[i]]

Hex(n) == IF n < 10 THEN 48 + n ELSE 55 + n
IsKept(b) == IsDigit(b) \/ IsLetter(b) \/ b \in {Slash, Colon, 45, 46, 95, 126} \/ b >= 128
Encode(path) ==
    FlattenSeq([i \in DOMAIN path |->
        IF IsKept(path[i]) THEN <<path[i]>> ELSE <<Percent, Hex(path[i] \div 16), Hex(path[i] % 16)>>])

\* HyperlinkPath::from_path, of what canonicalize says of the printed bytes.
HyperlinkPath(canonical) ==
    IF canonical = NoValue \/ canonical = <<>> \/ canonical[1] # Slash THEN NoValue
    ELSE Encode(canonical)

InterpolateTo(part, env, values) ==
    LET number(v) == Decimal(IF v = NoValue THEN 1 ELSE v)
        given(v) == IF v = NoValue THEN <<>> ELSE v
    IN  CASE part.k = "text" -> part.text
          [] part.k = "host" -> given(env.host)
          [] part.k = "wslprefix" -> given(env.wsl_prefix)
          [] part.k = "path" -> values.path
          [] part.k = "line" -> number(values.line)
          [] part.k = "column" -> number(values.column)

\* Interpolator::begin: the link that is opened, if one is.
Begin(format, env, values, wtr) ==
    IF format.parts = <<>> \/ ~wtr.hyperlinks \/ ~wtr.color \/ values.path = NoValue THEN NoValue
    ELSE FlattenSeq([i \in DOMAIN format.parts |-> InterpolateTo(format.parts[i], env, values)])

\* The links a file gets: one for its heading, and one before each line unless
\* the heading's says as much.
Links(config, env, wtr, path, lines) ==
    LET values(line, column) == [path |-> path, line |-> line, column |-> column]
        heading == IF config.heading THEN <<Begin(config.format, env, values(NoValue, NoValue), wtr)>>
                                     ELSE <<>>
        each == [i \in DOMAIN lines |->
                    IF config.format.is_line_dependent \/ ~config.heading
                    THEN Begin(config.format, env, values(lines[i].line, lines[i].column), wtr)
                    ELSE NoValue]
    IN  heading \o each
=============================================================================
