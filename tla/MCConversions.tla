--------------------------- MODULE MCConversions ---------------------------
(***************************************************************************)
(* Subjects for Conversions, Hyperlinks and Decompression, and what is to  *)
(* come of them.                                                           *)
(***************************************************************************)
EXTENDS Hyperlinks, TLC

LOCAL INSTANCE SequencesExt
LOCAL INSTANCE FiniteSetsExt
LOCAL INSTANCE Functions

Unzip == INSTANCE Decompression

SeqsUpTo(S, n) == UNION {[1 .. k -> S] : k \in 0 .. n}
ValueOf(digits) == FoldLeft(LAMBDA v, b : 10 * v + b - 48, 0, digits)

-----------------------------------------------------------------------------
(* Numbers and bytes                                                       *)

Numbers == 0 .. 120 \cup {999, 1000, 1023, 1024, 65535, 1048576, MaxU64}
SizeSuffixes == {<<>>, <<75>>, <<77>>, <<71>>, <<84>>, <<75, 75>>, <<32, 75>>, <<107>>}

\* A number is written with its digits and no others, and a size reads back as
\* the number times its unit, or is refused where that does not fit.
NumberSays(n) ==
    LET digits == Decimal(n)
    IN  /\ ValueOf(digits) = n /\ (digits[1] = 48 => n = 0)
        /\ \A suffix \in SizeSuffixes, sign \in {<<>>, <<45>>, <<48>>} :
              LET r == ParseHumanReadableSize(sign \o digits \o suffix)
                  known == suffix = <<>> \/ suffix \in {<<75>>, <<77>>, <<71>>}
                  unit == IF suffix = <<>> THEN 1 ELSE Unit[suffix[1]]
              IN  CASE sign = <<45>> \/ ~known -> r.error = "format"
                    [] r.error = "none" -> known /\ r.value \div unit = n /\ r.value % unit = 0
                    [] OTHER -> r.error = "overflow" /\ MaxU64 \div unit < n
        /\ ParseHumanReadableSize(Decimal(MaxU64) \o digits).error = "int"

Bits(n, width) == [i \in 1 .. width |-> (n \div 2^(width - i)) % 2]
AllBits(seq, width) == FlattenSeq([i \in DOMAIN seq |-> Bits(seq[i], width)])
ByteSeqs == SeqsUpTo({0, 1, 63, 170, 255}, 4)
\* The digits of bytes in JSON are the bits of the bytes, in groups of four.
BytesSay(bytes) ==
    LET digits == Data(bytes, FALSE).bytes
        values == SelectSeq(digits, LAMBDA d : d # Pad)
        bits == AllBits(values, 6)
    IN  /\ Len(digits) % 4 = 0 /\ Len(digits) - Len(values) < 3
        /\ digits = values \o SubSeq(<<Pad, Pad>>, 1, Len(digits) - Len(values))
        /\ SubSeq(bits, 1, 8 * Len(bytes)) = AllBits(bytes, 8)
        /\ \A i \in 8 * Len(bytes) + 1 .. Len(bits) : bits[i] = 0
        /\ Len(bits) - 8 * Len(bytes) < 6

-----------------------------------------------------------------------------
(* Replacements                                                            *)

\* Group 0 is x, 1 is $a and is called a, 2 took no part.
Caps == [names |-> <<97>> :> 1 @@ <<97, 49>> :> 2, groups |-> 0 :> <<120>> @@ 1 :> <<36, 97>>]
TemplateItems == [k : {"ref", "bare"}, text : {<<97>>, <<49>>, <<48>>, <<97, 49>>, <<98>>, <<55, 55, 55>>}]
                 \cup [k : {"lit"}, text : {<<45>>, <<97>>, <<36, 36>>, <<125>>, <<123>>}]
Templates == SeqsUpTo(TemplateItems, 3)
Written(it) == CASE it.k = "ref" -> <<36, 123>> \o it.text \o <<125>>
                 [] it.k = "bare" -> <<36>> \o it.text
                 [] OTHER -> it.text
Meaning(name) == CASE name = <<48>> -> <<120>> [] name \in {<<49>>, <<97>>} -> <<36, 97>> [] OTHER -> <<>>
Template(items) == FlattenSeq([i \in DOMAIN items |-> Written(items[i])])
Doubled(text) == FlattenSeq([i \in DOMAIN text |-> IF text[i] = 36 THEN <<36, 36>> ELSE <<text[i]>>])

\* Every reference becomes its group and every $$ a dollar, once, and a text
\* whose dollars are doubled is itself.
TemplateSays(items) ==
    LET text == Template(items)
        joins(i) == /\ items[i].k = "bare" /\ i < Len(items) /\ items[i + 1].k = "lit"
                    /\ items[i + 1].text = <<97>>
    IN  /\ Interpolate(Doubled(text), Caps) = text
        /\ (\A i \in DOMAIN items : ~joins(i)) =>
              Interpolate(text, Caps) =
                  FlattenSeq([i \in DOMAIN items |->
                      CASE items[i].k # "lit" -> Meaning(items[i].text)
                        [] items[i].text = <<36, 36>> -> <<36>>
                        [] OTHER -> items[i].text])
        /\ Interpolate(text \o <<36>>, Caps) = Interpolate(text, Caps) \o <<36>>
        /\ Interpolate(text \o <<36, 123, 97>>, Caps) = Interpolate(text, Caps) \o <<36, 123, 97>>

-----------------------------------------------------------------------------
(* Color settings                                                          *)

Colors == {"red", "blue"}
GoodSpecs == {<<t, "none">> : t \in {"path", "match"}} \cup {<<"match", "none", "x">>}
             \cup {<<t, p, "red">> : t \in {"path", "match"}, p \in {"fg", "bg"}}
             \cup {<<"match", "fg", "blue">>, <<"match", "style", "bold">>, <<"match", "style", "nobold">>,
                   <<"path", "style", "italic">>}
BadSpecs == {<<"match">>, <<"match", "fg">>, <<"match", "style">>, <<"match", "fg", "red", "x">>,
             <<"x", "fg", "red">>, <<"match", "x", "red">>, <<"match", "fg", "x">>, <<"match", "style", "x">>}
SpecLists == SeqsUpTo(GoodSpecs, 3) \cup {<<b>> : b \in BadSpecs}

\* What was said last of an attribute, since it was cleared, is what it is.
ColorsSay(list) ==
    LET specs == [i \in DOMAIN list |-> ParseColorSpec(list[i], Colors)]
        sets(i, t, a) == list[i][1] = t /\ (list[i][2] = "none" \/ a \in DOMAIN specs[i].value)
        lasts(t, a) == {i \in DOMAIN list : sets(i, t, a)}
    IN  IF ToSet(list) \cap BadSpecs # {} THEN \A i \in DOMAIN list : specs[i].error # "none"
        ELSE /\ \A i \in DOMAIN list : specs[i].error = "none"
             /\ \A t \in OutTypes, a \in DOMAIN Cleared :
                   LET i == Max(lasts(t, a))
                   IN  ColorSpecs(specs)[t][a] =
                          IF lasts(t, a) = {} THEN Cleared[a]
                          ELSE CASE list[i][2] = "none" -> Cleared[a]
                                 [] list[i][2] \in {"fg", "bg"} -> list[i][3]
                                 [] OTHER -> list[i][3] \in {"bold", "italic"}

-----------------------------------------------------------------------------
(* Links                                                                   *)

FormatItems == {Text(<<b>>) : b \in {97, Colon, 32, Open, Close}}
               \cup {Var(v) : v \in {"path", "line", "column", "host", "unknown"}}
Formats == {pre \o items : pre \in {<<>>, <<Text(<<97>>), Text(<<Colon>>)>>}, items \in SeqsUpTo(FormatItems, 3)}
NameOf(var) == IF var = "unknown" THEN <<120>> ELSE CHOOSE n \in DOMAIN Variables : Variables[n] = var
Rendered(parts) ==
    FlattenSeq([i \in DOMAIN parts |->
        IF parts[i].k # "text" THEN <<Open>> \o NameOf(parts[i].k) \o <<Close>>
        ELSE FlattenSeq([j \in DOMAIN parts[i].text |->
                 LET b == parts[i].text[j] IN IF b \in {Open, Close} THEN <<b, b>> ELSE <<b>>])])

RECURSIVE Decode(_)
Decode(link) ==
    LET digit(h) == IF h < 58 THEN h - 48 ELSE h - 55
    IN  CASE link = <<>> -> <<>>
          [] link # <<>> /\ link[1] = Percent ->
                <<16 * digit(link[2]) + digit(link[3])>> \o Decode(SubSeq(link, 4, Len(link)))
          [] OTHER -> <<link[1]>> \o Decode(Tail(link))

Places == {[line |-> l, column |-> c] : l \in {1, 12}, c \in {NoValue, 3}}
Terminal == [hyperlinks |-> TRUE, color |-> TRUE]
\* A format is read for what it says, ending in an error if it has an unknown
\* variable, no path or a column without a line; and the link of a heading
\* stands for those of all lines unless these differ.
FormatReads(items, text, format) ==
    LET has(v) == \E i \in DOMAIN items : items[i].k = v
        link(p, path) == Begin(format, [host |-> <<104>>, wsl_prefix |-> NoValue],
                               [path |-> HyperlinkPath(path), line |-> p.line, column |-> p.column], Terminal)
        cut == IF text = <<>> THEN text ELSE Front(text)
    IN  /\ format.error = "none" => Rendered(format.parts) = text
        /\ format.error = "none" /\ items # <<>> => ~has("unknown") /\ has("path") /\ (has("column") => has("line"))
        /\ has("unknown") => format.error = "invalid variable"
        /\ (IsPrefix(<<Text(<<97>>), Text(<<Colon>>)>>, items) /\ ~has("unknown")
             /\ has("path") /\ ~has("column")) => format.error = "none"
        /\ items # <<>> /\ items[Len(items)].k # "text" =>
              HyperlinkFormat(cut, <<>>).error # "none" /\ HyperlinkFormat(cut, cut :> text) = format
        /\ format.error = "none" /\ items # <<>> =>
              (\A p \in Places, q \in Places : link(p, <<Slash>>) = link(q, <<Slash>>))
                  <=> ~format.is_line_dependent
        /\ format.error = "none" =>
              LET config == [format |-> format, heading |-> TRUE]
                  links == Links(config, [host |-> NoValue, wsl_prefix |-> NoValue], Terminal, <<Slash>>,
                                 <<[line |-> 7, column |-> 2]>>)
              IN  (items # <<>> /\ links[2] = NoValue) <=> (items # <<>> /\ ~has("line"))
FormatSays(items) == FormatReads(items, Rendered(items), HyperlinkFormat(Rendered(items), <<>>))

LinkPaths == {<<Slash>> \o p : p \in SeqsUpTo({97, Slash, 32, Percent, 27, 127, 128, 92}, 3)}
\* A link leads to the path it is for, and has no byte that ends it early.
PathSays(path) ==
    LET encoded == HyperlinkPath(path)
    IN  /\ Decode(encoded) = path
        /\ \A i \in DOMAIN encoded : encoded[i] > 32 /\ encoded[i] # 127
        /\ HyperlinkPath(Tail(path)) # NoValue => Tail(path)[1] = Slash
        /\ \A sep \in {NoValue, 92} :
              LET shown == WithSeparator(path, sep)
              IN  /\ Len(shown) = Len(path)
                  /\ sep = NoValue => shown = path
                  /\ sep # NoValue => \A i \in DOMAIN path :
                        shown[i] = IF path[i] = Slash THEN sep ELSE path[i]

-----------------------------------------------------------------------------
(* Compressed files                                                        *)

Gz == <<"*", ".", "a">>
Program(name, ext, absolute) == [name |-> name, ext |-> ext, absolute |-> absolute]
Associations ==
    {[glob |-> g, prog |-> p, args |-> <<>>] :
        g \in {Gz, <<"*", ".", "b">>, <<"a", "*">>},
        p \in {Program("unzip", NoValue, FALSE), Program("zcat", NoValue, FALSE),
               Program("zcat", "exe", FALSE), Program("own", NoValue, TRUE)}}
Systems == {[path |-> p, programs |-> s, windows |-> w] :
               p \in {<<>>, <<"", "d", "e">>}, w \in BOOLEAN,
               s \in SUBSET {Unzip!WithExtension(Program("unzip", NoValue, FALSE), "d", NoValue),
                             Unzip!WithExtension(Program("zcat", NoValue, FALSE), "e", "exe"),
                             Unzip!WithExtension(Program("unzip", NoValue, FALSE), "e", "com")}}
Compressions == {[system |-> s, list |-> l] : s \in Systems, l \in SeqsUpTo(Associations, 2)}
ZipPaths == {<<"b", ".", "a">>, <<"a", ".", "b">>, <<"a">>, <<"b">>, <<"b", "/", "b", ".", "a">>}

\* The last command that was associated with a name, of those whose program is
\* there, reads the file; the file is read as it is where there is none or it
\* does not start; and has_command says whether there is one.
DefaultUnzip == [glob |-> Gz, prog |-> Program("unzip", NoValue, FALSE), args |-> <<"-d">>]
There(system, prog) ==
    prog.absolute \/
        \E place \in system.programs :
            /\ place.dir \in ToSet(system.path) /\ place.name = prog.name
            /\ place.ext = prog.ext \/ (prog.ext = NoValue /\ place.ext \in {"com", "exe"})
Fits(glob, p) == Unzip!IsMatch(Unzip!Build(glob, Unzip!DefaultOptions), p)
ReadsThrough(p, cmd, read) ==
    /\ read.k = "command" <=> cmd # NoValue
    /\ read.k = "command" => Last(read.args) = p
CommandIs(c, matcher, p, hits, byDefault, cmd) ==
    /\ Unzip!HasCommand(matcher, p) <=> hits # {} \/ byDefault
    /\ hits # {} => cmd.bin.name = c.list[Max(hits)].prog.name /\ cmd.args = <<>>
    /\ hits = {} /\ byDefault => cmd.bin.name = "unzip" /\ cmd.args = <<"-d">>
    /\ ReadsThrough(p, cmd, Unzip!Reader(matcher, p, IF cmd = NoValue THEN {} ELSE {cmd.bin}, TRUE))
    /\ Unzip!Reader(matcher, p, {}, TRUE).k = "file"
MatcherSays(c, matcher) ==
    ~matcher.error /\ \A p \in ZipPaths :
        CommandIs(c, matcher, p,
                  {i \in DOMAIN c.list : There(c.system, c.list[i].prog) /\ Fits(c.list[i].glob, p)},
                  (~c.system.windows \/ There(c.system, DefaultUnzip.prog)) /\ Fits(Gz, p),
                  Unzip!CommandOf(matcher, p))
CompressionSays(c) ==
    LET commands == FoldLeft(LAMBDA cmds, a : Unzip!Associate(cmds, a, c.system), <<>>, c.list)
    IN  MatcherSays(c, Unzip!DecompressionMatcher(TRUE, <<DefaultUnzip>>, commands, c.system))
=============================================================================
