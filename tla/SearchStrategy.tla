--------------------------- MODULE SearchStrategy ---------------------------
(***************************************************************************)
(* How a Searcher searches (crates/searcher/src/searcher/mod.rs, mmap.rs): *)
(* a file may be mapped, read into the multi-line buffer or read through   *)
(* the line buffer, and decoded on the way.                                *)
(*                                                                         *)
(* A source is [kind, bom, body]: what it is read from, the byte-order     *)
(* mark it begins with ("none" if it has none) and what follows.  A text   *)
(* that reaches a strategy is [as, mark, body]: the encoding it was        *)
(* decoded from ("raw" if it was not), whether the mark is still in front, *)
(* and the rest.                                                           *)
(***************************************************************************)
EXTENDS RegexBuild

LOCAL INSTANCE SequencesExt
LOCAL INSTANCE FiniteSetsExt
LOCAL INSTANCE Folds

CONSTANT DefaultBufferCapacity    \* DEFAULT_BUFFER_CAPACITY

\* LineTerminator::as_byte
AsByte(term) == IF term = "crlf" THEN "lf" ELSE term

\* encoding_rs_io: a byte-order mark has precedence over the encoding that was
\* asked for, and is removed; UTF-8 is passed through.
Decoded(config, source) ==
    LET sniffed == config.bom_sniffing /\ source.bom # "none"
        enc == IF sniffed THEN source.bom ELSE config.encoding
    IN  [as |-> IF enc \in {NoValue, "utf8"} THEN "raw" ELSE enc,
         mark |-> source.bom # "none" /\ ~sniffed, body |-> source.body]
Slice(source) == [as |-> "raw", mark |-> source.bom # "none", body |-> source.body]

SliceHasBom(source) == source.bom \in {"utf8", "utf16le", "utf16be"}
SliceNeedsTranscodingSniffing(config, source) ==    \* mutant: marks are not looked for
    config.encoding # NoValue
SliceNeedsTranscoding(config, source) ==
    \/ config.encoding # NoValue
    \/ config.bom_sniffing /\ SliceHasBom(source)

\* check_config
ConfigError(config, matcher) ==
    CASE config.heap_limit = 0 /\ ~config.mmap -> "unavailable"
      [] OTHER -> IF matcher.line_terminator \notin {NoValue, config.line_term}
                  THEN "mismatched" ELSE "none"

\* Whether a match may go over the end of a line.
MultiLineWithMatcher(config, matcher) ==
    /\ config.multi_line
    /\ matcher.line_terminator # config.line_term
    /\ AsByte(config.line_term) \in matcher.matching

-----------------------------------------------------------------------------
(* The multi-line buffer: one for all searches of a Searcher.              *)

Interrupted == -1
Failing == -2

\* buf.resize
Resized(buf, n) == [i \in 1 .. n |-> IF i <= Len(buf) THEN buf[i] ELSE "zero"]

\* One read of at most r bytes, into the free part of the buffer.
FillStep(text, limit, s, r) ==
    LET free == Len(s.buf) - s.pos
        nread == Min({r, free, Len(text) - s.pos})
        read == [s EXCEPT !.pos = @ + nread,
                          !.buf = [i \in DOMAIN @ |-> IF i \in s.pos + 1 .. s.pos + nread
                                                      THEN text[i] ELSE @[i]]]
    IN  IF s.end # "none" \/ r = Interrupted THEN s
        ELSE IF r = Failing THEN [s EXCEPT !.end = "io"]
        ELSE IF nread = 0 THEN [s EXCEPT !.buf = Resized(@, s.pos), !.end = "filled"]
        ELSE IF nread < free THEN read
        ELSE IF Len(s.buf) = limit THEN [read EXCEPT !.end = "limit"]
        ELSE [read EXCEPT !.buf = Resized(@, Min({2 * Len(s.buf), limit}))]

KeptBuffer(old) == old    \* mutant: what the search before left is not cleared
ClearedBuffer(old) == <<>>

\* fill_multi_line_buffer_from_*, when the reader answers its reads as reads
\* has it and then with as much as it is asked for.
FillMultiLineBuffer(config, old, text, reads) ==
    LET buf == ClearedBuffer(old)
        unlimited == config.heap_limit = NoValue
        limit == IF unlimited THEN Len(text) + 2 ELSE config.heap_limit
        capacity == IF unlimited THEN limit ELSE Min({DefaultBufferCapacity, limit})
        all == reads \o [i \in 1 .. Len(text) + 1 |-> Len(text) + 1]
        filled == FoldLeft(LAMBDA s, r : FillStep(text, limit, s, r),
                           [buf |-> Resized(<<>>, capacity), pos |-> 0, end |-> "none"], all)
    IN  IF limit = 0 THEN [buf |-> buf, pos |-> 0, end |-> "limit"]
        ELSE IF unlimited THEN [filled EXCEPT !.buf = buf \o @]
        ELSE filled

-----------------------------------------------------------------------------
(* search_path, search_file, search_reader, search_slice                   *)

Fails(error) == [error |-> error]
Searches(strategy, text) == [error |-> "none", strategy |-> strategy, text |-> text]

\* What is in the buffer is searched as one slice.
FromMultiLineBuffer(config, source, old, reads) ==
    LET text == Decoded(config, source)
        filled == FillMultiLineBuffer(config, old, text.body, reads)
    IN  IF filled.end = "filled" THEN Searches("multi", [text EXCEPT !.body = filled.buf])
                                 ELSE Fails(filled.end)

SearchReader(config, matcher, source, old, reads) ==
    IF ConfigError(config, matcher) # "none" THEN Fails(ConfigError(config, matcher))
    ELSE IF MultiLineWithMatcher(config, matcher)
    THEN FromMultiLineBuffer(config, source, old, reads)
    ELSE Searches("lines", Decoded(config, source))

SearchSlice(config, matcher, source, old, reads) ==
    IF ConfigError(config, matcher) # "none" THEN Fails(ConfigError(config, matcher))
    ELSE IF SliceNeedsTranscoding(config, source)
    THEN SearchReader(config, matcher, source, old, reads)
    ELSE Searches(IF MultiLineWithMatcher(config, matcher) THEN "multi" ELSE "slice",
                  Slice(source))

\* MmapChoice::open
Mapped(config, source) == config.mmap /\ source.mappable

SearchFile(config, matcher, source, old, reads) ==
    IF Mapped(config, source) THEN SearchSlice(config, matcher, source, old, reads)
    ELSE IF MultiLineWithMatcher(config, matcher)
    THEN FromMultiLineBuffer(config, source, old, reads)
    ELSE SearchReader(config, matcher, source, old, reads)

Search(config, matcher, source, old, reads) ==
    CASE source.kind = "file" -> SearchFile(config, matcher, source, old, reads)
      [] source.kind = "reader" -> SearchReader(config, matcher, source, old, reads)
      [] source.kind = "slice" -> SearchSlice(config, matcher, source, old, reads)

-----------------------------------------------------------------------------
(* SearcherBuilder, and what the flags ask of it.                          *)

DefaultConfig ==
    [line_term |-> "lf", multi_line |-> FALSE, mmap |-> FALSE, heap_limit |-> NoValue,
     encoding |-> NoValue, bom_sniffing |-> TRUE, passthru |-> FALSE,
     before_context |-> 0, after_context |-> 0]
Set(config, field, value) == [config EXCEPT ![field] = value]
BuildSearcher(config) ==
    IF config.passthru THEN [config EXCEPT !.before_context = 0, !.after_context = 0] ELSE config

\* HiArgs::searcher
SearcherConfig(args) ==
    LET term == IF args.crlf THEN "crlf" ELSE IF args.null_data THEN "nul" ELSE "lf"
        context == IF args.passthru THEN <<<<"passthru", TRUE>>>>
                   ELSE <<<<"before_context", args.before>>, <<"after_context", args.after>>>>
        encoding == CASE args.encoding = "auto" -> <<>>
                      [] args.encoding = "disabled" -> <<<<"bom_sniffing", FALSE>>>>
                      [] OTHER -> <<<<"encoding", args.encoding>>>>
        calls == <<<<"line_term", term>>, <<"multi_line", args.multiline>>, <<"mmap", args.mmap>>>>
                 \o context \o encoding
    IN  BuildSearcher(FoldLeft(LAMBDA c, call : Set(c, call[1], call[2]), DefaultConfig, calls))
=============================================================================
