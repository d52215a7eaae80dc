--------------------------- MODULE MCSearchWorker ---------------------------
(* SearchWorker with the configurations ripgrep builds: the standard, JSON   *)
(* and summary printers with and without paths, headings, separators,        *)
(* statistics and context, over two files.                                   *)
EXTENDS SearchWorker

Base == [printer |-> "Standard", kind |-> "Count", path |-> TRUE, heading |-> FALSE,
         separator |-> FALSE, stats |-> FALSE, granular |-> FALSE, perMatch |-> FALSE,
         excludeZero |-> TRUE, contexts |-> FALSE, passthru |-> FALSE, breaks |-> TRUE,
         inverted |-> FALSE, implicit |-> "quit", explicit |-> "convert",
         pre |-> FALSE, zip |-> FALSE]

StandardConfigs ==
    {[Base EXCEPT !.heading = TRUE, !.separator = TRUE],
     [Base EXCEPT !.separator = TRUE, !.contexts = TRUE, !.implicit = "convert"],
     [Base EXCEPT !.path = FALSE, !.heading = TRUE, !.perMatch = TRUE, !.pre = TRUE],
     [Base EXCEPT !.heading = TRUE, !.separator = TRUE, !.stats = TRUE, !.zip = TRUE],
     [Base EXCEPT !.contexts = TRUE, !.breaks = FALSE],
     [Base EXCEPT !.heading = TRUE, !.passthru = TRUE, !.inverted = TRUE, !.perMatch = TRUE],
     [Base EXCEPT !.stats = TRUE, !.implicit = "none", !.explicit = "none"]}
JSONConfigs ==
    {[Base EXCEPT !.printer = "JSON"],
     [Base EXCEPT !.printer = "JSON", !.contexts = TRUE, !.inverted = TRUE]}
SummaryConfigs ==
    {[Base EXCEPT !.printer = "Summary", !.kind = k, !.stats = s] :
        k \in Kinds, s \in BOOLEAN} \cup
    {[Base EXCEPT !.printer = "Summary", !.kind = k, !.excludeZero = FALSE,
                  !.inverted = v, !.path = ~v, !.implicit = "convert"] :
        k \in {"Count", "CountMatches"}, v \in BOOLEAN}

MCConfigs == StandardConfigs \cup JSONConfigs \cup SummaryConfigs

(* A file found by the walk, with or without binary data, and one the user   *)
(* named, which a preprocessor or a decompressor may take; stdin.            *)
Walked == [from |-> "path", explicit |-> FALSE, nul |-> FALSE, pre |-> FALSE, zip |-> FALSE]
MCHaystacks ==
    {Walked, [Walked EXCEPT !.nul = TRUE],
     [Walked EXCEPT !.nul = TRUE, !.explicit = TRUE, !.pre = TRUE, !.zip = TRUE],
     [Walked EXCEPT !.from = "stdin", !.explicit = TRUE]}
=============================================================================
