-------------------------- MODULE MCCommandReader --------------------------
(* Children that write a few units in any order, for both kinds of builder. *)
EXTENDS CommandReader

CONSTANT MaxScript

Scripts ==
    {s \in UNION {[1 .. n -> {"out", "err", "close"}] : n \in 0 .. MaxScript} :
       \A i, j \in DOMAIN s : i < j /\ s[i] = "close" => s[j] = "err"}

AllSetups == [script : Scripts, status : {"ok", "fail"}, complains : BOOLEAN,
              async : BOOLEAN]

\* What a child may write to stderr at most.
ErrUnits(s) == Count(s.script, Len(s.script), "err") + (IF s.complains THEN 1 ELSE 0)

\* With a synchronous reader, children whose stderr fits into the pipe.
SafeSetups == {s \in AllSetups : s.async \/ ErrUnits(s) <= Capacity}

\* derive(Default) of CommandReaderBuilder: async_stderr is false.
DefaultSetups == {s \in AllSetups : ~s.async}

\* The documentation of CommandReader: by default stderr is read asynchronously,
\* which prevents deadlocks with children that write a lot to it.
DefaultNeverDeadlocks == SearchReturns
=============================================================================
