---------------------------- MODULE MCLineBuffer ----------------------------
(* Inputs of a few bytes: letters, line terminators and binary bytes.      *)
EXTENDS LineBuffer

CONSTANT MaxInput

Strategies == {<<0, NoLimit>>, <<1, 1>>, <<0, 3>>}
SmallInputs == UNION {[1 .. n -> Bytes] : n \in 0 .. MaxInput}
=============================================================================
