----------------------------- MODULE MCFraming -----------------------------
(***************************************************************************)
(* Framing for TLC: the data of a Push is empty, looks like the end of a   *)
(* line or of a header, or is longer than what a buffer may have read      *)
(* ahead of it.                                                            *)
(***************************************************************************)
EXTENDS Framing

X == <<"data", 0>>
Like == <<<<"type", 2>>, NL, <<"header", 2>>, NUL, NL>>
MCPayloads == {<<>>, Like, <<X, NL, X, X, NUL, X, X>>}

=============================================================================
