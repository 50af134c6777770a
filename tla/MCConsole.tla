----------------------------- MODULE MCConsole -----------------------------
(* A screen of three rows of four cells and a line of at most five characters,
   which wraps once or twice; commands print nothing, lines, or text without
   a new line at its end, so that a prompt can begin in any column. *)
EXTENDS Console

MCGlyphs == {" ", ">", "a", "b"}
MCKeys == {"a", "b"}
MCOutputs == {<<>>, <<"b", "\n">>, <<"a">>, <<"a", "b", "a", "b", "a">>}

=============================================================================
