----------------------------- MODULE MCConsole -----------------------------
(* Console for TLC: a line shorter than the buffer of three, one that just *)
(* fills it, one too long for it, and an empty one; the setups for which   *)
(* the runs state a property.                                              *)
EXTENDS Console

MCTexts == {<<>>, <<"a">>, <<"b", "a">>, <<"a", "b", "b", "a">>}

AtTerminal == [server |-> TRUE, terminal |-> TRUE, parts |-> FALSE, ends |-> TRUE]
OnPipe     == [AtTerminal EXCEPT !.terminal = FALSE]
WithParts  == [AtTerminal EXCEPT !.parts = TRUE, !.ends = FALSE]
OfClient   == {[server |-> FALSE, terminal |-> t, parts |-> TRUE, ends |-> TRUE] : t \in BOOLEAN}
MCSetups   == {AtTerminal} \cup OfClient

MCPipe  == {OnPipe}
MCParts == {WithParts}
MCEnds  == {AtTerminal}

=============================================================================
