-------------------------- MODULE MCSelfPlayGame --------------------------
(* TLC instances of SelfPlayGame on a board of four cells: the second player *)
(* wins with a and b on his first turn, otherwise the first player wins with *)
(* the last stone.                                                           *)
EXTENDS SelfPlayGame

MCCells == {"o", "a", "b", "c"}
MCWins == {<<"o", "a", "b">>, <<"o", "b", "a">>}
            \cup {pos \in [1 .. 4 -> MCCells] : pos[1] = "o" /\ ToSet(pos) = MCCells}
MCThreatened == {<<"o", "c">>}
MCBlocks == {"a"}
MCStarts == {<<"o">>}

MCDense == {[graph |-> FALSE, pairs |-> FALSE, reuse |-> FALSE]}
MCReuse == {[graph |-> FALSE, pairs |-> FALSE, reuse |-> TRUE]}
=============================================================================
