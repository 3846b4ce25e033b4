--------------------------- MODULE MCMctsCaller ---------------------------
(* TLC instances of MctsCaller: a board of three cells, where the second     *)
(* player wins by taking a and then b.                                       *)
EXTENDS MctsCaller

MCWins == {<<"o", "a", "b">>}
MCThreatened == {<<"o", "b">>}
MCStarts == {<<"o">>}
MCCells == {"o", "a", "b"}
MCBlocks == {"a"}
=============================================================================
