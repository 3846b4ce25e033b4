--------------------------- MODULE ReplayWindow ---------------------------
(* What a replay buffer promises the trainer: the last Width records that    *)
(* were appended, in order, each as it was stored, until it is cleared.      *)
EXTENDS Naturals, Sequences, SequencesExt

CONSTANTS Width, Stored

VARIABLE window

WindowInit == window = <<>>

Slide(s, x) == IF Len(s) < Width THEN Append(s, x) ELSE Append(Tail(s), x)

Add == \E x \in Stored : window' = Slide(window, x)
Drop == window' = <<>>

WindowSpec == WindowInit /\ [][Add \/ Drop]_window
=============================================================================
