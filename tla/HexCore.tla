------------------------------ MODULE HexCore ------------------------------
(* Axial hex coordinates and the windows a win can lie in                    *)
(* (crates/hexgame-core/src/core.rs, eval/grid.rs). A cell is <<q, r>>.      *)
EXTENDS Integers, Sequences, FiniteSets

CONSTANT WinLength      \* WIN_LENGTH: stones in a row that win, 6 in the code

ASSUME WinLengthOK == WinLength \in Nat /\ WinLength >= 4

Cells == Int \X Int
Origin == <<0, 0>>
Players == {0, 1}

(* HEX_DIRECTIONS: one vector for each of the three axes, in this order.     *)
Directions == << <<1, 0>>, <<0, 1>>, <<1, -1>> >>

Magnitude(n) == IF n < 0 THEN -n ELSE n
Larger(a, b) == IF a < b THEN b ELSE a
Smaller(a, b) == IF a < b THEN a ELSE b

HexDistance(a, b) ==
    LET dq == a[1] - b[1]
        dr == a[2] - b[2]
    IN  (Magnitude(dq) + Magnitude(dr) + Magnitude(dq + dr)) \div 2

(* The cell n steps from a cell along a direction.                           *)
Along(cell, d, n) == <<cell[1] + n * d[1], cell[2] + n * d[2]>>

(* The cells at most radius away.                                            *)
Ball(cell, radius) ==
    {h \in {<<cell[1] + dq, cell[2] + dr>> : dq \in -radius .. radius,
                                             dr \in -radius .. radius} :
        HexDistance(cell, h) <= radius}

(* A window is a line of WinLength cells: its first cell and its direction.  *)
Offsets == 0 .. WinLength - 1
CellAt(w, off) == Along(w[1], Directions[w[2]], off)
WindowCells(w) == {CellAt(w, off) : off \in Offsets}

(* A cell's place in a window, and whether it has one.                       *)
Steps(w, cell) == Larger(Magnitude(cell[1] - w[1][1]), Magnitude(cell[2] - w[1][2]))
Covers(w, cell) == Steps(w, cell) < WinLength /\ CellAt(w, Steps(w, cell)) = cell
=============================================================================
