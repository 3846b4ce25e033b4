----------------------------- MODULE EvalState -----------------------------
(* The incremental evaluation (crates/hexgame-core/src/eval): a pattern      *)
(* index for every window of a finite grid, and the score, threat counts and *)
(* hot windows derived from the indices, each kept up to date by adding and  *)
(* subtracting what one stone changes. All definitions are functions of the  *)
(* evaluation record; HexBoard holds one.                                    *)
EXTENDS HexCore, FiniteSetsExt

CONSTANTS
    GridRadius,      \* WIN_GRID_RADIUS, 30 in the code
    PatternValue     \* PATTERN_VALUES: the trained weight of every index

(* POW3; the index of a window has a digit of base 3 for each of its cells.  *)
Pow3[n \in 0 .. WinLength] == IF n = 0 THEN 1 ELSE 3 * Pow3[n - 1]
Patterns == 0 .. Pow3[WinLength] - 1

ASSUME GridOK ==
    /\ GridRadius \in Nat
    /\ PatternValue \in [Patterns -> Int]
    /\ PatternValue[0] = 0

GridWindows ==
    ((-GridRadius .. GridRadius) \X (-GridRadius .. GridRadius)) \X DOMAIN Directions

(* PATTERN_COUNTS: a digit 1 is a stone of player 0, a digit 2 one of 1.     *)
PatternCounts ==
    [idx \in Patterns |-> [p \in Players |->
        Cardinality({off \in Offsets : (idx \div Pow3[off]) % 3 = p + 1})]]

(* A window with stones of one player only threatens to become a line; the   *)
(* code's five, four and three stones of six are one, two and three missing. *)
Threats == {"fives", "fours", "threes"}
ThreatOf ==
    [idx \in Patterns |-> [p \in Players |->
        LET own == PatternCounts[idx][p]
        IN  IF PatternCounts[idx][1 - p] > 0 THEN "none"
            ELSE CASE own >= WinLength - 1 -> "fives"
                   [] own = WinLength - 2  -> "fours"
                   [] own = WinLength - 3  -> "threes"
                   [] OTHER                -> "none"]]

IsHot(idx, player) == ThreatOf[idx][player] \in {"fives", "fours"}

EmptyEval ==
    [indices |-> [w \in GridWindows |-> 0],
     score   |-> 0,
     counts  |-> [p \in Players |-> [t \in Threats |-> 0]],
     hot     |-> [p \in Players |-> {}],
     deltas  |-> <<>>]

-----------------------------------------------------------------------------
(* visit_windows, clipped to the grid: the windows a cell lies in.           *)
Touched(cell) == {w \in GridWindows : Covers(w, cell)}

(* classify_delta over all touched windows.                                  *)
CountChange(old, new, touched, player) ==
    [t \in Threats |->
        Cardinality({w \in touched : ThreatOf[new[w]][player] = t})
      - Cardinality({w \in touched : ThreatOf[old[w]][player] = t})]

ScoreChange(old, new, touched) ==
    MapThenSumSet(LAMBDA w : PatternValue[new[w]] - PatternValue[old[w]], touched)

(* Mutant: a window that was hot stays hot. *)
HotAfterKeeping(hot, old, new, touched) ==
    [p \in Players |-> hot[p] \cup {w \in touched : IsHot(new[w], p)}]

(* update_hot over all touched windows.                                      *)
HotAfter(hot, old, new, touched) ==
    [p \in Players |->
        (hot[p] \ {w \in touched : IsHot(old[w], p) /\ ~IsHot(new[w], p)})
          \cup {w \in touched : ~IsHot(old[w], p) /\ IsHot(new[w], p)}]

WithStone(indices, cell, val) ==
    [w \in GridWindows |->
        indices[w] + (IF Covers(w, cell) THEN val * Pow3[Steps(w, cell)] ELSE 0)]

EvalPlace(e, cell, player) ==
    LET val == player + 1
        new == WithStone(e.indices, cell, val)
        touched == Touched(cell)
        delta == [cell   |-> cell,
                  val    |-> val,
                  score  |-> ScoreChange(e.indices, new, touched),
                  counts |-> [p \in Players |->
                                 CountChange(e.indices, new, touched, p)]]
    IN  [indices |-> new,
         score   |-> e.score + delta.score,
         counts  |-> [p \in Players |->
                         [t \in Threats |-> e.counts[p][t] + delta.counts[p][t]]],
         hot     |-> HotAfter(e.hot, e.indices, new, touched),
         deltas  |-> Append(e.deltas, delta)]

EvalUnplace(e) ==
    LET delta == e.deltas[Len(e.deltas)]
        old == WithStone(e.indices, delta.cell, -delta.val)
    IN  [indices |-> old,
         score   |-> e.score - delta.score,
         counts  |-> [p \in Players |->
                         [t \in Threats |-> e.counts[p][t] - delta.counts[p][t]]],
         hot     |-> HotAfter(e.hot, e.indices, old, Touched(delta.cell)),
         deltas  |-> SubSeq(e.deltas, 1, Len(e.deltas) - 1)]

-----------------------------------------------------------------------------
(* assert_consistent_with_stones: everything recounted from the stones.      *)
IndexOf(stones, w) ==
    MapThenSumSet(LAMBDA off : (stones[CellAt(w, off)] + 1) * Pow3[off],
                  {off \in Offsets : CellAt(w, off) \in DOMAIN stones})

EvalConsistent(e, stones) ==
    LET idx == [w \in GridWindows |-> IndexOf(stones, w)]
    IN  /\ e.indices = idx
        /\ e.score = MapThenSumSet(LAMBDA w : PatternValue[idx[w]], GridWindows)
        /\ \A p \in Players :
              /\ e.hot[p] = {w \in GridWindows : IsHot(idx[w], p)}
              /\ \A t \in Threats : e.counts[p][t] =
                    Cardinality({w \in GridWindows : ThreatOf[idx[w]][p] = t})
=============================================================================
