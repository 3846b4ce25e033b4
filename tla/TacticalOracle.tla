--------------------------- MODULE TacticalOracle ---------------------------
(* The tactical labels of a position: the extension's tactical_oracle        *)
(* (hexgame-py/src/engine.rs), the scanner in Python that does the same      *)
(* without it (action_contract/tactical_oracle.py), and the suite that marks *)
(* a player by them (eval/tactical_suite.py). Labels are sets of cells;      *)
(* their order, and which of them lie outside the square, are left out.      *)
EXTENDS Tactics

Labels(status, win, forced, cover, pairs, four, five) ==
    [status |-> status, win |-> win, forced |-> forced, cover |-> cover, pairs |-> pairs,
     four |-> four, five |-> five]

OfSize(n, windows) == UNION {e \in windows : Cardinality(e) = n}

------------------------------------------------------------------------------
(* The extension: labels from the status, and from the hot windows that the  *)
(* evaluation keeps, as far as their empty cells are within the radius.      *)
EmptiesWithin(b, player, legal) ==
    {(WindowCells(w) \ DOMAIN b.stones) \cap legal : w \in b.eval.hot[player]}

EngineOracle(b, legal) ==
    LET status == TacticalStatus(b)
        own == EmptiesWithin(b, b.player, legal)
        theirs == EmptiesWithin(b, 1 - b.player, legal)
        met == status.cells \cup UNION status.pairs
        left == OfSize(1, theirs) \cup OfSize(2, theirs)
        forced == IF status.kind = "unblockable" THEN left ELSE met
    IN  Labels(status.kind, UNION status.turns, forced, forced, status.pairs, OfSize(2, own), OfSize(1, own))

------------------------------------------------------------------------------
(* The scanner, for the stones and any list of moves.                        *)
LegalFromStones(stones, radius) ==
    IF DOMAIN stones = {} THEN {Origin} ELSE (UNION {Ball(c, radius) : c \in DOMAIN stones}) \ DOMAIN stones

WouldWin(stones, player, cell) ==
    \E dir \in DOMAIN Directions :
        LET d == Directions[dir]
        IN  RunLength(stones, cell, d, player) + RunLength(stones, cell, <<-d[1], -d[2]>>, player) + 1 >= WinLength

(* A window is hot when nothing in it belongs to the opponent, its empty     *)
(* cells are all among the moves, and at most two are missing.               *)
HotWindows(stones, player, legal) ==
    {WindowCells(w) \ DOMAIN stones :
        w \in {v \in WindowsOf(stones, player) :
                 LET taken == WindowCells(v) \cap DOMAIN stones
                 IN  /\ \A c \in taken : stones[c] = player
                     /\ WindowCells(v) \ taken \subseteq legal
                     /\ Cardinality(taken) >= WinLength - 2}}

(* Mutant: one of the windows is enough. *)
CoverPairsOfSome(windows) ==
    {pair \in {{c, d} : c \in UNION windows, d \in UNION windows} :
        Cardinality(pair) = 2 /\ \E e \in windows : e \cap pair # {}}
CoverPairs(windows) ==
    {pair \in {{c, d} : c \in UNION windows, d \in UNION windows} :
        Cardinality(pair) = 2 /\ \A e \in windows : e \cap pair # {}}

FallbackStatus(win, forced, pairs, remaining) ==
    IF win # {} THEN "winning"
    ELSE IF forced = {} THEN "quiet"
    ELSE IF remaining <= 1 \/ pairs # {} THEN "block"
    ELSE "unblockable"

ScanOracle(stones, player, moves, remaining) ==
    LET legal == moves \ DOMAIN stones
        win == {c \in legal : WouldWin(stones, player, c)}
        own == HotWindows(stones, player, legal)
        theirs == HotWindows(stones, 1 - player, legal)
        pairs == CoverPairs(theirs)
        forced == UNION theirs
    IN  Labels(FallbackStatus(win, forced, pairs, remaining), win, forced, forced \cup UNION pairs, pairs,
               OfSize(2, own), OfSize(1, own))

(* scan_tactical_oracle_from_game: the labels that the moves of the caller   *)
(* have. The status is kept, whatever is left of them.                       *)
FilterToLegal(o, moves) ==
    Labels(o.status, o.win \cap moves, o.forced \cap moves, o.cover \cap moves,
           {p \in o.pairs : p \subseteq moves}, o.four \cap moves, o.five \cap moves)

OracleFromGame(b, moves, reach) == FilterToLegal(EngineOracle(b, reach), moves)

Critical(o) == o.win \cup o.forced \cup o.four \cup o.five \cup o.cover

------------------------------------------------------------------------------
(* A position of the suite, for the question it asks, from the labels o of a *)
(* scan (which is not told the stones left, and of which the status is not   *)
(* used). A question without cells expects the first legal move; the one for *)
(* covers, where nothing covers all, any pair of a cell on the left and one   *)
(* on the right. A player is asked for one stone, and for a second one where  *)
(* pairs are expected.                                                        *)
Earlier(a, b) ==
    LET da == HexDistance(a, Origin)
        db == HexDistance(b, Origin)
    IN  da < db \/ (da = db /\ (a[1] < b[1] \/ (a[1] = b[1] /\ a[2] <= b[2])))
FirstMove(legal) == {CHOOSE c \in legal : \A d \in legal : Earlier(c, d)}

LeftAndRight(cells, middle) == {p \in Pairs(cells) : \E c, d \in p : c[1] < middle /\ d[1] >= middle}

SuitePosition(question, o, legal, middle) ==
    LET asked == CASE question = "win" -> o.win [] question = "block" -> o.forced
                   [] question = "four" -> o.four [] question = "five" -> o.five
                   [] question = "cover" -> o.cover [] question = "any" -> Critical(o)
        cells == IF asked = {} THEN FirstMove(legal) ELSE asked
    IN  [cells |-> cells,
         pairs |-> IF question = "cover" /\ o.pairs = {} THEN LeftAndRight(cells, middle) ELSE o.pairs]

Passes(position, first, second) ==
    IF position.pairs # {} THEN {first, second} \in position.pairs ELSE first \in position.cells

------------------------------------------------------------------------------
(* The two oracles tell a caller the same, for all moves within reach: the   *)
(* same winning cells and turns that block, except where two stones win, for *)
(* which the scanner does not look, and where a single cell is threatened    *)
(* with two stones left, which the scanner takes for a lost position.        *)
SameLabels(b, e, s) ==
    /\ e.four \subseteq s.four /\ e.five \subseteq s.five
    /\ s.win = UNION {t \in TacticalStatus(b).turns : Cardinality(t) = 1}
    /\ e.status # "winning" =>
          /\ e.forced \subseteq s.forced /\ s.cover = s.forced
          /\ b.remaining = 2 => e.pairs = s.pairs
          /\ e.status = "block" /\ b.remaining = 2 /\ Cardinality(s.forced) # 1 => UNION s.pairs = e.forced
    /\ e.status = s.status \/ (e.status = "winning" /\ s.win = {})
          \/ (b.remaining = 2 /\ Cardinality(s.forced) = 1)
          \/ (b.remaining = 1 /\ e.status = "unblockable" /\ s.status = "block")

(* What a label is for: a stone on a winning cell wins; of the turns on cover *)
(* cells, those that the suite passes are the ones that leave the opponent    *)
(* without a win, if there are any.                                           *)
LabelsHold(b, s, legal) ==
    LET position == SuitePosition("cover", s, legal, 0)
    IN  /\ \A c \in s.win : HasLine(WithTurn(b.stones, {c}, b.player), b.player)
        /\ s.pairs # {} =>
              \A t \in Pairs(s.cover) :
                  (\E c \in t : Passes(position, c, CHOOSE d \in t : d # c))
                      <=> ~CouldWin(WithTurn(b.stones, t, b.player), 1 - b.player)

OracleAgrees ==
    LET b == board
        legal == LegalFromStones(b.stones, PlacementRadius)
        e == OracleFromGame(b, legal, legal)
        s == ScanOracle(b.stones, b.player, legal, b.remaining)
    IN  InPlay(b) => SameLabels(b, e, s) /\ LabelsHold(b, s, legal)

(* What search, masks, candidate rows and the suite go by is the truth about *)
(* every turn: those that win, those that leave the opponent a win, and the  *)
(* labels made of them (tactical_status, generate_threat_turns,              *)
(* tactical_oracle, scan_tactical_oracle, evaluate_tactical_suite).          *)
ThreatsExact == WinningTurnsExact /\ DefencesExact /\ OracleAgrees
=============================================================================
