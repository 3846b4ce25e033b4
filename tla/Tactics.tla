------------------------------ MODULE Tactics ------------------------------
(* Threat analysis (crates/hexgame-core/src/threats.rs): which turns win at  *)
(* once, and which ones leave the opponent without a winning turn.  Search,  *)
(* the root of the MCTS and the training masks prune by its answers.  All    *)
(* definitions are functions of a board.                                     *)
EXTENDS HexBoard

(* full_board_threat_windows: the empty cells of every window that holds     *)
(* stones of one player only and lacks one or two.                           *)
WindowsOf(stones, player) ==
    {<<Along(s, Directions[dir], -off), dir>> :
        s \in {c \in DOMAIN stones : stones[c] = player},
        dir \in DOMAIN Directions, off \in Offsets}

ThreatWindows(stones, player) ==
    {WindowCells(w) \ DOMAIN stones :
        w \in {v \in WindowsOf(stones, player) :
                 LET taken == WindowCells(v) \cap DOMAIN stones
                 IN  /\ \A c \in taken : stones[c] = player
                     /\ Cardinality(taken) \in {WinLength - 2, WinLength - 1}}}

(* Mutant: the stones left this turn are not looked at. *)
WinningTurnsAnyLength(windows, remaining) == windows

(* winning_turns_from_windows; a turn is the set of its cells. *)
WinningTurns(windows, remaining) == {e \in windows : Cardinality(e) <= remaining}

(* Mutant: a cell of some threat is taken for a cell of all. *)
BlockCellsOfSome(windows) == UNION windows

(* block_constraint_from_windows: the cells that stop every threat alone,    *)
(* and the pairs that do together.                                           *)
BlockCells(windows) == {c \in UNION windows : \A e \in windows : c \in e}

BlockPairs(windows, remaining) ==
    IF remaining <= 1 THEN {}
    ELSE {pair \in {{c, d} : c \in UNION windows, d \in UNION windows} :
            /\ Cardinality(pair) = 2
            /\ \A e \in windows : e \cap pair # {}}

Status(kind, turns, cells, pairs) ==
    [kind |-> kind, turns |-> turns, cells |-> cells, pairs |-> pairs]
Quiet == Status("quiet", {}, {}, {})

TacticalStatus(b) ==
    LET winning == WinningTurns(ThreatWindows(b.stones, b.player), b.remaining)
        threats == ThreatWindows(b.stones, 1 - b.player)
        cells == BlockCells(threats)
        pairs == BlockPairs(threats, b.remaining)
    IN  IF Over(b) THEN Quiet
        ELSE IF winning # {} THEN Status("winning", winning, {}, {})
        ELSE IF threats = {} THEN Quiet
        ELSE IF cells = {} /\ pairs = {} THEN Status("unblockable", {}, {}, {})
        ELSE Status("block", {}, cells, pairs)

(* turn_satisfies_tactical. *)
Satisfies(status, turn) ==
    CASE status.kind = "winning" -> turn \in status.turns
      [] status.kind = "block"   -> turn \cap status.cells # {} \/ turn \in status.pairs
      [] OTHER                   -> TRUE

(* tactical_mask_cells; none for a status that masks nothing. *)
MaskCells(status) ==
    (UNION status.turns) \cup status.cells \cup (UNION status.pairs)

LiveCells(b, player) == UNION ThreatWindows(b.stones, player)

Pairs(cells) == {{c, d} : c \in cells, d \in cells} \ {{c} : c \in cells}

(* generate_threat_turns: the turns of the quiescence search, given the      *)
(* status. A quiet position gives at most these; the code keeps the first    *)
(* few of them.                                                              *)
ThreatTurns(b, status) ==
    LET theirs == LiveCells(b, 1 - b.player)
        ours == LiveCells(b, b.player)
    IN  CASE status.kind = "winning" -> status.turns
          [] status.kind = "unblockable" -> {}
          [] status.kind = "block" /\ b.remaining = 1 -> {{c} : c \in status.cells}
          [] status.kind = "block" /\ b.remaining # 1 ->
                status.pairs \cup {t \in Pairs(MaskCells(status)) : t \cap status.cells # {}}
          [] status.kind = "quiet" /\ b.remaining = 1 ->
                {{c} : c \in IF theirs # {} THEN theirs ELSE ours}
          [] status.kind = "quiet" /\ b.remaining # 1 -> Pairs(theirs \cup ours)

-----------------------------------------------------------------------------
(* Properties. *)

(* What a turn leads to, without any of the definitions above.               *)
WithTurn(stones, turn, player) ==
    [c \in DOMAIN stones \cup turn |-> IF c \in turn THEN player ELSE stones[c]]

CouldWin(stones, player) ==
    \E w \in WindowsOf(stones, player) :
        /\ Cardinality(WindowCells(w) \ DOMAIN stones) <= 2
        /\ \A c \in WindowCells(w) : c \in DOMAIN stones => stones[c] = player

(* The cells that matter, and the others the callers may play on.            *)
Playable(b) == (Offered \cup LiveCells(b, 0) \cup LiveCells(b, 1)) \ DOMAIN b.stones

TurnsOf(b, least) ==
    {t \in {{c, d} : c \in Playable(b), d \in Playable(b)} :
        Cardinality(t) \in least .. b.remaining}

InPlay(b) == load = NoLoad /\ ~Over(b) /\ b.history # <<>>

(* "Every turn that wins immediately": a turn of this player makes a line    *)
(* exactly when it contains one of the winning turns, for one and for two    *)
(* stones, also in the middle of a turn, and there are stones left for each. *)
WinningTurnsExact ==
    LET winning == TacticalStatus(board).turns
    IN  InPlay(board) =>
          /\ \A w \in winning : Cardinality(w) \in 1 .. board.remaining
          /\ \A t \in TurnsOf(board, 1) :
                HasLine(WithTurn(board.stones, t, board.player), board.player)
                    <=> \E w \in winning : w \subseteq t

(* A player who cannot win now keeps the opponent from winning next exactly  *)
(* with the turns that satisfy the status; "unblockable" means no turn does. *)
BlockingExact ==
    LET status == TacticalStatus(board)
    IN  InPlay(board) /\ status.kind # "winning" =>
            \A t \in TurnsOf(board, board.remaining) :
                CouldWin(WithTurn(board.stones, t, board.player), 1 - board.player)
                    <=> status.kind = "unblockable" \/ ~Satisfies(status, t)

(* The quiescence search's turns are legal and satisfy the status, and a     *)
(* threat that can be met is met with some turn, except where two stones are *)
(* left and all threats come down to one cell, as in O X X X _ O with lines  *)
(* of four: there is no second cell to pair it with, and quiesce returns the *)
(* static score, although it "resolves immediate threats" (search.rs:638).   *)
(* With two stones to place a quiet position has no threat on either side,   *)
(* so the code's last branch, pairs of live cells, is never taken.           *)
TurnsAreTactical(status, turns) ==
    /\ \A t \in turns : /\ Satisfies(status, t)
                        /\ Cardinality(t) \in 1 .. board.remaining
                        /\ \A c \in t : Valid(board, c)
    /\ status.kind = "winning" => turns # {}
    /\ status.kind = "block" =>
          (turns = {} <=> board.remaining = 2 /\ \E c \in MaskCells(status) : MaskCells(status) = {c})
    /\ status.kind = "quiet" /\ board.remaining = 2 => turns = {}
QuiescenceIsTactical ==
    InPlay(board) =>
        \A status \in {TacticalStatus(board)} : TurnsAreTactical(status, ThreatTurns(board, status))

(* The answers to a threat: none is missing and none is too many.            *)
DefencesExact == BlockingExact /\ QuiescenceIsTactical
=============================================================================
